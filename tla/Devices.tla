------------------------------- MODULE Devices -------------------------------
(***************************************************************************)
(* Threads that use the devices, on one processor: lhd_io() of             *)
(* kern/dev/lamebus/lhd.c, the operations of emu.c, con_io() and getch()   *)
(* of kern/dev/generic/console.c, kprintf(), under the interrupts of       *)
(* lamebus_interrupt() and the preemption of hardclock().                  *)
(*                                                                         *)
(* A step of a thread is what it does up to the next place where another   *)
(* thread may come in between.  An interrupt that the clock turns into a   *)
(* switch stays half-way on the stack of the thread it came to: frame.     *)
(***************************************************************************)
EXTENDS Drivers

CONSTANTS
  THREADS,   \* the threads
  CASES,     \* machines and what they are asked to do: the cards in the slots,
             \* and a function from THREADS to jobs
  UNITS,     \* sectors of the disk, files of the emulator
  MAXDUDS,   \* the dud interrupts the bus puts up with (10000)
  MAXTYPED   \* bound: characters typed

VARIABLES
  m,         \* the machine
  job, pc, i, got,   \* of every thread: its job, where it is in it, the round
                     \* of its loop, and what it has read
  err,       \* of every thread: the error its job ended with
  cur,       \* curthread; NOBODY while the scheduler idles
  frame,     \* of every thread, and of the idle loop: the interrupt in progress
  typed      \* the characters typed so far

vars == <<m, job, pc, i, got, err, cur, frame, typed>>

NOFRAME == [irqs |-> {}, slot |-> 0, duds |-> 0, reload |-> FALSE, on |-> FALSE]

\* The pc at which a job begins.
Start(j) == IF j.kind = "disk" THEN "clear" ELSE "lock"

Init ==
  /\ \E c \in CASES : m = Attached(c.card, UNITS, 0) /\ job = c.job
  /\ pc = [t \in THREADS |-> Start(job[t])]
  /\ i = [t \in THREADS |-> 1]
  /\ got = [t \in THREADS |-> <<>>]
  /\ err = [t \in THREADS |-> "ok"]
  /\ cur = NOBODY
  /\ frame = [t \in THREADS \cup {NOBODY} |-> NOFRAME]
  /\ typed = 0

-----------------------------------------------------------------------------
(* The processor.                                                          *)

\* The lock a job runs under.
LockOf(j) == CASE j.kind = "emu" -> "e_lock"
               [] j.kind = "getch" -> "con_userlock_read"
               [] j.kind = "write" -> "con_userlock_write"
               [] OTHER -> "kprintf_lock"

\* The thread would sleep in P() or lock_acquire().
Blocked(t) ==
  CASE pc[t] = "clear" -> m.lhd.clear = 0
    [] pc[t] = "done" -> m.lhd.done = 0
    [] pc[t] = "lock" -> m.lock[LockOf(job[t])] # NOBODY
    [] pc[t] = "sem" -> m.emu.sem = 0
    [] pc[t] = "wsem" -> m.con.wsem = 0
    [] pc[t] = "rsem" -> m.con.rsem = 0
    [] OTHER -> FALSE

Stopped(t) == pc[t] = "end" \/ Blocked(t)

\* The scheduler may choose t.
Ready(t) == frame[t].on \/ ~Stopped(t)

InHandler == frame[cur].on

\* t runs, outside interrupts, and is at the place p.
At(t, p) == cur = t /\ ~InHandler /\ ~m.b.panic /\ pc[t] = p /\ ~Blocked(t)

\* A step of t that leaves the machine as n, t at p.
Step(t, n, p) ==
  /\ m' = n
  /\ pc' = [pc EXCEPT ![t] = p]
  /\ UNCHANGED <<job, cur, frame, typed>>

Same == UNCHANGED <<i, got, err>>

\* A thread that sleeps or ends hands the processor on.
mi_switch(t) ==
  /\ ~InHandler /\ ~m.b.panic
  /\ cur # NOBODY => Stopped(cur)
  /\ Ready(t) /\ cur' = t
  /\ UNCHANGED <<m, job, pc, i, got, err, frame, typed>>

cpu_idle ==
  /\ cur # NOBODY /\ ~InHandler /\ ~m.b.panic
  /\ Stopped(cur) /\ \A t \in THREADS : ~Ready(t)
  /\ cur' = NOBODY
  /\ UNCHANGED <<m, job, pc, i, got, err, frame, typed>>

-----------------------------------------------------------------------------
(* The disk: lhd_io().                                                     *)

Sector(t) == job[t].on[i[t]]

DiskClear(t) ==
  At(t, "clear") /\ Step(t, [m EXCEPT !.lhd.clear = @ - 1], "fill") /\ Same

\* A write moves its data to the card's buffer.
DiskFill(t) ==
  /\ At(t, "fill")
  /\ Step(t, IF job[t].write THEN [m EXCEPT !.lhd.buf = job[t].data] ELSE m, "go")
  /\ Same

\* Mutant of DiskGo: every round is about the first sector.
DiskGo_first(t) ==
  At(t, "go") /\ Step(t, lhd_wreg(m, job[t].write, job[t].on[1]), "done") /\ Same

DiskGo(t) ==
  At(t, "go") /\ Step(t, lhd_wreg(m, job[t].write, Sector(t)), "done") /\ Same

DiskDone(t) ==
  /\ At(t, "done")
  /\ Step(t, [m EXCEPT !.lhd.done = @ - 1], "take")
  /\ err' = [err EXCEPT ![t] = m.lhd.result] /\ UNCHANGED <<i, got>>

\* A read that succeeded moves the data out; then the next thread may go on.
DiskTake(t) ==
  /\ At(t, "take")
  /\ Step(t, [m EXCEPT !.lhd.clear = @ + 1],
          IF err[t] = "ok" /\ i[t] < Len(job[t].on) THEN "clear" ELSE "end")
  /\ got' = IF err[t] = "ok" /\ ~job[t].write
            THEN [got EXCEPT ![t] = Append(@, m.lhd.buf)] ELSE got
  /\ i' = [i EXCEPT ![t] = @ + 1] /\ UNCHANGED err

-----------------------------------------------------------------------------
(* Jobs under a lock: the emulator's files and the console.                *)

lock_acquire(t) ==
  /\ At(t, "lock")
  /\ Step(t, [m EXCEPT !.lock[LockOf(job[t])] = t],
          CASE job[t].kind = "emu" -> "regs" [] job[t].kind = "getch" -> "rsem"
            [] OTHER -> "wsem")
  /\ Same

\* Mutant of lock_release: a way out on which the lock is kept.
lock_release_kept(t) == At(t, "unlock") /\ Step(t, m, "end") /\ Same

lock_release(t) ==
  /\ At(t, "unlock")
  /\ Step(t, [m EXCEPT !.lock[LockOf(job[t])] = NOBODY], "end") /\ Same

EmuRegs(t) == At(t, "regs") /\ Step(t, emu_wreg(m, Sector(t)), "oper") /\ Same

EmuOper(t) ==
  /\ At(t, "oper")
  /\ Step(t, emu_oper(m, IF job[t].write THEN "write" ELSE "read", job[t].data),
          "sem")
  /\ Same

emu_waitdone(t) ==
  /\ At(t, "sem")
  /\ Step(t, [m EXCEPT !.emu.sem = @ - 1], "use")
  /\ err' = [err EXCEPT ![t] = m.emu.result] /\ UNCHANGED <<i, got>>

EmuTake(t) ==
  /\ At(t, "use") /\ Step(t, m, "unlock")
  /\ got' = IF err[t] = "ok" /\ ~job[t].write
            THEN [got EXCEPT ![t] = Append(@, m.emu.iobuf)] ELSE got
  /\ UNCHANGED <<i, err>>

\* putch() with interrupts on: P, then cs_send.
putch_intr(t) ==
  At(t, "wsem") /\ Step(t, [m EXCEPT !.con.wsem = @ - 1], "send") /\ Same

Send(t) ==
  /\ At(t, "send")
  /\ Step(t, lser_write(m, <<t, i[t]>>),
          IF i[t] < job[t].n THEN "wsem" ELSE "unlock")
  /\ i' = [i EXCEPT ![t] = @ + 1] /\ UNCHANGED <<got, err>>

\* getch(): P, then what the last interrupt left.
getch_intr(t) ==
  At(t, "rsem") /\ Step(t, [m EXCEPT !.con.rsem = @ - 1], "char") /\ Same

GetChar(t) ==
  /\ At(t, "char")
  /\ Step(t, m, IF i[t] < job[t].n THEN "rsem" ELSE "unlock")
  /\ got' = [got EXCEPT ![t] = Append(@, m.con.gotchar)]
  /\ i' = [i EXCEPT ![t] = @ + 1] /\ UNCHANGED err

Run(t) ==
  \/ DiskClear(t) \/ DiskFill(t) \/ DiskGo(t) \/ DiskDone(t) \/ DiskTake(t)
  \/ lock_acquire(t) \/ lock_release(t)
  \/ EmuRegs(t) \/ EmuOper(t) \/ emu_waitdone(t) \/ EmuTake(t)
  \/ putch_intr(t) \/ Send(t) \/ getch_intr(t) \/ GetChar(t)

-----------------------------------------------------------------------------
(* Interrupts, on the stack of whoever runs.                               *)

Quietly == UNCHANGED <<job, pc, i, got, err, typed>>

\* mips_interrupt() calls lamebus_interrupt(), which reads what is signalled.
lamebus_interrupt ==
  /\ ~InHandler /\ ~m.b.panic /\ CTLREG_IRQS(m) # {}
  /\ frame' = [frame EXCEPT ![cur] = [irqs |-> CTLREG_IRQS(m), slot |-> 0,
                 duds |-> 0, reload |-> FALSE, on |-> TRUE]]
  /\ UNCHANGED <<m, cur>> /\ Quietly

\* A card without a driver.
Unknown == \E s \in Slots : m.b.card[s] = "other"

\* Such a card signalled, and does not any more when the bus looks: the dud is
\* counted and nothing else done.
Stray ==
  /\ Unknown /\ ~InHandler /\ ~m.b.panic
  /\ CTLREG_IRQS(m) = {} /\ m.b.duds <= MAXDUDS
  /\ m' = lamebus_stray(m)
  /\ UNCHANGED <<cur, frame>> /\ Quietly

\* The slots the loop has still to look at.
Pending == {s \in frame[cur].irqs : s >= frame[cur].slot}

Looking == InHandler /\ ~m.b.panic /\ ~frame[cur].reload /\ Pending # {}

Dud ==
  /\ Looking /\ ~Handled(m, Min(Pending))
  /\ m' = [m EXCEPT !.b.duds = @ + 1]
  /\ frame' = [frame EXCEPT ![cur].slot = Min(Pending) + 1, ![cur].duds = @ + 1]
  /\ UNCHANGED cur /\ Quietly

\* The handler of a slot.  The clock's ends in thread_yield(), which leaves
\* the idle loop alone.
Handle ==
  /\ Looking /\ Handled(m, Min(Pending))
  /\ LET s == Min(Pending) IN
     /\ m' = Handler(m, s)
     /\ frame' = [frame EXCEPT ![cur].slot = s + 1, ![cur].reload = TRUE]
     /\ IF ltimer_clock(m, s) /\ cur # NOBODY
        THEN \E t \in THREADS : (Ready(t) \/ t = cur) /\ cur' = t
        ELSE UNCHANGED cur
  /\ Quietly

\* Mutant of Reload: the loop goes on with what was signalled at first.
Reload_stale ==
  /\ InHandler /\ ~m.b.panic /\ frame[cur].reload
  /\ frame' = [frame EXCEPT ![cur].reload = FALSE]
  /\ UNCHANGED <<m, cur>> /\ Quietly

\* What is signalled is read again after every handler.
Reload ==
  /\ InHandler /\ ~m.b.panic /\ frame[cur].reload
  /\ frame' = [frame EXCEPT ![cur].reload = FALSE, ![cur].irqs = CTLREG_IRQS(m)]
  /\ UNCHANGED <<m, cur>> /\ Quietly

Return ==
  /\ InHandler /\ ~m.b.panic /\ ~frame[cur].reload /\ Pending = {}
  /\ m' = lamebus_end(m, frame[cur].duds, MAXDUDS)
  /\ frame' = [frame EXCEPT ![cur] = NOFRAME]
  /\ UNCHANGED cur /\ Quietly

-----------------------------------------------------------------------------
(* What the cards do.                                                      *)

Card(n) == ~m.b.panic /\ m' = n /\ UNCHANGED <<cur, frame>>

LhdFinishes ==
  /\ m.lhd.stat = "working"
  /\ \E res \in Finished : Card(DiskWorks(m, res)) /\ Quietly

EmuFinishes ==
  /\ m.emu.op # NONE
  /\ \E res \in Finished : Card(EmuWorks(m, res)) /\ Quietly

LserFinishes == m.ser.chr # NOCHAR /\ Card(SerialSends(m)) /\ Quietly

Tick ==
  /\ m.b.hardclock \notin m.tick
  /\ Card([m EXCEPT !.tick = @ \cup {m.b.hardclock}]) /\ Quietly

\* Bound: only while there is a reader at all.
Type ==
  /\ typed < MAXTYPED /\ typed' = typed + 1
  /\ \E t \in THREADS : job[t].kind = "getch"
  /\ Card(SerialReceives(m, typed + 1))
  /\ UNCHANGED <<job, pc, i, got, err>>

\* The card without a driver signals, or stops to.
Noise ==
  /\ Unknown /\ Card([m EXCEPT !.noise = ~@]) /\ Quietly

Cards == LhdFinishes \/ EmuFinishes \/ LserFinishes \/ Tick \/ Type \/ Noise

Interrupts == lamebus_interrupt \/ Stray \/ Dud \/ Handle \/ Reload \/ Return

Next ==
  \/ \E t \in THREADS : Run(t) \/ mi_switch(t)
  \/ cpu_idle \/ Interrupts \/ Cards

\* Cards finish what they were told, the processor goes on, and the queue of
\* the scheduler lets every thread have its turn.
Fairness ==
  /\ WF_vars(LhdFinishes) /\ WF_vars(EmuFinishes) /\ WF_vars(LserFinishes)
  /\ SF_vars(lamebus_interrupt) /\ WF_vars(Dud \/ Handle \/ Reload \/ Return)
  /\ WF_vars(cpu_idle)
  /\ \A t \in THREADS :
       SF_vars(Run(t)) /\ SF_vars(cur' = t /\ (mi_switch(t) \/ Handle))

Spec == Init /\ [][Next]_vars /\ Fairness

-----------------------------------------------------------------------------
(* Properties.                                                             *)

\* How many threads are at one of the places.
Count(places) == Cardinality({t \in THREADS : pc[t] \in places})
One(b) == IF b THEN 1 ELSE 0

\* The disk has one user at a time, and each operation one completion: the
\* semaphore lh_done plus the operation on the card is the number of threads
\* that wait for one, though the interrupt may come to any thread and be
\* interrupted by the clock itself.
DiskCompletesOnce ==
  /\ m.lhd.clear + Count({"fill", "go", "done", "take"}) = 1
  /\ m.lhd.done + One(m.lhd.stat # "idle") = Count({"done"})

\* The same of the emulator, whose handler does not ask whether there is a
\* result: it must never be called without one.
EmuCompletesOnce ==
  m.emu.sem + One(m.emu.op # NONE) + One(m.emu.reg # NONE) = Count({"sem"})

\* A thread whose operation succeeded has the data of its own sector or file
\* in the card's buffer, or its own data on the disk or in the file.
Served ==
  \A t \in THREADS : err[t] = "ok" =>
    /\ pc[t] = "take" => m.lhd.disk[Sector(t)]
                           = IF job[t].write THEN job[t].data ELSE m.lhd.buf
    /\ pc[t] = "use" => m.emu.file[Sector(t)]
                           = IF job[t].write THEN job[t].data ELSE m.emu.iobuf

\* There is one permission to write to the serial line: the semaphore has it,
\* a thread about to send, the character on its way, or the interrupt that is
\* to give it back, also when messages are printed with interrupts off.
LineClear ==
  ~m.b.panic =>
    /\ m.con.wsem + Count({"send"}) + One(m.ser.wbusy) = 1
    /\ m.ser.wbusy <=> m.ser.chr # NOCHAR \/ m.ser.wirq

\* Every operation of the three drivers that wait for an interrupt completes
\* once: no completion is lost and none is given twice, whatever thread the
\* interrupt comes to.
CompletesOnce == DiskCompletesOnce /\ EmuCompletesOnce /\ LineClear

\* What t printed, as it came out of the line.
Printed(t) == SelectSeq(m.out, LAMBDA ch : ch[1] = t)

\* Every character printed comes out once and in order, and the output of a
\* thread is not torn apart by another that prints under the same lock.
OutputWhole ==
  /\ \A t \in THREADS :
       /\ Printed(t) = [n \in 1 .. Len(Printed(t)) |-> <<t, n>>]
       /\ Len(Printed(t)) + One(m.ser.chr[1] = t)
            = IF job[t].kind \in {"write", "kprintf"} THEN i[t] - 1 ELSE 0
  /\ \A a, b, c \in DOMAIN m.out :
       a < b /\ b < c /\ m.out[a][1] = m.out[c][1]
         /\ job[m.out[a][1]].kind = job[m.out[b][1]].kind
       => m.out[b][1] = m.out[a][1]

\* Every card with a driver was attached, to a slot of its own, under a number
\* of its own; the first timer is the clock, the first serial line the console.
AttachedOnce ==
  LET b == m.b
      known(s) == \E n \in DOMAIN Kinds : Kinds[n] = b.card[s]
  IN  /\ \A s \in Slots : known(s) => s \in b.inuse /\ b.unit[s] # NOSLOT
      /\ \A s, r \in Slots : known(s) /\ s # r /\ b.card[s] = b.card[r] =>
           b.unit[s] # b.unit[r]
      /\ b.hardclock = Min({s \in Slots : b.card[s] = "ltimer"})
      /\ b.con = Min({s \in Slots : b.card[s] = "lser"})

\* Whatever the order of the interrupts, and however the clock preempts,
\* whoever uses the disk, the emulator or the line is served in the end,
\* unless the machine goes down.  (A reader waits for someone to type.)  It goes
\* down only in an interrupt that met a dud itself: stray interrupts that have
\* passed do not bring it down, however many they were.
JobsFinish ==
  /\ \A t \in THREADS : <>(pc[t] = "end" \/ m.b.panic \/ job[t].kind = "getch")
  /\ [][m'.b.panic => frame[cur].duds > 0]_vars

\* A character typed is handed to one reader, once.  This does not hold:
\* con_input() overwrites a character nobody has read yet.
TypedOnce ==
  \A t, u \in THREADS : \A a \in DOMAIN got[t], b \in DOMAIN got[u] :
    /\ job[t].kind = "getch" /\ job[u].kind = "getch"
    /\ <<t, a>> # <<u, b>>
    => got[t][a] # got[u][b]
=============================================================================
