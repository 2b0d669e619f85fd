------------------------------ MODULE Threads ------------------------------
(***************************************************************************)
(* The thread system of the kernel: kern/thread/thread.c, scheduler.c,     *)
(* hardclock.c and the context switch of kern/arch/mips/mips/pcb.c.        *)
(*                                                                         *)
(* There is one processor.  Code between splhigh() and splx() runs without *)
(* interruption, and a context switch only happens inside mi_switch(), so  *)
(* every action below is one such stretch of code, up to and including the *)
(* switch it ends with.                                                    *)
(*                                                                         *)
(* The kernel keeps one array of sleeping threads, each tagged with the    *)
(* address it sleeps on.  thread_wakeup scans the array in order for one   *)
(* address; nothing depends on the relative order of threads that sleep on *)
(* different addresses.  The model therefore keeps the array split by      *)
(* address: sleepers[a] is the subsequence of the array sleeping on a.     *)
(***************************************************************************)
EXTENDS Integers, Sequences, FiniteSets, Functions

CONSTANTS
  Threads,  \* the thread structures that can exist
  Addrs,    \* the sleep addresses in use
  lbolt,    \* the address woken once a second
  HZ,       \* clock interrupts per second
  NULL      \* the null thread pointer

ASSUME ThreadsAssumption ==
  /\ IsFiniteSet(Threads)
  /\ NULL \notin Threads
  /\ lbolt \in Addrs
  /\ HZ \in Nat \ {0}

VARIABLES
  curthread,        \* the running thread, NULL while the scheduler idles
  curkstack,        \* the thread whose kernel stack the processor is on
  runqueue,         \* the scheduler's queue of runnable threads
  sleepers,         \* the sleeping threads, by address, oldest first
  zombies,          \* exited threads not yet destroyed
  numthreads,       \* outstanding threads, not counting zombies
  fresh,            \* threads that have not run yet: they start in
                    \* mi_threadstart() instead of returning from mi_switch()
  in_interrupt,     \* 1 while an interrupt handler executes
  pcb_ininterrupt,  \* in_interrupt of the threads switched away from
  lbolt_counter     \* clock ticks since lbolt was last woken

lists == <<runqueue, sleepers, zombies, fresh, numthreads>>
processor == <<curthread, curkstack, in_interrupt, pcb_ininterrupt>>
threadvars == <<lists, processor, lbolt_counter>>

-----------------------------------------------------------------------------
(* The threads that exist, by where the kernel can find them.              *)

Sleeping == UNION {Range(sleepers[a]) : a \in Addrs}

Outstanding == ({curthread} \ {NULL}) \cup Range(runqueue) \cup Sleeping

Existing == Outstanding \cup zombies

\* in_interrupt as thread t finds it when it runs.
InInterrupt(t) == IF t = curkstack THEN in_interrupt ELSE pcb_ininterrupt[t]

\* A thread executes, outside any interrupt handler.
InThread == curthread # NULL /\ in_interrupt = 0

-----------------------------------------------------------------------------
(* Context switch.                                                         *)

\* Mutant of md_switch: in_interrupt is left global instead of per thread.
md_switch_global(next, irq) ==
  /\ curkstack' = next
  /\ in_interrupt' = irq
  /\ UNCHANGED pcb_ininterrupt

\* Save in_interrupt (worth irq here) for the old thread, load the new one's.
md_switch(next, irq) ==
  /\ curkstack' = next
  /\ IF next = curkstack
       THEN in_interrupt' = irq /\ UNCHANGED pcb_ininterrupt
       ELSE /\ in_interrupt' = pcb_ininterrupt[next]
            /\ pcb_ininterrupt' = [pcb_ininterrupt EXCEPT ![curkstack] = irq]

\* The zombies z after next has resumed.  A thread that comes back out of
\* mi_switch() destroys them; a fresh one goes elsewhere.
exorcise(next, z) == IF next \in fresh THEN z ELSE {}

\* Run the head of the run queue rq.
RunHead(rq, z, irq) ==
  LET next == Head(rq) IN
    /\ curthread' = next
    /\ runqueue' = Tail(rq)
    /\ md_switch(next, irq)
    /\ fresh' = fresh \ {next}
    /\ zombies' = exorcise(next, z)

\* Mutant of mi_switch: exorcise() before scheduler() instead of after it.
mi_switch_early(rq, z, irq) ==
  \/ rq # <<>> /\ RunHead(rq, {}, irq)
  \/ /\ rq = <<>>
     /\ curthread' = NULL
     /\ runqueue' = rq
     /\ zombies' = {}
     /\ in_interrupt' = irq
     /\ UNCHANGED <<curkstack, pcb_ininterrupt, fresh>>

\* mi_switch() once the current thread is on its list: rq and z are the run
\* queue and zombies then.  With nothing to run it waits in scheduler(), on
\* the old thread's stack and with curthread NULL.
mi_switch(rq, z, irq) ==
  \/ rq # <<>> /\ RunHead(rq, z, irq)
  \/ /\ rq = <<>>
     /\ curthread' = NULL
     /\ runqueue' = rq
     /\ zombies' = z
     /\ in_interrupt' = irq
     /\ UNCHANGED <<curkstack, pcb_ininterrupt, fresh>>

\* scheduler() leaves its idle loop when something became runnable.
LeaveIdle ==
  /\ curthread = NULL
  /\ runqueue # <<>>
  /\ RunHead(runqueue, zombies, in_interrupt)
  /\ UNCHANGED <<sleepers, numthreads, lbolt_counter>>

-----------------------------------------------------------------------------
(* Operations of the running thread.                                       *)

\* The successful part of thread_fork() and sys_fork().  Their failures
\* return before any list is touched.
thread_fork(t) ==
  /\ InThread
  /\ t \in Threads \ Existing
  /\ runqueue' = Append(runqueue, t)
  /\ fresh' = fresh \cup {t}
  /\ pcb_ininterrupt' = [pcb_ininterrupt EXCEPT ![t] = 0]
  /\ numthreads' = numthreads + 1
  /\ UNCHANGED <<curthread, curkstack, sleepers, zombies, in_interrupt,
                 lbolt_counter>>

thread_exit ==
  /\ InThread
  /\ numthreads' = numthreads - 1
  /\ mi_switch(runqueue, zombies \cup {curthread}, in_interrupt)
  /\ UNCHANGED <<sleepers, lbolt_counter>>

thread_yield ==
  /\ InThread
  /\ mi_switch(Append(runqueue, curthread), zombies, in_interrupt)
  /\ UNCHANGED <<sleepers, numthreads, lbolt_counter>>

\* Sleep on addr, where rq and sl are the run queue and the sleepers after
\* the wakeups the thread did in the same stretch of code.
SleepAfter(rq, sl, addr) ==
  /\ sleepers' = [sl EXCEPT ![addr] = Append(@, curthread)]
  /\ mi_switch(rq, zombies, in_interrupt)
  /\ UNCHANGED <<numthreads, lbolt_counter>>

thread_sleep(addr) == SleepAfter(runqueue, sleepers, addr)

\* The run queue and the sleepers after thread_wakeup(addr).
WokenQueue(addr) == runqueue \o sleepers[addr]
WokenSleepers(addr) == [sleepers EXCEPT ![addr] = <<>>]

thread_wakeup(addr) ==
  /\ runqueue' = WokenQueue(addr)
  /\ sleepers' = WokenSleepers(addr)
  /\ UNCHANGED <<processor, zombies, fresh, numthreads, lbolt_counter>>

\* Mutant of thread_wakeup_one: the thread stays among the sleepers.
thread_wakeup_one_keep(addr) ==
  /\ IF sleepers[addr] = <<>>
       THEN UNCHANGED runqueue
       ELSE runqueue' = Append(runqueue, Head(sleepers[addr]))
  /\ UNCHANGED <<sleepers, processor, zombies, fresh, numthreads, lbolt_counter>>

\* Wakes the thread that has slept on addr for longest, if there is one.
thread_wakeup_one(addr) ==
  /\ IF sleepers[addr] = <<>>
       THEN UNCHANGED <<runqueue, sleepers>>
       ELSE /\ runqueue' = Append(runqueue, Head(sleepers[addr]))
            /\ sleepers' = [sleepers EXCEPT ![addr] = Tail(@)]
  /\ UNCHANGED <<processor, zombies, fresh, numthreads, lbolt_counter>>

-----------------------------------------------------------------------------
(* Interrupts.                                                             *)

\* The clock interrupt about to be taken is the HZth since the last wakeup.
SecondPassed == lbolt_counter + 1 >= HZ

\* Mutant of PreemptWith: hardclock() does not yield.
PreemptWith_none(rq) == runqueue' = rq /\ UNCHANGED <<processor, zombies, fresh>>

\* thread_yield() inside the handler, with run queue rq: it preempts a
\* running thread, and returns at once when the scheduler idles.
PreemptWith(rq) ==
  \/ /\ curthread # NULL
     /\ mi_switch(Append(rq, curthread), zombies, 1)
  \/ /\ curthread = NULL
     /\ runqueue' = rq
     /\ UNCHANGED <<processor, zombies, fresh>>

\* The clock interrupt.
hardclock ==
  /\ curthread = NULL \/ in_interrupt = 0
  /\ UNCHANGED numthreads
  /\ \/ /\ SecondPassed
        /\ lbolt_counter' = 0
        /\ sleepers' = WokenSleepers(lbolt)
        /\ PreemptWith(WokenQueue(lbolt))
     \/ /\ ~SecondPassed
        /\ lbolt_counter' = lbolt_counter + 1
        /\ UNCHANGED sleepers
        /\ PreemptWith(runqueue)

\* A preempted thread that runs again returns from mips_interrupt().
ReturnFromInterrupt ==
  /\ curthread # NULL
  /\ in_interrupt = 1
  /\ in_interrupt' = 0
  /\ UNCHANGED <<lists, curthread, curkstack, pcb_ininterrupt, lbolt_counter>>

-----------------------------------------------------------------------------
(* The thread system under arbitrary use: any thread may fork, exit,       *)
(* yield, sleep on or wake any address, and interrupt handlers may wake    *)
(* any address.  Waking one address and then sleeping on another in one    *)
(* stretch of code is what cv_wait() does.                                 *)

ThreadInit ==
  /\ curthread \in Threads
  /\ curkstack = curthread
  /\ runqueue = <<>>
  /\ sleepers = [a \in Addrs |-> <<>>]
  /\ zombies = {}
  /\ numthreads = 1
  /\ fresh = {}
  /\ in_interrupt = 0
  /\ pcb_ininterrupt = [t \in Threads |-> 0]
  /\ lbolt_counter = 0

Wake == \E a \in Addrs : thread_wakeup(a)

WakeOne == \E a \in Addrs : InThread /\ thread_wakeup_one(a)

Sleep == \E a \in Addrs : InThread /\ thread_sleep(a)

WakeAndSleep ==
  \E a, b \in Addrs :
    /\ InThread
    /\ SleepAfter(WokenQueue(b), WokenSleepers(b), a)

Fork == \E t \in Threads : thread_fork(t)

ThreadNext ==
  \/ Fork \/ thread_exit \/ thread_yield
  \/ Sleep \/ WakeAndSleep \/ Wake \/ WakeOne
  \/ hardclock \/ ReturnFromInterrupt \/ LeaveIdle

ThreadSpec == ThreadInit /\ [][ThreadNext]_threadvars

-----------------------------------------------------------------------------
(* Properties.                                                             *)

ThreadTypeOK ==
  /\ curthread \in Threads \cup {NULL}
  /\ curkstack \in Threads
  /\ runqueue \in Seq(Threads)
  /\ sleepers \in [Addrs -> Seq(Threads)]
  /\ zombies \subseteq Threads
  /\ numthreads \in Nat
  /\ fresh \subseteq Threads
  /\ in_interrupt \in {0, 1}
  /\ pcb_ininterrupt \in [Threads -> {0, 1}]
  /\ lbolt_counter \in 0 .. HZ - 1

\* No thread is on a list twice or on two lists: mi_switch() and the wakeups
\* move a thread, they never lose or duplicate it.  A duplicate would run a
\* thread that another queue entry already resumed.
OnePlace ==
  /\ IsInjective(runqueue)
  /\ \A a \in Addrs : IsInjective(sleepers[a])
  /\ curthread \notin Range(runqueue) \cup Sleeping \cup zombies
  /\ Range(runqueue) \cap Sleeping = {}
  /\ zombies \cap (Range(runqueue) \cup Sleeping) = {}
  /\ \A a, b \in Addrs :
       a # b => Range(sleepers[a]) \cap Range(sleepers[b]) = {}

\* The stack the processor is on belongs to a thread that has not been
\* destroyed: to curthread, or while the scheduler idles to the thread that
\* called mi_switch(), which may already be a zombie.
StackExists ==
  /\ curkstack \in Existing
  /\ curthread # NULL => curkstack = curthread

\* numthreads counts the threads that have not exited, so one_thread_only()
\* tells the menu thread the truth and the preallocations suffice.
ThreadCount == numthreads = Cardinality(Outstanding)

\* A sleeping thread went to sleep outside any interrupt handler and will
\* find in_interrupt clear when it resumes (assert in thread_sleep).
SleepersNotInInterrupt == \A t \in Sleeping : InInterrupt(t) = 0
=============================================================================
