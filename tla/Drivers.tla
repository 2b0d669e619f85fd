------------------------------- MODULE Drivers -------------------------------
(***************************************************************************)
(* The cards and the drivers' interrupt side: the disk (lhd.c), the        *)
(* emulator's files (emu.c), the serial line (lser.c) with the console on  *)
(* top of it (console.c), and the timer (ltimer.c), all on one LAMEbus.    *)
(*                                                                         *)
(* The state m has a record for every card.  A semaphore is its count, a   *)
(* lock its holder (NOBODY if free).  Of the cards themselves, which are   *)
(* modelled from how the drivers use them: a card signals an interrupt     *)
(* until its handler has cleared the condition.  A character printed is a  *)
(* pair, who prints it and its place; one typed is a number.               *)
(***************************************************************************)
EXTENDS Bus

CONSTANT NOBODY   \* the null pointer

NONE == "none"

\* Of the emulator, of the console for readers and writers, and of kprintf().
LOCKS == {"e_lock", "con_userlock_read", "con_userlock_write", "kprintf_lock"}

NOCHAR == <<NOBODY, 0>>
KMSG == <<NOBODY, 1>>

-----------------------------------------------------------------------------
(* The cards.                                                              *)

\* Finished: the disk has a result in its status register.
Finished == {"ok", "media"}

\* The slots that signal an interrupt.
CTLREG_IRQS(m) ==
  {s \in Slots :
     CASE m.b.card[s] = "ltimer" -> s \in m.tick
       [] m.b.card[s] = "lhd" -> m.lhd.stat \in Finished
       [] m.b.card[s] = "emu" -> m.emu.reg # NONE
       [] m.b.card[s] = "lser" -> m.ser.wirq \/ m.ser.rirq
       [] m.b.card[s] = "other" -> m.noise
       [] OTHER -> FALSE}

\* The disk does what its registers say, or fails.
DiskWorks(m, res) ==
  LET d == m.lhd IN
  [m EXCEPT !.lhd.stat = res,
    !.lhd.disk = IF res = "ok" /\ d.write THEN [@ EXCEPT ![d.sect] = d.buf] ELSE @,
    !.lhd.buf = IF res = "ok" /\ ~d.write THEN d.disk[d.sect] ELSE @]

\* The emulator does the operation, on files of one unit.
EmuWorks(m, res) ==
  LET e == m.emu IN
  [m EXCEPT !.emu.op = NONE, !.emu.reg = res,
    !.emu.file = IF res = "ok" /\ e.op = "write"
                 THEN [@ EXCEPT ![e.handle] = e.iobuf] ELSE @,
    !.emu.iobuf = IF res = "ok" /\ e.op = "read" THEN e.file[e.handle] ELSE @]

\* The serial line has sent the character.  out has what the threads print:
\* messages of interrupt handlers come in between.
SerialSends(m) ==
  [m EXCEPT !.out = IF m.ser.chr = KMSG THEN @ ELSE Append(@, m.ser.chr),
            !.ser.chr = NOCHAR, !.ser.wirq = TRUE]

\* A character is typed; one that was not fetched is lost.
SerialReceives(m, ch) == [m EXCEPT !.ser.rchr = ch, !.ser.rirq = TRUE]

-----------------------------------------------------------------------------
(* lhd.c.                                                                  *)

lhd_iodone(m, err) == [m EXCEPT !.lhd.result = err, !.lhd.done = @ + 1]

lhd_irq(m) ==
  IF m.lhd.stat \notin Finished THEN m
  ELSE lhd_iodone([m EXCEPT !.lhd.stat = "idle"], m.lhd.stat)

\* The registers of the card: what to do, and that it is to be done.
lhd_wreg(m, write, sect) ==
  [m EXCEPT !.lhd.write = write, !.lhd.sect = sect, !.lhd.stat = "working"]

-----------------------------------------------------------------------------
(* emu.c.                                                                  *)

\* It does not ask whether the card has a result.
emu_irq(m) ==
  [m EXCEPT !.emu.result = m.emu.reg, !.emu.reg = NONE, !.emu.sem = @ + 1]

emu_wreg(m, handle) == [m EXCEPT !.emu.handle = handle]

emu_oper(m, op, data) ==
  [m EXCEPT !.emu.op = op, !.emu.iobuf = IF op = "write" THEN data ELSE @]

-----------------------------------------------------------------------------
(* lser.c and console.c.                                                   *)

con_input(m, ch) == [m EXCEPT !.con.gotchar = ch, !.con.rsem = @ + 1]

con_start(m) == [m EXCEPT !.con.wsem = @ + 1]

lser_irq(m) ==
  LET w == m.ser.wirq
      r == m.ser.rirq
      t == [m EXCEPT !.ser.wirq = FALSE, !.ser.rirq = FALSE,
                     !.ser.wbusy = IF w THEN FALSE ELSE @]
      u == IF w THEN con_start(t) ELSE t
  IN  IF r THEN con_input(u, m.ser.rchr) ELSE u

lser_write(m, ch) ==
  IF m.ser.wbusy THEN [m EXCEPT !.b.panic = TRUE]
  ELSE [m EXCEPT !.ser.wbusy = TRUE, !.ser.chr = ch]

\* The line is waited for until it is ready.
lser_spin_until_write(m) == IF m.ser.wirq THEN m ELSE SerialSends(m)

\* Mutant of lser_writepolled: a character on its way is not waited for.
lser_writepolled_over(m, ch) ==
  LET u == lser_spin_until_write([m EXCEPT !.ser.chr = ch])
  IN  IF m.ser.wbusy THEN u ELSE [u EXCEPT !.ser.wirq = FALSE]

\* With interrupts off.  If the line was busy its ready condition is left for
\* the interrupt handler.
lser_writepolled(m, ch) ==
  LET t == IF m.ser.wbusy
           THEN [lser_spin_until_write(m) EXCEPT !.ser.wirq = FALSE] ELSE m
      u == lser_spin_until_write([t EXCEPT !.ser.chr = ch])
  IN  IF m.ser.wbusy THEN u ELSE [u EXCEPT !.ser.wirq = FALSE]

\* What an interrupt handler prints is polled.
putch_polled(m) == lser_writepolled(m, KMSG)

-----------------------------------------------------------------------------
(* Interrupts.                                                             *)

\* Reading the timer's register clears it.  Whether hardclock() is called,
\* which makes another thread run, is ltimer_clock().
ltimer_irq(m, slot) == [m EXCEPT !.tick = @ \ {slot}]

ltimer_clock(m, slot) == slot \in m.tick /\ m.b.hardclock = slot

Handler(m, slot) ==
  CASE m.b.irqf[slot] = "ltimer" -> ltimer_irq(m, slot)
    [] m.b.irqf[slot] = "lhd" -> lhd_irq(m)
    [] m.b.irqf[slot] = "emu" -> emu_irq(m)
    [] OTHER -> lser_irq(m)

\* The slot has a driver with a handler.
Handled(m, slot) == slot \in m.b.inuse /\ m.b.irqf[slot] # NONE

\* The end of lamebus_interrupt(); duds is how many it met.
lamebus_end(m, duds, limit) ==
  LET t == IF duds = 0 /\ m.b.duds > 0
           THEN putch_polled([m EXCEPT !.b.duds = 0]) ELSE m
  IN  IF t.b.duds > limit THEN [t EXCEPT !.b.panic = TRUE] ELSE t

\* An interrupt that no slot signals.
lamebus_stray(m) == putch_polled([m EXCEPT !.b.duds = @ + 1])

\* The drivers' state after autoconfiguration.
config_lhd(units, data) ==
  [stat |-> "idle", write |-> FALSE, sect |-> Min(units), buf |-> data,
   disk |-> [u \in units |-> data], clear |-> 1, done |-> 0, result |-> "ok"]

config_emu(units, data) ==
  [op |-> NONE, reg |-> NONE, handle |-> Min(units), iobuf |-> data,
   file |-> [u \in units |-> data], sem |-> 0, result |-> NONE]

config_lser ==
  [wbusy |-> FALSE, chr |-> NOCHAR, wirq |-> FALSE, rirq |-> FALSE, rchr |-> 0]

attach_con_to_lser == [wsem |-> 1, rsem |-> 0, gotchar |-> 0]

\* The disk has sectors, the emulator files, of the same data.
Attached(card, units, data) ==
  [b |-> dev_bootstrap(card), tick |-> {}, noise |-> FALSE, out |-> <<>>,
   lhd |-> config_lhd(units, data), emu |-> config_emu(units, data),
   ser |-> config_lser, con |-> attach_con_to_lser,
   lock |-> [l \in LOCKS |-> NOBODY]]
=============================================================================
