------------------------------ MODULE MCDevices ------------------------------
(* Instances of Devices for TLC. *)
EXTENDS Devices

CONSTANTS t1, t2

Disk(on, write, data) == [kind |-> "disk", on |-> on, write |-> write, data |-> data]
Emu(on, write, data) == [kind |-> "emu", on |-> on, write |-> write, data |-> data]
Console(kind, n) == [kind |-> kind, n |-> n]

\* The timer before or after the cards it preempts; a card without a driver.
Case(cards, a, b) ==
  [card |-> [s \in Slots |-> cards[s + 1]],
   job |-> [t \in THREADS |-> IF t = t1 THEN a ELSE b]]

Cases == {
  Case(<<"ltimer", "lhd", "none", "lser", "controller">>,
       Disk(<<1, 2>>, TRUE, 7), Disk(<<2>>, FALSE, 0)),
  Case(<<"ltimer", "emu", "ltimer", "lser", "controller">>,
       Emu(<<1>>, TRUE, 7), Emu(<<2>>, FALSE, 0)),
  Case(<<"lhd", "ltimer", "emu", "lser", "controller">>,
       Disk(<<1>>, FALSE, 0), Emu(<<1>>, TRUE, 8)),
  Case(<<"ltimer", "lser", "lrandom", "none", "controller">>,
       Console("write", 2), Console("write", 2)),
  Case(<<"lser", "other", "ltimer", "none", "controller">>,
       Console("write", 2), Console("kprintf", 1)),
  Case(<<"ltimer", "lser", "none", "none", "controller">>,
       Console("getch", 2), Console("write", 1))}
=============================================================================
