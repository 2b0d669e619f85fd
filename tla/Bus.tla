--------------------------------- MODULE Bus ---------------------------------
(***************************************************************************)
(* The LAMEbus of kern/dev/lamebus/lamebus.c and the autoconfiguration     *)
(* that finds its devices at boot (autoconf.c, generated from the          *)
(* configuration, and the attach functions of kern/dev).                   *)
(*                                                                         *)
(* Of the state b:  card is what sits in each slot, inuse and irqf are     *)
(* ls_slotsinuse and ls_irqfuncs, unit numbers the devices that were       *)
(* attached; hardclock, con, rtclock, beep and random say which slot       *)
(* serves each generic device (NOSLOT: none), and duds counts interrupts   *)
(* that nobody was responsible for.                                        *)
(***************************************************************************)
EXTENDS Integers, Sequences, FiniteSets, SequencesExt, FiniteSetsExt

CONSTANT
  NSLOTS     \* LB_NSLOTS; the last slot is the controller's

Slots == 0 .. NSLOTS - 1
NOSLOT == -1
PSEUDO == NSLOTS   \* the generator of pseudorand.c, which has no slot

\* ls_slotsinuse has the controller; no handler is known.
lamebus_init(card) ==
  [card |-> card, inuse |-> {NSLOTS - 1}, irqf |-> [s \in Slots |-> "none"],
   unit |-> [s \in Slots |-> NOSLOT], hardclock |-> NOSLOT, con |-> NOSLOT,
   rtclock |-> NOSLOT, beep |-> NOSLOT, random |-> NOSLOT, duds |-> 0,
   panic |-> FALSE]

\* Mutant of lamebus_probe: the first slot is not looked at.
lamebus_probe_skip(b, kind) ==
  LET found == {s \in Slots \ {0} : s \notin b.inuse /\ b.card[s] = kind}
  IN  IF found = {} THEN NOSLOT ELSE Min(found)

\* The first slot with such a card that is not in use yet.
lamebus_probe(b, kind) ==
  LET found == {s \in Slots : s \notin b.inuse /\ b.card[s] = kind}
  IN  IF found = {} THEN NOSLOT ELSE Min(found)

lamebus_mark(b, slot) ==
  IF slot \in b.inuse THEN [b EXCEPT !.panic = TRUE]
  ELSE [b EXCEPT !.inuse = @ \cup {slot}]

lamebus_attach_interrupt(b, slot, f) ==
  IF slot \notin b.inuse \/ b.irqf[slot] # "none"
  THEN [b EXCEPT !.panic = TRUE] ELSE [b EXCEPT !.irqf[slot] = f]

\* What every attach_..._to_lamebus() does with the slot of its card, and what
\* one does whose card interrupts.
Attach(b, slot) == lamebus_mark(b, slot)
AttachIrq(b, slot, f) == lamebus_attach_interrupt(Attach(b, slot), slot, f)

attach_emu_to_lamebus(b, slot) == AttachIrq(b, slot, "emu")
attach_ltrace_to_lamebus(b, slot) == Attach(b, slot)
attach_ltimer_to_lamebus(b, slot) == AttachIrq(b, slot, "ltimer")
attach_lrandom_to_lamebus(b, slot) == Attach(b, slot)
attach_lhd_to_lamebus(b, slot) == AttachIrq(b, slot, "lhd")
attach_lser_to_lamebus(b, slot) == AttachIrq(b, slot, "lser")

attach_to_lamebus(b, kind, slot) ==
  CASE kind = "emu" -> attach_emu_to_lamebus(b, slot)
    [] kind = "ltrace" -> attach_ltrace_to_lamebus(b, slot)
    [] kind = "ltimer" -> attach_ltimer_to_lamebus(b, slot)
    [] kind = "lrandom" -> attach_lrandom_to_lamebus(b, slot)
    [] kind = "lhd" -> attach_lhd_to_lamebus(b, slot)
    [] OTHER -> attach_lser_to_lamebus(b, slot)

\* The generic devices, each of which takes the first that offers it.
First(b, field, slot) ==
  IF b[field] # NOSLOT THEN b ELSE [b EXCEPT ![field] = slot]

config_con(b, slot) == First(b, "con", slot)
config_beep(b, slot) == First(b, "beep", slot)
config_rtclock(b, slot) == First(b, "rtclock", slot)
config_random(b, slot) == First(b, "random", slot)

\* The first timer is the clock that preempts.
config_ltimer(b, slot) == First(b, "hardclock", slot)

autoconf_ltimer(b, slot) == config_rtclock(config_beep(b, slot), slot)
autoconf_lrandom(b, slot) == config_random(b, slot)
autoconf_lser(b, slot) == config_con(b, slot)

\* What is attached to a card once it is attached itself.
autoconf_card(b, kind, slot) ==
  CASE kind = "ltimer" -> autoconf_ltimer(config_ltimer(b, slot), slot)
    [] kind = "lrandom" -> autoconf_lrandom(b, slot)
    [] kind = "lser" -> autoconf_lser(b, slot)
    [] OTHER -> b

\* tryattach_..._to_lamebus(): one more card of the kind, if there is one.
tryattach(b, kind, devunit) ==
  LET slot == lamebus_probe(b, kind)
      t    == attach_to_lamebus(b, kind, slot)
  IN  IF b.panic \/ slot = NOSLOT THEN b
      ELSE autoconf_card([t EXCEPT !.unit[slot] = devunit], kind, slot)

Kinds == <<"emu", "ltrace", "ltimer", "lrandom", "lhd", "lser">>

\* Every kind in turn, as many cards of it as there are.
autoconf_lamebus(b) ==
  FoldLeft(LAMBDA t, kind :
             FoldLeft(LAMBDA u, n : tryattach(u, kind, n),
                      t, [n \in 1 .. Cardinality({s \in Slots : b.card[s] = kind})
                            |-> n - 1]),
           b, Kinds)

\* The generator of random numbers steps in if there is no card for it.
pseudoconfig(b) == config_random(b, PSEUDO)

dev_bootstrap(card) == pseudoconfig(autoconf_lamebus(lamebus_init(card)))
=============================================================================
