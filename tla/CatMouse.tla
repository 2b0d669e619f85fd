------------------------------ MODULE CatMouse ------------------------------
(***************************************************************************)
(* The cat and mouse simulation, kern/asst1/catmouse.c, with the bowls and *)
(* their rules, kern/asst1/bowls.c.  The simulations of cats and of mice   *)
(* are the same code with the two kinds exchanged.                         *)
(*                                                                         *)
(* What a thread does under EatingMutex, BowlMutex or mutex up to the      *)
(* release or the next cv_wait() is one step: everything it reads or       *)
(* writes there is used under the same lock only (Synch shows that the     *)
(* locks exclude).  A thread that a condition variable woke tests again.   *)
(* cv_signal() wakes any one waiter, as in Monitor.                        *)
(***************************************************************************)
EXTENDS Naturals, FiniteSets

CONSTANTS NumBowls, NumCats, NumMice, NumLoops

ASSUME CatMouseAssumption ==
  /\ NumBowls \in Nat \ {0} /\ NumLoops \in Nat \ {0}
  /\ NumCats \in Nat /\ NumMice \in Nat

Cats == {"cat"} \X (0 .. NumCats - 1)
Mice == {"mouse"} \X (0 .. NumMice - 1)
Sims == Cats \cup Mice
Kinds == {"cat", "mouse"}
Other(k) == IF k = "cat" THEN "mouse" ELSE "cat"
Kind(t) == t[1]
Number(t) == t[2]
Bowls == 1 .. NumBowls

VARIABLES
  at,            \* where a thread is; see Places
  loops,         \* iterations it has left
  bowl,          \* the bowl it chose, 0 for none
  NumEating,     \* NumCatsEating and NumMiceEating
  Serving,
  bowlstate,     \* catmouse.c's flags: "o" open, "f" taken
  bowls,         \* bowls.c's state: who eats, "-" for nobody
  CatMouseWait,  \* the semaphore's count
  joined,        \* simulations that the driver has waited for
  panicked       \* bowls.c found a rule violated

vars == <<at, loops, bowl, NumEating, Serving, bowlstate, bowls, CatMouseWait, joined,
          panicked>>

\* Not forked; in cat_sleep(); before the turn's test; waiting for the turn;
\* in getOpenBowl() and waiting there; before eating and eating; before the
\* bowl is given back; before leaving; finished.
Places == {"none", "asleep", "arrive", "waiting", "choose", "hungry", "start", "eating",
           "giveback", "leave", "done"}

\* bowls.c's eating_cats_count and eating_mice_count.
EatingCount(k) == Cardinality({b \in Bowls : bowls[b] = k})

Goto(t, place) == at' = [at EXCEPT ![t] = place]

\* t goes on at the given place; cv_broadcast() wakes the kind k that waits
\* for its turn.
GotoAndWake(t, place, k) ==
  at' = [u \in Sims |-> IF u = t THEN place
                        ELSE IF at[u] = "waiting" /\ Kind(u) = k THEN "arrive"
                        ELSE at[u]]

-----------------------------------------------------------------------------

\* The driver forks cat 0, cat 1 and so on, then the mice.
Before(u, t) == IF Kind(u) = Kind(t) THEN Number(u) < Number(t) ELSE Kind(u) = "cat"

Fork(t) ==
  /\ at[t] = "none"
  /\ \A u \in Sims : Before(u, t) => at[u] # "none"
  /\ Goto(t, "asleep")
  /\ UNCHANGED <<loops, bowl, NumEating, Serving, bowlstate, bowls, CatMouseWait, joined,
                 panicked>>

\* cat_sleep() returns.
Wake(t) ==
  /\ at[t] = "asleep"
  /\ Goto(t, "arrive")
  /\ UNCHANGED <<loops, bowl, NumEating, Serving, bowlstate, bowls, CatMouseWait, joined,
                 panicked>>

MustWait(t) == NumEating[Other(Kind(t))] > 0 \/ Serving # Number(t)

\* A thread takes its turn or waits for it.
Arrive(t) ==
  /\ at[t] = "arrive"
  /\ \/ /\ MustWait(t)
        /\ Goto(t, "waiting")
        /\ UNCHANGED <<NumEating, Serving>>
     \/ /\ ~MustWait(t)
        /\ NumEating' = [NumEating EXCEPT ![Kind(t)] = @ + 1]
        /\ Serving' = Serving + 1
        /\ GotoAndWake(t, "choose", Kind(t))
  /\ UNCHANGED <<loops, bowl, bowlstate, bowls, CatMouseWait, joined, panicked>>

\* Mutant of FirstOpen: the flag is not looked at.
FirstOpen_any(b) == b = 1

FirstOpen(b) == bowlstate[b] = "o" /\ \A c \in Bowls : bowlstate[c] = "o" => b <= c

getOpenBowl(t) ==
  /\ at[t] = "choose"
  /\ \/ \E b \in Bowls :
          /\ FirstOpen(b)
          /\ bowlstate' = [bowlstate EXCEPT ![b] = "f"]
          /\ bowl' = [bowl EXCEPT ![t] = b]
          /\ Goto(t, "start")
     \/ /\ \A b \in Bowls : bowlstate[b] # "o"
        /\ Goto(t, "hungry")
        /\ UNCHANGED <<bowl, bowlstate>>
  /\ UNCHANGED <<loops, NumEating, Serving, bowls, CatMouseWait, joined, panicked>>

\* cat_eat(), mouse_eat() up to the delay: panics if a rule is violated.
EatStart(t) ==
  /\ at[t] = "start"
  /\ \/ /\ bowls[bowl[t]] # "-" \/ EatingCount(Other(Kind(t))) > 0
        /\ panicked' = TRUE
        /\ UNCHANGED <<at, bowls>>
     \/ /\ bowls[bowl[t]] = "-" /\ EatingCount(Other(Kind(t))) = 0
        /\ bowls' = [bowls EXCEPT ![bowl[t]] = Kind(t)]
        /\ Goto(t, "eating")
        /\ UNCHANGED panicked
  /\ UNCHANGED <<loops, bowl, NumEating, Serving, bowlstate, CatMouseWait, joined>>

\* The rest of cat_eat(), with its assertions.
EatFinish(t) ==
  /\ at[t] = "eating"
  /\ panicked' = (bowls[bowl[t]] # Kind(t))
  /\ bowls' = [bowls EXCEPT ![bowl[t]] = "-"]
  /\ Goto(t, "giveback")
  /\ UNCHANGED <<loops, bowl, NumEating, Serving, bowlstate, CatMouseWait, joined>>

cat_eat(t) == Kind(t) = "cat" /\ (EatStart(t) \/ EatFinish(t))
mouse_eat(t) == Kind(t) = "mouse" /\ (EatStart(t) \/ EatFinish(t))

\* Mutant of SignalBowl: nobody is woken.
SignalBowl_silent(t) == Goto(t, "leave")

\* cv_signal(): one thread that waits for a bowl goes to test again.
SignalBowl(t) ==
  \/ \E u \in Sims :
       at[u] = "hungry" /\ at' = [at EXCEPT ![t] = "leave", ![u] = "choose"]
  \/ (\A u \in Sims : at[u] # "hungry") /\ Goto(t, "leave")

GiveBack(t) ==
  /\ at[t] = "giveback"
  /\ bowlstate' = [bowlstate EXCEPT ![bowl[t]] = "o"]
  /\ bowl' = [bowl EXCEPT ![t] = 0]
  /\ SignalBowl(t)
  /\ UNCHANGED <<loops, NumEating, Serving, bowls, CatMouseWait, joined, panicked>>

\* The thread that leaves is the last of its kind.
TurnEnds(k) == NumEating[k] = 1

LastLoop(t) == loops[t] = 1

\* The turn ends with the last one, and only the other kind is woken.
Leave(t) ==
  LET next == IF LastLoop(t) THEN "done" ELSE "asleep" IN
    /\ at[t] = "leave"
    /\ NumEating' = [NumEating EXCEPT ![Kind(t)] = @ - 1]
    /\ \/ TurnEnds(Kind(t)) /\ Serving' = 0 /\ GotoAndWake(t, next, Other(Kind(t)))
       \/ ~TurnEnds(Kind(t)) /\ Goto(t, next) /\ UNCHANGED Serving
    /\ loops' = [loops EXCEPT ![t] = @ - 1]
    /\ CatMouseWait' = CatMouseWait + (IF LastLoop(t) THEN 1 ELSE 0)
    /\ UNCHANGED <<bowl, bowlstate, bowls, joined, panicked>>

\* The driver's P(CatMouseWait); after the last one it cleans up.
Join ==
  /\ \A t \in Sims : at[t] # "none"
  /\ CatMouseWait > 0
  /\ CatMouseWait' = CatMouseWait - 1
  /\ joined' = joined + 1
  /\ UNCHANGED <<at, loops, bowl, NumEating, Serving, bowlstate, bowls, panicked>>

Init ==
  /\ at = [t \in Sims |-> "none"]
  /\ loops = [t \in Sims |-> NumLoops]
  /\ bowl = [t \in Sims |-> 0]
  /\ NumEating = [k \in Kinds |-> 0] /\ Serving = 0
  /\ bowlstate = [b \in Bowls |-> "o"]
  /\ bowls = [b \in Bowls |-> "-"]
  /\ CatMouseWait = 0 /\ joined = 0
  /\ panicked = FALSE

cat_simulation(t) ==
  /\ Kind(t) = "cat"
  /\ Wake(t) \/ Arrive(t) \/ getOpenBowl(t) \/ cat_eat(t) \/ GiveBack(t) \/ Leave(t)

mouse_simulation(t) ==
  /\ Kind(t) = "mouse"
  /\ Wake(t) \/ Arrive(t) \/ getOpenBowl(t) \/ mouse_eat(t) \/ GiveBack(t) \/ Leave(t)

Step(t) == ~panicked /\ (Fork(t) \/ cat_simulation(t) \/ mouse_simulation(t))

Next == Join \/ \E t \in Sims : Step(t)

CatMouseSpec == Init /\ [][Next]_vars

-----------------------------------------------------------------------------
(* Properties.                                                             *)

Inside(k) == {t \in Sims : Kind(t) = k /\ at[t] \in {"choose", "hungry", "start", "eating",
                                                    "giveback", "leave"}}

TypeOK ==
  /\ at \in [Sims -> Places]
  /\ loops \in [Sims -> 0 .. NumLoops]
  /\ bowl \in [Sims -> 0 .. NumBowls]
  /\ NumEating \in [Kinds -> Nat]
  /\ Serving \in Nat
  /\ bowlstate \in [Bowls -> {"o", "f"}]
  /\ bowls \in [Bowls -> Kinds \cup {"-"}]
  /\ CatMouseWait \in Nat /\ joined \in Nat
  /\ panicked \in BOOLEAN

\* bowls.c never panics: no two animals eat from one bowl, and cats and mice
\* never eat at the same time, although the turn and the bowl are taken under
\* different locks and given back in the other order.
RulesKept == ~panicked

\* The turn belongs to one kind until its last animal has left, and in a turn
\* the animals come in the order of their numbers, each of them once.
TurnKept ==
  /\ Inside("cat") = {} \/ Inside("mouse") = {}
  /\ \A t \in Inside("cat") \cup Inside("mouse") : Number(t) < Serving

\* No signal for a bowl is lost: while anybody waits for a bowl, there are at
\* least as many threads on their way to a bowl as there are open bowls.
BowlsOffered ==
  (\E t \in Sims : at[t] = "hungry")
    => Cardinality({b \in Bowls : bowlstate[b] = "o"})
         <= Cardinality({t \in Sims : at[t] = "choose"})
=============================================================================
