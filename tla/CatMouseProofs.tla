--------------------------- MODULE CatMouseProofs ---------------------------
(***************************************************************************)
(* Proofs about CatMouse, for any number of cats, mice, bowls and loops.   *)
(***************************************************************************)
EXTENDS CatMouse, FiniteSetTheorems, TLAPS

-----------------------------------------------------------------------------
(* The inductive invariant.                                                *)

InPlaces == {"choose", "hungry", "start", "eating", "giveback", "leave"}
WithBowl == {"start", "eating", "giveback"}

\* A thread that has not finished has an iteration left.
LoopsLeft == \A t \in Sims : at[t] # "done" => loops[t] \in 1 .. NumLoops

\* NumCatsEating and NumMiceEating count the animals whose turn it is.
TurnCounted == \A k \in Kinds : NumEating[k] = Cardinality(Inside(k))

\* A thread has a bowl, flagged as taken, from getOpenBowl() until it gives
\* it back.
BowlTaken ==
  \A t \in Sims : IF at[t] \in WithBowl THEN bowl[t] \in Bowls /\ bowlstate[bowl[t]] = "f"
                                        ELSE bowl[t] = 0

\* No two threads have the same bowl.
BowlsApart == \A t, u \in Sims : bowl[t] # 0 /\ bowl[t] = bowl[u] => t = u

\* bowls.c and the threads agree on who eats from what.
EatersKnown ==
  \A b \in Bowls : bowls[b] # "-" =>
    \E t \in Sims : at[t] = "eating" /\ bowl[t] = b /\ Kind(t) = bowls[b]
EatersSeen == \A t \in Sims : at[t] = "eating" => bowls[bowl[t]] = Kind(t)

TurnInv == LoopsLeft /\ TurnCounted /\ TurnKept
BowlInv == BowlTaken /\ BowlsApart /\ EatersKnown /\ EatersSeen
CatMouseInv == TypeOK /\ TurnInv /\ BowlInv /\ RulesKept

-----------------------------------------------------------------------------
(* The animals.                                                            *)

\* An animal has a kind and a number.
LEMMA SimType == \A t \in Sims : Kind(t) \in Kinds /\ Number(t) \in Nat
BY CatMouseAssumption DEF Sims, Cats, Mice, Kind, Number, Kinds

\* There are finitely many of them, so those inside can be counted.
LEMMA InsideFinite == \A k : IsFiniteSet(Inside(k))
<1>1. IsFiniteSet(0 .. NumCats - 1) /\ IsFiniteSet(0 .. NumMice - 1)
  BY FS_Interval, CatMouseAssumption
<1>2. IsFiniteSet({"cat"}) /\ IsFiniteSet({"mouse"})
  BY FS_Singleton
<1>3. IsFiniteSet(Cats) /\ IsFiniteSet(Mice)
  BY <1>1, <1>2, FS_Product DEF Cats, Mice
<1>4. IsFiniteSet(Sims)
  BY <1>3, FS_Union DEF Sims
<1>5. \A k : Inside(k) \in SUBSET Sims
  BY DEF Inside
<1> QED
  BY <1>4, <1>5, FS_Subset

\* The other kind is one of the two, and not this one.
LEMMA OtherKind == \A k \in Kinds : Other(k) \in Kinds /\ Other(k) # k /\ Kinds = {k, Other(k)}
BY DEF Kinds, Other

\* A turn goes on with the same animals when none enters or leaves.
LEMMA InsideSame ==
  ASSUME \A u \in Sims : at'[u] \in InPlaces <=> at[u] \in InPlaces
  PROVE  \A k : Inside(k)' = Inside(k)
BY DEF Inside, InPlaces

\* So its counts and its order stay true.
LEMMA TurnSame ==
  ASSUME TurnInv, LoopsLeft', NumEating' = NumEating, Serving' = Serving,
         \A u \in Sims : at'[u] \in InPlaces <=> at[u] \in InPlaces
  PROVE  TurnInv'
<1>1. \A k : Inside(k)' = Inside(k)
  BY InsideSame
<1> QED
  BY <1>1 DEF TurnInv, TurnCounted, TurnKept

\* The bowls are the same when nobody takes, uses or gives back one.
LEMMA BowlSame ==
  ASSUME BowlInv, UNCHANGED <<bowl, bowlstate, bowls>>,
         \A u \in Sims : /\ at'[u] \in WithBowl <=> at[u] \in WithBowl
                         /\ at'[u] = "eating" <=> at[u] = "eating"
  PROVE  BowlInv'
<1>1. BowlTaken'
  BY DEF BowlInv, BowlTaken
<1>2. BowlsApart'
  BY DEF BowlInv, BowlsApart
<1>3. EatersKnown'
  BY DEF BowlInv, EatersKnown
<1>4. EatersSeen'
  BY DEF BowlInv, EatersSeen
<1> QED
  BY <1>1, <1>2, <1>3, <1>4 DEF BowlInv

\* cv_broadcast() takes threads from "waiting" to "arrive" and no other.
LEMMA WokenPlaces ==
  ASSUME TypeOK, NEW t \in Sims, NEW place \in Places, NEW k, GotoAndWake(t, place, k)
  PROVE  /\ at' \in [Sims -> Places] /\ at'[t] = place
         /\ \A u \in Sims \ {t} : at'[u] = at[u] \/ (at[u] = "waiting" /\ at'[u] = "arrive")
<1> DEFINE woken(u) == at[u] = "waiting" /\ Kind(u) = k
           next(u) == IF u = t THEN place ELSE IF woken(u) THEN "arrive" ELSE at[u]
<1>1. at' = [u \in Sims |-> next(u)]
  BY DEF GotoAndWake
<1>2. \A u \in Sims : next(u) \in Places
  BY DEF TypeOK, Places
<1>3. at' \in [Sims -> Places] /\ \A u \in Sims : at'[u] = next(u)
  BY <1>1, <1>2
<1> QED
  BY <1>3

-----------------------------------------------------------------------------
(* The steps.                                                              *)

\* Being forked and waking up concern nobody else.
LEMMA OutsideStep ==
  ASSUME CatMouseInv, NEW t \in Sims, Fork(t) \/ Wake(t)
  PROVE  CatMouseInv'
<1> USE DEF CatMouseInv, TypeOK
<1>1. \E place \in {"asleep", "arrive"} :
        at' = [at EXCEPT ![t] = place] /\ at[t] \in {"none", "asleep"}
  BY DEF Fork, Wake, Goto
<1>2. UNCHANGED <<loops, bowl, NumEating, Serving, bowlstate, bowls, CatMouseWait, joined,
                  panicked>>
  BY DEF Fork, Wake
<1>3. TypeOK'
  BY <1>1, <1>2 DEF Places
<1>4. LoopsLeft'
  BY <1>1, <1>2 DEF TurnInv, LoopsLeft
<1>5. TurnInv'
  BY <1>1, <1>2, <1>4, TurnSame DEF InPlaces
<1>6. BowlInv'
  BY <1>1, <1>2, BowlSame DEF WithBowl
<1> QED
  BY <1>2, <1>3, <1>5, <1>6 DEF RulesKept

\* Only an animal whose other kind is not inside, and whose number is next,
\* takes its turn.
LEMMA ArriveStep ==
  ASSUME CatMouseInv, NEW t \in Sims, Arrive(t)
  PROVE  CatMouseInv'
<1> USE DEF CatMouseInv, TypeOK
<1>1. at[t] = "arrive" /\ UNCHANGED <<loops, bowl, bowlstate, bowls, CatMouseWait, joined, panicked>>
  BY DEF Arrive
<1>2. CASE MustWait(t) /\ Goto(t, "waiting") /\ UNCHANGED <<NumEating, Serving>>
  <2>1. at' = [at EXCEPT ![t] = "waiting"]
    BY <1>2 DEF Goto
  <2>2. TypeOK'
    BY <1>1, <1>2, <2>1 DEF Places
  <2>3. LoopsLeft'
    BY <1>1, <2>1 DEF TurnInv, LoopsLeft
  <2>4. TurnInv'
    BY <1>1, <1>2, <2>1, <2>3, TurnSame DEF InPlaces
  <2>5. BowlInv'
    BY <1>1, <2>1, BowlSame DEF WithBowl
  <2> QED
    BY <1>1, <2>2, <2>4, <2>5 DEF RulesKept
<1>3. CASE /\ ~MustWait(t)
           /\ NumEating' = [NumEating EXCEPT ![Kind(t)] = @ + 1]
           /\ Serving' = Serving + 1
           /\ GotoAndWake(t, "choose", Kind(t))
  <2>1. Kind(t) \in Kinds /\ Number(t) \in Nat
    BY SimType
  <2>2. NumEating[Other(Kind(t))] = 0 /\ Serving = Number(t)
    <3>1. Other(Kind(t)) \in Kinds
      BY <2>1, OtherKind
    <3>2. NumEating[Other(Kind(t))] \in Nat
      BY <3>1
    <3> QED
      BY <1>3, <3>2 DEF MustWait
  <2>3. /\ at' \in [Sims -> Places] /\ at'[t] = "choose"
        /\ \A u \in Sims \ {t} :
             at'[u] = at[u] \/ (at[u] = "waiting" /\ at'[u] = "arrive")
    BY <1>3, WokenPlaces DEF Places
  <2>4. TypeOK'
    BY <1>1, <1>3, <2>1, <2>3
  <2>5. LoopsLeft'
    BY <1>1, <2>3 DEF TurnInv, LoopsLeft
  <2>6. /\ Inside(Kind(t))' = Inside(Kind(t)) \cup {t} /\ t \notin Inside(Kind(t))
        /\ Inside(Other(Kind(t)))' = Inside(Other(Kind(t)))
    <3>1. \A k : Inside(k)' = {u \in Sims : Kind(u) = k /\ at'[u] \in InPlaces}
      BY DEF Inside, InPlaces
    <3>2. \A k : Inside(k) = {u \in Sims : Kind(u) = k /\ at[u] \in InPlaces}
      BY DEF Inside, InPlaces
    <3>3. \A u \in Sims \ {t} : at'[u] \in InPlaces <=> at[u] \in InPlaces
      BY <2>3 DEF InPlaces
    <3>4. at'[t] \in InPlaces /\ at[t] \notin InPlaces
      BY <1>1, <2>3 DEF InPlaces
    <3> QED
      BY <2>1, <3>1, <3>2, <3>3, <3>4, OtherKind
  <2>7. Inside(Other(Kind(t))) = {}
    BY <2>1, <2>2, OtherKind, InsideFinite, FS_EmptySet DEF TurnInv, TurnCounted
  <2>8. TurnCounted'
    <3>1. Cardinality(Inside(Kind(t)) \cup {t}) = Cardinality(Inside(Kind(t))) + 1
      BY <2>6, InsideFinite, FS_AddElement
    <3>2. NumEating'[Kind(t)] = NumEating[Kind(t)] + 1
      BY <1>3, <2>1
    <3>3. NumEating'[Other(Kind(t))] = NumEating[Other(Kind(t))]
      BY <1>3, <2>1, OtherKind
    <3>4. /\ NumEating[Kind(t)] = Cardinality(Inside(Kind(t)))
          /\ NumEating[Other(Kind(t))] = Cardinality(Inside(Other(Kind(t))))
      BY <2>1, OtherKind DEF TurnInv, TurnCounted
    <3>5. Kinds = {Kind(t), Other(Kind(t))}
      BY <2>1, OtherKind
    <3> QED
      BY <2>6, <3>1, <3>2, <3>3, <3>4, <3>5 DEF TurnCounted
  <2>9. TurnKept'
    <3>1. \A u \in Inside(Kind(t)) : Number(u) < Serving
      BY <2>1 DEF TurnInv, TurnKept, Kinds
    <3>2. \A u \in Inside(Kind(t)) : u \in Sims /\ Number(u) \in Nat
      BY SimType DEF Inside
    <3>3. \A u \in Inside(Kind(t))' : Number(u) < Serving'
      BY <1>3, <2>1, <2>2, <2>6, <3>1, <3>2
    <3> QED
      BY <2>1, <2>6, <2>7, <3>3 DEF TurnKept, Kinds, Other
  <2>10. BowlInv'
    BY <1>1, <2>3, BowlSame DEF WithBowl
  <2> QED
    BY <1>1, <2>4, <2>5, <2>8, <2>9, <2>10 DEF TurnInv, RulesKept
<1> QED
  BY <1>2, <1>3 DEF Arrive

\* The bowl that getOpenBowl() takes is nobody's: taken bowls are flagged.
LEMMA ChooseStep ==
  ASSUME CatMouseInv, NEW t \in Sims, getOpenBowl(t)
  PROVE  CatMouseInv'
<1> USE DEF CatMouseInv, TypeOK
<1>1. at[t] = "choose" /\ UNCHANGED <<loops, NumEating, Serving, bowls, CatMouseWait, joined, panicked>>
  BY DEF getOpenBowl
<1>2. CASE Goto(t, "hungry") /\ UNCHANGED <<bowl, bowlstate>>
  <2>1. at' = [at EXCEPT ![t] = "hungry"]
    BY <1>2 DEF Goto
  <2>2. TypeOK'
    BY <1>1, <1>2, <2>1 DEF Places
  <2>3. LoopsLeft'
    BY <1>1, <2>1 DEF TurnInv, LoopsLeft
  <2>4. TurnInv'
    BY <1>1, <2>1, <2>3, TurnSame DEF InPlaces
  <2>5. BowlInv'
    BY <1>1, <1>2, <2>1, BowlSame DEF WithBowl
  <2> QED
    BY <1>1, <2>2, <2>4, <2>5 DEF RulesKept
<1>3. ASSUME NEW b \in Bowls, FirstOpen(b),
             bowlstate' = [bowlstate EXCEPT ![b] = "f"],
             bowl' = [bowl EXCEPT ![t] = b], Goto(t, "start")
      PROVE  CatMouseInv'
  <2>1. at' = [at EXCEPT ![t] = "start"] /\ bowlstate[b] = "o"
    BY <1>3 DEF Goto, FirstOpen
  <2>2. b \in 0 .. NumBowls /\ b # 0
    BY CatMouseAssumption DEF Bowls
  <2>3. TypeOK'
    BY <1>1, <1>3, <2>1, <2>2 DEF Places
  <2>4. LoopsLeft'
    BY <1>1, <2>1 DEF TurnInv, LoopsLeft
  <2>5. TurnInv'
    BY <1>1, <2>1, <2>4, TurnSame DEF InPlaces
  <2>6. \A u \in Sims : bowl[u] # b
    BY <2>1, <2>2 DEF BowlInv, BowlTaken
  <2>7. /\ at'[t] = "start" /\ bowl'[t] = b /\ bowlstate'[b] = "f"
        /\ \A u \in Sims \ {t} : at'[u] = at[u] /\ bowl'[u] = bowl[u]
        /\ \A c \in Bowls \ {b} : bowlstate'[c] = bowlstate[c]
    BY <1>3, <2>1
  <2>8. BowlTaken'
    BY <2>6, <2>7 DEF BowlInv, BowlTaken, WithBowl
  <2>9. BowlsApart'
    BY <2>6, <2>7 DEF BowlInv, BowlsApart
  <2>10. EatersKnown'
    BY <1>1, <2>7 DEF BowlInv, EatersKnown
  <2>11. EatersSeen'
    BY <1>1, <2>7 DEF BowlInv, EatersSeen
  <2> QED
    BY <1>1, <2>3, <2>5, <2>8, <2>9, <2>10, <2>11 DEF BowlInv, RulesKept
<1> QED
  BY <1>2, <1>3 DEF getOpenBowl

\* An animal about to eat finds its bowl free and no other kind eating.
LEMMA RulesHold ==
  ASSUME CatMouseInv, NEW t \in Sims, at[t] = "start"
  PROVE  bowl[t] \in Bowls /\ bowls[bowl[t]] = "-" /\ EatingCount(Other(Kind(t))) = 0
<1> USE DEF CatMouseInv
<1>1. bowl[t] \in Bowls /\ bowl[t] # 0
  BY CatMouseAssumption DEF BowlInv, BowlTaken, WithBowl, Bowls
<1>2. bowls[bowl[t]] = "-"
  BY <1>1 DEF BowlInv, EatersKnown, BowlsApart
<1>3. Kind(t) \in Kinds
  BY SimType
<1>4. t \in Inside(Kind(t))
  BY DEF Inside
<1>5. Inside(Other(Kind(t))) = {}
  BY <1>3, <1>4 DEF TurnInv, TurnKept, Kinds, Other
<1>6. \A b \in Bowls : bowls[b] # Other(Kind(t))
  <2> SUFFICES ASSUME NEW b \in Bowls, bowls[b] = Other(Kind(t)) PROVE FALSE
    OBVIOUS
  <2>1. bowls[b] # "-"
    BY <1>3 DEF Kinds, Other
  <2>2. PICK u \in Sims : at[u] = "eating" /\ Kind(u) = Other(Kind(t))
    BY <2>1 DEF BowlInv, EatersKnown
  <2>3. u \in Inside(Other(Kind(t)))
    BY <2>2 DEF Inside
  <2> QED
    BY <1>5, <2>3
<1>7. {b \in Bowls : bowls[b] = Other(Kind(t))} = {}
  BY <1>6
<1> QED
  BY <1>1, <1>2, <1>7, FS_EmptySet DEF EatingCount

\* So bowls.c does not panic when it starts,
LEMMA EatStartStep ==
  ASSUME CatMouseInv, NEW t \in Sims, EatStart(t)
  PROVE  CatMouseInv'
<1> USE DEF CatMouseInv, TypeOK
<1>1. at[t] = "start" /\ UNCHANGED <<loops, bowl, NumEating, Serving, bowlstate, CatMouseWait, joined>>
  BY DEF EatStart
<1>2. bowl[t] \in Bowls /\ bowls[bowl[t]] = "-" /\ EatingCount(Other(Kind(t))) = 0
  BY <1>1, RulesHold
<1>3. /\ bowls' = [bowls EXCEPT ![bowl[t]] = Kind(t)]
      /\ at' = [at EXCEPT ![t] = "eating"]
      /\ panicked' = panicked
  BY <1>2 DEF EatStart, Goto
<1>4. Kind(t) \in Kinds /\ bowl[t] # 0
  BY <1>2, SimType, CatMouseAssumption DEF Bowls
<1>5. TypeOK'
  BY <1>1, <1>3, <1>4 DEF Places
<1>6. LoopsLeft'
  BY <1>1, <1>3 DEF TurnInv, LoopsLeft
<1>7. TurnInv'
  BY <1>1, <1>3, <1>6, TurnSame DEF InPlaces
<1>8. /\ at'[t] = "eating" /\ bowls'[bowl[t]] = Kind(t)
      /\ \A u \in Sims \ {t} : at'[u] = at[u]
      /\ \A b \in Bowls \ {bowl[t]} : bowls'[b] = bowls[b]
  BY <1>2, <1>3
<1>9. BowlTaken'
  BY <1>1, <1>8 DEF BowlInv, BowlTaken, WithBowl
<1>10. BowlsApart'
  BY <1>1 DEF BowlInv, BowlsApart
<1>11. EatersKnown'
  BY <1>1, <1>8 DEF BowlInv, EatersKnown
<1>12. \A u \in Sims \ {t} : at[u] = "eating" => bowl[u] \in Bowls \ {bowl[t]}
  BY <1>4 DEF BowlInv, BowlTaken, BowlsApart, WithBowl
<1>13. EatersSeen'
  BY <1>1, <1>8, <1>12 DEF BowlInv, EatersSeen
<1> QED
  BY <1>3, <1>5, <1>7, <1>9, <1>10, <1>11, <1>13 DEF BowlInv, RulesKept

\* nor when it has finished.
LEMMA EatFinishStep ==
  ASSUME CatMouseInv, NEW t \in Sims, EatFinish(t)
  PROVE  CatMouseInv'
<1> USE DEF CatMouseInv, TypeOK
<1>1. /\ at[t] = "eating" /\ at' = [at EXCEPT ![t] = "giveback"]
      /\ bowls' = [bowls EXCEPT ![bowl[t]] = "-"]
      /\ UNCHANGED <<loops, bowl, NumEating, Serving, bowlstate, CatMouseWait, joined>>
  BY DEF EatFinish, Goto
<1>2. bowl[t] \in Bowls /\ bowl[t] # 0 /\ bowls[bowl[t]] = Kind(t)
  BY <1>1, CatMouseAssumption DEF BowlInv, BowlTaken, EatersSeen, WithBowl, Bowls
<1>3. panicked' = FALSE
  BY <1>2 DEF EatFinish
<1>4. TypeOK'
  BY <1>1, <1>3 DEF Places
<1>5. LoopsLeft'
  BY <1>1 DEF TurnInv, LoopsLeft
<1>6. TurnInv'
  BY <1>1, <1>5, TurnSame DEF InPlaces
<1>7. /\ at'[t] = "giveback" /\ bowls'[bowl[t]] = "-"
      /\ \A u \in Sims \ {t} : at'[u] = at[u]
      /\ \A b \in Bowls \ {bowl[t]} : bowls'[b] = bowls[b]
  BY <1>1, <1>2
<1>8. BowlTaken'
  BY <1>1, <1>7 DEF BowlInv, BowlTaken, WithBowl
<1>9. BowlsApart'
  BY <1>1 DEF BowlInv, BowlsApart
<1>10. EatersKnown'
  BY <1>1, <1>7 DEF BowlInv, EatersKnown
<1>11. \A u \in Sims \ {t} : at[u] = "eating" => bowl[u] \in Bowls \ {bowl[t]}
  BY <1>2 DEF BowlInv, BowlTaken, BowlsApart, WithBowl
<1>12. EatersSeen'
  BY <1>1, <1>7, <1>11 DEF BowlInv, EatersSeen
<1> QED
  BY <1>3, <1>4, <1>6, <1>8, <1>9, <1>10, <1>12 DEF BowlInv, RulesKept

\* The bowl is free for one waiter when nobody uses it any more.
LEMMA GiveBackStep ==
  ASSUME CatMouseInv, NEW t \in Sims, GiveBack(t)
  PROVE  CatMouseInv'
<1> USE DEF CatMouseInv, TypeOK
<1>1. /\ at[t] = "giveback" /\ bowlstate' = [bowlstate EXCEPT ![bowl[t]] = "o"]
      /\ bowl' = [bowl EXCEPT ![t] = 0]
      /\ UNCHANGED <<loops, NumEating, Serving, bowls, CatMouseWait, joined, panicked>>
  BY DEF GiveBack
<1>2. /\ at' \in [Sims -> Places] /\ at'[t] = "leave"
      /\ \A u \in Sims \ {t} : at'[u] = at[u] \/ (at[u] = "hungry" /\ at'[u] = "choose")
  BY <1>1 DEF GiveBack, SignalBowl, Goto, Places
<1>3. bowl[t] \in Bowls /\ bowl[t] # 0
  BY <1>1, CatMouseAssumption DEF BowlInv, BowlTaken, WithBowl, Bowls
<1>4. TypeOK'
  <2>1. 0 \in 0 .. NumBowls
    BY CatMouseAssumption
  <2>2. bowl' \in [Sims -> 0 .. NumBowls]
    BY <1>1, <2>1
  <2>3. bowlstate' \in [Bowls -> {"o", "f"}]
    BY <1>1
  <2> QED
    BY <1>1, <1>2, <2>2, <2>3
<1>5. LoopsLeft'
  BY <1>1, <1>2 DEF TurnInv, LoopsLeft
<1>6. TurnInv'
  BY <1>1, <1>2, <1>5, TurnSame DEF InPlaces
<1>7. /\ bowl'[t] = 0 /\ \A u \in Sims \ {t} : bowl'[u] = bowl[u]
      /\ \A b \in Bowls \ {bowl[t]} : bowlstate'[b] = bowlstate[b]
  BY <1>1, <1>3
<1>8. \A u \in Sims \ {t} : at[u] \in WithBowl => bowl[u] \in Bowls \ {bowl[t]}
  BY <1>3 DEF BowlInv, BowlTaken, BowlsApart
<1>9. \A u \in Sims \ {t} : (at'[u] \in WithBowl <=> at[u] \in WithBowl)
                            /\ (at'[u] = "eating" <=> at[u] = "eating")
  BY <1>2 DEF WithBowl
<1>10. at'[t] \notin WithBowl /\ at'[t] # "eating" /\ at[t] # "eating"
  BY <1>1, <1>2 DEF WithBowl
<1>11. BowlTaken'
  BY <1>7, <1>8, <1>9, <1>10 DEF BowlInv, BowlTaken
<1>12. BowlsApart'
  BY <1>7 DEF BowlInv, BowlsApart
<1>13. EatersKnown'
  BY <1>1, <1>7, <1>9, <1>10 DEF BowlInv, EatersKnown
<1>14. EatersSeen'
  BY <1>1, <1>7, <1>9, <1>10 DEF BowlInv, EatersSeen
<1> QED
  BY <1>1, <1>4, <1>6, <1>11, <1>12, <1>13, <1>14 DEF BowlInv, RulesKept

\* Whoever leaves was counted; the turn is given up by the last one.
LEMMA LeaveStep ==
  ASSUME CatMouseInv, NEW t \in Sims, Leave(t)
  PROVE  CatMouseInv'
<1> USE DEF CatMouseInv, TypeOK
<1> DEFINE k == Kind(t)
           next == IF LastLoop(t) THEN "done" ELSE "asleep"
<1>1. /\ at[t] = "leave" /\ NumEating' = [NumEating EXCEPT ![k] = @ - 1]
      /\ loops' = [loops EXCEPT ![t] = @ - 1]
      /\ UNCHANGED <<bowl, bowlstate, bowls, joined, panicked>>
      /\ CatMouseWait' \in Nat
      /\ \/ TurnEnds(k) /\ Serving' = 0 /\ GotoAndWake(t, next, Other(k))
         \/ ~TurnEnds(k) /\ Goto(t, next) /\ UNCHANGED Serving
  BY DEF Leave
<1>2. k \in Kinds /\ Other(k) \in Kinds /\ Other(k) # k /\ Kinds = {k, Other(k)}
  BY SimType, OtherKind
<1>3. /\ at' \in [Sims -> Places] /\ at'[t] = next
      /\ \A u \in Sims \ {t} : at'[u] = at[u] \/ (at[u] = "waiting" /\ at'[u] = "arrive")
  <2>1. next \in Places
    BY DEF Places
  <2>2. CASE GotoAndWake(t, next, Other(k))
    BY <2>1, <2>2, WokenPlaces
  <2>3. CASE Goto(t, next)
    BY <2>1, <2>3 DEF Goto
  <2> QED
    BY <1>1, <2>2, <2>3
<1>4. /\ Inside(k)' = Inside(k) \ {t} /\ t \in Inside(k)
      /\ Inside(Other(k))' = Inside(Other(k))
  <2>1. \A kk : Inside(kk)' = {u \in Sims : Kind(u) = kk /\ at'[u] \in InPlaces}
    BY DEF Inside, InPlaces
  <2>2. \A kk : Inside(kk) = {u \in Sims : Kind(u) = kk /\ at[u] \in InPlaces}
    BY DEF Inside, InPlaces
  <2>3. \A u \in Sims \ {t} : at'[u] \in InPlaces <=> at[u] \in InPlaces
    BY <1>3 DEF InPlaces
  <2>4. at'[t] \notin InPlaces /\ at[t] \in InPlaces
    BY <1>1, <1>3 DEF InPlaces
  <2> QED
    BY <1>2, <2>1, <2>2, <2>3, <2>4
<1>5. /\ NumEating[k] \in Nat \ {0} /\ NumEating[k] = Cardinality(Inside(k))
      /\ Cardinality(Inside(k) \ {t}) = NumEating[k] - 1
      /\ NumEating[Other(k)] = Cardinality(Inside(Other(k)))
  <2>1. NumEating[k] = Cardinality(Inside(k)) /\ NumEating[Other(k)] = Cardinality(Inside(Other(k)))
    BY <1>2 DEF TurnInv, TurnCounted
  <2>2. Cardinality(Inside(k)) # 0
    BY <1>4, InsideFinite, FS_EmptySet
  <2>3. Cardinality(Inside(k) \ {t}) = Cardinality(Inside(k)) - 1
    BY <1>4, InsideFinite, FS_RemoveElement
  <2>4. NumEating[k] \in Nat
    BY <1>2
  <2> QED
    BY <2>1, <2>2, <2>3, <2>4
<1>6. Inside(Other(k)) = {}
  BY <1>2, <1>4 DEF TurnInv, TurnKept, Kinds, Other
<1>7. LoopsLeft' /\ loops' \in [Sims -> 0 .. NumLoops]
  <2>1. loops[t] \in 1 .. NumLoops /\ NumLoops \in Nat
    BY <1>1, CatMouseAssumption DEF TurnInv, LoopsLeft
  <2>2. loops' \in [Sims -> 0 .. NumLoops] /\ \A u \in Sims \ {t} : loops'[u] = loops[u]
    BY <1>1, <2>1
  <2>3. at'[t] # "done" => loops'[t] \in 1 .. NumLoops
    BY <1>1, <1>3, <2>1 DEF LastLoop
  <2>4. \A u \in Sims \ {t} : at'[u] # "done" => loops'[u] \in 1 .. NumLoops
    BY <1>3, <2>2 DEF TurnInv, LoopsLeft
  <2> QED
    BY <2>2, <2>3, <2>4 DEF LoopsLeft
<1>8. TypeOK'
  <2>1. NumEating' \in [Kinds -> Nat]
    <3>1. NumEating[k] - 1 \in Nat
      BY <1>5
    <3> QED
      BY <1>1, <3>1
  <2>2. Serving' \in Nat
    BY <1>1
  <2> QED
    BY <1>1, <1>3, <1>7, <2>1, <2>2
<1>9. TurnCounted'
  <2>1. NumEating'[k] = NumEating[k] - 1 /\ NumEating'[Other(k)] = NumEating[Other(k)]
    BY <1>1, <1>2
  <2> QED
    BY <1>2, <1>4, <1>5, <2>1 DEF TurnCounted
<1>10. TurnKept'
  <2>1. \A u \in Inside(k) : Number(u) < Serving
    BY <1>2 DEF TurnInv, TurnKept, Kinds
  <2>2. \A u \in Inside(k)' : Number(u) < Serving'
    <3>1. CASE TurnEnds(k)
      <4>1. Cardinality(Inside(k) \ {t}) = 0 /\ IsFiniteSet(Inside(k) \ {t})
        BY <1>5, <3>1, InsideFinite, FS_RemoveElement DEF TurnEnds
      <4> QED
        BY <1>4, <4>1, FS_EmptySet
    <3>2. CASE ~TurnEnds(k)
      BY <1>1, <1>4, <2>1, <3>2
    <3> QED
      BY <3>1, <3>2
  <2> QED
    BY <1>2, <1>4, <1>6, <2>2 DEF TurnKept, Kinds, Other
<1>11. BowlInv'
  BY <1>1, <1>3, BowlSame DEF WithBowl
<1> QED
  BY <1>1, <1>7, <1>8, <1>9, <1>10, <1>11 DEF TurnInv, RulesKept

-----------------------------------------------------------------------------
(* The theorem.                                                            *)

\* The invariant holds when the simulation is set up.
LEMMA CatMouseInitInv == Init => CatMouseInv
<1> SUFFICES ASSUME Init PROVE CatMouseInv
  OBVIOUS
<1>1. TypeOK
  <2>1. 0 \in 0 .. NumBowls /\ NumLoops \in 0 .. NumLoops
    BY CatMouseAssumption
  <2>2. loops \in [Sims -> 0 .. NumLoops] /\ bowl \in [Sims -> 0 .. NumBowls]
    BY <2>1 DEF Init
  <2>3. at \in [Sims -> Places] /\ bowlstate \in [Bowls -> {"o", "f"}]
    BY DEF Init, Places
  <2> QED
    BY <2>2, <2>3 DEF Init, TypeOK
<1>2. \A k : Inside(k) = {}
  BY DEF Init, Inside
<1>3. TurnInv
  <2>1. LoopsLeft
    BY CatMouseAssumption DEF Init, LoopsLeft
  <2>2. TurnCounted
    BY <1>2, FS_EmptySet DEF Init, TurnCounted
  <2>3. TurnKept
    BY <1>2 DEF TurnKept
  <2> QED
    BY <2>1, <2>2, <2>3 DEF TurnInv
<1>4. BowlInv
  BY DEF Init, BowlInv, BowlTaken, BowlsApart, EatersKnown, EatersSeen, WithBowl
<1> QED
  BY <1>1, <1>3, <1>4 DEF CatMouseInv, Init, RulesKept

\* Every step keeps it.
LEMMA CatMouseNextInv == CatMouseInv /\ [Next]_vars => CatMouseInv'
<1> SUFFICES ASSUME CatMouseInv, [Next]_vars PROVE CatMouseInv'
  OBVIOUS
<1>1. ASSUME NEW t \in Sims, Step(t) PROVE CatMouseInv'
  <2>1. \/ Fork(t) \/ Wake(t) \/ Arrive(t) \/ getOpenBowl(t) \/ EatStart(t) \/ EatFinish(t)
        \/ GiveBack(t) \/ Leave(t)
    BY <1>1 DEF Step, cat_simulation, mouse_simulation, cat_eat, mouse_eat
  <2> QED
    BY <2>1, OutsideStep, ArriveStep, ChooseStep, EatStartStep, EatFinishStep, GiveBackStep,
       LeaveStep
<1>2. CASE Join \/ UNCHANGED vars
  <2>1. /\ UNCHANGED <<at, loops, bowl, NumEating, Serving, bowlstate, bowls, panicked>>
        /\ CatMouseWait' \in Nat /\ joined' \in Nat
    BY <1>2 DEF Join, vars, CatMouseInv, TypeOK
  <2>2. TypeOK'
    BY <2>1 DEF CatMouseInv, TypeOK
  <2>3. LoopsLeft'
    BY <2>1 DEF CatMouseInv, TurnInv, LoopsLeft
  <2>4. TurnInv'
    BY <2>1, <2>3, TurnSame DEF CatMouseInv
  <2>5. BowlInv'
    BY <2>1, BowlSame DEF CatMouseInv
  <2> QED
    BY <2>1, <2>2, <2>4, <2>5 DEF CatMouseInv, RulesKept
<1> QED
  BY <1>1, <1>2 DEF Next

\* So it always holds.
LEMMA CatMouseAlways == CatMouseSpec => []CatMouseInv
BY CatMouseInitInv, CatMouseNextInv, PTL DEF CatMouseSpec

\* With any number of cats, mice, bowls and loops, bowls.c never panics.
THEOREM RulesAlwaysKept == CatMouseSpec => []RulesKept
<1>1. CatMouseInv => RulesKept
  BY DEF CatMouseInv
<1> QED
  BY <1>1, CatMouseAlways, PTL

\* With any number of them, the turn belongs to one kind, whose animals take
\* it in the order of their numbers.
THEOREM TurnAlwaysKept == CatMouseSpec => []TurnKept
<1>1. CatMouseInv => TurnKept
  BY DEF CatMouseInv, TurnInv
<1> QED
  BY <1>1, CatMouseAlways, PTL
=============================================================================
