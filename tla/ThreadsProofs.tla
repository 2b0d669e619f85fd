--------------------------- MODULE ThreadsProofs ---------------------------
(***************************************************************************)
(* Proofs about the thread system: its invariants hold for any number of   *)
(* threads, any set of sleep addresses and any clock rate.                 *)
(*                                                                         *)
(* A step of the thread system is some moves of threads between the lists  *)
(* followed by a switch.  Apart says that lists rq, sl and z share no      *)
(* thread; one lemma per kind of move says that the move keeps them apart, *)
(* and MiSwitch says what the switch makes of lists that are apart.        *)
(***************************************************************************)
EXTENDS Threads, SequenceTheorems, FiniteSetTheorems, TLAPS

-----------------------------------------------------------------------------
(* Sequences without repetition and their ranges.                          *)

\* Appending to the run queue or to the sleepers adds one thread.
LEMMA AppendRange ==
  ASSUME NEW S, NEW s \in Seq(S), NEW x \in S
  PROVE  /\ Append(s, x) \in Seq(S)
         /\ Range(Append(s, x)) = Range(s) \cup {x}
         /\ IsInjective(s) /\ x \notin Range(s) => IsInjective(Append(s, x))
<1>1. /\ Append(s, x) \in Seq(S)
      /\ Len(Append(s, x)) = Len(s) + 1
      /\ \A i \in 1 .. Len(s) : Append(s, x)[i] = s[i]
      /\ Append(s, x)[Len(s) + 1] = x
  BY AppendProperties
<1>2. /\ DOMAIN s = 1 .. Len(s)
      /\ DOMAIN Append(s, x) = 1 .. (Len(s) + 1)
      /\ Len(s) \in Nat
  BY <1>1, LenProperties
<1>3. Range(Append(s, x)) = Range(s) \cup {x}
  BY <1>1, <1>2 DEF Range
<1>4. IsInjective(s) /\ x \notin Range(s) => IsInjective(Append(s, x))
  BY <1>1, <1>2 DEF Range, IsInjective
<1> QED
  BY <1>1, <1>3, <1>4

\* Taking the head of the run queue removes exactly that thread from it.
LEMMA HeadTailRange ==
  ASSUME NEW S, NEW s \in Seq(S), s # <<>>
  PROVE  /\ Head(s) \in S
         /\ Tail(s) \in Seq(S)
         /\ Range(s) = {Head(s)} \cup Range(Tail(s))
         /\ IsInjective(s) => IsInjective(Tail(s)) /\ Head(s) \notin Range(Tail(s))
<1>1. /\ Head(s) \in S
      /\ Tail(s) \in Seq(S)
      /\ Len(Tail(s)) = Len(s) - 1
      /\ \A i \in 1 .. Len(Tail(s)) : Tail(s)[i] = s[i + 1]
  BY HeadTailProperties
<1>2. /\ Len(s) \in Nat \ {0}
      /\ DOMAIN s = 1 .. Len(s)
      /\ DOMAIN Tail(s) = 1 .. (Len(s) - 1)
      /\ Head(s) = s[1]
  BY <1>1, LenProperties, EmptySeq
<1>3. Range(s) = {Head(s)} \cup Range(Tail(s))
  <2>1. ASSUME NEW i \in 1 .. Len(s)
        PROVE  s[i] \in {Head(s)} \cup Range(Tail(s))
    <3>1. CASE i = 1
      BY <3>1, <1>2
    <3>2. CASE i # 1
      <4>1. i - 1 \in 1 .. (Len(s) - 1) /\ (i - 1) + 1 = i
        BY <3>2, <1>2
      <4> QED
        BY <4>1, <1>1, <1>2 DEF Range
    <3> QED
      BY <3>1, <3>2
  <2>2. ASSUME NEW i \in 1 .. (Len(s) - 1)
        PROVE  Tail(s)[i] \in Range(s)
    BY <1>1, <1>2 DEF Range
  <2> QED
    BY <2>1, <2>2, <1>2 DEF Range
<1>4. IsInjective(s) => IsInjective(Tail(s)) /\ Head(s) \notin Range(Tail(s))
  BY <1>1, <1>2 DEF Range, IsInjective
<1> QED
  BY <1>1, <1>3, <1>4

\* Waking every sleeper of an address appends them all to the run queue.
LEMMA ConcatRange ==
  ASSUME NEW S, NEW s \in Seq(S), NEW r \in Seq(S)
  PROVE  /\ s \o r \in Seq(S)
         /\ Range(s \o r) = Range(s) \cup Range(r)
         /\ IsInjective(s) /\ IsInjective(r) /\ Range(s) \cap Range(r) = {}
              => IsInjective(s \o r)
<1>1. /\ s \o r \in Seq(S)
      /\ Len(s \o r) = Len(s) + Len(r)
      /\ \A i \in 1 .. Len(s) + Len(r) : (s \o r)[i] =
            IF i <= Len(s) THEN s[i] ELSE r[i - Len(s)]
  BY ConcatProperties
<1>2. /\ Len(s) \in Nat /\ Len(r) \in Nat
      /\ DOMAIN s = 1 .. Len(s) /\ DOMAIN r = 1 .. Len(r)
      /\ DOMAIN (s \o r) = 1 .. (Len(s) + Len(r))
  BY <1>1, LenProperties
<1>3. ASSUME NEW i \in DOMAIN (s \o r)
      PROVE  \/ i \in DOMAIN s /\ (s \o r)[i] = s[i]
             \/ i - Len(s) \in DOMAIN r /\ (s \o r)[i] = r[i - Len(s)]
  BY <1>1, <1>2
<1>4. ASSUME NEW i \in DOMAIN s
      PROVE  i \in DOMAIN (s \o r) /\ (s \o r)[i] = s[i]
  BY <1>1, <1>2
<1>5. ASSUME NEW i \in DOMAIN r
      PROVE  i + Len(s) \in DOMAIN (s \o r) /\ (s \o r)[i + Len(s)] = r[i]
  <2>1. i + Len(s) \in 1 .. Len(s) + Len(r) /\ ~(i + Len(s) <= Len(s))
        /\ (i + Len(s)) - Len(s) = i
    BY <1>2
  <2> QED
    BY <2>1, <1>1, <1>2
<1>6. Range(s \o r) = Range(s) \cup Range(r)
  <2>1. Range(s \o r) \subseteq Range(s) \cup Range(r)
    BY <1>3 DEF Range
  <2>2. Range(s) \subseteq Range(s \o r) /\ Range(r) \subseteq Range(s \o r)
    BY <1>4, <1>5 DEF Range
  <2> QED
    BY <2>1, <2>2
<1>7. ASSUME IsInjective(s), IsInjective(r), Range(s) \cap Range(r) = {}
      PROVE  IsInjective(s \o r)
  <2> SUFFICES ASSUME NEW i \in DOMAIN (s \o r), NEW j \in DOMAIN (s \o r),
                      (s \o r)[i] = (s \o r)[j]
               PROVE  i = j
    BY DEF IsInjective
  <2>1. CASE i \in DOMAIN s /\ j \in DOMAIN s
    BY <2>1, <1>4, <1>7 DEF IsInjective
  <2>2. CASE i \notin DOMAIN s /\ j \notin DOMAIN s
    <3>1. /\ i - Len(s) \in DOMAIN r /\ (s \o r)[i] = r[i - Len(s)]
          /\ j - Len(s) \in DOMAIN r /\ (s \o r)[j] = r[j - Len(s)]
      BY <2>2, <1>3
    <3>2. i - Len(s) = j - Len(s)
      BY <3>1, <1>7 DEF IsInjective
    <3> QED
      BY <3>2, <1>2
  <2>3. CASE i \in DOMAIN s /\ j \notin DOMAIN s
    <3>1. (s \o r)[i] \in Range(s)
      BY <2>3, <1>4 DEF Range
    <3>2. (s \o r)[j] \in Range(r)
      BY <2>3, <1>3 DEF Range
    <3> QED
      BY <3>1, <3>2, <1>7
  <2>4. CASE i \notin DOMAIN s /\ j \in DOMAIN s
    <3>1. (s \o r)[j] \in Range(s)
      BY <2>4, <1>4 DEF Range
    <3>2. (s \o r)[i] \in Range(r)
      BY <2>4, <1>3 DEF Range
    <3> QED
      BY <3>1, <3>2, <1>7
  <2> QED
    BY <2>1, <2>2, <2>3, <2>4
<1> QED
  BY <1>1, <1>6, <1>7

LEMMA EmptyRange ==
  /\ Range(<<>>) = {}
  /\ IsInjective(<<>>)
  /\ \A S : <<>> \in Seq(S)
<1>1. \A S : <<>> \in Seq(S)
  BY EmptySeq
<1>2. DOMAIN <<>> = 1 .. 0
  BY EmptySeq, LenProperties
<1> QED
  BY <1>1, <1>2 DEF Range, IsInjective

-----------------------------------------------------------------------------
(* Lists that share no thread, and the moves that keep them so.            *)

AsleepIn(sl) == UNION {Range(sl[a]) : a \in Addrs}

On(rq, sl) == Range(rq) \cup AsleepIn(sl)

Apart(rq, sl, z) ==
  /\ rq \in Seq(Threads)
  /\ sl \in [Addrs -> Seq(Threads)]
  /\ z \subseteq Threads
  /\ IsInjective(rq)
  /\ \A a \in Addrs : IsInjective(sl[a])
  /\ Range(rq) \cap AsleepIn(sl) = {}
  /\ z \cap On(rq, sl) = {}
  /\ \A a, b \in Addrs : a # b => Range(sl[a]) \cap Range(sl[b]) = {}

LEMMA RangeType ==
  ASSUME NEW S, NEW s \in Seq(S)
  PROVE  Range(s) \subseteq S
BY LenProperties, ElementOfSeq DEF Range

\* sl2 is sl but for what it says at address a.
Differs(sl, sl2, a) ==
  /\ sl2 \in [Addrs -> Seq(Threads)]
  /\ \A b \in Addrs : b # a => sl2[b] = sl[b]

\* make_runnable() on a thread that is on no list.
LEMMA MakeRunnable ==
  ASSUME NEW rq, NEW sl, NEW z, Apart(rq, sl, z),
         NEW t \in Threads, t \notin On(rq, sl) \cup z
  PROVE  /\ Apart(Append(rq, t), sl, z)
         /\ On(Append(rq, t), sl) = On(rq, sl) \cup {t}
<1>1. /\ Append(rq, t) \in Seq(Threads)
      /\ Range(Append(rq, t)) = Range(rq) \cup {t}
      /\ IsInjective(Append(rq, t))
  BY AppendRange DEF Apart, On
<1> QED
  BY <1>1 DEF Apart, On

\* array_add(sleepers) of a thread that is on no list.
LEMMA AddSleeper ==
  ASSUME NEW rq, NEW sl, NEW z, Apart(rq, sl, z), NEW a \in Addrs,
         NEW t \in Threads, t \notin On(rq, sl) \cup z,
         NEW sl2, Differs(sl, sl2, a), sl2[a] = Append(sl[a], t)
  PROVE  /\ Apart(rq, sl2, z)
         /\ AsleepIn(sl2) = AsleepIn(sl) \cup {t}
         /\ On(rq, sl2) = On(rq, sl) \cup {t}
<1>1. sl[a] \in Seq(Threads) /\ IsInjective(sl[a]) /\ t \notin Range(sl[a])
  BY DEF Apart, On, AsleepIn
<1>2. /\ Append(sl[a], t) \in Seq(Threads)
      /\ Range(Append(sl[a], t)) = Range(sl[a]) \cup {t}
      /\ IsInjective(Append(sl[a], t))
  BY <1>1, AppendRange
<1>3. /\ sl2 \in [Addrs -> Seq(Threads)]
      /\ sl2[a] = Append(sl[a], t)
      /\ \A b \in Addrs : b # a => sl2[b] = sl[b]
  BY DEF Differs
<1>4. AsleepIn(sl2) = AsleepIn(sl) \cup {t}
  BY <1>2, <1>3 DEF AsleepIn
<1>5. \A b \in Addrs : IsInjective(sl2[b])
  BY <1>2, <1>3 DEF Apart
<1>6. \A b, c \in Addrs : b # c => Range(sl2[b]) \cap Range(sl2[c]) = {}
  <2>1. \A b \in Addrs : t \notin Range(sl[b])
    BY DEF On, AsleepIn
  <2>2. \A b, c \in Addrs : b # c => Range(sl[b]) \cap Range(sl[c]) = {}
    BY DEF Apart
  <2> SUFFICES ASSUME NEW b \in Addrs, NEW c \in Addrs, b # c,
                      NEW x, x \in Range(sl2[b]), x \in Range(sl2[c])
               PROVE  FALSE
    OBVIOUS
  <2>3. \A d \in Addrs : x \in Range(sl2[d]) => x \in Range(sl[d]) \/ (d = a /\ x = t)
    BY <1>2, <1>3
  <2>4. x \in Range(sl[b]) \/ (b = a /\ x = t)
    BY <2>3
  <2>5. x \in Range(sl[c]) \/ (c = a /\ x = t)
    BY <2>3
  <2> QED
    BY <2>1, <2>2, <2>4, <2>5
<1> QED
  BY <1>3, <1>4, <1>5, <1>6 DEF Apart, On

\* thread_wakeup().
LEMMA WakeAll ==
  ASSUME NEW rq, NEW sl, NEW z, Apart(rq, sl, z), NEW a \in Addrs,
         NEW sl2, Differs(sl, sl2, a), sl2[a] = <<>>
  PROVE  /\ Apart(rq \o sl[a], sl2, z)
         /\ AsleepIn(sl2) \subseteq AsleepIn(sl)
         /\ On(rq \o sl[a], sl2) = On(rq, sl)
<1>1. /\ rq \in Seq(Threads) /\ IsInjective(rq)
      /\ sl[a] \in Seq(Threads) /\ IsInjective(sl[a])
      /\ Range(rq) \cap Range(sl[a]) = {}
  BY DEF Apart, AsleepIn
<1>2. /\ rq \o sl[a] \in Seq(Threads)
      /\ Range(rq \o sl[a]) = Range(rq) \cup Range(sl[a])
      /\ IsInjective(rq \o sl[a])
  BY <1>1, ConcatRange
<1>3. /\ sl2 \in [Addrs -> Seq(Threads)]
      /\ Range(sl2[a]) = {}
      /\ IsInjective(sl2[a])
      /\ \A b \in Addrs : b # a => sl2[b] = sl[b]
  BY EmptyRange DEF Differs
<1>4. ASSUME NEW t \in AsleepIn(sl2)
      PROVE  t \in AsleepIn(sl) /\ t \notin Range(sl[a])
  <2>1. PICK b \in Addrs : t \in Range(sl2[b])
    BY DEF AsleepIn
  <2>2. b # a /\ t \in Range(sl[b])
    BY <1>3, <2>1
  <2>3. Range(sl[b]) \cap Range(sl[a]) = {}
    BY <2>2 DEF Apart
  <2> QED
    BY <2>2, <2>3 DEF AsleepIn
<1>5. AsleepIn(sl) = AsleepIn(sl2) \cup Range(sl[a])
  BY <1>3, <1>4 DEF AsleepIn
<1>6. \A b \in Addrs : IsInjective(sl2[b])
  BY <1>3 DEF Apart
<1>7. \A b, c \in Addrs : b # c => Range(sl2[b]) \cap Range(sl2[c]) = {}
  BY <1>3 DEF Apart
<1>8. On(rq \o sl[a], sl2) = On(rq, sl)
  BY <1>2, <1>5 DEF On
<1>9. Range(rq \o sl[a]) \cap AsleepIn(sl2) = {}
  BY <1>2, <1>4 DEF Apart
<1> QED
  BY <1>2, <1>3, <1>4, <1>6, <1>7, <1>8, <1>9 DEF Apart

\* thread_wakeup_one() when somebody sleeps.
LEMMA WakeFirst ==
  ASSUME NEW rq, NEW sl, NEW z, Apart(rq, sl, z),
         NEW a \in Addrs, sl[a] # <<>>,
         NEW sl2, Differs(sl, sl2, a), sl2[a] = Tail(sl[a])
  PROVE  /\ Apart(Append(rq, Head(sl[a])), sl2, z)
         /\ AsleepIn(sl2) \subseteq AsleepIn(sl)
         /\ On(Append(rq, Head(sl[a])), sl2) = On(rq, sl)
<1> DEFINE t == Head(sl[a])
<1>1. sl[a] \in Seq(Threads) /\ IsInjective(sl[a])
  BY DEF Apart
<1>2. /\ t \in Threads
      /\ Tail(sl[a]) \in Seq(Threads)
      /\ Range(sl[a]) = {t} \cup Range(Tail(sl[a]))
      /\ IsInjective(Tail(sl[a]))
      /\ t \notin Range(Tail(sl[a]))
  BY <1>1, HeadTailRange
<1>3. /\ sl2 \in [Addrs -> Seq(Threads)]
      /\ sl2[a] = Tail(sl[a])
      /\ \A b \in Addrs : b # a => sl2[b] = sl[b]
  BY DEF Differs
<1>4. t \notin AsleepIn(sl2)
  <2> SUFFICES ASSUME NEW b \in Addrs, t \in Range(sl2[b])
               PROVE  FALSE
    BY DEF AsleepIn
  <2>1. b # a /\ t \in Range(sl[b])
    BY <1>2, <1>3
  <2>2. Range(sl[b]) \cap Range(sl[a]) = {}
    BY <2>1 DEF Apart
  <2> QED
    BY <1>2, <2>1, <2>2
<1>5. AsleepIn(sl) = AsleepIn(sl2) \cup {t}
  BY <1>2, <1>3 DEF AsleepIn
<1>6. Apart(rq, sl2, z)
  <2>1. \A b \in Addrs : IsInjective(sl2[b])
    BY <1>2, <1>3 DEF Apart
  <2>2. \A b, c \in Addrs : b # c => Range(sl2[b]) \cap Range(sl2[c]) = {}
    BY <1>2, <1>3 DEF Apart
  <2> QED
    BY <1>3, <1>5, <2>1, <2>2 DEF Apart, On
<1>7. t \notin On(rq, sl2) \cup z
  BY <1>4, <1>5 DEF Apart, On
<1>8. Apart(Append(rq, t), sl2, z) /\ On(Append(rq, t), sl2) = On(rq, sl2) \cup {t}
  <2>1. t \in Threads
    BY <1>2
  <2> HIDE DEF t
  <2> QED
    BY <2>1, <1>6, <1>7, MakeRunnable
<1>9. On(rq, sl2) \cup {t} = On(rq, sl)
  BY <1>5 DEF On
<1>10. AsleepIn(sl2) \subseteq AsleepIn(sl)
  BY <1>5
<1> QED
  BY <1>8, <1>9, <1>10

-----------------------------------------------------------------------------
(* The switch.                                                             *)

\* Every thread finds in_interrupt as it left it, and the thread that is
\* switched away from leaves it at irq.
LEMMA MdSwitch ==
  ASSUME NEW next \in Threads, NEW irq \in {0, 1}, md_switch(next, irq),
         curkstack \in Threads,
         in_interrupt \in {0, 1},
         pcb_ininterrupt \in [Threads -> {0, 1}]
  PROVE  /\ curkstack' = next
         /\ in_interrupt' \in {0, 1}
         /\ pcb_ininterrupt' \in [Threads -> {0, 1}]
         /\ \A t \in Threads :
              InInterrupt(t)' = IF t = curkstack THEN irq ELSE InInterrupt(t)
BY DEF md_switch, InInterrupt

\* mi_switch() on lists that are apart and hold the old thread: the next
\* thread leaves the run queue, the zombies are kept or all destroyed, and
\* the processor stays on a stack that exists.
LEMMA MiSwitch ==
  ASSUME NEW rq, NEW z, NEW irq \in {0, 1}, ThreadTypeOK,
         Apart(rq, sleepers', z),
         curkstack \in On(rq, sleepers') \cup z,
         mi_switch(rq, z, irq)
  PROVE  /\ curthread' \in Threads \cup {NULL}
         /\ curkstack' \in Threads
         /\ runqueue' \in Seq(Threads)
         /\ zombies' \subseteq Threads
         /\ fresh' \subseteq Threads
         /\ in_interrupt' \in {0, 1}
         /\ pcb_ininterrupt' \in [Threads -> {0, 1}]
         /\ Apart(runqueue', sleepers', zombies')
         /\ curthread' \notin On(runqueue', sleepers') \cup zombies'
         /\ Outstanding' = On(rq, sleepers')
         /\ StackExists'
         /\ \A t \in Threads :
              InInterrupt(t)' = IF t = curkstack THEN irq ELSE InInterrupt(t)
<1> USE ThreadsAssumption
<1>0. /\ On(rq, sleepers') \cup z \subseteq Threads
      /\ NULL \notin On(rq, sleepers') \cup z
  BY RangeType DEF Apart, On, AsleepIn
<1>1. CASE rq # <<>> /\ RunHead(rq, z, irq)
  <2> DEFINE next == Head(rq)
  <2>1. /\ next \in Threads
        /\ Tail(rq) \in Seq(Threads)
        /\ Range(rq) = {next} \cup Range(Tail(rq))
        /\ IsInjective(Tail(rq))
        /\ next \notin Range(Tail(rq))
    BY <1>1, HeadTailRange DEF Apart
  <2>2. /\ curthread' = next
        /\ runqueue' = Tail(rq)
        /\ md_switch(next, irq)
        /\ fresh' = fresh \ {next}
        /\ zombies' \in {z, {}}
    BY <1>1 DEF RunHead, exorcise
  <2>3. /\ curkstack' = next
        /\ in_interrupt' \in {0, 1}
        /\ pcb_ininterrupt' \in [Threads -> {0, 1}]
        /\ \A t \in Threads :
             InInterrupt(t)' = IF t = curkstack THEN irq ELSE InInterrupt(t)
    BY <2>1, <2>2, MdSwitch DEF ThreadTypeOK
  <2>4. Apart(runqueue', sleepers', zombies')
    BY <2>1, <2>2 DEF Apart, On
  <2>5. curthread' \notin On(runqueue', sleepers') \cup zombies'
    BY <2>1, <2>2 DEF Apart, On
  <2>6. Outstanding' = On(rq, sleepers')
    BY <2>1, <2>2 DEF Outstanding, On, AsleepIn, Sleeping
  <2>7. StackExists'
    BY <2>1, <2>2, <2>3 DEF StackExists, Existing, Outstanding
  <2>8. zombies' \subseteq Threads /\ fresh' \subseteq Threads
    BY <2>2 DEF Apart, ThreadTypeOK
  <2> QED
    BY <2>1, <2>2, <2>3, <2>4, <2>5, <2>6, <2>7, <2>8
<1>2. CASE /\ rq = <<>>
           /\ curthread' = NULL
           /\ runqueue' = rq
           /\ zombies' = z
           /\ in_interrupt' = irq
           /\ UNCHANGED <<curkstack, pcb_ininterrupt, fresh>>
  <2>1. Apart(runqueue', sleepers', zombies')
    BY <1>2
  <2>2. curthread' \notin On(runqueue', sleepers') \cup zombies'
    BY <1>0, <1>2
  <2>3. Outstanding' = On(rq, sleepers')
    BY <1>2 DEF Outstanding, On, AsleepIn, Sleeping
  <2>4. StackExists'
    BY <1>2, <2>3 DEF StackExists, Existing
  <2>5. \A t \in Threads :
          InInterrupt(t)' = IF t = curkstack THEN irq ELSE InInterrupt(t)
    BY <1>2 DEF InInterrupt
  <2> QED
    BY <1>2, <2>1, <2>2, <2>3, <2>4, <2>5 DEF ThreadTypeOK, Apart
<1> QED
  BY <1>1, <1>2 DEF mi_switch

-----------------------------------------------------------------------------
(* The inductive invariant.                                                *)

ThreadInv ==
  /\ ThreadTypeOK
  /\ OnePlace
  /\ StackExists
  /\ ThreadCount
  /\ SleepersNotInInterrupt

\* ThreadInv in terms of the lists.
LEMMA InvLists ==
  ASSUME ThreadInv
  PROVE  /\ Apart(runqueue, sleepers, zombies)
         /\ curthread \notin On(runqueue, sleepers) \cup zombies
         /\ Outstanding = ({curthread} \ {NULL}) \cup On(runqueue, sleepers)
         /\ Outstanding \subseteq Threads
         /\ IsFiniteSet(Outstanding)
         /\ Sleeping = AsleepIn(sleepers)
         /\ curkstack \in Outstanding \cup zombies
<1>1. Apart(runqueue, sleepers, zombies)
  BY DEF ThreadInv, ThreadTypeOK, OnePlace, Apart, On, AsleepIn, Sleeping
<1>2. curthread \notin On(runqueue, sleepers) \cup zombies
  BY DEF ThreadInv, OnePlace, On, AsleepIn, Sleeping
<1>3. /\ Outstanding = ({curthread} \ {NULL}) \cup On(runqueue, sleepers)
      /\ Sleeping = AsleepIn(sleepers)
  BY DEF Outstanding, On, AsleepIn, Sleeping
<1>4. On(runqueue, sleepers) \subseteq Threads
  BY RangeType DEF ThreadInv, ThreadTypeOK, On, AsleepIn
<1>5. Outstanding \subseteq Threads
  BY <1>3, <1>4 DEF ThreadInv, ThreadTypeOK
<1>6. IsFiniteSet(Outstanding)
  BY <1>5, FS_Subset, ThreadsAssumption
<1>7. curkstack \in Outstanding \cup zombies
  BY DEF ThreadInv, StackExists, Existing
<1> QED
  BY <1>1, <1>2, <1>3, <1>5, <1>6, <1>7

\* A step that ends in a switch.
LEMMA Switched ==
  ASSUME ThreadInv, NEW rq, NEW z, NEW irq \in {0, 1},
         Apart(rq, sleepers', z),
         curkstack \in On(rq, sleepers') \cup z,
         mi_switch(rq, z, irq),
         numthreads' \in Nat,
         numthreads' = Cardinality(On(rq, sleepers')),
         lbolt_counter' \in 0 .. HZ - 1,
         \A t \in AsleepIn(sleepers') :
           (IF t = curkstack THEN irq ELSE InInterrupt(t)) = 0
  PROVE  ThreadInv'
<1>1. /\ curthread' \in Threads \cup {NULL}
      /\ curkstack' \in Threads
      /\ runqueue' \in Seq(Threads)
      /\ zombies' \subseteq Threads
      /\ fresh' \subseteq Threads
      /\ in_interrupt' \in {0, 1}
      /\ pcb_ininterrupt' \in [Threads -> {0, 1}]
      /\ Apart(runqueue', sleepers', zombies')
      /\ curthread' \notin On(runqueue', sleepers') \cup zombies'
      /\ Outstanding' = On(rq, sleepers')
      /\ StackExists'
      /\ \A t \in Threads :
           InInterrupt(t)' = IF t = curkstack THEN irq ELSE InInterrupt(t)
  BY MiSwitch DEF ThreadInv
<1>2. ThreadTypeOK'
  BY <1>1 DEF ThreadTypeOK, Apart
<1>3. OnePlace'
  BY <1>1 DEF OnePlace, Apart, On, AsleepIn, Sleeping
<1>4. ThreadCount'
  BY <1>1 DEF ThreadCount
<1>5. SleepersNotInInterrupt'
  <2>1. AsleepIn(sleepers') \subseteq Threads
    BY RangeType DEF Apart, AsleepIn
  <2>2. Sleeping' = AsleepIn(sleepers')
    BY DEF Sleeping, AsleepIn
  <2> QED
    BY <1>1, <2>1, <2>2 DEF SleepersNotInInterrupt
<1> QED
  BY <1>1, <1>2, <1>3, <1>4, <1>5 DEF ThreadInv

\* A step that only wakes threads.
LEMMA Woken ==
  ASSUME ThreadInv,
         Apart(runqueue', sleepers', zombies),
         On(runqueue', sleepers') = On(runqueue, sleepers),
         AsleepIn(sleepers') \subseteq AsleepIn(sleepers),
         UNCHANGED <<processor, zombies, fresh, numthreads>>,
         lbolt_counter' \in 0 .. HZ - 1
  PROVE  ThreadInv'
<1>1. /\ Apart(runqueue, sleepers, zombies)
      /\ curthread \notin On(runqueue, sleepers) \cup zombies
      /\ Outstanding = ({curthread} \ {NULL}) \cup On(runqueue, sleepers)
      /\ Sleeping = AsleepIn(sleepers)
  BY InvLists
<1>2. ThreadTypeOK'
  BY DEF ThreadInv, ThreadTypeOK, Apart, processor
<1>3. OnePlace'
  BY <1>1 DEF OnePlace, Apart, On, AsleepIn, Sleeping, processor
<1>4. Outstanding' = Outstanding
  BY <1>1 DEF Outstanding, On, AsleepIn, Sleeping, processor
<1>5. StackExists'
  BY <1>4 DEF ThreadInv, StackExists, Existing, processor
<1>6. ThreadCount'
  BY <1>4 DEF ThreadInv, ThreadCount
<1>7. SleepersNotInInterrupt'
  <2>1. Sleeping' \subseteq Sleeping
    BY <1>1 DEF Sleeping, AsleepIn
  <2>2. \A t : InInterrupt(t)' = InInterrupt(t)
    BY DEF InInterrupt, processor
  <2> QED
    BY <2>1, <2>2 DEF ThreadInv, SleepersNotInInterrupt
<1> QED
  BY <1>2, <1>3, <1>5, <1>6, <1>7 DEF ThreadInv

-----------------------------------------------------------------------------
(* Every operation preserves the invariant.                                *)

\* What a running thread knows.
LEMMA Running ==
  ASSUME ThreadInv, curthread # NULL
  PROVE  /\ curthread \in Threads
         /\ curkstack = curthread
         /\ curthread \in Outstanding
         /\ Outstanding = On(runqueue, sleepers) \cup {curthread}
BY InvLists DEF ThreadInv, ThreadTypeOK, StackExists

LEMMA CountType ==
  ASSUME ThreadInv
  PROVE  /\ numthreads \in Nat
         /\ numthreads = Cardinality(Outstanding)
         /\ lbolt_counter \in 0 .. HZ - 1
         /\ in_interrupt \in {0, 1}
BY DEF ThreadInv, ThreadTypeOK, ThreadCount

LEMMA ForkInv == ASSUME ThreadInv, NEW t \in Threads, thread_fork(t)
                 PROVE  ThreadInv'
<1>1. /\ Apart(runqueue, sleepers, zombies)
      /\ curthread \notin On(runqueue, sleepers) \cup zombies
      /\ Outstanding = On(runqueue, sleepers) \cup {curthread}
      /\ IsFiniteSet(Outstanding)
      /\ curthread \in Threads
      /\ curkstack = curthread
  BY InvLists, Running DEF thread_fork, InThread
<1>2. t \notin Outstanding \cup zombies
  BY DEF thread_fork, Existing
<1>3. /\ Apart(runqueue', sleepers', zombies')
      /\ On(runqueue', sleepers') = On(runqueue, sleepers) \cup {t}
  BY <1>1, <1>2, MakeRunnable DEF thread_fork
<1>4. Outstanding' = Outstanding \cup {t}
  BY <1>1, <1>3, ThreadsAssumption
  DEF thread_fork, Outstanding, On, AsleepIn, Sleeping
<1>5. ThreadTypeOK'
  BY <1>3 DEF ThreadInv, ThreadTypeOK, thread_fork, Apart
<1>6. OnePlace'
  BY <1>1, <1>2, <1>3
  DEF OnePlace, Apart, On, AsleepIn, Sleeping, thread_fork
<1>7. StackExists'
  BY <1>4 DEF ThreadInv, StackExists, Existing, thread_fork
<1>8. ThreadCount'
  <2>1. Cardinality(Outstanding \cup {t}) = Cardinality(Outstanding) + 1
    BY <1>1, <1>2, FS_AddElement
  <2>2. numthreads' = Cardinality(Outstanding) + 1
    BY CountType DEF thread_fork
  <2> QED
    BY <1>4, <2>1, <2>2 DEF ThreadCount
<1>9. SleepersNotInInterrupt'
  <2>1. Sleeping' = Sleeping
    BY DEF Sleeping, thread_fork
  <2>2. Sleeping \subseteq Outstanding /\ Outstanding \subseteq Threads
    BY InvLists DEF Outstanding
  <2>3. \A u \in Threads : u # t => pcb_ininterrupt'[u] = pcb_ininterrupt[u]
    BY DEF thread_fork, ThreadInv, ThreadTypeOK
  <2>4. curkstack' = curkstack /\ in_interrupt' = in_interrupt
    BY DEF thread_fork
  <2>5. \A u \in Sleeping : u \in Threads /\ u # t
    BY <1>2, <2>2
  <2>6. \A u \in Sleeping : InInterrupt(u)' = InInterrupt(u)
    BY <2>3, <2>4, <2>5 DEF InInterrupt
  <2> QED
    BY <2>1, <2>6 DEF ThreadInv, SleepersNotInInterrupt
<1> QED
  BY <1>5, <1>6, <1>7, <1>8, <1>9 DEF ThreadInv

LEMMA ExitInv == ASSUME ThreadInv, thread_exit
                 PROVE  ThreadInv'
<1> DEFINE z == zombies \cup {curthread}
<1>1. /\ Apart(runqueue, sleepers, zombies)
      /\ curthread \notin On(runqueue, sleepers) \cup zombies
      /\ Outstanding = On(runqueue, sleepers) \cup {curthread}
      /\ IsFiniteSet(Outstanding)
      /\ curthread \in Threads
      /\ curkstack = curthread
      /\ Sleeping = AsleepIn(sleepers)
      /\ sleepers' = sleepers
  BY InvLists, Running DEF thread_exit, InThread
<1>2. Apart(runqueue, sleepers', z)
  BY <1>1 DEF Apart
<1>3. /\ On(runqueue, sleepers') = Outstanding \ {curthread}
      /\ curthread \in Outstanding
  BY <1>1
<1>4. /\ Cardinality(Outstanding \ {curthread}) = Cardinality(Outstanding) - 1
      /\ Cardinality(Outstanding \ {curthread}) \in Nat
  BY <1>1, <1>3, FS_RemoveElement, FS_CardinalityType
<1>5. /\ numthreads' = Cardinality(On(runqueue, sleepers'))
      /\ numthreads' \in Nat
      /\ lbolt_counter' \in 0 .. HZ - 1
  BY <1>3, <1>4, CountType DEF thread_exit
<1>6. \A t \in AsleepIn(sleepers') :
        (IF t = curkstack THEN in_interrupt ELSE InInterrupt(t)) = 0
  BY <1>1 DEF ThreadInv, SleepersNotInInterrupt, On
<1>7. mi_switch(runqueue, z, in_interrupt) /\ in_interrupt \in {0, 1}
  BY CountType DEF thread_exit
<1>8. curkstack \in On(runqueue, sleepers') \cup z
  BY <1>1
<1> HIDE DEF z
<1> QED
  BY <1>2, <1>5, <1>6, <1>7, <1>8, Switched

\* Yielding with run queue rq and sleepers sl, in or out of a handler.
LEMMA YieldInv ==
  ASSUME ThreadInv, curthread # NULL, NEW rq, NEW irq \in {0, 1},
         Apart(rq, sleepers', zombies),
         On(rq, sleepers') = On(runqueue, sleepers),
         AsleepIn(sleepers') \subseteq AsleepIn(sleepers),
         numthreads' = numthreads,
         lbolt_counter' \in 0 .. HZ - 1,
         mi_switch(Append(rq, curthread), zombies, irq)
  PROVE  ThreadInv'
<1> DEFINE rq2 == Append(rq, curthread)
<1>1. /\ curthread \notin On(runqueue, sleepers) \cup zombies
      /\ Outstanding = On(runqueue, sleepers) \cup {curthread}
      /\ curthread \in Threads
      /\ curkstack = curthread
      /\ Sleeping = AsleepIn(sleepers)
  BY InvLists, Running
<1>2. /\ Apart(rq2, sleepers', zombies)
      /\ On(rq2, sleepers') = Outstanding
  BY <1>1, MakeRunnable
<1>3. /\ numthreads' = Cardinality(On(rq2, sleepers'))
      /\ numthreads' \in Nat
  BY <1>2, CountType
<1>4. \A t \in AsleepIn(sleepers') :
        (IF t = curkstack THEN irq ELSE InInterrupt(t)) = 0
  BY <1>1 DEF ThreadInv, SleepersNotInInterrupt, On
<1>5. curkstack \in On(rq2, sleepers') \cup zombies
  BY <1>1, <1>2
<1>6. mi_switch(rq2, zombies, irq)
  OBVIOUS
<1> HIDE DEF rq2
<1> QED
  BY <1>2, <1>3, <1>4, <1>5, <1>6, Switched

\* Sleeping on a after wakeups that left run queue rq and sleepers sl.
LEMMA SleepInv ==
  ASSUME ThreadInv, InThread, NEW rq, NEW sl, NEW a \in Addrs,
         Apart(rq, sl, zombies),
         On(rq, sl) = On(runqueue, sleepers),
         AsleepIn(sl) \subseteq AsleepIn(sleepers),
         SleepAfter(rq, sl, a)
  PROVE  ThreadInv'
<1>1. /\ curthread \notin On(runqueue, sleepers) \cup zombies
      /\ Outstanding = On(runqueue, sleepers) \cup {curthread}
      /\ curthread \in Threads
      /\ curkstack = curthread
      /\ Sleeping = AsleepIn(sleepers)
      /\ in_interrupt = 0
  BY InvLists, Running DEF InThread
<1>2. /\ Apart(rq, sleepers', zombies)
      /\ AsleepIn(sleepers') = AsleepIn(sl) \cup {curthread}
      /\ On(rq, sleepers') = On(rq, sl) \cup {curthread}
  <2>1. curthread \notin On(rq, sl) \cup zombies
    BY <1>1
  <2>2. /\ Differs(sl, sleepers', a)
        /\ sleepers'[a] = Append(sl[a], curthread)
    BY <1>1, AppendRange DEF SleepAfter, Differs, Apart
  <2> QED
    BY <1>1, <2>1, <2>2, AddSleeper
<1>3. /\ numthreads' = Cardinality(On(rq, sleepers'))
      /\ numthreads' \in Nat
      /\ lbolt_counter' \in 0 .. HZ - 1
  BY <1>1, <1>2, CountType DEF SleepAfter
<1>4. \A t \in AsleepIn(sleepers') :
        (IF t = curkstack THEN 0 ELSE InInterrupt(t)) = 0
  BY <1>1, <1>2 DEF ThreadInv, SleepersNotInInterrupt
<1>5. curkstack \in On(rq, sleepers') \cup zombies
  BY <1>1, <1>2
<1>6. mi_switch(rq, zombies, 0)
  BY <1>1 DEF SleepAfter
<1> QED
  BY <1>2, <1>3, <1>4, <1>5, <1>6, Switched

\* The lists after thread_wakeup(a), before a switch if there is one.
LEMMA WokenLists ==
  ASSUME ThreadInv, NEW a \in Addrs
  PROVE  /\ Apart(WokenQueue(a), WokenSleepers(a), zombies)
         /\ AsleepIn(WokenSleepers(a)) \subseteq AsleepIn(sleepers)
         /\ On(WokenQueue(a), WokenSleepers(a)) = On(runqueue, sleepers)
<1>1. Apart(runqueue, sleepers, zombies)
  BY InvLists
<1>2. /\ Differs(sleepers, WokenSleepers(a), a)
      /\ WokenSleepers(a)[a] = <<>>
  BY <1>1, EmptyRange DEF WokenSleepers, Differs, Apart
<1> QED
  BY <1>1, <1>2, WakeAll DEF WokenQueue

LEMMA WakeInv == ASSUME ThreadInv, NEW a \in Addrs, thread_wakeup(a)
                 PROVE  ThreadInv'
<1>1. /\ runqueue' = WokenQueue(a)
      /\ sleepers' = WokenSleepers(a)
      /\ UNCHANGED <<processor, zombies, fresh, numthreads>>
      /\ lbolt_counter' \in 0 .. HZ - 1
  BY CountType DEF thread_wakeup
<1> QED
  BY <1>1, WokenLists, Woken

LEMMA WakeOneInv == ASSUME ThreadInv, NEW a \in Addrs, thread_wakeup_one(a)
                    PROVE  ThreadInv'
<1>1. /\ Apart(runqueue, sleepers, zombies)
      /\ UNCHANGED <<processor, zombies, fresh, numthreads>>
      /\ lbolt_counter' \in 0 .. HZ - 1
  BY InvLists, CountType DEF thread_wakeup_one
<1>2. CASE sleepers[a] = <<>>
  <2>1. UNCHANGED <<runqueue, sleepers>>
    BY <1>2 DEF thread_wakeup_one
  <2> QED
    BY <1>1, <2>1, Woken
<1>3. CASE sleepers[a] # <<>>
  <2>1. runqueue' = Append(runqueue, Head(sleepers[a]))
    BY <1>3 DEF thread_wakeup_one
  <2>2. Tail(sleepers[a]) \in Seq(Threads)
    BY <1>1, <1>3, HeadTailRange DEF Apart
  <2>3. /\ Differs(sleepers, sleepers', a)
        /\ sleepers'[a] = Tail(sleepers[a])
    BY <1>1, <1>3, <2>2 DEF Differs, Apart, thread_wakeup_one
  <2>4. /\ Apart(runqueue', sleepers', zombies)
        /\ AsleepIn(sleepers') \subseteq AsleepIn(sleepers)
        /\ On(runqueue', sleepers') = On(runqueue, sleepers)
    BY <1>1, <1>3, <2>1, <2>3, WakeFirst
  <2> QED
    BY <1>1, <2>4, Woken
<1> QED
  BY <1>2, <1>3

LEMMA ClockInv == ASSUME ThreadInv, hardclock
                  PROVE  ThreadInv'
<1> DEFINE rq == IF SecondPassed THEN WokenQueue(lbolt) ELSE runqueue
<1>1. /\ sleepers' = IF SecondPassed THEN WokenSleepers(lbolt) ELSE sleepers
      /\ lbolt_counter' \in 0 .. HZ - 1
      /\ numthreads' = numthreads
      /\ PreemptWith(rq)
  BY CountType, ThreadsAssumption DEF hardclock, SecondPassed
<1>2. /\ Apart(rq, sleepers', zombies)
      /\ AsleepIn(sleepers') \subseteq AsleepIn(sleepers)
      /\ On(rq, sleepers') = On(runqueue, sleepers)
  BY <1>1, InvLists, WokenLists, ThreadsAssumption
<1> HIDE DEF rq
<1>3. CASE curthread # NULL
  <2>1. mi_switch(Append(rq, curthread), zombies, 1)
    BY <1>1, <1>3 DEF PreemptWith
  <2> QED
    BY <1>1, <1>2, <1>3, <2>1, YieldInv
<1>4. CASE curthread = NULL
  <2>1. runqueue' = rq /\ UNCHANGED <<processor, zombies, fresh>>
    BY <1>1, <1>4 DEF PreemptWith
  <2> QED
    BY <1>1, <1>2, <2>1, Woken
<1> QED
  BY <1>3, <1>4

LEMMA ReturnInv == ASSUME ThreadInv, ReturnFromInterrupt
                   PROVE  ThreadInv'
<1>1. \A t : InInterrupt(t) = 0 => InInterrupt(t)' = 0
  BY DEF InInterrupt, ReturnFromInterrupt
<1>2. Sleeping' = Sleeping /\ Outstanding' = Outstanding /\ Existing' = Existing
  BY DEF Sleeping, Outstanding, Existing, ReturnFromInterrupt, lists
<1>3. ThreadTypeOK' /\ OnePlace' /\ StackExists' /\ ThreadCount'
  BY <1>2 DEF ThreadInv, ThreadTypeOK, OnePlace, StackExists, ThreadCount,
              ReturnFromInterrupt, lists
<1>4. SleepersNotInInterrupt'
  BY <1>1, <1>2 DEF ThreadInv, SleepersNotInInterrupt
<1> QED
  BY <1>3, <1>4 DEF ThreadInv

LEMMA IdleInv == ASSUME ThreadInv, LeaveIdle
                 PROVE  ThreadInv'
<1>1. /\ Apart(runqueue, sleepers, zombies)
      /\ Outstanding = On(runqueue, sleepers)
      /\ curkstack \in On(runqueue, sleepers) \cup zombies
      /\ Sleeping = AsleepIn(sleepers)
  BY InvLists DEF LeaveIdle
<1>2. /\ mi_switch(runqueue, zombies, in_interrupt)
      /\ UNCHANGED <<sleepers, numthreads, lbolt_counter>>
  BY DEF LeaveIdle, mi_switch
<1>3. \A t \in AsleepIn(sleepers') :
        (IF t = curkstack THEN in_interrupt ELSE InInterrupt(t)) = 0
  BY <1>1, <1>2 DEF ThreadInv, SleepersNotInInterrupt, InInterrupt
<1>4. /\ numthreads' = Cardinality(On(runqueue, sleepers'))
      /\ numthreads' \in Nat
      /\ lbolt_counter' \in 0 .. HZ - 1
      /\ in_interrupt \in {0, 1}
  BY <1>1, <1>2, CountType
<1>5. Apart(runqueue, sleepers', zombies) /\ curkstack \in On(runqueue, sleepers') \cup zombies
  BY <1>1, <1>2
<1> QED
  BY <1>2, <1>3, <1>4, <1>5, Switched

LEMMA YieldThreadInv == ASSUME ThreadInv, thread_yield
                        PROVE  ThreadInv'
<1>1. /\ Apart(runqueue, sleepers, zombies)
      /\ sleepers' = sleepers
      /\ numthreads' = numthreads
      /\ lbolt_counter' \in 0 .. HZ - 1
      /\ in_interrupt \in {0, 1}
      /\ curthread # NULL
      /\ mi_switch(Append(runqueue, curthread), zombies, in_interrupt)
  BY InvLists, CountType DEF thread_yield, InThread
<1>2. /\ Apart(runqueue, sleepers', zombies)
      /\ On(runqueue, sleepers') = On(runqueue, sleepers)
      /\ AsleepIn(sleepers') \subseteq AsleepIn(sleepers)
  BY <1>1
<1> QED
  BY <1>1, <1>2, YieldInv

LEMMA SleepOnlyInv ==
  ASSUME ThreadInv, InThread, NEW a \in Addrs, thread_sleep(a)
  PROVE  ThreadInv'
BY InvLists, SleepInv DEF thread_sleep

LEMMA WakeAndSleepInv ==
  ASSUME ThreadInv, InThread, NEW a \in Addrs, NEW b \in Addrs,
         SleepAfter(WokenQueue(b), WokenSleepers(b), a)
  PROVE  ThreadInv'
BY WokenLists, SleepInv

LEMMA ThreadInitInv == ThreadInit => ThreadInv
<1> SUFFICES ASSUME ThreadInit PROVE ThreadInv
  OBVIOUS
<1>1. Range(runqueue) = {} /\ Sleeping = {} /\ \A a \in Addrs : Range(sleepers[a]) = {}
  BY EmptyRange DEF ThreadInit, Sleeping
<1>2. Outstanding = {curthread}
  BY <1>1, ThreadsAssumption DEF ThreadInit, Outstanding
<1>3. ThreadTypeOK
  BY EmptyRange, ThreadsAssumption DEF ThreadInit, ThreadTypeOK
<1>4. OnePlace
  BY <1>1, EmptyRange DEF ThreadInit, OnePlace
<1>5. StackExists
  BY <1>2 DEF ThreadInit, StackExists, Existing
<1>6. ThreadCount
  BY <1>2, FS_Singleton DEF ThreadInit, ThreadCount
<1>7. SleepersNotInInterrupt
  BY <1>1 DEF SleepersNotInInterrupt
<1> QED
  BY <1>3, <1>4, <1>5, <1>6, <1>7 DEF ThreadInv

LEMMA ThreadNextInv == ThreadInv /\ [ThreadNext]_threadvars => ThreadInv'
<1> SUFFICES ASSUME ThreadInv, [ThreadNext]_threadvars
             PROVE  ThreadInv'
  OBVIOUS
<1>1. CASE Fork
  BY <1>1, ForkInv DEF Fork
<1>2. CASE thread_exit
  BY <1>2, ExitInv
<1>3. CASE thread_yield
  BY <1>3, YieldThreadInv
<1>4. CASE Sleep
  BY <1>4, SleepOnlyInv DEF Sleep
<1>5. CASE WakeAndSleep
  BY <1>5, WakeAndSleepInv DEF WakeAndSleep
<1>6. CASE Wake
  BY <1>6, WakeInv DEF Wake
<1>7. CASE WakeOne
  BY <1>7, WakeOneInv DEF WakeOne
<1>8. CASE hardclock
  BY <1>8, ClockInv
<1>9. CASE ReturnFromInterrupt
  BY <1>9, ReturnInv
<1>10. CASE LeaveIdle
  BY <1>10, IdleInv
<1>11. CASE UNCHANGED threadvars
  BY <1>11 DEF ThreadInv, ThreadTypeOK, OnePlace, StackExists, ThreadCount,
               SleepersNotInInterrupt, InInterrupt, Outstanding, Existing,
               Sleeping, threadvars, lists, processor
<1> QED
  BY <1>1, <1>2, <1>3, <1>4, <1>5, <1>6, <1>7, <1>8, <1>9, <1>10, <1>11
  DEF ThreadNext

\* For any number of threads and any pattern of forks, exits, sleeps, wakeups
\* and clock interrupts: thread.c keeps every thread in exactly one place,
\* runs on a stack that has not been destroyed, counts the threads that have
\* not exited, and lets sleepers resume outside interrupt handlers.
THEOREM ThreadSafety == ThreadSpec => []ThreadInv
BY ThreadInitInv, ThreadNextInv, PTL DEF ThreadSpec

\* The parts of ThreadSafety, each a property of its own.
THEOREM OnePlaceAlways == ThreadSpec => []OnePlace
<1>1. ThreadInv => OnePlace
  BY DEF ThreadInv
<1> QED
  BY <1>1, ThreadSafety, PTL

\* mi_switch() and exorcise() never leave the processor on a destroyed stack.
THEOREM StackAlwaysExists == ThreadSpec => []StackExists
<1>1. ThreadInv => StackExists
  BY DEF ThreadInv
<1> QED
  BY <1>1, ThreadSafety, PTL

\* numthreads is exact, so one_thread_only() is.
THEOREM ThreadCountExact == ThreadSpec => []ThreadCount
<1>1. ThreadInv => ThreadCount
  BY DEF ThreadInv
<1> QED
  BY <1>1, ThreadSafety, PTL
=============================================================================
