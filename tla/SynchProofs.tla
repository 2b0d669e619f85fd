---------------------------- MODULE SynchProofs ----------------------------
(***************************************************************************)
(* Proofs about the synchronization primitives, for any number of threads, *)
(* semaphores, locks and condition variables.                              *)
(*                                                                         *)
(* SynchInv is inductive together with ThreadInv: that Synch's steps are   *)
(* steps of the thread system needs "nobody goes round a wait loop inside  *)
(* an interrupt handler" (LoopsClean), and LoopsClean in turn needs that   *)
(* mi_switch() hands every thread its own in_interrupt.                    *)
(***************************************************************************)
EXTENDS Synch, ThreadsProofs

\* A thread in a wait loop was, and will be, outside interrupt handlers.
LoopsClean == \A t \in Threads : want[t] # NULL => InInterrupt(t) = 0

SynchInv ==
  /\ ThreadInv
  /\ TypeOK
  /\ MutualExclusion
  /\ NoLostWakeup
  /\ LoopsClean

-----------------------------------------------------------------------------
(* The operations as seen by the thread system.                            *)

LEMMA AddrFacts ==
  /\ \A s \in Sems : s \in Addrs /\ s \notin Locks /\ s \notin CVs /\ s # lbolt /\ s # NULL
  /\ \A l \in Locks : l \in Addrs /\ l \notin Sems /\ l \notin CVs /\ l # lbolt /\ l # NULL
  /\ \A c \in CVs : c \in Addrs /\ c \notin Sems /\ c \notin Locks /\ c # lbolt /\ c # NULL
  /\ lbolt \in Addrs /\ lbolt \notin Sems /\ lbolt \notin Locks /\ lbolt \notin CVs
  /\ lbolt # NULL
BY SynchAssumption

\* Whoever calls or goes round a loop is a thread outside handlers.
LEMMA LoopsInThread == ASSUME SynchInv, NEW x, Loops(x)
                       PROVE  InThread /\ curthread \in Threads /\ curkstack = curthread
<1>1. curthread \in Threads /\ curkstack = curthread
  BY Running DEF SynchInv, Loops
<1>2. want[curthread] # NULL => in_interrupt = 0
  BY <1>1 DEF SynchInv, LoopsClean, InInterrupt
<1> QED
  BY <1>1, <1>2 DEF Loops, InThread

\* Every step of the primitives is a step of the thread system.
LEMMA StepIsThreadStep ==
  SynchInv /\ [Next]_vars => [ThreadNext]_threadvars
<1> SUFFICES ASSUME SynchInv, [Next]_vars
             PROVE  [ThreadNext]_threadvars
  OBVIOUS
<1> USE AddrFacts
<1>1. ASSUME NEW s \in Sems, P(s) PROVE [ThreadNext]_threadvars
  BY <1>1, LoopsInThread DEF P, ThreadNext, Sleep
<1>2. ASSUME NEW s \in Sems, V(s) PROVE [ThreadNext]_threadvars
  BY <1>2 DEF V, ThreadNext, Wake
<1>3. ASSUME NEW l \in Locks, lock_acquire(l) PROVE [ThreadNext]_threadvars
  BY <1>3, LoopsInThread DEF lock_acquire, ThreadNext, Sleep
<1>4. ASSUME NEW l \in Locks, lock_release(l) PROVE [ThreadNext]_threadvars
  BY <1>4 DEF lock_release, ThreadNext, Wake
<1>5. ASSUME NEW c \in CVs, NEW l \in Locks, cv_wait(c, l)
      PROVE  [ThreadNext]_threadvars
  BY <1>5 DEF cv_wait, GiveBack, MayCall, ThreadNext, WakeAndSleep
<1>6. ASSUME NEW c \in CVs, NEW l \in Locks, cv_signal(c, l)
      PROVE  [ThreadNext]_threadvars
  BY <1>6 DEF cv_signal, MayCall, ThreadNext, WakeOne
<1>7. ASSUME NEW c \in CVs, NEW l \in Locks, cv_broadcast(c, l)
      PROVE  [ThreadNext]_threadvars
  BY <1>7 DEF cv_broadcast, ThreadNext, Wake
<1>8. ASSUME clocksleep PROVE [ThreadNext]_threadvars
  BY <1>8, LoopsInThread DEF clocksleep, ThreadNext, Sleep
<1>9. ASSUME NEW t \in Threads, ForkThread(t) PROVE [ThreadNext]_threadvars
  BY <1>9 DEF ForkThread, ThreadNext, Fork
<1>10. ASSUME ExitThread \/ YieldThread \/ ClockInterrupt \/ EndInterrupt \/ Idle
       PROVE  [ThreadNext]_threadvars
  BY <1>10 DEF ExitThread, YieldThread, ClockInterrupt, EndInterrupt, Idle, ThreadNext
<1>11. ASSUME UNCHANGED vars PROVE [ThreadNext]_threadvars
  BY <1>11 DEF vars
<1> QED
  BY <1>1, <1>2, <1>3, <1>4, <1>5, <1>6, <1>7, <1>8, <1>9, <1>10, <1>11 DEF Next

-----------------------------------------------------------------------------
(* Wait loops stay outside interrupt handlers.                             *)

\* What a switch does to in_interrupt, thread by thread.
LEMMA SwitchIrq ==
  ASSUME ThreadTypeOK, NEW rq \in Seq(Threads), NEW z, NEW irq \in {0, 1},
         mi_switch(rq, z, irq)
  PROVE  \A t \in Threads :
           InInterrupt(t)' = IF t = curkstack THEN irq ELSE InInterrupt(t)
<1>1. CASE rq # <<>> /\ RunHead(rq, z, irq)
  <2>1. Head(rq) \in Threads
    BY <1>1, HeadTailRange
  <2>2. md_switch(Head(rq), irq)
    BY <1>1 DEF RunHead
  <2> QED
    BY <2>1, <2>2, MdSwitch DEF ThreadTypeOK
<1>2. CASE in_interrupt' = irq /\ UNCHANGED <<curkstack, pcb_ininterrupt>>
  BY <1>2 DEF InInterrupt
<1> QED
  BY <1>1, <1>2 DEF mi_switch

\* Going to sleep, after wakeups or not.
LEMMA SleepIrq ==
  ASSUME SynchInv, InThread, NEW rq \in Seq(Threads), NEW sl, NEW a,
         SleepAfter(rq, sl, a)
  PROVE  \A t \in Threads :
           InInterrupt(t)' = IF t = curthread THEN 0 ELSE InInterrupt(t)
<1>1. curkstack = curthread /\ in_interrupt = 0
  BY Running DEF SynchInv, InThread
<1> QED
  BY <1>1, SwitchIrq DEF SleepAfter, SynchInv, ThreadInv

LEMMA QueueTypes ==
  ASSUME SynchInv
  PROVE  /\ runqueue \in Seq(Threads)
         /\ \A a \in Addrs : WokenQueue(a) \in Seq(Threads)
         /\ \A q \in Seq(Threads) : curthread # NULL => Append(q, curthread) \in Seq(Threads)
<1>1. /\ runqueue \in Seq(Threads)
      /\ sleepers \in [Addrs -> Seq(Threads)]
      /\ curthread # NULL => curthread \in Threads
  BY DEF SynchInv, ThreadInv, ThreadTypeOK
<1>2. \A a \in Addrs : WokenQueue(a) \in Seq(Threads)
  BY <1>1, ConcatRange DEF WokenQueue
<1> QED
  BY <1>1, <1>2, AppendRange

\* Wakeups leave the processor alone.
LEMMA WakeIrq ==
  ASSUME UNCHANGED processor
  PROVE  \A t : InInterrupt(t)' = InInterrupt(t)
BY DEF processor, InInterrupt

LEMMA LoopsCleanStep == SynchInv /\ [Next]_vars => LoopsClean'
<1> SUFFICES ASSUME SynchInv, [Next]_vars
             PROVE  LoopsClean'
  OBVIOUS
<1> USE AddrFacts
<1>0. /\ want \in [Threads -> Sems \cup Locks \cup {lbolt, NULL}]
      /\ LoopsClean
      /\ ThreadInv
  BY DEF SynchInv, TypeOK
<1>1. ASSUME NEW x, Loops(x), thread_sleep(x), want' = [want EXCEPT ![curthread] = x]
      PROVE  LoopsClean'
  BY <1>0, <1>1, LoopsInThread, QueueTypes, SleepIrq DEF thread_sleep, LoopsClean
<1>2. ASSUME UNCHANGED threadvars,
             want' = [want EXCEPT ![curthread] = NULL] \/ want' = want
      PROVE  LoopsClean'
  BY <1>0, <1>2, WakeIrq DEF LoopsClean, threadvars, processor
<1>3. ASSUME UNCHANGED <<processor, want>> PROVE LoopsClean'
  BY <1>0, <1>3, WakeIrq DEF LoopsClean
<1>4. ASSUME NEW s \in Sems, P(s) PROVE LoopsClean'
  BY <1>1, <1>2, <1>4 DEF P
<1>5. ASSUME NEW l \in Locks, lock_acquire(l) PROVE LoopsClean'
  BY <1>1, <1>2, <1>5 DEF lock_acquire
<1>6. ASSUME clocksleep PROVE LoopsClean'
  BY <1>1, <1>2, <1>6 DEF clocksleep
<1>7. ASSUME NEW s \in Sems, V(s) PROVE LoopsClean'
  BY <1>3, <1>7 DEF V, thread_wakeup
<1>8. ASSUME NEW l \in Locks, lock_release(l) PROVE LoopsClean'
  BY <1>3, <1>8 DEF lock_release, thread_wakeup
<1>9. ASSUME NEW c \in CVs, NEW l \in Locks, cv_wait(c, l) PROVE LoopsClean'
  <2>1. InThread /\ curthread \in Threads
    BY <1>0, <1>9, Running DEF cv_wait, GiveBack, MayCall, InThread
  <2>2. \A t \in Threads :
          InInterrupt(t)' = IF t = curthread THEN 0 ELSE InInterrupt(t)
    BY <1>9, <2>1, QueueTypes, SleepIrq DEF cv_wait
  <2>3. \A t \in Threads : t # curthread => want'[t] = want[t]
    BY <1>0, <1>9 DEF cv_wait
  <2> QED
    BY <1>0, <2>2, <2>3 DEF LoopsClean
<1>10. ASSUME NEW c \in CVs, NEW l \in Locks, cv_signal(c, l) \/ cv_broadcast(c, l)
       PROVE  LoopsClean'
  BY <1>3, <1>10 DEF cv_signal, cv_broadcast, thread_wakeup, thread_wakeup_one, synchvars
<1>11. ASSUME NEW t \in Threads, ForkThread(t) PROVE LoopsClean'
  <2>1. \A u \in Threads : InInterrupt(u)' = IF u = t THEN 0 ELSE InInterrupt(u)
    <3>1. t # curkstack /\ UNCHANGED <<curkstack, in_interrupt>>
      BY <1>0, <1>11 DEF ForkThread, thread_fork, ThreadInv, StackExists
    <3>2. \A u \in Threads : pcb_ininterrupt'[u] = IF u = t THEN 0 ELSE pcb_ininterrupt[u]
      BY <1>0, <1>11 DEF ForkThread, thread_fork, ThreadInv, ThreadTypeOK
    <3> QED
      BY <3>1, <3>2 DEF InInterrupt
  <2>2. want' = want
    BY <1>11 DEF ForkThread, synchvars
  <2> QED
    BY <1>0, <2>1, <2>2 DEF LoopsClean
<1>12. ASSUME want' = want, NEW rq \in Seq(Threads), NEW z, NEW irq \in {0, 1},
              mi_switch(rq, z, irq),
              want[curkstack] # NULL => irq = InInterrupt(curkstack)
       PROVE  LoopsClean'
  BY <1>0, <1>12, SwitchIrq DEF LoopsClean, ThreadInv
<1>13. ASSUME ExitThread PROVE LoopsClean'
  BY <1>0, <1>12, <1>13, Running, QueueTypes, CountType
  DEF ExitThread, thread_exit, MayCall, InThread
<1>14. ASSUME YieldThread PROVE LoopsClean'
  BY <1>0, <1>12, <1>14, Running, QueueTypes, CountType
  DEF YieldThread, thread_yield, MayCall, InThread, synchvars
<1>15. ASSUME ClockInterrupt PROVE LoopsClean'
  <2>1. PICK rq \in Seq(Threads) : PreemptWith(rq)
    BY <1>15, QueueTypes DEF ClockInterrupt, hardclock
  <2>2. want' = want /\ InterruptsOn
    BY <1>15 DEF ClockInterrupt, synchvars
  <2>3. CASE curthread # NULL
    BY <1>0, <1>12, <2>1, <2>2, <2>3, Running, QueueTypes
    DEF PreemptWith, InterruptsOn
  <2>4. CASE curthread = NULL
    BY <1>3, <2>1, <2>2, <2>4 DEF PreemptWith
  <2> QED
    BY <2>3, <2>4
<1>16. ASSUME EndInterrupt PROVE LoopsClean'
  <2>1. \A t \in Threads : InInterrupt(t) = 0 => InInterrupt(t)' = 0
    BY <1>16 DEF EndInterrupt, ReturnFromInterrupt, InInterrupt
  <2> QED
    BY <1>0, <1>16, <2>1 DEF LoopsClean, EndInterrupt, synchvars
<1>17. ASSUME Idle PROVE LoopsClean'
  <2>1. mi_switch(runqueue, zombies, in_interrupt) /\ want' = want
    BY <1>17 DEF Idle, LeaveIdle, mi_switch, synchvars
  <2>2. in_interrupt = InInterrupt(curkstack)
    BY DEF InInterrupt
  <2> QED
    BY <1>0, <1>12, <2>1, <2>2, QueueTypes, CountType
<1>18. ASSUME UNCHANGED vars PROVE LoopsClean'
  BY <1>2, <1>18 DEF vars, synchvars
<1> QED
  BY <1>4, <1>5, <1>6, <1>7, <1>8, <1>9, <1>10, <1>11, <1>13, <1>14, <1>15,
     <1>16, <1>17, <1>18 DEF Next

-----------------------------------------------------------------------------
(* Types, mutual exclusion and wakeups.                                    *)

\* The locks' and semaphores' own state.
LEMMA SynchTypes ==
  ASSUME SynchInv
  PROVE  /\ count \in [Sems -> Nat]
         /\ holder \in [Locks -> Threads \cup {NULL}]
         /\ want \in [Threads -> Sems \cup Locks \cup {lbolt, NULL}]
         /\ held \in [Threads -> SUBSET Locks]
         /\ sleepers \in [Addrs -> Seq(Threads)]
         /\ curthread # NULL => curthread \in Threads
BY DEF SynchInv, TypeOK, ThreadTypeOK

LEMMA TypeStep == SynchInv /\ ThreadInv' /\ [Next]_vars => TypeOK'
<1> SUFFICES ASSUME SynchInv, ThreadInv', [Next]_vars
             PROVE  TypeOK'
  OBVIOUS
<1> DEFINE OwnTypes == /\ count \in [Sems -> Nat]
                       /\ holder \in [Locks -> Threads \cup {NULL}]
                       /\ want \in [Threads -> Sems \cup Locks \cup {lbolt, NULL}]
                       /\ held \in [Threads -> SUBSET Locks]
<1>0. OwnTypes /\ (curthread # NULL => curthread \in Threads)
  BY SynchTypes
<1>1. ASSUME NEW s \in Sems, P(s) PROVE OwnTypes'
  BY <1>0, <1>1 DEF P, Loops, MustSleep
<1>2. ASSUME NEW s \in Sems, V(s) PROVE OwnTypes'
  BY <1>0, <1>2 DEF V
<1>3. ASSUME NEW l \in Locks, lock_acquire(l) PROVE OwnTypes'
  BY <1>0, <1>3 DEF lock_acquire, Loops
<1>4. ASSUME NEW l \in Locks, lock_release(l) PROVE OwnTypes'
  BY <1>0, <1>4 DEF lock_release, GiveBack
<1>5. ASSUME NEW c \in CVs, NEW l \in Locks, cv_wait(c, l) PROVE OwnTypes'
  BY <1>0, <1>5 DEF cv_wait, GiveBack
<1>6. ASSUME clocksleep PROVE OwnTypes'
  BY <1>0, <1>6 DEF clocksleep
<1>7. ASSUME ExitThread PROVE OwnTypes'
  BY <1>0, <1>7 DEF ExitThread
<1>8. ASSUME UNCHANGED synchvars PROVE OwnTypes'
  BY <1>0, <1>8 DEF synchvars
<1>9. OwnTypes'
  BY <1>1, <1>2, <1>3, <1>4, <1>5, <1>6, <1>7, <1>8
  DEF Next, cv_signal, cv_broadcast, ForkThread, YieldThread, ClockInterrupt,
      EndInterrupt, Idle, vars
<1> QED
  BY <1>9 DEF TypeOK, ThreadInv

\* The first half of MutualExclusion implies the second.
LEMMA HeldByHolder ==
  ASSUME NEW h, NEW o, \A t \in Threads : h[t] \subseteq Locks,
         \A t \in Threads, l \in Locks : l \in h[t] => o[l] = t
  PROVE  \A t, u \in Threads : t # u => h[t] \cap h[u] = {}
OBVIOUS

LEMMA ExclusionStep == SynchInv /\ TypeOK' /\ [Next]_vars => MutualExclusion'
<1> SUFFICES ASSUME SynchInv, TypeOK', [Next]_vars
             PROVE  MutualExclusion'
  OBVIOUS
<1> DEFINE HeldOK == \A t \in Threads, l \in Locks : l \in held[t] => holder[l] = t
<1>0. /\ HeldOK
      /\ holder \in [Locks -> Threads \cup {NULL}]
      /\ held \in [Threads -> SUBSET Locks]
      /\ curthread # NULL => curthread \in Threads
      /\ NULL \notin Threads
  BY SynchTypes, ThreadsAssumption DEF SynchInv, MutualExclusion
<1>1. ASSUME NEW l \in Locks, lock_acquire(l) PROVE HeldOK'
  BY <1>0, <1>1 DEF lock_acquire, Taken, Loops
<1>2. ASSUME NEW l \in Locks, GiveBack(l) PROVE HeldOK'
  BY <1>0, <1>2 DEF GiveBack, MayCall, InThread, lock_do_i_hold
<1>3. ASSUME ExitThread PROVE HeldOK'
  BY <1>0, <1>3 DEF ExitThread
<1>4. ASSUME UNCHANGED <<holder, held>> PROVE HeldOK'
  BY <1>0, <1>4
<1>5. HeldOK'
  BY <1>1, <1>2, <1>3, <1>4
  DEF Next, P, V, lock_release, cv_wait, clocksleep, cv_signal, cv_broadcast,
      ForkThread, YieldThread, ClockInterrupt, EndInterrupt, Idle, vars, synchvars
<1>6. \A t \in Threads : held'[t] \subseteq Locks
  BY DEF TypeOK
<1> QED
  BY <1>5, <1>6, HeldByHolder DEF MutualExclusion

LEMMA WakeupStep == SynchInv /\ [Next]_vars => NoLostWakeup'
<1> SUFFICES ASSUME SynchInv, [Next]_vars
             PROVE  NoLostWakeup'
  OBVIOUS
<1> USE AddrFacts
<1>0. /\ NoLostWakeup
      /\ count \in [Sems -> Nat]
      /\ holder \in [Locks -> Threads \cup {NULL}]
      /\ sleepers \in [Addrs -> Seq(Threads)]
  BY SynchTypes DEF SynchInv
<1>1. ASSUME NEW s \in Sems, P(s) PROVE NoLostWakeup'
  BY <1>0, <1>1
  DEF NoLostWakeup, P, MustSleep, thread_sleep, SleepAfter, threadvars, lists
<1>2. ASSUME NEW s \in Sems, V(s) PROVE NoLostWakeup'
  BY <1>0, <1>2 DEF NoLostWakeup, V, thread_wakeup, WokenSleepers
<1>3. ASSUME NEW l \in Locks, lock_acquire(l) PROVE NoLostWakeup'
  <2>1. CASE Taken(l)
    BY <1>0, <1>3, <2>1
    DEF NoLostWakeup, lock_acquire, Taken, thread_sleep, SleepAfter
  <2>2. CASE ~Taken(l)
    <3>1. curthread # NULL /\ UNCHANGED <<sleepers, count>>
      BY <1>3, <2>2 DEF lock_acquire, Loops, threadvars, lists
    <3>2. holder' = [holder EXCEPT ![l] = curthread]
      BY <1>3, <2>2 DEF lock_acquire
    <3> QED
      BY <1>0, <3>1, <3>2 DEF NoLostWakeup
  <2> QED
    BY <2>1, <2>2
<1>4. ASSUME NEW l \in Locks, lock_release(l) PROVE NoLostWakeup'
  BY <1>0, <1>4
  DEF NoLostWakeup, lock_release, GiveBack, thread_wakeup, WokenSleepers
<1>5. ASSUME NEW c \in CVs, NEW l \in Locks, cv_wait(c, l) PROVE NoLostWakeup'
  <2>1. /\ \A a \in Addrs : a # c /\ a # l => sleepers'[a] = sleepers[a]
        /\ sleepers'[l] = <<>>
    BY <1>0, <1>5 DEF cv_wait, SleepAfter, WokenSleepers
  <2>2. /\ count' = count
        /\ \A k \in Locks : k # l => holder'[k] = holder[k]
    BY <1>0, <1>5 DEF cv_wait, GiveBack
  <2> QED
    BY <1>0, <2>1, <2>2 DEF NoLostWakeup
<1>6. ASSUME UNCHANGED <<count, holder>>,
             \A a \in Sems \cup Locks : sleepers'[a] = sleepers[a]
      PROVE  NoLostWakeup'
  BY <1>0, <1>6 DEF NoLostWakeup
<1>7. ASSUME NEW c \in CVs, NEW l \in Locks, cv_signal(c, l) \/ cv_broadcast(c, l)
      PROVE  NoLostWakeup'
  BY <1>0, <1>6, <1>7
  DEF cv_signal, cv_broadcast, thread_wakeup, thread_wakeup_one, WokenSleepers, synchvars
<1>8. ASSUME clocksleep PROVE NoLostWakeup'
  BY <1>0, <1>6, <1>8 DEF clocksleep, thread_sleep, SleepAfter, threadvars, lists
<1>9. ASSUME NEW t \in Threads, ForkThread(t) PROVE NoLostWakeup'
  BY <1>6, <1>9 DEF ForkThread, thread_fork, synchvars
<1>10. ASSUME ExitThread \/ YieldThread \/ EndInterrupt \/ Idle PROVE NoLostWakeup'
  BY <1>6, <1>10
  DEF ExitThread, YieldThread, EndInterrupt, Idle, thread_exit, thread_yield,
      ReturnFromInterrupt, LeaveIdle, lists, synchvars
<1>11. ASSUME ClockInterrupt PROVE NoLostWakeup'
  BY <1>0, <1>6, <1>11 DEF ClockInterrupt, hardclock, WokenSleepers, synchvars
<1>12. ASSUME UNCHANGED vars PROVE NoLostWakeup'
  BY <1>6, <1>12 DEF vars, synchvars, threadvars, lists
<1> QED
  BY <1>1, <1>2, <1>3, <1>4, <1>5, <1>7, <1>8, <1>9, <1>10, <1>11, <1>12 DEF Next

-----------------------------------------------------------------------------
(* The invariant of the primitives.                                        *)

LEMMA SynchInit == Init => SynchInv
<1> SUFFICES ASSUME Init PROVE SynchInv
  OBVIOUS
<1>1. ThreadInv
  BY ThreadInitInv DEF Init
<1>2. TypeOK
  BY <1>1, SynchAssumption DEF Init, TypeOK, ThreadInv
<1>3. MutualExclusion
  BY DEF Init, MutualExclusion
<1>4. NoLostWakeup
  BY AddrFacts DEF Init, ThreadInit, NoLostWakeup
<1>5. LoopsClean
  BY DEF Init, LoopsClean
<1> QED
  BY <1>1, <1>2, <1>3, <1>4, <1>5 DEF SynchInv

LEMMA SynchStep == SynchInv /\ [Next]_vars => SynchInv'
<1> SUFFICES ASSUME SynchInv, [Next]_vars PROVE SynchInv'
  OBVIOUS
<1>1. ThreadInv'
  BY StepIsThreadStep, ThreadNextInv DEF SynchInv
<1>2. TypeOK'
  BY <1>1, TypeStep
<1>3. MutualExclusion'
  BY <1>2, ExclusionStep
<1>4. NoLostWakeup'
  BY WakeupStep
<1>5. LoopsClean'
  BY LoopsCleanStep
<1> QED
  BY <1>1, <1>2, <1>3, <1>4, <1>5 DEF SynchInv

LEMMA SynchAlways == Spec => []SynchInv
BY SynchInit, SynchStep, PTL DEF Spec

\* lock_acquire() never returns in two threads for the same lock.
THEOREM LocksExclude == Spec => []MutualExclusion
<1>1. SynchInv => MutualExclusion
  BY DEF SynchInv
<1> QED
  BY <1>1, SynchAlways, PTL

\* Whoever sleeps on a semaphore or a lock still has reason to: no V() and no
\* lock_release() goes unnoticed.
THEOREM NoWakeupIsLost == Spec => []NoLostWakeup
<1>1. SynchInv => NoLostWakeup
  BY DEF SynchInv
<1> QED
  BY <1>1, SynchAlways, PTL

\* The in_interrupt assertions of P(), lock_acquire() and thread_sleep() hold.
THEOREM NeverLoopsInInterrupt == Spec => []LoopsOutsideInterrupts
<1>1. SynchInv => LoopsOutsideInterrupts
  BY Running DEF SynchInv, LoopsClean, LoopsOutsideInterrupts, InInterrupt
<1> QED
  BY <1>1, SynchAlways, PTL

\* The primitives use the thread system as thread.c means it to be used, so
\* what ThreadsProofs says of every use holds of theirs.
THEOREM ImplementsThreads == Spec => ThreadSpec
<1>1. Init => ThreadInit
  BY DEF Init
<1> QED
  BY <1>1, SynchAlways, StepIsThreadStep, PTL DEF Spec, ThreadSpec

-----------------------------------------------------------------------------
(* Locks and condition variables are Mesa monitors.                        *)

Entering == [t \in Threads |-> IF want[t] \in Locks THEN want[t] ELSE NULL]
Waiting == [c \in CVs |-> Range(sleepers[c])]

LEMMA MonitorInit == Init => Mesa!Init
<1> SUFFICES ASSUME Init PROVE Mesa!Init
  OBVIOUS
<1>1. \A c \in CVs : Range(sleepers[c]) = {}
  BY EmptyRange, AddrFacts DEF Init, ThreadInit
<1>2. \A t \in Threads : want[t] \notin Locks
  BY AddrFacts DEF Init
<1> QED
  BY <1>1, <1>2 DEF Init, Mesa!Init

\* Steps that touch neither a lock nor a condition variable.
LEMMA MonitorStutter ==
  ASSUME UNCHANGED holder,
         \A t \in Threads : want'[t] \in Locks \/ want[t] \in Locks => want'[t] = want[t],
         \A c \in CVs : sleepers'[c] = sleepers[c]
  PROVE  UNCHANGED Mesa!vars
BY DEF Mesa!vars

LEMMA MonitorStep == SynchInv /\ [Next]_vars => [Mesa!Next]_Mesa!vars
<1> SUFFICES ASSUME SynchInv, [Next]_vars
             PROVE  [Mesa!Next]_Mesa!vars
  OBVIOUS
<1> USE AddrFacts
<1>0. /\ holder \in [Locks -> Threads \cup {NULL}]
      /\ want \in [Threads -> Sems \cup Locks \cup {lbolt, NULL}]
      /\ sleepers \in [Addrs -> Seq(Threads)]
      /\ curthread # NULL => curthread \in Threads
  BY SynchTypes
<1>1. ASSUME NEW s \in Sems, P(s) PROVE UNCHANGED Mesa!vars
  <2>1. \A c \in CVs : sleepers'[c] = sleepers[c]
    BY <1>0, <1>1 DEF P, thread_sleep, SleepAfter, threadvars, lists
  <2>2. \A t \in Threads : want'[t] \in Locks \/ want[t] \in Locks => want'[t] = want[t]
    BY <1>0, <1>1 DEF P, Loops
  <2> QED
    BY <1>1, <2>1, <2>2, MonitorStutter DEF P
<1>2. ASSUME NEW s \in Sems, V(s) PROVE UNCHANGED Mesa!vars
  <2>1. \A c \in CVs : sleepers'[c] = sleepers[c]
    BY <1>0, <1>2 DEF V, thread_wakeup, WokenSleepers
  <2> QED
    BY <1>2, <2>1, MonitorStutter DEF V
<1>3. ASSUME NEW l \in Locks, lock_acquire(l) PROVE [Mesa!Next]_Mesa!vars
  <2>0. curthread \in Threads /\ want[curthread] \in {NULL, l}
    BY <1>0, <1>3 DEF lock_acquire, Loops
  <2>1. \A c \in CVs : sleepers'[c] = sleepers[c]
    BY <1>0, <1>3 DEF lock_acquire, thread_sleep, SleepAfter, threadvars, lists
  <2>2. CASE Taken(l) /\ want[curthread] = l
    <3>1. want' = want /\ holder' = holder
      BY <1>0, <1>3, <2>0, <2>2 DEF lock_acquire
    <3> QED
      BY <2>1, <3>1, MonitorStutter
  <2>3. CASE Taken(l) /\ want[curthread] = NULL
    <3>1. want' = [want EXCEPT ![curthread] = l] /\ holder' = holder
      BY <1>3, <2>3 DEF lock_acquire
    <3>2. Entering' = [Entering EXCEPT ![curthread] = l]
      BY <1>0, <2>0, <3>1 DEF Entering
    <3>3. Entering[curthread] = NULL /\ Waiting' = Waiting
      BY <2>0, <2>1, <2>3 DEF Entering, Waiting
    <3>4. Mesa!Block(curthread, l)
      BY <2>3, <3>1, <3>2, <3>3 DEF Mesa!Block, Taken, Entering, Waiting
    <3> QED
      BY <2>0, <3>4 DEF Mesa!Next
  <2>4. CASE ~Taken(l)
    <3>1. /\ want' = [want EXCEPT ![curthread] = NULL]
          /\ holder' = [holder EXCEPT ![l] = curthread]
      BY <1>3, <2>4 DEF lock_acquire
    <3>2. Entering' = [Entering EXCEPT ![curthread] = NULL]
      BY <1>0, <2>0, <3>1 DEF Entering
    <3>3. Entering[curthread] \in {NULL, l} /\ Waiting' = Waiting
      BY <2>0, <2>1 DEF Entering, Waiting
    <3>4. \A c \in CVs : curthread \notin Waiting[c]
      BY <2>0, <1>3 DEF Waiting, SynchInv, ThreadInv, OnePlace, Sleeping
    <3>5. Mesa!Enter(curthread, l)
      BY <2>4, <3>1, <3>2, <3>3, <3>4 DEF Mesa!Enter, Taken, Entering, Waiting
    <3> QED
      BY <2>0, <3>5 DEF Mesa!Next
  <2> QED
    BY <2>0, <2>2, <2>3, <2>4
<1>4. ASSUME NEW l \in Locks, lock_release(l) PROVE [Mesa!Next]_Mesa!vars
  <2>0. curthread \in Threads /\ holder[l] = curthread
    BY <1>0, <1>4 DEF lock_release, GiveBack, MayCall, InThread, lock_do_i_hold
  <2>1. \A c \in CVs : sleepers'[c] = sleepers[c]
    BY <1>0, <1>4 DEF lock_release, thread_wakeup, WokenSleepers
  <2>2. Entering' = Entering /\ Waiting' = Waiting
    BY <1>4, <2>1 DEF lock_release, Entering, Waiting
  <2>3. Mesa!Release(curthread, l)
    BY <1>4, <2>0, <2>2 DEF Mesa!Release, lock_release, GiveBack, Entering, Waiting
  <2> QED
    BY <2>0, <2>3 DEF Mesa!Next
<1>5. ASSUME NEW c \in CVs, NEW l \in Locks, cv_wait(c, l)
      PROVE  [Mesa!Next]_Mesa!vars
  <2>0. /\ curthread \in Threads
        /\ holder[l] = curthread
        /\ want[curthread] = NULL
        /\ holder' = [holder EXCEPT ![l] = NULL]
        /\ want' = [want EXCEPT ![curthread] = l]
    BY <1>0, <1>5 DEF cv_wait, GiveBack, MayCall, InThread, lock_do_i_hold
  <2>1. /\ \A d \in CVs : d # c => sleepers'[d] = sleepers[d]
        /\ sleepers'[c] = Append(sleepers[c], curthread)
    BY <1>0, <1>5 DEF cv_wait, SleepAfter, WokenSleepers
  <2>2. Range(sleepers'[c]) = Range(sleepers[c]) \cup {curthread}
    BY <1>0, <2>0, <2>1, AppendRange
  <2>3. Waiting' = [Waiting EXCEPT ![c] = @ \cup {curthread}]
    BY <2>1, <2>2 DEF Waiting
  <2>4. /\ Entering[curthread] = NULL
        /\ Entering' = [Entering EXCEPT ![curthread] = l]
    BY <1>0, <2>0 DEF Entering
  <2>5. Mesa!Wait(curthread, c, l)
    BY <2>0, <2>3, <2>4 DEF Mesa!Wait, Entering, Waiting
  <2> QED
    BY <2>0, <2>5 DEF Mesa!Next
<1>6. ASSUME NEW c \in CVs, NEW l \in Locks, cv_signal(c, l)
      PROVE  [Mesa!Next]_Mesa!vars
  <2>0. holder[l] # NULL /\ UNCHANGED <<holder, want>> /\ thread_wakeup_one(c)
    BY <1>6 DEF cv_signal, MayCall, InThread, lock_do_i_hold, synchvars
  <2>1. CASE sleepers[c] = <<>>
    <3>1. sleepers' = sleepers
      BY <2>0, <2>1 DEF thread_wakeup_one
    <3> QED
      BY <2>0, <3>1, MonitorStutter
  <2>2. CASE sleepers[c] # <<>>
    <3>1. /\ \A d \in CVs : d # c => sleepers'[d] = sleepers[d]
          /\ sleepers'[c] = Tail(sleepers[c])
      BY <1>0, <2>0, <2>2 DEF thread_wakeup_one
    <3>2. /\ Range(sleepers[c]) = {Head(sleepers[c])} \cup Range(Tail(sleepers[c]))
          /\ Head(sleepers[c]) \notin Range(Tail(sleepers[c]))
      BY <1>0, <2>2, HeadTailRange DEF SynchInv, ThreadInv, OnePlace
    <3>3. /\ Head(sleepers[c]) \in Waiting[c]
          /\ Waiting' = [Waiting EXCEPT ![c] = @ \ {Head(sleepers[c])}]
      BY <3>1, <3>2 DEF Waiting
    <3>4. Entering' = Entering
      BY <2>0 DEF Entering
    <3>5. Mesa!Signal(c)
      BY <2>0, <3>3, <3>4 DEF Mesa!Signal, Waiting, Entering
    <3> QED
      BY <2>0, <3>5 DEF Mesa!Next, Mesa!SomeOwner
  <2> QED
    BY <2>1, <2>2
<1>7. ASSUME NEW c \in CVs, NEW l \in Locks, cv_broadcast(c, l)
      PROVE  [Mesa!Next]_Mesa!vars
  <2>0. holder[l] # NULL /\ UNCHANGED <<holder, want>> /\ thread_wakeup(c)
    BY <1>7 DEF cv_broadcast, MayCall, InThread, lock_do_i_hold, synchvars
  <2>1. /\ \A d \in CVs : d # c => sleepers'[d] = sleepers[d]
        /\ Range(sleepers'[c]) = {}
    BY <1>0, <2>0, EmptyRange DEF thread_wakeup, WokenSleepers
  <2>2. Waiting' = [Waiting EXCEPT ![c] = {}] /\ Entering' = Entering
    BY <2>0, <2>1 DEF Waiting, Entering
  <2>3. Mesa!Broadcast(c)
    BY <2>0, <2>2 DEF Mesa!Broadcast, Waiting, Entering
  <2> QED
    BY <2>0, <2>3 DEF Mesa!Next, Mesa!SomeOwner
<1>8. ASSUME clocksleep PROVE UNCHANGED Mesa!vars
  <2>1. \A c \in CVs : sleepers'[c] = sleepers[c]
    BY <1>0, <1>8 DEF clocksleep, thread_sleep, SleepAfter, threadvars, lists
  <2>2. \A t \in Threads : want'[t] \in Locks \/ want[t] \in Locks => want'[t] = want[t]
    BY <1>0, <1>8 DEF clocksleep, Loops
  <2> QED
    BY <1>8, <2>1, <2>2, MonitorStutter DEF clocksleep
<1>9. ASSUME UNCHANGED <<holder, want>>, \A c \in CVs : sleepers'[c] = sleepers[c]
      PROVE  UNCHANGED Mesa!vars
  BY <1>9, MonitorStutter
<1>10. ASSUME NEW t \in Threads, ForkThread(t) PROVE UNCHANGED Mesa!vars
  BY <1>9, <1>10 DEF ForkThread, thread_fork, synchvars
<1>11. ASSUME ExitThread \/ YieldThread \/ EndInterrupt \/ Idle
       PROVE  UNCHANGED Mesa!vars
  BY <1>9, <1>11
  DEF ExitThread, YieldThread, EndInterrupt, Idle, thread_exit, thread_yield,
      ReturnFromInterrupt, LeaveIdle, lists, synchvars
<1>12. ASSUME ClockInterrupt PROVE UNCHANGED Mesa!vars
  <2>1. \A c \in CVs : sleepers'[c] = sleepers[c]
    BY <1>0, <1>12 DEF ClockInterrupt, hardclock, WokenSleepers
  <2> QED
    BY <1>9, <1>12, <2>1 DEF ClockInterrupt, synchvars
<1>13. ASSUME UNCHANGED vars PROVE UNCHANGED Mesa!vars
  BY <1>9, <1>13 DEF vars, synchvars, threadvars, lists
<1> QED
  BY <1>1, <1>2, <1>3, <1>4, <1>5, <1>6, <1>7, <1>8, <1>10, <1>11, <1>12, <1>13
  DEF Next

\* Whatever a client does with the kernel's locks and condition variables, it
\* sees a Mesa monitor: locks exclude, cv_wait() gives up the lock and starts
\* waiting in one step and returns with the lock held, cv_signal() wakes one
\* waiter if there is one, cv_broadcast() wakes all.
THEOREM PrimitivesAreMonitors == Spec => ImplementsMonitor
BY MonitorInit, MonitorStep, SynchAlways, PTL DEF Spec, ImplementsMonitor, Mesa!Spec
=============================================================================
