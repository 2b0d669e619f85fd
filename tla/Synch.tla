------------------------------- MODULE Synch -------------------------------
(***************************************************************************)
(* The synchronization primitives of kern/thread/synch.c on top of the     *)
(* thread system: semaphores, locks and condition variables used by any    *)
(* number of threads in any order, with preemption and with interrupt      *)
(* handlers that call V().                                                 *)
(*                                                                         *)
(* P() and lock_acquire() loop: test, sleep, test again when resumed.      *)
(* want[t] is the object whose loop thread t is in (NULL outside), so the  *)
(* first test and the later ones are the same action.  While a thread that *)
(* wants something executes, it is at splhigh() and cannot be interrupted. *)
(***************************************************************************)
EXTENDS Threads

CONSTANTS
  Sems, Locks, CVs,  \* the primitives, disjoint sets of addresses
  InitialCount,      \* the initial count of every semaphore
  MaxCount           \* bound on a semaphore's count, for model checking

ASSUME SynchAssumption ==
  /\ Addrs = Sems \cup Locks \cup CVs \cup {lbolt}
  /\ Sems \cap Locks = {} /\ Sems \cap CVs = {} /\ Locks \cap CVs = {}
  /\ lbolt \notin Sems \cup Locks \cup CVs
  /\ NULL \notin Addrs
  /\ InitialCount \in Nat
  /\ MaxCount \in Nat

VARIABLES
  count,   \* sem->count
  holder,  \* lock->holder
  want,    \* the object a thread is in a wait loop for
  held     \* the locks a thread was granted and has not given back, as its
           \* own code sees it: never read by the primitives

synchvars == <<count, holder, want, held>>
vars == <<threadvars, synchvars>>

-----------------------------------------------------------------------------
\* Interrupts are enabled: the scheduler idles, or a thread runs outside the
\* primitives and outside an interrupt handler.
InterruptsOn ==
  \/ curthread = NULL
  \/ InThread /\ want[curthread] = NULL

\* The running thread may call a primitive.
MayCall == InThread /\ want[curthread] = NULL

\* The running thread calls the loop of x or goes round it again.
Loops(x) == curthread # NULL /\ want[curthread] \in {NULL, x} /\
            (want[curthread] = NULL => in_interrupt = 0)

lock_do_i_hold(l) == holder[l] = curthread

\* The condition of P()'s loop.
MustSleep(s) == count[s] = 0

P(s) ==
  /\ Loops(s)
  /\ \/ /\ MustSleep(s)
        /\ want' = [want EXCEPT ![curthread] = s]
        /\ thread_sleep(s)
        /\ UNCHANGED count
     \/ /\ ~MustSleep(s)
        /\ want' = [want EXCEPT ![curthread] = NULL]
        /\ count' = [count EXCEPT ![s] = @ - 1]
        /\ UNCHANGED threadvars
  /\ UNCHANGED <<holder, held>>

\* Mutant of V: it wakes one thread only.
V_one(s) ==
  /\ InterruptsOn
  /\ count[s] < MaxCount
  /\ count' = [count EXCEPT ![s] = @ + 1]
  /\ thread_wakeup_one(s)
  /\ UNCHANGED <<holder, want, held>>

\* Called by a thread, or by the handler of a device interrupt.
V(s) ==
  /\ InterruptsOn
  /\ count[s] < MaxCount
  /\ count' = [count EXCEPT ![s] = @ + 1]
  /\ thread_wakeup(s)
  /\ UNCHANGED <<holder, want, held>>

\* The condition of lock_acquire()'s loop.
Taken(l) == holder[l] # NULL

lock_acquire(l) ==
  /\ Loops(l)
  /\ \/ /\ Taken(l)
        /\ want' = [want EXCEPT ![curthread] = l]
        /\ thread_sleep(l)
        /\ UNCHANGED <<holder, held>>
     \/ /\ ~Taken(l)
        /\ want' = [want EXCEPT ![curthread] = NULL]
        /\ holder' = [holder EXCEPT ![l] = curthread]
        /\ held' = [held EXCEPT ![curthread] = @ \cup {l}]
        /\ UNCHANGED threadvars
  /\ UNCHANGED count

\* What lock_release() does to the lock.
GiveBack(l) ==
  /\ MayCall
  /\ lock_do_i_hold(l)
  /\ holder' = [holder EXCEPT ![l] = NULL]
  /\ held' = [held EXCEPT ![curthread] = @ \ {l}]

lock_release(l) ==
  /\ GiveBack(l)
  /\ thread_wakeup(l)
  /\ UNCHANGED <<count, want>>

\* Mutant of cv_wait: it returns without acquiring the lock again.
cv_wait_return(c, l) ==
  /\ GiveBack(l)
  /\ SleepAfter(WokenQueue(l), WokenSleepers(l), c)
  /\ UNCHANGED <<count, want>>

\* Releases l, wakes its waiters and sleeps on c with interrupts off
\* throughout; resumed, the thread is in the loop of lock_acquire(l).
cv_wait(c, l) ==
  /\ GiveBack(l)
  /\ want' = [want EXCEPT ![curthread] = l]
  /\ SleepAfter(WokenQueue(l), WokenSleepers(l), c)
  /\ UNCHANGED count

cv_signal(c, l) ==
  /\ MayCall
  /\ lock_do_i_hold(l)
  /\ thread_wakeup_one(c)
  /\ UNCHANGED synchvars

cv_broadcast(c, l) ==
  /\ MayCall
  /\ lock_do_i_hold(l)
  /\ thread_wakeup(c)
  /\ UNCHANGED synchvars

\* clocksleep(1): resumed, the thread is done.
clocksleep ==
  /\ Loops(lbolt)
  /\ \/ /\ want[curthread] = NULL
        /\ want' = [want EXCEPT ![curthread] = lbolt]
        /\ thread_sleep(lbolt)
     \/ /\ want[curthread] = lbolt
        /\ want' = [want EXCEPT ![curthread] = NULL]
        /\ UNCHANGED threadvars
  /\ UNCHANGED <<count, holder, held>>

-----------------------------------------------------------------------------
(* The operations of the thread system, called outside the primitives.     *)

ForkThread(t) == MayCall /\ thread_fork(t) /\ UNCHANGED synchvars

\* Nothing makes an exiting thread give its locks back.
ExitThread ==
  /\ MayCall
  /\ thread_exit
  /\ held' = [held EXCEPT ![curthread] = {}]
  /\ UNCHANGED <<count, holder, want>>

YieldThread == MayCall /\ thread_yield /\ UNCHANGED synchvars

ClockInterrupt == InterruptsOn /\ hardclock /\ UNCHANGED synchvars

EndInterrupt == ReturnFromInterrupt /\ UNCHANGED synchvars

Idle == LeaveIdle /\ UNCHANGED synchvars

Init ==
  /\ ThreadInit
  /\ count = [s \in Sems |-> InitialCount]
  /\ holder = [l \in Locks |-> NULL]
  /\ want = [t \in Threads |-> NULL]
  /\ held = [t \in Threads |-> {}]

Next ==
  \/ \E s \in Sems : P(s) \/ V(s)
  \/ \E l \in Locks : lock_acquire(l) \/ lock_release(l)
  \/ \E c \in CVs, l \in Locks :
       cv_wait(c, l) \/ cv_signal(c, l) \/ cv_broadcast(c, l)
  \/ clocksleep
  \/ \E t \in Threads : ForkThread(t)
  \/ ExitThread \/ YieldThread
  \/ ClockInterrupt \/ EndInterrupt \/ Idle

Spec == Init /\ [][Next]_vars

\* The timer interrupts the processor HZ times a second, the processor
\* executes, and code at splhigh() runs to its end or its next switch.
InLoop ==
  /\ curthread # NULL
  /\ want[curthread] # NULL
  /\ \/ \E s \in Sems : P(s)
     \/ \E l \in Locks : lock_acquire(l)
     \/ clocksleep

FairSpec ==
  /\ Spec
  /\ WF_vars(ClockInterrupt)
  /\ WF_vars(EndInterrupt)
  /\ WF_vars(Idle)
  /\ WF_vars(InLoop)

-----------------------------------------------------------------------------
(* Properties.                                                             *)

TypeOK ==
  /\ ThreadTypeOK
  /\ count \in [Sems -> Nat]
  /\ holder \in [Locks -> Threads \cup {NULL}]
  /\ want \in [Threads -> Sems \cup Locks \cup {lbolt, NULL}]
  /\ held \in [Threads -> SUBSET Locks]

\* lock_acquire() never returns in two threads for one lock, whatever the
\* wakeups, preemptions and re-tests in between; what a thread was granted
\* is what lock_do_i_hold() will tell it.
MutualExclusion ==
  /\ \A t \in Threads, l \in Locks : l \in held[t] => holder[l] = t
  /\ \A t, u \in Threads : t # u => held[t] \cap held[u] = {}

\* No wakeup is lost: whoever sleeps on a semaphore or a lock sleeps for a
\* reason that still holds.  V() and lock_release() wake every sleeper, and
\* test-and-sleep is atomic against both, also when V() is called by an
\* interrupt handler.
NoLostWakeup ==
  /\ \A s \in Sems : sleepers[s] # <<>> => count[s] = 0
  /\ \A l \in Locks : sleepers[l] # <<>> => holder[l] # NULL

\* The assertion of P(), lock_acquire() and thread_sleep(): the thread that
\* goes round a wait loop is not in an interrupt handler, although handlers
\* switch threads in the middle.
LoopsOutsideInterrupts ==
  curthread # NULL /\ want[curthread] # NULL => in_interrupt = 0

\* The kernel's locks and condition variables are Mesa monitors.
Mesa == INSTANCE Monitor WITH
  owner <- holder,
  entering <- [t \in Threads |-> IF want[t] \in Locks THEN want[t] ELSE NULL],
  waiting <- [c \in CVs |-> Range(sleepers[c])]

ImplementsMonitor == Mesa!Spec

\* The running thread is preempted and the queue is first-in first-out:
\* every runnable thread runs.
RunnableRuns ==
  \A t \in Threads : t \in Range(runqueue) ~> curthread = t

\* A semaphore that stays positive is taken by whoever waits for it, and a
\* lock that stays free is taken by whoever waits for it outside cv_wait():
\* woken threads do come back and look.
WaitersProgress ==
  /\ \A t \in Threads, s \in Sems :
       (want[t] = s /\ count[s] > 0) ~> (want[t] # s \/ count[s] = 0)
  /\ \A t \in Threads, l \in Locks :
       (/\ want[t] = l /\ holder[l] = NULL
        /\ \A c \in CVs : t \notin Range(sleepers[c]))
         ~> (want[t] # l \/ holder[l] # NULL)
=============================================================================
