------------------------------ MODULE Monitor ------------------------------
(***************************************************************************)
(* What kern/include/synch.h promises the users of locks and condition     *)
(* variables: mutual exclusion, and monitors with Mesa semantics.  No run  *)
(* queue, no sleep addresses, no scheduling order.                         *)
(***************************************************************************)
CONSTANTS Threads, Locks, CVs, NULL

VARIABLES
  owner,     \* the thread that has the lock
  entering,  \* the lock a thread is waiting to get (again)
  waiting    \* the threads in cv_wait() that have not been woken

vars == <<owner, entering, waiting>>

Init ==
  /\ owner = [l \in Locks |-> NULL]
  /\ entering = [t \in Threads |-> NULL]
  /\ waiting = [c \in CVs |-> {}]

\* lock_acquire() finds the lock taken.
Block(t, l) ==
  /\ owner[l] # NULL
  /\ entering[t] = NULL
  /\ entering' = [entering EXCEPT ![t] = l]
  /\ UNCHANGED <<owner, waiting>>

\* A thread gets the lock: at once, after blocking, or out of cv_wait(), but
\* in that case not before it was woken.
Enter(t, l) ==
  /\ owner[l] = NULL
  /\ entering[t] \in {NULL, l}
  /\ \A c \in CVs : t \notin waiting[c]
  /\ owner' = [owner EXCEPT ![l] = t]
  /\ entering' = [entering EXCEPT ![t] = NULL]
  /\ UNCHANGED waiting

Release(t, l) ==
  /\ owner[l] = t
  /\ owner' = [owner EXCEPT ![l] = NULL]
  /\ UNCHANGED <<entering, waiting>>

\* Giving up the lock and starting to wait is one step.
Wait(t, c, l) ==
  /\ owner[l] = t
  /\ entering[t] = NULL
  /\ owner' = [owner EXCEPT ![l] = NULL]
  /\ entering' = [entering EXCEPT ![t] = l]
  /\ waiting' = [waiting EXCEPT ![c] = @ \cup {t}]

Signal(c) ==
  /\ \E t \in waiting[c] : waiting' = [waiting EXCEPT ![c] = @ \ {t}]
  /\ UNCHANGED <<owner, entering>>

Broadcast(c) ==
  /\ waiting' = [waiting EXCEPT ![c] = {}]
  /\ UNCHANGED <<owner, entering>>

\* Both wakeups are for threads that hold a lock.
SomeOwner == \E l \in Locks : owner[l] # NULL

Next ==
  \/ \E t \in Threads, l \in Locks : Block(t, l) \/ Enter(t, l) \/ Release(t, l)
  \/ \E t \in Threads, c \in CVs, l \in Locks : Wait(t, c, l)
  \/ \E c \in CVs : SomeOwner /\ (Signal(c) \/ Broadcast(c))

Spec == Init /\ [][Next]_vars
=============================================================================
