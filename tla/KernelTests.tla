---------------------------- MODULE KernelTests ----------------------------
(***************************************************************************)
(* The kernel's own tests of threads and synchronization: the semaphore,   *)
(* lock and condition variable tests of kern/test/synchtest.c, the thread  *)
(* tests of kern/test/threadtest.c and kern/test/tt3.c, and the menu that  *)
(* runs them one after the other.  The objects they create are static and  *)
(* outlive a test, so what one test leaves behind the next one finds.      *)
(*                                                                         *)
(* P(), V(), lock_acquire() and cv_wait() are the steps that Synch shows   *)
(* them to be.  A thread of cvtest() holds the lock from its acquisition   *)
(* to its release or its wait, in one step.  The time that cv_wait() takes *)
(* is long enough: whoever broadcasts has held the lock for the delay loop.*)
(* The waker of tt3 looks at wakerdone after each wakeup.                  *)
(***************************************************************************)
EXTENDS Integers, Sequences, FiniteSets

CONSTANTS
  NTHREADS,
  NLOOPS,       \* iterations of a thread
  NSLEEPERS,    \* the threads of tt3 that sleep; the others compute
  NWAITADDRS,   \* the addresses they sleep on
  LINES         \* command lines: sequences of tests

VARIABLES
  line,         \* commands still to run
  test,         \* the test that runs, or "menu"
  driver,       \* where its main function is: <<stage, i>>
  place,        \* where its threads are
  left,         \* the iterations they have left
  count,        \* the semaphores' counts, NULL_SEM before they are created
  holder,       \* of testlock
  testval,      \* testval1, testval2, testval3
  addr,         \* the address a thread of tt3 sleeps on
  wakerdone,
  mismatches    \* threads that said "Test failed"
testvars == <<line, test, driver, place, left, count, holder, testval, addr, wakerdone,
              mismatches>>

Nums == 0 .. NTHREADS - 1
Waker == NTHREADS
Workers == 0 .. NTHREADS
NOBODY == 0 - 1
NULL_SEM == 0 - 1
SynchTests == {"semtest", "locktest", "cvtest"}
Tests == SynchTests \cup {"threadtest", "threadtest3"}

P(s) == count[s] > 0 /\ count' = [count EXCEPT ![s] = @ - 1]
V(s) == count' = [count EXCEPT ![s] = @ + 1]

\* The semaphore a test's threads report to.
Done(t) == IF t \in SynchTests THEN "donesem" ELSE IF t = "threadtest" THEN "tsem" ELSE "donesem3"

\* Where a new thread starts.
Entry_(t, n) ==
  CASE t = "semtest" -> "P"
    [] t \in {"locktest", "cvtest"} -> "acquire"
    [] t = "threadtest" -> "putch"
    [] t = "threadtest3" /\ n = Waker -> "ask"
    [] t = "threadtest3" /\ n < NSLEEPERS -> "sleep"
    [] OTHER -> "compute"

-----------------------------------------------------------------------------
(* The main functions.                                                     *)

Created(s, n) == [count EXCEPT ![s] = IF @ = NULL_SEM THEN n ELSE @]

inititems ==
  count' = [Created("testsem", 2) EXCEPT !["donesem"] = IF @ = NULL_SEM THEN 0 ELSE @]

\* tt3's.
setup ==
  count' = [Created("wakersem", 1) EXCEPT !["donesem3"] = IF @ = NULL_SEM THEN 0 ELSE @]

init_sem == count' = Created("tsem", 0)

\* The menu runs the next command of the line.
cmd_dispatch ==
  /\ test = "menu" /\ line # <<>>
  /\ test' = Head(line) /\ line' = Tail(line)
  /\ driver' = <<"init", 0>>
  /\ place' = [n \in Workers |-> "none"]
  /\ left' = [n \in Workers |-> NLOOPS]
  /\ UNCHANGED <<count, holder, testval, addr, wakerdone, mismatches>>

Setup ==
  /\ test \in Tests /\ driver = <<"init", 0>>
  /\ \/ test \in SynchTests /\ inititems
     \/ test = "threadtest" /\ init_sem
     \/ test = "threadtest3" /\ setup
  /\ driver' = IF test = "semtest" THEN <<"take", 0>> ELSE <<"fork", 0>>
  /\ testval' = IF test = "cvtest" THEN [testval EXCEPT ![1] = NTHREADS - 1] ELSE testval
  /\ wakerdone' = (test # "threadtest3" /\ wakerdone)
  /\ UNCHANGED <<line, test, place, left, holder, addr, mismatches>>

DriverOnly == UNCHANGED <<line, test, place, left, holder, testval, addr, wakerdone, mismatches>>

\* semtest() takes what the semaphore has.
Take ==
  /\ driver[1] = "take" /\ P("testsem")
  /\ driver' = IF driver[2] = 1 THEN <<"fork", 0>> ELSE <<"take", 1>>
  /\ DriverOnly

Forks == IF test = "threadtest3" THEN NTHREADS + 1 ELSE NTHREADS

\* thread_fork() of thread i; tt3 forks its waker before the computes.
Fork_ ==
  /\ driver[1] = "fork" /\ driver[2] < Forks
  /\ LET i == driver[2]
         n == IF test # "threadtest3" \/ i < NSLEEPERS THEN i
              ELSE IF i = NSLEEPERS THEN Waker ELSE i - 1
     IN place' = [place EXCEPT ![n] = Entry_(test, n)]
  /\ driver' = [driver EXCEPT ![2] = @ + 1]
  /\ UNCHANGED <<line, test, left, count, holder, testval, addr, wakerdone, mismatches>>

Forked ==
  /\ driver = <<"fork", Forks>>
  /\ driver' = IF test = "semtest" THEN <<"feed", 0>> ELSE <<"collect", 0>>
  /\ UNCHANGED count /\ DriverOnly

\* semtest() lets one thread through at a time.
Feed ==
  /\ driver[1] = "feed" /\ V("testsem")
  /\ driver' = <<"collect", driver[2]>>
  /\ DriverOnly

AfterCollect(i) ==
  CASE i < NTHREADS -> <<IF test = "semtest" THEN "feed" ELSE "collect", i>>
    [] i = NTHREADS /\ test = "semtest" -> <<"refill", 0>>
    [] i = NTHREADS /\ test = "threadtest3" -> <<"stop", 0>>
    [] OTHER -> <<"return", 0>>

\* P() for one of the threads.
Collect ==
  /\ driver[1] = "collect" /\ P(Done(test))
  /\ driver' = AfterCollect(driver[2] + 1)
  /\ DriverOnly

\* Mutant of TellWaker: the waker is not waited for.
TellWaker_leave ==
  /\ \/ driver = <<"stop", 0>> /\ P("wakersem") /\ driver' = <<"stop", 1>> /\ wakerdone' = TRUE
     \/ driver = <<"stop", 1>> /\ V("wakersem") /\ driver' = <<"return", 0>>
        /\ UNCHANGED wakerdone
  /\ UNCHANGED <<line, test, place, left, holder, testval, addr, mismatches>>

\* finish() of tt3: the waker is told, and waited for.
TellWaker ==
  /\ \/ driver = <<"stop", 0>> /\ P("wakersem") /\ driver' = <<"stop", 1>> /\ wakerdone' = TRUE
     \/ driver = <<"stop", 1>> /\ V("wakersem") /\ driver' = <<"collect", NTHREADS>>
        /\ UNCHANGED wakerdone
  /\ UNCHANGED <<line, test, place, left, holder, testval, addr, mismatches>>

\* "so we can run it again".
Refill ==
  /\ driver[1] = "refill" /\ V("testsem")
  /\ driver' = IF driver[2] = 1 THEN <<"return", 0>> ELSE <<"refill", 1>>
  /\ DriverOnly

\* The test returns to the menu; semtest() destroys its objects.
cleanupitems ==
  /\ driver = <<"return", 0>> /\ test \in Tests
  /\ test' = "menu" /\ driver' = <<"idle", 0>>
  /\ count' = IF test = "semtest"
                THEN [count EXCEPT !["testsem"] = NULL_SEM, !["donesem"] = NULL_SEM] ELSE count
  /\ UNCHANGED <<line, place, left, holder, testval, addr, wakerdone, mismatches>>

Driver == Setup \/ Take \/ Fork_ \/ Forked \/ Feed \/ Collect \/ TellWaker \/ Refill \/ cleanupitems

-----------------------------------------------------------------------------
(* The threads.                                                            *)

Go(n, p) == place' = [place EXCEPT ![n] = p]
Iterate(n, again) ==
  /\ left' = [left EXCEPT ![n] = @ - 1]
  /\ Go(n, IF left[n] = 1 THEN "report" ELSE again)

\* Threads print under testsem.
semtestthread(n) ==
  /\ test = "semtest"
  /\ \/ place[n] = "P" /\ P("testsem") /\ Go(n, "printing")
     \/ place[n] = "printing" /\ Go(n, "report") /\ UNCHANGED count
  /\ UNCHANGED <<left, holder, testval, mismatches>>

lock_acquire(n) == holder = NOBODY /\ holder' = n

Agree(n) == testval = <<n, n * n, n % 3>>

\* fail(): the thread says so, and ends.
fail(n) ==
  /\ mismatches' = mismatches \cup {n}
  /\ holder' = NOBODY
  /\ Go(n, "report")
  /\ UNCHANGED left

\* The three values are set and compared under the lock, a step each.
locktestthread(n) ==
  LET Set(from, i, v, to) == place[n] = from /\ testval' = [testval EXCEPT ![i] = v] /\ Go(n, to)
                             /\ UNCHANGED <<left, holder, mismatches>>
  IN /\ test = "locktest"
     /\ \/ /\ place[n] = "acquire" /\ lock_acquire(n) /\ Go(n, "set1")
           /\ UNCHANGED <<left, testval, mismatches>>
        \/ Set("set1", 1, n, "set2") \/ Set("set2", 2, n * n, "set3")
        \/ Set("set3", 3, n % 3, "check")
        \/ place[n] = "check" /\ ~Agree(n) /\ fail(n) /\ UNCHANGED testval
        \/ /\ place[n] = "check" /\ Agree(n)
           /\ holder' = NOBODY /\ Iterate(n, "acquire")
           /\ UNCHANGED <<testval, mismatches>>
     /\ UNCHANGED count

\* Mutant of cv_broadcast: one thread is woken.
cv_broadcast_one(p) ==
  LET waiting == {n \in Nums : p[n] = "cvwait"} IN
    [n \in Workers |-> IF waiting # {} /\ n = CHOOSE k \in waiting : \A j \in waiting : k <= j
                       THEN "acquire" ELSE p[n]]

cv_broadcast(p) == [n \in Workers |-> IF p[n] = "cvwait" THEN "acquire" ELSE p[n]]

\* A thread waits until it is its turn, prints, and gives the turn on.
cvtestthread(n) ==
  /\ test = "cvtest" /\ place[n] = "acquire" /\ holder = NOBODY
  /\ \/ testval[1] # n /\ Go(n, "cvwait") /\ UNCHANGED <<left, testval>>
     \/ /\ testval[1] = n
        /\ testval' = [testval EXCEPT ![1] = (@ + NTHREADS - 1) % NTHREADS]
        /\ left' = [left EXCEPT ![n] = @ - 1]
        /\ place' = cv_broadcast([place EXCEPT ![n] = IF left[n] = 1 THEN "report" ELSE "acquire"])
  /\ UNCHANGED <<count, holder, mismatches>>

\* Both of threadtest.c print and report.
loudthread(n) ==
  /\ test = "threadtest" /\ place[n] = "putch"
  /\ Iterate(n, "putch")
  /\ UNCHANGED <<count, holder, testval, mismatches>>

\* thread_sleep() on an address that random() gives.
sleepalot_thread(n) ==
  /\ test = "threadtest3" /\ place[n] = "sleep"
  /\ \E a \in 1 .. NWAITADDRS : addr' = [addr EXCEPT ![n] = a]
  /\ Go(n, "asleep")
  /\ UNCHANGED <<left, count, holder, testval, mismatches>>

compute_thread(n) ==
  /\ test = "threadtest3" /\ place[n] = "compute"
  /\ Iterate(n, "compute")
  /\ UNCHANGED <<count, holder, testval, mismatches>>

\* thread_wakeup() of all who sleep on a.
Woken(a) == {n \in Nums : place[n] = "asleep" /\ addr[n] = a}
WakeAddr(a) ==
  /\ left' = [n \in Workers |-> IF n \in Woken(a) THEN left[n] - 1 ELSE left[n]]
  /\ place' = [n \in Workers |-> IF n = Waker THEN "ask"
                                 ELSE IF n \notin Woken(a) THEN place[n]
                                 ELSE IF left[n] = 1 THEN "report" ELSE "sleep"]

\* The waker looks under wakersem whether it is done, or wakes an address.
waker_thread(n) ==
  /\ test = "threadtest3" /\ n = Waker
  /\ \/ place[n] = "ask" /\ P("wakersem") /\ Go(n, "read") /\ UNCHANGED left
     \/ /\ place[n] = "read" /\ V("wakersem")
        /\ Go(n, IF wakerdone THEN "report" ELSE "wake")
        /\ UNCHANGED left
     \/ /\ place[n] = "wake"
        /\ \E a \in 1 .. NWAITADDRS : WakeAddr(a)
        /\ UNCHANGED count
  /\ UNCHANGED <<holder, testval, mismatches>>

\* The last thing a thread does.
Report(n) ==
  /\ test \in Tests /\ place[n] = "report"
  /\ V(Done(test))
  /\ Go(n, "done")
  /\ UNCHANGED <<left, holder, testval, mismatches>>

TestThread(n) ==
  /\ \/ sleepalot_thread(n)
     \/ /\ \/ semtestthread(n) \/ locktestthread(n) \/ cvtestthread(n) \/ loudthread(n)
           \/ compute_thread(n) \/ waker_thread(n) \/ Report(n)
        /\ UNCHANGED addr
  /\ UNCHANGED <<line, test, driver, wakerdone>>

TestInit ==
  /\ line \in LINES
  /\ test = "menu" /\ driver = <<"idle", 0>>
  /\ place = [n \in Workers |-> "none"] /\ left = [n \in Workers |-> 0]
  /\ count = [s \in {"testsem", "donesem", "tsem", "wakersem", "donesem3"} |-> NULL_SEM]
  /\ holder = NOBODY /\ testval = <<0, 0, 0>>
  /\ addr = [n \in Nums |-> 1]
  /\ wakerdone = FALSE /\ mismatches = {}

TestNext == cmd_dispatch \/ Driver \/ \E n \in Workers : TestThread(n)

\* The scheduler runs every thread that can run (RunnableRuns of Synch).
TestFairness ==
  /\ WF_testvars(cmd_dispatch) /\ WF_testvars(Driver)
  /\ \A n \in Workers : WF_testvars(TestThread(n))

-----------------------------------------------------------------------------
(* Properties.                                                             *)

\* In semtest() "Only one of these should print at a time".
OnePrints == Cardinality({n \in Nums : place[n] = "printing"}) <= 1

\* No thread of locktest() finds values that another one wrote.
NoMismatch == mismatches = {}

\* A test that returns has no thread left, neither running nor asleep, and
\* leaves the objects that stay as it found or made them, so that every test
\* can run again after every other one.
TestLeavesNothing ==
  test = "menu" =>
    /\ \A n \in Workers : place[n] \in {"none", "done"}
    /\ holder = NOBODY
    /\ count["testsem"] \in {NULL_SEM, 2} /\ count["wakersem"] \in {NULL_SEM, 1}
    /\ \A s \in {"donesem", "tsem", "donesem3"} : count[s] \in {NULL_SEM, 0}

\* Every test finds what it is there to find, after every other one.
TestsSucceed == OnePrints /\ NoMismatch /\ TestLeavesNothing

\* Every test but tt3, whose sleepers depend on random(), comes to its end.
TestsReturn ==
  \A t \in Tests \ {"threadtest3"} : (test = t) ~> (test # t)
=============================================================================
