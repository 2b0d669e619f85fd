------------------------------ MODULE Process ------------------------------
(***************************************************************************)
(* Processes: the pid table of kern/userprog/pid.c, _exit() and waitpid()  *)
(* of kern/userprog/progcalls.c, and the parts of thread_fork(),           *)
(* sys_fork() and thread_exit() in kern/thread/thread.c that use them.     *)
(*                                                                         *)
(* Locks and condition variables are monitors (module Monitor).  Sections  *)
(* under pid_mutex only touch the pid table and are single steps; sections *)
(* under mutex are split where other processes can interfere, which they   *)
(* do through the pid table.  cv_broadcast() on a process's t_cvwaitpid    *)
(* wakes the processes asleep with thread pointing to it.                  *)
(***************************************************************************)
EXTENDS Integers

CONSTANTS
  Procs,       \* the thread structures; menu is the kernel menu's
  menu,
  PID_MAX,
  ExitCodes,   \* the codes processes exit with
  NULL

\* The exit code of a process that has not exited, and thus of one that
\* called _exit(-1).
NoCode == -1

ASSUME ProcessAssumption ==
  /\ menu \in Procs /\ NULL \notin Procs
  /\ PID_MAX \in Nat \ {0, 1}
  /\ ExitCodes \subseteq Int /\ NULL \notin ExitCodes

VARIABLES
  pid_table, exitcodes,  \* indexed from 0: pid p is entry p - 1
  mutex,                 \* the holder of progcalls.c's lock, or NULL
  pc,                    \* where a process is in the code
  t_pid, t_ppid,
  newguy,                \* the child a process is forking
  wpid, thread, walk,    \* locals of sys_waitpid() and pid_is_child()
  code,                  \* the code a process exited with
  memory,                \* the processes whose pages are in place
  panicked

tables == <<pid_table, exitcodes, mutex>>
locals == <<newguy, wpid, thread, walk>>
vars == <<tables, pc, t_pid, t_ppid, locals, code, memory, panicked>>

Index == 0 .. PID_MAX - 1
Pids == 1 .. PID_MAX

\* Places: not created, being forked, in runprogram(), in user mode (or the
\* menu), forking, in waitpid() before pid_getthread() and in pid_is_child(),
\* in cv_wait(), woken from it, exiting before pid_clear(), before
\* pt_free_pages(), gone.
Places == {"unused", "embryo", "loading", "user", "fork", "lookup", "walk",
           "asleep", "woken", "announced", "cleared", "gone"}

\* The process has its pid: from pid_getnext() to pid_clear().
HasPid(p) == pc[p] \notin {"unused", "cleared", "gone"}

Running(p) == ~panicked /\ pc[p] = "user"

-----------------------------------------------------------------------------
(* The pid table.                                                          *)

\* The i-th entry pid_getnext() looks at, starting from entry start.
Probe(start, i) ==
  IF start + i < PID_MAX THEN start + i
                         ELSE 1 + ((start + i - PID_MAX) % (PID_MAX - 1))

\* The search that starts at entry start ends with pid: the first free entry.
\* If there is none among those it looks at, the fork fails with EAGAIN.
pid_getnext(start, pid) ==
  \E i \in Index :
    /\ pid_table[Probe(start, i)] = NULL
    /\ \A j \in 0 .. i - 1 : pid_table[Probe(start, j)] # NULL
    /\ pid = Probe(start, i) + 1

\* Mutant of pid_clear: it forgets the exit code too.
pid_clear_code(pid) ==
  /\ pid_table' = [pid_table EXCEPT ![pid - 1] = NULL]
  /\ exitcodes' = [exitcodes EXCEPT ![pid - 1] = NoCode]

pid_clear(pid) ==
  /\ pid_table' = [pid_table EXCEPT ![pid - 1] = NULL]
  /\ UNCHANGED exitcodes

-----------------------------------------------------------------------------
(* fork: sys_fork(), and thread_fork() when the menu starts a program.     *)

\* The menu waits until it is alone before it starts another program.
MayFork(p) ==
  /\ Running(p)
  /\ p = menu => \A q \in Procs \ {menu} : pc[q] \in {"unused", "gone"}

\* Creates the child and gets its pid.  Without a pid it returns EAGAIN and
\* nothing has changed.
ForkPid(p, c, start, pid) ==
  /\ MayFork(p)
  /\ pc[c] = "unused"
  /\ pid_getnext(start, pid)
  /\ pid_table' = [pid_table EXCEPT ![pid - 1] = c]
  /\ exitcodes' = [exitcodes EXCEPT ![pid - 1] = NoCode]
  /\ t_pid' = [t_pid EXCEPT ![c] = pid]
  /\ t_ppid' = [t_ppid EXCEPT ![c] = t_pid[p]]
  /\ newguy' = [newguy EXCEPT ![p] = c]
  /\ pc' = [pc EXCEPT ![p] = "fork", ![c] = "embryo"]
  /\ UNCHANGED <<mutex, wpid, thread, walk, code, memory, panicked>>

\* The fork returns: the child is as given, the parent in user mode.
ForkReturns(p, place) ==
  /\ ~panicked
  /\ pc[p] = "fork"
  /\ pc' = [pc EXCEPT ![p] = "user", ![newguy[p]] = place]
  /\ newguy' = [newguy EXCEPT ![p] = NULL]
  /\ UNCHANGED <<mutex, t_pid, t_ppid, wpid, thread, walk, code, panicked>>

\* kmalloc() of the stack fails: the child is freed, its pid is not.
ForkNoStack(p) ==
  /\ ForkReturns(p, "gone")
  /\ UNCHANGED <<pid_table, exitcodes, memory>>

\* as_copy(), or after it a preallocation or a file descriptor, fails.  Only
\* sys_fork() gives the pid back, and nothing frees the pages copied.
ForkFail(p) ==
  /\ ForkReturns(p, "gone")
  /\ IF p = menu THEN UNCHANGED <<pid_table, exitcodes>>
                 ELSE pid_clear(t_pid[newguy[p]])
  /\ \/ UNCHANGED memory
     \/ p # menu /\ memory' = memory \cup {newguy[p]}

\* make_runnable(): the child runs, after sys_fork() with a copy of its
\* parent's memory, after thread_fork() in cmd_progthread().
ForkDone(p) ==
  /\ ForkReturns(p, IF p = menu THEN "loading" ELSE "user")
  /\ memory' = IF p = menu THEN memory ELSE memory \cup {newguy[p]}
  /\ UNCHANGED <<pid_table, exitcodes>>

\* runprogram() enters user mode, or returns an error: then the thread exits
\* without sys__exit().
runprogram(p) ==
  /\ ~panicked
  /\ pc[p] = "loading"
  /\ \/ /\ pc' = [pc EXCEPT ![p] = "user"]
        /\ memory' = memory \cup {p}
     \/ /\ pc' = [pc EXCEPT ![p] = "announced"]
        /\ UNCHANGED memory
  /\ UNCHANGED <<tables, t_pid, t_ppid, locals, code, panicked>>

-----------------------------------------------------------------------------
(* exit.                                                                   *)

\* Mutant of WokenBy: cv_signal() in place of cv_broadcast().
WokenBy_one(p) ==
  LET waiters == {q \in Procs : pc[q] = "asleep" /\ thread[q] = p}
  IN  IF waiters = {} THEN {} ELSE {CHOOSE q \in waiters : TRUE}

\* The processes that cv_broadcast(p->t_cvwaitpid) wakes.
WokenBy(p) == {q \in Procs : pc[q] = "asleep" /\ thread[q] = p}

\* sys__exit() up to its call of thread_exit().
sys__exit(p, exitcode) ==
  /\ Running(p)
  /\ p # menu
  /\ mutex = NULL
  /\ exitcodes' = [exitcodes EXCEPT ![t_pid[p] - 1] = exitcode]
  /\ code' = [code EXCEPT ![p] = exitcode]
  /\ pc' = [q \in Procs |-> CASE q = p -> "announced"
                               [] q \in WokenBy(p) -> "woken"
                               [] OTHER -> pc[q]]
  /\ UNCHANGED <<pid_table, mutex, t_pid, t_ppid, locals, memory, panicked>>

\* thread_exit() begins.
ExitClear(p) ==
  /\ ~panicked
  /\ pc[p] = "announced"
  /\ pid_clear(t_pid[p])
  /\ pc' = [pc EXCEPT ![p] = "cleared"]
  /\ UNCHANGED <<mutex, t_pid, t_ppid, locals, code, memory, panicked>>

\* thread_exit() frees the pages tagged with the pid, then switches away for
\* good; the next thread to run destroys the structure, its fields included.
ExitPages(p) ==
  /\ ~panicked
  /\ pc[p] = "cleared"
  /\ memory' = {q \in memory : t_pid[q] # t_pid[p]}
  /\ pc' = [pc EXCEPT ![p] = "gone"]
  /\ t_pid' = [t_pid EXCEPT ![p] = 0]
  /\ t_ppid' = [t_ppid EXCEPT ![p] = 0]
  /\ UNCHANGED <<tables, locals, code, panicked>>

-----------------------------------------------------------------------------
(* waitpid(pid).                                                           *)

\* Checks its arguments, acquires mutex and reads the exit code.  If there is
\* one it is reported and the call is over.
WaitEnter(p, pid) ==
  /\ Running(p)
  /\ p # menu
  /\ pid # t_pid[p]
  /\ mutex = NULL
  /\ exitcodes[pid - 1] = NoCode
  /\ mutex' = p
  /\ wpid' = [wpid EXCEPT ![p] = pid]
  /\ pc' = [pc EXCEPT ![p] = "lookup"]
  /\ UNCHANGED <<pid_table, exitcodes, t_pid, t_ppid, newguy, thread, walk,
                 code, memory, panicked>>

\* waitpid() returns to user mode; its locals are gone.
WaitReturns(p) ==
  /\ pc' = [pc EXCEPT ![p] = "user"]
  /\ wpid' = [wpid EXCEPT ![p] = 0]
  /\ thread' = [thread EXCEPT ![p] = NULL]
  /\ walk' = [walk EXCEPT ![p] = NULL]

\* Returns EINVAL.
Refuse(p) == WaitReturns(p) /\ mutex' = NULL

\* pid_getthread(pid).
WaitLookup(p) ==
  LET t == pid_table[wpid[p] - 1] IN
    /\ ~panicked
    /\ pc[p] = "lookup"
    /\ \/ t = NULL /\ Refuse(p)
       \/ /\ t # NULL
          /\ thread' = [thread EXCEPT ![p] = t]
          /\ walk' = [walk EXCEPT ![p] = p]
          /\ pc' = [pc EXCEPT ![p] = "walk"]
          /\ UNCHANGED <<mutex, wpid>>
    /\ UNCHANGED <<pid_table, exitcodes, t_pid, t_ppid, newguy, code, memory,
                   panicked>>

\* The t_ppid that pid_is_child() reads.  It keeps its pointer after it lets
\* go of pid_mutex, so the structure may have been freed, and used again.
ParentRead(p) ==
  IF pc[walk[p]] = "gone" THEN 0 .. PID_MAX ELSE {t_ppid[walk[p]]}

\* The loop's next thread; t_ppid # 0.
ParentOf(ppid) == pid_table[ppid - 1]

\* The walk dereferences a null pointer, for a parent that has exited, or
\* uses the pattern that kfree() writes as an index.
WildRead(p) ==
  \/ pc[walk[p]] = "gone"
  \/ /\ t_ppid[walk[p]] \notin {0, wpid[p]}
     /\ ParentOf(t_ppid[walk[p]]) = NULL

\* One round of pid_is_child()'s loop.  An ancestor is refused; at the root
\* the process is not waiting for an ancestor and calls cv_wait().
pid_is_child(p) ==
  /\ ~panicked
  /\ pc[p] = "walk"
  /\ \/ /\ WildRead(p)
        /\ panicked' = TRUE
        /\ UNCHANGED <<mutex, pc, wpid, thread, walk>>
     \/ \E ppid \in ParentRead(p) :
          /\ \/ /\ ppid = 0
                /\ mutex' = NULL
                /\ pc' = [pc EXCEPT ![p] = "asleep"]
                /\ walk' = [walk EXCEPT ![p] = NULL]
                /\ UNCHANGED <<wpid, thread>>
             \/ ppid = wpid[p] /\ Refuse(p)
             \/ /\ ppid \notin {0, wpid[p]}
                /\ ParentOf(ppid) # NULL
                /\ walk' = [walk EXCEPT ![p] = ParentOf(ppid)]
                /\ UNCHANGED <<mutex, pc, wpid, thread>>
          /\ UNCHANGED panicked
  /\ UNCHANGED <<pid_table, exitcodes, t_pid, t_ppid, newguy, code, memory>>

\* The code waitpid() reports once it has waited.
Reported(p) == exitcodes[wpid[p] - 1]

\* cv_wait() returns with mutex held; the code found now is copied out.
WaitReport(p) ==
  /\ ~panicked
  /\ pc[p] = "woken"
  /\ mutex = NULL
  /\ WaitReturns(p)
  /\ UNCHANGED <<tables, t_pid, t_ppid, newguy, code, memory, panicked>>

-----------------------------------------------------------------------------
\* boot() has given the menu the first pid.
InitWith(pid) ==
  /\ pid_table = [i \in Index |-> IF i = pid - 1 THEN menu ELSE NULL]
  /\ exitcodes = [i \in Index |-> NoCode]
  /\ mutex = NULL
  /\ pc = [p \in Procs |-> IF p = menu THEN "user" ELSE "unused"]
  /\ t_pid = [p \in Procs |-> IF p = menu THEN pid ELSE 0]
  /\ t_ppid = [p \in Procs |-> 0]
  /\ newguy = [p \in Procs |-> NULL]
  /\ wpid = [p \in Procs |-> 0]
  /\ thread = [p \in Procs |-> NULL]
  /\ walk = [p \in Procs |-> NULL]
  /\ code = [p \in Procs |-> NULL]
  /\ memory = {}
  /\ panicked = FALSE

Init == \E pid \in Pids : InitWith(pid)

Next ==
  \E p \in Procs :
    \/ \E c \in Procs, start \in Index, pid \in Pids : ForkPid(p, c, start, pid)
    \/ ForkNoStack(p) \/ ForkFail(p) \/ ForkDone(p) \/ runprogram(p)
    \/ \E e \in ExitCodes : sys__exit(p, e)
    \/ ExitClear(p) \/ ExitPages(p)
    \/ \E pid \in Pids : WaitEnter(p, pid)
    \/ WaitLookup(p) \/ pid_is_child(p) \/ WaitReport(p)

Spec == Init /\ [][Next]_vars

-----------------------------------------------------------------------------
(* Properties.                                                             *)

TypeOK ==
  /\ pid_table \in [Index -> Procs \cup {NULL}]
  /\ exitcodes \in [Index -> ExitCodes \cup {NoCode}]
  /\ mutex \in Procs \cup {NULL}
  /\ pc \in [Procs -> Places]
  /\ t_pid \in [Procs -> 0 .. PID_MAX]
  /\ t_ppid \in [Procs -> 0 .. PID_MAX]
  /\ newguy \in [Procs -> Procs \cup {NULL}]
  /\ wpid \in [Procs -> 0 .. PID_MAX]
  /\ thread \in [Procs -> Procs \cup {NULL}]
  /\ walk \in [Procs -> Procs \cup {NULL}]
  /\ code \in [Procs -> ExitCodes \cup {NULL}]
  /\ memory \subseteq Procs
  /\ panicked \in BOOLEAN
  /\ \A p \in Procs : /\ pc[p] \in {"lookup", "walk", "asleep", "woken"} => wpid[p] \in Pids
                      /\ pc[p] \in {"walk", "asleep", "woken"} => thread[p] \in Procs
                      /\ pc[p] = "walk" => walk[p] \in Procs

\* Pids are unique: a process that has not reached pid_clear() is the one the
\* table has for its pid, however forks and exits interleave.
PidOwner ==
  \A p \in Procs : HasPid(p) => t_pid[p] # 0 /\ pid_table[t_pid[p] - 1] = p

\* waitpid() does not miss the exit: the process it sleeps for has not called
\* _exit() yet.  Testing the exit code, finding the thread and walking its
\* ancestors are one section under mutex, while pids come and go; -1 must not
\* be used as an exit code.
WaiterHasReason ==
  \A p \in Procs : pc[p] = "asleep" => code[thread[p]] = NULL

\* mutex is held only by a process in a section under it that will end: no
\* return of waitpid() keeps it.
MutexReleased ==
  mutex # NULL => pc[mutex] \in {"lookup", "walk"}

\* An exit code stays available until the pid is given to another process.
StatusStable ==
  [][\A i \in Index : exitcodes[i] # NoCode /\ exitcodes'[i] # exitcodes[i]
                        => pid_table[i] = NULL]_vars

-----------------------------------------------------------------------------
(* What the manual says, where the code does something else.               *)

\* After waiting for a process, waitpid() reports the code of that process
\* (_exit.html: its pid "should not be reused until all processes interested
\* in collecting the exit code with waitpid have done so").
StatusIsTargets ==
  [][\A p \in Procs : WaitReport(p) => Reported(p) = code[thread[p]]]_vars
=============================================================================
