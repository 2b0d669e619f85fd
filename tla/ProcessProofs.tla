--------------------------- MODULE ProcessProofs ---------------------------
(***************************************************************************)
(* Proofs about Process, for any number of processes and pids.             *)
(***************************************************************************)
EXTENDS Process, TLAPS

-----------------------------------------------------------------------------
(* The inductive invariant.                                                *)

\* A fork in progress has a child of its own, which is not running yet.
Forking ==
  \A p \in Procs : pc[p] = "fork" =>
    /\ newguy[p] \in Procs
    /\ pc[newguy[p]] = "embryo"
    /\ \A q \in Procs : pc[q] = "fork" /\ newguy[q] = newguy[p] => q = p

\* Only a process that has announced its exit has an exit code.
CodeOnExit ==
  \A p \in Procs : pc[p] \notin {"announced", "cleared", "gone"} => code[p] = NULL

\* The table's entries are at the index their process was given, until
\* pid_clear(); a failed fork may leave one.
TableBack ==
  \A i \in Index : pid_table[i] # NULL =>
    /\ t_pid[pid_table[i]] = i + 1
    /\ pc[pid_table[i]] \notin {"unused", "cleared"}

\* The entry of a process that has not exited has no code.
Unexited ==
  \A p \in Procs : HasPid(p) /\ code[p] = NULL => exitcodes[t_pid[p] - 1] = NoCode

\* mutex is held in exactly the sections of waitpid() that the model splits.
MutexHeld ==
  \A p \in Procs : mutex = p <=> pc[p] \in {"lookup", "walk"}

ProcInv ==
  TypeOK /\ PidOwner /\ Forking /\ CodeOnExit /\ TableBack /\ Unexited /\ MutexHeld

\* A process in the table that has exited left its code.
CodeKept ==
  \A i \in Index : pid_table[i] # NULL /\ code[pid_table[i]] # NULL => exitcodes[i] # NoCode

\* What waitpid() tested stays true while it holds mutex, and while it sleeps.
WaitTested ==
  \A p \in Procs :
    /\ pc[p] = "lookup" => exitcodes[wpid[p] - 1] = NoCode
    /\ pc[p] \in {"walk", "asleep"} => code[thread[p]] = NULL

WaitInv == CodeKept /\ WaitTested

-----------------------------------------------------------------------------
(* pid_getnext().                                                          *)

\* pid_getnext() only looks at entries of the table.
LEMMA ProbeIndex ==
  ASSUME NEW start \in Index, NEW i \in Index
  PROVE  Probe(start, i) \in Index
<1>1. PID_MAX \in Nat /\ PID_MAX - 1 \in Nat \ {0}
  BY ProcessAssumption
<1>2. CASE start + i < PID_MAX
  BY <1>1, <1>2 DEF Probe, Index
<1>3. CASE ~(start + i < PID_MAX)
  <2> DEFINE a == start + i - PID_MAX
  <2> DEFINE b == PID_MAX - 1
  <2>1. a \in Int /\ b \in Nat \ {0}
    BY <1>1 DEF Index
  <2>2. a % b \in 0 .. b - 1
    <3> HIDE DEF a, b
    <3> QED BY <2>1
  <2>3. Probe(start, i) = 1 + (a % b)
    BY <1>3 DEF Probe
  <2> QED
    BY <2>2, <2>3, <1>1 DEF Index
<1> QED
  BY <1>2, <1>3

\* The pid that pid_getnext() returns is free.
LEMMA PidFree ==
  ASSUME NEW start \in Index, NEW pid, pid_getnext(start, pid)
  PROVE  pid \in Pids /\ pid - 1 \in Index /\ pid_table[pid - 1] = NULL
<1>1. PICK i \in Index : pid_table[Probe(start, i)] = NULL /\ pid = Probe(start, i) + 1
  BY DEF pid_getnext
<1>2. Probe(start, i) \in Index
  BY ProbeIndex
<1>3. Probe(start, i) = pid - 1
  BY <1>1, <1>2 DEF Index
<1> QED
  BY <1>1, <1>2, <1>3, ProcessAssumption DEF Index, Pids

\* Pids and entries of the table correspond.
LEMMA PidIndex ==
  /\ \A pid \in 0 .. PID_MAX : pid # 0 => pid - 1 \in Index
  /\ \A pid \in Pids : pid - 1 \in Index
  BY ProcessAssumption DEF Index, Pids

-----------------------------------------------------------------------------
(* Each action preserves the invariant.                                    *)

LEMMA InitInv == Init => ProcInv
<1> SUFFICES ASSUME Init PROVE ProcInv
  OBVIOUS
<1> USE ProcessAssumption
<1>1. PICK pid \in Pids : InitWith(pid)
  BY DEF Init
<1>2. pid - 1 \in Index /\ pid \in 0 .. PID_MAX /\ pid # 0
  BY PidIndex DEF Pids
<1>3. TypeOK
  <2>1. 0 \in 0 .. PID_MAX
    OBVIOUS
  <2> QED
    BY <1>1, <1>2, <2>1 DEF InitWith, TypeOK, Places
<1>4. PidOwner
  BY <1>1, <1>2 DEF InitWith, PidOwner, HasPid
<1>5. Forking /\ CodeOnExit /\ MutexHeld
  BY <1>1 DEF InitWith, Forking, CodeOnExit, MutexHeld
<1>6. TableBack
  BY <1>1, <1>2 DEF InitWith, TableBack, Index, Pids
<1>7. Unexited
  BY <1>1, <1>2 DEF InitWith, Unexited, HasPid
<1> QED
  BY <1>3, <1>4, <1>5, <1>6, <1>7 DEF ProcInv

LEMMA ForkPidInv ==
  ASSUME ProcInv, NEW p \in Procs, NEW c \in Procs, NEW start \in Index,
         NEW pid \in Pids, ForkPid(p, c, start, pid)
  PROVE  ProcInv'
<1> USE ProcessAssumption
<1>1. pid - 1 \in Index /\ pid_table[pid - 1] = NULL /\ pid \in 0 .. PID_MAX /\ pid # 0
  BY PidFree DEF ForkPid, Pids
<1>2. pc[p] = "user" /\ pc[c] = "unused" /\ p # c
  BY DEF ForkPid, MayFork, Running
<1>3. TypeOK'
  BY <1>1, <1>2 DEF ProcInv, TypeOK, ForkPid, Places
<1>4. PidOwner'
  BY <1>1, <1>2, PidIndex DEF ProcInv, TypeOK, PidOwner, HasPid, ForkPid
<1>5. Forking'
  BY <1>2 DEF ProcInv, TypeOK, Forking, ForkPid
<1>6. CodeOnExit' /\ MutexHeld'
  BY <1>2 DEF ProcInv, TypeOK, CodeOnExit, MutexHeld, ForkPid
<1>7. TableBack'
  <2> SUFFICES ASSUME NEW i \in Index, pid_table'[i] # NULL
               PROVE  /\ t_pid'[pid_table'[i]] = i + 1
                      /\ pc'[pid_table'[i]] \notin {"unused", "cleared"}
    BY DEF TableBack
  <2>1. CASE i = pid - 1
    <3>1. pid_table'[i] = c /\ t_pid'[c] = pid /\ pc'[c] = "embryo" /\ pid = i + 1
      BY <1>1, <1>2, <2>1 DEF ProcInv, TypeOK, ForkPid, Index, Pids
    <3> QED
      BY <3>1
  <2>2. CASE i # pid - 1
    <3>1. pid_table'[i] = pid_table[i] /\ pid_table[i] \in Procs
      BY <2>2 DEF ProcInv, TypeOK, ForkPid
    <3>2. pid_table[i] # c
      BY <1>2, <3>1 DEF ProcInv, TableBack
    <3> QED
      BY <1>2, <3>1, <3>2 DEF ProcInv, TypeOK, TableBack, ForkPid
  <2> QED
    BY <2>1, <2>2
<1>8. Unexited'
  BY <1>1, <1>2, PidIndex DEF ProcInv, TypeOK, PidOwner, Unexited, HasPid, ForkPid
<1> QED
  BY <1>3, <1>4, <1>5, <1>6, <1>7, <1>8 DEF ProcInv

\* A fork returns: the child runs, or is freed with or without its pid.
LEMMA ForkReturnsInv ==
  ASSUME ProcInv, NEW p \in Procs, ForkNoStack(p) \/ ForkFail(p) \/ ForkDone(p)
  PROVE  ProcInv'
<1> USE ProcessAssumption
<1> DEFINE c == newguy[p]
<1>1. PICK place \in {"gone", "user", "loading"} : ForkReturns(p, place)
  BY DEF ForkNoStack, ForkFail, ForkDone
<1>2. c \in Procs /\ pc[p] = "fork" /\ pc[c] = "embryo" /\ p # c
  BY <1>1 DEF ForkReturns, ProcInv, Forking
<1>3. t_pid[c] \in 0 .. PID_MAX /\ t_pid[c] # 0 /\ t_pid[c] - 1 \in Index /\ pid_table[t_pid[c] - 1] = c
  BY <1>2, PidIndex DEF ProcInv, TypeOK, PidOwner, HasPid
<1>4. /\ exitcodes' = exitcodes /\ memory' \subseteq Procs
      /\ \/ pid_table' = pid_table
         \/ place = "gone" /\ pid_table' = [pid_table EXCEPT ![t_pid[c] - 1] = NULL]
  <2>1. CASE ForkNoStack(p)
    BY <2>1 DEF ForkNoStack, ProcInv, TypeOK
  <2>2. CASE ForkFail(p)
    <3>1. pc' = [pc EXCEPT ![p] = "user", ![c] = "gone"] /\ pc' = [pc EXCEPT ![p] = "user", ![c] = place]
      BY <1>1, <2>2 DEF ForkFail, ForkReturns
    <3>2. place = "gone"
      BY <1>2, <3>1 DEF ProcInv, TypeOK
    <3> QED
      BY <1>2, <2>2, <3>2 DEF ForkFail, pid_clear, ProcInv, TypeOK
  <2>3. CASE ForkDone(p)
    BY <1>2, <2>3 DEF ForkDone, ProcInv, TypeOK
  <2> QED
    BY <2>1, <2>2, <2>3
<1>5. /\ pc' = [pc EXCEPT ![p] = "user", ![c] = place]
      /\ newguy' = [newguy EXCEPT ![p] = NULL]
      /\ UNCHANGED <<mutex, t_pid, t_ppid, wpid, thread, walk, code, panicked>>
  BY <1>1 DEF ForkReturns
<1> HIDE DEF c
<1>6. TypeOK'
  BY <1>2, <1>3, <1>4, <1>5 DEF ProcInv, TypeOK, Places
<1>7. PidOwner'
  <2> SUFFICES ASSUME NEW q \in Procs, HasPid(q)'
               PROVE  t_pid'[q] # 0 /\ pid_table'[t_pid'[q] - 1] = q
    BY DEF PidOwner
  <2>1. HasPid(q) /\ (q = c => place # "gone")
    BY <1>2, <1>5 DEF HasPid, ProcInv, TypeOK
  <2>2. t_pid[q] # 0 /\ pid_table[t_pid[q] - 1] = q /\ t_pid[q] - 1 \in Index
    BY <2>1, PidIndex DEF ProcInv, PidOwner, TypeOK
  <2> QED
    BY <1>3, <1>4, <1>5, <2>1, <2>2 DEF ProcInv, TypeOK
<1>8. Forking'
  BY <1>2, <1>5 DEF ProcInv, TypeOK, Forking, c
<1>9. CodeOnExit' /\ MutexHeld'
  BY <1>2, <1>5 DEF ProcInv, TypeOK, CodeOnExit, MutexHeld
<1>10. TableBack'
  <2> SUFFICES ASSUME NEW i \in Index, pid_table'[i] # NULL
               PROVE  /\ t_pid'[pid_table'[i]] = i + 1
                      /\ pc'[pid_table'[i]] \notin {"unused", "cleared"}
    BY DEF TableBack
  <2>1. pid_table'[i] = pid_table[i] /\ pid_table[i] \in Procs
    BY <1>3, <1>4 DEF ProcInv, TypeOK
  <2> QED
    BY <1>2, <1>5, <2>1 DEF ProcInv, TypeOK, TableBack
<1>11. Unexited'
  BY <1>2, <1>4, <1>5 DEF ProcInv, TypeOK, Unexited, HasPid
<1> QED
  BY <1>6, <1>7, <1>8, <1>9, <1>10, <1>11 DEF ProcInv

LEMMA RunprogramInv ==
  ASSUME ProcInv, NEW p \in Procs, runprogram(p)
  PROVE  ProcInv'
<1> USE ProcessAssumption
<1>1. PICK place \in {"user", "announced"} :
        pc[p] = "loading" /\ pc' = [pc EXCEPT ![p] = place]
  BY DEF runprogram
<1>2. memory' \subseteq Procs /\ UNCHANGED <<tables, t_pid, t_ppid, locals, code, panicked>>
  BY DEF runprogram, ProcInv, TypeOK
<1>3. TypeOK'
  BY <1>1, <1>2 DEF ProcInv, TypeOK, Places, tables, locals
<1>4. PidOwner' /\ Unexited'
  BY <1>1, <1>2 DEF ProcInv, TypeOK, PidOwner, Unexited, HasPid, tables, locals
<1>5. Forking' /\ CodeOnExit' /\ MutexHeld'
  BY <1>1, <1>2 DEF ProcInv, TypeOK, Forking, CodeOnExit, MutexHeld, tables, locals
<1>6. TableBack'
  BY <1>1, <1>2 DEF ProcInv, TypeOK, TableBack, tables, locals
<1> QED
  BY <1>3, <1>4, <1>5, <1>6 DEF ProcInv

LEMMA ExitInv ==
  ASSUME ProcInv, NEW p \in Procs, NEW e \in ExitCodes, sys__exit(p, e)
  PROVE  ProcInv'
<1> USE ProcessAssumption
<1> DEFINE k == t_pid[p] - 1
<1>1. pc[p] = "user" /\ mutex = NULL /\ HasPid(p)
  BY DEF sys__exit, Running, HasPid
<1>2. t_pid[p] # 0 /\ pid_table[k] = p /\ k \in Index
  BY <1>1, PidIndex DEF ProcInv, PidOwner, TypeOK
<1>3. /\ exitcodes' = [exitcodes EXCEPT ![k] = e]
      /\ code' = [code EXCEPT ![p] = e]
      /\ UNCHANGED <<pid_table, mutex, t_pid, t_ppid, locals, memory, panicked>>
  BY DEF sys__exit
<1>4. /\ pc' \in [Procs -> Places] /\ pc'[p] = "announced"
      /\ \A q \in Procs \ {p} : pc'[q] = pc[q] \/ (pc[q] = "asleep" /\ pc'[q] = "woken")
  <2>1. pc' = [q \in Procs |-> CASE q = p -> "announced"
                                 [] q \in WokenBy(p) -> "woken"
                                 [] OTHER -> pc[q]]
    BY DEF sys__exit
  <2>2. p \notin WokenBy(p) /\ \A q \in WokenBy(p) : pc[q] = "asleep"
    BY <1>1 DEF WokenBy
  <2>3. pc'[p] = "announced"
    BY <2>1, <2>2
  <2>4. \A q \in Procs \ {p} : pc'[q] = IF q \in WokenBy(p) THEN "woken" ELSE pc[q]
    BY <2>1
  <2>5. \A q \in Procs : pc'[q] \in Places
    BY <2>3, <2>4 DEF ProcInv, TypeOK, Places
  <2> QED
    BY <2>1, <2>2, <2>3, <2>4, <2>5
<1> HIDE DEF k
<1>5. TypeOK'
  BY <1>2, <1>3, <1>4 DEF ProcInv, TypeOK, locals
<1>6. PidOwner'
  BY <1>1, <1>3, <1>4 DEF ProcInv, TypeOK, PidOwner, HasPid
<1>7. Forking' /\ MutexHeld'
  BY <1>1, <1>3, <1>4 DEF ProcInv, TypeOK, Forking, MutexHeld, locals
<1>8. CodeOnExit'
  BY <1>3, <1>4 DEF ProcInv, TypeOK, CodeOnExit
<1>9. TableBack'
  BY <1>1, <1>3, <1>4 DEF ProcInv, TypeOK, TableBack
<1>10. Unexited'
  <2> SUFFICES ASSUME NEW q \in Procs, HasPid(q)', code'[q] = NULL
               PROVE  exitcodes'[t_pid'[q] - 1] = NoCode
    BY DEF Unexited
  <2>1. CASE q = p
    <3>1. code'[p] = e /\ e # NULL
      BY <1>3 DEF ProcInv, TypeOK
    <3> QED
      BY <2>1, <3>1
  <2>2. CASE q # p
    <3>1. HasPid(q) /\ code[q] = NULL
      BY <1>3, <1>4, <2>2 DEF HasPid, ProcInv, TypeOK
    <3>2. t_pid[q] - 1 \in Index /\ t_pid[q] - 1 # k
      BY <1>2, <2>2, <3>1, PidIndex DEF ProcInv, PidOwner, TypeOK
    <3> QED
      BY <1>3, <3>1, <3>2 DEF ProcInv, TypeOK, Unexited
  <2> QED
    BY <2>1, <2>2
<1> QED
  BY <1>5, <1>6, <1>7, <1>8, <1>9, <1>10 DEF ProcInv

LEMMA ExitClearInv ==
  ASSUME ProcInv, NEW p \in Procs, ExitClear(p)
  PROVE  ProcInv'
<1> USE ProcessAssumption
<1> DEFINE k == t_pid[p] - 1
<1>1. pc[p] = "announced" /\ HasPid(p)
  BY DEF ExitClear, HasPid
<1>2. t_pid[p] # 0 /\ pid_table[k] = p /\ k \in Index
  BY <1>1, PidIndex DEF ProcInv, PidOwner, TypeOK
<1>3. /\ pid_table' = [pid_table EXCEPT ![k] = NULL]
      /\ pc' = [pc EXCEPT ![p] = "cleared"]
      /\ UNCHANGED <<exitcodes, mutex, t_pid, t_ppid, locals, code, memory, panicked>>
  BY DEF ExitClear, pid_clear
<1> HIDE DEF k
<1>4. TypeOK'
  BY <1>1, <1>2, <1>3 DEF ProcInv, TypeOK, Places, locals
<1>5. PidOwner'
  <2> SUFFICES ASSUME NEW q \in Procs, HasPid(q)'
               PROVE  t_pid'[q] # 0 /\ pid_table'[t_pid'[q] - 1] = q
    BY DEF PidOwner
  <2>1. HasPid(q) /\ q # p
    BY <1>3 DEF HasPid, ProcInv, TypeOK
  <2>2. t_pid[q] # 0 /\ pid_table[t_pid[q] - 1] = q /\ t_pid[q] - 1 \in Index
    BY <2>1, PidIndex DEF ProcInv, PidOwner, TypeOK
  <2> QED
    BY <1>2, <1>3, <2>1, <2>2 DEF ProcInv, TypeOK
<1>6. Forking' /\ MutexHeld' /\ CodeOnExit'
  BY <1>1, <1>3 DEF ProcInv, TypeOK, Forking, MutexHeld, CodeOnExit, locals
<1>7. TableBack'
  <2> SUFFICES ASSUME NEW i \in Index, pid_table'[i] # NULL
               PROVE  /\ t_pid'[pid_table'[i]] = i + 1
                      /\ pc'[pid_table'[i]] \notin {"unused", "cleared"}
    BY DEF TableBack
  <2>1. i # k /\ pid_table'[i] = pid_table[i] /\ pid_table[i] \in Procs
    BY <1>2, <1>3 DEF ProcInv, TypeOK
  <2>2. t_pid[pid_table[i]] = i + 1 /\ pc[pid_table[i]] \notin {"unused", "cleared"}
    BY <2>1 DEF ProcInv, TableBack
  <2>3. pid_table[i] # p
    BY <2>1, <2>2 DEF k, Index
  <2> QED
    BY <1>3, <2>1, <2>2, <2>3 DEF ProcInv, TypeOK
<1>8. Unexited'
  BY <1>1, <1>3 DEF ProcInv, TypeOK, Unexited, HasPid
<1> QED
  BY <1>4, <1>5, <1>6, <1>7, <1>8 DEF ProcInv

LEMMA ExitPagesInv ==
  ASSUME ProcInv, NEW p \in Procs, ExitPages(p)
  PROVE  ProcInv'
<1> USE ProcessAssumption
<1>1. /\ pc[p] = "cleared"
      /\ memory' \subseteq memory
      /\ pc' = [pc EXCEPT ![p] = "gone"]
      /\ t_pid' = [t_pid EXCEPT ![p] = 0]
      /\ t_ppid' = [t_ppid EXCEPT ![p] = 0]
      /\ UNCHANGED <<pid_table, exitcodes, mutex, locals, code, panicked>>
  BY DEF ExitPages, tables
<1>2. TypeOK'
  <2>1. 0 \in 0 .. PID_MAX
    OBVIOUS
  <2> QED
    BY <1>1, <2>1 DEF ProcInv, TypeOK, Places, locals
<1>3. PidOwner' /\ Unexited'
  BY <1>1 DEF ProcInv, TypeOK, PidOwner, Unexited, HasPid
<1>4. Forking' /\ MutexHeld' /\ CodeOnExit'
  BY <1>1 DEF ProcInv, TypeOK, Forking, MutexHeld, CodeOnExit, locals
<1>5. TableBack'
  <2> SUFFICES ASSUME NEW i \in Index, pid_table'[i] # NULL
               PROVE  /\ t_pid'[pid_table'[i]] = i + 1
                      /\ pc'[pid_table'[i]] \notin {"unused", "cleared"}
    BY DEF TableBack
  <2>1. pid_table'[i] = pid_table[i] /\ pid_table[i] \in Procs /\ pid_table[i] # p
    BY <1>1 DEF ProcInv, TypeOK, TableBack
  <2> QED
    BY <1>1, <2>1 DEF ProcInv, TypeOK, TableBack
<1> QED
  BY <1>2, <1>3, <1>4, <1>5 DEF ProcInv

\* The steps of waitpid() leave the tables and the pids alone.
LEMMA WaitInvStep ==
  ASSUME ProcInv, NEW p \in Procs, NEW place \in Places,
         pc[p] \in {"user", "lookup", "walk", "woken"},
         place \in {"user", "lookup", "walk", "asleep"},
         pc' = [pc EXCEPT ![p] = place],
         wpid' \in [Procs -> 0 .. PID_MAX],
         thread' \in [Procs -> Procs \cup {NULL}],
         walk' \in [Procs -> Procs \cup {NULL}],
         \A q \in Procs \ {p} : wpid'[q] = wpid[q] /\ thread'[q] = thread[q] /\ walk'[q] = walk[q],
         place # "user" => wpid'[p] \in Pids,
         place \in {"walk", "asleep"} => thread'[p] \in Procs,
         place = "walk" => walk'[p] \in Procs,
         panicked' \in BOOLEAN,
         IF place \in {"lookup", "walk"} THEN mutex' = p ELSE mutex' = NULL,
         mutex \in {NULL, p},
         UNCHANGED <<pid_table, exitcodes, t_pid, t_ppid, newguy, code, memory>>
  PROVE  ProcInv'
<1> USE ProcessAssumption
<1>1. TypeOK'
  BY DEF ProcInv, TypeOK
<1>2. PidOwner' /\ Unexited'
  BY DEF ProcInv, TypeOK, PidOwner, Unexited, HasPid
<1>3. Forking' /\ CodeOnExit'
  BY DEF ProcInv, TypeOK, Forking, CodeOnExit
<1>4. MutexHeld'
  BY DEF ProcInv, TypeOK, MutexHeld
<1>5. TableBack'
  BY DEF ProcInv, TypeOK, TableBack
<1> QED
  BY <1>1, <1>2, <1>3, <1>4, <1>5 DEF ProcInv

\* waitpid() returns without mutex.
LEMMA WaitReturnsInv ==
  ASSUME ProcInv, NEW p \in Procs, WaitReturns(p), mutex' = NULL,
         pc[p] \in {"lookup", "walk", "woken"}, mutex \in {NULL, p},
         UNCHANGED <<pid_table, exitcodes, t_pid, t_ppid, newguy, code, memory, panicked>>
  PROVE  ProcInv'
<1>1. 0 \in 0 .. PID_MAX /\ "user" \in Places
  BY ProcessAssumption DEF Places
<1>2. /\ wpid' \in [Procs -> 0 .. PID_MAX]
      /\ thread' \in [Procs -> Procs \cup {NULL}]
      /\ walk' \in [Procs -> Procs \cup {NULL}]
      /\ \A q \in Procs \ {p} : wpid'[q] = wpid[q] /\ thread'[q] = thread[q] /\ walk'[q] = walk[q]
      /\ panicked' \in BOOLEAN
  BY <1>1 DEF WaitReturns, ProcInv, TypeOK
<1> QED
  BY <1>1, <1>2, WaitInvStep DEF WaitReturns

LEMMA WaitEnterInv ==
  ASSUME ProcInv, NEW p \in Procs, NEW pid \in Pids, WaitEnter(p, pid)
  PROVE  ProcInv'
<1>1. pid \in 0 .. PID_MAX /\ "lookup" \in Places
  BY ProcessAssumption DEF Places, Pids
<1>2. /\ wpid' = [wpid EXCEPT ![p] = pid]
      /\ pc[p] = "user" /\ mutex = NULL /\ mutex' = p
      /\ pc' = [pc EXCEPT ![p] = "lookup"]
      /\ UNCHANGED <<pid_table, exitcodes, t_pid, t_ppid, newguy, thread, walk, code,
                     memory, panicked>>
  BY <1>1 DEF WaitEnter, Running, ProcInv, TypeOK
<1>3. /\ wpid' \in [Procs -> 0 .. PID_MAX] /\ wpid'[p] = pid
      /\ thread' \in [Procs -> Procs \cup {NULL}]
      /\ walk' \in [Procs -> Procs \cup {NULL}]
      /\ \A q \in Procs \ {p} : wpid'[q] = wpid[q] /\ thread'[q] = thread[q] /\ walk'[q] = walk[q]
      /\ panicked' \in BOOLEAN
  BY <1>1, <1>2 DEF ProcInv, TypeOK
<1> QED
  BY <1>1, <1>2, <1>3, WaitInvStep

LEMMA WaitLookupInv ==
  ASSUME ProcInv, NEW p \in Procs, WaitLookup(p)
  PROVE  ProcInv'
<1> DEFINE t == pid_table[wpid[p] - 1]
<1>1. pc[p] = "lookup" /\ mutex = p
  BY DEF WaitLookup, ProcInv, MutexHeld
<1>2. CASE Refuse(p)
  BY <1>1, <1>2, WaitReturnsInv DEF Refuse, WaitLookup
<1>3. CASE /\ t # NULL
           /\ thread' = [thread EXCEPT ![p] = t]
           /\ walk' = [walk EXCEPT ![p] = p]
           /\ pc' = [pc EXCEPT ![p] = "walk"]
           /\ UNCHANGED <<mutex, wpid>>
  <2>0. UNCHANGED <<pid_table, exitcodes, t_pid, t_ppid, newguy, code, memory, panicked>>
    BY DEF WaitLookup
  <2>1. t \in Procs /\ wpid[p] \in Pids
    BY <1>1, <1>3, PidIndex DEF ProcInv, TypeOK
  <2>2. /\ wpid' \in [Procs -> 0 .. PID_MAX]
        /\ thread' \in [Procs -> Procs \cup {NULL}]
        /\ walk' \in [Procs -> Procs \cup {NULL}]
        /\ \A q \in Procs \ {p} : wpid'[q] = wpid[q] /\ thread'[q] = thread[q] /\ walk'[q] = walk[q]
        /\ wpid'[p] \in Pids /\ thread'[p] \in Procs /\ walk'[p] \in Procs
        /\ panicked' \in BOOLEAN
    BY <1>3, <2>0, <2>1 DEF ProcInv, TypeOK
  <2>3. "walk" \in Places
    BY DEF Places
  <2> QED
    BY <1>1, <1>3, <2>0, <2>2, <2>3, WaitInvStep
<1> QED
  BY <1>2, <1>3 DEF WaitLookup

LEMMA IsChildInv ==
  ASSUME ProcInv, NEW p \in Procs, pid_is_child(p)
  PROVE  ProcInv'
<1> USE ProcessAssumption
<1>1. pc[p] = "walk" /\ mutex = p /\ wpid[p] \in Pids /\ thread[p] \in Procs /\ walk[p] \in Procs
  BY DEF pid_is_child, ProcInv, MutexHeld, TypeOK
<1>2. UNCHANGED <<pid_table, exitcodes, t_pid, t_ppid, newguy, code, memory>>
  BY DEF pid_is_child
<1>3. \A ppid \in ParentRead(p) : ppid \in 0 .. PID_MAX
  BY <1>1 DEF ParentRead, ProcInv, TypeOK
<1>4. CASE panicked' = TRUE /\ UNCHANGED <<mutex, pc, wpid, thread, walk>>
  BY <1>2, <1>4 DEF ProcInv, TypeOK, PidOwner, HasPid, Forking, CodeOnExit, TableBack, Unexited, MutexHeld
<1>5. CASE /\ mutex' = NULL
           /\ pc' = [pc EXCEPT ![p] = "asleep"]
           /\ walk' = [walk EXCEPT ![p] = NULL]
           /\ UNCHANGED <<wpid, thread, panicked>>
  <2>1. /\ wpid' \in [Procs -> 0 .. PID_MAX]
        /\ thread' \in [Procs -> Procs \cup {NULL}]
        /\ walk' \in [Procs -> Procs \cup {NULL}]
        /\ \A q \in Procs \ {p} : wpid'[q] = wpid[q] /\ thread'[q] = thread[q] /\ walk'[q] = walk[q]
        /\ panicked' \in BOOLEAN /\ "asleep" \in Places
    BY <1>5 DEF ProcInv, TypeOK, Places
  <2> QED
    BY <1>1, <1>2, <1>5, <2>1, WaitInvStep
<1>6. CASE Refuse(p) /\ UNCHANGED panicked
  BY <1>1, <1>2, <1>6, WaitReturnsInv DEF Refuse
<1>7. ASSUME NEW ppid \in ParentRead(p), ppid # 0, ParentOf(ppid) # NULL,
             walk' = [walk EXCEPT ![p] = ParentOf(ppid)],
             UNCHANGED <<mutex, pc, wpid, thread, panicked>>
      PROVE  ProcInv'
  <2>1. ParentOf(ppid) \in Procs
    BY <1>3, <1>7, PidIndex DEF ParentOf, ProcInv, TypeOK
  <2> QED
    BY <1>1, <1>2, <1>7, <2>1 DEF ProcInv, TypeOK, PidOwner, HasPid, Forking, CodeOnExit,
       TableBack, Unexited, MutexHeld
<1> QED
  BY <1>4, <1>5, <1>6, <1>7 DEF pid_is_child

LEMMA WaitReportInv ==
  ASSUME ProcInv, NEW p \in Procs, WaitReport(p)
  PROVE  ProcInv'
  BY WaitReturnsInv DEF WaitReport, tables

LEMMA NextInv ==
  ASSUME ProcInv, [Next]_vars
  PROVE  ProcInv'
<1>1. CASE UNCHANGED vars
  BY <1>1 DEF vars, tables, locals, ProcInv, TypeOK, PidOwner, HasPid, Forking,
     CodeOnExit, TableBack, Unexited, MutexHeld
<1>2. CASE Next
  BY <1>2, ForkPidInv, ForkReturnsInv, RunprogramInv, ExitInv, ExitClearInv,
     ExitPagesInv, WaitEnterInv, WaitLookupInv, IsChildInv, WaitReportInv DEF Next
<1> QED
  BY <1>1, <1>2

\* ProcInv is an invariant of processes forking, exiting and waiting.
THEOREM ProcessSafety == Spec => []ProcInv
  BY InitInv, NextInv, PTL DEF Spec

\* Pids are unique among the processes that have not reached pid_clear().
THEOREM PidsUnique == Spec => []PidOwner
<1>1. ProcInv => PidOwner
  BY DEF ProcInv
<1> QED
  BY <1>1, ProcessSafety, PTL

\* No return of waitpid() keeps mutex.
THEOREM MutexGivenBack == Spec => []MutexReleased
<1>1. ProcInv => MutexReleased
  BY ProcessAssumption DEF ProcInv, TypeOK, MutexHeld, MutexReleased
<1> QED
  BY <1>1, ProcessSafety, PTL

-----------------------------------------------------------------------------
(* Exit codes.                                                             *)

\* Who keeps the tables and the codes, moves nobody into waitpid()'s section
\* and no pointers of waitpid(), keeps what waitpid() tested.
LEMMA WaitKept ==
  ASSUME ProcInv, WaitInv, UNCHANGED <<exitcodes, code, wpid, thread>>,
         \A i \in Index : pid_table'[i] \in {NULL, pid_table[i]},
         \A q \in Procs : pc'[q] \in {"lookup", "walk", "asleep"} =>
                            pc'[q] = pc[q] \/ (pc[q] = "walk" /\ pc'[q] = "asleep")
  PROVE  WaitInv'
<1>1. CodeKept'
  BY DEF WaitInv, CodeKept
<1>2. WaitTested'
  BY DEF WaitInv, WaitTested
<1> QED
  BY <1>1, <1>2 DEF WaitInv

LEMMA ForkPidWait ==
  ASSUME ProcInv, WaitInv, NEW p \in Procs, NEW c \in Procs, NEW start \in Index,
         NEW pid \in Pids, ForkPid(p, c, start, pid)
  PROVE  WaitInv'
<1> USE ProcessAssumption
<1>1. pid - 1 \in Index /\ pid_table[pid - 1] = NULL
  BY PidFree DEF ForkPid
<1>2. pc[p] = "user" /\ pc[c] = "unused" /\ p # c /\ code[c] = NULL
  BY DEF ForkPid, MayFork, Running, ProcInv, CodeOnExit
<1>3. CodeKept'
  BY <1>1, <1>2 DEF ForkPid, WaitInv, CodeKept, ProcInv, TypeOK
<1>4. WaitTested'
  <2> SUFFICES ASSUME NEW q \in Procs
               PROVE  /\ pc'[q] = "lookup" => exitcodes'[wpid'[q] - 1] = NoCode
                      /\ pc'[q] \in {"walk", "asleep"} => code'[thread'[q]] = NULL
    BY DEF WaitTested
  <2>1. pc'[q] \in {"lookup", "walk", "asleep"} => pc'[q] = pc[q]
    BY <1>2 DEF ForkPid, ProcInv, TypeOK
  <2>2. pc[q] = "lookup" => wpid[q] - 1 \in Index
    BY PidIndex DEF ProcInv, TypeOK
  <2> QED
    BY <1>1, <2>1, <2>2 DEF ForkPid, WaitInv, WaitTested, ProcInv, TypeOK
<1> QED
  BY <1>3, <1>4 DEF WaitInv

LEMMA ForkReturnsWait ==
  ASSUME ProcInv, WaitInv, NEW p \in Procs, ForkNoStack(p) \/ ForkFail(p) \/ ForkDone(p)
  PROVE  WaitInv'
<1>1. PICK place \in {"gone", "user", "loading"} : ForkReturns(p, place)
  BY DEF ForkNoStack, ForkFail, ForkDone
<1>2. pc[p] = "fork" /\ newguy[p] \in Procs
  BY <1>1 DEF ForkReturns, ProcInv, Forking
<1>3. exitcodes' = exitcodes /\ \A i \in Index : pid_table'[i] \in {NULL, pid_table[i]}
  BY DEF ForkNoStack, ForkFail, ForkDone, pid_clear, ProcInv, TypeOK
<1>4. \A q \in Procs : pc'[q] \in {"lookup", "walk", "asleep"} => pc'[q] = pc[q]
  BY <1>1, <1>2 DEF ForkReturns, ProcInv, TypeOK
<1> QED
  BY <1>1, <1>3, <1>4, WaitKept DEF ForkReturns

LEMMA ExitWait ==
  ASSUME ProcInv, WaitInv, NoCode \notin ExitCodes,
         NEW p \in Procs, NEW e \in ExitCodes, sys__exit(p, e)
  PROVE  WaitInv'
<1> USE ProcessAssumption
<1> DEFINE k == t_pid[p] - 1
<1>1. pc[p] = "user" /\ mutex = NULL /\ HasPid(p)
  BY DEF sys__exit, Running, HasPid
<1>2. k \in Index /\ pid_table[k] = p
  BY <1>1, PidIndex DEF ProcInv, PidOwner, TypeOK
<1>3. /\ exitcodes' = [exitcodes EXCEPT ![k] = e]
      /\ code' = [code EXCEPT ![p] = e]
      /\ UNCHANGED <<pid_table, wpid, thread>>
  BY DEF sys__exit, locals
<1> HIDE DEF k
<1>4. CodeKept'
  <2> SUFFICES ASSUME NEW i \in Index, pid_table[i] # NULL, code'[pid_table[i]] # NULL
               PROVE  exitcodes'[i] # NoCode
    BY <1>3 DEF CodeKept
  <2>1. CASE pid_table[i] = p
    <3>1. i = k
      BY <2>1 DEF ProcInv, TableBack, k, Index
    <3> QED
      BY <1>2, <1>3, <3>1 DEF ProcInv, TypeOK
  <2>2. CASE pid_table[i] # p
    BY <1>2, <1>3, <2>2 DEF ProcInv, TypeOK, WaitInv, CodeKept
  <2> QED
    BY <2>1, <2>2
<1>5. WaitTested'
  <2> SUFFICES ASSUME NEW q \in Procs, pc'[q] \in {"lookup", "walk", "asleep"}
               PROVE  pc'[q] = "asleep" /\ code'[thread'[q]] = NULL
    BY DEF WaitTested
  <2>1. q # p /\ q \notin WokenBy(p) /\ pc'[q] = pc[q]
    <3>1. pc'[q] = CASE q = p -> "announced" [] q \in WokenBy(p) -> "woken" [] OTHER -> pc[q]
      BY DEF sys__exit
    <3>2. p \notin WokenBy(p)
      BY <1>1 DEF WokenBy
    <3> QED
      BY <3>1, <3>2
  <2>2. pc[q] = "asleep"
    BY <1>1, <2>1 DEF ProcInv, MutexHeld
  <2>3. thread[q] # p /\ thread[q] \in Procs
    BY <2>1, <2>2 DEF WokenBy, ProcInv, TypeOK
  <2> QED
    BY <1>3, <2>1, <2>2, <2>3 DEF WaitInv, WaitTested, ProcInv, TypeOK
<1> QED
  BY <1>4, <1>5 DEF WaitInv

LEMMA WaitLookupWait ==
  ASSUME ProcInv, WaitInv, NEW p \in Procs, WaitLookup(p)
  PROVE  WaitInv'
<1> USE ProcessAssumption
<1> DEFINE t == pid_table[wpid[p] - 1]
<1>1. pc[p] = "lookup" /\ wpid[p] - 1 \in Index
  BY PidIndex DEF WaitLookup, ProcInv, TypeOK
<1>2. UNCHANGED <<pid_table, exitcodes, code>>
  BY DEF WaitLookup
<1>3. CodeKept'
  BY <1>2 DEF WaitInv, CodeKept
<1>4. WaitTested'
  <2>1. CASE Refuse(p)
    BY <1>2, <2>1 DEF Refuse, WaitReturns, WaitInv, WaitTested, ProcInv, TypeOK
  <2>2. CASE /\ t # NULL
             /\ thread' = [thread EXCEPT ![p] = t]
             /\ pc' = [pc EXCEPT ![p] = "walk"]
             /\ UNCHANGED wpid
    <3>1. code[t] = NULL
      BY <1>1, <2>2 DEF WaitInv, WaitTested, CodeKept
    <3> QED
      BY <1>2, <2>2, <3>1 DEF WaitInv, WaitTested, ProcInv, TypeOK
  <2> QED
    BY <2>1, <2>2 DEF WaitLookup
<1> QED
  BY <1>3, <1>4 DEF WaitInv

LEMMA OtherWait ==
  ASSUME ProcInv, WaitInv, NEW p \in Procs,
         \/ runprogram(p) \/ ExitClear(p) \/ ExitPages(p)
         \/ \E pid \in Pids : WaitEnter(p, pid)
         \/ pid_is_child(p) \/ WaitReport(p)
  PROVE  WaitInv'
<1> USE ProcessAssumption
<1>1. CASE runprogram(p) \/ ExitClear(p) \/ ExitPages(p)
  <2>1. UNCHANGED <<exitcodes, code, wpid, thread>>
    BY <1>1 DEF runprogram, ExitClear, ExitPages, pid_clear, tables, locals
  <2>2. \A i \in Index : pid_table'[i] \in {NULL, pid_table[i]}
    BY <1>1 DEF runprogram, ExitClear, ExitPages, pid_clear, tables, ProcInv, TypeOK
  <2>3. \A q \in Procs : pc'[q] \in {"lookup", "walk", "asleep"} => pc'[q] = pc[q]
    BY <1>1 DEF runprogram, ExitClear, ExitPages, ProcInv, TypeOK
  <2> QED
    BY <2>1, <2>2, <2>3, WaitKept
<1>2. ASSUME NEW pid \in Pids, WaitEnter(p, pid)
      PROVE  WaitInv'
  <2>1. CodeKept'
    BY <1>2 DEF WaitEnter, WaitInv, CodeKept
  <2>2. WaitTested'
    BY <1>2 DEF WaitEnter, WaitInv, WaitTested, ProcInv, TypeOK
  <2> QED
    BY <2>1, <2>2 DEF WaitInv
<1>3. CASE WaitReturns(p) /\ UNCHANGED <<pid_table, exitcodes, code>>
  <2>1. CodeKept'
    BY <1>3 DEF WaitInv, CodeKept
  <2>2. WaitTested'
    BY <1>3 DEF WaitReturns, WaitInv, WaitTested, ProcInv, TypeOK
  <2> QED
    BY <2>1, <2>2 DEF WaitInv
<1>4. CASE pid_is_child(p)
  <2>1. pc[p] = "walk" /\ UNCHANGED <<pid_table, exitcodes, code>>
    BY <1>4 DEF pid_is_child
  <2>2. CASE Refuse(p)
    BY <1>3, <2>1, <2>2 DEF Refuse
  <2>3. CASE UNCHANGED <<wpid, thread>> /\ (UNCHANGED pc \/ pc' = [pc EXCEPT ![p] = "asleep"])
    BY <2>1, <2>3, WaitKept DEF ProcInv, TypeOK
  <2> QED
    BY <1>4, <2>2, <2>3 DEF pid_is_child
<1>5. CASE WaitReport(p)
  BY <1>3, <1>5 DEF WaitReport, tables
<1> QED
  BY <1>1, <1>2, <1>4, <1>5

\* Unless -1 is used as an exit code, nobody sleeps in waitpid() for a process
\* that has already announced its exit: no exit is missed.
THEOREM NoExitMissed ==
  ASSUME NoCode \notin ExitCodes
  PROVE  Spec => []WaiterHasReason
<1>1. Init => WaitInv
  BY ProcessAssumption DEF Init, InitWith, WaitInv, CodeKept, WaitTested
<1>2. ProcInv /\ WaitInv /\ [Next]_vars => WaitInv'
  <2> SUFFICES ASSUME ProcInv, WaitInv, [Next]_vars PROVE WaitInv'
    OBVIOUS
  <2>1. CASE UNCHANGED vars
    BY <2>1 DEF vars, tables, locals, WaitInv, CodeKept, WaitTested
  <2>2. CASE Next
    BY <2>2, ForkPidWait, ForkReturnsWait, ExitWait, WaitLookupWait, OtherWait DEF Next
  <2> QED
    BY <2>1, <2>2
<1>3. WaitInv => WaiterHasReason
  BY DEF WaitInv, WaitTested, WaiterHasReason
<1> QED
  BY <1>1, <1>2, <1>3, ProcessSafety, PTL DEF Spec

\* An exit code is only replaced when the pid has no owner: a process exits
\* once, and pid_getnext() resets the entry of a pid that is free.
THEOREM CodesLast == Spec => StatusStable
<1> DEFINE Keeps == \A i \in Index : exitcodes[i] # NoCode /\ exitcodes'[i] # exitcodes[i]
                                      => pid_table[i] = NULL
<1>1. ProcInv /\ [Next]_vars => [Keeps]_vars
  <2> SUFFICES ASSUME ProcInv, Next PROVE Keeps
    OBVIOUS
  <2> USE ProcessAssumption
  <2>1. ASSUME NEW p \in Procs, NEW c \in Procs, NEW start \in Index, NEW pid \in Pids,
               ForkPid(p, c, start, pid)
        PROVE  Keeps
    <3>1. pid - 1 \in Index /\ pid_table[pid - 1] = NULL
      BY <2>1, PidFree DEF ForkPid
    <3> QED
      BY <2>1, <3>1 DEF ForkPid, ProcInv, TypeOK
  <2>2. ASSUME NEW p \in Procs, NEW e \in ExitCodes, sys__exit(p, e)
        PROVE  Keeps
    <3>1. HasPid(p) /\ code[p] = NULL
      BY <2>2 DEF sys__exit, Running, HasPid, ProcInv, CodeOnExit
    <3>2. exitcodes[t_pid[p] - 1] = NoCode
      BY <3>1 DEF ProcInv, Unexited
    <3> QED
      BY <2>2, <3>2 DEF sys__exit, ProcInv, TypeOK
  <2>3. ASSUME exitcodes' = exitcodes
        PROVE  Keeps
    BY <2>3
  <2>4. ASSUME NEW p \in Procs,
               \/ ForkNoStack(p) \/ ForkFail(p) \/ ForkDone(p) \/ runprogram(p)
               \/ ExitClear(p) \/ ExitPages(p)
               \/ \E pid \in Pids : WaitEnter(p, pid)
               \/ WaitLookup(p) \/ pid_is_child(p) \/ WaitReport(p)
        PROVE  exitcodes' = exitcodes
    BY <2>4 DEF ForkNoStack, ForkFail, ForkDone, runprogram, ExitClear, ExitPages, WaitEnter,
       WaitLookup, pid_is_child, WaitReport, pid_clear, tables
  <2> QED
    BY <2>1, <2>2, <2>3, <2>4 DEF Next
<1> QED
  BY <1>1, ProcessSafety, PTL DEF Spec, StatusStable
=============================================================================
