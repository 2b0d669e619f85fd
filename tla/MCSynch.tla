------------------------------ MODULE MCSynch ------------------------------
(* Instances of Synch for TLC.                                             *)
EXTENDS Synch, TLC

CONSTANTS t1, t2, t3, sem, lock, cv

MCAddrs == Sems \cup Locks \cup CVs \cup {lbolt}
ThreadSymmetry == Permutations(Threads)
=============================================================================
