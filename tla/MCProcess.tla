----------------------------- MODULE MCProcess -----------------------------
(* Instances of Process for TLC.                                           *)
EXTENDS Process, TLC

CONSTANTS p1, p2, p3, p4, NoProc

ProcSymmetry == Permutations(Procs \ {menu})
=============================================================================
