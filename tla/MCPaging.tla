------------------------------ MODULE MCPaging ------------------------------
(* Instances of Paging for TLC.                                            *)
EXTENDS Paging, TLC

CONSTANTS p1, p2, p3, text, heap, None

ProcSymmetry == Permutations(Procs)
=============================================================================
