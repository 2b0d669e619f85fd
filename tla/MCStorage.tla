------------------------------ MODULE MCStorage ------------------------------
(* Instances of Storage for TLC. *)
EXTENDS Storage, TLC

Symmetric == Permutations(FILES)

NoFaults == {NoFault}
Failures == {NoFault} \cup [kind : {"rio"}, left : 0 .. 2]
                      \cup [kind : {"nomem"}, left : {0}]
                      \cup [kind : {"crash"}, left : 0 .. 1]
=============================================================================
