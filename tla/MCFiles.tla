------------------------------- MODULE MCFiles -------------------------------
(* Instances of Files for TLC. *)
EXTENDS Files

Symmetric == Permutations(PROCS)

Rel == [form |-> "rel", dev |-> "", rest |-> "f"]
OnDisk0 == [form |-> "dev", dev |-> "lhd0", rest |-> "f"]
Null == [form |-> "dev", dev |-> "null", rest |-> ""]

Opens1 == {<<Null, {}>>, <<Rel, {"RDWR", "CREAT"}>>, <<Rel, {}>>,
           <<Rel, {"WRONLY", "CREAT", "EXCL"}>>,
           <<OnDisk0, {"WRONLY", "CREAT", "TRUNC"}>>}

NoFaults == {NoFault}
Failures == {NoFault} \cup [kind : {"rio"}, left : {0}]
                      \cup [kind : {"nomem"}, left : {0, 2, 3}]
=============================================================================
