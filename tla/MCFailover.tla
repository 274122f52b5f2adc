------------------------------ MODULE MCFailover ------------------------------
(* Instances of ReplicationFailover: two VMs of one disk, or one VM of two. *)
EXTENDS ReplicationFailover

CONSTANTS va, vb, da, db

TwoVMs      == [v \in {va, vb} |-> IF v = va THEN {da} ELSE {db}]
OneVMOneDisk  == [v \in {va} |-> {da}]
OneVMTwoDisks == [v \in {va} |-> {da, db}]
=============================================================================
