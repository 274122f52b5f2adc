-------------------------------- MODULE MCLock --------------------------------
(* Instances of ReplicationLock: two PIDs of one host and one of another,   *)
(* the clock of the second host one tick ahead.                             *)
EXTENDS ReplicationLock

CONSTANTS p1, p2, q1, near, far

TwoHosts == [p \in {p1, p2, q1} |-> IF p = q1 THEN far ELSE near]
FarAhead == [h \in {near, far} |-> IF h = far THEN 1 ELSE 0]
=============================================================================
