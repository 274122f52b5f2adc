------------------------------ MODULE MCFollow ------------------------------
(* Two followers of a VM of two disks, the second started with take_over.  *)
(* One pass of both disks and a second pass of the first disk alone.       *)
EXTENDS ReplicationFollow
CONSTANTS f1, f2, d1, d2
MCCells == {<<d1, 1>>, <<d2, 1>>, <<d1, 2>>}
=============================================================================
