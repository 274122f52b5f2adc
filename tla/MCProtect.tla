------------------------------- MODULE MCProtect -------------------------------
(* A VM covered by the group default without a label, and one labelled with it. *)
EXTENDS ReplicationProtect, TLC

CONSTANTS va, vb
================================================================================
