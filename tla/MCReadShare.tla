---------------------------- MODULE MCReadShare ----------------------------
(* One key of each of two clusters. *)
EXTENDS ReadShare, TLC

CONSTANTS ka, kb, c1, c2

OneKeyEach == (ka :> c1) @@ (kb :> c2)
=============================================================================
