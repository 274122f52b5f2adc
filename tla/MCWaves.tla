-------------------------------- MODULE MCWaves --------------------------------
(* A wave of two VMs, the implicit wave of a third, a hook at every point. *)
EXTENDS ReplicationWaves, TLC

CONSTANTS va, vb, vc, ha, hb, hc, hd

OneWave == <<{va, vb}>>
HookAt == ha :> Start @@ hb :> 1 @@ hc :> Implicit @@ hd :> End
HookRank == ha :> 1 @@ hb :> 2 @@ hc :> 3 @@ hd :> 4
================================================================================
