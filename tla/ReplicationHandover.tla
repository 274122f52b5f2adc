-------------------------- MODULE ReplicationHandover --------------------------
(***************************************************************************)
(* What a planned failover promises its user, without the means: each VM   *)
(* has one owner at a time, its data is handed over as its guest left it,  *)
(* what has been committed to the target never returns, and is eventually  *)
(* served there ("Nothing is lost", "The activation is the point of no     *)
(* return", docs/en/capabilities.md, Planned failover).                    *)
(***************************************************************************)
EXTENDS Integers

CONSTANTS VMs, Disks, MaxWrites

VARIABLES
  owner,     \* who runs or holds each VM
  content    \* the version of the data of each disk, where it counts

(* source: runs there.  held: stopped, still the source's.  committed: the *)
(* target's, not yet running.  target: runs on the target.                 *)
Owners == {"source", "held", "committed", "target"}

TypeOK == owner \in [VMs -> Owners] /\ content \in [Disks -> 0..MaxWrites]

Init ==
  /\ owner \in [VMs -> {"source", "held"}]
  /\ content = [d \in Disks |-> 0]

Become(v, o) == owner' = [owner EXCEPT ![v] = o]

(* A guest on the source writes to its disks. *)
Write(v) ==
  /\ owner[v] = "source"
  /\ \E disks \in SUBSET Disks :
       content' = [d \in Disks |-> IF d \in disks THEN content[d] + 1 ELSE content[d]]
  /\ UNCHANGED owner

(* Before the commitment the source may stop and start it as often as it   *)
(* likes: every failover that is undone, by its handler or by a resume.    *)
Hold(v)    == owner[v] = "source" /\ Become(v, "held") /\ UNCHANGED content
Restart(v) == owner[v] = "held" /\ Become(v, "source") /\ UNCHANGED content

(* The commitment takes the data as it is: nothing is lost. *)
Commit(v) == owner[v] = "held" /\ Become(v, "committed") /\ UNCHANGED content

Serve(v) == owner[v] = "committed" /\ Become(v, "target") /\ UNCHANGED content

Next == \E v \in VMs : Write(v) \/ Hold(v) \/ Restart(v) \/ Commit(v) \/ Serve(v)

Spec == Init /\ [][Next]_<<owner, content>>

(* What is committed is served. *)
FairSpec == Spec /\ \A v \in VMs : WF_<<owner, content>>(Serve(v))
=============================================================================
