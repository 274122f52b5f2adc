---------------------------- MODULE SharedReads ----------------------------
(* What web/read_share.py promises to those who read a cluster: "Ce qui     *)
(* écrit sur un cluster vide ses entrées : on ne relit jamais un état d'avant *)
(* sa propre modification".  Whether a value was kept, shared or read is not  *)
(* seen here.                                                                 *)
EXTENDS Integers

CONSTANTS Threads, Keys, Clusters, Scope

None == -1
Failed == -2

VARIABLES
  version,  \* of each cluster: how many times it was written
  settled,  \* its version when its readings were last invalidated
  asks,     \* of each thread: the key it waits for
  asking,   \* the threads that wait for an answer
  floor,    \* the version that was settled when it asked, 0 when it does not wait
  res       \* its last answer

vars == <<version, settled, asks, asking, floor, res>>

Init ==
  /\ version = [c \in Clusters |-> 0]
  /\ settled = [c \in Clusters |-> 0]
  /\ asks \in [Threads -> Keys]
  /\ asking = {}
  /\ floor = [t \in Threads |-> 0]
  /\ res = [t \in Threads |-> None]

Write(c) ==
  /\ version' = [version EXCEPT ![c] = @ + 1]
  /\ UNCHANGED <<settled, asks, asking, floor, res>>

(* The writing request has been answered: who asks from now on sees all that *)
(* was written to these clusters.                                            *)
Settle(cs) ==
  /\ settled' = [c \in Clusters |-> IF c \in cs THEN version[c] ELSE settled[c]]
  /\ UNCHANGED <<version, asks, asking, floor, res>>

Ask(t, k) ==
  /\ t \notin asking
  /\ asking' = asking \cup {t}
  /\ asks' = [asks EXCEPT ![t] = k]
  /\ floor' = [floor EXCEPT ![t] = settled[Scope[k]]]
  /\ res' = [res EXCEPT ![t] = None]
  /\ UNCHANGED <<version, settled>>

Allowed(v, low, high) == v = Failed \/ (low <= v /\ v <= high)

(* Some of those who wait are answered, together, each with a state no older *)
(* than the last one settled when it asked.                                  *)
Answer(ts) ==
  /\ ts \subseteq asking
  /\ res' \in [Threads -> Int]
  /\ \A t \in ts : Allowed(res'[t], floor[t], version[Scope[asks[t]]])
  /\ \A t \in Threads \ ts : res'[t] = res[t]
  /\ asking' = asking \ ts
  /\ floor' = [t \in Threads |-> IF t \in ts THEN 0 ELSE floor[t]]
  /\ UNCHANGED <<version, settled, asks>>

(* Asked and answered at once. *)
Serve(t, k) ==
  /\ t \notin asking
  /\ asks' = [asks EXCEPT ![t] = k]
  /\ \E v \in settled[Scope[k]] .. version[Scope[k]] : res' = [res EXCEPT ![t] = v]
  /\ UNCHANGED <<version, settled, asking, floor>>

Next ==
  \/ \E c \in Clusters : Write(c)
  \/ \E cs \in SUBSET Clusters : Settle(cs)
  \/ \E t \in Threads, k \in Keys : Ask(t, k) \/ Serve(t, k)
  \/ \E ts \in SUBSET Threads : Answer(ts)

Spec == Init /\ [][Next]_vars
=============================================================================
