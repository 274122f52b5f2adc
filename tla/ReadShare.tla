----------------------------- MODULE ReadShare -----------------------------
(* web/read_share.py: a reading of a cluster is made once at a time, shared  *)
(* with those who ask for it meanwhile, and kept for a while.  The flight of *)
(* a reading is named by the thread that leads it: it leads one at a time.   *)
(* How long a value is kept is given by each call (ttl): a call may use what *)
(* is kept, or find it too old.                                              *)
EXTENDS Integers, FiniteSets

CONSTANTS
  Threads, Keys, Clusters, Scope,  \* Scope[k]: the cluster a key begins with
  NoThread,
  MaxEntries,                      \* max_entries, 2048 in the code
  MaxWrites, MaxInvalidations      \* bounds of the model

ASSUME ScopeAssumption == Scope \in [Keys -> Clusters]
ASSUME KeysAssumption == Keys # {}
ASSUME NoThreadAssumption == NoThread \notin Threads

None == -1
Failed == -2

VARIABLES
  version,  \* of each cluster, outside the console: how often it was written
  settled,  \* its version at its last invalidation
  done,     \* _done: the value kept for each key
  flight,   \* _flight: who leads the reading others may join
  epoch,    \* _epoch
  gen,      \* _gen
  pc, key,  \* of each thread: what it does, for which key
  joined,   \* whose flight it waits for
  got,      \* what its own reading saw, None before
  mark,     \* the (epoch, gen) it noted when it began to read
  floor,    \* the version that was settled when it asked, 0 when it does not wait
  res       \* what its last call returned

cluster == <<version, settled>>
tables == <<done, flight, epoch, gen>>
calls == <<pc, key, joined, got, mark, floor, res>>
vars == <<version, settled, done, flight, epoch, gen, pc, key, joined, got,
          mark, floor, res>>

Now(c) == <<epoch, gen[c]>>

Init ==
  /\ version = [c \in Clusters |-> 0]
  /\ settled = [c \in Clusters |-> 0]
  /\ done = [k \in Keys |-> None]
  /\ flight = [k \in Keys |-> NoThread]
  /\ epoch = 0
  /\ gen = [c \in Clusters |-> 0]
  /\ pc = [t \in Threads |-> "idle"]
  /\ key = [t \in Threads |-> CHOOSE k \in Keys : TRUE]
  /\ joined = [t \in Threads |-> NoThread]
  /\ got = [t \in Threads |-> None]
  /\ mark = [t \in Threads |-> <<0, 0>>]
  /\ floor = [t \in Threads |-> 0]
  /\ res = [t \in Threads |-> None]

-----------------------------------------------------------------------------
(* get: the first block under the lock finds the value, a flight to join, or *)
(* neither.                                                                   *)
Hit(t, k) ==
  /\ pc[t] = "idle"
  /\ done[k] # None
  /\ key' = [key EXCEPT ![t] = k]
  /\ res' = [res EXCEPT ![t] = done[k]]
  /\ UNCHANGED <<cluster, tables, pc, joined, got, mark, floor>>

Called(t, k) ==
  /\ pc[t] = "idle"
  /\ key' = [key EXCEPT ![t] = k]
  /\ floor' = [floor EXCEPT ![t] = settled[Scope[k]]]
  /\ res' = [res EXCEPT ![t] = None]

Join(t, k) ==
  /\ Called(t, k)
  /\ flight[k] # NoThread
  /\ pc' = [pc EXCEPT ![t] = "waiting"]
  /\ joined' = [joined EXCEPT ![t] = flight[k]]
  /\ UNCHANGED <<cluster, tables, got, mark>>

Lead(t, k) ==
  /\ Called(t, k)
  /\ flight[k] = NoThread
  /\ flight' = [flight EXCEPT ![k] = t]
  /\ mark' = [mark EXCEPT ![t] = Now(Scope[k])]
  /\ pc' = [pc EXCEPT ![t] = "loading"]
  /\ UNCHANGED <<cluster, done, epoch, gen, joined, got>>

(* The loader sees the cluster at some moment of its own. *)
Load(t) ==
  /\ pc[t] = "loading"
  /\ got[t] = None
  /\ got' = [got EXCEPT ![t] = version[Scope[key[t]]]]
  /\ UNCHANGED <<cluster, tables, pc, key, joined, mark, floor, res>>

(* Mistake: whoever's flight is in the table is dropped. *)
DropAny(t) == flight' = [flight EXCEPT ![key[t]] = NoThread]

(* _drop_flight: only one's own. *)
DropFlight(t) ==
  flight' = [flight EXCEPT ![key[t]] = IF @ = t THEN NoThread ELSE @]

(* Mistake: only the flight still in the table is answered. *)
AboardListed(t) ==
  {t} \cup {u \in Threads : pc[u] = "waiting" /\ joined[u] = t /\ flight[key[t]] = t}

(* The leader and all who joined its flight, even one dropped since. *)
Aboard(t) == {t} \cup {u \in Threads : pc[u] = "waiting" /\ joined[u] = t}

Land(t, v) ==
  /\ pc' = [u \in Threads |-> IF u \in Aboard(t) THEN "idle" ELSE pc[u]]
  /\ res' = [u \in Threads |-> IF u \in Aboard(t) THEN v ELSE res[u]]
  /\ floor' = [u \in Threads |-> IF u \in Aboard(t) THEN 0 ELSE floor[u]]
  /\ joined' = [u \in Threads |-> IF u \in Aboard(t) THEN NoThread ELSE joined[u]]
  /\ got' = [got EXCEPT ![t] = None]
  /\ mark' = [mark EXCEPT ![t] = <<0, 0>>]

(* _prune removes the older half of what is kept; ages are not modelled. *)
Pruned(old) ==
  LET kept == {k \in Keys : done[k] # None}
  IN  /\ old \subseteq kept
      /\ Cardinality(old) = IF Cardinality(kept) >= MaxEntries
                            THEN MaxEntries \div 2 ELSE 0

(* A reading during which the cluster was written serves those who already  *)
(* wait, and is not kept.                                                    *)
Finish(t) ==
  /\ pc[t] = "loading"
  /\ got[t] # None
  /\ Land(t, got[t])
  /\ DropFlight(t)
  /\ \/ UNCHANGED done
     \/ /\ mark[t] = Now(Scope[key[t]])
        /\ \E old \in SUBSET Keys :
              /\ Pruned(old)
              /\ done' = [k \in Keys |-> IF k = key[t] THEN got[t]
                                         ELSE IF k \in old THEN None ELSE done[k]]
  /\ UNCHANGED <<cluster, epoch, gen, key>>

(* Mistake: an error is told to the leader alone. *)
FailAlone(t) ==
  /\ pc[t] = "loading"
  /\ pc' = [pc EXCEPT ![t] = "idle"]
  /\ res' = [res EXCEPT ![t] = Failed]
  /\ DropFlight(t)
  /\ UNCHANGED <<cluster, done, epoch, gen, key, joined, got, mark, floor>>

(* The loader raises: those who wait get the error, the next call retries. *)
Fail(t) ==
  /\ pc[t] = "loading"
  /\ Land(t, Failed)
  /\ DropFlight(t)
  /\ UNCHANGED <<cluster, done, epoch, gen, key>>

-----------------------------------------------------------------------------
Write(c) ==
  /\ version[c] < MaxWrites
  /\ version' = [version EXCEPT ![c] = @ + 1]
  /\ UNCHANGED <<settled, tables, calls>>

(* Mistake: the values are forgotten, not the readings under way. *)
KeepsFlights(c) ==
  /\ gen[c] < MaxInvalidations
  /\ settled' = [settled EXCEPT ![c] = version[c]]
  /\ done' = [k \in Keys |-> IF Scope[k] = c THEN None ELSE done[k]]
  /\ gen' = [gen EXCEPT ![c] = @ + 1]
  /\ UNCHANGED <<version, flight, epoch, calls>>

(* invalidate(cluster), after every request that may have written to it. *)
Invalidate(c) ==
  /\ gen[c] < MaxInvalidations
  /\ settled' = [settled EXCEPT ![c] = version[c]]
  /\ done' = [k \in Keys |-> IF Scope[k] = c THEN None ELSE done[k]]
  /\ flight' = [k \in Keys |-> IF Scope[k] = c THEN NoThread ELSE flight[k]]
  /\ gen' = [gen EXCEPT ![c] = @ + 1]
  /\ UNCHANGED <<version, epoch, calls>>

(* invalidate(), after a write whose route names no cluster. *)
InvalidateAll ==
  /\ epoch < MaxInvalidations
  /\ settled' = version
  /\ done' = [k \in Keys |-> None]
  /\ flight' = [k \in Keys |-> NoThread]
  /\ epoch' = epoch + 1
  /\ UNCHANGED <<version, gen, calls>>

Next ==
  \/ \E t \in Threads, k \in Keys : Hit(t, k) \/ Join(t, k) \/ Lead(t, k)
  \/ \E t \in Threads : Load(t) \/ Finish(t) \/ Fail(t)
  \/ \E c \in Clusters : Write(c) \/ Invalidate(c)
  \/ InvalidateAll

Spec == Init /\ [][Next]_vars

(* Every reading ends: kubectl runs under a timeout, and a loader that is    *)
(* interrupted raises.                                                       *)
FairSpec == Spec /\ \A t \in Threads : WF_vars(Load(t)) /\ WF_vars(Finish(t) \/ Fail(t))

-----------------------------------------------------------------------------
TypeOK ==
  /\ version \in [Clusters -> Nat]
  /\ settled \in [Clusters -> Nat]
  /\ done \in [Keys -> Nat \cup {None}]
  /\ flight \in [Keys -> Threads \cup {NoThread}]
  /\ epoch \in Nat
  /\ gen \in [Clusters -> Nat]
  /\ pc \in [Threads -> {"idle", "waiting", "loading"}]
  /\ key \in [Threads -> Keys]
  /\ joined \in [Threads -> Threads \cup {NoThread}]
  /\ got \in [Threads -> Nat \cup {None}]
  /\ mark \in [Threads -> Nat \X Nat]
  /\ floor \in [Threads -> Nat]
  /\ res \in [Threads -> Nat \cup {None, Failed}]

(* A key is read twice at the same time only when an invalidation separates  *)
(* the two readings (web/read_share.py:8-10).                                *)
ReadOnce ==
  \A t, u \in Threads :
     /\ pc[t] = "loading" /\ pc[u] = "loading" /\ t # u
     /\ key[t] = key[u]
     => mark[t] # mark[u]

(* Nobody waits for a reading that ended: the flight that was joined is in   *)
(* the air, for the same key, even once the table has forgotten it.          *)
FlightsLand ==
  \A t \in Threads : pc[t] = "waiting" =>
     /\ joined[t] \in Threads
     /\ pc[joined[t]] = "loading"
     /\ key[joined[t]] = key[t]

(* What keeps a value fresh: what the tables offer is never older than the   *)
(* last invalidation, whatever is still being read.                          *)
KeptIsFresh ==
  /\ \A k \in Keys : done[k] # None => done[k] >= settled[Scope[k]]
  /\ \A k \in Keys :
        flight[k] # NoThread /\ got[flight[k]] # None
           => got[flight[k]] >= settled[Scope[k]]

(* Every call that waits, leading or not, returns. *)
CallsReturn == \A t \in Threads : pc[t] # "idle" ~> pc[t] = "idle"

(* The promise: a call never returns a state older than the last one settled *)
(* before it (web/read_share.py:12-13).                                      *)
Promise == INSTANCE SharedReads WITH
             asks <- key, asking <- {t \in Threads : pc[t] # "idle"}
KeepsPromise == Promise!Spec
=============================================================================
