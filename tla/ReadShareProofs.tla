-------------------------- MODULE ReadShareProofs --------------------------
(* ReadShare for any number of threads, keys and clusters: its invariants,   *)
(* and that it keeps the promise of SharedReads.                             *)
EXTENDS ReadShare, TLAPS

(* The tables never promise more than the clusters hold. *)
Bounded ==
  /\ \A c \in Clusters : settled[c] <= version[c]
  /\ \A k \in Keys : done[k] # None =>
        settled[Scope[k]] <= done[k] /\ done[k] <= version[Scope[k]]

(* The flight of a key is the one reading of it that no invalidation passed. *)
Current(t) == pc[t] = "loading" /\ mark[t] = Now(Scope[key[t]])
Listed ==
  /\ \A k \in Keys : flight[k] # NoThread => Current(flight[k]) /\ key[flight[k]] = k
  /\ \A t \in Threads : Current(t) => flight[key[t]] = t

(* Marks are of the past. *)
Past ==
  \A t \in Threads : pc[t] = "loading" =>
     mark[t][1] <= epoch /\ mark[t][2] <= gen[Scope[key[t]]]

(* What a reading saw suits its leader, and the table while it is listed. *)
Saw ==
  \A t \in Threads :
     /\ pc[t] # "loading" => got[t] = None
     /\ got[t] # None => floor[t] <= got[t] /\ got[t] <= version[Scope[key[t]]]
     /\ got[t] # None /\ Current(t) => settled[Scope[key[t]]] <= got[t]

(* And those who joined it. *)
Suits ==
  \A t \in Threads :
     /\ pc[t] # "idle" => floor[t] <= settled[Scope[key[t]]]
     /\ pc[t] = "waiting" /\ got[joined[t]] # None => floor[t] <= got[joined[t]]

IInv == TypeOK /\ Bounded /\ Listed /\ Past /\ Saw /\ FlightsLand /\ Suits /\ ReadOnce

USE DEF None, Failed

LEMMA InitIInv == Init => IInv
  <1> SUFFICES ASSUME Init PROVE IInv OBVIOUS
  <1> USE ScopeAssumption, NoThreadAssumption, KeysAssumption DEF Init
  <1>0. (CHOOSE k \in Keys : TRUE) \in Keys BY Zenon
  <1>1. TypeOK BY <1>0 DEF TypeOK
  <1>2. Bounded BY DEF Bounded
  <1>3. Listed BY DEF Listed, Current
  <1>4. Past /\ Saw /\ FlightsLand /\ Suits /\ ReadOnce
    BY DEF Past, Saw, FlightsLand, Suits, ReadOnce, Current
  <1> QED BY <1>1, <1>2, <1>3, <1>4 DEF IInv


LEMMA HitKeeps ==
  ASSUME IInv, NEW t \in Threads, NEW k \in Keys, Hit(t, k)
  PROVE  IInv'
  <1> USE ScopeAssumption, NoThreadAssumption DEF IInv, Hit, cluster, tables
  <1>1. TypeOK' BY DEF TypeOK, Now
  <1>2. Bounded' BY DEF TypeOK, Bounded, Saw, Current, Now
  <1>3. Listed' BY DEF TypeOK, Listed, Current, Now
  <1>4. Past' BY DEF TypeOK, Past, Now
  <1>5. Saw' BY DEF TypeOK, Bounded, Saw, Suits, Current, Now
  <1>6. FlightsLand' BY DEF TypeOK, FlightsLand, Listed, Current
  <1>7. Suits' BY DEF TypeOK, Bounded, Suits, Saw, FlightsLand, Listed, Current
  <1>8. ReadOnce' BY DEF TypeOK, ReadOnce, Listed, Current, Now
  <1> QED BY <1>1, <1>2, <1>3, <1>4, <1>5, <1>6, <1>7, <1>8 DEF IInv

LEMMA JoinKeeps ==
  ASSUME IInv, NEW t \in Threads, NEW k \in Keys, Join(t, k)
  PROVE  IInv'
  <1> USE ScopeAssumption, NoThreadAssumption DEF IInv, Join, Called, cluster, tables
  <1>1. TypeOK' BY DEF TypeOK, Now
  <1>2. Bounded' BY DEF TypeOK, Bounded, Saw, Current, Now
  <1>3. Listed' BY DEF TypeOK, Listed, Current, Now
  <1>4. Past' BY DEF TypeOK, Past, Now
  <1>5. Saw' BY DEF TypeOK, Bounded, Saw, Suits, Current, Now
  <1>6. FlightsLand' BY DEF TypeOK, FlightsLand, Listed, Current
  <1>7. Suits' BY DEF TypeOK, Bounded, Suits, Saw, FlightsLand, Listed, Current
  <1>8. ReadOnce' BY DEF TypeOK, ReadOnce, Listed, Current, Now
  <1> QED BY <1>1, <1>2, <1>3, <1>4, <1>5, <1>6, <1>7, <1>8 DEF IInv

LEMMA LeadKeeps ==
  ASSUME IInv, NEW t \in Threads, NEW k \in Keys, Lead(t, k)
  PROVE  IInv'
  <1> USE ScopeAssumption, NoThreadAssumption
  <1>a. /\ pc[t] = "idle" /\ flight[k] = NoThread
        /\ pc'[t] = "loading" /\ key'[t] = k /\ mark'[t] = <<epoch, gen[Scope[k]]>>
        /\ flight'[k] = t /\ got'[t] = None /\ floor'[t] = settled[Scope[k]]
    BY DEF IInv, Lead, Called, TypeOK, Saw, Now
  <1>b. \A u \in Threads : u # t =>
           /\ pc'[u] = pc[u] /\ key'[u] = key[u] /\ mark'[u] = mark[u] /\ got'[u] = got[u]
           /\ joined'[u] = joined[u] /\ floor'[u] = floor[u]
    BY DEF IInv, Lead, Called, TypeOK
  <1>c. /\ \A j \in Keys : j # k => flight'[j] = flight[j]
        /\ UNCHANGED <<version, settled, done, epoch, gen, joined, got>>
    BY DEF IInv, Lead, cluster, TypeOK
  <1>1. TypeOK' BY DEF IInv, Lead, Called, cluster, TypeOK, Now
  <1>2. Bounded' BY <1>c DEF IInv, Bounded
  <1>3. Listed'
    <2>1. ASSUME NEW j \in Keys, flight'[j] # NoThread
          PROVE  Current(flight[j])' /\ key'[flight'[j]] = j
      <3>1. CASE j = k BY <3>1, <1>a, <1>c DEF Current, Now
      <3>2. CASE j # k
        <4>1. /\ flight'[j] = flight[j] /\ flight[j] \in Threads
              /\ pc[flight[j]] = "loading" /\ key[flight[j]] = j
              /\ mark[flight[j]] = <<epoch, gen[Scope[j]]>>
          BY <2>1, <3>2, <1>c DEF IInv, TypeOK, Listed, Current, Now
        <4>2. flight[j] # t BY <4>1, <1>a
        <4> QED BY <4>1, <4>2, <1>b, <1>c DEF Current, Now
      <3> QED BY <3>1, <3>2
    <2>2. ASSUME NEW u \in Threads, Current(u)' PROVE (flight[key[u]] = u)'
      <3>1. CASE u = t BY <3>1, <1>a
      <3>2. CASE u # t
        <4>1. Current(u) /\ key'[u] = key[u] BY <2>2, <3>2, <1>b, <1>c DEF Current, Now
        <4>2. flight[key[u]] = u /\ key[u] \in Keys BY <4>1 DEF IInv, Listed, TypeOK
        <4> QED BY <4>1, <4>2, <1>a, <1>c
      <3> QED BY <3>1, <3>2
    <2> QED BY <2>1, <2>2 DEF Listed
  <1>4. Past'
    <2> SUFFICES ASSUME NEW u \in Threads, (pc[u] = "loading")'
                 PROVE  (mark[u][1] <= epoch /\ mark[u][2] <= gen[Scope[key[u]]])'
      BY DEF Past
    <2>1. CASE u = t
      <3>1. epoch \in Nat /\ gen[Scope[k]] \in Nat BY DEF IInv, TypeOK
      <3> QED BY <2>1, <3>1, <1>a, <1>c
    <2>2. CASE u # t BY <2>2, <1>b, <1>c DEF IInv, Past
    <2> QED BY <2>1, <2>2
  <1>5. Saw'
    <2> SUFFICES ASSUME NEW u \in Threads
                 PROVE  (/\ pc[u] # "loading" => got[u] = None
                         /\ got[u] # None => floor[u] <= got[u] /\ got[u] <= version[Scope[key[u]]]
                         /\ got[u] # None /\ Current(u) => settled[Scope[key[u]]] <= got[u])'
      BY DEF Saw
    <2>1. CASE u = t BY <2>1, <1>a
    <2>2. CASE u # t BY <2>2, <1>b, <1>c DEF IInv, Saw, Current, Now
    <2> QED BY <2>1, <2>2
  <1>6. FlightsLand' BY <1>a, <1>b, <1>c DEF IInv, TypeOK, FlightsLand
  <1>7. Suits'
    <2> SUFFICES ASSUME NEW u \in Threads
                 PROVE  (/\ pc[u] # "idle" => floor[u] <= settled[Scope[key[u]]]
                         /\ pc[u] = "waiting" /\ got[joined[u]] # None => floor[u] <= got[joined[u]])'
      BY DEF Suits
    <2>1. CASE u = t
      <3>1. settled[Scope[k]] \in Nat BY DEF IInv, TypeOK
      <3> QED BY <2>1, <3>1, <1>a, <1>c
    <2>2. CASE u # t BY <2>2, <1>b, <1>c DEF IInv, Suits
    <2> QED BY <2>1, <2>2
  <1>8. ReadOnce'
    <2>1. \A u \in Threads : u # t /\ pc[u] = "loading" /\ key[u] = k => mark[u] # mark'[t]
      BY <1>a DEF IInv, Listed, Current, Now
    <2> QED BY <2>1, <1>a, <1>b DEF IInv, ReadOnce
  <1> QED BY <1>1, <1>2, <1>3, <1>4, <1>5, <1>6, <1>7, <1>8 DEF IInv

LEMMA LoadKeeps ==
  ASSUME IInv, NEW t \in Threads, Load(t)
  PROVE  IInv'
  <1> USE ScopeAssumption, NoThreadAssumption DEF IInv, Load, cluster, tables
  <1>1. TypeOK' BY DEF TypeOK, Now
  <1>2. Bounded' BY DEF TypeOK, Bounded, Saw, Current, Now
  <1>3. Listed' BY DEF TypeOK, Listed, Current, Now
  <1>4. Past' BY DEF TypeOK, Past, Now
  <1>5. Saw' BY DEF TypeOK, Bounded, Saw, Suits, Current, Now
  <1>6. FlightsLand' BY DEF TypeOK, FlightsLand, Listed, Current
  <1>7. Suits' BY DEF TypeOK, Bounded, Suits, Saw, FlightsLand, Listed, Current
  <1>8. ReadOnce' BY DEF TypeOK, ReadOnce, Listed, Current, Now
  <1> QED BY <1>1, <1>2, <1>3, <1>4, <1>5, <1>6, <1>7, <1>8 DEF IInv

LEMMA FinishKeeps ==
  ASSUME IInv, NEW t \in Threads, Finish(t)
  PROVE  IInv'
  <1> USE ScopeAssumption, NoThreadAssumption DEF IInv, Finish, Land, Aboard, DropFlight, cluster
  <1>1. TypeOK' BY DEF TypeOK, Now
  <1>2. Bounded' BY DEF TypeOK, Bounded, Saw, Current, Now
  <1>3. Listed'
    <2>a. \A u \in Threads : (pc[u] = "loading")' <=> pc[u] = "loading" /\ u # t
      BY DEF TypeOK
    <2>b. \A u \in Threads : u # t => mark'[u] = mark[u]
      BY DEF TypeOK
    <2>c. \A j \in Keys : flight'[j] = IF j = key[t] /\ flight[j] = t THEN NoThread ELSE flight[j]
      BY DEF TypeOK
    <2>1. ASSUME NEW j \in Keys, flight'[j] # NoThread
          PROVE  Current(flight[j])' /\ key'[flight'[j]] = j
      <3>1. flight'[j] = flight[j] /\ flight[j] \in Threads BY <2>1, <2>c DEF TypeOK
      <3>2. Current(flight[j]) /\ key[flight[j]] = j BY <3>1, <2>1 DEF Listed
      <3>3. flight[j] # t BY <3>1, <3>2, <2>c, <2>1
      <3>4. pc'[flight[j]] = "loading" /\ mark'[flight[j]] = mark[flight[j]]
        BY <2>a, <2>b, <3>1, <3>2, <3>3 DEF Current
      <3> QED BY <3>1, <3>2, <3>4 DEF Current, Now
    <2>2. ASSUME NEW u \in Threads, Current(u)' PROVE (flight[key[u]] = u)'
      <3>1. u # t /\ Current(u) BY <2>2, <2>a, <2>b DEF Current, Now
      <3>2. flight[key[u]] = u /\ key[u] \in Keys BY <3>1 DEF Listed, TypeOK
      <3> QED BY <3>1, <3>2, <2>c
    <2> QED BY <2>1, <2>2 DEF Listed
  <1>4. Past' BY DEF TypeOK, Past, Now
  <1>5. Saw' BY DEF TypeOK, Bounded, Saw, Suits, Current, Now
  <1>6. FlightsLand' BY DEF TypeOK, FlightsLand, Listed, Current
  <1>7. Suits' BY DEF TypeOK, Bounded, Suits, Saw, FlightsLand, Listed, Current
  <1>8. ReadOnce' BY DEF TypeOK, ReadOnce, Listed, Current, Now
  <1> QED BY <1>1, <1>2, <1>3, <1>4, <1>5, <1>6, <1>7, <1>8 DEF IInv

LEMMA FailKeeps ==
  ASSUME IInv, NEW t \in Threads, Fail(t)
  PROVE  IInv'
  <1> USE ScopeAssumption, NoThreadAssumption DEF IInv, Fail, Land, Aboard, DropFlight, cluster
  <1>1. TypeOK' BY DEF TypeOK, Now
  <1>2. Bounded' BY DEF TypeOK, Bounded, Saw, Current, Now
  <1>3. Listed'
    <2>a. \A u \in Threads : (pc[u] = "loading")' <=> pc[u] = "loading" /\ u # t
      BY DEF TypeOK
    <2>b. \A u \in Threads : u # t => mark'[u] = mark[u]
      BY DEF TypeOK
    <2>c. \A j \in Keys : flight'[j] = IF j = key[t] /\ flight[j] = t THEN NoThread ELSE flight[j]
      BY DEF TypeOK
    <2>1. ASSUME NEW j \in Keys, flight'[j] # NoThread
          PROVE  Current(flight[j])' /\ key'[flight'[j]] = j
      <3>1. flight'[j] = flight[j] /\ flight[j] \in Threads BY <2>1, <2>c DEF TypeOK
      <3>2. Current(flight[j]) /\ key[flight[j]] = j BY <3>1, <2>1 DEF Listed
      <3>3. flight[j] # t BY <3>1, <3>2, <2>c, <2>1
      <3>4. pc'[flight[j]] = "loading" /\ mark'[flight[j]] = mark[flight[j]]
        BY <2>a, <2>b, <3>1, <3>2, <3>3 DEF Current
      <3> QED BY <3>1, <3>2, <3>4 DEF Current, Now
    <2>2. ASSUME NEW u \in Threads, Current(u)' PROVE (flight[key[u]] = u)'
      <3>1. u # t /\ Current(u) BY <2>2, <2>a, <2>b DEF Current, Now
      <3>2. flight[key[u]] = u /\ key[u] \in Keys BY <3>1 DEF Listed, TypeOK
      <3> QED BY <3>1, <3>2, <2>c
    <2> QED BY <2>1, <2>2 DEF Listed
  <1>4. Past' BY DEF TypeOK, Past, Now
  <1>5. Saw' BY DEF TypeOK, Bounded, Saw, Suits, Current, Now
  <1>6. FlightsLand' BY DEF TypeOK, FlightsLand, Listed, Current
  <1>7. Suits' BY DEF TypeOK, Bounded, Suits, Saw, FlightsLand, Listed, Current
  <1>8. ReadOnce' BY DEF TypeOK, ReadOnce, Listed, Current, Now
  <1> QED BY <1>1, <1>2, <1>3, <1>4, <1>5, <1>6, <1>7, <1>8 DEF IInv

LEMMA WriteKeeps ==
  ASSUME IInv, NEW c \in Clusters, Write(c)
  PROVE  IInv'
  <1> USE ScopeAssumption, NoThreadAssumption DEF IInv, Write, tables, calls
  <1>1. TypeOK' BY DEF TypeOK, Now
  <1>2. Bounded' BY DEF TypeOK, Bounded, Saw, Current, Now
  <1>3. Listed' BY DEF TypeOK, Listed, Current, Now
  <1>4. Past' BY DEF TypeOK, Past, Now
  <1>5. Saw' BY DEF TypeOK, Bounded, Saw, Suits, Current, Now
  <1>6. FlightsLand' BY DEF TypeOK, FlightsLand, Listed, Current
  <1>7. Suits' BY DEF TypeOK, Bounded, Suits, Saw, FlightsLand, Listed, Current
  <1>8. ReadOnce' BY DEF TypeOK, ReadOnce, Listed, Current, Now
  <1> QED BY <1>1, <1>2, <1>3, <1>4, <1>5, <1>6, <1>7, <1>8 DEF IInv

LEMMA InvalidateKeeps ==
  ASSUME IInv, NEW c \in Clusters, Invalidate(c)
  PROVE  IInv'
  <1> USE ScopeAssumption, NoThreadAssumption DEF IInv, Invalidate, calls
  <1>a. \A u \in Threads : Current(u)' <=> Current(u) /\ Scope[key[u]] # c
    <2> SUFFICES ASSUME NEW u \in Threads PROVE Current(u)' <=> Current(u) /\ Scope[key[u]] # c
      OBVIOUS
    <2>1. /\ gen'[c] = gen[c] + 1 /\ gen[c] \in Nat /\ Scope[key[u]] \in Clusters
          /\ \A d \in Clusters : d # c => gen'[d] = gen[d]
      BY DEF TypeOK
    <2>2. ASSUME Scope[key[u]] = c, Current(u)' PROVE FALSE
      <3>1. pc[u] = "loading" /\ mark[u] = <<epoch, gen[c] + 1>> BY <2>1, <2>2 DEF Current, Now
      <3>2. mark[u][2] <= gen[c] BY <3>1, <2>2 DEF Past
      <3> QED BY <3>1, <3>2, <2>1
    <2>3. CASE Scope[key[u]] # c BY <2>1, <2>3 DEF Current, Now
    <2> QED BY <2>2, <2>3
  <1>1. TypeOK' BY DEF TypeOK, Now
  <1>2. Bounded' BY DEF TypeOK, Bounded, Saw, Current, Now
  <1>3. Listed'
    <2>1. ASSUME NEW j \in Keys, flight'[j] # NoThread
          PROVE  Current(flight[j])' /\ key'[flight'[j]] = j
      <3>1. flight'[j] = flight[j] /\ flight[j] \in Threads /\ Scope[j] # c BY <2>1 DEF TypeOK
      <3>2. Current(flight[j]) /\ key[flight[j]] = j BY <3>1, <2>1 DEF Listed
      <3> QED BY <3>1, <3>2, <1>a
    <2>2. ASSUME NEW u \in Threads, Current(u)' PROVE (flight[key[u]] = u)'
      <3>1. Current(u) /\ key[u] \in Keys /\ Scope[key[u]] # c BY <2>2, <1>a DEF TypeOK
      <3>2. flight[key[u]] = u BY <3>1 DEF Listed
      <3> QED BY <3>1, <3>2
    <2> QED BY <2>1, <2>2 DEF Listed
  <1>4. Past' BY DEF TypeOK, Past, Now
  <1>5. Saw' BY <1>a DEF TypeOK, Saw
  <1>6. FlightsLand' BY DEF TypeOK, FlightsLand, Listed, Current
  <1>7. Suits' BY DEF TypeOK, Bounded, Suits, Saw, FlightsLand, Listed, Current
  <1>8. ReadOnce' BY DEF TypeOK, ReadOnce, Listed, Current, Now
  <1> QED BY <1>1, <1>2, <1>3, <1>4, <1>5, <1>6, <1>7, <1>8 DEF IInv

LEMMA InvalidateAllKeeps ==
  ASSUME IInv, InvalidateAll
  PROVE  IInv'
  <1> USE ScopeAssumption, NoThreadAssumption DEF IInv, InvalidateAll, calls
  <1>a. \A u \in Threads : ~ Current(u)'
    <2> SUFFICES ASSUME NEW u \in Threads, Current(u)' PROVE FALSE
      OBVIOUS
    <2>1. pc[u] = "loading" /\ mark[u] = <<epoch + 1, gen[Scope[key[u]]]>> BY DEF Current, Now
    <2>2. mark[u][1] <= epoch BY <2>1 DEF Past
    <2> QED BY <2>1, <2>2 DEF TypeOK
  <1>1. TypeOK' BY DEF TypeOK, Now
  <1>2. Bounded' BY DEF TypeOK, Bounded, Saw, Current, Now
  <1>3. Listed' BY <1>a DEF TypeOK, Listed
  <1>4. Past' BY DEF TypeOK, Past, Now
  <1>5. Saw' BY <1>a DEF TypeOK, Saw
  <1>6. FlightsLand' BY DEF TypeOK, FlightsLand, Listed, Current
  <1>7. Suits' BY DEF TypeOK, Bounded, Suits, Saw, FlightsLand, Listed, Current
  <1>8. ReadOnce' BY DEF TypeOK, ReadOnce, Listed, Current, Now
  <1> QED BY <1>1, <1>2, <1>3, <1>4, <1>5, <1>6, <1>7, <1>8 DEF IInv

LEMMA StepIInv == IInv /\ [Next]_vars => IInv'
  <1> SUFFICES ASSUME IInv, [Next]_vars PROVE IInv' OBVIOUS
  <1>1. ASSUME NEW t \in Threads, NEW k \in Keys, Hit(t, k) PROVE IInv' BY <1>1, HitKeeps
  <1>2. ASSUME NEW t \in Threads, NEW k \in Keys, Join(t, k) PROVE IInv' BY <1>2, JoinKeeps
  <1>3. ASSUME NEW t \in Threads, NEW k \in Keys, Lead(t, k) PROVE IInv' BY <1>3, LeadKeeps
  <1>4. ASSUME NEW t \in Threads, Load(t) PROVE IInv' BY <1>4, LoadKeeps
  <1>5. ASSUME NEW t \in Threads, Finish(t) PROVE IInv' BY <1>5, FinishKeeps
  <1>6. ASSUME NEW t \in Threads, Fail(t) PROVE IInv' BY <1>6, FailKeeps
  <1>7. ASSUME NEW c \in Clusters, Write(c) PROVE IInv' BY <1>7, WriteKeeps
  <1>8. ASSUME NEW c \in Clusters, Invalidate(c) PROVE IInv' BY <1>8, InvalidateKeeps
  <1>9. CASE InvalidateAll BY <1>9, InvalidateAllKeeps
  <1>10. CASE UNCHANGED vars
    BY <1>10 DEF IInv, vars, TypeOK, Bounded, Listed, Past, Saw, FlightsLand, Suits,
                 ReadOnce, Current, Now
  <1> QED BY <1>1, <1>2, <1>3, <1>4, <1>5, <1>6, <1>7, <1>8, <1>9, <1>10 DEF Next

LEMMA AlwaysIInv == Spec => []IInv
  BY InitIInv, StepIInv, PTL DEF Spec

(* The variables of web/read_share.py keep their types. *)
THEOREM ReadShareTypeCorrect == Spec => []TypeOK
  <1>1. IInv => TypeOK BY DEF IInv
  <1> QED BY <1>1, AlwaysIInv, PTL

(* A key is read twice at the same time only across an invalidation: ten     *)
(* people on one screen cost the cluster one reading (ReadShare.get).        *)
THEOREM ReadsAreShared == Spec => []ReadOnce
  <1>1. IInv => ReadOnce BY DEF IInv
  <1> QED BY <1>1, AlwaysIInv, PTL

(* Who joined a flight is never forgotten by an invalidation that clears the *)
(* table under it (ReadShare.invalidate).                                    *)
THEOREM NobodyIsForgotten == Spec => []FlightsLand
  <1>1. IInv => FlightsLand BY DEF IInv
  <1> QED BY <1>1, AlwaysIInv, PTL

(* What the tables offer is at least as recent as the last invalidation.     *)
THEOREM TablesAreFresh == Spec => []KeptIsFresh
  <1>1. IInv => KeptIsFresh
    BY DEF IInv, TypeOK, Bounded, Listed, Saw, KeptIsFresh
  <1> QED BY <1>1, AlwaysIInv, PTL

-----------------------------------------------------------------------------
(* Each step is a step of SharedReads. *)

Asking == {t \in Threads : pc[t] # "idle"}

LEMMA CallIsAsk ==
  ASSUME IInv, NEW t \in Threads, NEW k \in Keys, Called(t, k),
         pc' = [pc EXCEPT ![t] = "waiting"] \/ pc' = [pc EXCEPT ![t] = "loading"],
         UNCHANGED cluster
  PROVE  Promise!Ask(t, k)
  <1>1. t \notin Asking /\ Asking' = Asking \cup {t} BY DEF IInv, TypeOK, Called, Asking
  <1> QED BY <1>1 DEF IInv, TypeOK, Called, Promise!Ask, Promise!None, Asking, cluster

LEMMA HitIsServe ==
  ASSUME IInv, NEW t \in Threads, NEW k \in Keys, Hit(t, k)
  PROVE  Promise!Serve(t, k)
  <1>1. done[k] \in settled[Scope[k]] .. version[Scope[k]]
    BY ScopeAssumption DEF IInv, TypeOK, Bounded, Hit
  <1>2. res' = [res EXCEPT ![t] = done[k]] BY DEF Hit
  <1> QED BY <1>1, <1>2 DEF Hit, Promise!Serve, cluster, tables

LEMMA LandIsAnswer ==
  ASSUME IInv, NEW t \in Threads, pc[t] = "loading", NEW v \in Int, Land(t, v),
         NEW ts \in SUBSET Threads, ts = Aboard(t),
         v = Failed \/ (v = got[t] /\ v # None), UNCHANGED <<cluster, key>>
  PROVE  Promise!Answer(ts)
  <1> USE ScopeAssumption
  <1>1. ts \subseteq Asking /\ Asking' = Asking \ ts
    BY DEF IInv, TypeOK, Aboard, Asking, Land
  <1>2. res' \in [Threads -> Int]
    BY DEF IInv, TypeOK, Land
  <1>3. \A u \in Threads : res'[u] = IF u \in ts THEN v ELSE res[u] BY DEF Land
  <1>4. ASSUME NEW u \in ts
        PROVE  Promise!Allowed(res'[u], floor[u], version[Scope[key[u]]])
    <2>1. u \in Threads /\ res'[u] = v BY <1>3
    <2>2. CASE v = Failed BY <2>1, <2>2 DEF Promise!Allowed, Promise!Failed
    <2>3. CASE v = got[t] /\ v # None
      <3>1. v <= version[Scope[key[t]]] BY <2>3 DEF IInv, Saw
      <3>2. CASE u = t BY <2>1, <2>3, <3>1, <3>2 DEF IInv, Saw, Promise!Allowed
      <3>3. CASE u # t
        <4>1. pc[u] = "waiting" /\ joined[u] = t BY <3>3 DEF Aboard
        <4>2. key[u] = key[t] /\ floor[u] <= v
          BY <2>1, <2>3, <4>1 DEF IInv, FlightsLand, Suits
        <4> QED BY <2>1, <3>1, <4>2 DEF Promise!Allowed
      <3> QED BY <3>2, <3>3
    <2> QED BY <2>2, <2>3
  <1>5. floor' = [u \in Threads |-> IF u \in ts THEN 0 ELSE floor[u]] BY DEF Land
  <1> QED BY <1>1, <1>2, <1>3, <1>4, <1>5 DEF Promise!Answer, Asking, cluster

LEMMA StepOfPromise == IInv /\ [Next]_vars => [Promise!Next]_(Promise!vars)
  <1> SUFFICES ASSUME IInv, [Next]_vars PROVE [Promise!Next]_(Promise!vars) OBVIOUS
  <1>1. ASSUME NEW t \in Threads, NEW k \in Keys, Hit(t, k) \/ Join(t, k) \/ Lead(t, k)
        PROVE  Promise!Next
    <2>1. CASE Hit(t, k) BY <2>1, HitIsServe DEF Promise!Next
    <2>2. CASE Join(t, k) \/ Lead(t, k)
      <3>1. Promise!Ask(t, k) BY <2>2, CallIsAsk DEF Join, Lead, cluster
      <3> QED BY <3>1 DEF Promise!Next
    <2> QED BY <1>1, <2>1, <2>2
  <1>2. ASSUME NEW t \in Threads, Load(t) PROVE UNCHANGED Promise!vars
    BY <1>2 DEF Load, cluster, tables, Promise!vars
  <1>3. ASSUME NEW t \in Threads, Finish(t) \/ Fail(t) PROVE Promise!Next
    <2>1. PICK ts \in SUBSET Threads : ts = Aboard(t) BY DEF Aboard
    <2>2. CASE Finish(t)
      <3>1. got[t] \in Int BY DEF IInv, TypeOK
      <3>2. Promise!Answer(ts) BY <2>1, <2>2, <3>1, LandIsAnswer DEF Finish, cluster
      <3> QED BY <3>2 DEF Promise!Next
    <2>3. CASE Fail(t)
      <3>1. Promise!Answer(ts) BY <2>1, <2>3, LandIsAnswer DEF Fail, cluster
      <3> QED BY <3>1 DEF Promise!Next
    <2> QED BY <1>3, <2>2, <2>3
  <1>4. ASSUME NEW c \in Clusters, Write(c) PROVE Promise!Next
    <2>1. Promise!Write(c) BY <1>4 DEF Write, Promise!Write, tables, calls
    <2> QED BY <2>1 DEF Promise!Next
  <1>5. ASSUME NEW c \in Clusters, Invalidate(c) PROVE Promise!Next
    <2>1. Promise!Settle({c})
      BY <1>5 DEF Invalidate, Promise!Settle, calls, IInv, TypeOK
    <2> QED BY <2>1 DEF Promise!Next
  <1>6. CASE InvalidateAll
    <2>1. Promise!Settle(Clusters)
      BY <1>6 DEF InvalidateAll, Promise!Settle, calls, IInv, TypeOK
    <2> QED BY <2>1 DEF Promise!Next
  <1>7. CASE UNCHANGED vars BY <1>7 DEF vars, Promise!vars
  <1> QED BY <1>1, <1>2, <1>3, <1>4, <1>5, <1>6, <1>7 DEF Next

LEMMA InitOfPromise == Init => Promise!Init
  <1> SUFFICES ASSUME Init PROVE Promise!Init OBVIOUS
  <1>1. (CHOOSE k \in Keys : TRUE) \in Keys BY KeysAssumption, Zenon
  <1> QED BY <1>1 DEF Init, Promise!Init, Promise!None

(* "On ne relit jamais un état d'avant sa propre modification": whatever is  *)
(* kept, shared or read, a call returns a state at least as recent as the    *)
(* last invalidation before it (ReadShare.get, ReadShare.invalidate).        *)
THEOREM PromiseKept == Spec => KeepsPromise
  BY AlwaysIInv, InitOfPromise, StepOfPromise, PTL DEF Spec, KeepsPromise, Promise!Spec
=============================================================================
