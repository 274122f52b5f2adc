------------------------- MODULE ReplicationLockProofs -------------------------
(***************************************************************************)
(* Proofs about the plan lock, for any processes, hosts, clocks and TTL.   *)
(*                                                                         *)
(* Mutual exclusion is not inductive: that two commands never hold the     *)
(* plan together rests on what the row says of a command that holds it     *)
(* (its slot, its birth, an age equal to the one the command remembers)    *)
(* and on how old that age can get between two renewals.                   *)
(***************************************************************************)
EXTENDS ReplicationLock, TLAPS

(* A command passes through Ctx.sleep often enough for the TTL and for the *)
(* difference between the clocks.                                          *)
PromptEnough == 3 * (MaxGap + MaxSkew) <= 2 * TTL

(* The row speaks of a command that holds the plan ... *)
RowIsMine(p) ==
  /\ lock.held /\ lock.owner = p /\ lock.start = born[p] /\ lock.age = beat[p]
  /\ alive[p]

(* ... and was renewed a third of the TTL before its last sleep, at worst. *)
Renewed(p) == awake[p] <= MaxGap /\ 3 * beat[p] < TTL + 3 * awake[p]

LockInv == TypeOK /\ \A p \in Procs : Holds(p) => RowIsMine(p) /\ Renewed(p)

-----------------------------------------------------------------------------
LEMMA OlderType == ASSUME NEW age \in Nat PROVE Older(age) \in Nat
  BY LockAssumption DEF Older, Old

LEMMA OlderBound == ASSUME NEW age \in Nat PROVE Older(age) <= age + 1
  BY LockAssumption DEF Older, Old

(* Every step keeps the types of the variables, the row of table locks and *)
(* the phase of a dead process included.                                   *)
LEMMA TypeStep == TypeOK /\ [Next]_vars => TypeOK'
<1> SUFFICES ASSUME TypeOK, [Next]_vars PROVE TypeOK'
  OBVIOUS
<1> USE DEF TypeOK
<1>1. ASSUME NEW p \in Procs, Spawn(p) PROVE TypeOK'
  BY <1>1 DEF Spawn
<1>2. ASSUME NEW p \in Procs, Die(p) PROVE TypeOK'
  BY <1>2 DEF Die, Phases
<1>3. ASSUME NEW p \in Procs, ReadPlan(p) PROVE TypeOK'
  BY <1>3 DEF ReadPlan, Phases
<1>4. ASSUME NEW p \in Procs, Acquire(p) PROVE TypeOK'
  <2>1. lock' \in Row
    BY <1>4 DEF Acquire, Row
  <2>2. alive[p]
    BY <1>4 DEF Acquire
  <2> QED BY <1>4, <2>1, <2>2 DEF Acquire, Phases
<1>5. ASSUME NEW p \in Procs, Refuse(p) PROVE TypeOK'
  BY <1>5 DEF Refuse, Phases
<1>6. ASSUME NEW p \in Procs, Recheck(p) PROVE TypeOK'
  <2>1. lock' \in {Free} \cup Row
    BY <1>6 DEF Recheck, Released
  <2>2. alive[p]
    BY <1>6 DEF Recheck
  <2> QED BY <1>6, <2>1, <2>2 DEF Recheck, Phases
<1>7. ASSUME NEW p \in Procs, Write(p) PROVE TypeOK'
  BY <1>7 DEF Write
<1>8. ASSUME NEW p \in Procs, Sleep(p) PROVE TypeOK'
  <2>1. lock \in Row => [lock EXCEPT !.age = 0] \in Row
    BY DEF Row
  <2>2. ~Free.held
    BY DEF Free
  <2>3. lock' = lock \/ (lock.held /\ lock' = [lock EXCEPT !.age = 0])
    BY <1>8 DEF Sleep
  <2>4. lock' \in {Free} \cup Row
    BY <2>1, <2>2, <2>3
  <2> QED BY <1>8, <2>4 DEF Sleep
<1>9. ASSUME NEW p \in Procs, Finish(p) PROVE TypeOK'
  <2>1. lock' \in {Free} \cup Row
    BY <1>9 DEF Finish, Released
  <2> QED BY <1>9, <2>1 DEF Finish, Phases
<1>10. CASE Tick
  <2>1. lock' \in {Free} \cup Row
    BY <1>10, OlderType DEF Tick, Row, Free
  <2>2. beat' \in [Procs -> Nat] /\ awake' \in [Procs -> Nat]
    BY <1>10, OlderType DEF Tick
  <2> QED BY <1>10, <2>1, <2>2 DEF Tick
<1>11. CASE UNCHANGED vars
  BY <1>11 DEF vars
<1> QED
  BY <1>1, <1>2, <1>3, <1>4, <1>5, <1>6, <1>7, <1>8, <1>9, <1>10, <1>11 DEF Next, Step

LEMMA TypeInit == Init => TypeOK
  BY DEF Init, TypeOK, Phases

(* The variables keep their types in every behaviour: the row of a lock is *)
(* whole or absent, and a dead process has no command (acquire_lock,       *)
(* release_lock).                                                          *)
THEOREM TypeCorrect == Spec => []TypeOK
  BY TypeInit, TypeStep, PTL DEF Spec

-----------------------------------------------------------------------------
(* Nobody may take the plan while a command that keeps sleeping holds it.  *)
LEMMA HolderIsSafe ==
  ASSUME PromptEnough, LockInv, NEW p \in Procs, NEW q \in Procs, Holds(p), CanTake(q)
  PROVE  p = q
<1>1. RowIsMine(p) /\ Renewed(p)
  BY DEF LockInv
<1> SUFFICES ASSUME Reclaimable(q) PROVE FALSE
  BY <1>1 DEF CanTake, RowIsMine
<1>2. CASE HostOf[p] = HostOf[q]
  BY <1>1, <1>2 DEF Reclaimable, RowIsMine, ProcessGone, PidReused
<1>3. CASE HostOf[p] # HostOf[q]
  <2>1. lock.age + Ahead[HostOf[q]] > TTL + Ahead[HostOf[p]]
    BY <1>1, <1>3 DEF Reclaimable, RowIsMine, TtlExpired
  <2>2. Ahead[HostOf[q]] \in 0..MaxSkew /\ Ahead[HostOf[p]] \in 0..MaxSkew /\ TTL \in Nat
        /\ MaxSkew \in Nat /\ MaxGap \in Nat
    BY LockAssumption
  <2>3. lock.age = beat[p] /\ 3 * beat[p] < TTL + 3 * awake[p] /\ awake[p] <= MaxGap
        /\ beat[p] \in Nat /\ awake[p] \in Nat
    BY <1>1 DEF RowIsMine, Renewed, LockInv, TypeOK
  <2> QED BY <2>1, <2>2, <2>3 DEF PromptEnough
<1> QED BY <1>2, <1>3

LEMMA LockInvInit == Init => LockInv
  BY TypeInit DEF Init, LockInv, Holds

LEMMA LockInvStep == ASSUME PromptEnough PROVE LockInv /\ [Next]_vars => LockInv'
<1> SUFFICES ASSUME LockInv, [Next]_vars, NEW p \in Procs, Holds(p)'
             PROVE  RowIsMine(p)' /\ Renewed(p)'
  BY TypeStep DEF LockInv
<1> USE DEF RowIsMine, Renewed
<1>t. TypeOK /\ TypeOK'
  BY TypeStep DEF LockInv
<1>h. Holds(p) => RowIsMine(p) /\ Renewed(p)
  BY DEF LockInv
<1>1. ASSUME NEW q \in Procs, Spawn(q) PROVE RowIsMine(p)' /\ Renewed(p)'
  BY <1>1, <1>t, <1>h DEF Spawn, Holds, TypeOK
<1>2. ASSUME NEW q \in Procs, Die(q) PROVE RowIsMine(p)' /\ Renewed(p)'
  BY <1>2, <1>t, <1>h DEF Die, Holds, TypeOK
<1>3. ASSUME NEW q \in Procs, ReadPlan(q) PROVE RowIsMine(p)' /\ Renewed(p)'
  BY <1>3, <1>t, <1>h DEF ReadPlan, Holds, TypeOK
<1>4. ASSUME NEW q \in Procs, Acquire(q) PROVE RowIsMine(p)' /\ Renewed(p)'
  <2>1. p # q => Holds(p) /\ CanTake(q)
    BY <1>4, <1>t DEF Acquire, Holds, TypeOK
  <2>2. p = q
    BY <2>1, HolderIsSafe
  <2> QED BY <1>4, <2>2, <1>t, LockAssumption DEF Acquire, TypeOK
<1>5. ASSUME NEW q \in Procs, Refuse(q) PROVE RowIsMine(p)' /\ Renewed(p)'
  BY <1>5, <1>t, <1>h DEF Refuse, Holds, TypeOK
<1>6. ASSUME NEW q \in Procs, Recheck(q) PROVE RowIsMine(p)' /\ Renewed(p)'
  BY <1>6, <1>t, <1>h DEF Recheck, Released, Holds, TypeOK
<1>7. ASSUME NEW q \in Procs, Write(q) PROVE RowIsMine(p)' /\ Renewed(p)'
  BY <1>7, <1>t, <1>h DEF Write, Holds, TypeOK
<1>8. ASSUME NEW q \in Procs, Sleep(q) PROVE RowIsMine(p)' /\ Renewed(p)'
  <2>1. RowIsMine(p) /\ Renewed(p) /\ phase' = phase /\ alive' = alive /\ born' = born
    BY <1>8, <1>h DEF Sleep, Holds
  <2>2. awake[p] \in Nat /\ beat[p] \in Nat /\ TTL \in Nat /\ TTL > 0 /\ MaxGap \in Nat
    BY <1>t, LockAssumption DEF TypeOK
  <2>3. lock \in Row
    BY <2>1, <1>t DEF TypeOK, Free
  <2>4. CASE p # q
    BY <1>8, <1>t, <2>1, <2>4 DEF Sleep, TypeOK
  <2>5. CASE p = q /\ 3 * beat[p] >= TTL
    <3>1. awake'[p] = 0 /\ beat'[p] = 0 /\ lock' = [lock EXCEPT !.age = 0]
      BY <1>8, <1>t, <2>1, <2>5 DEF Sleep, TypeOK
    <3>2. lock'.held /\ lock'.owner = lock.owner /\ lock'.start = lock.start /\ lock'.age = 0
      BY <3>1, <2>1, <2>3 DEF Row
    <3> QED BY <2>1, <2>2, <3>1, <3>2
  <2>6. CASE p = q /\ ~(3 * beat[p] >= TTL)
    <3>1. awake'[p] = 0 /\ beat' = beat /\ lock' = lock
      BY <1>8, <1>t, <2>6 DEF Sleep, TypeOK
    <3> QED BY <2>1, <2>2, <2>6, <3>1
  <2> QED BY <2>4, <2>5, <2>6
<1>9. ASSUME NEW q \in Procs, Finish(q) PROVE RowIsMine(p)' /\ Renewed(p)'
  BY <1>9, <1>t, <1>h DEF Finish, Released, Holds, TypeOK
<1>10. CASE Tick
  <2>1. Holds(p) /\ awake[p] < MaxGap /\ awake'[p] = awake[p] + 1
        /\ beat'[p] = Older(beat[p])
    BY <1>10 DEF Tick, Holds
  <2>2. RowIsMine(p)'
    BY <1>10, <2>1, <1>h, <1>t DEF Tick, TypeOK, Row, Free
  <2>3. Renewed(p)'
    BY <2>1, <1>h, <1>t, OlderBound, OlderType, LockAssumption DEF TypeOK
  <2> QED BY <2>2, <2>3
<1>11. CASE UNCHANGED vars
  BY <1>11, <1>h DEF vars, Holds
<1> QED
  BY <1>1, <1>2, <1>3, <1>4, <1>5, <1>6, <1>7, <1>8, <1>9, <1>10, <1>11 DEF Next, Step

LEMMA LockInvExcludes == LockInv => OneCommandAtATime
  BY DEF LockInv, OneCommandAtATime, RowIsMine

(* Two commands never hold the plan together, for any number of processes  *)
(* and hosts, provided a command passes through Ctx.sleep often enough for *)
(* the TTL and the difference between the clocks (acquire_lock).           *)
THEOREM Exclusion == ASSUME PromptEnough PROVE Spec => []OneCommandAtATime
<1>1. Init => LockInv
  BY LockInvInit
<1>2. LockInv /\ [Next]_vars => LockInv'
  BY LockInvStep
<1>3. LockInv => OneCommandAtATime
  BY LockInvExcludes
<1> QED BY <1>1, <1>2, <1>3, PTL DEF Spec

-----------------------------------------------------------------------------
LEMMA FreshStep ==
  ASSUME PromptEnough PROVE LockInv /\ WorksOnWhatItRead /\ [Next]_vars => WorksOnWhatItRead'
<1> SUFFICES ASSUME LockInv, WorksOnWhatItRead, [Next]_vars,
                    NEW p \in Procs, phase'[p] = "work"
             PROVE  seen'[p] = plan'
  BY DEF WorksOnWhatItRead
<1>t. TypeOK
  BY DEF LockInv
<1>h. phase[p] = "work" => seen[p] = plan
  BY DEF WorksOnWhatItRead
<1>1. ASSUME NEW q \in Procs, Spawn(q) \/ Die(q) \/ Refuse(q) \/ Finish(q) \/ Sleep(q)
      PROVE  seen'[p] = plan'
  BY <1>1, <1>t, <1>h DEF Spawn, Die, Refuse, Finish, Sleep, TypeOK
<1>2. ASSUME NEW q \in Procs, ReadPlan(q) \/ Acquire(q) PROVE seen'[p] = plan'
  BY <1>2, <1>t, <1>h DEF ReadPlan, Acquire, TypeOK
<1>3. ASSUME NEW q \in Procs, Recheck(q) PROVE seen'[p] = plan'
  BY <1>3, <1>t, <1>h DEF Recheck, TypeOK
<1>4. ASSUME NEW q \in Procs, Write(q) PROVE seen'[p] = plan'
  <2>1. Holds(p) /\ Holds(q)
    BY <1>4 DEF Write, Holds
  <2>2. p = q
    BY <2>1, LockInvExcludes DEF OneCommandAtATime
  <2> QED BY <1>4, <2>2, <1>t DEF Write, TypeOK
<1>5. CASE Tick
  BY <1>5, <1>h DEF Tick
<1>6. CASE UNCHANGED vars
  BY <1>6, <1>h DEF vars
<1> QED
  BY <1>1, <1>2, <1>3, <1>4, <1>5, <1>6 DEF Next, Step

(* A command at work knows the plan as it is: what it read before it had   *)
(* the lock was read again, and nobody else writes since (_lock_checked).  *)
THEOREM FreshWork == ASSUME PromptEnough PROVE Spec => []WorksOnWhatItRead
<1>1. Init => LockInv /\ WorksOnWhatItRead
  BY LockInvInit DEF Init, WorksOnWhatItRead
<1>2. LockInv /\ WorksOnWhatItRead /\ [Next]_vars => LockInv' /\ WorksOnWhatItRead'
  BY LockInvStep, FreshStep
<1> QED BY <1>1, <1>2, PTL DEF Spec
=============================================================================
