---------------------------- MODULE ReplicationLock ----------------------------
(***************************************************************************)
(* The lock of a plan (bin/lib/replication_db.py, acquire_lock and its     *)
(* companions) and the way a command starts under it                       *)
(* (bin/lib/replication_run.py, _lock_checked): the plan is read without   *)
(* the lock, the lock is taken, what was read is read again, and only then *)
(* does the command write.                                                 *)
(*                                                                         *)
(* A process is a slot: a PID of a host.  A slot dies and is used again by *)
(* another program, its birth number being the start time of /proc.  Time  *)
(* is kept as ages, in ticks: of the heartbeat in the lock row, of the     *)
(* last renewal the holder remembers, of its last pass through Ctx.sleep.  *)
(* The clock of a host may be ahead of the others by Ahead[h].             *)
(***************************************************************************)
EXTENDS Integers, FiniteSets

CONSTANTS
  Procs,      \* slots: a PID on a host
  Hosts,      \* hosts
  HostOf,     \* [Procs -> Hosts]
  Ahead,      \* [Hosts -> 0..MaxSkew]: how far the clock of a host is ahead
  MaxSkew,    \* how far apart two clocks may be
  TTL,        \* LOCK_TTL_S
  MaxGap,     \* longest time a command runs between two calls of Ctx.sleep
  MaxBirths,  \* bound: programs started in one slot
  MaxWrites   \* bound: changes of the plan

ASSUME LockAssumption ==
  /\ HostOf \in [Procs -> Hosts]
  /\ MaxSkew \in Nat /\ Ahead \in [Hosts -> 0..MaxSkew]
  /\ TTL \in Nat \ {0} /\ MaxGap \in Nat
  /\ MaxBirths \in Nat /\ MaxWrites \in Nat

VARIABLES
  lock,     \* the row of table locks
  plan,     \* version of what _plan_guard and _select read of the plan
  alive,    \* is there a program in the slot?
  born,     \* its birth number
  phase,    \* how far its command is: "out", "read", "locked", "work"
  seen,     \* the version its command has read, or written last
  beat,     \* age of the renewal it remembers (Ctx._beat)
  awake     \* time since its last pass through Ctx.sleep

vars == <<lock, plan, alive, born, phase, seen, beat, awake>>

Free == [held |-> FALSE]
Row == [held : {TRUE}, owner : Procs, start : Nat, age : Nat]

Phases == {"out", "read", "locked", "work"}
Holds(p) == phase[p] \in {"locked", "work"}

TypeOK ==
  /\ lock \in {Free} \cup Row
  /\ plan \in Nat
  /\ alive \in [Procs -> BOOLEAN] /\ born \in [Procs -> Nat]
  /\ phase \in [Procs -> Phases] /\ \A p \in Procs : ~alive[p] => phase[p] = "out"
  /\ seen \in [Procs -> Nat]
  /\ beat \in [Procs -> Nat] /\ awake \in [Procs -> Nat]

Init ==
  /\ lock = Free /\ plan = 0
  /\ alive = [p \in Procs |-> FALSE] /\ born = [p \in Procs |-> 0]
  /\ phase = [p \in Procs |-> "out"] /\ seen = [p \in Procs |-> 0]
  /\ beat = [p \in Procs |-> 0] /\ awake = [p \in Procs |-> 0]

-----------------------------------------------------------------------------
(* acquire_lock: when an abandoned lock may be taken back *)

(* Seen from its own host, the holder is judged by its process alone.      *)
ProcessGone(p) == ~alive[lock.owner]
PidReused(p)   == alive[lock.owner] /\ born[lock.owner] # lock.start

(* Seen from another host, by the age of its heartbeat, on two clocks.     *)
TtlExpired(p) == lock.age + Ahead[HostOf[p]] > TTL + Ahead[HostOf[lock.owner]]

(* Mutant: a PID in use is taken for the same process. *)
NoPidReuse(p) ==
  IF HostOf[lock.owner] = HostOf[p] THEN ProcessGone(p) ELSE TtlExpired(p)

Reclaimable(p) ==
  IF HostOf[lock.owner] = HostOf[p] THEN ProcessGone(p) \/ PidReused(p)
                                    ELSE TtlExpired(p)

CanTake(p) == lock.held => lock.owner = p \/ Reclaimable(p)

-----------------------------------------------------------------------------
(* Processes *)

Spawn(p) ==
  /\ ~alive[p] /\ born[p] < MaxBirths
  /\ alive' = [alive EXCEPT ![p] = TRUE] /\ born' = [born EXCEPT ![p] = @ + 1]
  /\ UNCHANGED <<lock, plan, phase, seen, beat, awake>>

(* Killed, or ended: the row stays behind. *)
Die(p) ==
  /\ alive[p]
  /\ alive' = [alive EXCEPT ![p] = FALSE] /\ phase' = [phase EXCEPT ![p] = "out"]
  /\ UNCHANGED <<lock, plan, born, seen, beat, awake>>

(* A command reads the plan, without the lock. *)
ReadPlan(p) ==
  /\ alive[p] /\ phase[p] = "out"
  /\ phase' = [phase EXCEPT ![p] = "read"] /\ seen' = [seen EXCEPT ![p] = plan]
  /\ UNCHANGED <<lock, plan, alive, born, beat, awake>>

Acquire(p) ==
  /\ phase[p] = "read" /\ CanTake(p)
  /\ lock' = [held |-> TRUE, owner |-> p, start |-> born[p], age |-> 0]
  /\ phase' = [phase EXCEPT ![p] = "locked"]
  /\ beat' = [beat EXCEPT ![p] = 0] /\ awake' = [awake EXCEPT ![p] = 0]
  /\ UNCHANGED <<plan, alive, born, seen>>

(* Locked: refused, the command ends. *)
Refuse(p) ==
  /\ phase[p] = "read" /\ ~CanTake(p)
  /\ phase' = [phase EXCEPT ![p] = "out"]
  /\ UNCHANGED <<lock, plan, alive, born, seen, beat, awake>>

(* release_lock deletes the row of this owner, if it is still its own.     *)
Released(p) == IF lock.held /\ lock.owner = p THEN Free ELSE lock

(* Mutant: the lock is taken, the plan is not read again. *)
TrustFirstRead(p) ==
  phase[p] = "locked" /\ phase' = [phase EXCEPT ![p] = "work"]
  /\ UNCHANGED <<lock, plan, alive, born, seen, beat, awake>>

(* Under the lock, what was read is read again: refused if it changed.     *)
Recheck(p) ==
  /\ phase[p] = "locked"
  /\ IF seen[p] = plan
     THEN phase' = [phase EXCEPT ![p] = "work"] /\ UNCHANGED lock
     ELSE phase' = [phase EXCEPT ![p] = "out"] /\ lock' = Released(p)
  /\ UNCHANGED <<plan, alive, born, seen, beat, awake>>

(* A command changes the plan. *)
Write(p) ==
  /\ phase[p] = "work" /\ plan < MaxWrites
  /\ plan' = plan + 1 /\ seen' = [seen EXCEPT ![p] = plan + 1]
  /\ UNCHANGED <<lock, alive, born, phase, beat, awake>>

(* Mutant: a long wait does not renew the lock. *)
SleepOnly(p) ==
  phase[p] = "work" /\ awake' = [awake EXCEPT ![p] = 0]
  /\ UNCHANGED <<lock, plan, alive, born, phase, seen, beat>>

(* Ctx.sleep: the lock is renewed once a third of its TTL has passed; that *)
(* it was taken back by another (lock_heartbeat False) is not looked at.   *)
Sleep(p) ==
  /\ phase[p] = "work"
  /\ awake' = [awake EXCEPT ![p] = 0]
  /\ IF 3 * beat[p] >= TTL
     THEN /\ beat' = [beat EXCEPT ![p] = 0]
          /\ lock' = IF lock.held /\ lock.owner = p THEN [lock EXCEPT !.age = 0] ELSE lock
     ELSE UNCHANGED <<beat, lock>>
  /\ UNCHANGED <<plan, alive, born, phase, seen>>

Finish(p) ==
  /\ phase[p] = "work"
  /\ phase' = [phase EXCEPT ![p] = "out"] /\ lock' = Released(p)
  /\ UNCHANGED <<plan, alive, born, seen, beat, awake>>

(* Ages beyond Old tell nothing more. *)
Old == TTL + MaxGap + MaxSkew + 1
Older(age) == IF age < Old THEN age + 1 ELSE age

(* Time passes; a command that holds the lock sleeps within MaxGap.        *)
Tick ==
  /\ \A p \in Procs : Holds(p) => awake[p] < MaxGap
  /\ lock' = IF lock.held THEN [lock EXCEPT !.age = Older(@)] ELSE lock
  /\ beat' = [p \in Procs |-> IF Holds(p) THEN Older(beat[p]) ELSE beat[p]]
  /\ awake' = [p \in Procs |-> IF Holds(p) THEN awake[p] + 1 ELSE awake[p]]
  /\ UNCHANGED <<plan, alive, born, phase, seen>>

Step(p) ==
  \/ Spawn(p) \/ Die(p) \/ ReadPlan(p) \/ Acquire(p) \/ Refuse(p)
  \/ Recheck(p) \/ Write(p) \/ Sleep(p) \/ Finish(p)

Next == Tick \/ \E p \in Procs : Step(p)

Spec == Init /\ [][Next]_vars

(* Time passes and a command keeps going: through its check, then through  *)
(* Ctx.sleep.                                                              *)
FairSpec ==
  Spec /\ WF_vars(Tick) /\ \A p \in Procs : WF_vars(Recheck(p)) /\ WF_vars(Sleep(p))

-----------------------------------------------------------------------------
(* Properties *)

(* "Une seule commande mutative à la fois par plan" (acquire_lock): two    *)
(* commands never hold the plan together, whatever dies, is started again  *)
(* under the same PID or asks from another host.                           *)
OneCommandAtATime ==
  \A p, q \in Procs : Holds(p) /\ Holds(q) => p = q

(* A command works on the plan as it is: nothing another command wrote     *)
(* between its first read and the lock is missed (_lock_checked).          *)
WorksOnWhatItRead ==
  \A p \in Procs : phase[p] = "work" => seen[p] = plan

(* A lock left by a process that is gone does not stay: unless somebody    *)
(* takes it, every host comes to see it as abandoned (acquire_lock).       *)
LeftBehind == lock.held /\ (~alive[lock.owner] \/ born[lock.owner] # lock.start)

AbandonedCanBeTaken ==
  LeftBehind ~> (~LeftBehind \/ \A p \in Procs : CanTake(p))
=============================================================================
