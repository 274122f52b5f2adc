------------------------- MODULE ReplicationFailover -------------------------
(***************************************************************************)
(* The failover of one replication plan (bin/lib/replication_run.py,       *)
(* failover and resume), from the first read to the closing of its run     *)
(* row, with everything it acts on:                                        *)
(*                                                                         *)
(*   registry   plan and resource states, the open failover run, paused    *)
(*   source     VMs, the annotation noting how a VM ran before it was      *)
(*              stopped, the recurring backup job, guest writes, backups   *)
(*   target     standby volumes (the backup they have applied, activated   *)
(*              or not) and the VMs brought up there                       *)
(*   command    the process that runs the failover: its program counter    *)
(*              and its local variables, lost in a crash                   *)
(*                                                                         *)
(* One command runs at a time (the plan lock, see ReplicationLock).  Data  *)
(* is a version number: what a guest has written so far, what a backup     *)
(* holds, what a standby volume has applied.                               *)
(***************************************************************************)
EXTENDS Integers, FiniteSets, ReplicationStates

CONSTANTS
  VMs,             \* VMs the plan protects
  Disks,           \* their disks
  DisksOf,         \* [VMs -> SUBSET Disks]
  Modes,           \* failover modes in play: "planned", "unplanned"
  SkewTolerance,   \* how far apart the disks of one VM may be (skew_tolerance_s)
  MaxWrites,       \* bound: guest writes per VM
  FaultKinds,      \* faults in play: "cancel", "crash", "source", "target" lost
  MaxFaults,       \* bound: faults, all kinds together
  MaxRestarts,     \* bound: source VMs started by hand, outside the command
  MaxPauses        \* bound: pause settings changed by a person

ASSUME DisksAssumption ==
  /\ DisksOf \in [VMs -> SUBSET Disks]
  /\ \A v, w \in VMs : v # w => DisksOf[v] \cap DisksOf[w] = {}
  /\ \A v \in VMs : DisksOf[v] # {}
  /\ \A d \in Disks : \E v \in VMs : d \in DisksOf[v]
  /\ VMs # {}

ASSUME BoundsAssumption ==
  /\ Modes \subseteq {"planned", "unplanned"}
  /\ FaultKinds \subseteq {"cancel", "crash", "source", "target"}
  /\ SkewTolerance \in Nat
  /\ MaxWrites \in Nat
  /\ MaxFaults \in Nat
  /\ MaxRestarts \in Nat
  /\ MaxPauses \in Nat

VARIABLES
  plan, origin,        \* plans.state, plans.error_origin
  res, resOrigin,      \* plan_resources.state and .error_origin, per VM
  run,                 \* the failover run row, as far as it is open
  paused,              \* plan option `paused` (the follower)
  srcUp, dstUp,        \* does each cluster's API answer?
  srcVM,               \* source VM "running" or "stopped"
  note,                \* STOPPED_ANNOTATION: how the source VM ran before
  job,                 \* recurring backup job present and its volumes labelled
  written,             \* version of the source disks of a VM
  backup,              \* newest completed backup of a disk
  finalBackup,         \* backup object named after the open run, if taken
  applied,             \* backup applied by the standby volume of a disk
  activated,           \* standby volume activated (final)
  tgtVM,               \* VM on the target "absent" or "running"
  pc, cmd,             \* the running command
  wish,                \* history: the pause setting a failover found before
                       \* its run kept one, and those a person gave since
  ran,                 \* history: state of each source VM as last left
  asked,               \* history: VMs a person asked a failover to move
  reported,            \* history: VMs whose undo was reported incomplete
  faults, restarts, pauses   \* counters of the bounded events

registry == <<plan, origin, res, resOrigin, run, paused>>
source   == <<srcVM, note, job>>
data     == <<written, backup, finalBackup, applied>>
target   == <<activated, tgtVM>>
links    == <<srcUp, dstUp>>
people   == <<wish, ran, asked>>
history  == <<people, reported, faults, restarts, pauses>>

vars == <<registry, source, data, target, links, pc, cmd, history>>

-----------------------------------------------------------------------------
(* Values *)

None == -1                      \* no backup recorded for this disk
NoPoints == [d \in Disks |-> None]
OnOff == {"on", "off"}
Runs == [open : BOOLEAN, mode : {"planned", "unplanned"}, force : BOOLEAN, vms : SUBSET VMs,
         final : [Disks -> Nat \cup {None}], at : [Disks -> Nat \cup {None}],
         before : OnOff \cup {"unset"}]

NoRun == [open |-> FALSE, mode |-> "planned", force |-> FALSE, vms |-> {},
          final |-> NoPoints, at |-> NoPoints, before |-> "unset"]

(* Local variables of a failover: its options, the selected VMs, whether   *)
(* the source answered when it was probed (live), whether the source was   *)
(* touched, whether an activation began (armed), the VMs already activated *)
(* when it started (done), the VMs the current loop still has to treat     *)
(* (todo), the VM in hand, the VMs fenced, the VMs that may go, the points *)
(* to be saved, the pause setting to restore, the second probe (back).     *)
Locals == [mode : {"planned", "unplanned"}, force : BOOLEAN, accept : BOOLEAN, sel : SUBSET VMs,
           live : BOOLEAN, touched : BOOLEAN, armed : BOOLEAN, done : SUBSET VMs,
           todo : SUBSET VMs, cur : VMs, fenced : SUBSET VMs, go : SUBSET VMs,
           final : [Disks -> Nat \cup {None}], at : [Disks -> Nat \cup {None}],
           before : OnOff \cup {"unset"}, back : BOOLEAN]

AnyVM == CHOOSE v \in VMs : TRUE

NoCmd == [mode |-> "planned", force |-> FALSE, accept |-> FALSE, sel |-> {}, live |-> FALSE,
          touched |-> FALSE, armed |-> FALSE, done |-> {}, todo |-> {}, cur |-> AnyVM,
          fenced |-> {}, go |-> {}, final |-> NoPoints, at |-> NoPoints,
          before |-> "unset", back |-> FALSE]

ForwardPCs == {"open", "mark", "marks", "hold", "survey", "fence", "stop", "job", "final", "save",
               "apply", "sync", "points", "late", "record", "arm", "activate", "bring", "tag", "land",
               "settle", "finish", "restore", "close", "unlock"}
HandlerPCs == {"undo", "restart", "unmark", "unplan", "unrestore", "unclose", "keep", "fail"}
PCs == {"idle"} \cup ForwardPCs \cup HandlerPCs

Origins == (PlanStates \ {"error"}) \cup {NoOrigin}

RegistryOK ==
  /\ plan \in PlanStates /\ origin \in Origins
  /\ res \in [VMs -> PlanStates] /\ resOrigin \in [VMs -> Origins]
  /\ run \in Runs /\ paused \in OnOff

SitesOK ==
  /\ srcUp \in BOOLEAN /\ dstUp \in BOOLEAN
  /\ srcVM \in [VMs -> {"running", "stopped"}]
  /\ note \in [VMs -> {"none", "Always", "Halted"}]
  /\ job \in [VMs -> BOOLEAN]
  /\ activated \in [Disks -> BOOLEAN] /\ tgtVM \in [VMs -> {"absent", "running"}]

DataOK ==
  /\ written \in [VMs -> Nat] /\ backup \in [Disks -> Nat]
  /\ finalBackup \in [Disks -> Nat \cup {None}] /\ applied \in [Disks -> Nat]

CommandOK == pc \in PCs /\ cmd \in Locals

HistoryOK ==
  /\ wish \in SUBSET OnOff /\ ran \in [VMs -> {"running", "stopped"}]
  /\ asked \in SUBSET VMs /\ reported \in SUBSET VMs
  /\ faults \in Nat /\ restarts \in Nat /\ pauses \in Nat

TypeOK == RegistryOK /\ SitesOK /\ DataOK /\ CommandOK /\ HistoryOK

-----------------------------------------------------------------------------
(* Reading the state *)

DisksOfAll(vms) == UNION {DisksOf[v] : v \in vms}

Activated(v) == \E d \in DisksOf[v] : activated[d]

(* _final_applied: the final backup of every disk is the one applied. *)
FinalApplied(v) ==
  \A d \in DisksOf[v] : cmd.final[d] # None /\ applied[d] = cmd.final[d]

(* _applied_points: the spread of the applied points of a VM's disks. *)
Skewed(v) ==
  \E d, e \in DisksOf[v] : applied[d] - applied[e] > SkewTolerance

(* Mutant: a VM in error cannot be selected. *)
SelectableNoError == {v \in VMs : res[v] \in {"protected", "failing_over"}}

(* _select: the resources a failover may take. *)
Selectable == {v \in VMs : res[v] \in {"protected", "failing_over", "error"}}

(* _open_scope: the VMs an open failover has still to move. *)
OpenScope == {v \in run.vms : res[v] # "failed_over"}

(* _check_open_run: an open failover is only run again as it was. *)
FitsOpenRun(mode, sel) ==
  run.open /\ OpenScope # {} => sel = OpenScope /\ mode = run.mode

(* The probes: the target must answer; once a VM is activated the source   *)
(* no longer matters, before that it must match the mode.                  *)
ProbesAllow(mode, force, sel) ==
  /\ dstUp
  /\ \/ \E v \in sel : Activated(v)
     \/ mode = "planned" /\ srcUp
     \/ mode = "unplanned" /\ (srcUp => force)

Admitted(mode, force, sel) ==
  /\ Precondition("failover", plan, origin)
  /\ sel # {} /\ sel \subseteq Selectable
  /\ FitsOpenRun(mode, sel)
  /\ ProbesAllow(mode, force, sel)

(* set_resource_state: the same state is no change, another one must exist. *)
MayBecome(v, state) == res[v] = state \/ TransitionAllowed(res[v], state, resOrigin[v])

(* Mutant: the VMs of a row are those it was opened with. *)
SavedFirstVMs == [open |-> TRUE, mode |-> cmd.mode, force |-> cmd.force, vms |-> run.vms,
                  final |-> cmd.final, at |-> cmd.at, before |-> cmd.before]

(* The points of the run row as record_run writes them from the locals. *)
Saved == [open |-> TRUE, mode |-> cmd.mode, force |-> cmd.force, vms |-> cmd.sel,
          final |-> cmd.final, at |-> cmd.at, before |-> cmd.before]

Goto(label) == pc' = label

-----------------------------------------------------------------------------
(* Initial state: the plan is protected, every VM as its owner left it. *)

Init ==
  /\ plan = "protected" /\ origin = NoOrigin
  /\ res = [v \in VMs |-> "protected"] /\ resOrigin = [v \in VMs |-> NoOrigin]
  /\ run = NoRun
  /\ paused = "off" /\ wish = {"off"}
  /\ srcUp = TRUE /\ dstUp = TRUE
  /\ srcVM \in [VMs -> {"running", "stopped"}] /\ ran = srcVM
  /\ note = [v \in VMs |-> "none"]
  /\ job = [v \in VMs |-> TRUE]
  /\ written = [v \in VMs |-> 0] /\ backup = [d \in Disks |-> 0]
  /\ finalBackup = NoPoints
  /\ applied = [d \in Disks |-> 0]
  /\ activated = [d \in Disks |-> FALSE]
  /\ tgtVM = [v \in VMs |-> "absent"]
  /\ pc = "idle" /\ cmd = NoCmd
  /\ asked = {} /\ reported = {} /\ faults = 0 /\ restarts = 0 /\ pauses = 0

-----------------------------------------------------------------------------
(* Environment *)

Fault(kind) == kind \in FaultKinds /\ faults < MaxFaults /\ faults' = faults + 1

(* A running guest writes. *)
GuestWrites(v) ==
  /\ srcVM[v] = "running" /\ written[v] < MaxWrites
  /\ written' = [written EXCEPT ![v] = @ + 1]
  /\ UNCHANGED <<registry, source, backup, finalBackup, applied, target, links, pc, cmd, history>>

(* The recurring job backs a disk up, each disk of a VM in its own time. *)
JobBacksUp(v, d) ==
  /\ job[v] /\ d \in DisksOf[v] /\ backup[d] < written[v]
  /\ backup' = [backup EXCEPT ![d] = written[v]]
  /\ UNCHANGED <<registry, source, written, finalBackup, applied, target, links, pc, cmd, history>>

(* A standby volume restores the newest backup of its disk. *)
StandbyApplies(d) ==
  /\ ~activated[d] /\ applied[d] < backup[d]
  /\ applied' = [applied EXCEPT ![d] = backup[d]]
  /\ UNCHANGED <<registry, source, written, backup, finalBackup, target, links, pc, cmd, history>>

SourceLost ==
  /\ srcUp /\ Fault("source")
  /\ srcUp' = FALSE
  /\ UNCHANGED <<registry, source, data, target, dstUp, pc, cmd, people, reported, restarts, pauses>>

SourceBack ==
  /\ ~srcUp /\ srcUp' = TRUE
  /\ UNCHANGED <<registry, source, data, target, dstUp, pc, cmd, history>>

TargetLost ==
  /\ dstUp /\ Fault("target")
  /\ dstUp' = FALSE
  /\ UNCHANGED <<registry, source, data, target, srcUp, pc, cmd, people, reported, restarts, pauses>>

TargetBack ==
  /\ ~dstUp /\ dstUp' = TRUE
  /\ UNCHANGED <<registry, source, data, target, srcUp, pc, cmd, history>>

(* Somebody starts a stopped source VM, outside this program. *)
StartedByHand(v) ==
  /\ srcVM[v] = "stopped" /\ restarts < MaxRestarts
  /\ srcVM' = [srcVM EXCEPT ![v] = "running"] /\ ran' = [ran EXCEPT ![v] = "running"]
  /\ restarts' = restarts + 1
  /\ UNCHANGED <<registry, note, job, data, target, links, pc, cmd, wish, asked, reported, faults, pauses>>

(* `plan set --paused`, under the plan lock: refused while a command runs, *)
(* taken in every state of the plan, an interrupted failover included.     *)
PauseSet(x) ==
  /\ pc = "idle" /\ x # paused /\ pauses < MaxPauses
  /\ paused' = x /\ pauses' = pauses + 1
  /\ wish' = IF run.open THEN wish \cup {x} ELSE {x}
  /\ UNCHANGED <<plan, origin, res, resOrigin, run, source, data, target, links, pc, cmd,
                 ran, asked, reported, faults, restarts>>

-----------------------------------------------------------------------------
(* The command, from its start to the closing of its run *)

(* Everything a failover checks before and under the lock. *)
Begin(mode, force, accept, sel) ==
  /\ pc = "idle" /\ Admitted(mode, force, sel)
  /\ cmd' = [NoCmd EXCEPT !.mode = mode, !.force = force, !.accept = accept,
                          !.sel = sel, !.live = srcUp]
  /\ Goto("open")
  /\ UNCHANGED <<registry, source, data, target, links, ran, reported,
                 faults, restarts, pauses>>

(* What a command takes for the wish of a person: the setting it finds,    *)
(* until the run keeps one.                                                *)
WishFound == (IF run.open THEN wish ELSE {})
               \cup (IF run.before = "unset" THEN {paused} ELSE {})

(* The options --force-unplanned and --accept-skew go with --unplanned. *)
Failover(mode, force, accept, sel) ==
  /\ mode \in Modes
  /\ mode = "planned" => ~force /\ ~accept
  /\ Begin(mode, force, accept, sel)
  /\ asked' = asked \cup sel
  /\ wish' = WishFound

Interrupted == plan = "failing_over" \/ (plan = "error" /\ origin = "failing_over")

(* resume: the mode, the scope and --force-unplanned of the open run; a     *)
(* scope with nothing left in it is the same as no scope.                  *)
ResumeScope == IF run.open /\ OpenScope # {} THEN OpenScope ELSE Selectable

Resume ==
  /\ Interrupted
  /\ Begin(IF run.open THEN run.mode ELSE "planned", run.open /\ run.force, FALSE, ResumeScope)
  /\ wish' = WishFound
  /\ UNCHANGED asked

(* The run row: a new one, or the open one with the points it kept. *)
OpenRun ==
  /\ pc = "open"
  /\ LET row == IF run.open THEN run
                ELSE [NoRun EXCEPT !.open = TRUE, !.mode = cmd.mode, !.force = cmd.force,
                                   !.vms = cmd.sel]
     IN /\ run' = row
        /\ cmd' = [cmd EXCEPT !.final = row.final, !.at = row.at,
                              !.before = IF row.before = "unset" THEN paused ELSE row.before]
  /\ finalBackup' = IF run.open THEN finalBackup ELSE NoPoints
  /\ Goto("mark")
  /\ UNCHANGED <<plan, origin, res, resOrigin, paused, source, written, backup, applied,
                 target, links, history>>

(* Plan, then resources become failing_over, then the follower is paused.  *)
MarkPlan ==
  /\ pc = "mark"
  /\ TransitionAllowed(plan, "failing_over", origin)
  /\ plan' = "failing_over" /\ origin' = NoOrigin
  /\ Goto("marks")
  /\ UNCHANGED <<res, resOrigin, run, paused, source, data, target, links, cmd, history>>

MarkVMs ==
  /\ pc = "marks"
  /\ \A v \in cmd.sel : MayBecome(v, "failing_over")
  /\ res' = [v \in VMs |-> IF v \in cmd.sel THEN "failing_over" ELSE res[v]]
  /\ resOrigin' = [v \in VMs |-> IF v \in cmd.sel THEN NoOrigin ELSE resOrigin[v]]
  /\ Goto("hold")
  /\ UNCHANGED <<plan, origin, run, paused, source, data, target, links, cmd, history>>

PauseFollower ==
  /\ pc = "hold"
  /\ paused' = "on"
  /\ Goto("survey")
  /\ UNCHANGED <<plan, origin, res, resOrigin, run, source, data, target, links, cmd, history>>

(* What earlier executions left: VMs already activated, and (planned) VMs  *)
(* whose recorded final backup is applied, which are not fenced again.     *)
Survey ==
  /\ pc = "survey" /\ dstUp
  /\ LET done == {v \in cmd.sel : Activated(v)}
         ready == {v \in cmd.sel \ done : FinalApplied(v)}
     IN cmd' = [cmd EXCEPT !.done = done, !.armed = done # {},
                           !.todo = IF cmd.mode = "planned" THEN (cmd.sel \ done) \ ready
                                    ELSE IF cmd.live THEN cmd.sel \ done ELSE {}]
  /\ Goto("fence")
  /\ UNCHANGED <<registry, source, data, target, links, history>>

(* _fence_source and _stop_source: note how the VM ran, stop it, then      *)
(* remove the job and its labels.                                          *)
FenceNext(v) ==
  /\ pc = "fence" /\ v \in cmd.todo /\ srcUp
  /\ note' = [note EXCEPT ![v] = IF @ # "none" THEN @
                                 ELSE IF srcVM[v] = "running" THEN "Always" ELSE "Halted"]
  /\ cmd' = [cmd EXCEPT !.touched = TRUE, !.cur = v]
  /\ Goto("stop")
  /\ UNCHANGED <<registry, srcVM, job, data, target, links, history>>

StopSource ==
  /\ pc = "stop" /\ srcUp
  /\ srcVM' = [srcVM EXCEPT ![cmd.cur] = "stopped"]
  /\ Goto("job")
  /\ UNCHANGED <<registry, note, job, data, target, links, cmd, history>>

DropJob ==
  /\ pc = "job" /\ srcUp
  /\ job' = [job EXCEPT ![cmd.cur] = FALSE]
  /\ cmd' = [cmd EXCEPT !.todo = @ \ {cmd.cur}, !.fenced = @ \cup {cmd.cur}]
  /\ Goto("fence")
  /\ UNCHANGED <<registry, srcVM, note, data, target, links, history>>

(* Mutant: no final backup after the source was stopped. *)
FenceDoneNoFinal ==
  /\ pc = "fence" /\ cmd.todo = {} /\ Goto("apply")
  /\ UNCHANGED <<registry, source, data, target, links, cmd, history>>

FenceDone ==
  /\ pc = "fence" /\ cmd.todo = {}
  /\ Goto(IF cmd.mode = "unplanned" THEN "sync"
          ELSE IF cmd.fenced = {} THEN "apply" ELSE "final")
  /\ UNCHANGED <<registry, source, data, target, links, cmd, history>>

(* take_backups and wait_backups: the final backup of every fenced disk.   *)
(* Its name is derived from the run row: one taken earlier by the same run *)
(* is kept as it is, unless its snapshot's name had to be changed.         *)
TakeFinal(d2v) ==
  /\ pc = "final" /\ srcUp
  /\ LET taken == DisksOfAll(cmd.fenced)
     IN /\ \A v \in cmd.fenced : \A d \in DisksOf[v] :
             d2v[d] = written[v] \/ (finalBackup[d] # None /\ d2v[d] = finalBackup[d])
        /\ finalBackup' = [d \in Disks |-> IF d \in taken THEN d2v[d] ELSE finalBackup[d]]
        /\ backup' = [d \in Disks |-> IF d \in taken /\ d2v[d] > backup[d] THEN d2v[d]
                                      ELSE backup[d]]
        /\ cmd' = [cmd EXCEPT !.final = [d \in Disks |-> IF d \in taken THEN d2v[d] ELSE @[d]]]
  /\ Goto("save")
  /\ UNCHANGED <<registry, source, written, applied, target, links, history>>

(* The names of the final backups reach the run row. *)
SaveFinal ==
  /\ pc = "save"
  /\ run' = Saved
  /\ Goto("apply")
  /\ UNCHANGED <<plan, origin, res, resOrigin, paused, source, data, target, links, cmd, history>>

(* Mutant: one disk of each VM is enough. *)
OneFinalApplied ==
  /\ pc = "apply" /\ dstUp
  /\ \A v \in cmd.sel \ cmd.done : \E d \in DisksOf[v] : applied[d] >= cmd.final[d]
  /\ Goto("points")
  /\ UNCHANGED <<registry, source, data, target, links, cmd, history>>

(* wait_applied: each standby volume has its final backup, or a newer one. *)
FinalsApplied ==
  /\ pc = "apply" /\ dstUp
  /\ \A d \in DisksOfAll(cmd.sel \ cmd.done) : applied[d] >= cmd.final[d]
  /\ Goto("points")
  /\ UNCHANGED <<registry, source, data, target, links, cmd, history>>

(* wait_caught_up: each engine has the last backup the target knows. *)
CaughtUp ==
  /\ pc = "sync" /\ dstUp
  /\ \A d \in DisksOfAll(cmd.sel \ cmd.done) : applied[d] = backup[d]
  /\ Goto("points")
  /\ UNCHANGED <<registry, source, data, target, links, cmd, history>>

(* The VMs that may go: an unplanned failover refuses disks too far apart. *)
MayGo == IF cmd.mode = "planned" THEN cmd.sel
         ELSE cmd.done \cup {v \in cmd.sel : ~Skewed(v) \/ cmd.accept}

(* Mutant: the points are always read again. *)
StoredNever(d) == FALSE

Stored(d) == d \in DisksOfAll(cmd.done) /\ cmd.at[d] # None

(* The points read before the activation; the engine of an activated       *)
(* volume has none any more, what was saved before it holds.               *)
ReadPoints ==
  /\ pc = "points" /\ dstUp /\ MayGo # {}
  /\ LET at == [d \in Disks |->
                  IF d \notin DisksOfAll(cmd.sel) \/ Stored(d) THEN cmd.at[d]
                  ELSE IF activated[d] THEN None ELSE applied[d]]
     IN cmd' = [cmd EXCEPT !.go = MayGo, !.at = at, !.todo = MayGo \ cmd.fenced]
  /\ Goto(IF cmd.mode = "planned" THEN "record" ELSE "late")
  /\ UNCHANGED <<registry, source, data, target, links, history>>

(* _late_fence: a source that came back is halted at best, nothing noted. *)
LateFence(v) ==
  /\ pc = "late" /\ v \in cmd.todo /\ srcUp
  /\ srcVM' = [srcVM EXCEPT ![v] = "stopped"]
  /\ job' = [job EXCEPT ![v] = FALSE]
  /\ cmd' = [cmd EXCEPT !.todo = @ \ {v}, !.fenced = @ \cup {v}]
  /\ UNCHANGED <<registry, note, data, target, links, pc, history>>

(* Nothing left to fence, or the source does not answer. *)
LateFenceDone ==
  /\ pc = "late" /\ (cmd.todo = {} \/ ~srcUp)
  /\ cmd' = [cmd EXCEPT !.todo = {}]
  /\ Goto("record")
  /\ UNCHANGED <<registry, source, data, target, links, history>>

(* The points and the VMs are saved before the activation. *)
RecordPoints ==
  /\ pc = "record"
  /\ run' = Saved
  /\ Goto("arm")
  /\ UNCHANGED <<plan, origin, res, resOrigin, paused, source, data, target, links, cmd, history>>

(* Mutant: the point of no return is only noted once activated. *)
ArmLate ==
  /\ pc = "arm" /\ Goto("activate")
  /\ UNCHANGED <<registry, source, data, target, links, cmd, history>>

(* Entering the activation stage: past its safe point, nothing is undone.  *)
Arm ==
  /\ pc = "arm"
  /\ cmd' = [cmd EXCEPT !.armed = TRUE]
  /\ Goto("activate")
  /\ UNCHANGED <<registry, source, data, target, links, history>>

(* Activation of a standby volume; a restore in progress may still end. *)
Activate(d) ==
  /\ pc = "activate" /\ dstUp
  /\ d \in DisksOfAll(cmd.go) /\ ~activated[d]
  /\ activated' = [activated EXCEPT ![d] = TRUE]
  /\ \E last \in {applied[d], backup[d]} :
       last >= applied[d] /\ applied' = [applied EXCEPT ![d] = last]
  /\ UNCHANGED <<registry, source, written, backup, finalBackup, tgtVM, links, pc, cmd, history>>

(* Mutant: one activated volume is enough. *)
OneActivated ==
  /\ pc = "activate" /\ \E d \in DisksOfAll(cmd.go) : activated[d]
  /\ cmd' = [cmd EXCEPT !.back = srcUp, !.todo = cmd.go]
  /\ Goto("bring")
  /\ UNCHANGED <<registry, source, data, target, links, history>>

AllActivated ==
  /\ pc = "activate" /\ \A d \in DisksOfAll(cmd.go) : activated[d]
  /\ cmd' = [cmd EXCEPT !.back = srcUp, !.todo = cmd.go]
  /\ Goto("bring")
  /\ UNCHANGED <<registry, source, data, target, links, history>>

(* _bring_up: volume claims, the VM, and its start. *)
BringUp(v) ==
  /\ pc = "bring" /\ dstUp /\ v \in cmd.todo
  /\ tgtVM' = [tgtVM EXCEPT ![v] = "running"]
  /\ cmd' = [cmd EXCEPT !.cur = v, !.todo = @ \ {v}]
  /\ Goto("tag")
  /\ UNCHANGED <<registry, source, data, activated, links, history>>

(* The source VM is annotated (failed over to); a failure only warns. *)
TagSource ==
  /\ pc = "tag"
  /\ note' = IF cmd.back /\ srcUp THEN [note EXCEPT ![cmd.cur] = "none"] ELSE note
  /\ Goto("land")
  /\ UNCHANGED <<registry, srcVM, job, data, target, links, cmd, history>>

Land ==
  /\ pc = "land"
  /\ MayBecome(cmd.cur, "failed_over")
  /\ res' = [res EXCEPT ![cmd.cur] = "failed_over"]
  /\ resOrigin' = [resOrigin EXCEPT ![cmd.cur] = NoOrigin]
  /\ Goto(IF cmd.todo = {} THEN "settle" ELSE "bring")
  /\ UNCHANGED <<plan, origin, run, paused, source, data, target, links, cmd, history>>

(* The VMs refused for their skew go back to protected ... *)
Settle ==
  /\ pc = "settle"
  /\ \A v \in cmd.sel \ cmd.go : MayBecome(v, "protected")
  /\ res' = [v \in VMs |-> IF v \in cmd.sel \ cmd.go THEN "protected" ELSE res[v]]
  /\ resOrigin' = [v \in VMs |-> IF v \in cmd.sel \ cmd.go THEN NoOrigin ELSE resOrigin[v]]
  /\ Goto("finish")
  /\ UNCHANGED <<plan, origin, run, paused, source, data, target, links, cmd, history>>

(* ... and the plan moves: to protected while a VM of it has not moved. *)
Finish ==
  /\ pc = "finish"
  /\ LET next == IF \A v \in VMs : res[v] = "failed_over" THEN "failed_over" ELSE "protected"
     IN TransitionAllowed(plan, next, origin) /\ plan' = next
  /\ Goto("restore")
  /\ UNCHANGED <<origin, res, resOrigin, run, paused, source, data, target, links, cmd, history>>

(* Mutant: the follower always runs again. *)
RestoreRunning ==
  /\ pc \in {"restore", "unrestore"}
  /\ paused' = "off"
  /\ Goto(IF pc = "restore" THEN "close" ELSE "unclose")
  /\ UNCHANGED <<plan, origin, res, resOrigin, run, source, data, target, links, cmd, history>>

(* _restore_paused: only if it still is what the failover set. *)
RestorePaused ==
  /\ pc \in {"restore", "unrestore"}
  /\ paused' = IF paused = "on" THEN cmd.before ELSE paused
  /\ Goto(IF pc = "restore" THEN "close" ELSE "unclose")
  /\ UNCHANGED <<plan, origin, res, resOrigin, run, source, data, target, links, cmd, history>>

(* The run row is finished ... *)
CloseRun ==
  /\ pc = "close"
  /\ run' = NoRun
  /\ Goto("unlock")
  /\ UNCHANGED <<plan, origin, res, resOrigin, paused, source, data, target, links, cmd, history>>

(* ... and the command ends. *)
Unlock ==
  /\ pc = "unlock"
  /\ pc' = "idle" /\ cmd' = NoCmd
  /\ UNCHANGED <<registry, source, data, target, links, history>>

-----------------------------------------------------------------------------
(* What ends a command early *)

(* Mutants: a planned failover is always undone; only what this execution  *)
(* touched is undone.                                                      *)
UndoPlanned ==
  IF cmd.mode = "planned" \/ cmd.touched THEN "undo"
  ELSE IF cmd.armed THEN "keep" ELSE "unmark"

UndoOwnTouch == IF cmd.armed THEN "keep" ELSE IF cmd.touched THEN "undo" ELSE "unmark"

(* The exception handler: after an activation began nothing is undone,     *)
(* before it a planned failover, or one that touched the source, is.       *)
Handler == IF cmd.armed THEN "keep"
           ELSE IF cmd.mode = "planned" \/ cmd.touched THEN "undo" ELSE "unmark"

ToHandler ==
  /\ Goto(Handler)
  /\ cmd' = [cmd EXCEPT !.todo = IF Handler = "undo" THEN cmd.sel ELSE @]

(* A signal, a timeout or a failed call: raised anywhere in the command.   *)
(* Before the try block nothing catches it and the process ends.           *)
Cancel ==
  /\ pc \in ForwardPCs /\ Fault("cancel")
  /\ IF pc = "open" THEN pc' = "idle" /\ cmd' = NoCmd ELSE ToHandler
  /\ UNCHANGED <<registry, source, data, target, links, people, reported, restarts, pauses>>

(* A step needs a cluster that does not answer. *)
Blocked ==
  \/ /\ ~srcUp
     /\ \/ pc = "fence" /\ cmd.todo # {}
        \/ pc \in {"stop", "job", "final"}
  \/ ~dstUp /\ pc \in {"survey", "apply", "sync", "points", "activate", "bring"}

CallFails ==
  /\ Blocked /\ ToHandler
  /\ UNCHANGED <<registry, source, data, target, links, history>>

(* No VM within the skew tolerance: refused. *)
SkewRefused ==
  /\ pc = "points" /\ dstUp /\ MayGo = {}
  /\ ToHandler
  /\ UNCHANGED <<registry, source, data, target, links, history>>

(* _rollback_failover, one VM after the other: the job and its label come  *)
(* back, then the VM restarts as it was noted.  What cannot be undone (the *)
(* source does not answer, the undo deadline passed) is reported.          *)
UndoJob(v) ==
  /\ pc = "undo" /\ v \in cmd.todo /\ srcUp
  /\ job' = [job EXCEPT ![v] = TRUE]
  /\ cmd' = [cmd EXCEPT !.cur = v, !.todo = @ \ {v}]
  /\ Goto("restart")
  /\ UNCHANGED <<registry, srcVM, note, data, target, links, history>>

RestartSource ==
  /\ pc = "restart" /\ srcUp
  /\ srcVM' = IF note[cmd.cur] = "Always" THEN [srcVM EXCEPT ![cmd.cur] = "running"] ELSE srcVM
  /\ note' = [note EXCEPT ![cmd.cur] = "none"]
  /\ Goto("undo")
  /\ UNCHANGED <<registry, job, data, target, links, cmd, history>>

UndoFails(v) ==
  /\ \/ pc = "undo" /\ v \in cmd.todo
     \/ pc = "restart" /\ v = cmd.cur
  /\ reported' = reported \cup {v}
  /\ cmd' = [cmd EXCEPT !.todo = @ \ {v}]
  /\ Goto("undo")
  /\ UNCHANGED <<registry, source, data, target, links, people, faults, restarts, pauses>>

UndoDone ==
  /\ pc = "undo" /\ cmd.todo = {}
  /\ Goto("unmark")
  /\ UNCHANGED <<registry, source, data, target, links, cmd, history>>

(* Mutant: the plan is not put back. *)
UnmarkVMsOnly ==
  /\ pc = "unmark" /\ \A v \in cmd.sel : MayBecome(v, "protected")
  /\ res' = [v \in VMs |-> IF v \in cmd.sel THEN "protected" ELSE res[v]]
  /\ resOrigin' = [v \in VMs |-> IF v \in cmd.sel THEN NoOrigin ELSE resOrigin[v]]
  /\ Goto("unrestore")
  /\ UNCHANGED <<plan, origin, run, paused, source, data, target, links, cmd, history>>

(* Resources, then plan go back to protected, each by its own transaction. *)
UnmarkVMs ==
  /\ pc = "unmark" /\ \A v \in cmd.sel : MayBecome(v, "protected")
  /\ res' = [v \in VMs |-> IF v \in cmd.sel THEN "protected" ELSE res[v]]
  /\ resOrigin' = [v \in VMs |-> IF v \in cmd.sel THEN NoOrigin ELSE resOrigin[v]]
  /\ Goto("unplan")
  /\ UNCHANGED <<plan, origin, run, paused, source, data, target, links, cmd, history>>

UnmarkPlan ==
  /\ pc = "unplan" /\ TransitionAllowed(plan, "protected", origin)
  /\ plan' = "protected" /\ origin' = NoOrigin
  /\ Goto("unrestore")
  /\ UNCHANGED <<res, resOrigin, run, paused, source, data, target, links, cmd, history>>

(* The registry refuses a transition that does not exist (StateConflict):  *)
(* the handler stops there and the process ends, the run left open.        *)
UnmarkRefused ==
  /\ \/ /\ pc = "unmark" /\ \E v \in cmd.sel : ~MayBecome(v, "protected")
        /\ \E some \in SUBSET {v \in cmd.sel : MayBecome(v, "protected")} :
             /\ res' = [v \in VMs |-> IF v \in some THEN "protected" ELSE res[v]]
             /\ resOrigin' = [v \in VMs |-> IF v \in some THEN NoOrigin ELSE resOrigin[v]]
     \/ /\ pc = "unplan" /\ ~TransitionAllowed(plan, "protected", origin)
        /\ UNCHANGED <<res, resOrigin>>
  /\ pc' = "idle" /\ cmd' = NoCmd
  /\ UNCHANGED <<plan, origin, run, paused, source, data, target, links, history>>

UncloseRun ==
  /\ pc = "unclose"
  /\ run' = NoRun
  /\ pc' = "idle" /\ cmd' = NoCmd
  /\ UNCHANGED <<plan, origin, res, resOrigin, paused, source, data, target, links, history>>

(* After the activation: the run stays open with its points ... *)
KeepRun ==
  /\ pc = "keep"
  /\ run' = Saved
  /\ Goto("fail")
  /\ UNCHANGED <<plan, origin, res, resOrigin, paused, source, data, target, links, cmd, history>>

(* ... and the plan and what has not failed over go to error (_error). *)
ToError ==
  /\ pc = "fail"
  /\ LET hit == {v \in cmd.sel : res[v] \notin {"failed_over", "error"}}
     IN /\ res' = [v \in VMs |-> IF v \in hit THEN "error" ELSE res[v]]
        /\ resOrigin' = [v \in VMs |-> IF v \in hit THEN res[v] ELSE resOrigin[v]]
  /\ plan' = "error"
  /\ origin' = IF plan = "error" THEN origin ELSE plan
  /\ pc' = "idle" /\ cmd' = NoCmd
  /\ UNCHANGED <<run, paused, source, data, target, links, history>>

(* The process is killed, or its host stops: the locals are lost.          *)
Crash ==
  /\ pc # "idle" /\ Fault("crash")
  /\ pc' = "idle" /\ cmd' = NoCmd
  /\ UNCHANGED <<registry, source, data, target, links, people, reported, restarts, pauses>>

-----------------------------------------------------------------------------
(* Next-state relation and specifications *)

Environment ==
  \/ \E v \in VMs : GuestWrites(v) \/ StartedByHand(v)
  \/ \E v \in VMs, d \in Disks : JobBacksUp(v, d)
  \/ \E d \in Disks : StandbyApplies(d)
  \/ SourceLost \/ SourceBack \/ TargetLost \/ TargetBack
  \/ \E x \in OnOff : PauseSet(x)

Request ==
  \/ Resume
  \/ \E mode \in Modes, force, accept \in BOOLEAN, sel \in SUBSET VMs :
       Failover(mode, force, accept, sel)

Forward ==
  \/ OpenRun \/ MarkPlan \/ MarkVMs \/ PauseFollower \/ Survey \/ StopSource \/ DropJob \/ FenceDone
  \/ \E v \in VMs : FenceNext(v) \/ LateFence(v) \/ BringUp(v)
  \/ \E d2v \in [Disks -> 0..MaxWrites] : TakeFinal(d2v)
  \/ SaveFinal \/ FinalsApplied \/ CaughtUp \/ ReadPoints \/ LateFenceDone \/ RecordPoints
  \/ Arm \/ AllActivated \/ TagSource \/ Land \/ Settle \/ Finish \/ CloseRun \/ Unlock
  \/ pc = "restore" /\ RestorePaused
  \/ \E d \in Disks : Activate(d)

Backward ==
  \/ CallFails \/ SkewRefused \/ RestartSource \/ UndoDone
  \/ UnmarkVMs \/ UnmarkPlan \/ UnmarkRefused \/ UncloseRun
  \/ pc = "unrestore" /\ RestorePaused
  \/ KeepRun \/ ToError
  \/ \E v \in VMs : UndoJob(v) \/ UndoFails(v)

(* Nobody asks for anything: only between two commands. *)
Rest == pc = "idle" /\ UNCHANGED vars

Next == Environment \/ Request \/ Forward \/ Backward \/ Cancel \/ Crash \/ Rest

Spec == Init /\ [][Next]_vars

(* A running command runs on, Longhorn restores what it is given, a lost   *)
(* cluster comes back, and an interrupted failover is resumed.             *)
FairSpec ==
  /\ Spec
  /\ WF_vars(Forward) /\ WF_vars(Backward)
  /\ \A d \in Disks : WF_vars(StandbyApplies(d))
  /\ WF_vars(SourceBack) /\ WF_vars(TargetBack)
  /\ WF_vars(Resume)

-----------------------------------------------------------------------------
(* Properties *)

(* A failover left in the middle, by a crash or an error, always has its   *)
(* open run row, wherever the command stopped between the writes of plan,  *)
(* resources and run (failover, the order of its registry writes): resume  *)
(* finds its mode and its VMs.                                             *)
InterruptedKeepsItsRun == Interrupted => run.open

(* A VM activated and not yet failed over is one of the VMs of the open    *)
(* run, so that resume takes it up ("interrupted: resume finishes it").    *)
ActivatedKeepsItsRun ==
  \A v \in VMs : Activated(v) /\ res[v] # "failed_over" => run.open /\ v \in run.vms

(* "Une bascule reprend avec son mode, ses VMs" (resume): only VMs that a  *)
(* person asked a failover to move are moved.                              *)
OnlyWhatWasAsked ==
  \A v \in VMs : res[v] \in {"failing_over", "failed_over"} => v \in asked

(* A VM said to have failed over is served by the target: all its standby  *)
(* volumes are activated and its VM was brought up there, and no undo,     *)
(* retry or crash takes the state back while leaving it half moved.        *)
FailedOverIsServed ==
  \A v \in VMs : res[v] = "failed_over" =>
    tgtVM[v] = "running" /\ \A d \in DisksOf[v] : activated[d]

(* The recovery points kept for the activated disks of the open run were   *)
(* saved before the activation and are never later than what the volume    *)
(* holds: the loss reported is never optimistic (failover, "point de       *)
(* non-retour" and its resume).                                            *)
LossReportConservative ==
  \A d \in DisksOfAll(run.vms) : run.open /\ activated[d] =>
    run.at[d] # None /\ run.at[d] <= applied[d]

(* A planned failover loses nothing: a standby volume is only activated    *)
(* when its source VM is stopped and all it wrote has been applied.        *)
ZeroLoss ==
  [][\A v \in VMs, d \in Disks :
       cmd.mode = "planned" /\ d \in DisksOf[v] /\ ~activated[d] /\ activated'[d]
         => srcVM[v] = "stopped" /\ applied'[d] = written[v]]_vars

(* The two sides of a VM never run together: once its target VM runs, no   *)
(* retry and no late undo starts its source again (planned failover).      *)
NoSplitBrain ==
  \A v \in VMs : ~(tgtVM[v] = "running" /\ srcVM[v] = "running")

(* Before the activation, an error or a cancellation puts everything back  *)
(* in place (failover): with the plan protected and no run open, a VM that *)
(* no failover activated has its backup job and runs as its owner left it, *)
(* or its undo was reported incomplete.  A VM started by hand in between   *)
(* is outside of it.                                                       *)
UndonePutsBack ==
  pc = "idle" /\ plan = "protected" /\ ~run.open /\ restarts = 0 =>
    \A v \in VMs : res[v] = "protected" /\ ~Activated(v) =>
      (job[v] /\ srcVM[v] = ran[v]) \/ v \in reported

(* After the activation nothing is undone (failover): a VM with an         *)
(* activated volume is never called protected again, whatever interrupts   *)
(* the command and its resumes.                                            *)
ActivatedNotUndone ==
  \A v \in VMs : Activated(v) => res[v] \in {"failing_over", "failed_over", "error"}

(* The follower is handed back as a person left it, before the failover or *)
(* while it was interrupted, also by the command that finishes it          *)
(* (_restore_paused): never paused by the failover itself, but for a kill  *)
(* before the run has kept the setting.                                    *)
PauseHandedBack ==
  pc = "idle" /\ plan = "protected" /\ ~run.open => paused \in wish

(* With both clusters answering, an interrupted failover that still has a  *)
(* VM to move is accepted again in at least one form.                      *)
BothSitesUpCanFinish ==
  pc = "idle" /\ Interrupted /\ srcUp /\ dstUp /\ OpenScope # {} =>
    \E mode \in Modes, force \in BOOLEAN : Admitted(mode, force, ResumeScope)

(* An interrupted failover does not stay half way: it ends, or every VM of *)
(* its run has moved (resume).                                             *)
InterruptedIsSettled ==
  Interrupted ~> (~Interrupted \/ OpenScope = {})

(* A planned failover implements the hand-over it promises: a VM with an   *)
(* activated volume is committed, the data of a disk counts where its VM   *)
(* is, and a VM that would run on both sides would have no owner there.    *)
OwnerOf(v) ==
  IF Activated(v) THEN IF srcVM[v] = "running" THEN "both"
                       ELSE IF tgtVM[v] = "running" THEN "target" ELSE "committed"
  ELSE IF srcVM[v] = "running" THEN "source" ELSE "held"

VMOf(d) == CHOOSE v \in VMs : d \in DisksOf[v]

HandoverOwner == [v \in VMs |-> OwnerOf(v)]
HandoverContent ==
  [d \in Disks |-> IF activated[d] THEN applied[d] ELSE written[VMOf(d)]]

Handover == INSTANCE ReplicationHandover
              WITH owner <- HandoverOwner, content <- HandoverContent

ImplementsHandover == Handover!FairSpec
=============================================================================
