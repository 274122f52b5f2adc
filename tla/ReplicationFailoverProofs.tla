----------------------- MODULE ReplicationFailoverProofs -----------------------
(***************************************************************************)
(* Proofs about the failover of a plan, for any VMs, disks and bounds.     *)
(***************************************************************************)
EXTENDS ReplicationFailover, TLAPS

(* The types alone are not inductive: the pause setting to hand back has    *)
(* been found (OpenRun) before any step hands it back.                     *)
BeforeSet == pc \notin {"idle", "open"} => cmd.before \in OnOff

TypeInv == TypeOK /\ BeforeSet

-----------------------------------------------------------------------------
LEMMA SomeVM == AnyVM \in VMs
  BY DisksAssumption DEF AnyVM

LEMMA NoCmdType == NoCmd \in Locals
  BY SomeVM DEF NoCmd, Locals, OnOff, NoPoints, None

LEMMA NoRunType == NoRun \in Runs
  BY DEF NoRun, Runs, OnOff, NoPoints, None

LEMMA SavedType == CommandOK => Saved \in Runs
  BY DEF CommandOK, Locals, Saved, Runs

LEMMA TypeInit == Init => TypeOK
  BY NoCmdType, NoRunType DEF Init, TypeOK, RegistryOK, SitesOK, DataOK, CommandOK, HistoryOK,
     PlanStates, Origins, NoOrigin, OnOff, NoPoints, None, PCs

(* The new locals an action makes from the old ones are locals. *)
LEMMA StartLocals ==
  ASSUME NEW mode \in {"planned", "unplanned"}, NEW force \in BOOLEAN, NEW accept \in BOOLEAN,
         NEW sel \in SUBSET VMs, NEW live \in BOOLEAN
  PROVE  [NoCmd EXCEPT !.mode = mode, !.force = force, !.accept = accept, !.sel = sel,
                       !.live = live] \in Locals
  BY NoCmdType DEF Locals

LEMMA KeptLocals ==
  ASSUME cmd \in Locals, NEW row \in Runs, NEW before \in OnOff
  PROVE  [cmd EXCEPT !.final = row.final, !.at = row.at, !.before = before] \in Locals
  BY DEF Locals, Runs

LEMMA SurveyLocals ==
  ASSUME cmd \in Locals, NEW done \in SUBSET VMs, NEW armed \in BOOLEAN, NEW todo \in SUBSET VMs
  PROVE  [cmd EXCEPT !.done = done, !.armed = armed, !.todo = todo] \in Locals
  BY DEF Locals

LEMMA EnvironmentType == TypeOK /\ Environment => TypeOK'
<1> SUFFICES ASSUME TypeOK, Environment PROVE TypeOK'
  OBVIOUS
<1>1. ASSUME NEW v \in VMs, GuestWrites(v) PROVE TypeOK'
  BY <1>1 DEF GuestWrites, TypeOK, RegistryOK, SitesOK, DataOK, CommandOK, HistoryOK,
     registry, source, target, links, history, people
<1>2. ASSUME NEW v \in VMs, StartedByHand(v) PROVE TypeOK'
  BY <1>2 DEF StartedByHand, TypeOK, RegistryOK, SitesOK, DataOK, CommandOK, HistoryOK,
     registry, data, target, links
<1>3. ASSUME NEW v \in VMs, NEW d \in Disks, JobBacksUp(v, d) PROVE TypeOK'
  BY <1>3 DEF JobBacksUp, TypeOK, RegistryOK, SitesOK, DataOK, CommandOK, HistoryOK,
     registry, source, target, links, history, people
<1>4. ASSUME NEW d \in Disks, StandbyApplies(d) PROVE TypeOK'
  BY <1>4 DEF StandbyApplies, TypeOK, RegistryOK, SitesOK, DataOK, CommandOK, HistoryOK,
     registry, source, target, links, history, people
<1>5. CASE SourceLost \/ TargetLost
  <2>1. faults' \in Nat
    BY <1>5 DEF SourceLost, TargetLost, Fault, TypeOK, HistoryOK
  <2>2. UNCHANGED <<registry, source, data, target, pc, cmd, people, reported, restarts, pauses>>
        /\ srcUp' \in BOOLEAN /\ dstUp' \in BOOLEAN
    BY <1>5 DEF SourceLost, TargetLost, TypeOK, SitesOK
  <2> QED BY <2>1, <2>2 DEF TypeOK, RegistryOK, SitesOK,
     DataOK, CommandOK, HistoryOK, registry, source, data, target, people
<1>6. CASE SourceBack \/ TargetBack
  BY <1>6 DEF SourceBack, TargetBack, TypeOK, RegistryOK, SitesOK,
     DataOK, CommandOK, HistoryOK, registry, source, data, target, history, people
<1>7. ASSUME NEW x \in OnOff, PauseSet(x) PROVE TypeOK'
  BY <1>7 DEF PauseSet, TypeOK, RegistryOK, SitesOK, DataOK, CommandOK, HistoryOK,
     source, data, target, links
<1> QED
  BY <1>1, <1>2, <1>3, <1>4, <1>5, <1>6, <1>7 DEF Environment

LEMMA BeginType ==
  ASSUME TypeOK, NEW m \in {"planned", "unplanned"}, NEW f \in BOOLEAN, NEW a \in BOOLEAN,
         NEW s \in SUBSET VMs, Begin(m, f, a, s), asked' \in SUBSET VMs,
         wish' \in SUBSET OnOff
  PROVE  TypeOK'
<1>1. cmd' \in Locals
  BY StartLocals DEF Begin, TypeOK, SitesOK
<1> QED
  BY <1>1 DEF Begin, TypeOK, RegistryOK, SitesOK, DataOK, CommandOK, HistoryOK,
     registry, source, data, target, links, history, people, Goto, PCs, ForwardPCs

LEMMA RunFields ==
  ASSUME NEW r \in Runs
  PROVE  /\ r.open \in BOOLEAN /\ r.force \in BOOLEAN
         /\ r.mode \in {"planned", "unplanned"} /\ r.vms \in SUBSET VMs
  BY DEF Runs

LEMMA RequestType == TypeOK /\ Request => TypeOK'
<1> SUFFICES ASSUME TypeOK, Request PROVE TypeOK'
  OBVIOUS
<1>1. CASE Resume
  <2>1. run \in Runs
    BY DEF TypeOK, RegistryOK
  <2>2. ResumeScope \in SUBSET VMs
    BY <2>1, RunFields DEF ResumeScope, OpenScope, Selectable
  <2>3. PICK m \in {"planned", "unplanned"} : m = (IF run.open THEN run.mode ELSE "planned")
    BY <2>1, RunFields
  <2>4. PICK f \in BOOLEAN : f = (run.open /\ run.force)
    BY <2>1, RunFields
  <2>5. Begin(m, f, FALSE, ResumeScope) /\ asked' \in SUBSET VMs
        /\ wish' \in SUBSET OnOff
    BY <1>1, <2>3, <2>4 DEF Resume, WishFound, TypeOK, HistoryOK, RegistryOK
  <2> QED BY <2>2, <2>5, BeginType
<1>2. ASSUME NEW m \in Modes, NEW f \in BOOLEAN, NEW a \in BOOLEAN, NEW s \in SUBSET VMs,
             Failover(m, f, a, s)
      PROVE  TypeOK'
  <2>1. m \in {"planned", "unplanned"}
    BY BoundsAssumption
  <2>2. asked' \in SUBSET VMs /\ wish' \in SUBSET OnOff
    BY <1>2 DEF Failover, WishFound, TypeOK, HistoryOK, RegistryOK
  <2> QED BY <1>2, <2>1, <2>2, BeginType DEF Failover
<1> QED BY <1>1, <1>2 DEF Request

LEMMA ForwardType == TypeOK /\ BeforeSet /\ Forward => TypeOK'
<1> SUFFICES ASSUME TypeOK, BeforeSet, Forward PROVE TypeOK'
  OBVIOUS
<1>1. CASE OpenRun
  <2> DEFINE row == IF run.open THEN run
                    ELSE [NoRun EXCEPT !.open = TRUE, !.mode = cmd.mode, !.force = cmd.force,
                                       !.vms = cmd.sel]
             before == IF row.before = "unset" THEN paused ELSE row.before
  <2>1. row \in Runs
    BY NoRunType DEF TypeOK, RegistryOK, CommandOK, Locals, Runs
  <2>2. before \in OnOff
    BY <2>1 DEF TypeOK, RegistryOK, Runs
  <2>3. run' = row /\ cmd' = [cmd EXCEPT !.final = row.final, !.at = row.at, !.before = before]
    BY <1>1 DEF OpenRun
  <2>4. cmd' \in Locals
    <3> HIDE DEF row, before
    <3> QED BY <2>1, <2>2, <2>3, KeptLocals DEF TypeOK, CommandOK
  <2>5. finalBackup' \in [Disks -> Nat \cup {None}]
    BY <1>1 DEF OpenRun, NoPoints, TypeOK, DataOK
  <2>6. run' \in Runs
    BY <2>1, <2>3
  <2> HIDE DEF row, before
  <2> QED
    BY <1>1, <2>4, <2>5, <2>6 DEF OpenRun, TypeOK, RegistryOK, SitesOK, DataOK, CommandOK,
       HistoryOK, source, target, links, history, people, Goto, PCs, ForwardPCs
<1>2. CASE MarkPlan
  BY <1>2 DEF MarkPlan, TypeOK, RegistryOK, SitesOK, DataOK, CommandOK, HistoryOK, registry,
     source, data, target, links, history, people, Goto, PCs, ForwardPCs, HandlerPCs, PlanStates,
     Origins
<1>3. CASE MarkVMs
  BY <1>3 DEF MarkVMs, TypeOK, RegistryOK, SitesOK, DataOK, CommandOK, HistoryOK, registry,
     source, data, target, links, history, people, Goto, PCs, ForwardPCs, HandlerPCs, PlanStates,
     Origins
<1>4. CASE PauseFollower
  BY <1>4 DEF PauseFollower, TypeOK, RegistryOK, SitesOK, DataOK, CommandOK, HistoryOK, registry,
     source, data, target, links, history, people, Goto, PCs, ForwardPCs, HandlerPCs, OnOff
<1>5. CASE Survey
  <2>1. cmd' \in Locals
    <3> DEFINE done == {v \in cmd.sel : Activated(v)}
               ready == {v \in cmd.sel \ done : FinalApplied(v)}
               todo == IF cmd.mode = "planned" THEN (cmd.sel \ done) \ ready
                       ELSE IF cmd.live THEN cmd.sel \ done ELSE {}
    <3>1. cmd.sel \in SUBSET VMs
      BY DEF TypeOK, CommandOK, Locals
    <3>2. done \in SUBSET VMs /\ todo \in SUBSET VMs /\ (done # {}) \in BOOLEAN
      BY <3>1
    <3>3. cmd' = [cmd EXCEPT !.done = done, !.armed = done # {}, !.todo = todo]
      BY <1>5 DEF Survey
    <3> HIDE DEF done, todo
    <3> QED BY <3>2, <3>3, SurveyLocals DEF TypeOK, CommandOK
  <2> QED
    BY <1>5, <2>1 DEF Survey, TypeOK, RegistryOK, SitesOK, DataOK, CommandOK, HistoryOK,
       registry, source, data, target, links, history, people, Goto, PCs, ForwardPCs
<1>6. ASSUME NEW v \in VMs, FenceNext(v) PROVE TypeOK'
  BY <1>6 DEF FenceNext, TypeOK, RegistryOK, SitesOK, DataOK, CommandOK, HistoryOK, registry,
     source, data, target, links, history, people, Goto, PCs, ForwardPCs, HandlerPCs, Locals
<1>7. CASE StopSource
  BY <1>7 DEF StopSource, TypeOK, RegistryOK, SitesOK, DataOK, CommandOK, HistoryOK, registry,
     source, data, target, links, history, people, Goto, PCs, ForwardPCs, HandlerPCs, Locals
<1>8. CASE DropJob
  BY <1>8 DEF DropJob, TypeOK, RegistryOK, SitesOK, DataOK, CommandOK, HistoryOK, registry,
     source, data, target, links, history, people, Goto, PCs, ForwardPCs, HandlerPCs, Locals
<1>9. CASE FenceDone
  BY <1>9 DEF FenceDone, TypeOK, RegistryOK, SitesOK, DataOK, CommandOK, HistoryOK,
     registry, source, data, target, links, history, people, Goto, PCs, ForwardPCs, HandlerPCs
<1>10. ASSUME NEW f \in [Disks -> 0..MaxWrites], TakeFinal(f) PROVE TypeOK'
  BY <1>10, BoundsAssumption DEF TakeFinal, TypeOK, RegistryOK, SitesOK, DataOK, CommandOK,
     HistoryOK, registry, source, data, target, links, history, people, Goto, PCs, ForwardPCs,
     HandlerPCs, Locals
<1>11. CASE SaveFinal \/ RecordPoints
  BY <1>11, SavedType DEF SaveFinal, RecordPoints, TypeOK, RegistryOK, SitesOK, DataOK,
     CommandOK, HistoryOK, registry, source, data, target, links, history, people, Goto, PCs,
     ForwardPCs, HandlerPCs
<1>12. CASE FinalsApplied \/ CaughtUp
  BY <1>12 DEF FinalsApplied, CaughtUp, TypeOK, RegistryOK, SitesOK, DataOK, CommandOK, HistoryOK,
     registry, source, data, target, links, history, people, Goto, PCs, ForwardPCs, HandlerPCs
<1>13. CASE ReadPoints
  BY <1>13 DEF ReadPoints, TypeOK, RegistryOK, SitesOK, DataOK, CommandOK, HistoryOK, registry,
     source, data, target, links, history, people, Goto, PCs, ForwardPCs, HandlerPCs, MayGo,
     Locals, None
<1>14. ASSUME NEW v \in VMs, LateFence(v) PROVE TypeOK'
  BY <1>14 DEF LateFence, TypeOK, RegistryOK, SitesOK, DataOK, CommandOK, HistoryOK, registry,
     source, data, target, links, history, people, Goto, PCs, ForwardPCs, HandlerPCs, Locals
<1>15. CASE LateFenceDone
  BY <1>15 DEF LateFenceDone, TypeOK, RegistryOK, SitesOK, DataOK, CommandOK, HistoryOK,
     registry, source, data, target, links, history, people, Goto, PCs, ForwardPCs, Locals
<1>25. CASE Arm
  BY <1>25 DEF Arm, TypeOK, RegistryOK, SitesOK, DataOK, CommandOK, HistoryOK,
     registry, source, data, target, links, history, people, Goto, PCs, ForwardPCs, Locals
<1>16. ASSUME NEW d \in Disks, Activate(d) PROVE TypeOK'
  BY <1>16 DEF Activate, TypeOK, RegistryOK, SitesOK, DataOK, CommandOK, HistoryOK,
     registry, source, data, target, links, history, people, Goto, PCs, ForwardPCs, HandlerPCs
<1>17. CASE AllActivated
  BY <1>17 DEF AllActivated, TypeOK, RegistryOK, SitesOK, DataOK, CommandOK, HistoryOK, registry,
     source, data, target, links, history, people, Goto, PCs, ForwardPCs, HandlerPCs, Locals
<1>18. ASSUME NEW v \in VMs, BringUp(v) PROVE TypeOK'
  BY <1>18 DEF BringUp, TypeOK, RegistryOK, SitesOK, DataOK, CommandOK, HistoryOK, registry,
     source, data, target, links, history, people, Goto, PCs, ForwardPCs, HandlerPCs, Locals
<1>19. CASE TagSource
  BY <1>19 DEF TagSource, TypeOK, RegistryOK, SitesOK, DataOK, CommandOK, HistoryOK, registry,
     source, data, target, links, history, people, Goto, PCs, ForwardPCs, HandlerPCs, Locals
<1>20. CASE Land
  BY <1>20 DEF Land, TypeOK, RegistryOK, SitesOK, DataOK, CommandOK, HistoryOK, registry, source,
     data, target, links, history, people, Goto, PCs, ForwardPCs, HandlerPCs, Locals, PlanStates,
     Origins
<1>21. CASE Settle
  BY <1>21 DEF Settle, TypeOK, RegistryOK, SitesOK, DataOK, CommandOK, HistoryOK, registry,
     source, data, target, links, history, people, Goto, PCs, ForwardPCs, HandlerPCs, PlanStates,
     Origins
<1>22. CASE Finish
  BY <1>22 DEF Finish, TypeOK, RegistryOK, SitesOK, DataOK, CommandOK, HistoryOK, registry,
     source, data, target, links, history, people, Goto, PCs, ForwardPCs, HandlerPCs, PlanStates
<1>23. CASE pc = "restore" /\ RestorePaused
  <2>1. paused' \in OnOff
    BY <1>23 DEF RestorePaused, BeforeSet, TypeOK, RegistryOK
  <2> QED
    BY <1>23, <2>1 DEF RestorePaused, TypeOK, RegistryOK, SitesOK, DataOK, CommandOK, HistoryOK,
       registry, source, data, target, links, history, people, Goto, PCs, ForwardPCs
<1>24. CASE CloseRun \/ Unlock
  BY <1>24, NoRunType, NoCmdType DEF CloseRun, Unlock, TypeOK, RegistryOK, SitesOK, DataOK,
     CommandOK, HistoryOK, registry, source, data, target, links, history, people, Goto, PCs,
     ForwardPCs, HandlerPCs
<1> QED
  BY <1>1, <1>2, <1>3, <1>4, <1>5, <1>6, <1>7, <1>8, <1>9, <1>10, <1>11, <1>12, <1>13, <1>14,
     <1>15, <1>16, <1>17, <1>18, <1>19, <1>20, <1>21, <1>22, <1>23, <1>24, <1>25 DEF Forward

LEMMA ToHandlerType == TypeOK /\ ToHandler => CommandOK'
<1> SUFFICES ASSUME TypeOK, ToHandler PROVE CommandOK'
  OBVIOUS
<1>1. Handler \in {"keep", "undo", "unmark"}
  BY DEF Handler
<1>2. PICK s \in SUBSET VMs : cmd' = [cmd EXCEPT !.todo = s]
  BY DEF ToHandler, TypeOK, CommandOK, Locals
<1> QED
  BY <1>1, <1>2 DEF ToHandler, Goto, TypeOK, CommandOK, Locals, PCs, HandlerPCs

LEMMA BackwardType == TypeOK /\ BeforeSet /\ Backward => TypeOK'
<1> SUFFICES ASSUME TypeOK, BeforeSet, Backward PROVE TypeOK'
  OBVIOUS
<1>1. CASE CallFails \/ SkewRefused
  BY <1>1, ToHandlerType DEF CallFails, SkewRefused, TypeOK, RegistryOK, SitesOK, DataOK,
     CommandOK, HistoryOK, registry, source, data, target, links, history, people, Goto, PCs,
     ForwardPCs, HandlerPCs
<1>2. CASE RestartSource
  BY <1>2 DEF RestartSource, TypeOK, RegistryOK, SitesOK, DataOK, CommandOK, HistoryOK, registry,
     source, data, target, links, history, people, Goto, PCs, ForwardPCs, HandlerPCs, Locals
<1>3. CASE UndoDone
  BY <1>3 DEF UndoDone, TypeOK, RegistryOK, SitesOK, DataOK, CommandOK, HistoryOK,
     registry, source, data, target, links, history, people, Goto, PCs, ForwardPCs, HandlerPCs
<1>4. CASE UnmarkVMs
  BY <1>4 DEF UnmarkVMs, TypeOK, RegistryOK, SitesOK, DataOK, CommandOK, HistoryOK, registry,
     source, data, target, links, history, people, Goto, PCs, ForwardPCs, HandlerPCs, PlanStates,
     Origins
<1>5. CASE UnmarkPlan
  BY <1>5 DEF UnmarkPlan, TypeOK, RegistryOK, SitesOK, DataOK, CommandOK, HistoryOK, registry,
     source, data, target, links, history, people, Goto, PCs, ForwardPCs, HandlerPCs, PlanStates,
     Origins
<1>6. CASE UnmarkRefused
  <2>1. res' \in [VMs -> PlanStates] /\ resOrigin' \in [VMs -> Origins]
    BY <1>6 DEF UnmarkRefused, TypeOK, RegistryOK, PlanStates, Origins
  <2> QED
    BY <1>6, <2>1, NoCmdType DEF UnmarkRefused, TypeOK, RegistryOK, SitesOK, DataOK, CommandOK,
       HistoryOK, source, data, target, links, history, people, PCs
<1>7. CASE UncloseRun
  BY <1>7, NoRunType, NoCmdType DEF UncloseRun, TypeOK, RegistryOK, SitesOK, DataOK, CommandOK,
     HistoryOK, registry, source, data, target, links, history, people, Goto, PCs, ForwardPCs,
     HandlerPCs
<1>8. CASE pc = "unrestore" /\ RestorePaused
  <2>1. paused' \in OnOff
    BY <1>8 DEF RestorePaused, BeforeSet, TypeOK, RegistryOK
  <2> QED
    BY <1>8, <2>1 DEF RestorePaused, TypeOK, RegistryOK, SitesOK, DataOK, CommandOK, HistoryOK,
       source, data, target, links, history, people, Goto, PCs, HandlerPCs
<1>9. CASE KeepRun
  BY <1>9, SavedType DEF KeepRun, TypeOK, RegistryOK, SitesOK, DataOK, CommandOK, HistoryOK,
     registry, source, data, target, links, history, people, Goto, PCs, ForwardPCs, HandlerPCs
<1>10. CASE ToError
  <2>1. res' \in [VMs -> PlanStates] /\ resOrigin' \in [VMs -> Origins]
    BY <1>10 DEF ToError, TypeOK, RegistryOK, PlanStates, Origins
  <2>2. plan' \in PlanStates /\ origin' \in Origins
    BY <1>10 DEF ToError, TypeOK, RegistryOK, PlanStates, Origins
  <2> QED
    BY <1>10, <2>1, <2>2, NoCmdType DEF ToError, TypeOK, RegistryOK, SitesOK, DataOK, CommandOK,
       HistoryOK, source, data, target, links, history, people, PCs
<1>11. ASSUME NEW v \in VMs, UndoJob(v) PROVE TypeOK'
  BY <1>11 DEF UndoJob, TypeOK, RegistryOK, SitesOK, DataOK, CommandOK, HistoryOK, registry,
     source, data, target, links, history, people, Goto, PCs, ForwardPCs, HandlerPCs, Locals
<1>12. ASSUME NEW v \in VMs, UndoFails(v) PROVE TypeOK'
  BY <1>12 DEF UndoFails, TypeOK, RegistryOK, SitesOK, DataOK, CommandOK, HistoryOK, registry,
     source, data, target, links, history, people, Goto, PCs, ForwardPCs, HandlerPCs, Locals
<1> QED
  BY <1>1, <1>2, <1>3, <1>4, <1>5, <1>6, <1>7, <1>8, <1>9, <1>10, <1>11, <1>12 DEF Backward

LEMMA FaultType ==
  ASSUME HistoryOK, NEW kind, Fault(kind) PROVE faults' \in Nat
  BY DEF HistoryOK, Fault

LEMMA StopType == TypeOK /\ (Cancel \/ Crash) => TypeOK'
<1> SUFFICES ASSUME TypeOK, Cancel \/ Crash PROVE TypeOK'
  OBVIOUS
<1>1. faults' \in Nat
  BY FaultType DEF Cancel, Crash, TypeOK
<1>2. CommandOK'
  BY ToHandlerType, NoCmdType DEF Cancel, Crash, CommandOK, PCs
<1> QED
  BY <1>1, <1>2 DEF Cancel, Crash, TypeOK, RegistryOK, SitesOK, DataOK, HistoryOK,
     registry, source, data, target, links, people

(* What BeforeSet says past "open". *)
Kept == cmd.before \in OnOff

LEMMA BeforeStep == TypeOK /\ BeforeSet /\ [Next]_vars => BeforeSet'
<1> SUFFICES ASSUME TypeOK, BeforeSet, [Next]_vars, pc' \notin {"idle", "open"}
             PROVE  Kept'
  BY DEF BeforeSet, Kept, Kept
<1>t. cmd \in Locals /\ paused \in OnOff /\ run \in Runs
  BY DEF TypeOK, CommandOK, RegistryOK
<1>1. CASE Environment \/ UNCHANGED vars
  BY <1>1 DEF BeforeSet, Kept, vars, Environment, GuestWrites, StartedByHand, JobBacksUp,
     StandbyApplies, SourceLost, SourceBack, TargetLost, TargetBack, PauseSet
<1>2. ~Request
  BY DEF Request, Resume, Failover, Begin, Goto
<1>3. CASE Forward
  <2>1. CASE OpenRun
    <3> DEFINE row == IF run.open THEN run
                      ELSE [NoRun EXCEPT !.open = TRUE, !.mode = cmd.mode, !.force = cmd.force,
                                         !.vms = cmd.sel]
    <3>1. row.before \in OnOff \cup {"unset"}
      BY <1>t DEF Runs, NoRun
    <3>2. cmd'.before = IF row.before = "unset" THEN paused ELSE row.before
      BY <2>1, <1>t DEF OpenRun, Locals
    <3> HIDE DEF row
    <3> QED BY <3>1, <3>2, <1>t DEF Kept
  <2>2. CASE Survey \/ DropJob \/ ReadPoints \/ LateFenceDone \/ Arm \/ AllActivated
    BY <2>2, <1>t DEF BeforeSet, Kept, Locals, Survey, DropJob, ReadPoints, LateFenceDone, Arm,
       AllActivated
  <2>3. ASSUME NEW v \in VMs, FenceNext(v) \/ LateFence(v) \/ BringUp(v)
        PROVE  Kept'
    BY <2>3, <1>t DEF BeforeSet, Kept, Locals, FenceNext, LateFence, BringUp
  <2>4. ASSUME NEW f \in [Disks -> 0..MaxWrites], TakeFinal(f) PROVE Kept'
    BY <2>4, <1>t DEF BeforeSet, Kept, Locals, TakeFinal
  <2>5. CASE \/ MarkPlan \/ MarkVMs \/ PauseFollower \/ StopSource \/ FenceDone \/ SaveFinal
             \/ FinalsApplied \/ CaughtUp \/ RecordPoints \/ TagSource \/ Land \/ Settle
             \/ Finish \/ CloseRun \/ Unlock
             \/ \E d \in Disks : Activate(d)
    BY <2>5 DEF BeforeSet, Kept, MarkPlan, MarkVMs, PauseFollower, StopSource, FenceDone,
       SaveFinal, FinalsApplied, CaughtUp, RecordPoints, TagSource, Land, Settle, Finish,
       CloseRun, Unlock, Activate
  <2>6. CASE pc = "restore" /\ RestorePaused
    BY <2>6 DEF BeforeSet, Kept, RestorePaused
  <2> QED BY <1>3, <2>1, <2>2, <2>3, <2>4, <2>5, <2>6 DEF Forward
<1>4. CASE Backward \/ Cancel \/ Crash
  <2>1. ASSUME ToHandler, pc \notin {"idle", "open"} PROVE Kept'
    <3>1. PICK s : cmd' = [cmd EXCEPT !.todo = s]
      BY <2>1 DEF ToHandler
    <3> QED BY <2>1, <3>1, <1>t DEF BeforeSet, Kept, Locals
  <2>2. CASE CallFails \/ SkewRefused \/ Cancel
    <3>1. ToHandler /\ pc \notin {"idle", "open"}
      BY <2>2 DEF CallFails, SkewRefused, Cancel, Blocked, ForwardPCs
    <3> QED BY <2>1, <3>1
  <2>3. ASSUME NEW v \in VMs, UndoJob(v) \/ UndoFails(v) PROVE Kept'
    BY <2>3, <1>t DEF BeforeSet, Kept, Locals, UndoJob, UndoFails
  <2>4. CASE RestartSource \/ UndoDone \/ UnmarkVMs \/ UnmarkPlan \/ KeepRun
    BY <2>4 DEF BeforeSet, Kept, RestartSource, UndoDone, UnmarkVMs, UnmarkPlan, KeepRun
  <2>5. CASE UnmarkRefused \/ UncloseRun \/ ToError \/ Crash
    BY <2>5 DEF UnmarkRefused, UncloseRun, ToError, Crash
  <2>6. CASE pc = "unrestore" /\ RestorePaused
    BY <2>6 DEF BeforeSet, Kept, RestorePaused
  <2> QED BY <1>4, <2>2, <2>3, <2>4, <2>5, <2>6 DEF Backward
<1> QED BY <1>1, <1>2, <1>3, <1>4 DEF Next, Rest

LEMMA TypeInvStep == TypeInv /\ [Next]_vars => TypeInv'
<1> SUFFICES ASSUME TypeInv, [Next]_vars PROVE TypeOK'
  BY BeforeStep DEF TypeInv
<1>1. CASE UNCHANGED vars
  BY <1>1 DEF vars, registry, source, data, target, links, history, people,
     TypeInv, TypeOK, RegistryOK, SitesOK, DataOK, CommandOK, HistoryOK
<1>2. CASE Next
  BY <1>1, <1>2, EnvironmentType, RequestType, ForwardType, BackwardType, StopType
     DEF Next, Rest, TypeInv
<1> QED BY <1>1, <1>2

(* Plan, resources, run row, clusters and command keep their types in      *)
(* every behaviour; in particular what is handed back as the pause setting *)
(* is always a setting somebody chose, never an unset one (failover,       *)
(* _restore_paused).                                                       *)
THEOREM TypeCorrect == Spec => []TypeOK
<1>1. Init => TypeInv
  BY TypeInit DEF TypeInv, BeforeSet, Init
<1>2. TypeInv => TypeOK
  BY DEF TypeInv
<1> QED BY <1>1, <1>2, TypeInvStep, PTL DEF Spec

-----------------------------------------------------------------------------
(* What a step may do, variable by variable: the invariants below are about *)
(* a few variables each, and look only at the actions that write them.      *)

(* The labels follow one another, each step by its own action; an exception *)
(* goes to the handler.                                                     *)
Killed == Crash /\ pc' = "idle"
Raised == (Cancel \/ CallFails \/ SkewRefused) /\ ToHandler /\ pc' = Handler
Ends == Killed \/ Raised

ForwardMoves ==
  /\ pc = "idle"     => (Request /\ pc' = "open") \/ pc' = "idle"
  /\ pc = "open"     => \/ OpenRun /\ pc' = "mark"
                        \/ pc' = "open"
                        \/ (Crash \/ Cancel) /\ pc' = "idle"
  /\ pc = "mark"     => (MarkPlan /\ pc' = "marks") \/ pc' = "mark" \/ Ends
  /\ pc = "marks"    => (MarkVMs /\ pc' = "hold") \/ pc' = "marks" \/ Ends
  /\ pc = "hold"     => (PauseFollower /\ pc' = "survey") \/ pc' = "hold" \/ Ends
  /\ pc = "survey"   => (Survey /\ pc' = "fence") \/ pc' = "survey" \/ Ends
  /\ pc = "fence"    => \/ \E v \in VMs : FenceNext(v) /\ pc' = "stop"
                        \/ FenceDone /\ pc' \in {"sync", "apply", "final"}
                        \/ pc' = "fence" \/ Ends
  /\ pc = "stop"     => (StopSource /\ pc' = "job") \/ pc' = "stop" \/ Ends
  /\ pc = "job"      => (DropJob /\ pc' = "fence") \/ pc' = "job" \/ Ends
  /\ pc = "final"    => \/ \E f \in [Disks -> 0..MaxWrites] : TakeFinal(f) /\ pc' = "save"
                        \/ pc' = "final" \/ Ends
  /\ pc = "save"     => (SaveFinal /\ pc' = "apply") \/ pc' = "save" \/ Ends
  /\ pc = "apply"    => (FinalsApplied /\ pc' = "points") \/ pc' = "apply" \/ Ends
  /\ pc = "sync"     => (CaughtUp /\ pc' = "points") \/ pc' = "sync" \/ Ends
  /\ pc = "points"   => (ReadPoints /\ pc' \in {"late", "record"}) \/ pc' = "points" \/ Ends
  /\ pc = "late"     => (LateFenceDone /\ pc' = "record") \/ pc' = "late" \/ Ends
  /\ pc = "record"   => (RecordPoints /\ pc' = "arm") \/ pc' = "record" \/ Ends
  /\ pc = "arm"      => (Arm /\ pc' = "activate") \/ pc' = "arm" \/ Ends
  /\ pc = "activate" => (AllActivated /\ pc' = "bring") \/ pc' = "activate" \/ Ends
  /\ pc = "bring"    => \/ \E v \in VMs : BringUp(v) /\ pc' = "tag"
                        \/ pc' = "bring" \/ Ends
  /\ pc = "tag"      => (TagSource /\ pc' = "land") \/ pc' = "tag" \/ Ends
  /\ pc = "land"     => (Land /\ pc' \in {"settle", "bring"}) \/ pc' = "land" \/ Ends
  /\ pc = "settle"   => (Settle /\ pc' = "finish") \/ pc' = "settle" \/ Ends
  /\ pc = "finish"   => (Finish /\ pc' = "restore") \/ pc' = "finish" \/ Ends
  /\ pc = "restore"  => (RestorePaused /\ pc' = "close") \/ pc' = "restore" \/ Ends
  /\ pc = "close"    => (CloseRun /\ pc' = "unlock") \/ pc' = "close" \/ Ends
  /\ pc = "unlock"   => (Unlock /\ pc' = "idle") \/ pc' = "unlock" \/ Ends

HandlerMoves ==
  /\ pc = "undo"      => \/ \E v \in VMs : UndoJob(v) /\ pc' = "restart"
                         \/ UndoDone /\ pc' = "unmark"
                         \/ pc' = "undo" \/ Killed
  /\ pc = "restart"   => \/ RestartSource /\ pc' = "undo"
                         \/ \E v \in VMs : UndoFails(v) /\ pc' = "undo"
                         \/ pc' = "restart" \/ Killed
  /\ pc = "unmark"    => \/ UnmarkVMs /\ pc' = "unplan"
                         \/ UnmarkRefused /\ pc' = "idle"
                         \/ pc' = "unmark" \/ Killed
  /\ pc = "unplan"    => \/ UnmarkPlan /\ pc' = "unrestore"
                         \/ UnmarkRefused /\ pc' = "idle"
                         \/ pc' = "unplan" \/ Killed
  /\ pc = "unrestore" => (RestorePaused /\ pc' = "unclose") \/ pc' = "unrestore" \/ Killed
  /\ pc = "unclose"   => (UncloseRun /\ pc' = "idle") \/ pc' = "unclose" \/ Killed
  /\ pc = "keep"      => (KeepRun /\ pc' = "fail") \/ pc' = "keep" \/ Killed
  /\ pc = "fail"      => (ToError /\ pc' = "idle") \/ pc' = "fail" \/ Killed

Moves == ForwardMoves /\ HandlerMoves

LEMMA CommandMoves == [Next]_vars => Moves
<1> SUFFICES ASSUME [Next]_vars PROVE Moves
  OBVIOUS
<1>1. CASE Environment \/ UNCHANGED vars \/ Rest
  BY <1>1 DEF Moves, ForwardMoves, HandlerMoves,
     vars, Rest, Environment, GuestWrites, StartedByHand, JobBacksUp,
     StandbyApplies, SourceLost, SourceBack, TargetLost, TargetBack, PauseSet
<1>2. CASE Request \/ Crash
  BY <1>2 DEF Moves, ForwardMoves, HandlerMoves,
     Request, Resume, Failover, Begin, Goto, Crash, Ends, Killed
<1>3. CASE CallFails \/ SkewRefused \/ Cancel
  BY <1>3 DEF Moves, ForwardMoves, HandlerMoves,
     CallFails, SkewRefused, Blocked, Cancel, ToHandler, ForwardPCs, Goto, Ends, Raised
<1>4. ASSUME NEW w \in VMs, FenceNext(w) \/ LateFence(w) \/ BringUp(w) \/ UndoJob(w) \/ UndoFails(w)
      PROVE  Moves
  BY <1>4 DEF Moves, ForwardMoves, HandlerMoves,
     FenceNext, LateFence, BringUp, UndoJob, UndoFails, Goto
<1>5. ASSUME NEW f \in [Disks -> 0..MaxWrites], TakeFinal(f) PROVE Moves
  BY <1>5 DEF Moves, ForwardMoves, HandlerMoves,
     TakeFinal, Goto
<1>6. ASSUME NEW d \in Disks, Activate(d) PROVE Moves
  BY <1>6 DEF Moves, ForwardMoves, HandlerMoves,
     Activate
<1>7. CASE \/ OpenRun \/ MarkPlan \/ MarkVMs \/ PauseFollower \/ Survey \/ StopSource \/ DropJob
           \/ FenceDone \/ SaveFinal \/ FinalsApplied \/ CaughtUp \/ ReadPoints
  BY <1>7 DEF Moves, ForwardMoves, HandlerMoves,
     OpenRun, MarkPlan, MarkVMs, PauseFollower, Survey, StopSource, DropJob, FenceDone,
     SaveFinal, FinalsApplied, CaughtUp, ReadPoints, Goto
<1>8. CASE LateFenceDone \/ RecordPoints \/ Arm \/ AllActivated
  BY <1>8 DEF Moves, ForwardMoves, HandlerMoves,
     LateFenceDone, RecordPoints, Arm, AllActivated, Goto
<1>9. CASE TagSource \/ Land
  <2>1. TagSource => pc = "tag" /\ pc' = "land"
    BY DEF TagSource, Goto
  <2>2. Land => pc = "land" /\ pc' \in {"settle", "bring"}
    BY DEF Land, Goto
  <2> QED BY <1>9, <2>1, <2>2 DEF Moves, ForwardMoves, HandlerMoves
<1>10. CASE Settle \/ Finish \/ CloseRun \/ Unlock
  <2>1. (Settle => pc = "settle" /\ pc' = "finish") /\ (Finish => pc = "finish" /\ pc' = "restore")
    BY DEF Settle, Finish, Goto
  <2>2. (CloseRun => pc = "close" /\ pc' = "unlock") /\ (Unlock => pc = "unlock" /\ pc' = "idle")
    BY DEF CloseRun, Unlock, Goto
  <2> QED BY <1>10, <2>1, <2>2 DEF Moves, ForwardMoves, HandlerMoves, Ends
<1>11. CASE RestorePaused
  <2>1. (pc = "restore" /\ pc' = "close") \/ (pc = "unrestore" /\ pc' = "unclose")
    BY <1>11 DEF RestorePaused, Goto
  <2> QED BY <1>11, <2>1 DEF Moves, ForwardMoves, HandlerMoves
<1>12. CASE \/ RestartSource \/ UndoDone \/ UnmarkVMs \/ UnmarkPlan \/ UnmarkRefused \/ UncloseRun
           \/ KeepRun \/ ToError
  BY <1>12 DEF Moves, ForwardMoves, HandlerMoves,
     RestartSource, UndoDone, UnmarkVMs, UnmarkPlan, UnmarkRefused, UncloseRun, KeepRun,
     ToError, Goto
<1>13. CASE Forward
  BY <1>13, <1>4, <1>5, <1>6, <1>7, <1>8, <1>10, <1>9, <1>11 DEF Forward
<1>14. CASE Backward
  BY <1>14, <1>3, <1>4, <1>12, <1>11 DEF Backward
<1> QED BY <1>1, <1>2, <1>3, <1>13, <1>14 DEF Next

(* The locals of a command are lost at its end; until then each is written  *)
(* in one or two places.                                                    *)
LocalsKept ==
  /\ cmd'.sel = cmd.sel /\ cmd'.mode = cmd.mode
  /\ OpenRun \/ cmd'.before = cmd.before
  /\ OpenRun \/ (\E f \in [Disks -> 0..MaxWrites] : TakeFinal(f)) \/ cmd'.final = cmd.final
  /\ OpenRun \/ ReadPoints \/ cmd'.at = cmd.at
  /\ Survey \/ Arm \/ cmd'.armed = cmd.armed
  /\ Survey \/ cmd'.done = cmd.done
  /\ ReadPoints \/ cmd'.go = cmd.go
  /\ DropJob \/ (\E v \in VMs : LateFence(v)) \/ cmd'.fenced = cmd.fenced

LEMMA KeepsLocals ==
  ASSUME TypeOK, [Next]_vars, pc # "idle", pc' # "idle"
  PROVE  LocalsKept
<1> USE DEF LocalsKept
<1>t. cmd \in Locals
  BY DEF TypeOK, CommandOK
<1>1. CASE Environment \/ UNCHANGED vars \/ Rest
  BY <1>1 DEF vars, Rest, Environment, GuestWrites, StartedByHand, JobBacksUp,
     StandbyApplies, SourceLost, SourceBack, TargetLost, TargetBack, PauseSet
<1>2. ~(Request \/ Crash)
  BY DEF Request, Resume, Failover, Begin, Goto, Crash
<1>3. CASE CallFails \/ SkewRefused \/ Cancel
  <2>1. PICK s : cmd' = [cmd EXCEPT !.todo = s]
    BY <1>3 DEF CallFails, SkewRefused, Cancel, ToHandler
  <2> QED BY <2>1, <1>t DEF Locals
<1>4. ASSUME NEW w \in VMs, FenceNext(w) \/ LateFence(w) \/ BringUp(w) \/ UndoJob(w) \/ UndoFails(w)
      PROVE  LocalsKept
  BY <1>4, <1>t DEF Locals, FenceNext, LateFence, BringUp, UndoJob, UndoFails
<1>5. ASSUME NEW f \in [Disks -> 0..MaxWrites], TakeFinal(f) PROVE LocalsKept
  BY <1>5, <1>t DEF Locals, TakeFinal
<1>6. ASSUME NEW d \in Disks, Activate(d) PROVE LocalsKept
  BY <1>6 DEF Activate
<1>7. CASE OpenRun \/ Survey \/ DropJob \/ ReadPoints \/ LateFenceDone \/ Arm \/ AllActivated
  BY <1>7, <1>t DEF Locals, OpenRun, Survey, DropJob, ReadPoints, LateFenceDone, Arm, AllActivated
<1>8. CASE \/ MarkPlan \/ MarkVMs \/ PauseFollower \/ StopSource \/ FenceDone \/ SaveFinal
           \/ FinalsApplied \/ CaughtUp \/ RecordPoints \/ TagSource \/ Land \/ Settle \/ Finish
           \/ CloseRun \/ Unlock \/ RestorePaused
  BY <1>8 DEF MarkPlan, MarkVMs, PauseFollower, StopSource, FenceDone, SaveFinal, FinalsApplied,
     CaughtUp, RecordPoints, TagSource, Land, Settle, Finish, CloseRun, Unlock, RestorePaused
<1>9. CASE \/ RestartSource \/ UndoDone \/ UnmarkVMs \/ UnmarkPlan \/ UnmarkRefused \/ UncloseRun
           \/ KeepRun \/ ToError
  BY <1>9 DEF RestartSource, UndoDone, UnmarkVMs, UnmarkPlan, UnmarkRefused, UncloseRun, KeepRun,
     ToError
<1> HIDE DEF LocalsKept
<1>10. CASE Forward
  BY <1>10, <1>4, <1>5, <1>6, <1>7, <1>8 DEF Forward
<1>11. CASE Backward
  BY <1>11, <1>3, <1>4, <1>8, <1>9 DEF Backward
<1> QED BY <1>1, <1>2, <1>3, <1>10, <1>11 DEF Next

(* While the command stays where it is nothing happens to them, but in the  *)
(* two loops that have no other label.                                      *)
LEMMA WaitsUnchanged ==
  ASSUME [Next]_vars, pc' = pc
  PROVE  (\E v \in VMs : LateFence(v) \/ UndoFails(v)) \/ UNCHANGED cmd
<1> SUFFICES ASSUME \A w \in VMs : ~LateFence(w) /\ ~UndoFails(w) PROVE UNCHANGED cmd
  OBVIOUS
<1>1. CASE Environment \/ UNCHANGED vars \/ Rest
  BY <1>1 DEF vars, Rest, Environment, GuestWrites, StartedByHand, JobBacksUp,
     StandbyApplies, SourceLost, SourceBack, TargetLost, TargetBack, PauseSet
<1>2. ~(Request \/ Crash)
  BY DEF Request, Resume, Failover, Begin, Goto, Crash
<1>3. ~(CallFails \/ SkewRefused \/ Cancel)
  BY DEF CallFails, SkewRefused, Blocked, Cancel, ToHandler, Handler, ForwardPCs, Goto
<1>4. ASSUME NEW w \in VMs PROVE ~(FenceNext(w) \/ BringUp(w) \/ UndoJob(w))
  BY DEF FenceNext, BringUp, UndoJob, Goto
<1>5. ASSUME NEW f \in [Disks -> 0..MaxWrites] PROVE ~TakeFinal(f)
  BY DEF TakeFinal, Goto
<1>6. ASSUME NEW d \in Disks, Activate(d) PROVE UNCHANGED cmd
  BY <1>6 DEF Activate
<1>7. ~(\/ OpenRun \/ MarkPlan \/ MarkVMs \/ PauseFollower \/ Survey \/ StopSource \/ DropJob
        \/ FenceDone \/ SaveFinal \/ FinalsApplied \/ CaughtUp \/ ReadPoints)
  BY DEF OpenRun, MarkPlan, MarkVMs, PauseFollower, Survey, StopSource, DropJob, FenceDone,
     SaveFinal, FinalsApplied, CaughtUp, ReadPoints, Goto
<1>8. ~(\/ LateFenceDone \/ RecordPoints \/ Arm \/ AllActivated \/ TagSource \/ Land \/ Settle
        \/ Finish \/ CloseRun \/ Unlock \/ RestorePaused)
  BY DEF LateFenceDone, RecordPoints, Arm, AllActivated, TagSource, Land, Settle, Finish,
     CloseRun, Unlock, RestorePaused, Goto
<1>9. ~(\/ RestartSource \/ UndoDone \/ UnmarkVMs \/ UnmarkPlan \/ UnmarkRefused \/ UncloseRun
         \/ KeepRun \/ ToError)
  BY DEF RestartSource, UndoDone, UnmarkVMs, UnmarkPlan, UnmarkRefused, UncloseRun, KeepRun,
     ToError, Goto
<1>10. CASE Forward
  BY <1>10, <1>4, <1>5, <1>6, <1>7, <1>8 DEF Forward
<1>11. ~Backward
  BY <1>3, <1>4, <1>8, <1>9 DEF Backward
<1> QED BY <1>1, <1>2, <1>3, <1>10, <1>11 DEF Next

(* Who writes what. *)
Writers ==
  /\ OpenRun \/ SaveFinal \/ RecordPoints \/ KeepRun \/ CloseRun \/ UncloseRun \/ UNCHANGED run
  /\ MarkVMs \/ Land \/ Settle \/ UnmarkVMs \/ UnmarkRefused \/ ToError \/ UNCHANGED res
  /\ \/ Request \/ (\E x \in OnOff : PauseSet(x)) \/ PauseFollower \/ RestorePaused
     \/ UNCHANGED <<paused, wish>>
  /\ \/ StopSource \/ RestartSource \/ (\E v \in VMs : StartedByHand(v) \/ LateFence(v))
     \/ UNCHANGED srcVM
  /\ RestartSource \/ TagSource \/ (\E v \in VMs : FenceNext(v)) \/ UNCHANGED note
  /\ DropJob \/ (\E v \in VMs : LateFence(v) \/ UndoJob(v)) \/ UNCHANGED job
  /\ (\E v \in VMs : StartedByHand(v)) \/ UNCHANGED <<ran, restarts>>
  /\ (\E v \in VMs : UndoFails(v)) \/ UNCHANGED reported
  /\ (\E v \in VMs : GuestWrites(v)) \/ UNCHANGED written
  /\ \/ \E v \in VMs, d \in Disks : JobBacksUp(v, d)
     \/ \E f \in [Disks -> 0..MaxWrites] : TakeFinal(f)
     \/ UNCHANGED backup
  /\ OpenRun \/ (\E f \in [Disks -> 0..MaxWrites] : TakeFinal(f)) \/ UNCHANGED finalBackup
  /\ (\E d \in Disks : StandbyApplies(d) \/ Activate(d)) \/ UNCHANGED applied
  /\ (\E d \in Disks : Activate(d)) \/ UNCHANGED activated
  /\ (\E v \in VMs : BringUp(v)) \/ UNCHANGED tgtVM
  /\ SourceLost \/ SourceBack \/ UNCHANGED srcUp
  /\ TargetLost \/ TargetBack \/ UNCHANGED dstUp
  /\ Cancel \/ Crash \/ SourceLost \/ TargetLost \/ UNCHANGED faults
  /\ MarkPlan \/ Finish \/ UnmarkPlan \/ ToError \/ UNCHANGED <<plan, origin>>

LEMMA WhoWrites == [Next]_vars => Writers
<1> SUFFICES ASSUME [Next]_vars PROVE Writers
  OBVIOUS
<1> USE DEF Writers, registry, source, data, target, links, people, history
<1>1. CASE UNCHANGED vars \/ Rest \/ SourceLost \/ SourceBack \/ TargetLost \/ TargetBack
  BY <1>1 DEF vars, Rest, SourceLost, SourceBack, TargetLost, TargetBack
<1>2. ASSUME NEW v \in VMs, GuestWrites(v) \/ StartedByHand(v) PROVE Writers
  BY <1>2 DEF GuestWrites, StartedByHand
<1>3. ASSUME NEW v \in VMs, NEW d \in Disks, JobBacksUp(v, d) PROVE Writers
  BY <1>3 DEF JobBacksUp
<1>4. ASSUME NEW d \in Disks, StandbyApplies(d) \/ Activate(d) PROVE Writers
  BY <1>4 DEF StandbyApplies, Activate
<1>5. ASSUME NEW x \in OnOff, PauseSet(x) PROVE Writers
  BY <1>5 DEF PauseSet
<1>6. CASE Request
  BY <1>6 DEF Request, Resume, Failover, Begin
<1>7. CASE Crash \/ CallFails \/ SkewRefused \/ Cancel
  BY <1>7 DEF Crash, CallFails, SkewRefused, Cancel
<1>8. ASSUME NEW v \in VMs, FenceNext(v) \/ LateFence(v) \/ BringUp(v) \/ UndoJob(v) \/ UndoFails(v)
      PROVE  Writers
  BY <1>8 DEF FenceNext, LateFence, BringUp, UndoJob, UndoFails
<1>9. ASSUME NEW f \in [Disks -> 0..MaxWrites], TakeFinal(f) PROVE Writers
  BY <1>9 DEF TakeFinal
<1>10. CASE \/ OpenRun \/ MarkPlan \/ MarkVMs \/ PauseFollower \/ Survey \/ StopSource \/ DropJob
            \/ FenceDone \/ SaveFinal \/ FinalsApplied \/ CaughtUp \/ ReadPoints
  BY <1>10 DEF OpenRun, MarkPlan, MarkVMs, PauseFollower, Survey, StopSource, DropJob, FenceDone,
     SaveFinal, FinalsApplied, CaughtUp, ReadPoints
<1>11. CASE \/ LateFenceDone \/ RecordPoints \/ Arm \/ AllActivated \/ TagSource \/ Land \/ Settle
            \/ Finish \/ CloseRun \/ Unlock \/ RestorePaused
  BY <1>11 DEF LateFenceDone, RecordPoints, Arm, AllActivated, TagSource, Land, Settle, Finish,
     CloseRun, Unlock, RestorePaused
<1>12. CASE \/ RestartSource \/ UndoDone \/ UnmarkVMs \/ UnmarkPlan \/ UnmarkRefused \/ UncloseRun
            \/ KeepRun \/ ToError
  BY <1>12 DEF RestartSource, UndoDone, UnmarkVMs, UnmarkPlan, UnmarkRefused, UncloseRun, KeepRun,
     ToError
<1> HIDE DEF Writers
<1>13. CASE Environment
  BY <1>13, <1>1, <1>2, <1>3, <1>4, <1>5 DEF Environment
<1>14. CASE Forward
  BY <1>14, <1>4, <1>8, <1>9, <1>10, <1>11 DEF Forward
<1>15. CASE Backward
  BY <1>15, <1>7, <1>8, <1>11, <1>12 DEF Backward
<1> QED BY <1>1, <1>6, <1>7, <1>13, <1>14, <1>15 DEF Next

(* When the state of a VM changes, and to what. *)
LEMMA StateMoves ==
  ASSUME TypeOK, [Next]_vars, NEW v \in VMs, res'[v] # res[v]
  PROVE  \/ MarkVMs /\ pc = "marks" /\ v \in cmd.sel /\ res'[v] = "failing_over"
         \/ Land /\ pc = "land" /\ v = cmd.cur /\ res'[v] = "failed_over"
         \/ Settle /\ pc = "settle" /\ v \in cmd.sel \ cmd.go /\ res'[v] = "protected"
         \/ (UnmarkVMs \/ UnmarkRefused) /\ pc = "unmark" /\ v \in cmd.sel /\ res'[v] = "protected"
         \/ ToError /\ pc' = "idle" /\ v \in cmd.sel /\ res[v] # "failed_over" /\ res'[v] = "error"
<1>t. res \in [VMs -> PlanStates] /\ cmd \in Locals
  BY DEF TypeOK, RegistryOK, CommandOK
<1>1. CASE MarkVMs
  BY <1>1, <1>t DEF MarkVMs
<1>2. CASE Land
  BY <1>2, <1>t DEF Land
<1>3. CASE Settle
  BY <1>3, <1>t DEF Settle
<1>4. CASE UnmarkVMs \/ UnmarkRefused
  BY <1>4, <1>t DEF UnmarkVMs, UnmarkRefused
<1>5. CASE ToError
  BY <1>5, <1>t DEF ToError
<1> QED BY <1>1, <1>2, <1>3, <1>4, <1>5, WhoWrites DEF Writers

-----------------------------------------------------------------------------
(* Failed over is served.  The state of a VM is written last: by then the  *)
(* command has seen every volume activated and brought this VM up.         *)

AllOn(vms) == \A v \in vms : \A d \in DisksOf[v] : activated[d]

ServedInv ==
  /\ pc \in {"bring", "tag", "land"} => AllOn(cmd.go) /\ cmd.todo \subseteq cmd.go
  /\ pc \in {"tag", "land"} => cmd.cur \in cmd.go /\ tgtVM[cmd.cur] = "running"
  /\ FailedOverIsServed

(* Nothing takes an activated volume or a target VM back. *)
LEMMA TargetOnlyGrows ==
  ASSUME TypeOK, [Next]_vars
  PROVE  /\ \A d \in Disks : activated[d] => activated'[d]
         /\ \A v \in VMs : tgtVM[v] = "running" => tgtVM'[v] = "running"
<1>1. ASSUME NEW d \in Disks, Activate(d) PROVE \A e \in Disks : activated[e] => activated'[e]
  BY <1>1 DEF Activate, TypeOK, SitesOK
<1>2. ASSUME NEW v \in VMs, BringUp(v)
      PROVE  \A w \in VMs : tgtVM[w] = "running" => tgtVM'[w] = "running"
  BY <1>2 DEF BringUp, TypeOK, SitesOK
<1> QED BY <1>1, <1>2, WhoWrites DEF Writers

(* The loop that brings VMs up is entered with every volume activated, and *)
(* stays within the VMs that may go.                                       *)
LEMMA BringUpStep ==
  ASSUME TypeOK, ServedInv, [Next]_vars, pc' \in {"bring", "tag", "land"}
  PROVE  /\ AllOn(cmd'.go) /\ cmd'.todo \subseteq cmd'.go
         /\ pc' \in {"tag", "land"} => cmd'.cur \in cmd'.go /\ tgtVM'[cmd'.cur] = "running"
<1>t. cmd \in Locals /\ pc \in PCs
  BY DEF TypeOK, CommandOK
<1>0. \/ AllActivated \/ TagSource \/ Land \/ (\E v \in VMs : BringUp(v))
      \/ pc' = pc
  BY <1>t, CommandMoves DEF Moves, ForwardMoves, HandlerMoves, Ends, Killed, Raised, Handler,
     PCs, ForwardPCs, HandlerPCs
<1>1. CASE AllActivated
  BY <1>1, <1>t DEF AllActivated, AllOn, DisksOfAll, Locals, Goto
<1>2. ASSUME NEW v \in VMs, BringUp(v)
      PROVE  /\ AllOn(cmd'.go) /\ cmd'.todo \subseteq cmd'.go
             /\ cmd'.cur \in cmd'.go /\ tgtVM'[cmd'.cur] = "running"
  BY <1>2, <1>t DEF BringUp, ServedInv, Locals, TypeOK, SitesOK
<1>3. CASE TagSource
  BY <1>3 DEF TagSource, ServedInv, target
<1>4. CASE Land
  BY <1>4 DEF Land, ServedInv, Goto
<1>5. CASE pc' = pc
  <2>1. UNCHANGED cmd
    BY <1>5, WaitsUnchanged DEF LateFence, UndoFails
  <2> QED BY <1>5, <2>1, <1>t, TargetOnlyGrows DEF ServedInv, Locals
<1> QED BY <1>0, <1>1, <1>2, <1>3, <1>4, <1>5

LEMMA ServedStep == TypeOK /\ TypeOK' /\ ServedInv /\ [Next]_vars => ServedInv'
<1> SUFFICES ASSUME TypeOK, TypeOK', ServedInv, [Next]_vars PROVE ServedInv'
  OBVIOUS
<1>g. /\ \A d \in Disks : activated[d] => activated'[d]
      /\ \A v \in VMs : tgtVM[v] = "running" => tgtVM'[v] = "running"
  BY TargetOnlyGrows
<1>d. \A v \in VMs : DisksOf[v] \subseteq Disks
  BY DisksAssumption
<1>1. ASSUME pc' \in {"bring", "tag", "land"}
      PROVE  /\ AllOn(cmd.go)' /\ cmd'.todo \subseteq cmd'.go
             /\ pc' \in {"tag", "land"} => cmd'.cur \in cmd'.go /\ tgtVM'[cmd'.cur] = "running"
  <2>1. cmd'.go \in SUBSET VMs
    BY DEF TypeOK, CommandOK, Locals
  <2>2. AllOn(cmd'.go) /\ cmd'.todo \subseteq cmd'.go
        /\ (pc' \in {"tag", "land"} => cmd'.cur \in cmd'.go /\ tgtVM'[cmd'.cur] = "running")
    BY <1>1, BringUpStep
  <2>3. AllOn(cmd.go)'
    BY <2>1, <2>2, <1>g, <1>d DEF AllOn
  <2> QED BY <2>2, <2>3
<1>2. ASSUME NEW v \in VMs, res'[v] = "failed_over"
      PROVE  tgtVM'[v] = "running" /\ \A d \in DisksOf[v] : activated'[d]
  <2>1. tgtVM[v] = "running" /\ \A d \in DisksOf[v] : activated[d]
    <3>1. CASE res[v] = "failed_over"
      BY <3>1 DEF ServedInv, FailedOverIsServed
    <3>2. CASE res[v] # "failed_over"
      <4>1. pc = "land" /\ v = cmd.cur
        BY <3>2, <1>2, StateMoves
      <4> QED BY <4>1 DEF ServedInv, AllOn
    <3> QED BY <3>1, <3>2
  <2> QED BY <2>1, <1>g, <1>d
<1> QED BY <1>1, <1>2 DEF ServedInv, FailedOverIsServed

(* A VM said to have failed over runs on the target with all its standby   *)
(* volumes activated, for any number of VMs and disks, in both modes,      *)
(* after any number of faults (failover, _bring_up).                       *)
THEOREM FailedOverServed == Spec => []FailedOverIsServed
<1>1. Init => TypeInv /\ ServedInv
  BY TypeInit DEF TypeInv, BeforeSet, ServedInv, FailedOverIsServed, Init
<1>2. TypeInv /\ ServedInv /\ [Next]_vars => TypeInv' /\ ServedInv'
  BY TypeInvStep, ServedStep DEF TypeInv
<1>3. ServedInv => FailedOverIsServed
  BY DEF ServedInv
<1> QED BY <1>1, <1>2, <1>3, PTL DEF Spec

-----------------------------------------------------------------------------
(* An interrupted failover keeps its run.  The row is there before the     *)
(* plan is marked, and the plan has moved on before the row is closed.     *)

RunInv ==
  /\ pc = "mark" => run.open
  /\ pc \in {"restore", "close"} => plan \in {"protected", "failed_over"}
  /\ pc \in {"unrestore", "unclose"} => plan = "protected"
  /\ InterruptedKeepsItsRun

LEMMA RunStep == TypeOK /\ RunInv /\ [Next]_vars => RunInv'
<1> SUFFICES ASSUME TypeOK, RunInv, [Next]_vars PROVE RunInv'
  OBVIOUS
<1> USE DEF RunInv, InterruptedKeepsItsRun, Interrupted
<1>1. CASE Environment \/ UNCHANGED vars \/ Rest
  <2>1. UNCHANGED <<plan, origin, run, pc>>
    BY <1>1 DEF vars, registry, Rest, Environment, GuestWrites, StartedByHand, JobBacksUp,
       StandbyApplies, SourceLost, SourceBack, TargetLost, TargetBack, PauseSet
  <2> QED BY <2>1
<1>2. CASE Request \/ Crash
  <2>1. UNCHANGED <<plan, origin, run>> /\ pc' \in {"open", "idle"}
    BY <1>2 DEF registry, Request, Resume, Failover, Begin, Goto, Crash
  <2> QED BY <2>1
<1>3. CASE CallFails \/ SkewRefused \/ Cancel
  <2>1. UNCHANGED <<plan, origin, run>> /\ pc' \in {"keep", "undo", "unmark", "idle"}
    BY <1>3 DEF registry, CallFails, SkewRefused, Cancel, ToHandler, Handler, Goto
  <2> QED BY <2>1
<1>4. CASE OpenRun
  BY <1>4 DEF OpenRun, Goto
<1>5. CASE MarkPlan
  BY <1>5 DEF MarkPlan, Goto
<1>6. CASE SaveFinal \/ RecordPoints \/ KeepRun
  BY <1>6 DEF SaveFinal, RecordPoints, KeepRun, Saved, Goto
<1>7. CASE Finish
  BY <1>7 DEF Finish, Goto
<1>8. CASE UnmarkPlan
  BY <1>8 DEF UnmarkPlan, Goto
<1>9. CASE ToError
  BY <1>9 DEF ToError
<1>10. CASE CloseRun \/ UncloseRun
  BY <1>10 DEF CloseRun, UncloseRun, Goto
<1>11. CASE RestorePaused
  BY <1>11 DEF RestorePaused, Goto
<1>12. ASSUME NEW w \in VMs, FenceNext(w) \/ LateFence(w) \/ BringUp(w) \/ UndoJob(w) \/ UndoFails(w)
       PROVE  RunInv'
  <2>1. UNCHANGED <<plan, origin, run>>
        /\ pc' \notin {"mark", "restore", "close", "unrestore", "unclose"}
    BY <1>12 DEF registry, FenceNext, LateFence, BringUp, UndoJob, UndoFails, Goto
  <2> QED BY <2>1
<1>13. ASSUME NEW f \in [Disks -> 0..MaxWrites], TakeFinal(f) PROVE RunInv'
  BY <1>13 DEF registry, TakeFinal, Goto
<1>14. ASSUME NEW d \in Disks, Activate(d) PROVE RunInv'
  BY <1>14 DEF registry, Activate
<1>15. CASE \/ MarkVMs \/ PauseFollower \/ Survey \/ StopSource \/ DropJob \/ FenceDone
            \/ FinalsApplied \/ CaughtUp \/ ReadPoints \/ LateFenceDone \/ Arm \/ AllActivated
            \/ TagSource \/ Land \/ Settle \/ Unlock
  <2>1. UNCHANGED <<plan, origin, run>>
        /\ pc' \notin {"mark", "restore", "close", "unrestore", "unclose"}
    BY <1>15 DEF registry, MarkVMs, PauseFollower, Survey, StopSource, DropJob, FenceDone,
       FinalsApplied, CaughtUp, ReadPoints, LateFenceDone, Arm, AllActivated, TagSource, Land,
       Settle, Unlock, Goto
  <2> QED BY <2>1
<1>16. CASE RestartSource \/ UndoDone \/ UnmarkVMs \/ UnmarkRefused
  <2>1. UNCHANGED <<plan, origin, run>>
        /\ pc' \notin {"mark", "restore", "close", "unrestore", "unclose"}
    BY <1>16 DEF registry, RestartSource, UndoDone, UnmarkVMs, UnmarkRefused, Goto
  <2> QED BY <2>1
<1> HIDE DEF RunInv
<1>17. CASE Forward
  BY <1>17, <1>4, <1>5, <1>6, <1>7, <1>10, <1>11, <1>12, <1>13, <1>14, <1>15 DEF Forward
<1>18. CASE Backward
  BY <1>18, <1>3, <1>6, <1>8, <1>9, <1>10, <1>11, <1>12, <1>16 DEF Backward
<1> QED BY <1>1, <1>2, <1>3, <1>17, <1>18 DEF Next

(* A failover left in the middle always has its open run row, wherever it  *)
(* stopped and whatever stopped it (failover, the order of its registry    *)
(* writes; resume reads its mode and its VMs there).                       *)
THEOREM InterruptedHasRun == Spec => []InterruptedKeepsItsRun
<1>1. Init => TypeInv /\ RunInv
  BY TypeInit DEF TypeInv, BeforeSet, RunInv, InterruptedKeepsItsRun, Interrupted, Init
<1>2. TypeInv /\ RunInv /\ [Next]_vars => TypeInv' /\ RunInv'
  BY TypeInvStep, RunStep DEF TypeInv
<1>3. RunInv => InterruptedKeepsItsRun
  BY DEF RunInv
<1> QED BY <1>1, <1>2, <1>3, PTL DEF Spec

-----------------------------------------------------------------------------
(* Past the activation the handler keeps, before it the handler undoes; the *)
(* run row is open from the first mark until the command closes it.         *)
Rollback == {"undo", "restart", "unmark", "unplan", "unrestore", "unclose"}
PastArm == {"activate", "bring", "tag", "land", "settle", "finish", "restore", "close", "unlock",
            "keep", "fail"}

ArmedInv ==
  /\ pc \in PastArm => cmd.armed
  /\ pc \in Rollback => ~cmd.armed

LEMMA ArmedStep == TypeOK /\ ArmedInv /\ [Next]_vars => ArmedInv'
<1> SUFFICES ASSUME TypeOK, ArmedInv, [Next]_vars, pc' \in PastArm \cup Rollback
             PROVE  ArmedInv'
  BY DEF ArmedInv
<1>t. cmd \in Locals /\ pc \in PCs
  BY DEF TypeOK, CommandOK
<1>m. Moves
  BY CommandMoves
<1>1. pc \notin {"idle", "open", "mark", "marks", "hold"} \/ pc' = Handler
  BY <1>m DEF Moves, ForwardMoves, Ends, Killed, Raised, PastArm, Rollback
<1>2. CASE Survey \/ Arm
  BY <1>2, <1>t DEF Survey, Arm, Locals, ArmedInv, PastArm, Rollback, Goto
<1>3. pc # "idle" /\ pc' # "idle"
  BY <1>m DEF Moves, ForwardMoves, HandlerMoves, PastArm, Rollback
<1>4. ASSUME cmd'.armed = cmd.armed, ~Arm PROVE ArmedInv'
  <2>1. CASE pc' = Handler
    BY <2>1, <1>4 DEF Handler, ArmedInv, PastArm, Rollback
  <2>2. CASE pc' # Handler
    BY <2>2, <1>1, <1>3, <1>4, <1>t, <1>m DEF Moves, ForwardMoves, HandlerMoves, Ends, Killed,
       Raised, ArmedInv, PastArm, Rollback, PCs, ForwardPCs, HandlerPCs
  <2> QED BY <2>1, <2>2
<1> QED BY <1>2, <1>3, <1>4, KeepsLocals DEF LocalsKept

(* The row of the run is open from the first mark until the command closes *)
(* it, and a closed row is empty.                                          *)
RowInv ==
  /\ pc \notin {"idle", "open", "unlock", "keep"} => run.open
  /\ ~run.open => run = NoRun

LEMMA RowStep == TypeOK /\ ArmedInv /\ RowInv /\ [Next]_vars => RowInv'
<1> SUFFICES ASSUME TypeOK, ArmedInv, RowInv, [Next]_vars PROVE RowInv'
  OBVIOUS
<1>m. Moves
  BY CommandMoves
<1>1. CASE OpenRun
  BY <1>1 DEF OpenRun, RowInv, NoRun
<1>2. CASE SaveFinal \/ RecordPoints \/ KeepRun
  BY <1>2 DEF SaveFinal, RecordPoints, KeepRun, Saved, RowInv
<1>3. CASE CloseRun \/ UncloseRun
  BY <1>3 DEF CloseRun, UncloseRun, RowInv, Goto
<1>4. ASSUME UNCHANGED run, ~OpenRun, ~KeepRun PROVE RowInv'
  <2>1. pc' \notin {"idle", "open", "unlock", "keep"} => run.open
    BY <1>4, <1>m DEF Moves, ForwardMoves, HandlerMoves, Ends, Killed, Raised, Handler, ArmedInv,
       PastArm, RowInv, TypeOK, CommandOK, PCs, ForwardPCs, HandlerPCs
  <2> QED BY <2>1, <1>4 DEF RowInv
<1> QED BY <1>1, <1>2, <1>3, <1>4, WhoWrites DEF Writers

(* The setting that is to be handed back travels from the plan to the      *)
(* locals of the command, from there to its run row and back: wherever the *)
(* command stops, one of them holds a setting somebody chose during this   *)
(* run.                                                                    *)
PauseInv ==
  /\ ~run.open => paused \in wish
  /\ run.open /\ run.before # "unset" => run.before \in wish
  /\ pc = "open" /\ run.before = "unset" => paused \in wish
  /\ pc \notin {"idle", "open"} => cmd.before \in wish
  /\ pc \in {"close", "unclose"} => paused \in wish
  /\ paused = "off" => "off" \in wish

(* One step per writer of the setting: a person, the failover that pauses, *)
(* the hand-back.                                                          *)
LEMMA PauseStep ==
  TypeOK /\ RowInv /\ PauseInv /\ [Next]_vars => PauseInv'
<1> SUFFICES ASSUME TypeOK, RowInv, PauseInv, [Next]_vars PROVE PauseInv'
  OBVIOUS
<1>t. cmd \in Locals /\ paused \in OnOff /\ run \in Runs
  BY DEF TypeOK, CommandOK, RegistryOK
<1>1. CASE Request
  <2>1. pc = "idle" /\ pc' = "open" /\ wish' = WishFound /\ UNCHANGED <<run, paused>>
    BY <1>1 DEF Request, Resume, Failover, Begin, Goto, registry
  <2> QED BY <2>1 DEF PauseInv, RowInv, WishFound, NoRun
<1>2. ASSUME NEW x \in OnOff, PauseSet(x) PROVE PauseInv'
  BY <1>2 DEF PauseSet, PauseInv
<1>3. CASE OpenRun
  <2> DEFINE row == IF run.open THEN run
                    ELSE [NoRun EXCEPT !.open = TRUE, !.mode = cmd.mode, !.force = cmd.force,
                                       !.vms = cmd.sel]
  <2>1. /\ pc = "open" /\ pc' = "mark" /\ run' = row /\ UNCHANGED <<paused, wish>>
        /\ cmd'.before = IF row.before = "unset" THEN paused ELSE row.before
    BY <1>3, <1>t DEF OpenRun, Goto, Locals, history, people
  <2>2. row.before = run.before /\ row.open
    BY DEF RowInv, NoRun
  <2> HIDE DEF row
  <2> QED BY <2>1, <2>2 DEF PauseInv, RowInv, NoRun
<1>4. CASE PauseFollower
  BY <1>4 DEF PauseFollower, PauseInv, RowInv, Goto, history, people
<1>5. CASE RestorePaused
  BY <1>5, <1>t DEF RestorePaused, PauseInv, Goto, history, people, OnOff
<1>6. ASSUME UNCHANGED <<paused, wish>>, ~Request, ~OpenRun, ~RestorePaused PROVE PauseInv'
  <2>m. Moves
    BY CommandMoves
  <2>1. pc' = "open" => pc = "open"
    BY <1>6, <2>m DEF Moves, ForwardMoves, HandlerMoves, Ends, Killed, Raised, Handler, TypeOK,
       CommandOK, PCs, ForwardPCs, HandlerPCs
  <2>2. pc' \in {"close", "unclose"} => pc' = pc
    BY <1>6, <2>m DEF Moves, ForwardMoves, HandlerMoves, Ends, Killed, Raised, Handler, TypeOK,
       CommandOK, PCs, ForwardPCs, HandlerPCs
  <2>3. pc' \notin {"idle", "open"} => pc \notin {"idle", "open"} /\ cmd'.before = cmd.before
    BY <1>6, <2>m, KeepsLocals DEF Moves, ForwardMoves, LocalsKept
  <2>4. CASE UNCHANGED run
    BY <2>4, <2>1, <2>2, <2>3, <1>6 DEF PauseInv
  <2>5. CASE SaveFinal \/ RecordPoints \/ KeepRun
    <3>1. run'.before = cmd.before /\ run'.open /\ pc \notin {"idle", "open"}
      BY <2>5 DEF SaveFinal, RecordPoints, KeepRun, Saved
    <3> QED BY <3>1, <2>1, <2>2, <2>3, <1>6 DEF PauseInv
  <2>6. CASE CloseRun \/ UncloseRun
    BY <2>6, <2>1, <2>2, <2>3, <1>6 DEF CloseRun, UncloseRun, PauseInv, Goto, NoRun
  <2> QED BY <2>4, <2>5, <2>6, <1>6, WhoWrites DEF Writers
<1> QED BY <1>1, <1>2, <1>3, <1>4, <1>5, <1>6, WhoWrites DEF Writers

(* The follower is handed back as a person left it, before the failover or *)
(* while it was interrupted, by whichever command ends it, over any number *)
(* of kills, failures and resumes (failover, _restore_paused); a kill      *)
(* before the run has kept the setting is the exception `wish` makes.      *)
THEOREM PauseGivenBack == Spec => []PauseHandedBack
<1>1. Init => TypeInv /\ ArmedInv /\ RowInv /\ PauseInv
  BY TypeInit DEF TypeInv, BeforeSet, ArmedInv, RowInv, PauseInv, PastArm, Rollback, Init, NoRun
<1>2. TypeInv /\ ArmedInv /\ RowInv /\ PauseInv /\ [Next]_vars
        => TypeInv' /\ ArmedInv' /\ RowInv' /\ PauseInv'
  BY TypeInvStep, ArmedStep, RowStep, PauseStep DEF TypeInv
<1>3. PauseInv => PauseHandedBack
  BY DEF PauseInv, PauseHandedBack
<1> QED BY <1>1, <1>2, <1>3, PTL DEF Spec

-----------------------------------------------------------------------------
(* The states of the VMs of a plan that has only been protected and failed *)
(* over.                                                                   *)
ScopeStates == {"protected", "failing_over", "failed_over", "error"}

(* What a command, and the run it may be resumed from, know of the mode:   *)
(* it is one the plan was given. The VMs are in the states of a failover.  *)
ModeInv ==
  /\ run.open => run.mode \in Modes
  /\ pc # "idle" => cmd.mode \in Modes
  /\ res \in [VMs -> ScopeStates]

LEMMA ModeStep == TypeOK /\ RunInv /\ ModeInv /\ [Next]_vars => ModeInv'
<1> SUFFICES ASSUME TypeOK, RunInv, ModeInv, [Next]_vars PROVE ModeInv'
  OBVIOUS
<1>t. cmd \in Locals /\ run \in Runs
  BY DEF TypeOK, CommandOK, RegistryOK
<1>1. res' \in [VMs -> ScopeStates]
  <2>1. CASE MarkVMs \/ Settle \/ UnmarkVMs
    BY <2>1 DEF MarkVMs, Settle, UnmarkVMs, ModeInv, ScopeStates
  <2>2. CASE UnmarkRefused
    BY <2>2 DEF UnmarkRefused, ModeInv, ScopeStates
  <2>3. CASE Land \/ ToError
    BY <2>3, <1>t DEF Land, ToError, ModeInv, ScopeStates, Locals
  <2> QED BY <2>1, <2>2, <2>3, WhoWrites DEF Writers, ModeInv
<1>2. pc' # "idle" => cmd'.mode \in Modes
  <2>1. CASE pc = "idle" /\ pc' # "idle"
    <3>1. Request
      BY <2>1, CommandMoves DEF Moves, ForwardMoves
    <3>2. CASE Resume
      BY <3>2, <1>t, NoCmdType DEF Resume, Begin, RunInv, InterruptedKeepsItsRun, ModeInv, Locals
    <3>3. ASSUME NEW m \in Modes, NEW f \in BOOLEAN, NEW a \in BOOLEAN, NEW s \in SUBSET VMs,
                 Failover(m, f, a, s)
          PROVE  cmd'.mode \in Modes
      BY <3>3, NoCmdType DEF Failover, Begin, Locals
    <3> QED BY <3>1, <3>2, <3>3 DEF Request
  <2>2. CASE pc # "idle" /\ pc' # "idle"
    BY <2>2, KeepsLocals DEF LocalsKept, ModeInv
  <2> QED BY <2>1, <2>2
<1>3. run'.open => run'.mode \in Modes
  <2>1. CASE OpenRun
    BY <2>1, NoRunType DEF OpenRun, ModeInv, NoRun
  <2>2. CASE SaveFinal \/ RecordPoints \/ KeepRun
    BY <2>2 DEF SaveFinal, RecordPoints, KeepRun, Saved, ModeInv
  <2>3. CASE CloseRun \/ UncloseRun
    BY <2>3 DEF CloseRun, UncloseRun, NoRun
  <2> QED BY <2>1, <2>2, <2>3, WhoWrites DEF Writers, ModeInv
<1> QED BY <1>1, <1>2, <1>3 DEF ModeInv

(* What `resume` checks before it begins again: the state of the plan, the *)
(* VMs of the run, the probes of the two clusters.                         *)
LEMMA AdmittedAgain ==
  ASSUME TypeOK, ModeInv, RunInv, Interrupted, srcUp, dstUp, OpenScope # {}
  PROVE  Admitted(run.mode, run.mode = "unplanned", ResumeScope)
<1>t. run \in Runs
  BY DEF TypeOK, RegistryOK
<1>1. run.open /\ ResumeScope = OpenScope
  BY DEF RunInv, InterruptedKeepsItsRun, ResumeScope
<1>2. Precondition("failover", plan, origin)
  BY DEF Interrupted, Precondition, CommandFrom, ActionState, ErrorExits, ErrorExtraExits,
     PlanTransitions, PlanStates
<1>3. OpenScope \subseteq Selectable
  BY <1>t, RunFields DEF OpenScope, Selectable, ModeInv, ScopeStates
<1>4. ProbesAllow(run.mode, run.mode = "unplanned", OpenScope)
  BY <1>t, RunFields DEF ProbesAllow
<1> QED BY <1>1, <1>2, <1>3, <1>4 DEF Admitted, FitsOpenRun

(* With both clusters up an interrupted failover that still has VMs to     *)
(* move is admitted by resume, in the mode of its run, whatever faults     *)
(* came before and whatever was selected (resume, failover).               *)
THEOREM CanFinish == Spec => []BothSitesUpCanFinish
<1>1. Init => TypeInv /\ RunInv /\ ModeInv
  BY TypeInit DEF TypeInv, BeforeSet, RunInv, InterruptedKeepsItsRun, Interrupted, ModeInv,
     ScopeStates, Init, NoRun
<1>2. TypeInv /\ RunInv /\ ModeInv /\ [Next]_vars => TypeInv' /\ RunInv' /\ ModeInv'
  BY TypeInvStep, RunStep, ModeStep DEF TypeInv
<1>3. TypeInv /\ RunInv /\ ModeInv => BothSitesUpCanFinish
  <2> SUFFICES ASSUME TypeOK, RunInv, ModeInv, pc = "idle", Interrupted, srcUp, dstUp,
                      OpenScope # {}
               PROVE  \E mode \in Modes, force \in BOOLEAN : Admitted(mode, force, ResumeScope)
    BY DEF TypeInv, BothSitesUpCanFinish
  <2>1. run.mode \in Modes
    BY DEF RunInv, InterruptedKeepsItsRun, ModeInv
  <2> QED BY <2>1, AdmittedAgain
<1> QED BY <1>1, <1>2, <1>3, PTL DEF Spec

-----------------------------------------------------------------------------
(* From the marks on, the VMs selected are failing over until they land.    *)
Taking == {"hold", "survey", "fence", "stop", "job", "final", "save", "apply", "sync", "points",
           "late", "record", "arm", "activate"}

TakenInv == pc \in Taking => \A v \in cmd.sel : res[v] = "failing_over"

LEMMA TakenStep == TypeOK /\ TakenInv /\ [Next]_vars => TakenInv'
<1> SUFFICES ASSUME TypeOK, TakenInv, [Next]_vars, pc' \in Taking
             PROVE  \A v \in cmd'.sel : res'[v] = "failing_over"
  BY DEF TakenInv
<1>t. cmd \in Locals /\ pc \in PCs
  BY DEF TypeOK, CommandOK
<1>1. CASE MarkVMs
  BY <1>1, <1>t DEF MarkVMs, Locals
<1>2. pc # "idle" /\ pc' # "idle" /\ (~MarkVMs => pc \in Taking)
  BY <1>t, CommandMoves DEF Moves, ForwardMoves, HandlerMoves, Ends, Killed, Raised, Handler,
     Taking, PCs, ForwardPCs, HandlerPCs
<1>3. MarkVMs \/ Land \/ Settle \/ UnmarkVMs \/ UnmarkRefused \/ ToError \/ UNCHANGED res
  BY WhoWrites DEF Writers
<1>4. ~(Land \/ Settle \/ UnmarkVMs \/ UnmarkRefused \/ ToError)
  BY <1>2 DEF Land, Settle, UnmarkVMs, UnmarkRefused, ToError, Taking, Goto
<1> QED BY <1>1, <1>2, <1>3, <1>4, KeepsLocals DEF LocalsKept, TakenInv

(* A planned failover fences VMs it selected, and takes them all. *)
Chosen == {"late", "record", "arm", "activate", "bring", "tag", "land", "settle"}

PlannedInv ==
  /\ pc \in {"fence", "stop", "job"} => cmd.todo \subseteq cmd.sel
  /\ pc \in Chosen => cmd.go = cmd.sel
  /\ pc \notin {"sync", "late"}

LEMMA PlannedStep ==
  ASSUME TypeOK, ModeInv, PlannedInv, Modes \subseteq {"planned"}, [Next]_vars
  PROVE  PlannedInv'
<1>t. cmd \in Locals /\ pc \in PCs
  BY DEF TypeOK, CommandOK
<1>m. Moves
  BY CommandMoves
<1>2. ASSUME pc' \in {"fence", "stop", "job"} PROVE cmd'.todo \subseteq cmd'.sel
  <2>1. CASE Survey
    BY <2>1, <1>t DEF Survey, Locals
  <2>2. CASE pc' = pc
    BY <2>2, <1>2, WaitsUnchanged DEF PlannedInv, LateFence, UndoFails
  <2>3. CASE DropJob
    <3>1. cmd'.todo \subseteq cmd.todo /\ cmd'.sel = cmd.sel /\ pc = "job"
      BY <2>3, <1>t DEF DropJob, Locals
    <3> QED BY <3>1 DEF PlannedInv
  <2>5. CASE StopSource
    BY <2>5 DEF StopSource, PlannedInv
  <2>4. ASSUME NEW v \in VMs, FenceNext(v) PROVE cmd'.todo \subseteq cmd'.sel
    BY <2>4, <1>t DEF FenceNext, PlannedInv, Locals
  <2> QED
    BY <2>1, <2>2, <2>3, <2>4, <2>5, <1>2, <1>m, <1>t DEF Moves, ForwardMoves, HandlerMoves,
       Ends, Killed, Raised, Handler, PCs, ForwardPCs, HandlerPCs
<1>3. ASSUME pc' \in Chosen PROVE cmd'.go = cmd'.sel
  <2>0. pc # "idle" /\ pc' # "idle" /\ (~ReadPoints => pc \in Chosen)
    BY <1>3, <1>m, <1>t DEF Moves, ForwardMoves, HandlerMoves, Ends, Killed, Raised, Handler,
       Chosen, PCs, ForwardPCs, HandlerPCs
  <2>1. CASE ReadPoints
    <3>1. cmd.mode = "planned"
      BY <2>0 DEF ModeInv
    <3>2. MayGo = cmd.sel
      BY <3>1 DEF MayGo
    <3> QED BY <2>1, <3>2, <1>t DEF ReadPoints, Locals
  <2>2. CASE ~ReadPoints
    BY <2>0, <2>2, KeepsLocals DEF LocalsKept, PlannedInv
  <2> QED BY <2>1, <2>2
<1>4. pc' \notin {"sync", "late"}
  <2>1. cmd.mode = "planned" \/ pc = "idle"
    BY DEF ModeInv
  <2> QED BY <2>1, <1>m, <1>t DEF PlannedInv, Moves, ForwardMoves, HandlerMoves, Ends, Killed,
     Raised, Handler, FenceDone, ReadPoints, Goto, PCs, ForwardPCs, HandlerPCs
<1> QED BY <1>2, <1>3, <1>4 DEF PlannedInv

-----------------------------------------------------------------------------
(* Whoever has an activated volume is past the undo; whoever was reported  *)
(* was not put back, and the report says so.                               *)
Excused(v) == Activated(v) \/ v \in reported

(* The annotation tells what is to be put back. *)
Noted(v) ==
  /\ note[v] = "none" => srcVM[v] = ran[v] /\ job[v]
  /\ note[v] = "Always" => ran[v] = "running"
  /\ note[v] = "Halted" => ran[v] = "stopped" /\ srcVM[v] = "stopped"
  /\ note[v] # "none" => res[v] # "protected"

Clean(v) == note[v] = "none" \/ Excused(v)

(* Between the fence of a VM and its undo the annotation is there; the     *)
(* undo leaves behind only VMs that need no more work.                     *)
UndoneInv ==
  /\ pc \in {"stop", "job"} => note[cmd.cur] # "none"
  /\ pc = "restart" => job[cmd.cur]
  /\ pc = "undo" => \A v \in cmd.sel : v \in cmd.todo \/ Clean(v)
  /\ pc = "restart" => \A v \in cmd.sel : v \in cmd.todo \/ v = cmd.cur \/ Clean(v)
  /\ pc = "unmark" => \A v \in cmd.sel : Clean(v)
  /\ restarts = 0 => \A v \in VMs : Excused(v) \/ Noted(v)

(* Every step keeps, for every VM, what its annotation tells.              *)
LEMMA NotedKept ==
  ASSUME TypeOK, TypeOK', ServedInv, ModeInv, TakenInv, PlannedInv, UndoneInv,
         Modes \subseteq {"planned"}, [Next]_vars, restarts' = 0, NEW v \in VMs
  PROVE  Excused(v)' \/ Noted(v)'
<1>t. cmd \in Locals /\ pc \in PCs /\ restarts \in Nat /\ DisksOf[v] \subseteq Disks
  BY DisksAssumption DEF TypeOK, CommandOK, HistoryOK
<1>s. note \in [VMs -> {"none", "Always", "Halted"}] /\ job \in [VMs -> BOOLEAN]
      /\ srcVM \in [VMs -> {"running", "stopped"}] /\ res \in [VMs -> PlanStates]
      /\ cmd.cur \in VMs /\ reported \subseteq VMs
  BY <1>t DEF TypeOK, SitesOK, RegistryOK, HistoryOK, Locals
<1>0. restarts = 0 /\ UNCHANGED ran /\ ~(\E w \in VMs : StartedByHand(w))
  <2>1. ASSUME NEW w \in VMs PROVE ~StartedByHand(w)
    BY <1>t DEF StartedByHand
  <2> QED BY <2>1, WhoWrites DEF Writers
<1>1. Excused(v) => Excused(v)'
  <2>1. Activated(v) => Activated(v)'
    BY <1>t, TargetOnlyGrows DEF Activated
  <2>2. v \in reported => v \in reported'
    BY WhoWrites DEF Writers, UndoFails
  <2> QED BY <2>1, <2>2 DEF Excused
<1>2. SUFFICES ASSUME ~Excused(v) PROVE Excused(v)' \/ Noted(v)'
  BY <1>1
<1>n. Noted(v)
  BY <1>0, <1>2 DEF UndoneInv
<1>3. CASE StopSource
  BY <1>3, <1>s, <1>n, <1>0 DEF StopSource, UndoneInv, Noted, registry
<1>4. CASE RestartSource
  BY <1>4, <1>s, <1>n, <1>0 DEF RestartSource, UndoneInv, Noted, registry
<1>5. CASE DropJob
  BY <1>5, <1>s, <1>n, <1>0 DEF DropJob, UndoneInv, Noted, registry
<1>6. ASSUME NEW w \in VMs, FenceNext(w) PROVE Noted(v)'
  BY <1>6, <1>s, <1>n, <1>0 DEF FenceNext, TakenInv, PlannedInv, Taking, Noted, registry
<1>7. ASSUME NEW w \in VMs, UndoJob(w) PROVE Noted(v)'
  BY <1>7, <1>s, <1>n, <1>0 DEF UndoJob, Noted, registry
<1>8. CASE TagSource
  <2>1. cmd.cur # v
    BY <1>8, <1>2, DisksAssumption DEF TagSource, ServedInv, AllOn, Excused, Activated
  <2> QED BY <1>8, <2>1, <1>s, <1>n, <1>0 DEF TagSource, Noted, registry
<1>9. CASE UNCHANGED <<note, job, srcVM>>
  <2>1. ASSUME res'[v] = "protected", res[v] # "protected" PROVE note[v] = "none"
    <3>1. \/ MarkVMs \/ Land \/ Settle \/ UnmarkVMs \/ UnmarkRefused \/ ToError \/ UNCHANGED res
      BY WhoWrites DEF Writers
    <3>2. ~(MarkVMs \/ Land \/ ToError)
      BY <2>1, <1>s, <1>t DEF MarkVMs, Land, ToError
    <3>3. ~Settle
      BY <2>1, <1>s DEF Settle, PlannedInv, Chosen
    <3>4. ASSUME UnmarkVMs \/ UnmarkRefused PROVE pc = "unmark" /\ v \in cmd.sel
      BY <3>4, <2>1, <1>s DEF UnmarkVMs, UnmarkRefused
    <3> QED BY <2>1, <3>1, <3>2, <3>3, <3>4, <1>2 DEF UndoneInv, Clean
  <2> QED BY <2>1, <1>9, <1>0, <1>n DEF Noted
<1>10. ASSUME NEW w \in VMs PROVE ~LateFence(w)
  BY DEF LateFence, PlannedInv
<1>11. \/ StopSource \/ RestartSource \/ DropJob \/ TagSource
       \/ \E w \in VMs : FenceNext(w) \/ UndoJob(w)
       \/ UNCHANGED <<note, job, srcVM>>
  BY <1>0, <1>10, WhoWrites DEF Writers
<1> QED BY <1>3, <1>4, <1>5, <1>6, <1>7, <1>8, <1>9, <1>11

(* The loop of the undo: whoever is neither to be undone nor in hand is    *)
(* clean.                                                                  *)
LEMMA UndoneStep ==
  ASSUME TypeOK, TypeOK', ServedInv, ModeInv, TakenInv, PlannedInv, UndoneInv,
         Modes \subseteq {"planned"}, [Next]_vars
  PROVE  UndoneInv'
<1>t. cmd \in Locals /\ pc \in PCs /\ restarts \in Nat /\ restarts' \in Nat
  BY DEF TypeOK, CommandOK, HistoryOK
<1>s. note \in [VMs -> {"none", "Always", "Halted"}] /\ job \in [VMs -> BOOLEAN]
      /\ cmd.cur \in VMs /\ reported \subseteq VMs /\ cmd.sel \subseteq VMs
      /\ \A v \in VMs : DisksOf[v] \subseteq Disks
  BY <1>t, DisksAssumption DEF TypeOK, SitesOK, HistoryOK, Locals
<1>m. Moves
  BY CommandMoves
<1>1. ASSUME NEW v \in VMs, Excused(v) PROVE Excused(v)'
  <2>1. Activated(v) => Activated(v)'
    BY <1>s, TargetOnlyGrows DEF Activated
  <2>2. v \in reported => v \in reported'
    BY WhoWrites DEF Writers, UndoFails
  <2> QED BY <1>1, <2>1, <2>2 DEF Excused
<1>2. ASSUME pc' \in {"stop", "job"} PROVE note'[cmd'.cur] # "none"
  <2>1. ASSUME NEW v \in VMs, FenceNext(v) PROVE note'[cmd'.cur] # "none"
    BY <2>1, <1>t, <1>s DEF FenceNext, Locals
  <2>2. CASE StopSource
    BY <2>2 DEF StopSource, UndoneInv
  <2>3. CASE pc' = pc
    <3>1. UNCHANGED note
      BY <1>2, <2>3, WhoWrites DEF Writers, FenceNext, RestartSource, TagSource, Goto
    <3> QED BY <3>1, <1>2, <2>3, WaitsUnchanged DEF UndoneInv, LateFence, UndoFails
  <2> QED BY <2>1, <2>2, <2>3, <1>2, <1>m, <1>t DEF Moves, ForwardMoves, HandlerMoves, Ends,
     Killed, Raised, Handler, PCs, ForwardPCs, HandlerPCs
<1>3. ASSUME pc' = "restart" PROVE job'[cmd'.cur]
  <2>1. ASSUME NEW v \in VMs, UndoJob(v) PROVE job'[cmd'.cur]
    BY <2>1, <1>t, <1>s DEF UndoJob, Locals
  <2>2. CASE pc' = pc
    <3>1. UNCHANGED job
      BY <1>3, <2>2, WhoWrites DEF Writers, DropJob, LateFence, UndoJob, Goto
    <3> QED BY <3>1, <1>3, <2>2, WaitsUnchanged DEF UndoneInv, LateFence, UndoFails, Goto
  <2> QED BY <2>1, <2>2, <1>3, <1>m, <1>t DEF Moves, ForwardMoves, HandlerMoves, Ends, Killed,
     Raised, Handler, PCs, ForwardPCs, HandlerPCs
<1>4. ASSUME pc' \in {"undo", "restart", "unmark"}, NEW v \in cmd'.sel
      PROVE  Clean(v)' \/ (pc' \in {"undo", "restart"} /\ v \in cmd'.todo)
                       \/ (pc' = "restart" /\ v = cmd'.cur)
  <2>1. pc # "idle" /\ v \in cmd.sel /\ v \in VMs
    BY <1>4, <1>m, <1>s, KeepsLocals DEF Moves, ForwardMoves, LocalsKept
  <2>2. \/ RestartSource \/ UNCHANGED note
    BY <1>4, WhoWrites DEF Writers, TagSource, FenceNext, Goto
  <2>3. Clean(v) => Clean(v)'
    BY <2>1, <2>2, <1>1, <1>s DEF Clean, RestartSource
  <2>4. CASE ToHandler
    <3>1. Handler = "undo" 
      BY <1>4, <2>4, <2>1 DEF ModeInv, ToHandler, Handler, Goto
    <3> QED BY <3>1, <2>4, <2>1, <1>t DEF ToHandler, Locals, Goto
  <2>5. CASE RestartSource
    BY <2>5, <2>1, <2>3, <1>s, <1>4 DEF RestartSource, UndoneInv, Clean, Goto
  <2>6. ASSUME NEW w \in VMs, UndoFails(w)
        PROVE  Clean(v)' \/ (pc' = "undo" /\ v \in cmd'.todo)
    BY <2>6, <2>1, <2>3, <1>t DEF UndoFails, UndoneInv, Clean, Excused, Goto, Locals
  <2>7. ASSUME NEW w \in VMs, UndoJob(w)
        PROVE  Clean(v)' \/ (pc' = "restart" /\ (v \in cmd'.todo \/ v = cmd'.cur))
    BY <2>7, <2>1, <2>3, <1>t DEF UndoJob, UndoneInv, Goto, Locals
  <2>8. CASE UndoDone
    BY <2>8, <2>1, <2>3 DEF UndoDone, UndoneInv
  <2>9. CASE pc' = pc /\ UNCHANGED cmd
    BY <2>9, <2>1, <2>3, <1>4 DEF UndoneInv
  <2>10. CASE pc' = pc
    BY <2>10, <2>6, <2>9, <1>4, WaitsUnchanged DEF LateFence
  <2> QED
    BY <2>4, <2>5, <2>6, <2>7, <2>8, <2>10, <2>1, <1>4, <1>m, <1>t DEF Moves, ForwardMoves,
       HandlerMoves, Ends, Killed, Raised, PCs, ForwardPCs, HandlerPCs
<1>5. restarts' = 0 => \A v \in VMs : Excused(v)' \/ Noted(v)'
  BY NotedKept
<1> QED BY <1>2, <1>3, <1>4, <1>5 DEF UndoneInv, Clean, Excused, Noted

(* A VM that a planned failover did not move, and that is protected again, *)
(* runs or is stopped on the source as it was found, with its backup job,  *)
(* unless the program reported that it could not put it back: after any    *)
(* faults and any number of commands (failover, _stop_source,              *)
(* _rollback_failover).                                                    *)
THEOREM UndoneIsPutBack ==
  ASSUME Modes \subseteq {"planned"} PROVE Spec => []UndonePutsBack
<1> DEFINE Inv == TypeInv /\ ServedInv /\ RunInv /\ ModeInv /\ TakenInv /\ PlannedInv
                /\ UndoneInv
<1>1. Init => Inv
  BY TypeInit DEF TypeInv, BeforeSet, ServedInv, FailedOverIsServed, RunInv,
     InterruptedKeepsItsRun, Interrupted, ModeInv, ScopeStates, TakenInv, PlannedInv, Taking,
     Chosen, UndoneInv, Noted, Init, NoRun
<1>2. Inv /\ [Next]_vars => Inv'
  BY TypeInvStep, ServedStep, RunStep, ModeStep, TakenStep, PlannedStep, UndoneStep DEF TypeInv
<1>3. Inv => UndonePutsBack
  BY DEF UndoneInv, UndonePutsBack, Excused, Noted
<1> HIDE DEF Inv
<1> QED BY <1>1, <1>2, <1>3, PTL DEF Spec

-----------------------------------------------------------------------------
(***************************************************************************)
(* What a failover does to the VMs and their data, whatever the faults:    *)
(* nothing activated is undone or forgotten, a VM runs on one side only,   *)
(* nothing is lost, and a planned failover is a hand-over.                 *)
(***************************************************************************)

(* A VM gets its first activated volume from Activate, as one that may go. *)
LEMMA ActivationMoves ==
  ASSUME TypeOK, [Next]_vars, NEW v \in VMs
  PROVE  /\ Activated(v) => Activated(v)'
         /\ Activated(v)' => \/ Activated(v)
                             \/ /\ pc = "activate" /\ pc' = pc /\ v \in cmd.go
                                /\ UNCHANGED <<cmd, res, run>>
<1>d. DisksOf \in [VMs -> SUBSET Disks] /\ \A w \in VMs : v # w => DisksOf[v] \cap DisksOf[w] = {}
  BY DisksAssumption
<1>t. activated \in [Disks -> BOOLEAN] /\ cmd.go \subseteq VMs
  BY DEF TypeOK, SitesOK, CommandOK, Locals
<1>1. Activated(v) => Activated(v)'
  BY <1>d, TargetOnlyGrows DEF Activated
<1>2. ASSUME NEW d \in Disks, Activate(d), Activated(v)', ~Activated(v)
      PROVE  pc = "activate" /\ pc' = pc /\ UNCHANGED <<cmd, res, run>> /\ v \in cmd.go
  <2>1. d \in DisksOf[v]
    BY <1>2, <1>d, <1>t DEF Activate, Activated
  <2> QED BY <1>2, <2>1, <1>d, <1>t DEF Activate, DisksOfAll, registry
<1>3. (\E d \in Disks : Activate(d)) \/ UNCHANGED activated
  BY WhoWrites DEF Writers
<1>4. UNCHANGED activated => (Activated(v)' => Activated(v))
  BY DEF Activated
<1> QED BY <1>1, <1>2, <1>3, <1>4

-----------------------------------------------------------------------------
(* The VMs a command takes: the selectable ones it was asked for, and with *)
(* an open run all those the run still has to move.                        *)
ScopeInv ==
  /\ pc = "open" => /\ cmd.sel \subseteq Selectable
                    /\ run.open /\ OpenScope # {} => cmd.sel = OpenScope
  /\ pc \notin {"idle", "open"} => OpenScope \subseteq cmd.sel

LEMMA ScopeStep == TypeOK /\ ScopeInv /\ RunInv /\ [Next]_vars => ScopeInv'
<1> SUFFICES ASSUME TypeOK, ScopeInv, RunInv, [Next]_vars PROVE ScopeInv'
  OBVIOUS
<1>t. cmd \in Locals /\ pc \in PCs /\ run \in Runs /\ res \in [VMs -> PlanStates]
  BY DEF TypeOK, CommandOK, RegistryOK
<1>m. Moves
  BY CommandMoves
<1>r. run.vms \in SUBSET VMs /\ cmd.sel \in SUBSET VMs
  BY <1>t, RunFields DEF Locals
<1>1. CASE Request
  <2>1. UNCHANGED <<run, res>> /\ pc' = "open"
    BY <1>1 DEF Request, Resume, Failover, Begin, registry, Goto
  <2>2. cmd'.sel \subseteq Selectable /\ (run.open /\ OpenScope # {} => cmd'.sel = OpenScope)
    <3>1. CASE Resume
      BY <3>1, NoCmdType DEF Resume, Begin, Admitted, FitsOpenRun, Locals
    <3>2. ASSUME NEW m \in Modes, NEW f \in BOOLEAN, NEW a \in BOOLEAN, NEW s \in SUBSET VMs,
                 Failover(m, f, a, s)
          PROVE  /\ cmd'.sel \subseteq Selectable
                 /\ run.open /\ OpenScope # {} => cmd'.sel = OpenScope
      BY <3>2, NoCmdType DEF Failover, Begin, Admitted, FitsOpenRun, Locals
    <3> QED BY <1>1, <3>1, <3>2 DEF Request
  <2> QED BY <2>1, <2>2 DEF ScopeInv, Selectable, OpenScope
<1>2. ASSUME pc' = "open", ~Request
      PROVE  /\ cmd'.sel \subseteq Selectable'
             /\ run'.open /\ OpenScope' # {} => cmd'.sel = OpenScope'
  <2>1. pc = "open"
    BY <1>2, <1>m, <1>t DEF Moves, ForwardMoves, HandlerMoves, Ends, Killed, Raised, Handler,
       PCs, ForwardPCs, HandlerPCs
  <2>2. UNCHANGED cmd
    BY <1>2, <2>1, WaitsUnchanged DEF LateFence, UndoFails
  <2>3. UNCHANGED run
    BY <1>2, <2>1, WhoWrites DEF Writers, OpenRun, SaveFinal, RecordPoints, KeepRun, CloseRun,
       UncloseRun, Goto
  <2>4. UNCHANGED res
    BY <1>2, <2>1, WhoWrites DEF Writers, MarkVMs, Land, Settle, UnmarkVMs, UnmarkRefused,
       ToError, Goto
  <2> QED BY <2>1, <2>2, <2>3, <2>4 DEF ScopeInv, Selectable, OpenScope
<1>3. ASSUME pc' \notin {"idle", "open"}, NEW v \in run'.vms, res'[v] # "failed_over"
      PROVE  v \in cmd'.sel
  <2>1. pc # "idle" /\ cmd'.sel = cmd.sel
    BY <1>3, <1>m, KeepsLocals DEF Moves, ForwardMoves, LocalsKept
  <2>2. CASE SaveFinal \/ RecordPoints \/ KeepRun
    BY <2>2, <2>1, <1>3 DEF SaveFinal, RecordPoints, KeepRun, Saved
  <2>3. CASE CloseRun \/ UncloseRun
    BY <2>3, <1>3 DEF CloseRun, UncloseRun, NoRun
  <2>4. CASE OpenRun
    <3>1. CASE run.open
      BY <3>1, <2>4, <2>1, <1>3 DEF OpenRun, ScopeInv, OpenScope
    <3>2. CASE ~run.open
      BY <3>2, <2>4, <2>1, <1>3, NoRunType DEF OpenRun, NoRun
    <3> QED BY <3>1, <3>2
  <2>5. CASE UNCHANGED run /\ ~OpenRun
    <3>1. pc # "open"
      BY <2>5, <1>3, <1>m, <2>1 DEF Moves, ForwardMoves
    <3>2. CASE res[v] # "failed_over"
      BY <3>1, <3>2, <2>1, <2>5, <1>3 DEF ScopeInv, OpenScope
    <3>3. CASE res[v] = "failed_over"
      BY <3>3, <1>3, <1>r, <2>1, <2>5, StateMoves
    <3> QED BY <3>2, <3>3
  <2> QED BY <2>2, <2>3, <2>4, <2>5, WhoWrites DEF Writers
<1> QED BY <1>1, <1>2, <1>3, <1>t DEF ScopeInv, OpenScope

-----------------------------------------------------------------------------
(* The handler does not look at the volumes: it undoes while its command   *)
(* is not armed, and a command is armed when its survey finds a volume     *)
(* that an earlier one activated. LooksFirst says that no command is sent  *)
(* to undo, before its survey, VMs that have such a volume. It is shown of *)
(* the code further down, as long as only kills and losses of the source   *)
(* happen, or one fault of any kind; with more faults the code breaks it,  *)
(* and the properties below with it.                                       *)
Early == {"mark", "marks", "hold", "survey"}

LooksFirst ==
  pc \in Early /\ (\E v \in cmd.sel : Activated(v)) => pc' \notin {"undo", "unmark"}

LEMMA LooksFirstStutters == [LooksFirst]_vars => LooksFirst
  BY DEF LooksFirst, vars, Early

Fencing == {"fence", "stop", "job", "final", "save", "apply", "sync", "points"}

(* After the survey the flag, and what it noted as done, tell which of the *)
(* VMs have an activated volume.                                           *)
SafeInv ==
  /\ pc \notin {"idle", "open"} \cup Early /\ ~cmd.armed => \A v \in cmd.sel : ~Activated(v)
  /\ pc \in Fencing => cmd.done = {v \in cmd.sel : Activated(v)}
  /\ pc \in Chosen => cmd.go \subseteq cmd.sel /\ \A v \in cmd.sel \ cmd.go : ~Activated(v)

LEMMA SafeStep ==
  TypeOK /\ TypeOK' /\ ArmedInv /\ SafeInv /\ [Next]_vars /\ [LooksFirst]_vars => SafeInv'
<1> SUFFICES ASSUME TypeOK, TypeOK', ArmedInv, SafeInv, [Next]_vars, LooksFirst PROVE SafeInv'
  BY LooksFirstStutters
<1>t. cmd \in Locals /\ pc \in PCs /\ pc' \in PCs
  BY DEF TypeOK, CommandOK
<1>s. cmd.sel \in SUBSET VMs /\ cmd.done \in SUBSET VMs /\ cmd.go \in SUBSET VMs
  BY <1>t DEF Locals
<1>m. Moves
  BY CommandMoves
<1>k. pc # "idle" /\ pc' # "idle" => LocalsKept
  BY KeepsLocals
<1>1. ASSUME pc' \notin {"idle", "open"} \cup Early, ~cmd'.armed, NEW v \in cmd'.sel
      PROVE  ~Activated(v)'
  <2>1. pc \notin {"idle", "open"}
    BY <1>1, <1>m DEF Moves, ForwardMoves, Early
  <2>2. v \in cmd.sel /\ v \in VMs
    BY <2>1, <1>1, <1>k, <1>s DEF LocalsKept
  <2>3. pc # "activate"
    <3> SUFFICES ASSUME pc = "activate" PROVE FALSE
      OBVIOUS
    <3>1. cmd.armed
      BY DEF ArmedInv, PastArm
    <3>2. ~Survey /\ ~Arm
      BY DEF Survey, Arm
    <3> QED BY <3>1, <3>2, <1>1, <1>k DEF LocalsKept
  <2>4. Activated(v)' => Activated(v)
    BY <2>2, <2>3, ActivationMoves
  <2>5. CASE pc \notin Early
    <3>1. ~Arm
      BY <1>1, <1>t DEF Arm, Locals
    <3>2. ~Survey
      BY <2>5 DEF Survey, Early
    <3> QED BY <3>1, <3>2, <2>1, <2>2, <2>4, <2>5, <1>1, <1>k DEF LocalsKept, SafeInv
  <2>6. CASE Survey
    BY <2>6, <2>2, <2>4, <1>1, <1>t DEF Survey, Locals
  <2>7. CASE pc \in Early /\ ~Survey
    <3>1. pc' = Handler
      BY <2>7, <1>1, <1>m DEF Moves, ForwardMoves, Ends, Killed, Raised, Early
    <3>2. ~cmd.armed
      BY <2>7, <2>1, <1>1, <1>k DEF LocalsKept, Arm, Early
    <3> QED BY <3>1, <3>2, <2>2, <2>4, <2>7 DEF Handler, LooksFirst
  <2> QED BY <2>5, <2>6, <2>7
<1>2. ASSUME pc' \in Fencing
      PROVE  cmd'.done = {v \in cmd'.sel : Activated(v)'}
  <2>1. pc \in Fencing \cup {"survey"} /\ pc' # "idle" /\ (pc = "survey" => Survey)
    BY <1>2, <1>m, <1>t DEF Moves, ForwardMoves, HandlerMoves, Ends, Killed, Raised, Handler,
       Fencing, PCs, ForwardPCs, HandlerPCs
  <2>2. cmd'.sel = cmd.sel
    BY <2>1, <1>k DEF LocalsKept, Fencing
  <2>3. \A v \in cmd.sel : Activated(v)' <=> Activated(v)
    BY <2>1, <1>s, ActivationMoves DEF Fencing
  <2>4. CASE Survey
    BY <2>4, <2>2, <2>3, <1>t DEF Survey, Locals
  <2>5. CASE ~Survey
    <3>1. pc \in Fencing /\ cmd'.done = cmd.done
      BY <2>5, <2>1, <1>k DEF LocalsKept, Fencing
    <3> QED BY <3>1, <2>2, <2>3 DEF SafeInv
  <2> QED BY <2>4, <2>5
<1>3. ASSUME pc' \in Chosen
      PROVE  cmd'.go \subseteq cmd'.sel /\ \A v \in cmd'.sel \ cmd'.go : ~Activated(v)'
  <2>1. pc \in Chosen \cup {"points"} /\ pc' # "idle" /\ (pc = "points" => ReadPoints)
    BY <1>3, <1>m, <1>t DEF Moves, ForwardMoves, HandlerMoves, Ends, Killed, Raised, Handler,
       Chosen, PCs, ForwardPCs, HandlerPCs
  <2>2. cmd'.sel = cmd.sel
    BY <2>1, <1>k DEF LocalsKept, Chosen
  <2>3. \A v \in VMs : Activated(v)' => Activated(v) \/ (v \in cmd.go /\ UNCHANGED cmd)
    BY ActivationMoves
  <2>4. CASE ReadPoints
    <3>1. pc = "points" /\ cmd'.go = MayGo
      BY <2>4, <1>t DEF ReadPoints, Locals
    <3>2. cmd.done = {v \in cmd.sel : Activated(v)}
      BY <3>1 DEF SafeInv, Fencing
    <3>3. MayGo \subseteq cmd.sel /\ cmd.done \subseteq MayGo
      BY <3>2 DEF MayGo
    <3>4. \A v \in VMs : Activated(v)' => Activated(v)
      BY <3>1, ActivationMoves
    <3> QED BY <3>1, <3>2, <3>3, <3>4, <2>2, <1>s
  <2>5. CASE ~ReadPoints
    <3>1. pc \in Chosen /\ cmd'.go = cmd.go
      BY <2>5, <2>1, <1>k DEF LocalsKept, Chosen
    <3> QED BY <3>1, <2>2, <2>3, <1>s DEF SafeInv
  <2> QED BY <2>4, <2>5
<1> QED BY <1>1, <1>2, <1>3 DEF SafeInv

-----------------------------------------------------------------------------
(* Every VM that goes lands: what the loop has left is what has not failed *)
(* over. The row names the VMs of the command by then.                     *)
LandingInv ==
  /\ pc \in {"mark", "marks"} => \A v \in cmd.sel : res[v] # "failed_over"
  /\ pc \in {"arm", "activate", "bring", "tag", "land", "settle", "finish", "restore", "close"}
       => run.vms = cmd.sel
  /\ pc \in {"bring", "tag", "land"} =>
       \A v \in cmd.go : \/ v \in cmd.todo \/ res[v] = "failed_over"
                         \/ pc \in {"tag", "land"} /\ v = cmd.cur
  /\ pc = "settle" => \A v \in cmd.go : res[v] = "failed_over"
  /\ pc \in {"finish", "restore", "close"} =>
       \A v \in cmd.sel : res[v] = "failed_over" \/ ~Activated(v)

LEMMA LandingStep ==
  TypeOK /\ ScopeInv /\ SafeInv /\ LandingInv /\ [Next]_vars => LandingInv'
<1> SUFFICES ASSUME TypeOK, ScopeInv, SafeInv, LandingInv, [Next]_vars PROVE LandingInv'
  OBVIOUS
<1>t. cmd \in Locals /\ pc \in PCs /\ res \in [VMs -> PlanStates]
  BY DEF TypeOK, CommandOK, RegistryOK
<1>s. cmd.sel \in SUBSET VMs /\ cmd.go \in SUBSET VMs /\ cmd.cur \in VMs
  BY <1>t DEF Locals
<1>m. Moves
  BY CommandMoves
<1>k. pc # "idle" /\ pc' # "idle" => LocalsKept
  BY KeepsLocals
<1>1. ASSUME pc' \in {"mark", "marks"}, NEW v \in cmd'.sel PROVE res'[v] # "failed_over"
  <2>1. pc \in {"open", "mark", "marks"}
    BY <1>1, <1>m, <1>t DEF Moves, ForwardMoves, HandlerMoves, Ends, Killed, Raised, Handler,
       PCs, ForwardPCs, HandlerPCs
  <2>2. v \in cmd.sel /\ v \in VMs
    BY <2>1, <1>1, <1>k, <1>s DEF LocalsKept
  <2>3. res[v] # "failed_over"
    BY <2>1, <2>2 DEF LandingInv, ScopeInv, Selectable
  <2>4. CASE res'[v] # res[v]
    BY <2>4, <2>1, <2>2, StateMoves
  <2> QED BY <2>3, <2>4
<1>2. ASSUME pc' \in {"arm", "activate", "bring", "tag", "land", "settle", "finish",
                      "restore", "close"}
      PROVE  run'.vms = cmd'.sel
  <2>1. CASE RecordPoints
    BY <2>1 DEF RecordPoints, Saved
  <2>2. CASE ~RecordPoints
    <3>1. pc \in {"arm", "activate", "bring", "tag", "land", "settle", "finish", "restore", "close"}
      BY <2>2, <1>2, <1>m, <1>t DEF Moves, ForwardMoves, HandlerMoves, Ends, Killed, Raised,
         Handler, PCs, ForwardPCs, HandlerPCs
    <3>2. UNCHANGED run
      <4>1. \/ OpenRun \/ SaveFinal \/ RecordPoints \/ KeepRun \/ CloseRun \/ UncloseRun
            \/ UNCHANGED run
        BY WhoWrites DEF Writers
      <4> QED BY <4>1, <2>2, <3>1, <1>2 DEF OpenRun, SaveFinal, KeepRun, CloseRun, UncloseRun,
         Goto
    <3> QED BY <3>1, <3>2, <1>2, <1>k DEF LocalsKept, LandingInv
  <2> QED BY <2>1, <2>2
<1>3. ASSUME pc' \in {"bring", "tag", "land"}, NEW v \in cmd'.go
      PROVE  \/ v \in cmd'.todo \/ res'[v] = "failed_over"
             \/ pc' \in {"tag", "land"} /\ v = cmd'.cur
  <2>1. CASE AllActivated
    BY <2>1, <1>3, <1>t DEF AllActivated, Locals
  <2>2. ASSUME ~AllActivated
        PROVE  pc \in {"bring", "tag", "land"} /\ v \in cmd.go /\ v \in VMs
    <3>1. pc \in {"bring", "tag", "land"}
      BY <2>2, <1>3, <1>m, <1>t DEF Moves, ForwardMoves, HandlerMoves, Ends, Killed, Raised,
         Handler, PCs, ForwardPCs, HandlerPCs
    <3> QED BY <3>1, <1>3, <1>k, <1>s DEF LocalsKept, ReadPoints
  <2>3. ASSUME NEW w \in VMs, BringUp(w) 
        PROVE  v \in cmd'.todo \/ res'[v] = "failed_over" \/ v = cmd'.cur
    <3>1. cmd'.todo = cmd.todo \ {w} /\ cmd'.cur = w /\ UNCHANGED res /\ pc = "bring"
      BY <2>3, <1>t DEF BringUp, Locals, registry
    <3> QED BY <3>1, <2>2 DEF LandingInv, AllActivated
  <2>4. CASE TagSource
    <3>1. UNCHANGED <<res, cmd>> /\ pc = "tag" /\ pc' = "land"
      BY <2>4 DEF TagSource, Goto, registry
    <3> QED BY <3>1, <1>3 DEF LandingInv
  <2>5. CASE Land
    <3>1. res' = [res EXCEPT ![cmd.cur] = "failed_over"] /\ UNCHANGED cmd /\ pc = "land"
      BY <2>5 DEF Land
    <3> QED BY <3>1, <2>2, <1>t, <1>s DEF LandingInv, AllActivated
  <2>6. CASE pc' = pc /\ ~AllActivated
    <3>1. UNCHANGED cmd
      BY <2>6, <1>3, WaitsUnchanged DEF LateFence, UndoFails
    <3>2. UNCHANGED res
      <4>1. MarkVMs \/ Land \/ Settle \/ UnmarkVMs \/ UnmarkRefused \/ ToError \/ UNCHANGED res
        BY WhoWrites DEF Writers
      <4> QED BY <4>1, <2>6, <1>3 DEF MarkVMs, Land, Settle, UnmarkVMs, UnmarkRefused, ToError,
         Goto
    <3> QED BY <3>1, <3>2, <2>6, <1>3, <2>2 DEF LandingInv
  <2>7. \/ AllActivated \/ TagSource \/ Land \/ (pc' = pc /\ ~AllActivated)
        \/ \E w \in VMs : BringUp(w) /\ pc' = "tag"
    BY <2>2, <1>3, <1>m DEF Moves, ForwardMoves, Ends, Killed, Raised, Handler
  <2> QED BY <2>1, <2>3, <2>4, <2>5, <2>6, <2>7
<1>4. ASSUME pc' = "settle", NEW v \in cmd'.go PROVE res'[v] = "failed_over"
  <2>1. CASE Land
    <3>1. /\ res' = [res EXCEPT ![cmd.cur] = "failed_over"] /\ UNCHANGED cmd
          /\ pc = "land" /\ cmd.todo = {}
      BY <2>1, <1>4 DEF Land, Goto
    <3> QED BY <3>1, <1>4, <1>t, <1>s DEF LandingInv
  <2>2. CASE ~Land
    <3>1. pc = "settle"
      BY <2>2, <1>4, <1>m, <1>t DEF Moves, ForwardMoves, HandlerMoves, Ends, Killed, Raised,
         Handler, PCs, ForwardPCs, HandlerPCs
    <3>2. v \in cmd.go /\ v \in VMs
      BY <3>1, <1>4, <1>k, <1>s DEF LocalsKept, ReadPoints
    <3>3. UNCHANGED res
      <4>1. MarkVMs \/ Land \/ Settle \/ UnmarkVMs \/ UnmarkRefused \/ ToError \/ UNCHANGED res
        BY WhoWrites DEF Writers
      <4> QED BY <4>1, <3>1, <1>4 DEF MarkVMs, Land, Settle, UnmarkVMs, UnmarkRefused, ToError,
         Goto
    <3> QED BY <3>1, <3>2, <3>3 DEF LandingInv
  <2> QED BY <2>1, <2>2
<1>5. ASSUME pc' \in {"finish", "restore", "close"}, NEW v \in cmd'.sel
      PROVE  res'[v] = "failed_over" \/ ~Activated(v)'
  <2>1. pc \in {"settle", "finish", "restore", "close"} /\ (pc = "settle" => Settle)
    BY <1>5, <1>m, <1>t DEF Moves, ForwardMoves, HandlerMoves, Ends, Killed, Raised, Handler,
       PCs, ForwardPCs, HandlerPCs
  <2>2. v \in cmd.sel /\ v \in VMs
    BY <2>1, <1>5, <1>k, <1>s DEF LocalsKept
  <2>3. Activated(v)' => Activated(v)
    BY <2>1, <2>2, ActivationMoves
  <2>4. CASE Settle
    BY <2>4, <2>2, <2>3 DEF Settle, LandingInv, SafeInv, Chosen
  <2>5. CASE ~Settle
    <3>1. res'[v] = res[v]
      BY <2>5, <2>1, <2>2, <1>5, StateMoves
    <3> QED BY <3>1, <2>1, <2>2, <2>3, <2>5 DEF LandingInv
  <2> QED BY <2>4, <2>5
<1> QED BY <1>1, <1>2, <1>3, <1>4, <1>5 DEF LandingInv

-----------------------------------------------------------------------------
(* The row is closed when the VMs with an activated volume have failed     *)
(* over, or when none has any.                                             *)
LEMMA KeepsRunStep ==
  ASSUME TypeOK, TypeOK', RowInv, ArmedInv, ScopeInv, SafeInv, LandingInv,
         ActivatedKeepsItsRun, [Next]_vars
  PROVE  ActivatedKeepsItsRun'
<1> SUFFICES ASSUME NEW v \in VMs, Activated(v)', res'[v] # "failed_over"
             PROVE  run'.open /\ v \in run'.vms
  BY DEF ActivatedKeepsItsRun
<1>t. cmd \in Locals /\ pc \in PCs /\ res \in [VMs -> PlanStates] /\ run \in Runs
  BY DEF TypeOK, CommandOK, RegistryOK
<1>s. cmd.sel \in SUBSET VMs /\ cmd.go \in SUBSET VMs /\ cmd.cur \in VMs /\ run.vms \in SUBSET VMs
  BY <1>t, RunFields DEF Locals
<1>1. ASSUME ~Activated(v) PROVE run'.open /\ v \in run'.vms
  <2>1. pc = "activate" /\ UNCHANGED run /\ v \in cmd.go
    BY <1>1, ActivationMoves
  <2> QED BY <2>1 DEF RowInv, LandingInv, SafeInv, Chosen
<1>2. ASSUME Activated(v), res[v] = "failed_over" PROVE FALSE
  BY <1>2, StateMoves DEF LandingInv, SafeInv, ArmedInv, Rollback, Early, Chosen
<1>3. ASSUME Activated(v), res[v] # "failed_over" PROVE run'.open /\ v \in run'.vms
  <2>1. run.open /\ v \in run.vms /\ v \in OpenScope
    BY <1>3 DEF ActivatedKeepsItsRun, OpenScope
  <2>2. CASE OpenRun
    BY <2>2, <2>1 DEF OpenRun
  <2>3. CASE SaveFinal \/ RecordPoints \/ KeepRun
    BY <2>3, <2>1 DEF SaveFinal, RecordPoints, KeepRun, Saved, ScopeInv
  <2>4. ~CloseRun
    BY <2>1, <1>3 DEF CloseRun, ScopeInv, LandingInv
  <2>5. ~UncloseRun
    BY <2>1, <1>3 DEF UncloseRun, ScopeInv, SafeInv, ArmedInv, Rollback, Early
  <2> QED BY <2>1, <2>2, <2>3, <2>4, <2>5, WhoWrites DEF Writers
<1> QED BY <1>1, <1>2, <1>3

(* The steps that make a VM protected again are taken for VMs without an   *)
(* activated volume.                                                       *)
LEMMA NotUndoneStep ==
  ASSUME TypeOK, ArmedInv, SafeInv, TakenInv, ActivatedNotUndone, [Next]_vars
  PROVE  ActivatedNotUndone'
<1> SUFFICES ASSUME NEW v \in VMs, Activated(v)'
             PROVE  res'[v] \in {"failing_over", "failed_over", "error"}
  BY DEF ActivatedNotUndone
<1>1. CASE ~Activated(v)
  <2>1. pc = "activate" /\ UNCHANGED res /\ v \in cmd.go
    BY <1>1, ActivationMoves
  <2> QED BY <2>1 DEF TakenInv, Taking, SafeInv, Chosen
<1>2. CASE Activated(v)
  <2>1. ~(pc = "settle" /\ v \in cmd.sel \ cmd.go) /\ ~(pc = "unmark" /\ v \in cmd.sel)
    BY <1>2 DEF SafeInv, ArmedInv, Rollback, Early, Chosen
  <2> QED BY <2>1, <1>2, StateMoves DEF ActivatedNotUndone
<1> QED BY <1>1, <1>2

-----------------------------------------------------------------------------
(* The recovery points: what the command and its row hold was read on the  *)
(* volume before it was activated.                                         *)
PointsInv ==
  /\ \A d \in Disks : run.at[d] <= applied[d]
  /\ run.open => \A d \in DisksOfAll(run.vms) : activated[d] => run.at[d] # None
  /\ pc \notin {"idle", "open"} => \A d \in Disks : cmd.at[d] <= applied[d]
  /\ pc \notin {"idle", "open"} =>
       \A d \in DisksOfAll(cmd.sel) : activated[d] => cmd.at[d] # None
  /\ pc \in Chosen => \A d \in DisksOfAll(cmd.go) : cmd.at[d] # None
  /\ pc \in {"arm", "activate"} => run.at = cmd.at

(* A standby volume never goes back to an earlier backup. *)
LEMMA AppliedGrows ==
  ASSUME TypeOK, [Next]_vars, NEW d \in Disks
  PROVE  applied[d] \in Nat /\ applied'[d] \in Nat /\ applied[d] <= applied'[d]
<1>t. applied \in [Disks -> Nat] /\ backup \in [Disks -> Nat]
  BY DEF TypeOK, DataOK
<1>1. ASSUME NEW e \in Disks, StandbyApplies(e)
      PROVE  applied'[d] \in Nat /\ applied[d] <= applied'[d]
  BY <1>1, <1>t DEF StandbyApplies
<1>2. ASSUME NEW e \in Disks, Activate(e)
      PROVE  applied'[d] \in Nat /\ applied[d] <= applied'[d]
  BY <1>2, <1>t DEF Activate
<1> QED BY <1>t, <1>1, <1>2, WhoWrites DEF Writers

LEMMA PointTypes ==
  ASSUME TypeOK, NEW d \in Disks
  PROVE  /\ run.at[d] \in Nat \cup {None} /\ cmd.at[d] \in Nat \cup {None}
         /\ run.vms \subseteq VMs /\ cmd.sel \subseteq VMs /\ cmd.go \subseteq VMs
         /\ cmd.done \subseteq VMs
  BY DEF TypeOK, RegistryOK, CommandOK, Runs, Locals

(* What ReadPoints keeps for a disk. *)
LEMMA PointsRead ==
  ASSUME TypeOK, ReadPoints, NEW d \in Disks
  PROVE  /\ pc = "points"
         /\ cmd'.at[d] = IF d \notin DisksOfAll(cmd.sel) \/ Stored(d) THEN cmd.at[d]
                         ELSE IF activated[d] THEN None ELSE applied[d]
<1> DEFINE at == [e \in Disks |->
                    IF e \notin DisksOfAll(cmd.sel) \/ Stored(e) THEN cmd.at[e]
                    ELSE IF activated[e] THEN None ELSE applied[e]]
<1>1. pc = "points" /\ cmd' = [cmd EXCEPT !.go = MayGo, !.at = at, !.todo = MayGo \ cmd.fenced]
  BY DEF ReadPoints
<1> HIDE DEF at
<1>2. cmd'.at = at
  BY <1>1 DEF TypeOK, CommandOK, Locals
<1> QED BY <1>1, <1>2 DEF at

(* The points the command holds stay below what the volumes hold, and those *)
(* of the row are the same or those of the command.                         *)
LEMMA PointsBelow ==
  ASSUME TypeOK, TypeOK', PointsInv, [Next]_vars, NEW d \in Disks
  PROVE  /\ run'.at[d] <= applied'[d]
         /\ pc' \notin {"idle", "open"} => cmd'.at[d] <= applied'[d]
<1>t. cmd \in Locals /\ run \in Runs
  BY DEF TypeOK, CommandOK, RegistryOK
<1>g. applied[d] \in Nat /\ applied'[d] \in Nat /\ applied[d] <= applied'[d]
  BY AppliedGrows
<1>p. run.at[d] \in Nat \cup {None} /\ cmd.at[d] \in Nat \cup {None}
  BY PointTypes
<1>1. run'.at[d] <= applied[d]
  <2>1. CASE OpenRun
    BY <2>1, <1>g, NoRunType DEF OpenRun, NoRun, NoPoints, PointsInv, None
  <2>2. CASE SaveFinal \/ RecordPoints \/ KeepRun
    BY <2>2 DEF SaveFinal, RecordPoints, KeepRun, Saved, PointsInv
  <2>3. CASE CloseRun \/ UncloseRun
    BY <2>3, <1>g DEF CloseRun, UncloseRun, NoRun, NoPoints, None
  <2> QED BY <2>1, <2>2, <2>3, WhoWrites DEF Writers, PointsInv
<1>2. ASSUME pc' \notin {"idle", "open"} PROVE cmd'.at[d] <= applied[d]
  <2>0. pc # "idle" /\ (pc = "open" => OpenRun)
    BY <1>2, CommandMoves DEF Moves, ForwardMoves
  <2>1. CASE OpenRun
    BY <2>1, <1>t, <1>g, NoRunType DEF OpenRun, NoRun, NoPoints, PointsInv, None, Locals
  <2>2. CASE ReadPoints
    <3>1. cmd'.at[d] \in {cmd.at[d], None, applied[d]} /\ pc = "points"
      BY <2>2, PointsRead
    <3>2. cmd.at[d] <= applied[d]
      BY <3>1 DEF PointsInv
    <3> QED BY <3>1, <3>2, <1>g, <1>p DEF None
  <2> QED BY <2>0, <2>1, <2>2, <1>2, KeepsLocals DEF LocalsKept, PointsInv
<1>3. run'.at[d] \in Int /\ cmd'.at[d] \in Int
  BY DEF TypeOK, RegistryOK, CommandOK, Runs, Locals, None
<1> QED BY <1>1, <1>2, <1>3, <1>g

(* The points are complete: read before the activation for every VM that   *)
(* goes, kept for one activated earlier.                                   *)
LEMMA PointsStep ==
  ASSUME TypeOK, TypeOK', RowInv, ScopeInv, ArmedInv, SafeInv, LandingInv,
         ActivatedKeepsItsRun, PointsInv, [Next]_vars
  PROVE  PointsInv'
<1>t. cmd \in Locals /\ run \in Runs /\ pc \in PCs
  BY DEF TypeOK, CommandOK, RegistryOK
<1>d. /\ DisksOf \in [VMs -> SUBSET Disks]
      /\ \A v, w \in VMs : v # w => DisksOf[v] \cap DisksOf[w] = {}
  BY DisksAssumption
<1>s. cmd.sel \in SUBSET VMs /\ cmd.go \in SUBSET VMs /\ run.vms \in SUBSET VMs
  BY <1>t, RunFields DEF Locals
<1>m. Moves
  BY CommandMoves
<1>k. pc # "idle" /\ pc' # "idle" => LocalsKept
  BY KeepsLocals
<1>a. ASSUME NEW d \in Disks, activated'[d], ~activated[d]
      PROVE  pc = "activate" /\ pc' = pc /\ UNCHANGED <<cmd, run>> /\ d \in DisksOfAll(cmd.go)
  <2>1. PICK e \in Disks : Activate(e)
    BY <1>a, WhoWrites DEF Writers
  <2>2. d = e
    BY <1>a, <2>1 DEF Activate, TypeOK, SitesOK
  <2> QED BY <2>1, <2>2 DEF Activate, registry
<1>1. \A d \in Disks : run'.at[d] <= applied'[d]
  BY PointsBelow
<1>2. ASSUME pc' \notin {"idle", "open"}, NEW d \in Disks PROVE cmd'.at[d] <= applied'[d]
  BY <1>2, PointsBelow
<1>3. ASSUME pc' \notin {"idle", "open"}, NEW v \in cmd'.sel, NEW d \in DisksOf[v], activated'[d]
      PROVE  cmd'.at[d] # None
  <2>1. pc # "idle" /\ (pc = "open" => OpenRun) /\ cmd'.sel = cmd.sel
    BY <1>3, <1>m, <1>k DEF Moves, ForwardMoves, LocalsKept
  <2>2. v \in cmd.sel /\ v \in VMs /\ d \in Disks
    BY <2>1, <1>3, <1>s, <1>d
  <2>3. CASE OpenRun
    <3>1. activated[d] /\ Activated(v)
      BY <2>3, <1>a, <1>3, <2>2 DEF OpenRun, Activated
    <3>2. run.open /\ v \in OpenScope
      BY <3>1, <2>2, <2>3 DEF OpenRun, ScopeInv, Selectable, ActivatedKeepsItsRun, OpenScope
    <3>3. run.at[d] # None
      BY <3>1, <3>2, <1>3 DEF PointsInv, OpenScope, DisksOfAll
    <3> QED BY <2>3, <3>2, <3>3, <1>t DEF OpenRun, Locals
  <2>4. CASE ~activated[d]
    BY <2>4, <1>a, <1>3, <2>2 DEF PointsInv, Chosen
  <2>5. CASE activated[d] /\ ~OpenRun
    <3>1. cmd.at[d] # None
      BY <2>5, <2>1, <2>2, <1>3 DEF PointsInv, DisksOfAll
    <3>2. CASE ReadPoints
      <4>1. Activated(v) /\ pc = "points"
        BY <2>5, <3>2, <1>3 DEF Activated, ReadPoints
      <4>2. v \in cmd.done
        BY <4>1, <2>2 DEF SafeInv, Fencing
      <4>3. Stored(d)
        BY <4>2, <3>1, <1>3 DEF Stored, DisksOfAll
      <4> QED BY <4>3, <3>1, <3>2, <2>2, PointsRead
    <3> QED BY <3>1, <3>2, <2>1, <2>5, <1>3, <1>k DEF LocalsKept
  <2> QED BY <2>3, <2>4, <2>5
<1>4. ASSUME pc' \in Chosen, NEW v \in cmd'.go, NEW d \in DisksOf[v] PROVE cmd'.at[d] # None
  <2>1. pc \in Chosen \cup {"points"} /\ pc' # "idle" /\ (pc = "points" => ReadPoints)
    BY <1>4, <1>m, <1>t DEF Moves, ForwardMoves, HandlerMoves, Ends, Killed, Raised, Handler,
       Chosen, PCs, ForwardPCs, HandlerPCs
  <2>2. CASE ReadPoints
    <3>1. pc = "points" /\ cmd'.go = MayGo
      BY <2>2, <1>t DEF ReadPoints, Locals
    <3>2. v \in cmd.sel /\ v \in VMs /\ d \in Disks
      <4>1. cmd.done \subseteq cmd.sel
        BY <3>1 DEF SafeInv, Fencing
      <4>2. v \in MayGo
        BY <3>1, <1>4
      <4> QED BY <4>1, <4>2, <1>4, <1>s, <1>d DEF MayGo
    <3>3. d \in DisksOfAll(cmd.sel)
      BY <3>2, <1>4 DEF DisksOfAll
    <3>4. activated[d] => Stored(d)
      <4> SUFFICES ASSUME activated[d] PROVE Stored(d)
        OBVIOUS
      <4>1. v \in cmd.done
        BY <3>1, <3>2, <1>4 DEF SafeInv, Fencing, Activated
      <4>2. cmd.at[d] # None
        BY <3>1, <3>3 DEF PointsInv
      <4> QED BY <4>1, <4>2, <1>4 DEF Stored, DisksOfAll
    <3>5. applied[d] \in Nat /\ None \notin Nat
      BY <3>2, AppliedGrows DEF None
    <3>6. Stored(d) => cmd.at[d] # None
      BY DEF Stored
    <3> QED BY <2>2, <3>2, <3>3, <3>4, <3>5, <3>6, PointsRead
  <2>3. CASE ~ReadPoints
    BY <2>1, <2>3, <1>4, <1>k DEF LocalsKept, OpenRun, PointsInv, Chosen, DisksOfAll
  <2> QED BY <2>2, <2>3
<1>5. ASSUME pc' \in {"arm", "activate"} PROVE run'.at = cmd'.at
  <2>1. CASE RecordPoints
    BY <2>1 DEF RecordPoints, Saved
  <2>2. CASE ~RecordPoints
    <3>1. pc \in {"arm", "activate"} /\ pc' # "idle"
      BY <2>2, <1>5, <1>m, <1>t DEF Moves, ForwardMoves, HandlerMoves, Ends, Killed, Raised,
         Handler, PCs, ForwardPCs, HandlerPCs
    <3>2. \/ OpenRun \/ SaveFinal \/ RecordPoints \/ KeepRun \/ CloseRun \/ UncloseRun
          \/ UNCHANGED run
      BY WhoWrites DEF Writers
    <3>3. UNCHANGED run
      BY <3>1, <3>2, <2>2 DEF OpenRun, SaveFinal, KeepRun, CloseRun, UncloseRun
    <3>4. cmd'.at = cmd.at
      BY <3>1, <1>k DEF LocalsKept, OpenRun, ReadPoints
    <3> QED BY <3>1, <3>3, <3>4 DEF PointsInv
  <2> QED BY <2>1, <2>2
<1>6. ASSUME run'.open, NEW v \in run'.vms, NEW d \in DisksOf[v], activated'[d]
      PROVE  run'.at[d] # None
  <2>0. v \in VMs /\ d \in Disks
    BY <1>6, <1>d DEF TypeOK, RegistryOK, Runs
  <2>1. CASE ~activated[d]
    BY <2>1, <2>0, <1>6, <1>a DEF PointsInv, Chosen
  <2>2. CASE activated[d] /\ OpenRun
    <3>1. CASE run.open
      BY <3>1, <2>2, <1>6 DEF OpenRun, PointsInv, DisksOfAll
    <3>2. CASE ~run.open
      <4>1. v \in cmd.sel
        BY <3>2, <2>2, <1>6, NoRunType DEF OpenRun, NoRun
      <4> QED BY <4>1, <3>2, <2>0, <2>2, <1>6 DEF OpenRun, ScopeInv, Selectable,
         ActivatedKeepsItsRun, Activated
    <3> QED BY <3>1, <3>2
  <2>3. CASE activated[d] /\ (SaveFinal \/ RecordPoints \/ KeepRun)
    BY <2>3, <1>6 DEF SaveFinal, RecordPoints, KeepRun, Saved, PointsInv, DisksOfAll
  <2>4. CASE CloseRun \/ UncloseRun
    BY <2>4, <1>6 DEF CloseRun, UncloseRun, NoRun
  <2>5. CASE activated[d] /\ UNCHANGED run
    BY <2>5, <1>6 DEF PointsInv, DisksOfAll
  <2> QED BY <2>1, <2>2, <2>3, <2>4, <2>5, WhoWrites DEF Writers
<1> QED BY <1>1, <1>2, <1>3, <1>4, <1>5, <1>6 DEF PointsInv, DisksOfAll

-----------------------------------------------------------------------------
(* The inductive invariant of a command that looks before it undoes.       *)
LookedInv ==
  /\ TypeInv /\ RunInv /\ ArmedInv /\ RowInv /\ ScopeInv /\ TakenInv /\ SafeInv /\ LandingInv
  /\ ActivatedKeepsItsRun /\ ActivatedNotUndone /\ PointsInv

LEMMA LookedInit == Init => LookedInv
<1> SUFFICES ASSUME Init PROVE LookedInv
  OBVIOUS
<1>1. pc = "idle" /\ run = NoRun /\ plan = "protected" /\ \A v \in VMs : res[v] = "protected"
  BY DEF Init
<1>2. \A v \in VMs : ~Activated(v)
  BY DisksAssumption DEF Init, Activated
<1>3. \A d \in Disks : run.at[d] <= applied[d]
  BY DEF Init, NoRun, NoPoints, None
<1>4. ~run.open
  BY <1>1 DEF NoRun
<1>5. TypeInv
  BY TypeInit, <1>1 DEF TypeInv, BeforeSet
<1> QED BY <1>1, <1>2, <1>3, <1>4, <1>5 DEF LookedInv, RunInv, InterruptedKeepsItsRun,
   Interrupted, ArmedInv, PastArm, Rollback, RowInv, ScopeInv, TakenInv, Taking, SafeInv, Early,
   Fencing, Chosen, LandingInv, ActivatedKeepsItsRun, ActivatedNotUndone, PointsInv

LEMMA LookedStep == LookedInv /\ [Next]_vars /\ [LooksFirst]_vars => LookedInv'
BY TypeInvStep, RunStep, ArmedStep, RowStep, ScopeStep, TakenStep, SafeStep, LandingStep,
   KeepsRunStep, NotUndoneStep, PointsStep DEF LookedInv, TypeInv

(* What follows from it, as long as LooksFirst holds.                      *)
LEMMA RunKeptIfLooked == Spec /\ [][LooksFirst]_vars => []ActivatedKeepsItsRun
<1>1. LookedInv => ActivatedKeepsItsRun
  BY DEF LookedInv
<1> QED BY <1>1, LookedInit, LookedStep, PTL DEF Spec

LEMMA StaysIfLooked == Spec /\ [][LooksFirst]_vars => []ActivatedNotUndone
<1>1. LookedInv => ActivatedNotUndone
  BY DEF LookedInv
<1> QED BY <1>1, LookedInit, LookedStep, PTL DEF Spec

LEMMA LossIfLooked == Spec /\ [][LooksFirst]_vars => []LossReportConservative
<1>1. LookedInv => LossReportConservative
  <2>1. LookedInv => DisksOfAll(run.vms) \subseteq Disks
    BY DisksAssumption, RunFields DEF LookedInv, TypeInv, TypeOK, RegistryOK, DisksOfAll
  <2> QED BY <2>1 DEF LookedInv, LossReportConservative, PointsInv
<1> QED BY <1>1, LookedInit, LookedStep, PTL DEF Spec

-----------------------------------------------------------------------------
(* A rollback of VMs with final backups ends with the closing of their     *)
(* run: a rollback left in the middle has started the source again while   *)
(* its run still names final backups, and a second command takes them for  *)
(* good.                                                                   *)
RollbackEnds ==
  pc \in Rollback /\ pc' = "idle"
  /\ (\E v \in cmd.sel : \E d \in DisksOf[v] : finalBackup[d] # None)
    => ~run'.open

LEMMA RollbackEndsStutters == [RollbackEnds]_vars => RollbackEnds
  BY DEF RollbackEnds, vars, Rollback

(* A settled VM is stopped with all it wrote on the standby volumes. A     *)
(* sealed one has final backups only of what it last wrote. A named one    *)
(* has a final backup known to the command for each of its disks.          *)
Settled(v) == srcVM[v] = "stopped" /\ \A d \in DisksOf[v] : applied[d] = written[v]

Sealed(v) ==
  \A d \in DisksOf[v] : finalBackup[d] # None => srcVM[v] = "stopped" /\ finalBackup[d] = written[v]

Named(v) == \A d \in DisksOf[v] : cmd.final[d] # None

(* A standby volume is never ahead of the backups, nor a backup of the     *)
(* guest.                                                                  *)
OrderInv ==
  \A v \in VMs : \A d \in DisksOf[v] : applied[d] <= backup[d] /\ backup[d] <= written[v]

(* What is activated is settled and stays so; only what is activated runs  *)
(* on the target.                                                          *)
StoppedInv ==
  /\ \A v \in VMs : Activated(v) => Settled(v)
  /\ \A v \in VMs : tgtVM[v] = "running" => Activated(v)

(* A rollback starts VMs of its own selection.                             *)
UndoInv ==
  /\ pc = "undo" => cmd.todo \subseteq cmd.sel
  /\ pc = "restart" => cmd.todo \subseteq cmd.sel /\ cmd.cur \in cmd.sel

(* The final backups the command and its row know are those of the         *)
(* clusters, and they stay true: of everything the source wrote, but for   *)
(* VMs a rollback is putting back.                                         *)
FinalsInv ==
  /\ \A d \in Disks : run.final[d] \in {None, finalBackup[d]}
  /\ pc \notin {"idle", "open"} => \A d \in Disks : cmd.final[d] \in {None, finalBackup[d]}
  /\ run.open \/ pc \in {"unlock", "keep"} =>
       \A v \in VMs : Sealed(v) \/ (pc \in Rollback /\ v \in cmd.sel)

(* From the survey to the activation: who is still to be fenced, who is    *)
(* fenced, who has its final backup; in the end all are settled.           *)
FenceInv ==
  /\ pc \in {"open"} \cup Early => cmd.fenced = {}
  /\ pc \in {"fence", "stop", "job", "final"} =>
       /\ \A v \in cmd.fenced : srcVM[v] = "stopped"
       /\ \A v \in cmd.sel \ cmd.done : v \in cmd.todo \/ v \in cmd.fenced \/ Named(v)
  /\ pc = "job" => srcVM[cmd.cur] = "stopped"
  /\ pc = "final" => cmd.todo = {}
  /\ pc \in {"save", "apply"} => \A v \in cmd.sel \ cmd.done : Named(v)
  /\ pc \in {"points", "record", "arm", "activate"} => \A v \in cmd.sel : Settled(v)

VolumesInv == OrderInv /\ StoppedInv /\ UndoInv /\ FinalsInv /\ FenceInv

-----------------------------------------------------------------------------
(* The types these proofs use.                                             *)
LEMMA DataTypes ==
  ASSUME TypeOK, NEW v \in VMs
  PROVE  /\ written[v] \in Nat /\ srcVM[v] \in {"running", "stopped"}
         /\ DisksOf[v] \subseteq Disks
         /\ \A d \in DisksOf[v] : applied[d] \in Nat /\ backup[d] \in Nat
  BY DisksAssumption DEF TypeOK, DataOK, SitesOK

(* A stopped guest writes nothing, and only an undo starts it again. *)
LEMMA StoppedMoves ==
  ASSUME TypeOK, MaxRestarts = 0, PlannedInv, [Next]_vars, NEW v \in VMs, srcVM[v] = "stopped"
  PROVE  /\ written'[v] = written[v]
         /\ srcVM'[v] = "stopped" \/ (RestartSource /\ pc = "restart" /\ v = cmd.cur)
<1>t. srcVM \in [VMs -> {"running", "stopped"}] /\ written \in [VMs -> Nat] /\ restarts \in Nat
  BY DEF TypeOK, SitesOK, DataOK, HistoryOK
<1>1. written'[v] = written[v]
  BY <1>t, WhoWrites DEF Writers, GuestWrites
<1>2. \/ StopSource \/ RestartSource \/ (\E w \in VMs : StartedByHand(w) \/ LateFence(w))
      \/ UNCHANGED srcVM
  BY WhoWrites DEF Writers
<1>3. ASSUME NEW w \in VMs PROVE ~(StartedByHand(w) \/ LateFence(w))
  BY <1>t DEF StartedByHand, LateFence, PlannedInv
<1>4. StopSource => srcVM'[v] = "stopped"
  BY <1>t DEF StopSource
<1>5. RestartSource => srcVM'[v] = "stopped" \/ (pc = "restart" /\ v = cmd.cur)
  BY <1>t DEF RestartSource
<1> QED BY <1>1, <1>2, <1>3, <1>4, <1>5

(* What a standby volume takes is a backup, not older than what it holds.  *)
LEMMA AppliedMoves ==
  ASSUME TypeOK, [Next]_vars, NEW d \in Disks, applied'[d] # applied[d]
  PROVE  applied'[d] = backup[d] /\ applied[d] <= backup[d]
<1>t. applied \in [Disks -> Nat] /\ backup \in [Disks -> Nat]
  BY DEF TypeOK, DataOK
<1>1. ASSUME NEW e \in Disks, StandbyApplies(e)
      PROVE  applied'[d] = backup[d] /\ applied[d] <= backup[d]
  BY <1>1, <1>t DEF StandbyApplies
<1>2. ASSUME NEW e \in Disks, Activate(e) PROVE applied'[d] = backup[d] /\ applied[d] <= backup[d]
  BY <1>2, <1>t DEF Activate
<1> QED BY <1>1, <1>2, WhoWrites DEF Writers

(* A VM that is stopped with all it wrote applied stays so. *)
LEMMA SettledStays ==
  ASSUME TypeOK, MaxRestarts = 0, PlannedInv, OrderInv, [Next]_vars, NEW v \in VMs, Settled(v),
         ~(pc = "restart" /\ v = cmd.cur)
  PROVE  Settled(v)'
<1>1. srcVM'[v] = "stopped" /\ written'[v] = written[v]
  BY StoppedMoves DEF Settled
<1>2. ASSUME NEW d \in DisksOf[v] PROVE applied'[d] = written[v]
  <2>1. d \in Disks /\ applied[d] = written[v] /\ applied[d] \in Nat /\ backup[d] \in Nat
    BY DataTypes DEF Settled
  <2>2. applied[d] <= backup[d] /\ backup[d] <= written[v]
    BY DEF OrderInv
  <2>3. applied'[d] = applied[d] \/ applied'[d] = backup[d]
    BY <2>1, AppliedMoves
  <2> QED BY <2>1, <2>2, <2>3
<1> QED BY <1>1, <1>2 DEF Settled

(* Before the activation all VMs are settled (FenceInv), and what is       *)
(* settled is only left by an undo.                                        *)
LEMMA StoppedStep ==
  ASSUME TypeOK, MaxRestarts = 0, PlannedInv, ServedInv, ArmedInv, SafeInv, UndoInv, OrderInv,
         FenceInv, StoppedInv, [Next]_vars
  PROVE  StoppedInv'
<1>1. ASSUME NEW v \in VMs, Activated(v)' PROVE Settled(v)'
  <2>1. CASE Activated(v)
    BY <2>1, SettledStays DEF StoppedInv, UndoInv, SafeInv, ArmedInv, Rollback, Early
  <2>2. CASE ~Activated(v)
    <3>1. pc = "activate" /\ v \in cmd.sel
      BY <2>2, <1>1, ActivationMoves DEF SafeInv, Chosen
    <3> QED BY <3>1, SettledStays DEF FenceInv
  <2> QED BY <2>1, <2>2
<1>2. ASSUME NEW v \in VMs, tgtVM'[v] = "running" PROVE Activated(v)'
  <2>1. CASE tgtVM[v] = "running"
    BY <2>1, ActivationMoves DEF StoppedInv
  <2>2. CASE tgtVM[v] # "running"
    <3>1. PICK w \in VMs : BringUp(w)
      BY <2>2, <1>2, WhoWrites DEF Writers
    <3>2. v = w
      BY <2>2, <1>2, <3>1 DEF BringUp, TypeOK, SitesOK
    <3>3. v \in cmd.go /\ AllOn(cmd.go)
      BY <3>1, <3>2 DEF BringUp, ServedInv
    <3>4. Activated(v)
      BY <3>3, DisksAssumption DEF AllOn, Activated
    <3> QED BY <3>4, ActivationMoves
  <2> QED BY <2>1, <2>2
<1> QED BY <1>1, <1>2 DEF StoppedInv

-----------------------------------------------------------------------------
(* The one delicate step is the final backup: it is the last write,        *)
(* because a VM with an older final backup is not stopped again under the  *)
(* same run.                                                               *)
LEMMA OrderStep ==
  ASSUME TypeOK, RowInv, OrderInv, FinalsInv, [Next]_vars
  PROVE  OrderInv'
<1> SUFFICES ASSUME NEW v \in VMs, NEW d \in DisksOf[v]
             PROVE  applied'[d] <= backup'[d] /\ backup'[d] <= written'[v]
  BY DEF OrderInv
<1>d. DisksOf \in [VMs -> SUBSET Disks] /\ \A w \in VMs : v # w => DisksOf[v] \cap DisksOf[w] = {}
  BY DisksAssumption
<1>t. backup \in [Disks -> Nat] /\ applied \in [Disks -> Nat] /\ written \in [VMs -> Nat]
  BY DEF TypeOK, DataOK
<1>o. d \in Disks /\ applied[d] <= backup[d] /\ backup[d] <= written[v]
  BY <1>d DEF OrderInv
<1>1. ASSUME NEW w \in VMs, GuestWrites(w) PROVE written'[v] \in Nat /\ written[v] <= written'[v]
  BY <1>1, <1>t DEF GuestWrites
<1>2. written'[v] \in Nat /\ written[v] <= written'[v]
  BY <1>1, <1>t, WhoWrites DEF Writers
<1>3. ASSUME NEW w \in VMs, NEW e \in Disks, JobBacksUp(w, e)
      PROVE  backup'[d] \in {backup[d], written[v]}
  BY <1>3, <1>t, <1>d DEF JobBacksUp
<1>4. ASSUME NEW f \in [Disks -> 0..MaxWrites], TakeFinal(f)
      PROVE  backup'[d] \in {backup[d], written[v]}
  <2>1. pc = "final" /\ cmd.fenced \subseteq VMs
    BY <1>4 DEF TakeFinal, TypeOK, CommandOK, Locals
  <2>2. backup'[d] = backup[d] \/ ((\E w \in cmd.fenced : d \in DisksOf[w]) /\ backup'[d] = f[d])
    <3>1. backup' = [e \in Disks |-> IF e \in DisksOfAll(cmd.fenced) /\ f[e] > backup[e] THEN f[e]
                                     ELSE backup[e]]
      BY <1>4, Zenon DEF TakeFinal
    <3> QED BY <3>1, <1>o DEF DisksOfAll
  <2>3. ASSUME NEW w \in cmd.fenced, d \in DisksOf[w] PROVE f[d] = written[v]
    <3>1. w = v
      BY <2>3, <2>1, <1>d
    <3>2. Sealed(v)
      BY <2>1 DEF RowInv, FinalsInv, Rollback
    <3>3. f[d] = written[v] \/ (finalBackup[d] # None /\ f[d] = finalBackup[d])
      BY <3>1, <2>3, <1>4 DEF TakeFinal
    <3> QED BY <3>2, <3>3 DEF Sealed
  <2> QED BY <2>2, <2>3
<1>5. backup'[d] \in {backup[d], written[v]}
  BY <1>3, <1>4, WhoWrites DEF Writers
<1>6. applied'[d] \in {applied[d], backup[d]}
  BY <1>o, AppliedMoves
<1> QED BY <1>2, <1>5, <1>6, <1>o, <1>t

(* The undo takes from its list the VMs it puts back.                      *)
LEMMA UndoStep ==
  ASSUME TypeOK, UndoInv, [Next]_vars
  PROVE  UndoInv'
<1>t. cmd \in Locals /\ pc \in PCs
  BY DEF TypeOK, CommandOK
<1>m. Moves
  BY CommandMoves
<1>0. ASSUME pc' \in {"undo", "restart"}
      PROVE  \/ ToHandler /\ pc' = "undo"
             \/ pc \in {"undo", "restart"} /\ pc' = pc
             \/ \E v \in VMs : UndoJob(v) \/ UndoFails(v)
             \/ RestartSource
  BY <1>0, <1>m, <1>t DEF Moves, ForwardMoves, HandlerMoves, Ends, Killed, Raised, Handler, PCs,
     ForwardPCs, HandlerPCs
<1>1. CASE ToHandler /\ pc' = "undo"
  <2>1. Handler = "undo"
    BY <1>1 DEF ToHandler, Goto
  <2> QED BY <2>1, <1>1, <1>t DEF ToHandler, UndoInv, Locals
<1>2. ASSUME NEW v \in VMs, UndoJob(v) \/ UndoFails(v) PROVE UndoInv'
  <2>1. cmd'.todo = cmd.todo \ {v} /\ cmd'.sel = cmd.sel /\ pc' \in {"undo", "restart"}
        /\ pc \in {"undo", "restart"}
        /\ (pc' = "restart" => cmd'.cur = v /\ v \in cmd.todo)
    BY <1>2, <1>t DEF UndoJob, UndoFails, Locals, Goto
  <2> QED BY <2>1 DEF UndoInv
<1>3. CASE RestartSource
  BY <1>3 DEF RestartSource, UndoInv, Goto
<1>4. CASE pc \in {"undo", "restart"} /\ pc' = pc
  BY <1>4, <1>2, WaitsUnchanged DEF UndoInv, LateFence
<1> QED BY <1>0, <1>1, <1>2, <1>3, <1>4 DEF UndoInv

-----------------------------------------------------------------------------
(* A final backup taken again holds what it held. *)
LEMMA FinalTaken ==
  ASSUME TypeOK, RowInv, FinalsInv, FenceInv, NEW f \in [Disks -> 0..MaxWrites], TakeFinal(f)
  PROVE  /\ pc = "final" /\ pc' = "save" /\ UNCHANGED <<run, srcVM, written>>
         /\ cmd'.sel = cmd.sel /\ cmd'.done = cmd.done
         /\ \A v \in VMs : \A d \in DisksOf[v] :
              \/ /\ v \in cmd.fenced /\ srcVM[v] = "stopped"
                 /\ finalBackup'[d] = written[v] /\ cmd'.final[d] = written[v]
                 /\ finalBackup[d] \in {None, written[v]}
              \/ /\ v \notin cmd.fenced
                 /\ finalBackup'[d] = finalBackup[d] /\ cmd'.final[d] = cmd.final[d]
<1>t. cmd \in Locals /\ cmd.fenced \subseteq VMs /\ cmd.final \in [Disks -> Nat \cup {None}]
  BY DEF TypeOK, CommandOK, Locals
<1>d. /\ DisksOf \in [VMs -> SUBSET Disks]
      /\ \A v, w \in VMs : v # w => DisksOf[v] \cap DisksOf[w] = {}
  BY DisksAssumption
<1>1. pc = "final" /\ pc' = "save" /\ UNCHANGED <<run, srcVM, written>>
  BY DEF TakeFinal, Goto, registry, source
<1> DEFINE final == [d \in Disks |-> IF d \in DisksOfAll(cmd.fenced) THEN f[d] ELSE cmd.final[d]]
<1>2. /\ finalBackup' = [d \in Disks |-> IF d \in DisksOfAll(cmd.fenced) THEN f[d]
                                         ELSE finalBackup[d]]
      /\ cmd' = [cmd EXCEPT !.final = final]
      /\ \A v \in cmd.fenced : \A d \in DisksOf[v] :
           f[d] = written[v] \/ (finalBackup[d] # None /\ f[d] = finalBackup[d])
  BY Zenon DEF TakeFinal
<1> HIDE DEF final
<1>3. cmd'.final = final /\ cmd'.sel = cmd.sel /\ cmd'.done = cmd.done
  BY <1>2, <1>t DEF Locals
<1> SUFFICES ASSUME NEW v \in VMs, NEW d \in DisksOf[v]
             PROVE  \/ /\ v \in cmd.fenced /\ srcVM[v] = "stopped"
                       /\ finalBackup'[d] = written[v] /\ cmd'.final[d] = written[v]
                       /\ finalBackup[d] \in {None, written[v]}
                    \/ /\ v \notin cmd.fenced
                       /\ finalBackup'[d] = finalBackup[d] /\ cmd'.final[d] = cmd.final[d]
  BY <1>1, <1>3
<1>4. d \in Disks /\ (d \in DisksOfAll(cmd.fenced) <=> v \in cmd.fenced)
  BY <1>d, <1>t DEF DisksOfAll
<1>5. Sealed(v)
  BY <1>1 DEF RowInv, FinalsInv, Rollback
<1>6. v \in cmd.fenced =>
        srcVM[v] = "stopped" /\ f[d] = written[v] /\ finalBackup[d] \in {None, written[v]}
  BY <1>1, <1>2, <1>5 DEF FenceInv, Sealed
<1>7. /\ finalBackup'[d] = IF v \in cmd.fenced THEN f[d] ELSE finalBackup[d]
      /\ cmd'.final[d] = IF v \in cmd.fenced THEN f[d] ELSE cmd.final[d]
  BY <1>2, <1>3, <1>4 DEF final
<1> QED BY <1>6, <1>7

(* A final backup is true as long as the source stays stopped, which a     *)
(* rollback ends; then its run is closed (RollbackEnds) and the next one   *)
(* starts without final backups.                                           *)
LEMMA FinalsStep ==
  ASSUME TypeOK, MaxRestarts = 0, PlannedInv, RowInv, UndoInv, FenceInv, FinalsInv,
         [Next]_vars, RollbackEnds
  PROVE  FinalsInv'
<1>t. cmd \in Locals /\ pc \in PCs /\ run \in Runs /\ finalBackup \in [Disks -> Nat \cup {None}]
  BY DEF TypeOK, CommandOK, RegistryOK, DataOK
<1>m. Moves
  BY CommandMoves
<1>w. OpenRun \/ (\E f \in [Disks -> 0..MaxWrites] : TakeFinal(f)) \/ UNCHANGED finalBackup
  BY WhoWrites DEF Writers
<1>n. NoPoints = [d \in Disks |-> None]
  BY DEF NoPoints
<1>o. ASSUME OpenRun
      PROVE  /\ pc = "open" /\ pc' = "mark" /\ run'.open /\ cmd'.final = run'.final
             /\ \/ run.open /\ UNCHANGED <<run, finalBackup>>
                \/ ~run.open /\ finalBackup' = NoPoints /\ run'.final = NoPoints
             /\ UNCHANGED <<srcVM, written>>
  <2> DEFINE row == IF run.open THEN run
                    ELSE [NoRun EXCEPT !.open = TRUE, !.mode = cmd.mode, !.force = cmd.force,
                                       !.vms = cmd.sel]
  <2>1. /\ pc = "open" /\ pc' = "mark" /\ run' = row
        /\ finalBackup' = IF run.open THEN finalBackup ELSE NoPoints
        /\ UNCHANGED <<srcVM, written>>
    BY <1>o DEF OpenRun, Goto, source
  <2>2. cmd'.final = row.final
    BY <1>o, <1>t DEF OpenRun, Locals
  <2> QED BY <2>1, <2>2 DEF NoRun
<1>f. ASSUME NEW f \in [Disks -> 0..MaxWrites], TakeFinal(f), NEW d \in Disks
      PROVE  /\ run'.final[d] \in {None, finalBackup'[d]}
             /\ cmd'.final[d] \in {None, finalBackup'[d]}
  <2>1. PICK v \in VMs : d \in DisksOf[v]
    BY DisksAssumption
  <2>2. pc = "final" /\ UNCHANGED run
    BY <1>f, FinalTaken
  <2>3. run.final[d] \in {None, finalBackup[d]} /\ cmd.final[d] \in {None, finalBackup[d]}
    BY <2>2 DEF FinalsInv
  <2>4. \/ /\ finalBackup'[d] = written[v] /\ cmd'.final[d] = written[v]
           /\ finalBackup[d] \in {None, written[v]}
        \/ finalBackup'[d] = finalBackup[d] /\ cmd'.final[d] = cmd.final[d]
    BY <2>1, <1>f, FinalTaken
  <2> QED BY <2>2, <2>3, <2>4
<1>1. ASSUME NEW d \in Disks PROVE run'.final[d] \in {None, finalBackup'[d]}
  <2>1. CASE OpenRun
    BY <2>1, <1>o, <1>n DEF FinalsInv
  <2>2. CASE ~OpenRun /\ UNCHANGED finalBackup
    <3>1. CASE SaveFinal \/ RecordPoints \/ KeepRun
      BY <3>1, <2>2 DEF SaveFinal, RecordPoints, KeepRun, Saved, FinalsInv
    <3>2. CASE CloseRun \/ UncloseRun
      BY <3>2 DEF CloseRun, UncloseRun, NoRun, NoPoints
    <3> QED BY <3>1, <3>2, <2>2, WhoWrites DEF Writers, FinalsInv
  <2> QED BY <2>1, <2>2, <1>f, <1>w
<1>2. ASSUME pc' \notin {"idle", "open"}, NEW d \in Disks
      PROVE  cmd'.final[d] \in {None, finalBackup'[d]}
  <2>1. CASE OpenRun
    BY <2>1, <1>o, <1>1
  <2>2. CASE \E f \in [Disks -> 0..MaxWrites] : TakeFinal(f)
    BY <2>2, <1>f
  <2>3. CASE ~OpenRun /\ ~\E f \in [Disks -> 0..MaxWrites] : TakeFinal(f)
    <3>1. pc \notin {"idle", "open"}
      BY <1>2, <2>3, <1>m DEF Moves, ForwardMoves
    <3>2. cmd'.final = cmd.final /\ UNCHANGED finalBackup
      BY <1>2, <2>3, <3>1, <1>w, KeepsLocals DEF LocalsKept
    <3> QED BY <3>1, <3>2 DEF FinalsInv
  <2> QED BY <2>1, <2>2, <2>3
<1>3. ASSUME run'.open \/ pc' \in {"unlock", "keep"}, NEW v \in VMs
      PROVE  Sealed(v)' \/ (pc' \in Rollback /\ v \in cmd'.sel)
  <2>1. CASE OpenRun /\ ~run.open
    <3>1. \A d \in DisksOf[v] : finalBackup'[d] = None
      BY <2>1, <1>o, <1>n, DisksAssumption
    <3> QED BY <3>1 DEF Sealed
  <2>2. CASE ~(OpenRun /\ ~run.open)
    <3>1. run.open \/ pc \in {"unlock", "keep"}
      <4>1. CASE run'.open
        <5>1. \/ OpenRun \/ SaveFinal \/ RecordPoints \/ KeepRun \/ CloseRun \/ UncloseRun
              \/ UNCHANGED run
          BY WhoWrites DEF Writers
        <5> QED BY <5>1, <4>1, <2>2 DEF SaveFinal, RecordPoints, KeepRun, CloseRun, UncloseRun,
           NoRun, RowInv
      <4>2. CASE pc' \in {"unlock", "keep"}
        BY <4>2, <1>m, <1>t DEF RowInv, Moves, ForwardMoves, HandlerMoves, Ends, Killed, Raised,
           Handler, PCs, ForwardPCs, HandlerPCs
      <4> QED BY <4>1, <4>2, <1>3
    <3>2. CASE pc \in Rollback /\ v \in cmd.sel
      <4>1. pc' \in Rollback \cup {"idle"}
          BY <3>2, <1>m DEF Moves, HandlerMoves, Killed, Rollback
      <4>2. CASE pc' \in Rollback
        BY <4>2, <3>2, KeepsLocals DEF LocalsKept, Rollback
      <4>3. CASE pc' = "idle"
        <5>1. \A d \in DisksOf[v] : finalBackup[d] = None
          BY <4>3, <3>2, <1>3 DEF RollbackEnds
        <5>2. UNCHANGED finalBackup
          BY <1>w, <3>2 DEF OpenRun, TakeFinal, Rollback
        <5> QED BY <5>1, <5>2 DEF Sealed
      <4> QED BY <4>1, <4>2, <4>3
    <3>3. CASE ~(pc \in Rollback /\ v \in cmd.sel)
      <4>1. Sealed(v) /\ ~(pc = "restart" /\ v = cmd.cur)
        BY <3>1, <3>3 DEF FinalsInv, UndoInv, Rollback
      <4>2. srcVM[v] = "stopped" => srcVM'[v] = "stopped" /\ written'[v] = written[v]
        BY <4>1, StoppedMoves
      <4>3. UNCHANGED finalBackup => Sealed(v)'
        BY <4>1, <4>2 DEF Sealed
      <4>4. OpenRun => Sealed(v)'
        BY <4>3, <1>o, <2>2
      <4>5. ASSUME NEW f \in [Disks -> 0..MaxWrites], TakeFinal(f) PROVE Sealed(v)'
        BY <4>5, <4>1, FinalTaken DEF Sealed
      <4> QED BY <4>3, <4>4, <4>5, <1>w
    <3> QED BY <3>2, <3>3
  <2> QED BY <2>1, <2>2
<1> QED BY <1>1, <1>2, <1>3 DEF FinalsInv

-----------------------------------------------------------------------------
(* One case per group of labels: the fence, the final backups, the standby *)
(* volumes that apply them.                                                *)
LEMMA FenceStep ==
  ASSUME TypeOK, MaxRestarts = 0, Modes \subseteq {"planned"}, ModeInv, PlannedInv, RowInv, SafeInv,
         VolumesInv, [Next]_vars
  PROVE  FenceInv'
<1> USE DEF VolumesInv
<1>t. cmd \in Locals /\ pc \in PCs
  BY DEF TypeOK, CommandOK
<1>s. /\ cmd.sel \in SUBSET VMs /\ cmd.done \in SUBSET VMs
      /\ cmd.fenced \in SUBSET VMs /\ cmd.cur \in VMs
  BY <1>t DEF Locals
<1>m. Moves
  BY CommandMoves
<1>k. pc # "idle" /\ pc' # "idle" => LocalsKept
  BY KeepsLocals
<1>p. pc # "idle" => cmd.mode = "planned"
  BY DEF ModeInv
<1>u. pc' = pc /\ pc \notin {"undo", "restart", "late"} => UNCHANGED cmd
  BY WaitsUnchanged DEF LateFence, UndoFails
<1>v. ASSUME NEW v \in VMs, srcVM[v] = "stopped", pc # "restart" PROVE srcVM'[v] = "stopped"
  BY <1>v, StoppedMoves
<1>1. ASSUME pc' \in {"open"} \cup Early PROVE cmd'.fenced = {}
  <2>1. CASE Request
    <3>1. cmd'.fenced = NoCmd.fenced
      BY <2>1, NoCmdType DEF Request, Resume, Failover, Begin, Locals
    <3> QED BY <3>1 DEF NoCmd
  <2>2. CASE ~Request
    <3>1. pc \in {"open"} \cup Early
      BY <2>2, <1>1, <1>m, <1>t DEF Moves, ForwardMoves, HandlerMoves, Ends, Killed, Raised,
         Handler, Early, PCs, ForwardPCs, HandlerPCs
    <3> QED BY <3>1, <1>1, <1>k DEF LocalsKept, FenceInv, DropJob, LateFence, Early
  <2> QED BY <2>1, <2>2
<1>2. ASSUME pc' \in {"fence", "stop", "job", "final"}
      PROVE  /\ \A v \in cmd'.fenced : srcVM'[v] = "stopped"
             /\ \A v \in cmd'.sel \ cmd'.done : v \in cmd'.todo \/ v \in cmd'.fenced \/ Named(v)'
             /\ pc' = "job" => srcVM'[cmd'.cur] = "stopped"
             /\ pc' = "final" => cmd'.todo = {}
  <2>0. \/ Survey \/ StopSource \/ DropJob \/ (FenceDone /\ pc' = "final")
        \/ (\E v \in VMs : FenceNext(v))
        \/ (pc' = pc /\ pc \in {"fence", "stop", "job", "final"})
    BY <1>2, <1>m, <1>t DEF Moves, ForwardMoves, HandlerMoves, Ends, Killed, Raised, Handler,
       PCs, ForwardPCs, HandlerPCs
  <2>1. CASE Survey
    <3>1. cmd.fenced = {} /\ cmd.mode = "planned" /\ pc = "survey"
      BY <2>1, <1>p DEF FenceInv, Survey, Early
    <3>2. /\ cmd'.sel = cmd.sel /\ cmd'.fenced = cmd.fenced /\ cmd'.final = cmd.final
          /\ cmd'.done = {v \in cmd.sel : Activated(v)} /\ pc' = "fence"
          /\ cmd'.todo = (cmd.sel \ cmd'.done) \ {v \in cmd.sel \ cmd'.done : FinalApplied(v)}
      BY <2>1, <3>1, <1>t DEF Survey, Locals, Goto
    <3> QED BY <3>1, <3>2 DEF Named, FinalApplied
  <2>2. CASE StopSource
    <3>1. /\ UNCHANGED cmd /\ pc = "stop" /\ pc' = "job"
          /\ srcVM' = [srcVM EXCEPT ![cmd.cur] = "stopped"]
      BY <2>2 DEF StopSource, Goto
    <3>2. /\ srcVM'[cmd.cur] = "stopped"
          /\ \A v \in VMs : srcVM[v] = "stopped" => srcVM'[v] = "stopped"
      BY <3>1, <1>s DEF TypeOK, SitesOK
    <3> QED BY <3>1, <3>2, <1>s DEF FenceInv, Named
  <2>3. CASE DropJob
    <3>1. /\ pc = "job" /\ pc' = "fence" /\ UNCHANGED srcVM
          /\ cmd'.todo = cmd.todo \ {cmd.cur} /\ cmd'.fenced = cmd.fenced \cup {cmd.cur}
          /\ cmd'.sel = cmd.sel /\ cmd'.done = cmd.done /\ cmd'.final = cmd.final
      BY <2>3, <1>t DEF DropJob, Goto, Locals
    <3> QED BY <3>1 DEF FenceInv, Named
  <2>4. CASE FenceDone /\ pc' = "final"
    BY <2>4 DEF FenceDone, FenceInv, Named, source
  <2>5. ASSUME NEW w \in VMs, FenceNext(w)
        PROVE  /\ pc = "fence" /\ pc' = "stop" /\ UNCHANGED srcVM /\ cmd'.todo = cmd.todo
               /\ cmd'.fenced = cmd.fenced /\ cmd'.sel = cmd.sel /\ cmd'.done = cmd.done
               /\ cmd'.final = cmd.final
    BY <2>5, <1>t DEF FenceNext, Goto, Locals
  <2>6. CASE \E v \in VMs : FenceNext(v)
    BY <2>5, <2>6 DEF FenceInv, Named
  <2>7. CASE pc' = pc /\ pc \in {"fence", "stop", "job", "final"}
    BY <2>7, <1>u, <1>v, <1>s DEF FenceInv, Named
  <2> QED BY <2>0, <2>1, <2>2, <2>3, <2>4, <2>6, <2>7
<1>3. ASSUME pc' \in {"save", "apply"}, NEW v \in cmd'.sel \ cmd'.done PROVE Named(v)'
  <2>0. \/ \E f \in [Disks -> 0..MaxWrites] : TakeFinal(f)
        \/ SaveFinal \/ (FenceDone /\ pc' = "apply")
        \/ (pc' = pc /\ pc \in {"save", "apply"})
    BY <1>3, <1>m, <1>t DEF Moves, ForwardMoves, HandlerMoves, Ends, Killed, Raised, Handler,
       PCs, ForwardPCs, HandlerPCs
  <2>1. ASSUME NEW f \in [Disks -> 0..MaxWrites], TakeFinal(f) PROVE Named(v)'
    <3>1. /\ pc = "final" /\ v \in cmd.sel \ cmd.done
          /\ \A d \in DisksOf[v] : \/ v \in cmd.fenced /\ cmd'.final[d] = written[v]
                                   \/ v \notin cmd.fenced /\ cmd'.final[d] = cmd.final[d]
      BY <2>1, <1>3, <1>s, FinalTaken
    <3>2. v \in cmd.fenced \/ Named(v)
      BY <3>1 DEF FenceInv
    <3>3. written[v] # None
      BY <3>1, <1>s, DataTypes DEF None
    <3> QED BY <3>1, <3>2, <3>3 DEF Named
  <2>2. CASE SaveFinal
    BY <2>2, <1>3 DEF SaveFinal, FenceInv, Named
  <2>3. CASE FenceDone /\ pc' = "apply"
    <3>1. UNCHANGED cmd /\ pc = "fence" /\ cmd.todo = {} /\ cmd.fenced = {}
      BY <2>3, <1>p DEF FenceDone, Goto
    <3> QED BY <3>1, <1>3 DEF FenceInv, Named
  <2>4. CASE pc' = pc /\ pc \in {"save", "apply"}
    BY <2>4, <1>3, <1>u DEF FenceInv, Named
  <2> QED BY <2>0, <2>1, <2>2, <2>3, <2>4
<1>4. ASSUME pc' \in {"points", "record", "arm", "activate"}, NEW v \in cmd'.sel PROVE Settled(v)'
  <2>1. pc \in {"apply", "points", "record", "arm", "activate"} /\ (pc = "apply" => FinalsApplied)
    BY <1>4, <1>m, <1>t DEF PlannedInv, Moves, ForwardMoves, HandlerMoves, Ends, Killed, Raised,
       Handler, PCs, ForwardPCs, HandlerPCs
  <2>2. v \in cmd.sel /\ v \in VMs
    BY <2>1, <1>4, <1>k, <1>s DEF LocalsKept
  <2>3. Settled(v) => Settled(v)'
    BY <2>1, <2>2, SettledStays
  <2>4. CASE FinalsApplied
    <3>1. pc = "apply"
      BY <2>4 DEF FinalsApplied
    <3>2. CASE v \in cmd.done
      BY <3>1, <3>2, <2>2, <2>3 DEF SafeInv, Fencing, StoppedInv
    <3>3. CASE v \notin cmd.done
      <4>1. Named(v) /\ Sealed(v)
        BY <3>1, <3>3, <2>2 DEF FenceInv, FinalsInv, RowInv, Rollback
      <4>2. ASSUME NEW d \in DisksOf[v] PROVE srcVM[v] = "stopped" /\ applied[d] = written[v]
        <5>1. d \in Disks /\ d \in DisksOfAll(cmd.sel \ cmd.done)
          BY <2>2, <3>3, DisksAssumption DEF DisksOfAll
        <5>2. finalBackup[d] # None /\ cmd.final[d] = finalBackup[d]
          BY <5>1, <4>1, <3>1 DEF Named, FinalsInv
        <5>3. srcVM[v] = "stopped" /\ cmd.final[d] = written[v]
          BY <5>2, <4>1 DEF Sealed
        <5>4. applied[d] >= cmd.final[d]
          BY <5>1, <2>4 DEF FinalsApplied
        <5>5. applied[d] \in Nat /\ backup[d] \in Nat /\ written[v] \in Nat
              /\ applied[d] <= backup[d] /\ backup[d] <= written[v]
          BY <2>2, DataTypes DEF OrderInv
        <5> QED BY <5>3, <5>4, <5>5
      <4>3. Settled(v)
        BY <4>2, <2>2, DisksAssumption DEF Settled
      <4> QED BY <4>3, <2>3
    <3> QED BY <3>2, <3>3
  <2> QED BY <2>1, <2>2, <2>3, <2>4 DEF FenceInv
<1> QED BY <1>1, <1>2, <1>3, <1>4 DEF FenceInv

(* The inductive invariant of a planned failover.                          *)
HandoverInv ==
  /\ LookedInv /\ ServedInv /\ ModeInv /\ PlannedInv /\ VolumesInv

LEMMA HandoverInvStep ==
  ASSUME MaxRestarts = 0, Modes \subseteq {"planned"}, HandoverInv, [Next]_vars,
         [LooksFirst]_vars, [RollbackEnds]_vars
  PROVE  HandoverInv'
<1>t. TypeOK /\ RunInv /\ RowInv /\ SafeInv /\ ArmedInv
  BY DEF HandoverInv, LookedInv, TypeInv
<1>1. LookedInv' /\ TypeOK'
  BY LookedStep DEF HandoverInv, LookedInv, TypeInv
<1>2. ServedInv' /\ ModeInv' /\ PlannedInv'
  BY <1>1, <1>t, ServedStep, ModeStep, PlannedStep DEF HandoverInv
<1>3. OrderInv' /\ UndoInv'
  BY <1>t, OrderStep, UndoStep DEF HandoverInv, VolumesInv
<1>4. StoppedInv'
  BY <1>t, StoppedStep DEF HandoverInv, VolumesInv
<1>5. FinalsInv'
  BY <1>t, FinalsStep, RollbackEndsStutters DEF HandoverInv, VolumesInv
<1>6. FenceInv'
  BY <1>t, FenceStep DEF HandoverInv
<1> QED BY <1>1, <1>2, <1>3, <1>4, <1>5, <1>6 DEF HandoverInv, VolumesInv

LEMMA HandoverInvInit == ASSUME Init PROVE HandoverInv
<1>1. pc = "idle" /\ run = NoRun /\ res = [v \in VMs |-> "protected"]
  BY DEF Init
<1>2. \A v \in VMs : ~Activated(v) /\ tgtVM[v] = "absent"
  BY DisksAssumption DEF Init, Activated
<1>3. ServedInv
  BY <1>1 DEF ServedInv, FailedOverIsServed
<1>4. ModeInv /\ PlannedInv
  BY <1>1 DEF ModeInv, PlannedInv, ScopeStates, NoRun, Chosen
<1>5. OrderInv
  BY DisksAssumption DEF OrderInv, Init
<1>6. FinalsInv
  BY <1>1, DisksAssumption DEF FinalsInv, Init, NoRun, NoPoints, Sealed
<1> QED BY <1>1, <1>2, <1>3, <1>4, <1>5, <1>6, LookedInit DEF HandoverInv, VolumesInv,
   StoppedInv, UndoInv, FenceInv, Early

(* What runs on the target is settled: its source is stopped.              *)
LEMMA OneSideIfRolledBack ==
  ASSUME Modes \subseteq {"planned"}, MaxRestarts = 0
  PROVE  Spec /\ [][LooksFirst]_vars /\ [][RollbackEnds]_vars => []NoSplitBrain
<1>1. HandoverInv => NoSplitBrain
  BY DEF HandoverInv, VolumesInv, StoppedInv, NoSplitBrain, Settled
<1>2. HandoverInv /\ [Next]_vars /\ [LooksFirst]_vars /\ [RollbackEnds]_vars => HandoverInv'
  BY HandoverInvStep
<1> QED BY <1>1, <1>2, HandoverInvInit, PTL DEF Spec

(* A volume that is activated holds all that was written, before and after *)
(* the step.                                                               *)
LEMMA ActivatedAsWritten ==
  ASSUME HandoverInv, [Next]_vars, NEW v \in VMs, NEW d \in DisksOf[v], ~activated[d], activated'[d]
  PROVE  /\ pc = "activate" /\ v \in cmd.go /\ srcVM[v] = "stopped"
         /\ applied'[d] = written[v] /\ applied[d] = written[v]
<1>t. TypeOK
  BY DEF HandoverInv, LookedInv, TypeInv
<1>d. /\ d \in Disks /\ DisksOf \in [VMs -> SUBSET Disks]
      /\ \A w \in VMs : v # w => DisksOf[v] \cap DisksOf[w] = {}
  BY DisksAssumption
<1>1. PICK e \in Disks : Activate(e)
  BY WhoWrites DEF Writers
<1>2. d = e
  BY <1>1, <1>d, <1>t DEF Activate, TypeOK, SitesOK
<1>3. pc = "activate" /\ d \in DisksOfAll(cmd.go) /\ applied'[d] \in {applied[d], backup[d]}
  BY <1>1, <1>2, <1>d, <1>t DEF Activate, TypeOK, DataOK
<1>4. v \in cmd.go
  BY <1>3, <1>d, <1>t DEF DisksOfAll, TypeOK, CommandOK, Locals
<1>5. Settled(v)
  BY <1>3, <1>4 DEF HandoverInv, LookedInv, SafeInv, Chosen, VolumesInv, FenceInv
<1>6. /\ applied[d] <= backup[d] /\ backup[d] <= written[v]
      /\ applied[d] \in Nat /\ backup[d] \in Nat /\ written[v] \in Nat
  BY <1>t, DataTypes DEF HandoverInv, VolumesInv, OrderInv
<1> QED BY <1>3, <1>4, <1>5, <1>6 DEF Settled

(* Each activation is one of a settled VM.                                 *)
LEMMA NoLossIfRolledBack ==
  ASSUME Modes \subseteq {"planned"}, MaxRestarts = 0
  PROVE  Spec /\ [][LooksFirst]_vars /\ [][RollbackEnds]_vars => ZeroLoss
<1>1. HandoverInv /\ [Next]_vars =>
        [\A v \in VMs, d \in Disks :
           cmd.mode = "planned" /\ d \in DisksOf[v] /\ ~activated[d] /\ activated'[d]
             => srcVM[v] = "stopped" /\ applied'[d] = written[v]]_vars
  BY ActivatedAsWritten
<1>2. HandoverInv /\ [Next]_vars /\ [LooksFirst]_vars /\ [RollbackEnds]_vars => HandoverInv'
  BY HandoverInvStep
<1> QED BY <1>1, <1>2, HandoverInvInit, PTL DEF Spec, ZeroLoss

-----------------------------------------------------------------------------
(* The step simulation of the hand-over. Each step changes the owner of    *)
(* one VM at most, along the edges of ReplicationHandover, and the data    *)
(* that counts only by a write of the guest that owns it.                  *)

LEMMA VMOfDisk ==
  ASSUME NEW v \in VMs, NEW d \in DisksOf[v]
  PROVE  d \in Disks /\ VMOf(d) = v
<1>1. VMOf(d) \in VMs /\ d \in DisksOf[VMOf(d)]
  BY DEF VMOf
<1> QED BY <1>1, DisksAssumption

(* Every failover starts with the VMs on the source, running or held.      *)
LEMMA HandoverStart == Init => Handover!Init
<1> SUFFICES ASSUME Init PROVE Handover!Init
  OBVIOUS
<1>1. ASSUME NEW v \in VMs PROVE HandoverOwner[v] \in {"source", "held"}
  BY DisksAssumption DEF HandoverOwner, OwnerOf, Activated, Init
<1>2. ASSUME NEW d \in Disks PROVE HandoverContent[d] = 0
  <2>1. PICK v \in VMs : d \in DisksOf[v]
    BY DisksAssumption
  <2> QED BY <2>1, VMOfDisk DEF HandoverContent, Init
<1>3. HandoverOwner \in [VMs -> {"source", "held"}] /\ HandoverContent = [d \in Disks |-> 0]
  BY <1>1, <1>2 DEF HandoverOwner, HandoverContent
<1> QED BY <1>3 DEF Handover!Init

(* Nothing but a guest changes the data that counts. *)
LEMMA ContentStays ==
  ASSUME HandoverInv, [Next]_vars, UNCHANGED written
  PROVE  UNCHANGED HandoverContent
<1>t. TypeOK /\ TypeOK'
  BY TypeInvStep DEF HandoverInv, LookedInv, TypeInv
<1>1. ASSUME NEW d \in Disks
      PROVE  (IF activated'[d] THEN applied'[d] ELSE written'[VMOf(d)])
               = (IF activated[d] THEN applied[d] ELSE written[VMOf(d)])
  <2>1. PICK v \in VMs : d \in DisksOf[v]
    BY DisksAssumption
  <2>2. VMOf(d) = v
    BY <2>1, VMOfDisk
  <2>3. CASE activated[d]
    <3>1. activated'[d]
      BY <2>3, <1>t, TargetOnlyGrows
    <3>2. ASSUME NEW e \in Disks, StandbyApplies(e) \/ Activate(e) PROVE applied'[d] = applied[d]
      BY <3>2, <2>3, <1>t DEF StandbyApplies, Activate, TypeOK, DataOK
    <3>3. applied'[d] = applied[d]
      BY <3>2, WhoWrites DEF Writers
    <3> QED BY <3>1, <3>3, <2>3
  <2>4. CASE ~activated[d] /\ activated'[d]
    BY <2>4, <2>1, <2>2, ActivatedAsWritten
  <2>5. CASE ~activated[d] /\ ~activated'[d]
    BY <2>5
  <2> QED BY <2>3, <2>4, <2>5
<1> QED BY <1>1 DEF HandoverContent

(* Who owns a VM changes for one VM at a time, along the edges of the      *)
(* hand-over.                                                              *)
OwnerStep(w) ==
  /\ \A v \in VMs \ {w} : OwnerOf(v)' = OwnerOf(v)
  /\ \/ OwnerOf(w)' = OwnerOf(w)
     \/ OwnerOf(w) = "source" /\ OwnerOf(w)' = "held"
     \/ OwnerOf(w) = "held" /\ OwnerOf(w)' = "source"
     \/ OwnerOf(w) = "held" /\ OwnerOf(w)' = "committed"
     \/ OwnerOf(w) = "committed" /\ OwnerOf(w)' = "target"

(* Four actions change an owner: the stop, the restart of the undo, the    *)
(* activation of a first volume, the start on the target.                  *)
LEMMA OwnerMoves ==
  ASSUME Modes \subseteq {"planned"}, MaxRestarts = 0, HandoverInv, [Next]_vars
  PROVE  \E w \in VMs : OwnerStep(w)
<1>t. /\ TypeOK /\ ArmedInv /\ SafeInv /\ ServedInv /\ UndoInv /\ PlannedInv
      /\ cmd.cur \in VMs /\ cmd.sel \in SUBSET VMs
      /\ srcVM \in [VMs -> {"running", "stopped"}] /\ tgtVM \in [VMs -> {"absent", "running"}]
  BY DEF HandoverInv, LookedInv, TypeInv, VolumesInv, TypeOK, CommandOK, Locals, SitesOK
<1>s. \A v \in VMs : /\ Activated(v) => srcVM[v] = "stopped"
                     /\ tgtVM[v] = "running" => Activated(v)
  BY DEF HandoverInv, VolumesInv, StoppedInv, Settled
<1>1. CASE \E d \in Disks : Activate(d)
  <2>1. PICK d \in Disks : Activate(d)
    BY <1>1
  <2>2. PICK w \in VMs : d \in DisksOf[w]
    BY DisksAssumption
  <2>3. UNCHANGED <<srcVM, tgtVM>> /\ activated' = [activated EXCEPT ![d] = TRUE] /\ ~activated[d]
    BY <2>1 DEF Activate, source
  <2>4. \A v \in VMs \ {w} : Activated(v)' <=> Activated(v)
    <3>1. ASSUME NEW v \in VMs \ {w}, NEW e \in DisksOf[v] PROVE activated'[e] = activated[e]
      <4>1. e \in Disks /\ e # d
        BY <2>2, DisksAssumption
      <4> QED BY <4>1, <2>3, <1>t DEF TypeOK, SitesOK
    <3> QED BY <3>1 DEF Activated
  <2>5. Activated(w)'
    BY <2>2, <2>3, <1>t DEF Activated, TypeOK, SitesOK
  <2>6. \A v \in VMs \ {w} : OwnerOf(v)' = OwnerOf(v)
    BY <2>3, <2>4 DEF OwnerOf
  <2>7. CASE Activated(w)
    BY <2>3, <2>5, <2>6, <2>7 DEF OwnerOf, OwnerStep
  <2>8. CASE ~Activated(w)
    <3>1. activated'[d]
      BY <2>3, <1>t DEF TypeOK, SitesOK
    <3>2. srcVM[w] = "stopped" /\ tgtVM[w] # "running"
      BY <3>1, <2>2, <2>3, <2>8, <1>s, ActivatedAsWritten
    <3> QED BY <3>2, <2>3, <2>5, <2>6, <2>8 DEF OwnerOf, OwnerStep
  <2> QED BY <2>7, <2>8
<1>2. CASE \E w \in VMs : BringUp(w)
  <2>1. PICK w \in VMs : BringUp(w)
    BY <1>2
  <2>2. /\ UNCHANGED <<srcVM, activated>> /\ tgtVM' = [tgtVM EXCEPT ![w] = "running"]
        /\ pc = "bring" /\ w \in cmd.todo
    BY <2>1 DEF BringUp, source
  <2>3. Activated(w)
    <3>1. w \in cmd.go /\ AllOn(cmd.go)
      BY <2>2, <1>t DEF ServedInv
    <3> QED BY <3>1, DisksAssumption DEF AllOn, Activated
  <2>4. \A v \in VMs : Activated(v)' <=> Activated(v)
    BY <2>2 DEF Activated
  <2>5. tgtVM'[w] = "running" /\ \A v \in VMs \ {w} : tgtVM'[v] = tgtVM[v]
    BY <2>2, <1>t
  <2> QED BY <2>2, <2>3, <2>4, <2>5, <1>s DEF OwnerOf, OwnerStep
<1>3. CASE StopSource \/ RestartSource
  <2>1. UNCHANGED <<activated, tgtVM>> /\ \A v \in VMs \ {cmd.cur} : srcVM'[v] = srcVM[v]
    BY <1>3, <1>t DEF StopSource, RestartSource, target
  <2>2. \A v \in VMs : Activated(v)' <=> Activated(v)
    BY <2>1 DEF Activated
  <2>3. \A v \in VMs \ {cmd.cur} : OwnerOf(v)' = OwnerOf(v)
    BY <2>1, <2>2 DEF OwnerOf
  <2>4. srcVM'[cmd.cur] \in {"running", "stopped"}
    BY <1>3, <1>t DEF StopSource, RestartSource
  <2>5. CASE Activated(cmd.cur)
    <3>1. ~RestartSource
      BY <2>5, <1>t DEF RestartSource, UndoInv, SafeInv, ArmedInv, Rollback, Early
    <3>2. srcVM'[cmd.cur] = srcVM[cmd.cur]
      BY <3>1, <1>3, <1>s, <1>t, <2>5 DEF StopSource
    <3> QED BY <3>2, <2>1, <2>2, <2>3, <1>t DEF OwnerOf, OwnerStep
  <2>6. CASE ~Activated(cmd.cur)
    BY <2>6, <2>1, <2>2, <2>3, <2>4, <1>t DEF OwnerOf, OwnerStep
  <2> QED BY <2>5, <2>6
<1>4. CASE UNCHANGED <<activated, tgtVM, srcVM>>
  <2>1. \A v \in VMs : OwnerOf(v)' = OwnerOf(v)
    BY <1>4 DEF OwnerOf, Activated
  <2> QED BY <2>1, <1>t DEF OwnerStep
<1>5. ASSUME NEW v \in VMs PROVE ~(StartedByHand(v) \/ LateFence(v))
  BY <1>t DEF StartedByHand, LateFence, PlannedInv, TypeOK, HistoryOK
<1> QED BY <1>1, <1>2, <1>3, <1>4, <1>5, WhoWrites DEF Writers

(* Each step is one of the hand-over, or changes nothing of it.            *)
LEMMA HandoverStep ==
  ASSUME Modes \subseteq {"planned"}, MaxRestarts = 0, HandoverInv, [Next]_vars
  PROVE  [Handover!Next]_<<HandoverOwner, HandoverContent>>
<1>t. /\ TypeOK /\ written \in [VMs -> Nat] /\ activated \in [Disks -> BOOLEAN]
  BY DEF HandoverInv, LookedInv, TypeInv, TypeOK, DataOK, SitesOK
<1>1. ASSUME NEW w \in VMs, GuestWrites(w) PROVE Handover!Next
  <2>1. /\ srcVM[w] = "running" /\ written' = [written EXCEPT ![w] = @ + 1]
        /\ UNCHANGED <<srcVM, tgtVM, activated, applied>>
    BY <1>1 DEF GuestWrites, source, target
  <2>2. ~Activated(w)
    BY <2>1 DEF HandoverInv, VolumesInv, StoppedInv, Settled
  <2>3. UNCHANGED HandoverOwner /\ HandoverOwner[w] = "source"
    BY <2>1, <2>2 DEF HandoverOwner, OwnerOf, Activated
  <2>4. ASSUME NEW d \in Disks
        PROVE  (IF activated'[d] THEN applied'[d] ELSE written'[VMOf(d)])
                 = IF d \in DisksOf[w] THEN HandoverContent[d] + 1 ELSE HandoverContent[d]
    <3>1. PICK v \in VMs : d \in DisksOf[v]
      BY DisksAssumption
    <3>2. VMOf(d) = v /\ (d \in DisksOf[w] <=> v = w)
      BY <3>1, VMOfDisk
    <3>3. CASE v = w
      BY <3>1, <3>2, <3>3, <2>1, <2>2, <1>t DEF Activated, HandoverContent
    <3>4. CASE v # w
      BY <3>2, <3>4, <2>1, <1>t DEF HandoverContent
    <3> QED BY <3>3, <3>4
  <2>5. HandoverContent' = [d \in Disks |-> IF d \in DisksOf[w] THEN HandoverContent[d] + 1
                                            ELSE HandoverContent[d]]
    BY <2>4 DEF HandoverContent
  <2>6. DisksOf[w] \in SUBSET Disks
    BY DisksAssumption
  <2> QED BY <2>3, <2>5, <2>6 DEF Handover!Next, Handover!Write
<1>2. CASE UNCHANGED written
  <2>1. UNCHANGED HandoverContent
    BY <1>2, ContentStays
  <2>2. PICK w \in VMs : OwnerStep(w)
    BY OwnerMoves
  <2>3. HandoverOwner' = [HandoverOwner EXCEPT ![w] = OwnerOf(w)']
    BY <2>2 DEF OwnerStep, HandoverOwner
  <2>4. HandoverOwner[w] = OwnerOf(w) /\ HandoverOwner \in [VMs -> {OwnerOf(v) : v \in VMs}]
    BY DEF HandoverOwner
  <2>5. CASE OwnerOf(w)' = OwnerOf(w)
    <3>1. UNCHANGED HandoverOwner
      BY <2>2, <2>5 DEF OwnerStep, HandoverOwner
    <3> QED BY <3>1, <2>1
  <2>6. CASE OwnerOf(w)' # OwnerOf(w)
    BY <2>1, <2>2, <2>3, <2>4, <2>6 DEF OwnerStep, Handover!Next, Handover!Hold,
       Handover!Restart, Handover!Commit, Handover!Serve, Handover!Become
  <2> QED BY <2>5, <2>6
<1> QED BY <1>1, <1>2, WhoWrites DEF Writers

(* The simulation, from the inductive invariant.                           *)
LEMMA HandsOverIfRolledBack ==
  ASSUME Modes \subseteq {"planned"}, MaxRestarts = 0
  PROVE  Spec /\ [][LooksFirst]_vars /\ [][RollbackEnds]_vars => Handover!Spec
<1>1. HandoverInv /\ [Next]_vars => [Handover!Next]_<<HandoverOwner, HandoverContent>>
  BY HandoverStep
<1>2. HandoverInv /\ [Next]_vars /\ [LooksFirst]_vars /\ [RollbackEnds]_vars => HandoverInv'
  BY HandoverInvStep
<1> QED BY <1>1, <1>2, HandoverInvInit, HandoverStart, PTL DEF Spec, Handover!Spec

-----------------------------------------------------------------------------
(* What remains is to show LooksFirst and RollbackEnds of the code. A      *)
(* cluster that no fault takes away stays up.                              *)

LEMMA UpStep ==
  /\ "target" \notin FaultKinds /\ dstUp /\ [Next]_vars => dstUp'
  /\ "source" \notin FaultKinds /\ srcUp /\ [Next]_vars => srcUp'
BY WhoWrites DEF Writers, TargetLost, TargetBack, SourceLost, SourceBack, Fault

(* Only the loss of the target and a cancellation end a command that is    *)
(* still looking.                                                          *)
LEMMA EarlyEnds ==
  ASSUME [Next]_vars, pc \in Early, pc' \in {"undo", "unmark"}
  PROVE  Cancel \/ ~dstUp
<1>1. Raised
  BY CommandMoves DEF Moves, ForwardMoves, Ends, Killed, Early
<1>2. CallFails => ~dstUp
  BY DEF CallFails, Blocked, Early
<1>3. ~SkewRefused
  BY DEF SkewRefused, Early
<1> QED BY <1>1, <1>2, <1>3 DEF Raised

(* With kills and losses of the source only, the target is up.             *)
LEMMA TargetUpLooks ==
  ASSUME FaultKinds \subseteq {"crash", "source"}, dstUp, [Next]_vars
  PROVE  LooksFirst
<1>1. ~Cancel
  BY DEF Cancel, Fault
<1> QED BY <1>1, EarlyEnds DEF LooksFirst

(* A command has something to move. *)
SelectionInv == pc # "idle" => cmd.sel # {}

LEMMA SelectionStep == TypeOK /\ SelectionInv /\ [Next]_vars => SelectionInv'
<1> SUFFICES ASSUME TypeOK, SelectionInv, [Next]_vars, pc' # "idle" PROVE cmd'.sel # {}
  BY DEF SelectionInv
<1>1. CASE Resume
  BY <1>1, NoCmdType DEF Resume, Begin, Admitted, Locals
<1>2. ASSUME NEW m \in Modes, NEW f \in BOOLEAN, NEW a \in BOOLEAN, NEW s \in SUBSET VMs,
             Failover(m, f, a, s)
      PROVE  cmd'.sel # {}
  BY <1>2, NoCmdType DEF Failover, Begin, Admitted, Locals
<1>3. CASE pc # "idle"
  BY <1>3, KeepsLocals DEF LocalsKept, SelectionInv
<1>4. CASE pc = "idle"
  BY <1>4, <1>1, <1>2, CommandMoves DEF Moves, ForwardMoves, Request
<1> QED BY <1>3, <1>4

(* Planned, with kills only, no command comes to its handler. *)
NoHandler == pc \notin HandlerPCs

LEMMA NoHandlerStep ==
  ASSUME FaultKinds \subseteq {"crash"}, Modes \subseteq {"planned"}, TypeOK, ModeInv, SelectionInv,
         NoHandler, srcUp, dstUp, [Next]_vars
  PROVE  NoHandler'
<1>t. pc \in PCs
  BY DEF TypeOK, CommandOK
<1>1. ~Cancel /\ ~CallFails
  BY DEF Cancel, Fault, CallFails, Blocked
<1>2. ~SkewRefused
  BY DEF SkewRefused, MayGo, ModeInv, SelectionInv
<1> QED BY <1>1, <1>2, <1>t, CommandMoves DEF NoHandler, Moves, ForwardMoves, Ends, Killed,
   Raised, PCs, ForwardPCs, HandlerPCs

(* Without a handler there is no rollback.                                 *)
LEMMA KillsOnly ==
  ASSUME NoHandler, NoHandler'
  PROVE  LooksFirst /\ RollbackEnds
BY DEF NoHandler, LooksFirst, RollbackEnds, HandlerPCs, Rollback

-----------------------------------------------------------------------------
(* One fault of any kind at most. Before it, an activated VM that has not  *)
(* failed over is in the hands of the command that activated it; after it, *)
(* nothing stops a command any more but the clusters that answer again.    *)
HasFinal(vms) == \E v \in vms : \E d \in DisksOf[v] : finalBackup[d] # None

Activating == {"activate", "bring", "tag", "land", "settle"}

FaultlessInv ==
  faults = 0 =>
    /\ srcUp /\ dstUp
    /\ pc \notin {"keep", "fail"}
    /\ \A v \in VMs : Activated(v) /\ res[v] # "failed_over" => pc \in Activating /\ v \in cmd.sel

(* A command that finds an activated volume comes after the fault, and     *)
(* nothing raises before its survey.                                       *)
LookInv ==
  /\ pc \in {"open"} \cup Early /\ (\E v \in cmd.sel : Activated(v)) => dstUp /\ faults # 0
  /\ pc \in Fencing /\ cmd.armed => cmd.done # {}

(* How faults are counted.                                                 *)
LEMMA FaultMoves ==
  ASSUME TypeOK, [Next]_vars
  PROVE  /\ faults \in Nat /\ faults' \in {faults, faults + 1}
         /\ Cancel \/ Crash \/ SourceLost \/ TargetLost => faults' # 0 /\ faults < MaxFaults
<1>t. faults \in Nat
  BY DEF TypeOK, HistoryOK
<1> QED BY <1>t, WhoWrites DEF Writers, Cancel, Crash, SourceLost, TargetLost, Fault

(* Without a fault nothing raises but the check of the recovery points.    *)
LEMMA FaultlessMoves ==
  ASSUME TypeOK, FaultlessInv, [Next]_vars, faults' = 0
  PROVE  /\ faults = 0 /\ srcUp' /\ dstUp'
         /\ ~Cancel /\ ~Crash /\ ~CallFails
<1>1. faults = 0 /\ ~Cancel /\ ~Crash /\ ~SourceLost /\ ~TargetLost
  BY FaultMoves
<1>2. srcUp /\ dstUp
  BY <1>1 DEF FaultlessInv
<1>3. srcUp' /\ dstUp'
  BY <1>1, <1>2, WhoWrites DEF Writers, SourceBack, TargetBack
<1>4. ~CallFails
  BY <1>2 DEF CallFails, Blocked
<1> QED BY <1>1, <1>3, <1>4

(* Kept by the loop of the activations and landings, which nothing         *)
(* interrupts without a fault.                                             *)
LEMMA FaultlessStep ==
  ASSUME TypeOK, LookedInv, FaultlessInv, LookInv, [Next]_vars
  PROVE  FaultlessInv'
<1> SUFFICES ASSUME faults' = 0
             PROVE  /\ srcUp' /\ dstUp' /\ pc' \notin {"keep", "fail"}
                    /\ \A v \in VMs : Activated(v)' /\ res'[v] # "failed_over"
                         => pc' \in Activating /\ v \in cmd'.sel
  BY DEF FaultlessInv
<1>t. cmd \in Locals /\ pc \in PCs
  BY DEF TypeOK, CommandOK
<1>m. Moves
  BY CommandMoves
<1>f. /\ faults = 0 /\ srcUp' /\ dstUp' /\ ~Cancel /\ ~Crash /\ ~CallFails
      /\ ~Killed /\ (Raised => SkewRefused)
  BY FaultlessMoves DEF Killed, Raised
<1>i. ArmedInv /\ SafeInv /\ LandingInv /\ TakenInv
  BY DEF LookedInv
<1>1. pc' \notin {"keep", "fail"}
  <2>1. SkewRefused => pc = "points" /\ ~cmd.armed
    <3> SUFFICES ASSUME SkewRefused PROVE pc = "points" /\ ~cmd.armed
      OBVIOUS
    <3>1. pc = "points" /\ MayGo = {}
      BY DEF SkewRefused
    <3>2. cmd.done = {}
      <4>1. cmd.done \subseteq cmd.sel
        BY <3>1, <1>i DEF SafeInv, Fencing
      <4> QED BY <4>1, <3>1 DEF MayGo
    <3> QED BY <3>1, <3>2 DEF LookInv, Fencing
  <2> QED BY <2>1, <1>f, <1>m, <1>t DEF FaultlessInv, Moves, ForwardMoves, HandlerMoves, Ends,
     Raised, Handler, PCs, ForwardPCs, HandlerPCs
<1>2. ASSUME NEW v \in VMs, Activated(v)', res'[v] # "failed_over"
      PROVE  pc' \in Activating /\ v \in cmd'.sel
  <2>1. CASE ~Activated(v)
    <3>1. pc = "activate" /\ pc' = pc /\ UNCHANGED cmd /\ v \in cmd.go
      BY <2>1, <1>2, ActivationMoves
    <3> QED BY <3>1, <1>i DEF SafeInv, Chosen, Activating
  <2>2. CASE Activated(v) /\ res[v] = "failed_over"
    BY <2>2, <1>2, <1>i, StateMoves DEF LandingInv, SafeInv, ArmedInv, Rollback, Early, Chosen
  <2>3. CASE Activated(v) /\ res[v] # "failed_over"
    <3>1. pc \in Activating /\ v \in cmd.sel
      BY <2>3, <1>f DEF FaultlessInv
    <3>2. pc # "settle" \/ pc' = "settle"
      <4>1. pc = "settle" => pc' = "settle" \/ Settle
        BY <1>f, <1>m DEF Moves, ForwardMoves, Ends, SkewRefused
      <4>2. pc # "settle"
        BY <3>1, <2>3, <1>i DEF LandingInv, SafeInv, Chosen, Activating
      <4> QED BY <4>1, <4>2
    <3>3. pc' \in Activating
      BY <3>1, <3>2, <1>f, <1>m DEF Moves, ForwardMoves, Ends, SkewRefused, Activating
    <3> QED BY <3>1, <3>3, KeepsLocals DEF LocalsKept, Activating
  <2> QED BY <2>1, <2>2, <2>3
<1> QED BY <1>1, <1>2, <1>f

(* The command after the fault was admitted with the target up, and it     *)
(* stays up.                                                               *)
LEMMA LookStep ==
  ASSUME TypeOK, LookedInv, FaultlessInv, LookInv, MaxFaults <= 1, [Next]_vars
  PROVE  LookInv'
<1>t. cmd \in Locals /\ pc \in PCs
  BY DEF TypeOK, CommandOK
<1>m. Moves
  BY CommandMoves
<1>b. MaxFaults \in Nat
  BY BoundsAssumption
<1>s. cmd.sel \in SUBSET VMs
  BY <1>t DEF Locals
<1>1. ASSUME pc' \in {"open"} \cup Early, NEW v \in cmd'.sel, Activated(v)'
      PROVE  dstUp' /\ faults' # 0
  <2>1. CASE Request
    <3>1. /\ pc = "idle" /\ dstUp /\ UNCHANGED <<dstUp, faults>>
          /\ v \in Selectable
      <4>1. CASE Resume
        BY <4>1, <1>1, NoCmdType DEF Resume, Begin, Admitted, ProbesAllow, Locals, links
      <4>2. ASSUME NEW m \in Modes, NEW f \in BOOLEAN, NEW a \in BOOLEAN, NEW s \in SUBSET VMs,
                   Failover(m, f, a, s)
            PROVE  /\ pc = "idle" /\ dstUp /\ UNCHANGED <<dstUp, faults>>
                   /\ v \in Selectable
        BY <4>2, <1>1, NoCmdType DEF Failover, Begin, Admitted, ProbesAllow, Locals, links
      <4> QED BY <4>1, <4>2, <2>1 DEF Request
    <3>2. v \in VMs /\ res[v] # "failed_over"
      BY <3>1 DEF Selectable
    <3>3. Activated(v)
      BY <3>1, <3>2, <1>1, ActivationMoves
    <3>4. faults # 0
      BY <3>1, <3>2, <3>3 DEF FaultlessInv, Activating
    <3> QED BY <3>1, <3>4
  <2>2. CASE ~Request
    <3>1. pc \in {"open"} \cup Early
      BY <2>2, <1>1, <1>m, <1>t DEF Moves, ForwardMoves, HandlerMoves, Ends, Killed, Raised,
         Handler, Early, PCs, ForwardPCs, HandlerPCs
    <3>2. v \in cmd.sel /\ v \in VMs
      BY <3>1, <1>1, <1>s, KeepsLocals DEF LocalsKept, Early
    <3>3. Activated(v)
      BY <3>1, <3>2, <1>1, ActivationMoves DEF Early
    <3>4. dstUp /\ faults # 0
      BY <3>1, <3>2, <3>3 DEF LookInv
    <3>5. ~TargetLost
      BY <3>4, <1>b, FaultMoves
    <3>6. dstUp'
      BY <3>4, <3>5, WhoWrites DEF Writers, TargetBack
    <3>7. faults' # 0
      BY <3>4, FaultMoves
    <3> QED BY <3>6, <3>7
  <2> QED BY <2>1, <2>2
<1>2. ASSUME pc' \in Fencing, cmd'.armed PROVE cmd'.done # {}
  <2>1. CASE Survey
    BY <2>1, <1>2, <1>t DEF Survey, Locals
  <2>2. CASE ~Survey
    <3>1. pc \in Fencing /\ pc' # "idle"
      BY <2>2, <1>2, <1>m, <1>t DEF Moves, ForwardMoves, HandlerMoves, Ends, Killed, Raised,
         Handler, Fencing, PCs, ForwardPCs, HandlerPCs
    <3>2. ~Arm
      BY <3>1 DEF Arm, Fencing
    <3> QED BY <3>1, <3>2, <2>2, <1>2, KeepsLocals DEF LocalsKept, LookInv, Fencing
  <2> QED BY <2>1, <2>2
<1> QED BY <1>1, <1>2 DEF LookInv

(* Hence nobody undoes before looking.                                     *)
LEMMA OneFaultLooks ==
  ASSUME TypeOK, LookInv, MaxFaults <= 1, [Next]_vars
  PROVE  LooksFirst
<1> SUFFICES ASSUME pc \in Early, \E v \in cmd.sel : Activated(v), pc' \in {"undo", "unmark"}
             PROVE  FALSE
  BY DEF LooksFirst
<1>1. dstUp /\ faults # 0
  BY DEF LookInv
<1>2. ~Cancel
  BY <1>1, FaultMoves, BoundsAssumption
<1> QED BY <1>1, <1>2, EarlyEnds

-----------------------------------------------------------------------------
(* The first command starts afresh; a command that finds final backups left *)
(* in its run comes after a fault.                                          *)
FreshInv ==
  /\ pc = "unlock" => ~run.open
  /\ faults = 0 =>
       /\ pc \notin HandlerPCs
       /\ pc \in {"idle", "open"} => ~run.open
       /\ pc \in {"mark", "marks"} => ~HasFinal(VMs)

(* A rollback that has final backups began after the marks: the registry   *)
(* lets it go back, so that it is not left in the middle.                  *)
MarkedInv ==
  /\ pc \in {"marks"} \cup Taking => plan = "failing_over"
  /\ pc \in {"undo", "restart", "unmark"} /\ HasFinal(cmd.sel) =>
       plan = "failing_over" /\ \A v \in cmd.sel : res[v] = "failing_over"
  /\ pc = "unplan" /\ HasFinal(cmd.sel) => plan = "failing_over"

(* Without a fault each run is closed by the command that opened it.       *)
LEMMA FreshStep ==
  ASSUME TypeOK, LookedInv, FaultlessInv, ModeInv, SelectionInv, FreshInv,
         Modes \subseteq {"planned"}, [Next]_vars
  PROVE  FreshInv'
<1>t. pc \in PCs
  BY DEF TypeOK, CommandOK
<1>m. Moves
  BY CommandMoves
<1>w. \/ OpenRun \/ SaveFinal \/ RecordPoints \/ KeepRun \/ CloseRun \/ UncloseRun
      \/ UNCHANGED run
  BY WhoWrites DEF Writers
<1>1. ASSUME pc' = "unlock" PROVE ~run'.open
  <2>1. CASE CloseRun
    BY <2>1 DEF CloseRun, NoRun
  <2>2. CASE ~CloseRun
    <3>1. pc = "unlock"
      BY <2>2, <1>1, <1>m, <1>t DEF Moves, ForwardMoves, HandlerMoves, Ends, Killed, Raised,
         Handler, PCs, ForwardPCs, HandlerPCs
    <3> QED BY <3>1, <1>1, <1>w, <2>2 DEF FreshInv, OpenRun, SaveFinal, RecordPoints, KeepRun,
       UncloseRun
  <2> QED BY <2>1, <2>2
<1>2. ASSUME faults' = 0
      PROVE  /\ pc' \notin HandlerPCs
             /\ pc' \in {"idle", "open"} => ~run'.open
             /\ pc' \in {"mark", "marks"} => ~HasFinal(VMs)'
  <2>f. faults = 0 /\ ~Cancel /\ ~Crash /\ ~CallFails
    BY <1>2, FaultlessMoves
  <2>i. /\ pc \notin HandlerPCs
        /\ pc \in {"idle", "open"} => ~run.open
        /\ pc \in {"mark", "marks"} => ~HasFinal(VMs)
    BY <2>f DEF FreshInv
  <2>s. ~SkewRefused
    BY DEF SkewRefused, MayGo, ModeInv, SelectionInv
  <2>1. pc' \notin HandlerPCs
    BY <2>f, <2>i, <2>s, <1>t, <1>m DEF Moves, ForwardMoves, Ends, Killed, Raised, PCs,
       ForwardPCs, HandlerPCs
  <2>2. ASSUME pc' \in {"idle", "open"} PROVE ~run'.open
    <3>1. pc \in {"idle", "open", "unlock"}
      BY <2>2, <2>f, <2>i, <2>s, <1>t, <1>m DEF Moves, ForwardMoves, Ends, Killed, Raised, PCs,
         ForwardPCs, HandlerPCs
    <3>2. UNCHANGED run
      BY <3>1, <2>2, <1>w DEF OpenRun, SaveFinal, RecordPoints, KeepRun, CloseRun, UncloseRun,
         Goto
    <3> QED BY <3>1, <3>2, <2>i DEF FreshInv
  <2>3. ASSUME pc' \in {"mark", "marks"} PROVE ~HasFinal(VMs)'
    <3>1. CASE OpenRun
      <4>1. finalBackup' = NoPoints
        BY <3>1, <2>i DEF OpenRun
      <4> QED BY <4>1, DisksAssumption DEF HasFinal, NoPoints
    <3>2. CASE ~OpenRun
      <4>1. pc \in {"mark", "marks"}
        BY <3>2, <2>3, <2>f, <2>i, <2>s, <1>t, <1>m DEF Moves, ForwardMoves, Ends, Killed,
           Raised, PCs, ForwardPCs, HandlerPCs
      <4>2. OpenRun \/ (\E f \in [Disks -> 0..MaxWrites] : TakeFinal(f)) \/ UNCHANGED finalBackup
        BY WhoWrites DEF Writers
      <4>3. UNCHANGED finalBackup
        BY <4>1, <4>2 DEF OpenRun, TakeFinal
      <4> QED BY <4>1, <4>3, <2>i DEF HasFinal
    <3> QED BY <3>1, <3>2
  <2> QED BY <2>1, <2>2, <2>3
<1> QED BY <1>1, <1>2 DEF FreshInv

(* An exception before the marks comes with no final backup, or with a     *)
(* second fault.                                                           *)
LEMMA MarkedStep ==
  ASSUME TypeOK, LookedInv, ModeInv, SelectionInv, FreshInv, MarkedInv,
         Modes \subseteq {"planned"}, MaxFaults <= 1, [Next]_vars
  PROVE  MarkedInv'
<1>t. pc \in PCs /\ cmd.sel \in SUBSET VMs
  BY DEF TypeOK, CommandOK, Locals
<1>m. Moves
  BY CommandMoves
<1>i. ArmedInv /\ TakenInv
  BY DEF LookedInv
<1>w. /\ MarkPlan \/ Finish \/ UnmarkPlan \/ ToError \/ UNCHANGED plan
      /\ MarkVMs \/ Land \/ Settle \/ UnmarkVMs \/ UnmarkRefused \/ ToError \/ UNCHANGED res
      /\ OpenRun \/ (\E f \in [Disks -> 0..MaxWrites] : TakeFinal(f)) \/ UNCHANGED finalBackup
  BY WhoWrites DEF Writers
<1>1. ASSUME pc' \in {"marks"} \cup Taking PROVE plan' = "failing_over"
  <2>1. CASE MarkPlan
    BY <2>1 DEF MarkPlan
  <2>2. CASE ~MarkPlan
    <3>1. pc \in {"marks"} \cup Taking
      BY <2>2, <1>1, <1>m, <1>t DEF Moves, ForwardMoves, HandlerMoves, Ends, Killed, Raised,
         Handler, Taking, PCs, ForwardPCs, HandlerPCs
    <3>2. UNCHANGED plan
      BY <3>1, <2>2, <1>w DEF Finish, UnmarkPlan, ToError, Taking
    <3> QED BY <3>1, <3>2 DEF MarkedInv
  <2> QED BY <2>1, <2>2
<1>2. ASSUME pc' \in {"undo", "restart", "unmark"}, HasFinal(cmd.sel)'
      PROVE  plan' = "failing_over" /\ \A v \in cmd'.sel : res'[v] = "failing_over"
  <2>0. pc # "idle" /\ cmd'.sel = cmd.sel
    BY <1>2, <1>m, KeepsLocals DEF Moves, ForwardMoves, LocalsKept
  <2>1. CASE pc \in {"undo", "restart", "unmark"}
    <3>1. UNCHANGED <<plan, res, finalBackup>>
      BY <2>1, <1>2, <1>w DEF MarkPlan, Finish, UnmarkPlan, ToError, MarkVMs, Land, Settle,
         UnmarkVMs, UnmarkRefused, OpenRun, TakeFinal, Goto
    <3> QED BY <3>1, <2>0, <2>1, <1>2 DEF MarkedInv, HasFinal
  <2>2. CASE pc \notin {"undo", "restart", "unmark"}
    <3>1. Raised /\ pc \in {"mark", "marks"} \cup Taking
      BY <2>2, <1>2, <1>m, <1>t, <1>i DEF Moves, ForwardMoves, HandlerMoves, Ends, Killed,
         Raised, Handler, ArmedInv, PastArm, Taking, PCs, ForwardPCs, HandlerPCs
    <3>2. UNCHANGED <<plan, res, finalBackup>>
      BY <3>1 DEF Raised, Cancel, CallFails, SkewRefused, registry, data
    <3>3. HasFinal(cmd.sel)
      BY <3>2, <2>0, <1>2 DEF HasFinal
    <3>4. CASE pc \in {"mark", "marks"}
      <4>1. faults # 0
        BY <3>3, <3>4, <1>t DEF FreshInv, HasFinal
      <4>2. ~Cancel
        BY <4>1, FaultMoves, BoundsAssumption
      <4> QED BY <3>1, <3>4, <4>2 DEF Raised, CallFails, Blocked, SkewRefused
    <3>5. CASE pc \in Taking
      BY <3>2, <3>5, <2>0, <1>i DEF MarkedInv, TakenInv
    <3> QED BY <3>1, <3>4, <3>5
  <2> QED BY <2>1, <2>2
<1>3. ASSUME pc' = "unplan", HasFinal(cmd.sel)' PROVE plan' = "failing_over"
  <2>1. pc \in {"unmark", "unplan"} /\ cmd'.sel = cmd.sel
    BY <1>3, <1>m, <1>t, KeepsLocals DEF Moves, ForwardMoves, HandlerMoves, Ends, Killed, Raised,
       Handler, PCs, ForwardPCs, HandlerPCs, LocalsKept
  <2>2. UNCHANGED <<plan, finalBackup>>
    BY <2>1, <1>3, <1>w DEF MarkPlan, Finish, UnmarkPlan, ToError, OpenRun, TakeFinal, Goto
  <2> QED BY <2>1, <2>2, <1>3 DEF MarkedInv, HasFinal
<1> QED BY <1>1, <1>2, <1>3 DEF MarkedInv

(* A rollback is the answer to the one fault: nothing else stops it, and   *)
(* the registry refuses no step of it.                                     *)
LEMMA OneFaultRollsBack ==
  ASSUME TypeOK, FreshInv, MarkedInv, MaxFaults <= 1, [Next]_vars
  PROVE  RollbackEnds
<1> SUFFICES ASSUME pc \in Rollback, pc' = "idle", HasFinal(cmd.sel) PROVE ~run'.open
  BY DEF RollbackEnds, HasFinal
<1>1. faults # 0
  BY DEF FreshInv, Rollback, HandlerPCs
<1>2. ~Crash
  BY <1>1, FaultMoves, BoundsAssumption
<1>3. ~UnmarkRefused
  BY DEF UnmarkRefused, MarkedInv, MayBecome, TransitionAllowed, PlanTransitions
<1>4. UncloseRun
  BY <1>2, <1>3, CommandMoves DEF Moves, HandlerMoves, Killed, Rollback
<1> QED BY <1>4 DEF UncloseRun, NoRun

-----------------------------------------------------------------------------
(* Any number of kills and losses of the source.                           *)
LEMMA ManyKillsLook ==
  ASSUME FaultKinds \subseteq {"crash", "source"}
  PROVE  Spec => [][LooksFirst]_vars
<1>1. Init => dstUp
  BY DEF Init
<1>2. dstUp /\ [Next]_vars => dstUp'
  BY UpStep
<1>3. dstUp /\ [Next]_vars => [LooksFirst]_vars
  BY TargetUpLooks
<1> QED BY <1>1, <1>2, <1>3, PTL DEF Spec

(* One fault of any kind.                                                  *)
OneFaultInv == LookedInv /\ FaultlessInv /\ LookInv

LEMMA OneFaultInit == Init => OneFaultInv
<1> SUFFICES ASSUME Init PROVE OneFaultInv
  OBVIOUS
<1>1. \A v \in VMs : ~Activated(v)
  BY DisksAssumption DEF Init, Activated
<1> QED BY <1>1, LookedInit DEF OneFaultInv, FaultlessInv, LookInv, Init, Early, Fencing

LEMMA OneFaultStep ==
  ASSUME MaxFaults <= 1, OneFaultInv, [Next]_vars
  PROVE  OneFaultInv' /\ LooksFirst
<1>t. TypeOK
  BY DEF OneFaultInv, LookedInv, TypeInv
<1>1. LooksFirst
  BY <1>t, OneFaultLooks DEF OneFaultInv
<1> QED BY <1>t, <1>1, LookedStep, FaultlessStep, LookStep DEF OneFaultInv

LEMMA OneFaultLook ==
  ASSUME MaxFaults <= 1
  PROVE  Spec => [][LooksFirst]_vars
<1>1. OneFaultInv /\ [Next]_vars => OneFaultInv' /\ [LooksFirst]_vars
  BY OneFaultStep
<1> QED BY <1>1, OneFaultInit, PTL DEF Spec

(* Planned, any number of kills: no command comes to its handler.          *)
LEMMA PlannedKills ==
  ASSUME FaultKinds \subseteq {"crash"}, Modes \subseteq {"planned"}
  PROVE  Spec => [][LooksFirst]_vars /\ [][RollbackEnds]_vars
<1> DEFINE Inv == TypeInv /\ RunInv /\ ModeInv /\ SelectionInv /\ NoHandler /\ srcUp /\ dstUp
<1>1. Init => Inv
  BY TypeInit DEF TypeInv, BeforeSet, RunInv, InterruptedKeepsItsRun, Interrupted, ModeInv,
     ScopeStates, SelectionInv, NoHandler, HandlerPCs, Init, NoRun
<1>2. Inv /\ [Next]_vars => Inv'
  BY TypeInvStep, RunStep, ModeStep, SelectionStep, NoHandlerStep, UpStep DEF TypeInv
<1>3. Inv /\ Inv' => [LooksFirst]_vars /\ [RollbackEnds]_vars
  BY KillsOnly
<1> QED BY <1>1, <1>2, <1>3, PTL DEF Spec

(* Planned, one fault of any kind.                                         *)
LEMMA PlannedOneFault ==
  ASSUME MaxFaults <= 1, Modes \subseteq {"planned"}
  PROVE  Spec => [][LooksFirst]_vars /\ [][RollbackEnds]_vars
<1> DEFINE Inv == OneFaultInv /\ ModeInv /\ SelectionInv /\ FreshInv /\ MarkedInv
<1>1. Init => Inv
  <2> SUFFICES ASSUME Init PROVE ModeInv /\ SelectionInv /\ FreshInv /\ MarkedInv
    BY OneFaultInit
  <2>1. pc = "idle" /\ run = NoRun /\ res = [v \in VMs |-> "protected"]
    BY DEF Init
  <2> QED BY <2>1 DEF ModeInv, ScopeStates, SelectionInv, FreshInv, MarkedInv, NoRun, HandlerPCs,
     Taking
<1>2. Inv /\ [Next]_vars => Inv' /\ [LooksFirst]_vars /\ [RollbackEnds]_vars
  <2> SUFFICES ASSUME Inv, [Next]_vars PROVE Inv' /\ LooksFirst /\ RollbackEnds
    OBVIOUS
  <2>1. TypeOK /\ RunInv /\ LookedInv /\ FaultlessInv
    BY DEF OneFaultInv, LookedInv, TypeInv
  <2> QED BY <2>1, OneFaultStep, ModeStep, SelectionStep, FreshStep, MarkedStep, OneFaultRollsBack
<1> QED BY <1>1, <1>2, PTL DEF Spec

-----------------------------------------------------------------------------
(* A VM with an activated volume that has not failed over is one of those  *)
(* of the open run, so that resume takes it up, in both modes: with any    *)
(* number of kills and of losses of the source, or with one fault of any   *)
(* kind (failover, the order of its registry writes).                      *)
THEOREM ActivatedRunKept ==
  ASSUME FaultKinds \subseteq {"crash", "source"} \/ MaxFaults <= 1
  PROVE  Spec => []ActivatedKeepsItsRun
<1>1. Spec => [][LooksFirst]_vars
  BY ManyKillsLook, OneFaultLook
<1> QED BY <1>1, RunKeptIfLooked, PTL

(* After the activation nothing is undone: a VM with an activated volume   *)
(* is never called protected again, under the same faults (failover, its   *)
(* handler).                                                               *)
THEOREM ActivatedStays ==
  ASSUME FaultKinds \subseteq {"crash", "source"} \/ MaxFaults <= 1
  PROVE  Spec => []ActivatedNotUndone
<1>1. Spec => [][LooksFirst]_vars
  BY ManyKillsLook, OneFaultLook
<1> QED BY <1>1, StaysIfLooked, PTL

(* The loss that is reported is never optimistic: a recovery point of an   *)
(* activated disk was saved before its activation and is not later than    *)
(* what the volume holds, also when the run was interrupted and resumed,   *)
(* under the same faults (failover, _applied_points).                      *)
THEOREM LossConservative ==
  ASSUME FaultKinds \subseteq {"crash", "source"} \/ MaxFaults <= 1
  PROVE  Spec => []LossReportConservative
<1>1. Spec => [][LooksFirst]_vars
  BY ManyKillsLook, OneFaultLook
<1> QED BY <1>1, LossIfLooked, PTL

(* A planned failover never leaves a VM running on both sides, when nobody *)
(* starts a source by hand: with any number of kills, or with one fault of *)
(* any kind, through all resumes and undos (failover, _fence_source,       *)
(* _rollback_failover).                                                    *)
THEOREM OneSideRuns ==
  ASSUME Modes \subseteq {"planned"}, MaxRestarts = 0,
         FaultKinds \subseteq {"crash"} \/ MaxFaults <= 1
  PROVE  Spec => []NoSplitBrain
<1>1. Spec => [][LooksFirst]_vars /\ [][RollbackEnds]_vars
  BY PlannedKills, PlannedOneFault
<1> QED BY <1>1, OneSideIfRolledBack, PTL

(* Under the same conditions it loses nothing: a standby volume is only    *)
(* activated when its source is stopped and all that was written has been  *)
(* applied, also from a final backup that an earlier command took          *)
(* (failover, take_backups, wait_applied).                                 *)
THEOREM NothingLost ==
  ASSUME Modes \subseteq {"planned"}, MaxRestarts = 0,
         FaultKinds \subseteq {"crash"} \/ MaxFaults <= 1
  PROVE  Spec => ZeroLoss
<1>1. Spec => [][LooksFirst]_vars /\ [][RollbackEnds]_vars
  BY PlannedKills, PlannedOneFault
<1> QED BY <1>1, NoLossIfRolledBack, PTL

(* Under the same conditions a planned failover is a hand-over: each of    *)
(* its steps is a step of the abstract specification or changes nothing of *)
(* it, so that a VM has one owner at a time and its data never changes but *)
(* by a write of the guest that owns it. The fairness of the hand-over is  *)
(* not part of this.                                                       *)
THEOREM HandsOver ==
  ASSUME Modes \subseteq {"planned"}, MaxRestarts = 0,
         FaultKinds \subseteq {"crash"} \/ MaxFaults <= 1
  PROVE  Spec => Handover!Spec
<1>1. Spec => [][LooksFirst]_vars /\ [][RollbackEnds]_vars
  BY PlannedKills, PlannedOneFault
<1> QED BY <1>1, HandsOverIfRolledBack, PTL
=============================================================================
