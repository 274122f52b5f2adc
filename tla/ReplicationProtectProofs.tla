----------------------- MODULE ReplicationProtectProofs ------------------------
(***************************************************************************)
(* Proofs about the commands of a plan before any failover, for any VMs,   *)
(* intervals, faults and commands.                                         *)
(***************************************************************************)
EXTENDS ReplicationProtect, TLAPS

Ops == Commands \ {"failover"}

--------------------------------------------------------------------------------
(* The values commands are made of. *)

LEMMA NoUndoType == NoUndo \in Undos
  BY DEF NoUndo, Undos, Times

LEMMA UnknownType == Unknown \in Found
  BY DEF Unknown, Found, Times

LEMMA NoRowType == NoRow \in Rows
  BY NoUndoType, UnknownType DEF NoRow, Rows, Times

LEMMA NoCmdType == NoCmd \in Cmds /\ NoCmd.op = None /\ NoCmd.at = "idle"
  BY NoUndoType, UnknownType DEF NoCmd, Cmds, Times, Handlers

LEMMA OrderType ==
  ASSUME NEW op \in Ops
  PROVE  /\ Order(op) \in Seq(StepNames)
         /\ Order(op)[1] = "begin" /\ 1 \in DOMAIN Order(op)
         /\ Order(op)[Len(Order(op))] = IF op = "unprotect" THEN "done" ELSE "end"
<1>1. CASE op = "measure-start"
  BY <1>1 DEF Order, StepNames
<1>2. CASE op = "measure-stop"
  BY <1>2 DEF Order, StepNames
<1>3. CASE op = "protect"
  BY <1>3 DEF Order, StepNames
<1>4. CASE op = "unprotect"
  BY <1>4 DEF Order, StepNames
<1> QED BY <1>1, <1>2, <1>3, <1>4 DEF Ops, Commands

\* A step that is not the last has a next one of the same command.
LEMMA NextStep ==
  ASSUME NEW op \in Ops, NEW at \in Names(op),
         at # IF op = "unprotect" THEN "done" ELSE "end"
  PROVE  LET n == CHOOSE i \in DOMAIN Order(op) : Order(op)[i] = at
         IN  Order(op)[n + 1] \in Names(op) /\ Order(op)[n + 1] \in StepNames
<1> DEFINE n == CHOOSE i \in DOMAIN Order(op) : Order(op)[i] = at
<1>1. n \in DOMAIN Order(op) /\ Order(op)[n] = at
  BY DEF Names, Range
<1>2. n # Len(Order(op))
  BY <1>1, OrderType
<1>3. n + 1 \in DOMAIN Order(op)
  BY <1>1, <1>2, OrderType
<1>4. Order(op)[n + 1] \in Names(op)
  BY <1>3 DEF Names, Range
<1>5. Order(op)[n + 1] \in StepNames
  BY <1>3, OrderType
<1> QED
  BY <1>4, <1>5

LEMMA WorksType ==
  ASSUME NEW c \in Cmds
  PROVE  Works(c) \subseteq VMs
  BY DEF Works, Known, Cmds

\* What a step of a command and the end of a VM in a step keep.
Steps(c) == c \in Cmds /\ c.op \in Ops /\ c.at \in Names(c.op)

LEMMA StepType ==
  ASSUME NEW c, Steps(c), c.at # IF c.op = "unprotect" THEN "done" ELSE "end"
  PROVE  Steps(Step(c)) /\ Step(c).op = c.op
<1> DEFINE n == CHOOSE i \in DOMAIN Order(c.op) : Order(c.op)[i] = c.at
           at == Order(c.op)[n + 1]
<1>1. at \in Names(c.op) /\ at \in StepNames
  BY NextStep DEF Steps
<1>2. Step(c) = [c EXCEPT !.at = at, !.todo = Works(c), !.last = {}]
  BY DEF Step
<1> HIDE DEF at, n
<1> QED
  BY <1>1, <1>2, WorksType DEF Steps, Cmds

LEMMA DoneType ==
  ASSUME NEW c, Steps(c), NEW v \in VMs, c.at # IF c.op = "unprotect" THEN "done" ELSE "end"
  PROVE  Steps(Done(c, v)) /\ Done(c, v).op = c.op
<1>1. CASE c.todo \subseteq {v}
  BY <1>1, StepType DEF Done
<1>2. CASE ~(c.todo \subseteq {v})
  <2>1. Done(c, v) = [c EXCEPT !.todo = c.todo \ {v}, !.last = {}]
    BY <1>2 DEF Done
  <2> QED BY <2>1 DEF Steps, Cmds
<1> QED BY <1>1, <1>2

LEMMA NamesAreSteps ==
  ASSUME NEW op \in Ops
  PROVE  Names(op) \subseteq StepNames /\ "idle" \notin Names(op)
<1>1. Order(op) \in Seq(StepNames)
  BY OrderType
<1>2. \A i \in DOMAIN Order(op) : Order(op)[i] \in StepNames
  BY <1>1
<1> QED BY <1>2 DEF Names, Range, StepNames

\* At a step, a command is one that Step and Done keep well typed.
LEMMA AtStep ==
  ASSUME CmdOK, cmd.at \in StepNames
  PROVE  Steps(cmd)
<1>1. cmd.at # "idle" /\ cmd.at \notin Handlers
  BY DEF StepNames, Handlers
<1>2. cmd.op \in Ops
  BY <1>1 DEF CmdOK, Cmds, Ops
<1>3. cmd.op # None
  BY <1>2 DEF Ops, Commands, None
<1> QED BY <1>1, <1>2, <1>3 DEF CmdOK, Steps

\* What a command may become: one that steps, one in a handler, none.
LEMMA StepsOK ==
  ASSUME NEW c, Steps(c), cmd' = c
  PROVE  CmdOK'
<1>1. c.at # "idle" /\ c.op # None
  BY NamesAreSteps DEF Steps, Ops, Commands, None
<1> QED BY <1>1 DEF CmdOK, Steps, Ops

LEMMA HandlerOK ==
  ASSUME NEW c \in Cmds, c.op \in Ops, c.at \in Handlers \ {"idle"}, cmd' = c
  PROVE  CmdOK'
  BY DEF CmdOK, Ops, Commands, None

LEMMA IdleOK ==
  ASSUME cmd' = NoCmd
  PROVE  CmdOK'
  BY NoCmdType DEF CmdOK, None

--------------------------------------------------------------------------------
(* Each action keeps the types. *)

LEMMA TypeInit == Init => TypeOK
<1> SUFFICES ASSUME Init PROVE TypeOK
  OBVIOUS
<1>1. CmdOK
  BY NoCmdType DEF Init, CmdOK, None
<1>2. RegistryOK
  BY NoRowType, ProtectAssumption DEF Init, RegistryOK, Plans, States, PlanStates, Times
<1>3. ClustersOK /\ selected \subseteq VMs
  BY ProtectAssumption DEF Init, ClustersOK, Of, Kinds, LabelKinds, TargetKinds, Times
<1>4. PastOK
  BY UnknownType DEF Init, PastOK
<1> QED BY <1>1, <1>2, <1>3, <1>4 DEF TypeOK

LEMMA PastType ==
  ASSUME PastOK, NEW u \in Found, NEW t \in BOOLEAN, NEW m \in SUBSET Things, NEW f \in Nat, NEW n \in Nat,
         past' = [past EXCEPT !.undone = u, !.torn = t, !.missed = m, !.faults = f, !.commands = n]
  PROVE  PastOK'
  BY DEF PastOK

LEMMA RunType ==
  ASSUME TypeOK, NEW op \in Ops, NEW chosen \in Takes(op), Run(op, chosen)
  PROVE  TypeOK'
<1>1. chosen \in Times
  BY DEF Takes, Times
<1> DEFINE c == [NoCmd EXCEPT !.op = op, !.at = "begin", !.works = selected, !.chosen = chosen]
<1>2. "begin" \in Names(op)
  BY OrderType DEF Names, Range
<1>3. Steps(c)
  BY <1>1, <1>2, NoCmdType DEF Steps, Cmds, StepNames, Ops, TypeOK
<1>4. CmdOK'
  BY <1>3, StepsOK DEF Run
<1>5. past' = [past EXCEPT !.commands = past.commands + 1, !.undone = Unknown]
  BY DEF Run
<1>6. PastOK'
  <2>1. past.commands + 1 \in Nat /\ past.faults \in Nat /\ past.torn \in BOOLEAN /\ past.missed \in SUBSET Things
    BY DEF PastOK, TypeOK
  <2>2. past' = [past EXCEPT !.undone = Unknown, !.torn = past.torn, !.missed = past.missed,
                             !.faults = past.faults, !.commands = past.commands + 1]
    BY <1>5 DEF PastOK, TypeOK
  <2> QED BY <2>1, <2>2, PastType, UnknownType DEF TypeOK
<1> QED BY <1>4, <1>6 DEF Run, TypeOK, RegistryOK, ClustersOK, registry, clusters

LEMMA BeginType == TypeOK /\ Begin => TypeOK'
<1> SUFFICES ASSUME TypeOK, Begin PROVE TypeOK'
  OBVIOUS
<1>1. Steps(cmd) /\ cmd.at = "begin"
  BY AtStep DEF Begin, At, StepNames, TypeOK
<1> DEFINE kept == [cmd EXCEPT !.resumed = TRUE, !.undo = Reloaded, !.prev = row.prev, !.was = row.was]
           found == [known |-> TRUE, objs |-> objs, cron |-> cron, interval |-> plan.interval]
           fresh == [cmd EXCEPT !.prev = plan.interval, !.was = found]
           c == IF row.op = cmd.op THEN kept ELSE fresh
<1>2. Steps(kept) /\ kept.at = "begin"
  BY <1>1 DEF Steps, Cmds, Rows, RegistryOK, TypeOK, Reloaded
<1>3. found \in Found
  BY DEF Found, ClustersOK, RegistryOK, Plans, TypeOK
<1>4. Steps(fresh) /\ fresh.at = "begin"
  <2> HIDE DEF found
  <2> QED BY <1>1, <1>3 DEF Steps, Cmds, RegistryOK, Plans, TypeOK
<1>5. Steps(c) /\ c.at = "begin"
  <2> HIDE DEF kept, fresh
  <2> QED BY <1>2, <1>4
<1>6. cmd' = Step(c)
  BY DEF Begin
<1>7. CmdOK'
  <2> HIDE DEF c
  <2>1. Steps(Step(c))
    BY <1>5, StepType
  <2> QED BY <1>6, <2>1, StepsOK
<1>8. row' \in Rows
  BY NoRowType DEF Begin, RegistryOK, TypeOK
<1> QED BY <1>7, <1>8 DEF Begin, TypeOK, RegistryOK, ClustersOK, PastOK, clusters

\* The steps after which the command goes on, with everything else as it types.
LEMMA OnwardType ==
  ASSUME TypeOK, RegistryOK', ClustersOK', PastOK', selected' \subseteq VMs, cmd.at \in StepNames,
         cmd.at # IF cmd.op = "unprotect" THEN "done" ELSE "end",
         cmd' = Step(cmd) \/ \E v \in VMs : cmd' = Done(cmd, v)
  PROVE  TypeOK'
<1>1. Steps(cmd)
  BY AtStep DEF TypeOK
<1>2. CASE cmd' = Step(cmd)
  BY <1>1, <1>2, StepType, StepsOK DEF TypeOK
<1>3. CASE \E v \in VMs : cmd' = Done(cmd, v)
  BY <1>1, <1>3, DoneType, StepsOK DEF TypeOK
<1> QED BY <1>2, <1>3

LEMMA SetPlanType ==
  ASSUME TypeOK, NEW state \in PlanStates, SetPlan(state)
  PROVE  RegistryOK' /\ ClustersOK' /\ PastOK' /\ selected' \subseteq VMs
<1>1. plan' \in Plans
  BY DEF SetPlan, TypeOK, RegistryOK, Plans
<1> QED BY <1>1 DEF SetPlan, TypeOK, RegistryOK, ClustersOK, PastOK, clusters

LEMMA MarkedType ==
  ASSUME TypeOK, NEW v \in VMs, NEW state \in PlanStates \ {"error"}
  PROVE  Marked(v, state) \in [VMs -> States]
<1>1. res[v] \in States /\ res \in [VMs -> States]
  BY DEF TypeOK, RegistryOK
<1>2. CASE res[v].state = state
  BY <1>1, <1>2 DEF Marked
<1>3. CASE res[v].state # state
  <2> DEFINE r == [state |-> state, origin |-> NoOrigin]
  <2>1. Marked(v, state) = [res EXCEPT ![v] = r]
    BY <1>3 DEF Marked
  <2>2. r \in States
    BY DEF States
  <2> HIDE DEF r
  <2> QED BY <1>1, <2>1, <2>2
<1> QED BY <1>2, <1>3

LEMMA ListType ==
  ASSUME TypeOK, cmd.at \in StepNames, NEW u \in Undos, NEW l \in SUBSET Things,
         cmd' = [cmd EXCEPT !.undo = u, !.last = l]
  PROVE  CmdOK'
<1>1. Steps(cmd)
  BY AtStep DEF TypeOK
<1>2. Steps([cmd EXCEPT !.undo = u, !.last = l])
  BY <1>1 DEF Steps, Cmds
<1> QED BY <1>2, StepsOK

LEMMA FrontType ==
  ASSUME NEW S, NEW s \in Seq(S), s # <<>>
  PROVE  Front(s) \in Seq(S) /\ Last(s) \in S
<1>1. Len(s) \in Nat /\ Len(s) >= 1
  OBVIOUS
<1> QED BY <1>1 DEF Front, Last

LEMMA WithoutType ==
  ASSUME CmdOK, NEW lost
  PROVE  Without(lost) \in Undos
<1>1. cmd.undo \in Undos
  BY DEF CmdOK, Cmds
<1> DEFINE made == IF cmd.undo.made # <<>> /\ Last(cmd.undo.made) \in lost THEN Front(cmd.undo.made)
                   ELSE cmd.undo.made
           labels == IF cmd.undo.labels # <<>> /\ Last(cmd.undo.labels) = lost THEN Front(cmd.undo.labels)
                     ELSE cmd.undo.labels
           was == [v \in VMs |-> IF <<"cron", v>> \in lost THEN None ELSE cmd.undo.cron[v]]
<1>2. made \in Seq(Of(Kinds))
  BY <1>1, FrontType DEF Undos
<1>3. labels \in Seq(SUBSET Of(LabelKinds))
  BY <1>1, FrontType DEF Undos
<1>4. was \in [VMs -> Times]
  BY <1>1 DEF Undos, Times
<1>5. Without(lost) = [made |-> made, labels |-> labels, noted |-> cmd.undo.noted, cron |-> was]
  BY DEF Without
<1> HIDE DEF made, labels, was
<1> QED BY <1>1, <1>2, <1>3, <1>4, <1>5 DEF Undos

LEMMA SlipType ==
  ASSUME PastOK, NEW lost \in SUBSET Things, Slip(lost)
  PROVE  PastOK'
<1> DEFINE torn == past.torn \/ (cmd.cancelled /\ plan.state = "protected")
<1>1. past.faults + 1 \in Nat /\ past.commands \in Nat /\ past.undone \in Found
      /\ past.missed \cup lost \in SUBSET Things
  BY DEF PastOK
<1>2. torn \in BOOLEAN
  OBVIOUS
<1>3. past' = [past EXCEPT !.undone = past.undone, !.torn = torn, !.missed = past.missed \cup lost,
                           !.faults = past.faults + 1, !.commands = past.commands]
  BY DEF PastOK, Slip
<1> HIDE DEF torn
<1> QED BY <1>1, <1>2, <1>3, PastType

LEMMA LastType == CmdOK => \A lost \in {{}, cmd.last} : lost \in SUBSET Things
  BY DEF CmdOK, Cmds

LEMMA ActionStateOf ==
  \A op \in Ops : ActionState(op) \in PlanStates \ {"error"}
  BY DEF ActionState, Ops, Commands, PlanStates

\* Only unprotect asks a cluster first, at a place of its steps this says.
LEMMA TargetAsked ==
  ASSUME Steps(cmd), cmd.at \in {"ask-target", "ask-source"}
  PROVE  cmd.op = "unprotect"
  BY DEF Steps, Names, Range, Order, Ops, Commands

LEMMA AskedNext ==
  ASSUME NEW c, Steps(c), c.op = "unprotect", NEW i \in 1..9, c.at = Order("unprotect")[i]
  PROVE  Steps(Step(c)) /\ Step(c).op = "unprotect" /\ Step(c).at = Order("unprotect")[i + 1]
<1> DEFINE n == CHOOSE j \in DOMAIN Order(c.op) : Order(c.op)[j] = c.at
<1>1. DOMAIN Order("unprotect") = 1..10 /\ Order("unprotect")[10] = "done"
  BY DEF Order
<1>2. \A j, k \in 1..10 : Order("unprotect")[j] = Order("unprotect")[k] => j = k
  BY DEF Order
<1>3. n = i
  BY <1>1, <1>2
<1>4. c.at # "done"
  BY <1>1, <1>2
<1>5. Steps(Step(c)) /\ Step(c).op = c.op
  BY <1>4, StepType
<1>6. Step(c).at = Order(c.op)[n + 1]
  BY DEF Step, Steps, Cmds
<1> HIDE DEF n
<1> QED BY <1>3, <1>5, <1>6

\* A side that does not answer, or has nothing, is passed over.
LEMMA AskedTwice ==
  ASSUME Steps(cmd), cmd.op = "unprotect"
  PROVE  /\ cmd.at = "ask-target" => /\ Steps(Step(Step(cmd))) /\ Step(Step(cmd)).op = "unprotect"
                                     /\ Step(Step(cmd)).at = "ask-source"
         /\ cmd.at = "ask-source" => /\ Steps(Step(Step(Step(cmd)))) /\ Step(Step(Step(cmd))).op = "unprotect"
                                     /\ Step(Step(Step(cmd))).at = "rows"
<1> DEFINE o == Order("unprotect")
<1>1. o[4] = "ask-target" /\ o[6] = "ask-source" /\ o[9] = "rows"
  BY DEF Order
<1>2. ASSUME cmd.at = "ask-target" 
      PROVE  /\ Steps(Step(Step(cmd))) /\ Step(Step(cmd)).op = "unprotect"
             /\ Step(Step(cmd)).at = "ask-source"
  <2>1. Steps(Step(cmd)) /\ Step(cmd).op = "unprotect" /\ Step(cmd).at = o[4 + 1]
    BY <1>1, <1>2, AskedNext
  <2> QED BY <1>1, <2>1, AskedNext
<1>3. ASSUME cmd.at = "ask-source"
      PROVE  /\ Steps(Step(Step(Step(cmd)))) /\ Step(Step(Step(cmd))).op = "unprotect"
             /\ Step(Step(Step(cmd))).at = "rows"
  <2>1. Steps(Step(cmd)) /\ Step(cmd).op = "unprotect" /\ Step(cmd).at = o[6 + 1]
    BY <1>1, <1>3, AskedNext
  <2>2. Steps(Step(Step(cmd))) /\ Step(Step(cmd)).op = "unprotect" /\ Step(Step(cmd)).at = o[7 + 1]
    BY <2>1, AskedNext
  <2> QED BY <1>1, <2>2, AskedNext
<1> QED BY <1>2, <1>3

\* The steps on the registry.
LEMMA RegistrySteps ==
  ASSUME TypeOK,
         \/ SetInterval \/ SetState \/ SetDone \/ StayPending \/ End \/ Untouched \/ Pass \/ Resync
         \/ \E v \in VMs : MakeRow(v) \/ RecordWorks(v) \/ UnprotectRow(v) \/ EndRows(v) \/ Ready(v)
  PROVE  TypeOK'
<1> USE DEF At, AtFor
<1>1. CASE SetInterval
  <2>1. Steps(cmd) /\ cmd.chosen \in Times
    BY <1>1, AtStep DEF SetInterval, StepNames, TypeOK, CmdOK, Cmds
  <2>2. RegistryOK'
    BY <1>1, <2>1 DEF SetInterval, TypeOK, RegistryOK, Plans
  <2>3. ClustersOK' /\ PastOK' /\ selected' \subseteq VMs
    BY <1>1 DEF SetInterval, TypeOK, ClustersOK, PastOK, clusters
  <2> QED BY <1>1, <2>2, <2>3, OnwardType DEF SetInterval, StepNames
<1>2. CASE SetState
  <2>1. cmd.op \in Ops /\ cmd.at = "state"
    BY <1>2, AtStep DEF SetState, StepNames, TypeOK, Steps
  <2>2. RegistryOK' /\ ClustersOK' /\ PastOK' /\ selected' \subseteq VMs
    BY <1>2, <2>1, SetPlanType, ActionStateOf DEF SetState
  <2> QED BY <1>2, <2>1, <2>2, OnwardType DEF SetState, StepNames
<1>3. CASE SetDone
  <2>1. RegistryOK' /\ ClustersOK' /\ PastOK' /\ selected' \subseteq VMs
    BY <1>3, SetPlanType DEF SetDone, PlanStates
  <2>2. CASE cmd.op = "protect"
    BY <1>3, <2>1, <2>2, OnwardType DEF SetDone, StepNames
  <2>3. CASE cmd.op # "protect"
    BY <1>3, <2>1, <2>3, IdleOK DEF SetDone, TypeOK
  <2> QED BY <2>2, <2>3
<1>4. CASE StayPending
  BY <1>4, IdleOK DEF StayPending, TypeOK, RegistryOK, ClustersOK, PastOK, registry, clusters
<1>5. CASE End
  BY <1>5, IdleOK, NoRowType DEF End, CloseRun, TypeOK, RegistryOK, ClustersOK, PastOK, clusters
<1>6. CASE Untouched
  <2>1. Steps(cmd) /\ cmd.at = "ask-target"
    BY <1>6, AtStep DEF Untouched, StepNames, TypeOK
  <2>2. cmd.op = "unprotect"
    BY <2>1, TargetAsked
  <2>3. Steps(Step(Step(cmd)))
    BY <2>1, <2>2, AskedTwice
  <2> QED BY <1>6, <2>3, StepsOK DEF Untouched, TypeOK, RegistryOK, ClustersOK, PastOK, registry, clusters
<1>7. CASE Pass
  <2>1. cmd.at \in StepNames /\ cmd.at \notin {"done", "end"}
    BY <1>7 DEF Pass, StepNames
  <2>2. RegistryOK' /\ ClustersOK' /\ PastOK' /\ selected' \subseteq VMs
    BY <1>7 DEF Pass, TypeOK, RegistryOK, ClustersOK, PastOK, registry, clusters
  <2> QED BY <1>7, <2>1, <2>2, OnwardType DEF Pass
<1>8. CASE Resync
  <2>1. RegistryOK' /\ ClustersOK' /\ PastOK' /\ selected' \subseteq VMs
    BY <1>8 DEF Resync, TypeOK, RegistryOK, ClustersOK, PastOK, clusters
  <2> QED BY <1>8, <2>1, OnwardType DEF Resync, StepNames
<1>9. ASSUME NEW v \in VMs, MakeRow(v) PROVE TypeOK'
  <2>1. res' \in [VMs -> States]
    BY <1>9 DEF MakeRow, TypeOK, RegistryOK, States, PlanStates
  <2> QED BY <1>9, <2>1 DEF MakeRow, TypeOK, CmdOK, RegistryOK, ClustersOK, PastOK, clusters
<1>10. ASSUME NEW v \in VMs, NEW state \in PlanStates \ {"error"}, MarkRow(v, state),
              cmd.at \in {"row", "mark", "rows"}
       PROVE TypeOK'
  <2>1. RegistryOK' /\ ClustersOK' /\ PastOK' /\ selected' \subseteq VMs
    BY <1>10, MarkedType DEF MarkRow, TypeOK, RegistryOK, ClustersOK, PastOK, clusters
  <2>2. CASE cmd' = Done(cmd, v)
    BY <1>10, <2>1, <2>2, OnwardType DEF StepNames
  <2>3. CASE cmd' = [cmd EXCEPT !.at = "failed"]
    <3>1. Steps(cmd)
      BY <1>10, AtStep DEF StepNames, TypeOK
    <3>2. [cmd EXCEPT !.at = "failed"] \in Cmds /\ [cmd EXCEPT !.at = "failed"].op \in Ops
          /\ [cmd EXCEPT !.at = "failed"].at = "failed"
      BY <3>1 DEF Steps, Cmds, Handlers
    <3> QED BY <2>1, <2>3, <3>2, HandlerOK DEF Handlers, TypeOK
  <2> QED BY <1>10, <2>2, <2>3 DEF MarkRow
<1>11. ASSUME NEW v \in VMs, RecordWorks(v) PROVE TypeOK'
  <2>1. cmd.op \in Ops
    BY <1>11, AtStep DEF RecordWorks, StepNames, TypeOK, Steps
  <2> QED BY <1>10, <1>11, <2>1, ActionStateOf DEF RecordWorks
<1>12. ASSUME NEW v \in VMs, UnprotectRow(v) PROVE TypeOK'
  BY <1>10, <1>12 DEF UnprotectRow, PlanStates
<1>13. ASSUME NEW v \in VMs, EndRows(v) PROVE TypeOK'
  BY <1>10, <1>13 DEF EndRows, PlanStates
<1>14. ASSUME NEW v \in VMs, Ready(v) PROVE TypeOK'
  <2>1. cmd.at \in StepNames /\ cmd.at \notin {"done", "end"}
    BY <1>14 DEF Ready, StepNames, Made, TargetKinds
  <2>2. RegistryOK' /\ ClustersOK' /\ PastOK' /\ selected' \subseteq VMs
    BY <1>14 DEF Ready, TypeOK, RegistryOK, ClustersOK, PastOK, registry, clusters
  <2> QED BY <1>14, <2>1, <2>2, OnwardType DEF Ready
<1> QED BY <1>1, <1>2, <1>3, <1>4, <1>5, <1>6, <1>7, <1>8, <1>9, <1>11, <1>12, <1>13, <1>14

\* What an undo list becomes when one more thing is put in it.
LEMMA ListsType ==
  ASSUME NEW u \in Undos
  PROVE  /\ \A o \in Of(Kinds) : [u EXCEPT !.made = Append(u.made, o)] \in Undos
         /\ \A l \in SUBSET Of(LabelKinds) : [u EXCEPT !.labels = Append(u.labels, l)] \in Undos
         /\ \A n \in SUBSET VMs : [u EXCEPT !.noted = n] \in Undos
         /\ \A v \in VMs, t \in Times : [u EXCEPT !.cron = [u.cron EXCEPT ![v] = t]] \in Undos
<1>1. ASSUME NEW o \in Of(Kinds) PROVE [u EXCEPT !.made = Append(u.made, o)] \in Undos
  <2>1. Append(u.made, o) \in Seq(Of(Kinds))
    BY DEF Undos
  <2> QED BY <2>1 DEF Undos
<1>2. ASSUME NEW l \in SUBSET Of(LabelKinds) PROVE [u EXCEPT !.labels = Append(u.labels, l)] \in Undos
  <2>1. Append(u.labels, l) \in Seq(SUBSET Of(LabelKinds))
    BY DEF Undos
  <2> QED BY <2>1 DEF Undos
<1>3. \A n \in SUBSET VMs : [u EXCEPT !.noted = n] \in Undos
  BY DEF Undos
<1>4. ASSUME NEW v \in VMs, NEW t \in Times PROVE [u EXCEPT !.cron = [u.cron EXCEPT ![v] = t]] \in Undos
  <2>1. [u.cron EXCEPT ![v] = t] \in [VMs -> Times]
    BY DEF Undos
  <2> QED BY <2>1 DEF Undos
<1> QED BY <1>1, <1>2, <1>3, <1>4

LEMMA MakeType ==
  ASSUME TypeOK, NEW o \in Of(Kinds), cmd.at \in StepNames, Make(o)
  PROVE  CmdOK' /\ objs' \subseteq Of(Kinds)
<1> DEFINE u == [cmd.undo EXCEPT !.made = Append(cmd.undo.made, o)]
<1>1. u \in Undos
  BY ListsType DEF TypeOK, CmdOK, Cmds
<1>2. cmd' = [cmd EXCEPT !.undo = u, !.last = {o}] /\ objs' = objs \cup {o}
  BY DEF Make
<1>3. {o} \in SUBSET Things
  BY DEF Things, Of
<1> HIDE DEF u
<1>4. CmdOK'
  BY <1>1, <1>2, <1>3, ListType
<1> QED BY <1>2, <1>4 DEF TypeOK, ClustersOK

LEMMA WantedType == TypeOK => Wanted \in Times
  BY DEF TypeOK, CmdOK, RegistryOK, Wanted, Plans, Cmds

LEMMA MissingType ==
  ASSUME NEW v \in VMs
  PROVE  Missing(v) \subseteq Of(LabelKinds) /\ Missing(v) \subseteq Things
  BY DEF Missing, Things, Of, Kinds, LabelKinds

\* The steps on the clusters.
LEMMA ClusterSteps ==
  ASSUME TypeOK,
         \/ \E v \in VMs : \/ MakeJob(v) \/ PatchJob(v) \/ NoteDefault(v) \/ PutLabels(v)
                           \/ MakeObject(v) \/ Unnote(v) \/ Leave(v)
         \/ \E o \in Of(Kinds) : Delete(o)
  PROVE  TypeOK'
<1> USE DEF At, AtFor
<1>0. cron \in [VMs -> Times] /\ objs \subseteq Of(Kinds)
  BY DEF TypeOK, ClustersOK
<1>1. ASSUME NEW v \in VMs, MakeJob(v) PROVE TypeOK'
  <2>1. <<"job", v>> \in Of(Kinds)
    BY DEF Of, Kinds
  <2>2. CmdOK' /\ objs' \subseteq Of(Kinds)
    BY <1>1, <2>1, MakeType DEF MakeJob, StepNames
  <2>3. cron' \in [VMs -> Times]
    BY <1>0, <1>1, WantedType DEF MakeJob
  <2> QED BY <1>1, <2>2, <2>3 DEF MakeJob, TypeOK, RegistryOK, ClustersOK, PastOK, registry
<1>2. ASSUME NEW v \in VMs, PatchJob(v) PROVE TypeOK'
  <2> DEFINE kept == [cmd.undo EXCEPT !.cron = [cmd.undo.cron EXCEPT ![v] = cron[v]]]
  <2>1. kept \in Undos /\ cmd.undo \in Undos
    BY <1>0, ListsType DEF TypeOK, CmdOK, Cmds
  <2>2. {<<"cron", v>>} \in SUBSET Things /\ {} \in SUBSET Things
    BY DEF Things, Of
  <2>3. \/ cmd' = [cmd EXCEPT !.undo = cmd.undo, !.last = {}]
        \/ cmd' = [cmd EXCEPT !.undo = kept, !.last = {<<"cron", v>>}]
    BY <1>2 DEF PatchJob, TypeOK, CmdOK, Cmds
  <2> HIDE DEF kept
  <2>4. CmdOK'
    BY <1>2, <2>1, <2>2, <2>3, ListType DEF PatchJob, StepNames
  <2>5. cron' \in [VMs -> Times]
    BY <1>0, <1>2, WantedType DEF PatchJob
  <2> QED BY <1>2, <2>4, <2>5 DEF PatchJob, TypeOK, RegistryOK, ClustersOK, PastOK, registry
<1>3. ASSUME NEW v \in VMs, NoteDefault(v) PROVE TypeOK'
  <2> DEFINE u == [cmd.undo EXCEPT !.noted = cmd.undo.noted \cup {v}]
  <2>1. u \in Undos
    <3>1. cmd.undo \in Undos
      BY DEF TypeOK, CmdOK, Cmds
    <3>2. cmd.undo.noted \cup {v} \in SUBSET VMs
      BY <3>1 DEF Undos
    <3> QED BY <3>1, <3>2, ListsType
  <2>2. cmd' = [cmd EXCEPT !.undo = u, !.last = {}]
    BY <1>3 DEF NoteDefault
  <2> HIDE DEF u
  <2>3. CmdOK'
    BY <1>3, <2>1, <2>2, ListType DEF NoteDefault, StepNames
  <2>4. noted' \subseteq VMs
    BY <1>3 DEF NoteDefault, TypeOK, RegistryOK
  <2> QED BY <1>3, <2>3, <2>4 DEF NoteDefault, TypeOK, RegistryOK, ClustersOK, PastOK, clusters
<1>4. ASSUME NEW v \in VMs, PutLabels(v) PROVE TypeOK'
  <2> DEFINE u == [cmd.undo EXCEPT !.labels = Append(cmd.undo.labels, Missing(v))]
  <2>1. u \in Undos
    BY MissingType, ListsType DEF TypeOK, CmdOK, Cmds
  <2>2. cmd' = [cmd EXCEPT !.undo = u, !.last = Missing(v)]
    BY <1>4 DEF PutLabels
  <2> HIDE DEF u
  <2>3. CmdOK'
    BY <1>4, <2>1, <2>2, MissingType, ListType DEF PutLabels, StepNames
  <2>4. Of(LabelKinds) \subseteq Of(Kinds)
    BY DEF Of, Kinds
  <2>5. objs' \subseteq Of(Kinds)
    BY <1>0, <1>4, <2>4, MissingType DEF PutLabels
  <2> QED BY <1>4, <2>3, <2>5 DEF PutLabels, TypeOK, RegistryOK, ClustersOK, PastOK, registry
<1>5. ASSUME NEW v \in VMs, MakeObject(v) PROVE TypeOK'
  <2>1. cmd.at \in StepNames /\ <<cmd.at, v>> \in Of(Kinds)
    BY <1>5 DEF MakeObject, Made, TargetKinds, StepNames, Of, Kinds
  <2>2. CmdOK' /\ objs' \subseteq Of(Kinds)
    BY <1>5, <2>1, MakeType DEF MakeObject
  <2> QED BY <1>5, <2>2 DEF MakeObject, TypeOK, RegistryOK, ClustersOK, PastOK, registry
<1>6. ASSUME NEW v \in VMs, Unnote(v) PROVE TypeOK'
  BY <1>6 DEF Unnote, TypeOK, CmdOK, RegistryOK, ClustersOK, PastOK, clusters
<1>7. ASSUME NEW v \in VMs, Leave(v) PROVE TypeOK'
  BY <1>7 DEF Leave, TypeOK, CmdOK, RegistryOK, ClustersOK, PastOK, registry, clusters
<1>8. ASSUME NEW o \in Of(Kinds), Delete(o) PROVE TypeOK'
  <2>1. o[2] \in VMs
    BY DEF Of
  <2>2. cron' \in [VMs -> Times]
    BY <1>0, <1>8, <2>1 DEF Delete, Times
  <2> QED BY <1>8, <2>2 DEF Delete, TypeOK, CmdOK, RegistryOK, ClustersOK, PastOK, registry
<1> QED BY <1>1, <1>2, <1>3, <1>4, <1>5, <1>6, <1>7, <1>8

\* A command that goes to a handler, with other lists.
LEMMA HandledType ==
  ASSUME cmd \in Cmds, cmd.op \in Ops, NEW u \in Undos, NEW b \in BOOLEAN, NEW l \in SUBSET Things,
         NEW at \in Handlers \ {"idle"},
         cmd' = [cmd EXCEPT !.at = at, !.cancelled = b, !.undo = u, !.last = l]
  PROVE  CmdOK'
<1> DEFINE c == [cmd EXCEPT !.at = at, !.cancelled = b, !.undo = u, !.last = l]
<1>1. c \in Cmds /\ c.op \in Ops /\ c.at \in Handlers \ {"idle"} /\ cmd' = c
  BY DEF Cmds
<1> HIDE DEF c
<1> QED BY <1>1, HandlerOK

\* The rest of a state is as it was, or was typed by the step.
LEMMA RestType ==
  ASSUME TypeOK, CmdOK', PastOK', row' \in Rows, UNCHANGED <<plan, res, noted, touched, clusters, selected>>
  PROVE  TypeOK'
  BY DEF TypeOK, RegistryOK, ClustersOK, clusters

LEMMA RowType == TypeOK => row \in Rows /\ NoRow \in Rows
  BY NoRowType DEF TypeOK, RegistryOK

\* The faults.
LEMMA FaultSteps ==
  ASSUME TypeOK, Cancel \/ Suspend \/ Fail \/ Kill \/ Silent
  PROVE  TypeOK'
<1> USE DEF At
<1>0. cmd \in Cmds /\ PastOK /\ CmdOK
  BY DEF TypeOK, CmdOK
<1>1. CASE Cancel
  <2>1. PICK lost \in {{}, cmd.last} :
          /\ Slip(lost)
          /\ CASE cmd.op = "measure-stop" -> CloseRun /\ cmd' = [cmd EXCEPT !.at = "errors"]
               [] cmd.op = "unprotect" -> row' = row /\ cmd' = NoCmd
               [] OTHER -> /\ row' = row
                           /\ cmd' = [cmd EXCEPT !.at = "undo", !.cancelled = ~At("begin"),
                                                 !.undo = Without(lost), !.last = {}]
    BY <1>1 DEF Cancel
  <2>2. PastOK'
    BY <1>0, <2>1, LastType, SlipType
  <2>3. cmd.op \in Ops
    BY <1>0, <1>1, AtStep DEF Cancel, Working, Cmds, Steps
  <2>4. row' \in Rows
    BY <2>1, RowType DEF CloseRun
  <2>5. CASE cmd.op = "measure-stop"
    <3>1. cmd' = [cmd EXCEPT !.at = "errors", !.cancelled = cmd.cancelled, !.undo = cmd.undo, !.last = cmd.last]
      BY <1>0, <2>1, <2>5 DEF Cmds
    <3>2. cmd.undo \in Undos /\ cmd.cancelled \in BOOLEAN /\ cmd.last \in SUBSET Things
      BY <1>0 DEF Cmds
    <3>3. CmdOK'
      <4>1. "errors" \in Handlers \ {"idle"}
        BY DEF Handlers
      <4> QED BY <1>0, <2>3, <3>1, <3>2, <4>1, HandledType
    <3> QED BY <1>1, <2>2, <2>4, <3>3, RestType DEF Cancel
  <2>6. CASE cmd.op = "unprotect"
    BY <1>1, <2>1, <2>2, <2>4, <2>6, IdleOK, RestType DEF Cancel
  <2>7. CASE cmd.op \notin {"measure-stop", "unprotect"}
    <3>1. cmd' = [cmd EXCEPT !.at = "undo", !.cancelled = ~At("begin"), !.undo = Without(lost), !.last = {}]
      BY <2>1, <2>7
    <3>2. Without(lost) \in Undos
      BY <1>0, WithoutType
    <3>3. CmdOK'
      <4> DEFINE b == ~At("begin")
      <4>1. b \in BOOLEAN /\ {} \in SUBSET Things /\ "undo" \in Handlers \ {"idle"}
        BY DEF Handlers
      <4> HIDE DEF b
      <4>2. cmd' = [cmd EXCEPT !.at = "undo", !.cancelled = b, !.undo = Without(lost), !.last = {}]
        BY <3>1 DEF b
      <4> QED BY <1>0, <2>3, <3>2, <4>1, <4>2, HandledType
    <3> QED BY <1>1, <2>2, <2>4, <3>3, RestType DEF Cancel
  <2> QED BY <2>5, <2>6, <2>7
<1>2. CASE Suspend
  <2>1. PICK lost \in {{}, cmd.last} :
          /\ Slip(lost)
          /\ row' = IF cmd.op \notin Suspendable THEN row
                    ELSE [op |-> cmd.op, undo |-> Without(lost), prev |-> cmd.prev, chosen |-> cmd.chosen,
                          was |-> cmd.was]
    BY <1>2 DEF Suspend
  <2>2. PastOK'
    BY <1>0, <2>1, LastType, SlipType
  <2>3. Without(lost) \in Undos
    BY <1>0, WithoutType
  <2>4. row' \in Rows
    BY <1>0, <2>1, <2>3, RowType DEF Cmds, Rows
  <2> QED BY <1>2, <2>2, <2>4, IdleOK, RestType DEF Suspend
<1>3. CASE Fail
  <2>1. PICK lost \in {{}, cmd.last} :
          Slip(lost) /\ cmd' = [cmd EXCEPT !.at = "failed", !.undo = Without(lost), !.last = {}]
    BY <1>3 DEF Fail
  <2>2. PastOK'
    BY <1>0, <2>1, LastType, SlipType
  <2>3. cmd.op \in Ops
    BY <1>0, <1>3, AtStep DEF Fail, StepNames, Steps
  <2>4. Without(lost) \in Undos /\ cmd.cancelled \in BOOLEAN
    BY <1>0, WithoutType DEF Cmds
  <2>5. cmd' = [cmd EXCEPT !.at = "failed", !.cancelled = cmd.cancelled, !.undo = Without(lost), !.last = {}]
    BY <1>0, <2>1 DEF Cmds
  <2>6. CmdOK'
    <3>1. {} \in SUBSET Things /\ "failed" \in Handlers \ {"idle"}
      BY DEF Handlers
    <3> QED BY <1>0, <2>3, <2>4, <2>5, <3>1, HandledType
  <2>7. row' \in Rows
    BY <1>3, RowType DEF Fail, registry
  <2> QED BY <1>3, <2>2, <2>6, <2>7, RestType DEF Fail, registry
<1>4. CASE Kill
  <2> DEFINE lost == IF ~cmd.resumed THEN {}
                     ELSE (Listed(cmd.undo) \ Listed(row.undo)) \cup cmd.last
                          \cup {<<"cron", v>> : v \in {u \in VMs : cmd.undo.cron[u] # row.undo.cron[u]}}
  <2>1. Listed(cmd.undo) \subseteq Things
    <3>1. cmd.undo.made \in Seq(Of(Kinds)) /\ cmd.undo.labels \in Seq(SUBSET Of(LabelKinds))
      BY <1>0 DEF Cmds, Undos
    <3>2. \A i \in DOMAIN cmd.undo.made : cmd.undo.made[i] \in Things
      BY <3>1 DEF Things, Of
    <3>3. \A i \in DOMAIN cmd.undo.labels : cmd.undo.labels[i] \subseteq Things
      BY <3>1 DEF Things, Of, Kinds
    <3> QED BY <3>1, <3>2, <3>3 DEF Listed, ToSet
  <2>2. {<<"cron", v>> : v \in {u \in VMs : cmd.undo.cron[u] # row.undo.cron[u]}} \subseteq Things
    BY DEF Things, Of
  <2>3. lost \in SUBSET Things
    BY <1>0, <2>1, <2>2 DEF Cmds
  <2>4. PastOK'
    <3>1. Slip(lost)
      BY <1>4 DEF Kill
    <3> HIDE DEF lost
    <3> QED BY <1>0, <2>3, <3>1, SlipType
  <2>5. row' \in Rows
    BY <1>4, RowType DEF Kill, registry
  <2> QED BY <1>4, <2>4, <2>5, IdleOK, RestType DEF Kill, registry
<1>5. CASE Silent
  <2>1. PastOK'
    BY <1>0, <1>5, SlipType DEF Silent
  <2>2. Steps(cmd)
    BY <1>0, <1>5, AtStep DEF Silent, StepNames
  <2>3. cmd.op = "unprotect"
    BY <1>5, <2>2, TargetAsked DEF Silent
  <2>4. PICK c : Steps(c) /\ cmd' = [c EXCEPT !.pending = TRUE]
    BY <1>5, <2>2, <2>3, AskedTwice DEF Silent
  <2>5. Steps([c EXCEPT !.pending = TRUE])
    BY <2>4 DEF Steps, Cmds
  <2>6. CmdOK'
    BY <2>4, <2>5, StepsOK
  <2>7. row' \in Rows
    BY <1>5, RowType DEF Silent, registry
  <2> QED BY <1>5, <2>1, <2>6, <2>7, RestType DEF Silent, registry
<1> QED BY <1>1, <1>2, <1>3, <1>4, <1>5

\* A handler works for a command, of which it knows the step.
LEMMA HandlerAt ==
  ASSUME TypeOK, cmd.at # "idle"
  PROVE  cmd \in Cmds /\ cmd.op \in Ops /\ cmd.undo \in Undos /\ cmd.cancelled \in BOOLEAN
         /\ cmd.last \in SUBSET Things
  BY DEF TypeOK, CmdOK, Cmds, Ops

LEMMA ToUndoType ==
  ASSUME TypeOK, cmd.at # "idle"
  PROVE  ToUndo \subseteq Things
<1>1. cmd.undo.made \in Seq(Of(Kinds)) /\ cmd.undo.labels \in Seq(SUBSET Of(LabelKinds))
  BY HandlerAt DEF Undos
<1>2. ASSUME cmd.undo.labels # <<>> PROVE Last(cmd.undo.labels) \subseteq Things
  <2>1. Last(cmd.undo.labels) \in SUBSET Of(LabelKinds)
    BY <1>1, <1>2, FrontType
  <2> QED BY <2>1 DEF Things, Of, Kinds
<1>3. ASSUME cmd.undo.made # <<>> PROVE {Last(cmd.undo.made)} \subseteq Things
  <2>1. Last(cmd.undo.made) \in Of(Kinds)
    BY <1>1, <1>3, FrontType
  <2> QED BY <2>1 DEF Things, Of
<1>4. ASSUME \E v \in VMs : cmd.undo.cron[v] # None
      PROVE  {<<"cron", CHOOSE v \in VMs : cmd.undo.cron[v] # None>>} \subseteq Things
  BY <1>4 DEF Things, Of
<1> QED BY <1>2, <1>3, <1>4 DEF ToUndo

\* What a signal or a failed call is followed by.
LEMMA HandlerSteps ==
  ASSUME TypeOK, Undo \/ UndoFails \/ UndoNotes \/ UndoEnd \/ GiveBack \/ Failed \/ Errors \/ SetError
  PROVE  TypeOK'
<1> USE DEF At
<1>0. cmd \in Cmds /\ cmd.op \in Ops /\ cmd.undo \in Undos /\ cmd.cancelled \in BOOLEAN
      /\ cmd.last \in SUBSET Things
  BY HandlerAt DEF Undo, UndoFails, UndoNotes, UndoEnd, GiveBack, Failed, Errors, SetError
<1>1. ASSUME NEW at \in Handlers \ {"idle"}, cmd' = [cmd EXCEPT !.at = at] PROVE CmdOK'
  <2>1. cmd' = [cmd EXCEPT !.at = at, !.cancelled = cmd.cancelled, !.undo = cmd.undo, !.last = cmd.last]
    BY <1>0, <1>1 DEF Cmds
  <2> QED BY <1>0, <2>1, HandledType
<1>2. ASSUME NEW u \in Undos, cmd.at = "undo", cmd' = [cmd EXCEPT !.undo = u] PROVE CmdOK'
  <2>1. cmd' = [cmd EXCEPT !.at = "undo", !.cancelled = cmd.cancelled, !.undo = u, !.last = cmd.last]
    BY <1>0, <1>2 DEF Cmds
  <2>2. "undo" \in Handlers \ {"idle"}
    BY DEF Handlers
  <2> QED BY <1>0, <1>2, <2>1, <2>2, HandledType
<1>3. CASE Undo
  <2>1. Without(ToUndo) \in Undos
    BY WithoutType DEF TypeOK
  <2>2. CmdOK'
    BY <1>2, <1>3, <2>1 DEF Undo
  <2>3. cron' \in [VMs -> Times]
    BY <1>0, <1>3 DEF Undo, Undos, Times, TypeOK, ClustersOK
  <2>4. objs' \subseteq Of(Kinds)
    BY <1>3 DEF Undo, TypeOK, ClustersOK
  <2> QED BY <1>3, <2>2, <2>3, <2>4 DEF Undo, TypeOK, RegistryOK, ClustersOK, PastOK, registry
<1>4. CASE UndoFails
  <2>1. Without(ToUndo) \in Undos
    BY WithoutType DEF TypeOK
  <2>2. CmdOK'
    BY <1>2, <1>4, <2>1 DEF UndoFails
  <2>3. PastOK'
    BY <1>4, ToUndoType, SlipType DEF UndoFails, TypeOK
  <2>4. row' \in Rows
    BY <1>4, RowType DEF UndoFails, registry
  <2> QED BY <1>4, <2>2, <2>3, <2>4, RestType DEF UndoFails, registry
<1>5. CASE UndoNotes
  <2> DEFINE u == [cmd.undo EXCEPT !.noted = {}]
  <2>1. u \in Undos
    BY <1>0, ListsType
  <2>2. cmd' = [cmd EXCEPT !.undo = u]
    BY <1>5 DEF UndoNotes
  <2> HIDE DEF u
  <2>3. CmdOK'
    BY <1>2, <1>5, <2>1, <2>2 DEF UndoNotes
  <2> QED BY <1>5, <2>3 DEF UndoNotes, TypeOK, RegistryOK, ClustersOK, PastOK, clusters
<1>6. CASE UndoEnd
  <2>1. CmdOK'
    BY <1>1, <1>6 DEF UndoEnd, Handlers
  <2>2. row' \in Rows /\ PastOK'
    BY <1>6, RowType DEF UndoEnd, CloseRun, TypeOK, PastOK
  <2> QED BY <1>6, <2>1, <2>2, RestType DEF UndoEnd
<1>7. CASE GiveBack
  <2>1. CmdOK'
    BY <1>1, <1>7 DEF GiveBack, Handlers
  <2>2. plan' \in Plans
    BY <1>0, <1>7 DEF GiveBack, TypeOK, RegistryOK, Plans, Cmds
  <2> QED BY <1>7, <2>1, <2>2 DEF GiveBack, TypeOK, RegistryOK, ClustersOK, PastOK, clusters
<1>8. CASE Failed
  <2>1. CmdOK'
    BY <1>1, <1>8 DEF Failed, Handlers
  <2>2. [row EXCEPT !.undo = cmd.undo] \in Rows
    BY <1>0, RowType DEF Rows
  <2>3. row' \in Rows /\ PastOK'
    BY <1>8, <2>2, RowType DEF Failed, CloseRun, TypeOK, PastOK
  <2> QED BY <1>8, <2>1, <2>3, RestType DEF Failed
<1>9. CASE Errors
  <2>1. CmdOK'
    BY <1>1, <1>9 DEF Errors, Handlers
  <2>2. res' \in [VMs -> States]
    <3>1. \A v \in VMs : res[v] \in States
      BY DEF TypeOK, RegistryOK
    <3>2. \A v \in Known : [state |-> "error", origin |-> res[v].state] \in States
      BY <3>1 DEF Known, States, PlanStates
    <3> QED BY <1>9, <3>1, <3>2 DEF Errors
  <2> QED BY <1>9, <2>1, <2>2 DEF Errors, TypeOK, RegistryOK, ClustersOK, PastOK, clusters
<1>10. CASE SetError
  <2>1. plan' \in Plans
    BY <1>10 DEF SetError, TypeOK, RegistryOK, Plans, PlanStates
  <2>2. PastOK'
    BY <1>0, <1>10, UnknownType DEF SetError, TypeOK, PastOK, Cmds
  <2> QED BY <1>10, <2>1, <2>2, IdleOK DEF SetError, TypeOK, RegistryOK, ClustersOK, clusters
<1> QED BY <1>3, <1>4, <1>5, <1>6, <1>7, <1>8, <1>9, <1>10

LEMMA TypeNext == TypeOK /\ [Next]_vars => TypeOK'
<1> SUFFICES ASSUME TypeOK, [Next]_vars PROVE TypeOK'
  OBVIOUS
<1>1. ASSUME NEW op \in Ops, Start(op) PROVE TypeOK'
  BY <1>1, RunType DEF Start
<1>2. CASE Resume
  <2>1. Resumed \in Ops
    BY DEF Resumed, Ops, Commands
  <2> QED BY <1>2, <2>1, RunType DEF Resume
<1>3. CASE Begin
  BY <1>3, BeginType
<1>4. CASE SetInterval \/ SetState \/ SetDone \/ StayPending \/ End \/ Untouched \/ Pass \/ Resync
  BY <1>4, RegistrySteps
<1>5. ASSUME NEW v \in VMs, OnVM(v) PROVE TypeOK'
  BY <1>5, RegistrySteps, ClusterSteps DEF OnVM
<1>6. ASSUME NEW o \in Of(Kinds), Delete(o) PROVE TypeOK'
  BY <1>6, ClusterSteps
<1>7. CASE Undo \/ UndoFails \/ UndoNotes \/ UndoEnd \/ GiveBack \/ Failed \/ Errors \/ SetError
  BY <1>7, HandlerSteps
<1>8. CASE Cancel \/ Suspend \/ Fail \/ Kill \/ Silent
  BY <1>8, FaultSteps
<1>9. CASE UNCHANGED vars
  BY <1>9 DEF vars, TypeOK, CmdOK, RegistryOK, ClustersOK, PastOK
<1> QED BY <1>1, <1>2, <1>3, <1>4, <1>5, <1>6, <1>7, <1>8, <1>9 DEF Next, Ops

\* A command is always at a step of its own or in a handler, and everything the
\* commands write is of its kind, through every fault (replication_run.py, _begin_run
\* to _error).
THEOREM TypeCorrect == Spec => []TypeOK
<1>1. Init => TypeOK
  BY TypeInit
<1>2. TypeOK /\ [Next]_vars => TypeOK'
  BY TypeNext
<1> QED BY <1>1, <1>2, PTL DEF Spec

--------------------------------------------------------------------------------
(* Where a command and the row it leaves open find the plan: in the states it     *)
(* can bring it to or, after an error, in an error that came from one of these.   *)

Reach(op) ==
  CASE op = "measure-start" -> {"draft", "measuring"}
    [] op = "measure-stop"  -> {"measuring", "draft"}
    [] op = "protect"       -> {"draft", "measuring", "protecting", "protected"}
    [] OTHER                -> PlanStates \ {"error"}

\* Past its begin a command finds no row but its own.
Begun == StepNames \ {"begin"}
ReachOK ==
  /\ plan.state = "error" => plan.origin \in PlanStates \ {"error"}
  /\ cmd.op # None => Effective \in Reach(cmd.op)
  /\ row.op # None => Effective \in Reach(row.op)
  /\ cmd.at \in Begun => row.op \in {None, cmd.op}

LEMMA ReachInit == Init => ReachOK
  BY NoCmdType DEF Init, ReachOK, NoRow, Begun, StepNames

\* A step that leaves the state of the plan, keeps the row or closes it, and ends the
\* command or goes on with it.
LEMMA KeepReach ==
  ASSUME ReachOK, plan'.state = plan.state, plan'.origin = plan.origin,
         row' = NoRow \/ row'.op = row.op,
         \/ cmd' = NoCmd
         \/ cmd'.op = cmd.op /\ (cmd.at \in Begun \/ cmd'.at \notin Begun)
  PROVE  ReachOK'
<1>1. Effective' = Effective
  BY DEF Effective
<1>2. NoRow.op = None /\ NoCmd.op = None /\ NoCmd.at \notin Begun
  BY NoCmdType DEF NoRow, Begun, StepNames
<1>3. row'.op \in {None, row.op}
  BY <1>2
<1>4. cmd'.op \in {None, cmd.op}
  BY <1>2
<1>5. cmd'.at \in Begun => row.op \in {None, cmd.op} /\ cmd'.op = cmd.op
  BY <1>2 DEF ReachOK
<1> QED BY <1>1, <1>3, <1>4, <1>5 DEF ReachOK

LEMMA RunReach ==
  ASSUME TypeOK, ReachOK, NEW op \in Ops, NEW chosen, Run(op, chosen)
  PROVE  ReachOK'
<1>1. /\ Precondition(op, plan.state, plan.origin)
      /\ cmd' = [NoCmd EXCEPT !.op = op, !.at = "begin", !.works = selected, !.chosen = chosen]
      /\ plan' = plan /\ row' = row
  BY DEF Run, registry
<1>2. cmd'.op = op /\ cmd'.at = "begin"
  BY <1>1, NoCmdType DEF NoCmd
<1>3. Effective' = Effective /\ plan.state \in PlanStates
  BY <1>1 DEF Effective, TypeOK, RegistryOK, Plans
<1>4. Effective \in Reach(op)
  <2>1. CASE plan.state # "error"
    BY <1>1, <1>3, <2>1 DEF Effective, Reach, Precondition, CommandFrom, Ops, Commands
  <2>2. CASE plan.state = "error"
    <3>1. plan.origin \in PlanStates \ {"error"} /\ Effective = plan.origin
      BY <2>2 DEF ReachOK, Effective, NoOrigin, PlanStates
    <3>2. ActionState(op) \in ErrorExits(plan.origin)
      BY <1>1, <2>2 DEF Precondition
    <3>3. op \in {"measure-start", "protect"} =>
            ActionState(op) \in PlanTransitions[plan.origin] \cup {plan.origin}
      BY <3>1, <3>2 DEF ErrorExits, ErrorExtraExits, ActionState
    <3>4. CASE op = "measure-start"
      BY <3>1, <3>3, <3>4 DEF Reach, ActionState, PlanTransitions, PlanStates
    <3>5. CASE op = "protect"
      BY <3>1, <3>3, <3>5 DEF Reach, ActionState, PlanTransitions, PlanStates
    <3>6. op # "measure-stop"
      BY <1>1, <2>2 DEF Precondition, CommandFrom
    <3>7. CASE op = "unprotect"
      BY <3>1, <3>7 DEF Reach
    <3> QED BY <3>4, <3>5, <3>6, <3>7 DEF Ops, Commands
  <2> QED BY <2>1, <2>2
<1>5. "begin" \notin Begun
  BY DEF Begun
<1> QED BY <1>1, <1>2, <1>3, <1>4, <1>5 DEF ReachOK

LEMMA BeginReach ==
  ASSUME TypeOK, ReachOK, Begin
  PROVE  ReachOK'
<1>1. Steps(cmd) /\ cmd.at = "begin"
  BY AtStep DEF Begin, At, StepNames, TypeOK
<1>2. cmd'.op = cmd.op
  <2> DEFINE kept == [cmd EXCEPT !.resumed = TRUE, !.undo = Reloaded, !.prev = row.prev, !.was = row.was]
             found == [known |-> TRUE, objs |-> objs, cron |-> cron, interval |-> plan.interval]
             fresh == [cmd EXCEPT !.prev = plan.interval, !.was = found]
  <2>1. PICK c \in {kept, fresh} : cmd' = Step(c)
    BY DEF Begin
  <2>2. c.op = cmd.op
    BY <1>1 DEF Steps, Cmds
  <2>3. Step(c).op = c.op
    BY <1>1 DEF Step, Steps, Cmds
  <2> QED BY <2>1, <2>2, <2>3
<1>3. row.op = None \/ row.op \in Superseded
  BY DEF TypeOK, RegistryOK, Rows, Superseded
<1>4. row'.op \in {None, cmd.op} /\ (row' = row \/ row' = NoRow)
  BY <1>3 DEF Begin, NoRow
<1>5. Effective' = Effective
  BY DEF Begin, Effective
<1> QED BY <1>2, <1>4, <1>5 DEF ReachOK, Begin, NoRow

\* Where the two steps that set the state of the plan are, and what they set.
LEMMA DoneAt ==
  ASSUME Steps(cmd), cmd.at = "done"
  PROVE  cmd.op \in {"protect", "unprotect"}
  BY DEF Steps, Names, Range, Order, Ops, Commands

LEMMA SetPlanReach ==
  ASSUME TypeOK, ReachOK, NEW state \in PlanStates \ {"error"}, SetPlan(state), cmd.at \in Begun,
         \/ cmd'.op = cmd.op /\ state \in Reach(cmd.op)
         \/ cmd' = NoCmd /\ row.op = None
  PROVE  ReachOK'
<1>1. row.op \in {None, cmd.op} /\ row' = row
  BY DEF ReachOK, SetPlan
<1>2. plan'.state = state
  BY DEF SetPlan, TypeOK, RegistryOK, Plans
<1>3. Effective' = state
  BY <1>2 DEF Effective
<1> QED BY <1>1, <1>2, <1>3, NoCmdType DEF ReachOK, Begun, StepNames

\* The steps of a command that leave the state of its plan and its row.
LEMMA OnwardReach ==
  ASSUME TypeOK, ReachOK, plan'.state = plan.state, plan'.origin = plan.origin, row' = row \/ row' = NoRow,
         cmd.at \in Begun, cmd.at # IF cmd.op = "unprotect" THEN "done" ELSE "end",
         cmd' = Step(cmd) \/ \E v \in VMs : cmd' = Done(cmd, v)
  PROVE  ReachOK'
<1>1. Steps(cmd)
  BY AtStep DEF TypeOK, Begun
<1>2. cmd'.op = cmd.op
  BY <1>1, StepType, DoneType
<1> QED BY <1>2, KeepReach

LEMMA HandledReach ==
  ASSUME ReachOK, plan'.state = plan.state, plan'.origin = plan.origin, row' = NoRow \/ row'.op = row.op,
         cmd'.op = cmd.op, cmd'.at \in Handlers
  PROVE  ReachOK'
<1>1. cmd'.at \notin Begun
  BY DEF Handlers, Begun, StepNames
<1> QED BY <1>1, KeepReach

LEMMA RegistryReach ==
  ASSUME TypeOK, ReachOK,
         \/ SetInterval \/ SetState \/ SetDone \/ StayPending \/ End \/ Untouched \/ Pass \/ Resync
         \/ \E v \in VMs : MakeRow(v) \/ RecordWorks(v) \/ UnprotectRow(v) \/ EndRows(v) \/ Ready(v)
  PROVE  ReachOK'
<1> USE DEF At, AtFor
<1>1. CASE SetInterval
  <2>1. plan'.state = plan.state /\ plan'.origin = plan.origin
    BY <1>1 DEF SetInterval, TypeOK, RegistryOK, Plans
  <2> QED BY <1>1, <2>1, OnwardReach DEF SetInterval, Begun, StepNames
<1>2. CASE SetState
  <2>1. Steps(cmd) /\ cmd.at = "state" /\ cmd.at \in Begun
    BY <1>2, AtStep DEF SetState, StepNames, Begun, TypeOK
  <2>2. cmd'.op = cmd.op
    BY <1>2, <2>1, StepType DEF SetState
  <2>3. ActionState(cmd.op) \in Reach(cmd.op) /\ ActionState(cmd.op) \in PlanStates \ {"error"}
    BY <2>1, ActionStateOf DEF Steps, ActionState, Reach, Ops, Commands
  <2> QED BY <1>2, <2>1, <2>2, <2>3, SetPlanReach DEF SetState
<1>3. CASE SetDone
  <2>1. Steps(cmd) /\ cmd.at = "done" /\ cmd.at \in Begun
    BY <1>3, AtStep DEF SetDone, StepNames, Begun, TypeOK
  <2>2. CASE cmd.op = "protect"
    <3>1. cmd'.op = cmd.op
      BY <1>3, <2>1, <2>2, StepType DEF SetDone
    <3>2. "protected" \in Reach(cmd.op) /\ "protected" \in PlanStates \ {"error"}
      BY <2>2 DEF Reach, PlanStates
    <3> QED BY <1>3, <2>1, <2>2, <3>1, <3>2, SetPlanReach DEF SetDone
  <2>3. CASE cmd.op # "protect"
    <3>1. cmd.op = "unprotect"
      BY <2>1, <2>3, DoneAt
    <3>2. row.op = None
      BY <2>1, <3>1 DEF ReachOK, TypeOK, RegistryOK, Rows, Suspendable
    <3>3. "unprotected" \in PlanStates \ {"error"}
      BY DEF PlanStates
    <3> QED BY <1>3, <2>1, <2>3, <3>2, <3>3, SetPlanReach DEF SetDone
  <2> QED BY <2>2, <2>3
<1>4. CASE StayPending
  BY <1>4, KeepReach DEF StayPending, registry
<1>5. CASE End
  BY <1>5, KeepReach DEF End, CloseRun
<1>6. CASE Untouched
  <2>1. Steps(cmd) /\ cmd.at = "ask-target" /\ cmd.at \in Begun
    BY <1>6, AtStep DEF Untouched, StepNames, Begun, TypeOK
  <2>2. cmd.op = "unprotect" /\ cmd'.op = "unprotect"
    BY <1>6, <2>1, TargetAsked, AskedTwice DEF Untouched
  <2> QED BY <1>6, <2>1, <2>2, KeepReach DEF Untouched, registry
<1>7. CASE Pass
  <2>1. cmd.at \in Begun /\ cmd.at \notin {"done", "end"}
    BY <1>7 DEF Pass, StepNames, Begun
  <2> QED BY <1>7, <2>1, OnwardReach DEF Pass, registry
<1>8. CASE Resync
  BY <1>8, OnwardReach DEF Resync, StepNames, Begun
<1>9. ASSUME NEW v \in VMs, MakeRow(v) PROVE ReachOK'
  BY <1>9 DEF MakeRow, ReachOK, Effective
<1>10. ASSUME NEW v \in VMs, NEW state, MarkRow(v, state), cmd.at \in {"row", "mark", "rows"}
       PROVE ReachOK'
  <2>1. CASE cmd' = Done(cmd, v)
    BY <1>10, <2>1, OnwardReach DEF MarkRow, StepNames, Begun
  <2>2. CASE cmd' = [cmd EXCEPT !.at = "failed"]
    <3>1. cmd'.op = cmd.op /\ cmd'.at = "failed"
      BY <2>2 DEF TypeOK, CmdOK, Cmds
    <3> QED BY <1>10, <3>1, HandledReach DEF MarkRow, Handlers
  <2> QED BY <1>10, <2>1, <2>2 DEF MarkRow
<1>11. ASSUME NEW v \in VMs, RecordWorks(v) \/ UnprotectRow(v) \/ EndRows(v) PROVE ReachOK'
  BY <1>10, <1>11 DEF RecordWorks, UnprotectRow, EndRows
<1>12. ASSUME NEW v \in VMs, Ready(v) PROVE ReachOK'
  <2>1. cmd.at \in Begun /\ cmd.at \notin {"done", "end"}
    BY <1>12 DEF Ready, StepNames, Begun, Made, TargetKinds
  <2> QED BY <1>12, <2>1, OnwardReach DEF Ready, registry
<1> QED BY <1>1, <1>2, <1>3, <1>4, <1>5, <1>6, <1>7, <1>8, <1>9, <1>11, <1>12

LEMMA ClusterReach ==
  ASSUME TypeOK, ReachOK,
         \/ \E v \in VMs : \/ MakeJob(v) \/ PatchJob(v) \/ NoteDefault(v) \/ PutLabels(v)
                           \/ MakeObject(v) \/ Unnote(v) \/ Leave(v)
         \/ \E o \in Of(Kinds) : Delete(o)
  PROVE  ReachOK'
<1>1. plan' = plan /\ row' = row
  BY DEF MakeJob, PatchJob, NoteDefault, PutLabels, MakeObject, Unnote, Leave, Delete, registry
<1>2. cmd'.op = cmd.op /\ cmd'.at = cmd.at
  BY DEF MakeJob, PatchJob, NoteDefault, PutLabels, MakeObject, Unnote, Leave, Delete, Make,
         TypeOK, CmdOK, Cmds
<1> QED BY <1>1, <1>2 DEF ReachOK, Effective

LEMMA FaultReach ==
  ASSUME TypeOK, ReachOK, Cancel \/ Suspend \/ Fail \/ Kill \/ Silent
  PROVE  ReachOK'
<1> USE DEF At
<1>0. cmd \in Cmds /\ CmdOK
  BY DEF TypeOK, CmdOK
<1>1. CASE Cancel
  <2>1. plan' = plan /\ (row' = row \/ row' = NoRow)
    BY <1>1 DEF Cancel, CloseRun
  <2>2. cmd' = NoCmd \/ (cmd'.op = cmd.op /\ cmd'.at \in {"errors", "undo"})
    BY <1>0, <1>1 DEF Cancel, Cmds
  <2>3. CASE cmd' = NoCmd
    BY <2>1, <2>3, KeepReach
  <2>4. CASE cmd'.op = cmd.op /\ cmd'.at \in {"errors", "undo"}
    BY <2>1, <2>4, HandledReach DEF Handlers
  <2> QED BY <2>2, <2>3, <2>4
<1>2. CASE Suspend
  <2>1. plan' = plan /\ cmd' = NoCmd /\ cmd.op # None
    BY <1>0, <1>2 DEF Suspend, Working, Handlers, CmdOK
  <2>2. row'.op \in {row.op, cmd.op}
    BY <1>2 DEF Suspend
  <2>3. Effective' = Effective
    BY <2>1 DEF Effective
  <2> QED BY <2>1, <2>2, <2>3, NoCmdType DEF ReachOK, Begun, StepNames
<1>3. CASE Fail
  <2>1. cmd'.op = cmd.op /\ cmd'.at = "failed"
    BY <1>0, <1>3 DEF Fail, Cmds
  <2> QED BY <1>3, <2>1, HandledReach DEF Fail, Handlers, registry
<1>4. CASE Kill
  BY <1>4, KeepReach DEF Kill, registry
<1>5. CASE Silent
  <2>1. Steps(cmd) /\ cmd.at \in {"ask-target", "ask-source"} /\ cmd.at \in Begun
    BY <1>0, <1>5, AtStep DEF Silent, StepNames, Begun
  <2>2. cmd.op = "unprotect"
    BY <2>1, TargetAsked
  <2>3. PICK c : Steps(c) /\ c.op = "unprotect" /\ cmd' = [c EXCEPT !.pending = TRUE]
    BY <1>5, <2>1, <2>2, AskedTwice DEF Silent
  <2>4. cmd'.op = "unprotect"
    BY <2>3 DEF Steps, Cmds
  <2> QED BY <1>5, <2>1, <2>2, <2>4, KeepReach DEF Silent, registry
<1> QED BY <1>1, <1>2, <1>3, <1>4, <1>5

LEMMA HandlerReach ==
  ASSUME TypeOK, ReachOK,
         Undo \/ UndoFails \/ UndoNotes \/ UndoEnd \/ GiveBack \/ Failed \/ Errors \/ SetError
  PROVE  ReachOK'
<1> USE DEF At
<1>0. cmd \in Cmds /\ plan \in Plans /\ row \in Rows
  BY DEF TypeOK, CmdOK, RegistryOK
<1>1. CASE Undo \/ UndoFails \/ UndoNotes \/ UndoEnd \/ GiveBack \/ Failed \/ Errors
  <2>1. plan'.state = plan.state /\ plan'.origin = plan.origin
    BY <1>0, <1>1 DEF Undo, UndoFails, UndoNotes, UndoEnd, GiveBack, Failed, Errors, registry, Plans
  <2>2. row' = NoRow \/ row'.op = row.op
    BY <1>0, <1>1 DEF Undo, UndoFails, UndoNotes, UndoEnd, GiveBack, Failed, Errors, CloseRun, registry, Rows
  <2>3. cmd'.op = cmd.op /\ cmd'.at \in {"undo", "back", "errors", "error"}
    BY <1>0, <1>1 DEF Undo, UndoFails, UndoNotes, UndoEnd, GiveBack, Failed, Errors, Cmds
  <2> QED BY <2>1, <2>2, <2>3, HandledReach DEF Handlers
<1>2. CASE SetError
  <2>1. cmd' = NoCmd /\ row' = row
    BY <1>2 DEF SetError
  <2>2. Effective' = Effective /\ (plan'.state = "error" => plan'.origin \in PlanStates \ {"error"})
    <3>1. CASE plan.state = "error"
      BY <1>2, <3>1 DEF SetError, Effective, ReachOK
    <3>2. CASE plan.state # "error"
      <4>1. plan'.state = "error" /\ plan'.origin = plan.state
        BY <1>0, <1>2, <3>2 DEF SetError, Plans
      <4>2. plan.state \in PlanStates /\ plan.state # NoOrigin
        BY <1>0 DEF Plans, PlanStates, NoOrigin
      <4> QED BY <3>2, <4>1, <4>2 DEF Effective
    <3> QED BY <3>1, <3>2
  <2> QED BY <2>1, <2>2, NoCmdType DEF ReachOK, Begun, StepNames
<1> QED BY <1>1, <1>2

LEMMA ReachNext == TypeOK /\ ReachOK /\ [Next]_vars => ReachOK'
<1> SUFFICES ASSUME TypeOK, ReachOK, [Next]_vars PROVE ReachOK'
  OBVIOUS
<1>1. ASSUME NEW op \in Ops, Start(op) PROVE ReachOK'
  BY <1>1, RunReach DEF Start
<1>2. CASE Resume
  <2>1. Resumed \in Ops
    BY DEF Resumed, Ops, Commands
  <2> QED BY <1>2, <2>1, RunReach DEF Resume
<1>3. CASE Begin
  BY <1>3, BeginReach
<1>4. CASE SetInterval \/ SetState \/ SetDone \/ StayPending \/ End \/ Untouched \/ Pass \/ Resync
  BY <1>4, RegistryReach
<1>5. ASSUME NEW v \in VMs, OnVM(v) PROVE ReachOK'
  BY <1>5, RegistryReach, ClusterReach DEF OnVM
<1>6. ASSUME NEW o \in Of(Kinds), Delete(o) PROVE ReachOK'
  BY <1>6, ClusterReach
<1>7. CASE Undo \/ UndoFails \/ UndoNotes \/ UndoEnd \/ GiveBack \/ Failed \/ Errors \/ SetError
  BY <1>7, HandlerReach
<1>8. CASE Cancel \/ Suspend \/ Fail \/ Kill \/ Silent
  BY <1>8, FaultReach
<1>9. CASE UNCHANGED vars
  BY <1>9 DEF vars, ReachOK, Effective
<1> QED BY <1>1, <1>2, <1>3, <1>4, <1>5, <1>6, <1>7, <1>8, <1>9 DEF Next, Ops

\* From where a command or its row finds the plan, what resume takes up may start.
LEMMA ReachAccepts ==
  ASSUME TypeOK, ReachOK, Resumable
  PROVE  Precondition(Resumed, plan.state, plan.origin)
<1>1. plan.state \in PlanStates /\ (plan.state = "error" => plan.origin \in PlanStates \ {"error"})
  BY DEF TypeOK, RegistryOK, Plans, ReachOK
<1>2. Effective = IF plan.state = "error" THEN plan.origin ELSE plan.state
  BY <1>1 DEF Effective, NoOrigin, PlanStates
<1>3. row.op = "measure-start" => Effective \in {"draft", "measuring"}
  BY DEF ReachOK, Reach, None
<1>4. row.op = "protect" => Effective \in {"draft", "measuring", "protecting", "protected"}
  BY DEF ReachOK, Reach, None
<1>5. CASE Resumed = "measure-stop"
  <2>1. plan.state = "measuring"
    BY <1>5 DEF Resumed
  <2> QED BY <1>5, <2>1 DEF Precondition, CommandFrom
<1>6. CASE Resumed = "measure-start"
  <2>1. Effective \in {"draft", "measuring"}
    BY <1>3, <1>6 DEF Resumed, Resumable
  <2> QED BY <1>1, <1>2, <1>6, <2>1 DEF Precondition, CommandFrom, ActionState, ErrorExits, PlanTransitions
<1>7. CASE Resumed = "protect"
  <2>1. Effective \in {"draft", "measuring", "protecting", "protected"}
    BY <1>4, <1>7 DEF Resumed
  <2> QED BY <1>1, <1>2, <1>7, <2>1 DEF Precondition, CommandFrom, ActionState, ErrorExits, PlanTransitions
<1>8. CASE Resumed = "unprotect"
  <2>1. Effective = "unprotecting"
    BY <1>8 DEF Resumed
  <2> QED BY <1>1, <1>2, <1>8, <2>1
          DEF Precondition, CommandFrom, ActionState, ErrorExits, PlanTransitions, PlanStates
<1> QED BY <1>5, <1>6, <1>7, <1>8 DEF Resumed

\* What the console offers to resume is never refused for the state of the plan,
\* whatever was cancelled, suspended, killed or failed before (replication_run.py,
\* resumable, resume and _precondition).
THEOREM ResumableAccepted == Spec => []ResumableIsAccepted
<1>1. Init => TypeOK /\ ReachOK
  BY TypeInit, ReachInit
<1>2. (TypeOK /\ ReachOK) /\ [Next]_vars => (TypeOK /\ ReachOK)'
  BY TypeNext, ReachNext
<1>3. TypeOK /\ ReachOK => ResumableIsAccepted
  BY ReachAccepts DEF ResumableIsAccepted
<1> QED BY <1>1, <1>2, <1>3, PTL DEF Spec

--------------------------------------------------------------------------------
(* A command sets the state of the plan where set_state accepts it: before its    *)
(* state it may still start; from its state to its done the plan is in that state.*)

Before(op) == IF op = "measure-stop" THEN Names(op) \ {"end"} ELSE {"begin", "interval", "state"}
Between(op) == Names(op) \ (Before(op) \cup {"end"})

PlaceOK ==
  cmd.op # None =>
    /\ plan.state # "unprotected"
    /\ cmd.at \in Before(cmd.op) => Precondition(cmd.op, plan.state, plan.origin)
    /\ cmd.at \in Between(cmd.op) => plan.state = ActionState(cmd.op)

\* set_state refuses a transition that is not in the table; no command asks for one.
PlanMoves == SetState \/ SetDone \/ plan'.state # plan.state
PlanMovesAllowed == [][PlanMoves => TransitionAllowed(plan.state, plan'.state, plan.origin)]_vars

\* A step is before the state of its command, or after it, when the one before it is.
LEMMA StepBack ==
  ASSUME NEW c, Steps(c), c.at # IF c.op = "unprotect" THEN "done" ELSE "end"
  PROVE  /\ Step(c).at \in Before(c.op) => c.at \in Before(c.op) \ {"state"}
         /\ Step(c).at \in Between(c.op) => c.at = "state" \/ c.at \in Between(c.op) \ {"done"}
<1> DEFINE n == CHOOSE i \in DOMAIN Order(c.op) : Order(c.op)[i] = c.at
<1>1. n \in DOMAIN Order(c.op) /\ Order(c.op)[n] = c.at /\ c.op \in Ops
  BY DEF Names, Range, Steps
<1>2. Step(c).at = Order(c.op)[n + 1]
  BY DEF Step, Steps, Cmds
<1>3. Step(c).at \in Names(c.op) /\ c.at \in Names(c.op)
  BY StepType DEF Steps
<1> HIDE DEF n
<1>4. CASE c.op = "measure-start"
  BY <1>1, <1>2, <1>3, <1>4 DEF Order, Before, Between
<1>5. CASE c.op = "measure-stop"
  BY <1>1, <1>2, <1>3, <1>5 DEF Order, Before, Between
<1>6. CASE c.op = "protect"
  BY <1>1, <1>2, <1>3, <1>6 DEF Order, Before, Between
<1>7. CASE c.op = "unprotect"
  BY <1>1, <1>2, <1>3, <1>7 DEF Order, Before, Between
<1> QED BY <1>1, <1>4, <1>5, <1>6, <1>7 DEF Ops, Commands

LEMMA PlaceInit == Init => PlaceOK
  BY NoCmdType DEF Init, PlaceOK

\* A step that leaves the state of the plan, and the command where it is, in a handler or gone.
LEMMA KeepPlace ==
  ASSUME TypeOK, PlaceOK, plan'.state = plan.state, plan'.origin = plan.origin,
         cmd' = NoCmd \/ (cmd'.op = cmd.op /\ (cmd'.at = cmd.at \/ cmd'.at \in Handlers))
  PROVE  PlaceOK'
<1>1. CASE cmd' = NoCmd
  BY <1>1, NoCmdType DEF PlaceOK
<1>2. CASE cmd'.op = cmd.op /\ cmd'.at = cmd.at
  BY <1>2 DEF PlaceOK
<1>3. CASE cmd'.op = cmd.op /\ cmd'.at \in Handlers
  <2>1. cmd.op # None => cmd'.at \notin Before(cmd.op) /\ cmd'.at \notin Between(cmd.op)
    <3> SUFFICES ASSUME cmd.op # None PROVE cmd'.at \notin Before(cmd.op) /\ cmd'.at \notin Between(cmd.op)
      OBVIOUS
    <3>1. cmd.op \in Ops
      BY DEF TypeOK, CmdOK, Cmds, Ops
    <3>2. cmd'.at \notin Names(cmd.op)
      BY <1>3, <3>1, NamesAreSteps DEF StepNames, Handlers
    <3> QED BY <1>3, <3>2 DEF Before, Between, Handlers
  <2> QED BY <1>3, <2>1 DEF PlaceOK
<1> QED BY <1>1, <1>2, <1>3

\* A step that leaves the state of the plan and goes on.
LEMMA OnwardPlace ==
  ASSUME PlaceOK, plan'.state = plan.state, plan'.origin = plan.origin,
         NEW c, Steps(c), c.op = cmd.op, c.at = cmd.at, c.at # IF c.op = "unprotect" THEN "done" ELSE "end",
         cmd.at # "state",
         cmd' = Step(c) \/ \E v \in VMs : cmd' = Done(c, v)
  PROVE  PlaceOK'
<1>1. cmd.op # None
  BY DEF Steps, Ops, Commands, None
<1>2. CASE cmd' = Step(c)
  <2>1. cmd'.op = cmd.op
    BY <1>2, StepType
  <2>2. cmd'.at \in Before(cmd.op) => cmd.at \in Before(cmd.op)
    BY <1>2, StepBack
  <2>3. cmd'.at \in Between(cmd.op) => cmd.at \in Between(cmd.op)
    BY <1>2, StepBack
  <2> QED BY <1>1, <2>1, <2>2, <2>3 DEF PlaceOK
<1>3. ASSUME NEW v \in VMs, cmd' = Done(c, v), cmd' # Step(c) PROVE PlaceOK'
  <2>1. cmd' = [c EXCEPT !.todo = c.todo \ {v}, !.last = {}]
    BY <1>3 DEF Done
  <2>2. cmd'.op = cmd.op /\ cmd'.at = cmd.at
    BY <2>1 DEF Steps, Cmds
  <2> QED BY <2>2 DEF PlaceOK
<1> QED BY <1>2, <1>3

LEMMA RunPlace ==
  ASSUME TypeOK, NEW op \in Ops, NEW chosen, Run(op, chosen)
  PROVE  PlaceOK'
<1>1. Precondition(op, plan.state, plan.origin) /\ plan' = plan
  BY DEF Run, registry
<1>2. cmd'.op = op /\ cmd'.at = "begin"
  BY NoCmdType DEF Run, NoCmd
<1>3. "begin" \in Before(op)
  BY OrderType DEF Before, Names, Range
<1>4. plan.state # "unprotected"
  BY <1>1 DEF Precondition, CommandFrom, Ops, Commands
<1> QED BY <1>1, <1>2, <1>3, <1>4 DEF PlaceOK, Between

LEMMA BeginPlace ==
  ASSUME TypeOK, PlaceOK, Begin
  PROVE  PlaceOK'
<1>1. Steps(cmd) /\ cmd.at = "begin"
  BY AtStep DEF Begin, At, StepNames, TypeOK
<1> DEFINE kept == [cmd EXCEPT !.resumed = TRUE, !.undo = Reloaded, !.prev = row.prev, !.was = row.was]
           found == [known |-> TRUE, objs |-> objs, cron |-> cron, interval |-> plan.interval]
           fresh == [cmd EXCEPT !.prev = plan.interval, !.was = found]
<1>2. PICK c \in {kept, fresh} : cmd' = Step(c)
  BY DEF Begin
<1>3. Steps(kept) /\ kept.op = cmd.op /\ kept.at = cmd.at
  BY <1>1 DEF Steps, Cmds, Rows, RegistryOK, TypeOK, Reloaded
<1>4. found \in Found
  BY DEF Found, ClustersOK, RegistryOK, Plans, TypeOK
<1>5. Steps(fresh) /\ fresh.op = cmd.op /\ fresh.at = cmd.at
  <2> HIDE DEF found
  <2> QED BY <1>1, <1>4 DEF Steps, Cmds, RegistryOK, Plans, TypeOK
<1>6. Steps(c) /\ c.op = cmd.op /\ c.at = cmd.at
  <2> HIDE DEF kept, fresh
  <2> QED BY <1>2, <1>3, <1>5
<1>7. plan' = plan
  BY DEF Begin
<1> HIDE DEF kept, fresh
<1> QED BY <1>1, <1>2, <1>6, <1>7, OnwardPlace

\* The two steps that set the state, and that they are let to.
LEMMA SetStatePlace ==
  ASSUME TypeOK, PlaceOK, SetState
  PROVE  PlaceOK' /\ TransitionAllowed(plan.state, plan'.state, plan.origin)
<1>1. Steps(cmd) /\ cmd.at = "state" /\ cmd.op \in Ops
  BY AtStep DEF SetState, At, StepNames, TypeOK, Steps
<1>2. plan'.state = ActionState(cmd.op) /\ cmd' = Step(cmd)
  BY DEF SetState, SetPlan, TypeOK, RegistryOK, Plans
<1>3. cmd'.op = cmd.op /\ cmd'.at \notin Before(cmd.op)
  BY <1>1, <1>2, StepType, StepBack
<1>4. ActionState(cmd.op) # "unprotected"
  BY <1>1 DEF ActionState, Ops, Commands
<1>5. "state" \in Before(cmd.op)
  <2>1. CASE cmd.op = "measure-stop"
    BY <1>1, <2>1 DEF Before, Steps
  <2>2. CASE cmd.op # "measure-stop"
    BY <2>2 DEF Before
  <2> QED BY <2>1, <2>2
<1>6. Precondition(cmd.op, plan.state, plan.origin)
  BY <1>1, <1>5 DEF PlaceOK, Ops, Commands, None
<1>7. TransitionAllowed(plan.state, ActionState(cmd.op), plan.origin)
  BY <1>1, <1>6 DEF Precondition, TransitionAllowed, CommandFrom, ActionState, PlanTransitions, PlanStates,
                    Ops, Commands
<1> QED BY <1>2, <1>3, <1>4, <1>7 DEF PlaceOK

LEMMA SetDonePlace ==
  ASSUME TypeOK, PlaceOK, SetDone
  PROVE  PlaceOK' /\ TransitionAllowed(plan.state, plan'.state, plan.origin)
<1>1. Steps(cmd) /\ cmd.at = "done"
  BY AtStep DEF SetDone, At, StepNames, TypeOK
<1>2. cmd.op \in {"protect", "unprotect"} /\ cmd.op # None
  BY <1>1, DoneAt DEF None
<1>3. plan.state = ActionState(cmd.op)
  BY <1>1, <1>2 DEF PlaceOK, Between, Before, Steps
<1>4. plan'.state = IF cmd.op = "protect" THEN "protected" ELSE "unprotected"
  BY DEF SetDone, SetPlan, TypeOK, RegistryOK, Plans
<1>5. TransitionAllowed(plan.state, plan'.state, plan.origin)
  BY <1>2, <1>3, <1>4 DEF TransitionAllowed, ActionState, PlanTransitions
<1>6. CASE cmd.op = "protect"
  <2>1. cmd' = Step(cmd)
    BY <1>6 DEF SetDone
  <2>2. cmd'.op = "protect" /\ cmd'.at \notin Before("protect") /\ cmd'.at \notin Between("protect")
    BY <1>1, <1>6, <2>1, StepType, StepBack DEF Before
  <2> QED BY <1>4, <1>5, <1>6, <2>2 DEF PlaceOK
<1>7. CASE cmd.op # "protect"
  BY <1>5, <1>7, NoCmdType DEF SetDone, PlaceOK
<1> QED BY <1>6, <1>7

LEMMA PlaceSteps ==
  ASSUME TypeOK, PlaceOK,
         \/ SetInterval \/ StayPending \/ End \/ Untouched \/ Pass \/ Resync
         \/ \E v \in VMs : OnVM(v)
         \/ \E o \in Of(Kinds) : Delete(o)
  PROVE  PlaceOK' /\ plan'.state = plan.state
<1> USE DEF At, AtFor
<1>0. plan'.state = plan.state /\ plan'.origin = plan.origin
  BY DEF SetInterval, StayPending, End, Untouched, Pass, Resync, OnVM, MakeRow, RecordWorks, UnprotectRow,
         EndRows, MarkRow, MakeJob, PatchJob, NoteDefault, PutLabels, MakeObject, Ready, Unnote, Leave, Delete,
         registry, TypeOK, RegistryOK, Plans
<1>1. ASSUME cmd.at \in StepNames \ {"state", "done", "end"},
             cmd' = Step(cmd) \/ \E v \in VMs : cmd' = Done(cmd, v)
      PROVE  PlaceOK'
  <2>1. Steps(cmd)
    BY <1>1, AtStep DEF TypeOK
  <2> QED BY <1>0, <1>1, <2>1, OnwardPlace
<1>2. CASE SetInterval \/ Pass \/ Resync
  <2>1. cmd.at \in StepNames \ {"state", "done", "end"} /\ cmd' = Step(cmd)
    BY <1>2 DEF SetInterval, Pass, Resync, StepNames
  <2>2. PlaceOK'
    BY <1>1, <2>1
  <2> QED BY <1>0, <2>2
<1>3. CASE StayPending \/ End
  BY <1>0, <1>3, KeepPlace DEF StayPending, End
<1>4. CASE Untouched
  <2>1. Steps(cmd) /\ cmd.at = "ask-target"
    BY <1>4, AtStep DEF Untouched, StepNames, TypeOK
  <2>2. cmd.op = "unprotect" /\ cmd'.op = "unprotect" /\ cmd'.at = "ask-source"
    BY <1>4, <2>1, TargetAsked, AskedTwice DEF Untouched
  <2>3. cmd.at \in Between("unprotect") /\ cmd'.at \notin Before("unprotect")
    BY <2>1, <2>2 DEF Between, Before, Steps
  <2> QED BY <1>0, <2>2, <2>3 DEF PlaceOK, None
<1>5. ASSUME NEW v \in VMs, NEW state, MarkRow(v, state), cmd.at \in {"row", "mark", "rows"} PROVE PlaceOK'
  <2>1. CASE cmd' = Done(cmd, v)
    BY <1>1, <1>5, <2>1 DEF StepNames
  <2>2. CASE cmd' = [cmd EXCEPT !.at = "failed"]
    <3>1. cmd'.op = cmd.op /\ cmd'.at \in Handlers
      BY <2>2 DEF TypeOK, CmdOK, Cmds, Handlers
    <3> QED BY <1>0, <3>1, KeepPlace
  <2> QED BY <1>5, <2>1, <2>2 DEF MarkRow
<1>6. ASSUME NEW v \in VMs, OnVM(v) PROVE PlaceOK'
  <2>1. CASE RecordWorks(v) \/ UnprotectRow(v) \/ EndRows(v)
    BY <1>5, <2>1 DEF RecordWorks, UnprotectRow, EndRows
  <2>2. CASE Ready(v)
    <3>1. cmd.at \in StepNames \ {"state", "done", "end"} /\ cmd' = Done(cmd, v)
      BY <2>2 DEF Ready, StepNames, Made, TargetKinds
    <3> QED BY <1>1, <3>1
  <2>3. CASE \/ MakeRow(v) \/ MakeJob(v) \/ PatchJob(v) \/ NoteDefault(v) \/ PutLabels(v)
             \/ MakeObject(v) \/ Unnote(v) \/ Leave(v)
    <3>1. cmd'.op = cmd.op /\ cmd'.at = cmd.at
      BY <2>3 DEF MakeRow, MakeJob, PatchJob, NoteDefault, PutLabels, MakeObject, Make, Unnote, Leave,
                  TypeOK, CmdOK, Cmds
    <3> QED BY <1>0, <3>1, KeepPlace
  <2> QED BY <1>6, <2>1, <2>2, <2>3 DEF OnVM
<1>7. ASSUME NEW o \in Of(Kinds), Delete(o) PROVE PlaceOK'
  BY <1>0, <1>7, KeepPlace DEF Delete
<1> QED BY <1>0, <1>2, <1>3, <1>4, <1>6, <1>7

LEMMA PlaceFaults ==
  ASSUME TypeOK, PlaceOK, Cancel \/ Suspend \/ Fail \/ Kill \/ Silent
  PROVE  PlaceOK' /\ plan' = plan
<1> USE DEF At
<1>0. plan' = plan
  BY DEF Cancel, Suspend, Fail, Kill, Silent, registry
<1>1. CASE Cancel \/ Suspend \/ Fail \/ Kill
  <2>1. cmd' = NoCmd \/ (cmd'.op = cmd.op /\ cmd'.at \in Handlers)
    BY <1>1 DEF Cancel, Suspend, Fail, Kill, TypeOK, CmdOK, Cmds, Handlers
  <2> QED BY <1>0, <2>1, KeepPlace
<1>2. CASE Silent
  <2>1. Steps(cmd) /\ cmd.at \in {"ask-target", "ask-source"}
    BY <1>2, AtStep DEF Silent, StepNames, TypeOK
  <2>2. cmd.op = "unprotect"
    BY <2>1, TargetAsked
  <2>3. PICK c : Steps(c) /\ c.op = "unprotect" /\ c.at \in {"ask-source", "rows"} /\ cmd' = [c EXCEPT !.pending = TRUE]
    BY <1>2, <2>1, <2>2, AskedTwice DEF Silent
  <2>4. cmd'.op = "unprotect" /\ cmd'.at \in {"ask-source", "rows"}
    BY <2>3 DEF Steps, Cmds
  <2>5. cmd.at \in Between("unprotect") /\ cmd'.at \notin Before("unprotect")
    BY <2>1, <2>2, <2>4 DEF Between, Before, Steps
  <2> QED BY <1>0, <2>2, <2>4, <2>5 DEF PlaceOK, None
<1> QED BY <1>0, <1>1, <1>2

LEMMA PlaceHandlers ==
  ASSUME TypeOK, PlaceOK,
         Undo \/ UndoFails \/ UndoNotes \/ UndoEnd \/ GiveBack \/ Failed \/ Errors \/ SetError
  PROVE  PlaceOK' /\ (plan'.state # plan.state => TransitionAllowed(plan.state, plan'.state, plan.origin))
<1> USE DEF At
<1>0. cmd \in Cmds /\ plan \in Plans
  BY DEF TypeOK, CmdOK, RegistryOK
<1>1. CASE Undo \/ UndoFails \/ UndoNotes \/ UndoEnd \/ GiveBack \/ Failed \/ Errors
  <2>1. plan'.state = plan.state /\ plan'.origin = plan.origin
    BY <1>0, <1>1 DEF Undo, UndoFails, UndoNotes, UndoEnd, GiveBack, Failed, Errors, registry, Plans
  <2>2. cmd'.op = cmd.op /\ cmd'.at \in Handlers
    BY <1>0, <1>1 DEF Undo, UndoFails, UndoNotes, UndoEnd, GiveBack, Failed, Errors, Cmds, Handlers
  <2> QED BY <2>1, <2>2, KeepPlace
<1>2. CASE SetError
  <2>1. PlaceOK'
    BY <1>2, NoCmdType DEF SetError, PlaceOK
  <2>2. CASE plan.state = "error"
    BY <1>2, <2>1, <2>2 DEF SetError
  <2>3. CASE plan.state # "error"
    <3>1. plan'.state = "error"
      BY <1>0, <1>2, <2>3 DEF SetError, Plans
    <3>2. cmd.op # None
      BY <1>2 DEF SetError, TypeOK, CmdOK
    <3>3. plan.state \in PlanStates \ {"unprotected", "error"}
      BY <1>0, <2>3, <3>2 DEF PlaceOK, Plans
    <3> QED BY <2>1, <3>1, <3>3 DEF TransitionAllowed, PlanTransitions, PlanStates
  <2> QED BY <2>2, <2>3
<1> QED BY <1>1, <1>2

LEMMA PlaceNext ==
  TypeOK /\ PlaceOK /\ [Next]_vars =>
    PlaceOK' /\ (PlanMoves => TransitionAllowed(plan.state, plan'.state, plan.origin))
<1> SUFFICES ASSUME TypeOK, PlaceOK, [Next]_vars
             PROVE  /\ PlaceOK'
                    /\ PlanMoves => TransitionAllowed(plan.state, plan'.state, plan.origin)
  OBVIOUS
<1>1. CASE SetState \/ SetDone
  BY <1>1, SetStatePlace, SetDonePlace
<1> DEFINE Fine == PlaceOK' /\ (plan'.state # plan.state => TransitionAllowed(plan.state, plan'.state, plan.origin))
<1>2. ASSUME NEW op \in Ops, Start(op) PROVE Fine
  BY <1>2, RunPlace DEF Start, Run, registry
<1>3. ASSUME Resume PROVE Fine
  <2>1. Resumed \in Ops
    BY DEF Resumed, Ops, Commands
  <2> QED BY <1>3, <2>1, RunPlace DEF Resume, Run, registry
<1>4. ASSUME Begin PROVE Fine
  BY <1>4, BeginPlace DEF Begin
<1>5. ASSUME \/ SetInterval \/ StayPending \/ End \/ Untouched \/ Pass \/ Resync
             \/ \E v \in VMs : OnVM(v)
             \/ \E o \in Of(Kinds) : Delete(o)
      PROVE  Fine
  BY <1>5, PlaceSteps
<1>6. ASSUME Undo \/ UndoFails \/ UndoNotes \/ UndoEnd \/ GiveBack \/ Failed \/ Errors \/ SetError
      PROVE  Fine
  BY <1>6, PlaceHandlers
<1>7. ASSUME Cancel \/ Suspend \/ Fail \/ Kill \/ Silent PROVE Fine
  BY <1>7, PlaceFaults
<1>8. ASSUME UNCHANGED vars PROVE Fine
  BY <1>8 DEF vars, PlaceOK
<1> HIDE DEF Fine
<1>9. (SetState \/ SetDone) \/ Fine
  BY <1>2, <1>3, <1>4, <1>5, <1>6, <1>7, <1>8 DEF Next, Ops
<1> QED BY <1>1, <1>9 DEF Fine, PlanMoves

\* The registry never refuses a command the state it sets, nor the error it ends in
\* (replication_db.py, set_state; replication_run.py, _precondition and the commands).
THEOREM PlanMovesAccepted == Spec => PlanMovesAllowed
<1>1. Init => TypeOK /\ PlaceOK
  BY TypeInit, PlaceInit
<1>2. (TypeOK /\ PlaceOK) /\ [Next]_vars => (TypeOK /\ PlaceOK)'
  BY TypeNext, PlaceNext
<1>3. (TypeOK /\ PlaceOK) /\ [Next]_vars =>
        [PlanMoves => TransitionAllowed(plan.state, plan'.state, plan.origin)]_vars
  BY PlaceNext
<1> QED BY <1>1, <1>2, <1>3, PTL DEF Spec, PlanMovesAllowed

--------------------------------------------------------------------------------
(* What the commands of a plan leave on the clusters, for any VMs, intervals,   *)
(* faults and commands: the lists of a command are enough to undo it, through   *)
(* its suspensions and kills, and what the registry says of a plan at rest is   *)
(* what the clusters have.                                                      *)

Makers == {"measure-start", "protect"}

\* The interval the job of v has once all that is in the lists u is undone.
Restored(u, v, crons) ==
  IF <<"job", v>> \in ToSet(u.made) THEN None ELSE IF u.cron[v] # None THEN u.cron[v] ELSE crons[v]

\* Undoing what the lists u name brings back what was found, but for what no list
\* has; a command which has not looked yet has nothing in its lists.
Intact(v, missed) == {<<"job", v>>, <<"cron", v>>} \cap missed = {}
Promised(u, was, things, crons, missed) ==
  IF ~was.known THEN u = NoUndo
  ELSE /\ \A o \in Of(Kinds) \ missed : o \in was.objs <=> o \in things /\ o \notin Listed(u)
       /\ \A v \in VMs : Intact(v, missed) =>
            /\ was.cron[v] = Restored(u, v, crons)
            /\ <<"job", v>> \notin was.objs => was.cron[v] = None

\* A job has an interval, and what has none is no job.
Timed(things, crons, missed) ==
  \A v \in VMs :
    /\ <<"job", v>> \in things => crons[v] # None
    /\ <<"job", v>> \notin things /\ Intact(v, missed) => crons[v] = None

\* The command at work, its cancellation, and the row it leaves or resumes.
MakerOK ==
  cmd.op \in Makers =>
    /\ cmd.chosen \in Intervals
    /\ Promised(cmd.undo, cmd.was, objs, cron, past.missed)
    /\ cmd.prev = cmd.was.interval
    /\ cmd.op = "measure-start" /\ cmd.was.known => plan.interval = cmd.was.interval
    /\ cmd.op = "protect" /\ cmd.at \in Begun \ {"interval"} => plan.interval \in Intervals
FreshOK ==
  /\ cmd.was.known => cmd.at # "begin"
  /\ ~cmd.was.known => cmd.at \notin Begun /\ cmd.was = Unknown /\ ~cmd.cancelled /\ ~cmd.resumed
  /\ cmd.at \in {"undo", "back"} => cmd.op \in Makers
  /\ cmd.pending => cmd.op = "unprotect"
  /\ cmd.at = "undo" /\ cmd.was.known => cmd.cancelled
CancelledOK ==
  cmd.cancelled =>
    /\ cmd.op \in Makers /\ cmd.at \in {"undo", "back", "errors", "error"}
    /\ cmd.at # "undo" => cmd.undo = NoUndo
    /\ cmd.at \in {"errors", "error"} /\ cmd.was.interval # None => plan.interval = cmd.was.interval
RowOK ==
  /\ row.op # None => row.was.known
  /\ cmd.was.known => row.op \in {None, cmd.op}
  /\ row.op \in Makers =>
       /\ row.prev = row.was.interval
       /\ row.op = "measure-start" => plan.interval = row.was.interval
       /\ IF cmd.was.known
          THEN /\ cmd.resumed /\ cmd.was = row.was
               /\ \A o \in Listed(row.undo) \ past.missed : o \notin row.was.objs
               /\ cmd.at \in {"back", "errors", "error"} => cmd.undo = row.undo
          ELSE Promised(row.undo, row.was, objs, cron, past.missed)
UndoneOK == past.undone.known => cmd = NoCmd /\ CancelUndoesAll

PromiseInv == Timed(objs, cron, past.missed) /\ MakerOK /\ FreshOK /\ CancelledOK /\ RowOK /\ UndoneOK

--------------------------------------------------------------------------------
(* The lists. *)

LEMMA FrontSet ==
  ASSUME NEW S, NEW s \in Seq(S), s # <<>>
  PROVE  /\ ToSet(Front(s)) \subseteq ToSet(s)
         /\ \A x \in ToSet(s) : x \in ToSet(Front(s)) \/ x = Last(s)
         /\ Last(s) \in ToSet(s)
<1>1. Len(s) \in Nat /\ Len(s) >= 1 /\ DOMAIN s = 1..Len(s)
  OBVIOUS
<1>2. Front(s) \in Seq(S) /\ DOMAIN Front(s) = 1..(Len(s) - 1) /\ \A i \in 1..(Len(s) - 1) : Front(s)[i] = s[i]
  BY <1>1 DEF Front
<1>3. ASSUME NEW i \in DOMAIN s PROVE s[i] \in ToSet(Front(s)) \/ s[i] = Last(s)
  <2>1. CASE i = Len(s)
    BY <2>1 DEF Last
  <2>2. CASE i # Len(s)
    <3>1. i \in 1..(Len(s) - 1)
      BY <1>1, <2>2
    <3>2. i \in DOMAIN Front(s) /\ Front(s)[i] = s[i]
      BY <1>2, <3>1
    <3> QED BY <3>2 DEF ToSet
  <2> QED BY <2>1, <2>2
<1>4. ASSUME NEW i \in DOMAIN Front(s) PROVE Front(s)[i] \in ToSet(s)
  <2>1. i \in DOMAIN s /\ Front(s)[i] = s[i]
    BY <1>1, <1>2
  <2> QED BY <2>1 DEF ToSet
<1>5. Last(s) \in ToSet(s)
  <2>1. Len(s) \in DOMAIN s
    BY <1>1
  <2> QED BY <2>1 DEF Last, ToSet
<1> QED BY <1>3, <1>4, <1>5 DEF ToSet

LEMMA AppendSet ==
  ASSUME NEW S, NEW s \in Seq(S), NEW x \in S
  PROVE  ToSet(Append(s, x)) = ToSet(s) \cup {x}
<1>1. DOMAIN Append(s, x) = 1..(Len(s) + 1) /\ DOMAIN s = 1..Len(s) /\ Len(s) \in Nat
  OBVIOUS
<1>2. \A i \in 1..Len(s) : Append(s, x)[i] = s[i]
  OBVIOUS
<1>3. Append(s, x)[Len(s) + 1] = x
  OBVIOUS
<1>4. 1..(Len(s) + 1) = 1..Len(s) \cup {Len(s) + 1}
  BY <1>1
<1> QED BY <1>1, <1>2, <1>3, <1>4 DEF ToSet

LEMMA UndosSets ==
  ASSUME NEW u \in Undos
  PROVE  /\ ToSet(u.made) \subseteq Of(Kinds)
         /\ \A l \in ToSet(u.labels) : l \subseteq Of(LabelKinds)
         /\ u.made \in Seq(Of(Kinds)) /\ u.labels \in Seq(SUBSET Of(LabelKinds))
         /\ u.cron \in [VMs -> Times] /\ u.noted \subseteq VMs
<1>1. u.made \in Seq(Of(Kinds)) /\ u.labels \in Seq(SUBSET Of(LabelKinds)) /\ u.cron \in [VMs -> Times]
      /\ u.noted \subseteq VMs
  BY DEF Undos
<1>2. \A i \in DOMAIN u.made : u.made[i] \in Of(Kinds)
  BY <1>1
<1>3. \A i \in DOMAIN u.labels : u.labels[i] \in SUBSET Of(LabelKinds)
  BY <1>1
<1> QED BY <1>1, <1>2, <1>3 DEF ToSet

LEMMA ListedKinds ==
  ASSUME NEW u \in Undos
  PROVE  /\ Listed(u) \subseteq Of(Kinds)
         /\ \A v \in VMs : <<"job", v>> \in Listed(u) <=> <<"job", v>> \in ToSet(u.made)
<1>1. Of(LabelKinds) \subseteq Of(Kinds) /\ \A v \in VMs : <<"job", v>> \notin Of(LabelKinds)
  BY DEF Of, Kinds, LabelKinds
<1>2. \A o \in Listed(u) : o \in ToSet(u.made) \/ o \in Of(LabelKinds)
  BY UndosSets DEF Listed
<1> QED BY <1>1, <1>2, UndosSets DEF Listed

LEMMA NothingListed ==
  /\ Listed(NoUndo) = {} /\ ToSet(NoUndo.made) = {}
  /\ NoUndo.noted = {} /\ \A v \in VMs : NoUndo.cron[v] = None
<1>1. DOMAIN NoUndo.made = {} /\ DOMAIN NoUndo.labels = {}
  BY DEF NoUndo
<1> QED BY <1>1 DEF Listed, ToSet, NoUndo

LEMMA MadeListed ==
  ASSUME NEW u \in Undos, NEW o \in Of(Kinds)
  PROVE  LET w == [u EXCEPT !.made = Append(u.made, o)]
         IN  Listed(w) = Listed(u) \cup {o} /\ ToSet(w.made) = ToSet(u.made) \cup {o} /\ w.cron = u.cron
<1> DEFINE w == [u EXCEPT !.made = Append(u.made, o)]
<1>1. w.made = Append(u.made, o) /\ w.labels = u.labels /\ w.cron = u.cron
  BY DEF Undos
<1>2. ToSet(w.made) = ToSet(u.made) \cup {o}
  BY <1>1, AppendSet, UndosSets
<1> HIDE DEF w
<1>3. Listed(w) = Listed(u) \cup {o}
  BY <1>1, <1>2 DEF Listed
<1> QED BY <1>1, <1>2, <1>3 DEF w

LEMMA LabelsListed ==
  ASSUME NEW u \in Undos, NEW l \in SUBSET Of(LabelKinds)
  PROVE  LET w == [u EXCEPT !.labels = Append(u.labels, l)]
         IN  Listed(w) = Listed(u) \cup l /\ w.made = u.made /\ w.cron = u.cron
<1> DEFINE w == [u EXCEPT !.labels = Append(u.labels, l)]
<1>1. w.labels = Append(u.labels, l) /\ w.made = u.made /\ w.cron = u.cron
  BY DEF Undos
<1>2. ToSet(w.labels) = ToSet(u.labels) \cup {l}
  BY <1>1, AppendSet, UndosSets
<1> HIDE DEF w
<1>3. Listed(w) = Listed(u) \cup l
  BY <1>1, <1>2 DEF Listed
<1> QED BY <1>1, <1>3 DEF w

\* What a signal keeps out of the lists, and what is taken from them.
LEMMA WithoutLists ==
  ASSUME cmd.undo \in Undos, NEW lost
  PROVE  LET u == Without(lost)
         IN  /\ Listed(u) \subseteq Listed(cmd.undo)
             /\ \A o \in Listed(cmd.undo) : o \in Listed(u) \/ o \in lost
             /\ ToSet(u.made) \subseteq ToSet(cmd.undo.made)
             /\ \A o \in ToSet(cmd.undo.made) : o \in ToSet(u.made) \/ o \in lost
             /\ \A v \in VMs : u.cron[v] = IF <<"cron", v>> \in lost THEN None ELSE cmd.undo.cron[v]
             /\ ToSet(u.labels) \subseteq ToSet(cmd.undo.labels) /\ u.noted = cmd.undo.noted
<1> DEFINE u == Without(lost)
<1>1. /\ u.made = IF cmd.undo.made # <<>> /\ Last(cmd.undo.made) \in lost THEN Front(cmd.undo.made)
                  ELSE cmd.undo.made
      /\ u.labels = IF cmd.undo.labels # <<>> /\ Last(cmd.undo.labels) = lost THEN Front(cmd.undo.labels)
                    ELSE cmd.undo.labels
      /\ u.cron = [v \in VMs |-> IF <<"cron", v>> \in lost THEN None ELSE cmd.undo.cron[v]]
      /\ u.noted = cmd.undo.noted
  BY DEF Without
<1>2. cmd.undo.made \in Seq(Of(Kinds)) /\ cmd.undo.labels \in Seq(SUBSET Of(LabelKinds))
  BY UndosSets
<1> HIDE DEF u
<1>3. /\ ToSet(u.made) \subseteq ToSet(cmd.undo.made)
      /\ \A o \in ToSet(cmd.undo.made) : o \in ToSet(u.made) \/ o \in lost
  <2>1. CASE cmd.undo.made # <<>> /\ Last(cmd.undo.made) \in lost
    <3>1. u.made = Front(cmd.undo.made)
      BY <1>1, <2>1
    <3> QED BY <1>2, <2>1, <3>1, FrontSet
  <2>2. CASE ~(cmd.undo.made # <<>> /\ Last(cmd.undo.made) \in lost)
    BY <1>1, <2>2
  <2> QED BY <2>1, <2>2
<1>4. /\ ToSet(u.labels) \subseteq ToSet(cmd.undo.labels)
      /\ \A l \in ToSet(cmd.undo.labels) : l \in ToSet(u.labels) \/ l = lost
  <2>1. CASE cmd.undo.labels # <<>> /\ Last(cmd.undo.labels) = lost
    <3>1. u.labels = Front(cmd.undo.labels)
      BY <1>1, <2>1
    <3> QED BY <1>2, <2>1, <3>1, FrontSet
  <2>2. CASE ~(cmd.undo.labels # <<>> /\ Last(cmd.undo.labels) = lost)
    BY <1>1, <2>2
  <2> QED BY <2>1, <2>2
<1>5. Listed(u) \subseteq Listed(cmd.undo)
  BY <1>3, <1>4 DEF Listed
<1>6. \A o \in Listed(cmd.undo) : o \in Listed(u) \/ o \in lost
  BY <1>3, <1>4 DEF Listed
<1> QED BY <1>1, <1>3, <1>4, <1>5, <1>6 DEF u

\* What an undo takes first is in the lists, a job only after the changed intervals.
LEMMA ToUndoListed ==
  ASSUME cmd.undo \in Undos
  PROVE  /\ \A o \in ToUndo \cap Of(Kinds) : o \in Listed(cmd.undo)
         /\ \A v \in VMs : <<"job", v>> \in ToUndo =>
              <<"job", v>> \in ToSet(cmd.undo.made) /\ \A x \in VMs : cmd.undo.cron[x] = None
         /\ \A v \in VMs : <<"cron", v>> \in ToUndo => ToUndo = {<<"cron", v>>} /\ cmd.undo.cron[v] # None
         /\ cmd.undo = NoUndo => ToUndo = {}
<1>1. cmd.undo.made \in Seq(Of(Kinds)) /\ cmd.undo.labels \in Seq(SUBSET Of(LabelKinds))
  BY UndosSets
<1>2. \A v \in VMs : <<"job", v>> \notin Of(LabelKinds) /\ <<"cron", v>> \notin Of(Kinds)
                     /\ <<"cron", v>> \notin Of(LabelKinds)
  BY DEF Of, Kinds, LabelKinds, TargetKinds
<1>3. CASE cmd.undo.labels # <<>>
  <2>1. ToUndo = Last(cmd.undo.labels)
    BY <1>3 DEF ToUndo
  <2>2. Last(cmd.undo.labels) \in ToSet(cmd.undo.labels)
    BY <1>1, <1>3, FrontSet
  <2>3. ToUndo \subseteq Of(LabelKinds) /\ ToUndo \subseteq Listed(cmd.undo)
    BY <2>1, <2>2, UndosSets DEF Listed
  <2>4. cmd.undo # NoUndo
    BY <1>3 DEF NoUndo
  <2> QED BY <1>2, <2>3, <2>4
<1>4. CASE cmd.undo.labels = <<>> /\ cmd.undo.noted # {}
  <2>1. ToUndo = {}
    BY <1>4 DEF ToUndo
  <2> QED BY <2>1
<1>5. CASE cmd.undo.labels = <<>> /\ cmd.undo.noted = {} /\ \E v \in VMs : cmd.undo.cron[v] # None
  <2> DEFINE x == CHOOSE v \in VMs : cmd.undo.cron[v] # None
  <2>1. x \in VMs /\ cmd.undo.cron[x] # None
    BY <1>5
  <2>2. ToUndo = {<<"cron", x>>}
    BY <1>5 DEF ToUndo
  <2> HIDE DEF x
  <2>3. cmd.undo # NoUndo
    BY <2>1, NothingListed
  <2> QED BY <1>2, <2>1, <2>2, <2>3
<1>6. CASE cmd.undo.labels = <<>> /\ cmd.undo.noted = {} /\ (\A v \in VMs : cmd.undo.cron[v] = None)
           /\ cmd.undo.made # <<>>
  <2>1. ToUndo = {Last(cmd.undo.made)}
    BY <1>6 DEF ToUndo
  <2>2. Last(cmd.undo.made) \in ToSet(cmd.undo.made) /\ Last(cmd.undo.made) \in Of(Kinds)
    BY <1>1, <1>6, FrontSet, FrontType
  <2>3. Last(cmd.undo.made) \in Listed(cmd.undo)
    BY <2>2 DEF Listed
  <2>4. cmd.undo # NoUndo
    BY <1>6 DEF NoUndo
  <2> QED BY <1>2, <1>6, <2>1, <2>2, <2>3, <2>4
<1>7. CASE cmd.undo.labels = <<>> /\ cmd.undo.noted = {} /\ (\A v \in VMs : cmd.undo.cron[v] = None)
           /\ cmd.undo.made = <<>>
  <2>1. ToUndo = {}
    BY <1>7 DEF ToUndo
  <2> QED BY <2>1
<1> QED BY <1>3, <1>4, <1>5, <1>6, <1>7

--------------------------------------------------------------------------------
(* What each step does to a promise. *)

LEMMA PromiseKept ==
  ASSUME NEW u, NEW was, NEW things, NEW crons, NEW missed, NEW more,
         Promised(u, was, things, crons, missed), missed \subseteq more
  PROVE  Promised(u, was, things, crons, more)
  BY DEF Promised, Intact

LEMMA PromiseNone ==
  ASSUME NEW was, ~was.known, NEW things, NEW crons, NEW missed
  PROVE  Promised(NoUndo, was, things, crons, missed)
  BY DEF Promised

\* A command that looks finds what it has found.
LEMMA PromiseFound ==
  ASSUME NEW was, was.known, NEW missed, Timed(was.objs, was.cron, missed)
  PROVE  Promised(NoUndo, was, was.objs, was.cron, missed)
<1>1. \A v \in VMs : Restored(NoUndo, v, was.cron) = was.cron[v]
  BY NothingListed DEF Restored
<1> QED BY <1>1, NothingListed DEF Promised, Timed

LEMMA PromiseMake ==
  ASSUME NEW u \in Undos, NEW was, was.known, NEW things, NEW crons, NEW missed,
         Promised(u, was, things, crons, missed),
         NEW o \in Of(Kinds) \ things, \A v \in VMs : o # <<"job", v>>
  PROVE  Promised([u EXCEPT !.made = Append(u.made, o)], was, things \cup {o}, crons, missed)
<1> DEFINE w == [u EXCEPT !.made = Append(u.made, o)]
<1>1. Listed(w) = Listed(u) \cup {o} /\ ToSet(w.made) = ToSet(u.made) \cup {o} /\ w.cron = u.cron
  BY MadeListed
<1> HIDE DEF w
<1>2. \A v \in VMs : Restored(w, v, crons) = Restored(u, v, crons)
  BY <1>1 DEF Restored
<1>3. Promised(w, was, things \cup {o}, crons, missed)
  BY <1>1, <1>2 DEF Promised
<1> QED BY <1>3 DEF w

LEMMA PromiseMakeJob ==
  ASSUME NEW u \in Undos, NEW was, was.known, NEW things, NEW crons \in [VMs -> Times], NEW missed,
         Promised(u, was, things, crons, missed), NEW t,
         NEW v \in VMs, <<"job", v>> \notin things
  PROVE  Promised([u EXCEPT !.made = Append(u.made, <<"job", v>>)], was, things \cup {<<"job", v>>},
                  [crons EXCEPT ![v] = t], missed)
<1> DEFINE w == [u EXCEPT !.made = Append(u.made, <<"job", v>>)]
<1>0. <<"job", v>> \in Of(Kinds)
  BY DEF Of, Kinds
<1>1. /\ Listed(w) = Listed(u) \cup {<<"job", v>>} /\ w.cron = u.cron
      /\ ToSet(w.made) = ToSet(u.made) \cup {<<"job", v>>}
  BY <1>0, MadeListed
<1> HIDE DEF w
<1>2. ASSUME NEW x \in VMs, x # v
      PROVE  Restored(w, x, [crons EXCEPT ![v] = t]) = Restored(u, x, crons)
  <2>1. [crons EXCEPT ![v] = t][x] = crons[x] /\ <<"job", x>> # <<"job", v>>
    BY <1>2
  <2> QED BY <1>1, <2>1 DEF Restored
<1>3. Restored(w, v, [crons EXCEPT ![v] = t]) = None
  BY <1>1 DEF Restored
<1>4. Intact(v, missed) => was.cron[v] = None
  BY <1>0 DEF Promised, Intact
<1>5. Promised(w, was, things \cup {<<"job", v>>}, [crons EXCEPT ![v] = t], missed)
  BY <1>1, <1>2, <1>3, <1>4 DEF Promised
<1> QED BY <1>5 DEF w

\* The interval a job had is noted once.
LEMMA PromisePatch ==
  ASSUME NEW u \in Undos, NEW was, was.known, NEW things, NEW crons \in [VMs -> Times], NEW missed,
         Promised(u, was, things, crons, missed), NEW t,
         NEW v \in VMs, crons[v] # None,
         NEW w, w = IF u.cron[v] # None THEN u ELSE [u EXCEPT !.cron = [u.cron EXCEPT ![v] = crons[v]]]
  PROVE  Promised(w, was, things, [crons EXCEPT ![v] = t], missed)
<1> DEFINE c == [crons EXCEPT ![v] = t]
<1>1. /\ w.made = u.made /\ w.labels = u.labels
      /\ w.cron[v] = IF u.cron[v] # None THEN u.cron[v] ELSE crons[v]
      /\ \A x \in VMs : x # v => w.cron[x] = u.cron[x]
  <2>1. CASE u.cron[v] # None
    BY <2>1
  <2>2. CASE u.cron[v] = None
    <3> DEFINE n == [u.cron EXCEPT ![v] = crons[v]]
    <3>1. n[v] = crons[v] /\ \A x \in VMs : x # v => n[x] = u.cron[x]
      BY UndosSets
    <3>2. w = [u EXCEPT !.cron = n]
      BY <2>2
    <3> HIDE DEF n
    <3>3. w.made = u.made /\ w.labels = u.labels /\ w.cron = n
      BY <3>2 DEF Undos
    <3> QED BY <2>2, <3>1, <3>3
  <2> QED BY <2>1, <2>2
<1>2. Listed(w) = Listed(u)
  BY <1>1 DEF Listed
<1>3. \A x \in VMs : x # v => c[x] = crons[x]
  OBVIOUS
<1> HIDE DEF c
<1>4. \A x \in VMs : Restored(w, x, c) = Restored(u, x, crons)
  BY <1>1, <1>3 DEF Restored
<1>5. Promised(w, was, things, c, missed)
  BY <1>2, <1>4 DEF Promised
<1> QED BY <1>5 DEF c

LEMMA PromiseLabels ==
  ASSUME NEW u \in Undos, NEW was, was.known, NEW things, NEW crons, NEW missed,
         Promised(u, was, things, crons, missed),
         NEW l \in SUBSET (Of(LabelKinds) \ things)
  PROVE  Promised([u EXCEPT !.labels = Append(u.labels, l)], was, things \cup l, crons, missed)
<1> DEFINE w == [u EXCEPT !.labels = Append(u.labels, l)]
<1>1. Listed(w) = Listed(u) \cup l /\ w.made = u.made /\ w.cron = u.cron
  BY LabelsListed
<1> HIDE DEF w
<1>2. \A v \in VMs : Restored(w, v, crons) = Restored(u, v, crons)
  BY <1>1 DEF Restored
<1>3. Promised(w, was, things \cup l, crons, missed)
  BY <1>1, <1>2 DEF Promised
<1> QED BY <1>3 DEF w

LEMMA PromiseNotes ==
  ASSUME NEW u \in Undos, NEW was, was.known, NEW things, NEW crons, NEW missed,
         Promised(u, was, things, crons, missed), NEW n
  PROVE  Promised([u EXCEPT !.noted = n], was, things, crons, missed)
<1> DEFINE w == [u EXCEPT !.noted = n]
<1>1. w.made = u.made /\ w.labels = u.labels /\ w.cron = u.cron
  BY DEF Undos
<1> HIDE DEF w
<1>2. Listed(w) = Listed(u) /\ \A v \in VMs : Restored(w, v, crons) = Restored(u, v, crons)
  BY <1>1 DEF Listed, Restored
<1>3. Promised(w, was, things, crons, missed)
  BY <1>2 DEF Promised
<1> QED BY <1>3 DEF w

\* Whatever the lists lose is counted as missed.
LEMMA PromiseWithout ==
  ASSUME cmd.undo \in Undos, NEW was, NEW things, NEW crons, NEW missed, NEW lost,
         Promised(cmd.undo, was, things, crons, missed)
  PROVE  Promised(Without(lost), was, things, crons, missed \cup lost)
<1> DEFINE u == Without(lost)
<1>1. /\ Listed(u) \subseteq Listed(cmd.undo)
      /\ \A o \in Listed(cmd.undo) : o \in Listed(u) \/ o \in lost
      /\ ToSet(u.made) \subseteq ToSet(cmd.undo.made)
      /\ \A o \in ToSet(cmd.undo.made) : o \in ToSet(u.made) \/ o \in lost
      /\ \A v \in VMs : u.cron[v] = IF <<"cron", v>> \in lost THEN None ELSE cmd.undo.cron[v]
  BY WithoutLists
<1>2. CASE was.known
  <2> HIDE DEF u
  <2>1. \A v \in VMs : Intact(v, missed \cup lost) => Restored(u, v, crons) = Restored(cmd.undo, v, crons)
    BY <1>1 DEF Intact, Restored
  <2>2. Promised(u, was, things, crons, missed \cup lost)
    BY <1>1, <1>2, <2>1 DEF Promised, Intact
  <2> QED BY <2>2 DEF u
<1>3. CASE ~was.known
  <2>1. cmd.undo = NoUndo
    BY <1>3 DEF Promised
  <2>2. u = NoUndo
    <3>1. cmd.undo.made = <<>> /\ cmd.undo.labels = <<>> /\ cmd.undo.noted = {}
          /\ \A v \in VMs : cmd.undo.cron[v] = None
      BY <2>1 DEF NoUndo
    <3> QED BY <3>1 DEF Without, NoUndo
  <2> QED BY <1>3, <2>2 DEF Promised
<1> QED BY <1>2, <1>3

\* A kill leaves the row, with the lists it had: what they have too much was not
\* there before, and what they lack is missed.
LEMMA PromiseOfRow ==
  ASSUME NEW u \in Undos, NEW r \in Undos, NEW was, was.known, NEW things, NEW crons, NEW missed, NEW more,
         Promised(u, was, things, crons, missed), missed \subseteq more,
         Listed(u) \ Listed(r) \subseteq more,
         \A v \in VMs : u.cron[v] # r.cron[v] => <<"cron", v>> \in more,
         \A o \in Listed(r) \ missed : o \notin was.objs
  PROVE  Promised(r, was, things, crons, more)
<1>1. ASSUME NEW o \in Of(Kinds) \ more PROVE o \in was.objs <=> o \in things /\ o \notin Listed(r)
  BY DEF Promised
<1>2. ASSUME NEW v \in VMs, Intact(v, more)
      PROVE  /\ was.cron[v] = Restored(r, v, crons)
             /\ <<"job", v>> \notin was.objs => was.cron[v] = None
  <2>1. /\ was.cron[v] = Restored(u, v, crons)
        /\ <<"job", v>> \notin was.objs => was.cron[v] = None
        /\ u.cron[v] = r.cron[v]
    BY <1>2 DEF Promised, Intact
  <2>2. CASE <<"job", v>> \in ToSet(r.made)
    <3>1. <<"job", v>> \notin was.objs
      BY <1>2, <2>2, ListedKinds DEF Intact
    <3> QED BY <2>1, <2>2, <3>1 DEF Restored
  <2>3. CASE <<"job", v>> \notin ToSet(r.made)
    <3>1. <<"job", v>> \notin ToSet(u.made)
      BY <1>2, <2>3, ListedKinds DEF Intact
    <3> QED BY <2>1, <2>3, <3>1 DEF Restored
  <2> QED BY <2>2, <2>3
<1> QED BY <1>1, <1>2 DEF Promised

\* What an undo does to the intervals of the jobs.
UndoneCron(crons) ==
  [v \in VMs |->
     IF <<"job", v>> \in ToUndo THEN None
     ELSE IF <<"cron", v>> \in ToUndo /\ <<"job", v>> \notin ToSet(cmd.undo.made) THEN cmd.undo.cron[v]
     ELSE crons[v]]

LEMMA UndoCron ==
  ASSUME cmd.undo \in Undos, Undo
  PROVE  cron' = UndoneCron(cron)
<1>1. ASSUME NEW v \in VMs
      PROVE  (CASE <<"job", v>> \in ToUndo -> None
                [] <<"cron", v>> \in ToUndo /\ <<"job", v>> \notin ToSet(cmd.undo.made) -> cmd.undo.cron[v]
                [] OTHER -> cron[v]) = UndoneCron(cron)[v]
  BY ToUndoListed DEF UndoneCron
<1> QED BY <1>1 DEF Undo, UndoneCron

LEMMA PromiseUndo ==
  ASSUME cmd.undo \in Undos, NEW was, was.known, NEW things, NEW crons \in [VMs -> Times], NEW missed,
         Promised(cmd.undo, was, things, crons, missed), Timed(things, crons, missed)
  PROVE  /\ Promised(Without(ToUndo), was, things \ ToUndo, UndoneCron(crons), missed)
         /\ Timed(things \ ToUndo, UndoneCron(crons), missed)
<1> DEFINE u == Without(ToUndo)
           T == ToUndo
           c == UndoneCron(crons)
<1>1. /\ Listed(u) \subseteq Listed(cmd.undo)
      /\ \A o \in Listed(cmd.undo) : o \in Listed(u) \/ o \in T
      /\ ToSet(u.made) \subseteq ToSet(cmd.undo.made)
      /\ \A o \in ToSet(cmd.undo.made) : o \in ToSet(u.made) \/ o \in T
      /\ \A v \in VMs : u.cron[v] = IF <<"cron", v>> \in T THEN None ELSE cmd.undo.cron[v]
  BY WithoutLists
<1>2. /\ \A o \in T \cap Of(Kinds) : o \in Listed(cmd.undo)
      /\ \A v \in VMs : <<"job", v>> \in T =>
           <<"job", v>> \in ToSet(cmd.undo.made) /\ \A x \in VMs : cmd.undo.cron[x] = None
      /\ \A v \in VMs : <<"cron", v>> \in T => T = {<<"cron", v>>} /\ cmd.undo.cron[v] # None
  BY ToUndoListed
<1>3. \A v \in VMs : c[v] = IF <<"job", v>> \in T THEN None
                           ELSE IF <<"cron", v>> \in T /\ <<"job", v>> \notin ToSet(cmd.undo.made)
                                THEN cmd.undo.cron[v]
                           ELSE crons[v]
  BY DEF UndoneCron
<1>4. \A v \in VMs : <<"job", v>> \in Of(Kinds)
  BY DEF Of, Kinds
<1> HIDE DEF u, T, c
<1>5. \A o \in Of(Kinds) \ missed : o \in was.objs <=> o \in things \ T /\ o \notin Listed(u)
  BY <1>1, <1>2 DEF Promised
<1>6. ASSUME NEW v \in VMs, Intact(v, missed) PROVE was.cron[v] = Restored(u, v, c)
  <2>1. was.cron[v] = Restored(cmd.undo, v, crons)
    BY <1>6 DEF Promised
  <2>2. CASE <<"job", v>> \in T
    <3>1. was.cron[v] = None /\ c[v] = None /\ u.cron[v] = None
      BY <1>1, <1>2, <1>3, <2>1, <2>2 DEF Restored
    <3> QED BY <3>1 DEF Restored
  <2>3. CASE <<"cron", v>> \in T
    <3>1. <<"job", v>> \notin T /\ u.cron[v] = None /\ cmd.undo.cron[v] # None
      BY <1>1, <1>2, <2>3
    <3>2. <<"job", v>> \in ToSet(u.made) <=> <<"job", v>> \in ToSet(cmd.undo.made)
      BY <1>1, <3>1
    <3> QED BY <1>3, <2>1, <2>3, <3>1, <3>2 DEF Restored
  <2>4. CASE <<"job", v>> \notin T /\ <<"cron", v>> \notin T
    <3>1. u.cron[v] = cmd.undo.cron[v] /\ c[v] = crons[v]
      BY <1>1, <1>3, <2>4
    <3>2. <<"job", v>> \in ToSet(u.made) <=> <<"job", v>> \in ToSet(cmd.undo.made)
      BY <1>1, <2>4
    <3> QED BY <2>1, <3>1, <3>2 DEF Restored
  <2> QED BY <2>2, <2>3, <2>4
<1>7. Promised(u, was, things \ T, c, missed)
  BY <1>5, <1>6 DEF Promised
<1>8. ASSUME NEW v \in VMs, <<"job", v>> \in things \ T PROVE c[v] # None
  BY <1>2, <1>3, <1>8 DEF Timed
<1>9. ASSUME NEW v \in VMs, <<"job", v>> \notin things \ T, Intact(v, missed) PROVE c[v] = None
  <2>1. CASE <<"job", v>> \in T
    BY <1>3, <2>1
  <2>2. CASE <<"job", v>> \notin T /\ <<"cron", v>> \in T /\ <<"job", v>> \notin ToSet(cmd.undo.made)
    <3>1. was.cron[v] = cmd.undo.cron[v] /\ cmd.undo.cron[v] # None
      BY <1>2, <1>9, <2>2 DEF Promised, Restored
    <3>2. <<"job", v>> \in was.objs
      BY <1>9, <3>1 DEF Promised
    <3>3. <<"job", v>> \in things
      BY <1>4, <1>9, <3>2 DEF Promised, Intact
    <3> QED BY <1>9, <2>2, <3>3
  <2>3. CASE <<"job", v>> \notin T /\ ~(<<"cron", v>> \in T /\ <<"job", v>> \notin ToSet(cmd.undo.made))
    BY <1>3, <1>9, <2>3 DEF Timed
  <2> QED BY <2>1, <2>2, <2>3
<1>10. Timed(things \ T, c, missed)
  <2>1. ASSUME NEW v \in VMs
        PROVE  /\ <<"job", v>> \in things \ T => c[v] # None
               /\ <<"job", v>> \notin things \ T /\ Intact(v, missed) => c[v] = None
    BY <1>8, <1>9
  <2> QED BY <2>1 DEF Timed
<1> QED BY <1>7, <1>10 DEF u, T, c

--------------------------------------------------------------------------------
(* Each action keeps the promises. *)

\* What no step but a begin and an end changes of a command.
Alike(c, d) ==
  /\ d.op = c.op /\ d.was = c.was /\ d.prev = c.prev /\ d.chosen = c.chosen
  /\ d.resumed = c.resumed /\ d.cancelled = c.cancelled /\ d.pending = c.pending

LEMMA StepAlike ==
  ASSUME NEW c, Steps(c), c.at # IF c.op = "unprotect" THEN "done" ELSE "end", NEW v
  PROVE  /\ Alike(c, Step(c)) /\ Step(c).undo = c.undo /\ Step(c).at \in Begun
         /\ Alike(c, Done(c, v)) /\ Done(c, v).undo = c.undo
         /\ Done(c, v).at = c.at \/ Done(c, v) = Step(c)
<1> DEFINE n == CHOOSE i \in DOMAIN Order(c.op) : Order(c.op)[i] = c.at
           at == Order(c.op)[n + 1]
<1>1. Step(c) = [c EXCEPT !.at = at, !.todo = Works(c), !.last = {}]
  BY DEF Step
<1>2. n \in DOMAIN Order(c.op) /\ Order(c.op)[n] = c.at
  BY DEF Names, Range, Steps
<1>3. at \in Names(c.op) /\ at \in StepNames
  BY NextStep DEF Steps
<1>4. at # "begin"
  <2>1. n \in Nat /\ n >= 1 /\ n + 1 # 1
    BY <1>2, OrderType DEF Steps
  <2>2. \A i \in DOMAIN Order(c.op) : i # 1 => Order(c.op)[i] # "begin"
    BY DEF Order, Steps, Ops, Commands
  <2>3. n + 1 \in DOMAIN Order(c.op)
    <3>1. n # Len(Order(c.op))
      BY <1>2, OrderType DEF Steps
    <3> QED BY <1>2, <3>1, OrderType DEF Steps
  <2> HIDE DEF n
  <2> QED BY <2>1, <2>2, <2>3
<1> HIDE DEF at, n
<1>5. Alike(c, Step(c)) /\ Step(c).undo = c.undo /\ Step(c).at \in Begun
  BY <1>1, <1>3, <1>4 DEF Alike, Steps, Cmds, Begun
<1>6. CASE c.todo \subseteq {v}
  BY <1>5, <1>6 DEF Done
<1>7. CASE ~(c.todo \subseteq {v})
  <2>1. Done(c, v) = [c EXCEPT !.todo = c.todo \ {v}, !.last = {}]
    BY <1>7 DEF Done
  <2> QED BY <1>5, <2>1 DEF Alike, Steps, Cmds
<1> QED BY <1>5, <1>6, <1>7

\* Only protect and measure-start have the steps that make something, only the others
\* those that take it away.
LEMMA StepsOfMakers ==
  ASSUME Steps(cmd)
  PROVE  /\ cmd.at \in {"interval", "job"} \cup Made => cmd.op \in Makers
         /\ cmd.at \in {"unlabel", "unsnap", "target"} => cmd.op \notin Makers
         /\ cmd.at \in {"interval"} \cup Made => cmd.op = "protect"
         /\ cmd.at \in {"mark", "ask-target", "ask-source", "target"} => cmd.op = "unprotect"
<1>1. CASE cmd.op = "measure-start"
  BY <1>1 DEF Steps, Names, Range, Order, Made, TargetKinds, Makers
<1>2. CASE cmd.op = "measure-stop"
  BY <1>2 DEF Steps, Names, Range, Order, Made, TargetKinds, Makers
<1>3. CASE cmd.op = "protect"
  BY <1>3 DEF Steps, Names, Range, Order, Made, TargetKinds, Makers
<1>4. CASE cmd.op = "unprotect"
  BY <1>4 DEF Steps, Names, Range, Order, Made, TargetKinds, Makers
<1> QED BY <1>1, <1>2, <1>3, <1>4 DEF Steps, Ops, Commands

\* A command past its begin has looked at the clusters and is not cancelled.
LEMMA PastBegin ==
  ASSUME TypeOK, PromiseInv, cmd.at \in Begun
  PROVE  /\ Steps(cmd) /\ cmd.was.known /\ ~cmd.cancelled /\ cmd # NoCmd /\ ~past.undone.known
         /\ cmd.op # None /\ cmd.undo \in Undos
<1>1. Steps(cmd)
  BY AtStep DEF TypeOK, Begun
<1>2. cmd.was.known
  BY DEF PromiseInv, FreshOK
<1>3. cmd.at \notin Handlers
  BY DEF Begun, StepNames, Handlers
<1>4. ~cmd.cancelled
  BY <1>3 DEF PromiseInv, CancelledOK, Handlers
<1>5. cmd # NoCmd
  BY <1>3, NoCmdType DEF Handlers
<1> QED BY <1>1, <1>2, <1>4, <1>5 DEF PromiseInv, UndoneOK, Steps, Ops, Commands, None, Cmds

\* A step past the begin that leaves clusters, lists and rows.
LEMMA KeepPromise ==
  ASSUME TypeOK, PromiseInv, cmd.at \in Begun, cmd.at = "interval" => plan'.interval \in Intervals,
         objs' = objs, cron' = cron, past'.missed = past.missed, past'.undone = past.undone, row' = row,
         plan'.interval = plan.interval \/ cmd.at = "interval",
         Alike(cmd, cmd'), cmd'.undo = cmd.undo, cmd'.at \in Begun \cup {"failed"}
  PROVE  PromiseInv'
<1>1. Steps(cmd) /\ cmd.was.known /\ ~cmd.cancelled /\ ~past.undone.known
  BY PastBegin
<1>2. cmd'.at \notin {"begin", "undo", "back", "errors", "error"}
  BY DEF Begun, StepNames
<1>3. cmd.op = "measure-start" => cmd.at # "interval"
  BY <1>1, StepsOfMakers
<1>4. row.op = "measure-start" => plan'.interval = plan.interval
  BY <1>1, <1>3, StepsOfMakers DEF PromiseInv, RowOK, None
<1>5. MakerOK'
  BY <1>1, <1>3 DEF PromiseInv, MakerOK, Alike
<1>6. FreshOK'
  BY <1>1, <1>2 DEF PromiseInv, FreshOK, Alike
<1>7. CancelledOK'
  BY <1>1 DEF CancelledOK, Alike
<1>8. RowOK'
  BY <1>1, <1>2, <1>4 DEF PromiseInv, RowOK, Alike
<1>9. UndoneOK' /\ Timed(objs, cron, past.missed)'
  BY <1>1 DEF PromiseInv, UndoneOK
<1> QED BY <1>5, <1>6, <1>7, <1>8, <1>9 DEF PromiseInv

\* A command that ends: nothing of it is left but the row.
LEMMA EndPromise ==
  ASSUME Timed(objs, cron, past.missed)', cmd' = NoCmd, past'.undone = past.undone \/ ~past'.undone.known,
         ~past.undone.known,
         row'.op # None => row'.was.known,
         row'.op \in Makers =>
           /\ row'.prev = row'.was.interval
           /\ row'.op = "measure-start" => plan'.interval = row'.was.interval
           /\ Promised(row'.undo, row'.was, objs', cron', past'.missed)
  PROVE  PromiseInv'
<1>1. NoCmd.op = None /\ NoCmd.at = "idle" /\ NoCmd.was = Unknown
      /\ ~NoCmd.cancelled /\ ~NoCmd.resumed /\ ~NoCmd.pending
      /\ ~Unknown.known
  BY DEF NoCmd, Unknown
<1>2. None \notin Makers /\ "idle" \notin Begun
  BY DEF None, Makers, Begun, StepNames
<1>3. MakerOK' /\ FreshOK' /\ CancelledOK'
  BY <1>1, <1>2 DEF MakerOK, FreshOK, CancelledOK
<1>4. RowOK'
  BY <1>1 DEF RowOK
<1>5. UndoneOK'
  BY DEF UndoneOK
<1> QED BY <1>3, <1>4, <1>5 DEF PromiseInv

LEMMA InitPromise == Init => PromiseInv
<1> SUFFICES ASSUME Init PROVE PromiseInv
  OBVIOUS
<1>1. cmd = NoCmd /\ row = NoRow /\ past.undone = Unknown /\ objs = {"default"} \X Explicit
      /\ cron = [v \in VMs |-> None]
  BY DEF Init
<1>2. NoCmd.op = None /\ NoCmd.at = "idle" /\ NoCmd.was = Unknown
      /\ ~NoCmd.cancelled /\ ~NoCmd.resumed /\ ~NoCmd.pending
      /\ ~Unknown.known /\ NoRow.op = None
  BY DEF NoCmd, Unknown, NoRow
<1>3. None \notin Makers /\ "idle" \notin Begun
  BY DEF None, Makers, Begun, StepNames
<1>4. Timed(objs, cron, past.missed)
  BY <1>1 DEF Timed
<1>5. MakerOK /\ FreshOK /\ CancelledOK /\ RowOK /\ UndoneOK
  BY <1>1, <1>2, <1>3 DEF MakerOK, FreshOK, CancelledOK, RowOK, UndoneOK
<1> QED BY <1>4, <1>5 DEF PromiseInv

LEMMA RunPromise ==
  ASSUME TypeOK, PromiseInv, NEW op \in Ops, NEW chosen \in Takes(op), Run(op, chosen)
  PROVE  PromiseInv'
<1>1. /\ cmd = NoCmd
      /\ cmd' = [NoCmd EXCEPT !.op = op, !.at = "begin", !.works = selected, !.chosen = chosen]
      /\ past' = [past EXCEPT !.commands = past.commands + 1, !.undone = Unknown]
      /\ plan' = plan /\ row' = row /\ objs' = objs /\ cron' = cron
  BY DEF Run, registry, clusters
<1>2. /\ cmd'.op = op /\ cmd'.at = "begin" /\ cmd'.chosen = chosen /\ cmd'.undo = NoUndo /\ cmd'.prev = None
      /\ cmd'.was = Unknown /\ ~cmd'.cancelled /\ ~cmd'.resumed /\ ~cmd'.pending
  BY <1>1 DEF NoCmd
<1>3. past'.missed = past.missed /\ past'.undone = Unknown
  BY <1>1 DEF TypeOK, PastOK
<1>4. ~Unknown.known /\ Unknown.interval = None /\ NoCmd.was = Unknown /\ "begin" \notin Begun
  BY DEF Unknown, NoCmd, Begun
<1>5. op \in Makers => chosen \in Intervals
  BY DEF Makers, Takes
<1>6. MakerOK'
  BY <1>2, <1>4, <1>5, PromiseNone DEF MakerOK
<1>7. FreshOK' /\ CancelledOK'
  BY <1>2, <1>4 DEF FreshOK, CancelledOK
<1>8. RowOK'
  BY <1>1, <1>2, <1>3, <1>4 DEF PromiseInv, RowOK
<1>9. UndoneOK' /\ Timed(objs, cron, past.missed)'
  BY <1>1, <1>3, <1>4 DEF PromiseInv, UndoneOK
<1> QED BY <1>6, <1>7, <1>8, <1>9 DEF PromiseInv

LEMMA BeginPromise ==
  ASSUME TypeOK, PromiseInv, Begin
  PROVE  PromiseInv'
<1>1. Steps(cmd) /\ cmd.at = "begin" /\ ~cmd.was.known
  BY AtStep DEF Begin, At, StepNames, TypeOK, PromiseInv, FreshOK
<1> DEFINE kept == [cmd EXCEPT !.resumed = TRUE, !.undo = Reloaded, !.prev = row.prev, !.was = row.was]
           found == [known |-> TRUE, objs |-> objs, cron |-> cron, interval |-> plan.interval]
           fresh == [cmd EXCEPT !.prev = plan.interval, !.was = found]
           c == IF row.op = cmd.op THEN kept ELSE fresh
<1>2. /\ kept.op = cmd.op /\ kept.at = "begin" /\ kept.resumed = TRUE /\ kept.undo = row.undo
      /\ kept.prev = row.prev /\ kept.was = row.was /\ kept.chosen = cmd.chosen /\ kept.cancelled = cmd.cancelled
      /\ kept.pending = cmd.pending
  BY <1>1 DEF Steps, Cmds, Reloaded
<1>3. /\ fresh.op = cmd.op /\ fresh.at = "begin" /\ fresh.undo = cmd.undo /\ fresh.prev = plan.interval
      /\ fresh.was = found /\ fresh.chosen = cmd.chosen /\ fresh.cancelled = cmd.cancelled
      /\ fresh.pending = cmd.pending
  BY <1>1 DEF Steps, Cmds
<1>4. /\ cmd' = Step(c)
      /\ row' = IF row.op = cmd.op \/ row.op \notin Superseded THEN row ELSE NoRow
      /\ plan' = plan /\ objs' = objs /\ cron' = cron /\ past' = past
  BY DEF Begin, clusters
<1>5. Steps(kept) /\ Steps(fresh)
  <2>1. found \in Found
    BY DEF Found, ClustersOK, RegistryOK, Plans, TypeOK
  <2> HIDE DEF found
  <2> QED BY <1>1, <2>1 DEF Steps, Cmds, Rows, RegistryOK, Plans, TypeOK, Reloaded
<1>6. found.known /\ found.interval = plan.interval /\ found.objs = objs /\ found.cron = cron
  OBVIOUS
<1> HIDE DEF kept, fresh, found
<1>7. Steps(c) /\ c.at = "begin" /\ c.op = cmd.op /\ c.chosen = cmd.chosen /\ ~c.cancelled
      /\ (c.pending => c.op = "unprotect")
  BY <1>1, <1>2, <1>3, <1>5 DEF PromiseInv, FreshOK
<1>8. row.op = None \/ row.op \in Superseded
  BY DEF TypeOK, RegistryOK, Rows, Superseded
<1> HIDE DEF c
<1>9. Alike(c, cmd') /\ cmd'.undo = c.undo /\ cmd'.at \in Begun
  BY <1>4, <1>7, StepAlike
<1>10. cmd'.op = "protect" => cmd'.at = "interval"
  <2> SUFFICES ASSUME c.op = "protect" PROVE Step(c).at = "interval"
    BY <1>4, <1>9 DEF Alike
  <2> DEFINE n == CHOOSE i \in DOMAIN Order(c.op) : Order(c.op)[i] = c.at
  <2>1. n \in DOMAIN Order(c.op) /\ Order(c.op)[n] = "begin"
    BY <1>7 DEF Names, Range, Steps
  <2>2. n = 1
    <3> HIDE DEF n
    <3> QED BY <2>1 DEF Order
  <2>3. Step(c).at = Order(c.op)[n + 1]
    BY <1>7 DEF Step, Steps, Cmds
  <2> HIDE DEF n
  <2> QED BY <2>2, <2>3 DEF Order
<1>11. cmd'.was.known /\ (cmd.op \in Makers => Promised(cmd'.undo, cmd'.was, objs, cron, past.missed))
       /\ (cmd.op \in Makers => cmd'.prev = cmd'.was.interval)
       /\ (cmd.op = "measure-start" => plan.interval = cmd'.was.interval)
  <2>1. CASE row.op = cmd.op
    <3>1. cmd'.undo = row.undo /\ cmd'.was = row.was /\ cmd'.prev = row.prev /\ row.op # None
      BY <1>1, <1>2, <1>9, <2>1 DEF c, Alike, Steps, Ops, Commands, None
    <3> QED BY <1>1, <2>1, <3>1 DEF PromiseInv, RowOK, Makers
  <2>2. CASE row.op # cmd.op
    <3>1. cmd'.undo = cmd.undo /\ cmd'.was = found /\ cmd'.prev = plan.interval
      BY <1>3, <1>9, <2>2 DEF c, Alike
    <3>2. cmd.op \in Makers => cmd.undo = NoUndo
      BY <1>1 DEF PromiseInv, MakerOK, Promised
    <3>3. Promised(NoUndo, found, objs, cron, past.missed)
      BY <1>6, PromiseFound DEF PromiseInv
    <3> QED BY <1>6, <3>1, <3>2, <3>3
  <2> QED BY <2>1, <2>2
<1>12. MakerOK'
  BY <1>4, <1>7, <1>9, <1>10, <1>11 DEF PromiseInv, MakerOK, Alike, Begun
<1>13. FreshOK' /\ CancelledOK'
  BY <1>7, <1>9, <1>11 DEF FreshOK, CancelledOK, Alike, Begun, StepNames
<1>14. RowOK'
  <2>1. CASE row.op = cmd.op
    <3>1. cmd'.resumed /\ cmd'.was = row.was /\ row' = row /\ cmd'.op = row.op
      BY <1>2, <1>4, <1>7, <1>9, <2>1 DEF c, Alike
    <3>2. row.op \in Makers => \A o \in Listed(row.undo) \ past.missed : o \notin row.was.objs
      <4> SUFFICES ASSUME row.op \in Makers PROVE \A o \in Listed(row.undo) \ past.missed : o \notin row.was.objs
        OBVIOUS
      <4>1. Promised(row.undo, row.was, objs, cron, past.missed) /\ row.was.known
        BY <1>1 DEF PromiseInv, RowOK, Makers, None
      <4>2. Listed(row.undo) \subseteq Of(Kinds)
        BY ListedKinds DEF TypeOK, RegistryOK, Rows
      <4> QED BY <4>1, <4>2 DEF Promised
    <3>3. cmd'.at \notin {"back", "errors", "error"}
      BY <1>9 DEF Begun, StepNames
    <3> QED BY <1>4, <1>11, <3>1, <3>2, <3>3 DEF PromiseInv, RowOK
  <2>2. CASE row.op # cmd.op
    <3>1. row'.op = None
      BY <1>4, <1>8, <2>2 DEF NoRow
    <3> QED BY <3>1 DEF RowOK, Makers, None
  <2> QED BY <2>1, <2>2
<1>15. ~past.undone.known
  BY <1>1, NoCmdType DEF PromiseInv, UndoneOK
<1>16. UndoneOK' /\ Timed(objs, cron, past.missed)'
  BY <1>4, <1>15 DEF PromiseInv, UndoneOK
<1> QED BY <1>12, <1>13, <1>14, <1>16 DEF PromiseInv

\* The steps on the registry.
LEMMA RegistryPromise ==
  ASSUME TypeOK, ReachOK, PromiseInv,
         \/ SetInterval \/ SetState \/ SetDone \/ StayPending \/ End \/ Untouched \/ Pass \/ Resync
         \/ \E v \in VMs : MakeRow(v) \/ RecordWorks(v) \/ UnprotectRow(v) \/ EndRows(v) \/ Ready(v) \/ Unnote(v)
  PROVE  PromiseInv'
<1> USE DEF At, AtFor
<1>1. ASSUME cmd.at \in Begun \ {"interval"}, objs' = objs, cron' = cron, past' = past, row' = row,
             plan'.interval = plan.interval, Alike(cmd, cmd'), cmd'.undo = cmd.undo,
             cmd'.at \in Begun \cup {"failed"}
      PROVE  PromiseInv'
  BY <1>1, KeepPromise
<1>2. ASSUME cmd.at \in Begun \ {"interval"}, objs' = objs, cron' = cron, past' = past, row' = row,
             plan'.interval = plan.interval, cmd.at # IF cmd.op = "unprotect" THEN "done" ELSE "end",
             cmd' = Step(cmd) \/ \E v \in VMs : cmd' = Done(cmd, v)
      PROVE  PromiseInv'
  <2>1. Steps(cmd)
    BY <1>2, PastBegin
  <2>2. Alike(cmd, cmd') /\ cmd'.undo = cmd.undo /\ cmd'.at \in Begun
    BY <1>2, <2>1, StepAlike
  <2> QED BY <1>1, <1>2, <2>2
<1>3. ASSUME cmd.at \in Begun, cmd' = NoCmd, objs' = objs, cron' = cron, past' = past, plan'.interval = plan.interval,
             row' = row \/ row' = NoRow, row.op \in Makers => row' = NoRow
      PROVE  PromiseInv'
  <2>1. NoRow.op = None /\ None \notin Makers
    BY DEF NoRow, None, Makers
  <2> QED BY <1>3, <2>1, PastBegin, EndPromise DEF PromiseInv, RowOK
<1>4. CASE SetInterval
  <2>1. cmd.at = "interval" /\ cmd.at \in Begun
    BY <1>4 DEF SetInterval, Begun, StepNames
  <2>2. Steps(cmd) /\ cmd.op \in Makers /\ cmd' = Step(cmd)
    BY <1>4, <2>1, PastBegin, StepsOfMakers DEF SetInterval
  <2>3. Alike(cmd, cmd') /\ cmd'.undo = cmd.undo /\ cmd'.at \in Begun
    BY <2>1, <2>2, StepAlike
  <2>4. plan'.interval \in Intervals
    BY <1>4, <2>2 DEF SetInterval, PromiseInv, MakerOK, TypeOK, RegistryOK, Plans
  <2> QED BY <1>4, <2>1, <2>3, <2>4, KeepPromise DEF SetInterval, clusters
<1>5. ASSUME NEW state, SetPlan(state)
      PROVE  plan'.interval = plan.interval /\ objs' = objs /\ cron' = cron /\ past' = past /\ row' = row
  BY <1>5 DEF SetPlan, clusters, TypeOK, RegistryOK, Plans
<1>6. CASE SetState
  <2>1. cmd.at \in Begun \ {"interval"} /\ cmd.at \notin {"done", "end"}
    BY <1>6 DEF SetState, Begun, StepNames
  <2> QED BY <1>2, <1>5, <1>6, <2>1 DEF SetState
<1>7. CASE SetDone
  <2>1. cmd.at \in Begun \ {"interval"} /\ cmd.at = "done" /\ Steps(cmd)
    BY <1>7, PastBegin DEF SetDone, Begun, StepNames
  <2>2. CASE cmd.op = "protect"
    BY <1>2, <1>5, <1>7, <2>1, <2>2 DEF SetDone
  <2>3. CASE cmd.op # "protect"
    <3>1. cmd.op = "unprotect"
      BY <2>1, <2>3, DoneAt
    <3>2. row.op = None
      BY <2>1, <3>1 DEF ReachOK, TypeOK, RegistryOK, Rows, Suspendable
    <3> QED BY <1>3, <1>5, <1>7, <2>1, <2>3, <3>2 DEF SetDone, Makers, None
  <2> QED BY <2>2, <2>3
<1>8. CASE StayPending \/ End
  <2>1. cmd.at \in Begun /\ cmd' = NoCmd /\ objs' = objs /\ cron' = cron /\ past' = past /\ plan' = plan
        /\ (row' = row \/ row' = NoRow)
    BY <1>8 DEF StayPending, End, CloseRun, Begun, StepNames, registry, clusters
  <2>2. CASE End
    <3>1. row.op \in Makers => cmd.resumed
      BY <2>1, PastBegin DEF PromiseInv, RowOK
    <3> QED BY <1>3, <2>1, <2>2, <3>1 DEF End, CloseRun
  <2>3. CASE StayPending
    <3>1. row' = row
      BY <2>3 DEF StayPending, registry
    <3>2. row.op \notin Makers
      BY <2>1, <2>3 DEF StayPending, ReachOK, PromiseInv, FreshOK, Makers, None
    <3> QED BY <1>3, <2>1, <3>1, <3>2
  <2> QED BY <1>8, <2>2, <2>3
<1>9. CASE Untouched
  <2>1. cmd.at \in Begun \ {"interval"} /\ cmd.at = "ask-target"
    BY <1>9 DEF Untouched, Begun, StepNames
  <2>2. Steps(cmd) /\ cmd.op = "unprotect"
    BY <2>1, PastBegin, TargetAsked
  <2>3. Steps(Step(cmd)) /\ Alike(cmd, Step(cmd)) /\ Step(cmd).undo = cmd.undo
    BY <2>1, <2>2, StepAlike, StepType
  <2>4. Step(cmd).op = "unprotect" /\ Step(cmd).at # "done"
    <3>1. cmd.at = Order("unprotect")[4] /\ Order("unprotect")[5] = "target"
      BY <2>1 DEF Order
    <3> QED BY <2>2, <3>1, AskedNext
  <2>5. Alike(Step(cmd), Step(Step(cmd))) /\ Step(Step(cmd)).undo = cmd.undo /\ Step(Step(cmd)).at \in Begun
    BY <2>3, <2>4, StepAlike
  <2> QED BY <1>1, <1>9, <2>1, <2>3, <2>5 DEF Untouched, registry, clusters, Alike
<1>10. CASE Pass
  <2>1. cmd.at \in Begun \ {"interval"} /\ cmd.at \notin {"done", "end"}
    BY <1>10 DEF Pass, Begun, StepNames
  <2> QED BY <1>2, <1>10, <2>1 DEF Pass, registry, clusters
<1>11. CASE Resync
  <2>1. cmd.at \in Begun \ {"interval"} /\ cmd.at \notin {"done", "end"}
    BY <1>11 DEF Resync, Begun, StepNames
  <2> QED BY <1>2, <1>11, <2>1 DEF Resync, clusters
<1>12. ASSUME NEW v \in VMs, MakeRow(v) \/ Unnote(v) PROVE PromiseInv'
  <2>1. cmd.at \in Begun \ {"interval"} /\ cmd' = cmd
    BY <1>12 DEF MakeRow, Unnote, Begun, StepNames
  <2>2. objs' = objs /\ cron' = cron /\ past' = past /\ row' = row /\ plan' = plan
    BY <1>12 DEF MakeRow, Unnote, clusters
  <2> QED BY <1>1, <2>1, <2>2 DEF Alike
<1>13. ASSUME NEW v \in VMs, NEW state, MarkRow(v, state), cmd.at \in {"row", "mark", "rows"}
       PROVE PromiseInv'
  <2>1. cmd.at \in Begun \ {"interval"} /\ cmd.at \notin {"done", "end"}
    BY <1>13 DEF Begun, StepNames
  <2>2. CASE cmd' = Done(cmd, v)
    BY <1>2, <1>13, <2>1, <2>2 DEF MarkRow, clusters
  <2>3. CASE cmd' = [cmd EXCEPT !.at = "failed"]
    <3>1. Alike(cmd, cmd') /\ cmd'.undo = cmd.undo /\ cmd'.at = "failed"
      BY <2>3 DEF TypeOK, CmdOK, Cmds, Alike
    <3> QED BY <1>1, <1>13, <2>1, <3>1 DEF MarkRow, clusters
  <2> QED BY <1>13, <2>2, <2>3 DEF MarkRow
<1>14. ASSUME NEW v \in VMs, RecordWorks(v) \/ UnprotectRow(v) \/ EndRows(v) PROVE PromiseInv'
  BY <1>13, <1>14 DEF RecordWorks, UnprotectRow, EndRows
<1>15. ASSUME NEW v \in VMs, Ready(v) PROVE PromiseInv'
  <2>1. cmd.at \in Begun \ {"interval"} /\ cmd.at \notin {"done", "end"}
    BY <1>15 DEF Ready, Begun, StepNames, Made, TargetKinds
  <2> QED BY <1>2, <1>15, <2>1 DEF Ready, registry, clusters
<1> QED BY <1>4, <1>6, <1>7, <1>8, <1>9, <1>10, <1>11, <1>12, <1>14, <1>15

\* A step that changes clusters and lists together, of protect or measure-start.
LEMMA ListsPromise ==
  ASSUME TypeOK, PromiseInv, cmd.at \in Begun, cmd.op \in Makers,
         Promised(cmd'.undo, cmd.was, objs', cron', past.missed), Timed(objs', cron', past.missed),
         past' = past, row' = row, plan' = plan, Alike(cmd, cmd'), cmd'.at = cmd.at
  PROVE  PromiseInv'
<1>1. cmd.was.known /\ ~cmd.cancelled /\ ~past.undone.known
  BY PastBegin
<1>2. cmd'.at \notin {"begin", "undo", "back", "errors", "error"}
  BY DEF Begun, StepNames
<1>3. MakerOK'
  BY <1>1 DEF PromiseInv, MakerOK, Alike
<1>4. FreshOK' /\ CancelledOK'
  BY <1>1, <1>2 DEF PromiseInv, FreshOK, CancelledOK, Alike
<1>5. RowOK'
  BY <1>1, <1>2 DEF PromiseInv, RowOK, Alike
<1>6. UndoneOK'
  BY <1>1 DEF UndoneOK
<1> QED BY <1>3, <1>4, <1>5, <1>6 DEF PromiseInv

LEMMA MakerPromise ==
  ASSUME TypeOK, PromiseInv, NEW v \in VMs,
         MakeJob(v) \/ PatchJob(v) \/ NoteDefault(v) \/ PutLabels(v) \/ MakeObject(v)
  PROVE  PromiseInv'
<1> USE DEF At, AtFor
<1>1. cmd.at \in Begun /\ cmd.at \in {"job"} \cup Made /\ cmd.at # "interval"
  BY DEF MakeJob, PatchJob, NoteDefault, PutLabels, MakeObject, Begun, StepNames, Made, TargetKinds
<1>2. /\ Steps(cmd) /\ cmd.was.known /\ cmd.op \in Makers /\ cmd.undo \in Undos /\ cmd \in Cmds
      /\ Promised(cmd.undo, cmd.was, objs, cron, past.missed) /\ Timed(objs, cron, past.missed)
      /\ cron \in [VMs -> Times]
  BY <1>1, PastBegin, StepsOfMakers DEF PromiseInv, MakerOK, TypeOK, ClustersOK, CmdOK
<1>3. Wanted \in Intervals
  BY <1>1, <1>2 DEF PromiseInv, MakerOK, Wanted, Makers
<1>4. Wanted # None
  BY <1>3, ProtectAssumption
<1>5. ASSUME NEW u, NEW l, cmd' = [cmd EXCEPT !.undo = u, !.last = l]
      PROVE  Alike(cmd, cmd') /\ cmd'.undo = u /\ cmd'.at = cmd.at
  BY <1>2, <1>5 DEF Cmds, Alike
<1>6. CASE MakeJob(v)
  <2> DEFINE u == [cmd.undo EXCEPT !.made = Append(cmd.undo.made, <<"job", v>>)]
             c == [cron EXCEPT ![v] = Wanted]
  <2>1. /\ <<"job", v>> \notin objs /\ objs' = objs \cup {<<"job", v>>} /\ cron' = c
        /\ cmd' = [cmd EXCEPT !.undo = u, !.last = {<<"job", v>>}]
        /\ past' = past /\ row' = row /\ plan' = plan
    BY <1>6 DEF MakeJob, Make, registry
  <2>2. Promised(u, cmd.was, objs', c, past.missed)
    BY <1>2, <2>1, PromiseMakeJob
  <2>3. Timed(objs', c, past.missed)
    <3>1. \A x \in VMs : c[x] = IF x = v THEN Wanted ELSE cron[x]
      BY <1>2
    <3> HIDE DEF c
    <3>2. \A x \in VMs : x # v => (<<"job", x>> \in objs' <=> <<"job", x>> \in objs)
      BY <2>1
    <3>3. <<"job", v>> \in objs'
      BY <2>1
    <3> QED BY <1>2, <1>4, <3>1, <3>2, <3>3 DEF Timed
  <2> HIDE DEF u, c
  <2> QED BY <1>1, <1>2, <1>5, <2>1, <2>2, <2>3, ListsPromise
<1>7. CASE PatchJob(v)
  <2> DEFINE c == [cron EXCEPT ![v] = Wanted]
             n == [cmd.undo EXCEPT !.cron = [cmd.undo.cron EXCEPT ![v] = cron[v]]]
             u == IF cmd.undo.cron[v] # None THEN cmd.undo ELSE n
  <2>1. /\ <<"job", v>> \in objs /\ cron' = c /\ objs' = objs
        /\ cmd' = IF cmd.undo.cron[v] # None THEN [cmd EXCEPT !.last = {}]
                  ELSE [cmd EXCEPT !.undo = n, !.last = {<<"cron", v>>}]
        /\ past' = past /\ row' = row /\ plan' = plan
    BY <1>7 DEF PatchJob, registry
  <2>2. cron[v] # None
    BY <1>2, <2>1 DEF Timed
  <2>3. Promised(u, cmd.was, objs, c, past.missed)
    BY <1>2, <2>2, PromisePatch
  <2>4. Timed(objs, c, past.missed)
    <3>1. \A x \in VMs : c[x] = IF x = v THEN Wanted ELSE cron[x]
      BY <1>2
    <3> HIDE DEF c
    <3> QED BY <1>2, <1>4, <2>1, <3>1 DEF Timed
  <2> HIDE DEF n, c
  <2>5. Alike(cmd, cmd') /\ cmd'.undo = u /\ cmd'.at = cmd.at
    BY <1>2, <2>1 DEF Cmds, Alike
  <2> HIDE DEF u
  <2> QED BY <1>1, <1>2, <2>1, <2>3, <2>4, <2>5, ListsPromise
<1>8. CASE NoteDefault(v)
  <2> DEFINE u == [cmd.undo EXCEPT !.noted = cmd.undo.noted \cup {v}]
  <2>1. /\ cmd' = [cmd EXCEPT !.undo = u, !.last = {}] /\ objs' = objs /\ cron' = cron
        /\ past' = past /\ row' = row /\ plan' = plan
    BY <1>8 DEF NoteDefault, clusters
  <2>2. Promised(u, cmd.was, objs, cron, past.missed)
    BY <1>2, PromiseNotes
  <2> HIDE DEF u
  <2> QED BY <1>1, <1>2, <1>5, <2>1, <2>2, ListsPromise
<1>9. CASE PutLabels(v)
  <2> DEFINE u == [cmd.undo EXCEPT !.labels = Append(cmd.undo.labels, Missing(v))]
  <2>1. /\ cmd' = [cmd EXCEPT !.undo = u, !.last = Missing(v)] /\ objs' = objs \cup Missing(v) /\ cron' = cron
        /\ past' = past /\ row' = row /\ plan' = plan
    BY <1>9 DEF PutLabels, registry
  <2>2. Missing(v) \in SUBSET (Of(LabelKinds) \ objs)
    BY DEF Missing
  <2>3. Promised(u, cmd.was, objs', cron, past.missed)
    BY <1>2, <2>1, <2>2, PromiseLabels
  <2>4. Timed(objs', cron, past.missed)
    <3>1. \A x \in VMs : <<"job", x>> \notin Missing(v)
      BY <2>2 DEF Of, LabelKinds
    <3>2. \A x \in VMs : <<"job", x>> \in objs' <=> <<"job", x>> \in objs
      BY <2>1, <3>1
    <3> QED BY <1>2, <3>2 DEF Timed
  <2> HIDE DEF u
  <2> QED BY <1>1, <1>2, <1>5, <2>1, <2>3, <2>4, ListsPromise
<1>10. CASE MakeObject(v)
  <2> DEFINE o == <<cmd.at, v>>
             u == [cmd.undo EXCEPT !.made = Append(cmd.undo.made, o)]
  <2>1. /\ cmd' = [cmd EXCEPT !.undo = u, !.last = {o}] /\ objs' = objs \cup {o} /\ cron' = cron
        /\ past' = past /\ row' = row /\ plan' = plan /\ o \notin objs /\ cmd.at \in Made
    BY <1>10 DEF MakeObject, Make, There, registry
  <2>2. o \in Of(Kinds) /\ \A x \in VMs : o # <<"job", x>>
    BY <2>1 DEF Made, TargetKinds, Of, Kinds
  <2> HIDE DEF o
  <2>3. Promised(u, cmd.was, objs', cron, past.missed)
    BY <1>2, <2>1, <2>2, PromiseMake
  <2>4. Timed(objs', cron, past.missed)
    <3>1. \A x \in VMs : <<"job", x>> \in objs' <=> <<"job", x>> \in objs
      BY <2>1, <2>2
    <3> QED BY <1>2, <3>1 DEF Timed
  <2> HIDE DEF u
  <2> QED BY <1>1, <1>2, <1>5, <2>1, <2>3, <2>4, ListsPromise
<1> QED BY <1>6, <1>7, <1>8, <1>9, <1>10

LEMMA DeletePromise ==
  ASSUME TypeOK, PromiseInv, NEW o \in Of(Kinds), Delete(o)
  PROVE  PromiseInv'
<1>1. cmd.at \in {"target", "unsnap", "unlabel"} /\ cmd.at \in Begun
  BY DEF Delete, At, AtFor, Begun, StepNames
<1>2. Steps(cmd) /\ cmd.was.known /\ ~past.undone.known /\ cmd.op \notin Makers
  BY <1>1, PastBegin, StepsOfMakers
<1>3. /\ objs' = objs \ {o} /\ cron' = IF o[1] = "job" THEN [cron EXCEPT ![o[2]] = None] ELSE cron
      /\ plan' = plan /\ row' = row /\ cmd' = cmd /\ past' = past
  BY DEF Delete, registry
<1>4. Timed(objs', cron', past.missed)
  <2>1. cron \in [VMs -> Times] /\ o[2] \in VMs /\ o = <<o[1], o[2]>>
    BY DEF TypeOK, ClustersOK, Of
  <2>2. CASE o[1] = "job"
    <3>1. \A x \in VMs : cron'[x] = IF x = o[2] THEN None ELSE cron[x]
      BY <1>3, <2>1, <2>2
    <3>2. \A x \in VMs : <<"job", x>> \in objs' <=> <<"job", x>> \in objs /\ x # o[2]
      BY <1>3, <2>1, <2>2
    <3> QED BY <3>1, <3>2 DEF PromiseInv, Timed
  <2>3. CASE o[1] # "job"
    <3>1. \A x \in VMs : <<"job", x>> \in objs' <=> <<"job", x>> \in objs
      BY <1>3, <2>3
    <3>2. cron' = cron
      BY <1>3, <2>3
    <3> QED BY <3>1, <3>2 DEF PromiseInv, Timed
  <2> QED BY <2>2, <2>3
<1>5. MakerOK'
  BY <1>2, <1>3 DEF MakerOK
<1>6. FreshOK' /\ CancelledOK'
  BY <1>2, <1>3 DEF PromiseInv, FreshOK, CancelledOK
<1>7. RowOK'
  BY <1>2, <1>3 DEF PromiseInv, RowOK
<1>8. UndoneOK' /\ Timed(objs, cron, past.missed)'
  BY <1>2, <1>3, <1>4 DEF UndoneOK
<1> QED BY <1>5, <1>6, <1>7, <1>8 DEF PromiseInv

LEMMA LeavePromise ==
  ASSUME TypeOK, PromiseInv, NEW v \in VMs, Leave(v)
  PROVE  PromiseInv'
<1>1. objs' = objs /\ cron' = cron /\ plan' = plan /\ row' = row /\ cmd' = cmd /\ past' = past
  BY DEF Leave, registry, clusters
<1> QED BY <1>1 DEF PromiseInv, Timed, MakerOK, FreshOK, CancelledOK, RowOK, UndoneOK, CancelUndoesAll

\* The faults: what the lists do not have then is missed.
LEMMA TimedMissed ==
  ASSUME NEW things, NEW crons, NEW missed, NEW more, Timed(things, crons, missed), missed \subseteq more
  PROVE  Timed(things, crons, more)
  BY DEF Timed, Intact

LEMMA SlipMissed ==
  ASSUME TypeOK, NEW lost, Slip(lost)
  PROVE  past'.missed = past.missed \cup lost /\ past'.undone = past.undone
  BY DEF Slip, TypeOK, PastOK

\* A signal, a failure or a silence after which the command goes on as another.
LEMMA SlipPromise ==
  ASSUME TypeOK, PromiseInv, cmd.at \in StepNames, NEW lost, Slip(lost),
         objs' = objs, cron' = cron, plan'.interval = plan.interval, row' = row \/ row'.op = None,
         cmd'.op = cmd.op, cmd'.was = cmd.was, cmd'.prev = cmd.prev, cmd'.chosen = cmd.chosen,
         cmd'.resumed = cmd.resumed, cmd'.pending => cmd.op = "unprotect",
         cmd'.at \notin Begun \cup {"begin"} \/ (cmd'.at \in Begun /\ cmd.op \notin Makers /\ cmd.at \in Begun),
         cmd'.cancelled => cmd.was.known /\ cmd.op \in Makers /\ cmd'.at = "undo",
         cmd'.at \in {"undo", "back"} => cmd.op \in Makers,
         cmd'.at = "undo" /\ cmd.was.known => cmd'.cancelled,
         cmd'.at \in {"back", "errors", "error"} => row'.op \notin Makers \/ ~cmd.was.known,
         cmd.op \in Makers => cmd'.undo = Without(lost)
  PROVE  PromiseInv'
<1>1. past'.missed = past.missed \cup lost /\ past'.undone = past.undone
  BY SlipMissed
<1>2. Steps(cmd) /\ cmd.undo \in Undos /\ cmd # NoCmd
  BY AtStep, NoCmdType DEF TypeOK, Steps, Cmds, StepNames
<1>3. Timed(objs, cron, past.missed)'
  BY <1>1, TimedMissed DEF PromiseInv
<1>4. MakerOK'
  <2> SUFFICES ASSUME cmd.op \in Makers PROVE MakerOK'
    BY DEF MakerOK
  <2>1. Promised(cmd'.undo, cmd'.was, objs', cron', past'.missed)
    BY <1>1, <1>2, PromiseWithout DEF PromiseInv, MakerOK
  <2> QED BY <2>1 DEF PromiseInv, MakerOK
<1>5. FreshOK'
  BY DEF PromiseInv, FreshOK, Begun
<1>6. CancelledOK'
  BY DEF CancelledOK
<1>7. RowOK'
  <2>1. CASE row'.op = None
    BY <2>1 DEF RowOK, Makers, None
  <2>2. CASE row'.op # None
    <3>1. row' = row
      BY <2>2
    <3>2. ~cmd.was.known /\ row.op \in Makers => Promised(row.undo, row.was, objs, cron, past.missed \cup lost)
      BY PromiseKept DEF PromiseInv, RowOK
    <3> QED BY <1>1, <3>1, <3>2 DEF PromiseInv, RowOK
  <2> QED BY <2>1, <2>2
<1>8. UndoneOK'
  BY <1>1, <1>2 DEF PromiseInv, UndoneOK
<1> QED BY <1>3, <1>4, <1>5, <1>6, <1>7, <1>8 DEF PromiseInv

\* A command at work is at a step.
LEMMA WorkingAt ==
  ASSUME TypeOK, Working
  PROVE  cmd.at \in StepNames /\ cmd \in Cmds /\ cmd.op \in Ops /\ cmd.undo \in Undos
<1>1. cmd.at \in StepNames
  BY DEF Working, TypeOK, CmdOK, Cmds
<1> QED BY <1>1, AtStep DEF TypeOK, Steps, Cmds

\* A fault that ends the command, its row left or written anew.
LEMMA SlipEnds ==
  ASSUME TypeOK, PromiseInv, cmd # NoCmd, NEW lost, Slip(lost), cmd' = NoCmd,
         objs' = objs, cron' = cron,
         row'.op # None => row'.was.known,
         row'.op \in Makers =>
           /\ row'.prev = row'.was.interval
           /\ row'.op = "measure-start" => plan'.interval = row'.was.interval
           /\ Promised(row'.undo, row'.was, objs, cron, past.missed \cup lost)
  PROVE  PromiseInv'
<1>1. past'.missed = past.missed \cup lost /\ past'.undone = past.undone /\ ~past.undone.known
  BY SlipMissed DEF PromiseInv, UndoneOK
<1>2. Timed(objs', cron', past'.missed)
  BY <1>1, TimedMissed DEF PromiseInv
<1> QED BY <1>1, <1>2, EndPromise

LEMMA FaultPromise ==
  ASSUME TypeOK, ReachOK, PromiseInv, Cancel \/ Suspend \/ Fail \/ Kill \/ Silent
  PROVE  PromiseInv'
<1> USE DEF At
<1>0. None \notin Makers /\ cmd \in Cmds /\ \A op \in Ops : op # None
  BY DEF None, Makers, TypeOK, CmdOK, Ops, Commands
<1>1. CASE Cancel
  <2>1. PICK lost \in {{}, cmd.last} :
          /\ Slip(lost)
          /\ CASE cmd.op = "measure-stop" -> CloseRun /\ cmd' = [cmd EXCEPT !.at = "errors"]
               [] cmd.op = "unprotect" -> row' = row /\ cmd' = NoCmd
               [] OTHER -> /\ row' = row
                           /\ cmd' = [cmd EXCEPT !.at = "undo", !.cancelled = ~At("begin"),
                                                 !.undo = Without(lost), !.last = {}]
    BY <1>1 DEF Cancel
  <2>2. cmd.at \in StepNames /\ cmd.op \in Ops /\ plan' = plan /\ objs' = objs /\ cron' = cron
    BY <1>1, WorkingAt DEF Cancel, clusters
  <2>3. cmd.at # "begin" => cmd.was.known /\ row.op \in {None, cmd.op}
    BY <2>2, PastBegin DEF Begun, PromiseInv, RowOK
  <2>4. cmd.at = "begin" => ~cmd.was.known
    BY DEF PromiseInv, FreshOK
  <2>5. ~cmd.cancelled /\ cmd # NoCmd
    <3>1. cmd.at \notin Handlers
      BY <2>2 DEF StepNames, Handlers
    <3> QED BY <3>1, NoCmdType DEF PromiseInv, CancelledOK, Handlers
  <2>6. CASE cmd.op = "measure-stop"
    <3>1. CloseRun /\ cmd' = [cmd EXCEPT !.at = "errors"]
      BY <2>1, <2>6
    <3>2. Alike(cmd, cmd') /\ cmd'.at = "errors"
      BY <1>0, <3>1 DEF Cmds, Alike
    <3>3. row' = row \/ row'.op = None
      BY <3>1 DEF CloseRun, NoRow
    <3>4. cmd.op \notin Makers /\ "errors" \notin Begun \cup {"begin", "undo", "back"}
      BY <2>6 DEF Makers, Begun, StepNames
    <3>5. ~cmd'.cancelled /\ (cmd'.pending => cmd.op = "unprotect")
      BY <2>5, <3>2 DEF Alike, PromiseInv, FreshOK
    <3>6. row'.op \notin Makers \/ ~cmd.was.known
      BY <1>0, <2>3, <2>4, <3>3, <3>4
    <3> QED BY <2>1, <2>2, <3>2, <3>3, <3>4, <3>5, <3>6, SlipPromise DEF Alike
  <2>7. CASE cmd.op = "unprotect"
    <3>1. row' = row /\ cmd' = NoCmd
      BY <2>1, <2>7
    <3>2. row.op \in Makers => cmd.at = "begin"
      BY <2>3, <2>7 DEF Makers, None
    <3>3. row.op \in Makers => Promised(row.undo, row.was, objs, cron, past.missed \cup lost)
      BY <2>4, <3>2, PromiseKept DEF PromiseInv, RowOK
    <3> QED BY <2>1, <2>2, <2>5, <3>1, <3>3, SlipEnds DEF PromiseInv, RowOK
  <2>8. CASE cmd.op \in Makers
    <3> DEFINE b == ~At("begin")
    <3>1. row' = row /\ cmd' = [cmd EXCEPT !.at = "undo", !.cancelled = b, !.undo = Without(lost), !.last = {}]
      BY <2>1, <2>8 DEF Makers
    <3>2. b <=> cmd.at # "begin"
      OBVIOUS
    <3> HIDE DEF b
    <3>3. /\ cmd'.op = cmd.op /\ cmd'.was = cmd.was /\ cmd'.prev = cmd.prev /\ cmd'.chosen = cmd.chosen
          /\ cmd'.resumed = cmd.resumed /\ cmd'.pending = cmd.pending /\ cmd'.at = "undo" /\ cmd'.cancelled = b
          /\ cmd'.undo = Without(lost)
      BY <1>0, <3>1 DEF Cmds
    <3>4. "undo" \notin Begun \cup {"begin", "back", "errors", "error"}
      BY DEF Begun, StepNames
    <3>5. cmd'.pending => cmd.op = "unprotect"
      BY <3>3 DEF PromiseInv, FreshOK
    <3>6. cmd'.at = "undo" /\ cmd.was.known => cmd'.cancelled
      BY <2>4, <3>2, <3>3
    <3> QED BY <2>1, <2>2, <2>3, <2>8, <3>1, <3>2, <3>3, <3>4, <3>5, <3>6, SlipPromise
  <2> QED BY <2>2, <2>6, <2>7, <2>8 DEF Ops, Commands, Makers
<1>2. CASE Suspend
  <2>1. PICK lost \in {{}, cmd.last} :
          /\ Slip(lost)
          /\ row' = IF cmd.op \notin Suspendable THEN row
                    ELSE [op |-> cmd.op, undo |-> Without(lost), prev |-> cmd.prev, chosen |-> cmd.chosen,
                          was |-> cmd.was]
    BY <1>2 DEF Suspend
  <2>2. cmd.at \in Begun /\ cmd' = NoCmd /\ plan' = plan /\ objs' = objs /\ cron' = cron
    BY <1>2, WorkingAt DEF Suspend, clusters, Begun
  <2>3. /\ cmd.was.known /\ cmd # NoCmd /\ row.op \in {None, cmd.op} /\ cmd.undo \in Undos
        /\ cmd.op \in Makers => Promised(cmd.undo, cmd.was, objs, cron, past.missed)
    BY <2>2, PastBegin DEF PromiseInv, RowOK, MakerOK
  <2>4. CASE cmd.op \notin Suspendable
    <3>1. row' = row /\ row.op = None
      BY <2>1, <2>3, <2>4 DEF TypeOK, RegistryOK, Rows
    <3> QED BY <1>0, <2>1, <2>2, <2>3, <3>1, SlipEnds
  <2>5. CASE cmd.op \in Suspendable
    <3>1. row'.op = cmd.op /\ row'.undo = Without(lost) /\ row'.prev = cmd.prev /\ row'.was = cmd.was
      BY <2>1, <2>5
    <3>2. cmd.op \in Makers => Promised(Without(lost), cmd.was, objs, cron, past.missed \cup lost)
      BY <2>3, PromiseWithout
    <3>3. cmd.op \in Makers => cmd.prev = cmd.was.interval
                             /\ (cmd.op = "measure-start" => plan.interval = cmd.was.interval)
      BY <2>3 DEF PromiseInv, MakerOK
    <3> QED BY <2>1, <2>2, <2>3, <3>1, <3>2, <3>3, SlipEnds
  <2> QED BY <2>4, <2>5
<1>3. CASE Fail
  <2>1. PICK lost \in {{}, cmd.last} :
          Slip(lost) /\ cmd' = [cmd EXCEPT !.at = "failed", !.undo = Without(lost), !.last = {}]
    BY <1>3 DEF Fail
  <2>2. cmd.at \in Begun /\ cmd.at \in StepNames /\ plan' = plan /\ row' = row /\ objs' = objs /\ cron' = cron
    BY <1>3 DEF Fail, registry, clusters, Begun, StepNames
  <2>3. Alike(cmd, cmd') /\ cmd'.at = "failed" /\ cmd'.undo = Without(lost)
    BY <1>0, <2>1 DEF Cmds, Alike
  <2>4. "failed" \notin Begun \cup {"begin", "undo", "back", "errors", "error"}
    BY DEF Begun, StepNames
  <2>5. ~cmd'.cancelled /\ (cmd'.pending => cmd.op = "unprotect")
    BY <2>2, <2>3, PastBegin DEF Alike, PromiseInv, FreshOK
  <2> QED BY <2>1, <2>2, <2>3, <2>4, <2>5, SlipPromise DEF Alike
<1>4. CASE Kill
  <2> DEFINE lost == IF ~cmd.resumed THEN {}
                     ELSE (Listed(cmd.undo) \ Listed(row.undo)) \cup cmd.last
                          \cup {<<"cron", v>> : v \in {u \in VMs : cmd.undo.cron[u] # row.undo.cron[u]}}
  <2>1. Slip(lost) /\ cmd # NoCmd /\ cmd' = NoCmd /\ plan' = plan /\ row' = row /\ objs' = objs /\ cron' = cron
    BY <1>4 DEF Kill, registry, clusters
  <2>2. ASSUME row.op \in Makers PROVE Promised(row.undo, row.was, objs, cron, past.missed \cup lost)
    <3>1. CASE ~cmd.was.known
      <4> HIDE DEF lost
      <4> QED BY <2>2, <3>1, PromiseKept DEF PromiseInv, RowOK
    <3>2. CASE cmd.was.known
      <4>1. /\ cmd.resumed /\ cmd.was = row.was /\ row.op = cmd.op
            /\ \A o \in Listed(row.undo) \ past.missed : o \notin row.was.objs
        BY <1>0, <2>2, <3>2 DEF PromiseInv, RowOK
      <4>2. Promised(cmd.undo, row.was, objs, cron, past.missed)
        BY <2>2, <4>1 DEF PromiseInv, MakerOK
      <4>3. /\ Listed(cmd.undo) \ Listed(row.undo) \subseteq past.missed \cup lost
            /\ \A v \in VMs : cmd.undo.cron[v] # row.undo.cron[v] => <<"cron", v>> \in past.missed \cup lost
        BY <4>1
      <4>4. cmd.undo \in Undos /\ row.undo \in Undos
        BY <1>0 DEF Cmds, TypeOK, RegistryOK, Rows
      <4> HIDE DEF lost
      <4> QED BY <3>2, <4>1, <4>2, <4>3, <4>4, PromiseOfRow
    <3> QED BY <3>1, <3>2
  <2> HIDE DEF lost
  <2> QED BY <2>1, <2>2, SlipEnds DEF PromiseInv, RowOK
<1>5. CASE Silent
  <2>1. cmd.at \in {"ask-target", "ask-source"} /\ cmd.at \in Begun /\ cmd.at \in StepNames
    BY <1>5 DEF Silent, Begun, StepNames
  <2>2. Steps(cmd) /\ cmd.op = "unprotect" /\ ~cmd.cancelled /\ cmd.was.known
    BY <2>1, PastBegin, TargetAsked
  <2>3. Slip({}) /\ plan' = plan /\ row' = row /\ objs' = objs /\ cron' = cron
    BY <1>5 DEF Silent, registry, clusters
  <2> DEFINE o == Order("unprotect")
             one == Step(cmd)  two == Step(one)  three == Step(two)
  <2>4. o[4] = "ask-target" /\ o[5] = "target" /\ o[6] = "ask-source" /\ o[7] = "unlabel" /\ o[8] = "unsnap"
        /\ o[9] = "rows"
    BY DEF Order
  <2>5. Steps(one) /\ one.op = "unprotect" /\ Alike(cmd, one) /\ one.at # "done"
    <3>1. CASE cmd.at = "ask-target"
      BY <2>2, <2>4, <3>1, AskedNext, StepAlike
    <3>2. CASE cmd.at = "ask-source"
      BY <2>2, <2>4, <3>2, AskedNext, StepAlike
    <3> QED BY <2>1, <3>1, <3>2
  <2>6. Steps(two) /\ two.op = "unprotect" /\ Alike(one, two) /\ two.at \in Begun /\ two.at # "done"
    <3> HIDE DEF one
    <3>1. CASE one.at = "target"
      BY <2>4, <2>5, <3>1, AskedNext, StepAlike
    <3>2. CASE one.at = "unlabel"
      BY <2>4, <2>5, <3>2, AskedNext, StepAlike
    <3>3. one.at \in {"target", "unlabel"}
      BY <2>1, <2>2, <2>4, AskedNext DEF one
    <3> QED BY <3>1, <3>2, <3>3
  <2>7. Steps(three) /\ Alike(two, three) /\ three.at \in Begun
    <3> HIDE DEF two
    <3> QED BY <2>6, StepAlike, StepType
  <2>8. PICK c \in {two, three} : cmd' = [c EXCEPT !.pending = TRUE]
    BY <1>5 DEF Silent
  <2>9. Alike(cmd, c) /\ Steps(c) /\ c.at \in Begun
    <3> HIDE DEF one, two, three
    <3> QED BY <2>5, <2>6, <2>7 DEF Alike
  <2>10. /\ cmd'.op = cmd.op /\ cmd'.was = cmd.was /\ cmd'.prev = cmd.prev /\ cmd'.chosen = cmd.chosen
         /\ cmd'.resumed = cmd.resumed /\ cmd'.cancelled = cmd.cancelled /\ cmd'.at = c.at
    BY <2>8, <2>9 DEF Alike, Steps, Cmds
  <2>11. cmd'.at \notin {"undo", "back", "errors", "error"} /\ cmd.op \notin Makers
    BY <2>2, <2>9, <2>10 DEF Begun, StepNames, Makers
  <2> QED BY <2>1, <2>2, <2>3, <2>9, <2>10, <2>11, SlipPromise
<1> QED BY <1>1, <1>2, <1>3, <1>4, <1>5

\* What a handler leaves as it was.
LEMMA HandledPromise ==
  ASSUME TypeOK, PromiseInv, cmd.at \in Handlers \ {"idle"}, cmd'.at \in Handlers \ {"idle"},
         Alike(cmd, cmd'), cmd'.at \in {"undo", "back"} => cmd.op \in Makers, cmd'.at = "undo" => cmd.at = "undo",
         past'.undone = past.undone, Timed(objs, cron, past.missed)', CancelledOK', RowOK',
         cmd.op \in Makers => Promised(cmd'.undo, cmd.was, objs', cron', past'.missed),
         cmd.op = "measure-start" => plan'.interval = plan.interval
  PROVE  PromiseInv'
<1>1. cmd'.at \notin Begun \cup {"begin"} /\ cmd # NoCmd
  BY NoCmdType DEF Handlers, Begun, StepNames
<1>2. MakerOK'
  BY <1>1 DEF PromiseInv, MakerOK, Alike
<1>3. FreshOK'
  BY <1>1 DEF PromiseInv, FreshOK, Alike
<1>4. UndoneOK'
  BY <1>1 DEF PromiseInv, UndoneOK
<1> QED BY <1>2, <1>3, <1>4 DEF PromiseInv

LEMMA HandlerPromise ==
  ASSUME TypeOK, PromiseInv,
         Undo \/ UndoFails \/ UndoNotes \/ UndoEnd \/ GiveBack \/ Failed \/ Errors \/ SetError
  PROVE  PromiseInv'
<1> USE DEF At
<1>0. /\ cmd \in Cmds /\ cmd.op \in Ops /\ cmd.undo \in Undos /\ cmd.at \in Handlers \ {"idle"}
      /\ None \notin Makers /\ cmd # NoCmd /\ ~past.undone.known /\ cron \in [VMs -> Times]
  <2>1. cmd.at \in Handlers \ {"idle"} /\ cmd # NoCmd
    BY NoCmdType DEF Undo, UndoFails, UndoNotes, UndoEnd, GiveBack, Failed, Errors, SetError, Handlers
  <2> QED BY <2>1, HandlerAt DEF None, Makers, PromiseInv, UndoneOK, TypeOK, ClustersOK
<1>1. ASSUME NEW at \in Handlers, cmd' = [cmd EXCEPT !.at = at]
      PROVE  Alike(cmd, cmd') /\ cmd'.undo = cmd.undo /\ cmd'.at = at
  BY <1>0, <1>1 DEF Cmds, Alike
<1>2. ASSUME NEW u, cmd' = [cmd EXCEPT !.undo = u] PROVE Alike(cmd, cmd') /\ cmd'.undo = u /\ cmd'.at = cmd.at
  BY <1>0, <1>2 DEF Cmds, Alike
\* At undo, with something left in the lists.
<1>3. ASSUME cmd.at = "undo", cmd.undo # NoUndo
      PROVE  cmd.op \in Makers /\ cmd.was.known /\ Promised(cmd.undo, cmd.was, objs, cron, past.missed)
  BY <1>3 DEF PromiseInv, FreshOK, MakerOK, Promised
<1>4. ASSUME cmd.at = "undo", cmd.was.known, Alike(cmd, cmd'), cmd'.at = "undo", plan' = plan, row' = row,
             past.missed \subseteq past'.missed
      PROVE  CancelledOK' /\ RowOK'
  BY <1>4 DEF PromiseInv, CancelledOK, RowOK, Alike
<1>5. CASE Undo
  <2>1. /\ cmd.at = "undo" /\ cmd' = [cmd EXCEPT !.undo = Without(ToUndo)] /\ objs' = objs \ ToUndo
        /\ plan' = plan /\ row' = row /\ past' = past /\ ToUndo # {}
    BY <1>5 DEF Undo, registry
  <2>2. cmd.op \in Makers /\ cmd.was.known /\ Promised(cmd.undo, cmd.was, objs, cron, past.missed)
    BY <1>0, <1>3, <2>1, ToUndoListed
  <2>3. cron' = UndoneCron(cron)
    BY <1>0, <1>5, UndoCron
  <2>4. Promised(Without(ToUndo), cmd.was, objs', cron', past.missed) /\ Timed(objs', cron', past.missed)
    BY <1>0, <2>1, <2>2, <2>3, PromiseUndo DEF PromiseInv
  <2>5. Alike(cmd, cmd') /\ cmd'.undo = Without(ToUndo) /\ cmd'.at = "undo"
    BY <1>2, <2>1
  <2>6. CancelledOK' /\ RowOK'
    BY <1>4, <2>1, <2>2, <2>5
  <2> QED BY <1>0, <2>1, <2>2, <2>4, <2>5, <2>6, HandledPromise
<1>6. CASE UndoFails
  <2>1. /\ cmd.at = "undo" /\ cmd' = [cmd EXCEPT !.undo = Without(ToUndo)] /\ objs' = objs /\ cron' = cron
        /\ plan' = plan /\ row' = row /\ Slip(ToUndo) /\ ToUndo # {}
    BY <1>6 DEF UndoFails, registry, clusters
  <2>2. cmd.op \in Makers /\ cmd.was.known /\ Promised(cmd.undo, cmd.was, objs, cron, past.missed)
    BY <1>0, <1>3, <2>1, ToUndoListed
  <2>3. past'.missed = past.missed \cup ToUndo /\ past'.undone = past.undone
    BY <2>1, SlipMissed
  <2>4. Promised(Without(ToUndo), cmd.was, objs', cron', past'.missed) /\ Timed(objs', cron', past'.missed)
    BY <1>0, <2>1, <2>2, <2>3, PromiseWithout, TimedMissed DEF PromiseInv
  <2>5. Alike(cmd, cmd') /\ cmd'.undo = Without(ToUndo) /\ cmd'.at = "undo"
    BY <1>2, <2>1
  <2>6. CancelledOK' /\ RowOK'
    BY <1>4, <2>1, <2>2, <2>3, <2>5
  <2> QED BY <1>0, <2>1, <2>2, <2>3, <2>4, <2>5, <2>6, HandledPromise
<1>7. CASE UndoNotes
  <2> DEFINE u == [cmd.undo EXCEPT !.noted = {}]
  <2>1. /\ cmd.at = "undo" /\ cmd' = [cmd EXCEPT !.undo = u] /\ objs' = objs /\ cron' = cron
        /\ plan' = plan /\ row' = row /\ past' = past /\ cmd.undo.noted # {}
    BY <1>7 DEF UndoNotes, clusters
  <2>2. cmd.op \in Makers /\ cmd.was.known /\ Promised(cmd.undo, cmd.was, objs, cron, past.missed)
    BY <1>3, <2>1, NothingListed
  <2>3. Promised(u, cmd.was, objs, cron, past.missed)
    BY <1>0, <2>2, PromiseNotes
  <2> HIDE DEF u
  <2>4. Alike(cmd, cmd') /\ cmd'.undo = u /\ cmd'.at = "undo"
    BY <1>2, <2>1
  <2>5. CancelledOK' /\ RowOK'
    BY <1>4, <2>1, <2>2, <2>4
  <2> QED BY <1>0, <2>1, <2>2, <2>3, <2>4, <2>5, HandledPromise DEF PromiseInv
<1>8. CASE UndoEnd
  <2>1. /\ cmd.at = "undo" /\ cmd' = [cmd EXCEPT !.at = "back"] /\ objs' = objs /\ cron' = cron
        /\ plan' = plan /\ row' = (IF cmd.resumed THEN NoRow ELSE row) /\ past' = past /\ cmd.undo = NoUndo
    BY <1>8 DEF UndoEnd, CloseRun, clusters
  <2>2. Alike(cmd, cmd') /\ cmd'.undo = cmd.undo /\ cmd'.at = "back"
    BY <1>1, <2>1 DEF Handlers
  <2>3. cmd.op \in Makers
    BY <2>1 DEF PromiseInv, FreshOK
  <2>4. CancelledOK'
    BY <2>1, <2>2 DEF PromiseInv, CancelledOK, Alike
  <2>5. RowOK'
    <3>1. CASE row'.op = None
      BY <1>0, <3>1 DEF RowOK
    <3>2. CASE row'.op # None
      <4>1. row' = row /\ ~cmd.resumed
        BY <2>1, <3>2 DEF NoRow
      <4> QED BY <2>1, <2>2, <4>1 DEF PromiseInv, RowOK, Alike
    <3> QED BY <3>1, <3>2
  <2> QED BY <1>0, <2>1, <2>2, <2>3, <2>4, <2>5, HandledPromise DEF PromiseInv, MakerOK, Handlers
<1>9. CASE GiveBack
  <2>1. /\ cmd.at = "back" /\ cmd' = [cmd EXCEPT !.at = "errors"] /\ objs' = objs /\ cron' = cron
        /\ plan' = (IF cmd.op = "protect" /\ cmd.prev # None THEN [plan EXCEPT !.interval = cmd.prev] ELSE plan)
        /\ row' = row /\ past' = past
    BY <1>9 DEF GiveBack, clusters
  <2>2. Alike(cmd, cmd') /\ cmd'.undo = cmd.undo /\ cmd'.at = "errors"
    BY <1>1, <2>1 DEF Handlers
  <2>3. cmd.op \in Makers /\ cmd.prev = cmd.was.interval
    BY <2>1 DEF PromiseInv, FreshOK, MakerOK
  <2>4. plan'.interval = IF cmd.op = "protect" /\ cmd.prev # None THEN cmd.prev ELSE plan.interval
    BY <2>1 DEF TypeOK, RegistryOK, Plans
  <2>5. ~cmd.was.known => cmd.prev = None
    BY <2>3 DEF PromiseInv, FreshOK, Unknown
  <2>6. CancelledOK'
    <3> SUFFICES ASSUME cmd.cancelled PROVE CancelledOK'
      BY <2>2 DEF CancelledOK, Alike
    <3>1. cmd.undo = NoUndo /\ cmd.was.known
      BY <2>1 DEF PromiseInv, CancelledOK, FreshOK
    <3>2. cmd.was.interval # None => plan'.interval = cmd.was.interval
      BY <2>3, <2>4, <3>1 DEF PromiseInv, MakerOK, Makers
    <3> QED BY <2>2, <2>3, <3>1, <3>2 DEF CancelledOK, Alike
  <2>7. RowOK'
    <3>1. row.op = "measure-start" => plan'.interval = plan.interval
      BY <1>0, <2>4, <2>5 DEF PromiseInv, RowOK, None
    <3> QED BY <2>1, <2>2, <3>1 DEF PromiseInv, RowOK, Alike
  <2> QED BY <1>0, <2>1, <2>2, <2>3, <2>4, <2>6, <2>7, HandledPromise DEF PromiseInv, MakerOK, Handlers
<1>10. CASE Failed
  <2>1. /\ cmd.at = "failed" /\ cmd' = [cmd EXCEPT !.at = "errors"] /\ objs' = objs /\ cron' = cron
        /\ plan' = plan /\ past' = past
        /\ row' = (IF cmd.resumed THEN IF cmd.op = "measure-stop" THEN NoRow ELSE [row EXCEPT !.undo = cmd.undo]
                   ELSE row)
    BY <1>10 DEF Failed, CloseRun, clusters
  <2>2. Alike(cmd, cmd') /\ cmd'.undo = cmd.undo /\ cmd'.at = "errors"
    BY <1>1, <2>1 DEF Handlers
  <2>3. ~cmd.cancelled
    BY <2>1 DEF PromiseInv, CancelledOK
  <2>4. CancelledOK'
    BY <2>2, <2>3 DEF CancelledOK, Alike
  <2>5. RowOK'
    <3>1. CASE row'.op = None
      BY <1>0, <3>1 DEF RowOK
    <3>2. CASE row'.op # None /\ cmd.resumed
      <4>1. row' = [row EXCEPT !.undo = cmd.undo] /\ row \in Rows
        BY <2>1, <3>2 DEF NoRow, TypeOK, RegistryOK
      <4>2. row'.op = row.op /\ row'.undo = cmd.undo /\ row'.was = row.was /\ row'.prev = row.prev
        BY <4>1 DEF Rows
      <4>3. cmd.was.known
        BY <3>2 DEF PromiseInv, FreshOK
      <4>4. row.op \in Makers => \A o \in Listed(cmd.undo) \ past.missed : o \notin row.was.objs
        <5> SUFFICES ASSUME row.op \in Makers PROVE \A o \in Listed(cmd.undo) \ past.missed : o \notin row.was.objs
          OBVIOUS
        <5>1. cmd.op = row.op /\ cmd.was = row.was
          BY <1>0, <4>3 DEF PromiseInv, RowOK
        <5>2. Promised(cmd.undo, row.was, objs, cron, past.missed)
          BY <5>1 DEF PromiseInv, MakerOK
        <5> QED BY <1>0, <4>3, <5>1, <5>2, ListedKinds DEF Promised
      <4> QED BY <2>1, <2>2, <4>2, <4>3, <4>4 DEF PromiseInv, RowOK, Alike
    <3>3. CASE row'.op # None /\ ~cmd.resumed
      <4>1. row' = row
        BY <2>1, <3>3
      <4> QED BY <2>1, <2>2, <3>3, <4>1 DEF PromiseInv, RowOK, Alike
    <3> QED BY <3>1, <3>2, <3>3
  <2>6. "errors" \in Handlers \ {"idle", "undo", "back"}
    BY DEF Handlers
  <2> QED BY <1>0, <2>1, <2>2, <2>4, <2>5, <2>6, HandledPromise DEF PromiseInv, MakerOK
<1>11. CASE Errors
  <2>1. /\ cmd.at = "errors" /\ cmd' = [cmd EXCEPT !.at = "error"] /\ objs' = objs /\ cron' = cron
        /\ plan' = plan /\ row' = row /\ past' = past
    BY <1>11 DEF Errors, clusters
  <2>2. Alike(cmd, cmd') /\ cmd'.undo = cmd.undo /\ cmd'.at = "error"
    BY <1>1, <2>1 DEF Handlers
  <2>3. CancelledOK' /\ RowOK'
    BY <2>1, <2>2 DEF PromiseInv, CancelledOK, RowOK, Alike
  <2>4. "error" \in Handlers \ {"idle", "undo", "back"}
    BY DEF Handlers
  <2> QED BY <1>0, <2>1, <2>2, <2>3, <2>4, HandledPromise DEF PromiseInv, MakerOK
<1>12. CASE SetError
  <2>1. /\ cmd.at = "error" /\ cmd' = NoCmd /\ objs' = objs /\ cron' = cron /\ row' = row
        /\ plan' = (IF plan.state = "error" THEN plan ELSE [plan EXCEPT !.state = "error", !.origin = plan.state])
        /\ past' = [past EXCEPT !.undone = IF cmd.cancelled THEN cmd.was ELSE Unknown]
    BY <1>12 DEF SetError, clusters
  <2>2. plan'.interval = plan.interval
    BY <2>1 DEF TypeOK, RegistryOK, Plans
  <2>3. past'.missed = past.missed /\ past'.undone = IF cmd.cancelled THEN cmd.was ELSE Unknown
    BY <2>1 DEF TypeOK, PastOK
  <2>4. row.op \in Makers => Promised(row.undo, row.was, objs, cron, past.missed)
    <3>1. CASE ~cmd.was.known
      BY <3>1 DEF PromiseInv, RowOK
    <3>2. CASE cmd.was.known
      BY <1>0, <2>1, <3>2 DEF PromiseInv, RowOK, MakerOK
    <3> QED BY <3>1, <3>2
  <2>5. CASE ~cmd.cancelled
    <3>1. ~past'.undone.known
      BY <2>3, <2>5 DEF Unknown
    <3> QED BY <1>0, <2>1, <2>2, <2>3, <2>4, <3>1, EndPromise DEF PromiseInv, RowOK
  <2>6. CASE cmd.cancelled
    <3>1. /\ cmd.op \in Makers /\ cmd.undo = NoUndo /\ cmd.was.known
          /\ cmd.was.interval # None => plan.interval = cmd.was.interval
      BY <2>1, <2>6 DEF PromiseInv, CancelledOK, FreshOK
    <3>2. Promised(NoUndo, cmd.was, objs, cron, past.missed)
      BY <3>1 DEF PromiseInv, MakerOK
    <3>3. \A o \in Of(Kinds) \ past.missed : o \in objs <=> o \in cmd.was.objs
      BY <3>1, <3>2, NothingListed DEF Promised
    <3>4. \A v \in VMs : Intact(v, past.missed) => cron[v] = cmd.was.cron[v]
      BY <3>1, <3>2, NothingListed DEF Promised, Restored
    <3>5. CancelUndoesAll'
      BY <2>1, <2>2, <2>3, <2>6, <3>1, <3>3, <3>4 DEF CancelUndoesAll, Intact
    <3>6. PromiseInv'
      <4>1. NoCmd.op = None /\ NoCmd.at = "idle" /\ ~NoCmd.cancelled /\ ~NoCmd.resumed /\ ~NoCmd.pending
            /\ NoCmd.was = Unknown /\ ~Unknown.known /\ "idle" \notin Begun
        BY DEF NoCmd, Unknown, Begun, StepNames
      <4>2. MakerOK' /\ FreshOK' /\ CancelledOK'
        BY <1>0, <2>1, <4>1 DEF MakerOK, FreshOK, CancelledOK
      <4>3. RowOK'
        BY <2>1, <2>2, <2>3, <2>4, <4>1 DEF PromiseInv, RowOK
      <4> QED BY <2>1, <2>3, <3>5, <4>2, <4>3 DEF PromiseInv, UndoneOK
    <3> QED BY <3>6
  <2> QED BY <2>5, <2>6
<1> QED BY <1>5, <1>6, <1>7, <1>8, <1>9, <1>10, <1>11, <1>12

LEMMA PromiseNext == TypeOK /\ ReachOK /\ PromiseInv /\ [Next]_vars => PromiseInv'
<1> SUFFICES ASSUME TypeOK, ReachOK, PromiseInv, [Next]_vars PROVE PromiseInv'
  OBVIOUS
<1>1. ASSUME NEW op \in Ops, Start(op) PROVE PromiseInv'
  BY <1>1, RunPromise DEF Start
<1>2. CASE Resume
  <2>1. Resumed \in Ops
    BY DEF Resumed, Ops, Commands
  <2> QED BY <1>2, <2>1, RunPromise DEF Resume
<1>3. CASE Begin
  BY <1>3, BeginPromise
<1>4. CASE SetInterval \/ SetState \/ SetDone \/ StayPending \/ End \/ Untouched \/ Pass \/ Resync
  BY <1>4, RegistryPromise
<1>5. ASSUME NEW v \in VMs, OnVM(v) PROVE PromiseInv'
  BY <1>5, RegistryPromise, MakerPromise, LeavePromise DEF OnVM
<1>6. ASSUME NEW o \in Of(Kinds), Delete(o) PROVE PromiseInv'
  BY <1>6, DeletePromise
<1>7. CASE Undo \/ UndoFails \/ UndoNotes \/ UndoEnd \/ GiveBack \/ Failed \/ Errors \/ SetError
  BY <1>7, HandlerPromise
<1>8. CASE Cancel \/ Suspend \/ Fail \/ Kill \/ Silent
  BY <1>8, FaultPromise
<1>9. CASE UNCHANGED vars
  BY <1>9 DEF vars, PromiseInv, Timed, MakerOK, FreshOK, CancelledOK, RowOK, UndoneOK, CancelUndoesAll
<1> QED BY <1>1, <1>2, <1>3, <1>4, <1>5, <1>6, <1>7, <1>8, <1>9 DEF Next, Ops

\* A cancelled protect or measure-start leaves both clusters and the interval of the
\* plan as they were before it, whatever was suspended, failed or killed of the
\* executions it resumed, but for what it reported and what a signal or a kill kept out
\* of its lists (replication_run.py, _undo_created and _load_undo).
THEOREM CancelUndone == Spec => []CancelUndoesAll
<1>1. Init => TypeOK /\ ReachOK /\ PromiseInv
  BY TypeInit, ReachInit, InitPromise
<1>2. TypeOK /\ ReachOK /\ PromiseInv /\ [Next]_vars => (TypeOK /\ ReachOK /\ PromiseInv)'
  BY TypeNext, ReachNext, PromiseNext
<1>3. PromiseInv => CancelUndoesAll
  BY DEF PromiseInv, UndoneOK, CancelUndoesAll
<1> QED BY <1>1, <1>2, <1>3, PTL DEF Spec

--------------------------------------------------------------------------------
(* What the registry says is what the clusters have. *)

\* What a loop of protect has for a VM it is done with, and the steps after the loop;
\* measure-start has the rows alone for sure, since its plan is never protected.
Jobbed(v) ==
  {"job", "label"} \X {v} \subseteq objs /\ (v \in Covered \cup Explicit => <<"default", v>> \in objs)
Has(step, v) ==
  CASE step = "row" -> v \in Known
    [] step = "job" -> Jobbed(v)
    [] OTHER -> <<step, v>> \in objs
Loops == {"row", "job", "standby", "carnet"}
Later(step) ==
  CASE step = "row" -> {"job", "snapshot", "backup", "resync", "standby", "carnet", "rows", "done", "end"}
    [] step = "job" -> {"snapshot", "backup", "resync", "standby", "carnet", "rows", "done", "end"}
    [] step = "standby" -> {"carnet", "rows", "done", "end"}
    [] OTHER -> {"rows", "done", "end"}
Ensured(op) == IF op = "protect" THEN Loops ELSE {"row"}

\* The VMs for which a loop is over.
Treated(step) ==
  IF cmd.at = step THEN cmd.works \ cmd.todo ELSE IF cmd.at \in Later(step) THEN cmd.works ELSE {}
MakingOK ==
  cmd.op \in Makers /\ cmd.at \in StepNames =>
    /\ cmd.works = selected
    /\ cmd.at \in {"row", "job"} \cup Made => cmd.todo \subseteq cmd.works
    /\ \A step \in Ensured(cmd.op) : \A v \in Treated(step) : Has(step, v)
    /\ cmd.at \in TargetKinds => touched

\* The same for unprotect, unless a cluster did not answer it.
Cleared(v) == {<<"label", v>>, <<"job", v>>} \cap objs = {} /\ v \notin noted
ClearedVMs ==
  IF cmd.at = "unlabel" THEN Known \ cmd.todo ELSE IF cmd.at \in {"unsnap", "rows", "done"} THEN Known ELSE {}
UnmakingOK ==
  /\ cmd.op = "unprotect" /\ ~cmd.pending =>
       /\ cmd.at \in {"ask-source", "unlabel", "unsnap", "rows", "done"} => objs \cap Of(TargetKinds) = {}
       /\ \A v \in ClearedVMs : Cleared(v)
       /\ cmd.at \in {"rows", "done"} => objs \cap Of({"snapshot"}) = {}
  /\ cmd.at = "done" => ~cmd.pending

\* Labels are put together, noted before, and listed as labels.
ListsOK(u, was, missed) ==
  /\ ToSet(u.made) \cap Of(LabelKinds) = {}
  /\ \A l \in ToSet(u.labels), v \in VMs : <<"default", v>> \in l => v \in Covered /\ <<"label", v>> \in l
  /\ \A v \in u.noted : <<"default", v>> \notin was.objs \/ <<"default", v>> \in missed
CmdListsOK == cmd.op \in Makers => ListsOK(cmd.undo, cmd.was, past.missed)
RowListsOK == row.op \in Makers => ListsOK(row.undo, row.was, past.missed)
LabelsOK(things, notes, missed) ==
  /\ {"default"} \X Explicit \subseteq things
  /\ notes \subseteq Covered
  /\ \A v \in Covered : <<"label", v>> \in things => <<"default", v>> \in things
  /\ \A v \in VMs \ Explicit : <<"default", v>> \in things => v \in notes \/ <<"default", v>> \in missed

\* Nothing is on the clusters for a VM without a row, nor on the target untold.
ThingsOK(things, known, told) ==
  /\ \A o \in things : o \in {"default"} \X Explicit \/ o[2] \in known
  /\ things \cap Of(TargetKinds) # {} => told

Kept(v) == \A step \in {"job", "standby", "carnet"} : Has(step, v)
Leftovers == Of({"backup"}) \cup ({"default"} \X Explicit) \cup (past.missed \cap Of({"default"}))
StatesOK ==
  /\ plan.state = "protected" /\ ~past.torn /\ ~cmd.cancelled => \A v \in selected : Kept(v)
  /\ plan.state = "unprotected" => objs \subseteq Leftovers

WorldInv ==
  /\ MakingOK /\ UnmakingOK /\ CmdListsOK /\ RowListsOK
  /\ LabelsOK(objs, noted, past.missed) /\ ThingsOK(objs, Known, touched) /\ StatesOK

--------------------------------------------------------------------------------
\* A step after a loop is one whose step before is in it or after it.
LEMMA LoopsBack ==
  ASSUME NEW c, Steps(c), c.op \in Makers, c.at # "end"
  PROVE  /\ \A s \in Ensured(c.op) : Step(c).at \in Later(s) => c.at = s \/ c.at \in Later(s)
         /\ Step(c).at \in TargetKinds => c.at \in {"resync", "standby"}
         /\ Step(c).todo = c.works /\ Step(c).works = c.works
<1> DEFINE n == CHOOSE i \in DOMAIN Order(c.op) : Order(c.op)[i] = c.at
<1>1. n \in DOMAIN Order(c.op) /\ Order(c.op)[n] = c.at /\ c.op \in Ops
  BY DEF Names, Range, Steps
<1>2. Step(c).at = Order(c.op)[n + 1]
  BY DEF Step, Steps, Cmds
<1>3. Step(c).at \in Names(c.op) /\ c.at \in Names(c.op)
  BY StepType DEF Steps, Makers
<1>4. Step(c).todo = c.works /\ Step(c).works = c.works
  BY DEF Step, Works, Steps, Cmds, Makers
<1> HIDE DEF n
<1>5. CASE c.op = "measure-start"
  BY <1>1, <1>2, <1>3, <1>4, <1>5 DEF Order, Ensured, Later, TargetKinds
<1>6. CASE c.op = "protect"
  BY <1>1, <1>2, <1>3, <1>4, <1>6 DEF Order, Ensured, Later, Loops, TargetKinds
<1> QED BY <1>5, <1>6 DEF Makers

\* The steps of unprotect, from the one before.
LEMMA UnmakingBack ==
  ASSUME NEW c, Steps(c), c.at # IF c.op = "unprotect" THEN "done" ELSE "end"
  PROVE  /\ c.op = "unprotect" =>
              /\ Step(c).at = "ask-source" => c.at = "target"
              /\ Step(c).at = "unlabel" => c.at = "ask-source"
              /\ Step(c).at = "unsnap" => c.at = "unlabel"
              /\ Step(c).at = "rows" => c.at = "unsnap"
              /\ Step(c).todo = Known
         /\ Step(c).at = "done" => c.at = "rows"
<1> DEFINE n == CHOOSE i \in DOMAIN Order(c.op) : Order(c.op)[i] = c.at
<1>1. n \in DOMAIN Order(c.op) /\ Order(c.op)[n] = c.at /\ c.op \in Ops
  BY DEF Names, Range, Steps
<1>2. Step(c).at = Order(c.op)[n + 1]
  BY DEF Step, Steps, Cmds
<1>3. Step(c).at \in Names(c.op) /\ c.at \in Names(c.op)
  BY StepType DEF Steps
<1>4. c.op = "unprotect" => Step(c).todo = Known
  BY DEF Step, Works, Steps, Cmds
<1> HIDE DEF n
<1>5. CASE c.op \in {"measure-start", "measure-stop"}
  BY <1>3, <1>5, StepType DEF Names, Range, Order
<1>6. CASE c.op = "protect"
  BY <1>1, <1>2, <1>3, <1>6 DEF Order
<1>7. CASE c.op = "unprotect"
  BY <1>1, <1>2, <1>3, <1>4, <1>7 DEF Order
<1> QED BY <1>1, <1>5, <1>6, <1>7 DEF Ops, Commands

\* What is there stays there when nothing is taken away.
LEMMA HasMore ==
  ASSUME objs \subseteq objs', Known \subseteq Known', NEW step, NEW v, Has(step, v)
  PROVE  Has(step, v)'
  BY DEF Has, Jobbed

\* One more step of a command that makes, or one more VM of a loop.
LEMMA OnwardMaking ==
  ASSUME NEW c, Steps(c), c.op = cmd.op, c.at = cmd.at, c.works = cmd.works, c.todo = cmd.todo,
         cmd.op \in Makers, cmd.at # "end", MakingOK,
         selected' = selected, objs \subseteq objs', Known \subseteq Known',
         touched \/ cmd.at = "resync" => touched',
         \/ cmd' = Step(c) /\ \A s \in Ensured(cmd.op) : cmd.at = s => \A v \in cmd.todo : Has(s, v)'
         \/ \E v \in VMs : cmd' = Done(c, v) /\ \A s \in Ensured(cmd.op) : cmd.at = s => Has(s, v)'
  PROVE  MakingOK'
<1>1. cmd.at \in StepNames /\ cmd.works = selected
  BY NamesAreSteps DEF Steps, MakingOK
<1>2. \A s \in Ensured(cmd.op) : \A v \in Treated(s) : Has(s, v)'
  BY <1>1, HasMore DEF MakingOK
<1>3. ASSUME cmd' = Step(c), \A s \in Ensured(cmd.op) : cmd.at = s => \A v \in cmd.todo : Has(s, v)'
      PROVE  MakingOK'
  <2>1. /\ \A s \in Ensured(cmd.op) : cmd'.at \in Later(s) => cmd.at = s \/ cmd.at \in Later(s)
        /\ cmd'.at \in TargetKinds => cmd.at \in {"resync", "standby"}
        /\ cmd'.todo = cmd.works /\ cmd'.works = cmd.works /\ cmd'.op = cmd.op
    BY <1>3, LoopsBack, StepType DEF Makers
  <2>2. ASSUME NEW s \in Ensured(cmd.op), NEW v \in Treated(s)' PROVE Has(s, v)'
    <3>1. v \in cmd.works /\ cmd'.at \in Later(s)
      BY <2>1 DEF Treated
    <3>2. CASE cmd.at = s
      <4>1. v \in cmd.todo \/ v \in Treated(s)
        BY <3>1, <3>2 DEF Treated
      <4> QED BY <1>2, <1>3, <3>2, <4>1
    <3>3. CASE cmd.at # s
      <4>1. v \in Treated(s)
        BY <2>1, <3>1, <3>3 DEF Treated
      <4> QED BY <1>2, <4>1
    <3> QED BY <3>2, <3>3
  <2>3. cmd'.at \in TargetKinds => touched'
    BY <1>1, <2>1 DEF MakingOK, TargetKinds
  <2> QED BY <1>1, <2>1, <2>2, <2>3 DEF MakingOK
<1>4. ASSUME NEW v \in VMs, cmd' = Done(c, v), cmd' # Step(c), \A s \in Ensured(cmd.op) : cmd.at = s => Has(s, v)'
      PROVE  MakingOK'
  <2>1. cmd' = [c EXCEPT !.todo = c.todo \ {v}, !.last = {}]
    BY <1>4 DEF Done
  <2>2. cmd'.op = cmd.op /\ cmd'.at = cmd.at /\ cmd'.works = cmd.works /\ cmd'.todo = cmd.todo \ {v}
    BY <2>1 DEF Steps, Cmds
  <2>3. ASSUME NEW s \in Ensured(cmd.op), NEW x \in Treated(s)' PROVE Has(s, x)'
    <3>1. x \in Treated(s) \/ (x = v /\ cmd.at = s)
      BY <2>2 DEF Treated
    <3> QED BY <1>2, <1>4, <3>1
  <2>4. cmd'.at \in {"row", "job"} \cup Made => cmd'.todo \subseteq cmd'.works
    BY <1>1, <2>2 DEF MakingOK
  <2> QED BY <1>1, <2>2, <2>3, <2>4 DEF MakingOK
<1>5. ASSUME NEW v \in VMs, cmd' = Done(c, v), cmd' = Step(c), \A s \in Ensured(cmd.op) : cmd.at = s => Has(s, v)'
      PROVE  MakingOK'
  <2>1. CASE c.todo \subseteq {v}
    BY <1>3, <1>5, <2>1
  <2>2. CASE ~(c.todo \subseteq {v})
    <3>1. Done(c, v).todo = cmd.todo \ {v}
      BY <2>2 DEF Done, Steps, Cmds
    <3>2. Step(c).todo = cmd.works
      BY LoopsBack
    <3>3. cmd.works = cmd.todo \ {v}
      BY <1>5, <3>1, <3>2
    <3>4. Done(c, v).at = c.at
      BY <2>2 DEF Done, Steps, Cmds
    <3>5. cmd'.op = cmd.op /\ cmd'.at = cmd.at /\ cmd'.works = cmd.works /\ cmd'.todo = cmd.works
      BY <1>5, <3>1, <3>3, <3>4, LoopsBack, StepType DEF Makers
    <3>6. \A s \in Ensured(cmd.op) : \A x \in Treated(s)' : x \in Treated(s)
      BY <3>5 DEF Treated
    <3> QED BY <1>1, <1>2, <3>5, <3>6 DEF MakingOK
  <2> QED BY <2>1, <2>2
<1> QED BY <1>3, <1>4, <1>5

\* The same of unprotect, and of the commands it does not matter to.
LEMMA OnwardUnmaking ==
  ASSUME NEW c, Steps(c), c.op = cmd.op, c.at = cmd.at, c.todo = cmd.todo, c.pending = cmd.pending,
         cmd.at # IF cmd.op = "unprotect" THEN "done" ELSE "end", UnmakingOK,
         cmd.op = "unprotect" => objs' = objs /\ noted' = noted /\ Known' = Known,
         cmd.at = "target" => objs \cap Of(TargetKinds) = {},
         cmd.at = "unsnap" => objs \cap Of({"snapshot"}) = {},
         cmd.at = "rows" => ~cmd.pending,
         \/ cmd' = Step(c) /\ (cmd.at = "unlabel" => \A v \in cmd.todo : Cleared(v))
         \/ \E v \in VMs : cmd' = Done(c, v) /\ (cmd.at = "unlabel" => Cleared(v))
  PROVE  UnmakingOK'
<1>1. \A v \in VMs : Done(c, v) # Step(c) =>
        Done(c, v).at = c.at /\ Done(c, v).todo = c.todo \ {v} /\ Done(c, v).op = c.op
        /\ Done(c, v).pending = c.pending
  BY DEF Done, Steps, Cmds
<1>2. Step(c).op = c.op /\ Step(c).pending = c.pending
  BY DEF Step, Steps, Cmds
<1>3. \A v \in VMs : Done(c, v) = Step(c) =>
        c.todo \subseteq {v} \/ (c.op = "unprotect" => Known = c.todo \ {v} /\ Step(c).at = c.at)
  <2> SUFFICES ASSUME NEW v \in VMs, Done(c, v) = Step(c), ~(c.todo \subseteq {v}), c.op = "unprotect"
               PROVE  Known = c.todo \ {v} /\ Step(c).at = c.at
    OBVIOUS
  <2>1. Done(c, v).todo = c.todo \ {v} /\ Done(c, v).at = c.at
    BY DEF Done, Steps, Cmds
  <2> QED BY <2>1, UnmakingBack
<1>4. cmd'.pending = cmd.pending /\ cmd'.op = cmd.op
  BY <1>1, <1>2
<1>5. cmd'.at = "done" => ~cmd'.pending
  BY <1>1, <1>2, <1>4, UnmakingBack DEF UnmakingOK
<1>6. ASSUME cmd.op = "unprotect", ~cmd.pending
      PROVE  /\ cmd'.at \in {"ask-source", "unlabel", "unsnap", "rows", "done"} => objs' \cap Of(TargetKinds) = {}
             /\ \A v \in ClearedVMs' : Cleared(v)'
             /\ cmd'.at \in {"rows", "done"} => objs' \cap Of({"snapshot"}) = {}
  <2>1. \A v : Cleared(v) => Cleared(v)'
    BY <1>6 DEF Cleared
  <2>2. Known' = Known /\ objs' = objs
    BY <1>6
  <2>3. ASSUME cmd' = Step(c), cmd.at = "unlabel" => \A v \in cmd.todo : Cleared(v)
        PROVE  \A v \in ClearedVMs' : Cleared(v)'
    <3>1. cmd'.todo = Known
      BY <1>6, <2>3, UnmakingBack
    <3>2. cmd'.at # "unlabel" => ClearedVMs' \subseteq ClearedVMs \cup (IF cmd.at = "unlabel" THEN cmd.todo ELSE {})
      BY <1>6, <2>2, <2>3, UnmakingBack DEF ClearedVMs
    <3>3. cmd'.at = "unlabel" => ClearedVMs' = {}
      BY <2>2, <3>1 DEF ClearedVMs
    <3> QED BY <1>6, <2>1, <2>3, <3>2, <3>3 DEF UnmakingOK
  <2>4. ASSUME NEW v \in VMs, cmd'.at = cmd.at, cmd'.todo = cmd.todo \ {v}, cmd.at = "unlabel" => Cleared(v)
        PROVE  \A x \in ClearedVMs' : Cleared(x)'
    <3>1. \A x \in ClearedVMs' : x \in ClearedVMs \/ (x = v /\ cmd.at = "unlabel")
      BY <2>2, <2>4 DEF ClearedVMs
    <3> QED BY <1>6, <2>1, <2>4, <3>1 DEF UnmakingOK
  <2>5. \A v \in ClearedVMs' : Cleared(v)'
    <3>1. CASE cmd' = Step(c) /\ (cmd.at = "unlabel" => \A v \in cmd.todo : Cleared(v))
      BY <2>3, <3>1
    <3>2. ASSUME NEW v \in VMs, cmd' = Done(c, v), cmd.at = "unlabel" => Cleared(v)
          PROVE  \A x \in ClearedVMs' : Cleared(x)'
      <4>1. CASE Done(c, v) # Step(c)
        BY <1>1, <2>4, <3>2, <4>1
      <4>2. CASE Done(c, v) = Step(c) /\ c.todo \subseteq {v}
        BY <2>3, <3>2, <4>2
      <4>3. CASE Done(c, v) = Step(c) /\ ~(c.todo \subseteq {v})
        <5>1. cmd'.at = cmd.at /\ cmd'.todo = cmd.todo \ {v}
          BY <1>3, <1>6, <3>2, <4>3, UnmakingBack
        <5> QED BY <2>4, <3>2, <5>1
      <4> QED BY <4>1, <4>2, <4>3
    <3> QED BY <3>1, <3>2
  <2>6. cmd'.at = cmd.at \/ cmd' = Step(c)
    BY <1>1
  <2>7. cmd'.at \in {"ask-source", "unlabel", "unsnap", "rows", "done"} => objs' \cap Of(TargetKinds) = {}
    BY <1>6, <2>2, <2>6, UnmakingBack DEF UnmakingOK
  <2>8. cmd'.at \in {"rows", "done"} => objs' \cap Of({"snapshot"}) = {}
    BY <1>6, <2>2, <2>6, UnmakingBack DEF UnmakingOK
  <2> QED BY <2>5, <2>7, <2>8
<1> QED BY <1>4, <1>5, <1>6 DEF UnmakingOK

LEMMA ListsKept ==
  ASSUME NEW u, NEW w, NEW was, NEW missed, NEW more, ListsOK(u, was, missed), missed \subseteq more,
         ToSet(w.made) \subseteq ToSet(u.made), ToSet(w.labels) \subseteq ToSet(u.labels), w.noted \subseteq u.noted
  PROVE  ListsOK(w, was, more)
  BY DEF ListsOK

LEMMA ListsNone ==
  ASSUME NEW was, NEW missed
  PROVE  ListsOK(NoUndo, was, missed)
<1>1. ToSet(NoUndo.made) = {} /\ ToSet(NoUndo.labels) = {} /\ NoUndo.noted = {}
  BY DEF NoUndo, ToSet
<1> QED BY <1>1 DEF ListsOK

\* A step that leaves what is on the clusters and the notes.
LEMMA RestWorld ==
  ASSUME WorldInv, objs' = objs, noted' = noted, Known \subseteq Known', touched => touched',
         past.missed \subseteq past'.missed, selected' \subseteq selected,
         plan'.state = "protected" /\ ~past'.torn /\ ~cmd'.cancelled =>
           (\A v \in selected : Kept(v)) \/ (plan.state = "protected" /\ ~past.torn /\ ~cmd.cancelled),
         plan'.state = "unprotected" => plan.state = "unprotected" \/ objs \subseteq Leftovers,
         MakingOK', UnmakingOK', CmdListsOK', RowListsOK'
  PROVE  WorldInv'
<1>1. LabelsOK(objs, noted, past.missed)'
  BY DEF WorldInv, LabelsOK
<1>2. ThingsOK(objs, Known, touched)'
  BY DEF WorldInv, ThingsOK
<1>3. StatesOK'
  <2>1. ASSUME NEW v, Kept(v) PROVE Kept(v)'
    BY <2>1, HasMore DEF Kept
  <2>2. plan'.state = "protected" /\ ~past'.torn /\ ~cmd'.cancelled => \A v \in selected : Kept(v)
    BY DEF WorldInv, StatesOK
  <2>3. Leftovers \subseteq Leftovers'
    BY DEF Leftovers
  <2>4. plan'.state = "unprotected" => objs' \subseteq Leftovers'
    BY <2>3 DEF WorldInv, StatesOK
  <2> QED BY <2>1, <2>2, <2>4 DEF StatesOK
<1> QED BY <1>1, <1>2, <1>3 DEF WorldInv

\* Once out of its steps, nothing is asked of a command.
LEMMA StoppedMaking ==
  ASSUME cmd' = NoCmd \/ (cmd'.at \in Handlers)
  PROVE  MakingOK' /\ UnmakingOK'
<1>1. cmd'.at \in Handlers
  BY NoCmdType DEF Handlers
<1>2. cmd'.at \notin StepNames /\ ClearedVMs' = {}
  BY <1>1 DEF Handlers, StepNames, ClearedVMs
<1> QED BY <1>1, <1>2 DEF MakingOK, UnmakingOK, Handlers

LEMMA InitWorld == Init => WorldInv
<1> SUFFICES ASSUME Init PROVE WorldInv
  OBVIOUS
<1>1. /\ cmd = NoCmd /\ row = NoRow /\ objs = {"default"} \X Explicit /\ noted = {} /\ plan.state = "draft"
  BY DEF Init
<1>2. NoCmd.op = None /\ NoCmd.at = "idle" /\ NoRow.op = None /\ None \notin Makers
  BY DEF NoCmd, NoRow, None, Makers
<1>3. MakingOK /\ UnmakingOK /\ CmdListsOK /\ RowListsOK
  BY <1>1, <1>2 DEF MakingOK, UnmakingOK, CmdListsOK, RowListsOK, None
<1>4. LabelsOK(objs, noted, past.missed)
  BY <1>1, ProtectAssumption DEF LabelsOK
<1>5. ThingsOK(objs, Known, touched)
  <2>1. objs \cap Of(TargetKinds) = {}
    BY <1>1 DEF Of, TargetKinds
  <2> QED BY <1>1, <2>1 DEF ThingsOK
<1>6. StatesOK
  BY <1>1 DEF StatesOK
<1> QED BY <1>3, <1>4, <1>5, <1>6 DEF WorldInv

LEMMA RunWorld ==
  ASSUME TypeOK, WorldInv, NEW op \in Ops, NEW chosen, Run(op, chosen)
  PROVE  WorldInv'
<1>1. /\ cmd = NoCmd /\ objs' = objs /\ noted' = noted /\ res' = res /\ touched' = touched /\ selected' = selected
      /\ plan' = plan /\ row' = row
      /\ cmd' = [NoCmd EXCEPT !.op = op, !.at = "begin", !.works = selected, !.chosen = chosen]
      /\ past' = [past EXCEPT !.commands = past.commands + 1, !.undone = Unknown]
  BY DEF Run, registry, clusters
<1>2. /\ cmd'.op = op /\ cmd'.at = "begin" /\ cmd'.works = selected /\ cmd'.undo = NoUndo
      /\ ~cmd'.cancelled /\ ~cmd.cancelled
  BY <1>1 DEF NoCmd
<1>3. past'.missed = past.missed /\ past'.torn = past.torn
  BY <1>1 DEF TypeOK, PastOK
<1>4. \A s \in Ensured(op) : Treated(s)' = {}
  BY <1>2 DEF Treated, Ensured, Later, Loops
<1>5. MakingOK'
  BY <1>1, <1>2, <1>4 DEF MakingOK, Made, TargetKinds
<1>6. UnmakingOK'
  BY <1>2 DEF UnmakingOK, ClearedVMs
<1>7. CmdListsOK' /\ RowListsOK'
  BY <1>1, <1>2, <1>3, ListsNone DEF CmdListsOK, RowListsOK, WorldInv
<1> QED BY <1>1, <1>2, <1>3, <1>5, <1>6, <1>7, RestWorld DEF Known

LEMMA BeginWorld ==
  ASSUME TypeOK, PromiseInv, WorldInv, Begin
  PROVE  WorldInv'
<1>1. Steps(cmd) /\ cmd.at = "begin" /\ ~cmd.was.known
  BY AtStep DEF Begin, At, StepNames, TypeOK, PromiseInv, FreshOK
<1> DEFINE kept == [cmd EXCEPT !.resumed = TRUE, !.undo = Reloaded, !.prev = row.prev, !.was = row.was]
           found == [known |-> TRUE, objs |-> objs, cron |-> cron, interval |-> plan.interval]
           fresh == [cmd EXCEPT !.prev = plan.interval, !.was = found]
           c == IF row.op = cmd.op THEN kept ELSE fresh
<1>2. /\ kept.op = cmd.op /\ kept.at = cmd.at /\ kept.works = cmd.works /\ kept.todo = cmd.todo
      /\ kept.undo = row.undo /\ kept.was = row.was /\ kept.cancelled = cmd.cancelled /\ kept.pending = cmd.pending
  BY <1>1 DEF Steps, Cmds, Reloaded
<1>3. /\ fresh.op = cmd.op /\ fresh.at = cmd.at /\ fresh.works = cmd.works /\ fresh.todo = cmd.todo
      /\ fresh.undo = cmd.undo /\ fresh.cancelled = cmd.cancelled /\ fresh.pending = cmd.pending
  BY <1>1 DEF Steps, Cmds
<1>4. /\ cmd' = Step(c) /\ (row' = row \/ row' = NoRow)
      /\ plan' = plan /\ objs' = objs /\ past' = past /\ noted' = noted /\ res' = res /\ touched' = touched
      /\ selected' = selected
  BY DEF Begin, clusters
<1>5. Steps(kept) /\ Steps(fresh)
  <2>1. found \in Found
    BY DEF Found, ClustersOK, RegistryOK, Plans, TypeOK
  <2> HIDE DEF found
  <2> QED BY <1>1, <2>1 DEF Steps, Cmds, Rows, RegistryOK, Plans, TypeOK, Reloaded
<1> HIDE DEF kept, fresh, found
<1>6. /\ Steps(c) /\ c.op = cmd.op /\ c.at = cmd.at /\ c.works = cmd.works /\ c.todo = cmd.todo
      /\ c.cancelled = cmd.cancelled /\ c.pending = cmd.pending
      /\ \/ c.undo = row.undo /\ c.was = row.was /\ row.op = cmd.op
         \/ c.undo = cmd.undo
  BY <1>2, <1>3, <1>5
<1> HIDE DEF c
<1>7. Alike(c, cmd') /\ cmd'.undo = c.undo
  BY <1>1, <1>4, <1>6, StepAlike
<1>8. MakingOK'
  <2>1. cmd.op \in Makers => \A s \in Ensured(cmd.op) : cmd.at # s
    BY <1>1 DEF Ensured, Loops
  <2>2. CASE cmd.op \in Makers
    BY <1>1, <1>4, <1>6, <2>1, <2>2, OnwardMaking DEF WorldInv, Known
  <2>3. CASE cmd.op \notin Makers
    BY <1>6, <1>7, <2>3 DEF MakingOK, Alike
  <2> QED BY <2>2, <2>3
<1>9. UnmakingOK'
  BY <1>1, <1>4, <1>6, OnwardUnmaking DEF WorldInv, Known
<1>10. CmdListsOK'
  <2>1. CASE c.undo = row.undo /\ c.was = row.was /\ row.op = cmd.op
    BY <1>4, <1>6, <1>7, <2>1 DEF WorldInv, RowListsOK, CmdListsOK, Alike
  <2>2. CASE c.undo = cmd.undo
    <3>1. cmd.op \in Makers => cmd.undo = NoUndo
      BY <1>1 DEF PromiseInv, MakerOK, Promised
    <3> QED BY <1>6, <1>7, <2>2, <3>1, ListsNone DEF CmdListsOK, Alike
  <2> QED BY <1>6, <2>1, <2>2
<1>11. RowListsOK'
  BY <1>4 DEF WorldInv, RowListsOK, NoRow, None, Makers
<1> QED BY <1>4, <1>6, <1>7, <1>8, <1>9, <1>10, <1>11, RestWorld DEF Known, Alike

\* A step past the begin that goes on and leaves clusters, notes and lists.
LEMMA OnwardWorld ==
  ASSUME TypeOK, PromiseInv, WorldInv, cmd.at \in Begun, cmd.at # IF cmd.op = "unprotect" THEN "done" ELSE "end",
         objs' = objs, noted' = noted, past' = past, row' = row, selected' = selected, Known' = Known,
         touched \/ cmd.at = "resync" => touched',
         plan'.state = "protected" => plan.state = "protected" \/ \A v \in selected : Kept(v),
         plan'.state = "unprotected" => plan.state = "unprotected",
         cmd.at = "target" => objs \cap Of(TargetKinds) = {},
         cmd.at = "unsnap" => objs \cap Of({"snapshot"}) = {},
         cmd.at = "rows" => ~cmd.pending,
         \/ /\ cmd' = Step(cmd)
            /\ \A s \in Ensured(cmd.op) : cmd.at = s => \A v \in cmd.todo : Has(s, v)'
            /\ cmd.at = "unlabel" => \A v \in cmd.todo : Cleared(v)
         \/ \E v \in VMs : /\ cmd' = Done(cmd, v)
                           /\ \A s \in Ensured(cmd.op) : cmd.at = s => Has(s, v)'
                           /\ cmd.at = "unlabel" => Cleared(v)
  PROVE  WorldInv'
<1>1. Steps(cmd) /\ ~cmd.cancelled
  BY PastBegin
<1>2. Alike(cmd, cmd') /\ cmd'.undo = cmd.undo
  BY <1>1, StepAlike
<1>3. MakingOK'
  <2>1. CASE cmd.op \in Makers
    <3>1. cmd.at # "end"
      BY <2>1 DEF Makers
    <3> QED BY <1>1, <2>1, <3>1, OnwardMaking DEF WorldInv
  <2>2. CASE cmd.op \notin Makers
    BY <1>2, <2>2 DEF MakingOK, Alike
  <2> QED BY <2>1, <2>2
<1>4. UnmakingOK'
  BY <1>1, OnwardUnmaking DEF WorldInv
<1>5. CmdListsOK' /\ RowListsOK'
  BY <1>2 DEF WorldInv, CmdListsOK, RowListsOK, Alike
<1> QED BY <1>1, <1>2, <1>3, <1>4, <1>5, RestWorld DEF Alike

\* A command that ends with the clusters, the notes and the row as they are.
LEMMA EndWorld ==
  ASSUME TypeOK, WorldInv, cmd' = NoCmd, objs' = objs, noted' = noted, selected' = selected, Known \subseteq Known',
         touched' = touched, past' = past, row' = row \/ row' = NoRow,
         plan'.state = "protected" => plan.state = "protected" /\ ~cmd.cancelled,
         plan'.state = "unprotected" => plan.state = "unprotected" \/ objs \subseteq Leftovers
  PROVE  WorldInv'
<1>1. MakingOK' /\ UnmakingOK'
  BY StoppedMaking
<1>2. CmdListsOK'
  BY NoCmdType DEF CmdListsOK, None, Makers
<1>3. RowListsOK'
  BY DEF WorldInv, RowListsOK, NoRow, None, Makers
<1> QED BY <1>1, <1>2, <1>3, RestWorld

\* A VM of a loop is one of those the command works on, and the rows come first.
LEMMA AtTurn ==
  ASSUME TypeOK, WorldInv, cmd.op \in Makers, cmd.at \in {"row", "job"} \cup Made, NEW v, Turn(v)
  PROVE  v \in cmd.works /\ (cmd.at \in {"job"} \cup Made => v \in Known)
<1>1. cmd.at \in StepNames
  BY DEF Made, TargetKinds, StepNames
<1>2. v \in cmd.todo /\ cmd.todo \subseteq cmd.works
  BY <1>1 DEF Turn, WorldInv, MakingOK
<1>3. CASE cmd.at \in {"job"} \cup Made
  <2>1. "row" \in Ensured(cmd.op) /\ v \in Treated("row")
    BY <1>2, <1>3 DEF Treated, Ensured, Loops, Later, Made, TargetKinds
  <2>2. Has("row", v)
    BY <1>1, <2>1 DEF WorldInv, MakingOK
  <2> QED BY <1>2, <2>2 DEF Has
<1> QED BY <1>2, <1>3

\* What an unprotect that is done has left.
LEMMA DoneLeaves ==
  ASSUME TypeOK, WorldInv, cmd.op = "unprotect", cmd.at = "done"
  PROVE  objs \subseteq Leftovers
<1>1. /\ objs \cap Of(TargetKinds) = {} /\ objs \cap Of({"snapshot"}) = {}
      /\ \A v \in Known : Cleared(v)
  BY DEF WorldInv, UnmakingOK, ClearedVMs
<1>2. /\ \A o \in objs : o \in {"default"} \X Explicit \/ o[2] \in Known
      /\ \A v \in VMs \ Explicit : <<"default", v>> \in objs => v \in noted \/ <<"default", v>> \in past.missed
  BY DEF WorldInv, LabelsOK, ThingsOK
<1>3. ASSUME NEW o \in objs PROVE o \in Leftovers
  <2>1. PICK k \in Kinds, v \in VMs : o = <<k, v>>
    BY <1>3 DEF TypeOK, ClustersOK, Of
  <2>2. CASE o \in {"default"} \X Explicit
    BY <2>2 DEF Leftovers
  <2>3. CASE o \notin {"default"} \X Explicit
    <3>1. v \in Known /\ Cleared(v)
      BY <1>1, <1>2, <2>1, <2>3
    <3>2. k \in {"backup", "default"}
      BY <1>1, <1>3, <2>1, <3>1 DEF Cleared, Kinds, LabelKinds, TargetKinds, Of
    <3>3. k = "default" => v \notin Explicit /\ v \notin noted
      BY <2>1, <2>3, <3>1 DEF Cleared
    <3>4. k = "default" => o \in past.missed
      BY <1>2, <1>3, <2>1, <3>3
    <3> QED BY <2>1, <3>2, <3>4 DEF Leftovers, Of
  <2> QED BY <2>2, <2>3
<1> QED BY <1>3

\* What a protect that is done has made.
LEMMA DoneKeeps ==
  ASSUME WorldInv, cmd.op = "protect", cmd.at = "done"
  PROVE  \A v \in selected : Kept(v)
<1>1. cmd.works = selected /\ cmd.op \in Makers /\ cmd.at \in StepNames
  BY DEF WorldInv, MakingOK, Makers, StepNames
<1>2. ASSUME NEW step \in {"job", "standby", "carnet"}, NEW v \in selected PROVE Has(step, v)
  <2>1. step \in Ensured(cmd.op) /\ v \in Treated(step)
    BY <1>1 DEF Ensured, Loops, Treated, Later
  <2> QED BY <1>1, <2>1 DEF WorldInv, MakingOK
<1> QED BY <1>2 DEF Kept

\* A VM whose job step has nothing to do has its job and all its labels.
LEMMA ReadyJobbed ==
  ASSUME WorldInv, NEW v \in VMs, JobReady(v), Missing(v) = {}
  PROVE  Jobbed(v)
<1>1. <<"job", v>> \in objs
  BY DEF JobReady
<1>2. <<"label", v>> \in objs
  <2>1. <<"label", v>> \in Of(LabelKinds)
    BY DEF Of, LabelKinds
  <2> QED BY <2>1 DEF Missing
<1>3. v \in Covered \cup Explicit => <<"default", v>> \in objs
  BY <1>2 DEF WorldInv, LabelsOK
<1> QED BY <1>1, <1>2, <1>3 DEF Jobbed

LEMMA RegistryWorld ==
  ASSUME TypeOK, PlaceOK, ReachOK, PromiseInv, WorldInv,
         \/ SetInterval \/ SetState \/ SetDone \/ StayPending \/ End \/ Untouched \/ Pass \/ Resync
         \/ \E v \in VMs : MakeRow(v) \/ RecordWorks(v) \/ UnprotectRow(v) \/ EndRows(v) \/ Ready(v) \/ Unnote(v)
  PROVE  WorldInv'
<1> USE DEF At, AtFor
<1> DEFINE plain == Begun \ ({"row", "job", "unlabel", "target", "unsnap", "rows", "done", "end"} \cup Made)
<1>1. ASSUME cmd.at \in plain, cmd' = Step(cmd), clusters' = clusters, noted' = noted, past' = past, row' = row,
             selected' = selected, res' = res, touched \/ cmd.at = "resync" => touched',
             plan'.state \in {"protected", "unprotected"} => plan'.state = plan.state
      PROVE  WorldInv'
  <2>1. \A s \in Ensured(cmd.op) : cmd.at # s
    BY <1>1 DEF Ensured, Loops, Made, TargetKinds
  <2> QED BY <1>1, <2>1, OnwardWorld DEF clusters, Known
<1>2. CASE SetInterval
  <2>1. cmd.at \in plain /\ cmd.at # "resync"
    BY <1>2 DEF SetInterval, Begun, StepNames, Made, TargetKinds
  <2>2. plan'.state = plan.state
    BY <1>2 DEF SetInterval, TypeOK, RegistryOK, Plans
  <2> QED BY <1>1, <1>2, <2>1, <2>2 DEF SetInterval
<1>3. CASE SetState
  <2>1. cmd.at \in plain /\ cmd.at = "state"
    BY <1>3 DEF SetState, Begun, StepNames, Made, TargetKinds
  <2>2. cmd.op \in Ops
    BY <2>1, PastBegin DEF Steps
  <2>3. plan'.state \notin {"protected", "unprotected"}
    BY <1>3, <2>2 DEF SetState, SetPlan, ActionState, Ops, Commands, TypeOK, RegistryOK, Plans
  <2> QED BY <1>1, <1>3, <2>1, <2>3 DEF SetState, SetPlan
<1>4. CASE SetDone
  <2>1. /\ cmd.at = "done" /\ cmd.at \in Begun /\ Steps(cmd)
        /\ cmd.at \notin {"resync", "target", "unsnap", "rows", "unlabel"}
    BY <1>4, PastBegin DEF SetDone, Begun, StepNames
  <2>2. CASE cmd.op = "protect"
    <3>1. plan'.state = "protected" /\ cmd' = Step(cmd)
      BY <1>4, <2>2 DEF SetDone, SetPlan, TypeOK, RegistryOK, Plans
    <3>2. \A v \in selected : Kept(v)
      BY <2>1, <2>2, DoneKeeps
    <3>3. \A s \in Ensured(cmd.op) : cmd.at # s
      BY <2>1 DEF Ensured, Loops
    <3> QED BY <1>4, <2>1, <2>2, <3>1, <3>2, <3>3, OnwardWorld DEF SetDone, SetPlan, clusters, Known
  <2>3. CASE cmd.op # "protect"
    <3>1. cmd.op = "unprotect"
      BY <2>1, <2>3, DoneAt
    <3>2. plan'.state = "unprotected" /\ cmd' = NoCmd
      BY <1>4, <2>3 DEF SetDone, SetPlan, TypeOK, RegistryOK, Plans
    <3>3. objs \subseteq Leftovers
      BY <2>1, <3>1, DoneLeaves
    <3> QED BY <1>4, <2>3, <3>2, <3>3, EndWorld DEF SetDone, SetPlan, clusters, Known
  <2> QED BY <2>2, <2>3
<1>5. CASE StayPending \/ End
  <2>1. cmd.at \in Begun
    BY <1>5 DEF StayPending, End, Begun, StepNames
  <2>2. ~cmd.cancelled
    BY <2>1, PastBegin
  <2> QED BY <1>5, <2>2, EndWorld DEF StayPending, End, CloseRun, registry, clusters, Known
<1>6. CASE Untouched
  <2>1. cmd.at \in Begun /\ cmd.at = "ask-target" /\ ~touched
    BY <1>6 DEF Untouched, Begun, StepNames
  <2>2. Steps(cmd) /\ cmd.op = "unprotect" /\ ~cmd.cancelled
    BY <2>1, PastBegin, TargetAsked
  <2>3. Steps(Step(cmd)) /\ Step(cmd).op = "unprotect" /\ Step(cmd).at = "target"
    <3>1. cmd.at = Order("unprotect")[4] /\ Order("unprotect")[5] = "target"
      BY <2>1 DEF Order
    <3> QED BY <2>2, <3>1, AskedNext
  <2>4. cmd'.at = "ask-source" /\ cmd'.op = "unprotect" /\ cmd' = Step(Step(cmd))
    BY <1>6, <2>1, <2>2, AskedTwice DEF Untouched
  <2>5. Alike(cmd, Step(cmd)) /\ Alike(Step(cmd), Step(Step(cmd)))
    BY <2>1, <2>2, <2>3, StepAlike
  <2>6. objs' = objs /\ noted' = noted /\ past' = past /\ row' = row /\ selected' = selected /\ plan' = plan
        /\ res' = res /\ touched' = touched
    BY <1>6 DEF Untouched, registry, clusters
  <2>7. objs \cap Of(TargetKinds) = {}
    BY <2>1 DEF WorldInv, ThingsOK
  <2>8. MakingOK' /\ UnmakingOK'
    BY <2>4, <2>6, <2>7 DEF MakingOK, UnmakingOK, Makers, ClearedVMs
  <2>9. CmdListsOK' /\ RowListsOK'
    BY <2>4, <2>6 DEF WorldInv, CmdListsOK, RowListsOK, Makers
  <2> QED BY <2>2, <2>4, <2>5, <2>6, <2>8, <2>9, RestWorld DEF Known, Alike
<1>7. CASE Pass
  <2>1. cmd.at \in Begun /\ cmd.at \notin {"done", "end", "resync"}
    BY <1>7 DEF Pass, Begun, StepNames
  <2>2. cmd.at \in {"row", "job", "unlabel"} \cup Made => cmd.todo = {}
    BY <1>7 DEF Pass, Made, TargetKinds
  <2>3. \A s \in Ensured(cmd.op) : cmd.at = s => cmd.todo = {}
    BY <2>2 DEF Ensured, Loops, Made, TargetKinds
  <2>4. /\ cmd.at = "target" => objs \cap Of(TargetKinds) = {}
        /\ cmd.at = "unsnap" => objs \cap Of({"snapshot"}) = {}
        /\ cmd.at = "rows" => ~cmd.pending
    BY <1>7 DEF Pass
  <2>5. /\ cmd' = Step(cmd) /\ objs' = objs /\ noted' = noted /\ past' = past /\ row' = row /\ selected' = selected
        /\ plan' = plan /\ res' = res /\ touched' = touched
    BY <1>7 DEF Pass, registry, clusters
  <2> QED BY <2>1, <2>2, <2>3, <2>4, <2>5, OnwardWorld DEF Known
<1>8. CASE Resync
  <2>1. cmd.at \in plain
    BY <1>8 DEF Resync, Begun, StepNames, Made, TargetKinds
  <2> QED BY <1>1, <1>8, <2>1 DEF Resync
<1>9. ASSUME NEW v \in VMs, MakeRow(v) PROVE WorldInv'
  <2>1. Known \subseteq Known'
    BY <1>9 DEF MakeRow, Known, TypeOK, RegistryOK
  <2>2. cmd.at = "row" /\ cmd.at \in Begun
    BY <1>9 DEF MakeRow, Begun, StepNames
  <2>3. cmd.op # "unprotect" /\ cmd' = cmd
    BY <1>9, <2>2, PastBegin DEF MakeRow, Steps, Names, Range, Order
  <2>4. /\ objs' = objs /\ noted' = noted /\ past' = past /\ row' = row /\ selected' = selected
        /\ plan' = plan /\ touched' = touched
    BY <1>9 DEF MakeRow, clusters
  <2>5. MakingOK'
    BY <2>1, <2>3, <2>4, HasMore DEF WorldInv, MakingOK, Treated
  <2>6. UnmakingOK' /\ CmdListsOK' /\ RowListsOK'
    BY <2>3, <2>4 DEF WorldInv, UnmakingOK, CmdListsOK, RowListsOK
  <2> QED BY <2>1, <2>3, <2>4, <2>5, <2>6, RestWorld
<1>10. ASSUME NEW v \in VMs, NEW state \in PlanStates, MarkRow(v, state), cmd.at \in {"row", "mark", "rows"},
              cmd.at = "rows" => ~cmd.pending
       PROVE  WorldInv'
  <2>1. Known' = Known /\ v \in Known
    BY <1>10 DEF MarkRow, Marked, Known, TypeOK, RegistryOK, PlanStates
  <2>2. cmd.at \in Begun /\ cmd.at \notin {"done", "end", "resync", "target", "unsnap", "unlabel"}
    BY <1>10 DEF Begun, StepNames
  <2>3. /\ objs' = objs /\ noted' = noted /\ past' = past /\ row' = row /\ selected' = selected
        /\ plan' = plan /\ touched' = touched
    BY <1>10 DEF MarkRow, clusters
  <2>4. CASE cmd' = Done(cmd, v)
    <3>1. \A s \in Ensured(cmd.op) : cmd.at = s => Has(s, v)'
      BY <1>10, <2>1 DEF Ensured, Loops, Has
    <3> QED BY <1>10, <2>1, <2>2, <2>3, <2>4, <3>1, OnwardWorld
  <2>5. CASE cmd' = [cmd EXCEPT !.at = "failed"]
    <3>1. Alike(cmd, cmd') /\ cmd'.undo = cmd.undo /\ cmd'.at = "failed"
      BY <2>5 DEF TypeOK, CmdOK, Cmds, Alike
    <3>2. MakingOK' /\ UnmakingOK'
      BY <3>1, StoppedMaking DEF Handlers
    <3>3. CmdListsOK' /\ RowListsOK'
      BY <2>3, <3>1 DEF WorldInv, CmdListsOK, RowListsOK, Alike
    <3> QED BY <2>1, <2>3, <3>1, <3>2, <3>3, RestWorld DEF Alike
  <2> QED BY <1>10, <2>4, <2>5 DEF MarkRow
<1>11. ASSUME NEW v \in VMs, RecordWorks(v) \/ UnprotectRow(v) \/ EndRows(v) PROVE WorldInv'
  <2>1. CASE RecordWorks(v)
    <3>1. cmd.op \in Ops
      BY <2>1, PastBegin DEF RecordWorks, Steps, Begun, StepNames
    <3> QED BY <1>10, <2>1, <3>1, ActionStateOf DEF RecordWorks
  <2>2. CASE UnprotectRow(v)
    BY <1>10, <2>2 DEF UnprotectRow, PlanStates
  <2>3. CASE EndRows(v)
    BY <1>10, <2>3 DEF EndRows, PlanStates
  <2> QED BY <1>11, <2>1, <2>2, <2>3
<1>12. ASSUME NEW v \in VMs, Ready(v) PROVE WorldInv'
  <2>1. cmd.at \in Begun /\ cmd.at \in {"job", "unlabel"} \cup Made
        /\ cmd.at \notin {"done", "end", "resync", "target", "unsnap", "rows"}
    BY <1>12 DEF Ready, Begun, StepNames, Made, TargetKinds
  <2>2. /\ objs' = objs /\ noted' = noted /\ past' = past /\ row' = row /\ selected' = selected
        /\ plan' = plan /\ res' = res /\ touched' = touched /\ cmd' = Done(cmd, v)
    BY <1>12 DEF Ready, registry, clusters
  <2>3. \A s \in Ensured(cmd.op) : cmd.at = s => Has(s, v)
    <3> SUFFICES ASSUME NEW s \in Ensured(cmd.op), cmd.at = s PROVE Has(s, v)
      OBVIOUS
    <3>1. s \in {"job", "standby", "carnet"}
      BY <2>1 DEF Ensured, Loops, Made, TargetKinds
    <3>2. CASE s = "job"
      <4>1. JobReady(v) /\ Missing(v) = {}
        BY <1>12, <3>2 DEF Ready, Made, TargetKinds
      <4> QED BY <3>2, <4>1, ReadyJobbed DEF Has
    <3>3. CASE s \in {"standby", "carnet"}
      BY <1>12, <3>3 DEF Ready, There, Has
    <3> QED BY <3>1, <3>2, <3>3
  <2>4. cmd.at = "unlabel" => Cleared(v)
    BY <1>12 DEF Ready, Cleared, Made, TargetKinds
  <2> QED BY <2>1, <2>2, <2>3, <2>4, OnwardWorld, HasMore DEF Known
<1>13. ASSUME NEW v \in VMs, Unnote(v) PROVE WorldInv'
  <2>1. /\ cmd.at = "unlabel" /\ noted' = noted \ {v} /\ <<"default", v>> \notin objs /\ cmd.at \in Begun
    BY <1>13 DEF Unnote, MayUnnote, Begun, StepNames
  <2>2. /\ objs' = objs /\ past' = past /\ row' = row /\ selected' = selected /\ cmd' = cmd
        /\ plan' = plan /\ res' = res /\ touched' = touched
    BY <1>13 DEF Unnote, clusters
  <2>3. cmd.op \notin Makers
    BY <2>1, PastBegin, StepsOfMakers
  <2>4. MakingOK' /\ CmdListsOK' /\ RowListsOK'
    BY <2>2, <2>3 DEF MakingOK, CmdListsOK, RowListsOK, WorldInv
  <2>5. UnmakingOK'
    BY <2>1, <2>2 DEF WorldInv, UnmakingOK, ClearedVMs, Cleared, Known
  <2>6. LabelsOK(objs, noted, past.missed)' /\ ThingsOK(objs, Known, touched)'
    BY <2>1, <2>2 DEF WorldInv, LabelsOK, ThingsOK, Known
  <2>7. StatesOK'
    BY <2>2 DEF WorldInv, StatesOK, Kept, Has, Jobbed, Leftovers, Known
  <2> QED BY <2>4, <2>5, <2>6, <2>7 DEF WorldInv
<1> QED BY <1>2, <1>3, <1>4, <1>5, <1>6, <1>7, <1>8, <1>9, <1>11, <1>12, <1>13

--------------------------------------------------------------------------------
\* A step of protect or measure-start that puts something on the clusters or in the notes.
LEMMA MoreWorld ==
  ASSUME TypeOK, PlaceOK, PromiseInv, WorldInv, cmd.at \in Begun, cmd.op \in Makers,
         objs \subseteq objs', noted \subseteq noted', res' = res, touched' = touched, past' = past, row' = row,
         selected' = selected, plan' = plan, Alike(cmd, cmd'),
         cmd'.at = cmd.at, cmd'.works = cmd.works, cmd'.todo = cmd.todo,
         LabelsOK(objs', noted', past.missed), ThingsOK(objs', Known, touched),
         ListsOK(cmd'.undo, cmd.was, past.missed)
  PROVE  WorldInv'
<1>1. Known' = Known
  BY DEF Known
<1>2. cmd'.op = cmd.op /\ cmd'.was = cmd.was /\ cmd'.pending = cmd.pending /\ cmd'.cancelled = cmd.cancelled
  BY DEF Alike
<1>3. MakingOK'
  <2>1. \A s : Treated(s)' = Treated(s)
    BY DEF Treated
  <2> QED BY <1>1, <1>2, <2>1, HasMore DEF WorldInv, MakingOK
<1>4. UnmakingOK'
  BY <1>2 DEF WorldInv, UnmakingOK, Makers
<1>5. CmdListsOK' /\ RowListsOK'
  BY <1>2 DEF WorldInv, CmdListsOK, RowListsOK
<1>6. LabelsOK(objs, noted, past.missed)' /\ ThingsOK(objs, Known, touched)'
  BY <1>1
<1>7. StatesOK'
  <2>1. plan'.state # "unprotected"
    BY DEF PlaceOK, Makers, None
  <2>2. ASSUME NEW v, Kept(v) PROVE Kept(v)'
    BY <1>1, <2>2, HasMore DEF Kept
  <2> QED BY <1>2, <2>1, <2>2 DEF WorldInv, StatesOK
<1> QED BY <1>3, <1>4, <1>5, <1>6, <1>7 DEF WorldInv

LEMMA MakerWorld ==
  ASSUME TypeOK, PlaceOK, PromiseInv, WorldInv, NEW v \in VMs,
         MakeJob(v) \/ PatchJob(v) \/ NoteDefault(v) \/ PutLabels(v) \/ MakeObject(v)
  PROVE  WorldInv'
<1> USE DEF At, AtFor
<1>1. cmd.at \in Begun /\ cmd.at \in {"job"} \cup Made /\ Turn(v)
  BY DEF MakeJob, PatchJob, NoteDefault, PutLabels, MakeObject, Begun, StepNames, Made, TargetKinds
<1>2. /\ Steps(cmd) /\ cmd.was.known /\ cmd.op \in Makers /\ cmd.undo \in Undos /\ cmd \in Cmds
      /\ Promised(cmd.undo, cmd.was, objs, cron, past.missed)
  BY <1>1, PastBegin, StepsOfMakers DEF PromiseInv, MakerOK, TypeOK, CmdOK
<1>3. v \in Known
  BY <1>1, <1>2, AtTurn
<1>4. ListsOK(cmd.undo, cmd.was, past.missed) /\ LabelsOK(objs, noted, past.missed) /\ ThingsOK(objs, Known, touched)
  BY <1>2 DEF WorldInv, CmdListsOK
<1>5. ASSUME NEW u, NEW l, cmd' = [cmd EXCEPT !.undo = u, !.last = l]
      PROVE  /\ Alike(cmd, cmd') /\ cmd'.undo = u /\ cmd'.at = cmd.at /\ cmd'.works = cmd.works
             /\ cmd'.todo = cmd.todo
  BY <1>2, <1>5 DEF Cmds, Alike
\* An object of v that is no label.
<1>6. ASSUME NEW o, o \in Of(Kinds \ LabelKinds), o[2] = v, o[1] \in TargetKinds => touched, Make(o),
             noted' = noted, res' = res, touched' = touched, past' = past, row' = row, selected' = selected,
             plan' = plan
      PROVE  WorldInv'
  <2> DEFINE u == [cmd.undo EXCEPT !.made = Append(cmd.undo.made, o)]
  <2>1. cmd' = [cmd EXCEPT !.undo = u, !.last = {o}] /\ objs' = objs \cup {o}
    BY <1>6 DEF Make
  <2>2. ToSet(u.made) = ToSet(cmd.undo.made) \cup {o} /\ u.labels = cmd.undo.labels /\ u.noted = cmd.undo.noted
    <3>1. o \in Of(Kinds)
      BY <1>6 DEF Of
    <3>2. ToSet(u.made) = ToSet(cmd.undo.made) \cup {o}
      BY <1>2, <3>1, MadeListed
    <3> QED BY <1>2, <3>2 DEF Undos
  <2>3. o \notin Of(LabelKinds) /\ o \notin Of({"label", "default"})
    BY <1>6 DEF Of, LabelKinds
  <2> HIDE DEF u
  <2>4. ListsOK(u, cmd.was, past.missed)
    BY <1>4, <2>2, <2>3 DEF ListsOK
  <2>5. LabelsOK(objs', noted, past.missed)
    <3>1. \A x \in VMs : /\ <<"label", x>> \in objs' <=> <<"label", x>> \in objs
                         /\ <<"default", x>> \in objs' <=> <<"default", x>> \in objs
      BY <2>1, <2>3 DEF Of
    <3> QED BY <1>4, <2>1, <3>1, ProtectAssumption DEF LabelsOK
  <2>6. ThingsOK(objs', Known, touched)
    <3>1. o \in Of(TargetKinds) => touched
      BY <1>6 DEF Of
    <3> QED BY <1>3, <1>4, <1>6, <2>1, <3>1 DEF ThingsOK
  <2> QED BY <1>1, <1>2, <1>5, <1>6, <2>1, <2>4, <2>5, <2>6, MoreWorld
<1>7. CASE MakeJob(v)
  <2>1. <<"job", v>> \in Of(Kinds \ LabelKinds) /\ "job" \notin TargetKinds
    BY DEF Of, Kinds, LabelKinds, TargetKinds
  <2> QED BY <1>6, <1>7, <2>1 DEF MakeJob, registry
<1>8. CASE MakeObject(v)
  <2>1. <<cmd.at, v>> \in Of(Kinds \ LabelKinds)
    BY <1>8 DEF MakeObject, Made, Of, Kinds, LabelKinds, TargetKinds
  <2>2. cmd.at \in TargetKinds => touched
    BY <1>1, <1>2 DEF WorldInv, MakingOK, Begun
  <2> QED BY <1>6, <1>8, <2>1, <2>2 DEF MakeObject, registry
<1>9. CASE PatchJob(v)
  <2> DEFINE n == [cmd.undo EXCEPT !.cron = [cmd.undo.cron EXCEPT ![v] = cron[v]]]
             u == IF cmd.undo.cron[v] # None THEN cmd.undo ELSE n
  <2>1. /\ objs' = objs
        /\ cmd' = IF cmd.undo.cron[v] # None THEN [cmd EXCEPT !.last = {}]
                  ELSE [cmd EXCEPT !.undo = n, !.last = {<<"cron", v>>}]
        /\ noted' = noted /\ res' = res /\ touched' = touched /\ past' = past /\ row' = row /\ plan' = plan
        /\ selected' = selected
    BY <1>9 DEF PatchJob, registry
  <2>2. n.made = cmd.undo.made /\ n.labels = cmd.undo.labels /\ n.noted = cmd.undo.noted
    BY <1>2 DEF Undos
  <2> HIDE DEF n
  <2>3. ListsOK(u, cmd.was, past.missed)
    BY <1>4, <2>2 DEF ListsOK
  <2>4. /\ Alike(cmd, cmd') /\ cmd'.undo = u /\ cmd'.at = cmd.at /\ cmd'.works = cmd.works
        /\ cmd'.todo = cmd.todo
    BY <1>2, <2>1 DEF Cmds, Alike
  <2> HIDE DEF u
  <2> QED BY <1>1, <1>2, <1>4, <2>1, <2>3, <2>4, MoreWorld
<1>10. CASE NoteDefault(v)
  <2> DEFINE u == [cmd.undo EXCEPT !.noted = cmd.undo.noted \cup {v}]
  <2>1. /\ cmd' = [cmd EXCEPT !.undo = u, !.last = {}] /\ objs' = objs /\ noted' = noted \cup {v}
        /\ res' = res /\ touched' = touched /\ past' = past /\ row' = row /\ plan' = plan /\ selected' = selected
    BY <1>10 DEF NoteDefault, clusters
  <2>2. u.made = cmd.undo.made /\ u.labels = cmd.undo.labels /\ u.noted = cmd.undo.noted \cup {v}
    BY <1>2 DEF Undos
  <2>3. v \in Covered /\ <<"default", v>> \notin objs /\ <<"default", v>> \in Of(Kinds)
    BY <1>10 DEF NoteDefault, Missing, Of, Kinds, LabelKinds
  <2>4. <<"default", v>> \notin cmd.was.objs \/ <<"default", v>> \in past.missed
    BY <1>2, <2>3 DEF Promised
  <2> HIDE DEF u
  <2>5. ListsOK(u, cmd.was, past.missed)
    BY <1>4, <2>2, <2>4 DEF ListsOK
  <2>6. LabelsOK(objs', noted', past.missed)
    BY <1>4, <2>1, <2>3 DEF LabelsOK
  <2> QED BY <1>1, <1>2, <1>4, <1>5, <2>1, <2>5, <2>6, MoreWorld
<1>11. CASE PutLabels(v)
  <2> DEFINE u == [cmd.undo EXCEPT !.labels = Append(cmd.undo.labels, Missing(v))]
  <2>1. /\ cmd' = [cmd EXCEPT !.undo = u, !.last = Missing(v)] /\ objs' = objs \cup Missing(v) /\ noted' = noted
        /\ res' = res /\ touched' = touched /\ past' = past /\ row' = row /\ plan' = plan /\ selected' = selected
        /\ <<"default", v>> \in Missing(v) => v \in noted
    BY <1>11 DEF PutLabels, registry
  <2>2. /\ Missing(v) \in SUBSET Of(LabelKinds)
        /\ \A o \in Missing(v) : o = <<"label", v>> \/ (o = <<"default", v>> /\ v \in Covered)
        /\ <<"default", v>> \in Missing(v) => <<"label", v>> \in Missing(v)
        /\ v \in Covered /\ <<"label", v>> \notin objs => <<"default", v>> \in objs \cup Missing(v)
    BY DEF Missing, Of, LabelKinds
  <2>3. u.made = cmd.undo.made /\ ToSet(u.labels) = ToSet(cmd.undo.labels) \cup {Missing(v)}
        /\ u.noted = cmd.undo.noted
    <3>1. u.labels = Append(cmd.undo.labels, Missing(v)) /\ u.made = cmd.undo.made /\ u.noted = cmd.undo.noted
      BY <1>2 DEF Undos
    <3>2. cmd.undo.labels \in Seq(SUBSET Of(LabelKinds))
      BY <1>2, UndosSets
    <3>3. ToSet(Append(cmd.undo.labels, Missing(v))) = ToSet(cmd.undo.labels) \cup {Missing(v)}
      BY <2>2, <3>2, AppendSet
    <3> QED BY <3>1, <3>3
  <2> HIDE DEF u
  <2>4. ListsOK(u, cmd.was, past.missed)
    BY <1>4, <2>2, <2>3 DEF ListsOK
  <2>5. LabelsOK(objs', noted, past.missed)
    <3>1. \A x \in Covered : <<"label", x>> \in objs' => <<"default", x>> \in objs'
      BY <1>4, <2>1, <2>2 DEF LabelsOK
    <3>2. \A x \in VMs \ Explicit : <<"default", x>> \in objs' => x \in noted \/ <<"default", x>> \in past.missed
      BY <1>4, <2>1, <2>2 DEF LabelsOK
    <3> QED BY <1>4, <2>1, <3>1, <3>2 DEF LabelsOK
  <2>6. ThingsOK(objs', Known, touched)
    <3>1. Missing(v) \cap Of(TargetKinds) = {} /\ \A o \in Missing(v) : o[2] = v
      BY <2>2 DEF Of, TargetKinds, LabelKinds
    <3> QED BY <1>3, <1>4, <2>1, <3>1 DEF ThingsOK
  <2> QED BY <1>1, <1>2, <1>5, <2>1, <2>4, <2>5, <2>6, MoreWorld
<1> QED BY <1>7, <1>8, <1>9, <1>10, <1>11

LEMMA DeleteWorld ==
  ASSUME TypeOK, PlaceOK, PromiseInv, WorldInv, NEW o \in Of(Kinds), Delete(o)
  PROVE  WorldInv'
<1> USE DEF At, AtFor
<1>1. /\ cmd.at \in {"target", "unsnap", "unlabel"} /\ cmd.at \in Begun /\ objs' = objs \ {o} /\ cmd' = cmd
      /\ noted' = noted /\ res' = res /\ touched' = touched /\ past' = past /\ row' = row /\ plan' = plan
      /\ selected' = selected
  BY DEF Delete, registry, Begun, StepNames
<1>2. Steps(cmd) /\ cmd.op \notin Makers /\ cmd.op # None
  BY <1>1, PastBegin, StepsOfMakers
<1>3. plan.state # "protected"
  <2>1. CASE cmd.op = "measure-stop"
    <3>1. cmd.at \in Before(cmd.op)
      BY <1>1, <1>2, <2>1 DEF Before, Steps
    <3> QED BY <1>2, <2>1, <3>1 DEF PlaceOK, Precondition, CommandFrom
  <2>2. CASE cmd.op = "unprotect"
    <3>1. cmd.at \in Between(cmd.op)
      BY <1>1, <1>2, <2>2 DEF Between, Before, Steps
    <3> QED BY <1>2, <2>2, <3>1 DEF PlaceOK, ActionState
  <2> QED BY <1>2, <2>1, <2>2 DEF Steps, Ops, Commands, Makers
<1>4. MakingOK' /\ CmdListsOK' /\ RowListsOK'
  BY <1>1, <1>2 DEF MakingOK, CmdListsOK, RowListsOK, WorldInv
<1>5. UnmakingOK'
  <2>1. \A v : Cleared(v) => Cleared(v)'
    BY <1>1 DEF Cleared
  <2>2. ClearedVMs' = ClearedVMs
    BY <1>1 DEF ClearedVMs, Known
  <2> QED BY <1>1, <2>1, <2>2 DEF WorldInv, UnmakingOK
<1>6. LabelsOK(objs, noted, past.missed)'
  <2>1. ASSUME NEW v, o = <<"default", v>> PROVE v \in Covered \ Explicit /\ <<"label", v>> \notin objs
    <3>1. v \in noted /\ <<"label", v>> \notin objs
      BY <2>1 DEF Delete, TargetKinds
    <3> QED BY <3>1, ProtectAssumption DEF WorldInv, LabelsOK
  <2>2. {"default"} \X Explicit \subseteq objs'
    <3>1. ASSUME NEW v \in Explicit PROVE <<"default", v>> \in objs'
      <4>1. <<"default", v>> \in objs
        BY DEF WorldInv, LabelsOK
      <4> QED BY <1>1, <2>1, <4>1
    <3> QED BY <3>1
  <2>3. ASSUME NEW v \in Covered, <<"label", v>> \in objs' PROVE <<"default", v>> \in objs'
    BY <1>1, <2>1, <2>3 DEF WorldInv, LabelsOK
  <2> QED BY <1>1, <2>2, <2>3 DEF WorldInv, LabelsOK
<1>7. ThingsOK(objs, Known, touched)'
  BY <1>1 DEF WorldInv, ThingsOK, Known
<1>8. StatesOK'
  BY <1>1, <1>3 DEF WorldInv, StatesOK, Leftovers
<1> QED BY <1>4, <1>5, <1>6, <1>7, <1>8 DEF WorldInv

LEMMA LeaveWorld ==
  ASSUME TypeOK, WorldInv, NEW v \in VMs, Leave(v)
  PROVE  WorldInv'
<1>1. /\ cmd = NoCmd /\ cmd' = NoCmd /\ objs' = objs /\ noted' = noted /\ res' = res /\ touched' = touched
      /\ past' = past /\ row' = row /\ plan' = plan /\ selected' \subseteq selected
  BY DEF Leave, registry, clusters
<1>2. MakingOK' /\ UnmakingOK'
  BY <1>1, StoppedMaking
<1>3. CmdListsOK' /\ RowListsOK'
  BY <1>1 DEF WorldInv, CmdListsOK, RowListsOK
<1> QED BY <1>1, <1>2, <1>3, RestWorld DEF Known

\* A fault leaves the clusters and the registry; a list, of the command or of the row
\* it leaves, may miss its last entry.
LEMMA SlipWorld ==
  ASSUME TypeOK, WorldInv, NEW lost, Slip(lost), NEW x,
         objs' = objs, noted' = noted, res' = res, touched' = touched, selected' = selected, plan' = plan,
         MakingOK', UnmakingOK',
         \/ cmd' = NoCmd
         \/ cmd'.op = cmd.op /\ cmd'.was = cmd.was /\ cmd'.undo \in {cmd.undo, Without(x)},
         \/ row' = row \/ row' = NoRow
         \/ row'.op = cmd.op /\ row'.was = cmd.was /\ row'.undo = Without(x)
  PROVE  WorldInv'
<1>1. past'.missed = past.missed \cup lost
      /\ (past'.torn <=> past.torn \/ (cmd.cancelled /\ plan.state = "protected"))
  BY DEF Slip, TypeOK, PastOK
<1>2. cmd.op \in Makers => \A u \in {cmd.undo, Without(x)} : ListsOK(u, cmd.was, past'.missed)
  <2> SUFFICES ASSUME cmd.op \in Makers, NEW u \in {cmd.undo, Without(x)}
               PROVE  ListsOK(u, cmd.was, past'.missed)
    OBVIOUS
  <2>1. cmd.undo \in Undos
    BY DEF TypeOK, CmdOK, Cmds
  <2>2. ToSet(u.made) \subseteq ToSet(cmd.undo.made) /\ ToSet(u.labels) \subseteq ToSet(cmd.undo.labels)
        /\ u.noted \subseteq cmd.undo.noted
    BY <2>1, WithoutLists
  <2> QED BY <1>1, <2>2, ListsKept DEF WorldInv, CmdListsOK
<1>3. None \notin Makers /\ NoCmd.op = None /\ NoRow.op = None
  BY NoCmdType DEF None, Makers, NoRow
<1>4. CmdListsOK'
  BY <1>2, <1>3 DEF CmdListsOK
<1>5. RowListsOK'
  <2>1. CASE row' = row
    BY <1>1, <2>1, ListsKept DEF WorldInv, RowListsOK
  <2>2. CASE row' = NoRow
    BY <1>3, <2>2 DEF RowListsOK
  <2>3. CASE row'.op = cmd.op /\ row'.was = cmd.was /\ row'.undo = Without(x)
    BY <1>2, <2>3 DEF RowListsOK
  <2> QED BY <2>1, <2>2, <2>3
<1> QED BY <1>1, <1>4, <1>5, RestWorld DEF Known

LEMMA FaultWorld ==
  ASSUME TypeOK, PromiseInv, WorldInv, Cancel \/ Suspend \/ Fail \/ Kill \/ Silent
  PROVE  WorldInv'
<1> USE DEF At
<1>0. cmd \in Cmds
  BY DEF TypeOK, CmdOK
<1>1. CASE Cancel
  <2>1. PICK lost \in {{}, cmd.last} :
          /\ Slip(lost)
          /\ CASE cmd.op = "measure-stop" -> CloseRun /\ cmd' = [cmd EXCEPT !.at = "errors"]
               [] cmd.op = "unprotect" -> row' = row /\ cmd' = NoCmd
               [] OTHER -> /\ row' = row
                           /\ cmd' = [cmd EXCEPT !.at = "undo", !.cancelled = ~At("begin"),
                                                 !.undo = Without(lost), !.last = {}]
    BY <1>1 DEF Cancel
  <2> DEFINE b == ~At("begin")
             stop == [cmd EXCEPT !.at = "errors"]
             undo == [cmd EXCEPT !.at = "undo", !.cancelled = b, !.undo = Without(lost), !.last = {}]
  <2>2. stop.op = cmd.op /\ stop.was = cmd.was /\ stop.undo = cmd.undo /\ stop.at = "errors"
    BY <1>0 DEF Cmds
  <2>3. undo.op = cmd.op /\ undo.was = cmd.was /\ undo.undo = Without(lost) /\ undo.at = "undo"
    BY <1>0 DEF Cmds
  <2>4. cmd' \in {stop, undo, NoCmd} /\ (row' = row \/ row' = NoRow)
    BY <2>1 DEF CloseRun
  <2> HIDE DEF b, stop, undo
  <2>5. MakingOK' /\ UnmakingOK'
    BY <2>2, <2>3, <2>4, StoppedMaking DEF Handlers
  <2> QED BY <1>1, <2>1, <2>2, <2>3, <2>4, <2>5, SlipWorld DEF Cancel, clusters
<1>2. CASE Suspend
  <2>1. PICK lost \in {{}, cmd.last} :
          /\ Slip(lost)
          /\ row' = IF cmd.op \notin Suspendable THEN row
                    ELSE [op |-> cmd.op, undo |-> Without(lost), prev |-> cmd.prev, chosen |-> cmd.chosen,
                          was |-> cmd.was]
    BY <1>2 DEF Suspend
  <2>2. row' = row \/ (row'.op = cmd.op /\ row'.was = cmd.was /\ row'.undo = Without(lost))
    BY <2>1
  <2>3. cmd' = NoCmd /\ MakingOK' /\ UnmakingOK'
    BY <1>2, StoppedMaking DEF Suspend
  <2> QED BY <1>2, <2>1, <2>2, <2>3, SlipWorld DEF Suspend, clusters
<1>3. CASE Fail
  <2>1. PICK lost \in {{}, cmd.last} :
          Slip(lost) /\ cmd' = [cmd EXCEPT !.at = "failed", !.undo = Without(lost), !.last = {}]
    BY <1>3 DEF Fail
  <2>2. cmd'.op = cmd.op /\ cmd'.was = cmd.was /\ cmd'.at = "failed" /\ cmd'.undo = Without(lost)
    BY <1>0, <2>1 DEF Cmds
  <2>3. MakingOK' /\ UnmakingOK'
    BY <2>2, StoppedMaking DEF Handlers
  <2> QED BY <1>3, <2>1, <2>2, <2>3, SlipWorld DEF Fail, registry, clusters
<1>4. CASE Kill
  <2>1. PICK lost : Slip(lost)
    BY <1>4 DEF Kill
  <2>2. cmd' = NoCmd /\ MakingOK' /\ UnmakingOK'
    BY <1>4, StoppedMaking DEF Kill
  <2> QED BY <1>4, <2>1, <2>2, SlipWorld DEF Kill, registry, clusters
<1>5. CASE Silent
  <2>1. Steps(cmd) /\ cmd.op = "unprotect"
    <3>1. cmd.at \in {"ask-target", "ask-source"} /\ cmd.at \in Begun
      BY <1>5 DEF Silent, Begun, StepNames
    <3> QED BY <3>1, PastBegin, TargetAsked
  <2> DEFINE two == Step(Step(cmd))  three == Step(Step(Step(cmd)))
  <2>2. PICK c \in {two, three} :
          Steps(c) /\ c.op = "unprotect" /\ c.at # "done" /\ cmd' = [c EXCEPT !.pending = TRUE]
    BY <1>5, <2>1, AskedTwice DEF Silent
  <2>3. cmd'.op = "unprotect" /\ cmd'.at # "done" /\ cmd'.pending
    <3> HIDE DEF two, three
    <3> QED BY <2>2 DEF Steps, Cmds
  <2>4. MakingOK' /\ UnmakingOK' /\ CmdListsOK' /\ RowListsOK'
    BY <1>5, <2>3 DEF Silent, registry, Slip, TypeOK, PastOK, MakingOK, UnmakingOK, CmdListsOK, RowListsOK, Makers,
                      WorldInv
  <2>5. past'.missed = past.missed /\ (past'.torn <=> past.torn \/ (cmd.cancelled /\ plan.state = "protected"))
    BY <1>5 DEF Silent, Slip, TypeOK, PastOK
  <2> QED BY <1>5, <2>4, <2>5, RestWorld DEF Silent, registry, clusters, Known
<1> QED BY <1>1, <1>2, <1>3, <1>4, <1>5

\* What an undo takes: labels that were put together, or nothing that is a label.
LEMMA ToUndoLabels ==
  ASSUME cmd.undo \in Undos, NEW was, NEW missed, ListsOK(cmd.undo, was, missed), NEW v \in VMs,
         <<"default", v>> \in ToUndo
  PROVE  v \in Covered /\ <<"label", v>> \in ToUndo
<1>1. <<"default", v>> \in Of(LabelKinds)
  BY DEF Of, LabelKinds
<1>2. CASE cmd.undo.labels # <<>>
  <2>1. ToUndo = Last(cmd.undo.labels)
    BY <1>2 DEF ToUndo
  <2>2. Last(cmd.undo.labels) \in ToSet(cmd.undo.labels)
    BY <1>2, UndosSets, FrontSet
  <2> QED BY <2>1, <2>2 DEF ListsOK
<1>3. CASE cmd.undo.labels = <<>>
  <2>1. \A x : <<"default", v>> # <<"cron", x>>
    OBVIOUS
  <2>2. cmd.undo.made # <<>> /\ <<"default", v>> = Last(cmd.undo.made)
    BY <1>3, <2>1 DEF ToUndo
  <2>3. Last(cmd.undo.made) \in ToSet(cmd.undo.made)
    BY <2>2, UndosSets, FrontSet
  <2> QED BY <1>1, <2>2, <2>3 DEF ListsOK
<1> QED BY <1>2, <1>3

LEMMA HandlerWorld ==
  ASSUME TypeOK, PlaceOK, PromiseInv, WorldInv,
         Undo \/ UndoFails \/ UndoNotes \/ UndoEnd \/ GiveBack \/ Failed \/ Errors \/ SetError
  PROVE  WorldInv'
<1> USE DEF At
<1>0. cmd \in Cmds /\ cmd.undo \in Undos /\ cmd.op \in Ops /\ row.op \in Suspendable \cup {None}
  <2>1. cmd.at \in Handlers \ {"idle"}
    BY DEF Undo, UndoFails, UndoNotes, UndoEnd, GiveBack, Failed, Errors, SetError, Handlers
  <2> QED BY <2>1, HandlerAt DEF TypeOK, RegistryOK, Rows
<1>1. ASSUME NEW at \in Handlers, cmd' = [cmd EXCEPT !.at = at]
      PROVE  Alike(cmd, cmd') /\ cmd'.undo = cmd.undo /\ cmd'.at = at /\ MakingOK' /\ UnmakingOK'
  <2>1. Alike(cmd, cmd') /\ cmd'.undo = cmd.undo /\ cmd'.at = at
    BY <1>0, <1>1 DEF Cmds, Alike
  <2> QED BY <2>1, StoppedMaking
\* At undo, with something left in the lists.
<1>2. ASSUME NEW u, cmd.at = "undo", cmd.undo # NoUndo, cmd' = [cmd EXCEPT !.undo = u]
      PROVE  /\ Alike(cmd, cmd') /\ cmd'.undo = u /\ MakingOK' /\ UnmakingOK'
             /\ cmd.op \in Makers /\ cmd.was.known /\ cmd.cancelled /\ plan.state # "unprotected"
             /\ Promised(cmd.undo, cmd.was, objs, cron, past.missed)
             /\ ListsOK(cmd.undo, cmd.was, past.missed)
  <2>1. Alike(cmd, cmd') /\ cmd'.undo = u /\ cmd'.at = "undo"
    BY <1>0, <1>2 DEF Cmds, Alike
  <2>2. cmd.op \in Makers /\ Promised(cmd.undo, cmd.was, objs, cron, past.missed) /\ cmd.was.known
    BY <1>2 DEF PromiseInv, FreshOK, MakerOK, Promised
  <2>3. cmd.cancelled
    BY <1>2, <2>2 DEF PromiseInv, FreshOK
  <2>4. plan.state # "unprotected" /\ ListsOK(cmd.undo, cmd.was, past.missed)
    BY <2>2 DEF PlaceOK, WorldInv, CmdListsOK, Makers, None
  <2>5. MakingOK' /\ UnmakingOK'
    BY <2>1, StoppedMaking DEF Handlers
  <2> QED BY <2>1, <2>2, <2>3, <2>4, <2>5
<1>3. ToUndo # {} => cmd.undo # NoUndo
  BY <1>0, ToUndoListed
<1>4. CASE Undo
  <2>1. /\ cmd.at = "undo" /\ cmd' = [cmd EXCEPT !.undo = Without(ToUndo)] /\ objs' = objs \ ToUndo /\ ToUndo # {}
        /\ plan' = plan /\ row' = row /\ past' = past /\ res' = res /\ touched' = touched /\ noted' = noted
    BY <1>4 DEF Undo, registry
  <2>2. /\ Alike(cmd, cmd') /\ cmd'.undo = Without(ToUndo) /\ MakingOK' /\ UnmakingOK'
        /\ cmd.op \in Makers /\ cmd.cancelled /\ plan.state # "unprotected"
        /\ ListsOK(cmd.undo, cmd.was, past.missed)
    BY <1>2, <1>3, <2>1
  <2>3. ListsOK(Without(ToUndo), cmd.was, past.missed)
    BY <1>0, <2>2, WithoutLists, ListsKept
  <2>4. CmdListsOK' /\ RowListsOK'
    BY <2>1, <2>2, <2>3 DEF WorldInv, CmdListsOK, RowListsOK, Alike
  <2>5. \A v \in VMs : <<"default", v>> \in ToUndo => v \in Covered /\ <<"label", v>> \in ToUndo
    BY <1>0, <2>2, ToUndoLabels
  <2>6. LabelsOK(objs, noted, past.missed)'
    <3>1. ASSUME NEW v \in Explicit PROVE <<"default", v>> \in objs'
      <4>1. <<"default", v>> \in objs /\ v \in VMs \ Covered
        BY ProtectAssumption DEF WorldInv, LabelsOK
      <4> QED BY <2>1, <2>5, <4>1
    <3>2. ASSUME NEW v \in Covered, <<"label", v>> \in objs' PROVE <<"default", v>> \in objs'
      <4>1. <<"default", v>> \in objs /\ v \in VMs
        BY <2>1, <3>2, ProtectAssumption DEF WorldInv, LabelsOK
      <4> QED BY <2>1, <2>5, <3>2, <4>1
    <3>3. {"default"} \X Explicit \subseteq objs'
      BY <3>1
    <3> QED BY <2>1, <3>2, <3>3 DEF WorldInv, LabelsOK
  <2>7. ThingsOK(objs, Known, touched)'
    BY <2>1 DEF WorldInv, ThingsOK, Known
  <2>8. StatesOK'
    BY <2>1, <2>2 DEF StatesOK, Alike
  <2> QED BY <2>2, <2>4, <2>6, <2>7, <2>8 DEF WorldInv
<1>5. CASE UndoFails
  <2>1. /\ cmd.at = "undo" /\ cmd' = [cmd EXCEPT !.undo = Without(ToUndo)] /\ ToUndo # {} /\ Slip(ToUndo)
        /\ objs' = objs /\ plan' = plan /\ row' = row /\ res' = res /\ touched' = touched /\ noted' = noted
        /\ selected' = selected
    BY <1>5 DEF UndoFails, registry, clusters
  <2>2. Alike(cmd, cmd') /\ cmd'.undo = Without(ToUndo) /\ MakingOK' /\ UnmakingOK'
    BY <1>2, <1>3, <2>1
  <2> QED BY <2>1, <2>2, SlipWorld DEF Alike
<1>6. CASE UndoNotes
  <2> DEFINE u == [cmd.undo EXCEPT !.noted = {}]
  <2>1. /\ cmd.at = "undo" /\ cmd' = [cmd EXCEPT !.undo = u] /\ objs' = objs /\ noted' = noted \ cmd.undo.noted
        /\ cmd.undo.labels = <<>> /\ cmd.undo.noted # {}
        /\ plan' = plan /\ row' = row /\ past' = past /\ res' = res /\ touched' = touched
    BY <1>6 DEF UndoNotes, clusters
  <2>2. cmd.undo # NoUndo
    BY <2>1, NothingListed
  <2>3. u.made = cmd.undo.made /\ u.labels = cmd.undo.labels /\ u.noted = {}
    BY <1>0 DEF Undos
  <2> HIDE DEF u
  <2>4. /\ Alike(cmd, cmd') /\ cmd'.undo = u /\ MakingOK' /\ UnmakingOK'
        /\ cmd.op \in Makers /\ cmd.was.known /\ cmd.cancelled /\ plan.state # "unprotected"
        /\ Promised(cmd.undo, cmd.was, objs, cron, past.missed) /\ ListsOK(cmd.undo, cmd.was, past.missed)
    BY <1>2, <2>1, <2>2
  <2>5. CmdListsOK' /\ RowListsOK'
    BY <2>1, <2>3, <2>4, ListsKept DEF WorldInv, CmdListsOK, RowListsOK, Alike
  <2>6. \A v \in VMs : <<"default", v>> \notin Listed(cmd.undo) /\ <<"default", v>> \in Of(Kinds)
    <3>1. ToSet(cmd.undo.labels) = {}
      BY <2>1 DEF ToSet
    <3>2. \A v \in VMs : <<"default", v>> \in Of(LabelKinds) /\ <<"default", v>> \in Of(Kinds)
      BY DEF Of, LabelKinds, Kinds
    <3> QED BY <2>4, <3>1, <3>2 DEF Listed, ListsOK
  <2>7. \A v \in cmd.undo.noted \cap VMs : <<"default", v>> \in objs => <<"default", v>> \in past.missed
    BY <2>4, <2>6 DEF Promised, ListsOK
  <2>8. LabelsOK(objs, noted, past.missed)'
    BY <2>1, <2>7 DEF WorldInv, LabelsOK
  <2>9. ThingsOK(objs, Known, touched)' /\ StatesOK'
    BY <2>1, <2>4 DEF WorldInv, ThingsOK, StatesOK, Known, Alike
  <2> QED BY <2>4, <2>5, <2>8, <2>9 DEF WorldInv
\* A handler that changes neither the clusters nor the notes.
<1>7. ASSUME objs' = objs, noted' = noted, Known' = Known, touched' = touched, selected' = selected, past' = past,
             plan'.state \in {plan.state, "error"}, NEW at \in Handlers, cmd' = [cmd EXCEPT !.at = at],
             \/ row' = row \/ row' = NoRow
             \/ row'.op = row.op /\ row'.was = row.was /\ row'.undo = cmd.undo /\ cmd.resumed
      PROVE  WorldInv'
  <2>1. Alike(cmd, cmd') /\ cmd'.undo = cmd.undo /\ MakingOK' /\ UnmakingOK'
    BY <1>1, <1>7
  <2>2. CmdListsOK'
    BY <1>7, <2>1 DEF WorldInv, CmdListsOK, Alike
  <2>3. RowListsOK'
    <3>1. CASE row' = row \/ row' = NoRow
      BY <1>7, <3>1 DEF WorldInv, RowListsOK, NoRow, None, Makers
    <3>2. CASE row'.op = row.op /\ row'.was = row.was /\ row'.undo = cmd.undo /\ cmd.resumed
      <4>1. cmd.was.known
        BY <3>2 DEF PromiseInv, FreshOK
      <4>2. row.op \in Makers => row.op = cmd.op /\ row.was = cmd.was
        BY <4>1 DEF PromiseInv, RowOK, None, Makers
      <4> QED BY <1>7, <3>2, <4>2 DEF WorldInv, CmdListsOK, RowListsOK
    <3> QED BY <1>7, <3>1, <3>2
  <2> QED BY <1>7, <2>1, <2>2, <2>3, RestWorld DEF Alike
<1>8. CASE UndoEnd
  BY <1>7, <1>8 DEF UndoEnd, CloseRun, clusters, Handlers, Known
<1>9. CASE GiveBack
  <2>1. plan'.state = plan.state
    BY <1>9 DEF GiveBack, TypeOK, RegistryOK, Plans
  <2> QED BY <1>7, <1>9, <2>1 DEF GiveBack, clusters, Handlers, Known
<1>10. CASE Failed
  <2> DEFINE r == [row EXCEPT !.undo = cmd.undo]
  <2>1. r.op = row.op /\ r.was = row.was /\ r.undo = cmd.undo
    BY DEF TypeOK, RegistryOK, Rows
  <2>2. row' = row \/ row' = NoRow \/ (row' = r /\ cmd.resumed)
    BY <1>10 DEF Failed, CloseRun
  <2> HIDE DEF r
  <2> QED BY <1>7, <1>10, <2>1, <2>2 DEF Failed, clusters, Handlers, Known
<1>11. CASE Errors
  <2>1. Known' = Known
    <3>1. \A v \in VMs : res'[v].state = "absent" <=> res[v].state = "absent"
      BY <1>11 DEF Errors, Known
    <3> QED BY <3>1 DEF Known
  <2> QED BY <1>7, <1>11, <2>1 DEF Errors, clusters, Handlers
<1>12. CASE SetError
  <2>1. plan'.state = "error"
    BY <1>12 DEF SetError, TypeOK, RegistryOK, Plans
  <2>2. /\ cmd' = NoCmd /\ objs' = objs /\ noted' = noted /\ res' = res /\ touched' = touched /\ row' = row
        /\ selected' = selected /\ past'.missed = past.missed
    BY <1>12 DEF SetError, clusters, TypeOK, PastOK
  <2>3. MakingOK' /\ UnmakingOK'
    BY <2>2, StoppedMaking
  <2>4. CmdListsOK' /\ RowListsOK'
    BY <2>2, NoCmdType DEF WorldInv, CmdListsOK, RowListsOK, None, Makers
  <2> QED BY <2>1, <2>2, <2>3, <2>4, RestWorld DEF Known
<1> QED BY <1>4, <1>5, <1>6, <1>8, <1>9, <1>10, <1>11, <1>12

LEMMA WorldNext ==
  TypeOK /\ ReachOK /\ PlaceOK /\ PromiseInv /\ WorldInv /\ [Next]_vars => WorldInv'
<1> SUFFICES ASSUME TypeOK, ReachOK, PlaceOK, PromiseInv, WorldInv, [Next]_vars PROVE WorldInv'
  OBVIOUS
<1>1. ASSUME NEW op \in Ops, Start(op) PROVE WorldInv'
  BY <1>1, RunWorld DEF Start
<1>2. CASE Resume
  <2>1. Resumed \in Ops
    BY DEF Resumed, Ops, Commands
  <2> QED BY <1>2, <2>1, RunWorld DEF Resume
<1>3. CASE Begin
  BY <1>3, BeginWorld
<1>4. CASE SetInterval \/ SetState \/ SetDone \/ StayPending \/ End \/ Untouched \/ Pass \/ Resync
  BY <1>4, RegistryWorld
<1>5. ASSUME NEW v \in VMs, OnVM(v) PROVE WorldInv'
  BY <1>5, RegistryWorld, MakerWorld, LeaveWorld DEF OnVM
<1>6. ASSUME NEW o \in Of(Kinds), Delete(o) PROVE WorldInv'
  BY <1>6, DeleteWorld
<1>7. CASE Undo \/ UndoFails \/ UndoNotes \/ UndoEnd \/ GiveBack \/ Failed \/ Errors \/ SetError
  BY <1>7, HandlerWorld
<1>8. CASE Cancel \/ Suspend \/ Fail \/ Kill \/ Silent
  BY <1>8, FaultWorld
<1>9. CASE UNCHANGED vars
  <2>1. MakingOK' /\ UnmakingOK' /\ CmdListsOK' /\ RowListsOK'
    BY <1>9 DEF vars, WorldInv, MakingOK, Treated, Has, Jobbed, Known, UnmakingOK, ClearedVMs, Cleared, CmdListsOK,
                RowListsOK
  <2> QED BY <1>9, <2>1, RestWorld DEF vars, Known
<1> QED BY <1>1, <1>2, <1>3, <1>4, <1>5, <1>6, <1>7, <1>8, <1>9 DEF Next, Ops

\* What the registry says of a plan at rest is what the clusters have, through any
\* cancels, suspensions, failures, kills and silent clusters: a VM of a protected plan
\* has its job, its labels, its standby and its log book, and an unprotected plan has
\* left nothing but backups, labels it has not put, and labels an undo reported
\* (replication_run.py, protect, unprotect and _undo_created).
THEOREM RegistryTellsClusters == Spec => []WorldMatchesPlan
<1>1. Init => TypeOK /\ ReachOK /\ PlaceOK /\ PromiseInv /\ WorldInv
  BY TypeInit, ReachInit, PlaceInit, InitPromise, InitWorld
<1>2. TypeOK /\ ReachOK /\ PlaceOK /\ PromiseInv /\ WorldInv /\ [Next]_vars
        => (TypeOK /\ ReachOK /\ PlaceOK /\ PromiseInv /\ WorldInv)'
  BY TypeNext, ReachNext, PlaceNext, PromiseNext, WorldNext
<1>3. WorldInv => WorldMatchesPlan
  <2> SUFFICES ASSUME WorldInv, cmd = NoCmd PROVE WorldMatchesPlan
    BY DEF WorldMatchesPlan
  <2>1. ~cmd.cancelled
    BY DEF NoCmd
  <2>2. \A v \in selected : Kept(v) => /\ {"job", "label", "standby", "carnet"} \X {v} \subseteq objs
                                       /\ v \in Covered \cup Explicit => <<"default", v>> \in objs
    BY DEF Kept, Has, Jobbed
  <2> QED BY <2>1, <2>2 DEF WorldMatchesPlan, WorldInv, StatesOK, LabelsOK, Leftovers
<1> QED BY <1>1, <1>2, <1>3, PTL DEF Spec

================================================================================
