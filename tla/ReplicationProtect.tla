-------------------------- MODULE ReplicationProtect ---------------------------
(***************************************************************************)
(* The commands of a replication plan before any failover                  *)
(* (bin/lib/replication_run.py): measure-start, measure-stop, protect,     *)
(* unprotect, and resume of them.  Each goes through the steps of Order,   *)
(* VM by VM where a step has several, on objects of two clusters.  A       *)
(* cancelled protect or measure-start undoes what it made; a shutdown of   *)
(* the console suspends a command, whose open row of table runs keeps what *)
(* a cancel of its resume has to undo; a failed call leaves all in place;  *)
(* a kill loses the lists.                                                 *)
(*                                                                         *)
(* One command at a time: the plan lock is ReplicationLock's.  Backing     *)
(* images, retention, deleted backups and VMs that have failed over are    *)
(* left out; a first backup is always the command's, and complete once     *)
(* made.                                                                   *)
(***************************************************************************)
EXTENDS ReplicationStates, Naturals, FiniteSets, SequencesExt

CONSTANTS
  VMs,          \* the VMs of the source, one disk each
  Covered,      \* those in Longhorn's group default without a label, which has a job
  Explicit,     \* those which carry the label of that group from the start
  Intervals,    \* the intervals a person or a measure may give
  Given,        \* the one given with the plan, or None
  Faults,       \* bound: the kinds of faults
  MaxFaults,    \* bound: their number
  MaxCommands,  \* bound: the commands started
  MaxLeaves     \* bound: the VMs that leave the selection of the plan

None == "none"

ASSUME ProtectAssumption ==
  /\ Covered \subseteq VMs /\ Explicit \subseteq VMs \ Covered
  /\ None \notin Intervals /\ Given \in Intervals \cup {None}
  /\ Faults \subseteq {"cancel", "suspend", "fail", "kill", "undo", "silent"}
  /\ MaxFaults \in Nat /\ MaxCommands \in Nat /\ MaxLeaves \in Nat

VARIABLES
  plan,      \* its row: state, origin of an error, interval
  res,       \* the row of each VM: state ("absent" without a row), origin
  objs,      \* the objects on both clusters, each of a kind, for a VM
  cron,      \* the interval of the recurring job of each VM
  noted,     \* the VMs noted default_label_added
  touched,   \* an event of the target side is in the journal
  row,       \* the open interrupted row of table runs
  cmd,       \* the command that runs
  selected,  \* the VMs the plan selects
  past       \* history and bounds, which the program does not read

vars == <<plan, res, objs, cron, noted, touched, row, cmd, selected, past>>
registry == <<plan, res, noted, touched, row>>
clusters == <<objs, cron>>

LabelKinds == {"label", "default"}
TargetKinds == {"standby", "carnet"}
Kinds == {"job", "snapshot", "backup"} \cup LabelKinds \cup TargetKinds
Of(kinds) == kinds \X VMs

\* History: what a command found before it, kept through its resumes.
Unknown == [known |-> FALSE, objs |-> {}, cron |-> [v \in VMs |-> None], interval |-> None]

\* The lists of Ctx: objects made, labels put with one patch, notes of a label,
\* the interval a changed job had at first.
NoUndo == [made |-> <<>>, labels |-> <<>>, noted |-> {}, cron |-> [v \in VMs |-> None]]
NoRow == [op |-> None, undo |-> NoUndo, prev |-> None, chosen |-> None, was |-> Unknown]

\* A command: its step, the VMs its step has left, its locals, and the last
\* thing it made, which a signal may keep it from putting in its lists.
NoCmd == [op |-> None, at |-> "idle", works |-> {}, todo |-> {}, chosen |-> None, prev |-> None,
          resumed |-> FALSE, undo |-> NoUndo, last |-> {}, pending |-> FALSE, cancelled |-> FALSE,
          was |-> Unknown]

Suspendable == {"measure-start", "measure-stop", "protect"}

\* The steps of each command, in the order of its code.
Order(op) ==
  CASE op = "measure-start" -> <<"begin", "state", "row", "job", "end">>
    [] op = "measure-stop"  -> <<"begin", "unlabel", "unsnap", "rows", "state", "end">>
    [] op = "protect"       -> <<"begin", "interval", "state", "row", "job", "snapshot", "backup", "resync",
                                 "standby", "carnet", "rows", "done", "end">>
    [] op = "unprotect"     -> <<"begin", "state", "mark", "ask-target", "target", "ask-source",
                                 "unlabel", "unsnap", "rows", "done">>

Known == {v \in VMs : res[v].state # "absent"}

\* The VMs a command works on: those it read, or all the plan has rows for.
Works(c) == IF c.op \in {"measure-start", "protect"} THEN c.works ELSE Known

\* The command c at its next step, and the same once it is done with v.
Step(c) ==
  LET n == CHOOSE i \in DOMAIN Order(c.op) : Order(c.op)[i] = c.at
  IN  [c EXCEPT !.at = Order(c.op)[n + 1], !.todo = Works(c), !.last = {}]
Done(c, v) == IF c.todo \subseteq {v} THEN Step(c) ELSE [c EXCEPT !.todo = c.todo \ {v}, !.last = {}]

At(step) == cmd.at = step
\* The VMs are taken in the order of a list.
Turn(v) == cmd.todo # {} /\ v = CHOOSE u \in cmd.todo : TRUE
AtFor(step, v) == At(step) /\ Turn(v)

--------------------------------------------------------------------------------
(* Start and resume. *)

Init ==
  /\ plan \in [state : {"draft"}, origin : {NoOrigin}, interval : {Given}]
  /\ res = [v \in VMs |-> [state |-> "absent", origin |-> NoOrigin]]
  /\ objs = {"default"} \X Explicit /\ cron = [v \in VMs |-> None]
  /\ noted = {} /\ touched = FALSE /\ row = NoRow /\ cmd = NoCmd /\ selected = VMs
  /\ past = [undone |-> Unknown, torn |-> FALSE, missed |-> {}, faults |-> 0, commands |-> 0]

\* A command takes the lock: what it works on has been read.
Run(op, chosen) ==
  /\ cmd = NoCmd /\ past.commands < MaxCommands
  /\ Precondition(op, plan.state, plan.origin)
  /\ op \in {"measure-start", "protect"} => selected # {}
  /\ cmd' = [NoCmd EXCEPT !.op = op, !.at = "begin", !.works = selected, !.chosen = chosen]
  /\ past' = [past EXCEPT !.commands = past.commands + 1, !.undone = Unknown]
  /\ UNCHANGED <<registry, clusters, selected>>

Takes(op) == IF op \in {"measure-start", "protect"} THEN Intervals ELSE {None}
Start(op) == \E i \in Takes(op) : Run(op, i)

\* resumable: is there something to resume?
Effective == IF plan.state = "error" /\ plan.origin # NoOrigin THEN plan.origin ELSE plan.state
Resumable ==
  \/ row.op \in {"measure-start", "protect"}
  \/ row.op = "measure-stop" /\ plan.state = "measuring"
  \/ Effective \in {"protecting", "unprotecting"}
  \/ Effective = "measuring" /\ plan.state = "error"

\* The command resume takes up, from the row left open first.
Resumed ==
  CASE row.op = "measure-stop" /\ plan.state = "measuring" -> "measure-stop"
    [] row.op = "measure-start" -> "measure-start"
    [] row.op = "protect" \/ Effective = "protecting" -> "protect"
    [] Effective = "unprotecting" -> "unprotect"
    [] OTHER -> "measure-start"

\* The interval of an interrupted measure is in its row; that of a protect is
\* what a measure tells, or the plan's.
Resume ==
  /\ Resumable
  /\ \E i \in Takes(Resumed) :
       /\ Resumed = "measure-start" /\ row.op = "measure-start" => i = row.chosen
       /\ Run(Resumed, i)

\* _load_undo.  Mutant: a resume starts with empty lists.
Forgotten == NoUndo
Reloaded == row.undo

\* The open rows a command closes at its start, for good, unless it resumes one.
\* Mutant: unprotect closes none.
ClosedByRuns == IF cmd.op = "unprotect" THEN {} ELSE Suspendable
Superseded == Suspendable

\* _begin_run, and the start of unprotect.
Begin ==
  /\ At("begin")
  /\ LET resumed == row.op = cmd.op
         kept == [cmd EXCEPT !.resumed = TRUE, !.undo = Reloaded, !.prev = row.prev, !.was = row.was]
         fresh == [cmd EXCEPT !.prev = plan.interval,
                              !.was = [known |-> TRUE, objs |-> objs, cron |-> cron, interval |-> plan.interval]]
     IN  /\ cmd' = Step(IF resumed THEN kept ELSE fresh)
         /\ row' = IF resumed \/ row.op \notin Superseded THEN row ELSE NoRow
  /\ UNCHANGED <<plan, res, noted, touched, clusters, selected, past>>

--------------------------------------------------------------------------------
(* Steps on the registry. *)

SetInterval ==
  /\ At("interval")
  /\ plan' = [plan EXCEPT !.interval = cmd.chosen]
  /\ cmd' = Step(cmd)
  /\ UNCHANGED <<res, noted, touched, row, clusters, selected, past>>

SetPlan(state) ==
  /\ plan' = [plan EXCEPT !.state = state, !.origin = IF state = "error" THEN plan.state ELSE NoOrigin]
  /\ UNCHANGED <<res, noted, touched, row, clusters, selected, past>>

\* No transition of the plan is refused here (PlanMovesAccepted, in the proofs).
SetState == At("state") /\ SetPlan(ActionState(cmd.op)) /\ cmd' = Step(cmd)
SetDone ==
  /\ At("done")
  /\ SetPlan(IF cmd.op = "protect" THEN "protected" ELSE "unprotected")
  /\ cmd' = IF cmd.op = "protect" THEN Step(cmd) ELSE NoCmd

\* set_resource_state: a refused transition fails the command.
MayBecome(v, state) == res[v].state = state \/ TransitionAllowed(res[v].state, state, res[v].origin)
Marked(v, state) ==
  IF res[v].state = state THEN res
  ELSE [res EXCEPT ![v] = [state |-> state, origin |-> IF state = "error" THEN res[v].state ELSE NoOrigin]]

MarkRow(v, state) ==
  /\ v \in Known
  /\ IF MayBecome(v, state) THEN res' = Marked(v, state) /\ cmd' = Done(cmd, v)
     ELSE res' = res /\ cmd' = [cmd EXCEPT !.at = "failed"]
  /\ UNCHANGED <<plan, noted, touched, row, clusters, selected, past>>

\* _record_works: the row, a draft when it is new, then its state.
MakeRow(v) ==
  /\ AtFor("row", v) /\ v \notin Known
  /\ res' = [res EXCEPT ![v] = [state |-> "draft", origin |-> NoOrigin]]
  /\ UNCHANGED <<plan, noted, touched, row, cmd, clusters, selected, past>>
RecordWorks(v) == AtFor("row", v) /\ MarkRow(v, ActionState(cmd.op))
UnprotectRow(v) == AtFor("mark", v) /\ MarkRow(v, "unprotecting")

\* A plan in `unprotecting` with a side still to finish keeps its state.
EndRows(v) ==
  /\ AtFor("rows", v) /\ ~cmd.pending
  /\ MarkRow(v, CASE cmd.op = "protect" -> "protected" [] cmd.op = "measure-stop" -> "draft"
                  [] OTHER -> "unprotected")
StayPending ==
  /\ At("rows") /\ cmd.pending
  /\ cmd' = NoCmd
  /\ UNCHANGED <<registry, clusters, selected, past>>

\* _end_run, then the lock.
CloseRun == row' = IF cmd.resumed THEN NoRow ELSE row
End ==
  /\ At("end")
  /\ CloseRun /\ cmd' = NoCmd
  /\ UNCHANGED <<plan, res, noted, touched, clusters, selected, past>>

\* unprotect does not ask the target of a plan that has made nothing there.
Untouched ==
  /\ At("ask-target") /\ ~touched
  /\ cmd' = Step(Step(cmd))
  /\ UNCHANGED <<registry, clusters, selected, past>>

\* A step with nothing to do.
Pass ==
  /\ \/ cmd.todo = {} /\ cmd.at \in {"row", "job", "snapshot", "backup", "standby", "carnet", "unlabel", "mark"}
     \/ cmd.todo = {} /\ At("rows") /\ ~cmd.pending
     \/ At("ask-source") \/ (At("ask-target") /\ touched)
     \/ At("target") /\ objs \cap Of(TargetKinds) = {}
     \/ At("unsnap") /\ objs \cap Of({"snapshot"}) = {}
  /\ cmd' = Step(cmd)
  /\ UNCHANGED <<registry, clusters, selected, past>>

--------------------------------------------------------------------------------
(* Steps on the clusters: what is there is kept, what is made is put in the *)
(* lists right after the call. *)

Make(o) ==
  /\ objs' = objs \cup {o}
  /\ cmd' = [cmd EXCEPT !.undo = [cmd.undo EXCEPT !.made = Append(cmd.undo.made, o)], !.last = {o}]

Missing(v) ==
  {o \in Of(LabelKinds) \ objs :
     o = <<"label", v>> \/ (o = <<"default", v>> /\ v \in Covered /\ <<"label", v>> \notin objs)}

\* The interval of the job: the one given to a measure, that of the plan's row.
Wanted == IF cmd.op = "protect" THEN plan.interval ELSE cmd.chosen
JobReady(v) == <<"job", v>> \in objs /\ cron[v] = Wanted

\* _ensure_jobs: the job is made or changed, then the volume labelled; a label of
\* group default is noted before it is put.
MakeJob(v) ==
  /\ AtFor("job", v) /\ <<"job", v>> \notin objs
  /\ Make(<<"job", v>>)
  /\ cron' = [cron EXCEPT ![v] = Wanted]
  /\ UNCHANGED <<registry, selected, past>>

PatchJob(v) ==
  /\ AtFor("job", v) /\ <<"job", v>> \in objs /\ cron[v] # Wanted
  /\ cron' = [cron EXCEPT ![v] = Wanted]
  /\ cmd' = IF cmd.undo.cron[v] # None THEN [cmd EXCEPT !.last = {}]
            ELSE [cmd EXCEPT !.undo = [cmd.undo EXCEPT !.cron = [cmd.undo.cron EXCEPT ![v] = cron[v]]],
                             !.last = {<<"cron", v>>}]
  /\ UNCHANGED <<registry, objs, selected, past>>

NoteDefault(v) ==
  /\ AtFor("job", v) /\ JobReady(v) /\ <<"default", v>> \in Missing(v)
  /\ ~(v \in noted /\ v \in cmd.undo.noted)
  /\ noted' = noted \cup {v}
  /\ cmd' = [cmd EXCEPT !.undo = [cmd.undo EXCEPT !.noted = cmd.undo.noted \cup {v}], !.last = {}]
  /\ UNCHANGED <<plan, res, touched, row, clusters, selected, past>>

PutLabels(v) ==
  /\ AtFor("job", v) /\ JobReady(v) /\ Missing(v) # {}
  /\ <<"default", v>> \in Missing(v) => v \in noted \cap cmd.undo.noted
  /\ objs' = objs \cup Missing(v)
  /\ cmd' = [cmd EXCEPT !.undo = [cmd.undo EXCEPT !.labels = Append(cmd.undo.labels, Missing(v))],
                         !.last = Missing(v)]
  /\ UNCHANGED <<registry, cron, selected, past>>

\* The journal tells of the target side before anything is made there.
Resync ==
  /\ At("resync")
  /\ touched' = TRUE
  /\ cmd' = Step(cmd)
  /\ UNCHANGED <<plan, res, noted, row, clusters, selected, past>>

\* first_backups, ensure_standby, write_carnets: steps named for what they make; a
\* snapshot is only for a volume that has no backup.
Made == {"snapshot", "backup"} \cup TargetKinds
There(kind, v) == <<kind, v>> \in objs \/ (kind = "snapshot" /\ <<"backup", v>> \in objs)
MakeObject(v) ==
  /\ cmd.at \in Made /\ Turn(v) /\ ~There(cmd.at, v)
  /\ Make(<<cmd.at, v>>)
  /\ UNCHANGED <<registry, cron, selected, past>>

\* Nothing to do for v, or nothing more.
Ready(v) ==
  /\ Turn(v)
  /\ \/ At("job") /\ JobReady(v) /\ Missing(v) = {}
     \/ cmd.at \in Made /\ There(cmd.at, v)
     \/ At("unlabel") /\ {<<"label", v>>, <<"job", v>>} \cap objs = {} /\ v \notin noted
  /\ cmd' = Done(cmd, v)
  /\ UNCHANGED <<registry, clusters, selected, past>>

\* _remove_jobs: label, job, then the label of group default where it is noted.
Delete(o) ==
  /\ o \in objs
  /\ \/ At("target") /\ o[1] \in TargetKinds
     \/ At("unsnap") /\ o[1] = "snapshot"
     \/ AtFor("unlabel", o[2]) /\ o[1] = "label"
     \/ AtFor("unlabel", o[2]) /\ o[1] = "job" /\ <<"label", o[2]>> \notin objs
     \/ /\ AtFor("unlabel", o[2]) /\ o[1] = "default"
        /\ o[2] \in noted /\ {<<"label", o[2]>>, <<"job", o[2]>>} \cap objs = {}
  /\ objs' = objs \ {o}
  /\ cron' = IF o[1] = "job" THEN [cron EXCEPT ![o[2]] = None] ELSE cron
  /\ UNCHANGED <<registry, cmd, selected, past>>

\* Mutant: the note goes before the label.
UnnotedFirst(v) == {<<"label", v>>, <<"job", v>>} \cap objs = {}
MayUnnote(v) == {<<"label", v>>, <<"job", v>>, <<"default", v>>} \cap objs = {}
Unnote(v) ==
  /\ AtFor("unlabel", v) /\ v \in noted /\ MayUnnote(v)
  /\ noted' = noted \ {v}
  /\ UNCHANGED <<plan, res, touched, row, clusters, cmd, selected, past>>

--------------------------------------------------------------------------------
(* Faults. *)

\* Out of the steps of Order: idle, and the handlers of a signal or an error.
Handlers == {"idle", "undo", "back", "failed", "errors", "error"}
Working == cmd.at \notin Handlers
Fault(kind) == kind \in Faults /\ past.faults < MaxFaults

\* The lists when a signal, or the failure of a call that took effect, comes
\* before the last thing made is in them.
Without(lost) ==
  LET made == cmd.undo.made  labels == cmd.undo.labels IN
  [made |-> IF made # <<>> /\ Last(made) \in lost THEN Front(made) ELSE made,
   labels |-> IF labels # <<>> /\ Last(labels) = lost THEN Front(labels) ELSE labels,
   noted |-> cmd.undo.noted,
   cron |-> [v \in VMs |-> IF <<"cron", v>> \in lost THEN None ELSE cmd.undo.cron[v]]]
Slip(lost) ==
  past' = [past EXCEPT !.faults = past.faults + 1, !.missed = past.missed \cup lost,
                       !.torn = past.torn \/ (cmd.cancelled /\ plan.state = "protected")]

\* SIGTERM: Cancelled, at any point.  Nothing is undone of measure-stop and
\* unprotect, and unprotect leaves the plan as it is.
Cancel ==
  /\ Fault("cancel") /\ Working
  /\ \E lost \in {{}, cmd.last} :
       /\ Slip(lost)
       /\ CASE cmd.op = "measure-stop" -> CloseRun /\ cmd' = [cmd EXCEPT !.at = "errors"]
            [] cmd.op = "unprotect" -> row' = row /\ cmd' = NoCmd
            [] OTHER -> /\ row' = row
                        /\ cmd' = [cmd EXCEPT !.at = "undo", !.cancelled = ~At("begin"),
                                              !.undo = Without(lost), !.last = {}]
  /\ UNCHANGED <<plan, res, noted, touched, clusters, selected>>

\* SIGUSR2, the console stops: at a safe point, or anywhere after a delay.
Suspend ==
  /\ Fault("suspend") /\ Working /\ ~At("begin")
  /\ \E lost \in {{}, cmd.last} :
       /\ Slip(lost)
       /\ row' = IF cmd.op \notin Suspendable THEN row
                 ELSE [op |-> cmd.op, undo |-> Without(lost), prev |-> cmd.prev, chosen |-> cmd.chosen,
                       was |-> cmd.was]
  /\ cmd' = NoCmd
  /\ UNCHANGED <<plan, res, noted, touched, clusters, selected>>

Fail ==
  /\ Fault("fail") /\ cmd.at \in {"job", "snapshot", "backup", "standby", "carnet", "target", "unlabel", "unsnap"}
  /\ \E lost \in {{}, cmd.last} :
       /\ Slip(lost)
       /\ cmd' = [cmd EXCEPT !.at = "failed", !.undo = Without(lost), !.last = {}]
  /\ UNCHANGED <<registry, clusters, selected>>

Listed(undo) == ToSet(undo.made) \cup UNION ToSet(undo.labels)

\* The process is lost: the row, if any, has the lists it had.
Kill ==
  /\ Fault("kill") /\ cmd # NoCmd
  /\ Slip(IF ~cmd.resumed THEN {}
          ELSE (Listed(cmd.undo) \ Listed(row.undo)) \cup cmd.last
               \cup {<<"cron", v>> : v \in {u \in VMs : cmd.undo.cron[u] # row.undo.cron[u]}})
  /\ cmd' = NoCmd
  /\ UNCHANGED <<registry, clusters, selected>>

\* A cluster does not answer unprotect: its side is left for another time.
Silent ==
  /\ Fault("silent")
  /\ \/ At("ask-target") /\ touched /\ cmd' = [Step(Step(cmd)) EXCEPT !.pending = TRUE]
     \/ At("ask-source") /\ cmd' = [Step(Step(Step(cmd))) EXCEPT !.pending = TRUE]
  /\ Slip({})
  /\ UNCHANGED <<registry, clusters, selected>>

--------------------------------------------------------------------------------
(* Undo and error. *)

\* _undo_created: labels, their notes, changed jobs but for those made since, then
\* what was made, each list from its end.  The labels of a volume go together.
ToUndo ==
  IF cmd.undo.labels # <<>> THEN Last(cmd.undo.labels)
  ELSE IF cmd.undo.noted # {} THEN {}
  ELSE IF \E v \in VMs : cmd.undo.cron[v] # None
    THEN {<<"cron", CHOOSE v \in VMs : cmd.undo.cron[v] # None>>}
  ELSE IF cmd.undo.made # <<>> THEN {Last(cmd.undo.made)} ELSE {}

Undo ==
  /\ At("undo") /\ ToUndo # {}
  /\ cmd' = [cmd EXCEPT !.undo = Without(ToUndo)]
  /\ objs' = objs \ ToUndo
  /\ cron' = [v \in VMs |->
                CASE <<"job", v>> \in ToUndo -> None
                  [] <<"cron", v>> \in ToUndo /\ <<"job", v>> \notin ToSet(cmd.undo.made) -> cmd.undo.cron[v]
                  [] OTHER -> cron[v]]
  /\ UNCHANGED <<registry, selected, past>>

\* What cannot be undone, or is still to be undone at the deadline, is reported.
UndoFails ==
  /\ Fault("undo") /\ At("undo") /\ ToUndo # {}
  /\ cmd' = [cmd EXCEPT !.undo = Without(ToUndo)]
  /\ Slip(ToUndo)
  /\ UNCHANGED <<registry, clusters, selected>>

UndoNotes ==
  /\ At("undo") /\ cmd.undo.labels = <<>> /\ cmd.undo.noted # {}
  /\ noted' = noted \ cmd.undo.noted
  /\ cmd' = [cmd EXCEPT !.undo = [cmd.undo EXCEPT !.noted = {}]]
  /\ UNCHANGED <<plan, res, touched, row, clusters, selected, past>>

UndoEnd ==
  /\ At("undo") /\ cmd.undo = NoUndo
  /\ CloseRun
  /\ cmd' = [cmd EXCEPT !.at = "back"]
  /\ UNCHANGED <<plan, res, noted, touched, clusters, selected, past>>

\* The interval the plan had, when it had one.
GiveBack ==
  /\ At("back")
  /\ plan' = IF cmd.op = "protect" /\ cmd.prev # None THEN [plan EXCEPT !.interval = cmd.prev] ELSE plan
  /\ cmd' = [cmd EXCEPT !.at = "errors"]
  /\ UNCHANGED <<res, noted, touched, row, clusters, selected, past>>

\* A resume that fails leaves its row open, with what it has made since.
Failed ==
  /\ At("failed")
  /\ IF cmd.op = "measure-stop" THEN CloseRun
     ELSE row' = IF cmd.resumed THEN [row EXCEPT !.undo = cmd.undo] ELSE row
  /\ cmd' = [cmd EXCEPT !.at = "errors"]
  /\ UNCHANGED <<plan, res, noted, touched, clusters, selected, past>>

\* _error: the resources of the command, then the plan.
Errors ==
  /\ At("errors")
  /\ res' = [v \in VMs |->
               IF v \in Works(cmd) \cap Known /\ res[v].state # "error" /\ MayBecome(v, "error")
               THEN [state |-> "error", origin |-> res[v].state] ELSE res[v]]
  /\ cmd' = [cmd EXCEPT !.at = "error"]
  /\ UNCHANGED <<plan, noted, touched, row, clusters, selected, past>>

SetError ==
  /\ At("error")
  /\ plan' = IF plan.state = "error" THEN plan ELSE [plan EXCEPT !.state = "error", !.origin = plan.state]
  /\ past' = [past EXCEPT !.undone = IF cmd.cancelled THEN cmd.was ELSE Unknown]
  /\ cmd' = NoCmd
  /\ UNCHANGED <<res, noted, touched, row, clusters, selected>>

--------------------------------------------------------------------------------
\* A VM leaves the selection: it is deleted, or its label removed.  While a command
\* runs it makes no difference: the selection is read at its start.
Leave(v) ==
  /\ cmd = NoCmd /\ v \in selected /\ Cardinality(VMs \ selected) < MaxLeaves
  /\ selected' = selected \ {v}
  /\ UNCHANGED <<registry, clusters, cmd, past>>

OnVM(v) ==
  \/ MakeRow(v) \/ RecordWorks(v) \/ UnprotectRow(v) \/ EndRows(v)
  \/ MakeJob(v) \/ PatchJob(v) \/ NoteDefault(v) \/ PutLabels(v) \/ MakeObject(v)
  \/ Ready(v) \/ Unnote(v) \/ Leave(v)

Next ==
  \/ \E op \in Commands \ {"failover"} : Start(op)
  \/ Resume \/ Begin \/ SetInterval \/ SetState \/ SetDone \/ StayPending \/ End \/ Untouched \/ Pass \/ Resync
  \/ \E v \in VMs : OnVM(v)
  \/ \E o \in Of(Kinds) : Delete(o)
  \/ Undo \/ UndoFails \/ UndoNotes \/ UndoEnd \/ GiveBack \/ Failed \/ Errors \/ SetError
  \/ Cancel \/ Suspend \/ Fail \/ Kill \/ Silent

Spec == Init /\ [][Next]_vars

--------------------------------------------------------------------------------
(* Properties. *)

Names(op) == Range(Order(op))
StepNames == {"begin", "interval", "state", "row", "job", "snapshot", "backup", "resync", "standby", "carnet",
              "mark", "ask-target", "target", "ask-source", "unlabel", "unsnap", "rows", "done", "end"}
Times == Intervals \cup {None}
Things == Of(Kinds \cup {"cron"})
Undos == [made : Seq(Of(Kinds)), labels : Seq(SUBSET Of(LabelKinds)), noted : SUBSET VMs,
          cron : [VMs -> Times]]
Found == [known : BOOLEAN, objs : SUBSET Of(Kinds), cron : [VMs -> Times], interval : Times]
Plans == [state : PlanStates, origin : PlanStates \cup {NoOrigin}, interval : Times]
States == [state : PlanStates \cup {"absent"}, origin : PlanStates \cup {NoOrigin}]
Rows == [op : Suspendable \cup {None}, undo : Undos, prev : Times, chosen : Times, was : Found]
Cmds == [op : Commands \cup {None}, at : StepNames \cup Handlers, works : SUBSET VMs, todo : SUBSET VMs,
         chosen : Times, prev : Times, resumed : BOOLEAN, undo : Undos, last : SUBSET Things,
         pending : BOOLEAN, cancelled : BOOLEAN, was : Found]

\* A command is at a step of its own or in a handler.
CmdOK ==
  /\ cmd \in Cmds /\ cmd.op # "failover"
  /\ cmd.op = None <=> cmd.at = "idle"
  /\ cmd.op # None => cmd.at \in Names(cmd.op) \cup Handlers
RegistryOK ==
  /\ plan \in Plans /\ res \in [VMs -> States] /\ noted \subseteq VMs /\ touched \in BOOLEAN /\ row \in Rows
ClustersOK == objs \subseteq Of(Kinds) /\ cron \in [VMs -> Times]
PastOK == past \in [undone : Found, torn : BOOLEAN, missed : SUBSET Things, faults : Nat, commands : Nat]

\* The types of the variables.
TypeOK == CmdOK /\ RegistryOK /\ ClustersOK /\ selected \subseteq VMs /\ PastOK

\* A cancelled protect or measure-start leaves both clusters and the interval of
\* the plan as they were before it, through any suspensions, failures and kills
\* of the executions it resumed, but for what it reported and what a signal or
\* a kill kept out of its lists (_undo_created, _load_undo).
CancelUndoesAll ==
  past.undone.known =>
    LET was == past.undone IN
    /\ \A o \in Of(Kinds) \ past.missed : o \in objs <=> o \in was.objs
    /\ \A v \in VMs : {<<"job", v>>, <<"cron", v>>} \cap past.missed = {} => cron[v] = was.cron[v]
    /\ was.interval # None => plan.interval = was.interval

\* What the console offers to resume, resume does not refuse for the state of
\* the plan (resumable and resume read the same states and rows).
ResumableIsAccepted ==
  cmd = NoCmd /\ Resumable => Precondition(Resumed, plan.state, plan.origin)

\* What the registry says is what the clusters have: a VM protected in a protected
\* plan has all that keeps it so, and an unprotected plan has left nothing but
\* backups, labels it has not put, and labels an undo reported.
WorldMatchesPlan ==
  cmd = NoCmd =>
    /\ plan.state = "protected" /\ ~past.torn =>
         \A v \in selected : res[v].state = "protected" =>
           /\ {"job", "label", "standby", "carnet"} \X {v} \subseteq objs
           /\ v \in Covered \cup Explicit => <<"default", v>> \in objs
    /\ plan.state = "unprotected" =>
         /\ {"default"} \X Explicit \subseteq objs
         /\ objs \subseteq Of({"backup"}) \cup ({"default"} \X Explicit) \cup (past.missed \cap Of({"default"}))

\* An unprotect that failed can be run again: "la déprotection, qui sait partir de
\* n'importe quel état, est sûre" (replication.py, error_exits).
UnprotectNeverStuck ==
  cmd = NoCmd /\ plan.state = "error" /\ plan.origin = "unprotecting" =>
    \A v \in Known : MayBecome(v, "unprotecting")
================================================================================
