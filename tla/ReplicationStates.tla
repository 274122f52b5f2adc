-------------------------- MODULE ReplicationStates --------------------------
(***************************************************************************)
(* The lifecycle rules of a replication plan and of its resources          *)
(* (bin/lib/replication.py): which state may follow which, what an error   *)
(* may lead to, and from which states each command starts.  The registry   *)
(* (replication_db.set_state, set_resource_state), the commands and the    *)
(* actions offered by the console all read these same tables.              *)
(***************************************************************************)

PlanStates == {"draft", "measuring", "protecting", "protected", "failing_over",
               "failed_over", "unprotecting", "unprotected", "error"}

(* No origin: the plan is not in error (an empty column error_origin). *)
NoOrigin == "none"

PlanTransitions ==
  [draft        |-> {"measuring", "protecting", "error"},
   measuring    |-> {"measuring", "draft", "protecting", "unprotecting", "error"},
   protecting   |-> {"protecting", "protected", "unprotecting", "error"},
   protected    |-> {"protecting", "failing_over", "unprotecting", "error"},
   failing_over |-> {"failing_over", "protected", "failed_over", "error"},
   failed_over  |-> {"unprotecting", "error"},
   unprotecting |-> {"unprotecting", "unprotected", "error"},
   unprotected  |-> {},
   error        |-> {"measuring", "protecting", "failing_over", "unprotecting"}]

(* A failover that ended in error may also be abandoned. *)
ErrorExtraExits(origin) ==
  IF origin = "failing_over" THEN {"unprotecting"} ELSE {}

ErrorExits(origin) ==
  IF origin \in PlanStates \ {"error"}
  THEN PlanTransitions["error"]
         \cap (PlanTransitions[origin] \cup {origin} \cup ErrorExtraExits(origin))
  ELSE {"unprotecting"}

TransitionAllowed(current, new, origin) ==
  IF current = "error" THEN new \in ErrorExits(origin)
                       ELSE new \in PlanTransitions[current]

Commands == {"measure-start", "measure-stop", "protect", "failover", "unprotect"}

CommandFrom(command) ==
  CASE command = "measure-start" -> {"draft", "measuring", "error"}
    [] command = "measure-stop"  -> {"measuring"}
    [] command = "protect"       -> {"draft", "measuring", "protecting", "protected", "error"}
    [] command = "failover"      -> {"protected", "failing_over", "error"}
    [] command = "unprotect"     -> PlanStates \ {"draft", "failing_over", "unprotected"}

(* The state each command brings the plan to while it works. *)
ActionState(command) ==
  CASE command = "measure-start" -> "measuring"
    [] command = "measure-stop"  -> "draft"
    [] command = "protect"       -> "protecting"
    [] command = "failover"      -> "failing_over"
    [] command = "unprotect"     -> "unprotecting"

(* replication_run._precondition: may this command start now? *)
Precondition(command, state, origin) ==
  /\ state \in CommandFrom(command)
  /\ state = "error" => ActionState(command) \in ErrorExits(origin)
=============================================================================
