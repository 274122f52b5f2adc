---------------------------- MODULE ActionStream ----------------------------
(* A tracked action and the dock that follows it: the run and its queue of   *)
(* events (web/app.py, ActionRun), the stream of /api/stream/<id>, the       *)
(* EventSource that reconnects (sse-reconnect.js) and the polls that open    *)
(* and close it (dock.js).  Events are numbered from 1 in the order they are *)
(* emitted; the lines shown are their numbers and the marks below.           *)
EXTENDS Integers, Sequences

CONSTANTS
  Keep,        \* events a run keeps in memory, 500 in the code
  Stored,      \* events written to SQLite, 200
  Shown,       \* lines the dock keeps, 80
  MaxRetries,  \* reconnections before giving up, 5
  MaxEvents, MaxDrops, MaxRestarts  \* bounds of the model

ASSUME SizesAssumption == Keep \in Nat \ {0} /\ Stored \in Nat \ {0} /\ Shown \in Nat \ {0}

End == 0
Retry == -1
Dead == -2

VARIABLES
  seq, events,    \* _seq, and the queue of the last events
  status, ended,  \* status, and whether ended_at is set
  closed,         \* _closed
  known,          \* the run is in ACTIONS
  row,            \* what SQLite has of it
  pc,             \* the thread of the action, and the one that cancels it
  conn, pos, wire,  \* the connection, its place in the queue, what it carries
  sse, attempt,   \* the EventSource helper and its count of retries
  active,         \* activeSSE has the run
  lines,          \* liveLogs of the run
  polls,          \* answers of /api/activity on their way
  drops, restarts

log == <<seq, events>>
run == <<status, ended, closed, known, row, pc>>
link == <<conn, pos, wire>>
dock == <<sse, attempt, active, lines>>
bounds == <<drops, restarts>>
vars == <<seq, events, status, ended, closed, known, row, pc, conn, pos,
          wire, sse, attempt, active, lines, polls, drops, restarts>>

Least(a, b) == IF a < b THEN a ELSE b
LastOf(n, s) == SubSeq(s, Len(s) - Least(n, Len(s)) + 1, Len(s))

NoRow == [events |-> <<>>, status |-> "none", ended |-> FALSE]

Init ==
  /\ seq = 1 /\ events = <<1>>
  /\ status = "running" /\ ended = FALSE /\ closed = FALSE
  /\ known = TRUE /\ row = NoRow
  /\ pc = [worker |-> "work", canceller |-> "idle"]
  /\ conn = FALSE /\ pos = 0 /\ wire = <<>>
  /\ sse = "off" /\ attempt = 0 /\ active = FALSE /\ lines = <<>>
  /\ polls \in {{}, {"absent"}}   \* a poll may have left before the action
  /\ drops = 0 /\ restarts = 0

-----------------------------------------------------------------------------
(* The run. *)

(* emit: the queue is a deque of Keep events. *)
Emitted ==
  /\ seq' = seq + 1
  /\ events' = LastOf(Keep, Append(events, seq + 1))

(* A line of the tool. A cancelled tool still talks while it undoes. *)
Emit ==
  /\ pc.worker = "work"
  /\ seq < MaxEvents
  /\ Emitted
  /\ UNCHANGED <<run, link, dock, polls, bounds>>

(* run_action_thread, once the process is gone: status; then ended_at and    *)
(* the last event; then close.                                               *)
Exit ==
  /\ pc.worker = "work"
  /\ status' = "done"
  /\ pc' = [pc EXCEPT !.worker = "exited"]
  /\ UNCHANGED <<log, ended, closed, known, row, link, dock, polls, bounds>>

Stamp ==
  /\ pc.worker = "exited"
  /\ ended' = TRUE
  /\ Emitted
  /\ pc' = [pc EXCEPT !.worker = "stamped"]
  /\ UNCHANGED <<status, closed, known, row, link, dock, polls, bounds>>

(* _action_request_cancel on an action with a process. *)
Cancel ==
  /\ pc.worker = "work" /\ pc.canceller = "idle"
  /\ status' = "cancelled"
  /\ Emitted
  /\ pc' = [pc EXCEPT !.canceller = "asked"]
  /\ UNCHANGED <<ended, closed, known, row, link, dock, polls, bounds>>

(* close, by either thread: the streams are told, then the row is written.   *)
Close(w) ==
  /\ pc[w] \in {"stamped", "asked"}
  /\ closed' = TRUE
  /\ pc' = [pc EXCEPT ![w] = "closed"]
  /\ UNCHANGED <<log, status, ended, known, row, link, dock, polls, bounds>>

Persist(w) ==
  /\ pc[w] = "closed"
  /\ row' = [events |-> LastOf(Stored, events), status |-> status, ended |-> ended]
  /\ pc' = [pc EXCEPT ![w] = "gone"]
  /\ UNCHANGED <<log, status, ended, closed, known, link, dock, polls, bounds>>

(* The console restarts: the run comes back from its row, closed, or is not  *)
(* known any more.                                                           *)
Restart ==
  /\ restarts < MaxRestarts
  /\ restarts' = restarts + 1
  /\ pc' = [worker |-> "gone", canceller |-> "gone"]
  /\ closed' = TRUE
  /\ conn' = FALSE /\ pos' = 0 /\ wire' = <<>>
  /\ IF row = NoRow
     THEN known' = FALSE /\ UNCHANGED <<log, status, ended>>
     ELSE /\ known' = TRUE
          /\ events' = row.events /\ seq' = Len(row.events)
          /\ status' = row.status /\ ended' = row.ended
  /\ UNCHANGED <<row, dock, polls, drops>>

-----------------------------------------------------------------------------
(* The stream: events_since, by absolute number.  The events that left the   *)
(* queue are skipped, not waited for.                                        *)
FirstNumber == seq - Len(events)
(* Mistake: one event too far. *)
SkipsOne(n) == SubSeq(events, (IF n > FirstNumber THEN n ELSE FirstNumber) - FirstNumber + 2,
                      Len(events))

EventsSince(n) ==
  LET start == IF n > FirstNumber THEN n ELSE FirstNumber
  IN  SubSeq(events, start - FirstNumber + 1, Len(events))

(* Mistakes: the end is told instead of what is left; close wakes nobody. *)
EndFirst ==
  /\ conn
  /\ pos < seq \/ closed
  /\ wire' = wire \o (IF closed THEN <<End>> ELSE EventsSince(pos))
  /\ pos' = seq
  /\ conn' = ~closed
  /\ UNCHANGED <<log, run, dock, polls, bounds>>

WaitsForEvents ==
  /\ conn
  /\ pos < seq
  /\ wire' = wire \o EventsSince(pos) \o (IF closed THEN <<End>> ELSE <<>>)
  /\ pos' = seq
  /\ conn' = ~closed
  /\ UNCHANGED <<log, run, dock, polls, bounds>>

(* One turn of the generator; the last one ends the stream. *)
Serve ==
  /\ conn
  /\ pos < seq \/ closed
  /\ wire' = wire \o EventsSince(pos) \o (IF closed THEN <<End>> ELSE <<>>)
  /\ pos' = seq
  /\ conn' = ~closed
  /\ UNCHANGED <<log, run, dock, polls, bounds>>

-----------------------------------------------------------------------------
(* sse-reconnect.js, with the handlers dock.js gives it. *)

Push(s, x) == LastOf(Shown, Append(s, x))

(* open, then onopen. The stream replays the queue from its start. *)
Open ==
  /\ sse = "connecting" /\ known
  /\ conn' = TRUE /\ pos' = 0 /\ wire' = <<>>
  /\ sse' = "open" /\ attempt' = 0
  /\ UNCHANGED <<log, run, active, lines, polls, bounds>>

(* Mistake: a dead stream stays in activeSSE. *)
DeadKept ==
  /\ attempt >= MaxRetries
  /\ sse' = "off" /\ attempt' = 0
  /\ lines' = Push(lines, Dead)
  /\ UNCHANGED active

(* onerror, then scheduleRetry. A dead stream leaves activeSSE: the next     *)
(* poll opens another.                                                       *)
GiveUp ==
  /\ attempt >= MaxRetries
  /\ sse' = "off" /\ active' = FALSE
  /\ lines' = Push(lines, Dead)
  /\ attempt' = 0

TryAgain ==
  /\ attempt < MaxRetries
  /\ sse' = "waiting" /\ attempt' = attempt + 1
  /\ lines' = Push(lines, Retry)
  /\ UNCHANGED active

Errored ==
  /\ GiveUp \/ TryAgain
  /\ conn' = FALSE /\ pos' = 0 /\ wire' = <<>>
  /\ UNCHANGED <<log, run, polls>>

(* The network drops the connection, or the attempt to open it. *)
Drop ==
  /\ sse \in {"connecting", "open"}
  /\ drops < MaxDrops
  /\ drops' = drops + 1
  /\ Errored
  /\ UNCHANGED restarts

(* 404, or the console that answered is gone. *)
Refused ==
  /\ \/ sse = "connecting" /\ ~known
     \/ sse = "open" /\ ~conn /\ wire = <<>>
  /\ Errored
  /\ UNCHANGED bounds

Timer ==
  /\ sse = "waiting"
  /\ sse' = "connecting"
  /\ UNCHANGED <<log, run, link, attempt, active, lines, polls, bounds>>

Receive ==
  /\ sse = "open" /\ wire # <<>>
  /\ wire' = Tail(wire)
  /\ lines' = Push(lines, Head(wire))
  /\ IF Head(wire) = End THEN sse' = "off" /\ active' = FALSE
                         ELSE UNCHANGED <<sse, active>>
  /\ UNCHANGED <<log, run, conn, pos, attempt, polls, bounds>>

-----------------------------------------------------------------------------
(* dock.js: poll, then render.  A run that is over is listed for a while,    *)
(* and only once ended_at is set.                                            *)
Running == known /\ status = "running"
Views ==
  IF Running THEN {"running"}
  ELSE {"absent"} \cup (IF known /\ ended THEN {"finished"} ELSE {})

PollAsked ==
  /\ \E v \in Views \ polls : polls' = polls \cup {v}
  /\ UNCHANGED <<log, run, link, dock, bounds>>

(* Answers come in any order. *)
PollAnswered(v) ==
  /\ v \in polls
  /\ polls' = polls \ {v}
  /\ \/ /\ v = "running" /\ ~active
        /\ sse' = "connecting" /\ attempt' = 0 /\ active' = TRUE
        /\ UNCHANGED link
     \/ /\ v = "absent" /\ active
        /\ sse' = "off" /\ active' = FALSE
        /\ conn' = FALSE /\ pos' = 0 /\ wire' = <<>> /\ attempt' = 0
     \/ /\ \/ v = "running" /\ active
           \/ v = "absent" /\ ~active
           \/ v = "finished"
        /\ UNCHANGED <<sse, attempt, active, link>>
  /\ UNCHANGED <<log, run, lines, bounds>>

Next ==
  \/ Emit \/ Exit \/ Stamp \/ Cancel \/ Restart
  \/ \E w \in {"worker", "canceller"} : Close(w) \/ Persist(w)
  \/ Serve
  \/ Open \/ Drop \/ Refused \/ Timer \/ Receive
  \/ PollAsked \/ \E v \in {"running", "finished", "absent"} : PollAnswered(v)

Spec == Init /\ [][Next]_vars

(* The console and the browser keep going, the network loses MaxDrops        *)
(* connections at most, and the dock keeps polling: its tab is shown.        *)
FairSpec ==
  /\ Spec
  /\ WF_vars(Serve) /\ WF_vars(Open) /\ WF_vars(Refused) /\ WF_vars(Timer) /\ WF_vars(Receive)
  /\ WF_vars(PollAsked)
  /\ \A v \in {"running", "finished", "absent"} : WF_vars(PollAnswered(v))

-----------------------------------------------------------------------------
(* Two lines in a row are two events in a row, unless those between had left *)
(* the queue (app.py, events_since) or a replay began. A console that         *)
(* restarts may have stored less than it showed.                             *)
NoHole ==
  \A i \in 1 .. Len(lines) - 1 :
     lines[i] > 0 /\ lines[i + 1] > lines[i] + 1 /\ restarts = 0
       => lines[i + 1] <= events[1]

(* The last word of a stream is the end of the run: when it says "end", the  *)
(* lines above are the last events. A tool that was cancelled talks after    *)
(* the end, and those lines are not shown.                                   *)
EndShowsAll ==
  /\ lines # <<>> /\ lines[Len(lines)] = End
  /\ known /\ pc.canceller = "idle"
  => LET n == Least(Shown - 1, Len(events))
     IN  /\ Len(lines) > n
         /\ SubSeq(lines, Len(lines) - n, Len(lines) - 1) = LastOf(n, events)

(* A stream of a run that is over ends, whatever was lost on the way and     *)
(* however far the queue ran ahead of it.                                    *)
StreamEnds == closed ~> sse = "off"

(* A run that works is followed, even after its stream gave up.              *)
RunningIsFollowed == Running ~> (sse # "off" \/ ~Running)
=============================================================================
