--------------------------- MODULE ReplicationWaves ----------------------------
(***************************************************************************)
(* The end of a failover (bin/lib/replication_run.py, failover, after the  *)
(* activation): the VMs are brought up wave by wave, each wave waits at    *)
(* its gate, and HTTP hooks are called at the points between them.  A      *)
(* failover stopped there is resumed by another execution, which knows     *)
(* what its row of table runs and the states of the VMs tell.              *)
(*                                                                         *)
(* The points of a failover are numbered in their order: Start, the waves  *)
(* 1 to N of the plan, the implicit wave N + 1 of the VMs listed in none,  *)
(* and End.  What comes before the activation is ReplicationFailover's.    *)
(***************************************************************************)
EXTENDS Naturals, Sequences, FiniteSets

CONSTANTS
  VMs,        \* the VMs of the plan
  Waves,      \* the waves of the plan: a sequence of disjoint sets of VMs
  Hooks,      \* the hooks a plan may have
  At,         \* [Hooks -> Points]: the point of a hook
  Rank,       \* [Hooks -> Nat]: its place in the plan
  Skewed,     \* the VMs whose disks may be found too far apart
  MaxStops    \* bound: how often the failover is killed or stopped

Start == 0
Implicit == Len(Waves) + 1
End == Len(Waves) + 2
Points == Start..End

ASSUME WavesAssumption ==
  /\ Waves \in Seq(SUBSET VMs)
  /\ At \in [Hooks -> Points] /\ Rank \in [Hooks -> Nat]
  /\ Skewed \subseteq VMs /\ MaxStops \in Nat
  /\ "none" \notin Hooks
  /\ \A m, n \in DOMAIN Waves : m # n => Waves[m] \cap Waves[n] = {}   \* _waves

VARIABLES
  hooks,    \* the hooks of the plan
  active,   \* VMs whose standby volumes are activated, for good
  moved,    \* VMs brought up on the target and said failed_over
  run,      \* the row of the failover: open, vms, points.scope, points.hooks_done
  pc,       \* where the execution is
  point,    \* the point it has reached
  cmd,      \* its locals: sel, go, prev, scope, done, and the hook being called
  told      \* history of this failover, which the program does not read

vars == <<hooks, active, moved, run, pc, point, cmd, told>>

NoHook == "none"
NoRun == [open |-> FALSE, vms |-> {}, scope |-> {}, done |-> {}]
NoCmd == [sel |-> {}, go |-> {}, prev |-> {}, scope |-> {}, done |-> {}, hook |-> NoHook]

\* What happened since the failover was asked for: the VMs its row has named, those
\* left out for their skew, how often each hook was called, and stopped between
\* its call and its record, the waves whose gate was waited for, those a stop cut
\* after their last VM, and the number of stops.
Untold == [taken |-> {}, refused |-> {}, calls |-> [h \in Hooks |-> 0], unsaved |-> [h \in Hooks |-> 0],
           gated |-> {}, cut |-> {}, stops |-> 0]

PCs == {"idle", "record", "scope", "hooks", "called", "wave", "bring", "gate", "finish"}

--------------------------------------------------------------------------------
(* What the code computes. *)

Listed == UNION {Waves[n] : n \in DOMAIN Waves}

\* The VMs of a wave among those of a failover: failover_waves.
InWave(n, refs) == IF n = Implicit THEN refs \ Listed ELSE Waves[n] \cap refs

OpenScope == run.vms \ moved

\* The hooks still to call at a point, in the order of the plan: hooks_at, and
\* what run_hooks skips.
Due(n) == {h \in hooks : At[h] = n /\ h \notin cmd.done}
First(hs) == {h \in hs : \A other \in hs : Rank[h] <= Rank[other]}

\* The scope of a failover: what earlier executions took with them counts.
\* Mutant: without the VMs of the row found open.
OwnScope == cmd.scope \cup cmd.go
Scope == cmd.scope \cup cmd.prev \cup cmd.go

\* record_run with the points of this execution.
Record(done) == [open |-> TRUE, vms |-> cmd.sel, scope |-> cmd.scope, done |-> done]

--------------------------------------------------------------------------------
(* Executions of the command. *)

Init ==
  /\ hooks \in SUBSET Hooks
  /\ active = {} /\ moved = {} /\ run = NoRun
  /\ pc = "idle" /\ point = Start /\ cmd = NoCmd
  /\ told = Untold

\* An execution on the VMs S that reaches the reading of their points, with
\* the row it found open or has opened.  Unplanned, VMs whose disks are too
\* far apart are left out of it.
Execute(S, row, prev, before) ==
  \E skewed \in SUBSET ((S \cap Skewed) \ active) :
    /\ S \ skewed # {}
    /\ run' = row
    /\ cmd' = [sel |-> S, go |-> S \ skewed, prev |-> prev, scope |-> row.scope,
               done |-> row.done, hook |-> NoHook]
    /\ pc' = "record" /\ point' = Start
    /\ told' = [before EXCEPT !.taken = @ \cup row.vms, !.refused = @ \cup skewed]
    /\ UNCHANGED <<hooks, active, moved>>

\* A person fails VMs over while no failover is open.
Failover(S) ==
  /\ pc = "idle" /\ ~run.open
  /\ S # {}
  /\ Execute(S, [NoRun EXCEPT !.open = TRUE, !.vms = S], {}, Untold)

\* A failover goes on with the row found open: on what is left of it, by resume
\* or by the same command; with nothing left, on any other VMs of the plan.
Resume(S) ==
  /\ pc = "idle" /\ run.open
  /\ S # {} /\ (OpenScope # {} => S = OpenScope)
  /\ Execute(S, run, run.vms, told)

\* The points read are saved before the activation, with the VMs of this
\* execution in place of those of the one before.
RecordPoints ==
  /\ pc = "record"
  /\ pc' = "scope"
  /\ run' = Record(cmd.done)
  /\ told' = [told EXCEPT !.taken = @ \cup cmd.sel]
  /\ UNCHANGED <<hooks, active, moved, point, cmd>>

\* The standby volumes of each VM, one VM after the other.
Activate(v) ==
  /\ pc = "scope" /\ v \in cmd.go \ active
  /\ active' = active \cup {v}
  /\ UNCHANGED <<hooks, moved, run, pc, point, cmd, told>>

\* After the activation: points["scope"], in memory until a record.
SetScope ==
  /\ pc = "scope" /\ cmd.go \subseteq active
  /\ pc' = "hooks"
  /\ cmd' = [cmd EXCEPT !.scope = Scope]
  /\ UNCHANGED <<hooks, active, moved, run, point, told>>

\* run_hooks: the call, then the record of it.
CallHook ==
  /\ pc = "hooks" /\ Due(point) # {}
  /\ pc' = "called"
  /\ \E h \in First(Due(point)) :
       /\ cmd' = [cmd EXCEPT !.hook = h]
       /\ told' = [told EXCEPT !.calls[h] = @ + 1]
  /\ UNCHANGED <<hooks, active, moved, run, point>>

\* Mutant: the hook is remembered by the execution only.
RememberHere ==
  /\ pc = "called"
  /\ pc' = "hooks"
  /\ cmd' = [cmd EXCEPT !.done = @ \cup {cmd.hook}, !.hook = NoHook]
  /\ UNCHANGED <<hooks, active, moved, run, point, told>>

RememberHook ==
  /\ pc = "called"
  /\ pc' = "hooks"
  /\ cmd' = [cmd EXCEPT !.done = @ \cup {cmd.hook}, !.hook = NoHook]
  /\ run' = Record(cmd.done \cup {cmd.hook})
  /\ UNCHANGED <<hooks, active, moved, point, told>>

HooksCalled ==
  /\ pc = "hooks" /\ Due(point) = {}
  /\ IF point = End THEN pc' = "finish" /\ point' = point
                    ELSE point' = point + 1 /\ pc' = IF point + 1 = End THEN "hooks" ELSE "wave"
  /\ UNCHANGED <<hooks, active, moved, run, cmd, told>>

\* A wave without a VM of this failover, skipped with its hooks.
SkipWave ==
  /\ pc = "wave" /\ InWave(point, cmd.scope) = {}
  /\ point' = point + 1 /\ pc' = IF point + 1 = End THEN "hooks" ELSE "wave"
  /\ UNCHANGED <<hooks, active, moved, run, cmd, told>>

\* A wave with VMs of this failover and none of this execution: started by an
\* earlier one, only its hooks are left.
PassWave ==
  /\ pc = "wave" /\ InWave(point, cmd.scope) # {}
  /\ InWave(point, cmd.scope) \cap cmd.go = {}
  /\ pc' = "hooks"
  /\ UNCHANGED <<hooks, active, moved, run, point, cmd, told>>

EnterWave ==
  /\ pc = "wave" /\ InWave(point, cmd.scope) \cap cmd.go # {}
  /\ pc' = "bring"
  /\ UNCHANGED <<hooks, active, moved, run, point, cmd, told>>

Waiting == (InWave(point, cmd.scope) \cap cmd.go) \ moved

\* Mutant: the VMs of all waves at once.
BringUpAny(v) ==
  /\ pc = "bring" /\ v \in cmd.go \ moved
  /\ moved' = moved \cup {v}
  /\ UNCHANGED <<hooks, active, run, pc, point, cmd, told>>

BringUp(v) ==
  /\ pc = "bring" /\ v \in Waiting
  /\ moved' = moved \cup {v}
  /\ UNCHANGED <<hooks, active, run, pc, point, cmd, told>>

\* Mutant: the gate is opened by the first VM of the wave.
FirstBroughtUp ==
  /\ pc = "bring" /\ InWave(point, cmd.scope) \cap cmd.go \cap moved # {}
  /\ pc' = "gate"
  /\ UNCHANGED <<hooks, active, moved, run, point, cmd, told>>

BroughtUp ==
  /\ pc = "bring" /\ Waiting = {}
  /\ pc' = "gate"
  /\ UNCHANGED <<hooks, active, moved, run, point, cmd, told>>

\* Mutant: the hooks of a wave do not wait for its gate.
GateForgotten ==
  /\ pc = "gate"
  /\ pc' = "hooks"
  /\ UNCHANGED <<hooks, active, moved, run, point, cmd, told>>

\* The gate is passed, or an agent gate has waited long enough.
PassGate ==
  /\ pc = "gate"
  /\ pc' = "hooks"
  /\ told' = [told EXCEPT !.gated = @ \cup {point}]
  /\ UNCHANGED <<hooks, active, moved, run, point, cmd>>

\* The end of the command: the row is closed, the VMs left out are protected.
Finish ==
  /\ pc = "finish"
  /\ pc' = "idle"
  /\ run' = [Record(cmd.done) EXCEPT !.open = FALSE, !.vms = cmd.go]
  /\ cmd' = NoCmd
  /\ UNCHANGED <<hooks, active, moved, point, told>>

--------------------------------------------------------------------------------
(* The ways an execution stops. *)

Stop(row) ==
  /\ pc # "idle" /\ told.stops < MaxStops
  /\ run' = row
  /\ pc' = "idle" /\ cmd' = NoCmd
  /\ told' = [told EXCEPT !.stops = @ + 1,
                          !.cut = IF pc \in {"bring", "gate"} /\ Waiting = {} THEN @ \cup {point} ELSE @,
                          !.taken = @ \cup row.vms,
                          !.unsaved = [h \in Hooks |-> told.unsaved[h] + IF h = cmd.hook THEN 1 ELSE 0]]
  /\ UNCHANGED <<hooks, active, moved, point>>

\* The process is killed: what it had in memory is lost.
Kill == Stop(run)

\* A signal, a stop of the console or a call that fails.  After an activation
\* the handler saves the points it has and the plan goes to error, to be
\* resumed; before, the failover is undone and its row closed.
Interrupt == Stop([Record(cmd.done) EXCEPT !.open = cmd.sel \cap active # {}])

\* Nobody is obliged to resume: an idle plan may stay as it is.
Rest == pc = "idle" /\ UNCHANGED vars

Next ==
  \/ \E S \in SUBSET (VMs \ moved) : Failover(S) \/ Resume(S)
  \/ RecordPoints \/ SetScope
  \/ \E v \in VMs : Activate(v) \/ BringUp(v)
  \/ CallHook \/ RememberHook \/ HooksCalled
  \/ SkipWave \/ PassWave \/ EnterWave
  \/ BroughtUp \/ PassGate \/ Finish
  \/ Kill \/ Interrupt \/ Rest

Spec == Init /\ [][Next]_vars

--------------------------------------------------------------------------------
(* Properties. *)

\* The row, the locals and the history are of their types; a VM brought up has
\* been activated, and a hook is at hand only between its call and its record.
TypeOK ==
  /\ hooks \subseteq Hooks /\ active \subseteq VMs /\ moved \subseteq active
  /\ run \in [open : BOOLEAN, vms : SUBSET VMs, scope : SUBSET VMs, done : SUBSET Hooks]
  /\ pc \in PCs /\ point \in Points
  /\ cmd \in [sel : SUBSET VMs, go : SUBSET VMs, prev : SUBSET VMs, scope : SUBSET VMs,
              done : SUBSET Hooks, hook : Hooks \cup {NoHook}]
  /\ told \in [taken : SUBSET VMs, refused : SUBSET VMs, calls : [Hooks -> Nat], unsaved : [Hooks -> Nat],
               gated : SUBSET Points, cut : SUBSET Points, stops : Nat]
  /\ (cmd.hook # NoHook) = (pc = "called")

\* A VM is brought up only when the VMs of the earlier waves that its failover
\* takes along are up, whatever stopped and resumed in between (the loop on
\* failover_waves, replication_run.py).
WavesInOrder ==
  [][\A v \in moved' \ moved : \A n \in 1..Implicit : v \in InWave(n, VMs) =>
       \A m \in 1..(n - 1) : InWave(m, told.taken) \subseteq moved \cup told.refused]_vars

\* A hook of a wave is called only when each VM the failover was taken on for
\* in this wave is up, or was left out of an execution for its skew ("after
\* wave n passed its gate", docs/en/capabilities.md).
HookAfterItsWave ==
  pc = "called" /\ point \in 1..Implicit =>
    InWave(point, told.taken) \subseteq moved \cup told.refused

\* A hook is called again only after a stop that fell between its call and the
\* record of it: every later execution knows of the calls recorded, by whatever
\* record_run they were saved and saved again (run_hooks, points.hooks_done).
RememberedHooksAreNotRecalled ==
  \A h \in Hooks : told.calls[h] <= 1 + told.unsaved[h]

\* A failover stopped at most once that comes to its end has called every hook
\* of its start, of its end and of each wave with a VM it has moved: those of a
\* wave that was interrupted stay due (comment of `scope`, replication_run.py).
OneStopOwesNoHook ==
  pc = "finish" /\ told.stops <= 1 =>
    \A h \in hooks : \/ told.calls[h] > 0
                     \/ At[h] \in 1..Implicit /\ InWave(At[h], told.taken) \cap moved = {}

\* A wave starts when the earlier ones have been through their gate, but for
\* those a stop cut between their last VM and their gate.
GateOrStop ==
  pc = "bring" => \A m \in 1..(point - 1) :
    InWave(m, told.taken) \subseteq told.refused \/ m \in told.gated \cup told.cut

================================================================================
