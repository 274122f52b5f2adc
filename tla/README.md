# Formal models of harvester-ops

harvester-ops is an operations console for SUSE Harvester clusters: a Flask
application (`web/app.py`) and a set of command line tools (`bin/`) that power
clusters down and up, transfer VMs, and replicate plans of VMs from a source
cluster to a target cluster through Longhorn backups. This directory holds
TLA+ models of the parts of it where order, failure and concurrency decide
whether the result is right, the TLC configurations that check them, and
proofs checked by TLAPS.

Line numbers refer to the repository at the commit these modules were written
for. `PROJECT.json` lists, for every definition, the lines it stands for; for
every property, the run that checks it and a change of the model that breaks
it; and, for the hazards found in the code, the properties that cover them. The
type invariants of the modules with proofs are theorems, and only checked in passing: none is run.

## Inventory

| Component | State it keeps | Operations, and with whom they interact | What is hard | What makes it correct |
|---|---|---|---|---|
| Replication commands, `bin/lib/replication_run.py` | the registry (below), Kubernetes objects of two clusters, Longhorn volumes and backups | `protect`, `measure_start/stop`, `failover`, `unprotect`, `resume` | many steps on two clusters, each may fail or be killed; signals; resume by a later process | a VM has one owner; nothing lost in a planned failover; an interrupted command is undone or finished |
| Registry, `bin/lib/replication_db.py` | SQLite: plans, resources, runs, locks, events, ticks | state changes through `replication.py`'s tables, `record_run`, `acquire_lock`, `lock_heartbeat`, `release_lock` | hosts with different clocks, dead processes, reused PIDs | one command per plan; a legal state graph; an open run for each interrupted command |
| Lifecycle tables, `bin/lib/replication.py` | none (pure) | `transition_allowed`, `error_exits`, `COMMAND_FROM` | the states a command may start from against those it leaves | an interrupted command is always one that may run again |
| Follower, `bin/lib/replication_follow.py` | lease, tick rows (one per backup of a disk), what it remembers of a round | reads the backups of the source and the engines of the target, records the passes, asks the target to read a pass again (`syncRequestedAt`), calls passes applied or skipped; it deletes nothing on the clusters and does not look at the lock of the plan | a lease taken over in the middle of a round; a command that starts in the middle of a round; silent clusters; late disks | disks of a VM are moved to a pass together; what is called applied is on the standby volume and stays so; it catches up |
| Notifications, `replication_notify.py` | queue with attempts | sends, retries, gives up | duplicated or lost messages | each event at most once per channel, or reported |
| Console actions, `web/app.py` (`ActionRun`), `web/static/js/dock.js`, `sse-reconnect.js` | running processes, their events in a queue that drops the oldest, SQLite history; in the browser the open streams and the lines shown | start, cancel, close by either thread, adoption after a restart; a stream per client that starts at event 0; retries; a poll every few seconds that opens and closes streams | threads, a client that connects in the middle, a queue that overflows, a console restart, polls answered late | a client sees the events in order without a hole, and the end; a running action is followed; a stream ends |
| Shared reads, `web/read_share.py` | values kept for a time, readings under way, a generation per cluster and an epoch | `get` (kept value, join a reading, or read), `invalidate` of a cluster or of all | a write during a reading; a reading forgotten while others wait for it | nobody gets a state older than the last invalidation before the call; one reading at a time; everybody returns |
| Addresses and navigation, `web/static/js/routes.js`, `router.js`, `app.js` | the address bar, its history, the queue of navigations, the screen (tab, cluster, host, pane, filter) | `parse`, `format`; `go`, `apply`, `hashchange`, `syncFromScreen` | navigations that wait for a host or a cluster while others are asked; hosts that disappear | the screen is the one asked last; its address opens it again |
| Power sequencing, `bin/harvester-{shutdown,startup}.sh`, `bin/lib/common.sh` | state files, cluster annotations | ordered phases with waits and timeouts | failure in the middle, run again | VMs stop before volumes, volumes before nodes; startup restores what ran |
| Node maintenance, `web/node_maintenance.py` | node cordon and pools | enter, leave, cancel | drains that do not end | a node returns as it was |
| VM transfer, `bin/lib/vm_transfer_run.py` | disks copied, temporary objects | copy between platforms, cleanup | cancel at any step | the source survives; no temporary object stays |
| VNC multiplexer, `web/vnc_mux.py` | viewers, keyboard owner, frame buffers | join, leave, take control | slow viewers, owners that leave | one keyboard owner |
| Folders journal, `bin/lib/folders_db.py` | a journal line per bulk action | do, undo, resume | partial failure of a bulk action | undo restores what the journal says |
| Bookings, `bin/lib/bookings_db.py` | reservations | book, release, expire | capacity against what runs | no overbooking |
| Self update, `bin/lib/self_update.py` | staged versions | stage, switch, roll back | killed during a switch | one whole version is in place |
| Deployment plans and chain, `deploy_plans.py`, `deploy_chain.py` | chain state | run the next action, stop, resume | a failed link | order of the links |
| Cluster API, Forklift, KVM, bare metal, Terraform, artefacts, registries | objects of other systems | mostly one call each, and rendering of manifests | waits on external controllers | — |
| Accounts, single sign-on, secrets | sessions and stored secrets | — | — | left out of this project |
| Screens of a cluster, `app.js`, `veil.js` | the current cluster, lists, an edit under way, the veil | load, periodic refresh, switch, bulk actions | answers that come after a switch or after an edit began | — (listed as hazards) |
| Other front end (forms, lists, `i18n.js`), tests, documentation, packaging | — | — | — | shows what the API returns, or is not part of the running program |

How they interact: the console starts the command line tools as processes and
reads their JSON lines; the tools share SQLite files (the replication registry,
folders, bookings); the follower is a long process that shares the registry
with the replication commands and steps aside through the plan option `paused`
and the plan state; everything else happens through Kubernetes objects on the
clusters.

## What is modelled

| Module | Models | Extends / uses |
|---|---|---|
| `ReplicationStates` | state graph of plans and resources, exits of an error, the states a command starts from | — |
| `ReplicationHandover` | abstract: what a planned failover promises to the owner of a VM | — |
| `ReplicationFailover` | the failover, step by step, with its rollback, its resume and its environment | `ReplicationStates`; `INSTANCE ReplicationHandover` |
| `ReplicationProtect` | measure, protect, unprotect, and resume of them: what they make, undo, leave and remember | `ReplicationStates` |
| `ReplicationLock` | the plan lock and the guarded start of every mutating command | — |
| `ReplicationWaves` | what a failover does after its activation: waves, gates, hooks, and their resume | — |
| `ReplicationFollow` | the rounds of several followers of one plan, beside a failover | — |
| `SharedReads` | abstract: what a shared reading promises to its caller | — |
| `ReadShare` | the cache of readings of the console | `INSTANCE SharedReads` |
| `ActionStream` | one action, its events, the stream of it and the dock that shows it | — |
| `Routes` | the grammar of addresses, both ways | — |
| `Navigation` | the router of the pages, its queue and the address bar | `Routes` |
| `MC...` | the instances TLC checks | |
| `...Proofs` | theorems and proofs, one module per component; `NavigationProofs` is about `Routes` and `MCNavigation` too | TLAPS |

### ReplicationFailover and the code

Variables, in groups:

* registry — `plan`, `origin`, `res`, `resOrigin` (`plans.state`,
  `plans.error_origin` and the same of `plan_resources`), `run` (the failover
  row of `runs` as far as it is open: mode, force, VMs, `points.final`,
  `points.at`, `points.paused_before`), `paused` (plan option);
* source — `srcVM`, `note` (the annotation that says how the VM ran before it
  was stopped), `job` (the recurring backup job and its volume label);
* data — `written`, `backup`, `finalBackup`, `applied`: versions, not contents.
  A guest's write makes a new version, a backup holds one, a standby volume has
  applied one;
* target — `activated`, `tgtVM`; and `srcUp`, `dstUp`: does each API answer;
* command — `pc` and `cmd`, the locals of `failover` that a crash loses;
* history — `wish` (the pause settings a failover found or a person gave since),
  `ran`, `asked`, `reported`: what people wanted, and what an undo reported as
  not done. The program does not read them.

A `pc` label is a point between two effects on the registry or on a cluster.
The labels in order: `open` (run row), `mark`, `marks`, `hold` (plan, VMs,
follower), `survey`, `fence`/`stop`/`job` per VM, `final`, `save`, `apply` (or
`sync` when unplanned), `points`, `late`, `record`, `arm`, `activate`,
`bring`/`tag`/`land` per VM, `settle`, `finish`, `restore`, `close`, `unlock`.
The exception handler is `Handler`: `undo`/`restart` per VM, `unmark`,
`unplan`, `unrestore`, `unclose` before an activation; `keep`, `fail` after.
`Cancel` is an exception at any forward point (signal, timeout, failed call),
`CallFails` one that follows from an API that does not answer, `Crash` the end
of the process. An exception before the `try` block only ends the process.

Abstractions, and why they keep the meaning of the properties:

* waves and hooks are a module of their own (`ReplicationWaves`); health checks
  of VMs are delays and data around `BringUp`, and carnets (stored VM definitions) are data; VMs of one wave and of another
  come up in any order here, which allows more than the code;
* disks are activated in any order, each by a step of its own;
* the deadline of the rollback and a VM that cannot be put back are one action,
  `UndoFails`, with the report the code makes;
* `LateFenceDone` also stands for a source that fails in the middle of the late
  fence, which the code only warns about;
* a final backup taken earlier by the same run keeps its name; the code changes
  the name of a snapshot that failed, so `TakeFinal` may keep the old version
  or take a new one. This choice belongs to Longhorn and the code cannot tell;
* a VM that its owner keeps stopped is not started on the target either;
  `tgtVM = "running"` stands for "brought up there";
* `PauseSet` is `plan set --paused`, refused while a command holds the lock and
  accepted in every state between two commands, an interrupted failover
  included; the other settings of `plan set` do not matter here;
* the plan lock is taken for granted here: `pc = "idle"` before a start. That it
  deserves it is what `ReplicationLock` is about;
* the initial state is the one after a successful `protect`.

`Rest` is the stutter of an idle plan: nobody is obliged to run a command.

### ReplicationLock and the code

A process is a PID slot of a host; `born` counts its incarnations (the process
start date kept in `locks.pid_start`). `lock` is the row, its age counted in
ticks since the last heartbeat; `Ahead` is how much the clock of a host is
ahead. A command is `out`, has `read` the plan, is `locked`, or is at `work`.
`Sleep` is `Ctx.sleep`: it renews the row once a third of the TTL has passed.
`MaxGap` is the longest time a command may go without `Ctx.sleep`: it is not a
constant of the code, it is what the calls made between two sleeps amount to.

### ReplicationProtect and the code

Registry: `plan` (state, origin of an error, interval), `res` (rows of
`plan_resources`), `noted` (`volumes.default_label_added`), `touched` (an event
of the target side in the journal, which is all `_touched_target` looks at),
`row` (the open `interrupted` row of `runs`: operation, undo lists, values of
the plan before it, interval of a measure). Clusters: `objs`, pairs of a kind
and a VM (job, labels of its volume, snapshot, backup, standby volume, carnet),
and `cron`, the interval of each recurring job. `cmd` is the command that holds
the lock: `at` is its step in `Order`, `todo` the VMs the step has left,
`undo` the four lists of `Ctx`, `last` what it made and has just put in them.
`selected` are the VMs the plan selects, read at the start of a command.

A step makes one thing: a row, an object, a patch. What is there is kept
(`Ready`), so that a resume goes through the same steps. `Cancel` is SIGTERM,
which may strike anywhere, between a call and its note in the lists included
(`lost`); `Suspend` is the stop of the console, at a safe point or, by the alarm
that backs it, anywhere; `Fail` a call that fails, having taken effect or not;
`Kill` the end of the process. The handlers follow: `undo`, `back` for the
values of the plan, `failed` for the row of a failed resume, `errors` and
`error` for the rows and the plan (`_error`). `past` is history: the world
before the command that is being undone, and `missed`, what an undo reported or
a list never held.

Abstractions: a VM has one disk; retention is a second value like the interval;
backing images, statistics of the measures and the wait for a restore leave no
state that another step reads; the first backup of a volume is made by the
command and is whole; unprotect does not delete backups, and no VM has failed
over (that belongs to `ReplicationFailover`). One command runs at a time: that
is what the lock is for. The interval of a resumed protect is any, as
`_choose_interval` reads it from a measure or from the plan.

### ReplicationHandover

Four owners, `source`, `held`, `committed`, `target`, and the contents of the
disks where they count. The only way forward from `held` is a commitment that
takes the contents as they are, and nothing leaves `committed` but towards
`target`. `ImplementsHandover` maps a VM with an activated volume to
`committed`, and maps a VM that would run on both sides to an owner the
abstract module does not have, so that such a step is refused.

### ReplicationWaves and the code

After the point of no return `failover` records its points, activates, joins
the scope (`SetScope`: points, previous run and VMs that go), and walks through
the points `start`, wave 1 .. n, the implicit last wave, `end`. `point` is
where it stands, `pc` what it does there (`hooks`, `called` between a call and
its record, `wave`, `bring`, `gate`). `run` is the row of `runs` (VMs,
`points.scope`, `points.hooks_done`), `cmd` the locals that die with the
process. `SkipWave` is a wave of which the failover has no VM, `PassWave` one
started by an earlier execution. `Kill` leaves the row as it is, `Interrupt`
saves what the handler saves. What a hook answers does not matter: the code
only warns. `told` is history: calls, gates, VMs refused for their skew, stops.

### ReplicationFollow and the code

One plan and one VM. A pass is a number (the slot of the interval): passes of
two disks with the same number belong together. `backup` and `restored` are
the source and the standby volumes, `tick` the registry, `lease` its holder,
`mem[f]` the round of a follower: what it has read (`src`, `eng`), its view of
the registry, what it still has to record, to ask (`todo`) or to call applied
(`apply`). A round is `Begin`, `Read`, `ReadTicks`, `Record`; then for each disk
to move `Check` (`_still_mine`), `Patch`, `Note`; then `MarkApplied` and `Skip`;
then `Renudge` with its own checks and patches; then `End`.

Abstractions: the backups and the engines are read in one step although they
are two lists; the records of a round are one write, and so are the skips; a
lease is lost by being taken over (`TakeOver`), which stands both for the
option of that name and for a holder that spent more than three rounds in one
call; the lease of a dead follower is free at once. The failover beside
the followers is its state (`mode = "moving"`), its final passes
(`RecordFinal`, `MarkFinal`) and its rollback. `upsets` bounds everything that
goes wrong: one per behaviour, wherever it falls.

### ReadShare, SharedReads and the code

`done` and `flight` are the two tables under the lock, `gen` and `epoch` the
counters of invalidations, `mark` the pair a thread read when it began, `got`
what its loader returned. A value is a version of the cluster; `settled` is
the version at the last invalidation, and `floor` what a call may expect at
least. Time is not modelled: each call gives the age it accepts, so a
call may use a kept value or find it too old, and pruning removes any half. `SharedReads` keeps only calls: a
call that asks when version `n` has been settled returns a version of at least
`n`, or an error. `KeepsPromise` maps each call onto it.

### ActionStream and the code

One action, one browser. `Emit`, `Exit`, `Stamp`, `Close`, `Persist` are the
thread of the action (`run_action_thread`), `Cancel` the request of a person,
which closes too; `Restart` is a new process of the console that knows the run
from its row. `Serve` is a turn of the generator of `/api/stream` with
`events_since`; `wire` is what the connection carries and may lose. The
browser: `sse` is the state of `SSEReconnect`, `active` the entry of
`activeSSE`, `lines` what is shown; `polls` are the answers of `/api/activity`
under way, each as of the moment it was made, so that they come in any order.
`Keep` and `Stored` are the sizes of the queue and of the row.

Abstractions: the threads that read the output of the tool are joined before
the end of the action; progress events, `cancel_waits`, child actions and the
forgetting of old actions after an hour are left out.

### Routes, Navigation and the code

`Routes` is `routes.js`: an address is a sequence of segments, some of them
reserved words, others names; `Parse` gives a route or nothing, `Format` the
address of a route. `Navigation` is `router.js` over it: `bar` is the address
bar, `events` the `hashchange` events not yet delivered, `queue` the
navigations that wait, `jobs` the one under way with what it waits for (the
list of hosts, or the first status of a new cluster), `screen` what is shown,
`panes` the tab localStorage keeps for each section, `known` and `there` the
clusters the page knows and those the server lets it see. Back, a link and a typed address are one action, `Visit`: any address of
the set may come back. `drift` records the two ways in which the address and
the screen are known to part: see below.

Abstractions: segments are taken decoded, and the rules for names of hosts and
identifiers are two sets of words they refuse, the empty word among them. The
tables of `routes.js` are the words they list. `IMPORT_PANES[b]` and
`AUTOMATION_PANES[b]` are lookups in plain objects, which also find the members
every object inherits: `#harvester/<c>/imports/constructor` is accepted by the
code and refused by the model, so what is said of every address leaves these
few words out.

## Runs

Passing runs (a few seconds each, the longest about two minutes):

| Run | Instance | Checks | Shows |
|---|---|---|---|
| `failover_one_fault` | 2 VMs, 1 disk each, planned, 1 fault of any kind, 2 changes of the pause setting, fairness | `PauseHandedBack`, `NoSplitBrain`, `ActivatedNotUndone`, `ActivatedKeepsItsRun`, `InterruptedIsSettled`, `ImplementsHandover` | never both sides running; an activated VM is never taken back, and resume knows of it; an interrupted failover settles; the follower is handed back with a setting a person gave; the failover implements the hand-over, its liveness included |
| `failover_two_faults` | same, 2 faults, a person may start a source VM once | `InterruptedKeepsItsRun`, `FailedOverIsServed`, `UndonePutsBack`, `BothSitesUpCanFinish` | what the registry says is true of the clusters after an interrupted resume or rollback |
| `failover_data` | 1 VM of 2 disks, either mode, 2 kills or losses of the source | `ZeroLoss`, `LossReportConservative` | a planned move loses nothing the guest wrote; the points kept are never later than what was activated |
| `failover_waves` | 3 VMs in 2 waves and the implicit one, hooks at 4 points, 2 stops | `HookAfterItsWave`, `RememberedHooksAreNotRecalled`, `OneStopOwesNoHook`, `GateOrStop`, `WavesInOrder` | waves start in order, hooks come after their wave, a remembered hook is not called again |
| `protect` | 2 VMs, one covered by the group `default` and one labelled with it, 2 intervals, 4 commands, 2 faults of any kind, 1 VM that leaves the selection | `CancelUndoesAll`, `ResumableIsAccepted`, `WorldMatchesPlan` | a cancel puts everything back through any chain of resumes; what can be resumed is accepted; protected and unprotected mean it on both clusters |
| `plan_lock` | 3 PID slots, 2 hosts, clocks 1 tick apart, prompt commands, fairness | `OneCommandAtATime`, `WorksOnWhatItRead`, `AbandonedCanBeTaken` | one command per plan, none on a stale reading; a lock left behind comes to be seen as abandoned from every host |
| `follow` | 2 followers, 2 disks, 2 passes (one of them of one disk), 2 backups, 1 upset, fairness | `BarrierHolds`, `LostAsksAtMostOnce`, `AppliedIsRestored`, `AppliedStays`, `CatchesUp` | disks are moved together, an overtaken follower makes at most one request more, applied passes are real and stay, the plan is caught up |
| `read_share` | 2 threads, 2 clusters, fairness | `ReadOnce`, `FlightsLand`, `CallsReturn`, `KeepsPromise` | nobody reads the past, nobody reads twice, everybody returns |
| `action_stream` | an action longer than its queue, 2 lost connections, 1 restart, fairness | `NoHole`, `EndShowsAll`, `StreamEnds`, `RunningIsFollowed` | the dock shows the events in order and the end, a running action is followed, each stream ends |
| `navigation` | links, Back, buttons, tabs, reloads, hosts that come and go, fairness; every address of four segments, of five under a host, over thirty-one segments, one of them empty | `AddressIsScreen`, `LastAskedShown`, `ReloadKeepsScreen`, `NavigationsEnd` | the screen is the one asked last, with its address but in two cases; each screen has an address that opens it |

Two runs find what the code does against what the repository says of it:

| Run | Sentence | Behaviour |
|---|---|---|
| `resume_moves_others` | resume takes the run's VMs (`replication_run.py:3387`) | the only VM of the run has moved when the failover is killed or cancelled; the empty scope is taken for no scope, and resume moves the other VMs |
| `unprotect_stuck` | unprotect starts from any state (`replication.py:181`, `replication_run.py:3174`) | two VMs are measured, the measure is stopped, one leaves the selection and the other is measured or protected: unprotect fails on the row of the first, still `draft` (`:3228`), and so does every later unprotect, from `error` |

Behaviours the models have, for which no run is kept.

Failover:

* an unplanned failover fences a live source (`--force-unplanned`), is killed,
  its resume is cancelled: the local that says the source was touched (`:2897`)
  is gone, nothing is rolled back, and the source VM stays stopped in a plan
  called protected. `UndonePutsBack` is checked for planned failovers;
* killed during the activation, resumed, and the resume is cancelled before it
  has looked at the standby volumes (`:2690`): it rolls back. Two faults are
  needed; `ActivatedNotUndone` is checked with one;
* cancelled once the final backup is applied; the rollback starts the source
  and is killed; the resume finds the old final backup applied (`:2695`), does
  not fence, and activates while the source writes. `ZeroLoss` is checked
  without cancellations;
* killed after the pause of the follower and before the first save of the run
  (`:2676`): the resume takes that pause for the person's. `PauseHandedBack`
  takes what such a resume finds for a person's (`WishFound`);
* an interrupted planned failover whose source has gone: the open planned run
  refuses an unplanned one (`:2953`), and the planned one needs the source,
  although the actions of `failing_over` offer to finish it as unplanned;
* a failover stopped between its last VM and the end of its run says "run
  failover again to finish" (`:2914`), but every VM has failed over, `_select`
  refuses with `no-vm` (`:2285`), and neither a failover nor `resume` is
  accepted. `InterruptedIsSettled` therefore counts a run with nothing left to
  move as settled;
* with the follower paused by a person before a failover and set running again
  while that failover is interrupted, the resume pauses it (`:2684`), restores
  the setting kept with the run (`:2675`) and so leaves it paused.
  `PauseHandedBack` accepts either of the two settings.

Protect and unprotect:

* between a call and its note in the lists a signal leaves what was made
  unlisted: the cancel neither undoes nor reports it (`replication_run.py:1049`,
  `:1021`). `CancelUndoesAll` excepts what `missed` holds;
* `_undo_created` clears `default_label_added` (`:959`) also when the removal of
  the label has failed: the label is reported, and no unprotect will remove it;
* a suspension by the alarm or a kill between the last state of a protect and
  the closing of its row leaves the row open in a protected plan: the console
  offers to resume it, and the cancel of that resume deletes the standby
  volumes of a plan that was protected. Killed during such an undo, the plan
  still says protected; `WorldMatchesPlan` excepts that (`torn`);
* resumed, a protect started with `--interval` takes the interval of the measure
  or the plan's, since its row does not keep it; and a plan without interval is
  not given back its absence (`:2082`);
* a cancelled measure-stop says that running it again ends the measure
  (`:1460`), but it cannot start from `error`: only a resume, which starts the
  measure again, or an unprotect;
* a failover closes no interrupted row: with the row of a protect still open,
  resume of an interrupted failover runs protect, which is refused from
  `failing_over`. `ReplicationProtect` has no failover, so this is not checked.

Waves:

* two stops without a hook between them lose the scope: the row written before
  the activation (`:2799`) names only the VMs left and `points.scope` was never
  recorded, so the hooks of the wave of the first execution are never called.
  `OneStopOwesNoHook` is about one stop;
* a stop between the last VM of a wave and its gate: the resume passes that
  wave without its gate. `GateOrStop` excepts it;
* an unplanned resume in which the only VM of a wave is refused for its skew
  still calls the hooks of that wave.

Follower:

* the records of a round are not guarded by the lease, whatever `_still_mine`
  says ("Sinon plus rien n'est écrit pour ce plan"): after a take-over in the
  middle of a round a late `Note` can turn a skipped pass into a completed and
  asked one. It is then asked for again and reported late until a newer pass
  is applied. Applied passes are safe (`AppliedStays`);
* killed between `mark_applied` and the skip of the older passes, it leaves
  them completed until a newer pass is applied.

Navigation: the address and the screen part when a navigation sent back to the
index of the hosts rewrites the address while a later one waits (`router.js:233`),
and when a tab is pressed during a navigation (`router.js:330`).

Lock: with `MaxGap = 5` in `Lock.cfg`, a command that does not pass through
`Ctx.sleep` for longer than the TTL works on beside the host that took its
lock: `Ctx.sleep` (`:249`) drops the answer of `lock_heartbeat`. This is why
`Exclusion` has its assumption.

### Bounds

`MaxWrites` 1 or 2 makes the data of a guest differ from a backup before and
after a final one: a third version would only repeat the second. Faults are
counted together: one reaches every handler, two interrupt a resume or a
rollback. Three, a loss of the source among them, already reach the
stale final backup without a cancellation, which is why `failover_data` stops at two. Two VMs of one
disk make loops over VMs and a scope smaller than the plan; one VM of two disks
makes partly activated VMs and disks out of step. `MaxRestarts` and
`MaxPauses` bound what people do. The lock has a second incarnation of a PID
and hosts that disagree by one tick, with a TTL of three: the smallest numbers
for which a third of a TTL, a skew and a gap are different things.

`protect` needs four commands for a command, two resumes and the unprotect, or
for the measure, its stop, a protect and its end; two faults interrupt a resume. Two
VMs make a command half done, and cover the two ways a volume is in the group
`default`. Without faults four commands reach the stuck unprotect.

The waves need two VMs in one wave (a stop inside it), a third VM after it, and
a hook at each of the four points; a third stop repeats the second. `follow` has
a pass both disks share and one that only one disk has, so that a disk is late,
missing or ahead; with one upset more the run outgrows five minutes. The
queue of `action_stream` is one shorter than the events of the action, so that
the oldest one is lost, and the row holds one event less than the queue.
`read_share` has a key of each of two clusters, so that an invalidation
concerns one and spares the other; `MaxEntries` 2 makes pruning happen.
`navigation` lets one navigation and one event wait behind the one under way:
more would wait behind those.

### Fairness

`FairSpec` of the failover assumes that a process which has not died goes on
(`Forward`, `Backward`), that Longhorn restores a backup it has been given
(`StandbyApplies`), that a lost cluster comes back, and that an interrupted
failover is resumed by someone. Nothing is assumed of people starting
failovers, of guests or of the recurring job. The fairness of `Resume` is weak:
it is due only while it stays possible. `InterruptedIsSettled` ends in
"settled, or every VM of its run has moved": the second case is the one above
where nothing can end it any more.

`FairSpec` of the lock assumes that time passes and that a live command
reaches its check and `Ctx.sleep`. Death, start and requests are never assumed.

`FairSpec` of the follower: each follower goes on with its round and is started
again when it has ended (systemd restarts it). The clusters answer in the end
because upsets are bounded. `FairSpec` of the readings: a reading ends, with a
value or an error, because `kubectl` runs under a timeout; invalidations and
writes are never assumed. `FairSpec` of the stream: the generator, the browser
and its timers go on, and the dock keeps polling; the network loses only
`MaxDrops` connections, and the action itself need not end. `FairSpec` of the
navigation: requests return and the browser delivers its events. A request that
never returned would hold the queue for good.

### Scope of the properties

`ZeroLoss` and `NoSplitBrain` hold of planned failovers with any number of kills,
or with one fault of any kind (proved), and `ZeroLoss` with two kills or losses
of the source (checked); a third fault, or a kill next to a cancellation,
breaks it. Both are about failovers in which nobody starts a source VM
outside the program: nothing in the code looks at the source again
between its fence and the activation, and an unplanned failover says that it
loses what was not backed up. `UndonePutsBack` holds for planned failovers.
`ActivatedNotUndone`, `ActivatedKeepsItsRun` and `LossReportConservative` hold
with one fault of any kind, or with any number of kills and losses of the
source; a kill and then a cancellation break the first. Each of these
behaviours is under Runs.

`NoHole` and `EndShowsAll` except what the code cannot give: a console that
restarts may have stored less than it showed, and a tool that was cancelled
talks after the end it was given. `LostAsksAtMostOnce` is one and not none: the
lease is looked at before the request, not with it.

## What is proved

For every number of VMs, disks, faults and writes (`ReplicationFailoverProofs`)
under the assumptions `DisksAssumption` and `BoundsAssumption` — a VM has its
own disks, at least one, and every disk is a disk of a VM:

* `TypeCorrect`: `Spec => []TypeOK`. It needs a strengthening, `BeforeSet`:
  once the run row is open, the pause setting to restore is known; without it
  `RestorePaused` could write `"unset"`.
* `FailedOverServed`: `Spec => []FailedOverIsServed`. The invariant `ServedInv`
  adds what the loop knows: from `bring` on every volume of the VMs that go is
  activated, and at `tag` and `land` the VM in hand runs on the target. Two
  lemmas carry it: nothing deactivates a volume or stops a target VM
  (`TargetOnlyGrows`), and `StateMoves` lists the changes of state of a VM, of
  which only `Land` makes it failed over.
* `InterruptedHasRun`: `Spec => []InterruptedKeepsItsRun`. `RunInv` says which
  labels require an open row, so that the order of the registry writes (run row
  before plan, plan before the closing of the row) is what makes it true.
* `PauseGivenBack`: `Spec => []PauseHandedBack`. `PauseInv` follows the setting
  from where it was found to the local `before` and the row, through the marks,
  where the row does not have it yet.
* `CanFinish`: `Spec => []BothSitesUpCanFinish`. `ModeInv`: the
  row names a mode in play, and no VM gets into a state which no failover takes.
* `UndoneIsPutBack`: `Spec => []UndonePutsBack`, for planned failovers.
  `UndoneInv` says of each VM of the command what is left to put back, by its
  place: whatever has been taken from the source is noted on it (`note`, `job`),
  so that a rollback by another process than the one that took it puts it back
  too. In an unplanned failover the note that something was taken is a local,
  and a kill loses it (under Runs).

What the failover promises beyond that depends on the faults. Two ways in which
the code may undo what it must not are named as conditions on steps:

* `LooksFirst`: no command sends to undo, before its survey of the standby
  volumes, VMs of which one is activated;
* `RollbackEnds`: a rollback of VMs that have final backups is not left before
  the run which names these backups is closed.

With enough faults of the right kinds the code violates each of them, and then
the properties fail as described under Runs (the second and the third
behaviour of the failover). The proof has two halves. Given that each step
satisfies the conditions, `LookedInv` and `HandoverInv` are inductive and give
the properties, for any faults. And the conditions hold of every step in the
following cases, each by an invariant of its own: of `LooksFirst`, when
`FaultKinds` has only kills and losses of the source (`TargetUpLooks`: only a
cancellation, or a target that does not answer, ends the search early), or when
`MaxFaults <= 1` (`LookInv`: a command that finds an activated volume comes after
the one fault); of both, when there are only kills, or when `MaxFaults <= 1`
(`FreshInv`, `MarkedInv`: a rollback is started by a fault, and the registry
accepts all it writes). Hence

* with any number of kills and losses of the source, or one fault of any kind,
  in both modes: `ActivatedRunKept` (`ActivatedKeepsItsRun`), `ActivatedStays`
  (`ActivatedNotUndone`) and `LossConservative` (`LossReportConservative`).
  `LookedInv` relates the flag `armed`, the VMs found activated (`done`) and the
  row to the standby volumes, label by label (`SafeInv`), and says that a point
  is kept for a disk before it is activated and is not overtaken (`PointsInv`);
* with any number of kills, or one fault of any kind, for planned failovers when
  nobody starts a source by hand: `OneSideRuns` (`NoSplitBrain`), `NothingLost`
  (`ZeroLoss`) and `HandsOver`: `Spec => Handover!Spec`, the step simulation of
  `ReplicationHandover`, without its fairness. `HandoverInv` adds to
  `LookedInv` the invariant `VolumesInv`: a final backup named by a run in which
  the source is not being put back was made of a stopped source and holds all
  it wrote (`FinalsInv`), each VM of the command is still to be fenced, fenced, or
  known by such backups (`FenceInv`), and so at `activate` every VM that goes
  is settled: stopped, with all it wrote on its volumes.

`OneSideRuns` and `NothingLost` do not cover the loss of a source next to
kills, which `failover_data` checks for two faults: there a rollback can be left
because its source does not answer, and only the number of faults tells that
the run it leaves is harmless.

For every number of processes and hosts (`ReplicationLockProofs`):

* `TypeCorrect`: the row is whole or absent and a dead process has no command.
* `Exclusion`: `OneCommandAtATime`, assuming `PromptEnough`:
  `3 * (MaxGap + MaxSkew) <= 2 * TTL`. The longest stretch without `Ctx.sleep`
  plus the clock difference must be within two thirds of the TTL, because a
  renewal may be due a third of the TTL before it is made. `LockInv` says that
  the row belongs to whoever is at work and that its age is bounded by the
  time since the last renewal. That some condition is needed is shown under Runs.
* `FreshWork`: `WorksOnWhatItRead`, from the same invariant: only the holder
  writes, so that what `_lock_checked` read again stays true.

For any VMs, waves, hooks and number of stops (`ReplicationWavesProofs`):
`TypeCorrect`; `NoHookTwice` (`RememberedHooksAreNotRecalled`), from an invariant
that counts the calls of a hook against its record, the local `done` and the
stops that fell between the two; `HooksFollow` (`HookAfterItsWave`) and
`OrderOfWaves` (`WavesInOrder`), from one invariant that says which waves are up
when the command stands at a point, kept by stops because only `moved`, which
no stop takes back, is used; `GatesFirst` (`GateOrStop`): an activated VM is never
left out again, so that a wave of which a VM has moved is at hand, gated, cut by
a stop, or still has an activated VM waiting (`Accounted`); and `NoHookForgotten`
(`OneStopOwesNoHook`): up to the first stop the row and the execution name
together all VMs the failover was taken on for (`Scoped`), and the hooks of the
points behind the command are remembered, which `Memory` says were called, or are
those of a wave without a VM in that scope (`Owed`). A second stop breaks
`Scoped`, which is the behaviour described under Runs.

For any threads, keys and clusters (`ReadShareProofs`): `ReadShareTypeCorrect`,
`ReadsAreShared` (`ReadOnce`), `NobodyIsForgotten` (`FlightsLand`), `TablesAreFresh`
(`KeptIsFresh`) and `PromiseKept`: `Spec => KeepsPromise`, the step simulation of
`SharedReads`. The invariant relates the mark of a reading to the generations:
a reading whose mark is still current saw a version not older than the one
settled last, and one whose mark is old is in no table; a caller waits only
for a reading begun after the invalidation it counts on.

For any followers, disks, passes and number of upsets
(`ReplicationFollowProofs`): `TypeCorrect`; `Barrier` (`BarrierHolds`),
`AtMostOneStray` (`LostAsksAtMostOnce`), `AppliedIsReal` (`AppliedIsRestored`)
and `AppliedForever` (`AppliedStays`). The clusters only go forward (`Ahead`: a
backup that has ended has ended, a standby volume never goes back, a pass stays
overdue), so the invariant says of everything a follower remembers that it is
behind the clusters, never ahead: true when it was read, it stays true however
long the round takes and whoever writes meanwhile. That is why the barrier
needs no lease. The lease bounds only the requests: `Leased` says that a
follower which has passed its check has made no stray request yet.

For any VMs, intervals, faults and number of commands
(`ReplicationProtectProofs`), from the assumption `ProtectAssumption`:

* `TypeCorrect`: a command is always at a step of its own or in a handler.
* `ResumableAccepted` (`ResumableIsAccepted`). The invariant `ReachOK` says in
  which states a command, and the row it leaves open, find the plan, an error
  counting as the state it came from; it holds because a command past its begin
  finds no row but its own, which is why unprotect too must close the rows of
  others (the mutant).
* `PlanMovesAccepted`: set_state never refuses a command the state it sets, nor
  the error it ends in. `PlaceOK` relates the state of the plan to the place of
  the command before, between and after its changes of state. The model of the
  commands, which has no branch for such a refusal, rests on it.

What these commands leave on the clusters (the second half of
`ReplicationProtectProofs`), with the invariants above:

* `CancelUndone` (`CancelUndoesAll`). The invariant `PromiseInv` rests on one
  relation, `Promised`, between the lists of a command, what it found, and the
  clusters as they are: an object is there and in no list exactly when it was
  there before, and the interval a job gets back is the one it had; only what
  `past.missed` names, which a signal, a kill or a reported failure kept out of
  the lists, is excepted. Every step that makes something keeps it because
  the object is new and goes into its list with it; every step of the undo keeps
  it because it takes from the clusters what it takes from the list; a loss of the
  last entry because that entry is then missed. While a command runs, the promise
  is about its own lists and the row it resumes promises nothing but that it
  names no object that was there before; a kill falls back on that row, and what the
  command had listed more is missed (`PromiseOfRow`). With empty lists the promise
  is the property.
* `RegistryTellsClusters` (`WorldMatchesPlan`). `WorldInv` says of protect which
  VMs each loop has done with and what they have (`MakingOK`: a row, then a job
  with its labels, then a standby, then a log book), of unprotect what each of its
  steps has cleared, unless a cluster did not answer (`UnmakingOK`), and between
  the commands that a label of the group default is there whenever the label is,
  and is noted or missed (`LabelsOK`), and that nothing is on the clusters for a VM
  without a row, nor on the target before the journal tells of it (`ThingsOK`).
  The last two are what lets unprotect find all it must take away: it walks the
  rows, asks the target only if touched, and takes a default label only if noted.
  The undo keeps them because labels that were put together are taken together
  and because, by `Promised`, a label is not in the lists only if it was there
  before (`ListsOK`).

For any sizes of the queue and of the dock, any number of retries and any length
of the action (`ActionStreamProofs`): `ShowsNoHole` (`NoHole`) and `EndIsLast`
(`EndShowsAll`). Neither is inductive: a line arrives that was put on the wire
when the queue was another one. `Core` is therefore about what was told, the
lines shown and then the words on the wire, read as one list from its end: a
stream that started has told every event up to its place, back to the oldest of
the queue or as far as the dock keeps lines (`Followed`), no two of its words
have a hole between them (`Chained`), and the end is the last word of a wire whose
place is the last event (`WireOK`), which no event follows unless somebody
cancelled (`Settled`). The queue only moves forward, so what was told stays true
(`QuietKeeps`); a connection cut or begun leaves nothing on the wire
(`CutKeeps`). The invariant, like the two properties, promises nothing after a
restart of the console; TLC checked it (`StreamInv`) before the proof, with
queues and docks of 2 to 4.

For any hosts, addresses, words and length of the queue (`NavigationProofs`),
from `RulesAssumption` (no rule accepts an empty name) and `HostsAssumption`
(declared hosts obey the rule for names):

* `FormatParse`: `parse` reads what `format` writes. `Readable` lists the routes
  `parse` gives (`ParseReadable`: it gives no other), and for each of them the
  address is put together and read back.
* `EveryAddressReopens`, and `ReloadGivesTheScreen` (`ReloadKeepsScreen`), which
  is the same for the words and lengths of an instance. `OnScreen` lists the
  screens that routes and what the browser remembers can make
  (`ResolveReadable`); `HashOpens`: the address `screenHash` writes of each opens that
  screen again whatever the browser remembers by then, and the addresses of 1.x
  are read as routes like the others.
* `AddressGivesTheScreen` (`AddressIsScreen`) and `LastAskedIsShown`
  (`LastAskedShown`). Both speak of a router at rest and say nothing of one that
  works, so the invariant says for each stage of a navigation what will be true
  when it ends. `JobsInv`: there is one navigation at most, its reading is of the
  address it was asked for, that address is the last asked if none waits behind
  it, and once its screen is shown the screen is of its route. `AskedInv`: the last
  that waits is the last asked; with none, the menus and the screen agree on it.
  `BarInv`: unless the browser has an event to deliver or the address has
  drifted, the bar is the last that waits, else the one under way, or opens the
  screen. `StateInv` bounds the rest: a section is on the tab that localStorage
  keeps for it, or a reload would open another. TLC checked the invariant
  before the proof, on the instance of the run.

Only model-checked: of the failover what lies outside the constants of its theorems (`ZeroLoss` with losses of the
source, or in an instance that also has unplanned failovers), and what is out
of the prover's reach: liveness under fairness and `ENABLED` (`InterruptedIsSettled`,
`AbandonedCanBeTaken`, `CallsReturn`, `CatchesUp`, `StreamEnds`,
`RunningIsFollowed`, `NavigationsEnd`, the fairness of the hand-over). No module
has a RECURSIVE operator.

## Not modelled yet

In the order of the plan:

1. The rest of `ReplicationProtect`: backing images, deletion of the backups,
   `unprotect` of an abandoned failover, and its composition with
   `ReplicationFailover`.
2. `ClusterScreens`: the requests of the screens of a cluster against a switch
   and against an edit, with the veil; the hazards are in `PROJECT.json`.
3. `PowerSequence`: shutdown and startup phases with their state file.
4. `VMTransfer`, `VncMux`, `FoldersJournal`: cancel and cleanup; keyboard
   ownership; undo and resume of a bulk action.
5. The rest of the follower (statistics, health, measuring), child actions and
   `cancel_waits` of the console, notifications.
6. Bookings, self update, deployment chain, Terraform state locks, as far as
   they keep state of their own.

Not planned: rendering of Kubernetes objects and manifests, one-call commands
(Harvester resources, KVM, registries, artefacts), accounts and secrets, forms
and lists of the web front end, and `i18n.js`, a table of translations that is
nearly half of the browser code. They keep no state over which steps could
interleave, or their state is another system's.
