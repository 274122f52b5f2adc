------------------------- MODULE ReplicationFollow -------------------------
(***************************************************************************)
(* The follower of a protected plan (bin/lib/replication_follow.py): it    *)
(* reads the backups of the source and what the standby volumes have       *)
(* restored, keeps the passes in the registry, and asks the target to read *)
(* a pass again once every disk of the VM has finished it (the barrier).   *)
(* Several followers may run; a lease says whose plan it is.  Followers    *)
(* die, lose the lease while they are slow, and work on while a failover   *)
(* starts, because they read the state of the plan once in a round.        *)
(*                                                                         *)
(* One plan and one VM.  A pass is its number: pass s of every disk falls  *)
(* in the same slot of the interval, and times are compared as passes.     *)
(* Health, statistics, selectors, carnets, the measuring phase and disks   *)
(* which never back up are left out.                                       *)
(***************************************************************************)
EXTENDS Naturals, FiniteSets

CONSTANTS Followers, Disks,
          First,                         \* the follower which has the plan at first
          Cells,                         \* the backups there may be: <<disk, pass>>
          MaxBackups, MaxUpsets

ASSUME FollowAssumption ==
  /\ MaxBackups \in Nat /\ MaxUpsets \in Nat
  /\ Cells \subseteq Disks \X (Nat \ {0}) /\ IsFiniteSet(Cells)
  /\ First \in Followers
  /\ {"nobody", "gone"} \cap Followers = {}

VARIABLES backup,      \* the backups on the source, by disk and pass
          restored,    \* the newest pass the standby volume of a disk holds
          overdue,     \* passes whose first backup is older than the barrier
          tick,        \* the registry: state of a pass, and whether it was asked for
          lease,       \* who holds the plan
          mode,        \* what the plan tells a follower which begins a round
          mem,         \* what each follower has in memory in its round
          upsets       \* what has disturbed the followers so far

vars == <<backup, restored, overdue, tick, lease, mode, mem, upsets>>

Passes == {c[2] : c \in Cells}
Of(d) == {c \in Cells : c[1] = d}
BackupStates == {"none", "in_progress", "completed", "error"}
TickStates == BackupStates \cup {"applied", "skipped"}
NoRow == [state |-> "none", asked |-> FALSE]
NoMem == [pc |-> "idle", read |-> {}, down |-> FALSE, todo |-> {}, apply |-> {}, cell |-> {}, strays |-> 0,
          src |-> [c \in Cells |-> "none"], eng |-> [d \in Disks |-> 0],
          view |-> [c \in Cells |-> NoRow]]

Init ==
  /\ backup = [c \in Cells |-> "none"]
  /\ restored = [d \in Disks |-> 0]
  /\ overdue = {}
  /\ tick = [c \in Cells |-> NoRow]
  /\ lease = First
  /\ mode = "followed"
  /\ mem = [f \in Followers |-> NoMem]
  /\ upsets = 0

\* A cluster which does not answer or refuses, a backup in error, a death,
\* a lease taken over, a pause, a failover: MaxUpsets of them, of any kind.
Upset == upsets < MaxUpsets /\ upsets' = upsets + 1

----------------------------------------------------------------------------
(* Rows of the registry and the view a round has of them.                  *)

\* Faulty: the last write wins.
RecordedLast(row, state) == [row EXCEPT !.state = state]

\* record_tick: a pass which is applied never goes down.
Recorded(row, state) == IF row.state = "applied" THEN row ELSE [row EXCEPT !.state = state]

\* A later pass of the disk is applied: this one is past.
Past(view, d, s) == \E c \in Of(d) : c[2] > s /\ view[c].state = "applied"

\* The backups whose pass the registry lacks or has in another state.
Unrecorded(src, view) ==
  {c \in Cells : /\ src[c] # "none"
                 /\ IF view[c].state = "none" THEN ~Past(view, c[1], c[2])
                    ELSE view[c].state \notin {"applied", "skipped", src[c]}}

\* The open entries of a pass, and the disks it still waits for.
Entries(view, s) ==
  {d \in Disks : /\ <<d, s>> \in Cells /\ view[<<d, s>>].state \in {"in_progress", "completed", "error", "applied"}
                 /\ ~Past(view, d, s)}
\* Faulty: a disk which has no backup in the pass is not waited for.
LateListed(view, s) == {d \in Entries(view, s) : view[<<d, s>>].state = "in_progress"}
Late(view, s) ==
  {d \in Disks : IF d \in Entries(view, s) THEN view[<<d, s>>].state = "in_progress"
                 ELSE ~Past(view, d, s)}
Closed(read, view, s) ==
  /\ Entries(view, s) # {}
  /\ Late(view, s) = {} \/ (s \in overdue /\ "source" \in read)
Requested(read, view) ==
  {c \in Cells : /\ Closed(read, view, c[2])
                 /\ c[1] \in Entries(view, c[2])
                 /\ view[c] = [state |-> "completed", asked |-> FALSE]}

\* Faulty: what was asked for is taken to be applied.
AppliedWhenAsked(m, view) == {c \in Cells : view[c] = [state |-> "completed", asked |-> TRUE]}

\* Faulty: what was restored without being asked for is not looked at.
AppliedIfAsked(m, view) ==
  {c \in Cells : "engines" \in m.read /\ m.eng[c[1]] = c[2] /\ view[c] = [state |-> "completed", asked |-> TRUE]}

\* The passes the engines hold and the registry does not call applied.
Applicable(m, view) ==
  {c \in Cells : /\ "engines" \in m.read /\ m.eng[c[1]] = c[2]
                 /\ view[c].state \in {"in_progress", "completed", "skipped"}}

\* What the rest of the round looks at.
Open(view) == [c \in Cells |-> IF view[c].state \in {"in_progress", "completed"} THEN view[c] ELSE NoRow]

\* The newest pass of each disk which was asked for and is not applied.
Waiting(m) ==
  LET open == {c \in Cells : m.view[c] = [state |-> "completed", asked |-> TRUE]}
  IN {c \in open : \A e \in open : e[1] = c[1] => e[2] <= c[2]}

At(f, pc) == mem[f].pc = pc
Go(f, m) == mem' = [mem EXCEPT ![f] = m]
EndRound(f) == Go(f, NoMem)

----------------------------------------------------------------------------
(* A round.                                                                *)

\* take_lease: its own, free, or its holder is gone, in which case it is
\* too old some time later.
Take(f) ==
  /\ lease' = f
  /\ Go(f, IF mode = "paused" THEN NoMem ELSE [NoMem EXCEPT !.pc = "read"])

Begin(f) ==
  /\ At(f, "idle") /\ mode # "moving" /\ lease \in {f, "nobody", "gone"}
  /\ mode = "paused" => lease # f     \* else the round does nothing
  /\ Take(f)
  /\ UNCHANGED <<backup, restored, overdue, tick, mode, upsets>>

\* Its holder is alive: it spends longer in one call than the three rounds
\* a lease lasts, or this follower was started with take_over.
TakeOver(f) ==
  /\ At(f, "idle") /\ mode # "moving" /\ f # First /\ lease \in Followers \ {f}
  /\ Upset
  /\ Take(f)
  /\ UNCHANGED <<backup, restored, overdue, tick, mode>>

\* One list of the backups of the source, then one of the engines of the
\* target; a cluster may not answer.
Read(f) ==
  /\ At(f, "read")
  /\ \E answers \in SUBSET {"source", "engines"} :
       /\ Go(f, [mem[f] EXCEPT !.pc = "ticks", !.read = answers, !.down = "engines" \notin answers,
                            !.src = IF "source" \in answers THEN backup ELSE @,
                            !.eng = IF "engines" \in answers THEN restored ELSE @])
       /\ IF answers = {"source", "engines"} THEN UNCHANGED upsets ELSE Upset
  /\ UNCHANGED <<backup, restored, overdue, tick, lease, mode>>

\* What the registry lacks, and once it has it, what the barrier lets ask
\* for and what is applied.  Time is read at the beginning of the round; a
\* pass which becomes overdue in it could as well have been overdue before.
ReadTicks(f) ==
  /\ At(f, "ticks")
  /\ \E new \in {Unrecorded(mem[f].src, tick)} :
     \E view \in {[c \in Cells |-> IF c \in new THEN [tick[c] EXCEPT !.state = mem[f].src[c]] ELSE tick[c]]} :
       Go(f, [NoMem EXCEPT !.pc = "record", !.down = mem[f].down, !.cell = new,
                           !.src = [c \in Cells |-> IF c \in new THEN mem[f].src[c] ELSE "none"],
                           !.view = Open(view), !.apply = Applicable(mem[f], view),
                           !.todo = IF mem[f].down THEN {} ELSE Requested(mem[f].read, view)])
  /\ UNCHANGED <<backup, restored, overdue, tick, lease, mode, upsets>>

Record(f) ==
  /\ At(f, "record")
  /\ tick' = [c \in Cells |-> IF c \in mem[f].cell THEN Recorded(tick[c], mem[f].src[c]) ELSE tick[c]]
  /\ Go(f, [mem[f] EXCEPT !.pc = "ask", !.cell = {}, !.src = NoMem.src])
  /\ UNCHANGED <<backup, restored, overdue, lease, mode, upsets>>

\* Faulty: the lease is taken for granted during the round.
CheckGranted(f) ==
  /\ At(f, "ask") \/ At(f, "again")
  /\ \E d \in {c[1] : c \in mem[f].todo} :
       Go(f, [mem[f] EXCEPT !.cell = {c \in mem[f].todo : c[1] = d},
                            !.pc = IF @ = "ask" THEN "patch" ELSE "patch_again"])
  /\ UNCHANGED <<backup, restored, overdue, tick, lease, mode, upsets>>

\* _still_mine, before each write on a cluster: the round of a follower
\* which has lost the lease ends there.
Check(f) ==
  /\ At(f, "ask") \/ At(f, "again")
  /\ \E d \in {c[1] : c \in mem[f].todo} :
       IF lease = f
       THEN Go(f, [mem[f] EXCEPT !.cell = {c \in mem[f].todo : c[1] = d},
                                 !.pc = IF @ = "ask" THEN "patch" ELSE "patch_again"])
       ELSE EndRound(f)
  /\ UNCHANGED <<backup, restored, overdue, tick, lease, mode, upsets>>

\* The target has no backup volume for this disk yet; too early to ask again.
Leave(f) ==
  /\ \/ At(f, "ask") /\ Upset
     \/ At(f, "again") /\ UNCHANGED upsets
  /\ \E d \in {c[1] : c \in mem[f].todo} :
       Go(f, [mem[f] EXCEPT !.todo = {c \in @ : c[1] # d}])
  /\ UNCHANGED <<backup, restored, overdue, tick, lease, mode>>

Left(m) == m.todo \ m.cell
\* Requests made since another took the lease.
Strays(f) == mem[f].strays + IF lease = f THEN 0 ELSE 1

\* syncRequestedAt of the backup volume.
Patch(f) ==
  /\ \/ /\ At(f, "patch")
        /\ Go(f, [mem[f] EXCEPT !.pc = "note", !.strays = Strays(f)])
     \/ /\ At(f, "patch_again")
        /\ Go(f, [mem[f] EXCEPT !.pc = "again", !.todo = Left(mem[f]), !.cell = {}, !.strays = Strays(f)])
  /\ UNCHANGED <<backup, restored, overdue, tick, lease, mode, upsets>>

PatchRefused(f) ==
  /\ At(f, "patch") \/ At(f, "patch_again")
  /\ Upset
  /\ Go(f, [mem[f] EXCEPT !.pc = IF @ = "patch" THEN "ask" ELSE "again",
                          !.todo = Left(mem[f]), !.cell = {}])
  /\ UNCHANGED <<backup, restored, overdue, tick, lease, mode>>

\* The target does not answer, whether it heard or not: no other request
\* in this round.
PatchLost(f) ==
  /\ At(f, "patch") \/ At(f, "patch_again")
  /\ Upset
  /\ Go(f, [mem[f] EXCEPT !.pc = IF @ = "patch" THEN "ask" ELSE "again",
                          !.down = TRUE, !.todo = {}, !.cell = {}, !.strays = Strays(f)])
  /\ UNCHANGED <<backup, restored, overdue, tick, lease, mode>>

Note(f) ==
  /\ At(f, "note")
  /\ tick' = [c \in Cells |-> IF c \in mem[f].cell
                              THEN [Recorded(tick[c], "completed") EXCEPT !.asked = TRUE]
                              ELSE tick[c]]
  /\ Go(f, [mem[f] EXCEPT !.pc = "ask", !.todo = Left(mem[f]), !.cell = {},
              !.view = [c \in Cells |-> IF c \in mem[f].cell THEN [mem[f].view[c] EXCEPT !.asked = TRUE]
                                                   ELSE mem[f].view[c]]])
  /\ UNCHANGED <<backup, restored, overdue, lease, mode, upsets>>

\* mark_applied, which raises on a pass in error: the round ends.
MarkApplied(f) ==
  /\ At(f, "ask") /\ mem[f].todo = {}
  /\ \E c \in mem[f].apply :
       IF tick[c].state = "error" THEN EndRound(f) /\ UNCHANGED tick
       ELSE /\ tick' = [tick EXCEPT ![c] = [state |-> "applied", asked |-> @.asked \/ mem[f].view[c].asked]]
            /\ Go(f, [mem[f] EXCEPT !.pc = "skip", !.cell = {c}, !.apply = @ \ {c}, !.view[c] = NoRow])
  /\ UNCHANGED <<backup, restored, overdue, lease, mode, upsets>>

\* The older passes of this disk which were never applied.
Older(m) == {e \in Cells : /\ \E c \in m.cell : e[1] = c[1] /\ e[2] < c[2]
                           /\ m.view[e].state \in {"completed", "in_progress"}}

Skip(f) ==
  /\ At(f, "skip")
  /\ tick' = [c \in Cells |-> IF c \in Older(mem[f]) THEN Recorded(tick[c], "skipped") ELSE tick[c]]
  /\ Go(f, [mem[f] EXCEPT !.pc = "ask", !.cell = {},
              !.view = [c \in Cells |-> IF c \in Older(mem[f]) THEN NoRow ELSE mem[f].view[c]]])
  /\ UNCHANGED <<backup, restored, overdue, lease, mode, upsets>>

\* _renudge: what was asked for and is still not applied.
Renudge(f) ==
  /\ At(f, "ask") /\ mem[f].todo = {} /\ mem[f].apply = {}
  /\ ~mem[f].down /\ Waiting(mem[f]) # {}
  /\ Go(f, [NoMem EXCEPT !.pc = "again", !.todo = Waiting(mem[f]), !.strays = mem[f].strays])
  /\ UNCHANGED <<backup, restored, overdue, tick, lease, mode, upsets>>

End(f) ==
  /\ mem[f].todo = {}
  /\ \/ At(f, "again")
     \/ At(f, "ask") /\ mem[f].apply = {} /\ (mem[f].down \/ Waiting(mem[f]) = {})
  /\ EndRound(f)
  /\ UNCHANGED <<backup, restored, overdue, tick, lease, mode, upsets>>

Work(f) ==
  \/ Begin(f) \/ TakeOver(f) \/ Read(f) \/ ReadTicks(f) \/ Record(f) \/ Check(f) \/ Leave(f) \/ Patch(f) \/ PatchRefused(f)
  \/ PatchLost(f) \/ Note(f) \/ MarkApplied(f) \/ Skip(f) \/ Renudge(f) \/ End(f)

----------------------------------------------------------------------------
(* Followers that end, start again, or are slow.                           *)

\* Stopped by a signal, between rounds or in a call: it gives its lease back.
Stop(f) ==
  /\ ~At(f, "dead") /\ lease = f /\ Upset
  /\ lease' = "nobody"
  /\ Go(f, [NoMem EXCEPT !.pc = "dead"])
  /\ UNCHANGED <<backup, restored, overdue, tick, mode>>

\* The lease of a killed follower waits to be too old: the next process
\* has another PID and is another owner.
Die(f) ==
  /\ ~At(f, "dead") /\ Upset
  /\ lease' = IF lease = f THEN "gone" ELSE lease
  /\ Go(f, [NoMem EXCEPT !.pc = "dead"])
  /\ UNCHANGED <<backup, restored, overdue, tick, mode>>

Start(f) ==
  /\ At(f, "dead") /\ EndRound(f)
  /\ UNCHANGED <<backup, restored, overdue, tick, lease, mode, upsets>>

----------------------------------------------------------------------------
(* The clusters, the people, and a failover beside the follower.           *)

\* A disk takes a pass once its last backup has ended, by the job of the
\* VM or as the final backup of a failover; it may have missed some.
BackUp ==
  /\ Cardinality({c \in Cells : backup[c] # "none"}) < MaxBackups
  /\ \E c \in Cells :
       /\ \A e \in Of(c[1]) : IF e[2] < c[2] THEN backup[e] # "in_progress" ELSE backup[e] = "none"
       /\ backup' = [backup EXCEPT ![c] = "in_progress"]
  /\ UNCHANGED <<restored, overdue, tick, lease, mode, mem, upsets>>

FinishBackup ==
  /\ \E c \in Cells : /\ backup[c] = "in_progress"
                      /\ backup' = [backup EXCEPT ![c] = "completed"]
  /\ UNCHANGED <<restored, overdue, tick, lease, mode, mem, upsets>>

FailBackup ==
  /\ Upset
  /\ \E c \in Cells : /\ backup[c] = "in_progress"
                      /\ backup' = [backup EXCEPT ![c] = "error"]
  /\ UNCHANGED <<restored, overdue, tick, lease, mode, mem>>

\* A standby volume restores its newest backup, asked for or not.
Restore ==
  /\ \E c \in Cells :
       /\ backup[c] = "completed" /\ c[2] > restored[c[1]]
       /\ \A e \in Of(c[1]) : e[2] > c[2] => backup[e] # "completed"
       /\ restored' = [restored EXCEPT ![c[1]] = c[2]]
  /\ UNCHANGED <<backup, overdue, tick, lease, mode, mem, upsets>>

\* The barrier is over for a pass some disk has not ended.
Ended(s) == \A d \in Disks : <<d, s>> \in Cells /\ backup[<<d, s>>] \in {"completed", "error"}

GrowOld ==
  /\ \E s \in Passes \ overdue :
       /\ ~Ended(s) /\ \E c \in Cells : c[2] = s /\ backup[c] # "none"
       /\ overdue' = overdue \cup {s}
  /\ UNCHANGED <<backup, restored, tick, lease, mode, mem, upsets>>

Pause ==
  /\ mode = "followed" /\ Upset /\ mode' = "paused"
  /\ UNCHANGED <<backup, restored, overdue, tick, lease, mem>>

Unpause ==
  /\ mode = "paused" /\ mode' = "followed"
  /\ UNCHANGED <<backup, restored, overdue, tick, lease, mem, upsets>>

FailoverStarts ==
  /\ mode # "moving" /\ Upset /\ mode' = "moving"
  /\ UNCHANGED <<backup, restored, overdue, tick, lease, mem>>

\* The failover keeps its final backups in the registry, then calls them
\* applied when the standby volumes hold them.
RecordFinal ==
  /\ mode = "moving"
  /\ \E c \in Cells : /\ backup[c] = "completed"
                      /\ tick' = [tick EXCEPT ![c] = Recorded(@, "completed")]
  /\ UNCHANGED <<backup, restored, overdue, lease, mode, mem, upsets>>

MarkFinal ==
  /\ mode = "moving"
  /\ \E c \in Cells : /\ restored[c[1]] >= c[2] /\ tick[c].state \notin {"none", "error"}
                      /\ tick' = [tick EXCEPT ![c].state = "applied"]
  /\ UNCHANGED <<backup, restored, overdue, lease, mode, mem, upsets>>

\* The failover is undone before its activation: followed again.
Undo ==
  /\ mode = "moving" /\ mode' = "followed"
  /\ UNCHANGED <<backup, restored, overdue, tick, lease, mem, upsets>>

Clusters == BackUp \/ FinishBackup \/ FailBackup \/ Restore \/ GrowOld
Plan == Pause \/ Unpause \/ FailoverStarts \/ RecordFinal \/ MarkFinal \/ Undo
Processes == \E f \in Followers : Stop(f) \/ Die(f) \/ Start(f)

Next == Clusters \/ Plan \/ Processes \/ \E f \in Followers : Work(f)
Spec == Init /\ [][Next]_vars

(* A follower goes on with its round and is started again when it ends;    *)
(* the clusters answer again and again.                                     *)
FairSpec ==
  /\ Spec
  /\ \A f \in Followers : WF_vars(Work(f) \/ Start(f))

----------------------------------------------------------------------------
TypeOK ==
  /\ backup \in [Cells -> BackupStates] /\ restored \in [Disks -> {0} \cup Passes]
  /\ overdue \subseteq Passes
  /\ tick \in [Cells -> [state : TickStates, asked : BOOLEAN]]
  /\ lease \in Followers \cup {"nobody", "gone"}
  /\ mode \in {"followed", "paused", "moving"}
  /\ \A f \in Followers :
       /\ mem[f].pc \in {"dead", "idle", "read", "ticks", "record", "ask", "patch",
                         "note", "skip", "again", "patch_again"}
       /\ mem[f].read \subseteq {"source", "engines"} /\ mem[f].down \in BOOLEAN
       /\ mem[f].cell \cup mem[f].todo \cup mem[f].apply \subseteq Cells
       /\ mem[f].pc \in {"dead", "idle"} => mem[f] = [NoMem EXCEPT !.pc = mem[f].pc]
  /\ upsets \in 0 .. MaxUpsets

(* The disks of a VM are moved to a pass together: none is asked to read   *)
(* a pass before every other disk has ended it or is beyond it, unless     *)
(* the barrier is over -- whoever asked, on however old a reading.         *)
BarrierHolds ==
  \A c \in Cells : tick[c].asked =>
    \/ c[2] \in overdue
    \/ \A d \in Disks :
         restored[d] < c[2] => <<d, c[2]>> \in Cells /\ backup[<<d, c[2]>>] \in {"completed", "error"}

(* _still_mine: a follower whose lease was taken makes at most the request *)
(* it had already checked, however much its round had still to ask.        *)
LostAsksAtMostOnce == \A f \in Followers : mem[f].strays <= 1

(* The recovery point the registry tells is real: a pass called applied is *)
(* on the standby volume.                                                  *)
AppliedIsRestored == \A c \in Cells : tick[c].state = "applied" => restored[c[1]] >= c[2]

(* A pass called applied stays so, whatever a follower with an old reading *)
(* writes afterwards, the final pass of a failover included.               *)
AppliedStays ==
  [][\A c \in Cells : tick[c].state = "applied" => tick'[c].state = "applied"]_vars

(* The follower catches up, again and again while the plan is followed:    *)
(* what a standby volume has restored is known as applied, and a pass that *)
(* every disk has ended is asked for or restored -- through a death, a     *)
(* lease taken over, or a cluster that did not answer.                     *)
Known == \A c \in Cells : restored[c[1]] = c[2] => tick[c].state = "applied"
Asked == \A c \in Cells : backup[c] = "completed" /\ Ended(c[2])
                           => tick[c].asked \/ restored[c[1]] >= c[2]
CatchesUp == []<>(mode = "followed" => Known /\ Asked)
=============================================================================
