------------------------- MODULE ReplicationWavesProofs -------------------------
(* ReplicationWaves for any VMs, waves, hooks and number of stops: its types, *)
(* the order of the waves and their gates, that a hook remembered is not      *)
(* called again, and that one stop makes the failover forget no hook.         *)
EXTENDS ReplicationWaves, TLAPS

After == {"hooks", "called", "wave", "bring", "gate", "finish"}

(* The VMs of an execution are activated before it goes on to the waves, and it *)
(* works on a wave only at the point of one.                                    *)
Typed ==
  /\ TypeOK
  /\ pc \in After => cmd.go \subseteq active
  /\ pc \in {"wave", "bring", "gate"} => point \in 1..Implicit

(* The execution and its row remember the same hooks, and every call but the *)
(* one at hand is remembered, or was cut off before it could be.             *)
Memory ==
  /\ pc # "idle" => cmd.done = run.done
  /\ pc = "called" => cmd.hook \notin run.done
  /\ \A h \in Hooks :
       \/ told.calls[h] <= told.unsaved[h]
       \/ /\ told.calls[h] = told.unsaved[h] + 1
          /\ h \in run.done \/ (pc = "called" /\ cmd.hook = h)

(* The row and the execution together name each VM that has not moved. *)
Kept ==
  /\ pc # "idle" => run.open
  /\ run.open =>
       /\ told.taken \subseteq run.vms \cup moved
       /\ run.vms \cup run.scope \subseteq told.taken
  /\ pc # "idle" =>
       /\ told.taken \subseteq cmd.sel \cup moved
       /\ cmd.sel \subseteq cmd.go \cup told.refused
       /\ cmd.go \subseteq cmd.sel
       /\ cmd.scope \cup cmd.prev \subseteq told.taken
       /\ pc # "record" => cmd.sel \subseteq told.taken
  /\ pc \in After => cmd.go \subseteq cmd.scope

(* The waves before the point reached are up, or were left out. *)
Order ==
  /\ pc \in {"record", "scope"} => point = Start
  /\ pc = "finish" => point = End
  /\ pc \in After => \A m \in 1..Implicit :
       m < point \/ (m = point /\ pc \in {"hooks", "called", "gate"})
         => InWave(m, told.taken) \subseteq moved \cup told.refused

LEMMA Shape == Len(Waves) \in Nat /\ DOMAIN Waves = 1..Len(Waves)
  BY WavesAssumption

(* A failover that begins has called nothing. *)
LEMMA Fresh ==
  /\ Untold \in [taken : SUBSET VMs, refused : SUBSET VMs, calls : [Hooks -> Nat], unsaved : [Hooks -> Nat],
                 gated : SUBSET Points, cut : SUBSET Points, stops : Nat]
  /\ Untold.taken = {} /\ Untold.refused = {}
  /\ \A h \in Hooks : Untold.calls[h] = 0 /\ Untold.unsaved[h] = 0
  BY DEF Untold

(* Each VM is in one wave, whatever the VMs asked about. *)
LEMMA InOneWave ==
  /\ \A m \in 1..Implicit : \A A \in SUBSET VMs : InWave(m, A) = InWave(m, VMs) \cap A
  /\ \A m, n \in 1..Implicit : m # n => InWave(m, VMs) \cap InWave(n, VMs) = {}
  BY WavesAssumption, Shape DEF InWave, Implicit, Listed

LEMMA TypedKept ==
  ASSUME Typed, [Next]_vars
  PROVE  Typed'
  <1> USE WavesAssumption, Shape DEF Typed, TypeOK, After, PCs, Start, End, Implicit, Points, NoHook
  <1>1. ASSUME NEW S \in SUBSET (VMs \ moved), Failover(S)
       PROVE  Typed'
    <2>1. PICK skewed \in SUBSET ((S \cap Skewed) \ active) :
            /\ run' = [NoRun EXCEPT !.open = TRUE, !.vms = S]
            /\ cmd' = [sel |-> S, go |-> S \ skewed, prev |-> {}, scope |-> run'.scope,
                       done |-> run'.done, hook |-> NoHook]
            /\ told' = [Untold EXCEPT !.taken = @ \cup run'.vms, !.refused = @ \cup skewed]
      BY <1>1 DEF Failover, Execute
    <2>2. pc' = "record" /\ point' = Start /\ UNCHANGED <<hooks, active, moved>>
      BY <1>1 DEF Failover, Execute
    <2>3. run' = [open |-> TRUE, vms |-> S, scope |-> {}, done |-> {}]
      BY <2>1 DEF NoRun
    <2>4. told' = [taken |-> Untold.taken \cup S, refused |-> Untold.refused \cup skewed,
                   calls |-> Untold.calls, unsaved |-> Untold.unsaved,
                   gated |-> Untold.gated, cut |-> Untold.cut, stops |-> Untold.stops]
      BY <2>1, <2>3, Fresh
    <2>5. /\ told' \in [taken : SUBSET VMs, refused : SUBSET VMs, calls : [Hooks -> Nat],
                        unsaved : [Hooks -> Nat], gated : SUBSET Points, cut : SUBSET Points, stops : Nat]
          /\ told'.taken = S /\ told'.refused = skewed
      BY <2>4, Fresh
    <2>6. /\ cmd' \in [sel : SUBSET VMs, go : SUBSET VMs, prev : SUBSET VMs, scope : SUBSET VMs,
                       done : SUBSET Hooks, hook : Hooks \cup {NoHook}]
          /\ cmd'.sel = S /\ cmd'.go = S \ skewed /\ cmd'.prev = {} /\ cmd'.scope = {}
          /\ cmd'.hook = NoHook
      <3>1. cmd' = [sel |-> S, go |-> S \ skewed, prev |-> {}, scope |-> {}, done |-> {}, hook |-> NoHook]
        <4>1. run'.scope = {} /\ run'.done = {} BY <2>3
        <4>2. cmd' = [sel |-> S, go |-> S \ skewed, prev |-> {}, scope |-> run'.scope,
                      done |-> run'.done, hook |-> NoHook] BY <2>1, Zenon
        <4> QED BY <4>1, <4>2, Zenon
      <3> QED BY <3>1
    <2> QED BY <2>2, <2>3, <2>5, <2>6
  <1>2. ASSUME NEW S \in SUBSET (VMs \ moved), Resume(S)
       PROVE  Typed'
    <2>1. PICK skewed \in SUBSET ((S \cap Skewed) \ active) :
            /\ cmd' = [sel |-> S, go |-> S \ skewed, prev |-> run.vms, scope |-> run.scope,
                       done |-> run.done, hook |-> NoHook]
            /\ told' = [told EXCEPT !.taken = @ \cup run.vms, !.refused = @ \cup skewed]
      BY <1>2 DEF Resume, Execute
    <2>2. /\ pc' = "record" /\ point' = Start /\ UNCHANGED <<hooks, active, moved, run>>
          /\ pc = "idle" /\ run.open /\ (run.vms \ moved # {} => S = run.vms \ moved)
      BY <1>2 DEF Resume, Execute, OpenScope
    <2>3. told' = [taken |-> told.taken \cup run.vms, refused |-> told.refused \cup skewed,
                   calls |-> told.calls, unsaved |-> told.unsaved, gated |-> told.gated,
                   cut |-> told.cut, stops |-> told.stops]
      BY <2>1
    <2> QED BY <2>1, <2>2, <2>3
  <1>3. CASE RecordPoints
    BY <1>3 DEF RecordPoints, Record
  <1>4. CASE SetScope
    BY <1>4 DEF SetScope, Scope
  <1>5. ASSUME NEW v \in VMs, Activate(v)
       PROVE  Typed'
    BY <1>5 DEF Activate
  <1>6. ASSUME NEW v \in VMs, BringUp(v)
       PROVE  Typed'
    BY <1>6 DEF BringUp, Waiting
  <1>7. CASE CallHook
    <2>1. PICK h \in Hooks :
            /\ h \notin cmd.done
            /\ cmd' = [cmd EXCEPT !.hook = h]
            /\ told' = [told EXCEPT !.calls = [told.calls EXCEPT ![h] = @ + 1]]
      BY <1>7 DEF CallHook, First, Due
    <2>2. pc = "hooks" /\ pc' = "called" /\ UNCHANGED <<hooks, active, moved, run, point>>
      BY <1>7 DEF CallHook
    <2>3. told' = [taken |-> told.taken, refused |-> told.refused, calls |-> told'.calls,
                   unsaved |-> told.unsaved, gated |-> told.gated, cut |-> told.cut, stops |-> told.stops]
      BY <2>1
    <2>4. told'.calls \in [Hooks -> Nat]
      BY <2>1
    <2>5. \A other \in Hooks : told'.calls[other] = IF other = h THEN told.calls[h] + 1 ELSE told.calls[other]
      BY <2>1
    <2> QED BY <2>1, <2>2, <2>3, <2>4, <2>5
  <1>8. CASE RememberHook
    BY <1>8 DEF RememberHook, Record
  <1>9. CASE HooksCalled
    BY <1>9 DEF HooksCalled
  <1>10. CASE SkipWave
    BY <1>10 DEF SkipWave
  <1>11. CASE PassWave
    BY <1>11 DEF PassWave
  <1>12. CASE EnterWave
    BY <1>12 DEF EnterWave
  <1>13. CASE BroughtUp
    BY <1>13 DEF BroughtUp, Waiting
  <1>14. CASE PassGate
    BY <1>14 DEF PassGate
  <1>15. CASE Finish
    BY <1>15 DEF Finish, Record, NoCmd
  <1>16. CASE Kill
    <2>1. /\ pc # "idle" /\ pc' = "idle" /\ cmd' = NoCmd /\ UNCHANGED <<hooks, active, moved, point>>
          /\ run' = run
      BY <1>16 DEF Kill, Stop, Record
    <2>2. /\ told'.taken = told.taken \cup run.vms /\ told'.refused = told.refused
          /\ told'.calls = told.calls
      BY <1>16 DEF Kill, Stop, Record
    <2>3. told'.unsaved = [h \in Hooks |-> told.unsaved[h] + IF h = cmd.hook THEN 1 ELSE 0]
      BY <1>16 DEF Kill, Stop
    <2>4. told' = [taken |-> told'.taken, refused |-> told.refused, calls |-> told.calls,
                   unsaved |-> told'.unsaved, gated |-> told.gated, cut |-> told'.cut, stops |-> told.stops + 1]
      BY <1>16 DEF Kill, Record, Stop
    <2>5. told'.cut \in SUBSET Points
      <3>1. told'.cut = IF pc \in {"bring", "gate"} /\ Waiting = {} THEN told.cut \cup {point} ELSE told.cut
        BY <1>16 DEF Kill, Record, Stop
      <3> QED BY <3>1
    <2>6. told'.unsaved \in [Hooks -> Nat]
      BY <2>3
    <2> QED BY <2>1, <2>2, <2>4, <2>5, <2>6 DEF NoCmd
  <1>17. CASE Interrupt
    <2>1. /\ pc # "idle" /\ pc' = "idle" /\ cmd' = NoCmd /\ UNCHANGED <<hooks, active, moved, point>>
          /\ run' = [open |-> cmd.sel \cap active # {}, vms |-> cmd.sel, scope |-> cmd.scope, done |-> cmd.done]
      BY <1>17 DEF Interrupt, Stop, Record
    <2>2. /\ told'.taken = told.taken \cup cmd.sel /\ told'.refused = told.refused
          /\ told'.calls = told.calls
      BY <1>17 DEF Interrupt, Stop, Record
    <2>3. told'.unsaved = [h \in Hooks |-> told.unsaved[h] + IF h = cmd.hook THEN 1 ELSE 0]
      BY <1>17 DEF Interrupt, Stop
    <2>4. told' = [taken |-> told'.taken, refused |-> told.refused, calls |-> told.calls,
                   unsaved |-> told'.unsaved, gated |-> told.gated, cut |-> told'.cut, stops |-> told.stops + 1]
      BY <1>17 DEF Interrupt, Record, Stop
    <2>5. told'.cut \in SUBSET Points
      <3>1. told'.cut = IF pc \in {"bring", "gate"} /\ Waiting = {} THEN told.cut \cup {point} ELSE told.cut
        BY <1>17 DEF Interrupt, Record, Stop
      <3> QED BY <3>1
    <2>6. told'.unsaved \in [Hooks -> Nat]
      BY <2>3
    <2> QED BY <2>1, <2>2, <2>4, <2>5, <2>6 DEF NoCmd
  <1>18. CASE Rest
    BY <1>18 DEF Rest, vars
  <1>19. CASE UNCHANGED vars
    BY <1>19 DEF vars
  <1> QED
    BY <1>1, <1>2, <1>3, <1>4, <1>5, <1>6, <1>7, <1>8, <1>9, <1>10,
        <1>11, <1>12, <1>13, <1>14, <1>15, <1>16, <1>17, <1>18, <1>19 DEF Next

LEMMA MemoryKept ==
  ASSUME Typed, Typed', Memory, [Next]_vars
  PROVE  Memory'
  <1> USE WavesAssumption, Shape DEF Typed, TypeOK, Memory, NoHook, PCs
  <1>1. ASSUME NEW S \in SUBSET (VMs \ moved), Failover(S)
       PROVE  Memory'
    BY <1>1 DEF Failover, Execute, Untold, NoRun
  <1>2. ASSUME NEW S \in SUBSET (VMs \ moved), Resume(S)
       PROVE  Memory'
    BY <1>2 DEF Resume, Execute, OpenScope
  <1>3. CASE RecordPoints
    BY <1>3 DEF RecordPoints, Record
  <1>4. CASE SetScope
    BY <1>4 DEF SetScope, Scope
  <1>5. ASSUME NEW v \in VMs, Activate(v)
       PROVE  Memory'
    BY <1>5 DEF Activate
  <1>6. ASSUME NEW v \in VMs, BringUp(v)
       PROVE  Memory'
    BY <1>6 DEF BringUp, Waiting
  <1>7. CASE CallHook
    <2>1. PICK h \in Hooks :
            /\ h \notin cmd.done
            /\ cmd' = [cmd EXCEPT !.hook = h]
            /\ told' = [told EXCEPT !.calls = [told.calls EXCEPT ![h] = @ + 1]]
      BY <1>7 DEF CallHook, First, Due
    <2>2. pc = "hooks" /\ pc' = "called" /\ UNCHANGED <<hooks, active, moved, run, point>>
      BY <1>7 DEF CallHook
    <2>3. told' = [taken |-> told.taken, refused |-> told.refused, calls |-> told'.calls,
                   unsaved |-> told.unsaved, gated |-> told.gated, cut |-> told.cut, stops |-> told.stops]
      BY <2>1
    <2>4. told'.calls \in [Hooks -> Nat]
      BY <2>1
    <2>5. \A other \in Hooks : told'.calls[other] = IF other = h THEN told.calls[h] + 1 ELSE told.calls[other]
      BY <2>1
    <2>6. told.calls \in [Hooks -> Nat] /\ told.unsaved \in [Hooks -> Nat]
      OBVIOUS
    <2>7. cmd'.hook = h /\ cmd'.done = cmd.done /\ told'.unsaved = told.unsaved
      BY <2>1, <2>3
    <2>8. ASSUME NEW other \in Hooks
          PROVE  \/ told'.calls[other] <= told.unsaved[other]
                 \/ /\ told'.calls[other] = told.unsaved[other] + 1
                    /\ other \in run.done \/ cmd'.hook = other
      <3>1. CASE other = h
        <4>1. told.calls[h] <= told.unsaved[h] BY <2>1, <2>2
        <4> QED BY <4>1, <3>1, <2>5, <2>6, <2>7
      <3>2. CASE other # h
        <4>1. told'.calls[other] = told.calls[other] BY <3>2, <2>5
        <4> QED BY <4>1, <2>2
      <3> QED BY <3>1, <3>2
    <2> QED BY <2>1, <2>2, <2>7, <2>8
  <1>8. CASE RememberHook
    BY <1>8 DEF RememberHook, Record
  <1>9. CASE HooksCalled
    BY <1>9 DEF HooksCalled
  <1>10. CASE SkipWave
    BY <1>10 DEF SkipWave
  <1>11. CASE PassWave
    BY <1>11 DEF PassWave
  <1>12. CASE EnterWave
    BY <1>12 DEF EnterWave
  <1>13. CASE BroughtUp
    BY <1>13 DEF BroughtUp, Waiting
  <1>14. CASE PassGate
    BY <1>14 DEF PassGate
  <1>15. CASE Finish
    BY <1>15 DEF Finish, Record, NoCmd
  <1>16. CASE Kill
    <2>1. /\ pc # "idle" /\ pc' = "idle" /\ cmd' = NoCmd /\ UNCHANGED <<hooks, active, moved, point>>
          /\ run' = run
      BY <1>16 DEF Kill, Stop, Record
    <2>2. /\ told'.taken = told.taken \cup run.vms /\ told'.refused = told.refused
          /\ told'.calls = told.calls
      BY <1>16 DEF Kill, Stop, Record
    <2>3. told'.unsaved = [h \in Hooks |-> told.unsaved[h] + IF h = cmd.hook THEN 1 ELSE 0]
      BY <1>16 DEF Kill, Stop
    <2>4. \A h \in Hooks : told'.unsaved[h] = told.unsaved[h] + IF h = cmd.hook THEN 1 ELSE 0
      BY <2>3
    <2>5. run'.done = run.done
      BY <2>1
    <2>6. ASSUME NEW h \in Hooks
          PROVE  told'.calls[h] <= told'.unsaved[h] \/ (told'.calls[h] = told'.unsaved[h] + 1 /\ h \in run'.done)
      <3>1. CASE h = cmd.hook
        <4>1. told'.unsaved[h] = told.unsaved[h] + 1 BY <3>1, <2>4
        <4>2. pc = "called" /\ h \notin run.done BY <3>1
        <4>3. told.calls[h] <= told.unsaved[h] + 1
          <5>1. told.calls \in [Hooks -> Nat] /\ told.unsaved \in [Hooks -> Nat] OBVIOUS
          <5>2. told.calls[h] \in Nat /\ told.unsaved[h] \in Nat BY <5>1
          <5>3. told.calls[h] <= told.unsaved[h] \/ told.calls[h] = told.unsaved[h] + 1 OBVIOUS
          <5> QED BY <5>2, <5>3
        <4> QED BY <4>1, <4>3, <2>2
      <3>2. CASE h # cmd.hook BY <3>2, <2>1, <2>2, <2>4, <2>5
      <3> QED BY <3>1, <3>2
    <2> QED BY <2>1, <2>5, <2>6
  <1>17. CASE Interrupt
    <2>1. /\ pc # "idle" /\ pc' = "idle" /\ cmd' = NoCmd /\ UNCHANGED <<hooks, active, moved, point>>
          /\ run' = [open |-> cmd.sel \cap active # {}, vms |-> cmd.sel, scope |-> cmd.scope, done |-> cmd.done]
      BY <1>17 DEF Interrupt, Stop, Record
    <2>2. /\ told'.taken = told.taken \cup cmd.sel /\ told'.refused = told.refused
          /\ told'.calls = told.calls
      BY <1>17 DEF Interrupt, Stop, Record
    <2>3. told'.unsaved = [h \in Hooks |-> told.unsaved[h] + IF h = cmd.hook THEN 1 ELSE 0]
      BY <1>17 DEF Interrupt, Stop
    <2>4. \A h \in Hooks : told'.unsaved[h] = told.unsaved[h] + IF h = cmd.hook THEN 1 ELSE 0
      BY <2>3
    <2>5. run'.done = run.done
      BY <2>1
    <2>6. ASSUME NEW h \in Hooks
          PROVE  told'.calls[h] <= told'.unsaved[h] \/ (told'.calls[h] = told'.unsaved[h] + 1 /\ h \in run'.done)
      <3>1. CASE h = cmd.hook
        <4>1. told'.unsaved[h] = told.unsaved[h] + 1 BY <3>1, <2>4
        <4>2. pc = "called" /\ h \notin run.done BY <3>1
        <4>3. told.calls[h] <= told.unsaved[h] + 1
          <5>1. told.calls \in [Hooks -> Nat] /\ told.unsaved \in [Hooks -> Nat] OBVIOUS
          <5>2. told.calls[h] \in Nat /\ told.unsaved[h] \in Nat BY <5>1
          <5>3. told.calls[h] <= told.unsaved[h] \/ told.calls[h] = told.unsaved[h] + 1 OBVIOUS
          <5> QED BY <5>2, <5>3
        <4> QED BY <4>1, <4>3, <2>2
      <3>2. CASE h # cmd.hook BY <3>2, <2>1, <2>2, <2>4, <2>5
      <3> QED BY <3>1, <3>2
    <2> QED BY <2>1, <2>5, <2>6
  <1>18. CASE Rest
    BY <1>18 DEF Rest, vars
  <1>19. CASE UNCHANGED vars
    BY <1>19 DEF vars
  <1> QED
    BY <1>1, <1>2, <1>3, <1>4, <1>5, <1>6, <1>7, <1>8, <1>9, <1>10,
        <1>11, <1>12, <1>13, <1>14, <1>15, <1>16, <1>17, <1>18, <1>19 DEF Next

LEMMA KeptKept ==
  ASSUME Typed, Typed', Kept, [Next]_vars
  PROVE  Kept'
  <1> USE WavesAssumption, Shape DEF Typed, TypeOK, Kept, After, PCs
  <1>1. ASSUME NEW S \in SUBSET (VMs \ moved), Failover(S)
       PROVE  Kept'
    <2>1. PICK skewed \in SUBSET ((S \cap Skewed) \ active) :
            /\ run' = [NoRun EXCEPT !.open = TRUE, !.vms = S]
            /\ cmd' = [sel |-> S, go |-> S \ skewed, prev |-> {}, scope |-> run'.scope,
                       done |-> run'.done, hook |-> NoHook]
            /\ told' = [Untold EXCEPT !.taken = @ \cup run'.vms, !.refused = @ \cup skewed]
      BY <1>1 DEF Failover, Execute
    <2>2. pc' = "record" /\ point' = Start /\ UNCHANGED <<hooks, active, moved>>
      BY <1>1 DEF Failover, Execute
    <2>3. run' = [open |-> TRUE, vms |-> S, scope |-> {}, done |-> {}]
      BY <2>1 DEF NoRun
    <2>4. told' = [taken |-> Untold.taken \cup S, refused |-> Untold.refused \cup skewed,
                   calls |-> Untold.calls, unsaved |-> Untold.unsaved,
                   gated |-> Untold.gated, cut |-> Untold.cut, stops |-> Untold.stops]
      BY <2>1, <2>3, Fresh
    <2>5. /\ told' \in [taken : SUBSET VMs, refused : SUBSET VMs, calls : [Hooks -> Nat],
                        unsaved : [Hooks -> Nat], gated : SUBSET Points, cut : SUBSET Points, stops : Nat]
          /\ told'.taken = S /\ told'.refused = skewed
      BY <2>4, Fresh
    <2>6. /\ cmd' \in [sel : SUBSET VMs, go : SUBSET VMs, prev : SUBSET VMs, scope : SUBSET VMs,
                       done : SUBSET Hooks, hook : Hooks \cup {NoHook}]
          /\ cmd'.sel = S /\ cmd'.go = S \ skewed /\ cmd'.prev = {} /\ cmd'.scope = {}
          /\ cmd'.hook = NoHook
      <3>1. cmd' = [sel |-> S, go |-> S \ skewed, prev |-> {}, scope |-> {}, done |-> {}, hook |-> NoHook]
        <4>1. run'.scope = {} /\ run'.done = {} BY <2>3
        <4>2. cmd' = [sel |-> S, go |-> S \ skewed, prev |-> {}, scope |-> run'.scope,
                      done |-> run'.done, hook |-> NoHook] BY <2>1, Zenon
        <4> QED BY <4>1, <4>2, Zenon
      <3> QED BY <3>1
    <2> QED BY <2>2, <2>3, <2>5, <2>6
  <1>2. ASSUME NEW S \in SUBSET (VMs \ moved), Resume(S)
       PROVE  Kept'
    <2>1. PICK skewed \in SUBSET ((S \cap Skewed) \ active) :
            /\ cmd' = [sel |-> S, go |-> S \ skewed, prev |-> run.vms, scope |-> run.scope,
                       done |-> run.done, hook |-> NoHook]
            /\ told' = [told EXCEPT !.taken = @ \cup run.vms, !.refused = @ \cup skewed]
      BY <1>2 DEF Resume, Execute
    <2>2. /\ pc' = "record" /\ point' = Start /\ UNCHANGED <<hooks, active, moved, run>>
          /\ pc = "idle" /\ run.open /\ (run.vms \ moved # {} => S = run.vms \ moved)
      BY <1>2 DEF Resume, Execute, OpenScope
    <2>3. told' = [taken |-> told.taken \cup run.vms, refused |-> told.refused \cup skewed,
                   calls |-> told.calls, unsaved |-> told.unsaved, gated |-> told.gated,
                   cut |-> told.cut, stops |-> told.stops]
      BY <2>1
    <2> QED BY <2>1, <2>2, <2>3
  <1>3. CASE RecordPoints
    BY <1>3 DEF RecordPoints, Record
  <1>4. CASE SetScope
    BY <1>4 DEF SetScope, Scope
  <1>5. ASSUME NEW v \in VMs, Activate(v)
       PROVE  Kept'
    BY <1>5 DEF Activate
  <1>6. ASSUME NEW v \in VMs, BringUp(v)
       PROVE  Kept'
    BY <1>6 DEF BringUp, Waiting
  <1>7. CASE CallHook
    <2>1. PICK h \in Hooks :
            /\ h \notin cmd.done
            /\ cmd' = [cmd EXCEPT !.hook = h]
            /\ told' = [told EXCEPT !.calls = [told.calls EXCEPT ![h] = @ + 1]]
      BY <1>7 DEF CallHook, First, Due
    <2>2. pc = "hooks" /\ pc' = "called" /\ UNCHANGED <<hooks, active, moved, run, point>>
      BY <1>7 DEF CallHook
    <2>3. told' = [taken |-> told.taken, refused |-> told.refused, calls |-> told'.calls,
                   unsaved |-> told.unsaved, gated |-> told.gated, cut |-> told.cut, stops |-> told.stops]
      BY <2>1
    <2>4. told'.calls \in [Hooks -> Nat]
      BY <2>1
    <2>5. \A other \in Hooks : told'.calls[other] = IF other = h THEN told.calls[h] + 1 ELSE told.calls[other]
      BY <2>1
    <2> QED BY <2>1, <2>2, <2>3, <2>4, <2>5
  <1>8. CASE RememberHook
    BY <1>8 DEF RememberHook, Record
  <1>9. CASE HooksCalled
    BY <1>9 DEF HooksCalled
  <1>10. CASE SkipWave
    BY <1>10 DEF SkipWave
  <1>11. CASE PassWave
    BY <1>11 DEF PassWave
  <1>12. CASE EnterWave
    BY <1>12 DEF EnterWave
  <1>13. CASE BroughtUp
    BY <1>13 DEF BroughtUp, Waiting
  <1>14. CASE PassGate
    BY <1>14 DEF PassGate
  <1>15. CASE Finish
    BY <1>15 DEF Finish, Record, NoCmd
  <1>16. CASE Kill
    BY <1>16 DEF Kill, Stop, NoCmd
  <1>17. CASE Interrupt
    BY <1>17 DEF Interrupt, Stop, Record, NoCmd
  <1>18. CASE Rest
    BY <1>18 DEF Rest, vars
  <1>19. CASE UNCHANGED vars
    BY <1>19 DEF vars
  <1> QED
    BY <1>1, <1>2, <1>3, <1>4, <1>5, <1>6, <1>7, <1>8, <1>9, <1>10,
        <1>11, <1>12, <1>13, <1>14, <1>15, <1>16, <1>17, <1>18, <1>19 DEF Next

(* A wave with no VM of the execution waiting is up, or was left out. *)
LEMMA WaveUp ==
  ASSUME Typed, Kept, pc \in After,
         NEW m \in 1..Implicit, InWave(m, cmd.scope) \cap cmd.go \subseteq moved
  PROVE  InWave(m, told.taken) \subseteq moved \cup told.refused
  BY InOneWave, Zenon, SMT DEF Typed, TypeOK, Kept, After

LEMMA OrderKept ==
  ASSUME Typed, Typed', Kept, Order, [Next]_vars
  PROVE  Order'
  <1> USE WavesAssumption, Shape DEF Typed, TypeOK, Kept, Order, After, PCs, Start, End, Implicit, Points
  <1>1. ASSUME NEW S \in SUBSET (VMs \ moved), Failover(S)
       PROVE  Order'
    BY <1>1 DEF Failover, Execute, Untold, NoRun
  <1>2. ASSUME NEW S \in SUBSET (VMs \ moved), Resume(S)
       PROVE  Order'
    BY <1>2 DEF Resume, Execute, OpenScope
  <1>3. CASE RecordPoints
    BY <1>3 DEF RecordPoints, Record
  <1>4. CASE SetScope
    BY <1>4 DEF SetScope, Scope
  <1>5. ASSUME NEW v \in VMs, Activate(v)
       PROVE  Order'
    BY <1>5 DEF Activate
  <1>6. ASSUME NEW v \in VMs, BringUp(v)
       PROVE  Order'
    BY <1>6 DEF BringUp, Waiting
  <1>7. CASE CallHook
    <2>1. PICK h \in Hooks :
            /\ h \notin cmd.done
            /\ cmd' = [cmd EXCEPT !.hook = h]
            /\ told' = [told EXCEPT !.calls = [told.calls EXCEPT ![h] = @ + 1]]
      BY <1>7 DEF CallHook, First, Due
    <2>2. pc = "hooks" /\ pc' = "called" /\ UNCHANGED <<hooks, active, moved, run, point>>
      BY <1>7 DEF CallHook
    <2>3. told' = [taken |-> told.taken, refused |-> told.refused, calls |-> told'.calls,
                   unsaved |-> told.unsaved, gated |-> told.gated, cut |-> told.cut, stops |-> told.stops]
      BY <2>1
    <2>4. told'.calls \in [Hooks -> Nat]
      BY <2>1
    <2>5. \A other \in Hooks : told'.calls[other] = IF other = h THEN told.calls[h] + 1 ELSE told.calls[other]
      BY <2>1
    <2> QED BY <2>1, <2>2, <2>3, <2>4, <2>5
  <1>8. CASE RememberHook
    BY <1>8 DEF RememberHook, Record
  <1>9. CASE HooksCalled
    BY <1>9 DEF HooksCalled
  <1>10. CASE SkipWave
    <2>1. ASSUME NEW m \in 1..Implicit, m <= point
          PROVE  InWave(m, told.taken) \subseteq moved \cup told.refused
      <3>1. CASE m < point BY <3>1, <1>10 DEF SkipWave
      <3>2. CASE m = point
        <4>1. InWave(m, cmd.scope) = {} BY <3>2, <1>10 DEF SkipWave
        <4> QED BY <4>1, <1>10, WaveUp DEF SkipWave
      <3> QED BY <3>1, <3>2, <2>1
    <2>2. \A m \in 1..Implicit : m < point + 1 \/ (m = point + 1 /\ point + 1 = End) => m <= point
      BY <1>10 DEF SkipWave
    <2>3. point' = point + 1 /\ pc' = IF point + 1 = End THEN "hooks" ELSE "wave"
      BY <1>10 DEF SkipWave
    <2>4. UNCHANGED <<moved, told>>
      BY <1>10 DEF SkipWave
    <2> QED BY <2>1, <2>2, <2>3, <2>4
  <1>11. CASE PassWave
    BY <1>11, InOneWave, WaveUp DEF PassWave
  <1>12. CASE EnterWave
    BY <1>12 DEF EnterWave
  <1>13. CASE BroughtUp
    BY <1>13, InOneWave, WaveUp DEF BroughtUp, Waiting
  <1>14. CASE PassGate
    BY <1>14 DEF PassGate
  <1>15. CASE Finish
    BY <1>15 DEF Finish, Record, NoCmd
  <1>16. CASE Kill
    BY <1>16 DEF Kill, Stop, NoCmd
  <1>17. CASE Interrupt
    BY <1>17 DEF Interrupt, Stop, Record, NoCmd
  <1>18. CASE Rest
    BY <1>18 DEF Rest, vars
  <1>19. CASE UNCHANGED vars
    BY <1>19 DEF vars
  <1> QED
    BY <1>1, <1>2, <1>3, <1>4, <1>5, <1>6, <1>7, <1>8, <1>9, <1>10,
        <1>11, <1>12, <1>13, <1>14, <1>15, <1>16, <1>17, <1>18, <1>19 DEF Next

-----------------------------------------------------------------------------
(* A wave with no VM of the execution waiting stays so. *)
Passed(m) == InWave(m, cmd.scope) \cap cmd.go \subseteq moved

(* A wave of which a VM was brought up that was never left out is at hand,  *)
(* has been through its gate, was cut after its last VM, or has a VM that   *)
(* is activated and still to be brought up: an activated VM is not left out. *)
Accounted(m) ==
  \/ InWave(m, told.taken) \cap moved \subseteq told.refused
  \/ m \in told.gated \cup told.cut
  \/ pc \in {"bring", "gate"} /\ m = point
  \/ (InWave(m, told.taken) \cap active) \ moved # {}

Gates ==
  /\ pc # "idle" => cmd.sel \cap active \subseteq cmd.go
  /\ pc = "record" => cmd.sel \cap moved = {}
  /\ pc \in After => \A m \in 1..Implicit :
       m < point \/ (m = point /\ pc \in {"hooks", "called", "gate"}) => Passed(m)

AllAccounted == \A m \in 1..Implicit : Accounted(m)

(* Up to the first stop the row and the execution name all the failover was *)
(* taken on for; the second execution has them from the row it found open.  *)
Scoped ==
  /\ run.open /\ pc = "idle" => told.stops # 0
  /\ run.open /\ pc = "idle" /\ told.stops = 1 => told.taken \subseteq run.vms
  /\ pc # "idle" /\ told.stops = 0 =>
       told.taken = run.vms /\ run.vms = cmd.sel /\ cmd.prev = {}
  /\ pc # "idle" /\ told.stops = 1 => told.taken \subseteq cmd.prev \cup cmd.sel
  /\ pc = "record" => cmd.sel \cap moved = {}
  /\ pc # "idle" => cmd.sel \cap moved \subseteq cmd.go
  /\ pc \in After => cmd.prev \subseteq cmd.scope

(* A hook remembered was called; those of the points passed are remembered, *)
(* or belong to a wave without a VM in the scope.                           *)
Owed ==
  /\ \A h \in run.done : told.calls[h] > 0
  /\ pc = "called" => told.calls[cmd.hook] > 0
  /\ pc \in After => \A h \in hooks :
       At[h] < point \/ (At[h] = point /\ pc = "finish") =>
         \/ told.calls[h] > 0
         \/ At[h] \in 1..Implicit /\ InWave(At[h], cmd.scope) = {}

(* What a call of a hook, and a stop, change of the history. *)
LEMMA CallTold ==
  ASSUME Typed, CallHook
  PROVE  /\ pc = "hooks" /\ pc' = "called" /\ UNCHANGED <<hooks, active, moved, run, point>>
         /\ \A f \in {"sel", "go", "prev", "scope", "done"} : cmd'[f] = cmd[f]
         /\ \A f \in {"taken", "refused", "unsaved", "gated", "cut", "stops"} : told'[f] = told[f]
         /\ cmd'.hook \in Hooks /\ told'.calls[cmd'.hook] > 0
         /\ \A h \in Hooks : told.calls[h] > 0 => told'.calls[h] > 0
<1>1. PICK h \in Hooks :
        /\ cmd' = [cmd EXCEPT !.hook = h]
        /\ told' = [told EXCEPT !.calls = [told.calls EXCEPT ![h] = @ + 1]]
  BY DEF CallHook, First, Due, Typed, TypeOK
<1>2. told.calls \in [Hooks -> Nat]
  BY DEF Typed, TypeOK
<1>3. told'.calls = [told.calls EXCEPT ![h] = @ + 1]
  BY <1>1 DEF Typed, TypeOK
<1>4. cmd'.hook = h
  BY <1>1 DEF Typed, TypeOK
<1>5. told'.calls[h] > 0 /\ \A other \in Hooks : told.calls[other] > 0 => told'.calls[other] > 0
  BY <1>2, <1>3
<1> QED BY <1>1, <1>4, <1>5 DEF CallHook, Typed, TypeOK

LEMMA StopTold ==
  ASSUME Typed, Kill \/ Interrupt
  PROVE  /\ pc # "idle" /\ pc' = "idle" /\ UNCHANGED <<hooks, active, moved, point>>
         /\ \A f \in {"refused", "calls", "gated"} : told'[f] = told[f]
         /\ told'.taken = told.taken \cup run'.vms /\ told'.stops = told.stops + 1
         /\ told'.cut = IF pc \in {"bring", "gate"} /\ Waiting = {} THEN told.cut \cup {point}
                                                                 ELSE told.cut
         /\ \/ run' = run
            \/ run'.vms = cmd.sel /\ run'.done = cmd.done /\ run'.scope = cmd.scope
<1>1. CASE Kill
  BY <1>1 DEF Kill, Stop, Typed, TypeOK
<1>2. CASE Interrupt
  BY <1>2 DEF Interrupt, Stop, Record, Typed, TypeOK
<1> QED BY <1>1, <1>2

LEMMA GatesKept ==
  ASSUME Typed, Typed', Kept, Order, Gates, [Next]_vars
  PROVE  Gates'
  <1> USE WavesAssumption, Shape DEF Typed, TypeOK, Kept, Gates, After, PCs, Start, End, Implicit, Points
  <1>1. ASSUME NEW S \in SUBSET (VMs \ moved), Failover(S)
       PROVE  Gates'
    BY <1>1 DEF Failover, Execute, Untold, NoRun
  <1>2. ASSUME NEW S \in SUBSET (VMs \ moved), Resume(S)
       PROVE  Gates'
    BY <1>2 DEF Resume, Execute, OpenScope
  <1>3. CASE RecordPoints
    BY <1>3 DEF RecordPoints, Record, Passed
  <1>4. CASE SetScope
    <2>1. pc' = "hooks" /\ point' = Start /\ UNCHANGED <<active, moved>>
      BY <1>4 DEF SetScope, Order
    <2>2. \A m \in 1..Implicit : ~(m < point' \/ m = point')
      BY <2>1
    <2>3. cmd'.sel = cmd.sel /\ cmd'.go = cmd.go
      BY <1>4 DEF SetScope
    <2> QED BY <1>4, <2>1, <2>2, <2>3 DEF SetScope
  <1>5. ASSUME NEW v \in VMs, Activate(v)
       PROVE  Gates'
    BY <1>5 DEF Activate, Passed
  <1>6. ASSUME NEW v \in VMs, BringUp(v)
       PROVE  Gates'
    BY <1>6 DEF BringUp, Waiting, Passed
  <1>7. CASE CallHook
    <2>1. \A m \in 1..Implicit : Passed(m)' = Passed(m)
      BY <1>7, CallTold DEF Passed
    <2>2. cmd'.sel = cmd.sel /\ cmd'.go = cmd.go
      BY <1>7, CallTold
    <2> QED BY <1>7, <2>1, <2>2, CallTold
  <1>8. CASE RememberHook
    BY <1>8 DEF RememberHook, Record, Passed
  <1>9. CASE HooksCalled
    <2>1. /\ pc = "hooks" /\ UNCHANGED <<active, moved, cmd>>
          /\ pc' \in {"finish", "hooks", "wave"} /\ point' \in {point, point + 1}
          /\ point' = End => pc' \in {"finish", "hooks"}
      BY <1>9 DEF HooksCalled
    <2>2. \A m \in 1..Implicit : m < point' \/ (m = point' /\ pc' = "hooks") => m <= point
      BY <1>9 DEF HooksCalled
    <2>3. \A m \in 1..Implicit : m <= point => Passed(m)
      BY <2>1
    <2>4. \A m \in 1..Implicit : Passed(m)' = Passed(m)
      BY <2>1 DEF Passed
    <2> QED BY <2>1, <2>2, <2>3, <2>4
  <1>10. CASE SkipWave
    BY <1>10 DEF SkipWave, Passed
  <1>11. CASE PassWave
    BY <1>11 DEF PassWave, Passed
  <1>12. CASE EnterWave
    BY <1>12 DEF EnterWave, Passed
  <1>13. CASE BroughtUp
    BY <1>13 DEF BroughtUp, Waiting, Passed
  <1>14. CASE PassGate
    BY <1>14 DEF PassGate, Passed
  <1>15. CASE Finish
    BY <1>15 DEF Finish, Record, NoCmd
  <1>16. CASE Kill
    BY <1>16, StopTold
  <1>17. CASE Interrupt
    BY <1>17, StopTold
  <1>18. CASE Rest
    BY <1>18 DEF Rest, vars, Passed
  <1>19. CASE UNCHANGED vars
    BY <1>19 DEF vars, Passed
  <1> QED
    BY <1>1, <1>2, <1>3, <1>4, <1>5, <1>6, <1>7, <1>8, <1>9, <1>10,
        <1>11, <1>12, <1>13, <1>14, <1>15, <1>16, <1>17, <1>18, <1>19 DEF Next

LEMMA ScopedKept ==
  ASSUME Typed, Typed', Kept, Scoped, [Next]_vars
  PROVE  Scoped'
  <1> USE WavesAssumption, Shape DEF Typed, TypeOK, Kept, Scoped, After, PCs
  <1>1. ASSUME NEW S \in SUBSET (VMs \ moved), Failover(S)
       PROVE  Scoped'
    BY <1>1 DEF Failover, Execute, Untold, NoRun
  <1>2. ASSUME NEW S \in SUBSET (VMs \ moved), Resume(S)
       PROVE  Scoped'
    BY <1>2 DEF Resume, Execute, OpenScope
  <1>3. CASE RecordPoints
    BY <1>3 DEF RecordPoints, Record
  <1>4. CASE SetScope
    BY <1>4 DEF SetScope, Scope
  <1>5. ASSUME NEW v \in VMs, Activate(v)
       PROVE  Scoped'
    BY <1>5 DEF Activate
  <1>6. ASSUME NEW v \in VMs, BringUp(v)
       PROVE  Scoped'
    BY <1>6 DEF BringUp, Waiting
  <1>7. CASE CallHook
    BY <1>7, CallTold
  <1>8. CASE RememberHook
    BY <1>8 DEF RememberHook, Record
  <1>9. CASE HooksCalled
    BY <1>9 DEF HooksCalled, Due
  <1>10. CASE SkipWave
    BY <1>10 DEF SkipWave
  <1>11. CASE PassWave
    BY <1>11 DEF PassWave
  <1>12. CASE EnterWave
    BY <1>12 DEF EnterWave
  <1>13. CASE BroughtUp
    BY <1>13 DEF BroughtUp, Waiting
  <1>14. CASE PassGate
    BY <1>14 DEF PassGate
  <1>15. CASE Finish
    BY <1>15 DEF Finish, Record, NoCmd
  <1>16. CASE Kill
    BY <1>16, StopTold
  <1>17. CASE Interrupt
    BY <1>17, StopTold
  <1>18. CASE Rest
    BY <1>18 DEF Rest, vars
  <1>19. CASE UNCHANGED vars
    BY <1>19 DEF vars
  <1> QED
    BY <1>1, <1>2, <1>3, <1>4, <1>5, <1>6, <1>7, <1>8, <1>9, <1>10,
        <1>11, <1>12, <1>13, <1>14, <1>15, <1>16, <1>17, <1>18, <1>19 DEF Next

LEMMA OwedKept ==
  ASSUME Typed, Typed', Order, Order', Memory, Owed, [Next]_vars
  PROVE  Owed'
  <1> USE WavesAssumption, Shape DEF Typed, TypeOK, Memory, Order, Owed, After, PCs, Start, End, Implicit, Points, NoHook
  <1>1. ASSUME NEW S \in SUBSET (VMs \ moved), Failover(S)
       PROVE  Owed'
    BY <1>1 DEF Failover, Execute, Untold, NoRun
  <1>2. ASSUME NEW S \in SUBSET (VMs \ moved), Resume(S)
       PROVE  Owed'
    BY <1>2 DEF Resume, Execute, OpenScope
  <1>3. CASE RecordPoints
    BY <1>3 DEF RecordPoints, Record
  <1>4. CASE SetScope
    BY <1>4 DEF SetScope, Scope
  <1>5. ASSUME NEW v \in VMs, Activate(v)
       PROVE  Owed'
    BY <1>5 DEF Activate
  <1>6. ASSUME NEW v \in VMs, BringUp(v)
       PROVE  Owed'
    BY <1>6 DEF BringUp, Waiting
  <1>7. CASE CallHook
    <2>1. cmd'.scope = cmd.scope /\ cmd'.hook \in Hooks
      BY <1>7, CallTold
    <2>2. /\ pc = "hooks" /\ pc' = "called" /\ UNCHANGED <<hooks, run, point>>
          /\ told'.calls[cmd'.hook] > 0 /\ \A h \in Hooks : told.calls[h] > 0 => told'.calls[h] > 0
      BY <1>7, CallTold
    <2> QED BY <2>1, <2>2
  <1>8. CASE RememberHook
    BY <1>8 DEF RememberHook, Record
  <1>9. CASE HooksCalled
    <2>1. /\ pc = "hooks" /\ UNCHANGED <<hooks, run, cmd, told>>
          /\ pc' \in {"finish", "hooks", "wave"}
          /\ \/ point' = point + 1 /\ pc' # "finish"
             \/ point' = point
      BY <1>9 DEF HooksCalled
    <2>2. \A h \in hooks : At[h] = point => told.calls[h] > 0
      BY <1>9 DEF HooksCalled, Due
    <2>3. \A h \in hooks : At[h] < point' \/ (At[h] = point' /\ pc' = "finish") =>
            At[h] < point \/ At[h] = point
      BY <2>1
    <2> QED BY <2>1, <2>2, <2>3
  <1>10. CASE SkipWave
    <2>1. /\ pc = "wave" /\ InWave(point, cmd.scope) = {} /\ point' = point + 1
          /\ pc' \in {"hooks", "wave"} /\ UNCHANGED <<hooks, run, cmd, told>>
      BY <1>10 DEF SkipWave
    <2>2. \A h \in hooks : At[h] < point' => At[h] < point \/ At[h] = point
      BY <2>1
    <2> QED BY <2>1, <2>2
  <1>11. CASE PassWave
    BY <1>11 DEF PassWave
  <1>12. CASE EnterWave
    BY <1>12 DEF EnterWave
  <1>13. CASE BroughtUp
    BY <1>13 DEF BroughtUp, Waiting
  <1>14. CASE PassGate
    BY <1>14 DEF PassGate
  <1>15. CASE Finish
    BY <1>15 DEF Finish, Record, NoCmd
  <1>16. CASE Kill
    BY <1>16, StopTold
  <1>17. CASE Interrupt
    BY <1>17, StopTold
  <1>18. CASE Rest
    BY <1>18 DEF Rest, vars
  <1>19. CASE UNCHANGED vars
    BY <1>19 DEF vars
  <1> QED
    BY <1>1, <1>2, <1>3, <1>4, <1>5, <1>6, <1>7, <1>8, <1>9, <1>10,
        <1>11, <1>12, <1>13, <1>14, <1>15, <1>16, <1>17, <1>18, <1>19 DEF Next

(* Whoever is activated, taken and not up is of this execution. *)
LEMMA Pending ==
  ASSUME Typed, Kept, Gates, pc # "idle", pc # "record", NEW m \in 1..Implicit,
         NEW v \in (InWave(m, told.taken) \cap active) \ moved
  PROVE  v \in InWave(m, cmd.sel) \cap cmd.go /\ (pc \in After => v \in InWave(m, cmd.scope))
<1>1. told.taken \in SUBSET VMs /\ cmd.sel \in SUBSET VMs /\ cmd.scope \in SUBSET VMs
  BY DEF Typed, TypeOK
<1>2. v \in told.taken /\ v \in InWave(m, VMs)
  BY <1>1, InOneWave
<1>3. v \in cmd.sel /\ v \in cmd.go
  BY <1>2 DEF Kept, Gates
<1>4. pc \in After => v \in cmd.scope
  BY <1>3 DEF Kept
<1> QED BY <1>1, <1>2, <1>3, <1>4, InOneWave

(* A wave stays accounted for in a step that takes on only VMs not yet up. *)
LEMMA StillAccounted ==
  ASSUME Typed, Typed', NEW m \in 1..Implicit, Accounted(m),
         told.taken \subseteq told'.taken, (told'.taken \ told.taken) \cap moved' = {},
         moved' = moved, active' = active,
         told.refused \subseteq told'.refused, told.gated \subseteq told'.gated,
         told.cut \subseteq told'.cut,
         pc \in {"bring", "gate"} => pc' \in {"bring", "gate"} /\ point' = point
  PROVE  Accounted(m)'
<1>1. told.taken \in SUBSET VMs /\ told'.taken \in SUBSET VMs
  BY DEF Typed, TypeOK
<1>2. /\ InWave(m, told.taken) \subseteq InWave(m, told'.taken)
      /\ InWave(m, told'.taken) \cap moved \subseteq InWave(m, told.taken)
  BY <1>1, InOneWave
<1> QED BY <1>2 DEF Accounted

(* A stop in the middle of a wave is noted as a cut, or leaves a VM of it *)
(* activated and waiting.                                                 *)
LEMMA StopAccounted ==
  ASSUME Typed, Typed', Kept, Gates, AllAccounted, Kill \/ Interrupt
  PROVE  AllAccounted'
<1>1. /\ UNCHANGED <<active, moved, point>> /\ pc' = "idle"
      /\ told'.refused = told.refused /\ told'.gated = told.gated /\ told.cut \subseteq told'.cut
      /\ pc \in {"bring", "gate"} /\ Waiting = {} => told'.cut = told.cut \cup {point}
      /\ told'.taken = told.taken \cup run'.vms
  BY StopTold
<1>2. told.taken \in SUBSET VMs /\ told'.taken \in SUBSET VMs /\ cmd.scope \in SUBSET VMs
  BY DEF Typed, TypeOK
<1>3. told.taken \subseteq told'.taken /\ (told'.taken \ told.taken) \cap moved' = {}
  BY <1>1, StopTold DEF Kept, Gates
<1>4. ASSUME NEW m \in 1..Implicit PROVE Accounted(m)'
  <2>1. CASE pc \notin {"bring", "gate"}
    BY <1>1, <1>3, <2>1, StillAccounted DEF AllAccounted
  <2>2. CASE pc \in {"bring", "gate"} /\ m # point
    <3>1. \/ InWave(m, told.taken) \cap moved \subseteq told.refused
          \/ m \in told.gated \cup told.cut
          \/ (InWave(m, told.taken) \cap active) \ moved # {}
      BY <2>2 DEF AllAccounted, Accounted
    <3>2. /\ InWave(m, told.taken) \subseteq InWave(m, told'.taken)
          /\ InWave(m, told'.taken) \cap moved \subseteq InWave(m, told.taken)
      BY <1>1, <1>2, <1>3, InOneWave
    <3> QED BY <1>1, <3>1, <3>2 DEF Accounted
  <2>3. CASE pc \in {"bring", "gate"} /\ m = point /\ Waiting = {}
    BY <1>1, <2>3 DEF Accounted
  <2>4. CASE pc \in {"bring", "gate"} /\ m = point /\ Waiting # {}
    <3>1. PICK v : v \in InWave(m, cmd.scope) \cap cmd.go /\ v \notin moved
      BY <2>4 DEF Waiting
    <3>2. v \in active /\ v \in told.taken
      BY <2>4, <3>1, <1>2, InOneWave DEF Typed, After, Kept
    <3>3. v \in InWave(m, told'.taken)
      BY <3>1, <3>2, <1>2, <1>3, InOneWave
    <3> QED BY <1>1, <3>1, <3>2, <3>3 DEF Accounted
  <2> QED BY <2>1, <2>2, <2>3, <2>4
<1> QED BY <1>4 DEF AllAccounted

LEMMA AccountedKept ==
  ASSUME Typed, Typed', Kept, Kept', Order, Gates, AllAccounted, [Next]_vars
  PROVE  AllAccounted'
  <1> USE WavesAssumption, Shape DEF AllAccounted
  <1>1. ASSUME NEW S \in SUBSET (VMs \ moved), Failover(S)
       PROVE  AllAccounted'
    <2>1. told'.taken = S /\ moved' = moved
      BY <1>1, Fresh DEF Failover, Execute, NoRun
    <2>2. \A m \in 1..Implicit : InWave(m, S) \cap moved = {}
      <3>1. S \in SUBSET VMs
        OBVIOUS
      <3> QED BY <3>1, InOneWave
    <2> QED BY <2>1, <2>2 DEF Accounted
  <1>2. ASSUME NEW S \in SUBSET (VMs \ moved), Resume(S)
       PROVE  AllAccounted'
    <2>1. /\ pc = "idle" /\ UNCHANGED <<active, moved>>
          /\ told'.taken = told.taken \cup run.vms /\ told.refused \subseteq told'.refused
          /\ told'.gated = told.gated /\ told'.cut = told.cut
      BY <1>2 DEF Resume, Execute, Typed, TypeOK
    <2>2. run.vms \subseteq told.taken
      BY <1>2 DEF Kept, Resume
    <2> QED BY <2>1, <2>2, StillAccounted
  <1>3. CASE RecordPoints
    <2>1. /\ pc = "record" /\ UNCHANGED <<active, moved>> /\ told'.taken = told.taken \cup cmd.sel
          /\ told'.refused = told.refused /\ told'.gated = told.gated /\ told'.cut = told.cut
      BY <1>3 DEF RecordPoints, Typed, TypeOK
    <2>2. cmd.sel \cap moved = {}
      BY <2>1 DEF Gates
    <2> QED BY <2>1, <2>2, StillAccounted
  <1>4. CASE SetScope
    BY <1>4, StillAccounted DEF SetScope, Typed, TypeOK, Kept, Gates, After
  <1>5. ASSUME NEW v \in VMs, Activate(v)
       PROVE  AllAccounted'
    <2>1. /\ pc = "scope" /\ pc' = "scope" /\ UNCHANGED <<moved, told>> /\ active \subseteq active'
      BY <1>5 DEF Activate
    <2> QED BY <2>1 DEF Accounted
  <1>6. ASSUME NEW v \in VMs, BringUp(v)
       PROVE  AllAccounted'
    <2>1. /\ pc = "bring" /\ UNCHANGED <<pc, point, active, told>> /\ moved' = moved \cup {v}
          /\ v \in InWave(point, cmd.scope) /\ point \in 1..Implicit
      BY <1>6 DEF BringUp, Waiting, Typed
    <2>2. told.taken \in SUBSET VMs /\ cmd.scope \in SUBSET VMs
      BY DEF Typed, TypeOK
    <2>3. \A m \in 1..Implicit : m # point => v \notin InWave(m, told.taken)
      BY <2>1, <2>2, InOneWave
    <2> QED BY <2>1, <2>3 DEF Accounted
  <1>7. CASE CallHook
    BY <1>7, StillAccounted, CallTold
  <1>8. CASE RememberHook
    BY <1>8, StillAccounted DEF RememberHook, Record, Typed, TypeOK, Kept, Gates, After
  <1>9. CASE HooksCalled
    BY <1>9, StillAccounted DEF HooksCalled, Typed, TypeOK, Kept, Gates, After
  <1>10. CASE SkipWave
    BY <1>10, StillAccounted DEF SkipWave, Typed, TypeOK, Kept, Gates, After
  <1>11. CASE PassWave
    BY <1>11, StillAccounted DEF PassWave, Typed, TypeOK, Kept, Gates, After
  <1>12. CASE EnterWave
    BY <1>12, StillAccounted DEF EnterWave, Typed, TypeOK, Kept, Gates, After
  <1>13. CASE BroughtUp
    BY <1>13, StillAccounted DEF BroughtUp, Typed, TypeOK, Kept, Gates, After
  <1>14. CASE PassGate
    <2>1. /\ UNCHANGED <<active, moved>> /\ told'.gated = told.gated \cup {point}
          /\ told'.taken = told.taken /\ told'.refused = told.refused /\ told'.cut = told.cut
      BY <1>14 DEF PassGate, Typed, TypeOK
    <2> QED BY <2>1 DEF Accounted
  <1>15. CASE Finish
    BY <1>15, StillAccounted DEF Finish, Typed, TypeOK, Kept, Gates, After
  <1>16. CASE Kill
    BY <1>16, StopAccounted
  <1>17. CASE Interrupt
    BY <1>17, StopAccounted
  <1>18. CASE Rest
    BY <1>18, StillAccounted DEF Rest, vars, Typed, TypeOK, Kept, Gates, After
  <1>19. CASE UNCHANGED vars
    BY <1>19, StillAccounted DEF vars, Typed, TypeOK, Kept, Gates, After
  <1> QED
    BY <1>1, <1>2, <1>3, <1>4, <1>5, <1>6, <1>7, <1>8, <1>9, <1>10,
        <1>11, <1>12, <1>13, <1>14, <1>15, <1>16, <1>17, <1>18, <1>19 DEF Next

IInv ==
  /\ Typed /\ Memory /\ Kept /\ Order
  /\ Gates /\ AllAccounted /\ Scoped /\ Owed

LEMMA InitIInv == Init => IInv
  <1> SUFFICES ASSUME Init PROVE IInv OBVIOUS
  <1> USE WavesAssumption, Shape, Fresh
      DEF Init, NoRun, NoCmd, After, PCs, Start, End, Implicit, Points
  <1>1. Typed BY DEF Typed, TypeOK, NoHook
  <1>2. Memory BY DEF Memory
  <1>3. Kept BY DEF Kept
  <1>4. Order BY DEF Order
  <1>5. Gates BY DEF Gates
  <1>6. AllAccounted
    <2>1. \A m \in 1..Implicit : InWave(m, told.taken) \cap moved = {}
      OBVIOUS
    <2> QED BY <2>1 DEF AllAccounted, Accounted
  <1>7. Scoped BY DEF Scoped
  <1>8. Owed BY DEF Owed
  <1> QED BY <1>1, <1>2, <1>3, <1>4, <1>5, <1>6, <1>7, <1>8 DEF IInv

LEMMA Inductive == IInv /\ [Next]_vars => IInv'
  BY TypedKept, MemoryKept, KeptKept, OrderKept, GatesKept, AccountedKept, ScopedKept, OwedKept
  DEF IInv

LEMMA Invariance == Spec => []IInv
  BY InitIInv, Inductive, PTL DEF Spec

(* The types hold for any VMs, waves, hooks and number of stops: above all, no *)
(* VM is brought up before its standby volumes are activated.                  *)
THEOREM TypeCorrect == Spec => []TypeOK
  <1>1. IInv => TypeOK BY DEF IInv, Typed
  <1> QED BY <1>1, Invariance, PTL

(* A hook is called again only after a stop between its call and its record, *)
(* however often the failover is stopped and by which record_run it was kept. *)
THEOREM NoHookTwice == Spec => []RememberedHooksAreNotRecalled
  <1>1. IInv => RememberedHooksAreNotRecalled
    <2> SUFFICES ASSUME IInv, NEW h \in Hooks
                 PROVE  told.calls[h] <= 1 + told.unsaved[h]
      BY DEF RememberedHooksAreNotRecalled
    <2>1. told.calls \in [Hooks -> Nat] /\ told.unsaved \in [Hooks -> Nat]
      BY DEF IInv, Typed, TypeOK
    <2>2. told.calls[h] \in Nat /\ told.unsaved[h] \in Nat BY <2>1
    <2>3. told.calls[h] <= told.unsaved[h] \/ told.calls[h] = told.unsaved[h] + 1
      BY DEF IInv, Memory
    <2> QED BY <2>2, <2>3
  <1> QED BY <1>1, Invariance, PTL

(* The hooks of a wave come after the VMs of this wave. *)
THEOREM HooksFollow == Spec => []HookAfterItsWave
  <1>1. IInv => HookAfterItsWave
    BY DEF IInv, Typed, TypeOK, Order, After, HookAfterItsWave
  <1> QED BY <1>1, Invariance, PTL

(* Any number of kills and resumes keeps the order of the waves: a VM is brought *)
(* up when those the failover takes along in earlier waves are up or left out.   *)
THEOREM OrderOfWaves == Spec => WavesInOrder
  <1>1. IInv /\ [Next]_vars =>
          [\A v \in moved' \ moved : \A n \in 1..Implicit : v \in InWave(n, VMs) =>
             \A m \in 1..(n - 1) : InWave(m, told.taken) \subseteq moved \cup told.refused]_vars
    <2> SUFFICES ASSUME IInv, Next, NEW v \in moved' \ moved, NEW n \in 1..Implicit,
                        v \in InWave(n, VMs), NEW m \in 1..(n - 1)
                 PROVE  InWave(m, told.taken) \subseteq moved \cup told.refused
      OBVIOUS
    <2>1. PICK u \in VMs : BringUp(u)
      BY DEF Next, Failover, Resume, Execute, RecordPoints, SetScope, Activate, CallHook, RememberHook,
             HooksCalled, SkipWave, PassWave, EnterWave, BroughtUp, PassGate, Finish, Kill, Interrupt,
             Stop, Rest, vars
    <2>2. u = v /\ pc = "bring" /\ v \in InWave(point, cmd.scope)
      BY <2>1 DEF BringUp, Waiting
    <2>3. point \in 1..Implicit /\ cmd.scope \in SUBSET VMs
      BY <2>2 DEF IInv, Typed, TypeOK
    <2>4. v \in InWave(point, VMs)
      BY <2>2, <2>3, InOneWave
    <2>5. n = point
      BY <2>3, <2>4, InOneWave
    <2>6. Implicit \in Nat
      BY Shape DEF Implicit
    <2>7. m \in 1..Implicit /\ m < point
      BY <2>3, <2>5, <2>6
    <2> QED BY <2>2, <2>7 DEF IInv, Order, After
  <1> QED BY <1>1, Invariance, PTL DEF Spec, WavesInOrder

(* A wave begins when the earlier ones have been through their gate, through *)
(* any number of stops, but for those a stop cut after their last VM.        *)
THEOREM GatesFirst == Spec => []GateOrStop
  <1>1. IInv => GateOrStop
    <2> SUFFICES ASSUME IInv, pc = "bring", NEW m \in 1..(point - 1),
                        m \notin told.gated \cup told.cut
                 PROVE  InWave(m, told.taken) \subseteq told.refused
      BY DEF GateOrStop
    <2>1. point \in 1..Implicit /\ pc \in After
      BY DEF IInv, Typed, After
    <2>2. Implicit \in Nat
      BY Shape DEF Implicit
    <2>3. m \in 1..Implicit /\ m < point
      BY <2>1, <2>2
    <2>4. InWave(m, told.taken) \subseteq moved \cup told.refused /\ Passed(m)
      BY <2>1, <2>3 DEF IInv, Order, Gates
    <2>5. (InWave(m, told.taken) \cap active) \ moved = {}
      BY <2>1, <2>3, <2>4, Pending DEF IInv, Passed
    <2>6. InWave(m, told.taken) \cap moved \subseteq told.refused
      BY <2>3, <2>5 DEF IInv, AllAccounted, Accounted
    <2> QED BY <2>4, <2>6
  <1> QED BY <1>1, Invariance, PTL

(* Stopped at most once, a failover that ends has called each hook it owed: *)
(* what it was taken on for is found again in the row and the scope.         *)
THEOREM NoHookForgotten == Spec => []OneStopOwesNoHook
  <1>1. IInv => OneStopOwesNoHook
    <2> SUFFICES ASSUME IInv, pc = "finish", told.stops <= 1, NEW h \in hooks,
                        ~(told.calls[h] > 0)
                 PROVE  At[h] \in 1..Implicit /\ InWave(At[h], told.taken) \cap moved = {}
      BY DEF OneStopOwesNoHook
    <2>1. pc \in After /\ point = End /\ At[h] \in Points /\ End \in Nat
      BY WavesAssumption, Shape DEF IInv, Typed, TypeOK, Order, After, End
    <2>2. At[h] < point \/ At[h] = point
      BY <2>1, Shape DEF Points, Start
    <2>3. At[h] \in 1..Implicit /\ InWave(At[h], cmd.scope) = {}
      BY <2>1, <2>2 DEF IInv, Owed
    <2>4. told.stops = 0 \/ told.stops = 1
      <3>1. told.stops \in Nat
        BY DEF IInv, Typed, TypeOK
      <3> QED BY <3>1
    <2>5. told.taken \cap moved \subseteq cmd.scope
      BY <2>1, <2>4 DEF IInv, Scoped, Kept
    <2>6. told.taken \in SUBSET VMs /\ cmd.scope \in SUBSET VMs
      BY DEF IInv, Typed, TypeOK
    <2> QED BY <2>3, <2>5, <2>6, InOneWave
  <1> QED BY <1>1, Invariance, PTL

================================================================================
