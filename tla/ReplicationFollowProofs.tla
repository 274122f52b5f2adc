----------------------- MODULE ReplicationFollowProofs -----------------------
(* ReplicationFollow for any followers, disks, passes and number of upsets: *)
(* the barrier, what is called applied, and the requests of a follower that *)
(* has lost its lease.                                                      *)
EXTENDS ReplicationFollow, TLAPS

PCs == {"dead", "idle", "read", "ticks", "record", "ask", "patch", "note", "skip",
        "again", "patch_again"}
Row == [state : TickStates, asked : BOOLEAN]
Mem == [pc : PCs, read : SUBSET {"source", "engines"}, down : BOOLEAN,
        todo : SUBSET Cells, apply : SUBSET Cells, cell : SUBSET Cells, strays : Nat,
        src : [Cells -> BackupStates], eng : [Disks -> {0} \cup Passes],
        view : [Cells -> Row]]

Typed ==
  /\ TypeOK
  /\ mem \in [Followers -> Mem]

(* The clusters as far as the properties look at them: what follows says of *)
(* given backups b, restored passes r and overdue passes o.                 *)
Done(b, c) == b[c] \in {"completed", "error"}

(* What the barrier asks of a pass. *)
Safe(b, r, o, c) ==
  \/ c[2] \in o
  \/ \A d \in Disks : r[d] < c[2] => <<d, c[2]>> \in Cells /\ Done(b, <<d, c[2]>>)

(* A row of the registry is behind the clusters, never ahead of them. *)
Behind(row, b, r, o, c) ==
  /\ row.state \in {"completed", "error"} => Done(b, c)
  /\ row.state = "applied" => r[c[1]] >= c[2]
  /\ row.asked => Safe(b, r, o, c)

(* So is what a follower has in memory, however long ago it was read. *)
Memory(m, b, r, o) ==
  /\ \A c \in Cells : /\ m.src[c] \in {"completed", "error"} => Done(b, c)
                      /\ Behind(m.view[c], b, r, o, c)
  /\ \A d \in Disks : m.eng[d] <= r[d]
  /\ \A c \in m.apply : r[c[1]] >= c[2]
  /\ \A c \in m.todo : Done(b, c) /\ Safe(b, r, o, c)
  /\ m.pc \in {"patch", "note", "patch_again"} => m.cell \subseteq m.todo

(* A request is stray only once the lease is lost, and the next is not made. *)
Leased(f) ==
  /\ mem[f].strays <= 1
  /\ lease = f => mem[f].strays = 0
  /\ mem[f].pc \in {"patch", "patch_again"} => mem[f].strays = 0

IInv ==
  /\ Typed
  /\ \A c \in Cells : Behind(tick[c], backup, restored, overdue, c)
  /\ \A f \in Followers : Memory(mem[f], backup, restored, overdue)
  /\ \A f \in Followers : Leased(f)

-----------------------------------------------------------------------------
(* Facts about the data. *)

LEMMA CellShape ==
  \A c \in Cells : /\ c[1] \in Disks /\ c[2] \in Nat /\ c[2] > 0
                   /\ c = <<c[1], c[2]>> /\ c[2] \in Passes /\ c \in Of(c[1])
  BY FollowAssumption DEF Passes, Of

LEMMA PassesAreNumbers == Passes \subseteq Nat /\ {0} \cup Passes \subseteq Nat
  BY FollowAssumption DEF Passes

LEMMA NoMemIsMem == NoMem \in Mem
  BY DEF NoMem, Mem, PCs, Row, NoRow, TickStates, BackupStates

(* A mapping of the rows that records a state. *)
LEMMA RecordedIsRow ==
  ASSUME NEW row \in Row, NEW s \in TickStates
  PROVE  /\ Recorded(row, s) \in Row
         /\ Recorded(row, s).asked = row.asked
         /\ Recorded(row, s).state = IF row.state = "applied" THEN "applied" ELSE s
  BY DEF Recorded, Row

(* An empty memory knows nothing that could be wrong. *)
LEMMA Blank ==
  ASSUME NEW m \in Mem, NEW b, NEW r \in [Disks -> Nat], NEW o,
         m.src = NoMem.src, m.view = NoMem.view, m.eng = NoMem.eng,
         m.apply = {}, m.todo = {}, m.pc \notin {"patch", "note", "patch_again"}
  PROVE  Memory(m, b, r, o)
  <1>1. \A c \in Cells : m.src[c] = "none" /\ m.view[c] = [state |-> "none", asked |-> FALSE]
    BY DEF NoMem, NoRow
  <1>2. \A d \in Disks : m.eng[d] = 0 /\ r[d] \in Nat
    BY DEF NoMem
  <1> QED BY <1>1, <1>2 DEF Memory, Behind

-----------------------------------------------------------------------------
(* The clusters go forward. *)

Ahead(b, r, o, b2, r2, o2) ==
  /\ \A c \in Cells : Done(b, c) => Done(b2, c)
  /\ \A d \in Disks : r[d] \in Nat /\ r2[d] \in Nat /\ r[d] <= r2[d]
  /\ o \subseteq o2

LEMMA SafeStays ==
  ASSUME NEW b, NEW r, NEW o, NEW b2, NEW r2, NEW o2, Ahead(b, r, o, b2, r2, o2),
         NEW c \in Cells, Safe(b, r, o, c)
  PROVE  Safe(b2, r2, o2, c)
  BY CellShape DEF Ahead, Safe

LEMMA BehindStays ==
  ASSUME NEW b, NEW r, NEW o, NEW b2, NEW r2, NEW o2, Ahead(b, r, o, b2, r2, o2),
         NEW c \in Cells, NEW row, Behind(row, b, r, o, c)
  PROVE  Behind(row, b2, r2, o2, c)
  <1>1. c[1] \in Disks /\ c[2] \in Nat BY CellShape
  <1> QED BY <1>1, SafeStays DEF Ahead, Behind

LEMMA MemoryStays ==
  ASSUME NEW b, NEW r, NEW o, NEW b2, NEW r2, NEW o2, Ahead(b, r, o, b2, r2, o2),
         NEW m \in Mem, Memory(m, b, r, o)
  PROVE  Memory(m, b2, r2, o2)
  <1>1. \A c \in Cells : /\ m.src[c] \in {"completed", "error"} => Done(b2, c)
                         /\ Behind(m.view[c], b2, r2, o2, c)
    BY BehindStays DEF Ahead, Memory
  <1>2. \A d \in Disks : m.eng[d] <= r2[d]
    <2> SUFFICES ASSUME NEW d \in Disks PROVE m.eng[d] <= r2[d] OBVIOUS
    <2>0. m.eng \in [Disks -> {0} \cup Passes] BY DEF Mem
    <2>1. m.eng[d] \in Nat
      <3>1. m.eng[d] \in {0} \cup Passes BY <2>0
      <3> QED BY <3>1, PassesAreNumbers, Zenon
    <2>2. m.eng[d] <= r[d] /\ r[d] <= r2[d] /\ r[d] \in Nat /\ r2[d] \in Nat BY DEF Memory, Ahead
    <2> QED BY <2>1, <2>2
  <1>3. \A c \in m.apply : r2[c[1]] >= c[2]
    <2> SUFFICES ASSUME NEW c \in m.apply PROVE r2[c[1]] >= c[2] OBVIOUS
    <2>1. c \in Cells BY DEF Mem
    <2>2. c[1] \in Disks /\ c[2] \in Nat BY <2>1, CellShape
    <2> QED BY <2>2 DEF Memory, Ahead
  <1>4. \A c \in m.todo : Done(b2, c) /\ Safe(b2, r2, o2, c)
    <2> SUFFICES ASSUME NEW c \in m.todo PROVE Done(b2, c) /\ Safe(b2, r2, o2, c) OBVIOUS
    <2>1. c \in Cells BY DEF Mem
    <2> QED BY <2>1, SafeStays DEF Memory, Ahead
  <1> QED BY <1>1, <1>2, <1>3, <1>4 DEF Memory

(* Whatever a follower or a failover does leaves the clusters as they are. *)
Still == UNCHANGED <<backup, restored, overdue>>

LEMMA Forward ==
  ASSUME Typed, Clusters \/ Still
  PROVE  Ahead(backup, restored, overdue, backup', restored', overdue')
  <1> USE PassesAreNumbers DEF Typed, TypeOK, Ahead, Done
  <1>1. \A d \in Disks : restored[d] \in Nat OBVIOUS
  <1>2. CASE Still BY <1>1, <1>2 DEF Still
  <1>3. ASSUME BackUp PROVE Ahead(backup, restored, overdue, backup', restored', overdue')
    <2>1. PICK c \in Cells : /\ \A e \in Of(c[1]) : IF e[2] < c[2] THEN backup[e] # "in_progress" ELSE backup[e] = "none"
                             /\ backup' = [backup EXCEPT ![c] = "in_progress"]
      BY <1>3 DEF BackUp
    <2>2. backup[c] = "none" BY <2>1, CellShape
    <2> QED BY <1>1, <1>3, <2>1, <2>2 DEF BackUp
  <1>4. ASSUME FinishBackup \/ FailBackup PROVE Ahead(backup, restored, overdue, backup', restored', overdue')
    <2>1. PICK c \in Cells, s \in {"completed", "error"} :
            backup[c] = "in_progress" /\ backup' = [backup EXCEPT ![c] = s]
      BY <1>4 DEF FinishBackup, FailBackup
    <2>2. UNCHANGED <<restored, overdue>> BY <1>4 DEF FinishBackup, FailBackup
    <2> QED BY <1>1, <2>1, <2>2
  <1>5. ASSUME Restore PROVE Ahead(backup, restored, overdue, backup', restored', overdue')
    <2>1. PICK c \in Cells : c[2] > restored[c[1]] /\ restored' = [restored EXCEPT ![c[1]] = c[2]]
      BY <1>5 DEF Restore
    <2>2. UNCHANGED <<backup, overdue>> BY <1>5 DEF Restore
    <2>3. c[1] \in Disks /\ c[2] \in Nat BY CellShape
    <2>4. \A d \in Disks : restored'[d] \in Nat /\ restored[d] <= restored'[d]
      BY <1>1, <2>1, <2>3
    <2> QED BY <1>1, <2>2, <2>4
  <1>6. ASSUME GrowOld PROVE Ahead(backup, restored, overdue, backup', restored', overdue')
    BY <1>1, <1>6 DEF GrowOld
  <1> QED BY <1>2, <1>3, <1>4, <1>5, <1>6 DEF Clusters

-----------------------------------------------------------------------------
(* What a follower does: one memory and rows of the registry change. *)

Fits(n) ==
  /\ n \in Mem
  /\ n.pc \in {"dead", "idle"} => n = [NoMem EXCEPT !.pc = n.pc]
  /\ Memory(n, backup, restored, overdue)

LEMMA Move ==
  ASSUME IInv, Still, NEW f \in Followers, NEW n, Fits(n), Go(f, n),
         tick' \in [Cells -> Row],
         \A c \in Cells : Behind(tick'[c], backup, restored, overdue, c),
         mode' \in {"followed", "paused", "moving"}, upsets' \in 0 .. MaxUpsets,
         lease' = lease \/ lease' \in {f, "nobody", "gone"},
         n.strays <= 1, lease' = f => n.strays = 0,
         n.pc \in {"patch", "patch_again"} => n.strays = 0
  PROVE  IInv'
  <1> USE DEF Still, Go
  <1>0. mem \in [Followers -> Mem] /\ lease \in Followers \cup {"nobody", "gone"}
    BY DEF IInv, Typed, TypeOK
  <1>1. mem' \in [Followers -> Mem] /\ mem'[f] = n /\ \A g \in Followers \ {f} : mem'[g] = mem[g]
    BY <1>0 DEF Fits
  <1>2. Typed'
    <2>1. \A g \in Followers : mem'[g].pc \in {"dead", "idle"} => mem'[g] = [NoMem EXCEPT !.pc = mem'[g].pc]
      BY <1>1 DEF IInv, Typed, TypeOK, Fits
    <2>2. \A g \in Followers :
            /\ mem'[g].pc \in PCs
            /\ mem'[g].read \subseteq {"source", "engines"} /\ mem'[g].down \in BOOLEAN
            /\ mem'[g].cell \cup mem'[g].todo \cup mem'[g].apply \subseteq Cells
      BY <1>1 DEF Mem
    <2>3. /\ backup' \in [Cells -> BackupStates] /\ restored' \in [Disks -> {0} \cup Passes]
          /\ overdue' \subseteq Passes /\ lease' \in Followers \cup {"nobody", "gone"}
      BY <1>0 DEF IInv, Typed, TypeOK
    <2> QED BY <1>1, <2>1, <2>2, <2>3 DEF Typed, TypeOK, Row, PCs
  <1>3. \A c \in Cells : Behind(tick'[c], backup', restored', overdue', c)
    OBVIOUS
  <1>4. \A g \in Followers : Memory(mem'[g], backup', restored', overdue')
    BY <1>1 DEF IInv, Fits
  <1>5. \A g \in Followers : Leased(g)'
    <2> SUFFICES ASSUME NEW g \in Followers PROVE Leased(g)' OBVIOUS
    <2>1. CASE g = f BY <2>1, <1>1 DEF Leased
    <2>2. CASE g # f
      <3>1. lease' = g => lease = g BY <2>2, FollowAssumption
      <3> QED BY <2>2, <3>1, <1>1 DEF IInv, Leased
    <2> QED BY <2>1, <2>2
  <1> QED BY <1>2, <1>3, <1>4, <1>5 DEF IInv

(* The types of what a step looks at. *)
LEMMA Shapes ==
  ASSUME IInv
  PROVE  /\ tick \in [Cells -> Row] /\ \A f \in Followers : mem[f] \in Mem
         /\ backup \in [Cells -> BackupStates] /\ restored \in [Disks -> Nat]
         /\ restored \in [Disks -> {0} \cup Passes]
         /\ mode \in {"followed", "paused", "moving"} /\ upsets \in 0 .. MaxUpsets /\ MaxUpsets \in Nat
         /\ lease \in Followers \cup {"nobody", "gone"}
         /\ \A c \in Cells : Behind(tick[c], backup, restored, overdue, c)
         /\ \A f \in Followers : Memory(mem[f], backup, restored, overdue) /\ Leased(f)
  BY PassesAreNumbers, FollowAssumption DEF IInv, Typed, TypeOK, Row

LEMMA UpsetCounts ==
  ASSUME IInv, Upset \/ UNCHANGED upsets
  PROVE  upsets' \in 0 .. MaxUpsets
  BY Shapes DEF Upset

(* A follower that ends its round or begins one has nothing in memory. *)
LEMMA BlankFits ==
  ASSUME IInv, NEW p \in {"idle", "dead", "read"}
  PROVE  Fits([NoMem EXCEPT !.pc = p]) /\ [NoMem EXCEPT !.pc = p].strays = 0
         /\ Fits(NoMem) /\ NoMem.strays = 0
  <1> DEFINE n == [NoMem EXCEPT !.pc = p]
  <1>1. n \in Mem /\ n.pc = p /\ NoMem.pc = "idle" /\ n.strays = 0 /\ NoMem.strays = 0
    BY NoMemIsMem DEF Mem, PCs, NoMem
  <1>2. n.src = NoMem.src /\ n.view = NoMem.view /\ n.eng = NoMem.eng /\ n.apply = {} /\ n.todo = {}
        /\ NoMem.apply = {} /\ NoMem.todo = {}
    BY DEF NoMem
  <1>3. Memory(n, backup, restored, overdue) /\ Memory(NoMem, backup, restored, overdue)
    BY <1>1, <1>2, Blank, Shapes, NoMemIsMem
  <1>4. NoMem = [NoMem EXCEPT !.pc = "idle"] BY <1>1, NoMemIsMem DEF Mem
  <1> QED BY <1>1, <1>3, <1>4, NoMemIsMem DEF Fits

LEMMA Ends ==
  ASSUME IInv, Still, UNCHANGED tick, NEW f \in Followers, NEW p \in {"idle", "dead", "read"},
         Go(f, [NoMem EXCEPT !.pc = p]) \/ EndRound(f),
         lease' = lease \/ lease' \in {f, "nobody", "gone"},
         mode' = mode, Upset \/ UNCHANGED upsets
  PROVE  IInv'
  <1>1. tick' \in [Cells -> Row] /\ \A c \in Cells : Behind(tick'[c], backup, restored, overdue, c)
    BY Shapes
  <1>2. mode' \in {"followed", "paused", "moving"} BY Shapes
  <1>3. PICK n \in {NoMem, [NoMem EXCEPT !.pc = p]} : Go(f, n) BY DEF EndRound
  <1>4. Fits(n) /\ n.strays = 0 BY BlankFits
  <1> QED BY <1>1, <1>2, <1>3, <1>4, UpsetCounts, Move

LEMMA TakeKept ==
  ASSUME IInv, NEW f \in Followers, Begin(f) \/ TakeOver(f)
  PROVE  IInv'
  <1>1. Still /\ UNCHANGED <<tick, mode>> /\ lease' = f /\ (Upset \/ UNCHANGED upsets)
    BY DEF Begin, TakeOver, Take, Still
  <1>2. Go(f, NoMem) \/ Go(f, [NoMem EXCEPT !.pc = "read"])
    BY DEF Begin, TakeOver, Take
  <1> QED BY <1>1, <1>2, Ends DEF EndRound

LEMMA ProcessKept ==
  ASSUME IInv, NEW f \in Followers, Stop(f) \/ Die(f) \/ Start(f)
  PROVE  IInv'
  <1>1. Still /\ UNCHANGED <<tick, mode>> /\ (Upset \/ UNCHANGED upsets)
    BY DEF Stop, Die, Start, Still
  <1>2. lease' = lease \/ lease' \in {f, "nobody", "gone"} BY DEF Stop, Die, Start
  <1>3. Go(f, [NoMem EXCEPT !.pc = "dead"]) \/ EndRound(f) BY DEF Stop, Die, Start
  <1> QED BY <1>1, <1>2, <1>3, Ends

(* Steps which change only the place in the round and what is left to do. *)
LEMMA Lesser ==
  ASSUME IInv, Still, UNCHANGED <<tick, lease, mode>>, Upset \/ UNCHANGED upsets,
         NEW f \in Followers, NEW n \in Mem, Go(f, n),
         n.pc \notin {"dead", "idle"},
         n.src = mem[f].src, n.eng = mem[f].eng, n.view = mem[f].view,
         n.apply \subseteq mem[f].apply, n.todo \subseteq mem[f].todo,
         n.pc \in {"patch", "note", "patch_again"} => n.cell \subseteq n.todo,
         n.strays <= 1, lease = f => n.strays = 0,
         n.pc \in {"patch", "patch_again"} => n.strays = 0
  PROVE  IInv'
  <1>1. Memory(n, backup, restored, overdue)
    BY Shapes DEF Memory
  <1>2. tick' \in [Cells -> Row] /\ \A c \in Cells : Behind(tick'[c], backup, restored, overdue, c)
    BY Shapes
  <1>3. mode' \in {"followed", "paused", "moving"} /\ upsets' \in 0 .. MaxUpsets
    BY Shapes, UpsetCounts
  <1> QED BY <1>1, <1>2, <1>3, Move DEF Fits

LEMMA ReadKept ==
  ASSUME IInv, NEW f \in Followers, Read(f)
  PROVE  IInv'
  <1> USE Shapes
  <1>1. PICK answers \in SUBSET {"source", "engines"} :
          /\ Go(f, [mem[f] EXCEPT !.pc = "ticks", !.read = answers, !.down = "engines" \notin answers,
                            !.src = IF "source" \in answers THEN backup ELSE @,
                            !.eng = IF "engines" \in answers THEN restored ELSE @])
          /\ IF answers = {"source", "engines"} THEN UNCHANGED upsets ELSE Upset
    BY DEF Read
  <1> DEFINE n == [mem[f] EXCEPT !.pc = "ticks", !.read = answers, !.down = "engines" \notin answers,
                            !.src = IF "source" \in answers THEN backup ELSE @,
                            !.eng = IF "engines" \in answers THEN restored ELSE @]
  <1>2. Still /\ UNCHANGED <<tick, lease, mode>> BY DEF Read, Still
  <1>3. mem[f] \in Mem /\ Memory(mem[f], backup, restored, overdue) /\ Leased(f) OBVIOUS
  <1>4. n \in Mem BY <1>3 DEF Mem, PCs
  <1>5. /\ n.pc = "ticks" /\ n.todo = mem[f].todo /\ n.apply = mem[f].apply /\ n.view = mem[f].view
        /\ n.strays = mem[f].strays
        /\ n.src = IF "source" \in answers THEN backup ELSE mem[f].src
        /\ n.eng = IF "engines" \in answers THEN restored ELSE mem[f].eng
    BY <1>3 DEF Mem
  <1> HIDE DEF n
  <1>6. Memory(n, backup, restored, overdue)
    <2>1. \A d \in Disks : n.eng[d] <= restored[d] BY <1>3, <1>5 DEF Memory
    <2> QED BY <1>3, <1>5, <2>1 DEF Memory, Done
  <1>7. Fits(n) BY <1>4, <1>5, <1>6 DEF Fits
  <1>8. tick' \in [Cells -> Row] /\ \A c \in Cells : Behind(tick'[c], backup, restored, overdue, c)
    BY <1>2
  <1>9. upsets' \in 0 .. MaxUpsets BY <1>1, UpsetCounts
  <1>10. Go(f, n) BY <1>1 DEF n
  <1> QED BY <1>2, <1>3, <1>5, <1>7, <1>8, <1>9, <1>10, Move DEF Leased

(* The barrier, on the registry and the backups of a round. *)
LEMMA BarrierIsSafe ==
  ASSUME IInv, NEW read, NEW view \in [Cells -> Row],
         \A c \in Cells : Behind(view[c], backup, restored, overdue, c),
         NEW c \in Requested(read, view)
  PROVE  c \in Cells /\ Done(backup, c) /\ Safe(backup, restored, overdue, c)
  <1> USE Shapes
  <1>1. c \in Cells /\ Closed(read, view, c[2]) /\ view[c].state = "completed"
    BY DEF Requested
  <1>2. Done(backup, c) BY <1>1 DEF Behind
  <1>3. c[2] \in Nat BY <1>1, CellShape
  <1>4. CASE c[2] \in overdue BY <1>1, <1>2, <1>4 DEF Safe
  <1>5. CASE Late(view, c[2]) = {}
    <2> DEFINE s == c[2]
    <2> SUFFICES ASSUME NEW d \in Disks, restored[d] < s
                 PROVE  <<d, s>> \in Cells /\ Done(backup, <<d, s>>)
      BY <1>1, <1>2 DEF Safe
    <2>1. IF d \in Entries(view, s) THEN view[<<d, s>>].state # "in_progress" ELSE Past(view, d, s)
      BY <1>5 DEF Late
    <2>2. \A e \in Cells : e[1] = d /\ view[e].state = "applied" => e[2] \in Nat /\ e[2] < s
      <3> SUFFICES ASSUME NEW e \in Cells, e[1] = d, view[e].state = "applied"
                   PROVE  e[2] \in Nat /\ e[2] < s
        OBVIOUS
      <3>1. restored[d] >= e[2] BY DEF Behind
      <3>2. e[2] \in Nat /\ restored[d] \in Nat BY CellShape
      <3> QED BY <3>1, <3>2, <1>3
    <2>3. ~Past(view, d, s) BY <2>2, <1>3 DEF Past, Of
    <2>4. d \in Entries(view, s) BY <2>1, <2>3
    <2>5. /\ <<d, s>> \in Cells
          /\ view[<<d, s>>].state \in {"in_progress", "completed", "error", "applied"}
      BY <2>4 DEF Entries
    <2>6. view[<<d, s>>].state # "applied"
      <3>1. <<d, s>>[1] = d /\ <<d, s>>[2] = s OBVIOUS
      <3>2. view[<<d, s>>].state = "applied" => s < s BY <2>2, <2>5, <3>1
      <3> QED BY <3>2, <1>3
    <2>7. view[<<d, s>>].state \in {"completed", "error"} BY <2>1, <2>4, <2>5, <2>6
    <2>8. Behind(view[<<d, s>>], backup, restored, overdue, <<d, s>>) BY <2>5
    <2> QED BY <2>5, <2>7, <2>8 DEF Behind
  <1> QED BY <1>1, <1>4, <1>5 DEF Closed

(* Nothing of the registry or the clusters changes. *)
LEMMA RowsStay ==
  ASSUME IInv, UNCHANGED tick
  PROVE  tick' \in [Cells -> Row] /\ \A c \in Cells : Behind(tick'[c], backup, restored, overdue, c)
  BY Shapes

LEMMA ReadTicksKept ==
  ASSUME IInv, NEW f \in Followers, ReadTicks(f)
  PROVE  IInv'
  <1> USE Shapes
  <1> DEFINE m == mem[f]
             new == Unrecorded(m.src, tick)
             view == [c \in Cells |-> IF c \in new THEN [tick[c] EXCEPT !.state = m.src[c]] ELSE tick[c]]
             src == [c \in Cells |-> IF c \in new THEN m.src[c] ELSE "none"]
             todo == IF m.down THEN {} ELSE Requested(m.read, view)
             n == [NoMem EXCEPT !.pc = "record", !.down = m.down, !.cell = new, !.src = src,
                           !.view = Open(view), !.apply = Applicable(m, view), !.todo = todo]
  <1>1. Still /\ UNCHANGED <<tick, lease, mode, upsets>> /\ Go(f, n) BY DEF ReadTicks, Still
  <1>2. m \in Mem /\ Memory(m, backup, restored, overdue) OBVIOUS
  <1>3. new \subseteq Cells BY DEF Unrecorded
  <1>4. /\ m.src \in [Cells -> BackupStates] /\ m.eng \in [Disks -> {0} \cup Passes]
        /\ m.down \in BOOLEAN
    BY <1>2 DEF Mem
  <1>5. view \in [Cells -> Row] BY <1>4 DEF Row, TickStates
  <1>6. \A c \in Cells : Behind(view[c], backup, restored, overdue, c)
    <2> SUFFICES ASSUME NEW c \in Cells PROVE Behind(view[c], backup, restored, overdue, c)
      OBVIOUS
    <2>0. Behind(tick[c], backup, restored, overdue, c) OBVIOUS
    <2>1. CASE c \notin new
      <3>1. view[c] = tick[c] BY <2>1
      <3> QED BY <2>0, <3>1
    <2>2. CASE c \in new
      <3>1. view[c].state = m.src[c] /\ view[c].asked = tick[c].asked BY <2>2 DEF Row
      <3>2. m.src[c] \in BackupStates BY <1>4
      <3>3. m.src[c] # "applied" BY <3>2 DEF BackupStates
      <3>4. m.src[c] \in {"completed", "error"} => Done(backup, c) BY <1>2 DEF Memory
      <3> QED BY <2>0, <3>1, <3>3, <3>4 DEF Behind
    <2> QED BY <2>1, <2>2
  <1>7. src \in [Cells -> BackupStates]
        /\ \A c \in Cells : src[c] \in {"completed", "error"} => Done(backup, c)
    BY <1>2, <1>4 DEF Memory, BackupStates
  <1> HIDE DEF src, view, new
  <1>8. Open(view) \in [Cells -> Row]
        /\ \A c \in Cells : Behind(Open(view)[c], backup, restored, overdue, c)
    BY <1>5, <1>6 DEF Open, NoRow, Row, TickStates, BackupStates, Behind
  <1>9. Applicable(m, view) \subseteq Cells /\ \A c \in Applicable(m, view) : restored[c[1]] >= c[2]
    <2> SUFFICES ASSUME NEW c \in Applicable(m, view) PROVE c \in Cells /\ restored[c[1]] >= c[2]
      OBVIOUS
    <2>1. c \in Cells /\ m.eng[c[1]] = c[2] BY DEF Applicable
    <2>2. c[1] \in Disks /\ c[2] \in Nat BY <2>1, CellShape
    <2> QED BY <1>2, <2>1, <2>2 DEF Memory
  <1>10. todo \subseteq Cells /\ \A c \in todo : Done(backup, c) /\ Safe(backup, restored, overdue, c)
    BY <1>5, <1>6, BarrierIsSafe
  <1> HIDE DEF todo
  <1>11. /\ n.pc = "record" /\ n.src = src /\ n.view = Open(view) /\ n.todo = todo
         /\ n.apply = Applicable(m, view) /\ n.eng = NoMem.eng /\ n.strays = 0
         /\ n.down = m.down /\ n.cell = new /\ n.read = NoMem.read
    BY DEF NoMem
  <1>12. n \in Mem
    BY <1>3, <1>4, <1>7, <1>8, <1>9, <1>10, NoMemIsMem DEF Mem, PCs
  <1> HIDE DEF n
  <1>13. \A d \in Disks : n.eng[d] <= restored[d] BY <1>11 DEF NoMem
  <1>14. Fits(n) BY <1>7, <1>8, <1>9, <1>10, <1>11, <1>12, <1>13 DEF Fits, Memory
  <1> QED BY <1>1, <1>11, <1>14, RowsStay, Move

LEMMA CheckKept ==
  ASSUME IInv, NEW f \in Followers, Check(f)
  PROVE  IInv'
  <1> USE Shapes
  <1>1. Still /\ UNCHANGED <<tick, lease, mode, upsets>> BY DEF Check, Still
  <1>2. CASE EndRound(f) BY <1>1, <1>2, Ends
  <1>3. CASE ~EndRound(f)
    <2>1. PICK d \in {c[1] : c \in mem[f].todo} :
            /\ lease = f
            /\ Go(f, [mem[f] EXCEPT !.cell = {c \in mem[f].todo : c[1] = d},
                                    !.pc = IF @ = "ask" THEN "patch" ELSE "patch_again"])
      BY <1>3 DEF Check
    <2> DEFINE n == [mem[f] EXCEPT !.cell = {c \in mem[f].todo : c[1] = d},
                                   !.pc = IF @ = "ask" THEN "patch" ELSE "patch_again"]
    <2>2. n \in Mem BY DEF Mem, PCs
    <2>3. /\ n.pc \in {"patch", "patch_again"} /\ n.cell \subseteq n.todo
          /\ n.src = mem[f].src /\ n.eng = mem[f].eng /\ n.view = mem[f].view
          /\ n.apply = mem[f].apply /\ n.todo = mem[f].todo /\ n.strays = mem[f].strays
      BY DEF Mem
    <2>4. Go(f, n) BY <2>1
    <2> HIDE DEF n
    <2>5. mem[f].strays = 0 BY <2>1 DEF Leased
    <2> QED BY <1>1, <2>2, <2>3, <2>4, <2>5, Lesser
  <1> QED BY <1>2, <1>3

LEMMA LeaveKept ==
  ASSUME IInv, NEW f \in Followers, Leave(f)
  PROVE  IInv'
  <1> USE Shapes
  <1>1. Still /\ UNCHANGED <<tick, lease, mode>> /\ (Upset \/ UNCHANGED upsets) BY DEF Leave, Still
  <1>2. PICK d \in {c[1] : c \in mem[f].todo} : Go(f, [mem[f] EXCEPT !.todo = {c \in @ : c[1] # d}])
    BY DEF Leave
  <1> DEFINE n == [mem[f] EXCEPT !.todo = {c \in @ : c[1] # d}]
  <1>3. n \in Mem BY DEF Mem
  <1>4. /\ n.pc = mem[f].pc /\ n.src = mem[f].src /\ n.eng = mem[f].eng /\ n.view = mem[f].view
        /\ n.apply = mem[f].apply /\ n.todo \subseteq mem[f].todo /\ n.strays = mem[f].strays
    BY DEF Mem
  <1>5. Go(f, n) BY <1>2
  <1> HIDE DEF n
  <1>6. mem[f].pc \in {"ask", "again"} BY DEF Leave, At
  <1> QED BY <1>1, <1>3, <1>4, <1>5, <1>6, Lesser DEF Leased

LEMMA PatchKept ==
  ASSUME IInv, NEW f \in Followers, Patch(f)
  PROVE  IInv'
  <1> USE Shapes
  <1>1. Still /\ UNCHANGED <<tick, lease, mode, upsets>> BY DEF Patch, Still
  <1>2. mem[f].pc \in {"patch", "patch_again"} BY DEF Patch, At
  <1>3. mem[f].strays = 0 /\ mem[f].cell \subseteq mem[f].todo BY <1>2 DEF Leased, Memory
  <1>4. Strays(f) = IF lease = f THEN 0 ELSE 1 BY <1>3 DEF Strays
  <1>5. Strays(f) \in Nat BY <1>4
  <1>6. CASE mem[f].pc = "patch"
    <2> DEFINE n == [mem[f] EXCEPT !.pc = "note", !.strays = Strays(f)]
    <2>1. Go(f, n) BY <1>6 DEF Patch, At
    <2>2. n \in Mem BY <1>5 DEF Mem, PCs
    <2>3. /\ n.pc = "note" /\ n.src = mem[f].src /\ n.eng = mem[f].eng /\ n.view = mem[f].view
          /\ n.apply = mem[f].apply /\ n.todo = mem[f].todo /\ n.cell = mem[f].cell /\ n.strays = Strays(f)
      BY DEF Mem
    <2> HIDE DEF n
    <2> QED BY <1>1, <1>3, <1>4, <2>1, <2>2, <2>3, Lesser
  <1>7. CASE mem[f].pc = "patch_again"
    <2> DEFINE n == [mem[f] EXCEPT !.pc = "again", !.todo = Left(mem[f]), !.cell = {}, !.strays = Strays(f)]
    <2>1. Go(f, n) BY <1>7 DEF Patch, At
    <2>2. n \in Mem BY <1>5 DEF Mem, PCs, Left
    <2>3. /\ n.pc = "again" /\ n.src = mem[f].src /\ n.eng = mem[f].eng /\ n.view = mem[f].view
          /\ n.apply = mem[f].apply /\ n.todo \subseteq mem[f].todo /\ n.strays = Strays(f)
      BY DEF Mem, Left
    <2> HIDE DEF n
    <2> QED BY <1>1, <1>4, <2>1, <2>2, <2>3, Lesser
  <1> QED BY <1>2, <1>6, <1>7

LEMMA PatchFailedKept ==
  ASSUME IInv, NEW f \in Followers, PatchRefused(f) \/ PatchLost(f)
  PROVE  IInv'
  <1> USE Shapes
  <1>1. Still /\ UNCHANGED <<tick, lease, mode>> /\ (Upset \/ UNCHANGED upsets)
    BY DEF PatchRefused, PatchLost, Still
  <1>2. mem[f].pc \in {"patch", "patch_again"} BY DEF PatchRefused, PatchLost, At
  <1>3. mem[f].strays = 0 BY <1>2 DEF Leased
  <1>4. Strays(f) = IF lease = f THEN 0 ELSE 1 BY <1>3 DEF Strays
  <1>5. Strays(f) \in Nat BY <1>4
  <1> DEFINE p == IF mem[f].pc = "patch" THEN "ask" ELSE "again"
  <1>6. CASE PatchRefused(f)
    <2> DEFINE n == [mem[f] EXCEPT !.pc = IF @ = "patch" THEN "ask" ELSE "again",
                                   !.todo = Left(mem[f]), !.cell = {}]
    <2>1. Go(f, n) BY <1>6 DEF PatchRefused
    <2>2. mem[f] \in Mem /\ Left(mem[f]) \in SUBSET Cells /\ p \in PCs BY DEF Left, Mem, PCs
    <2>3. n \in Mem
      <3> DEFINE left == Left(mem[f])
      <3>1. n = [mem[f] EXCEPT !.pc = p, !.todo = left, !.cell = {}] OBVIOUS
      <3>2. left \in SUBSET Cells /\ p \in PCs BY <2>2
      <3> HIDE DEF p, n, left
      <3> QED BY <2>2, <3>1, <3>2 DEF Mem
    <2>4. /\ n.pc = p /\ n.src = mem[f].src /\ n.eng = mem[f].eng /\ n.view = mem[f].view
          /\ n.apply = mem[f].apply /\ n.todo \subseteq mem[f].todo /\ n.strays = mem[f].strays
      BY DEF Mem, Left
    <2> HIDE DEF n
    <2> QED BY <1>1, <1>3, <2>1, <2>3, <2>4, Lesser
  <1>7. CASE PatchLost(f)
    <2> DEFINE n == [mem[f] EXCEPT !.pc = IF @ = "patch" THEN "ask" ELSE "again",
                                   !.down = TRUE, !.todo = {}, !.cell = {}, !.strays = Strays(f)]
    <2>1. Go(f, n) BY <1>7 DEF PatchLost
    <2>2. n \in Mem BY <1>5 DEF Mem, PCs
    <2>3. /\ n.pc = p /\ n.src = mem[f].src /\ n.eng = mem[f].eng /\ n.view = mem[f].view
          /\ n.apply = mem[f].apply /\ n.todo = {} /\ n.strays = Strays(f)
      BY DEF Mem
    <2> HIDE DEF n
    <2> QED BY <1>1, <1>4, <2>1, <2>2, <2>3, Lesser
  <1> QED BY <1>6, <1>7

LEMMA RecordKept ==
  ASSUME IInv, NEW f \in Followers, Record(f)
  PROVE  IInv'
  <1> USE Shapes
  <1> DEFINE n == [mem[f] EXCEPT !.pc = "ask", !.cell = {}, !.src = NoMem.src]
  <1>1. /\ Still /\ UNCHANGED <<lease, mode, upsets>> /\ Go(f, n)
        /\ tick' = [c \in Cells |-> IF c \in mem[f].cell THEN Recorded(tick[c], mem[f].src[c]) ELSE tick[c]]
    BY DEF Record, Still
  <1>2. NoMem.src \in [Cells -> BackupStates] BY NoMemIsMem DEF Mem
  <1>3. n \in Mem BY <1>2 DEF Mem, PCs
  <1>4. /\ n.pc = "ask" /\ n.src = [c \in Cells |-> "none"] /\ n.eng = mem[f].eng /\ n.view = mem[f].view
        /\ n.apply = mem[f].apply /\ n.todo = mem[f].todo /\ n.strays = mem[f].strays
    BY DEF Mem, NoMem
  <1> HIDE DEF n
  <1>5. Fits(n)
    <2>1. \A c \in Cells : n.src[c] = "none" BY <1>4
    <2> QED BY <1>3, <1>4, <2>1 DEF Fits, Memory
  <1>6. \A c \in Cells : tick'[c] \in Row /\ Behind(tick'[c], backup, restored, overdue, c)
    <2> SUFFICES ASSUME NEW c \in Cells
                 PROVE  tick'[c] \in Row /\ Behind(tick'[c], backup, restored, overdue, c)
      OBVIOUS
    <2>1. tick[c] \in Row /\ Behind(tick[c], backup, restored, overdue, c) OBVIOUS
    <2>2. CASE c \notin mem[f].cell BY <1>1, <2>1, <2>2
    <2>3. CASE c \in mem[f].cell
      <3> DEFINE s == mem[f].src[c]
      <3>1. tick'[c] = Recorded(tick[c], s) BY <1>1, <2>3
      <3>2. s \in BackupStates BY DEF Mem
      <3>3. s \in TickStates /\ s # "applied" BY <3>2 DEF TickStates, BackupStates
      <3>4. s \in {"completed", "error"} => Done(backup, c) BY DEF Memory
      <3> QED BY <2>1, <3>1, <3>3, <3>4, RecordedIsRow DEF Behind
    <2> QED BY <2>2, <2>3
  <1>7. tick' \in [Cells -> Row] BY <1>1, <1>6
  <1> QED BY <1>1, <1>4, <1>5, <1>6, <1>7, Move DEF Leased

LEMMA NoteKept ==
  ASSUME IInv, NEW f \in Followers, Note(f)
  PROVE  IInv'
  <1> USE Shapes
  <1> DEFINE view == [c \in Cells |-> IF c \in mem[f].cell THEN [mem[f].view[c] EXCEPT !.asked = TRUE]
                                                    ELSE mem[f].view[c]]
             n == [mem[f] EXCEPT !.pc = "ask", !.todo = Left(mem[f]), !.cell = {}, !.view = view]
  <1>0. Go(f, n) BY DEF Note
  <1>1. /\ Still /\ UNCHANGED <<lease, mode, upsets>>
        /\ tick' = [c \in Cells |-> IF c \in mem[f].cell
                                    THEN [Recorded(tick[c], "completed") EXCEPT !.asked = TRUE]
                                    ELSE tick[c]]
    BY DEF Note, Still
  <1>2. mem[f] \in Mem /\ Memory(mem[f], backup, restored, overdue) OBVIOUS
  <1>3. \A c \in mem[f].cell : Done(backup, c) /\ Safe(backup, restored, overdue, c)
    <2>1. mem[f].pc = "note" BY DEF Note, At
    <2> QED BY <1>2, <2>1 DEF Memory
  <1>4. \A c \in Cells : view[c] \in Row /\ Behind(view[c], backup, restored, overdue, c)
    <2> SUFFICES ASSUME NEW c \in Cells
                 PROVE  view[c] \in Row /\ Behind(view[c], backup, restored, overdue, c)
      OBVIOUS
    <2>1. mem[f].view[c] \in Row /\ Behind(mem[f].view[c], backup, restored, overdue, c)
      BY <1>2 DEF Mem, Memory
    <2>2. /\ view[c] \in Row /\ view[c].state = mem[f].view[c].state
          /\ view[c].asked => mem[f].view[c].asked \/ c \in mem[f].cell
      BY <2>1 DEF Row
    <2> QED BY <1>3, <2>1, <2>2 DEF Behind
  <1>5. view \in [Cells -> Row] BY <1>4
  <1> HIDE DEF view
  <1>6. n \in Mem BY <1>2, <1>5 DEF Mem, PCs, Left
  <1>7. /\ n.pc = "ask" /\ n.src = mem[f].src /\ n.eng = mem[f].eng /\ n.view = view
        /\ n.apply = mem[f].apply /\ n.todo \subseteq mem[f].todo /\ n.strays = mem[f].strays
    BY <1>2 DEF Mem, Left
  <1> HIDE DEF n
  <1>8. Fits(n) BY <1>2, <1>4, <1>6, <1>7 DEF Fits, Memory
  <1>9. \A c \in Cells : tick'[c] \in Row /\ Behind(tick'[c], backup, restored, overdue, c)
    <2> SUFFICES ASSUME NEW c \in Cells
                 PROVE  tick'[c] \in Row /\ Behind(tick'[c], backup, restored, overdue, c)
      OBVIOUS
    <2>1. tick[c] \in Row /\ Behind(tick[c], backup, restored, overdue, c) OBVIOUS
    <2>2. CASE c \notin mem[f].cell BY <1>1, <2>1, <2>2
    <2>3. CASE c \in mem[f].cell
      <3> DEFINE r == Recorded(tick[c], "completed")
      <3>1. /\ r \in Row /\ r.asked = tick[c].asked
            /\ r.state = IF tick[c].state = "applied" THEN "applied" ELSE "completed"
        BY <2>1, RecordedIsRow DEF TickStates, BackupStates
      <3>2. tick'[c] = [r EXCEPT !.asked = TRUE] BY <1>1, <2>3
      <3>3. tick'[c] \in Row /\ tick'[c].state = r.state BY <3>1, <3>2 DEF Row
      <3> QED BY <1>3, <2>1, <2>3, <3>1, <3>3 DEF Behind
    <2> QED BY <2>2, <2>3
  <1>10. tick' \in [Cells -> Row] BY <1>1, <1>9
  <1> QED BY <1>0, <1>1, <1>7, <1>8, <1>9, <1>10, Move DEF Leased

(* What a round forgets cannot be wrong. *)
LEMMA NoRowIsBehind ==
  ASSUME NEW b, NEW r, NEW o, NEW c
  PROVE  NoRow \in Row /\ Behind(NoRow, b, r, o, c)
  BY DEF NoRow, Row, TickStates, BackupStates, Behind

LEMMA MarkAppliedKept ==
  ASSUME IInv, NEW f \in Followers, MarkApplied(f)
  PROVE  IInv'
  <1> USE Shapes
  <1>1. Still /\ UNCHANGED <<lease, mode, upsets>> BY DEF MarkApplied, Still
  <1>2. PICK c \in mem[f].apply :
          IF tick[c].state = "error" THEN EndRound(f) /\ UNCHANGED tick
          ELSE /\ tick' = [tick EXCEPT ![c] = [state |-> "applied", asked |-> @.asked \/ mem[f].view[c].asked]]
               /\ Go(f, [mem[f] EXCEPT !.pc = "skip", !.cell = {c}, !.apply = @ \ {c}, !.view[c] = NoRow])
    BY DEF MarkApplied
  <1>3. CASE tick[c].state = "error" BY <1>1, <1>2, <1>3, Ends
  <1>4. CASE tick[c].state # "error"
    <2> DEFINE view == [mem[f].view EXCEPT ![c] = NoRow]
               n == [mem[f] EXCEPT !.pc = "skip", !.cell = {c}, !.apply = @ \ {c}, !.view = view]
               row == [state |-> "applied", asked |-> tick[c].asked \/ mem[f].view[c].asked]
    <2>1. tick' = [tick EXCEPT ![c] = row] BY <1>2, <1>4
    <2>2. Go(f, n) BY <1>2, <1>4
    <2>3. /\ mem[f] \in Mem /\ Memory(mem[f], backup, restored, overdue) OBVIOUS
    <2>4. c \in Cells /\ restored[c[1]] >= c[2] BY <2>3 DEF Mem, Memory
    <2>5. view \in [Cells -> Row] /\ \A e \in Cells : Behind(view[e], backup, restored, overdue, e)
      BY <2>3, NoRowIsBehind DEF Mem, Memory
    <2> HIDE DEF view
    <2>6. n \in Mem BY <2>3, <2>4, <2>5 DEF Mem, PCs
    <2>7. /\ n.pc = "skip" /\ n.src = mem[f].src /\ n.eng = mem[f].eng /\ n.view = view
          /\ n.apply \subseteq mem[f].apply /\ n.todo = mem[f].todo /\ n.strays = mem[f].strays
      BY <2>3 DEF Mem
    <2> HIDE DEF n
    <2>8. Fits(n) BY <2>3, <2>5, <2>6, <2>7 DEF Fits, Memory
    <2>9. row \in Row /\ Behind(row, backup, restored, overdue, c)
      <3>1. tick[c] \in Row /\ mem[f].view[c] \in Row BY <2>3, <2>4 DEF Mem
      <3>2. row.state = "applied" /\ (row.asked => tick[c].asked \/ mem[f].view[c].asked) /\ row \in Row
        BY <3>1 DEF Row, TickStates
      <3> HIDE DEF row
      <3>3. Behind(tick[c], backup, restored, overdue, c) /\ Behind(mem[f].view[c], backup, restored, overdue, c)
        BY <2>3, <2>4 DEF Memory
      <3> QED BY <2>4, <3>2, <3>3 DEF Behind
    <2> HIDE DEF row
    <2>10. tick' \in [Cells -> Row] /\ \A e \in Cells : Behind(tick'[e], backup, restored, overdue, e)
      BY <2>1, <2>4, <2>9
    <2> QED BY <1>1, <2>2, <2>7, <2>8, <2>10, Move DEF Leased
  <1> QED BY <1>3, <1>4

LEMMA SkipKept ==
  ASSUME IInv, NEW f \in Followers, Skip(f)
  PROVE  IInv'
  <1> USE Shapes
  <1> DEFINE older == Older(mem[f])
             view == [c \in Cells |-> IF c \in older THEN NoRow ELSE mem[f].view[c]]
             n == [mem[f] EXCEPT !.pc = "ask", !.cell = {}, !.view = view]
  <1>1. /\ Still /\ UNCHANGED <<lease, mode, upsets>> /\ Go(f, n)
        /\ tick' = [c \in Cells |-> IF c \in older THEN Recorded(tick[c], "skipped") ELSE tick[c]]
    BY DEF Skip, Still
  <1> HIDE DEF older
  <1>2. mem[f] \in Mem /\ Memory(mem[f], backup, restored, overdue) OBVIOUS
  <1>3. view \in [Cells -> Row] /\ \A c \in Cells : Behind(view[c], backup, restored, overdue, c)
    BY <1>2, NoRowIsBehind DEF Mem, Memory
  <1> HIDE DEF view
  <1>4. n \in Mem BY <1>2, <1>3 DEF Mem, PCs
  <1>5. /\ n.pc = "ask" /\ n.src = mem[f].src /\ n.eng = mem[f].eng /\ n.view = view
        /\ n.apply = mem[f].apply /\ n.todo = mem[f].todo /\ n.strays = mem[f].strays
    BY <1>2 DEF Mem
  <1> HIDE DEF n
  <1>6. Fits(n) BY <1>2, <1>3, <1>4, <1>5 DEF Fits, Memory
  <1>7. \A c \in Cells : tick'[c] \in Row /\ Behind(tick'[c], backup, restored, overdue, c)
    <2> SUFFICES ASSUME NEW c \in Cells
                 PROVE  tick'[c] \in Row /\ Behind(tick'[c], backup, restored, overdue, c)
      OBVIOUS
    <2>1. tick[c] \in Row /\ Behind(tick[c], backup, restored, overdue, c) OBVIOUS
    <2>2. CASE c \notin older BY <1>1, <2>1, <2>2
    <2>3. CASE c \in older
      <3>1. tick'[c] = Recorded(tick[c], "skipped") BY <1>1, <2>3
      <3> QED BY <2>1, <3>1, RecordedIsRow DEF Behind, TickStates
    <2> QED BY <2>2, <2>3
  <1>8. tick' \in [Cells -> Row] BY <1>1, <1>7
  <1> QED BY <1>1, <1>5, <1>6, <1>7, <1>8, Move DEF Leased

LEMMA RenudgeKept ==
  ASSUME IInv, NEW f \in Followers, Renudge(f)
  PROVE  IInv'
  <1> USE Shapes
  <1> DEFINE todo == Waiting(mem[f])
             n == [NoMem EXCEPT !.pc = "again", !.todo = todo, !.strays = mem[f].strays]
  <1>1. Still /\ UNCHANGED <<tick, lease, mode, upsets>> /\ Go(f, n) BY DEF Renudge, Still
  <1>2. mem[f] \in Mem /\ Memory(mem[f], backup, restored, overdue) /\ Leased(f) OBVIOUS
  <1>3. todo \subseteq Cells /\ \A c \in todo : Done(backup, c) /\ Safe(backup, restored, overdue, c)
    <2> SUFFICES ASSUME NEW c \in todo
                 PROVE  c \in Cells /\ Done(backup, c) /\ Safe(backup, restored, overdue, c)
      OBVIOUS
    <2>1. c \in Cells /\ mem[f].view[c] = [state |-> "completed", asked |-> TRUE] BY DEF Waiting
    <2>2. mem[f].view[c].state = "completed" /\ mem[f].view[c].asked BY <2>1
    <2> QED BY <1>2, <2>1, <2>2 DEF Memory, Behind
  <1> HIDE DEF todo
  <1>4. mem[f].strays \in Nat BY <1>2 DEF Mem
  <1>5. n \in Mem BY <1>3, <1>4, NoMemIsMem DEF Mem, PCs
  <1>6. /\ n.pc = "again" /\ n.src = NoMem.src /\ n.eng = NoMem.eng /\ n.view = NoMem.view
        /\ n.apply = {} /\ n.todo = todo /\ n.strays = mem[f].strays
    BY DEF NoMem
  <1> HIDE DEF n
  <1>7. Memory(NoMem, backup, restored, overdue) BY BlankFits DEF Fits
  <1>8. Fits(n) BY <1>3, <1>5, <1>6, <1>7 DEF Fits, Memory
  <1> QED BY <1>1, <1>2, <1>6, <1>8, RowsStay, Move DEF Leased

LEMMA EndKept ==
  ASSUME IInv, NEW f \in Followers, End(f)
  PROVE  IInv'
  <1>1. Still /\ UNCHANGED <<tick, lease, mode, upsets>> /\ EndRound(f) BY DEF End, Still
  <1> QED BY <1>1, Ends

LEMMA WorkKept ==
  ASSUME IInv, NEW f \in Followers, Work(f)
  PROVE  IInv'
  BY TakeKept, ReadKept, ReadTicksKept, RecordKept, CheckKept, LeaveKept, PatchKept,
     PatchFailedKept, NoteKept, MarkAppliedKept, SkipKept, RenudgeKept, EndKept DEF Work

-----------------------------------------------------------------------------
(* The plan, the clusters, and the invariant. *)

LEMMA PlanKept ==
  ASSUME IInv, Plan
  PROVE  IInv'
  <1> USE Shapes
  <1>1. Still /\ UNCHANGED <<lease, mem>> /\ (Upset \/ UNCHANGED upsets)
    BY DEF Plan, Pause, Unpause, FailoverStarts, RecordFinal, MarkFinal, Undo, Still
  <1>2. mode' \in {"followed", "paused", "moving"}
    BY DEF Plan, Pause, Unpause, FailoverStarts, RecordFinal, MarkFinal, Undo
  <1>3. tick' \in [Cells -> Row] /\ \A c \in Cells : Behind(tick'[c], backup, restored, overdue, c)
    <2>1. CASE UNCHANGED tick BY <2>1
    <2>2. CASE RecordFinal
      <3>1. PICK c \in Cells : /\ backup[c] = "completed"
                               /\ tick' = [tick EXCEPT ![c] = Recorded(@, "completed")]
        BY <2>2 DEF RecordFinal
      <3> DEFINE r == Recorded(tick[c], "completed")
      <3>2. tick' = [tick EXCEPT ![c] = r] BY <3>1
      <3>3. tick[c] \in Row /\ Behind(tick[c], backup, restored, overdue, c) OBVIOUS
      <3>4. /\ r \in Row /\ r.asked = tick[c].asked
            /\ r.state = IF tick[c].state = "applied" THEN "applied" ELSE "completed"
        BY <3>3, RecordedIsRow DEF TickStates, BackupStates
      <3> HIDE DEF r
      <3>5. Behind(r, backup, restored, overdue, c) BY <3>1, <3>3, <3>4 DEF Behind, Done
      <3> QED BY <3>2, <3>4, <3>5
    <2>3. CASE MarkFinal
      <3>1. PICK c \in Cells : restored[c[1]] >= c[2] /\ tick' = [tick EXCEPT ![c].state = "applied"]
        BY <2>3 DEF MarkFinal
      <3> DEFINE r == [tick[c] EXCEPT !.state = "applied"]
      <3>2. tick' = [tick EXCEPT ![c] = r] BY <3>1
      <3>3. tick[c] \in Row /\ Behind(tick[c], backup, restored, overdue, c) OBVIOUS
      <3>4. r \in Row /\ r.asked = tick[c].asked /\ r.state = "applied"
        BY <3>3 DEF Row, TickStates
      <3> HIDE DEF r
      <3>5. Behind(r, backup, restored, overdue, c) BY <3>1, <3>3, <3>4 DEF Behind
      <3> QED BY <3>2, <3>4, <3>5
    <2> QED BY <2>1, <2>2, <2>3 DEF Plan, Pause, Unpause, FailoverStarts, Undo
  <1>4. Typed'
    <2>1. upsets' \in 0 .. MaxUpsets BY <1>1, UpsetCounts
    <2> QED BY <1>1, <1>2, <1>3, <2>1 DEF IInv, Typed, TypeOK, Still, Row
  <1> QED BY <1>1, <1>3, <1>4 DEF IInv, Still, Leased

LEMMA ClustersTyped ==
  ASSUME IInv, Clusters
  PROVE  Typed'
  <1> USE Shapes
  <1>1. UNCHANGED <<tick, lease, mode, mem>> /\ (Upset \/ UNCHANGED upsets)
    BY DEF Clusters, BackUp, FinishBackup, FailBackup, Restore, GrowOld
  <1>2. upsets' \in 0 .. MaxUpsets BY <1>1, UpsetCounts
  <1>3. backup' \in [Cells -> BackupStates]
    BY DEF Clusters, BackUp, FinishBackup, FailBackup, Restore, GrowOld, BackupStates
  <1>4. restored' \in [Disks -> {0} \cup Passes]
    <2>1. CASE UNCHANGED restored BY <2>1
    <2>2. CASE Restore BY <2>2, CellShape DEF Restore
    <2> QED BY <2>1, <2>2 DEF Clusters, BackUp, FinishBackup, FailBackup, GrowOld
  <1>5. overdue' \subseteq Passes
    BY DEF Clusters, BackUp, FinishBackup, FailBackup, Restore, GrowOld, IInv, Typed, TypeOK
  <1> QED BY <1>1, <1>2, <1>3, <1>4, <1>5 DEF IInv, Typed, TypeOK

LEMMA ClustersKept ==
  ASSUME IInv, Clusters
  PROVE  IInv'
  <1> USE Shapes
  <1>1. UNCHANGED <<tick, lease, mem>>
    BY DEF Clusters, BackUp, FinishBackup, FailBackup, Restore, GrowOld
  <1>2. Ahead(backup, restored, overdue, backup', restored', overdue') BY Forward DEF IInv
  <1>3. \A c \in Cells : Behind(tick'[c], backup', restored', overdue', c)
    BY <1>1, <1>2, BehindStays
  <1>4. \A f \in Followers : Memory(mem'[f], backup', restored', overdue')
    BY <1>1, <1>2, MemoryStays
  <1> QED BY <1>1, <1>3, <1>4, ClustersTyped DEF IInv, Leased

LEMMA StutterKept ==
  ASSUME IInv, UNCHANGED vars
  PROVE  IInv'
  BY DEF IInv, vars, Typed, TypeOK, Leased

LEMMA Inductive ==
  ASSUME IInv, [Next]_vars
  PROVE  IInv'
  BY WorkKept, ProcessKept, PlanKept, ClustersKept, StutterKept DEF Next, Processes

LEMMA Starts == Init => IInv
  <1> SUFFICES ASSUME Init PROVE IInv OBVIOUS
  <1> USE DEF Init
  <1>1. restored \in [Disks -> {0} \cup Passes] /\ restored \in [Disks -> Nat] OBVIOUS
  <1>2. NoRow \in Row /\ NoMem.pc = "idle" /\ NoMem.strays = 0 BY DEF NoRow, Row, TickStates, BackupStates, NoMem
  <1>3. NoMem = [NoMem EXCEPT !.pc = "idle"] BY <1>2, NoMemIsMem DEF Mem
  <1>4. /\ NoMem.read \subseteq {"source", "engines"} /\ NoMem.down \in BOOLEAN
        /\ NoMem.cell \cup NoMem.todo \cup NoMem.apply \subseteq Cells
    BY NoMemIsMem DEF Mem
  <1>5. Typed
    BY <1>1, <1>2, <1>3, <1>4, NoMemIsMem, FollowAssumption DEF Typed, TypeOK, BackupStates, Row
  <1>6. \A c \in Cells : Behind(tick[c], backup, restored, overdue, c)
    BY NoRowIsBehind
  <1>7. Memory(NoMem, backup, restored, overdue)
    BY <1>1, <1>2, Blank, NoMemIsMem DEF NoMem
  <1>8. \A f \in Followers : Memory(mem[f], backup, restored, overdue) /\ Leased(f)
    BY <1>2, <1>7 DEF Leased
  <1> QED BY <1>5, <1>6, <1>8 DEF IInv

(* Every reachable state satisfies the invariant. *)
THEOREM Invariant == Spec => []IInv
  <1>1. Init => IInv BY Starts
  <1>2. IInv /\ [Next]_vars => IInv' BY Inductive
  <1> QED BY <1>1, <1>2, PTL DEF Spec

(* TypeOK of the follower: the states of a pass, the lease, and the memory *)
(* of a follower in every place of its round.                              *)
THEOREM TypeCorrect == Spec => []TypeOK
  <1>1. IInv => TypeOK BY DEF IInv, Typed
  <1> QED BY <1>1, Invariant, PTL

(* No disk is asked to read a pass which another disk of the VM may still  *)
(* miss, however many followers ask and however old what they have read:   *)
(* _barrier_closed and _requestable under take_lease.                      *)
THEOREM Barrier == Spec => []BarrierHolds
  <1>1. IInv => BarrierHolds
    BY Shapes DEF BarrierHolds, Behind, Safe, Done
  <1> QED BY <1>1, Invariant, PTL

(* A follower which lost its lease makes one request at most: _still_mine  *)
(* before each write on a cluster.                                         *)
THEOREM AtMostOneStray == Spec => []LostAsksAtMostOnce
  <1>1. IInv => LostAsksAtMostOnce
    BY DEF IInv, Leased, LostAsksAtMostOnce
  <1> QED BY <1>1, Invariant, PTL

(* A pass called applied is on the standby volume: mark_applied and what   *)
(* the engines tell.                                                       *)
THEOREM AppliedIsReal == Spec => []AppliedIsRestored
  <1>1. IInv => AppliedIsRestored
    BY DEF IInv, Behind, AppliedIsRestored
  <1> QED BY <1>1, Invariant, PTL

(* A row only leaves "applied" through record_tick, which keeps it. *)
LEMMA AppliedKept ==
  ASSUME IInv, [Next]_vars, NEW c \in Cells, tick[c].state = "applied"
  PROVE  tick'[c].state = "applied"
  <1> USE Shapes
  <1>1. CASE UNCHANGED tick BY <1>1
  <1>2. \A row \in Row : \A s : row.state = "applied" => Recorded(row, s) = row
    BY DEF Recorded
  <1>3. ASSUME NEW f \in Followers, Record(f) PROVE tick'[c].state = "applied"
    BY <1>2, <1>3 DEF Record
  <1>4. ASSUME NEW f \in Followers, Note(f) PROVE tick'[c].state = "applied"
    <2>1. CASE c \notin mem[f].cell BY <1>4, <2>1 DEF Note
    <2>2. CASE c \in mem[f].cell
      <3>1. tick'[c] = [Recorded(tick[c], "completed") EXCEPT !.asked = TRUE] BY <1>4, <2>2 DEF Note
      <3>2. tick'[c] = [tick[c] EXCEPT !.asked = TRUE] BY <1>2, <3>1
      <3> QED BY <3>2 DEF Row
    <2> QED BY <2>1, <2>2
  <1>5. ASSUME NEW f \in Followers, MarkApplied(f) PROVE tick'[c].state = "applied"
    BY <1>5 DEF MarkApplied, Mem
  <1>6. ASSUME NEW f \in Followers, Skip(f) PROVE tick'[c].state = "applied"
    BY <1>2, <1>6 DEF Skip
  <1>7. CASE RecordFinal BY <1>2, <1>7 DEF RecordFinal
  <1>8. CASE MarkFinal BY <1>8 DEF MarkFinal, Row
  <1> QED BY <1>1, <1>3, <1>4, <1>5, <1>6, <1>7, <1>8
       DEF Next, vars, Clusters, BackUp, FinishBackup, FailBackup, Restore, GrowOld,
           Plan, Pause, Unpause, FailoverStarts, Undo, Processes, Stop, Die, Start,
           Work, Begin, TakeOver, Read, ReadTicks, Check, Leave, Patch, PatchRefused,
           PatchLost, Renudge, End

(* A pass called applied stays so, in every step of every process. *)
THEOREM AppliedForever == Spec => AppliedStays
  <1>1. IInv /\ [Next]_vars => [\A c \in Cells : tick[c].state = "applied" => tick'[c].state = "applied"]_vars
    BY AppliedKept
  <1> QED BY <1>1, Invariant, PTL DEF Spec, AppliedStays

=============================================================================
