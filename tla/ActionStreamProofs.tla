---------------------------- MODULE ActionStreamProofs ----------------------------
(***************************************************************************)
(* Proofs about the stream of a tracked action and the dock that follows   *)
(* it, for any sizes of the queue, of the stored row and of the dock, any  *)
(* number of retries and any length of the action.                         *)
(*                                                                         *)
(* What the dock shows says too little to be inductive: a line arrives     *)
(* that was put on the wire earlier, when the queue was another one.  The  *)
(* invariant is therefore about what was told, the lines shown and then    *)
(* the words on the wire, read as one list from its end.                   *)
(***************************************************************************)
EXTENDS ActionStream, SequenceTheorems, TLAPS

(* Since the console started. The queue holds the last events, in order ... *)
LogOK ==
  /\ seq \in Nat /\ events \in Seq(Int)
  /\ Len(events) \in 1..Keep /\ Len(events) <= seq
  /\ \A i \in 1..Len(events) : events[i] = seq - Len(events) + i

(* ... and an action nobody cancels is closed once it has said its last word. *)
Settled == pc.canceller = "idle" /\ closed => pc.worker \in {"closed", "gone"}

(* What the dock was told, and will be once the wire is read. *)
Told(i) == IF i <= Len(lines) THEN lines[i] ELSE wire[i - Len(lines)]
Total == Len(lines) + Len(wire)

LinesOK == lines \in Seq(Int) /\ Len(lines) <= Shown

(* The wire carries events, and the end only as its last word. *)
WireOK ==
  /\ wire \in Seq(Int) /\ pos \in 0..seq
  /\ \A i \in 1..Len(wire) : wire[i] >= 0 /\ (wire[i] = End => i = Len(wire))
  /\ wire # <<>> =>
       /\ pos > 0
       /\ conn <=> wire[Len(wire)] # End
       /\ ~conn => closed /\ (pc.canceller = "idle" => pos = seq)

(* A stream that started has told every event up to its place, back to the *)
(* oldest of the queue or as far as the dock keeps lines.                  *)
Mark == IF conn THEN 0 ELSE 1
Followed ==
  (conn \/ wire # <<>>) /\ pos > 0 =>
    /\ Total - Mark >= 1 /\ (conn => Told(Total) = pos)
    /\ \A j \in 0..(pos - events[1]) :
         j + Mark < Shown + Len(wire) =>
           Total - Mark - j >= 1 /\ Told(Total - Mark - j) = pos - j

(* No hole in what was told, nor in what is on its way. *)
Chained ==
  \A i \in 1..(Total - 1) :
    Told(i) > 0 /\ Told(i + 1) > Told(i) + 1 => Told(i + 1) <= events[1]

(* Under an end, the last events. *)
EndTold ==
  lines # <<>> /\ lines[Len(lines)] = End /\ pc.canceller = "idle" =>
    /\ closed
    /\ \A j \in 0..(Len(events) - 1) :
         j < Shown - 1 =>
           Len(lines) - 1 - j >= 1 /\ lines[Len(lines) - 1 - j] = seq - j

Core ==
  LogOK /\ Settled /\ LinesOK /\ WireOK /\ Followed /\ Chained /\ EndTold

Threads == {"worker", "canceller"}
Places == {"work", "exited", "stamped", "idle", "asked", "closed", "gone"}

StreamInv ==
  /\ restarts \in Nat /\ pc \in [Threads -> Places] /\ closed \in BOOLEAN /\ conn \in BOOLEAN
  /\ restarts # 0 => pc.canceller = "gone"
  /\ restarts = 0 => Core

-----------------------------------------------------------------------------
(* Sequences of the model. *)

(* LastOf: the last n elements, or all of them. *)
LEMMA LastOfIs ==
  ASSUME NEW n \in Nat, NEW s \in Seq(Int)
  PROVE  /\ LastOf(n, s) \in Seq(Int)
         /\ Len(LastOf(n, s)) = Least(n, Len(s))
         /\ \A i \in 1..Least(n, Len(s)) :
              LastOf(n, s)[i] = s[Len(s) - Least(n, Len(s)) + i]
<1> DEFINE k == Least(n, Len(s))
<1>1. Len(s) \in Nat /\ k \in Nat /\ k <= Len(s)
  BY DEF Least
<1>2. \A i \in (Len(s) - k + 1)..Len(s) : s[i] \in Int
  BY <1>1, ElementOfSeq
<1>3. /\ SubSeq(s, Len(s) - k + 1, Len(s)) \in Seq(Int)
      /\ Len(SubSeq(s, Len(s) - k + 1, Len(s)))
           = IF Len(s) - k + 1 <= Len(s) THEN Len(s) - (Len(s) - k + 1) + 1 ELSE 0
      /\ \A i \in 1..(Len(s) - (Len(s) - k + 1) + 1) :
           SubSeq(s, Len(s) - k + 1, Len(s))[i] = s[(Len(s) - k + 1) + i - 1]
  <2> HIDE DEF k
  <2> QED BY <1>1, <1>2, SubSeqProperties
<1>4. LastOf(n, s) = SubSeq(s, Len(s) - k + 1, Len(s))
  BY DEF LastOf
<1> HIDE DEF k
<1>5. /\ LastOf(n, s) \in Seq(Int) /\ Len(LastOf(n, s)) = k
      /\ \A i \in 1..k : LastOf(n, s)[i] = s[Len(s) - k + i]
  <2>1. \A i \in 1..k : i \in 1..(Len(s) - (Len(s) - k + 1) + 1)
                        /\ (Len(s) - k + 1) + i - 1 = Len(s) - k + i
    BY <1>1
  <2> QED BY <1>1, <1>3, <1>4, <2>1
<1> QED BY <1>5 DEF k

(* A queue of n elements to which one is added: full, it loses its first. *)
LEMMA PushedIs ==
  ASSUME NEW n \in Nat \ {0}, NEW s \in Seq(Int), Len(s) <= n, NEW x \in Int
  PROVE  LET r == LastOf(n, Append(s, x))
             d == IF Len(s) < n THEN 0 ELSE 1
         IN  /\ r \in Seq(Int) /\ Len(r) = Len(s) + 1 - d /\ Len(r) \in 1..n
             /\ \A i \in 1..(Len(r) - 1) : r[i] = s[i + d]
             /\ r[Len(r)] = x
<1> DEFINE a == Append(s, x)
           r == LastOf(n, a)
           d == IF Len(s) < n THEN 0 ELSE 1
<1>1. /\ a \in Seq(Int) /\ Len(a) = Len(s) + 1 /\ Len(s) \in Nat
      /\ \A i \in 1..Len(s) : a[i] = s[i]
      /\ a[Len(s) + 1] = x
  BY AppendProperties
<1> HIDE DEF a
<1>2. Least(n, Len(a)) = Len(s) + 1 - d /\ Len(s) + 1 - d \in 1..n /\ d \in {0, 1}
  <2>1. Len(s) \in Nat /\ Len(s) <= n /\ n \in Nat \ {0} /\ Len(a) = Len(s) + 1
    BY <1>1
  <2>2. CASE Len(s) < n
    BY <2>1, <2>2 DEF Least
  <2>3. CASE ~(Len(s) < n)
    BY <2>1, <2>3 DEF Least
  <2> QED BY <2>2, <2>3
<1>3. /\ r \in Seq(Int) /\ Len(r) = Least(n, Len(a))
      /\ \A i \in 1..Least(n, Len(a)) : r[i] = a[Len(a) - Least(n, Len(a)) + i]
  BY <1>1, LastOfIs
<1> HIDE DEF r, d
<1>4. \A i \in 1..Len(r) : r[i] = a[i + d]
  <2> SUFFICES ASSUME NEW i \in 1..Len(r) PROVE r[i] = a[i + d]
    OBVIOUS
  <2>1. Len(a) - Least(n, Len(a)) + i = i + d
    BY <1>1, <1>2
  <2> QED BY <1>3, <2>1
<1>5. \A i \in 1..(Len(r) - 1) : r[i] = s[i + d]
  <2> SUFFICES ASSUME NEW i \in 1..(Len(r) - 1) PROVE r[i] = s[i + d]
    OBVIOUS
  <2>1. i \in 1..Len(r) /\ i + d \in 1..Len(s)
    BY <1>1, <1>2, <1>3
  <2> QED BY <1>1, <1>4, <2>1
<1>6. r[Len(r)] = x
  <2>1. Len(r) \in 1..Len(r) /\ Len(r) + d = Len(s) + 1
    BY <1>1, <1>2, <1>3
  <2> QED BY <1>1, <1>4, <2>1
<1> QED BY <1>1, <1>2, <1>3, <1>5, <1>6 DEF a, r, d

(* events_since: the numbers after n that the queue still has. *)
LEMMA SinceIs ==
  ASSUME LogOK, NEW n \in 0..seq
  PROVE  LET start == IF n > FirstNumber THEN n ELSE FirstNumber
             es    == EventsSince(n)
         IN  /\ start \in 0..seq /\ start >= n
             /\ start = n \/ start + 1 = events[1]
             /\ es \in Seq(Int) /\ Len(es) = seq - start
             /\ \A i \in 1..Len(es) : es[i] = start + i
<1> DEFINE start == IF n > FirstNumber THEN n ELSE FirstNumber
           m == start - FirstNumber + 1
<1>1. /\ seq \in Nat /\ Len(events) \in Nat /\ Len(events) >= 1 /\ Len(events) <= seq
      /\ \A i \in 1..Len(events) : events[i] = seq - Len(events) + i
      /\ events \in Seq(Int)
  BY SizesAssumption DEF LogOK
<1>2. FirstNumber \in 0..seq /\ FirstNumber = seq - Len(events) /\ FirstNumber + 1 = events[1]
  BY <1>1 DEF FirstNumber
<1>3. start \in 0..seq /\ start >= n /\ (start = n \/ start = FirstNumber) /\ start >= FirstNumber
  BY <1>2
<1>4. EventsSince(n) = SubSeq(events, m, Len(events))
  BY DEF EventsSince
<1> HIDE DEF start
<1>5. m = start - FirstNumber + 1 /\ m \in Int /\ m >= 1 /\ m <= Len(events) + 1
      /\ Len(events) - m + 1 = seq - start
  BY <1>1, <1>2, <1>3
<1>6. \A i \in m..Len(events) : events[i] \in Int
  BY <1>1, <1>5, ElementOfSeq
<1> HIDE DEF m
<1>7. /\ SubSeq(events, m, Len(events)) \in Seq(Int)
      /\ Len(SubSeq(events, m, Len(events)))
           = IF m <= Len(events) THEN Len(events) - m + 1 ELSE 0
      /\ \A i \in 1..(Len(events) - m + 1) :
           SubSeq(events, m, Len(events))[i] = events[m + i - 1]
  <2>1. m \in Int /\ Len(events) \in Int
    BY <1>1, <1>5
  <2> QED BY <2>1, <1>6, SubSeqProperties
<1>8. Len(EventsSince(n)) = seq - start
  BY <1>1, <1>4, <1>5, <1>7
<1>9. \A i \in 1..(seq - start) : EventsSince(n)[i] = start + i
  <2> SUFFICES ASSUME NEW i \in 1..(seq - start) PROVE EventsSince(n)[i] = start + i
    OBVIOUS
  <2>1. EventsSince(n)[i] = events[m + i - 1]
    BY <1>4, <1>5, <1>7
  <2>2. m + i - 1 \in 1..Len(events) /\ seq - Len(events) + (m + i - 1) = start + i
    BY <1>1, <1>2, <1>3, <1>5
  <2> QED BY <2>1, <2>2, <1>1
<1> QED BY <1>2, <1>3, <1>4, <1>7, <1>8, <1>9 DEF start

-----------------------------------------------------------------------------
(* Steps that leave the wire and the dock alone. *)

(* emit: the queue moves on, one number at a time. *)
LEMMA EmittedIs ==
  ASSUME LogOK, Emitted
  PROVE  LogOK' /\ seq' >= seq /\ events'[1] >= events[1]
<1> DEFINE d == IF Len(events) < Keep THEN 0 ELSE 1
<1>1. /\ seq \in Nat /\ Len(events) \in Nat /\ Len(events) >= 1 /\ Len(events) <= seq
      /\ Len(events) <= Keep /\ Keep \in Nat \ {0}
      /\ \A i \in 1..Len(events) : events[i] = seq - Len(events) + i
      /\ events \in Seq(Int) /\ seq + 1 \in Int
  BY SizesAssumption DEF LogOK
<1>2. seq' = seq + 1 /\ events' = LastOf(Keep, Append(events, seq + 1))
  BY DEF Emitted
<1>3. /\ events' \in Seq(Int) /\ Len(events') = Len(events) + 1 - d
      /\ Len(events') \in 1..Keep
      /\ \A i \in 1..(Len(events') - 1) : events'[i] = events[i + d]
      /\ events'[Len(events')] = seq + 1
  <2>1. events \in Seq(Int) /\ Len(events) <= Keep /\ Keep \in Nat \ {0} /\ seq + 1 \in Int
    BY <1>1
  <2> QED BY <2>1, <1>2, PushedIs
<1>4. d \in {0, 1} /\ (d = 0 \/ Len(events) = Keep)
  BY <1>1
<1> HIDE DEF d
<1>5. \A i \in 1..Len(events') : events'[i] = seq' - Len(events') + i
  <2> SUFFICES ASSUME NEW i \in 1..Len(events') PROVE events'[i] = seq' - Len(events') + i
    OBVIOUS
  <2>1. CASE i = Len(events')
    BY <2>1, <1>1, <1>2, <1>3, <1>4
  <2>2. CASE i # Len(events')
    <3>1. i \in 1..(Len(events') - 1) /\ i + d \in 1..Len(events)
      <4>1. Len(events) \in Nat /\ Len(events') \in Nat /\ Len(events') = Len(events) + 1 - d
        BY <1>1, <1>3
      <4>2. i \in Nat /\ 1 <= i /\ i <= Len(events') /\ i # Len(events')
        BY <2>2, <4>1
      <4> QED BY <4>1, <4>2, <1>4
    <3>2. events'[i] = seq - Len(events) + (i + d)
      BY <3>1, <1>1, <1>3
    <3>3. seq - Len(events) + (i + d) = seq' - Len(events') + i
      <4>1. seq' = seq + 1 /\ Len(events') = Len(events) + 1 - d
        BY <1>2, <1>3
      <4>2. seq \in Int /\ Len(events) \in Int /\ d \in Int /\ i \in Int
        BY <1>1, <1>4
      <4> QED BY <4>1, <4>2
    <3> QED BY <3>2, <3>3
  <2> QED BY <2>1, <2>2
<1>6. events'[1] = seq' - Len(events') + 1 /\ events[1] = seq - Len(events) + 1
  BY <1>1, <1>3, <1>5
<1>7. Len(events') <= seq' /\ seq' \in Nat
  BY <1>1, <1>2, <1>3, <1>4
<1> QED BY <1>1, <1>2, <1>3, <1>4, <1>5, <1>6, <1>7 DEF LogOK

(* What was told is a list of numbers. *)
LEMMA ToldIsInt ==
  ASSUME lines \in Seq(Int), wire \in Seq(Int)
  PROVE  /\ Len(lines) \in Nat /\ Len(wire) \in Nat /\ Total \in Nat
         /\ \A i \in 1..Total : Told(i) \in Int
<1>1. Len(lines) \in Nat /\ Len(wire) \in Nat
  OBVIOUS
<1> SUFFICES ASSUME NEW i \in 1..Total PROVE Told(i) \in Int
  BY <1>1 DEF Total
<1>2. CASE i <= Len(lines)
  BY <1>1, <1>2, ElementOfSeq DEF Told
<1>3. CASE ~(i <= Len(lines))
  <2>1. i - Len(lines) \in 1..Len(wire)
    BY <1>1, <1>3 DEF Total
  <2> QED BY <1>3, <2>1, ElementOfSeq DEF Told
<1> QED BY <1>2, <1>3

LEMMA ToldBeyond ==
  ASSUME NEW i, ~(i <= Len(lines)) PROVE Told(i) = wire[i - Len(lines)]
  BY DEF Told

(* What was told stays true of a queue that has moved on. *)
LEMMA QuietKeeps ==
  ASSUME Core, LogOK', Settled', UNCHANGED <<link, lines>>,
         seq' >= seq, events'[1] >= events[1], closed => closed',
         pc'.canceller = "idle" => pc.canceller = "idle",
         pc'.canceller = "idle" /\ closed => UNCHANGED log
  PROVE  Core'
<1>1. /\ conn' = conn /\ pos' = pos /\ wire' = wire /\ lines' = lines
      /\ Total' = Total /\ Mark' = Mark
  BY DEF link, Total, Mark
<1>2. \A i : Told(i)' = Told(i)
  BY <1>1 DEF Told
<1>3. /\ seq \in Nat /\ seq' \in Nat /\ events[1] \in Int /\ events'[1] \in Int
      /\ pos \in Nat /\ pos <= seq
  <2>1. seq \in Nat /\ events \in Seq(Int) /\ Len(events) >= 1
    BY SizesAssumption DEF Core, LogOK
  <2>2. seq' \in Nat /\ events' \in Seq(Int) /\ Len(events') >= 1
    BY SizesAssumption DEF LogOK
  <2>3. 1 \in 1..Len(events) /\ 1 \in 1..Len(events')
    BY <2>1, <2>2
  <2>4. pos \in 0..seq
    BY DEF Core, WireOK
  <2> QED BY <2>1, <2>2, <2>3, <2>4, ElementOfSeq
<1>4. LinesOK'
  BY <1>1 DEF Core, LinesOK
<1>5. WireOK'
  BY <1>1, <1>3 DEF Core, WireOK, log
<1>6. Followed'
  <2> SUFFICES ASSUME conn \/ wire # <<>>, pos > 0
               PROVE  /\ Total - Mark >= 1 /\ (conn => Told(Total) = pos)
                      /\ \A j \in 0..(pos - events'[1]) :
                           j + Mark < Shown + Len(wire) =>
                             Total - Mark - j >= 1 /\ Told(Total - Mark - j) = pos - j
    BY <1>1, <1>2 DEF Followed, Told
  <2>1. \A j \in 0..(pos - events'[1]) : j \in 0..(pos - events[1])
    BY <1>3
  <2> QED BY <2>1 DEF Core, Followed
<1>7. Chained'
  <2> SUFFICES ASSUME NEW i \in 1..(Total - 1), Told(i) > 0, Told(i + 1) > Told(i) + 1
               PROVE  Told(i + 1) <= events'[1]
    BY <1>1, <1>2 DEF Chained, Told
  <2>1. Told(i + 1) <= events[1]
    BY DEF Core, Chained
  <2>2. Told(i + 1) \in Int
    BY ToldIsInt DEF Core, LinesOK, WireOK, Total
  <2> QED BY <2>1, <2>2, <1>3
<1>8. EndTold'
  BY <1>1 DEF Core, EndTold, log
<1> QED BY <1>4, <1>5, <1>6, <1>7, <1>8 DEF Core

(* A connection that ends, or begins: nothing is on the wire, and at most  *)
(* a mark is added to the lines.                                           *)
LEMMA CutKeeps ==
  ASSUME Core, UNCHANGED <<seq, events, closed, pc>>, wire' = <<>>, pos' = 0,
         lines' = lines \/ \E m \in {Retry, Dead} : lines' = Push(lines, m)
  PROVE  Core'
<1>1. /\ lines \in Seq(Int) /\ wire \in Seq(Int) /\ Len(lines) <= Shown
      /\ Len(lines) \in Nat /\ Len(wire) \in Nat /\ Total \in Nat
      /\ Shown \in Nat \ {0}
  BY ToldIsInt, SizesAssumption DEF Core, LinesOK, WireOK
<1>2. LogOK' /\ Settled' /\ seq \in Nat
  BY DEF Core, LogOK, Settled
<1>3. WireOK' /\ Followed'
  BY <1>2 DEF WireOK, Followed
<1>4. \A i : i <= Len(lines) => Told(i) = lines[i]
  BY DEF Told
<1>5. Total' = Len(lines') /\ Len(lines') \in Nat
  <2>1. Len(wire') = 0 /\ Len(lines') \in Nat
    <3>1. CASE lines' = lines
      BY <1>1, <3>1
    <3>2. ASSUME NEW m \in {Retry, Dead}, lines' = Push(lines, m) PROVE Len(lines') \in Nat
      <4>1. m \in Int
        BY DEF Retry, Dead
      <4> QED BY <3>2, <4>1, <1>1, PushedIs DEF Push
    <3> QED BY <3>1, <3>2
  <2> QED BY <2>1 DEF Total
<1>6. CASE lines' = lines
  <2>1. LinesOK' /\ EndTold'
    BY <1>6 DEF Core, LinesOK, EndTold
  <2>2. Chained'
    <3> SUFFICES ASSUME NEW i \in 1..(Len(lines) - 1), lines[i] > 0, lines[i + 1] > lines[i] + 1
                 PROVE  lines[i + 1] <= events[1]
      BY <1>1, <1>5, <1>6 DEF Chained, Told
    <3>1. i \in 1..(Total - 1) /\ i <= Len(lines) /\ i + 1 <= Len(lines)
      BY <1>1 DEF Total
    <3>2. Told(i) = lines[i] /\ Told(i + 1) = lines[i + 1]
      BY <1>4, <3>1
    <3> QED BY <3>1, <3>2 DEF Core, Chained
  <2> QED BY <1>2, <1>3, <2>1, <2>2 DEF Core
<1>7. ASSUME NEW m \in {Retry, Dead}, lines' = Push(lines, m) PROVE Core'
  <2> DEFINE d == IF Len(lines) < Shown THEN 0 ELSE 1
  <2>1. m \in Int /\ ~(m > 0) /\ m # End
    BY DEF Retry, Dead, End
  <2>2. /\ lines' \in Seq(Int) /\ Len(lines') = Len(lines) + 1 - d /\ Len(lines') \in 1..Shown
        /\ \A i \in 1..(Len(lines') - 1) : lines'[i] = lines[i + d]
        /\ lines'[Len(lines')] = m
    <3>1. lines' = LastOf(Shown, Append(lines, m))
      BY <1>7 DEF Push
    <3>2. lines \in Seq(Int) /\ Len(lines) <= Shown /\ Shown \in Nat \ {0}
      BY <1>1
    <3> QED BY <2>1, <3>1, <3>2, PushedIs
  <2>3. d \in {0, 1}
    OBVIOUS
  <2> HIDE DEF d
  <2>4. LinesOK' /\ EndTold'
    BY <2>1, <2>2, <1>1 DEF LinesOK, EndTold, End
  <2>5. Chained'
    <3> SUFFICES ASSUME NEW i \in 1..(Len(lines') - 1), lines'[i] > 0, lines'[i + 1] > lines'[i] + 1
                 PROVE  lines'[i + 1] <= events[1]
      BY <1>5 DEF Chained, Told
    <3>1. i + 1 # Len(lines')
      BY <2>1, <2>2
    <3>2. i + 1 \in 1..(Len(lines') - 1) /\ i + d \in 1..(Total - 1) /\ (i + 1) + d = (i + d) + 1
          /\ i + d <= Len(lines) /\ (i + d) + 1 <= Len(lines)
      <4>1. Len(lines') = Len(lines) + 1 - d
        BY <2>2
      <4>2. Total = Len(lines) + Len(wire)
        BY DEF Total
      <4>3. /\ Len(lines) \in Int /\ Len(lines') \in Int /\ Len(wire) \in Nat /\ i \in Int
            /\ 1 <= i /\ i <= Len(lines') - 1 /\ i + 1 # Len(lines')
        BY <3>1, <1>1, <2>2
      <4>4. CASE d = 0
        BY <4>1, <4>2, <4>3, <4>4
      <4>5. CASE d = 1
        BY <4>1, <4>2, <4>3, <4>5
      <4> QED BY <4>4, <4>5, <2>3
    <3>3. lines'[i] = Told(i + d) /\ lines'[i + 1] = Told((i + d) + 1)
      BY <3>2, <1>4, <2>2
    <3>4. Chained
      BY DEF Core
    <3> QED BY <3>2, <3>3, <3>4 DEF Chained
  <2> QED BY <1>2, <1>3, <2>4, <2>5 DEF Core
<1> QED BY <1>6, <1>7

-----------------------------------------------------------------------------
(* A word goes from the wire to the dock, which drops its oldest line when *)
(* it is full: what was told loses at most its first element.              *)
LEMMA ReceiveKeeps ==
  ASSUME Core, Receive PROVE Core'
<1> DEFINE d == IF Len(lines) < Shown THEN 0 ELSE 1
           t(i) == IF i <= Len(lines') THEN lines'[i] ELSE wire'[i - Len(lines')]
<1>1. /\ wire # <<>> /\ wire' = Tail(wire) /\ lines' = Push(lines, Head(wire))
      /\ conn' = conn /\ pos' = pos /\ seq' = seq /\ events' = events
      /\ closed' = closed /\ pc' = pc /\ Mark' = Mark
  BY DEF Receive, log, run, Mark
<1>2. /\ lines \in Seq(Int) /\ wire \in Seq(Int) /\ Len(lines) <= Shown
      /\ Len(lines) \in Nat /\ Len(wire) \in Nat /\ Total \in Nat
      /\ Shown \in Nat \ {0} /\ pos \in Nat /\ seq \in Nat
  BY ToldIsInt, SizesAssumption DEF Core, LinesOK, WireOK, LogOK
<1>3. /\ Tail(wire) \in Seq(Int) /\ Len(Tail(wire)) = Len(wire) - 1 /\ Len(wire) >= 1
      /\ \A i \in 1..(Len(wire) - 1) : Tail(wire)[i] = wire[i + 1]
      /\ Head(wire) = wire[1] /\ wire[1] \in Int
  <2>1. Head(wire) = wire[1] /\ Len(wire) >= 1
    BY <1>1, <1>2
  <2> QED BY <1>1, <1>2, <2>1, HeadTailProperties, ElementOfSeq
<1>4. /\ lines' \in Seq(Int) /\ Len(lines') = Len(lines) + 1 - d /\ Len(lines') \in 1..Shown
      /\ \A i \in 1..(Len(lines') - 1) : lines'[i] = lines[i + d]
      /\ lines'[Len(lines')] = wire[1]
  BY <1>1, <1>2, <1>3, PushedIs DEF Push
<1>5. d \in {0, 1} /\ (d = 1 => Len(lines) = Shown)
  BY <1>2
<1> HIDE DEF d, t
<1>6. Total = Len(lines) + Len(wire) /\ Total' = Total - d /\ Total' = Len(lines') + (Len(wire) - 1)
  <2>1. Len(wire') = Len(wire) - 1
    BY <1>1, <1>3
  <2>2. Total = Len(lines) + Len(wire) /\ Total' = Len(lines') + Len(wire')
    BY DEF Total
  <2>3. d \in Int /\ Len(lines) \in Int /\ Len(wire) \in Int
    BY <1>2, <1>5
  <2>4. Len(lines') = Len(lines) + 1 - d
    BY <1>4
  <2> QED BY <2>1, <2>2, <2>3, <2>4
<1>7. ASSUME NEW i \in 1..Total' PROVE t(i) = Told(i + d)
  <2>1. CASE i < Len(lines')
    <3>1. t(i) = lines'[i] /\ lines'[i] = lines[i + d]
      BY <2>1, <1>2, <1>4, <1>6 DEF Told, t
    <3>2. i + d <= Len(lines)
      BY <2>1, <1>2, <1>4, <1>5, <1>6
    <3> QED BY <3>1, <3>2 DEF Told
  <2>2. CASE i = Len(lines')
    <3>1. t(i) = wire[1]
      BY <2>2, <1>4 DEF Told, t
    <3>2. ~(i + d <= Len(lines)) /\ i + d - Len(lines) = 1
      BY <2>2, <1>2, <1>4, <1>5
    <3>3. Told(i + d) = wire[i + d - Len(lines)]
      BY <3>2, <1>2, <1>5, ToldBeyond
    <3> QED BY <3>1, <3>2, <3>3
  <2>3. CASE i > Len(lines')
    <3>1. i - Len(lines') \in 1..(Len(wire) - 1) /\ ~(i <= Len(lines')) /\ ~(i + d <= Len(lines))
          /\ (i - Len(lines')) + 1 = i + d - Len(lines)
      <4>1. Len(lines) \in Int /\ Len(lines') \in Int /\ Len(wire) \in Int /\ d \in Int
            /\ Total' \in Int
        BY <1>2, <1>4, <1>5, <1>6
      <4>2. Len(lines') = Len(lines) + 1 - d /\ Total' = Len(lines') + (Len(wire) - 1)
        BY <1>4, <1>6
      <4> QED BY <2>3, <4>1, <4>2
    <3>2. t(i) = wire'[i - Len(lines')]
      BY <3>1 DEF t
    <3>3. wire'[i - Len(lines')] = wire[(i - Len(lines')) + 1]
      BY <3>1, <1>1, <1>3
    <3>4. Told(i + d) = wire[i + d - Len(lines)]
      BY <3>1, <1>2, <1>5, ToldBeyond
    <3> QED BY <3>1, <3>2, <3>3, <3>4
  <2> QED BY <2>1, <2>2, <2>3, <1>2, <1>4, <1>6
<1>8. LogOK' /\ Settled' /\ LinesOK'
  BY <1>1, <1>2, <1>4 DEF Core, LogOK, Settled, LinesOK
<1>9. WireOK'
  <2>1. \A i \in 1..(Len(wire) - 1) : wire'[i] = wire[i + 1] /\ i + 1 \in 1..Len(wire)
    BY <1>1, <1>2, <1>3
  <2>2. wire' # <<>> => Len(wire) - 1 >= 1
    BY <1>1, <1>2, <1>3
  <2>3. Len(wire) - 1 >= 1 => wire'[Len(wire) - 1] = wire[Len(wire)]
    BY <1>2, <1>3, <2>1
  <2>4. \A i \in 1..(Len(wire) - 1) : wire'[i] >= 0 /\ (wire'[i] = End => i = Len(wire) - 1)
    <3> SUFFICES ASSUME NEW i \in 1..(Len(wire) - 1)
                 PROVE  wire'[i] >= 0 /\ (wire'[i] = End => i = Len(wire) - 1)
      OBVIOUS
    <3>1. wire[i + 1] >= 0 /\ (wire[i + 1] = End => i + 1 = Len(wire))
      BY <2>1 DEF Core, WireOK
    <3> QED BY <2>1, <3>1, <1>2
  <2> QED BY <1>1, <1>3, <2>2, <2>3, <2>4 DEF Core, WireOK
<1>10. Mark \in {0, 1} /\ (Mark = 0 <=> conn)
  BY DEF Mark
<1>11. Followed'
  <2> SUFFICES ASSUME conn \/ wire' # <<>>, pos > 0
               PROVE  /\ Total' - Mark >= 1 /\ (conn => t(Total') = pos)
                      /\ \A j \in 0..(pos - events[1]) :
                           j + Mark < Shown + Len(wire') =>
                             Total' - Mark - j >= 1 /\ t(Total' - Mark - j) = pos - j
    BY <1>1 DEF Followed, Told, t
  <2>1. /\ conn => Told(Total) = pos
        /\ \A j \in 0..(pos - events[1]) :
             j + Mark < Shown + Len(wire) =>
               Total - Mark - j >= 1 /\ Told(Total - Mark - j) = pos - j
    BY <1>1 DEF Core, Followed
  <2>2. Total' - Mark >= 1
    <3>1. wire' # <<>> => Len(wire) - 1 >= 1
      BY <1>1, <1>2, <1>3
    <3>2. Total' = Len(lines') + (Len(wire) - 1) /\ Len(lines') >= 1 /\ Len(wire) >= 1
          /\ Len(lines') \in Int /\ Len(wire) \in Int
      BY <1>2, <1>3, <1>4, <1>6
    <3>3. Mark \in {0, 1} /\ (Mark = 1 => Len(wire) - 1 >= 1)
      BY <3>1, <1>10
    <3> QED BY <3>2, <3>3
  <2>3. Total' \in 1..Total' /\ Total' + d = Total
    BY <2>2, <1>2, <1>4, <1>5, <1>6, <1>10
  <2>4. conn => t(Total') = pos
    BY <2>1, <2>3, <1>7
  <2>5. ASSUME NEW j \in 0..(pos - events[1]), j + Mark < Shown + Len(wire')
        PROVE  Total' - Mark - j >= 1 /\ t(Total' - Mark - j) = pos - j
    <3>1. Len(wire') = Len(wire) - 1
      BY <1>1, <1>3
    <3>2. Total - Mark - j >= 1 /\ Told(Total - Mark - j) = pos - j
      BY <2>1, <2>5, <3>1, <1>2, <1>10
    <3>3. Total' - Mark - j >= 1
      <4>1. /\ Len(lines) \in Int /\ Len(wire) \in Int /\ Mark \in Int /\ Shown \in Int
            /\ j \in Int /\ Total \in Int
        BY <2>5, <3>2, <1>2, <1>3, <1>10, SizesAssumption
      <4>2. /\ Total = Len(lines) + Len(wire) /\ Total' = Total - d
            /\ j + Mark < Shown + (Len(wire) - 1)
        BY <2>5, <3>1, <1>6
      <4>3. CASE d = 0
        BY <4>1, <4>2, <4>3, <3>2
      <4>4. CASE d = 1
        <5>1. Len(lines) = Shown
          BY <4>4, <1>5
        <5> QED BY <4>1, <4>2, <4>4, <5>1
      <4> QED BY <4>3, <4>4, <1>5
    <3>4. Total' - Mark - j \in 1..Total' /\ Total' - Mark - j + d = Total - Mark - j
      BY <3>3, <1>2, <1>5, <1>6, <1>10
    <3>5. t(Total' - Mark - j) = Told(Total' - Mark - j + d)
      BY <3>4, <1>7
    <3> QED BY <3>2, <3>3, <3>4, <3>5
  <2> QED BY <2>2, <2>4, <2>5
<1>12. Chained'
  <2> SUFFICES ASSUME NEW i \in 1..(Total' - 1), t(i) > 0, t(i + 1) > t(i) + 1
               PROVE  t(i + 1) <= events[1]
    BY <1>1 DEF Chained, Told, t
  <2>1. i \in 1..Total' /\ i + 1 \in 1..Total' /\ (i + 1) + d = (i + d) + 1
        /\ i + d \in 1..(Total - 1)
    BY <1>2, <1>5, <1>6
  <2>2. t(i) = Told(i + d) /\ t(i + 1) = Told((i + d) + 1)
    BY <2>1, <1>7
  <2> QED BY <2>1, <2>2 DEF Core, Chained
<1>13. EndTold'
  <2> SUFFICES ASSUME lines'[Len(lines')] = End, pc.canceller = "idle"
               PROVE  /\ closed
                      /\ \A j \in 0..(Len(events) - 1) :
                           j < Shown - 1 =>
                             Len(lines') - 1 - j >= 1 /\ lines'[Len(lines') - 1 - j] = seq - j
    BY <1>1 DEF EndTold
  <2>1. 1 = Len(wire) /\ ~conn /\ closed /\ pos = seq /\ pos > 0
    <3>1. 1 = Len(wire)
      <4>1. 1 \in 1..Len(wire) /\ wire[1] = End
        BY <1>2, <1>3, <1>4
      <4> QED BY <4>1 DEF Core, WireOK
    <3> QED BY <3>1, <1>1, <1>4 DEF Core, WireOK
  <2>2. events[1] = seq - Len(events) + 1 /\ Len(events) \in Nat
    BY SizesAssumption DEF Core, LogOK
  <2>3. Mark = 1 /\ Total' = Len(lines')
    <3>1. Mark = 1
      BY <2>1 DEF Mark
    <3>2. Total' = Len(lines') + (1 - 1) /\ Len(lines') \in Int
      <4>1. Total' = Len(lines') + (Len(wire) - 1)
        BY <1>6
      <4>2. Len(lines') \in Int /\ Len(wire) = 1
        BY <1>2, <1>4, <2>1
      <4> QED BY <4>1, <4>2
    <3> QED BY <3>1, <3>2
  <2> SUFFICES ASSUME NEW j \in 0..(Len(events) - 1), j < Shown - 1
               PROVE  Len(lines') - 1 - j >= 1 /\ lines'[Len(lines') - 1 - j] = seq - j
    BY <2>1
  <2>4. j \in 0..(pos - events[1]) /\ j + Mark < Shown + Len(wire)
    BY <2>1, <2>2, <2>3, <1>2
  <2>5. Total - Mark - j >= 1 /\ Told(Total - Mark - j) = pos - j
    BY <2>1, <2>4, <1>1 DEF Core, Followed
  <2>6. Total' - 1 - j >= 1
    <3>1. Len(lines) \in Int /\ Shown \in Int /\ j \in Int /\ Total \in Int /\ j < Shown - 1
      BY <1>2
    <3>2. Total = Len(lines) + 1 /\ Total' = Total - d /\ Total - 1 - j >= 1
      BY <2>1, <2>3, <2>5, <1>6
    <3>3. d = 0 \/ (d = 1 /\ Len(lines) = Shown)
      BY <1>5
    <3> QED BY <3>1, <3>2, <3>3
  <2>7. Total' - 1 - j \in 1..Total' /\ Total' - 1 - j + d = Total - Mark - j
    BY <2>3, <2>6, <1>2, <1>5, <1>6
  <2>8. t(Total' - 1 - j) = seq - j
    BY <2>1, <2>5, <2>7, <1>7
  <2>9. t(Total' - 1 - j) = lines'[Len(lines') - 1 - j]
    BY <2>3, <2>7, <1>4 DEF Told, t
  <2> QED BY <2>3, <2>6, <2>8, <2>9
<1> QED BY <1>8, <1>9, <1>11, <1>12, <1>13 DEF Core

-----------------------------------------------------------------------------
(* One turn of the generator: the events after its place, or those the     *)
(* queue still has, then the end if the run is closed.                     *)
LEMMA ServeKeeps ==
  ASSUME Core, conn \in BOOLEAN, Serve PROVE Core'
<1> DEFINE es    == EventsSince(pos)
           start == IF pos > FirstNumber THEN pos ELSE FirstNumber
           last  == IF closed THEN <<End>> ELSE <<>>
           e     == IF closed THEN 1 ELSE 0
           k     == seq - start
           L     == Len(lines)
           W     == Len(wire)
           t(i)  == IF i <= L THEN lines[i] ELSE wire'[i - L]
<1>1. /\ conn /\ (pos < seq \/ closed) /\ wire' = (wire \o es) \o last
      /\ conn' = ~closed /\ pos' = seq /\ seq' = seq /\ events' = events
      /\ closed' = closed /\ pc' = pc /\ lines' = lines
  <2>1. wire' = wire \o es \o last
    BY DEF Serve
  <2> QED BY <2>1 DEF Serve, log, run, dock
<1>2. /\ lines \in Seq(Int) /\ wire \in Seq(Int) /\ L <= Shown /\ L \in Nat /\ W \in Nat
      /\ Total \in Nat /\ Total = L + W /\ Shown \in Nat \ {0}
      /\ pos \in 0..seq /\ seq \in Nat
  BY ToldIsInt, SizesAssumption DEF Core, LinesOK, WireOK, LogOK, Total
<1>3. /\ events[1] = seq - Len(events) + 1 /\ Len(events) \in Nat
      /\ Len(events) >= 1 /\ Len(events) <= seq /\ events[1] \in 1..seq
  BY SizesAssumption DEF Core, LogOK
<1>4. /\ start \in 0..seq /\ start >= pos /\ (start = pos \/ start + 1 = events[1])
      /\ es \in Seq(Int) /\ Len(es) = k /\ \A i \in 1..k : es[i] = start + i
  BY <1>2, SinceIs DEF Core
<1>5. start = pos => pos > 0 \/ events[1] = 1
  BY <1>2, <1>3 DEF FirstNumber
<1>6. last \in Seq(Int) /\ Len(last) = e /\ e \in {0, 1} /\ (e = 1 => last[1] = End)
      /\ (e = 1 <=> closed)
  BY DEF End
<1> HIDE DEF es, start, last, e
<1>7. k \in Nat /\ start + k = seq /\ (~closed => k >= 1)
  BY <1>1, <1>2, <1>3, <1>4
<1> HIDE DEF k, L, W
<1>8. /\ wire \o es \in Seq(Int) /\ Len(wire \o es) = W + k
      /\ \A i \in 1..(W + k) : (wire \o es)[i] = IF i <= W THEN wire[i] ELSE es[i - W]
  BY <1>2, <1>4, ConcatProperties DEF W
<1>9. /\ wire' \in Seq(Int) /\ Len(wire') = W + k + e
      /\ \A i \in 1..(W + k + e) :
           wire'[i] = IF i <= W + k THEN (wire \o es)[i] ELSE last[i - (W + k)]
  <2> DEFINE we == wire \o es
  <2>1. we \in Seq(Int) /\ Len(we) = W + k /\ wire' = we \o last
    BY <1>1, <1>8
  <2> HIDE DEF we
  <2>2. /\ we \o last \in Seq(Int) /\ Len(we \o last) = Len(we) + Len(last)
        /\ \A i \in 1..(Len(we) + Len(last)) :
             (we \o last)[i] = IF i <= Len(we) THEN we[i] ELSE last[i - Len(we)]
    BY <2>1, <1>6, ConcatProperties
  <2>3. Len(we) + Len(last) = W + k + e
    BY <2>1, <1>6
  <2> QED BY <2>1, <2>2, <2>3, <1>6 DEF we
<1>10. /\ \A i \in 1..W : wire'[i] = wire[i]
       /\ \A i \in 1..k : wire'[W + i] = start + i
       /\ e = 1 => wire'[W + k + 1] = End
  <2>1. ASSUME NEW i \in 1..W PROVE wire'[i] = wire[i]
    <3>1. i \in 1..(W + k + e) /\ i \in 1..(W + k) /\ i <= W + k /\ i <= W
      BY <1>2, <1>6, <1>7
    <3> QED BY <3>1, <1>8, <1>9
  <2>2. ASSUME NEW i \in 1..k PROVE wire'[W + i] = start + i
    <3>1. W + i \in 1..(W + k + e) /\ W + i \in 1..(W + k) /\ W + i <= W + k
          /\ ~(W + i <= W) /\ (W + i) - W = i
      BY <1>2, <1>6, <1>7
    <3>2. wire'[W + i] = (wire \o es)[W + i]
      BY <3>1, <1>9
    <3>3. (wire \o es)[W + i] = es[(W + i) - W]
      BY <3>1, <1>8
    <3> QED BY <3>1, <3>2, <3>3, <1>4
  <2>3. e = 1 => wire'[W + k + 1] = End
    <3> SUFFICES ASSUME e = 1 PROVE wire'[W + k + 1] = End
      OBVIOUS
    <3>1. W + k + 1 \in 1..(W + k + e) /\ ~(W + k + 1 <= W + k) /\ W + k + 1 - (W + k) = 1
      BY <1>2, <1>7
    <3>2. wire'[W + k + 1] = last[W + k + 1 - (W + k)]
      BY <3>1, <1>2, <1>7, <1>9
    <3> QED BY <3>1, <3>2, <1>6
  <2> QED BY <2>1, <2>2, <2>3
<1>11. Mark = 0 /\ Mark' = e /\ Total' = Total + k + e
  <2>1. Mark = 0 /\ Mark' = e
    BY <1>1, <1>6 DEF Mark
  <2>2. Total' = L + Len(wire')
    BY <1>1 DEF Total, L
  <2> QED BY <2>1, <2>2, <1>2, <1>6, <1>7, <1>9
<1>12. /\ \A i \in 1..Total : t(i) = Told(i)
       /\ \A i \in 1..k : t(Total + i) = start + i
       /\ e = 1 => t(Total + k + 1) = End
  <2>1. ASSUME NEW i \in 1..Total PROVE t(i) = Told(i)
    <3>1. CASE i <= L
      BY <3>1 DEF Told, L
    <3>2. CASE ~(i <= L)
      <4>1. i - L \in 1..W
        BY <3>2, <1>2
      <4>2. t(i) = wire[i - L]
        BY <3>2, <4>1, <1>10
      <4> QED BY <3>2, <4>2, <1>2, ToldBeyond DEF L
    <3> QED BY <3>1, <3>2
  <2>2. ASSUME NEW i \in 1..k PROVE t(Total + i) = start + i
    <3>1. ~(Total + i <= L) /\ Total + i - L = W + i
      BY <1>2, <1>7
    <3> QED BY <3>1, <1>2, <1>7, <1>10
  <2>3. e = 1 => t(Total + k + 1) = End
    <3>1. ~(Total + k + 1 <= L) /\ Total + k + 1 - L = W + k + 1
      BY <1>2, <1>7
    <3> QED BY <3>1, <1>2, <1>7, <1>10
  <2> QED BY <2>1, <2>2, <2>3
<1> HIDE DEF t
<1>13. LogOK' /\ Settled' /\ LinesOK' /\ EndTold'
  BY <1>1 DEF Core, LogOK, Settled, LinesOK, EndTold
<1>14. WireOK'
  <2>1. ASSUME NEW i \in 1..(W + k + e)
        PROVE  wire'[i] >= 0 /\ (wire'[i] = End => i = W + k + e)
    <3>1. CASE i \in 1..W
      <4>1. wire[i] >= 0 /\ (wire[i] = End => i = W)
        BY <3>1, <1>2 DEF Core, WireOK, W
      <4>2. wire[i] # End
        <5>1. wire # <<>> /\ wire[W] # End
          BY <3>1, <1>1, <1>2 DEF Core, WireOK, W
        <5> QED BY <4>1, <5>1
      <4> QED BY <3>1, <4>1, <4>2, <1>10
    <3>2. CASE i \in (W + 1)..(W + k)
      <4>1. i - W \in 1..k /\ W + (i - W) = i
        BY <3>2, <1>2, <1>7
      <4>2. wire'[i] = start + (i - W)
        BY <4>1, <1>10
      <4>3. wire'[i] > 0
        BY <4>1, <4>2, <1>4, <1>2, <1>7
      <4> QED BY <4>2, <4>3, <1>4, <4>1, <1>2, <1>7 DEF End
    <3>3. CASE e = 1 /\ i = W + k + 1
      BY <3>3, <1>10 DEF End
    <3> QED BY <3>1, <3>2, <3>3, <1>2, <1>6, <1>7
  <2>2. wire' # <<>> => (~closed <=> wire'[W + k + e] # End)
    <3>1. CASE closed
      BY <3>1, <1>6, <1>10
    <3>2. CASE ~closed
      <4>1. e = 0 /\ k \in 1..k /\ W + k + e = W + k
        BY <3>2, <1>2, <1>6, <1>7
      <4>2. wire'[W + k] = seq
        BY <4>1, <1>7, <1>10
      <4> QED BY <3>2, <4>1, <4>2, <1>3, <1>2 DEF End
    <3> QED BY <3>1, <3>2
  <2>3. seq > 0 /\ seq \in 0..seq
    BY <1>2, <1>3
  <2> QED BY <2>1, <2>2, <2>3, <1>1, <1>9 DEF WireOK
<1>15. Followed'
  <2> SUFFICES /\ Total + k >= 1 /\ (~closed => t(Total + k) = seq)
               /\ \A j \in 0..(seq - events[1]) :
                    j < Shown + W + k => Total + k - j >= 1 /\ t(Total + k - j) = seq - j
    <3>1. Total' - Mark' = Total + k /\ (~closed => Total' = Total + k)
      BY <1>2, <1>6, <1>7, <1>11
    <3>2. \A j \in 0..(seq - events[1]) :
            j + Mark' < Shown + Len(wire') => j < Shown + W + k
      <4>1. Shown + Len(wire') = Shown + W + k + e
        BY <1>2, <1>6, <1>7, <1>9
      <4>2. Mark' = e /\ e \in Int /\ Shown \in Int /\ W \in Int /\ k \in Int
        BY <1>2, <1>6, <1>7, <1>11
      <4> QED BY <4>1, <4>2
    <3>3. SUFFICES /\ Total' - Mark' >= 1 /\ (~closed => t(Total') = seq)
                   /\ \A j \in 0..(seq - events[1]) :
                        j + Mark' < Shown + Len(wire') =>
                          Total' - Mark' - j >= 1 /\ t(Total' - Mark' - j) = seq - j
      BY <1>1 DEF Followed, Told, t, L
    <3>4. \A j \in 0..(seq - events[1]) : Total' - Mark' - j = Total + k - j
      <4> SUFFICES ASSUME NEW j \in Int PROVE Total' - Mark' - j = Total + k - j
        BY <1>2, <1>3
      <4> QED BY <1>2, <1>6, <1>7, <1>11
    <3>5. Total + k \in Int /\ seq - events[1] \in Int
      BY <1>2, <1>3, <1>7
    <3>6. ASSUME NEW j \in 0..(seq - events[1]), j + Mark' < Shown + Len(wire')
          PROVE  Total' - Mark' - j >= 1 /\ t(Total' - Mark' - j) = seq - j
      <4>1. Total + k - j >= 1 /\ t(Total + k - j) = seq - j
        BY <3>2, <3>6
      <4> QED BY <4>1, <3>4
    <3> QED BY <3>1, <3>6
  <2>1. CASE k = 0
    <3>1. start = pos /\ pos = seq /\ pos > 0 /\ closed
      BY <2>1, <1>2, <1>3, <1>4, <1>7
    <3>2. /\ Total >= 1
          /\ \A j \in 0..(pos - events[1]) :
               j < Shown + W => Total - j >= 1 /\ Told(Total - j) = pos - j
      BY <3>1, <1>1, <1>2, <1>11 DEF Core, Followed, W
    <3>3. \A j \in Nat : Total - j >= 1 => Total - j \in 1..Total
      BY <1>2
    <3>4. Total + k >= 1
      BY <2>1, <3>2, <1>2
    <3>5. ASSUME NEW j \in 0..(seq - events[1]), j < Shown + W + k
          PROVE  Total + k - j >= 1 /\ t(Total + k - j) = seq - j
      <4>1. j \in Nat /\ j \in 0..(pos - events[1]) /\ j < Shown + W /\ Total + k - j = Total - j
        BY <2>1, <3>1, <3>5, <1>2, <1>3
      <4>2. Total - j >= 1 /\ Told(Total - j) = pos - j
        BY <3>2, <4>1
      <4>3. Total - j \in 1..Total
        BY <3>3, <4>1, <4>2
      <4>4. t(Total - j) = Told(Total - j)
        BY <4>3, <1>12
      <4> QED BY <3>1, <4>1, <4>2, <4>4
    <3> QED BY <3>1, <3>4, <3>5
  <2>2. CASE k > 0
    <3>1. Total + k >= 1 /\ k \in 1..k
      BY <2>2, <1>2, <1>7
    <3>2. t(Total + k) = seq
      BY <3>1, <1>7, <1>12
    <3>3. ASSUME NEW j \in 0..(seq - events[1]), j < Shown + W + k
          PROVE  Total + k - j >= 1 /\ t(Total + k - j) = seq - j
      <4>1. CASE j < k
        <5>1. k - j \in 1..k /\ Total + (k - j) = Total + k - j /\ Total + k - j >= 1
              /\ start + (k - j) = seq - j
          BY <4>1, <1>2, <1>3, <1>4, <1>7
        <5>2. t(Total + (k - j)) = start + (k - j)
          BY <5>1, <1>12
        <5> QED BY <5>1, <5>2
      <4>2. CASE ~(j < k)
        <5>1. start = pos
          BY <4>2, <1>2, <1>3, <1>4, <1>7
        <5>2. pos > 0 /\ j - k \in 0..(pos - events[1]) /\ (j - k) < Shown + W
              /\ pos - (j - k) = seq - j /\ Total - (j - k) = Total + k - j
          BY <4>2, <3>3, <5>1, <1>2, <1>3, <1>4, <1>7
        <5>3. (j - k) + Mark < Shown + Len(wire) /\ Total - Mark - (j - k) = Total - (j - k)
          BY <5>2, <1>2, <1>3, <1>7, <1>11 DEF W
        <5>4. Total - Mark - (j - k) >= 1 /\ Told(Total - Mark - (j - k)) = pos - (j - k)
          BY <5>2, <5>3, <1>1 DEF Core, Followed
        <5>5. Total + k - j \in 1..Total
          BY <4>2, <5>2, <5>3, <5>4, <1>2, <1>3, <1>7
        <5>6. t(Total + k - j) = Told(Total + k - j)
          BY <5>5, <1>12
        <5> QED BY <5>2, <5>3, <5>4, <5>5, <5>6
      <4> QED BY <4>1, <4>2
    <3> QED BY <3>1, <3>2, <3>3
  <2> QED BY <2>1, <2>2, <1>7
<1>16. Chained'
  <2> SUFFICES ASSUME NEW i \in 1..(Total + k + e - 1), t(i) > 0, t(i + 1) > t(i) + 1
               PROVE  t(i + 1) <= events[1]
    <3> SUFFICES ASSUME NEW i \in 1..(Total' - 1), t(i) > 0, t(i + 1) > t(i) + 1
                 PROVE  t(i + 1) <= events[1]
      BY <1>1 DEF Chained, Told, t, L
    <3>1. i \in 1..(Total + k + e - 1)
      BY <1>2, <1>6, <1>7, <1>11
    <3> QED BY <3>1
  <2>1. CASE i + 1 <= Total
    <3>1. i \in 1..(Total - 1) /\ i \in 1..Total /\ i + 1 \in 1..Total
      BY <2>1, <1>2, <1>6, <1>7
    <3>2. t(i) = Told(i) /\ t(i + 1) = Told(i + 1)
      BY <3>1, <1>12
    <3> QED BY <3>1, <3>2 DEF Core, Chained
  <2>2. CASE e = 1 /\ i = Total + k
    <3>1. i + 1 = Total + k + 1 /\ t(i + 1) = End
      BY <2>2, <1>12
    <3>2. 0 <= events[1]
      BY <1>3, <1>2
    <3> QED BY <3>1, <3>2 DEF End
  <2>3. CASE i = Total /\ k >= 1
    <3>1. 1 \in 1..k /\ t(i + 1) = start + 1
      BY <2>3, <1>7, <1>12
    <3>2. start = pos /\ pos > 0 => FALSE
      <4> SUFFICES ASSUME start = pos, pos > 0 PROVE FALSE
        OBVIOUS
      <4>1. Told(Total) = pos
        BY <1>1 DEF Core, Followed
      <4>2. t(i) = pos
        BY <2>3, <4>1, <1>2, <1>12
      <4> QED BY <3>1, <4>2, <1>2
    <3>3. start + 1 = events[1]
      BY <3>2, <1>2, <1>3, <1>4, <1>5
    <3> QED BY <3>1, <3>3, <1>2, <1>3, <1>4
  <2>4. CASE i > Total /\ i < Total + k
    <3>1. i - Total \in 1..k /\ i + 1 - Total \in 1..k /\ Total + (i - Total) = i
          /\ Total + (i + 1 - Total) = i + 1
      BY <2>4, <1>2, <1>7
    <3>2. t(i) = start + (i - Total) /\ t(i + 1) = start + (i + 1 - Total)
      BY <3>1, <1>12
    <3>3. start \in Int /\ i \in Int /\ Total \in Int
      BY <1>2, <1>4
    <3> QED BY <3>2, <3>3
  <2> QED BY <2>1, <2>2, <2>3, <2>4, <1>2, <1>6, <1>7
<1> QED BY <1>13, <1>14, <1>15, <1>16 DEF Core

-----------------------------------------------------------------------------
(* The whole system. *)

LEMMA StreamInvInit == Init => StreamInv
<1> SUFFICES ASSUME Init PROVE StreamInv
  OBVIOUS
<1>1. /\ seq = 1 /\ events = <<1>> /\ closed = FALSE /\ conn = FALSE /\ pos = 0
      /\ wire = <<>> /\ lines = <<>> /\ restarts = 0 /\ pc.canceller = "idle"
      /\ pc \in [Threads -> Places]
  BY DEF Init, Threads, Places
<1>2. events \in Seq(Int) /\ Len(events) = 1 /\ events[1] = 1
  BY <1>1
<1>3. LogOK
  BY <1>1, <1>2, SizesAssumption DEF LogOK
<1>4. wire \in Seq(Int) /\ lines \in Seq(Int) /\ Len(wire) = 0 /\ Len(lines) = 0 /\ Total = 0
  BY <1>1 DEF Total
<1>5. LinesOK /\ WireOK /\ Followed /\ Chained /\ EndTold /\ Settled
  BY <1>1, <1>4, SizesAssumption DEF LinesOK, WireOK, Followed, Chained, EndTold, Settled
<1> QED BY <1>1, <1>3, <1>5 DEF StreamInv, Core

(* Where the two threads are, in every step but a restart. *)
LEMMA ThreadsStep ==
  ASSUME pc \in [Threads -> Places], [Next]_vars, ~Restart
  PROVE  /\ pc' \in [Threads -> Places] /\ restarts' = restarts
         /\ pc'.canceller = "idle" => pc.canceller = "idle"
         /\ pc.canceller = "gone" => pc'.canceller = "gone"
<1> USE DEF Threads
<1>1. CASE Emit \/ Serve \/ Timer \/ Receive \/ PollAsked \/ Open \/ Drop \/ Refused
           \/ \E v \in {"running", "finished", "absent"} : PollAnswered(v)
  BY <1>1 DEF Emit, Serve, Timer, Receive, PollAsked, Open, Drop, Refused, Errored,
              PollAnswered, run, bounds
<1>2. CASE Exit \/ Stamp \/ Cancel
  BY <1>2 DEF Exit, Stamp, Cancel, bounds, Places
<1>3. ASSUME NEW w \in Threads, Close(w) \/ Persist(w)
      PROVE  /\ pc' \in [Threads -> Places] /\ restarts' = restarts
             /\ pc'.canceller = "idle" => pc.canceller = "idle"
             /\ pc.canceller = "gone" => pc'.canceller = "gone"
  BY <1>3 DEF Close, Persist, bounds, Places
<1>4. CASE UNCHANGED vars
  BY <1>4 DEF vars
<1> QED BY <1>1, <1>2, <1>3, <1>4 DEF Next

LEMMA FlagsStep ==
  ASSUME closed \in BOOLEAN, conn \in BOOLEAN, [Next]_vars
  PROVE  closed' \in BOOLEAN /\ conn' \in BOOLEAN
<1>1. CASE Emit \/ Exit \/ Stamp \/ Cancel \/ Timer \/ Receive \/ PollAsked
  BY <1>1 DEF Emit, Exit, Stamp, Cancel, Timer, Receive, PollAsked, run, link
<1>2. CASE Open \/ Drop \/ Refused \/ Serve \/ Restart
  BY <1>2 DEF Open, Drop, Refused, Errored, Serve, Restart, run
<1>3. ASSUME NEW w \in Threads, Close(w) \/ Persist(w) PROVE closed' \in BOOLEAN /\ conn' \in BOOLEAN
  BY <1>3 DEF Close, Persist, link
<1>4. ASSUME NEW v \in {"running", "finished", "absent"}, PollAnswered(v)
      PROVE  closed' \in BOOLEAN /\ conn' \in BOOLEAN
  BY <1>4 DEF PollAnswered, run, link
<1>5. CASE UNCHANGED vars
  BY <1>5 DEF vars
<1> QED BY <1>1, <1>2, <1>3, <1>4, <1>5 DEF Next, Threads

(* Until the console restarts, each step keeps what was told true. *)
LEMMA CoreStep ==
  ASSUME Core, pc \in [Threads -> Places], closed \in BOOLEAN, conn \in BOOLEAN,
         [Next]_vars, ~Restart
  PROVE  Core'
<1>a. LogOK /\ Settled /\ seq \in Int /\ events[1] \in Int
  BY SizesAssumption DEF Core, LogOK
<1>b. UNCHANGED log => LogOK' /\ seq' >= seq /\ events'[1] >= events[1]
  BY <1>a DEF log, LogOK
<1>c. pc'.canceller = "idle" => pc.canceller = "idle"
  BY ThreadsStep
<1>1. CASE Emit
  <2>1. Emitted /\ UNCHANGED <<link, lines, pc, closed>> /\ pc.worker = "work"
    BY <1>1 DEF Emit, run, dock
  <2>2. Settled'
    BY <2>1, <1>a DEF Settled
  <2>3. pc'.canceller = "idle" /\ closed => FALSE
    BY <2>1, <1>a DEF Settled
  <2> QED BY <2>1, <2>2, <2>3, <1>a, <1>c, EmittedIs, QuietKeeps
<1>2. CASE Exit
  <2>1. UNCHANGED <<link, lines, log, closed>> /\ pc.worker = "work" /\ pc' = [pc EXCEPT !.worker = "exited"]
    BY <1>2 DEF Exit, dock
  <2>2. Settled'
    BY <2>1, <1>a DEF Settled, Threads
  <2> QED BY <2>1, <2>2, <1>b, <1>c, QuietKeeps
<1>3. CASE Stamp
  <2>1. /\ Emitted /\ UNCHANGED <<link, lines, closed>> /\ pc.worker = "exited"
        /\ pc' = [pc EXCEPT !.worker = "stamped"]
    BY <1>3 DEF Stamp, dock
  <2>2. pc'.canceller = "idle" /\ closed => FALSE
    BY <2>1, <1>a, <1>c DEF Settled
  <2>3. Settled'
    BY <2>1, <2>2 DEF Settled
  <2> QED BY <2>1, <2>2, <2>3, <1>a, <1>c, EmittedIs, QuietKeeps
<1>4. CASE Cancel
  <2>1. /\ Emitted /\ UNCHANGED <<link, lines, closed>>
        /\ pc' = [pc EXCEPT !.canceller = "asked"]
    BY <1>4 DEF Cancel, dock
  <2>2. pc'.canceller # "idle"
    BY <2>1 DEF Threads
  <2>3. Settled'
    BY <2>2 DEF Settled
  <2> QED BY <2>1, <2>2, <2>3, <1>a, EmittedIs, QuietKeeps
<1>5. ASSUME NEW w \in Threads, Close(w) PROVE Core'
  <2>1. /\ UNCHANGED <<link, lines, log>> /\ closed' = TRUE /\ pc[w] \in {"stamped", "asked"}
        /\ pc' = [pc EXCEPT ![w] = "closed"]
    BY <1>5 DEF Close, dock
  <2>2. Settled'
    BY <2>1 DEF Settled, Threads
  <2> QED BY <2>1, <2>2, <1>b, <1>c, QuietKeeps
<1>6. ASSUME NEW w \in Threads, Persist(w) PROVE Core'
  <2>1. /\ UNCHANGED <<link, lines, log, closed>> /\ pc[w] = "closed"
        /\ pc' = [pc EXCEPT ![w] = "gone"]
    BY <1>6 DEF Persist, dock
  <2>2. Settled'
    BY <2>1, <1>a DEF Settled, Threads
  <2> QED BY <2>1, <2>2, <1>b, <1>c, QuietKeeps
<1>7. CASE Timer \/ PollAsked \/ UNCHANGED vars
  <2>1. UNCHANGED <<link, lines, log, closed, pc>>
    BY <1>7 DEF Timer, PollAsked, vars, link, log, run, dock
  <2>2. Settled'
    BY <2>1, <1>a DEF Settled
  <2> QED BY <2>1, <2>2, <1>b, QuietKeeps
<1>8. CASE Serve
  BY <1>8, ServeKeeps
<1>9. CASE Receive
  BY <1>9, ReceiveKeeps
<1>10. CASE Open
  <2>1. UNCHANGED <<seq, events, closed, pc>> /\ wire' = <<>> /\ pos' = 0 /\ lines' = lines
    BY <1>10 DEF Open, log, run
  <2> QED BY <2>1, CutKeeps
<1>11. CASE Drop \/ Refused
  <2>1. Errored
    BY <1>11 DEF Drop, Refused
  <2>2. UNCHANGED <<seq, events, closed, pc>> /\ wire' = <<>> /\ pos' = 0
    BY <2>1 DEF Errored, log, run
  <2>3. \E m \in {Retry, Dead} : lines' = Push(lines, m)
    BY <2>1 DEF Errored, GiveUp, TryAgain
  <2> QED BY <2>2, <2>3, CutKeeps
<1>12. ASSUME NEW v \in {"running", "finished", "absent"}, PollAnswered(v) PROVE Core'
  <2>1. UNCHANGED <<seq, events, closed, pc, lines>>
    BY <1>12 DEF PollAnswered, log, run
  <2>2. UNCHANGED link \/ (wire' = <<>> /\ pos' = 0)
    BY <1>12 DEF PollAnswered
  <2>3. Settled' /\ UNCHANGED log
    BY <2>1, <1>a DEF Settled, log
  <2>4. CASE UNCHANGED link
    BY <2>1, <2>3, <2>4, <1>b, QuietKeeps
  <2>5. CASE wire' = <<>> /\ pos' = 0
    BY <2>1, <2>5, CutKeeps
  <2> QED BY <2>2, <2>4, <2>5
<1> QED
  BY <1>1, <1>2, <1>3, <1>4, <1>5, <1>6, <1>7, <1>8, <1>9, <1>10, <1>11, <1>12
  DEF Next, Threads

LEMMA StreamInvStep == StreamInv /\ [Next]_vars => StreamInv'
<1> SUFFICES ASSUME StreamInv, [Next]_vars PROVE StreamInv'
  OBVIOUS
<1>1. closed' \in BOOLEAN /\ conn' \in BOOLEAN
  BY FlagsStep DEF StreamInv
<1>2. CASE Restart
  <2>1. /\ restarts' = restarts + 1 /\ restarts \in Nat
        /\ pc' = [worker |-> "gone", canceller |-> "gone"]
    BY <1>2 DEF Restart, StreamInv
  <2> QED BY <1>1, <2>1 DEF StreamInv, Threads, Places
<1>3. CASE ~Restart
  <2>1. /\ pc' \in [Threads -> Places] /\ restarts' = restarts
        /\ pc.canceller = "gone" => pc'.canceller = "gone"
    BY <1>3, ThreadsStep DEF StreamInv
  <2>2. restarts = 0 => Core'
    BY <1>3, CoreStep DEF StreamInv
  <2> QED BY <1>1, <2>1, <2>2 DEF StreamInv
<1> QED BY <1>2, <1>3

LEMMA StreamInvHolds == Spec => []StreamInv
  BY StreamInvInit, StreamInvStep, PTL DEF Spec

-----------------------------------------------------------------------------
LEMMA ShownHasNoHole == StreamInv => NoHole
<1> SUFFICES ASSUME StreamInv, restarts = 0,
                    NEW i \in 1..(Len(lines) - 1), lines[i] > 0, lines[i + 1] > lines[i] + 1
             PROVE  lines[i + 1] <= events[1]
  BY DEF NoHole
<1>1. lines \in Seq(Int) /\ wire \in Seq(Int) /\ Chained
  BY DEF StreamInv, Core, LinesOK, WireOK
<1>2. Len(lines) \in Nat /\ Len(wire) \in Nat /\ Total = Len(lines) + Len(wire)
  BY <1>1 DEF Total
<1>3. i \in 1..(Total - 1) /\ i <= Len(lines) /\ i + 1 <= Len(lines)
  BY <1>2
<1>4. Told(i) = lines[i] /\ Told(i + 1) = lines[i + 1]
  BY <1>3 DEF Told
<1> QED BY <1>1, <1>3, <1>4 DEF Chained

LEMMA EndIsTold == StreamInv => EndShowsAll
<1> DEFINE n == Least(Shown - 1, Len(events))
           shown == SubSeq(lines, Len(lines) - n, Len(lines) - 1)
<1> SUFFICES ASSUME StreamInv, lines # <<>>, lines[Len(lines)] = End, pc.canceller = "idle"
             PROVE  Len(lines) > n /\ shown = LastOf(n, events)
  BY DEF EndShowsAll
<1>1. restarts = 0 /\ Core
  BY DEF StreamInv
<1>2. /\ \A j \in 0..(Len(events) - 1) :
           j < Shown - 1 => Len(lines) - 1 - j >= 1 /\ lines[Len(lines) - 1 - j] = seq - j
      /\ lines \in Seq(Int) /\ Len(lines) \in Nat /\ Len(lines) >= 1
      /\ events \in Seq(Int) /\ Len(events) \in Nat /\ seq \in Nat
      /\ \A i \in 1..Len(events) : events[i] = seq - Len(events) + i
  BY <1>1 DEF Core, EndTold, LinesOK, LogOK
<1>3. n \in Nat /\ n <= Len(events) /\ n <= Shown - 1 /\ Least(n, Len(events)) = n
  BY <1>2, SizesAssumption DEF Least
<1> HIDE DEF n
<1>4. Len(lines) > n
  <2>1. CASE n = 0
    BY <1>2, <2>1
  <2>2. CASE n > 0
    <3>1. n - 1 \in 0..(Len(events) - 1) /\ n - 1 < Shown - 1
      BY <1>2, <1>3, <2>2, SizesAssumption
    <3>2. Len(lines) - 1 - (n - 1) >= 1
      BY <3>1, <1>2
    <3> QED BY <3>2, <1>2, <1>3
  <2> QED BY <1>3, <2>1, <2>2
<1>5. /\ shown \in Seq(Int) /\ Len(shown) = n
      /\ \A i \in 1..n : shown[i] = lines[Len(lines) - n + i - 1]
  <2>1. \A i \in (Len(lines) - n)..(Len(lines) - 1) : lines[i] \in Int
    BY <1>2, <1>3, <1>4, ElementOfSeq
  <2>2. Len(lines) - n \in Int /\ Len(lines) - 1 \in Int
        /\ (Len(lines) - 1) - (Len(lines) - n) + 1 = n
    BY <1>2, <1>3
  <2> HIDE DEF shown
  <2>3. /\ SubSeq(lines, Len(lines) - n, Len(lines) - 1) \in Seq(Int)
        /\ Len(SubSeq(lines, Len(lines) - n, Len(lines) - 1))
             = IF Len(lines) - n <= Len(lines) - 1
               THEN (Len(lines) - 1) - (Len(lines) - n) + 1 ELSE 0
        /\ \A i \in 1..((Len(lines) - 1) - (Len(lines) - n) + 1) :
             SubSeq(lines, Len(lines) - n, Len(lines) - 1)[i] = lines[(Len(lines) - n) + i - 1]
    BY <2>1, <2>2, SubSeqProperties, SMTT(30)
  <2> QED BY <2>2, <2>3, <1>2, <1>3 DEF shown
<1>6. /\ LastOf(n, events) \in Seq(Int) /\ Len(LastOf(n, events)) = n
      /\ \A i \in 1..n : LastOf(n, events)[i] = events[Len(events) - n + i]
  <2>1. /\ LastOf(n, events) \in Seq(Int) /\ Len(LastOf(n, events)) = Least(n, Len(events))
        /\ \A i \in 1..Least(n, Len(events)) :
             LastOf(n, events)[i] = events[Len(events) - Least(n, Len(events)) + i]
    BY <1>2, <1>3, LastOfIs
  <2> QED BY <2>1, <1>3
<1> HIDE DEF shown
<1>7. ASSUME NEW i \in 1..n PROVE shown[i] = LastOf(n, events)[i]
  <2>1. n - i \in 0..(Len(events) - 1) /\ n - i < Shown - 1
        /\ Len(lines) - 1 - (n - i) = Len(lines) - n + i - 1
    BY <1>2, <1>3, SizesAssumption
  <2>2. lines[Len(lines) - 1 - (n - i)] = seq - (n - i)
    BY <2>1, <1>2
  <2>3. Len(events) - n + i \in 1..Len(events)
        /\ seq - Len(events) + (Len(events) - n + i) = seq - (n - i)
    BY <1>2, <1>3
  <2>4. events[Len(events) - n + i] = seq - (n - i)
    BY <2>3, <1>2
  <2> QED BY <2>1, <2>2, <2>4, <1>5, <1>6
<1>8. shown = LastOf(n, events)
  BY <1>5, <1>6, <1>7, SeqEqual
<1> QED BY <1>4, <1>8

(* Until the console restarts, two lines in a row are two events in a row, *)
(* unless those between had left the queue: no reconnection, late poll or  *)
(* overrun of the queue makes a hole, for any sizes (events_since, dock).  *)
THEOREM ShowsNoHole == Spec => []NoHole
  BY StreamInvHolds, ShownHasNoHole, PTL

(* Above an end, the dock shows the last events of the run, as many as it  *)
(* and the queue keep, for an action nobody cancelled (the generator of    *)
(* /api/stream, close, dock.js).                                           *)
THEOREM EndIsLast == Spec => []EndShowsAll
  BY StreamInvHolds, EndIsTold, PTL
=============================================================================
