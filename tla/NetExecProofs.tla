--------------------------- MODULE NetExecProofs ----------------------------
(* Proofs about NetExec, for nets of any size, any number of predictions   *)
(* and both run types.                                                     *)
EXTENDS NetExec, FiniteSetTheorems, TLAPS

-----------------------------------------------------------------------------
(* The inductive invariant.                                                *)

\* The walk of the host.  In every round it goes through the executers in
\* order, without gap, also where a round is two partial calls.
WalkInv ==
  /\ call = "prediction" => ~partly /\ ran = 1..(hpos - 1)
  /\ call \in {"stop", "stopped", "start"} => partly /\ _suspended_point \in Nodes
  /\ call = "stop" => ran = 1..(hpos - 1) /\ hpos <= _suspended_point
  /\ call = "stopped" => ran = 1..(_suspended_point - 1)
  /\ call = "start" => ran = 1..(hpos - 1)
  /\ call = "none" => IF round = 0 THEN ran = {} ELSE ran = 1..N
  /\ call # "none" => round # 0
  \* the two cached points are one
  /\ _start_point \in {0, _suspended_point}
  /\ call \in {"none", "prediction", "start"} => _start_point = _suspended_point
  /\ call \in {"stop", "stopped"} /\ _start_point = 0 => asked = _suspended_point

\* The kernels in the lanes are of this round, in the order of the walk.
StreamInv ==
  \A l \in Lanes : \A i \in 1..Len(stream[l]) :
    /\ stream[l][i].round = round
    /\ stream[l][i].node \in ran
    /\ lane[stream[l][i].node] = l
    /\ ~IsInput(stream[l][i].node)
    /\ \A j \in 1..(i - 1) : stream[l][j].node < stream[l][i].node

InStream(n) == \E i \in 1..Len(stream[lane[n]]) : stream[lane[n]][i].node = n

\* What the host has been through and the device has finished is written.
ContentInv ==
  \A a \in arcs : round = 0 \/ IsInput(a[1]) \/ (a[1] \in ran /\ ~InStream(a[1]))
                    => content[a] = round

\* Partial calls are made on nets with one lane.
Tidy == partly => \A m, n \in Nodes : lane[m] = lane[n]

\* The event of an output is behind the kernel that writes it.
EventInv ==
  Tidy => \A l \in Lanes : \A i \in 1..Len(stream[l]) :
            \A a \in OutArcs(stream[l][i].node) :
              event[a].lane = l /\ event[a].count = fin[l] + i

\* The producers of a kernel have finished or are before it in its lane.
SettledInv ==
  Tidy => \A l \in Lanes : \A i \in 1..Len(stream[l]) :
            \A a \in InArcs(stream[l][i].node) :
              /\ a[1] \in ran
              /\ InStream(a[1]) => \E j \in 1..(i - 1) : stream[l][j].node = a[1]

\* Somebody is still going to wait for the last kernel of every lane.
AwaitedInv ==
  ~partly => /\ call = "none" => DeviceIdle
             /\ \A l \in Lanes : stream[l] # <<>> =>
                  \E a \in OutArcs(stream[l][Len(stream[l])].node) : a[2] >= hpos

NetInv == /\ NetTypeOK /\ WalkInv /\ StreamInv /\ ContentInv
          /\ EventInv /\ SettledInv /\ AwaitedInv

\* What is known of one kernel in a lane.
LEMMA SlotFacts ==
  ASSUME StreamInv, NEW l \in Lanes, NEW i \in 1..Len(stream[l])
  PROVE  /\ stream[l][i].round = round
         /\ stream[l][i].node \in ran
         /\ lane[stream[l][i].node] = l
         /\ ~IsInput(stream[l][i].node)
         /\ \A j \in 1..(i - 1) : stream[l][j].node < stream[l][i].node
         /\ InStream(stream[l][i].node)
<1>1. /\ stream[l][i].round = round
      /\ stream[l][i].node \in ran
      /\ lane[stream[l][i].node] = l
      /\ ~IsInput(stream[l][i].node)
      /\ \A j \in 1..(i - 1) : stream[l][j].node < stream[l][i].node
  BY DEF StreamInv
<1>2. InStream(stream[l][i].node)
  BY <1>1 DEF InStream
<1> QED
  BY <1>1, <1>2

LEMMA NetInvInit == NetInit => NetInv
<1> SUFFICES ASSUME NetInit PROVE NetInv
  OBVIOUS
<1> DEFINE ins == {n \in Nodes : IsInput(n)}
<1>1. arcs \subseteq Arcs
  BY GraphsAssumption DEF NetInit, Arcs
<1>2. lane \in [Nodes -> Lanes]
  <2>1. ins \in SUBSET Nodes /\ IsFiniteSet(Nodes) /\ Cardinality(Nodes) = N
    BY NetAssumption, FS_Interval DEF Nodes
  <2>2. Cardinality(ins) \in Nat /\ Cardinality(ins) <= N
    BY <2>1, FS_Subset, FS_CardinalityType
  <2>3. 0..(Cardinality(ins) - 1) \subseteq Lanes
    BY <2>2, NetAssumption DEF Lanes
  <2>4. lane \in [Nodes -> 0..(Cardinality(ins) - 1)]
    BY DEF NetInit
  <2> HIDE DEF ins
  <2> QED
    BY <2>3, <2>4
<1>3. need_sync \in [Nodes -> BOOLEAN]
  BY Zenon DEF NetInit
<1>4. IsPlan
  <2>1. ASSUME NEW n \in Nodes
        PROVE need_sync[n] <=> \E a, b \in InArcs(n) : lane[a[1]] # lane[b[1]]
    BY Zenon DEF NetInit
  <2>2. \A n \in Nodes : ~IsInput(n) => \E a \in InArcs(n) : lane[n] = lane[a[1]]
    BY DEF NetInit
  <2> QED
    BY <1>2, <1>3, <2>1, <2>2 DEF IsPlan
<1>5. partly \in BOOLEAN
  BY Zenon DEF NetInit
<1>6. NetTypeOK
  <2>1. /\ round \in 0..MaxRound /\ call \in {"none"} /\ hpos \in 1..(N + 1)
        /\ asked \in Nodes /\ _suspended_point \in 0..N /\ _start_point \in 0..N
        /\ ran \subseteq Nodes
    BY NetAssumption DEF NetInit, Nodes
  <2>2. stream \in [Lanes -> Seq(Kernel)] /\ fin \in [Lanes -> Nat]
    BY DEF NetInit
  <2>3. event \in [Arcs -> Event] /\ content \in [Arcs -> 0..MaxRound]
    <3>1. [lane |-> 0, count |-> 0] \in Event
      BY NetAssumption DEF Event, Lanes
    <3> QED
      BY <3>1, NetAssumption DEF NetInit
  <2> QED
    BY <1>1, <1>4, <1>5, <2>1, <2>2, <2>3 DEF NetTypeOK
<1>7. WalkInv
  BY DEF NetInit, WalkInv
<1>8. \A l \in Lanes : stream[l] = <<>> /\ Len(stream[l]) = 0
  BY DEF NetInit
<1>9. StreamInv /\ EventInv /\ SettledInv /\ AwaitedInv
  BY <1>8 DEF NetInit, StreamInv, EventInv, SettledInv, AwaitedInv, DeviceIdle
<1>10. ContentInv
  BY <1>1 DEF NetInit, ContentInv
<1> QED
  BY <1>6, <1>7, <1>9, <1>10 DEF NetInv

-----------------------------------------------------------------------------
(* The host goes through an executer.                                      *)

\* What the loops of prediction() and of the partial calls have in common.
Launches(n) ==
  /\ n \in Nodes /\ hpos = n /\ hpos' = n + 1
  /\ ran = 1..(n - 1) /\ ran' = ran \cup {n}
  /\ ~partly => (WaitsFor(n) => \A a \in InArcs(n) : Done(event[a]))
  /\ stream' = IF IsInput(n) \/ IsOutput(n) THEN stream ELSE Enqueued(n)
  /\ event' \in [Arcs -> Event]
  /\ \A a \in OutArcs(n) : event'[a] = Recorded(n, stream')
  /\ Tidy => DeviceIdle \/ \A a \in arcs \ OutArcs(n) : event'[a] = event[a]
  /\ UNCHANGED <<arcs, lane, need_sync, partly, round, call, asked,
                 _suspended_point, _start_point, fin, content>>

\* The kernels in the lanes: the old ones, and at most one new one.
SlotsKept ==
  \A l \in Lanes : \A i \in 1..Len(stream[l]) :
    i \in 1..Len(stream'[l]) /\ stream'[l][i] = stream[l][i]

SlotsNew(n) ==
  /\ \A l \in Lanes : \A i \in 1..Len(stream'[l]) :
       i \notin 1..Len(stream[l]) =>
         /\ ~IsInput(n) /\ ~IsOutput(n) /\ l = lane[n]
         /\ i = Len(stream[l]) + 1 /\ i = Len(stream'[l])
         /\ stream'[l][i] = [node |-> n, round |-> round]
  /\ ~IsInput(n) /\ ~IsOutput(n) =>
       /\ Len(stream'[lane[n]]) = Len(stream[lane[n]]) + 1
       /\ stream'[lane[n]][Len(stream[lane[n]]) + 1] = [node |-> n, round |-> round]

LEMMA Slots ==
  ASSUME NetTypeOK, NEW n, Launches(n)
  PROVE  stream' \in [Lanes -> Seq(Kernel)] /\ SlotsKept /\ SlotsNew(n)
<1> USE DEF SlotsKept, SlotsNew
<1>1. /\ n \in Nodes /\ lane[n] \in Lanes /\ round \in Nat
      /\ stream \in [Lanes -> Seq(Kernel)]
  BY NetAssumption DEF Launches, NetTypeOK, IsPlan
<1> DEFINE k == [node |-> n, round |-> round]
<1>2. k \in Kernel
  BY <1>1 DEF Kernel
<1>3. CASE IsInput(n) \/ IsOutput(n)
  BY <1>1, <1>3 DEF Launches
<1>4. CASE ~IsInput(n) /\ ~IsOutput(n)
  <2>1. stream' = [stream EXCEPT ![lane[n]] = Append(stream[lane[n]], k)]
    BY <1>1, <1>4 DEF Launches, Enqueued
  <2> HIDE DEF k
  <2>2. /\ Append(stream[lane[n]], k) \in Seq(Kernel)
        /\ Len(Append(stream[lane[n]], k)) = Len(stream[lane[n]]) + 1
        /\ Append(stream[lane[n]], k)[Len(stream[lane[n]]) + 1] = k
        /\ \A i \in 1..Len(stream[lane[n]]) :
             Append(stream[lane[n]], k)[i] = stream[lane[n]][i]
        /\ Len(stream[lane[n]]) \in Nat
    BY <1>1, <1>2
  <2>3. /\ stream' \in [Lanes -> Seq(Kernel)]
        /\ stream'[lane[n]] = Append(stream[lane[n]], k)
        /\ \A l \in Lanes : l # lane[n] => stream'[l] = stream[l]
    BY <1>1, <2>1, <2>2
  <2>4. /\ Len(stream'[lane[n]]) = Len(stream[lane[n]]) + 1
        /\ stream'[lane[n]][Len(stream[lane[n]]) + 1] = k
        /\ \A i \in 1..Len(stream[lane[n]]) :
             i \in 1..Len(stream'[lane[n]]) /\ stream'[lane[n]][i] = stream[lane[n]][i]
    BY <2>2, <2>3
  <2>5. \A l \in Lanes : \A i \in 1..Len(stream[l]) :
          i \in 1..Len(stream'[l]) /\ stream'[l][i] = stream[l][i]
    BY <2>3, <2>4
  <2>6. ASSUME NEW l \in Lanes, NEW i \in 1..Len(stream'[l]), i \notin 1..Len(stream[l])
        PROVE  /\ l = lane[n] /\ i = Len(stream[l]) + 1 /\ i = Len(stream'[l])
               /\ stream'[l][i] = k
    <3>1. l = lane[n]
      BY <2>3, <2>6
    <3>2. i \in 1..(Len(stream[l]) + 1)
      BY <2>4, <3>1
    <3>3. i = Len(stream[l]) + 1
      BY <2>2, <2>6, <3>1, <3>2
    <3> QED
      BY <2>4, <3>1, <3>3
  <2> QED
    BY <1>4, <2>3, <2>4, <2>5, <2>6 DEF k
<1> QED
  BY <1>3, <1>4

\* Arcs lead forward, and stay.
LEMMA ArcFacts ==
  ASSUME NetTypeOK
  PROVE  /\ \A a \in arcs : a \in Arcs /\ a[1] \in Nodes /\ a[2] \in Nodes /\ a[1] < a[2]
         /\ \A n : InArcs(n) \subseteq arcs /\ OutArcs(n) \subseteq arcs
BY DEF NetTypeOK, Arcs, InArcs, OutArcs

LEMMA SamePlan ==
  ASSUME IsPlan, UNCHANGED <<arcs, lane, need_sync>>
  PROVE  IsPlan'
<1>1. \A n : InArcs(n)' = InArcs(n)
  BY DEF InArcs
<1>2. /\ lane' \in [Nodes -> Lanes] /\ need_sync' \in [Nodes -> BOOLEAN]
  BY DEF IsPlan
<1>3. \A n \in Nodes : ~IsInput(n)' => \E a \in InArcs(n)' : lane'[n] = lane'[a[1]]
  BY <1>1 DEF IsPlan, IsInput
<1>4. \A n \in Nodes :
        need_sync'[n] <=> \E a, b \in InArcs(n)' : lane'[a[1]] # lane'[b[1]]
  BY <1>1 DEF IsPlan
<1> QED
  BY <1>2, <1>3, <1>4 DEF IsPlan

LEMMA LaunchStreamInv ==
  ASSUME NetInv, NEW n, Launches(n)
  PROVE  StreamInv'
<1>0. /\ NetTypeOK /\ StreamInv
      /\ n \in Nodes /\ ran = 1..(n - 1) /\ ran' = ran \cup {n}
      /\ UNCHANGED <<arcs, lane, round>>
  BY DEF NetInv, Launches
<1>s. stream' \in [Lanes -> Seq(Kernel)] /\ SlotsKept /\ SlotsNew(n)
  BY <1>0, Slots
<1>1. SUFFICES ASSUME NEW l \in Lanes, NEW i \in 1..Len(stream'[l])
      PROVE /\ stream'[l][i].round = round
            /\ stream'[l][i].node \in ran'
            /\ lane[stream'[l][i].node] = l
            /\ ~IsInput(stream'[l][i].node)
            /\ \A j \in 1..(i - 1) : stream'[l][j].node < stream'[l][i].node
  BY <1>0 DEF StreamInv, IsInput, InArcs
<1>2. Len(stream[l]) \in Nat
  BY <1>0 DEF NetTypeOK
<1>3. CASE i \in 1..Len(stream[l])
  <2>1. \A j \in 1..i : stream'[l][j] = stream[l][j]
    BY <1>s, <1>0, <1>2, <1>3 DEF SlotsKept, SlotsNew
  <2>2. /\ stream[l][i].round = round /\ stream[l][i].node \in ran
        /\ lane[stream[l][i].node] = l /\ ~IsInput(stream[l][i].node)
        /\ \A j \in 1..(i - 1) : stream[l][j].node < stream[l][i].node
    BY <1>0, <1>3, SlotFacts
  <2>3. stream'[l][i] = stream[l][i] /\ \A j \in 1..(i - 1) : stream'[l][j] = stream[l][j]
    BY <1>2, <1>3, <2>1
  <2> QED
    BY <1>0, <2>2, <2>3
<1>4. CASE i \notin 1..Len(stream[l])
  <2>1. /\ ~IsInput(n) /\ ~IsOutput(n) /\ l = lane[n] /\ i = Len(stream[l]) + 1
        /\ stream'[l][i] = [node |-> n, round |-> round]
        /\ \A j \in 1..Len(stream[l]) : stream'[l][j] = stream[l][j]
    BY <1>s, <1>0, <1>4 DEF SlotsKept, SlotsNew
  <2>2. stream'[l][i].node = n /\ stream'[l][i].round = round
    BY <2>1
  <2>3. ASSUME NEW j \in 1..(i - 1) PROVE stream'[l][j].node < n
    <3>1. j \in 1..Len(stream[l])
      BY <1>2, <2>1
    <3>2. stream[l][j].node \in ran
      BY <1>0, <3>1, SlotFacts
    <3>3. stream'[l][j] = stream[l][j]
      BY <2>1, <3>1
    <3>4. n \in Int /\ ran = 1..(n - 1)
      BY <1>0 DEF Nodes
    <3>5. stream[l][j].node < n
      BY <3>2, <3>4
    <3> QED
      BY <3>3, <3>5
  <2> QED
    BY <1>0, <2>1, <2>2, <2>3
<1> QED
  BY <1>3, <1>4

\* Which executers have a kernel in the lanes.
LEMMA LaunchInStream ==
  ASSUME NetInv, NEW n, Launches(n), NEW m \in Nodes
  PROVE  InStream(m)' <=> InStream(m) \/ (m = n /\ ~IsInput(n) /\ ~IsOutput(n))
<1>0. NetTypeOK /\ lane' = lane /\ lane[m] \in Lanes
  BY DEF NetInv, Launches, NetTypeOK, IsPlan
<1>s. stream' \in [Lanes -> Seq(Kernel)] /\ SlotsKept /\ SlotsNew(n)
  BY <1>0, Slots
<1>1. ASSUME InStream(m) PROVE InStream(m)'
  <2>1. PICK i \in 1..Len(stream[lane[m]]) : stream[lane[m]][i].node = m
    BY <1>1 DEF InStream
  <2>2. i \in 1..Len(stream'[lane[m]]) /\ stream'[lane[m]][i].node = m
    BY <1>s, <1>0, <2>1 DEF SlotsKept, SlotsNew
  <2> QED
    BY <1>0, <2>2 DEF InStream
<1>2. ASSUME m = n, ~IsInput(n), ~IsOutput(n) PROVE InStream(m)'
  <2>1. /\ Len(stream'[lane[n]]) = Len(stream[lane[n]]) + 1
        /\ stream'[lane[n]][Len(stream[lane[n]]) + 1].node = n
    BY <1>s, <1>0, <1>2 DEF SlotsKept, SlotsNew
  <2>2. Len(stream[lane[n]]) \in Nat
    BY <1>0, <1>2 DEF NetTypeOK
  <2> QED
    BY <1>0, <1>2, <2>1, <2>2 DEF InStream
<1>3. ASSUME InStream(m)' PROVE InStream(m) \/ (m = n /\ ~IsInput(n) /\ ~IsOutput(n))
  <2>1. PICK i \in 1..Len(stream'[lane[m]]) : stream'[lane[m]][i].node = m
    BY <1>0, <1>3 DEF InStream
  <2>2. CASE i \in 1..Len(stream[lane[m]])
    <3>1. stream[lane[m]][i].node = m
      BY <1>s, <1>0, <2>1, <2>2 DEF SlotsKept, SlotsNew
    <3> QED
      BY <2>2, <3>1 DEF InStream
  <2>3. CASE i \notin 1..Len(stream[lane[m]])
    <3>1. /\ ~IsInput(n) /\ ~IsOutput(n)
          /\ stream'[lane[m]][i] = [node |-> n, round |-> round]
      BY <1>s, <1>0, <2>1, <2>3 DEF SlotsKept, SlotsNew
    <3> QED
      BY <2>1, <3>1
  <2> QED
    BY <2>2, <2>3
<1> QED
  BY <1>1, <1>2, <1>3

LEMMA LaunchContentInv ==
  ASSUME NetInv, NEW n, Launches(n)
  PROVE  ContentInv'
<1>0. /\ NetTypeOK /\ ContentInv /\ ran' = ran \cup {n}
      /\ UNCHANGED <<arcs, lane, round, content>>
  BY DEF NetInv, Launches
<1>1. SUFFICES ASSUME NEW a \in arcs,
                      round = 0 \/ IsInput(a[1]) \/ (a[1] \in ran' /\ ~InStream(a[1])')
               PROVE content[a] = round
  BY <1>0 DEF ContentInv, IsInput, InArcs, InStream
<1>2. a[1] \in Nodes /\ ~IsOutput(a[1])
  BY <1>0, ArcFacts DEF IsOutput, OutArcs
<1>3. InStream(a[1])' <=> InStream(a[1]) \/ (a[1] = n /\ ~IsInput(n) /\ ~IsOutput(n))
  BY <1>2, LaunchInStream
<1> QED
  BY <1>0, <1>1, <1>2, <1>3 DEF ContentInv

LEMMA LaunchEventInv ==
  ASSUME NetInv, NEW n, Launches(n)
  PROVE  EventInv'
<1>0. /\ NetTypeOK /\ StreamInv /\ EventInv /\ n \in Nodes /\ ran = 1..(n - 1)
      /\ \A a \in OutArcs(n) : event'[a] = Recorded(n, stream')
      /\ Tidy => DeviceIdle \/ \A a \in arcs \ OutArcs(n) : event'[a] = event[a]
      /\ UNCHANGED <<arcs, lane, partly, fin>>
  BY DEF NetInv, Launches
<1>s. stream' \in [Lanes -> Seq(Kernel)] /\ SlotsKept /\ SlotsNew(n)
  BY <1>0, Slots
<1>1. Tidy' <=> Tidy
  BY <1>0 DEF Tidy
<1>2. SUFFICES ASSUME Tidy, NEW l \in Lanes, NEW i \in 1..Len(stream'[l]),
                      NEW a \in OutArcs(stream'[l][i].node)
               PROVE event'[a].lane = l /\ event'[a].count = fin[l] + i
  BY <1>0, <1>1 DEF EventInv, OutArcs
<1>3. Len(stream[l]) \in Nat
  BY <1>0 DEF NetTypeOK
<1>4. CASE i \in 1..Len(stream[l])
  <2>1. stream'[l][i] = stream[l][i]
    BY <1>s, <1>0, <1>4 DEF SlotsKept, SlotsNew
  <2>2. stream[l][i].node \in ran
    BY <1>0, <1>4 DEF StreamInv
  <2>3. stream[l][i].node # n
    BY <1>0, <2>2 DEF Nodes
  <2>4. a \in arcs \ OutArcs(n)
    BY <2>1, <2>3 DEF OutArcs
  <2>5. ~DeviceIdle
    BY <1>3, <1>4 DEF DeviceIdle
  <2>6. event'[a] = event[a]
    BY <1>0, <1>2, <2>4, <2>5
  <2> QED
    BY <1>0, <1>2, <1>4, <2>1, <2>6 DEF EventInv
<1>5. CASE i \notin 1..Len(stream[l])
  <2>1. /\ ~IsInput(n) /\ ~IsOutput(n) /\ l = lane[n] /\ i = Len(stream[l]) + 1
        /\ stream'[l][i].node = n /\ Len(stream'[l]) = Len(stream[l]) + 1
    BY <1>s, <1>0, <1>5 DEF SlotsKept, SlotsNew
  <2>2. event'[a] = [lane |-> l, count |-> fin[l] + i]
    BY <1>0, <2>1 DEF Recorded
  <2> QED
    BY <2>2
<1> QED
  BY <1>4, <1>5

\* An input that is neither finished nor in the same lane is waited for.
LEMMA ProducerBefore ==
  ASSUME NetInv, NEW n, Launches(n), Tidy, ~IsInput(n), NEW a \in InArcs(n),
         InStream(a[1])
  PROVE  lane[a[1]] = lane[n]
<1>0. /\ NetTypeOK /\ EventInv /\ n \in Nodes /\ a \in arcs /\ a[1] \in Nodes
      /\ a[2] = n /\ IsPlan
  BY ArcFacts DEF NetInv, Launches, NetTypeOK, InArcs
<1>1. SUFFICES ASSUME lane[a[1]] # lane[n] PROVE FALSE
  OBVIOUS
<1>2. ~partly
  BY <1>0, <1>1 DEF Tidy
<1>3. PICK b \in InArcs(n) : lane[n] = lane[b[1]]
  BY <1>0 DEF IsPlan
<1>4. need_sync[n]
  BY <1>0, <1>1, <1>3 DEF IsPlan
<1>5. Done(event[a])
  BY <1>2, <1>4 DEF Launches, WaitsFor
<1>6. PICK i \in 1..Len(stream[lane[a[1]]]) : stream[lane[a[1]]][i].node = a[1]
  BY DEF InStream
<1>7. lane[a[1]] \in Lanes /\ Len(stream[lane[a[1]]]) \in Nat /\ fin[lane[a[1]]] \in Nat
  BY <1>0 DEF NetTypeOK, IsPlan
<1>8. event[a].lane = lane[a[1]] /\ event[a].count = fin[lane[a[1]]] + i
  BY <1>0, <1>6, <1>7 DEF EventInv, OutArcs
<1> QED
  BY <1>5, <1>6, <1>7, <1>8 DEF Done

LEMMA LaunchSettledInv ==
  ASSUME NetInv, NEW n, Launches(n)
  PROVE  SettledInv'
<1>0. /\ NetTypeOK /\ StreamInv /\ SettledInv /\ n \in Nodes
      /\ ran = 1..(n - 1) /\ ran' = ran \cup {n}
      /\ UNCHANGED <<arcs, lane, partly>>
  BY DEF NetInv, Launches
<1>s. stream' \in [Lanes -> Seq(Kernel)] /\ SlotsKept /\ SlotsNew(n)
  BY <1>0, Slots
<1>1. Tidy' <=> Tidy
  BY <1>0 DEF Tidy
<1>2. SUFFICES ASSUME Tidy, NEW l \in Lanes, NEW i \in 1..Len(stream'[l]),
                      NEW a \in InArcs(stream'[l][i].node)
               PROVE /\ a[1] \in ran'
                     /\ InStream(a[1])' => \E j \in 1..(i - 1) : stream'[l][j].node = a[1]
  BY <1>0, <1>1 DEF SettledInv, InArcs, InStream
<1>3. Len(stream[l]) \in Nat /\ a \in arcs /\ a[1] \in Nodes /\ a[1] < a[2]
  BY <1>0, ArcFacts DEF NetTypeOK
<1>4. CASE i \in 1..Len(stream[l])
  <2>1. \A j \in 1..i : stream'[l][j] = stream[l][j]
    BY <1>s, <1>0, <1>3, <1>4 DEF SlotsKept, SlotsNew
  <2>2. /\ a[1] \in ran
        /\ InStream(a[1]) => \E j \in 1..(i - 1) : stream[l][j].node = a[1]
    BY <1>0, <1>2, <1>4, <2>1 DEF SettledInv
  <2>3. a[1] # n
    BY <1>0, <2>2 DEF Nodes
  <2>4. InStream(a[1])' => InStream(a[1])
    BY <1>3, <2>3, LaunchInStream
  <2> QED
    BY <1>0, <2>1, <2>2, <2>4
<1>5. CASE i \notin 1..Len(stream[l])
  <2>1. /\ ~IsInput(n) /\ ~IsOutput(n) /\ l = lane[n] /\ i = Len(stream[l]) + 1
        /\ stream'[l][i].node = n
        /\ \A j \in 1..Len(stream[l]) : stream'[l][j] = stream[l][j]
    BY <1>s, <1>0, <1>5 DEF SlotsKept, SlotsNew
  <2>2. a \in InArcs(n) /\ a[2] = n
    BY <2>1 DEF InArcs
  <2>3. a[1] \in ran /\ a[1] # n
    BY <1>0, <1>3, <2>2 DEF Nodes
  <2>4. ASSUME InStream(a[1])' PROVE \E j \in 1..(i - 1) : stream'[l][j].node = a[1]
    <3>1. InStream(a[1])
      BY <1>3, <2>3, <2>4, LaunchInStream
    <3>2. lane[a[1]] = l
      BY <1>2, <2>1, <2>2, <3>1, ProducerBefore
    <3>3. PICK j \in 1..Len(stream[l]) : stream[l][j].node = a[1]
      BY <3>1, <3>2 DEF InStream
    <3> QED
      BY <1>3, <2>1, <3>3
  <2> QED
    BY <1>0, <2>3, <2>4
<1> QED
  BY <1>4, <1>5

LEMMA LaunchAwaitedInv ==
  ASSUME NetInv, NEW n, Launches(n), call # "none"
  PROVE  AwaitedInv'
<1>0. /\ NetTypeOK /\ StreamInv /\ EventInv /\ AwaitedInv /\ n \in Nodes
      /\ hpos = n /\ hpos' = n + 1
      /\ UNCHANGED <<arcs, lane, partly, call>>
  BY DEF NetInv, Launches
<1>s. stream' \in [Lanes -> Seq(Kernel)] /\ SlotsKept /\ SlotsNew(n)
  BY <1>0, Slots
<1>1. SUFFICES ASSUME ~partly, NEW l \in Lanes, stream'[l] # <<>>
               PROVE \E a \in OutArcs(stream'[l][Len(stream'[l])].node) : a[2] >= n + 1
  BY <1>0 DEF AwaitedInv, OutArcs
<1>2. /\ Tidy /\ stream'[l] \in Seq(Kernel) /\ Len(stream'[l]) \in Nat \ {0}
      /\ Len(stream[l]) \in Nat /\ fin[l] \in Nat
  <2>1. stream'[l] \in Seq(Kernel)
    BY <1>s, <1>0 DEF SlotsKept, SlotsNew
  <2> QED
    BY <1>0, <1>1, <2>1 DEF NetTypeOK, Tidy
<1> DEFINE last == Len(stream'[l])
<1>3. CASE last \in 1..Len(stream[l])
  <2>1. last = Len(stream[l]) /\ stream'[l][last] = stream[l][last] /\ stream[l] # <<>>
    <3>1. \A i \in 1..Len(stream[l]) : i \in 1..last
      BY <1>s, <1>0 DEF SlotsKept, SlotsNew
    <3>2. Len(stream[l]) \in 1..Len(stream[l])
      BY <1>2, <1>3
    <3> QED
      BY <1>s, <1>0, <1>2, <1>3, <3>1, <3>2 DEF SlotsKept, SlotsNew
  <2>2. PICK a \in OutArcs(stream[l][last].node) : a[2] >= n
    BY <1>0, <1>1, <2>1 DEF AwaitedInv
  <2>3. a \in arcs /\ a[1] = stream[l][last].node /\ a[1] \in Nodes /\ a[2] \in Nodes
    BY <1>0, <2>2, ArcFacts DEF OutArcs
  <2>4. lane[a[1]] = l /\ InStream(a[1])
    BY <1>0, <1>3, <2>3, SlotFacts
  <2>5. a[2] # n
    <3>1. SUFFICES ASSUME a[2] = n PROVE FALSE
      OBVIOUS
    <3>2. a \in InArcs(n) /\ ~IsInput(n)
      BY <2>3, <3>1 DEF InArcs, IsInput
    <3>3. lane[n] = l
      BY <1>2, <2>4, <3>2, ProducerBefore
    <3>4. CASE IsOutput(n)
      <4>1. Done(event[a])
        BY <1>1, <3>2, <3>4 DEF Launches, WaitsFor
      <4>2. event[a].lane = l /\ event[a].count = fin[l] + last
        BY <1>0, <1>2, <1>3, <2>2 DEF EventInv
      <4> QED
        BY <1>2, <4>1, <4>2 DEF Done
    <3>5. CASE ~IsOutput(n)
      BY <1>s, <1>0, <1>2, <2>1, <3>2, <3>3, <3>5 DEF SlotsKept, SlotsNew
    <3> QED
      BY <3>4, <3>5
  <2>6. a[2] >= n + 1
    BY <1>0, <2>2, <2>3, <2>5 DEF Nodes
  <2> QED
    BY <2>1, <2>2, <2>6
<1>4. CASE last \notin 1..Len(stream[l])
  <2>1. ~IsOutput(n) /\ stream'[l][last].node = n
    BY <1>s, <1>0, <1>2, <1>4 DEF SlotsKept, SlotsNew
  <2>2. PICK a \in OutArcs(n) : TRUE
    BY <2>1 DEF IsOutput
  <2>3. a[1] = n /\ a[1] < a[2] /\ a[1] \in Nodes /\ a[2] \in Nodes
    BY <1>0, <2>2, ArcFacts DEF OutArcs
  <2>4. a[2] >= n + 1
    BY <2>3 DEF Nodes
  <2> QED
    BY <2>1, <2>2, <2>4
<1> QED
  BY <1>3, <1>4

LEMMA LaunchTypeOK ==
  ASSUME NetTypeOK, NEW n, Launches(n)
  PROVE  NetTypeOK'
<1>1. stream' \in [Lanes -> Seq(Kernel)]
  BY Slots
<1>2. hpos' \in 1..(N + 1) /\ ran' \subseteq Nodes
  BY NetAssumption DEF Launches, NetTypeOK, Nodes
<1>3. IsPlan'
  BY SamePlan DEF NetTypeOK, Launches
<1> QED
  BY <1>1, <1>2, <1>3 DEF NetTypeOK, Launches

LEMMA LaunchDataInv ==
  ASSUME NetInv, NEW n, Launches(n), call # "none"
  PROVE  /\ NetTypeOK' /\ StreamInv' /\ ContentInv' /\ EventInv' /\ SettledInv'
         /\ AwaitedInv'
BY LaunchTypeOK, LaunchStreamInv, LaunchContentInv, LaunchEventInv,
   LaunchSettledInv, LaunchAwaitedInv DEF NetInv

\* record_event gives an event, of the stream as it is.
LEMMA RecordedType ==
  ASSUME NetTypeOK, NEW n \in Nodes, NEW s \in [Lanes -> Seq(Kernel)]
  PROVE  Recorded(n, s) \in Event
<1>1. lane[n] \in Lanes /\ fin[lane[n]] \in Nat /\ Len(s[lane[n]]) \in Nat
  BY DEF NetTypeOK, IsPlan
<1> QED
  BY <1>1 DEF Recorded, Event

LEMMA EnqueuedType ==
  ASSUME NetTypeOK, NEW n \in Nodes
  PROVE  Enqueued(n) \in [Lanes -> Seq(Kernel)]
<1>1. [node |-> n, round |-> round] \in Kernel /\ lane[n] \in Lanes
  BY NetAssumption DEF NetTypeOK, IsPlan, Kernel
<1>2. Append(stream[lane[n]], [node |-> n, round |-> round]) \in Seq(Kernel)
  BY <1>1 DEF NetTypeOK
<1> QED
  BY <1>1, <1>2 DEF Enqueued, NetTypeOK

LEMMA ExecuteStep == NetInv /\ Execute => NetInv'
<1> SUFFICES ASSUME NetInv, Execute PROVE NetInv'
  OBVIOUS
<1>0. /\ NetTypeOK /\ WalkInv /\ hpos \in Nodes /\ call = "prediction"
      /\ UNCHANGED <<arcs, lane, need_sync, partly, round, call, asked,
                     _suspended_point, _start_point, fin, content>>
      /\ ran = 1..(hpos - 1) /\ ran' = ran \cup {hpos} /\ hpos' = hpos + 1
  BY NetAssumption DEF Execute, NetInv, NetTypeOK, WalkInv, planVars, pointVars, Nodes
<1>1. stream' \in [Lanes -> Seq(Kernel)]
  BY <1>0, EnqueuedType DEF Execute, NetTypeOK
<1>2. Recorded(hpos, stream') \in Event
  BY <1>0, <1>1, RecordedType
<1>3. event' = [a \in Arcs |-> IF a \in OutArcs(hpos) THEN Recorded(hpos, stream')
                                                      ELSE event[a]]
  BY DEF Execute
<1>4. /\ event' \in [Arcs -> Event]
      /\ \A a \in OutArcs(hpos) : event'[a] = Recorded(hpos, stream')
      /\ \A a \in arcs \ OutArcs(hpos) : event'[a] = event[a]
  <2>1. OutArcs(hpos) \subseteq Arcs /\ arcs \subseteq Arcs
    BY <1>0 DEF NetTypeOK, OutArcs
  <2> QED
    BY <1>0, <1>2, <1>3, <2>1 DEF NetTypeOK
<1>5. Launches(hpos)
  BY <1>0, <1>4 DEF Execute, Launches
<1>6. WalkInv'
  <2>1. ran' = 1..(hpos' - 1)
    BY <1>0 DEF Nodes
  <2> QED
    BY <1>0, <2>1 DEF WalkInv
<1> QED
  BY <1>0, <1>5, <1>6, LaunchDataInv DEF NetInv

LEMMA ExecutePartlyStep == NetInv /\ ExecutePartly => NetInv'
<1> SUFFICES ASSUME NetInv, ExecutePartly PROVE NetInv'
  OBVIOUS
<1> DEFINE waits == RunType = "SYNC" \/ need_sync[hpos]
           own == Recorded(hpos, stream)
<1>0. /\ NetTypeOK /\ WalkInv /\ StreamInv /\ call \in {"stop", "start"} /\ partly
      /\ hpos \in Nat /\ _suspended_point \in Nodes
      /\ hpos <= IF call = "stop" THEN _suspended_point - 1 ELSE N
      /\ UNCHANGED <<arcs, lane, need_sync, partly, round, call, asked,
                     _suspended_point, _start_point, fin, content>>
      /\ ran = 1..(hpos - 1) /\ ran' = ran \cup {hpos} /\ hpos' = hpos + 1
  BY NetAssumption
  DEF ExecutePartly, HostEnd, NetInv, NetTypeOK, WalkInv, planVars, pointVars, Nodes
<1>1. hpos \in Nodes
  BY <1>0, NetAssumption DEF NetTypeOK, Nodes
<1>2. /\ waits /\ ~IsInput(hpos) => Done(own)
      /\ stream' = IF IsInput(hpos) \/ IsOutput(hpos) THEN stream ELSE Enqueued(hpos)
      /\ event' = [a \in Arcs |->
                     IF a \in OutArcs(hpos) THEN Recorded(hpos, stream')
                     ELSE IF waits /\ a \in InArcs(hpos) THEN own ELSE event[a]]
  BY DEF ExecutePartly
<1>3. stream' \in [Lanes -> Seq(Kernel)]
  BY <1>0, <1>1, <1>2, EnqueuedType DEF NetTypeOK
<1>4. Recorded(hpos, stream') \in Event /\ own \in Event
  BY <1>0, <1>1, <1>3, RecordedType DEF NetTypeOK
<1>5. OutArcs(hpos) \subseteq Arcs /\ arcs \subseteq Arcs
  BY <1>0 DEF NetTypeOK, OutArcs
\* Who waits, on the one lane, waits for all of the device.
<1>6. ASSUME Tidy, waits, ~IsInput(hpos) PROVE DeviceIdle
  <2>1. lane[hpos] \in Lanes /\ fin[lane[hpos]] \in Nat /\ Len(stream[lane[hpos]]) \in Nat
    BY <1>0, <1>1 DEF NetTypeOK, IsPlan
  <2>2. Len(stream[lane[hpos]]) = 0
    BY <1>2, <1>6, <2>1 DEF Done, Recorded
  <2>3. ASSUME NEW l \in Lanes, stream[l] # <<>> PROVE FALSE
    <3>1. stream[l] \in Seq(Kernel) /\ Len(stream[l]) \in Nat \ {0} /\ 1 \in 1..Len(stream[l])
      BY <1>0, <2>3 DEF NetTypeOK
    <3>2. stream[l][1] \in Kernel
      BY <3>1
    <3>3. stream[l][1].node \in Nodes /\ lane[stream[l][1].node] = l
      BY <1>0, <3>1, <3>2 DEF Kernel, StreamInv
    <3>4. l = lane[hpos]
      BY <1>0, <1>1, <1>6, <3>3 DEF Tidy
    <3> QED
      BY <2>2, <3>1, <3>4
  <2> QED
    BY <2>3 DEF DeviceIdle
<1> HIDE DEF waits, own
<1>7. /\ event' \in [Arcs -> Event]
      /\ \A a \in OutArcs(hpos) : event'[a] = Recorded(hpos, stream')
      /\ \A a \in arcs \ OutArcs(hpos) :
           event'[a] = event[a] \/ (waits /\ a \in InArcs(hpos))
  BY <1>0, <1>2, <1>4, <1>5 DEF NetTypeOK
<1>8. Tidy => DeviceIdle \/ \A a \in arcs \ OutArcs(hpos) : event'[a] = event[a]
  BY <1>6, <1>7 DEF IsInput
<1>9. Launches(hpos)
  BY <1>0, <1>1, <1>2, <1>7, <1>8 DEF Launches
<1>10. WalkInv'
  <2>1. ran' = 1..(hpos' - 1)
    BY <1>0, <1>1 DEF Nodes
  <2>2. call = "stop" => hpos' <= _suspended_point
    BY <1>0 DEF Nodes
  <2> QED
    BY <1>0, <2>1, <2>2 DEF WalkInv
<1> QED
  BY <1>0, <1>9, <1>10, LaunchDataInv DEF NetInv

-----------------------------------------------------------------------------
(* The device finishes a kernel.                                           *)

\* By how much the kernels of lane m move up when one of lane l finishes.
Up(m, l) == IF m = l THEN 1 ELSE 0

LEMMA Popped ==
  ASSUME NetTypeOK, NEW l \in Lanes, FinishKernel(l)
  PROVE  /\ stream' \in [Lanes -> Seq(Kernel)] /\ fin' \in [Lanes -> Nat]
         /\ 1 \in 1..Len(stream[l]) /\ Head(stream[l]) = stream[l][1]
         /\ \A m \in Lanes :
              /\ Len(stream[m]) \in Nat /\ fin[m] \in Nat
              /\ Len(stream'[m]) = Len(stream[m]) - Up(m, l)
              /\ fin'[m] = fin[m] + Up(m, l)
              /\ \A i \in 1..Len(stream'[m]) :
                   /\ i + Up(m, l) \in 1..Len(stream[m])
                   /\ stream'[m][i] = stream[m][i + Up(m, l)]
<1>1. /\ stream \in [Lanes -> Seq(Kernel)] /\ fin \in [Lanes -> Nat]
      /\ stream[l] # <<>>
      /\ stream' = [stream EXCEPT ![l] = Tail(stream[l])]
      /\ fin' = [fin EXCEPT ![l] = fin[l] + 1]
  BY DEF FinishKernel, NetTypeOK
<1>2. /\ stream[l] \in Seq(Kernel) /\ Len(stream[l]) \in Nat \ {0}
      /\ Head(stream[l]) = stream[l][1]
      /\ Tail(stream[l]) \in Seq(Kernel) /\ Len(Tail(stream[l])) = Len(stream[l]) - 1
      /\ \A i \in 1..Len(Tail(stream[l])) : Tail(stream[l])[i] = stream[l][i + 1]
  BY <1>1
<1>3. /\ stream' \in [Lanes -> Seq(Kernel)] /\ fin' \in [Lanes -> Nat]
      /\ stream'[l] = Tail(stream[l]) /\ fin'[l] = fin[l] + 1
      /\ \A m \in Lanes : m # l => stream'[m] = stream[m] /\ fin'[m] = fin[m]
  BY <1>1, <1>2
<1>4. ASSUME NEW m \in Lanes
      PROVE /\ Len(stream[m]) \in Nat /\ fin[m] \in Nat
            /\ Len(stream'[m]) = Len(stream[m]) - Up(m, l)
            /\ fin'[m] = fin[m] + Up(m, l)
            /\ \A i \in 1..Len(stream'[m]) :
                 /\ i + Up(m, l) \in 1..Len(stream[m])
                 /\ stream'[m][i] = stream[m][i + Up(m, l)]
  <2>0. Len(stream[m]) \in Nat /\ fin[m] \in Nat
    BY <1>1
  <2>1. CASE m = l
    <3>1. Up(m, l) = 1 /\ stream'[m] = Tail(stream[m]) /\ fin'[m] = fin[m] + 1
      BY <1>3, <2>1 DEF Up
    <3>2. /\ Len(stream'[m]) = Len(stream[m]) - 1
          /\ \A i \in 1..Len(stream'[m]) : /\ i + 1 \in 1..Len(stream[m])
                                          /\ stream'[m][i] = stream[m][i + 1]
      BY <1>2, <2>1, <3>1
    <3> QED
      BY <2>0, <3>1, <3>2
  <2>2. CASE m # l
    BY <1>3, <2>0, <2>2 DEF Up
  <2> QED
    BY <2>1, <2>2
<1> QED
  BY <1>2, <1>3, <1>4

LEMMA FinishKernelStep ==
  ASSUME NetInv, NEW l \in Lanes, FinishKernel(l)
  PROVE  NetInv'
<1> DEFINE k == stream[l][1]
<1>0. /\ NetTypeOK /\ WalkInv /\ StreamInv /\ ContentInv /\ EventInv /\ SettledInv
      /\ AwaitedInv
      /\ UNCHANGED <<arcs, lane, need_sync, partly, round, call, hpos, asked,
                     _suspended_point, _start_point, ran, event>>
  BY DEF NetInv, FinishKernel, planVars, pointVars
<1>1. /\ stream' \in [Lanes -> Seq(Kernel)] /\ fin' \in [Lanes -> Nat]
      /\ 1 \in 1..Len(stream[l]) /\ Head(stream[l]) = k
      /\ \A m \in Lanes :
           /\ Len(stream[m]) \in Nat /\ fin[m] \in Nat
           /\ Len(stream'[m]) = Len(stream[m]) - Up(m, l)
           /\ fin'[m] = fin[m] + Up(m, l)
           /\ \A i \in 1..Len(stream'[m]) :
                /\ i + Up(m, l) \in 1..Len(stream[m])
                /\ stream'[m][i] = stream[m][i + Up(m, l)]
  BY <1>0, Popped
<1>2. /\ k.round = round /\ k.node \in ran /\ lane[k.node] = l /\ ~IsInput(k.node)
      /\ k.node \in Nodes /\ \A m \in Lanes : Up(m, l) \in {0, 1}
  <2>1. k \in Kernel
    BY <1>0, <1>1 DEF NetTypeOK
  <2> QED
    BY <1>0, <1>1, <2>1 DEF StreamInv, Kernel, Up
<1>3. /\ \A a \in arcs : content'[a] = IF a[1] = k.node THEN round ELSE content[a]
      /\ content' \in [Arcs -> 0..MaxRound]
  <2>1. content' = [a \in Arcs |-> IF a \in OutArcs(k.node) THEN k.round ELSE content[a]]
    BY <1>1 DEF FinishKernel
  <2> HIDE DEF k
  <2>2. arcs \subseteq Arcs /\ content \in [Arcs -> 0..MaxRound] /\ round \in 0..MaxRound
    BY <1>0 DEF NetTypeOK
  <2> QED
    BY <1>2, <2>1, <2>2 DEF OutArcs
<1>4. NetTypeOK'
  <2>1. IsPlan'
    BY <1>0, SamePlan DEF NetTypeOK
  <2> QED
    BY <1>0, <1>1, <1>3, <2>1 DEF NetTypeOK
<1>5. WalkInv'
  BY <1>0 DEF WalkInv
<1>6. StreamInv'
  <2>1. SUFFICES ASSUME NEW m \in Lanes, NEW i \in 1..Len(stream'[m])
        PROVE /\ stream'[m][i].round = round
              /\ stream'[m][i].node \in ran
              /\ lane[stream'[m][i].node] = m
              /\ ~IsInput(stream'[m][i].node)
              /\ \A j \in 1..(i - 1) : stream'[m][j].node < stream'[m][i].node
    BY <1>0 DEF StreamInv, IsInput, InArcs
  <2> DEFINE u == Up(m, l)
  <2>2. /\ u \in {0, 1} /\ i + u \in 1..Len(stream[m]) /\ stream'[m][i] = stream[m][i + u]
        /\ Len(stream'[m]) \in Nat
    BY <1>1, <1>2
  <2>3. /\ stream[m][i + u].round = round /\ stream[m][i + u].node \in ran
        /\ lane[stream[m][i + u].node] = m /\ ~IsInput(stream[m][i + u].node)
        /\ \A j \in 1..((i + u) - 1) : stream[m][j].node < stream[m][i + u].node
    BY <1>0, <2>2, SlotFacts
  <2>4. ASSUME NEW j \in 1..(i - 1) PROVE stream'[m][j].node < stream'[m][i].node
    <3>1. j \in 1..Len(stream'[m])
      BY <2>2
    <3>2. stream'[m][j] = stream[m][j + u]
      BY <1>1, <3>1
    <3>3. j + u \in 1..((i + u) - 1)
      BY <2>2
    <3>4. stream[m][j + u].node < stream[m][i + u].node
      BY <2>3, <3>3
    <3> QED
      BY <2>2, <3>2, <3>4
  <2> QED
    BY <2>2, <2>3, <2>4
\* The kernel that finished is in no lane any more, all others are where they were.
<1>7. \A m \in Nodes : InStream(m)' <=> InStream(m) /\ m # k.node
  <2> TAKE m \in Nodes
  <2> DEFINE x == lane[m]
  <2>0. x \in Lanes /\ lane'[m] = x
    BY <1>0 DEF NetTypeOK, IsPlan
  <2>1. ASSUME InStream(m)' PROVE InStream(m) /\ m # k.node
    <3>1. PICK i \in 1..Len(stream'[x]) : stream'[x][i].node = m
      BY <2>0, <2>1 DEF InStream
    <3>2. i + Up(x, l) \in 1..Len(stream[x]) /\ stream[x][i + Up(x, l)].node = m
      BY <1>1, <2>0, <3>1
    <3>3. ASSUME m = k.node PROVE FALSE
      <4>1. x = l
        BY <1>2, <3>3
      <4>2. i + 1 \in 1..Len(stream[l]) /\ stream[l][i + 1].node = m /\ 1 \in 1..((i + 1) - 1)
        BY <1>1, <3>1, <3>2, <4>1 DEF Up
      <4>3. stream[l][1].node < stream[l][i + 1].node
        BY <1>0, <4>2 DEF StreamInv
      <4> QED
        BY <3>3, <4>2, <4>3 DEF Nodes
    <3> QED
      BY <3>2, <3>3 DEF InStream
  <2>2. ASSUME InStream(m), m # k.node PROVE InStream(m)'
    <3>1. PICK i \in 1..Len(stream[x]) : stream[x][i].node = m
      BY <2>2 DEF InStream
    <3>2. i - Up(x, l) \in 1..Len(stream'[x])
      <4>1. CASE x = l
        <5>1. i # 1
          BY <2>2, <3>1, <4>1
        <5> QED
          BY <1>1, <2>0, <3>1, <4>1, <5>1 DEF Up
      <4>2. CASE x # l
        BY <1>1, <2>0, <3>1, <4>2 DEF Up
      <4> QED
        BY <4>1, <4>2
    <3>3. (i - Up(x, l)) + Up(x, l) = i
      BY <1>2, <2>0
    <3>4. stream'[x][i - Up(x, l)].node = m
      BY <1>1, <2>0, <3>1, <3>2, <3>3
    <3> QED
      BY <2>0, <3>2, <3>4 DEF InStream
  <2> QED
    BY <2>1, <2>2
<1>8. ContentInv'
  <2>1. SUFFICES ASSUME NEW a \in arcs,
                        round = 0 \/ IsInput(a[1]) \/ (a[1] \in ran /\ ~InStream(a[1])')
                 PROVE content'[a] = round
    BY <1>0 DEF ContentInv, IsInput, InArcs, InStream
  <2>2. a[1] \in Nodes
    BY <1>0, ArcFacts
  <2>3. CASE a[1] = k.node
    BY <1>3, <2>3
  <2>4. CASE a[1] # k.node
    <3>1. content'[a] = content[a]
      BY <1>3, <2>4
    <3> QED
      BY <1>0, <1>7, <2>1, <2>2, <2>4, <3>1 DEF ContentInv
  <2> QED
    BY <2>3, <2>4
<1>9. Tidy' <=> Tidy
  BY <1>0 DEF Tidy
<1>10. EventInv'
  <2>1. SUFFICES ASSUME Tidy, NEW m \in Lanes, NEW i \in 1..Len(stream'[m]),
                        NEW a \in OutArcs(stream'[m][i].node)
                 PROVE event[a].lane = m /\ event[a].count = fin'[m] + i
    BY <1>0, <1>9 DEF EventInv, OutArcs
  <2>2. i + Up(m, l) \in 1..Len(stream[m]) /\ stream'[m][i] = stream[m][i + Up(m, l)]
    BY <1>1
  <2>3. event[a].lane = m /\ event[a].count = fin[m] + (i + Up(m, l))
    BY <1>0, <2>1, <2>2 DEF EventInv
  <2>4. fin[m] + (i + Up(m, l)) = fin'[m] + i
    <3>1. fin'[m] = fin[m] + Up(m, l) /\ fin[m] \in Nat /\ Up(m, l) \in Nat
      BY <1>1, <1>2
    <3> QED
      BY <3>1
  <2> QED
    BY <2>3, <2>4
<1>11. SettledInv'
  <2>1. SUFFICES ASSUME Tidy, NEW m \in Lanes, NEW i \in 1..Len(stream'[m]),
                        NEW a \in InArcs(stream'[m][i].node)
                 PROVE /\ a[1] \in ran
                       /\ InStream(a[1])' => \E j \in 1..(i - 1) : stream'[m][j].node = a[1]
    BY <1>0, <1>9 DEF SettledInv, InArcs, InStream
  <2> DEFINE u == Up(m, l)
  <2>2. /\ u \in {0, 1} /\ i + u \in 1..Len(stream[m]) /\ stream'[m][i] = stream[m][i + u]
    BY <1>1, <1>2
  <2>3. /\ a[1] \in ran
        /\ InStream(a[1]) => \E j \in 1..((i + u) - 1) : stream[m][j].node = a[1]
    BY <1>0, <2>1, <2>2 DEF SettledInv
  <2>4. ASSUME InStream(a[1])' PROVE \E j \in 1..(i - 1) : stream'[m][j].node = a[1]
    <3>1. InStream(a[1]) /\ a[1] # k.node
      <4>1. a[1] \in Nodes
        BY <1>0, <2>3 DEF NetTypeOK
      <4> QED
        BY <1>7, <2>4, <4>1
    <3>2. PICK j \in 1..((i + u) - 1) : stream[m][j].node = a[1]
      BY <2>3, <3>1
    <3>3. j - u \in 1..(i - 1)
      <4>1. CASE m = l
        <5>1. j # 1
          BY <3>1, <3>2, <4>1
        <5> QED
          BY <2>2, <3>2, <4>1, <5>1 DEF Up
      <4>2. CASE m # l
        BY <2>2, <3>2, <4>2 DEF Up
      <4> QED
        BY <4>1, <4>2
    <3>4. (j - u) + u = j /\ j - u \in 1..Len(stream'[m])
      <4>1. u \in Int /\ j \in Int /\ Len(stream'[m]) \in Nat
        BY <1>1, <2>2, <3>2
      <4> QED
        BY <3>3, <4>1
    <3>5. stream'[m][j - u] = stream[m][j]
      BY <1>1, <3>4
    <3> QED
      BY <3>2, <3>3, <3>5
  <2> QED
    BY <2>3, <2>4
<1>12. AwaitedInv'
  <2>1. SUFFICES ASSUME ~partly
                 PROVE /\ call # "none"
                       /\ \A m \in Lanes : stream'[m] # <<>> =>
                            \E a \in OutArcs(stream'[m][Len(stream'[m])].node) : a[2] >= hpos
    BY <1>0 DEF AwaitedInv, OutArcs
  <2>2. call # "none"
    BY <1>0, <1>1, <2>1 DEF AwaitedInv, DeviceIdle
  <2>3. ASSUME NEW m \in Lanes, stream'[m] # <<>>
        PROVE \E a \in OutArcs(stream'[m][Len(stream'[m])].node) : a[2] >= hpos
    <3>1. Len(stream'[m]) \in Nat \ {0}
      BY <1>1, <2>3
    <3>2. stream'[m][Len(stream'[m])] = stream[m][Len(stream[m])] /\ stream[m] # <<>>
      <4>1. /\ Up(m, l) \in Nat /\ Len(stream[m]) \in Nat
            /\ Len(stream'[m]) = Len(stream[m]) - Up(m, l)
            /\ Len(stream'[m]) \in 1..Len(stream'[m])
        BY <1>1, <1>2, <3>1
      <4>2. /\ stream'[m][Len(stream'[m])] = stream[m][Len(stream'[m]) + Up(m, l)]
            /\ Len(stream'[m]) + Up(m, l) \in 1..Len(stream[m])
        BY <1>1, <4>1
      <4>3. Len(stream'[m]) + Up(m, l) = Len(stream[m])
        BY <4>1
      <4> QED
        BY <4>2, <4>3
    <3> QED
      BY <1>0, <2>1, <3>2 DEF AwaitedInv
  <2> QED
    BY <2>2, <2>3
<1> QED
  BY <1>4, <1>5, <1>6, <1>8, <1>10, <1>11, <1>12 DEF NetInv

-----------------------------------------------------------------------------
(* The client, and the return of a call.                                   *)

\* A new round begins with all lanes empty.
LEMMA NewRound ==
  ASSUME NetInv, DeviceIdle, FillInputs, call' # "none",
         UNCHANGED <<arcs, lane, need_sync, partly, stream, fin, event>>
  PROVE  /\ StreamInv' /\ ContentInv' /\ EventInv' /\ SettledInv' /\ AwaitedInv'
         /\ IsPlan' /\ round' \in 0..MaxRound /\ round' # 0 /\ ran' = {}
         /\ content' \in [Arcs -> 0..MaxRound]
<1>0. NetTypeOK /\ arcs \subseteq Arcs /\ round \in 0..MaxRound
  BY DEF NetInv, NetTypeOK
<1>1. \A l \in Lanes : stream'[l] = <<>> /\ Len(stream'[l]) = 0
  BY DEF DeviceIdle
<1>2. StreamInv' /\ EventInv' /\ SettledInv' /\ AwaitedInv'
  BY <1>1 DEF StreamInv, EventInv, SettledInv, AwaitedInv
<1>3. /\ round' = round + 1 /\ round' \in 0..MaxRound /\ round' # 0 /\ ran' = {}
      /\ content' = [a \in Arcs |-> IF IsInput(a[1]) THEN round + 1 ELSE content[a]]
  BY <1>0, NetAssumption DEF FillInputs
<1>4. content' \in [Arcs -> 0..MaxRound]
  BY <1>0, <1>3 DEF NetTypeOK
<1>5. \A a \in arcs : IsInput(a[1]) => content'[a] = round'
  BY <1>0, <1>3
<1>6. ContentInv'
  BY <1>3, <1>5 DEF ContentInv, IsInput, InArcs
<1> QED
  BY <1>0, <1>2, <1>3, <1>4, <1>6, SamePlan DEF NetTypeOK

LEMMA CallPredictionStep == NetInv /\ CallPrediction => NetInv'
<1> SUFFICES ASSUME NetInv, CallPrediction PROVE NetInv'
  OBVIOUS
<1>0. /\ NetTypeOK /\ WalkInv /\ AwaitedInv /\ ~partly /\ call = "none"
      /\ call' = "prediction" /\ hpos' = 1 /\ FillInputs
      /\ UNCHANGED <<arcs, lane, need_sync, partly, asked, _suspended_point,
                     _start_point, stream, fin, event>>
  BY DEF NetInv, CallPrediction, planVars, pointVars
<1>1. DeviceIdle
  BY <1>0 DEF AwaitedInv
<1>2. /\ StreamInv' /\ ContentInv' /\ EventInv' /\ SettledInv' /\ AwaitedInv'
      /\ IsPlan' /\ round' \in 0..MaxRound /\ round' # 0 /\ ran' = {}
      /\ content' \in [Arcs -> 0..MaxRound]
  BY <1>0, <1>1, NewRound
<1>3. NetTypeOK'
  BY <1>0, <1>2, NetAssumption DEF NetTypeOK
<1>4. WalkInv'
  <2>1. ran' = 1..(hpos' - 1)
    BY <1>0, <1>2
  <2> QED
    BY <1>0, <1>2, <2>1 DEF WalkInv
<1> QED
  BY <1>2, <1>3, <1>4 DEF NetInv

LEMMA CallStopAtStep ==
  ASSUME NetInv, NEW s \in Nodes, CallStopAt(s)
  PROVE  NetInv'
<1>0. /\ NetTypeOK /\ WalkInv /\ partly /\ DeviceIdle /\ call = "none"
      /\ call' = "stop" /\ hpos' = 1 /\ FillInputs /\ asked' = s
      /\ _suspended_point' = IF _suspended_point = 0 THEN s ELSE _suspended_point
      /\ UNCHANGED <<arcs, lane, need_sync, partly, _start_point, stream, fin, event>>
  BY DEF NetInv, CallStopAt, planVars
<1>1. /\ StreamInv' /\ ContentInv' /\ EventInv' /\ SettledInv' /\ AwaitedInv'
      /\ IsPlan' /\ round' \in 0..MaxRound /\ round' # 0 /\ ran' = {}
      /\ content' \in [Arcs -> 0..MaxRound]
  BY <1>0, NewRound
<1>2. _suspended_point' \in Nodes /\ _suspended_point' \in 0..N
  BY <1>0, NetAssumption DEF NetTypeOK, Nodes
<1>3. NetTypeOK'
  BY <1>0, <1>1, <1>2, NetAssumption DEF NetTypeOK
<1>4. WalkInv'
  <2>1. ran' = 1..(hpos' - 1) /\ hpos' <= _suspended_point'
    BY <1>0, <1>1, <1>2 DEF Nodes
  <2>2. /\ _start_point \in {0, _suspended_point'}
        /\ _start_point = 0 => s = _suspended_point'
    BY <1>0 DEF WalkInv
  <2> QED
    BY <1>0, <1>1, <1>2, <2>1, <2>2 DEF WalkInv
<1> QED
  BY <1>1, <1>3, <1>4 DEF NetInv

\* Steps that leave the plan, the device and the round alone.
LEMMA DeviceUnchanged ==
  ASSUME NetInv,
         UNCHANGED <<arcs, lane, need_sync, partly, round, ran, stream, fin, event, content>>
  PROVE  StreamInv' /\ ContentInv' /\ EventInv' /\ SettledInv' /\ IsPlan'
<1>0. NetTypeOK /\ StreamInv /\ ContentInv /\ EventInv /\ SettledInv
  BY DEF NetInv
<1>1. \A n : InArcs(n)' = InArcs(n) /\ OutArcs(n)' = OutArcs(n)
  BY DEF InArcs, OutArcs
<1>2. StreamInv' /\ EventInv'
  BY <1>0 DEF StreamInv, EventInv, Tidy, IsInput, InArcs, OutArcs
<1>3. ContentInv'
  BY <1>0 DEF ContentInv, IsInput, InArcs, InStream
<1>4. SettledInv'
  BY <1>0 DEF SettledInv, Tidy, InArcs, InStream
<1> QED
  BY <1>0, <1>2, <1>3, <1>4, SamePlan DEF NetTypeOK

LEMMA CallStartFromStep == NetInv /\ CallStartFrom => NetInv'
<1> SUFFICES ASSUME NetInv, CallStartFrom PROVE NetInv'
  OBVIOUS
<1>0. /\ NetTypeOK /\ WalkInv /\ call = "stopped" /\ call' = "start" /\ partly
      /\ _start_point' = IF _start_point = 0 THEN asked ELSE _start_point
      /\ hpos' = _start_point' /\ _suspended_point \in Nodes
      /\ ran = 1..(_suspended_point - 1)
      /\ UNCHANGED <<arcs, lane, need_sync, partly, round, asked, _suspended_point,
                     ran, stream, fin, event, content>>
  BY DEF NetInv, CallStartFrom, planVars, devVars, WalkInv
<1>1. _start_point' = _suspended_point
  BY <1>0 DEF WalkInv
<1>2. StreamInv' /\ ContentInv' /\ EventInv' /\ SettledInv' /\ IsPlan'
  BY <1>0, DeviceUnchanged
<1>3. NetTypeOK'
  BY <1>0, <1>1, <1>2, NetAssumption DEF NetTypeOK, Nodes
<1>4. WalkInv' /\ AwaitedInv'
  BY <1>0, <1>1 DEF WalkInv, AwaitedInv
<1> QED
  BY <1>2, <1>3, <1>4 DEF NetInv

\* prediction() returns behind the last executer: the arc by which the last
\* kernel of a lane would be awaited cannot lead any further.
LEMMA ReturnStep == NetInv /\ Return => NetInv'
<1> SUFFICES ASSUME NetInv, Return PROVE NetInv'
  OBVIOUS
<1>0. /\ NetTypeOK /\ WalkInv /\ AwaitedInv
      /\ call' = IF call = "stop" THEN "stopped" ELSE "none"
      /\ UNCHANGED <<arcs, lane, need_sync, partly, round, hpos, asked,
                     _suspended_point, _start_point, ran, stream, fin, event, content>>
  BY DEF NetInv, Return, planVars, devVars, pointVars
<1>1. StreamInv' /\ ContentInv' /\ EventInv' /\ SettledInv' /\ IsPlan'
  BY <1>0, DeviceUnchanged
<1>2. \/ call = "prediction" /\ hpos > N
      \/ call = "stop" /\ hpos > _suspended_point - 1
      \/ call = "start" /\ hpos > N
  BY DEF Return, HostEnd
<1>3. NetTypeOK'
  BY <1>0, <1>1 DEF NetTypeOK
<1>4. hpos \in Nat /\ hpos <= N + 1 /\ _suspended_point \in Nat
  BY <1>0, NetAssumption DEF NetTypeOK
<1>5. WalkInv'
  <2>1. CASE call = "stop"
    <3>1. hpos = _suspended_point
      BY <1>0, <1>2, <1>4, <2>1 DEF WalkInv
    <3> QED
      BY <1>0, <2>1, <3>1 DEF WalkInv
  <2>2. CASE call \in {"prediction", "start"}
    <3>1. hpos - 1 = N /\ ran = 1..N
      BY <1>0, <1>2, <1>4, <2>2, NetAssumption DEF WalkInv
    <3>2. round # 0 /\ _start_point = _suspended_point
      BY <1>0, <2>2 DEF WalkInv
    <3> QED
      BY <1>0, <2>2, <3>1, <3>2 DEF WalkInv
  <2> QED
    BY <1>2, <2>1, <2>2
<1>6. AwaitedInv'
  <2>1. SUFFICES ASSUME ~partly PROVE DeviceIdle
    BY <1>0 DEF AwaitedInv, DeviceIdle, OutArcs
  <2>2. hpos > N
    BY <1>0, <1>2, <2>1 DEF WalkInv
  <2>3. ASSUME NEW l \in Lanes, stream[l] # <<>> PROVE FALSE
    <3>1. PICK a \in OutArcs(stream[l][Len(stream[l])].node) : a[2] >= hpos
      BY <1>0, <2>1, <2>3 DEF AwaitedInv
    <3>2. a[2] \in Nodes
      BY <1>0, <3>1, ArcFacts DEF OutArcs
    <3> QED
      BY <1>4, <2>2, <3>1, <3>2, NetAssumption DEF Nodes
  <2> QED
    BY <2>3 DEF DeviceIdle
<1> QED
  BY <1>1, <1>3, <1>5, <1>6 DEF NetInv

LEMMA NetInvNext == NetInv /\ [NetNext]_netVars => NetInv'
<1> SUFFICES ASSUME NetInv, [NetNext]_netVars PROVE NetInv'
  OBVIOUS
<1>1. CASE ClientStep
  BY <1>1, CallPredictionStep, CallStopAtStep, CallStartFromStep DEF ClientStep
<1>2. CASE HostStep
  BY <1>2, ExecuteStep, ExecutePartlyStep, ReturnStep DEF HostStep
<1>3. CASE DeviceStep
  BY <1>3, FinishKernelStep DEF DeviceStep
<1>4. CASE UNCHANGED netVars
  <2>0. /\ NetTypeOK /\ WalkInv /\ AwaitedInv
        /\ UNCHANGED <<arcs, lane, need_sync, partly, round, call, hpos, asked,
                       _suspended_point, _start_point, ran, stream, fin, event, content>>
    BY <1>4 DEF NetInv, netVars
  <2>1. StreamInv' /\ ContentInv' /\ EventInv' /\ SettledInv' /\ IsPlan'
    BY <2>0, DeviceUnchanged
  <2>2. NetTypeOK' /\ WalkInv'
    BY <2>0, <2>1 DEF NetTypeOK, WalkInv
  <2>3. AwaitedInv'
    BY <2>0 DEF AwaitedInv, DeviceIdle, OutArcs
  <2> QED
    BY <2>1, <2>2, <2>3 DEF NetInv
<1> QED
  BY <1>1, <1>2, <1>3, <1>4 DEF NetNext

LEMMA NetInvariant == NetSpec => []NetInv
BY NetInvInit, NetInvNext, PTL DEF NetSpec

-----------------------------------------------------------------------------
(* The theorems.                                                           *)

\* The net keeps its types: the host never walks past the executers, and every
\* kernel and event is of a lane that exists (Net::prediction,
\* Net::execute_stop_at_node, Net::execute_start_from_node).
THEOREM NetTypeCorrect == NetSpec => []NetTypeOK
<1>1. NetInv => NetTypeOK
  BY DEF NetInv
<1> QED
  BY <1>1, NetInvariant, PTL

\* When Net::prediction returns, no kernel is left on the device: for every
\* graph, all lanes and flags of ParallScheduler and both run types the waits
\* before the Outputs and before the marked executers reach every kernel.
THEOREM NothingRunsAfterPrediction == NetSpec => []QuiescentOnReturn
<1>1. NetInv => QuiescentOnReturn
  BY DEF NetInv, AwaitedInv, QuiescentOnReturn
<1> QED
  BY <1>1, NetInvariant, PTL

\* After Net::prediction, and after both partial calls once the device is idle,
\* every tensor holds the data of the last round, whatever nodes the partial
\* calls were given: the two points that are kept are one.
THEOREM TensorsOfRound == NetSpec => []ResultsOfRound
<1>1. NetInv => ResultsOfRound
  <2>1. SUFFICES ASSUME NetInv, call = "none", partly => DeviceIdle, NEW a \in arcs
                 PROVE content[a] = round
    BY DEF ResultsOfRound
  <2>2. NetTypeOK /\ WalkInv /\ ContentInv /\ AwaitedInv
    BY <2>1 DEF NetInv
  <2>3. DeviceIdle
    BY <2>1, <2>2 DEF AwaitedInv
  <2>4. a[1] \in Nodes /\ lane[a[1]] \in Lanes
    BY <2>2, ArcFacts DEF NetTypeOK, IsPlan
  <2>5. ~InStream(a[1])
    BY <2>3, <2>4 DEF DeviceIdle, InStream
  <2>6. round = 0 \/ a[1] \in ran
    BY <2>1, <2>2, <2>4 DEF WalkInv, Nodes
  <2> QED
    BY <2>2, <2>5, <2>6 DEF ContentInv
<1> QED
  BY <1>1, NetInvariant, PTL

\* A kernel at the head of its lane finds its inputs written.
LEMMA HeadsSettled == NetInv /\ Tidy => ReadsSettled
<1> SUFFICES ASSUME NetInv, Tidy PROVE ReadsSettled
  OBVIOUS
<1>0. NetTypeOK /\ StreamInv /\ ContentInv /\ SettledInv
  BY DEF NetInv
<1>1. ASSUME NEW l \in Lanes, stream[l] # <<>>
      PROVE /\ Head(stream[l]) = stream[l][1] /\ 1 \in 1..Len(stream[l])
            /\ stream[l][1].node \in Nodes /\ lane[stream[l][1].node] = l
            /\ stream[l][1].round = round
  <2>1. stream[l] \in Seq(Kernel) /\ Len(stream[l]) \in Nat \ {0} /\ 1 \in 1..Len(stream[l])
    BY <1>0, <1>1 DEF NetTypeOK
  <2>2. Head(stream[l]) = stream[l][1] /\ stream[l][1] \in Kernel
    BY <2>1
  <2> QED
    BY <1>0, <2>1, <2>2 DEF Kernel, StreamInv
<1>2. SUFFICES ASSUME NEW l \in Lanes, stream[l] # <<>>, NEW a \in InArcs(stream[l][1].node)
               PROVE /\ content[a] = stream[l][1].round
                     /\ \A m \in Lanes : stream[m] # <<>> => stream[m][1].node # a[1]
  BY <1>1 DEF ReadsSettled, Running
<1>3. a \in arcs /\ a[1] \in ran /\ ~InStream(a[1])
  BY <1>0, <1>1, <1>2 DEF SettledInv, InArcs
<1>4. content[a] = stream[l][1].round
  BY <1>0, <1>1, <1>2, <1>3 DEF ContentInv
<1>5. ASSUME NEW m \in Lanes, stream[m] # <<>>, stream[m][1].node = a[1] PROVE FALSE
  BY <1>1, <1>3, <1>5 DEF InStream
<1> QED
  BY <1>4, <1>5

\* In every prediction, on every graph and in both run types, a kernel that runs
\* reads data of its own round, and no kernel of another lane is writing it: the
\* marks of ParallScheduler are all the waiting that Net::prediction needs.
THEOREM PredictionReadsSettled == NetSpec => [](~partly => ReadsSettled)
<1>1. NetInv => (~partly => ReadsSettled)
  BY HeadsSettled DEF Tidy
<1> QED
  BY <1>1, NetInvariant, PTL

\* The nets run by the partial calls have one input, vertex 1.  With several
\* inputs the claim is false, see the run net_partly_lanes.
OneLanePartly ==
  \A g \in Graphs \cap PartlyGraphs : \A n \in Nodes \ {1} : \E a \in g : a[2] = n

LEMMA TidyInit ==
  ASSUME OneLanePartly
  PROVE  NetInit => Tidy
<1> SUFFICES ASSUME NetInit, partly PROVE \A m, n \in Nodes : lane[m] = lane[n]
  BY DEF Tidy
<1>1. arcs \in Graphs \cap PartlyGraphs
  BY Zenon DEF NetInit
<1>2. \A n \in Nodes \ {1} : ~IsInput(n)
  BY <1>1 DEF OneLanePartly, IsInput, InArcs
<1> DEFINE ins == {n \in Nodes : IsInput(n)}
<1>3. lane \in [Nodes -> 0..(Cardinality(ins) - 1)]
  BY DEF NetInit
<1>4. ins \in SUBSET {1}
  BY <1>2
<1>5. Cardinality(ins) \in Nat /\ Cardinality(ins) <= 1
  <2>1. IsFiniteSet({1}) /\ Cardinality({1}) = 1
    BY FS_Singleton
  <2>2. IsFiniteSet(ins) /\ Cardinality(ins) <= Cardinality({1})
    BY <1>4, <2>1, FS_Subset
  <2> QED
    BY <2>1, <2>2, FS_CardinalityType
<1> HIDE DEF ins
<1>6. \A n \in Nodes : lane[n] = 0
  BY <1>3, <1>5
<1> QED
  BY <1>6

\* The same for clients of the partial calls too, where every net they run has
\* one input: its kernels are all in one lane, in the order of the walk.
THEOREM AllReadsSettled ==
  ASSUME OneLanePartly
  PROVE  NetSpec => []ReadsSettled
<1>1. NetInit => Tidy
  BY TidyInit
<1>2. Tidy /\ NetInv /\ [NetNext]_netVars => Tidy'
  <2> SUFFICES ASSUME [NetNext]_netVars PROVE UNCHANGED <<partly, lane>>
    BY DEF Tidy
  <2> QED
    BY DEF NetNext, ClientStep, HostStep, DeviceStep, CallPrediction, CallStopAt,
           CallStartFrom, Execute, ExecutePartly, Return, FinishKernel, planVars, netVars
<1>3. NetInv /\ Tidy => ReadsSettled
  BY HeadsSettled
<1> QED
  BY <1>1, <1>2, <1>3, NetInvariant, PTL DEF NetSpec
=============================================================================
