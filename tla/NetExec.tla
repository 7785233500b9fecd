------------------------------ MODULE NetExec -------------------------------
(***************************************************************************)
(* framework/core/net/net.cpp: the execution of a net.  The host walks the *)
(* executers in the execution order; each one launches its kernel on the   *)
(* stream of its lane and records, for every output, an event behind it.   *)
(* The device works the streams off beside the host.  An executer that     *)
(* must wait, an Output, and every one in SYNC mode, makes the host wait   *)
(* for the events of its inputs first.                                     *)
(*                                                                         *)
(* A vertex is named by its position in the execution order.  Lanes and    *)
(* flags are those that ParallScheduler gives, see IsPlan.  Every io has   *)
(* memory of its own here; its content is the prediction it belongs to.    *)
(***************************************************************************)
EXTENDS Naturals, Sequences, FiniteSets

CONSTANTS N,          \* number of executers
          Graphs,     \* the graphs considered, as sets of arcs
          RunType,    \* "SYNC" or "ASYNC"
          PartlyGraphs, \* those that are run partly as well
          MaxRound    \* bound on the predictions

Nodes == 1..N
Lanes == 0..(N - 1)

ASSUME NetAssumption == /\ N \in Nat \ {0} /\ MaxRound \in Nat
                        /\ RunType \in {"SYNC", "ASYNC"}
ASSUME GraphsAssumption ==
  \A g \in Graphs : \A a \in g : a \in Nodes \X Nodes /\ a[1] < a[2]

VARIABLES
  arcs,             \* the graph
  lane,             \* current_lane of each executer
  need_sync,        \* its need_sync flag
  partly,           \* the client runs execute_stop_at_node and
                    \* execute_start_from_node instead of prediction
  round,            \* predictions begun
  call,             \* the call the client is in
  hpos,             \* executer the host is at
  asked,            \* node named in the partial call
  _suspended_point, \* cached by execute_stop_at_node; 0 for -1
  _start_point,     \* cached by execute_start_from_node; 0 for -1
  ran,              \* history: executers of this round the host has been through
  stream,           \* kernels in each lane that are not finished
  fin,              \* number of kernels each lane has finished
  event,            \* of each io: a lane and a number of kernels
  content           \* of each io: the round whose data it holds

planVars == <<arcs, lane, need_sync, partly>>
pointVars == <<_suspended_point, _start_point>>
devVars == <<stream, fin, event, content>>
netVars == <<arcs, lane, need_sync, partly, round, call, hpos, asked, _suspended_point,
             _start_point, ran, stream, fin, event, content>>

Arcs == {a \in Nodes \X Nodes : a[1] < a[2]}
InArcs(n) == {a \in arcs : a[2] = n}
OutArcs(n) == {a \in arcs : a[1] = n}

\* The code asks for the operators Input and Output.  In the graphs considered
\* these are the vertices without an arc in and without an arc out.
IsInput(n) == InArcs(n) = {}
IsOutput(n) == OutArcs(n) = {}
Kernel == [node : Nodes, round : Nat]
Event == [lane : Lanes, count : Nat]

\* What ParallScheduler establishes: a vertex is in the lane of one of its
\* producers and marked when they are in several (LanesAgree).
IsPlan ==
  /\ lane \in [Nodes -> Lanes]
  /\ need_sync \in [Nodes -> BOOLEAN]
  /\ \A n \in Nodes : ~IsInput(n) => \E a \in InArcs(n) : lane[n] = lane[a[1]]
  /\ \A n \in Nodes :
       need_sync[n] <=> \E a, b \in InArcs(n) : lane[a[1]] # lane[b[1]]

NetTypeOK ==
  /\ arcs \subseteq Arcs
  /\ IsPlan
  /\ partly \in BOOLEAN
  /\ round \in 0..MaxRound
  /\ call \in {"none", "prediction", "stop", "stopped", "start"}
  /\ hpos \in 1..(N + 1)
  /\ asked \in Nodes
  /\ _suspended_point \in 0..N /\ _start_point \in 0..N
  /\ ran \subseteq Nodes
  /\ stream \in [Lanes -> Seq(Kernel)]
  /\ fin \in [Lanes -> Nat]
  /\ event \in [Arcs -> Event]
  /\ content \in [Arcs -> 0..MaxRound]

NetInit ==
  /\ arcs \in Graphs
  \* SyncFlagController::init: one lane per input
  /\ LET ins == {n \in Nodes : IsInput(n)}
     IN /\ lane \in [Nodes -> 0..(Cardinality(ins) - 1)]
        /\ \A m, n \in ins : lane[m] = lane[n] => m = n
  /\ need_sync = [n \in Nodes |-> \E a, b \in InArcs(n) : lane[a[1]] # lane[b[1]]]
  /\ \A n \in Nodes : ~IsInput(n) => \E a \in InArcs(n) : lane[n] = lane[a[1]]
  /\ partly \in {FALSE} \cup {arcs \in PartlyGraphs}
  /\ round = 0
  /\ call = "none"
  /\ hpos = 1
  /\ asked = 1
  /\ _suspended_point = 0 /\ _start_point = 0
  /\ ran = {}
  /\ stream = [l \in Lanes |-> <<>>]
  /\ fin = [l \in Lanes |-> 0]
  /\ event = [a \in Arcs |-> [lane |-> 0, count |-> 0]]
  /\ content = [a \in Arcs |-> 0]

-----------------------------------------------------------------------------
(* The client.                                                             *)

\* The client fills the inputs of the net: the data of a new round.
FillInputs ==
  /\ round < MaxRound
  /\ round' = round + 1
  /\ content' = [a \in Arcs |-> IF IsInput(a[1]) THEN round + 1 ELSE content[a]]
  /\ ran' = {}

CallPrediction ==
  /\ ~partly
  /\ call = "none"
  /\ FillInputs
  /\ call' = "prediction"
  /\ hpos' = 1
  /\ UNCHANGED <<planVars, asked, pointVars, stream, fin, event>>

\* All kernels have finished.
DeviceIdle == \A l \in Lanes : stream[l] = <<>>

\* The point is searched for the first time only.  A client of the partial calls
\* waits for the device itself before it fills the inputs again.
CallStopAt(s) ==
  /\ partly
  /\ call = "none"
  /\ DeviceIdle
  /\ FillInputs
  /\ _suspended_point' = IF _suspended_point = 0 THEN s ELSE _suspended_point
  /\ asked' = s
  /\ call' = "stop"
  /\ hpos' = 1
  /\ UNCHANGED <<planVars, _start_point, stream, fin, event>>

\* Faulty variant: the node is searched anew in every call.
CallStartFrom_Searches ==
  /\ call = "stopped"
  /\ _start_point' = asked
  /\ call' = "start"
  /\ hpos' = asked
  /\ UNCHANGED <<planVars, round, asked, _suspended_point, ran, devVars>>

\* The client goes on with the node it asked to stop at.
CallStartFrom ==
  /\ call = "stopped"
  /\ _start_point' = IF _start_point = 0 THEN asked ELSE _start_point
  /\ call' = "start"
  /\ hpos' = IF _start_point = 0 THEN asked ELSE _start_point
  /\ UNCHANGED <<planVars, round, asked, _suspended_point, ran, devVars>>

-----------------------------------------------------------------------------
(* The host, in a call.                                                    *)

\* The events of an executer's inputs, when they are waited for, are done.
Done(e) == fin[e.lane] >= e.count

\* Faulty variant: waiting is left to the Output alone.
WaitsFor_OutputOnly(n) == RunType = "SYNC" \/ IsOutput(n)

\* Faulty variant: an Output is not waited for.
WaitsFor_NeedSync(n) == RunType = "SYNC" \/ need_sync[n]

WaitsFor(n) == RunType = "SYNC" \/ need_sync[n] \/ IsOutput(n)

\* The kernel of n at the end of the stream of its lane.
Enqueued(n) == [stream EXCEPT ![lane[n]] = Append(@, [node |-> n, round |-> round])]

\* record_event on the stream of n, as it is after the launch.
Recorded(n, s) == [lane |-> lane[n], count |-> fin[lane[n]] + Len(s[lane[n]])]

\* Faulty variant: the events are recorded before the launch.
Execute_RecordsFirst ==
  /\ call = "prediction"
  /\ hpos <= N
  /\ WaitsFor(hpos) => \A a \in InArcs(hpos) : Done(event[a])
  /\ stream' = IF IsInput(hpos) \/ IsOutput(hpos) THEN stream ELSE Enqueued(hpos)
  /\ event' = [a \in Arcs |-> IF a \in OutArcs(hpos) THEN Recorded(hpos, stream)
                                                     ELSE event[a]]
  /\ hpos' = hpos + 1
  /\ ran' = ran \cup {hpos}
  /\ UNCHANGED <<planVars, round, call, asked, pointVars, fin, content>>

\* Faulty variant: an Input is passed over without moving on.
Execute_StaysAtInput ==
  /\ call = "prediction"
  /\ hpos <= N
  /\ WaitsFor(hpos) => \A a \in InArcs(hpos) : Done(event[a])
  /\ stream' = IF IsInput(hpos) \/ IsOutput(hpos) THEN stream ELSE Enqueued(hpos)
  /\ event' = [a \in Arcs |-> IF a \in OutArcs(hpos) THEN Recorded(hpos, stream')
                                                     ELSE event[a]]
  /\ hpos' = IF IsInput(hpos) THEN hpos ELSE hpos + 1
  /\ ran' = ran \cup {hpos}
  /\ UNCHANGED <<planVars, round, call, asked, pointVars, fin, content>>

\* One turn of the loop of prediction().
Execute ==
  /\ call = "prediction"
  /\ hpos <= N
  /\ WaitsFor(hpos) => \A a \in InArcs(hpos) : Done(event[a])
  /\ stream' = IF IsInput(hpos) \/ IsOutput(hpos) THEN stream ELSE Enqueued(hpos)
  /\ event' = [a \in Arcs |-> IF a \in OutArcs(hpos) THEN Recorded(hpos, stream')
                                                     ELSE event[a]]
  /\ hpos' = hpos + 1
  /\ ran' = ran \cup {hpos}
  /\ UNCHANGED <<planVars, round, call, asked, pointVars, fin, content>>

\* The last executer of the loops of execute_stop_at_node and
\* execute_start_from_node.
HostEnd == IF call = "stop" THEN _suspended_point - 1 ELSE N

\* One turn of these loops: the events of the inputs are recorded again, on the
\* executer's own stream, and waited for.  (An Output is launched too; its
\* operator does nothing.)
ExecutePartly ==
  /\ call \in {"stop", "start"}
  /\ hpos <= HostEnd
  /\ LET waits == RunType = "SYNC" \/ need_sync[hpos]
         own == Recorded(hpos, stream)
     IN /\ waits /\ ~IsInput(hpos) => Done(own)
        /\ stream' = IF IsInput(hpos) \/ IsOutput(hpos) THEN stream ELSE Enqueued(hpos)
        /\ event' = [a \in Arcs |->
                       IF a \in OutArcs(hpos) THEN Recorded(hpos, stream')
                       ELSE IF waits /\ a \in InArcs(hpos) THEN own ELSE event[a]]
  /\ hpos' = hpos + 1
  /\ ran' = ran \cup {hpos}
  /\ UNCHANGED <<planVars, round, call, asked, pointVars, fin, content>>

\* The call returns.
Return ==
  /\ \/ call = "prediction" /\ hpos > N
     \/ call \in {"stop", "start"} /\ hpos > HostEnd
  /\ call' = IF call = "stop" THEN "stopped" ELSE "none"
  /\ UNCHANGED <<planVars, round, hpos, asked, pointVars, ran, devVars>>

-----------------------------------------------------------------------------
\* The device finishes the kernel at the head of a lane: its outputs hold the
\* data of its round.
FinishKernel(l) ==
  /\ stream[l] # <<>>
  /\ LET k == Head(stream[l])
     IN content' = [a \in Arcs |-> IF a \in OutArcs(k.node) THEN k.round ELSE content[a]]
  /\ stream' = [stream EXCEPT ![l] = Tail(@)]
  /\ fin' = [fin EXCEPT ![l] = @ + 1]
  /\ UNCHANGED <<planVars, round, call, hpos, asked, pointVars, ran, event>>

HostStep == Execute \/ ExecutePartly \/ Return
ClientStep == CallPrediction \/ (\E s \in Nodes : CallStopAt(s)) \/ CallStartFrom
DeviceStep == \E l \in Lanes : FinishKernel(l)

NetNext == ClientStep \/ HostStep \/ DeviceStep

NetSpec == NetInit /\ [][NetNext]_netVars

\* The host goes on inside a call, and the device works off every lane.
NetFairSpec == /\ NetSpec
               /\ WF_netVars(HostStep)
               /\ \A l \in Lanes : WF_netVars(FinishKernel(l))

-----------------------------------------------------------------------------
(* Properties.                                                             *)

\* The kernels that may be running: the head of every lane.
Running == {Head(stream[l]) : l \in {k \in Lanes : stream[k] # <<>>}}

\* A running kernel reads data of its own round from every input, and nothing
\* that runs beside it, in another lane, writes one of its inputs.
ReadsSettled ==
  \A k \in Running : \A a \in InArcs(k.node) :
    /\ content[a] = k.round
    /\ \A m \in Running : m.node # a[1]

\* When prediction() has returned, all kernels have finished: the client may
\* read the outputs and fill the inputs again.
QuiescentOnReturn == ~partly /\ call = "none" => DeviceIdle

\* After prediction(), and after both partial calls once the device is idle, all
\* tensors hold the data of this round: no executer is left out, and none works
\* on what an earlier round left behind.  The partial calls keep the points of
\* their first use, whatever node they are given later; the two must fit.
ResultsOfRound ==
  call = "none" /\ (partly => DeviceIdle) => \A a \in arcs : content[a] = round

\* prediction() and the partial calls return: the host waits only for events of
\* kernels it has launched before.
PredictionReturns ==
  call \in {"prediction", "stop", "start"} ~> call \in {"none", "stopped"}
=============================================================================
