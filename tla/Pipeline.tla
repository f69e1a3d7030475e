------------------------------ MODULE Pipeline ------------------------------
(***************************************************************************)
(* opencdc-pipeline: Pipeline::run, stream_from_offset, process_event and  *)
(* stop, one action per await point, driving an arbitrary Connector and    *)
(* arbitrary Transforms and Sinks through the bounded channel.             *)
(*                                                                         *)
(* run() awaits Connector::snapshot (then Connector::stream) to the end    *)
(* before it first reads the channel those calls fill: the connector loops  *)
(* through pc = "fetch" and pc = "send", and then pc = "drain".            *)
(*                                                                         *)
(* Events carry the number the source gave them.  A row emitted again by a *)
(* later run is a new event.  Both channels of a run are `chan': the first *)
(* is empty and closed before the second is created.                       *)
(***************************************************************************)
EXTENDS Naturals, Sequences

CONSTANTS
    Capacity,   \* capacity of each mpsc channel (1024 in the code)
    NumSinks,   \* number of sinks, in the order add_sink saw them
    Filtered,   \* events for which some transform of the chain returns None
    MaxRows,    \* bound: events one snapshot or one stream call produces
    MaxRuns     \* bound: run() calls that get past the `running' check

ASSUME PipelineAssumption ==
    /\ Capacity \in Nat \ {0}
    /\ NumSinks \in Nat
    /\ Filtered \subseteq Nat
    /\ MaxRows \in Nat
    /\ MaxRuns \in Nat

VARIABLES
    pc,         \* where the call in progress is; "idle" when there is none
    phase,      \* which connector call run() is in or came from
    running,    \* Pipeline::running
    result,     \* what the last run() returned
    fetched,    \* rows the connector call in progress has read from its source
    chan,       \* events buffered in the channel, oldest first
    sent,       \* events the channel has accepted, over all runs
    cur,        \* event process_event is working on, 0 when none
    next,       \* next sink to write to, or to close
    received,   \* received[s]: what sink s was given, oldest first
    lost,       \* events a failing run dropped with its channel
    runs,       \* run() calls accepted so far
    runBase,    \* value of `sent' when the last accepted run() began
    closed,     \* sinks closed by the last stop() call
    stopResult  \* what the last stop() returned

sourceVars == <<fetched, sent>>
sinkVars   == <<received, lost>>
callVars   == <<running, result, runs, runBase>>
stopVars   == <<closed, stopResult>>
vars == <<pc, phase, chan, cur, next, sourceVars, sinkVars, callVars, stopVars>>

Sinks == 1..NumSinks

\* The connector waits for room in a full channel.
Blocked == pc = "send" /\ Len(chan) = Capacity

Init ==
    /\ pc = "idle" /\ phase = "stream"
    /\ running = FALSE /\ result = "none"
    /\ fetched = 0 /\ sent = 0
    /\ chan = <<>> /\ cur = 0 /\ next = 1
    /\ received = [s \in Sinks |-> <<>>] /\ lost = {}
    /\ runs = 0 /\ runBase = 0
    /\ closed = {} /\ stopResult = "none"

-----------------------------------------------------------------------------
(* Entering and leaving run().                                             *)

\* A connector call begins on a fresh channel.
Produce(p) ==
    /\ pc' = "fetch"
    /\ phase' = p
    /\ fetched' = 0
    /\ chan' = <<>>

RunWith(p) ==
    /\ pc = "idle"
    /\ ~running
    /\ runs < MaxRuns
    /\ Produce(p)
    /\ running' = TRUE
    /\ result' = "none"
    /\ runs' = runs + 1
    /\ runBase' = sent
    /\ UNCHANGED <<cur, next, sent, sinkVars, stopVars>>

\* run(Some(tables)) begins with a snapshot, run(None) with the stream.
Run == RunWith("snapshot") \/ RunWith("stream")

RunRejected ==
    /\ pc = "idle"
    /\ running
    /\ result' = "stopped"
    /\ UNCHANGED <<pc, phase, chan, cur, next, sourceVars, sinkVars, running,
                   runs, runBase, stopVars>>

\* The set of events that go down with the receiver when run() returns early.
InFlight == {chan[i] : i \in 1..Len(chan)} \cup ({cur} \ {0})

\* `?' in run(): the receiver is dropped with everything still in it.
ReturnErr(why) ==
    /\ pc' = "idle"
    /\ result' = why
    /\ lost' = lost \cup InFlight
    /\ chan' = <<>>
    /\ cur' = 0
    /\ UNCHANGED <<phase, next, sourceVars, runs, runBase, stopVars>>

-----------------------------------------------------------------------------
(* The connector call that run() awaits.                                   *)

\* The connector reads one more row or change and calls send on it.
Fetch ==
    /\ pc = "fetch"
    /\ fetched < MaxRows
    /\ fetched' = fetched + 1
    /\ pc' = "send"
    /\ UNCHANGED <<phase, chan, cur, next, sent, sinkVars, callVars, stopVars>>

\* Wrong variant: an unbounded channel.
SendUnbounded ==
    /\ pc = "send"
    /\ sent' = sent + 1
    /\ chan' = Append(chan, sent + 1)
    /\ pc' = "fetch"
    /\ UNCHANGED <<phase, cur, next, fetched, sinkVars, callVars, stopVars>>

\* Wrong variant: one slot of the channel is never used.
SendOneSlotShort == Len(chan) + 1 < Capacity /\ SendUnbounded

\* The send completes only when the channel has room.
Send ==
    /\ pc = "send"
    /\ Len(chan) < Capacity
    /\ sent' = sent + 1
    /\ chan' = Append(chan, sent + 1)
    /\ pc' = "fetch"
    /\ UNCHANGED <<phase, cur, next, fetched, sinkVars, callVars, stopVars>>

\* Wrong variant: run() goes from the snapshot straight to the stream.
SourceOkSkipsDrain ==
    /\ pc = "fetch"
    /\ IF phase = "snapshot"
       THEN Produce("stream") /\ UNCHANGED sent
       ELSE pc' = "drain" /\ UNCHANGED <<phase, chan, sourceVars>>
    /\ UNCHANGED <<cur, next, sinkVars, callVars, stopVars>>

\* snapshot() or stream() returns Ok; the sender is dropped, draining begins.
SourceOk ==
    /\ pc = "fetch"
    /\ pc' = "drain"
    /\ UNCHANGED <<phase, chan, cur, next, sourceVars, sinkVars, callVars, stopVars>>

\* Only the snapshot's error path resets `running'.
SourceErr ==
    /\ pc = "fetch"
    /\ ReturnErr("source")
    /\ running' = IF phase = "snapshot" THEN FALSE ELSE running
    /\ UNCHANGED received

-----------------------------------------------------------------------------
(* The drain loop and process_event.                                       *)

Recv ==
    /\ pc = "drain"
    /\ chan # <<>>
    /\ cur' = Head(chan)
    /\ chan' = Tail(chan)
    /\ pc' = "transform"
    /\ UNCHANGED <<phase, next, sourceVars, sinkVars, callVars, stopVars>>

\* recv() returns None: the channel is empty and its sender gone.
SnapshotDrained ==
    /\ pc = "drain"
    /\ chan = <<>>
    /\ phase = "snapshot"
    /\ Produce("stream")
    /\ UNCHANGED <<cur, next, sent, sinkVars, callVars, stopVars>>

StreamDrained ==
    /\ pc = "drain"
    /\ chan = <<>>
    /\ phase = "stream"
    /\ pc' = "idle"
    /\ result' = "ok"
    /\ UNCHANGED <<phase, chan, cur, next, sourceVars, sinkVars, running, runs,
                   runBase, stopVars>>

\* The whole transform chain; it touches nothing but the event.
Transform ==
    /\ pc = "transform"
    /\ \/ /\ cur \in Filtered
          /\ pc' = "drain"
          /\ cur' = 0
          /\ UNCHANGED next
       \/ /\ cur \notin Filtered
          /\ pc' = "dispatch"
          /\ next' = 1
          /\ UNCHANGED cur
    /\ UNCHANGED <<phase, chan, sourceVars, sinkVars, callVars, stopVars>>

\* Wrong variant: a failing transform only drops its event.
TransformErrSkips ==
    /\ pc = "transform"
    /\ pc' = "drain"
    /\ cur' = 0
    /\ UNCHANGED <<phase, chan, next, sourceVars, sinkVars, callVars, stopVars>>

TransformErr ==
    /\ pc = "transform"
    /\ ReturnErr("transform")
    /\ UNCHANGED <<received, running>>

Give(s) == received' = [received EXCEPT ![s] = Append(@, cur)]

Write ==
    /\ pc = "dispatch"
    /\ next <= NumSinks
    /\ Give(next)
    /\ next' = next + 1
    /\ UNCHANGED <<pc, phase, chan, cur, sourceVars, lost, callVars, stopVars>>

\* Wrong variant: a failing sink is skipped and the next one is tried.
WriteErrSkips ==
    /\ pc = "dispatch"
    /\ next <= NumSinks
    /\ next' = next + 1
    /\ UNCHANGED <<pc, phase, chan, cur, sourceVars, sinkVars, callVars, stopVars>>

\* Wrong variant: a failing sink is written to again until it succeeds.
WriteErrRetries ==
    /\ pc = "dispatch"
    /\ next <= NumSinks
    /\ Give(next)
    /\ UNCHANGED <<pc, phase, chan, cur, next, sourceVars, lost, callVars, stopVars>>

\* The failing sink may hold the event (a REST sink whose reply was lost).
WriteErr ==
    /\ pc = "dispatch"
    /\ next <= NumSinks
    /\ Give(next) \/ UNCHANGED received
    /\ ReturnErr("sink")
    /\ UNCHANGED running

Dispatched ==
    /\ pc = "dispatch"
    /\ next > NumSinks
    /\ pc' = "drain"
    /\ cur' = 0
    /\ UNCHANGED <<phase, chan, next, sourceVars, sinkVars, callVars, stopVars>>

-----------------------------------------------------------------------------
(* stop(): it borrows the pipeline mutably, so no run() is in progress.    *)

Stop ==
    /\ pc = "idle"
    /\ running' = FALSE
    /\ pc' = "closing"
    /\ next' = 1
    /\ closed' = {}
    /\ stopResult' = "none"
    /\ UNCHANGED <<phase, chan, cur, sourceVars, sinkVars, result, runs, runBase>>

\* Wrong variant: one close too many.
CloseSinkPastEnd ==
    /\ pc = "closing"
    /\ next <= NumSinks + 1
    /\ closed' = closed \cup {next}
    /\ next' = next + 1
    /\ UNCHANGED <<pc, phase, chan, cur, sourceVars, sinkVars, callVars, stopResult>>

CloseSink ==
    /\ pc = "closing"
    /\ next <= NumSinks
    /\ closed' = closed \cup {next}
    /\ next' = next + 1
    /\ UNCHANGED <<pc, phase, chan, cur, sourceVars, sinkVars, callVars, stopResult>>

StopReturns(why) ==
    /\ pc' = "idle"
    /\ stopResult' = why
    /\ UNCHANGED <<phase, chan, cur, next, sourceVars, sinkVars, callVars, closed>>

\* The first sink that fails to close ends stop(): the sinks after it stay
\* open and the connector is not told to stop.
CloseSinkErr ==
    /\ pc = "closing"
    /\ next <= NumSinks
    /\ StopReturns("sink")

StopConnector ==
    /\ pc = "closing"
    /\ next > NumSinks
    /\ StopReturns("ok") \/ StopReturns("source")

-----------------------------------------------------------------------------

Source == Fetch \/ Send \/ SourceOk \/ SourceErr
Drain ==
    \/ Recv \/ SnapshotDrained \/ StreamDrained
    \/ Transform \/ TransformErr
    \/ Write \/ WriteErr \/ Dispatched
Stopping == CloseSink \/ CloseSinkErr \/ StopConnector

Next == Run \/ RunRejected \/ Source \/ Drain \/ Stop \/ Stopping

Spec == Init /\ [][Next]_vars

(***************************************************************************)
(* Fairness.  FairSpec: the tokio runtime polls every ready future again,  *)
(* and connectors, transforms and sinks answer; a connector call that has  *)
(* no more rows returns, as those of the demo and of the snapshots do.     *)
(***************************************************************************)
FairSpec == Spec /\ WF_vars(Source) /\ WF_vars(Drain) /\ WF_vars(Stopping)

-----------------------------------------------------------------------------
(* Properties.                                                             *)

Has(s, e) == \E i \in 1..Len(received[s]) : received[s][i] = e

\* Every variable keeps its type: in particular `next' never passes the last
\* sink by more than one, and the channel never holds more than Capacity.
TypeOK ==
    /\ pc \in {"idle", "fetch", "send", "drain", "transform", "dispatch", "closing"}
    /\ phase \in {"snapshot", "stream"}
    /\ running \in BOOLEAN
    /\ result \in {"none", "ok", "stopped", "source", "transform", "sink"}
    /\ fetched \in Nat
    /\ chan \in Seq(Nat)
    /\ Len(chan) <= Capacity
    /\ sent \in Nat
    /\ cur \in Nat
    /\ next \in 1..(NumSinks + 1)
    /\ received \in [Sinks -> Seq(Nat)]
    /\ lost \subseteq Nat
    /\ runs \in Nat
    /\ runBase \in Nat
    /\ closed \subseteq Sinks
    /\ stopResult \in {"none", "ok", "sink", "source"}

\* Over any number of runs, snapshots and failures, a sink is never given an
\* event twice nor one older than an event it already has (process_event is
\* called in channel order and writes each event once).
InOrder ==
    \A s \in Sinks :
        \A i, j \in 1..Len(received[s]) : i < j => received[s][i] < received[s][j]

\* process_event stops at the first sink that fails, so a sink never has an
\* event that a sink added before it lacks.
FanOutOrder ==
    \A t \in Sinks : \A s \in 1..(t - 1) :
        \A i \in 1..Len(received[t]) : Has(s, received[t][i])

\* run() returns Ok only if every event its connector emitted, snapshot and
\* stream, reached every sink or was removed by a transform.
OkIsComplete ==
    result = "ok" =>
        \A e \in (runBase + 1)..sent :
            e \in Filtered \/ \A s \in Sinks : Has(s, e)

\* At any moment each accepted event is filtered out, still in flight, known
\* to every sink, or was dropped by a run() that returned an error: no event
\* disappears between the channels of the two phases or of two runs.
Accounted ==
    \A e \in 1..sent :
        \/ e \in Filtered
        \/ e \in InFlight
        \/ e \in lost
        \/ \A s \in Sinks : Has(s, e)

\* What a failing run() drops is the tail of what it emitted, at most one
\* channel of it: everything older was settled.
LossIsTail == \A e \in lost : e > runBase => e + Capacity > sent

\* A connector call that returned had no more than Capacity events to send:
\* one with more never returns, for nobody reads the channel meanwhile.
CallFitsChannel == pc # "send" => fetched <= Capacity

\* stop() returns Ok only after closing every sink and stopping the connector.
StopIsComplete == stopResult = "ok" => closed = Sinks

\* An Ok is never premature: run() has handed on every event, stop() has closed
\* every sink.
OkMeansDone == OkIsComplete /\ StopIsComplete

\* The steps the call in progress can still take: EventWork for an event in the
\* channel (receive, transform, one write per sink, dispatched), two more for a
\* row not read yet (read, send), and the whole stream after a snapshot.
EventWork == NumSinks + 4
SourceWork(rows) == rows * (EventWork + 2)
CallWork ==
    CASE pc = "fetch"     -> SourceWork(MaxRows - fetched) + Len(chan) * EventWork + 2
      [] pc = "send"      -> SourceWork(MaxRows - fetched) + Len(chan) * EventWork + EventWork + 3
      [] pc = "drain"     -> Len(chan) * EventWork + 1
      [] pc = "transform" -> Len(chan) * EventWork + NumSinks + 4
      [] pc = "dispatch"  -> Len(chan) * EventWork + NumSinks + 4 - next
      [] pc = "closing"   -> NumSinks + 2 - next
      [] pc = "idle"      -> 0
StreamAhead ==
    IF phase = "snapshot" /\ pc \notin {"idle", "closing"} THEN SourceWork(MaxRows) + 2 ELSE 0
Work == CallWork + StreamAhead

\* Every step of run() and stop() leaves less to do: neither loop of run() nor
\* the loops over the sinks go round without getting on, so a call on a source
\* that ends can fail to return only by waiting for ever.
CallsGetOn == [][pc # "idle" => Work' < Work]_vars

\* With connector calls that fit the channel, run() and stop() return.
CallsReturn == (pc # "idle") ~> (pc = "idle")

\* A source held back by a full channel is let go again: the backpressure
\* that ARCHITECTURE.md, "Backpressure Design", describes.
BackpressureReleases == Blocked ~> ~Blocked

\* Once the channel is full under a connector call, no step of run() and no
\* other call on the pipeline ever changes that: it can only be dropped.
BlockedStays == [][Blocked => Blocked']_vars

-----------------------------------------------------------------------------
(* Refinement of Delivery: what is in the channel and the event in hand    *)
(* are the emitted events not settled yet.                                 *)

InHand == IF cur = 0 THEN 0 ELSE 1
Settled == sent - Len(chan) - InHand

Promise == INSTANCE Delivery WITH emitted <- sent, settled <- Settled,
                                  delivered <- received

\* The pipeline implements Delivery: events are settled one at a time and in
\* order, handed to the sinks in the order they were added, and skipped only
\* by a run() that returns an error.
KeepsPromise == Promise!Spec

-----------------------------------------------------------------------------
(* The inductive invariant behind the properties above.                    *)

NotRunning == pc \in {"idle", "closing"}

\* The channel holds the newest events without a gap, and the event in hand
\* is the one just before them.
Contiguous ==
    /\ runBase + Len(chan) + InHand <= sent
    /\ Len(chan) + InHand <= Capacity
    /\ \A i \in 1..Len(chan) : chan[i] = (sent - Len(chan)) + i
    /\ cur # 0 => cur = sent - Len(chan)

\* A connector call reads no more than its source has.
FetchBound == fetched <= MaxRows

\* How the control state restricts the rest.
Control ==
    /\ cur # 0 <=> pc \in {"transform", "dispatch"}
    /\ NotRunning => chan = <<>>
    /\ pc = "fetch" => fetched = Len(chan)
    /\ pc = "send" => fetched = Len(chan) + 1
    /\ result = "ok" => NotRunning
    /\ pc = "dispatch" => cur \notin Filtered

\* Sinks hold settled events, except that those before `next' already have
\* the one being dispatched.
HeldIsSettled ==
    \A s \in Sinks : \A i \in 1..Len(received[s]) :
        \/ received[s][i] <= Settled
        \/ pc = "dispatch" /\ s < next /\ received[s][i] = cur

Dispatching == pc = "dispatch" => \A s \in 1..(next - 1) : Has(s, cur)

SettledIsAccounted ==
    \A e \in 1..Settled :
        e \in Filtered \/ e \in lost \/ \A s \in Sinks : Has(s, e)

\* Events are lost only by the run that emitted them, as it fails.
LostByFailure ==
    \A e \in lost :
        /\ e <= Settled
        /\ e > runBase => NotRunning /\ result # "ok" /\ e + Capacity > sent

IInv ==
    /\ TypeOK
    /\ Contiguous
    /\ Control
    /\ CallFitsChannel
    /\ HeldIsSettled
    /\ Dispatching
    /\ InOrder
    /\ FanOutOrder
    /\ SettledIsAccounted
    /\ LostByFailure

=============================================================================
