--------------------------- MODULE PipelineProofs ---------------------------
(***************************************************************************)
(* Proofs about Pipeline, for every capacity, number of sinks, filter and  *)
(* bound: the inductive invariant IInv, the safety properties it implies,  *)
(* that a blocked source stays blocked, and that Pipeline implements       *)
(* Delivery.                                                               *)
(***************************************************************************)
EXTENDS Pipeline, TLAPS

(* The groups of variables and the sub-actions that make up every action.  *)
USE DEF sourceVars, sinkVars, callVars, stopVars, vars, Sinks

\* Facts about the constants and the empty channel that many leaves need.
LEMMA Basics ==
    /\ Capacity \in Nat /\ 1 <= Capacity
    /\ NumSinks \in Nat /\ 1 \in 1..(NumSinks + 1)
    /\ <<>> \in Seq(Nat) /\ Len(<<>>) = 0
  BY PipelineAssumption

\* What a completed send does to the channel.
LEMMA SendEffect ==
  ASSUME TypeOK, Send
  PROVE  /\ chan' \in Seq(Nat)
         /\ Len(chan') = Len(chan) + 1
         /\ Len(chan') <= Capacity
         /\ sent' = sent + 1 /\ sent' \in Nat
         /\ \A i \in 1..Len(chan') :
                chan'[i] = IF i <= Len(chan) THEN chan[i] ELSE sent + 1
<1>1. chan \in Seq(Nat) /\ sent + 1 \in Nat /\ Len(chan) \in Nat
  BY DEF TypeOK
<1>2. /\ chan' = Append(chan, sent + 1)
      /\ sent' = sent + 1
      /\ Len(chan) < Capacity
  BY DEF Send
<1>3. QED
  BY <1>1, <1>2, Basics

\* What a receive does to the channel.
LEMMA RecvEffect ==
  ASSUME TypeOK, Recv
  PROVE  /\ chan' \in Seq(Nat)
         /\ Len(chan) \in Nat \ {0}
         /\ Len(chan') = Len(chan) - 1
         /\ cur' = chan[1] /\ cur' \in Nat
         /\ \A i \in 1..Len(chan') : chan'[i] = chan[i + 1]
<1>1. chan \in Seq(Nat) /\ chan # <<>> /\ chan' = Tail(chan) /\ cur' = Head(chan)
  BY DEF TypeOK, Recv
<1>2. QED
  BY <1>1

\* What writing to sink s does to the sinks.
LEMMA GiveEffect ==
  ASSUME TypeOK, NEW s \in Sinks, Give(s)
  PROVE  /\ received' \in [Sinks -> Seq(Nat)]
         /\ \A t \in Sinks \ {s} : received'[t] = received[t]
         /\ Len(received[s]) \in Nat
         /\ Len(received'[s]) = Len(received[s]) + 1
         /\ \A i \in 1..Len(received'[s]) :
                received'[s][i] = IF i <= Len(received[s]) THEN received[s][i] ELSE cur
<1>1. received[s] \in Seq(Nat) /\ cur \in Nat
  BY DEF TypeOK
<1>2. received'[s] = Append(received[s], cur)
  BY DEF TypeOK, Give
<1>3. \A t \in Sinks \ {s} : received'[t] = received[t]
  BY DEF TypeOK, Give
<1>4. received' \in [Sinks -> Seq(Nat)]
  BY DEF TypeOK, Give
<1>5. QED
  BY <1>1, <1>2, <1>3, <1>4

\* A failing run() adds only events to `lost'.
LEMMA InFlightType == TypeOK => InFlight \subseteq Nat
  BY DEF TypeOK, InFlight

\* A failing run() keeps every type, whatever its error is.
LEMMA ReturnErrType ==
  ASSUME TypeOK,
         NEW why \in {"source", "transform", "sink"}, ReturnErr(why),
         running' \in BOOLEAN,
         received' \in [Sinks -> Seq(Nat)]
  PROVE  TypeOK'
<1>1. lost' \subseteq Nat
  BY InFlightType DEF TypeOK, ReturnErr
<1>2. chan' \in Seq(Nat) /\ Len(chan') <= Capacity /\ cur' \in Nat
  BY Basics DEF ReturnErr
<1>3. QED
  BY <1>1, <1>2 DEF TypeOK, ReturnErr

\* Every initial state satisfies TypeOK.
LEMMA InitType == ASSUME Init PROVE TypeOK
<1>1. received \in [Sinks -> Seq(Nat)]
  BY Basics DEF Init
<1>2. chan \in Seq(Nat) /\ Len(chan) <= Capacity /\ next \in 1..(NumSinks + 1)
  BY Basics DEF Init
<1>3. QED
  BY <1>1, <1>2 DEF Init, TypeOK

\* Every step of the pipeline preserves TypeOK.
LEMMA NextType == TypeOK /\ [Next]_vars => TypeOK'
<1> SUFFICES ASSUME TypeOK, [Next]_vars PROVE TypeOK'
  OBVIOUS
<1> USE Basics DEF TypeOK
<1>1. ASSUME NEW p \in {"snapshot", "stream"}, RunWith(p)
      PROVE  TypeOK'
  BY <1>1 DEF RunWith, Produce
<1>2. CASE RunRejected
  BY <1>2 DEF RunRejected
<1>3. CASE Fetch
  BY <1>3 DEF Fetch
<1>4. CASE Send
  BY <1>4, SendEffect DEF Send
<1>5. CASE SourceOk
  BY <1>5 DEF SourceOk
<1>7. CASE SourceErr
  BY ReturnErrType, <1>7 DEF SourceErr
<1>8. CASE Recv
  BY <1>8, RecvEffect DEF Recv
<1>9. CASE SnapshotDrained
  BY <1>9 DEF SnapshotDrained, Produce
<1>10. CASE StreamDrained
  BY <1>10 DEF StreamDrained
<1>11. CASE Transform
  BY <1>11 DEF Transform
<1>12. CASE TransformErr
  BY ReturnErrType, <1>12 DEF TransformErr
<1>13. CASE Write
  <2>1. next \in Sinks /\ Give(next)
    BY <1>13 DEF Write
  <2>2. received' \in [Sinks -> Seq(Nat)]
    BY <2>1, GiveEffect
  <2>3. QED
    BY <1>13, <2>1, <2>2 DEF Write
<1>14. CASE WriteErr
  <2>1. next \in Sinks /\ (Give(next) \/ UNCHANGED received)
    BY <1>14 DEF WriteErr
  <2>2. received' \in [Sinks -> Seq(Nat)]
    BY <2>1, GiveEffect
  <2>3. QED
    BY ReturnErrType, <1>14, <2>2 DEF WriteErr
<1>15. CASE Dispatched
  BY <1>15 DEF Dispatched
<1>16. CASE Stop
  BY <1>16 DEF Stop
<1>17. CASE CloseSink
  BY <1>17 DEF CloseSink
<1>18. CASE CloseSinkErr
  BY <1>18 DEF CloseSinkErr, StopReturns
<1>19. CASE StopConnector
  BY <1>19 DEF StopConnector, StopReturns
<1>20. CASE UNCHANGED vars
  BY <1>20
<1> QED
  BY <1>1, <1>2, <1>3, <1>4, <1>5, <1>7, <1>8, <1>9, <1>10, <1>11, <1>12,
     <1>13, <1>14, <1>15, <1>16, <1>17, <1>18, <1>19, <1>20
     DEF Next, Run, Source, Drain, Stopping

\* The type invariant of the pipeline holds in every reachable state.
THEOREM TypeCorrect == Spec => []TypeOK
<1>1. QED
  BY InitType, NextType, PTL DEF Spec

-----------------------------------------------------------------------------
(* The numbering of events: Contiguous, Control and CallFitsChannel.       *)

Shape == Contiguous /\ Control /\ CallFitsChannel

\* What the numbering says of Settled in one state.
LEMMA SettledFacts ==
  ASSUME TypeOK, Contiguous, Control
  PROVE  /\ Settled \in Nat
         /\ runBase <= Settled
         /\ Settled <= sent
         /\ cur # 0 => cur = Settled + 1 /\ cur <= sent
         /\ NotRunning => Settled = sent /\ cur = 0
<1>1. InHand \in Nat /\ Len(chan) \in Nat /\ sent \in Nat /\ runBase \in Nat
  BY DEF TypeOK, InHand
<1>2. runBase + Len(chan) + InHand <= sent
  BY DEF Contiguous
<1>3. Settled = sent - Len(chan) - InHand
  BY DEF Settled
<1>4. Settled \in Nat /\ runBase <= Settled /\ Settled <= sent
  BY <1>1, <1>2, <1>3
<1>5. cur # 0 => InHand = 1 /\ cur = sent - Len(chan)
  BY DEF InHand, Contiguous
<1>6. NotRunning => cur = 0 /\ Len(chan) = 0 /\ InHand = 0
  BY Basics DEF Control, NotRunning, InHand
<1>7. QED
  BY <1>1, <1>3, <1>4, <1>5, <1>6

\* Every step preserves the numbering of events.
LEMMA NextShape ==
  ASSUME TypeOK, Shape, [Next]_vars PROVE Shape'
<1> USE DEF Shape, TypeOK
<1>0. /\ Len(chan) \in Nat /\ sent \in Nat /\ runBase \in Nat /\ fetched \in Nat
      /\ Capacity \in Nat /\ Len(<<>>) = 0
  BY Basics
<1>1. ASSUME NEW p \in {"snapshot", "stream"}, RunWith(p)
      PROVE  Shape'
  BY <1>0, <1>1 DEF RunWith, Produce, Contiguous, Control, CallFitsChannel, InHand, NotRunning
<1>2. CASE RunRejected
  BY <1>2 DEF RunRejected, Contiguous, Control, CallFitsChannel, InHand, NotRunning
<1>3. CASE Fetch
  BY <1>0, <1>3 DEF Fetch, Contiguous, Control, CallFitsChannel, InHand, NotRunning
<1>4. CASE Send
  <2>1. /\ pc = "send" /\ pc' = "fetch" /\ cur' = cur /\ cur = 0
        /\ UNCHANGED <<runBase, fetched, result>>
    BY <1>4 DEF Send, Control
  <2>2. Contiguous'
    <3>1. /\ sent' = sent + 1 /\ Len(chan') = Len(chan) + 1
          /\ runBase' = runBase /\ InHand' = InHand /\ InHand = 0
      BY <1>4, <2>1, SendEffect DEF InHand
    <3>2. runBase' + Len(chan') + InHand' <= sent' /\ Len(chan') + InHand' <= Capacity
      BY <1>0, <1>4, <3>1, SendEffect DEF Contiguous
    <3>3. ASSUME NEW i \in 1..Len(chan')
          PROVE  chan'[i] = (sent' - Len(chan')) + i
      <4>1. chan'[i] = IF i <= Len(chan) THEN chan[i] ELSE sent + 1
        BY <1>4, SendEffect
      <4>2. i \in Nat /\ i <= Len(chan) + 1 /\ 1 <= i
        BY <1>0, <3>1
      <4>3. CASE i <= Len(chan)
        BY <1>0, <3>1, <4>1, <4>2, <4>3 DEF Contiguous
      <4>4. CASE i = Len(chan) + 1
        BY <1>0, <3>1, <4>1, <4>4
      <4>5. QED
        BY <1>0, <4>2, <4>3, <4>4
    <3>4. QED
      BY <2>1, <3>2, <3>3 DEF Contiguous
  <2>3. Control'
    BY <1>0, <1>4, <2>1, SendEffect DEF Control, NotRunning
  <2>4. CallFitsChannel'
    BY <1>0, <1>4, <2>1, SendEffect DEF Control, CallFitsChannel
  <2>5. QED
    BY <2>2, <2>3, <2>4
<1>5. CASE SourceOk
  BY <1>0, <1>5 DEF SourceOk, Contiguous, Control, CallFitsChannel, InHand, NotRunning
<1>6. ASSUME NEW why \in {"source", "transform", "sink"}, ReturnErr(why), pc # "send"
      PROVE  Shape'
  <2>1. /\ pc' = "idle" /\ chan' = <<>> /\ cur' = 0 /\ result' # "ok"
        /\ UNCHANGED <<sent, runBase, fetched>>
    BY <1>6 DEF ReturnErr
  <2>2. runBase <= sent
    BY <1>0 DEF Contiguous, InHand
  <2>3. QED
    BY <1>0, <1>6, <2>1, <2>2 DEF Contiguous, Control, CallFitsChannel, InHand, NotRunning
<1>7. CASE SourceErr
  BY <1>6, <1>7 DEF SourceErr
<1>8. CASE Recv
  <2>1. /\ pc = "drain" /\ pc' = "transform" /\ cur = 0
        /\ UNCHANGED <<runBase, fetched, result, sent>>
    BY <1>8 DEF Recv, Control
  <2>2. cur' = sent - Len(chan') /\ cur' # 0
    <3>1. /\ Len(chan) \in Nat \ {0} /\ Len(chan') = Len(chan) - 1
          /\ cur' = chan[1]
      BY <1>8, RecvEffect
    <3>2. chan[1] = (sent - Len(chan)) + 1 /\ Len(chan) <= sent
      BY <1>0, <2>1, <3>1 DEF Contiguous, InHand
    <3>3. QED
      BY <1>0, <3>1, <3>2
  <2>3. Contiguous'
    <3>1. /\ Len(chan) \in Nat \ {0} /\ Len(chan') = Len(chan) - 1
          /\ InHand = 0 /\ InHand' = 1
      BY <1>8, <2>1, <2>2, RecvEffect DEF InHand
    <3>2. runBase' + Len(chan') + InHand' <= sent' /\ Len(chan') + InHand' <= Capacity
      BY <1>0, <2>1, <3>1 DEF Contiguous
    <3>3. ASSUME NEW i \in 1..Len(chan')
          PROVE  chan'[i] = (sent' - Len(chan')) + i
      <4>1. chan'[i] = chan[i + 1]
        BY <1>8, RecvEffect
      <4>2. i + 1 \in 1..Len(chan)
        BY <3>1
      <4>3. chan[i + 1] = (sent - Len(chan)) + (i + 1)
        BY <4>2 DEF Contiguous
      <4>4. QED
        BY <1>0, <2>1, <3>1, <4>1, <4>2, <4>3
    <3>4. QED
      BY <2>1, <2>2, <3>2, <3>3 DEF Contiguous
  <2>4. Control' /\ CallFitsChannel'
    BY <2>1, <2>2 DEF Control, CallFitsChannel, NotRunning
  <2>5. QED
    BY <2>3, <2>4
<1>9. CASE SnapshotDrained
  BY <1>0, <1>9 DEF SnapshotDrained, Produce, Contiguous, Control, CallFitsChannel, InHand, NotRunning
<1>10. CASE StreamDrained
  BY <1>0, <1>10 DEF StreamDrained, Contiguous, Control, CallFitsChannel, InHand, NotRunning
<1>11. CASE Transform
  BY <1>0, <1>11 DEF Transform, Contiguous, Control, CallFitsChannel, InHand, NotRunning
<1>12. CASE TransformErr
  BY <1>6, <1>12 DEF TransformErr
<1>13. CASE Write
  BY <1>0, <1>13 DEF Write, Contiguous, Control, CallFitsChannel, InHand, NotRunning
<1>14. CASE WriteErr
  BY <1>6, <1>14 DEF WriteErr
<1>15. CASE Dispatched
  BY <1>0, <1>15 DEF Dispatched, Contiguous, Control, CallFitsChannel, InHand, NotRunning
<1>16. CASE Stop
  BY <1>16 DEF Stop, Contiguous, Control, CallFitsChannel, InHand, NotRunning
<1>17. CASE CloseSink
  BY <1>17 DEF CloseSink, Contiguous, Control, CallFitsChannel, InHand, NotRunning
<1>18. ASSUME NEW why \in {"ok", "sink", "source"}, StopReturns(why), pc = "closing"
       PROVE  Shape'
  BY <1>18 DEF StopReturns, Contiguous, Control, CallFitsChannel, InHand, NotRunning
<1>19. CASE CloseSinkErr
  BY <1>18, <1>19 DEF CloseSinkErr
<1>20. CASE StopConnector
  BY <1>18, <1>20 DEF StopConnector
<1>21. CASE UNCHANGED vars
  BY <1>21 DEF Contiguous, Control, CallFitsChannel, InHand, NotRunning
<1> QED
  BY <1>1, <1>2, <1>3, <1>4, <1>5, <1>7, <1>8, <1>9, <1>10, <1>11, <1>12,
     <1>13, <1>14, <1>15, <1>16, <1>17, <1>19, <1>20, <1>21
     DEF Next, Run, Source, Drain, Stopping

-----------------------------------------------------------------------------
(* Every step is of one of five kinds as far as sinks and losses go.       *)

\* Nothing is settled, written or lost.
Quiet ==
    /\ UNCHANGED <<received, lost>>
    /\ Settled' = Settled
    /\ sent' = sent \/ sent' = sent + 1
    /\ pc # "dispatch"
    /\ pc' = "dispatch" => next' = 1
    /\ \/ ~NotRunning /\ runBase' = runBase
       \/ /\ NotRunning /\ NotRunning'
          /\ result' = "ok" => result = "ok"
          /\ UNCHANGED <<sent, runBase>>
       \/ runBase' = Settled

\* The event in hand is filtered out, or every sink has been written to.
Settling ==
    /\ UNCHANGED <<received, lost, sent, runBase>>
    /\ Settled' = Settled + 1
    /\ cur = Settled + 1
    /\ ~NotRunning
    /\ pc' = "drain"
    /\ cur \in Filtered \/ (pc = "dispatch" /\ next > NumSinks)

\* run() returns an error; a failing write may have gone through.
Failing ==
    /\ ~NotRunning
    /\ pc' = "idle"
    /\ result' # "ok"
    /\ lost' = lost \cup InFlight
    /\ UNCHANGED <<sent, runBase>>
    /\ Settled' = sent
    /\ \/ UNCHANGED received
       \/ pc = "dispatch" /\ next \in Sinks /\ Give(next)

\* Every early return of run() is a Failing step.
LEMMA ReturnIsFailing ==
  ASSUME TypeOK, Shape, ~NotRunning,
         NEW why \in {"source", "transform", "sink"}, ReturnErr(why),
         \/ UNCHANGED received
         \/ pc = "dispatch" /\ next \in Sinks /\ Give(next)
  PROVE  Failing
<1>1. Len(<<>>) = 0 /\ sent \in Nat
  BY Basics DEF TypeOK
<1>2. Settled' = sent
  BY <1>1 DEF ReturnErr, Settled, InHand
<1>3. QED
  BY <1>2 DEF ReturnErr, Failing

\* The five kinds cover every step.
LEMMA StepKinds ==
  ASSUME TypeOK, Shape, [Next]_vars
  PROVE  Quiet \/ Settling \/ Write \/ Failing \/ UNCHANGED vars
<1>0. /\ Len(chan) \in Nat /\ sent \in Nat /\ runBase \in Nat /\ Len(<<>>) = 0
      /\ Settled \in Nat
      /\ cur # 0 => cur = Settled + 1
      /\ NotRunning => Settled = sent
  BY Basics, SettledFacts DEF Shape, TypeOK
<1> USE DEF NotRunning
<1>1. ASSUME NEW p \in {"snapshot", "stream"}, RunWith(p)
      PROVE  Quiet
  <2>1. /\ pc = "idle" /\ chan = <<>> /\ chan' = <<>> /\ cur' = cur /\ sent' = sent
        /\ pc' = "fetch" /\ runBase' = sent /\ UNCHANGED <<received, lost>>
    BY <1>1 DEF RunWith, Produce, Shape, Control
  <2>2. Settled' = Settled
    BY <2>1 DEF Settled, InHand
  <2>3. QED
    BY <1>0, <2>1, <2>2 DEF Quiet
<1>2. CASE RunRejected
  BY <1>2 DEF RunRejected, Quiet, Settled, InHand
<1>3. CASE Fetch
  BY <1>3 DEF Fetch, Quiet, Settled, InHand
<1>4. CASE Send
  <2>1. /\ Len(chan') = Len(chan) + 1 /\ sent' = sent + 1 /\ InHand' = InHand
        /\ InHand \in Nat
    BY <1>4, SendEffect DEF Send, InHand
  <2>2. Settled' = Settled
    BY <1>0, <2>1 DEF Settled
  <2>3. QED
    BY <1>4, <2>2 DEF Send, Quiet
<1>5. CASE SourceOk
  BY <1>5 DEF SourceOk, Quiet, Settled, InHand
<1>6. CASE SourceErr
  BY <1>6, ReturnIsFailing DEF SourceErr
<1>7. CASE Recv
  <2>1. /\ Len(chan') = Len(chan) - 1 /\ sent' = sent /\ Len(chan') \in Nat
        /\ pc = "drain" /\ pc' = "transform" /\ runBase' = runBase
        /\ UNCHANGED <<received, lost>>
    BY <1>7, RecvEffect DEF Recv
  <2>2. Shape'
    BY NextShape
  <2>3. InHand = 0 /\ InHand' = 1
    BY <2>1, <2>2 DEF Shape, Control, InHand
  <2>4. Settled' = Settled
    BY <1>0, <2>1, <2>3 DEF Settled
  <2>5. QED
    BY <2>1, <2>4 DEF Quiet
<1>8. CASE SnapshotDrained
  BY <1>8 DEF SnapshotDrained, Produce, Quiet, Settled, InHand
<1>9. CASE StreamDrained
  BY <1>9 DEF StreamDrained, Quiet, Settled, InHand
<1>10. CASE Transform
  <2>1. /\ pc = "transform" /\ cur # 0 /\ UNCHANGED <<chan, sent, received, lost, runBase>>
    BY <1>10 DEF Transform, Shape, Control
  <2>2. CASE cur \in Filtered /\ pc' = "drain" /\ cur' = 0
    <3>1. InHand = 1 /\ InHand' = 0
      BY <2>1, <2>2 DEF InHand
    <3>2. Settled' = Settled + 1
      BY <1>0, <2>1, <3>1 DEF Settled
    <3>3. QED
      BY <1>0, <2>1, <2>2, <3>2 DEF Settling
  <2>3. CASE pc' = "dispatch" /\ next' = 1 /\ cur' = cur
    BY <2>1, <2>3 DEF Quiet, Settled, InHand
  <2>4. QED
    BY <1>10, <2>2, <2>3 DEF Transform
<1>11. CASE TransformErr
  BY <1>11, ReturnIsFailing DEF TransformErr
<1>12. CASE WriteErr
  BY <1>12, ReturnIsFailing DEF WriteErr, TypeOK
<1>13. CASE Dispatched
  <2>1. /\ pc = "dispatch" /\ cur # 0 /\ UNCHANGED <<chan, sent, received, lost, runBase>>
        /\ cur' = 0 /\ pc' = "drain" /\ next > NumSinks
    BY <1>13 DEF Dispatched, Shape, Control
  <2>2. InHand = 1 /\ InHand' = 0
    BY <2>1 DEF InHand
  <2>3. Settled' = Settled + 1
    BY <1>0, <2>1, <2>2 DEF Settled
  <2>4. QED
    BY <1>0, <2>1, <2>3 DEF Settling
<1>14. CASE Stop
  BY <1>14 DEF Stop, Quiet, Settled, InHand
<1>15. CASE CloseSink
  BY <1>15 DEF CloseSink, Quiet, Settled, InHand
<1>16. ASSUME NEW why \in {"ok", "sink", "source"}, StopReturns(why), pc = "closing"
       PROVE  Quiet
  BY <1>16 DEF StopReturns, Quiet, Settled, InHand
<1>17. CASE CloseSinkErr
  BY <1>16, <1>17 DEF CloseSinkErr
<1>18. CASE StopConnector
  BY <1>16, <1>18 DEF StopConnector
<1> QED
  BY <1>1, <1>2, <1>3, <1>4, <1>5, <1>6, <1>7, <1>8, <1>9, <1>10, <1>11,
     <1>12, <1>13, <1>14, <1>15, <1>17, <1>18
     DEF Next, Run, Source, Drain, Stopping

-----------------------------------------------------------------------------
(* What the sinks hold: the five conjuncts of IInv about `received'.       *)

Holdings ==
    /\ HeldIsSettled
    /\ Dispatching
    /\ InOrder
    /\ FanOutOrder
    /\ SettledIsAccounted

\* What a sink holds is a finite list of event numbers.
LEMMA HeldType ==
  ASSUME TypeOK, NEW s \in Sinks
  PROVE  /\ Len(received[s]) \in Nat
         /\ \A i \in 1..Len(received[s]) : received[s][i] \in Nat
<1>1. received[s] \in Seq(Nat)
  BY DEF TypeOK
<1>2. QED
  BY <1>1

\* A sink never forgets an event.
LEMMA HasGrows ==
  ASSUME TypeOK, UNCHANGED received \/ (next \in Sinks /\ Give(next)),
         NEW s \in Sinks, NEW e, Has(s, e)
  PROVE  Has(s, e)'
<1>1. CASE UNCHANGED received
  BY <1>1 DEF Has
<1>2. CASE next \in Sinks /\ Give(next) /\ s # next
  <2>1. received'[s] = received[s]
    BY <1>2, GiveEffect
  <2>2. QED
    BY <2>1 DEF Has
<1>3. CASE next \in Sinks /\ Give(next) /\ s = next
  <2>1. PICK i \in 1..Len(received[s]) : received[s][i] = e
    BY DEF Has
  <2>2. /\ Len(received[s]) \in Nat /\ Len(received'[s]) = Len(received[s]) + 1
        /\ \A k \in 1..Len(received'[s]) :
              received'[s][k] = IF k <= Len(received[s]) THEN received[s][k] ELSE cur
    BY <1>3, GiveEffect
  <2>3. i \in 1..Len(received'[s]) /\ received'[s][i] = e
    BY <2>1, <2>2
  <2>4. QED
    BY <2>3 DEF Has
<1>4. QED
  BY <1>1, <1>2, <1>3

\* The sink just written to has the event that was in hand.
LEMMA GiveHas ==
  ASSUME TypeOK, NEW s \in Sinks, Give(s), NEW e, e = cur PROVE Has(s, e)'
<1>1. /\ Len(received[s]) \in Nat /\ Len(received'[s]) = Len(received[s]) + 1
      /\ received'[s][Len(received[s]) + 1] = cur
  BY GiveEffect
<1>2. Len(received[s]) + 1 \in 1..Len(received'[s])
  BY <1>1
<1>3. QED
  BY <1>1, <1>2 DEF Has

\* Writing the event in hand to the next sink keeps every sink in order, and
\* every sink behind the ones added before it.
LEMMA GiveKeepsOrder ==
  ASSUME TypeOK, Shape, Holdings, pc = "dispatch", next \in Sinks, Give(next)
  PROVE  InOrder' /\ FanOutOrder'
<1>1. /\ received' \in [Sinks -> Seq(Nat)]
      /\ \A t \in Sinks \ {next} : received'[t] = received[t]
      /\ Len(received[next]) \in Nat
      /\ Len(received'[next]) = Len(received[next]) + 1
      /\ \A i \in 1..Len(received'[next]) :
            received'[next][i] = IF i <= Len(received[next]) THEN received[next][i] ELSE cur
  BY GiveEffect
<1>2. /\ Settled \in Nat /\ cur = Settled + 1 /\ next \in Nat
  BY SettledFacts DEF Shape, Control, TypeOK
<1>3. \A i \in 1..Len(received[next]) :
         received[next][i] \in Nat /\ received[next][i] < cur
  BY <1>2 DEF Holdings, HeldIsSettled, TypeOK
<1>4. ASSUME NEW s \in Sinks, NEW i \in 1..Len(received'[s]),
             NEW j \in 1..Len(received'[s]), i < j
      PROVE  received'[s][i] < received'[s][j]
  <2>1. CASE s # next
    BY <1>1, <1>4, <2>1 DEF Holdings, InOrder
  <2>2. CASE s = next /\ j <= Len(received[next])
    <3>1. i \in 1..Len(received[next]) /\ j \in 1..Len(received[next])
      BY <1>1, <1>4, <2>2
    <3>2. QED
      BY <1>1, <1>4, <2>2, <3>1 DEF Holdings, InOrder
  <2>3. CASE s = next /\ j = Len(received[next]) + 1
    <3>1. i \in 1..Len(received[next])
      BY <1>1, <1>4, <2>3
    <3>2. received'[s][i] = received[s][i] /\ received'[s][j] = cur
      BY <1>1, <2>3, <3>1
    <3>3. QED
      BY <1>3, <2>3, <3>1, <3>2
  <2>4. QED
    BY <1>1, <2>1, <2>2, <2>3
<1>5. ASSUME NEW t \in Sinks, NEW s \in 1..(t - 1), NEW i \in 1..Len(received'[t]),
             NEW e, e = received'[t][i]
      PROVE  Has(s, e)'
  <2>1. s \in Sinks
    BY Basics
  <2>2. CASE t # next
    <3>1. received'[t] = received[t]
      BY <1>1, <2>2
    <3>2. Has(s, e)
      BY <1>5, <3>1 DEF Holdings, FanOutOrder
    <3>3. QED
      BY <2>1, <3>1, <3>2, HasGrows
  <2>3. CASE t = next /\ i <= Len(received[next])
    <3>1. received'[t][i] = received[t][i] /\ i \in 1..Len(received[t])
      BY <1>1, <2>3
    <3>2. Has(s, e)
      BY <1>5, <3>1 DEF Holdings, FanOutOrder
    <3>3. QED
      BY <2>1, <3>1, <3>2, HasGrows
  <2>4. CASE t = next /\ i = Len(received[next]) + 1
    <3>1. received'[t][i] = cur
      BY <1>1, <2>4
    <3>2. e = cur /\ Has(s, cur)
      BY <1>5, <2>4, <3>1 DEF Holdings, Dispatching
    <3>3. QED
      BY <2>1, <3>1, <3>2, HasGrows
  <2>5. QED
    BY <1>1, <2>2, <2>3, <2>4
<1>6. InOrder'
  BY <1>4 DEF InOrder
<1>7. FanOutOrder'
  <2> SUFFICES ASSUME NEW t \in Sinks, NEW s \in 1..(t - 1), NEW i \in 1..Len(received'[t])
               PROVE  \E j \in 1..Len(received'[s]) : received'[s][j] = received'[t][i]
    BY DEF FanOutOrder, Has
  <2>1. PICK e : e = received'[t][i]
    OBVIOUS
  <2>2. Has(s, e)'
    BY <1>5, <2>1
  <2>3. QED
    BY <2>1, <2>2 DEF Has
<1>8. QED
  BY <1>6, <1>7

\* Steps that write to no sink.
LEMMA SameHoldings ==
  ASSUME TypeOK, Shape, Holdings, UNCHANGED received, lost \subseteq lost',
         Settled' \in Nat, Settled <= Settled',
         pc = "dispatch" => cur <= Settled',
         pc' = "dispatch" => next' = 1,
         \A e \in (Settled + 1)..Settled' :
            e \in Filtered \/ e \in lost' \/ \A s \in Sinks : Has(s, e)
  PROVE  Holdings'
<1>1. Settled \in Nat /\ \A s \in Sinks : \A i \in 1..Len(received[s]) : received[s][i] \in Nat
  BY SettledFacts, HeldType DEF Shape
<1>2. ASSUME NEW s \in Sinks, NEW i \in 1..Len(received[s])
      PROVE  received[s][i] <= Settled'
  BY <1>1, <1>2 DEF Holdings, HeldIsSettled, TypeOK
<1>3. HeldIsSettled'
  BY <1>2 DEF HeldIsSettled
<1>4. Dispatching'
  BY DEF Dispatching
<1>5. InOrder' /\ FanOutOrder'
  BY DEF Holdings, InOrder, FanOutOrder, Has
<1>6. ASSUME NEW e \in 1..Settled'
      PROVE  e \in Filtered \/ e \in lost' \/ \A s \in Sinks : Has(s, e)
  <2>1. CASE e \in 1..Settled
    BY <2>1 DEF Holdings, SettledIsAccounted
  <2>2. CASE e \in (Settled + 1)..Settled'
    BY <2>2
  <2>3. QED
    BY <1>1, <2>1, <2>2
<1>7. SettledIsAccounted'
  BY <1>6 DEF SettledIsAccounted, Has
<1>8. QED
  BY <1>3, <1>4, <1>5, <1>7 DEF Holdings

\* Every step preserves what the sinks hold.
LEMMA NextHoldings ==
  ASSUME TypeOK, Shape, Holdings, TypeOK', Shape', [Next]_vars
  PROVE  Holdings'
<1>1. /\ Settled \in Nat /\ Settled <= sent
      /\ cur # 0 => cur = Settled + 1 /\ cur <= sent
      /\ pc = "dispatch" => cur # 0 /\ cur \notin Filtered
      /\ next \in Nat /\ sent \in Nat
  BY SettledFacts DEF Shape, Control, TypeOK
<1>2. CASE Quiet
  BY <1>1, <1>2, SameHoldings DEF Quiet
<1>3. CASE Settling
  <2>1. /\ UNCHANGED <<received, lost>> /\ Settled' = Settled + 1 /\ cur = Settled + 1
        /\ pc' = "drain"
    BY <1>3 DEF Settling
  <2>2. cur \in Filtered \/ \A s \in Sinks : Has(s, cur)
    BY <1>1, <1>3, Basics DEF Settling, Holdings, Dispatching
  <2>3. \A e \in (Settled + 1)..Settled' : e = cur
    BY <1>1, <2>1
  <2>4. QED
    BY <1>1, <2>1, <2>2, <2>3, SameHoldings
<1>4. ASSUME Failing
      PROVE  Holdings'
  <2>1. /\ pc' = "idle" /\ Settled' = sent /\ lost' = lost \cup InFlight
    BY <1>4 DEF Failing
  <2>2. ASSUME NEW e \in (Settled + 1)..sent
        PROVE  e \in InFlight
    <3>1. /\ Len(chan) \in Nat /\ Settled = sent - Len(chan) - InHand
          /\ InHand = IF cur = 0 THEN 0 ELSE 1
      BY DEF TypeOK, Settled, InHand
    <3>2. CASE cur # 0 /\ e = Settled + 1
      BY <1>1, <3>2 DEF InFlight
    <3>3. CASE e > Settled + InHand
      <4>1. e - (sent - Len(chan)) \in 1..Len(chan)
        BY <1>1, <3>1, <3>3
      <4>2. chan[e - (sent - Len(chan))] = e
        BY <1>1, <3>1, <4>1 DEF Shape, Contiguous
      <4>3. QED
        BY <4>1, <4>2 DEF InFlight
    <3>4. QED
      BY <1>1, <3>1, <3>2, <3>3
  <2>3. CASE UNCHANGED received
    <3>1. Settled' \in Nat /\ Settled <= Settled' /\ lost \subseteq lost'
      BY <1>1, <2>1
    <3>2. pc = "dispatch" => cur <= Settled'
      BY <1>1, <2>1
    <3>3. \A e \in (Settled + 1)..Settled' : e \in lost'
      BY <2>1, <2>2
    <3>4. pc' # "dispatch"
      BY <2>1
    <3>5. QED
      BY <2>3, <3>1, <3>2, <3>3, <3>4, SameHoldings
  <2>4. CASE pc = "dispatch" /\ next \in Sinks /\ Give(next)
    <3>1. InOrder' /\ FanOutOrder'
      BY <2>4, GiveKeepsOrder
    <3>2. Dispatching'
      BY <2>1 DEF Dispatching
    <3>3. HeldIsSettled'
      <4>1. ASSUME NEW s \in Sinks, NEW i \in 1..Len(received'[s])
            PROVE  received'[s][i] <= sent
        <5>1. \A k \in 1..Len(received[s]) : received[s][k] \in Nat /\ received[s][k] <= sent
          BY <1>1, <2>4, HeldType DEF Holdings, HeldIsSettled
        <5>2. CASE s # next
          BY <2>4, <5>1, <5>2, GiveEffect
        <5>3. CASE s = next
          <6>1. received'[s][i] = IF i <= Len(received[s]) THEN received[s][i] ELSE cur
            BY <2>4, <5>3, GiveEffect
          <6>2. i <= Len(received[s]) => i \in 1..Len(received[s])
            BY HeldType
          <6>3. QED
            BY <1>1, <2>4, <5>1, <6>1, <6>2
        <5>4. QED
          BY <5>2, <5>3
      <4>2. QED
        BY <2>1, <4>1 DEF HeldIsSettled
    <3>4. ASSUME NEW e \in 1..Settled'
          PROVE  e \in Filtered \/ e \in lost' \/ \A s \in Sinks : Has(s, e)'
      <4>1. CASE e \in 1..Settled
        BY <2>1, <2>4, <4>1, HasGrows DEF Holdings, SettledIsAccounted
      <4>2. CASE e \in (Settled + 1)..sent
        BY <2>1, <2>2, <4>2
      <4>3. QED
        BY <1>1, <2>1, <4>1, <4>2
    <3>5. SettledIsAccounted'
      BY <3>4 DEF SettledIsAccounted, Has
    <3>6. QED
      BY <3>1, <3>2, <3>3, <3>5 DEF Holdings
  <2>5. QED
    BY <1>4, <2>3, <2>4 DEF Failing
<1>5. CASE Write
  <2>1. /\ pc = "dispatch" /\ pc' = "dispatch" /\ next \in Sinks /\ Give(next)
        /\ next' = next + 1 /\ UNCHANGED <<chan, cur, sent, lost>>
    BY <1>1, <1>5 DEF Write, TypeOK
  <2>2. Settled' = Settled
    BY <2>1 DEF Settled, InHand
  <2>3. InOrder' /\ FanOutOrder'
    BY <2>1, GiveKeepsOrder
  <2>4. ASSUME NEW s \in 1..next, NEW e, e = cur
        PROVE  Has(s, e)'
    <3>1. s \in Sinks
      BY <1>1, <2>1, Basics
    <3>2. CASE s = next
      BY <2>1, <2>4, <3>2, GiveHas
    <3>3. CASE s # next
      <4>1. Has(s, e)
        BY <1>1, <2>1, <2>4, <3>3 DEF Holdings, Dispatching
      <4>2. QED
        BY <2>1, <3>1, <4>1, HasGrows
    <3>4. QED
      BY <3>2, <3>3
  <2>5. Dispatching'
    BY <1>1, <2>1, <2>4 DEF Dispatching, Has
  <2>6. HeldIsSettled'
    <3>1. ASSUME NEW s \in Sinks, NEW i \in 1..Len(received'[s])
          PROVE  received'[s][i] <= Settled \/ (s < next' /\ received'[s][i] = cur)
      <4>1. CASE s # next
        BY <1>1, <2>1, <4>1, GiveEffect DEF Holdings, HeldIsSettled
      <4>2. CASE s = next
        <5>1. received'[s][i] = IF i <= Len(received[s]) THEN received[s][i] ELSE cur
          BY <2>1, <4>2, GiveEffect
        <5>2. i <= Len(received[s]) => i \in 1..Len(received[s])
          BY HeldType
        <5>3. i <= Len(received[s]) => received[s][i] <= Settled
          BY <2>1, <4>2, <5>2, <1>1 DEF Holdings, HeldIsSettled
        <5>4. QED
          BY <1>1, <2>1, <4>2, <5>1, <5>3
      <4>3. QED
        BY <4>1, <4>2
    <3>2. QED
      BY <2>1, <2>2, <3>1 DEF HeldIsSettled
  <2>7. ASSUME NEW e \in 1..Settled'
        PROVE  e \in Filtered \/ e \in lost' \/ \A s \in Sinks : Has(s, e)'
    BY <2>1, <2>2, HasGrows DEF Holdings, SettledIsAccounted
  <2>8. SettledIsAccounted'
    BY <2>7 DEF SettledIsAccounted, Has
  <2>9. QED
    BY <2>3, <2>5, <2>6, <2>8 DEF Holdings
<1>6. CASE UNCHANGED vars
  <2>1. Settled' = Settled
    BY <1>6 DEF Settled, InHand
  <2>2. HeldIsSettled' /\ Dispatching' /\ InOrder' /\ FanOutOrder'
    BY <1>6, <2>1 DEF Holdings, HeldIsSettled, Dispatching, InOrder, FanOutOrder, Has
  <2>3. SettledIsAccounted'
    BY <1>6, <2>1 DEF Holdings, SettledIsAccounted, Has
  <2>4. QED
    BY <2>2, <2>3 DEF Holdings
<1>7. QED
  BY <1>2, <1>3, <1>4, <1>5, <1>6, StepKinds

-----------------------------------------------------------------------------
(* What a failing run() loses.                                             *)

\* The events in flight are the newest ones, at most Capacity of them.
LEMMA InFlightIsTail ==
  ASSUME TypeOK, Shape, NEW e \in InFlight
  PROVE  e \in Nat /\ e <= sent /\ e + Capacity > sent
<1>1. /\ Len(chan) \in Nat /\ sent \in Nat /\ Capacity \in Nat /\ runBase \in Nat
      /\ InHand = IF cur = 0 THEN 0 ELSE 1
      /\ runBase + Len(chan) + InHand <= sent
      /\ Len(chan) + InHand <= Capacity
  BY Basics DEF TypeOK, Shape, Contiguous, InHand
<1>2. CASE e \in {cur} \ {0}
  BY <1>1, <1>2 DEF Shape, Contiguous
<1>3. ASSUME NEW i \in 1..Len(chan), e = chan[i]
      PROVE  e \in Nat /\ e <= sent /\ e + Capacity > sent
  BY <1>1, <1>3 DEF Shape, Contiguous
<1>4. QED
  BY <1>2, <1>3 DEF InFlight

\* Every step preserves what is known of lost events.
LEMMA NextLost ==
  ASSUME TypeOK, Shape, LostByFailure, [Next]_vars
  PROVE  LostByFailure'
<1>1. /\ Settled \in Nat /\ Settled <= sent /\ sent \in Nat
      /\ runBase \in Nat /\ Capacity \in Nat
      /\ \A e \in lost : e \in Nat
  BY SettledFacts, Basics DEF Shape, TypeOK
<1>2. ~NotRunning => \A e \in lost : e <= runBase
  BY <1>1 DEF LostByFailure
<1>3. CASE Quiet
  BY <1>1, <1>2, <1>3 DEF Quiet, LostByFailure
<1>4. CASE Settling
  BY <1>1, <1>2, <1>4 DEF Settling, LostByFailure
<1>5. CASE Write
  <2>1. Settled' = Settled
    BY <1>5 DEF Write, Settled, InHand
  <2>2. ~NotRunning /\ UNCHANGED <<lost, runBase>>
    BY <1>5 DEF Write, NotRunning
  <2>3. QED
    BY <1>1, <1>2, <2>1, <2>2 DEF LostByFailure
<1>6. CASE Failing
  <2>1. /\ ~NotRunning /\ NotRunning' /\ result' # "ok"
        /\ lost' = lost \cup InFlight /\ Settled' = sent
        /\ UNCHANGED <<sent, runBase>>
    BY <1>6 DEF Failing, NotRunning
  <2>2. ASSUME NEW e \in lost
        PROVE  e <= sent /\ e <= runBase
    BY <1>1, <1>2, <2>1 DEF LostByFailure
  <2>3. QED
    BY <1>1, <2>1, <2>2, InFlightIsTail DEF LostByFailure
<1>7. CASE UNCHANGED vars
  BY <1>7 DEF LostByFailure, NotRunning, Settled, InHand
<1>8. QED
  BY <1>3, <1>4, <1>5, <1>6, <1>7, StepKinds

-----------------------------------------------------------------------------
(* The inductive invariant and what follows from it.                       *)

\* IInv is a conjunction of the parts treated above.
LEMMA Parts == IInv <=> TypeOK /\ Shape /\ Holdings /\ LostByFailure
  BY DEF IInv, Shape, Holdings

\* Initially there is no event anywhere.
LEMMA InitIInv == ASSUME Init PROVE IInv
<1>1. TypeOK
  BY InitType
<1>2. /\ pc = "idle" /\ chan = <<>> /\ Len(chan) = 0 /\ cur = 0 /\ sent = 0
      /\ runBase = 0 /\ fetched = 0 /\ lost = {} /\ result = "none"
      /\ InHand = 0 /\ Settled = 0
      /\ Capacity \in Nat
  <2>1. chan = <<>> /\ cur = 0 /\ sent = 0
    BY DEF Init
  <2>2. Len(chan) = 0 /\ InHand = 0
    BY <2>1, Basics DEF InHand
  <2>3. Settled = 0 - 0 - 0
    BY <2>1, <2>2, Zenon DEF Settled
  <2>4. QED
    BY <2>1, <2>2, <2>3, Basics DEF Init
<1>3. \A s \in Sinks : Len(received[s]) = 0
  BY Basics DEF Init
<1>4. Shape
  BY <1>2 DEF Shape, Contiguous, Control, CallFitsChannel, NotRunning
<1>5. HeldIsSettled /\ InOrder /\ FanOutOrder
  BY <1>3 DEF HeldIsSettled, InOrder, FanOutOrder
<1>6. Dispatching /\ SettledIsAccounted /\ LostByFailure
  BY <1>2 DEF Dispatching, SettledIsAccounted, LostByFailure
<1>7. QED
  BY <1>1, <1>4, <1>5, <1>6, Parts DEF Holdings

\* Every step preserves IInv.
LEMMA NextIInv == IInv /\ [Next]_vars => IInv'
<1> SUFFICES ASSUME IInv, [Next]_vars PROVE IInv'
  OBVIOUS
<1>1. TypeOK /\ Shape /\ Holdings /\ LostByFailure
  BY Parts
<1>2. TypeOK' /\ Shape'
  BY <1>1, NextType, NextShape
<1>3. Holdings'
  BY <1>1, <1>2, NextHoldings
<1>4. LostByFailure'
  BY <1>1, NextLost
<1>5. QED
  BY <1>2, <1>3, <1>4 DEF IInv, Shape, Holdings

\* The inductive invariant holds in every reachable state.
THEOREM Inductive == Spec => []IInv
  BY InitIInv, NextIInv, PTL DEF Spec

\* No sink ever sees an event twice or out of order, nor before a sink that
\* was added earlier.
THEOREM SinkOrder == Spec => [](InOrder /\ FanOutOrder)
<1>1. IInv => InOrder /\ FanOutOrder
  BY DEF IInv
<1>2. QED
  BY <1>1, Inductive, PTL

\* A connector call that returns emitted no more than the channel holds.
THEOREM CallsFit == Spec => []CallFitsChannel
<1>1. IInv => CallFitsChannel
  BY DEF IInv
<1>2. QED
  BY <1>1, Inductive, PTL

\* Every accepted event is in flight, filtered out, lost or everywhere.
THEOREM NothingVanishes == Spec => []Accounted
<1>1. ASSUME IInv
      PROVE  Accounted
  <2>1. TypeOK /\ Shape /\ Holdings
    BY <1>1, Parts
  <2>2. /\ Len(chan) \in Nat /\ sent \in Nat /\ runBase \in Nat
        /\ InHand = IF cur = 0 THEN 0 ELSE 1
        /\ Settled = sent - Len(chan) - InHand
        /\ Settled \in Nat
    BY <2>1, SettledFacts DEF TypeOK, Settled, InHand, Shape
  <2>3. ASSUME NEW e \in (Settled + 1)..sent
        PROVE  e \in InFlight
    <3>1. CASE cur # 0 /\ e = Settled + 1
      BY <2>1, <3>1, SettledFacts DEF InFlight, Shape
    <3>2. CASE e > Settled + InHand
      <4>1. e - (sent - Len(chan)) \in 1..Len(chan)
        BY <2>2, <3>2
      <4>2. chan[e - (sent - Len(chan))] = e
        BY <2>1, <2>2, <4>1 DEF Shape, Contiguous
      <4>3. QED
        BY <4>1, <4>2 DEF InFlight
    <3>3. QED
      BY <2>2, <3>1, <3>2
  <2>4. \A e \in 1..sent : e \in 1..Settled \/ e \in (Settled + 1)..sent
    BY <2>2
  <2>5. QED
    BY <2>1, <2>3, <2>4 DEF Holdings, SettledIsAccounted, Accounted
<1>2. QED
  BY <1>1, Inductive, PTL

\* run() returning Ok means everything it emitted was handled.
THEOREM OkMeansComplete == Spec => []OkIsComplete
<1>1. ASSUME IInv, result = "ok", NEW e \in (runBase + 1)..sent
      PROVE  e \in Filtered \/ \A s \in Sinks : Has(s, e)
  <2>1. TypeOK /\ Shape /\ Holdings /\ LostByFailure
    BY <1>1, Parts
  <2>2. NotRunning
    BY <1>1, <2>1 DEF Shape, Control
  <2>3. Settled = sent /\ sent \in Nat /\ runBase \in Nat
    BY <2>1, <2>2, SettledFacts DEF Shape, TypeOK
  <2>4. e \in 1..Settled /\ e > runBase
    BY <2>3
  <2>5. e \notin lost
    BY <1>1, <2>1, <2>4 DEF LostByFailure
  <2>6. QED
    BY <2>1, <2>4, <2>5 DEF Holdings, SettledIsAccounted
<1>2. IInv => OkIsComplete
  BY <1>1 DEF OkIsComplete
<1>3. QED
  BY <1>2, Inductive, PTL

\* What a run() loses is less than a channel behind the newest event.
THEOREM LossBounded == Spec => []LossIsTail
<1>1. IInv => LossIsTail
  BY DEF IInv, LostByFailure, LossIsTail
<1>2. QED
  BY <1>1, Inductive, PTL

-----------------------------------------------------------------------------
(* What stop() has closed.                                                 *)

\* While stop() runs, exactly the sinks before `next' are closed.
StopInv ==
    /\ TypeOK
    /\ pc = "closing" => closed = 1..(next - 1) /\ stopResult = "none"
    /\ StopIsComplete

\* Every step preserves StopInv.
LEMMA NextStop == StopInv /\ [Next]_vars => StopInv'
<1> SUFFICES ASSUME StopInv, [Next]_vars PROVE StopInv'
  OBVIOUS
<1> USE DEF StopInv, StopIsComplete
<1>1. TypeOK'
  BY NextType
<1>2. CASE UNCHANGED stopVars /\ pc # "closing" /\ pc' # "closing"
  BY <1>1, <1>2
<1>3. CASE Stop
  BY <1>1, <1>3 DEF Stop
<1>4. CASE CloseSink
  <2>1. /\ pc = "closing" /\ pc' = "closing" /\ UNCHANGED stopResult
        /\ closed' = closed \cup {next} /\ next' = next + 1
        /\ next \in 1..(NumSinks + 1)
    BY <1>4 DEF CloseSink, TypeOK
  <2>2. closed' = 1..(next' - 1)
    BY <2>1, Basics
  <2>3. QED
    BY <1>1, <2>1, <2>2
<1>5. CASE CloseSinkErr
  BY <1>1, <1>5 DEF CloseSinkErr, StopReturns
<1>6. CASE StopConnector
  <2>1. /\ pc = "closing" /\ pc' = "idle" /\ UNCHANGED closed
        /\ next > NumSinks /\ next \in 1..(NumSinks + 1)
    BY <1>6 DEF StopConnector, StopReturns, TypeOK
  <2>2. closed = Sinks
    BY <2>1, Basics
  <2>3. QED
    BY <1>1, <2>1, <2>2
<1>7. CASE UNCHANGED vars
  BY <1>1, <1>7
<1>8. ASSUME ~(UNCHANGED stopVars /\ pc # "closing" /\ pc' # "closing"), Next
      PROVE  Stop \/ CloseSink \/ CloseSinkErr \/ StopConnector
  BY <1>8 DEF Next, Run, RunWith, Produce, RunRejected, Source, Fetch, Send,
              SourceOk, SourceErr, Drain, Recv, SnapshotDrained, StreamDrained,
              Transform, TransformErr, Write, WriteErr, Dispatched, ReturnErr,
              Stopping
<1>9. QED
  BY <1>2, <1>3, <1>4, <1>5, <1>6, <1>7, <1>8

\* stop() returning Ok means that every sink was closed.
THEOREM StopMeansClosed == Spec => []StopIsComplete
<1>1. Init => StopInv
  BY InitType DEF Init, StopInv, StopIsComplete
<1>2. StopInv => StopIsComplete
  BY DEF StopInv
<1>3. QED
  BY <1>1, <1>2, NextStop, PTL DEF Spec

\* No Ok, of run() or of stop(), is premature.
THEOREM OkIsDone == Spec => []OkMeansDone
<1>1. OkIsComplete /\ StopIsComplete => OkMeansDone
  BY DEF OkMeansDone
<1>2. QED
  BY <1>1, OkMeansComplete, StopMeansClosed, PTL

-----------------------------------------------------------------------------
(* A source that found the channel full.                                   *)

\* No action is enabled in a blocked state, whatever the constants are.
THEOREM Wedged == Spec => BlockedStays
<1>1. ASSUME TypeOK, [Next]_vars, Blocked
      PROVE  Blocked'
  <2>1. pc = "send" /\ ~(Len(chan) < Capacity)
    BY <1>1, Basics DEF Blocked, TypeOK
  <2>2. ~Next
    BY <2>1 DEF Next, Run, RunWith, RunRejected, Source, Fetch, Send, SourceOk,
                SourceErr, Drain, Recv, SnapshotDrained, StreamDrained,
                Transform, TransformErr, Write, WriteErr, Dispatched, Stop,
                Stopping, CloseSink, CloseSinkErr, StopConnector
  <2>3. QED
    BY <1>1, <2>2 DEF Blocked
<1>2. TypeOK /\ [Next]_vars => [Blocked => Blocked']_vars
  BY <1>1
<1>3. QED
  BY <1>2, TypeCorrect, PTL DEF Spec, BlockedStays

-----------------------------------------------------------------------------
(* Pipeline implements Delivery.                                           *)

\* The abstract HandOver is what writing to the next sink does.
LEMMA GiveIsHandOver ==
  ASSUME IInv, pc = "dispatch", next \in Sinks, Give(next)
  PROVE  Promise!HandOver(next)
<1>1. TypeOK /\ Shape /\ Holdings
  BY Parts
<1>2. /\ Settled \in Nat /\ cur = Settled + 1 /\ cur <= sent /\ cur \notin Filtered
      /\ next \in Nat
  BY <1>1, SettledFacts DEF Shape, Control, TypeOK
<1>3. ~Has(next, cur)
  BY <1>1, <1>2 DEF Holdings, HeldIsSettled, Has
<1>4. \A t \in 1..(next - 1) : Has(t, cur)
  BY <1>1 DEF Holdings, Dispatching
<1>5. received' = [received EXCEPT ![next] = Append(@, Settled + 1)]
  BY <1>2 DEF Give
<1>6. QED
  BY <1>2, <1>3, <1>4, <1>5 DEF Promise!HandOver, Promise!Has, Has

\* Every step is an abstract step or leaves the abstract state alone.
LEMMA StepRefines == IInv /\ [Next]_vars => [Promise!Next]_(Promise!vars)
<1> SUFFICES ASSUME IInv, [Next]_vars PROVE [Promise!Next]_(Promise!vars)
  OBVIOUS
<1> USE DEF Promise!Next, Promise!vars, Promise!Sinks
<1>1. TypeOK /\ Shape /\ Holdings
  BY Parts
<1>2. /\ Settled \in Nat
      /\ cur # 0 => cur = Settled + 1 /\ cur <= sent
      /\ pc = "dispatch" => cur # 0
      /\ next \in Nat
  BY <1>1, SettledFacts DEF Shape, Control, TypeOK
<1>3. CASE Quiet
  BY <1>3 DEF Quiet, Promise!Emit
<1>4. CASE Settling
  <2>1. /\ UNCHANGED <<received, sent>> /\ Settled' = Settled + 1
        /\ cur = Settled + 1
        /\ cur \in Filtered \/ (pc = "dispatch" /\ next > NumSinks)
    BY <1>4 DEF Settling
  <2>2. cur <= sent
    BY <1>2, <2>1
  <2>3. cur \in Filtered \/ \A s \in Sinks : Has(s, cur)
    BY <1>1, <1>2, <2>1, Basics DEF Holdings, Dispatching
  <2>4. Promise!Settle
    BY <2>1, <2>2, <2>3 DEF Promise!Settle, Promise!Has, Has
  <2>5. QED
    BY <2>4
<1>5. CASE Write
  <2>1. /\ pc = "dispatch" /\ next \in Sinks /\ Give(next)
        /\ UNCHANGED <<sent, chan, cur>>
    BY <1>1, <1>5 DEF Write, TypeOK
  <2>2. Settled' = Settled
    BY <2>1 DEF Settled, InHand
  <2>3. Promise!Deliver(next)
    BY <2>1, <2>2, GiveIsHandOver DEF Promise!Deliver
  <2>4. QED
    BY <2>1, <2>3
<1>6. CASE Failing
  <2>1. Promise!Abort
    BY <1>6, GiveIsHandOver DEF Failing, Promise!Abort
  <2>2. QED
    BY <2>1
<1>7. CASE UNCHANGED vars
  BY <1>7 DEF Settled, InHand
<1>8. QED
  BY <1>1, <1>3, <1>4, <1>5, <1>6, <1>7, StepKinds

\* Events are settled one at a time and in order, sinks are served in the
\* order they were added, and only a failing run() skips anything.
THEOREM Implements == Spec => KeepsPromise
<1>1. Init => Promise!Init
  <2> SUFFICES ASSUME Init PROVE Promise!Init
    OBVIOUS
  <2>2. chan = <<>> /\ cur = 0 /\ sent = 0 /\ received = [s \in Sinks |-> <<>>]
    BY DEF Init
  <2>3. Len(chan) = 0 /\ InHand = 0
    BY <2>2, Basics DEF InHand
  <2>4. Settled = 0 - 0 - 0
    BY <2>2, <2>3, Zenon DEF Settled
  <2>5. QED
    BY <2>2, <2>4 DEF Promise!Init, Promise!Sinks
<1>2. QED
  BY <1>1, StepRefines, Inductive, PTL DEF Spec, KeepsPromise, Promise!Spec

\* What Delivery knows of the sinks: none is ahead of the event after the settled ones.
Deliveries ==
  /\ sent \in Nat /\ Settled \in Nat /\ Settled <= sent
  /\ received \in [Sinks -> Seq(Nat)]
  /\ \A s \in Sinks : \A i \in 1..Len(received[s]) : received[s][i] <= Settled + 1
  /\ InOrder /\ FanOutOrder

LEMMA HandOverKeeps ==
  ASSUME Deliveries, NEW s \in Sinks, Promise!HandOver(s)
  PROVE  /\ received' \in [Sinks -> Seq(Nat)]
         /\ \A t \in Sinks : \A i \in 1..Len(received'[t]) : received'[t][i] <= Settled + 1
         /\ InOrder' /\ FanOutOrder'
<1>1. PICK e \in Nat : e = Settled + 1
  BY DEF Deliveries
<1>2. /\ received \in [Sinks -> Seq(Nat)]
      /\ \A t \in Sinks : \A i \in 1..Len(received[t]) : received[t][i] <= e
  BY <1>1 DEF Deliveries
<1>3. /\ ~Has(s, e) /\ \A t \in 1..(s - 1) : Has(t, e)
      /\ received' = [received EXCEPT ![s] = Append(@, e)]
  BY <1>1 DEF Promise!HandOver, Promise!Has, Has
<1> DEFINE old == received[s]
           new == Append(old, e)
<1>4. /\ old \in Seq(Nat) /\ new \in Seq(Nat)
      /\ Len(old) \in Nat /\ Len(new) = Len(old) + 1
      /\ new[Len(old) + 1] = e /\ \A i \in 1..Len(old) : new[i] = old[i]
  BY <1>2
<1>5. received' \in [Sinks -> Seq(Nat)] /\ received'[s] = new
      /\ \A t \in Sinks : t # s => received'[t] = received[t]
  BY <1>2, <1>3, <1>4
<1>6. \A i \in 1..Len(old) : old[i] \in Nat /\ old[i] < e
  <2>1. \A i \in 1..Len(old) : old[i] \in Nat /\ old[i] <= e /\ old[i] # e
    BY <1>2, <1>3, <1>4 DEF Has
  <2>2. QED
    BY <1>1, <2>1
<1> HIDE DEF new, old
<1>7. \A i \in 1..Len(new) : i \in 1..Len(old) \/ i = Len(old) + 1
  BY <1>4
<1>8. \A t \in Sinks : \A i \in 1..Len(received'[t]) : received'[t][i] <= e
  <2>1. \A i \in 1..Len(new) : new[i] <= e
    BY <1>1, <1>4, <1>6, <1>7
  <2>2. QED
    BY <1>2, <1>5, <2>1
<1>9. InOrder'
  <2>1. \A i, j \in 1..Len(new) : i < j => new[i] < new[j]
    <3>1. \A i, j \in 1..Len(old) : i < j => old[i] < old[j]
      BY DEF Deliveries, InOrder, old
    <3>2. \A i, j \in 1..Len(new) : i < j => i \in 1..Len(old)
      BY <1>4
    <3>3. QED
      BY <1>4, <1>6, <1>7, <3>1, <3>2
  <2>2. QED
    BY <1>5, <2>1 DEF Deliveries, InOrder
<1>10. \A t \in Sinks : \A x : Has(t, x) => Has(t, x)'
  <2>1. \A x : (\E i \in 1..Len(old) : old[i] = x) => \E i \in 1..Len(new) : new[i] = x
    BY <1>4
  <2>2. QED
    BY <1>5, <2>1 DEF Has, old
<1>11. FanOutOrder'
  <2>1. ASSUME NEW t \in Sinks, NEW u \in 1..(t - 1), NEW i \in 1..Len(received'[t])
        PROVE  \E j \in 1..Len(received'[u]) : received'[u][j] = received'[t][i]
    <3>1. u \in Sinks
      BY PipelineAssumption DEF Sinks
    <3>2. CASE t # s \/ (t = s /\ i \in 1..Len(old))
      <4>1. i \in 1..Len(received[t]) /\ received'[t][i] = received[t][i]
        BY <1>4, <1>5, <3>2 DEF old
      <4>2. Has(u, received[t][i])
        BY <4>1 DEF Deliveries, FanOutOrder
      <4>3. \E j \in 1..Len(received'[u]) : received'[u][j] = received[t][i]
        BY <1>10, <3>1, <4>2 DEF Has
      <4>4. QED
        BY <4>1, <4>3
    <3>3. CASE t = s /\ i = Len(old) + 1
      <4>1. received'[t][i] = e /\ Has(u, e)
        BY <1>3, <1>4, <1>5, <3>3
      <4>2. \E j \in 1..Len(received'[u]) : received'[u][j] = e
        BY <1>10, <3>1, <4>1 DEF Has
      <4>3. QED
        BY <4>1, <4>2
    <3>4. QED
      <4>1. t = s => i \in 1..Len(old) \/ i = Len(old) + 1
        BY <1>5, <1>7
      <4>2. QED
        BY <3>2, <3>3, <4>1
  <2>2. QED
    BY <2>1 DEF FanOutOrder, Has
<1>12. QED
  BY <1>1, <1>5, <1>8, <1>9, <1>11

\* Delivery is enough for the order the sinks see: whatever settles its events one
\* by one and hands each over in turn, each sink sees them in order and once, and
\* none has what a sink before it lacks.
THEOREM PromiseIsOrder == KeepsPromise => [](InOrder /\ FanOutOrder)
<1>1. Promise!Init => Deliveries
  <2> SUFFICES ASSUME Promise!Init PROVE Deliveries
    OBVIOUS
  <2>1. sent = 0 /\ Settled = 0 /\ received = [s \in Sinks |-> <<>>]
    BY DEF Promise!Init, Promise!Sinks, Sinks
  <2>2. \A s \in Sinks : received[s] = <<>> /\ Len(received[s]) = 0
    BY <2>1
  <2>3. QED
    BY <2>1, <2>2, PipelineAssumption DEF Deliveries, InOrder, FanOutOrder, Sinks
<1>2. ASSUME Deliveries, [Promise!Next]_(Promise!vars)
      PROVE  Deliveries'
  <2>1. CASE UNCHANGED received /\ sent' \in Nat /\ Settled' \in Nat
             /\ Settled <= Settled' /\ Settled' <= sent'
    <3>1. \A s \in Sinks : \A i \in 1..Len(received[s]) : received[s][i] <= Settled' + 1
      <4>1. \A s \in Sinks : \A i \in 1..Len(received[s]) :
               received[s][i] \in Nat /\ received[s][i] <= Settled + 1
        BY <1>2 DEF Deliveries
      <4>2. Settled \in Nat
        BY <1>2 DEF Deliveries
      <4>3. QED
        BY <2>1, <4>1, <4>2
    <3>2. InOrder' /\ FanOutOrder'
      BY <1>2, <2>1 DEF Deliveries, InOrder, FanOutOrder, Has
    <3>3. QED
      BY <1>2, <2>1, <3>1, <3>2 DEF Deliveries
  <2>2. ASSUME NEW s \in Sinks, Promise!HandOver(s), sent' = sent, Settled' \in Nat,
               Settled <= Settled', Settled' <= sent'
        PROVE  Deliveries'
    <3>1. /\ received' \in [Sinks -> Seq(Nat)]
          /\ \A t \in Sinks : \A i \in 1..Len(received'[t]) : received'[t][i] <= Settled + 1
          /\ InOrder' /\ FanOutOrder'
      BY <1>2, <2>2, HandOverKeeps
    <3>2. \A t \in Sinks : \A i \in 1..Len(received'[t]) : received'[t][i] <= Settled' + 1
      <4>1. \A t \in Sinks : \A i \in 1..Len(received'[t]) :
               received'[t][i] \in Nat /\ received'[t][i] <= Settled + 1
        BY <3>1
      <4>2. Settled \in Nat
        BY <1>2 DEF Deliveries
      <4>3. QED
        BY <2>2, <4>1, <4>2
    <3>3. sent' \in Nat
      BY <1>2, <2>2 DEF Deliveries
    <3>4. QED
      BY <2>2, <3>1, <3>2, <3>3 DEF Deliveries
  <2>3. sent \in Nat /\ Settled \in Nat /\ Settled <= sent
    BY <1>2 DEF Deliveries
  <2>4. CASE Promise!Emit \/ UNCHANGED Promise!vars
    BY <2>1, <2>3, <2>4 DEF Promise!Emit, Promise!vars
  <2>5. CASE \E s \in Sinks : Promise!Deliver(s)
    BY <2>2, <2>3, <2>5 DEF Promise!Deliver
  <2>6. CASE Promise!Settle
    BY <2>1, <2>3, <2>6 DEF Promise!Settle
  <2>7. CASE Promise!Abort
    BY <2>1, <2>2, <2>3, <2>7 DEF Promise!Abort, Promise!Sinks, Sinks
  <2>8. QED
    BY <1>2, <2>4, <2>5, <2>6, <2>7 DEF Promise!Next, Promise!Sinks, Sinks
<1>3. Deliveries => InOrder /\ FanOutOrder
  BY DEF Deliveries
<1>4. QED
  BY <1>1, <1>2, <1>3, PTL DEF KeepsPromise, Promise!Spec

-----------------------------------------------------------------------------
(* Every call gets on.  The measure is a sum of products; each step below  *)
(* sees only the two facts about products that it needs.                   *)

\* A connector call never reads past the end of its source.
LEMMA FetchBoundHolds == Spec => []FetchBound
<1> USE DEF TypeOK, FetchBound
<1>1. Init => FetchBound
  BY PipelineAssumption DEF Init
<1>2. ASSUME TypeOK, FetchBound, [Next]_vars PROVE FetchBound'
  <2>1. fetched' = fetched \/ fetched' = 0 \/ (fetched < MaxRows /\ fetched' = fetched + 1)
    BY <1>2 DEF Next, Run, RunWith, Produce, RunRejected, Source, Fetch, Send, SourceOk,
                SourceErr, Drain, Recv, SnapshotDrained, StreamDrained, Transform,
                TransformErr, Write, WriteErr, Dispatched, Stop, Stopping, CloseSink,
                CloseSinkErr, StopConnector, StopReturns, ReturnErr
  <2>2. QED
    BY <1>2, <2>1, PipelineAssumption
<1>3. QED
  BY <1>1, <1>2, TypeCorrect, PTL DEF Spec

\* The work of one more row of the source.
LEMMA RowWork ==
  ASSUME NEW n \in Nat
  PROVE  /\ SourceWork(n) \in Nat
         /\ SourceWork(n + 1) = SourceWork(n) + EventWork + 2
<1>1. EventWork + 2 \in Nat /\ EventWork \in Nat
  BY PipelineAssumption DEF EventWork
<1>2. ASSUME NEW k \in Nat PROVE n * k \in Nat /\ (n + 1) * k = n * k + k
  OBVIOUS
<1>3. SourceWork(n) = n * (EventWork + 2) /\ SourceWork(n + 1) = (n + 1) * (EventWork + 2)
  BY DEF SourceWork
<1> HIDE DEF EventWork
<1>4. QED
  BY <1>1, <1>2, <1>3

\* The work of one more event in the channel.
LEMMA QueueWork ==
  ASSUME NEW n \in Nat
  PROVE  /\ n * EventWork \in Nat
         /\ (n + 1) * EventWork = n * EventWork + EventWork
<1>1. EventWork \in Nat
  BY PipelineAssumption DEF EventWork
<1>2. ASSUME NEW k \in Nat PROVE n * k \in Nat /\ (n + 1) * k = n * k + k
  OBVIOUS
<1>3. QED
  BY <1>1, <1>2

\* In one state: the products of the measure are natural numbers.
LEMMA WorkFacts ==
  ASSUME TypeOK, FetchBound
  PROVE  /\ NumSinks \in Nat /\ EventWork = NumSinks + 4 /\ next \in 1..(NumSinks + 1)
         /\ MaxRows - fetched \in Nat /\ fetched \in Nat /\ Len(chan) \in Nat
         /\ SourceWork(MaxRows - fetched) \in Nat
         /\ SourceWork(MaxRows) \in Nat
         /\ Len(chan) * EventWork \in Nat
<1>1. MaxRows \in Nat /\ MaxRows - fetched \in Nat /\ Len(chan) \in Nat /\ fetched \in Nat
  BY PipelineAssumption DEF TypeOK, FetchBound
<1>2. QED
  BY <1>1, RowWork, QueueWork, PipelineAssumption DEF TypeOK, EventWork

\* The measure is a natural number, and 0 only when no call is in progress.
LEMMA WorkIsNat ==
  ASSUME TypeOK, FetchBound
  PROVE  /\ CallWork \in Nat /\ StreamAhead \in Nat /\ Work \in Nat
         /\ pc # "idle" => CallWork > 0
<1>1. StreamAhead \in Nat
  BY WorkFacts DEF StreamAhead
<1>2. CallWork \in Nat /\ (pc # "idle" => CallWork > 0)
  <2> DEFINE a == SourceWork(MaxRows - fetched)
             b == Len(chan) * EventWork
  <2>1. a \in Nat /\ b \in Nat /\ NumSinks \in Nat /\ EventWork = NumSinks + 4
        /\ next \in 1..(NumSinks + 1)
    BY WorkFacts
  <2>2. /\ pc = "fetch"     => CallWork = a + b + 2
        /\ pc = "send"      => CallWork = a + b + EventWork + 3
        /\ pc = "drain"     => CallWork = b + 1
        /\ pc = "transform" => CallWork = b + NumSinks + 4
        /\ pc = "dispatch"  => CallWork = b + NumSinks + 4 - next
        /\ pc = "closing"   => CallWork = NumSinks + 2 - next
        /\ pc = "idle"      => CallWork = 0
    BY DEF CallWork
  <2>3. pc \in {"idle", "fetch", "send", "drain", "transform", "dispatch", "closing"}
    BY DEF TypeOK
  <2> HIDE DEF a, b
  <2>4. QED
    BY <2>1, <2>2, <2>3
<1>3. QED
  BY <1>1, <1>2 DEF Work

\* Leaving run() or stop() leaves nothing to do.
LEMMA ReturningGetsOn ==
  ASSUME TypeOK, FetchBound, pc # "idle", pc' = "idle"
  PROVE  Work' < Work
<1>1. CallWork' = 0 /\ StreamAhead' = 0
  BY DEF CallWork, StreamAhead
<1>2. QED
  BY <1>1, WorkIsNat DEF Work

\* A step that keeps run() in the same phase leaves as much stream ahead.
LEMMA SameStream ==
  ASSUME TypeOK, TypeOK', pc \notin {"idle", "closing"}, pc' \notin {"idle", "closing"},
         phase' = phase
  PROVE  StreamAhead' = StreamAhead
BY DEF StreamAhead

\* Every step of a call leaves less to do.
LEMMA StepGetsOn ==
  ASSUME TypeOK, FetchBound, TypeOK', FetchBound', Next, pc # "idle"
  PROVE  Work' < Work
<1> DEFINE a == SourceWork(MaxRows - fetched)
           b == Len(chan) * EventWork
<1>0. /\ a \in Nat /\ b \in Nat /\ a' \in Nat /\ b' \in Nat
      /\ NumSinks \in Nat /\ EventWork = NumSinks + 4
      /\ next \in 1..(NumSinks + 1) /\ next' \in 1..(NumSinks + 1)
      /\ fetched \in Nat /\ MaxRows \in Nat /\ Len(chan) \in Nat /\ Len(chan') \in Nat
      /\ SourceWork(MaxRows) \in Nat
  <2>1. (a \in Nat /\ b \in Nat)'
    BY WorkFacts, PTL
  <2>2. a \in Nat /\ b \in Nat
    BY WorkFacts
  <2> HIDE DEF a, b
  <2>3. /\ NumSinks \in Nat /\ EventWork = NumSinks + 4 /\ fetched \in Nat
        /\ Len(chan) \in Nat /\ SourceWork(MaxRows) \in Nat
    BY WorkFacts
  <2>4. next \in 1..(NumSinks + 1) /\ next' \in 1..(NumSinks + 1) /\ Len(chan') \in Nat
    BY DEF TypeOK
  <2>5. MaxRows \in Nat
    BY PipelineAssumption
  <2>6. QED
    BY <2>1, <2>2, <2>3, <2>4, <2>5
<1>1. /\ pc = "fetch"     => CallWork = a + b + 2
      /\ pc = "send"      => CallWork = a + b + EventWork + 3
      /\ pc = "drain"     => CallWork = b + 1
      /\ pc = "transform" => CallWork = b + NumSinks + 4
      /\ pc = "dispatch"  => CallWork = b + NumSinks + 4 - next
      /\ pc = "closing"   => CallWork = NumSinks + 2 - next
  BY DEF CallWork
<1>2. /\ pc' = "fetch"     => CallWork' = a' + b' + 2
      /\ pc' = "send"      => CallWork' = a' + b' + EventWork + 3
      /\ pc' = "drain"     => CallWork' = b' + 1
      /\ pc' = "transform" => CallWork' = b' + NumSinks + 4
      /\ pc' = "dispatch"  => CallWork' = b' + NumSinks + 4 - next'
      /\ pc' = "closing"   => CallWork' = NumSinks + 2 - next'
  BY DEF CallWork
<1>3. /\ StreamAhead \in Nat /\ StreamAhead' \in Nat
      /\ CallWork \in Nat /\ CallWork' \in Nat
      /\ Work = CallWork + StreamAhead /\ Work' = CallWork' + StreamAhead'
      /\ Work \in Nat /\ Work' \in Nat
  <2>1. (CallWork \in Nat /\ StreamAhead \in Nat /\ Work \in Nat)'
    BY WorkIsNat, PTL
  <2>2. QED
    BY <2>1, WorkIsNat DEF Work
<1>4. ASSUME CallWork' < CallWork, phase' = phase,
             pc \notin {"idle", "closing"}, pc' \notin {"idle", "closing"}
      PROVE  Work' < Work
  <2>1. StreamAhead' = StreamAhead
    BY <1>4, SameStream
  <2>2. ASSUME NEW i \in Nat, NEW j \in Nat, NEW k \in Nat, i < j PROVE i + k < j + k
    BY <2>2
  <2>3. CallWork' + StreamAhead < CallWork + StreamAhead
    BY <1>3, <1>4, <2>2
  <2>4. QED
    BY <1>3, <2>1, <2>3
<1>5. CASE Fetch
  <2>1. /\ pc = "fetch" /\ pc' = "send" /\ phase' = phase
        /\ fetched' = fetched + 1 /\ chan' = chan
    BY <1>5 DEF Fetch
  <2>2. MaxRows - fetched' \in Nat /\ MaxRows - fetched = (MaxRows - fetched') + 1
    BY <1>0, <2>1 DEF FetchBound
  <2>3. SourceWork((MaxRows - fetched') + 1) = SourceWork(MaxRows - fetched') + EventWork + 2
    BY <2>2, RowWork
  <2>4. a = a' + EventWork + 2 /\ b' = b
    BY <2>1, <2>2, <2>3
  <2> HIDE DEF a, b
  <2>5. CallWork = a' + EventWork + 2 + b + 2 /\ CallWork' = a' + b + EventWork + 3
    BY <1>1, <1>2, <2>1, <2>4
  <2>6. ASSUME NEW i \in Nat, NEW j \in Nat, NEW k \in Nat
        PROVE  i + j + k + 3 < i + k + 2 + j + 2
    OBVIOUS
  <2>7. EventWork \in Nat
    BY <1>0
  <2>8. CallWork' < CallWork
    BY <1>0, <2>5, <2>6, <2>7
  <2>9. QED
    BY <1>4, <2>1, <2>8
<1>6. CASE Send
  <2>1. /\ pc = "send" /\ pc' = "fetch" /\ phase' = phase
        /\ fetched' = fetched /\ Len(chan') = Len(chan) + 1
    BY <1>6, SendEffect DEF Send
  <2>2. a' = a /\ b' = b + EventWork
    BY <1>0, <2>1, QueueWork
  <2> HIDE DEF a, b
  <2>3. CallWork' < CallWork
    BY <1>0, <1>1, <1>2, <1>3, <2>1, <2>2
  <2>4. QED
    BY <1>4, <2>1, <2>3
<1>7. CASE SourceOk
  <2>1. /\ pc = "fetch" /\ pc' = "drain" /\ phase' = phase /\ b' = b
    BY <1>7 DEF SourceOk
  <2> HIDE DEF a, b
  <2>2. CallWork' < CallWork
    BY <1>0, <1>1, <1>2, <2>1
  <2>3. QED
    BY <1>4, <2>1, <2>2
<1>8. CASE Recv
  <2>1. /\ pc = "drain" /\ pc' = "transform" /\ phase' = phase
        /\ Len(chan) = Len(chan') + 1
    BY <1>0, <1>8, RecvEffect DEF Recv
  <2>2. b = b' + EventWork
    BY <1>0, <2>1, QueueWork
  <2> HIDE DEF a, b
  <2>3. CallWork = b' + EventWork + 1 /\ CallWork' = b' + EventWork
    BY <1>0, <1>1, <1>2, <2>1, <2>2
  <2>4. CallWork' < CallWork
    BY <1>3, <2>3
  <2>5. QED
    BY <1>4, <2>1, <2>4
<1>9. CASE SnapshotDrained
  <2>1. /\ pc = "drain" /\ pc' = "fetch" /\ phase = "snapshot" /\ phase' = "stream"
        /\ fetched' = 0 /\ chan' = <<>>
    BY <1>9 DEF SnapshotDrained, Produce
  <2>2. MaxRows - fetched' = MaxRows /\ Len(chan') = 0
    BY <1>0, <2>1, Basics
  <2>3. a' = SourceWork(MaxRows) /\ b' = 0
    BY <1>0, <2>2
  <2>4. StreamAhead = SourceWork(MaxRows) + 2 /\ StreamAhead' = 0
    BY <2>1 DEF StreamAhead
  <2> HIDE DEF a, b
  <2>5. QED
    BY <1>0, <1>1, <1>2, <1>3, <2>1, <2>3, <2>4
<1>10. CASE Transform
  <2>1. /\ pc = "transform" /\ phase' = phase /\ b' = b
        /\ pc' = "drain" \/ (pc' = "dispatch" /\ next' = 1)
    BY <1>10 DEF Transform
  <2> HIDE DEF a, b
  <2>2. CallWork' < CallWork
    BY <1>0, <1>1, <1>2, <2>1
  <2>3. QED
    BY <1>4, <2>1, <2>2
<1>11. CASE Write
  <2>1. /\ pc = "dispatch" /\ pc' = "dispatch" /\ phase' = phase /\ b' = b
        /\ next' = next + 1
    BY <1>11 DEF Write
  <2> HIDE DEF a, b
  <2>2. CallWork' < CallWork
    BY <1>0, <1>1, <1>2, <2>1
  <2>3. QED
    BY <1>4, <2>1, <2>2
<1>12. CASE Dispatched
  <2>1. /\ pc = "dispatch" /\ pc' = "drain" /\ phase' = phase /\ b' = b
    BY <1>12 DEF Dispatched
  <2> HIDE DEF a, b
  <2>2. CallWork' < CallWork
    BY <1>0, <1>1, <1>2, <2>1
  <2>3. QED
    BY <1>4, <2>1, <2>2
<1>13. CASE CloseSink
  <2>1. /\ pc = "closing" /\ pc' = "closing" /\ next' = next + 1
    BY <1>13 DEF CloseSink
  <2>2. StreamAhead = 0 /\ StreamAhead' = 0
    BY <2>1 DEF StreamAhead
  <2>3. QED
    BY <1>0, <1>1, <1>2, <1>3, <2>1, <2>2
<1>14. ASSUME pc' = "idle"
       PROVE  Work' < Work
  BY <1>14, ReturningGetsOn
<1>15. CASE SourceErr \/ TransformErr \/ WriteErr
  BY <1>14, <1>15 DEF SourceErr, TransformErr, WriteErr, ReturnErr
<1>16. CASE StreamDrained \/ CloseSinkErr \/ StopConnector
  BY <1>14, <1>16 DEF StreamDrained, CloseSinkErr, StopConnector, StopReturns
<1>17. ~(Run \/ RunRejected \/ Stop)
  BY DEF Run, RunWith, RunRejected, Stop
<1>18. QED
  BY <1>5, <1>6, <1>7, <1>8, <1>9, <1>10, <1>11, <1>12, <1>13, <1>15, <1>16, <1>17
     DEF Next, Source, Drain, Stopping

\* run() and stop() take boundedly many steps from wherever they are, whatever
\* their connector, transforms and sinks answer: `Work' counts down, and is a
\* natural number.
THEOREM CallsAreBounded == Spec => CallsGetOn /\ [](Work \in Nat)
<1>1. ASSUME TypeOK, FetchBound, TypeOK', FetchBound', [Next]_vars
      PROVE  [pc # "idle" => Work' < Work]_vars
  BY <1>1, StepGetsOn
<1>2. TypeOK /\ FetchBound => Work \in Nat
  BY WorkIsNat
<1>3. QED
  BY <1>1, <1>2, TypeCorrect, FetchBoundHolds, PTL DEF Spec, CallsGetOn

=============================================================================
