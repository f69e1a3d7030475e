------------------------------ MODULE Delivery ------------------------------
(***************************************************************************)
(* What a pipeline promises, with no channel, no connector and no control  *)
(* state.  The source emits events numbered 1, 2, 3, ...  They are settled *)
(* one at a time and in order: the event after `settled' is either removed *)
(* by the transforms or handed to sink 1, then sink 2, and so on, and is   *)
(* settled when every sink has it.  The only way an emitted event may miss *)
(* a sink is Abort, which gives up everything emitted and not yet settled. *)
(***************************************************************************)
EXTENDS Naturals, Sequences

CONSTANTS
    NumSinks,   \* sinks are numbered 1..NumSinks in the order they were added
    Filtered    \* events for which some transform returns None

VARIABLES
    emitted,    \* how many events the source has emitted
    settled,    \* events 1..settled need no more work
    delivered   \* delivered[s]: the events sink s was handed, oldest first

vars == <<emitted, settled, delivered>>

Sinks == 1..NumSinks

\* Sink s has been handed event e.
Has(s, e) == \E i \in 1..Len(delivered[s]) : delivered[s][i] = e

Init ==
    /\ emitted = 0
    /\ settled = 0
    /\ delivered = [s \in Sinks |-> <<>>]

Emit ==
    /\ emitted' = emitted + 1
    /\ UNCHANGED <<settled, delivered>>

\* Sink s is handed the one event in flight, after every sink before it.
HandOver(s) ==
    LET e == settled + 1 IN
    /\ e <= emitted
    /\ e \notin Filtered
    /\ ~Has(s, e)
    /\ \A t \in 1..(s - 1) : Has(t, e)
    /\ delivered' = [delivered EXCEPT ![s] = Append(@, e)]

Deliver(s) == HandOver(s) /\ UNCHANGED <<emitted, settled>>

Settle ==
    LET e == settled + 1 IN
    /\ e <= emitted
    /\ e \in Filtered \/ \A s \in Sinks : Has(s, e)
    /\ settled' = e
    /\ UNCHANGED <<emitted, delivered>>

\* A failing write may have reached its sink all the same.
Abort ==
    /\ settled' = emitted
    /\ UNCHANGED emitted
    /\ \/ UNCHANGED delivered
       \/ \E s \in Sinks : HandOver(s)

Next ==
    \/ Emit
    \/ \E s \in Sinks : Deliver(s)
    \/ Settle
    \/ Abort

Spec == Init /\ [][Next]_vars

=============================================================================
