-------------------------------- MODULE Retry -------------------------------
(***************************************************************************)
(* What connect_with_retry promises in every connector that has one, with  *)
(* no connection, no handshake and no session: how often a call tries, and *)
(* how long it waits in between.                                           *)
(***************************************************************************)
EXTENDS Naturals

CONSTANT Attempts   \* how often a call tries at most

VARIABLES
    state,      \* "idle", "trying" or "waiting"
    failed,     \* tries of this call that have failed
    slept       \* how long it has waited, in units of 500 ms

vars == <<state, failed, slept>>

Init == state = "idle" /\ failed = 0 /\ slept = 0

Call ==
    /\ state = "idle"
    /\ state' = "trying"
    /\ UNCHANGED <<failed, slept>>

\* Only a call that will try again waits.
Fail ==
    /\ state = "trying" /\ failed + 1 < Attempts
    /\ state' = "waiting"
    /\ failed' = failed + 1
    /\ UNCHANGED slept

\* The wait is as many units long as tries have failed.
Wait ==
    /\ state = "waiting"
    /\ state' = "trying"
    /\ slept' = slept + failed
    /\ UNCHANGED failed

\* The call is over, with a connection or without, and the next begins anew.
Over ==
    /\ state = "trying"
    /\ state' = "idle" /\ failed' = 0 /\ slept' = 0

Next == Call \/ Fail \/ Wait \/ Over

Spec == Init /\ [][Next]_vars

=============================================================================
