----------------------------- MODULE MCHandoff ------------------------------
(* The hand-off on small instances; the .cfg files choose the connectors.  *)
EXTENDS Handoff, TLC

CONSTANTS t1, t2, v1, v2, none

\* Tables and rows are interchangeable: sound, there is no liveness here.
DataSymmetry == Permutations({t1, t2}) \cup Permutations({v1, v2})

=============================================================================
