----------------------------- MODULE MCPipeline -----------------------------
(* Small instances of Pipeline for TLC; the .cfg files choose the bounds.  *)
EXTENDS Pipeline

\* One event of a first snapshot and one of a later phase are filtered out.
SomeFiltered == {2, 5}

=============================================================================
