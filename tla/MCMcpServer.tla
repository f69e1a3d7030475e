---------------------------- MODULE MCMcpServer -----------------------------
(* The MCP server on small instances. *)
EXTENDS McpServer, TLC

CONSTANTS r1, r2, r3

\* Handlers are interchangeable: sound for the safety runs, which have no
\* temporal property beyond single steps.
RequestSymmetry == Permutations(Requests)

\* The tools a client needs to run snapshots.
SnapshotTools == {"connector_register", "snapshot_start"}

\* All tools but connector_remove.
NoRemoval == AllTools \ {"connector_remove"}

\* The first, and connector_remove.
LifecycleTools == SnapshotTools \cup {"connector_remove"}

=============================================================================
