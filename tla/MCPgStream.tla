----------------------------- MODULE MCPgStream -----------------------------
(* The PostgreSQL stream on small instances.                               *)
EXTENDS PgStream

CONSTANTS c1, c2, t1, t2

\* A table of one column, the same with a column before or behind it, and the
\* same with another type.
id == [name |-> "id", type |-> "int4"]
MCShapes == {<<id>>, <<[name |-> "tag", type |-> "text"], id>>,
             <<[name |-> "id", type |-> "text"]>>}

\* Connections and tables are interchangeable: sound, there is no liveness here.
PgSymmetry == Permutations({c1, c2}) \cup Permutations({t1, t2})

=============================================================================
