--------------------------- MODULE MCMySqlConnector --------------------------
(* The MySQL connector on small instances.                                 *)
EXTENDS MySqlConnector

CONSTANTS t1, t2

\* Widths of the types in use, and columns: a number, and a string before it.
MCBits   == [TINY |-> 8]
MCShapes == {<<"TINY">>, <<"VARCHAR", "TINY">>}

\* Rows of a table: one, or two that differ.
one == <<<<1>>>>
a   == <<<<97>>, <<1>>>>
b   == <<Null, <<1>>>>
MCRowLists ==
    <<"TINY">>            :> {<<[before |-> one, after |-> one]>>} @@
    <<"VARCHAR", "TINY">> :> {<<[before |-> a, after |-> b]>>,
                              <<[before |-> a, after |-> b], [before |-> b, after |-> a]>>}

\* All tables, one, or two.  Rows of texts: none of them, an empty one, a short
\* one, and one that is too long for a length of one byte.
MCLists   == {<<>>, <<t1>>, <<t1, t2>>}
long      == [i \in 1..NullMark |-> 97]
MCResults == {<<<<<<97>>>>, <<Null>>>>, <<<<Null, <<97>>>>, <<<<>>, <<98>>>>>>, <<<<long>>>>}

\* Tables are interchangeable: sound, there is no liveness here.
MySqlSymmetry == Permutations({t1, t2})

=============================================================================
