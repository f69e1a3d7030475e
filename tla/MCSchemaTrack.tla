---------------------------- MODULE MCSchemaTrack ----------------------------
(* A table whose columns come, go and change, under every policy.           *)
EXTENDS SchemaTrack

Id == [NewField("id", "int64") EXCEPT !.optional = FALSE]
Price == [NewField("price", "decimal") EXCEPT !.params = [precision |-> 300, scale |-> 2]]
At == [NewField("at", "microtimestamp") EXCEPT !.optional = TRUE, !.doc = "when"]
Tag == [NewField("tag", "uuid") EXCEPT !.list = TRUE, !.types = <<"uuid", "null">>]
Shape == NewField("shape", "struct")

MCTables == { << Id >>,
              << Id, Price, At >>,
              << [Id EXCEPT !.optional = TRUE], At, Tag >>,
              << [Id EXCEPT !.types = <<"int32">>], [Price EXCEPT !.optional = FALSE] >>,
              << Id, Shape >> }
=============================================================================
