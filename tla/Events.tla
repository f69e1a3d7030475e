------------------------------- MODULE Events -------------------------------
(***************************************************************************)
(* What happens to one change event between the connector and a sink's     *)
(* storage: the constructors of ChangeEvent (change_event.rs), the three    *)
(* transforms (transform.rs), the columns OpenLakeSink writes (lib.rs of    *)
(* the sink) and those BatchConverter writes and reads back (batch.rs).     *)
(*                                                                         *)
(* A row image is opaque: JSON text stands for the value it renders.        *)
(***************************************************************************)
EXTENDS Integers, Sequences, SequencesExt

CONSTANT Null           \* Option::None, a JSON null and an Arrow null

-----------------------------------------------------------------------------
(* operation.rs, source_info.rs and change_event.rs                        *)

OpText == [create |-> "c", update |-> "u", delete |-> "d", read |-> "r",
           truncate |-> "t", message |-> "m"]

OpFrom(text) ==
  LET named == {op \in DOMAIN OpText : OpText[op] = text}
  IN  IF named = {} THEN Null ELSE CHOOSE op \in named : TRUE

Dml == {"create", "update", "delete"}

NewSource(connector, db, schema, table) ==
  [connector |-> connector, db |-> db, schema |-> schema, table |-> table,
   snapshot |-> "false", lsn |-> Null, tx |-> Null]

\* SourceInfo::default(), with which batch_to_events fills what it does not read.
DefaultSource == NewSource("opencdc", "", "public", "")

EventOf(op, before, after, source, ts) ==
  [op |-> op, before |-> before, after |-> after, source |-> source, ts |-> ts]

\* A ChangeEvent: what is no Option in it is there.
IsEvent(e) ==
  LET s == e.source
  IN  /\ e = EventOf(e.op, e.before, e.after, s, e.ts)
      /\ e.op \in DOMAIN OpText
      /\ s = [connector |-> s.connector, db |-> s.db, schema |-> s.schema, table |-> s.table,
              snapshot |-> s.snapshot, lsn |-> s.lsn, tx |-> s.tx]
      /\ Null \notin {s.connector, s.db, s.table}

CreateEvent(after, source, now) == EventOf("create", Null, after, source, now)
UpdateEvent(before, after, source, now) == EventOf("update", before, after, source, now)
DeleteEvent(before, source, now) == EventOf("delete", before, Null, source, now)
SnapshotEvent(after, source, now) == EventOf("read", Null, after, source, now)

-----------------------------------------------------------------------------
(* transform.rs; a transform that drops its event returns Null             *)

Filter(ops, event) == IF event.op \in ops THEN event ELSE Null

\* Every pair of the list is applied to what the pairs before it have made of
\* the name.
Remapped(pairs, name) ==
  FoldLeft(LAMBDA n, pair : IF n = pair[1] THEN pair[2] ELSE n, name, pairs)

RenameEvent(tables, dbs, event) ==
  [event EXCEPT !.source.table = Remapped(tables, @),
                !.source.db    = Remapped(dbs, @)]

\* The pairs of a rename are pairs of names.
IsTransform(transform) ==
  /\ transform.kind \in {"filter", "rename", "log"}
  /\ transform.kind = "rename" => \A pairs \in {transform.tables, transform.dbs} :
       /\ pairs \in Seq(Range(pairs))
       /\ \A i \in DOMAIN pairs : pairs[i][2] # Null

Transformed(transform, event) ==
  CASE transform.kind = "filter" -> Filter(transform.ops, event)
    [] transform.kind = "rename" -> RenameEvent(transform.tables, transform.dbs, event)
    [] transform.kind = "log"    -> event

Through(chain, event) ==
  FoldLeft(LAMBDA e, transform : IF e = Null THEN Null ELSE Transformed(transform, e),
           event, chain)

-----------------------------------------------------------------------------
(* Batches: a column has a type and one value, perhaps Null, per row.       *)

Column(type, events, Value(_)) ==
  [type |-> type, values |-> [i \in DOMAIN events |-> Value(events[i])]]

\* Wrong variant: the positions of the source written as text.
LakeBatchAsText(events) ==
  [op        |-> Column("utf8",  events, LAMBDA e : OpText[e.op]),
   ts_ms     |-> Column("int64", events, LAMBDA e : e.ts),
   db        |-> Column("utf8",  events, LAMBDA e : e.source.db),
   schema    |-> Column("utf8",  events, LAMBDA e : e.source.schema),
   table     |-> Column("utf8",  events, LAMBDA e : e.source.table),
   connector |-> Column("utf8",  events, LAMBDA e : e.source.connector),
   lsn       |-> Column("utf8",  events, LAMBDA e : e.source.lsn),
   txId      |-> Column("utf8",  events, LAMBDA e : e.source.tx)]

\* OpenLakeSink::events_to_batch, its column types those of make_schema.
LakeBatch(events) ==
  [op        |-> Column("utf8",  events, LAMBDA e : OpText[e.op]),
   ts_ms     |-> Column("int64", events, LAMBDA e : e.ts),
   db        |-> Column("utf8",  events, LAMBDA e : e.source.db),
   schema    |-> Column("utf8",  events, LAMBDA e : e.source.schema),
   table     |-> Column("utf8",  events, LAMBDA e : e.source.table),
   connector |-> Column("utf8",  events, LAMBDA e : e.source.connector),
   lsn       |-> Column("int64", events, LAMBDA e : e.source.lsn),
   txId      |-> Column("int64", events, LAMBDA e : e.source.tx),
   snapshot  |-> Column("utf8",  events, LAMBDA e : e.source.snapshot),
   before    |-> Column("utf8",  events, LAMBDA e : e.before),
   after     |-> Column("utf8",  events, LAMBDA e : e.after)]

\* BatchConverter::events_to_batch for a schema that maps names to types and
\* nullability. It makes text of everything, and RecordBatch::try_new refuses a
\* column that is not of its field's type, or is null where that may not be.
Cell(name, e) ==
  CASE name = "op"        -> OpText[e.op]
    [] name = "ts_ms"     -> e.ts
    [] name = "db"        -> e.source.db
    [] name = "schema"    -> e.source.schema
    [] name = "table"     -> e.source.table
    [] name = "connector" -> e.source.connector
    [] name = "lsn"       -> e.source.lsn
    [] name = "txId"      -> e.source.tx
    [] name = "snapshot"  -> e.source.snapshot
    [] OTHER              -> Null

EventsToBatch(events, schema) ==
  LET batch == [name \in DOMAIN schema |-> Column("utf8", events, LAMBDA e : Cell(name, e))]
      fits(name) == /\ schema[name].type = "utf8"
                    /\ \/ schema[name].nullable
                       \/ \A i \in DOMAIN events : batch[name].values[i] # Null
  IN  IF events # <<>> /\ \A name \in DOMAIN schema : fits(name)
      THEN [ok |-> TRUE, batch |-> batch] ELSE [ok |-> FALSE]

\* value(row) of an Arrow array, which does not look whether the row is null.
RawValue(column, row) ==
  IF column.values[row] # Null THEN column.values[row]
  ELSE IF column.type = "utf8" THEN "" ELSE 0

\* extract_string_col and extract_int_col.
Extract(batch, name, type, row) ==
  IF name \in DOMAIN batch /\ batch[name].type = type
  THEN RawValue(batch[name], row) ELSE Null

OrElse(value, default) == IF value = Null THEN default ELSE value

RowEvent(batch, row) ==
  EventOf(OrElse(OpFrom(Extract(batch, "op", "utf8", row)), "read"), Null, Null,
          [connector |-> OrElse(Extract(batch, "connector", "utf8", row), ""),
           db        |-> OrElse(Extract(batch, "db", "utf8", row), ""),
           schema    |-> Extract(batch, "schema", "utf8", row),
           table     |-> OrElse(Extract(batch, "table", "utf8", row), ""),
           snapshot  |-> DefaultSource.snapshot,
           lsn       |-> Extract(batch, "lsn", "int64", row),
           tx        |-> Extract(batch, "txId", "int64", row)],
          Extract(batch, "ts_ms", "int64", row))

BatchToEvents(batch, rows) == [row \in 1..rows |-> RowEvent(batch, row)]
=============================================================================
