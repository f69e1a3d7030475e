-------------------------------- MODULE Sinks --------------------------------
(***************************************************************************)
(* The two sinks of opencdc-sink-openlake at work on shared storage.        *)
(*                                                                         *)
(* A RestCatalogSink (persistent.rs) asks a catalog over HTTP to create a   *)
(* table and then to commit a snapshot to it. The catalog also serves other *)
(* clients: it may refuse, tables may be dropped, a request may be lost or  *)
(* be carried out after its sender has given up, a reply may be lost.       *)
(*                                                                         *)
(* An OpenLakeSink (lib.rs) registers a table with a TableStore it shares   *)
(* with other sinks and appends a record batch to it.                       *)
(*                                                                         *)
(* Each sink is written to by one task, as write takes &mut self. The batch *)
(* of a write has been through the transforms of a pipeline.                *)
(***************************************************************************)
EXTENDS Events, FiniteSets

CONSTANTS RestSinks, LakeSinks,  \* the sinks of either kind
          Chain,                 \* the transforms in front of them
          Batches,               \* the event slices handed to write
          MaxWrites              \* bound on the calls of write

ASSUME SinksAssumption ==
  /\ RestSinks \cap LakeSinks = {}
  /\ Null \notin {"ok", "conflict", "refused"}
  /\ \A op \in DOMAIN OpText : Null \notin {op, OpText[op]}
  /\ Chain \in Seq(Range(Chain)) /\ \A i \in DOMAIN Chain : IsTransform(Chain[i])
  /\ \A batch \in Batches :
       batch \in Seq(Range(batch)) /\ \A i \in DOMAIN batch : IsEvent(batch[i])
  /\ MaxWrites \in Nat

AllSinks == RestSinks \cup LakeSinks
NoCall == 0

VARIABLES writes,       \* every call of write: its sink, events and result
          call,         \* for each sink the call it is working on, or NoCall
          stage,        \* what that call waits for
          registered,   \* the keys each sink has registered
          net,          \* requests on their way to the catalog
          answer,       \* the reply that waits for each REST sink, or Null
          catalog,      \* the tables of the catalog
          commits,      \* what the catalog has committed, in order
          created,      \* tables the catalog has ever had
          store,        \* the tables of the TableStore and their batches
          forgotten     \* tables that were dropped from the store

restVars == <<net, answer, catalog, commits, created>>
lakeVars == <<store, forgotten>>
vars == <<writes, call, stage, registered, net, answer, catalog, commits, created,
          store, forgotten>>

-----------------------------------------------------------------------------
\* table_key and make_table_id: the schema of a table is not part of either.
TableKey(event) == <<event.source.db, event.source.table>>

\* What a pipeline makes of the events before a sink sees them.
Handed(batch) ==
  FoldLeft(LAMBDA kept, event : IF Through(Chain, event) = Null THEN kept
                                ELSE Append(kept, Through(Chain, event)), <<>>, batch)

\* write looks at the first of its events only.
First(n) == writes[n].events[1]
Key(s) == TableKey(First(call[s]))

Init ==
  /\ writes = <<>>
  /\ call = [s \in AllSinks |-> NoCall]
  /\ stage = [s \in AllSinks |-> "idle"]
  /\ registered = [s \in AllSinks |-> {}]
  /\ net = {} /\ catalog = {} /\ commits = <<>> /\ created = {}
  /\ answer = [s \in RestSinks |-> Null]
  /\ store = <<>> /\ forgotten = {}

\* The call of a sink is over, with this result.
Return(s, result) ==
  /\ writes' = [writes EXCEPT ![call[s]].result = result]
  /\ call' = [call EXCEPT ![s] = NoCall]
  /\ stage' = [stage EXCEPT ![s] = "idle"]

\* write(&[]) returns before anything else, other calls go to this stage.
Enter(s, batch, next) ==
  /\ call[s] = NoCall /\ Len(writes) < MaxWrites
  /\ writes' = Append(writes, [sink |-> s, events |-> Handed(batch),
                               result |-> IF Handed(batch) = <<>> THEN "ok" ELSE "open"])
  /\ IF Handed(batch) = <<>>
     THEN UNCHANGED <<call, stage>>
     ELSE /\ call' = [call EXCEPT ![s] = Len(writes) + 1]
          /\ stage' = [stage EXCEPT ![s] = next]

-----------------------------------------------------------------------------
(* RestCatalogSink                                                         *)

\* Both requests name the table alone, without its database.
Request(kind, n, events) ==
  [kind |-> kind, call |-> n, table |-> events[1].source.table, count |-> Len(events)]

\* ensure_table finds the key and the commit is sent, or a table is asked for.
RestWrite(s) == \E batch \in Batches :
  LET events == Handed(batch)
      kind == IF TableKey(events[1]) \in registered[s] THEN "commit" ELSE "create"
  IN  /\ Enter(s, batch, IF events = <<>> THEN "idle" ELSE kind)
      /\ net' = IF events = <<>> THEN net
                ELSE net \cup {Request(kind, Len(writes) + 1, events)}
      /\ answer' = [answer EXCEPT ![s] = Null]
      /\ UNCHANGED <<registered, catalog, commits, created, lakeVars>>

\* Wrong variant: whatever the status, the table counts as registered.
TableAnsweredAnyhow(s) ==
  /\ stage[s] = "create" /\ answer[s] # Null
  /\ registered' = [registered EXCEPT ![s] = @ \cup {Key(s)}]
  /\ net' = net \cup {Request("commit", call[s], writes[call[s]].events)}
  /\ stage' = [stage EXCEPT ![s] = "commit"]
  /\ answer' = [answer EXCEPT ![s] = Null]
  /\ UNCHANGED <<writes, call, catalog, commits, created, lakeVars>>

\* Created now or by somebody before (409), it counts as registered for good.
TableAnswered(s) ==
  /\ stage[s] = "create" /\ answer[s] \in {"ok", "conflict"}
  /\ registered' = [registered EXCEPT ![s] = @ \cup {Key(s)}]
  /\ net' = net \cup {Request("commit", call[s], writes[call[s]].events)}
  /\ stage' = [stage EXCEPT ![s] = "commit"]
  /\ answer' = [answer EXCEPT ![s] = Null]
  /\ UNCHANGED <<writes, call, catalog, commits, created, lakeVars>>

CommitAnswered(s) ==
  /\ stage[s] = "commit" /\ answer[s] = "ok"
  /\ Return(s, "ok")
  /\ UNCHANGED <<registered, restVars, lakeVars>>

\* Wrong variant: a commit that seems to have failed is sent again.
RestFailsRetrying(s) ==
  /\ s \in RestSinks /\ stage[s] \in {"create", "commit"}
  /\ IF stage[s] = "create"
     THEN Return(s, "err") /\ UNCHANGED <<net, answer>>
     ELSE /\ net' = net \cup {Request("commit", call[s], writes[call[s]].events)}
          /\ answer' = [answer EXCEPT ![s] = Null]
          /\ UNCHANGED <<writes, call, stage>>
  /\ UNCHANGED <<registered, catalog, commits, created, lakeVars>>

\* Any other status, and any failure to send or to hear: nothing is repeated.
RestFails(s) ==
  /\ s \in RestSinks /\ stage[s] \in {"create", "commit"}
  /\ Return(s, "err")
  /\ UNCHANGED <<registered, restVars, lakeVars>>

-----------------------------------------------------------------------------
(* The catalog (external)                                                  *)

Status(r) ==
  CASE r.kind = "create" -> {IF r.table \in catalog THEN "conflict" ELSE "ok", "refused"}
    [] r.kind = "commit" -> (IF r.table \in catalog THEN {"ok"} ELSE {}) \cup {"refused"}

\* A request arrives, whether or not its sender still waits for the answer.
CatalogServes == \E r \in net : \E status \in Status(r) :
  /\ net' = net \ {r}
  /\ answer' = [s \in RestSinks |-> IF call[s] = r.call /\ stage[s] = r.kind
                                    THEN status ELSE answer[s]]
  /\ catalog' = IF r.kind = "create" /\ status = "ok"
                THEN catalog \cup {r.table} ELSE catalog
  /\ created' = created \cup catalog'
  /\ commits' = IF r.kind = "commit" /\ status = "ok"
                THEN Append(commits, [call |-> r.call, table |-> r.table, count |-> r.count])
                ELSE commits
  /\ UNCHANGED <<writes, call, stage, registered, lakeVars>>

RequestLost == \E r \in net :
  /\ net' = net \ {r}
  /\ UNCHANGED <<writes, call, stage, registered, answer, catalog, commits, created, lakeVars>>

TableDropped == \E table \in catalog :
  /\ catalog' = catalog \ {table}
  /\ UNCHANGED <<writes, call, stage, registered, net, answer, commits, created, lakeVars>>

-----------------------------------------------------------------------------
(* OpenLakeSink                                                            *)

\* TableStore::register (external): what it does to a table that another sink
\* has registered, and filled, is up to it.
Register(id) ==
  \/ store' = [other \in DOMAIN store \cup {id} |-> IF other = id THEN <<>> ELSE store[other]]
  \/ id \in DOMAIN store /\ store' = store

\* Wrong variant: the key is not looked up first.
EnsureTableAgain(s, key) ==
  /\ Register(key)
  /\ registered' = [registered EXCEPT ![s] = @ \cup {key}]

EnsureTable(s, key) ==
  \/ key \in registered[s] /\ UNCHANGED <<registered, store>>
  \/ /\ key \notin registered[s]
     /\ Register(key)
     /\ registered' = [registered EXCEPT ![s] = @ \cup {key}]

LakeWrite(s) == \E batch \in Batches :
  /\ Enter(s, batch, "append")
  /\ IF Handed(batch) = <<>> THEN UNCHANGED <<registered, store>>
     ELSE EnsureTable(s, TableKey(Handed(batch)[1]))
  /\ UNCHANGED <<restVars, forgotten>>

\* Another sink may have registered the table since.
LakeAppend(s) ==
  /\ stage[s] = "append"
  /\ IF Key(s) \in DOMAIN store
     THEN /\ store' = [store EXCEPT ![Key(s)] =
               Append(@, [call |-> call[s], rows |-> Len(writes[call[s]].events),
                          batch |-> LakeBatch(writes[call[s]].events)])]
          /\ Return(s, "ok")
     ELSE Return(s, "err") /\ UNCHANGED store
  /\ UNCHANGED <<registered, restVars, forgotten>>

\* Whoever else holds the store drops a table (external).
Forget == \E id \in DOMAIN store :
  /\ store' = [other \in DOMAIN store \ {id} |-> store[other]]
  /\ forgotten' = forgotten \cup {id}
  /\ UNCHANGED <<writes, call, stage, registered, restVars>>

-----------------------------------------------------------------------------
Next ==
  \/ \E s \in RestSinks : \/ RestWrite(s) \/ TableAnswered(s)
                          \/ CommitAnswered(s) \/ RestFails(s)
  \/ CatalogServes \/ RequestLost \/ TableDropped
  \/ \E s \in LakeSinks : LakeWrite(s) \/ LakeAppend(s)
  \/ Forget

Spec == Init /\ [][Next]_vars

-----------------------------------------------------------------------------
\* Each sink works on a call of its own that is still open, and only then waits;
\* it believes a table to exist only if the catalog has had it at some time, so
\* that a commit it sends straight away fails only if the table was dropped since
\* (RestCatalogSink::ensure_table).
TypeOK ==
  /\ \A n \in DOMAIN writes : writes[n].result \in {"open", "ok", "err"}
  /\ \A s \in AllSinks :
       /\ stage[s] \in {"idle", "create", "commit", "append"}
       /\ call[s] = NoCall <=> stage[s] = "idle"
       /\ call[s] # NoCall =>
            /\ call[s] \in DOMAIN writes
            /\ writes[call[s]].sink = s /\ writes[call[s]].result = "open"
  /\ \A n \in DOMAIN writes :
       writes[n].result = "open" => call[writes[n].sink] = n
  /\ catalog \subseteq created
  /\ \A s \in RestSinks : \A key \in registered[s] : key[2] \in created

\* A write that returned Ok was committed exactly once, with the table of its
\* first event and the number of its events; one that returned Err may have been
\* committed, once, as the pipeline that sees the error cannot know
\* (RestCatalogSink::write and commit_snapshot).
CommittedOnce ==
  \A n \in DOMAIN writes : writes[n].sink \in RestSinks =>
    LET mine == {i \in DOMAIN commits : commits[i].call = n}
    IN  /\ \A i \in mine : /\ commits[i].table = First(n).source.table
                          /\ commits[i].count = Len(writes[n].events)
        /\ \A i, j \in mine : i = j
        /\ writes[n].result = "ok" /\ writes[n].events # <<>> => mine # {}

\* The rows of an OpenLakeSink write that returned Ok are in the table of its
\* first event, once, unless another sink registered that table for itself or
\* somebody dropped it: a sink never clears what it wrote (OpenLakeSink::write).
RowsStay ==
  \A n \in DOMAIN writes :
    writes[n].sink \in LakeSinks /\ writes[n].result = "ok" /\ writes[n].events # <<>> =>
      LET id == TableKey(First(n))
      IN  \/ id \in forgotten
          \/ \E s \in LakeSinks \ {writes[n].sink} : id \in registered[s]
          \/ id \in DOMAIN store /\
             Cardinality({i \in DOMAIN store[id] : store[id][i].call = n}) = 1

\* What batch_to_events leaves of an event: no images, no phase, and values for
\* the numbers and the schema that were not there.
Plain(event, Number(_), Text(_)) ==
  LET source == event.source
  IN  EventOf(event.op, Null, Null,
              [connector |-> source.connector, db |-> source.db,
               schema |-> Text(source.schema), table |-> source.table,
               snapshot |-> "false", lsn |-> Number(source.lsn), tx |-> Number(source.tx)],
              Number(event.ts))

\* ... of the batches OpenLakeSink::events_to_batch stored.
StoreReadsBack ==
  \A id \in DOMAIN store : \A i \in DOMAIN store[id] :
    LET entry == store[id][i]
        events == writes[entry.call].events
    IN  BatchToEvents(entry.batch, entry.rows) =
          [j \in DOMAIN events |-> Plain(events[j], LAMBDA v : OrElse(v, 0),
                                         LAMBDA v : OrElse(v, ""))]

\* ... of the batches BatchConverter::events_to_batch makes of the same events.
AllText == [name \in {"op", "ts_ms", "db", "schema", "table", "connector", "lsn", "txId"} |->
              [type |-> "utf8", nullable |-> TRUE]]
ConverterForgets ==
  \A n \in DOMAIN writes : writes[n].events # <<>> =>
    LET events == writes[n].events
        made == EventsToBatch(events, AllText)
    IN  /\ made.ok
        /\ BatchToEvents(made.batch, Len(events)) =
             [j \in DOMAIN events |-> Plain(events[j], LAMBDA v : Null,
                                            LAMBDA v : OrElse(v, ""))]

\* Whoever reads a stored batch with BatchConverter::batch_to_events gets one
\* event per event written, in order, each with its operation, origin, time and
\* position, where an absent time, position or schema becomes 0 or "" instead of
\* None. BatchConverter's own batches come back without any time or position, as
\* it writes text where it reads numbers.
BatchesReadBack == StoreReadsBack /\ ConverterForgets
=============================================================================
