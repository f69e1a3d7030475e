# OpenCDC in TLA+

OpenCDC moves row changes from a database (PostgreSQL, MySQL, MongoDB) through a
pipeline of transforms into sinks, and has an MCP server through which a client
manages connectors.  This directory holds specifications of its parts, the TLC
configurations that check them on small instances, and theorems about them with
proofs for TLAPS.  `PROJECT.json` lists the runs, the lines of the source each
definition stands for, the hazards, the findings, and for every property a wrong
variant of the code that breaks it.

    tlc -workers 2 -config Pipeline_safety.cfg MCPipeline
    tlapm PipelineProofs.tla

## 1. The system

| part (under `src/crates/`) | state | operations | hard behaviour |
|---|---|---|---|
| `opencdc-pipeline` | `running`, the channel of the call in progress, sinks | `run`, `stream_from_offset`, `process_event`, `stop` | await order of connector and channel, failures in the middle of a fan-out, repeated runs |
| `opencdc-connector` trait | none | `start`, `snapshot`, `stream`, `stop` | sends into a bounded channel; may fail anywhere; replication never ends |
| `opencdc-connector/postgres` | client, connection task, relation cache of the decoder, last WAL position | connect with retry, snapshot, logical replication | position read before the tables; stale relations; positions between two notations |
| `opencdc-connector/mysql` | connection, table map cache, binlog position | the same over the binlog | packets with several events, rotation, unknown table ids |
| `opencdc-connector/mongodb` | client, resume token | the same over a change stream | no token between snapshot and stream |
| `opencdc-mcp` | connectors and their status, counters, rate limiter, snapshot tasks | seven tools, background snapshot, shutdown | concurrent handlers, check and use under two locks, tasks that outlive their connector |
| `opencdc-schema`, `opencdc-core`, `opencdc-serde` | none of their own: a registry client and pure functions; the caller keeps the schema | diff and evolution, type mapping, envelopes, batches, registration and wire format | lossy conversions, several announcements in a row, registrations carried out late |
| `opencdc-sink-openlake` | a cache of registered tables per sink | create table, commit over REST; register and append to a shared store | lost requests and replies, late commits, tables dropped behind the cache, batches over several tables |
| `opencdc-config`, `opencdc-demo` | none | parsing, a straight-line program | - |

How they interact: the pipeline owns its connector and its sinks and calls them
one at a time; the connector hands events over through a `tokio` mpsc channel of
1024 that the pipeline creates for each call (`snapshot`, then `stream`).  The
snapshot returns a `ConnectorOffset` with which the stream starts.  The MCP
server is a separate program.  It keeps a table of connector *descriptions* and
does not run the connectors or pipelines of the other crates: its snapshots are
a background task that sleeps and counts.

What makes each part correct:

- **Pipeline**: per sink, events in order and once; sinks agree up to the
  event being dispatched; `Ok` means complete; an error loses a bounded tail and
  nothing else; a full channel delays its source and releases it again.
- **MCP server**: the limiter admits at most the configured number of tools and
  loses no permit; counters agree; a status is true of the task behind it; a
  removed connector stays removed; requests are answered.
- **Connectors**: no change lost or sent again between snapshot and stream, a whole
  snapshot behind every offset, an end when nobody listens; a bounded number of
  attempts; a stream is read only from a server that let it in; a row is decoded with
  the columns it was written with, and the position covers what was handled.
- **Sinks**: what `Ok` and `Err` of a write say of the catalog; no sink wipes out what
  it wrote; a stored batch gives back the events it was made of.
- **Schema**: what `evolve` keeps and what its `Ok` promises; the forms of a field agree
  where they must; the id in a message leads to the schema it was written with.

## 2. Modules

| module | models | extends / instances |
|---|---|---|
| `DataInduction` | nothing: lemmas about induction, recursive functions, sums, folds and flattened sequences that the proofs share | - |
| `Delivery` | what a pipeline promises, without channel or control state | - |
| `Retry` | what `connect_with_retry` promises, whatever an attempt consists of | - |
| `Pipeline` | `pipeline.rs` with an arbitrary connector, transforms and sinks; refines `Delivery` | `Promise == INSTANCE Delivery` |
| `MCPipeline` | small instances | `Pipeline` |
| `PipelineProofs` | theorems | `Pipeline`, TLAPS |
| `McpServer` | `state.rs`, `service.rs`, `main.rs` of `opencdc-mcp` | - |
| `MCMcpServer` | small instances, symmetry | `McpServer` |
| `McpServerProofs` | theorems | `McpServer`, TLAPS |
| `Handoff` | `snapshot` and `stream` of the three connectors and the offset between them, over a database's log | - |
| `MCHandoff` | small instances, symmetry | `Handoff` |
| `HandoffProofs` | theorems | `Handoff`, TLAPS |
| `PgOutput` | `decoder.rs`, `types.rs`: pgoutput messages field by field, tuples to JSON | - |
| `PgStream` | `postgres/mod.rs`, `replication.rs`: connections, retries, a session's messages to events; refines `Retry` | `PgOutput`, `Retries == INSTANCE Retry` |
| `MCPgStream`, `PgStreamProofs` | small instance with symmetry; theorems | `PgStream`; and TLAPS |
| `MySqlWire` | `binlog.rs`, `column.rs`, `snapshot.rs`: table maps, rows, result sets as bytes | - |
| `MySqlStream` | `mysql/mod.rs`, `binlog.rs`: handshake, retries, packets to events; refines `Retry` | `MySqlWire`, `Retries == INSTANCE Retry` |
| `MySqlConnector` | the same with the snapshot before it | `MySqlStream` |
| `MCMySqlConnector`, `MySqlProofs` | small instance with symmetry; theorems | `MySqlConnector`; and TLAPS |
| `Events` | core's events, the transforms, both ways of making a record batch and the way back | - |
| `Sinks` | the two sinks of `opencdc-sink-openlake` behind a chain of transforms | `Events` |
| `MCSinks`, `SinksProofs` | small instance with symmetry; theorems | `Sinks`; and TLAPS |
| `Schemas` | schema fields as Debezium, Arrow and Avro, envelopes, diff and evolve | - |
| `SchemaTrack` | a client that keeps, registers and publishes under a schema | `Schemas` |
| `MCSchemaTrack`, `SchemaTrackProofs` | small instance; theorems | `SchemaTrack`; and TLAPS |

### Pipeline

One action per await point of `run`, `process_event` and `stop`; `pc` is the
await the call is in.

| `pc` | in the code | actions |
|---|---|---|
| `idle` | no call in progress | `Run`, `RunRejected`, `Stop` |
| `fetch` | inside `conn.snapshot(..).await` or `conn.stream(..).await`, reading the source | `Fetch`, `SourceOk`, `SourceErr` |
| `send` | the connector awaits `sink.send(event)` | `Send` |
| `drain` | `while let Some(event) = rx.recv().await` | `Recv`, `SnapshotDrained`, `StreamDrained` |
| `transform` | the transform chain of `process_event` | `Transform`, `TransformErr` |
| `dispatch` | the sink loop of `process_event`, at sink `next` | `Write`, `WriteErr`, `Dispatched` |
| `closing` | the sink loop of `stop`, then `conn.stop()` | `CloseSink`, `CloseSinkErr`, `StopConnector` |

`run()` awaits the connector call to its end *before* it reads the channel that
call fills, so `fetch`/`send` and `drain` alternate and never overlap.  That is
the code's structure, not a simplification, and what the run `backpressure` is about.

Data: an event is its number in the order the channel accepted events.  The
transforms are the set `Filtered` of events for which some transform returns
`None`; what a transform changes in an event has no influence on where it goes.
A failing write may or may not have reached its sink.  `run()` and `stop()`
borrow the pipeline mutably and so never overlap; nothing in the repository
drops a `run()` before it returns, so that is not modelled.  An event the
connector has read but not sent when its call fails was never emitted.

### McpServer

rmcp gives every request a task, so the handlers of different requests
interleave at their awaits.  An action is the code between two of them; in
particular `snapshot_start` is three steps, because it lets go of the
`connectors` lock after its check (`CheckStatus`), `update_status` takes it
again (`MarkSnapshotting`), and `tokio::spawn` follows (`SpawnSnapshot`).
`tasks[n][k]` counts the live background tasks for a name and a number of
tables; `retired` is a history variable with the counts of connectors removed.
The semaphore of tokio is fair: waiting requests form a `queue`, and a released
permit goes to its head.  `phase` is `main`: serving, after the transport closed
or SIGINT, after `shutdown_all`, and after `main` returned.

The replies of the tools are not modelled: they carry state out, none of it
comes back.  No tool fills `active_sinks`, so clearing it changes nothing.  The
statuses `Starting`, `Streaming` and `Error` are declared but never assigned.

### Handoff

The database is its `log` of changes, which goes on growing (`Commit`) while a
connector works; `After(t, n)` is table `t` after the first `n` changes.  One
module has the three connectors, chosen by `kind`, because they are written to
one pattern and differ in a few decisions:

| decision | PostgreSQL | MySQL | MongoDB | in the module |
|---|---|---|---|---|
| position read before the tables | WAL position | - | - | `ReadPosition` |
| receiver looked for before each table | no | yes; breaks off with `Ok` | as MySQL | `LookFirst`, `SnapshotReturns` |
| offset of a snapshot | `from_lsn` | `snapshot_done` | `snapshot_done` | `SnapshotReturns` |
| where the stream begins | slot or position, the later; without a slot it is refused | first binlog | when opened | `Opens`, `StreamRefused` |
| a send refused while streaming | ignored | ends the event | ends the stream | `GoOn`, `Deliver` |
| `start()` needed | yes; may make the slot | no | no | `Start`, `Stop` |

`pc` is where the call is: `position` and `tables` in `snapshot()`, `stream` in
`stream()`.  The read of a table is one step, since it is one statement, and so
are the sends of its row: what another party does between read and send changes
neither the row nor where it goes, except that the receiver may go away, which is
in the step's second case and in `Fail`.  `replica`, `begun`, `readAt` and
`refused` are history variables.  `start()` ignores every error of making the slot
(`postgres/mod.rs:129`): one that is there already is kept, and where there is none,
`Start` may leave it so.  A snapshot works without a slot, `stream()` does not
(`StreamRefused`), and a later `Start` may make a slot that begins after what the
snapshot read.  Once made, the slot never moves, because the code never confirms a
position to the server.

A WAL position is a number; `Misread` is what becomes of it when it is printed in
decimal (`replication.rs:36`) and read in hexadecimal, as the server does and as
`snapshot.rs:55` does.  The model has the low half of a position only: the high
half is 0 for the first 4 GB of WAL and reads the same.

The caller passes offsets on as `Pipeline::run` does: the offset of a snapshot
goes to the stream after it and nowhere else.  `Pipeline` keeps its receiver until
the call returns; `DropReceiver` is any other caller, for which ARCHITECTURE.md:145
promises that a connector notices.

Left out: purged binlogs and WAL, table filters, the decoding of messages (which is in
`PgOutput` and `MySqlWire`), `TRUNCATE`, a MongoDB update without its document, several
rows per table.

### PgOutput and PgStream

A message is the sequence of its fields: numbers, one-byte tags, strings, values behind
their length; one that breaks off inside a field ends in `Cut`.  A reader is a record of
where it is, what it has read and whether it has returned an error or panicked, as the
code's cursor does on an index out of bounds.  In `PgStream` the server keeps, for each table, the
descriptions it has sent (`told`), sends one before the first change of a table and
after each alteration, and attaches to every change a note of what was meant, which
only the properties read.  `ProcessChunk` is one iteration of `process_stream`: decode,
look the relation up, make an event or none, move `wal_lsn`.  `get_relation` finds the
*first* description of a table, so a table altered in a session is decoded with its old
columns until the next `stream()`; that is why `RightUnlessAltered` has its condition.
`start()` is split at its awaits: connecting, sleeping, creating the publication;
an error there leaves a handle without a client.

### MySqlWire, MySqlStream and MySqlConnector

`MySqlWire` has the readers of `binlog.rs` and `column.rs` and, as external
definitions, what a server writes: where the two differ (metadata of more than one
column type, lengths above 250, the second bitmap of an update) the model has both
sides as they are.  `MySqlStream` has a session from the dial to the last packet.  The
server opens a table under an id, maps it before each statement, and sends packets of
several events; `next_event` returns the first of a packet that counts and forgets the
rest.  A packet may be *hidden* (its first bytes make `next_event` skip it, which the
status byte real servers put before each event does) or *split* (over 16 MB).  `second`
marks an update whose second column bitmap the code does not read.  Ids grow: an id
given out again while an old map is kept is not exercised.  The tuple `got`
holds the events that were sent, `sent` the rows of the session; both end with it.

`MySqlConnector` puts the snapshot before the stream, as `Pipeline::run` does.  A
result set comes as packets; `QueryTable` reads it to its end mark.  The text of the
query goes out without the byte that says it is one (`snapshot.rs:103`), so the server
may answer anything.  When all tables are asked for, `discover_tables` looks columns up
by name in rows whose columns have numbers, finds none, and the snapshot is empty and
`Ok`.

### Events and Sinks

An event is its operation, images, source and time; images are opaque.  `Through` is
the transform chain of `process_event` with the three transforms of `transform.rs`
(rename pairs are applied one after the other, each to what the last one made).  In
`Sinks` several sinks of each kind work at once, each on one call of `write`.  A REST
write is a request to create the table, unless the sink's cache has it, and one to
commit; requests and replies may be lost or arrive after the sink has given up
(`RestFails`), and tables may be dropped by others.  What the commit carries is a
table and a number of events: `RestCatalogSink` sends no rows.  The catalog and the
store are external; whether the store's `register` clears a table that exists is not
in this repository, so `Register` allows both.

### Schemas and SchemaTrack

A field is a record with the members of `DebeziumField`; types are their names.
`ToArrow`, `FromArrow`, `ToAvro` and the envelopes translate the conversion functions.
The three envelopes of the code differ in their sources and are three definitions:
`ArrowEnvelope` (`arrow.rs`) with `xmin` and flags that are all set, `EnvelopeFields`
(`envelope.rs`) with a resume token and a transaction, `BuiltEnvelope` (`builder.rs`)
with thirteen source fields and columns as they are.  An Avro entry keeps a decimal's
precision and scale and a struct's name; `convert_schema`, for a schema that is not a
table's, is left out.
The order of new columns is that of a hash map, so `Evolve` is a set of results.
`SchemaTrack` is the client those functions are written for: it evolves the schema it
keeps whenever the source announces the table, registers its Avro form and publishes
under the id it was given.  A registration whose time is up (`RegisterFails`) stays in
`net` and may be carried out later; the client hears of the last one only.

### Wrong variants

Next to an action some modules define a variant that is not part of the
specification and whose comment begins "Wrong variant": an order swapped, a guard
dropped, a reset forgotten.  Replacing the action by it must break the property
`PROJECT.json` pairs it with, which shows that the property sees the difference.

## 3. Runs

| run | instance | checks | shows |
|---|---|---|---|
| `safety` | channel 2, 2 sinks, calls of up to 3 events, 2 runs, events 2 and 5 filtered | `OkMeansDone`, `Accounted`, `LossIsTail`, `KeepsPromise`, `CallsGetOn` | order, agreement of the sinks, completeness of `Ok`, bounded loss, refinement of `Delivery`, a bound on the steps of a call |
| `live` | calls of at most 2 events (they fit) | `CallsReturn` under `FairSpec` | `run` and `stop` return |
| `backpressure` | one event too many | `BackpressureReleases` **fails** | finding 1 |
| `mcp_safety` | 3 requests, 2 permits, 2 names, 0 or 2 tables | `RateLimited`, `TotalAccounted`, `SnapshottingHasTask`, `NoResurrection`, `ProgressKept` | concurrent handlers and tasks |
| `mcp_live` | 2 requests, 1 permit, all tools but `connector_remove` | `Answered`, `SnapshotsEnd`, `StatusTracksTask` | every request is answered, every snapshot ends; the case in which a status is true of its task |
| `mcp_overlap` | 2 permits | `OneSnapshot` **fails** | finding 2 |
| `handoff_safety` | 3 connectors, 2 tables, 2 rows, 3 changes | `LossIsWindow`, `AgreedPosition`, `NoReplay`, `EndsAtRefusal` | changes are lost between a table's read and the stream's opening only; PostgreSQL's order of position and tables is right, as far as the slot was there; which calls end without a receiver |
| `handoff_postgres` | PostgreSQL, WAL positions from 8 | `StreamsFromSnapshot` **fails** | finding 3 |
| `pg_stream` | 2 tables, 3 shapes, 2 changes, 2 transactions, 2 descriptions, 2 connections, 3 attempts | `RetriesAsPromised`, `RightUnlessAltered`, `PositionCovers` | what a change becomes, what the position covers, how often a start connects; refinement of `Retry` |
| `mysql` | 2 tables, 2 shapes, 2 ids, packets of 2 events, 2 rows, 2 attempts; snapshots of 0 to 2 tables | `StreamsLetIn`, `RowsAreRight`, `RowsAreComplete`, `SnapshotIsRight`, `RetriesAsPromised` | no row with another table's columns, and when none is lost; what a snapshot's `Ok` says; refinement of `Retry` |
| `sinks` | 2 sinks of each kind, 3 writes, 3 batches, 3 transforms | `CommittedOnce`, `RowsStay`, `BatchesReadBack` | at most one commit per write, no rows wiped out, what a batch keeps |
| `schemas` | 5 announcements, 3 policies, 2 registrations, 2 messages | `FirstSightWins`, `OkFits`, `FormsAgree`, `Readable` | what evolution keeps; agreement of the forms; ids that lead back |

Every passing run but `live` and `mcp_live` checks its module's type invariant as well.

Bounds and why they are enough.  A channel of two has the states empty, partly
full and full, and three events overfill it; the code compares the channel's
length with its capacity only.  Two sinks are the least that can disagree.  Two
runs of two calls each let a failed call precede a later one in every
combination, and give up to eight events, two of them filtered, one at the end
of a first snapshot and one in a later phase.  Three requests with two permits
are the least with two tools at work and one waiting; two names let handlers
work on the same and on different connectors; table lists of length 0 and 2
distinguish `tables.len().max(1)` from `tables.len()`; `MaxSnapshots` bounds the
snapshots asked for, which keeps counters finite.  In `Handoff`, with WAL positions
4, 6, 8 and 10, three read the same in both notations and the fourth does not (10
becomes 16); two tables are the least of which one is read after a change and the
other before; three changes put one before the snapshot, one inside it and one
after it; a call may fail and be repeated any number of times.  `handoff_postgres`
begins at 8, so that the position misread is there after one change and the
counterexample is about it and nothing else.

In `PgStream` two changes and two descriptions are the least with which a table is
described, altered, described again and changed; three shapes are a column, another
before it, and another type.  Two connections let a second `start` overwrite the handle
of the first.  In `MySqlConnector` two tables under two ids are the least with which a
row can be read with the wrong map; the shapes have a different number of columns, so
that it shows; two events in a packet are the least of which one is lost; texts are
null, empty, short, and one byte too long for a one-byte length.  Sessions, streams and
snapshots repeat without bound.  In `Sinks` three writes let one sink write twice
around another's; the batches have one table under two databases, one of them renamed
by the chain, an event that is filtered out, and one event or two.  In `SchemaTrack` the
announcements add, drop, retype and relax columns, one cannot be written as Avro, and
ids begin at 256 so that two of the four bytes are used.

Deadlock is not checked where the system may stop: nobody has to call `run()`
again, a blocked source stays blocked, the server's process ends, and bounded
sessions, writes and registrations are used up.

Fairness.  `FairSpec` of `Pipeline` assumes that the tokio runtime polls a ready
future again and that connectors, transforms and sinks answer; the connector
calls are those that come to an end, like the snapshots and the demo's.
`FairSpec` of `McpServer` assumes weak fairness of each handler and each
snapshot task, which wait for nothing but the runtime, a 100 ms sleep, a lock
that is held for a moment and an HTTP client with a timeout.  The client is not
fair: it need not send a request nor close the transport.  The other modules state no
fairness: databases, networks and catalogs owe nothing, and `RestCatalogSink` has no
timeout that would end a write nobody answers.

## 4. Proofs

All theorems hold for every value of the constants that the modules' assumptions
allow: any capacity above 0, any number of sinks, any set of filtered events, any
bounds; any finite set of requests, any names, any number of permits; any tables,
rows and WAL layout, any length of the log; any number of attempts, any sinks, batches
and transforms, any announcements and any first id.

`PipelineProofs`: the properties are not inductive as they stand.  `IInv` adds to
them that the channel holds the newest events without a gap, with the event in
hand just before them (`Contiguous`); what `pc` says about the other variables
(`Control`); that a sink holds only settled events, and the event in hand only
if it stands before `next` (`HeldIsSettled`, `Dispatching`); and that losses
belong to failed runs (`LostByFailure`).  Without `Contiguous` an event taken
from the channel might be older than what sinks have, and `InOrder` would not be
preserved by `Write`.  `Inductive` proves `IInv`, one lemma per group of actions;
`SinkOrder`, `CallsFit`, `NothingVanishes`, `OkMeansComplete`,
`StopMeansClosed`, `OkIsDone` and `LossBounded` follow from it; `Wedged` and `Implements`
are about steps and use it in every state.  `Implements` proves that each step is a step of `Delivery`
or a stutter, under `emitted <- sent`, `settled <- sent - Len(chan) - InHand`,
`delivered <- received`.  `PromiseIsOrder` shows that this is enough for the order the sinks
see: `InOrder` and `FanOutOrder` follow from `KeepsPromise` alone, so the run checks
`KeepsPromise` in their place.

`CallsAreBounded` is what can be proved here of "each call returns".  `Work` is a natural
number in every reachable state: what is still to do with the event in hand
(`EventWork`), with those in the channel, with what the connector may yet read
(`SourceWork`, bounded by `FetchBound`), with the stream after the snapshot
(`StreamAhead`) and with the call (`CallWork`).  Every step of a call makes it smaller,
whatever connector, transforms and sinks answer; a retry of a failed write, for one,
would not (`WriteErrRetries`).  So a call can fail to return only by waiting for ever,
which `CallsReturn` (TLC) excludes for calls that fit the channel, and `Wedged` shows
to happen for those that do not.

`McpServerProofs`: the limiter needs, besides its own sum, that no request is in
the queue twice (`Admission`) - otherwise handing a permit to the head of the
queue could admit the same request twice.  `SnapshotsAreBacked` is inductive with
the types.  `EveryEventCounted` is about two sums, of counts by connector and of events
by removed connector; `SumChange` of `DataInduction` says what one changed entry does to
a sum, and an absent connector has a count of zero.  `OneToolAtATime` and
`OneToolOneSnapshot` are about the case of one permit and no `connector_remove`:
`SerialServing` says that a handler between its check and its spawn is alone and what it
checked is still true; its proof uses the limiter to show that two such handlers cannot
be.  `OneSnapshot` is what the run `mcp_overlap` refutes: the theorem says what it takes
to refute it.  `ServedInTurn` says that permits are given first come, first served,
whatever the handlers in between did: a waiting request leaves the queue from its head
only and otherwise keeps its place or moves up, and nobody gets a permit on arrival while
one waits.  `NoPermitsNoAnswer` is the case of
`OPENCDC_MAX_CONCURRENT_TOOLS=0`: no tool ever runs, and a request that waits does so for
ever.

`HandoffProofs`: `AgreedPosition` is about the stream and must be carried there
from the snapshot.  `PositionInv` says, for each place of a call, that the position
lies before each table read so far, and that an offset with a position is the one just
read, with no table left (`OkSnapshotIsComplete` is part of this).  When the stream
opens with a position that reads the same in both notations, it passes over exactly the
changes before it, or begins at the slot where that is later - which it is only when
`start()` had failed to make it before the snapshot; the property allows that place and
none after it.
`LossInWindow` needs what a reader knows of the log besides (`KnowledgeInv`): each
change is in the copy of its table, behind the place of the stream, or between the two.
`NeverReplays` needs that reading decimal digits as hexadecimal never makes a number
smaller: a recursion on digits, by `StrongInduction`.  `OffsetsMisread` sharpens this for
finding 3: a position reads the same exactly when it has one digit, all others are taken
for later ones, and their order is kept.  `RefusalEndsCall` is apart from
that: a call that gives up at a refusal has seen none as long as it is at work, since
every call opens a channel of its own.

`PgStreamProofs`: `RetryInv` ties what was slept to the attempts that failed,
`2 * waited = attempt * (attempt +/- 1)` on either side of a sleep, and keeps the last
attempt out of the sleep; `RetryBounded` follows since a(a + 1) grows with a
(`RetriesAreBounded`; the run checks the refinement, which says more).
`StartRetries` proves that each step of the connector is one of `Retry` (an attempt
fails, a wait longer than the one before ends, the call is over) or a stutter;
`CallsRetry` of `MySqlProofs` proves the same of a connector whose attempt is not one
step but a connect and a handshake that can end at each packet, where `attempt` counts
from another place in the code.  Both depend on the last attempt not being slept after.
`MessagesReadBack` is the decoder's part: for every message a session can send, `Decode`
of `Encode` is the message.  The words a message is made of stand in the chunk one behind
the other (`WordsStand`), each reader takes one word and leaves the next one in front,
and the lists of columns are read by a recursion whose steps agree with those of the
words (`GoOnAlike`).  The stream's own invariant says that a change on its way has its
relation before it, unless the decoder knows it (`DescribedFirst`), and that the
positions on their way grow in step with the changes of the log (`InOrder`: a function
`count` says how many changes each chunk has behind it); `PositionIsCovered` and
`EventsAreRight` follow from the two and from `MessagesReadBack`.

`MySqlProofs` has four parts.

- The session: one in which the dump is asked for has been granted `slave`, which only the
  reply to `register_slave` gives; every other step ends the session or leaves both alone
  (`OnlyLetIn`).
- The snapshot: `ResultRead` goes through a result packet by packet, for any number of
  columns and rows (`RowUpTo`: text by text, as far as the texts are short).
  `LongTextMisread` is the other half: the first text of more than 250 bytes is read as a
  different one, so `Short` in `SnapshotIsRight` leaves out no row that would be right.
  Texts of 252 bytes are left out of it: the code takes the mark 252 for a length, and one
  such text, that repeats the three bytes before it, comes out as itself.
  `SnapshotInv` says that the rows that were sent and those still to
  send are, one by one, those of the results that were read, and that what was asked for
  is what was answered and what is left; `SnapshotRight` follows.
- The binlog's bytes: `RowsReadBack` shows that the readers give back what a server encodes
  with a table's types and metadata.  A bitmap gives its bits back (`BitmapBack`), a
  value its bytes (`ColumnBack`), a row ends where the next one begins (`StandingRow`), and
  the recursion of `ReadRows` takes one row of the event at each of its steps
  (`RowsOneByOne`).  An update's second bitmap is read as a row of its own, all null,
  which shifts the rows that follow by one; their number is still right.
- The stream: `SessionInv` needs for `RowsAreRight` that an event on its way has the bytes
  of rows that were sent (`QueueMeant`), that events carry rows in the order in which they
  were sent (`QueueOrder`), and that a map the client has is that of the table which the
  server opened under the id, with the metadata it sent (`TablesMeant`).  Packets that were
  hidden or misread only take events away.  `RowsAreComplete` needs besides that, as long
  as nothing was hidden and nobody refused, each row sent was read or waits in a packet
  that loses nothing (`Covered`, `Plain`), and that a row's map was read or stands before it
  (`KnownAt`); all this is `Lossless`.

`SinksProofs`: `CommitsOnce` needs that a request on its way and a commit exclude each
other (`OnceInv`), that a sink that still asks for its table has neither, and that every
request, reply and commit belongs to the write it names (`Matches`); otherwise a request
that arrives late could be a second commit of a write repeated meanwhile.
`WrittenRowsStay` and the type invariant need what a sink believes of the catalog and of
the store (`Beliefs`): a key it holds was in the catalog, and its rows are in their table
as long as nobody else registered or dropped it.  `StoredReadsBack` goes through the
operators: the chain hands an event on under other names or drops it (`ThroughTo`, by
`PartsFromBelow` along the fold), so what a sink is handed are events (`HandedEvents`);
each column is read back as what was put into it, and an operation's text names one
operation.

`SchemaTrackProofs`: the registry has no schema twice, the success that is waited for
is that of the last registration (`ReplyHolds`), and what is held, and each message, has
an id whose place in the registry has its schema (`IsIdOf`), which registrations carried
out late do not move.  `DecodeEncode` shows that the wire format gives id and payload back,
for every natural number: the code's `u32` is a narrower type, and an id that does not fit
is out of the registry's range.  `ColumnsStay` and `OkMeansFit` follow the schema through
`Evolve`, whatever order the hash map yields, and `FormsStayTrue` is a fact about any
list of fields with distinct names that `TrackTypeCorrect` provides; `FieldBack` is its
part about Arrow, field by field.  `EvolveSettles`: columns that were taken once are never
refused when they are announced again and change nothing, although `diff` goes on
reporting their types and flags.

What these proofs assume of the constants beyond their types: there are finitely many
`Names` and `TableCounts` (what a client can name is finite); the columns of a table have
distinct names; `Null` is no text, number, flag or operation; the batches hold events as
the type `ChangeEvent` has them, with a database, a table and a connector; the cells of a
tuple are of the three kinds of pgoutput, and a field of a message is no end-of-chunk
mark.  MySQL's tables have columns, of strings of up to 255 bytes and of integers of one,
two, four or eight bytes, without a sign and within `i64`; a row event has rows; results
have rows, of at most 250 columns, and their texts are bytes.  Of other columns (blobs, longer
strings, decimals, dates, three-byte and negative integers) the MySQL theorems say nothing.
TLC evaluates all of them on every run.

Induction over data is proved where it is needed, in `DataInduction`: it takes a set or a
function where the library's theorems take an operator, and the recursion theorem it
proves (`RecursionExists`) gives a recursive definition its equation.

Every invariant, action property and refinement that a passing run checks is stated by a
theorem.  Only model-checked: `CallsReturn`, `Answered` and `SnapshotsEnd`, which are
liveness and rest on `ENABLED` (outside TLAPS's reach here), and the counterexamples of
section 5.  Of the first two the safety halves are proved: the steps of a call are
bounded (`CallsAreBounded`), requests are served in their order (`ServedInTurn`).

## 5. Findings

1. `backpressure`: more than 1024 rows in a snapshot block `run()` for ever
   (`pipeline.rs:68`); ARCHITECTURE.md:16 and :147 describe backpressure that lets go.
   `Wedged` proves that no step gets out of it, for any capacity.  The same holds of
   `stream()` (`pipeline.rs:98`), which for the replication connectors does not return
   at all: what it sends is never read, against ARCHITECTURE.md:17.
2. `mcp_overlap`: check and mark of `snapshot_start` are not atomic (`service.rs:134`).
3. `handoff_postgres`: the WAL position is printed in decimal and read in hexadecimal
   (`replication.rs:36`), so the stream begins too late and changes are lost; "Stream
   from snapshot offset" (`pipeline.rs:80`).  `PositionInTime` proves that, where the
   two notations agree, only a slot made after the snapshot lets the stream begin late.

What the models show of the code besides, where a property has a condition because of
it.  Nothing here contradicts a sentence of the documents that a run could refute, or
the sentence is one already refuted above.

- A snapshot task survives the removal of its connector and ends on the next one of
  that name (`service.rs:91`): `StatusTracksTask` holds without `connector_remove` only.
- The snapshots of MySQL and MongoDB return no position (`mysql/snapshot.rs:62`,
  `mongodb/snapshot.rs:70`): MySQL's stream repeats the history, MongoDB's begins when it
  is opened.  `LossIsWindow` says what that may lose.
- A slot that `start()` failed to make and a later `start()` made begins after what the
  snapshot read (`postgres/mod.rs:129`); `AgreedPosition` has `opened = slot` for it.
- PostgreSQL and MySQL stream on without a receiver (`GoOn`; ARCHITECTURE.md:145).
- A relation announced again does not replace the first (`decoder.rs:86`); `TRUNCATE`
  moves the position and sends nothing; an unchanged TOAST column reads as null.
- MySQL: what follows the first counted event of a packet is dropped; the second bitmap
  of an update costs values but no row; lengths above 250 and those of long blobs are
  misread; numbers are read without their sign, as the server sends no metadata for them
  (`column.rs:77`), and `MEDIUMINT` takes four bytes of the three there are; an
  error in the middle of a result is read as a row, and the reader waits on; a snapshot
  of all tables reads none and returns `Ok`; a greeting cut short, or an error of fewer
  than three bytes, panics (`Panic`).
- A request for another authentication counts as success, so `start()` may return `Ok`
  without a login; `stream()` is refused at `register_slave` (`StreamsLetIn`).
- `RestCatalogSink` commits a count without rows, with the snapshot id 0 and no
  requirement; a table dropped behind its cache is never made again; two databases with
  a table of one name share it in the catalog.
- `OpenLakeSink` and `RestCatalogSink` file a batch under the table of its first event.
- `BatchConverter` reads an absent number as 0 and loses images and phase; from its own
  batches it loses time and position too, as it writes text where it reads numbers.
- `evolve` under `AutoAdd` and `Warn` adopts no new type, no flag and no removal, and
  compares envelopes without looking into them.  An absent `optional` means nullable in
  Arrow and required in Avro; an optional field has no name in its Avro entry.
- `connect_with_retry` waits longer by 500 ms each time; ARCHITECTURE.md:86 calls the
  same formula exponential.
- `main` does not wait for its snapshot tasks (`main.rs:66`; ARCHITECTURE.md:154).
  `Exit` models it; the tasks are in memory only.

## 6. Not modelled, and the plan

Not modelled on purpose:

- the health endpoint, which reads the server's state and writes HTTP; configuration
  parsing, which has no state and no order; the demo, which is one `Pipeline::run`;
- JSON and Arrow IPC of `opencdc-serde` and the conversion of BSON: library formats;
- the registry client's other requests and `naming.rs`: single requests and formats that
  nothing in the repository combines;
- transaction metadata, which no code fills in;
- the conversion of a PostgreSQL snapshot's values (`snapshot.rs:165`), which the driver
  decides; `stop()` of MySQL, which drops a connection that nothing uses; dates, times
  and decimals of MySQL, which stand for themselves in `DecodeBinlogValue`.

What could come next, in this order:

1. A composition of `Pipeline` with a connector that has its own life cycle: a second
   `run()` after `stop()` finds PostgreSQL without a client.
2. `MongoStream`: operation types and resume tokens, with updates that lack a document.
   Its `connect_with_retry` is written as the other two; it is not mapped to `Retry` yet.
