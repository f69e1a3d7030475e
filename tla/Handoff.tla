------------------------------ MODULE Handoff -------------------------------
(***************************************************************************)
(* From the snapshot of a connector to its stream: what the PostgreSQL,    *)
(* MySQL and MongoDB connectors make of the database's log, with a         *)
(* database that goes on changing and a receiver that may go away.         *)
(*                                                                         *)
(* The database is its log of changes; a table holds at most one row,      *)
(* because the rows of a table come from one statement and change nothing  *)
(* in each other.  Servers are modelled as the connectors use them: what   *)
(* they send is taken to be framed and filled as the code expects it (for  *)
(* MongoDB an update comes with its document, as a replace does).  The     *)
(* caller hands offsets on as Pipeline::run does: stream() gets the offset *)
(* of the snapshot before it, or none; other than Pipeline it may drop its *)
(* receiver at any time.  `replica' is what a consumer knows that applies  *)
(* every event and starts over with a snapshot.                            *)
(***************************************************************************)
EXTENDS Integers, Sequences, FiniteSetsExt

CONSTANTS
    Kinds,      \* the connectors considered
    Tables,
    Rows,       \* what a table's row may hold
    NoRow,      \* the table is empty
    FirstLsn,   \* PostgreSQL's WAL position before the first change
    LsnStep,    \* WAL bytes per change
    MaxChanges  \* bound: length of the log

ASSUME HandoffAssumption ==
    /\ Kinds \subseteq {"postgres", "mysql", "mongodb"}
    /\ NoRow \notin Rows
    /\ FirstLsn \in Nat
    /\ LsnStep \in Nat \ {0}
    /\ MaxChanges \in Nat
    \* positions fit the low half of an LSN; the high half is 0
    /\ FirstLsn + LsnStep * MaxChanges < 10^8

VARIABLES
    log,        \* changes committed in the database: [table, row]
    slot,       \* PostgreSQL: changes before the replication slot, -1 if none
    kind,       \* which connector this is
    pc,         \* "stopped", "ready", or where its snapshot() or stream() is
    receiver,   \* whether the receiver of the call's channel is still there
    refused,    \* sends of the call that found no receiver
    todo,       \* tables the snapshot has still to read
    position,   \* WAL position the snapshot read
    offset,     \* what the last snapshot() returned, until stream() takes it
    from,       \* the offset the last stream() was given
    opened,     \* changes the last stream() passed over when it opened
    next,       \* the next change of the stream
    begun,      \* length of the log when the last snapshot() began
    readAt,     \* readAt[t]: length of the log when the snapshot read t, or 0
    replica     \* replica[t]: the row of t for the consumer

serverVars   == <<log, slot>>
channelVars  == <<receiver, refused>>
snapshotVars == <<todo, position, begun, readAt>>
streamVars   == <<from, opened, next>>
vars == <<serverVars, kind, pc, channelVars, snapshotVars, offset, streamVars, replica>>

\* The row of t after the first n changes.
After(t, n) ==
    LET of == {i \in 1..n : log[i].table = t}
    IN  IF of = {} THEN NoRow ELSE log[Max(of)].row

Now(t) == After(t, Len(log))

\* ConnectorOffset, as far as the connectors fill it in.
NoOffset == [kind |-> "none", lsn |-> 0]
Done     == [kind |-> "done", lsn |-> 0]
AtLsn(l) == [kind |-> "lsn", lsn |-> l]

-----------------------------------------------------------------------------
(* WAL positions.                                                          *)

\* The WAL position after n changes.
Lsn(n) == FirstLsn + LsnStep * n

\* How many changes lie before a position, also one not written yet.
Before(l) == IF l < FirstLsn THEN 0 ELSE (l - FirstLsn) \div LsnStep

\* An LSN printed in decimal digits and read as hexadecimal ones.
Misread[l \in Nat] == IF l < 10 THEN l ELSE 16 * Misread[l \div 10] + (l % 10)

-----------------------------------------------------------------------------

Init ==
    /\ log = <<>> /\ slot = -1
    /\ kind \in Kinds
    /\ pc = IF kind = "postgres" THEN "stopped" ELSE "ready"
    /\ receiver = FALSE /\ refused = 0
    /\ todo = {} /\ position = 0 /\ begun = 0
    /\ readAt = [t \in Tables |-> 0]
    /\ offset = NoOffset /\ from = NoOffset
    /\ opened = 0 /\ next = 1
    /\ replica = [t \in Tables |-> NoRow]

\* The application inserts, updates or deletes a row.
Commit(t, row) ==
    /\ Len(log) < MaxChanges
    /\ row # Now(t)
    /\ log' = Append(log, [table |-> t, row |-> row])
    /\ UNCHANGED <<slot, kind, pc, channelVars, snapshotVars, offset, streamVars, replica>>

-----------------------------------------------------------------------------
(* start() and stop().  Those of MySQL and MongoDB change nothing that     *)
(* snapshot() and stream() look at.                                        *)

\* The slot is created once.  Every error of that statement is ignored, not only
\* that the slot exists already: start() may succeed and leave none, and a later
\* start() may make it.
Start ==
    /\ kind = "postgres"
    /\ pc = "stopped"
    /\ pc' = "ready"
    /\ \/ UNCHANGED slot
       \/ slot = -1 /\ slot' = Len(log)
    /\ UNCHANGED <<log, kind, channelVars, snapshotVars, offset, streamVars, replica>>

Stop ==
    /\ kind = "postgres"
    /\ pc = "ready"
    /\ pc' = "stopped"
    /\ UNCHANGED <<serverVars, kind, channelVars, snapshotVars, offset, streamVars, replica>>

\* Each call gets a channel of its own.
OpenChannel == receiver' = TRUE /\ refused' = 0

DropReceiver ==
    /\ receiver
    /\ pc \in {"position", "tables", "stream"}
    /\ receiver' = FALSE
    /\ UNCHANGED <<serverVars, kind, pc, refused, snapshotVars, offset, streamVars, replica>>

\* The call returns an error, or the server ends the stream: the connection is
\* lost, or a query fails.
Fail ==
    /\ pc \in {"position", "tables", "stream"}
    /\ pc' = "ready"
    /\ UNCHANGED <<serverVars, kind, channelVars, snapshotVars, offset, streamVars, replica>>

-----------------------------------------------------------------------------
(* snapshot().                                                             *)

\* The connectors that look for a receiver before each table.
LookFirst == {"mysql", "mongodb"}

BeginSnapshot ==
    /\ pc = "ready"
    /\ pc' = IF kind = "postgres" THEN "position" ELSE "tables"
    /\ OpenChannel
    /\ todo' = Tables
    /\ begun' = Len(log)
    /\ readAt' = [t \in Tables |-> 0]
    /\ offset' = NoOffset
    /\ replica' = [t \in Tables |-> NoRow]
    /\ UNCHANGED <<serverVars, kind, position, streamVars>>

\* get_snapshot_lsn, before any table is read.
ReadPosition ==
    /\ pc = "position"
    /\ pc' = "tables"
    /\ position' = Lsn(Len(log))
    /\ UNCHANGED <<serverVars, kind, channelVars, todo, begun, readAt, offset,
                   streamVars, replica>>

\* Wrong variant: a row that found no receiver is sent again.
ReadTableRetries(t) ==
    /\ pc = "tables"
    /\ t \in todo
    /\ kind \notin LookFirst \/ receiver
    /\ \/ /\ receiver \/ Now(t) = NoRow
          /\ todo' = todo \ {t}
          /\ readAt' = [readAt EXCEPT ![t] = Len(log)]
          /\ replica' = [replica EXCEPT ![t] = Now(t)]
          /\ UNCHANGED refused
       \/ /\ ~receiver /\ Now(t) # NoRow
          /\ refused' = refused + 1
          /\ UNCHANGED <<todo, readAt, replica>>
    /\ UNCHANGED <<serverVars, kind, pc, receiver, position, begun, offset, streamVars>>

\* One statement reads table t and its row is sent.  A send without a receiver
\* is an error; MySQL and MongoDB also look before each table, and a receiver
\* that goes after that look makes them Fail.
ReadTable(t) ==
    /\ pc = "tables"
    /\ t \in todo
    /\ kind \notin LookFirst \/ receiver
    /\ \/ /\ receiver \/ Now(t) = NoRow
          /\ todo' = todo \ {t}
          /\ readAt' = [readAt EXCEPT ![t] = Len(log)]
          /\ replica' = [replica EXCEPT ![t] = Now(t)]
          /\ UNCHANGED <<pc, refused>>
       \/ /\ ~receiver /\ Now(t) # NoRow
          /\ pc' = "ready"
          /\ refused' = refused + 1
          /\ UNCHANGED <<todo, readAt, replica>>
    /\ UNCHANGED <<serverVars, kind, receiver, position, begun, offset, streamVars>>

\* Wrong variant: the position is read when the tables are.
SnapshotReturnsLate ==
    /\ pc = "tables"
    /\ todo = {} \/ (kind \in LookFirst /\ ~receiver)
    /\ pc' = "ready"
    /\ offset' = IF kind = "postgres" THEN AtLsn(Lsn(Len(log))) ELSE Done
    /\ UNCHANGED <<serverVars, kind, channelVars, snapshotVars, streamVars, replica>>

\* snapshot() returns Ok.  MySQL and MongoDB do so as well when they find the
\* receiver gone, whatever tables are left, and return no position.
SnapshotReturns ==
    /\ pc = "tables"
    /\ todo = {} \/ (kind \in LookFirst /\ ~receiver)
    /\ pc' = "ready"
    /\ offset' = IF kind = "postgres" THEN AtLsn(position) ELSE Done
    /\ UNCHANGED <<serverVars, kind, channelVars, snapshotVars, streamVars, replica>>

-----------------------------------------------------------------------------
(* stream().                                                               *)

\* Wrong variant: the slot alone decides.
PostgresOpensAtSlot(o) == slot

\* The server starts at the slot or the position asked for, if that is later.
PostgresOpens(o) == Max({slot, Before(IF o.kind = "lsn" THEN Misread[o.lsn] ELSE 0)})

\* Neither snapshot_done() nor None holds a GTID or file: the dump begins with
\* the first binlog, position 4.
MySqlOpens(o) == 0

\* Neither holds a resume token: the change stream begins when it is opened.
MongoOpens(o) == Len(log)

Opens(o) ==
    CASE kind = "postgres" -> PostgresOpens(o)
      [] kind = "mysql"    -> MySqlOpens(o)
      [] kind = "mongodb"  -> MongoOpens(o)

\* The connectors whose stream goes on after a refused send.
GoOn == {"postgres", "mysql"}

\* START_REPLICATION names the slot: without one the server refuses, stream()
\* returns an error, and the caller's offset is spent.
StreamRefused ==
    /\ pc = "ready"
    /\ kind = "postgres" /\ slot = -1
    /\ OpenChannel
    /\ from' = offset
    /\ offset' = NoOffset
    /\ UNCHANGED <<serverVars, kind, pc, snapshotVars, opened, next, replica>>

\* run(Some(tables)) passes the offset on, run(None) has none.
BeginStream ==
    /\ pc = "ready"
    /\ kind = "postgres" => slot # -1
    /\ pc' = "stream"
    /\ OpenChannel
    /\ from' = offset
    /\ offset' = NoOffset
    /\ opened' = Opens(offset)
    /\ next' = Opens(offset) + 1
    /\ UNCHANGED <<serverVars, kind, snapshotVars, replica>>

\* Wrong variant: only changes of rows that stay are sent on.
DeliverSkipsDeletes ==
    /\ pc = "stream"
    /\ next <= Len(log)
    /\ next' = next + 1
    /\ replica' = IF receiver /\ log[next].row # NoRow
                  THEN [replica EXCEPT ![log[next].table] = log[next].row]
                  ELSE replica
    /\ UNCHANGED <<serverVars, kind, pc, channelVars, snapshotVars, offset, from, opened>>

\* Wrong variant: MongoDB ignores a refused send too.
DeliverIgnoresRefusal ==
    /\ pc = "stream"
    /\ next <= Len(log)
    /\ next' = next + 1
    /\ refused' = IF receiver THEN refused ELSE refused + 1
    /\ UNCHANGED <<serverVars, kind, pc, receiver, snapshotVars, offset, from, opened, replica>>

\* The next change is turned into an event and sent.  Without a receiver
\* PostgreSQL ignores the error, MySQL leaves the loop over the rows of this
\* event but not the loop over events, and MongoDB returns Ok.
Deliver ==
    /\ pc = "stream"
    /\ next <= Len(log)
    /\ next' = next + 1
    /\ \/ /\ receiver
          /\ replica' = [replica EXCEPT ![log[next].table] = log[next].row]
          /\ UNCHANGED <<pc, refused>>
       \/ /\ ~receiver
          /\ refused' = refused + 1
          /\ pc' = IF kind \in GoOn THEN pc ELSE "ready"
          /\ UNCHANGED replica
    /\ UNCHANGED <<serverVars, kind, receiver, snapshotVars, offset, from, opened>>

-----------------------------------------------------------------------------

Next ==
    \/ \E t \in Tables, row \in Rows \cup {NoRow} : Commit(t, row)
    \/ Start \/ Stop \/ DropReceiver \/ Fail
    \/ BeginSnapshot \/ ReadPosition \/ SnapshotReturns
    \/ \E t \in Tables : ReadTable(t)
    \/ StreamRefused \/ BeginStream \/ Deliver

Spec == Init /\ [][Next]_vars

-----------------------------------------------------------------------------
(* Properties.                                                             *)

\* Every variable keeps its type.
TypeOK ==
    /\ log \in Seq([table : Tables, row : Rows \cup {NoRow}])
    /\ slot \in -1..Len(log)
    /\ kind \in Kinds
    /\ pc \in {"stopped", "ready", "position", "tables", "stream"}
    /\ receiver \in BOOLEAN
    /\ refused \in 0..Len(log)
    /\ todo \subseteq Tables
    /\ position \in Nat
    /\ offset \in [kind : {"none", "done", "lsn"}, lsn : Nat]
    /\ from \in [kind : {"none", "done", "lsn"}, lsn : Nat]
    /\ opened \in Nat
    /\ next \in Nat \ {0}
    /\ begun \in 0..Len(log)
    /\ readAt \in [Tables -> 0..Len(log)]
    /\ replica \in [Tables -> Rows \cup {NoRow}]

CaughtUp == pc = "stream" /\ receiver /\ next > Len(log)

\* The number of the last change of t.
LastChange(t) == Max({0} \cup {i \in 1..Len(log) : log[i].table = t})

\* A consumer that has everything the stream sent knows every table, unless
\* the last change of the table fell between its read by the snapshot and the
\* opening of the stream: no connector loses a change in any other way, however
\* snapshots, failures and streams follow one another.
LossIsWindow ==
    CaughtUp => \A t \in Tables :
        replica[t] = Now(t) \/ LastChange(t) \in (readAt[t] + 1)..opened

\* When both notations of the position agree, nothing falls between a table's
\* read and the PostgreSQL stream, because get_snapshot_lsn comes before the
\* tables, except where start() had failed to make a slot and a later start()
\* made it after that read: then the stream begins with the slot.
AgreedPosition ==
    pc = "stream" /\ from.kind = "lsn" /\ Misread[from.lsn] = from.lsn
        => \A t \in Tables : opened <= readAt[t] \/ opened = slot

\* A PostgreSQL stream never sends again what was committed before the snapshot
\* began, although the slot still holds it.
NoReplay == pc = "stream" /\ from.kind = "lsn" => begun <= opened

\* A PostgreSQL snapshot that returns its position has read every table.
OkSnapshotIsComplete == offset.kind = "lsn" => todo = {}

\* The calls that give up at a refused send do so at the first one: every
\* snapshot, and the MongoDB stream.
EndsAtRefusal == kind \notin GoOn \/ pc \in {"position", "tables"} => refused <= 1

\* "Stream from snapshot offset": the stream that follows a whole snapshot begins
\* after the snapshot's beginning and not after the first table was read.
StreamsFromSnapshot ==
    pc = "stream" /\ from.kind # "none" /\ todo = {} =>
        /\ begun <= opened
        /\ \A t \in Tables : opened <= readAt[t]

-----------------------------------------------------------------------------
(* The inductive invariant behind AgreedPosition and OkSnapshotIsComplete. *)

\* The position lies before every table read so far.
PositionHolds ==
    /\ Before(position) <= Len(log)
    /\ \A t \in Tables \ todo : Before(position) <= readAt[t]

\* What a call in progress, and an offset it returned, know of the position.
PositionInv ==
    /\ slot <= Len(log)
    /\ pc = "position" => todo = Tables
    /\ kind = "postgres" /\ pc = "tables" => PositionHolds
    /\ pc \in {"position", "tables"} => offset.kind = "none"
    /\ offset.kind = "lsn" =>
          kind = "postgres" /\ todo = {} /\ offset.lsn = position /\ PositionHolds

-----------------------------------------------------------------------------
(* The inductive invariant behind LossIsWindow and NoReplay.               *)

\* Neither a table's read nor a stream has missed its last change: it was
\* committed before the read, and before any place where a stream may open.
Settled(t) ==
    /\ LastChange(t) <= readAt[t]
    /\ kind = "mysql" => LastChange(t) = 0
    /\ kind = "postgres" /\ slot # -1 => LastChange(t) <= slot

\* Where the stream was opened.
OpenedInv ==
    /\ opened < next
    /\ next <= opened + 1 \/ next <= Len(log) + 1
    /\ kind = "postgres" => slot # -1 /\ slot <= opened
    /\ kind = "mongodb" => \A t \in Tables : readAt[t] <= opened
    /\ from.kind = "lsn" => begun <= opened

\* What the consumer knows of a table: before any stream, after streams that
\* came to an end, and during one.
KnowledgeInv ==
    /\ pc \in {"position", "tables"} \/ offset.kind # "none" => \A t \in Tables :
          LastChange(t) <= readAt[t] => replica[t] = Now(t)
    /\ pc # "stream" => \A t \in Tables : Settled(t) => replica[t] = Now(t)
    /\ pc = "stream" => OpenedInv /\ offset.kind = "none" /\ \A t \in Tables :
          LET last == LastChange(t)
          IN  \/ last <= readAt[t] /\ last <= opened
              \/ receiver /\ opened < last /\ last < next
              => replica[t] = Now(t)

\* The position was read after the snapshot began.
BegunInv ==
    (kind = "postgres" /\ pc = "tables") \/ offset.kind = "lsn" =>
        begun <= Before(position)

\* A call has not been refused more often than it sent.
RefusedInv ==
    /\ pc \in {"position", "tables"} => refused = 0
    /\ pc = "stream" => refused < next

=============================================================================
