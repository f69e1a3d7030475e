------------------------------ MODULE PgStream ------------------------------
(***************************************************************************)
(* The PostgreSQL connector: its connection, opened with retries, and the  *)
(* stream of a replication session, from the chunks of pgoutput to change  *)
(* events.                                                                 *)
(*                                                                         *)
(* The server describes a table before the first change of it that the     *)
(* session sends, and again before the first change after the table was    *)
(* altered.  What it sends is taken to come as bare pgoutput messages and  *)
(* keepalives, as the decoder reads them.  A session sends each change     *)
(* with notes for the properties, which the connector does not see.        *)
(***************************************************************************)
EXTENDS PgOutput

CONSTANTS
    Tables,         \* oids
    Shapes,         \* what the columns of a table may be: nonempty sequences
    NoConn,         \* no connection
    NoEvent,        \* no event was sent yet
    MaxAttempts,    \* max_reconnect_attempts
    Conns,          \* bound: the connections a behaviour may open
    MaxWire,        \* bound: chunks sent and not read yet
    MaxTx,          \* bound: transactions of a session
    MaxChanges,     \* bound: changes of a session
    MaxTold         \* bound: descriptions a session sends

\* What stands in a field of a message: a number, a table, a name or one of the
\* fixed ones, a tag, or the text of a value.
Tags   == {"B", "C", "R", "I", "U", "D", "T", "K", "O", "N", "n", "u", "t"}
Texts  == [text : STRING, reads : SUBSET {"i32", "i64", "f32", "f64", "u32", "json"}]
Fields == Int \cup Tables \cup STRING \cup {"public", "name"} \cup Tags \cup Texts

ASSUME PgStreamAssumption ==
    /\ MaxAttempts \in Nat /\ MaxTx \in Nat
    /\ Shapes \subseteq Seq([name : STRING, type : STRING]) \ {<<>>}
    /\ NoConn \notin Conns
    \* What is cut off is not taken for a field that is there.
    /\ Cut \notin Fields

VARIABLES
    pc,             \* "idle", where start() is, or "stream"
    attempt,        \* connects of this start() that have failed
    waited,         \* how long it has slept, in units of 500 ms
    opened,         \* connections opened so far
    live,           \* connections whose task runs
    starting,       \* the connection of a start() that is not done
    client,
    connection_handle,
    told,           \* told[t]: the descriptions of t this session sent
    tx,             \* whether the session is inside a transaction
    ends,           \* ends[n]: changes sent when transaction n ended
    changes,        \* changes this session sent
    wire,           \* chunks on their way: [data, note]
    relations,      \* the decoder's
    wal_lsn,
    receiver,       \* whether the call's channel has its receiver
    handled,        \* changes of this session made into events
    event           \* the last of them: [op, oid, before, after, note]

startVars   == <<attempt, waited, opened, live, starting, client, connection_handle>>
serverVars  == <<told, tx, ends, changes, wire>>
decoderVars == <<relations, wal_lsn, handled, event>>
vars == <<pc, startVars, serverVars, decoderVars, receiver>>

-----------------------------------------------------------------------------
(* start() and stop().                                                     *)

Init ==
    /\ pc = "idle" /\ attempt = 0 /\ waited = 0
    /\ opened = {} /\ live = {}
    /\ starting = NoConn /\ client = NoConn /\ connection_handle = NoConn
    /\ told = [t \in Tables |-> <<>>]
    /\ tx = FALSE /\ ends = <<>> /\ changes = 0 /\ wire = <<>>
    /\ relations = <<>> /\ wal_lsn = -1
    /\ receiver = FALSE /\ handled = 0 /\ event = NoEvent

BeginStart ==
    /\ pc = "idle" /\ opened # Conns
    /\ pc' = "connect"
    /\ UNCHANGED <<startVars, serverVars, decoderVars, receiver>>

\* At least one attempt, whatever is configured.
Attempts == Max({MaxAttempts, 1})

\* The handle is kept at once, the client when the publication is there.  The
\* handle it replaces is let go, not aborted.
Connect(c) ==
    /\ pc = "connect" /\ c \in Conns \ opened
    /\ pc' = "publication"
    /\ attempt' = 0 /\ waited' = 0
    /\ opened' = opened \cup {c}
    /\ live' = live \cup {c}
    /\ starting' = c
    /\ connection_handle' = c
    /\ UNCHANGED <<client, serverVars, decoderVars, receiver>>

\* An attempt fails; the last one ends start().
FailsWhenLast(last) ==
    /\ pc = "connect"
    /\ pc' = IF last THEN "idle" ELSE "sleep"
    /\ attempt' = IF last THEN 0 ELSE attempt + 1
    /\ waited' = IF last THEN 0 ELSE waited
    /\ UNCHANGED <<opened, live, starting, client, connection_handle, serverVars,
                   decoderVars, receiver>>

\* Wrong variant: it also sleeps after the last attempt.
ConnectFailsSleeping == FailsWhenLast(attempt = Attempts)

ConnectFails == FailsWhenLast(attempt + 1 = Attempts)

\* After attempt i it sleeps i times 500 ms.
Sleep ==
    /\ pc = "sleep"
    /\ pc' = "connect"
    /\ waited' = waited + attempt
    /\ UNCHANGED <<attempt, opened, live, starting, client, connection_handle,
                   serverVars, decoderVars, receiver>>

\* CREATE PUBLICATION, whose error ends start() without a client, and the slot,
\* whose error is ignored.
FinishStart ==
    /\ pc = "publication"
    /\ pc' = "idle"
    /\ starting' = NoConn
    /\ client' \in {client} \cup (live \cap {starting})
    /\ UNCHANGED <<attempt, waited, opened, live, connection_handle, serverVars,
                   decoderVars, receiver>>

Stop ==
    /\ pc = "idle"
    /\ client' = NoConn
    /\ live' = live \ {connection_handle}
    /\ connection_handle' = NoConn
    /\ UNCHANGED <<pc, attempt, waited, opened, starting, serverVars, decoderVars, receiver>>

\* A connection is lost, or ends because its client was dropped.  Nothing
\* notices until the client is used.
Disconnect(c) ==
    /\ c \in live
    /\ live' = live \ {c}
    /\ UNCHANGED <<pc, attempt, waited, opened, starting, client, connection_handle,
                   serverVars, decoderVars, receiver>>

-----------------------------------------------------------------------------
(* The server's side of a session.                                         *)

Send(data, note) == wire' = Append(wire, [data |-> data, note |-> note])

Streams == pc = "stream" /\ client \in live

\* The position before transaction n's end, and the one after it.
Lsn(n)    == 2 * n
EndLsn(n) == 2 * n + 1

\* Messages, without what the connector does not read of them: the timestamps
\* and transaction ids, the flags, and the names of the table.
Begin(n)       == <<"B", Lsn(n), 0, 0>>
Commit(n)      == <<"C", 0, Lsn(n), EndLsn(n), 0>>
Relation(t, s) == <<"R", t, "public", "name", 0, s>>

SendBegin ==
    /\ Streams /\ ~tx
    /\ Len(ends) < MaxTx /\ Len(wire) < MaxWire
    /\ tx' = TRUE
    /\ Send(Encode(Begin(Len(ends) + 1)), NoEvent)
    /\ UNCHANGED <<pc, startVars, told, ends, changes, decoderVars, receiver>>

SendCommit ==
    /\ Streams /\ tx
    /\ Len(wire) < MaxWire
    /\ tx' = FALSE
    /\ ends' = Append(ends, changes)
    /\ Send(Encode(Commit(Len(ends) + 1)), NoEvent)
    /\ UNCHANGED <<pc, startVars, told, changes, decoderVars, receiver>>

\* Also a type, origin or logical message, which the decoder does not know.
SendKeepalive ==
    /\ Streams
    /\ Len(wire) < MaxWire
    /\ \E data \in {<<"k", EndLsn(Len(ends)), 0, 0>>, <<"Y", 0>>} : Send(data, NoEvent)
    /\ UNCHANGED <<pc, startVars, told, tx, ends, changes, decoderVars, receiver>>

\* A value of column c: its text reads as a number where its type is one.
RawOf(c) == [text |-> c.name, reads |-> IF c.type = "int4" THEN {"i32"} ELSE {}]

\* The tuple that has columns of the kinds given.
RowOf(cs, kinds) ==
    [i \in DOMAIN cs |-> [kind |-> kinds[i],
                          raw  |-> IF kinds[i] = "t" THEN RawOf(cs[i]) ELSE Null]]

\* All columns, or the key (the first column) alone.
Whole(cs) == RowOf(cs, [i \in DOMAIN cs |-> "t"])
Key(cs)   == RowOf(cs, [i \in DOMAIN cs |-> IF i = 1 THEN "t" ELSE "n"])

\* The columns of t now, none before t is described.
Shape(t) == IF told[t] = <<>> THEN <<>> ELSE Last(told[t])

\* The changes of t when its columns are cs: the last column may be null, or
\* unchanged by an update.
ChangesOf(t, cs) ==
    LET last(k) == RowOf(cs, [i \in DOMAIN cs |-> IF i = Len(cs) THEN k ELSE "t"])
    IN       {<<"I", t, "N", last(k)>> : k \in {"t", "n"}}
        \cup {<<"U", t, "N", last(k)>> : k \in {"t", "u"}}
        \cup {<<"U", t, "K", Key(cs), "N", Whole(cs)>>}
        \cup {<<"D", t, "O", Whole(cs)>>, <<"T", 1, 0, t>>}

\* Descriptions the session sent, of all tables.
Descriptions == MapThenSumSet(LAMBDA t : Len(told[t]), Tables)

\* The table was altered since it was last described, or not yet described.
SendRelation(t, s) ==
    /\ Streams /\ tx
    /\ Len(wire) < MaxWire /\ Descriptions < MaxTold
    /\ s # Shape(t)
    /\ told' = [told EXCEPT ![t] = Append(@, s)]
    /\ Send(Encode(Relation(t, s)), NoEvent)
    /\ UNCHANGED <<pc, startVars, tx, ends, changes, decoderVars, receiver>>

SendChange(t, m) ==
    /\ Streams /\ tx
    /\ Len(wire) < MaxWire /\ changes < MaxChanges
    /\ changes' = IF m[1] = "T" THEN changes ELSE changes + 1
    /\ Send(Encode(m), [message |-> m, now |-> Shape(t), first |-> Head(told[t])])
    /\ UNCHANGED <<pc, startVars, told, tx, ends, decoderVars, receiver>>

-----------------------------------------------------------------------------
(* stream().                                                               *)

\* Each call has a decoder, a session and a channel of its own.
BeginStream ==
    /\ pc = "idle" /\ client \in live
    /\ pc' = "stream"
    /\ receiver' = TRUE
    /\ UNCHANGED <<startVars, serverVars, decoderVars>>

DropReceiver ==
    /\ pc = "stream" /\ receiver
    /\ receiver' = FALSE
    /\ UNCHANGED <<pc, startVars, serverVars, decoderVars>>

\* The session ends, in order or with an error, and with it the decoder:
\* chunks not read are lost.
EndStream ==
    /\ pc \in {"stream", "failed"}
    /\ pc' = "idle"
    /\ told' = [t \in Tables |-> <<>>]
    /\ tx' = FALSE /\ ends' = <<>> /\ changes' = 0 /\ wire' = <<>>
    /\ relations' = <<>> /\ wal_lsn' = -1
    /\ receiver' = FALSE /\ handled' = 0 /\ event' = NoEvent
    /\ UNCHANGED startVars

\* Wrong variant: any relation will do.
GetRelationAny(oid) == IF relations = <<>> THEN 0 ELSE 1

\* Wrong variant: only the relation described last is looked at.
GetRelationLast(oid) ==
    IF relations # <<>> /\ Last(relations)[2] = oid THEN Len(relations) ELSE 0

\* get_relation: the first that has the oid, or 0.
GetRelation(oid) == SelectInSeq(relations, LAMBDA rel : rel[2] = oid)

\* The position a chunk stands for, as process_chunk reads it.
WalLsn(data, m) ==
    CASE data[1] = "k" /\ Len(data) >= 2 -> data[2]
      [] m.end = "ok" /\ data[1] = "B"   -> m.got[2]
      [] m.end = "ok" /\ data[1] = "C"   -> m.got[4]
      [] OTHER                           -> wal_lsn

\* The event of a change message and the relation it is read with.
EventOf(m, rel, note) ==
    LET new == ColumnsToJson(rel[6], Last(m))
        old == ColumnsToJson(rel[6], m[4])
    IN  [op     |-> m[1],
         table  |-> rel[2],
         before |-> IF m[1] = "D" \/ Len(m) = 6 THEN old ELSE Null,
         after  |-> IF m[1] = "D" THEN Null ELSE new,
         note   |-> note]

\* Read the next chunk.  A change of a table the decoder has no relation of is
\* dropped, whether the event finds a receiver is ignored, and a message that
\* cannot be decoded ends the call.
ProcessChunk ==
    /\ pc = "stream" /\ wire # <<>>
    /\ LET chunk == Head(wire)
           m     == Decode(chunk.data)
           ok    == chunk.data[1] # "k" /\ m.end = "ok"
           found == IF ok /\ chunk.data[1] \in {"I", "U", "D"} THEN GetRelation(m.got[2]) ELSE 0
       IN  /\ wire' = Tail(wire)
           /\ pc' = IF chunk.data[1] # "k" /\ m.end \in {"error", "panic"} THEN "failed" ELSE pc
           /\ wal_lsn' = WalLsn(chunk.data, m)
           /\ relations' = IF ok /\ chunk.data[1] = "R" THEN Append(relations, m.got) ELSE relations
           /\ handled' = IF found # 0 THEN handled + 1 ELSE handled
           /\ event' = IF found # 0 /\ receiver
                       THEN EventOf(m.got, relations[found], chunk.note) ELSE event
    /\ UNCHANGED <<startVars, told, tx, ends, changes, receiver>>

-----------------------------------------------------------------------------

Next ==
    \/ BeginStart \/ ConnectFails \/ Sleep \/ FinishStart \/ Stop
    \/ \E c \in Conns : Connect(c) \/ Disconnect(c)
    \/ SendBegin \/ SendCommit \/ SendKeepalive
    \/ \E t \in Tables, s \in Shapes : SendRelation(t, s)
    \/ \E t \in Tables : told[t] # <<>> /\ \E m \in ChangesOf(t, Shape(t)) : SendChange(t, m)
    \/ BeginStream \/ DropReceiver \/ EndStream \/ ProcessChunk

Spec == Init /\ [][Next]_vars

-----------------------------------------------------------------------------
(* Properties.                                                             *)

TypeOK ==
    /\ pc \in {"idle", "connect", "sleep", "publication", "stream", "failed"}
    /\ attempt \in Nat /\ waited \in Nat
    /\ opened \subseteq Conns /\ live \subseteq opened
    /\ {starting, client, connection_handle} \subseteq opened \cup {NoConn}
    /\ told \in [Tables -> Seq(Shapes)]
    /\ tx \in BOOLEAN /\ receiver \in BOOLEAN
    /\ ends \in Seq(Nat)
    /\ changes \in Nat /\ handled \in 0..changes
    /\ \A i \in DOMAIN relations : relations[i][2] \in Tables /\ relations[i][6] \in Shapes
    /\ wal_lsn \in Nat \cup {-1}

\* A start() connects at most as often as configured, and once when that is 0;
\* it sleeps between two attempts, longer each time, and not after the last.
RetryBounded ==
    /\ attempt < Attempts
    /\ 2 * waited <= Attempts * (Attempts - 1)
    /\ pc = "connect" => 2 * waited = attempt * (attempt + 1)

Connecting == pc \in {"connect", "sleep"}

Retries == INSTANCE Retry WITH
    state  <- CASE pc = "connect" -> "trying" [] pc = "sleep" -> "waiting" [] OTHER -> "idle",
    failed <- IF Connecting THEN attempt ELSE 0,
    slept  <- IF Connecting THEN waited ELSE 0

\* start() connects as Retry says, whatever becomes of connections and streams
\* meanwhile: no wait after the last attempt, and nothing of one start() counts
\* for the next.
RetriesAsPromised == Retries!Spec

\* The columns a message's tuples had when the change was made.
EventIsRight(e) ==
    e = EventOf(e.note.message, Relation(e.note.message[2], e.note.now), e.note)

\* An event has the table, the column names and the values its change had, with
\* null for what the message leaves out, unless the session had described the
\* table differently before: get_relation finds the first description for good,
\* and only a new stream() forgets it.
RightUnlessAltered ==
    event # NoEvent /\ event.note.first = event.note.now => EventIsRight(event)

\* When wal_lsn has passed the end of a transaction, every change of it was
\* made into an event: no change finds its table unknown.
PositionCovers ==
    \A n \in DOMAIN ends : wal_lsn >= EndLsn(n) => handled >= ends[n]

-----------------------------------------------------------------------------
(* What the invariants are made of.                                        *)

\* What Encode makes of a message starts with its tag and decodes to it.
ReadsBack(m) ==
    /\ Encode(m)[1] = m[1]
    /\ Decode(Encode(m)).end = "ok" /\ Decode(Encode(m)).got = m

\* That holds of every message a session can send.
DecodesBack ==
    /\ \A n \in 1..MaxTx : ReadsBack(Begin(n)) /\ ReadsBack(Commit(n))
    /\ \A t \in Tables, s \in Shapes :
           ReadsBack(Relation(t, s)) /\ \A m \in ChangesOf(t, s) : ReadsBack(m)

\* What a chunk is, by its first byte, and what it says.
Kind(chunk)     == chunk.data[1]
Got(chunk)      == Decode(chunk.data).got
IsChange(chunk) == Kind(chunk) \in {"I", "U", "D"}

IsRelationOf(chunk, t) == Kind(chunk) = "R" /\ Got(chunk)[2] = t

\* The position a chunk moves wal_lsn to.
Position(chunk) ==
    CASE Kind(chunk) = "k" -> chunk.data[2]
      [] Kind(chunk) = "B" -> Got(chunk)[2]
      [] Kind(chunk) = "C" -> Got(chunk)[4]
      [] OTHER             -> -1

Relations == {Relation(t, s) : t \in Tables, s \in Shapes}

\* A chunk the server sends.
Sent(chunk) ==
    /\ Position(chunk) \in Nat \cup {-1}
    /\ Kind(chunk) = "k" => Len(chunk.data) >= 2
    /\ Kind(chunk) \in {"B", "C", "R", "I", "U", "D"} => Decode(chunk.data).end = "ok"
    /\ Kind(chunk) = "R" => Got(chunk) \in Relations
    /\ IsChange(chunk) => /\ Got(chunk)[2] \in Tables
                          /\ chunk.note.message = Got(chunk)
                          /\ chunk.note.first = Head(told[Got(chunk)[2]])

\* The decoder has a relation of t.
Known(t) == \E i \in DOMAIN relations : relations[i][2] = t

\* A relation of t comes before chunk k.
Comes(t, k) == \E j \in DOMAIN wire : j < k /\ IsRelationOf(wire[j], t)

\* Of a table that is not described there is nothing.  Of one that is, the
\* decoder has a relation or one is on its way, and before every change of it:
\* the first is the table's first description.
DescribedFirst ==
    /\ relations \in Seq(Relations)
    /\ wire \in Seq(Range(wire))
    /\ \A k \in DOMAIN wire : Sent(wire[k])
    /\ \A t \in Tables : Known(t) \/ Comes(t, Len(wire) + 1) <=> told[t] # <<>>
    /\ \A k \in DOMAIN wire : IsChange(wire[k]) =>
          Known(Got(wire[k])[2]) \/ Comes(Got(wire[k])[2], k)
    /\ \A i \in DOMAIN relations :
          \/ relations[i][6] = Head(told[relations[i][2]])
          \/ \E j \in DOMAIN relations : j < i /\ relations[j][2] = relations[i][2]
    /\ \A k \in DOMAIN wire, t \in Tables : IsRelationOf(wire[k], t) =>
          Known(t) \/ Comes(t, k) \/ Got(wire[k])[6] = Head(told[t])

\* So many changes were made into events when chunk k is handled: with the last
\* chunk all that were sent, and no fewer than had ended when a position that
\* tells of their end was sent.
Counted(count) ==
    /\ count[0] = handled /\ count[Len(wire)] = changes
    /\ \A k \in DOMAIN wire :
          count[k] = count[k - 1] + (IF IsChange(wire[k]) THEN 1 ELSE 0)
    /\ \A k \in 0..Len(wire), l \in 0..Len(wire) : k <= l => count[k] <= count[l]
    /\ \A k \in DOMAIN wire, n \in DOMAIN ends :
          Position(wire[k]) >= EndLsn(n) => count[k] >= ends[n]

InOrder ==
    /\ tx => Len(ends) < MaxTx
    /\ wal_lsn <= Lsn(Len(ends) + 1)
    /\ \A k \in DOMAIN wire : Position(wire[k]) <= Lsn(Len(ends) + 1)
    /\ \A n \in DOMAIN ends : ends[n] <= changes
    /\ \E count \in [0..Len(wire) -> 0..changes] : Counted(count)

=============================================================================
