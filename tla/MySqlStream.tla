----------------------------- MODULE MySqlStream ----------------------------
(***************************************************************************)
(* The MySQL connector: connections with their handshake and retries, and  *)
(* the stream of binlog packets, from table maps and row events to change  *)
(* events.                                                                 *)
(*                                                                         *)
(* The server opens a table under an id of its own, under a new one after  *)
(* the table was altered, and begins each statement with the maps of its   *)
(* tables.  A packet is taken as next_event reads it: a sequence of        *)
(* events, with a flaw if next_event does not see them all.                *)
(***************************************************************************)
EXTENDS MySqlWire, FiniteSets

CONSTANTS
    Tables,
    Shapes,         \* what the columns of a table may be: sequences of types
    RowLists,       \* RowLists[types]: the rows of an event, as [before, after]
    MaxAttempts,    \* max_reconnect_attempts
    MaxOpened,      \* bound: tables opened by the server in a session
    MaxWire,        \* bound: packets sent and not read yet
    MaxEvents,      \* bound: events in a packet
    MaxRows         \* bound: rows of a session

\* Types of columns that the server sends as the client takes them: strings, and
\* integers, but for INT24, of which it sends three bytes and the client takes four.
Kinds == Strings \cup (DOMAIN Bits \ {"INT24"})

\* A row as the server has it: of each column its bytes, or null.  Columns are
\* strings with a length of one byte, and integers without a sign that i64 holds:
\* the client takes a number for signed only by metadata that no server sends.
Fits(type, v) ==
    \/ v = Null
    \/ /\ v \in Seq(0..255)
       /\ type \in Strings => Len(v) < 256
       /\ type \notin Strings => Len(v) = Fixed[type]
       /\ type = "LONGLONG" => Little(v) < 2^(Bits[type] - 1)

IsRow(types, row) ==
    /\ row # Null /\ DOMAIN row = DOMAIN types
    /\ \A c \in DOMAIN types : Fits(types[c], row[c])

ASSUME MySqlStreamAssumption ==
    /\ MaxAttempts \in Nat
    /\ DOMAIN Bits \subseteq {"TINY", "SHORT", "INT24", "LONG", "LONGLONG"}
    /\ \A type \in DOMAIN Bits : Bits[type] \in Nat \ {0}
    /\ Shapes \subseteq Seq(Kinds) \ {<<>>}
    /\ \A types \in Shapes : \A rows \in RowLists[types] :
          /\ rows # <<>> /\ rows \in Seq(Range(rows))
          /\ \A i \in DOMAIN rows : IsRow(types, rows[i].before) /\ IsRow(types, rows[i].after)

VARIABLES
    pc,             \* "idle", where a connect or a stream is, or "panic"
    caller,         \* what it is done for: "start" or "stream"
    attempt,        \* connects of this call that have failed
    waited,         \* how long it has slept, in units of 500 ms
    granted,        \* what the server has granted this session
    opened,         \* opened[id]: the server's tables, [table, types, metas]
    mapped,         \* ids that the statement under way has begun with
    sent,           \* the rows of the session: [table, op, before, after, second]
    packing,        \* events of the packet the server is making
    whole,          \* whether no event of the session was hidden from the client
    wire,           \* packets on their way: [events, flaw]
    tables,         \* the client's table maps: a function on ids
    receiver,       \* whether the call's channel has its receiver
    refused,        \* whether an event found it gone
    got             \* events sent: [table, op, before, after, row]

callVars    == <<pc, caller, attempt, waited>>
serverVars  == <<opened, mapped, sent, packing, whole, wire>>
clientVars  == <<tables, receiver, refused, got>>
vars == <<callVars, granted, serverVars, clientVars>>

-----------------------------------------------------------------------------
(* Connections.                                                            *)

Init ==
    /\ pc = "idle" /\ caller = "start" /\ attempt = 0 /\ waited = 0
    /\ granted = "nothing"
    /\ opened = <<>> /\ mapped = {} /\ sent = <<>> /\ whole = TRUE
    /\ packing = <<>> /\ wire = <<>>
    /\ tables = <<>> /\ receiver = FALSE /\ refused = FALSE /\ got = <<>>

\* start() and stream() each open a connection of their own; the one of start()
\* is kept until stop() and used by nobody.
BeginCall(who) ==
    /\ pc = "idle"
    /\ pc' = "dial" /\ caller' = who
    /\ receiver' = (who = "stream")
    /\ UNCHANGED <<attempt, waited, granted, serverVars,
                   tables, refused, got>>

Attempts == Max({MaxAttempts, 1})

\* Wrong variant: it also sleeps after the last attempt.
FailedSleeping ==
    /\ pc' = IF attempt = Attempts THEN "idle" ELSE "sleep"
    /\ attempt' = IF attempt = Attempts THEN 0 ELSE attempt + 1
    /\ waited' = IF attempt = Attempts THEN 0 ELSE waited
    /\ receiver' = (receiver /\ attempt # Attempts)
    /\ granted' = "nothing"
    /\ UNCHANGED <<caller>>

\* Connect and handshake failed: sleep and retry, or end the call.
Failed ==
    LET last == attempt + 1 = Attempts
    IN  /\ pc' = IF last THEN "idle" ELSE "sleep"
        /\ attempt' = IF last THEN 0 ELSE attempt + 1
        /\ waited' = IF last THEN 0 ELSE waited
        /\ receiver' = (receiver /\ ~last)
        /\ granted' = "nothing"
        /\ UNCHANGED <<caller>>

Sleep ==
    /\ pc = "sleep"
    /\ pc' = "dial"
    /\ waited' = waited + attempt
    /\ UNCHANGED <<caller, attempt, granted, serverVars, clientVars>>

Dial(connects) ==
    /\ pc = "dial"
    /\ IF connects
       THEN /\ pc' = "greeting"
            /\ UNCHANGED <<caller, attempt, waited, granted, receiver>>
       ELSE Failed
    /\ UNCHANGED <<serverVars, tables, refused, got>>

\* A packet ends before a byte of it that is read.
Panic ==
    /\ pc' = "panic"
    /\ UNCHANGED <<caller, attempt, waited, granted, serverVars, clientVars>>

\* The first packet: of protocol 10, an error, of another protocol, or cut
\* short, which handshake() does not expect.  A lost connection reads as error.
Greeting(kind) ==
    /\ pc = "greeting"
    /\ CASE kind = "v10"  -> pc' = "login"
                             /\ UNCHANGED <<caller, attempt, waited, granted, receiver>>
         [] kind = "cut"  -> Panic
         [] OTHER         -> Failed
    /\ UNCHANGED <<serverVars, tables, refused, got>>

\* read_ok_response: a request to authenticate in another way passes as well; of
\* an error three bytes are skipped unseen, and one that is cut has fewer.
IsOk(reply) == reply \in {"ok", "switch"}

\* The reply to the login ends the handshake; with it start() is done.
Login(reply) ==
    /\ pc = "login"
    /\ IF IsOk(reply)
       THEN /\ pc' = IF caller = "start" THEN "idle" ELSE "register"
            /\ attempt' = 0 /\ waited' = 0
            /\ granted' = IF caller = "start" THEN "nothing"
                          ELSE IF reply = "ok" THEN "login" ELSE "switch"
            /\ UNCHANGED <<caller, receiver>>
       ELSE IF reply = "cut" THEN Panic
       ELSE Failed
    /\ UNCHANGED <<serverVars, tables, refused, got>>

\* The call ends: the session is over, and what was on its way is lost.
EndCall ==
    /\ pc' = "idle" /\ granted' = "nothing"
    /\ opened' = <<>> /\ mapped' = {} /\ sent' = <<>> /\ whole' = TRUE
    /\ packing' = <<>> /\ wire' = <<>>
    /\ tables' = <<>> /\ receiver' = FALSE /\ refused' = FALSE /\ got' = <<>>
    /\ UNCHANGED <<caller, attempt, waited>>

\* Wrong variant: the reply is not read, as it is not after dump_gtid.
RegisterSlaveUnread(reply) ==
    /\ pc = "register"
    /\ reply = "ok" => granted = "login"
    /\ pc' = "dump" /\ granted' = IF reply = "ok" THEN "slave" ELSE granted
    /\ UNCHANGED <<caller, attempt, waited, serverVars, clientVars>>

\* register_slave().  A server that waits for the other authentication takes
\* the command for it, and refuses.
RegisterSlave(reply) ==
    /\ pc = "register"
    /\ reply = "ok" => granted = "login"
    /\ IF IsOk(reply)
       THEN /\ pc' = "dump" /\ granted' = "slave"
            /\ UNCHANGED <<caller, attempt, waited, serverVars, clientVars>>
       ELSE IF reply = "cut" THEN Panic
       ELSE EndCall

\* dump_binlog() reads a reply, and dump_gtid() does not: what the server says
\* is the first packet of the stream.  A file position may lie between the map
\* of a table and its rows.
Dump(o, reply) ==
    /\ pc = "dump"
    /\ IF o = "file" /\ ~IsOk(reply)
       THEN IF reply = "cut" THEN Panic ELSE EndCall
       ELSE /\ pc' = "stream"
            /\ granted' = IF reply = "ok" THEN "dump" ELSE granted
            /\ wire' = IF o = "gtid" THEN <<[events |-> <<>>, flaw |-> reply]>> ELSE <<>>
            /\ \/ UNCHANGED <<opened, mapped, whole>>
               \/ /\ o = "file"
                  /\ \E t \in Tables, s \in Shapes : opened' = <<[table |-> t, types |-> s]>>
                  /\ mapped' = {1} /\ whole' = FALSE
            /\ UNCHANGED <<caller, attempt, waited, sent, packing, clientVars>>

\* The connection ends: every read fails, and the error ends the call.
Disconnect ==
    /\ pc \in {"register", "dump", "stream"}
    /\ EndCall

-----------------------------------------------------------------------------
(* The server's side of a stream.                                          *)

Streams == pc = "stream" /\ granted = "dump"

Pack(e) ==
    /\ Len(packing) < MaxEvents /\ Len(wire) < MaxWire
    /\ packing' = Append(packing, e)

\* The id of t now, 0 before it is opened.
IdOf(t) == SelectLastInSeq(opened, LAMBDA o : o.table = t)

MapEvent(id, o) ==
    [kind |-> "map", id |-> id, table |-> o.table, types |-> o.types,
     metas |-> EncodeMetas(o.types, [c \in DOMAIN o.types |-> 0])]

\* A statement begins: it maps t, opened again if it has other columns now.
MapTable(t, s) ==
    /\ Streams
    /\ LET old == IdOf(t)
           now == [table |-> t, types |-> s]
           id  == IF old # 0 /\ opened[old] = now THEN old ELSE Len(opened) + 1
       IN  /\ id \notin mapped /\ (old \in mapped => old = id)
           /\ id <= MaxOpened
           /\ opened' = IF id = old THEN opened ELSE Append(opened, now)
           /\ mapped' = mapped \cup {id}
           /\ Pack(MapEvent(id, now))
    /\ UNCHANGED <<callVars, granted, sent, whole, wire, clientVars>>

\* The bytes of an event with the rows given, [before, after]; an update may have
\* a second bitmap of columns behind the first.
Body(types, op, rows, second) ==
    (IF second THEN AllColumns(types) ELSE <<>>)
    \o FlattenSeq([i \in DOMAIN rows |->
           (IF op = "c" THEN <<>> ELSE EncodeRow(types, rows[i].before))
           \o (IF op = "d" THEN <<>> ELSE EncodeRow(types, rows[i].after))])

\* What the session has sent of a row.
Note(o, op, row, second) ==
    [table |-> o.table, op |-> op, types |-> o.types, second |-> second,
     before |-> IF op = "c" THEN Null ELSE row.before,
     after |-> IF op = "d" THEN Null ELSE row.after]

\* One event of the statement under way.
ChangeRows(id, op, rows, second) ==
    /\ Streams
    /\ id \in mapped
    /\ Len(sent) + Len(rows) <= MaxRows
    /\ second => op = "u"
    /\ LET o == opened[id]
       IN  /\ Pack([kind |-> "rows", id |-> id, op |-> op, first |-> Len(sent) + 1,
                    last |-> Len(sent) + Len(rows), body |-> Body(o.types, op, rows, second)])
           /\ sent' = sent \o [i \in DOMAIN rows |-> Note(o, op, rows[i], second)]
    /\ mapped' \in {mapped, {}}
    /\ UNCHANGED <<callVars, granted, opened, whole, wire, clientVars>>

\* A rotation, or a format description: next_event looks further.
Skipped == {"rotate"}

\* Any other event: "other" is one of gtid, xid, heartbeat or of unknown type,
\* all of which count and change nothing that is kept.
OtherEvent(kind) ==
    /\ Streams
    /\ mapped = {}
    /\ Pack([kind |-> kind])
    /\ UNCHANGED <<callVars, granted, opened, mapped, sent, whole, wire, clientVars>>

\* The first event that next_event does not skip, or 0.
Counted(es) == SelectInSeq(es, LAMBDA e : e.kind \notin Skipped)

\* A packet is sent.  Its flaw may be that it is hidden, as it begins with two
\* zero bytes or with a byte that is not of its first event, or split, as its
\* last event goes on in another packet.
SendPacket(flaw) ==
    /\ Streams
    /\ Len(wire) < MaxWire
    /\ wire' = Append(wire, [events |-> packing, flaw |-> flaw])
    /\ packing' = <<>>
    /\ whole' = (whole /\ flaw = "none" /\ Counted(packing) \in {0, Len(packing)})
    /\ UNCHANGED <<callVars, granted, opened, mapped, sent, clientVars>>

-----------------------------------------------------------------------------
(* stream().                                                               *)

\* The events whose header and size next_event finds in a packet.
Seen(p) ==
    CASE p.flaw = "none"                       -> p.events
      [] p.flaw = "split" /\ p.events # <<>>   -> Front(p.events)
      [] OTHER                                 -> <<>>

\* Wrong variant: one table is known at a time.
TableMapAlone(e) ==
    [id \in {e.id} |->
        [table |-> e.table, types |-> e.types, metas |-> ColumnMetas(e.types, e.metas)]]

\* insert: the map of an id replaces the one before.
TableMap(e) ==
    [id \in {e.id} \cup DOMAIN tables |->
        IF id = e.id
        THEN [table |-> e.table, types |-> e.types, metas |-> ColumnMetas(e.types, e.metas)]
        ELSE tables[id]]

\* Wrong variant: rows are read with the table that was opened last.
TableOfNewest(e) == IF tables = <<>> THEN <<>> ELSE <<tables[Max(DOMAIN tables)]>>

\* The table that rows are read with.
TableOf(e) == IF e.id \in DOMAIN tables THEN <<tables[e.id]>> ELSE <<>>

\* Wrong variant: the images of an update are not paired.
RowsOfUnpaired(e, t) ==
    LET rows == ReadRows(e.body, t.types, t.metas)
    IN  [i \in DOMAIN rows |-> [before |-> IF e.op = "d" THEN rows[i] ELSE Null,
                                after  |-> IF e.op = "d" THEN Null ELSE rows[i]]]

\* The rows of an event, read with their table, as [before, after].
RowsOf(e, t) ==
    LET updates(pairs) == [i \in DOMAIN pairs |-> [before |-> pairs[i][1], after |-> pairs[i][2]]]
        others(rows) == [i \in DOMAIN rows |-> [before |-> IF e.op = "d" THEN rows[i] ELSE Null,
                                                after  |-> IF e.op = "c" THEN rows[i] ELSE Null]]
    IN  IF e.op = "u" THEN updates(ReadPairs(e.body, t.types, t.metas))
        ELSE others(ReadRows(e.body, t.types, t.metas))

\* The change events of a rows event: none when its table is not known.
EventsOf(e) ==
    IF TableOf(e) = <<>> THEN <<>>
    ELSE LET t == Head(TableOf(e))
             events(rows) ==
                 [i \in DOMAIN rows |-> [table |-> t.table, op |-> e.op, before |-> rows[i].before,
                                         after |-> rows[i].after, row |-> e.first + i - 1]]
         IN  events(RowsOf(e, t))

\* The receiver takes n of the events; that it is gone ends the rows event only.
Offer(events, n) ==
    /\ n <= Len(events) /\ (~receiver => n = 0)
    /\ got' = got \o SubSeq(events, 1, n)
    /\ receiver' = (receiver /\ n = Len(events))
    /\ refused' = (refused \/ n < Len(events))

\* Read the next packet, and handle the first event in it that counts.  What
\* follows it in the packet is never looked at.
NextEvent(n) ==
    /\ pc = "stream" /\ wire # <<>>
    /\ wire' = Tail(wire)
    /\ LET es   == Seen(Head(wire))
           e    == es[Counted(es)]
           kind == IF Counted(es) = 0 THEN "none" ELSE e.kind
       IN  /\ tables' = IF kind = "map" THEN TableMap(e) ELSE tables
           /\ Offer(IF kind = "rows" THEN EventsOf(e) ELSE <<>>, n)
    /\ UNCHANGED <<callVars, granted, opened, mapped, sent, packing, whole>>

-----------------------------------------------------------------------------

Replies == {"ok", "error", "cut", "empty", "other"}

Next ==
    \/ \E who \in {"start", "stream"} : BeginCall(who)
    \/ Sleep \/ Disconnect
    \/ \E b \in BOOLEAN : Dial(b)
    \/ \E kind \in {"v10", "error", "other", "cut"} : Greeting(kind)
    \/ \E reply \in Replies \cup {"switch"} : Login(reply)
    \/ \E reply \in Replies : RegisterSlave(reply)
    \/ \E o \in {"gtid", "file"}, reply \in Replies : Dump(o, reply)
    \/ \E t \in Tables, s \in Shapes : MapTable(t, s)
    \/ \E id \in mapped, op \in {"c", "u", "d"}, second \in BOOLEAN :
           \E rows \in RowLists[opened[id].types] : ChangeRows(id, op, rows, second)
    \/ \E kind \in Skipped \cup {"other"} : OtherEvent(kind)
    \/ \E flaw \in {"none", "hidden", "split"} : SendPacket(flaw)
    \/ \E n \in 0..MaxRows : NextEvent(n)

Spec == Init /\ [][Next]_vars

-----------------------------------------------------------------------------
(* Properties.                                                             *)

TypeOK ==
    /\ pc \in {"idle", "dial", "sleep", "greeting", "login", "register", "dump",
               "stream", "panic"}
    /\ caller \in {"start", "stream"}
    /\ attempt \in 0..Attempts /\ waited \in Nat
    /\ {whole, receiver, refused} \subseteq BOOLEAN
    /\ granted \in {"nothing", "login", "switch", "slave", "dump"}
    /\ opened \in Seq([table : Tables, types : Shapes])
    /\ mapped \subseteq DOMAIN opened
    /\ \A id \in DOMAIN tables : tables[id].table \in Tables /\ tables[id].types \in Shapes
    /\ Len(got) <= Len(sent)

\* A stream is read only on a session that the server let in: a server that
\* asks for another authentication, which counts as success, is found out by the
\* reply to register_slave, and no login is taken for another connection's.
StreamsLetIn == pc = "stream" => granted \in {"slave", "dump"}

Connecting == pc \in {"dial", "greeting", "login", "sleep"}

Retries == INSTANCE Retry WITH
    state  <- CASE pc \in {"dial", "greeting", "login"} -> "trying"
                [] pc = "sleep" -> "waiting"
                [] OTHER -> "idle",
    failed <- IF Connecting THEN attempt ELSE 0,
    slept  <- IF Connecting THEN waited ELSE 0

\* start() and stream() connect as Retry says: a try is the connection with its
\* whole handshake, wherever in it it fails, and nothing of one call counts for
\* the next, nor does a panic in between go on as a retry.
RetriesAsPromised == Retries!Spec

\* A row's bytes as they are meant: texts, and numbers without a sign.
Meant(types, v) ==
    IF v = Null THEN Null
    ELSE [c \in DOMAIN types |-> IF v[c] = Null THEN Null
                                 ELSE IF types[c] \in Strings THEN [string |-> v[c]]
                                 ELSE [number |-> Little(v[c])]]

\* Every event is of a row the session sent, in the order of the session, of the
\* row's table and of its operation; and, but for updates with a second bitmap,
\* with the row's values, column by column: whatever maps or rows were lost or
\* skipped, no row is read with another table's columns.
RowsAreRight ==
    /\ \A i \in 2..Len(got) : got[i - 1].row < got[i].row
    /\ \A i \in DOMAIN got :
          LET g == got[i]
              s == sent[g.row]
          IN  /\ g.table = s.table /\ g.op = s.op
              /\ ~s.second =>
                    g.before = Meant(s.types, s.before) /\ g.after = Meant(s.types, s.after)

\* Nothing of a session is lost that was read, when it began between statements,
\* its receiver stayed, and no packet had an event behind one that counts, or a
\* flaw.  A second bitmap of an update costs no row, though it costs the values.
RowsAreComplete ==
    (pc = "stream" /\ granted = "dump" /\ wire = <<>> /\ packing = <<>> /\ whole /\ ~refused)
        => Len(got) = Len(sent)

=============================================================================
