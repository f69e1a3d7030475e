--------------------------- MODULE MySqlConnector ---------------------------
(***************************************************************************)
(* The MySQL connector with its snapshot, which opens connections of its   *)
(* own, one to find the tables and one to read them, and retries nothing.  *)
(* The text of a query goes out as a command, with no byte that says it is *)
(* a query, so that a server answers as it likes: with rows or an error.   *)
(***************************************************************************)
EXTENDS MySqlStream

CONSTANTS
    Lists,          \* what the pipeline asks to read: sequences of tables
    Results         \* what a table has: nonempty sequences of rows of texts

\* A row of n texts as the server has it, of bytes or null.
IsTexts(row, n) ==
    /\ row \in Seq(Range(row)) /\ Len(row) = n
    /\ \A c \in 1..n : row[c] = Null \/ row[c] \in Seq(0..255)

\* The count of columns goes out in one byte.
ASSUME MySqlConnectorAssumption ==
    /\ Lists \subseteq Seq(Tables)
    /\ \A rows \in Results :
          /\ rows # <<>> /\ rows \in Seq(Range(rows))
          /\ Len(rows[1]) \in 1..(NullMark - 1)
          /\ \A i \in DOMAIN rows : IsTexts(rows[i], Len(rows[1]))

VARIABLES
    spc,            \* "idle", where run() is, what it has returned, or "panic"
    listed,         \* the tables asked for; none means all
    toRead,         \* tables whose turn has not come
    answered,       \* results that were read: [table, rows, whole]
    toSend,         \* rows of the last of them that are not sent
    taken,          \* events sent: [table, row]
    holds           \* whether the snapshot's channel has its receiver

snapshotVars == <<spc, listed, toRead, answered, toSend, taken, holds>>
connectorVars == <<vars, snapshotVars>>

NoSnapshot ==
    /\ spc = "idle" /\ listed = <<>> /\ toRead = <<>> /\ answered = <<>>
    /\ toSend = <<>> /\ taken = <<>> /\ holds = FALSE

ConnectorInit == Init /\ NoSnapshot

BeginSnapshot(list) ==
    /\ pc = "idle" /\ spc = "idle"
    /\ spc' = IF list = <<>> THEN "discover" ELSE "connect"
    /\ listed' = list /\ toRead' = list
    /\ holds' = TRUE
    /\ UNCHANGED <<answered, toSend, taken>>

\* discover_tables() looks for columns by name in rows whose columns have
\* numbers: when it succeeds it has found no table.
DiscoverTables(ends) ==
    /\ spc = "discover"
    /\ spc' = CASE ends = "ok" -> "connect" [] OTHER -> ends
    /\ UNCHANGED <<listed, toRead, answered, toSend, taken, holds>>

\* Greeting and login, once: a cut packet panics here as well.
LogIn(ends) ==
    /\ spc = "connect"
    /\ spc' = CASE ends = "ok" -> "next" [] OTHER -> ends
    /\ UNCHANGED <<listed, toRead, answered, toSend, taken, holds>>

\* No table is left, or nobody is there to read it: run() returns Ok.
SnapshotReturns ==
    /\ spc = "next" /\ (toRead = <<>> \/ ~holds)
    /\ spc' = "ok"
    /\ UNCHANGED <<listed, toRead, answered, toSend, taken, holds>>

\* The next table is asked for, and its whole result read: rows, and an end or
\* an error behind them; or an error, cut short or not, at once.
ReadTable(rows, end) ==
    /\ spc = "next" /\ toRead # <<>> /\ holds
    /\ LET packets == IF rows = <<>> THEN <<end>> ELSE EncodeResult(Len(rows[1]), rows, end)
           read    == QueryTable(packets)
       IN  /\ spc' = CASE read.end = "ok" -> "send" [] read.end = "error" -> "err"
                       [] OTHER -> read.end
           /\ toSend' = read.rows
           /\ answered' = IF read.end = "ok"
                          THEN Append(answered, [table |-> Head(toRead), rows |-> rows,
                                                 whole |-> end[1] = EndMark])
                          ELSE answered
    /\ toRead' = Tail(toRead)
    /\ UNCHANGED <<listed, taken, holds>>

SendRow ==
    /\ spc = "send"
    /\ spc' = CASE toSend = <<>> -> "next" [] toSend # <<>> /\ ~holds -> "err" [] OTHER -> spc
    /\ IF toSend # <<>> /\ holds
       THEN /\ toSend' = Tail(toSend)
            /\ taken' = Append(taken, [table |-> Last(answered).table, row |-> Head(toSend)])
       ELSE UNCHANGED <<toSend, taken>>
    /\ UNCHANGED <<listed, toRead, answered, holds>>

DropReceiver ==
    /\ spc \notin {"idle", "ok", "err", "panic"} /\ holds
    /\ holds' = FALSE
    /\ UNCHANGED <<spc, listed, toRead, answered, toSend, taken>>

\* The connection is lost where something is read from it.
LoseConnection ==
    /\ spc \in {"next", "waits"}
    /\ spc = "next" => toRead # <<>> /\ holds
    /\ spc' = "err"
    /\ UNCHANGED <<listed, toRead, answered, toSend, taken, holds>>

Forget ==
    /\ spc \in {"ok", "err"}
    /\ spc' = "idle" /\ listed' = <<>> /\ toRead' = <<>> /\ answered' = <<>>
    /\ toSend' = <<>> /\ taken' = <<>> /\ holds' = FALSE

Snapshot ==
    \/ \E list \in Lists : BeginSnapshot(list)
    \/ \E ends \in {"ok", "err", "panic", "waits"} : DiscoverTables(ends)
    \/ \E ends \in {"ok", "err", "panic"} : LogIn(ends)
    \/ SnapshotReturns
    \/ \E rows \in Results, end \in {EndMark, ErrorMark} : ReadTable(rows, <<end>>)
    \/ \E end \in {<<ErrorMark>>, <<ErrorMark, 0, 0>>} : ReadTable(<<>>, end)
    \/ SendRow \/ DropReceiver \/ LoseConnection \/ Forget

\* The pipeline takes a snapshot and then streams, one after the other.
ConnectorNext ==
    \/ spc = "idle" /\ Next /\ UNCHANGED snapshotVars
    \/ Snapshot /\ UNCHANGED vars

ConnectorSpec == ConnectorInit /\ [][ConnectorNext]_connectorVars

-----------------------------------------------------------------------------

\* Whether every value of a row has its length in one byte.
Short(row) == \A c \in DOMAIN row : row[c] = Null \/ Len(row[c]) < NullMark

\* The events of a snapshot are the rows of its tables, table by table and in
\* order, and of a row of short values each value is right.  An Ok means that
\* each listed table was read to its end and sent whole, unless the receiver
\* was gone; when all tables are asked for it means nothing.
SnapshotIsRight ==
    LET due == FlattenSeq([i \in DOMAIN answered |->
                  [j \in DOMAIN answered[i].rows |->
                      [table |-> answered[i].table, row |-> answered[i].rows[j]]]])
    IN  /\ Len(taken) <= Len(due)
        /\ \A i \in DOMAIN taken :
              /\ taken[i].table = due[i].table
              /\ Short(due[i].row) => taken[i].row = due[i].row
        /\ spc = "ok" /\ holds =>
              /\ Len(taken) = Len(due)
              /\ listed = [i \in DOMAIN answered |-> answered[i].table]
              /\ \A i \in DOMAIN answered : answered[i].whole

=============================================================================
