----------------------------- MODULE MySqlWire ------------------------------
(***************************************************************************)
(* The bytes of the MySQL protocol as binlog.rs, column.rs and snapshot.rs *)
(* take them apart: table maps, rows of row events, and results of         *)
(* queries.  Data is a sequence of bytes.  Reading is a record: `at' is    *)
(* the next byte, `got' what was read.                                     *)
(***************************************************************************)
EXTENDS Integers, Sequences, SequencesExt

CONSTANTS
    Null,       \* JSON null
    Bits        \* Bits[type]: the width of an integer type

At(i)          == [at |-> i, got |-> <<>>]
Yields(r, v, n) == [at |-> r.at + n, got |-> Append(r.got, v)]
Left(d, r)     == Len(d) - r.at + 1
Bytes(d, r, n) == SubSeq(d, r.at, r.at + n - 1)

\* Little-endian.
Little(bytes) == SumFunction([i \in DOMAIN bytes |-> bytes[i] * 256^(i - 1)])

\* The bits of a bitmap that are set, counted from 1.
SetBits(bytes, n) ==
    {i \in 1..n : (bytes[((i - 1) \div 8) + 1] \div 2^((i - 1) % 8)) % 2 = 1}

BitmapBytes(n) == (n + 7) \div 8

-----------------------------------------------------------------------------
(* Types.                                                                  *)

Fixed == [TINY |-> 1, SHORT |-> 2, YEAR |-> 2, LONG |-> 4, INT24 |-> 4, FLOAT |-> 4,
          DATE |-> 4, TIME |-> 4, TIMESTAMP |-> 4, LONGLONG |-> 8, DOUBLE |-> 8,
          DATETIME |-> 8]

Strings == {"VARCHAR", "VAR_STRING", "STRING"}

\* How many bytes hold the length of a blob.
Prefix == [TINY_BLOB |-> 1, BLOB |-> 2, MEDIUM_BLOB |-> 3, LONG_BLOB |-> 4]

\* Bytes of metadata that a table map has for a column.
MetaLength(type) ==
    CASE type \in {"BIT", "NEWDECIMAL", "DECIMAL"} -> 2
      [] type \in DOMAIN Prefix \cup {"VAR_STRING", "STRING", "GEOMETRY"} -> 1
      [] OTHER -> 0

\* The metadata a table map has, column by column, and 0 where it ends early.
ColumnMetas(types, d) ==
    LET read(r, type) ==
            LET n == MetaLength(type)
            IN  IF n = 0 \/ n > Left(d, r) THEN Yields(r, 0, 0)
                ELSE Yields(r, Little(Bytes(d, r, n)), n)
    IN  FoldLeft(read, At(1), types).got

\* Bytes of a value, or 0 when the type alone does not tell.
ColumnDataLength(type, meta) ==
    CASE type \in DOMAIN Fixed  -> Fixed[type]
      [] type = "BIT"           -> (8 * (meta \div 256) + (meta % 256) + 7) \div 8
      [] type = "NEWDECIMAL"    -> (meta \div 256) + 4
      [] type \in {"TIMESTAMP2", "DATETIME2", "TIME2"} -> 5 + (((meta % 256) + 1) \div 2)
      [] OTHER                  -> 0

\* A number is taken as signed when bit 7 of the metadata says so, which only
\* the two shortest types look at; one beyond i64 becomes a string.
IntegerValue(type, raw, meta) ==
    IF type \in {"TINY", "SHORT"} /\ (meta \div 128) % 2 = 1 /\ raw >= 2^(Bits[type] - 1)
    THEN [number |-> raw - 2^Bits[type]]
    ELSE IF type = "LONGLONG" /\ raw >= 2^(Bits[type] - 1)
    THEN [string |-> raw]
    ELSE [number |-> raw]

\* A BIT is taken as an integer of 64 bits; dates, times and floats stand for
\* themselves.
DecodeBinlogValue(bytes, type, meta) ==
    CASE type \in DOMAIN Bits -> IntegerValue(type, Little(bytes), meta)
      [] type = "BIT"         -> IntegerValue("LONGLONG", Little(bytes), 0)
      [] type = "YEAR"        -> [number |-> bytes[1] + 1900]
      [] OTHER                -> [value |-> bytes]

-----------------------------------------------------------------------------
(* Rows.                                                                   *)

\* One byte of length, whatever it is; a string that does not fit is empty.
LengthEncoded(d, r) ==
    LET n == d[r.at]
    IN  IF n + 1 > Left(d, r) THEN Yields(r, [string |-> <<>>], 1)
        ELSE Yields(r, [string |-> SubSeq(d, r.at + 1, r.at + n)], 1 + n)

\* A blob behind its length; the four bytes of a long one are read as 0.
Blob(d, r, type) ==
    LET p    == Prefix[type]
        size == IF p > 3 THEN 0 ELSE Little(Bytes(d, r, p))
    IN  IF p > Left(d, r) \/ p + size > Left(d, r) THEN Yields(r, Null, p)
        ELSE Yields(r, [string |-> SubSeq(d, r.at + p, r.at + p + size - 1)], p + size)

\* One column that is not null.  A type that is not handled takes one byte.
ReadColumn(d, r, type, meta) ==
    LET n == ColumnDataLength(type, meta)
    IN  IF n > 0 /\ n <= Left(d, r)
        THEN Yields(r, DecodeBinlogValue(Bytes(d, r, n), type, meta), n)
        ELSE IF n > 0 \/ Left(d, r) <= 0 THEN Yields(r, Null, 0)
        ELSE IF type \in Strings THEN LengthEncoded(d, r)
        ELSE IF type \in DOMAIN Prefix THEN Blob(d, r, type)
        ELSE Yields(r, Null, 1)

\* The row that begins at i: [at, got], or at = i when there is none.
ReadRow(d, i, types, metas) ==
    LET bitmap == BitmapBytes(Len(types))
        nulls  == SetBits(SubSeq(d, i, i + bitmap - 1), Len(types))
        column(r, c) == IF c \in nulls THEN Yields(r, Null, 0)
                        ELSE ReadColumn(d, r, types[c], metas[c])
    IN  IF i > Len(d) \/ types = <<>> \/ bitmap > Len(d) - i + 1 THEN At(i)
        ELSE FoldLeftDomain(LAMBDA r, c : column(r, c), At(i + bitmap), types)

\* Rows until the data ends or one has no bytes: parse_write_rows and its like.
ReadRows(d, types, metas) ==
    LET more(r, i) ==
            LET row == ReadRow(d, r.at, types, metas)
            IN  IF r.at > Len(d) \/ row.at = r.at THEN r
                ELSE [at |-> row.at, got |-> Append(r.got, row.got)]
    IN  FoldLeftDomain(LAMBDA r, i : more(r, i), At(1), d).got

\* The rows of an update in pairs: parse_update_rows.
ReadPairs(d, types, metas) ==
    LET paired(rows) == [i \in 1..(Len(rows) \div 2) |-> <<rows[2 * i - 1], rows[2 * i]>>]
    IN  paired(ReadRows(d, types, metas))

\* What a server sends for the metadata of columns: its lengths are others.
EncodeMetas(types, metas) ==
    LET size(type) ==
            CASE type \in {"BIT", "NEWDECIMAL", "VARCHAR", "VAR_STRING", "STRING"}  -> 2
              [] type \in DOMAIN Prefix \cup {"GEOMETRY", "FLOAT", "DOUBLE", "TIMESTAMP2",
                                              "DATETIME2", "TIME2"}                -> 1
              [] OTHER                                                             -> 0
    IN  FlattenSeq([c \in DOMAIN types |->
                       [i \in 1..size(types[c]) |-> (metas[c] \div 256^(i - 1)) % 256]])

\* A bitmap of the columns an event has: all of them.
AllColumns(types) ==
    [b \in 1..BitmapBytes(Len(types)) |-> 2^Min({8, Len(types) - 8 * (b - 1)}) - 1]

\* What a server sends for a row, as ReadColumn takes it: values are bytes.
EncodeRow(types, values) ==
    LET nulls  == {c \in DOMAIN types : values[c] = Null}
        bitmap == [b \in 1..BitmapBytes(Len(types)) |->
                      SumFunction([k \in 0..7 |-> IF 8 * (b - 1) + k + 1 \in nulls THEN 2^k ELSE 0])]
        size(n, p) == [i \in 1..p |-> (n \div 256^(i - 1)) % 256]
        column(c) ==
            IF c \in nulls THEN <<>>
            ELSE IF types[c] \in Strings THEN size(Len(values[c]), 1) \o values[c]
            ELSE IF types[c] \in DOMAIN Prefix
            THEN size(Len(values[c]), Prefix[types[c]]) \o values[c]
            ELSE values[c]
    IN  bitmap \o FlattenSeq([c \in DOMAIN types |-> column(c)])

-----------------------------------------------------------------------------
(* The result of a query, as query_table reads it.                         *)

NullMark  == 251
EndMark   == 254
ErrorMark == 255

\* A length of one byte, whatever it is; a string that does not fit is empty.
DecodeLengthStr(p, i) ==
    LET n == p[i]
    IN  IF n < Len(p) - i + 1 THEN [at |-> i + 1 + n, got |-> SubSeq(p, i + 1, i + n)]
        ELSE [at |-> i + 1, got |-> <<>>]

\* col_0, col_1, ... of a row packet, as many as it reaches.
RowOf(p, columns) ==
    FoldLeft(LAMBDA r, c :
                 IF r.at > Len(p) THEN r
                 ELSE IF p[r.at] = NullMark THEN Yields(r, Null, 1)
                 ELSE LET s == DecodeLengthStr(p, r.at)
                      IN  [at |-> s.at, got |-> Append(r.got, s.got)],
             At(1), [c \in 1..columns |-> c]).got

\* Packets are the count of columns, their definitions, an end mark, and rows
\* until an empty packet or one that begins with a mark in `marks'; behind the
\* last packet it waits.  An error is one as the first packet alone, and three
\* bytes of it are skipped unseen.
QueryTableUntil(packets, marks) ==
    LET first == Head(packets)
        after == SubSeq(packets, first[1] + 3, Len(packets))
        stop  == SelectInSeq(after, LAMBDA p : p = <<>> \/ p[1] \in marks)
        no(end) == [end |-> end, rows |-> <<>>]
    IN  IF first = <<>> THEN no("ok")
        ELSE IF first[1] = ErrorMark THEN no(IF Len(first) < 3 THEN "panic" ELSE "error")
        ELSE IF stop = 0 THEN no("waits")
        ELSE [end |-> "ok", rows |-> [i \in 1..(stop - 1) |-> RowOf(after[i], first[1])]]

\* Wrong variant: an error among the rows ends them as well.
QueryTableEndsAtError(packets) == QueryTableUntil(packets, {EndMark, ErrorMark})

QueryTable(packets) == QueryTableUntil(packets, {EndMark})

\* A value in a row packet: up to 250 bytes behind one byte of length, more
\* behind a mark and two bytes.
EncodeText(v) ==
    IF v = Null THEN <<NullMark>>
    ELSE IF Len(v) < NullMark THEN <<Len(v)>> \o v
    ELSE <<252, Len(v) % 256, Len(v) \div 256>> \o v

\* A result of a server: rows of texts, and then the end or an error.
EncodeResult(columns, rows, end) ==
    <<<<columns>>>> \o [c \in 1..columns |-> <<0>>] \o <<<<EndMark>>>>
    \o [i \in DOMAIN rows |-> FlattenSeq([c \in 1..columns |-> EncodeText(rows[i][c])])]
    \o <<end>>

=============================================================================
