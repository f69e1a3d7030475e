------------------------------ MODULE PgOutput ------------------------------
(***************************************************************************)
(* The pgoutput messages as PgOutputDecoder reads them, and the JSON their *)
(* tuples become.  A message is the sequence of its fields: numbers, tags  *)
(* of one byte, strings with their NUL, values with their length before    *)
(* them.  A message that breaks off inside a field ends in Cut.  Reading   *)
(* is a record: where the reader is, what it has read, and whether it has  *)
(* returned an error or panicked (an index out of bounds).                 *)
(***************************************************************************)
EXTENDS Integers, Sequences, SequencesExt

CONSTANTS
    Cut,    \* what is left of a field the message breaks off in
    Null    \* JSON null, and the value of a column that has none

\* The text of a value, and what it can be parsed as into a JSON number: for
\* NaN and the infinities, which no JSON number is, that is nothing.
Empty == [text |-> "", reads |-> {}]

Start == [at |-> 1, end |-> "ok", got |-> <<>>]

Stops(r, how) == [r EXCEPT !.end = how]
Yields(r, v)  == [r EXCEPT !.at = @ + 1, !.got = Append(@, v)]

\* `op' once more for each of n items.
Times(n, op(_), r) ==
    LET done[i \in 0..n] == IF i = 0 THEN r ELSE op(done[i - 1])
    IN  done[n]

\* A number or a single byte; indexing beyond the data panics.
Number(d, r) ==
    IF r.end # "ok" THEN r
    ELSE IF r.at <= Len(d) /\ d[r.at] # Cut THEN Yields(r, d[r.at])
    ELSE Stops(r, "panic")

\* A string runs to its NUL or to the end of the data, and the reader goes on
\* one byte behind that: there it may not even read an empty string.
String(d, r) ==
    IF r.end # "ok" THEN r
    ELSE IF r.at > Len(d) + 1 THEN Stops(r, "panic")
    ELSE IF r.at <= Len(d) /\ d[r.at] # Cut THEN Yields(r, d[r.at])
    ELSE [Yields(r, Cut) EXCEPT !.at = Len(d) + 2]

\* A byte that is checked to be there and to be one of `tags'.
Tag(d, r, tags) ==
    IF r.end # "ok" THEN r
    ELSE IF r.at <= Len(d) /\ d[r.at] \in tags THEN Yields(r, d[r.at])
    ELSE Stops(r, "error")

\* A value whose length was read last.
Value(d, r) ==
    IF r.end # "ok" \/ Last(r.got) = 0 THEN r
    ELSE IF Last(r.got) > 0 /\ r.at <= Len(d) /\ d[r.at] # Cut THEN Yields(r, d[r.at])
    ELSE Stops(r, "error")

\* TupleColumn: [kind, raw].
Column(d, r) ==
    LET k == Tag(d, [r EXCEPT !.got = <<>>], {"n", "u", "t"})
        v == IF k.end = "ok" /\ k.got = <<"t">> THEN Value(d, Number(d, k)) ELSE k
    IN  IF v.end # "ok" THEN v
        ELSE [v EXCEPT !.got = Append(r.got,
                [kind |-> v.got[1],
                 raw  |-> IF v.got[1] # "t" THEN Null
                          ELSE IF Len(v.got) = 3 THEN v.got[3] ELSE Empty])]

\* A counted list of items; the count itself is not kept.
List(d, r, item(_)) ==
    LET c == Number(d, r)
        l == Times(Last(c.got), LAMBDA q : IF q.end = "ok" THEN item(q) ELSE q,
                   [c EXCEPT !.got = <<>>])
    IN  IF c.end # "ok" THEN c ELSE [l EXCEPT !.got = Append(r.got, l.got)]

Tuple(d, r) == List(d, r, LAMBDA q : Column(d, q))

DecodeBegin(d, r) == Times(3, LAMBDA q : Number(d, q), r)

DecodeCommit(d, r) == Times(4, LAMBDA q : Number(d, q), r)

\* Wrong variant: the type is taken for the name, and the name for the type.
RelationColumnSwapped(d, r) ==
    LET c == Times(2, LAMBDA q : Number(d, q),
                   String(d, Number(d, [r EXCEPT !.got = <<>>])))
    IN  IF c.end # "ok" THEN c ELSE
        [c EXCEPT !.got = Append(r.got, [name |-> c.got[3], type |-> c.got[2]])]

\* RelationColumn: flags, name, type, modifier.
RelationColumn(d, r) ==
    LET c == Times(2, LAMBDA q : Number(d, q),
                   String(d, Number(d, [r EXCEPT !.got = <<>>])))
    IN  IF c.end # "ok" THEN c ELSE
        [c EXCEPT !.got = Append(r.got, [name |-> c.got[2], type |-> c.got[3]])]

DecodeRelation(d, r) ==
    List(d, Number(d, String(d, String(d, Number(d, r)))),
         LAMBDA q : RelationColumn(d, q))

DecodeInsert(d, r) == Tuple(d, Tag(d, Number(d, r), {"N"}))

\* An old tuple, key or whole, comes before the new one, or is left out.
DecodeUpdate(d, r) ==
    LET t   == Tag(d, Number(d, r), {"K", "O", "N"})
        one == Tuple(d, t)
    IN  IF t.end = "ok" /\ Last(t.got) = "N" THEN one ELSE Tuple(d, Tag(d, one, {"N"}))

DecodeDelete(d, r) == Tuple(d, Tag(d, Number(d, r), {"K", "O"}))

\* How many relations, the options, and the relations.
DecodeTruncate(d, r) ==
    LET n == Times(2, LAMBDA q : Number(d, q), r)
    IN  IF n.end # "ok" THEN n ELSE Times(n.got[2], LAMBDA q : Number(d, q), n)

\* decode: the message with its tag first, or Ok(None) for what is unknown.
Decode(d) ==
    LET r == IF d = <<>> THEN Stops(Start, "none") ELSE Yields(Start, d[1])
    IN  IF d = <<>> THEN r
        ELSE CASE d[1] = "B" -> DecodeBegin(d, r)
               [] d[1] = "C" -> DecodeCommit(d, r)
               [] d[1] = "R" -> DecodeRelation(d, r)
               [] d[1] = "I" -> DecodeInsert(d, r)
               [] d[1] = "U" -> DecodeUpdate(d, r)
               [] d[1] = "D" -> DecodeDelete(d, r)
               [] d[1] = "T" -> DecodeTruncate(d, r)
               [] OTHER -> Stops(r, "none")

-----------------------------------------------------------------------------
(* From tuples to JSON.                                                    *)

\* What the text of a column of a numeric type is parsed as.
NumberOf == [int2 |-> "i32", int4 |-> "i32", int8 |-> "i64", xid |-> "i64",
             float4 |-> "f32", float8 |-> "f64", oid |-> "u32"]

\* Text that is no number becomes null, text that is no JSON a string.
PgTypeToJson(raw, type) ==
    IF type = "bool" THEN [bool |-> raw.text \in {"t", "true"}]
    ELSE IF type \in DOMAIN NumberOf
    THEN IF NumberOf[type] \in raw.reads THEN [number |-> raw.text] ELSE Null
    ELSE IF type \in {"json", "jsonb"} /\ "json" \in raw.reads
    THEN [document |-> raw.text]
    ELSE [string |-> raw.text]

\* Values go under the names of the relation's columns, one by one, as far as
\* both reach.
ColumnsToJson(columns, tuple) ==
    LET both == 1..Min({Len(columns), Len(tuple)})
        at(name) == Max({i \in both : columns[i].name = name})
    IN  [name \in {columns[i].name : i \in both} |->
            IF tuple[at(name)].kind = "t"
            THEN PgTypeToJson(tuple[at(name)].raw, columns[at(name)].type)
            ELSE Null]

-----------------------------------------------------------------------------
(* What the server sends, in the form the decoder's tests build it.        *)

EncodeColumn(c) ==
    CASE c.kind # "t"                    -> <<c.kind>>
      [] c.kind = "t" /\ c.raw = Empty -> <<"t", 0>>
      [] OTHER                           -> <<"t", 1, c.raw>>

EncodeTuple(t) == <<Len(t)>> \o FlattenSeq([i \in DOMAIN t |-> EncodeColumn(t[i])])

EncodeColumns(cs) ==
    <<Len(cs)>> \o FlattenSeq([i \in DOMAIN cs |-> <<0, cs[i].name, cs[i].type, -1>>])

\* The chunk of a message as Decode returns it.
Encode(m) ==
    FlattenSeq([i \in DOMAIN m |->
        CASE m[1] \in {"I", "U", "D"} /\ i \in {4, 6} -> EncodeTuple(m[i])
          [] m[1] = "R" /\ i = 6                     -> EncodeColumns(m[i])
          [] OTHER                                   -> <<m[i]>>])

=============================================================================
