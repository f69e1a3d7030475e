--------------------------- MODULE PgStreamProofs ---------------------------
(***************************************************************************)
(* Proofs about PgStream, in this order: what is encoded of a message      *)
(* decodes to it, for every message a session can send; start() implements *)
(* Retry and its retries are bounded, for every number of attempts; and    *)
(* the stream: types, that a stored position is covered by events, and     *)
(* that events are right while their table is as it was first described.   *)
(***************************************************************************)
EXTENDS PgStream, SequenceTheorems, DataInduction

-----------------------------------------------------------------------------
(* Reading.                                                                *)

\* A reader at place a that has read `got'.
Reader(a, got) == [at |-> a, end |-> "ok", got |-> got]

LEMMA ReaderFields ==
  ASSUME NEW a, NEW got
  PROVE  /\ Reader(a, got).at = a /\ Reader(a, got).end = "ok" /\ Reader(a, got).got = got
         /\ \A v : Yields(Reader(a, got), v) = Reader(a + 1, Append(got, v))
         /\ \A v : [Reader(a, got) EXCEPT !.got = v] = Reader(a, v)
<1>1. Reader(a, got).at = a /\ Reader(a, got).end = "ok" /\ Reader(a, got).got = got
  BY DEF Reader
<1> DEFINE r == Reader(a, got)
<1>2. DOMAIN r = {"at", "end", "got"} /\ r.at = a /\ r.end = "ok" /\ r.got = got
  BY DEF Reader
<1>3. ASSUME NEW v
      PROVE  [Reader(a, got) EXCEPT !.got = v] = Reader(a, v)
  <2> DEFINE after == [x \in {"at", "end", "got"} |-> IF x = "got" THEN v ELSE r[x]]
  <2>1. Reader(a, v) = after
    <3> HIDE DEF r
    <3>1. QED
      BY <1>2 DEF Reader
  <2>2. [r EXCEPT !.got = v] = after
    <3> HIDE DEF r
    <3>1. QED
      BY <1>2
  <2>3. QED
    BY <2>1, <2>2
<1>4. ASSUME NEW v
      PROVE  Yields(Reader(a, got), v) = Reader(a + 1, Append(got, v))
  <2> DEFINE w     == Append(got, v)
             after == [x \in {"at", "end", "got"} |->
                         IF x = "got" THEN w ELSE IF x = "at" THEN a + 1 ELSE r[x]]
  <2>1. Reader(a + 1, w) = after
    <3> HIDE DEF r, w
    <3>1. QED
      BY <1>2 DEF Reader
  <2>2. [r EXCEPT !.at = a + 1, !.got = w] = after
    <3> HIDE DEF r, w
    <3>1. QED
      BY <1>2
  <2>3. Yields(r, v) = [r EXCEPT !.at = a + 1, !.got = w]
    <3> HIDE DEF r
    <3>1. QED
      BY <1>2 DEF Yields
  <2>4. QED
    BY <2>1, <2>2, <2>3
<1>5. QED
  BY <1>1, <1>3, <1>4

\* The reader r with something else read.
Puts(r, v) == [r EXCEPT !.got = v]

LEMMA PutsRead ==
  ASSUME NEW a, NEW got, NEW v
  PROVE  Puts(Reader(a, got), v) = Reader(a, v)
BY ReaderFields DEF Puts

\* n numbers one by one.
Numbers(d, n, r) == Times(n, LAMBDA q : Number(d, q), r)

LEMMA FieldHere ==
  ASSUME NEW d \in Seq(Fields), NEW a \in 1..Len(d)
  PROVE  d[a] # Cut
BY PgStreamAssumption

LEMMA NumberRead ==
  ASSUME NEW d \in Seq(Fields), NEW a \in 1..Len(d), NEW got
  PROVE  Number(d, Reader(a, got)) = Reader(a + 1, Append(got, d[a]))
BY FieldHere, ReaderFields DEF Number

LEMMA TagRead ==
  ASSUME NEW d \in Seq(Fields), NEW a \in 1..Len(d), NEW got, NEW tags, d[a] \in tags
  PROVE  Tag(d, Reader(a, got), tags) = Reader(a + 1, Append(got, d[a]))
BY ReaderFields DEF Tag

LEMMA StringRead ==
  ASSUME NEW d \in Seq(Fields), NEW a \in 1..Len(d), NEW got
  PROVE  String(d, Reader(a, got)) = Reader(a + 1, Append(got, d[a]))
<1>1. ~(a > Len(d) + 1) /\ a <= Len(d)
  OBVIOUS
<1>2. QED
  BY <1>1, FieldHere, ReaderFields DEF String

\* One more element of xs behind a beginning of xs behind got.
LEMMA PartAppends ==
  ASSUME NEW xs \in Seq(Fields), NEW got \in Seq(Fields), NEW i \in 1..Len(xs)
  PROVE  Append(got \o SubSeq(xs, 1, i - 1), xs[i]) = got \o SubSeq(xs, 1, i)
<1>1. /\ SubSeq(xs, 1, i) = Append(SubSeq(xs, 1, i - 1), xs[i])
      /\ SubSeq(xs, 1, i - 1) \in Seq(Fields)
  BY PartGrows
<1>2. xs[i] \in Fields
  OBVIOUS
<1>3. Append(got \o SubSeq(xs, 1, i - 1), xs[i]) = got \o Append(SubSeq(xs, 1, i - 1), xs[i])
  BY <1>1, <1>2, SMTT(30)
<1>4. QED
  BY <1>1, <1>3

\* Numbers one by one.
LEMMA NumbersRead ==
  ASSUME NEW d \in Seq(Fields), NEW xs \in Seq(Fields), NEW a, Stands(d, a, xs),
         NEW got \in Seq(Fields)
  PROVE  Numbers(d, Len(xs), Reader(a, got)) = Reader(a + Len(xs), got \o xs)
<1> DEFINE n     == Len(xs)
           part(i) == got \o SubSeq(xs, 1, i)
           g     == [i \in 0..n |-> Reader(a + i, part(i))]
           Is(f) == f = [i \in 0..n |-> IF i = 0 THEN Reader(a, got) ELSE Number(d, f[i - 1])]
           f     == CHOOSE f : Is(f)
<1>0. n \in Nat /\ a \in Nat \ {0} /\ a + n <= Len(d) + 1 /\ Len(d) \in Nat
  BY DEF Stands
<1>1. Numbers(d, n, Reader(a, got)) = f[n]
  BY DEF Numbers, Times
<1>2. part(0) = got /\ part(n) = got \o xs
  <2>1. SubSeq(xs, 1, 0) = <<>> /\ got \o <<>> = got /\ SubSeq(xs, 1, n) = xs
    OBVIOUS
  <2>2. QED
    BY <2>1
<1>3. ASSUME NEW i \in 1..n
      PROVE  /\ i - 1 \in 0..n /\ i \in 0..n
             /\ Reader(a + i, part(i)) = Number(d, Reader(a + (i - 1), part(i - 1)))
  <2>1. i - 1 \in 0..n /\ i \in 0..n /\ a + (i - 1) + 1 = a + i /\ a + (i - 1) \in Nat \ {0}
        /\ a + (i - 1) + 1 <= Len(d) + 1
    BY <1>0
  <2>2. a + (i - 1) \in 1..Len(d) /\ d[a + (i - 1)] = xs[i]
    <3>1. d[a + i - 1] = xs[i] /\ a + (i - 1) = a + i - 1
      BY <1>0 DEF Stands
    <3>2. QED
      BY <1>0, <2>1, <3>1
  <2>4. Append(part(i - 1), xs[i]) = part(i)
    BY PartAppends
  <2>5. Number(d, Reader(a + (i - 1), part(i - 1))) = Reader(a + i, part(i))
    <3>1. part(i) = Append(part(i - 1), d[a + (i - 1)]) /\ a + i = a + (i - 1) + 1
      BY <2>1, <2>2, <2>4
    <3>2. Number(d, Reader(a + (i - 1), part(i - 1)))
            = Reader(a + (i - 1) + 1, Append(part(i - 1), d[a + (i - 1)]))
      BY <2>2, NumberRead
    <3>3. QED
      BY <3>1, <3>2
  <2>6. QED
    BY <2>1, <2>5
<1> HIDE DEF part
<1>4. g[0] = Reader(a, got) /\ \A i \in 1..n : g[i] = Number(d, g[i - 1])
  <2>1. a + 0 = a /\ 0 \in 0..n
    BY <1>0
  <2>2. \A i \in 0..n : g[i] = Reader(a + i, part(i))
    OBVIOUS
  <2>3. QED
    BY <1>2, <1>3, <2>1, <2>2
<1>5. Is(g)
  <2>1. g = [i \in 0..n |-> g[i]]
    OBVIOUS
  <2> HIDE DEF g
  <2>2. ASSUME NEW i \in 0..n
        PROVE  g[i] = IF i = 0 THEN Reader(a, got) ELSE Number(d, g[i - 1])
    <3>1. i = 0 \/ i \in 1..n
      BY <1>0
    <3>2. QED
      BY <1>4, <3>1
  <2>3. QED
    BY <2>1, <2>2
<1>6. g[n] = Reader(a + n, got \o xs)
  <2>1. n \in 0..n
    BY <1>0
  <2>2. g[n] = Reader(a + n, part(n))
    BY <2>1
  <2>3. QED
    BY <1>2, <2>2
<1> HIDE DEF g
<1>7. Is(f)
  <2> HIDE DEF Is
  <2>1. QED
    BY <1>5
<1> HIDE DEF f
<1>8. \A i \in 0..n : f[i] = IF i = 0 THEN Reader(a, got) ELSE Number(d, f[i - 1])
  BY <1>7
<1> HIDE DEF Is
<1>9. f[0] = g[0] /\ \A i \in 1..n : f[i - 1] = g[i - 1] => f[i] = g[i]
  <2>1. f[0] = g[0]
    BY <1>0, <1>4, <1>8
  <2>2. \A i \in 1..n : f[i] = Number(d, f[i - 1])
    BY <1>0, <1>8
  <2>3. QED
    BY <1>4, <2>1, <2>2
<1> HIDE DEF n
<1>10. f[n] = g[n]
  BY <1>0, <1>9, GoOnAlike
<1>11. QED
  BY <1>1, <1>6, <1>10 DEF n

-----------------------------------------------------------------------------
(* Columns.                                                                *)

\* The columns of a tuple as they are sent.
Cells == {[kind |-> k, raw |-> Null] : k \in {"n", "u"}} \cup {[kind |-> "t", raw |-> v] : v \in Texts}

LEMMA CellForms ==
  ASSUME NEW c \in Cells
  PROVE  \/ c.kind \in {"n", "u"} /\ c = [kind |-> c.kind, raw |-> Null] /\ c.raw = Null
         \/ c.kind = "t" /\ c.raw \in Texts /\ c = [kind |-> "t", raw |-> c.raw]
<1>1. CASE \E k \in {"n", "u"} : c = [kind |-> k, raw |-> Null]
  BY <1>1
<1>2. CASE \E v \in Texts : c = [kind |-> "t", raw |-> v]
  BY <1>2
<1>3. QED
  BY <1>1, <1>2 DEF Cells

\* What Column makes of what was read of it.
LEMMA ColumnForm ==
  ASSUME NEW d, NEW a, NEW got, NEW k, k = Tag(d, Reader(a, <<>>), {"n", "u", "t"}), k.end = "ok",
         NEW v, v = IF k.got = <<"t">> THEN Value(d, Number(d, k)) ELSE k, v.end = "ok",
         NEW raw, raw = IF v.got[1] # "t" THEN Null ELSE IF Len(v.got) = 3 THEN v.got[3] ELSE Empty
  PROVE  Column(d, Reader(a, got)) = Puts(v, Append(got, [kind |-> v.got[1], raw |-> raw]))
<1>1. Puts(Reader(a, got), <<>>) = Reader(a, <<>>) /\ Reader(a, got).got = got
  BY ReaderFields, PutsRead
<1>2. Tag(d, Puts(Reader(a, got), <<>>), {"n", "u", "t"}) = k
  BY <1>1
<1>3. v = IF k.end = "ok" /\ k.got = <<"t">> THEN Value(d, Number(d, k)) ELSE k
  OBVIOUS
<1> DEFINE w(q) == IF q.end = "ok" /\ q.got = <<"t">> THEN Value(d, Number(d, q)) ELSE q
           out(q) == IF q.end # "ok" THEN q
                     ELSE Puts(q, Append(Reader(a, got).got,
                             [kind |-> q.got[1],
                              raw  |-> IF q.got[1] # "t" THEN Null
                                       ELSE IF Len(q.got) = 3 THEN q.got[3] ELSE Empty]))
<1>4. Column(d, Reader(a, got)) = out(w(Tag(d, Puts(Reader(a, got), <<>>), {"n", "u", "t"})))
  BY Zenon DEF Column, Puts
<1>5. w(k) = v
  BY <1>3
<1>6. Column(d, Reader(a, got)) = out(v)
  <2> HIDE DEF out, w
  <2>1. QED
    BY <1>2, <1>4, <1>5
<1>7. out(v) = Puts(v, Append(got, [kind |-> v.got[1], raw |-> raw]))
  BY <1>1
<1>8. QED
  BY <1>6, <1>7

LEMMA ColumnRead ==
  ASSUME NEW d \in Seq(Fields), NEW a, NEW c \in Cells, Stands(d, a, EncodeColumn(c)), NEW got
  PROVE  Column(d, Reader(a, got)) = Reader(a + Len(EncodeColumn(c)), Append(got, c))
<1>0. Len(d) \in Nat /\ a \in Nat
  BY DEF Stands
<1> DEFINE k == Tag(d, Reader(a, <<>>), {"n", "u", "t"})
<1>a. ASSUME NEW x \in {"n", "u", "t"}, a \in 1..Len(d), d[a] = x
      PROVE  k = Reader(a + 1, <<x>>) /\ k.end = "ok" /\ k.got = <<x>>
  <2>1. k = Reader(a + 1, Append(<<>>, d[a]))
    BY <1>a, TagRead
  <2>2. Append(<<>>, d[a]) = <<x>>
    BY <1>a, GotOne
  <2> HIDE DEF k
  <2>3. k = Reader(a + 1, <<x>>)
    BY <2>1, <2>2
  <2>4. QED
    BY <2>3, ReaderFields
<1>1. ASSUME c.kind \in {"n", "u"}, c = [kind |-> c.kind, raw |-> Null]
      PROVE  Column(d, Reader(a, got)) = Reader(a + Len(EncodeColumn(c)), Append(got, c))
  <2>1. EncodeColumn(c) = <<c.kind>> /\ Len(EncodeColumn(c)) = 1
    <3>1. c.kind # "t"
      BY <1>1
    <3>2. EncodeColumn(c) = <<c.kind>>
      BY <3>1 DEF EncodeColumn
    <3>3. QED
      BY <3>2, GotOne
  <2>2. a \in 1..Len(d) /\ d[a] = c.kind
    <3>1. Stands(d, a, <<c.kind>>)
      BY <2>1
    <3>2. QED
      BY <1>0, <3>1, OneStands
  <2>3. k = Reader(a + 1, <<c.kind>>) /\ k.end = "ok" /\ k.got = <<c.kind>>
    BY <1>1, <1>a, <2>2
  <2> HIDE DEF k
  <2>5. k.got # <<"t">> /\ k.got[1] = c.kind /\ c.kind # "t"
    BY <1>1, <2>3
  <2>6. Column(d, Reader(a, got)) = Puts(k, Append(got, [kind |-> k.got[1], raw |-> Null]))
    BY <2>3, <2>5, ColumnForm DEF k
  <2>7. Column(d, Reader(a, got)) = Puts(k, Append(got, c))
    <3>1. [kind |-> k.got[1], raw |-> Null] = c
      BY <1>1, <2>5
    <3>2. QED
      BY <2>6, <3>1
  <2>8. Puts(k, Append(got, c)) = Reader(a + 1, Append(got, c))
    BY <2>3, PutsRead
  <2>9. QED
    BY <2>1, <2>7, <2>8
<1>2. ASSUME c.kind = "t", c.raw \in Texts, c = [kind |-> "t", raw |-> c.raw]
      PROVE  Column(d, Reader(a, got)) = Reader(a + Len(EncodeColumn(c)), Append(got, c))
  <2> DEFINE v == Value(d, Number(d, k))
  <2>a. ASSUME k.end = "ok", k.got = <<"t">>, v.end = "ok", v.got[1] = "t",
               c.raw = IF Len(v.got) = 3 THEN v.got[3] ELSE Empty
        PROVE  Column(d, Reader(a, got)) = Puts(v, Append(got, c))
    <3> HIDE DEF v
    <3>1. v = IF k.got = <<"t">> THEN Value(d, Number(d, k)) ELSE k
      BY <2>a DEF v
    <3>2. c.raw = IF v.got[1] # "t" THEN Null ELSE IF Len(v.got) = 3 THEN v.got[3] ELSE Empty
      BY <2>a
    <3> HIDE DEF k
    <3>3. Column(d, Reader(a, got)) = Puts(v, Append(got, [kind |-> v.got[1], raw |-> c.raw]))
      BY <2>a, <3>1, <3>2, ColumnForm DEF k
    <3>4. QED
      BY <1>2, <2>a, <3>3
  <2>1. ASSUME c.raw = Empty
        PROVE  Column(d, Reader(a, got)) = Reader(a + Len(EncodeColumn(c)), Append(got, c))
    <3>1. EncodeColumn(c) = <<"t", 0>> /\ Len(EncodeColumn(c)) = 2
      <4>1. EncodeColumn(c) = <<"t", 0>>
        BY <1>2, <2>1 DEF EncodeColumn
      <4>2. QED
        BY <4>1
    <3>2. a \in 1..Len(d) /\ a + 1 \in 1..Len(d) /\ d[a] = "t" /\ d[a + 1] = 0 /\ a + 2 = a + 1 + 1
      <4>1. Stands(d, a, <<"t", 0>>) /\ a + 2 = a + 1 + 1
        BY <1>0, <3>1
      <4>2. QED
        BY <1>0, <4>1, TwoStand
    <3>3. k = Reader(a + 1, <<"t">>) /\ k.end = "ok" /\ k.got = <<"t">>
      BY <1>a, <3>2
    <3> HIDE DEF k
    <3>4. Number(d, k) = Reader(a + 2, <<"t", 0>>)
      <4>1. Append(<<"t">>, d[a + 1]) = <<"t", 0>>
        BY <3>2, AppendTwo
      <4>2. Number(d, Reader(a + 1, <<"t">>)) = Reader(a + 1 + 1, Append(<<"t">>, d[a + 1]))
        BY <3>2, NumberRead
      <4>3. QED
        BY <3>2, <3>3, <4>1, <4>2, Zenon
    <3>5. v = Reader(a + 2, <<"t", 0>>)
      <4>1. Number(d, k).end = "ok" /\ Number(d, k).got = <<"t", 0>>
        BY <3>4, ReaderFields
      <4>2. Last(Number(d, k).got) = 0
        <5>1. Last(<<"t", 0>>) = 0
          BY DEF Last
        <5>2. QED
          BY <4>1, <5>1, Zenon
      <4>3. QED
        BY <3>4, <4>1, <4>2 DEF Value
    <3> HIDE DEF v
    <3>6. v.end = "ok" /\ v.got = <<"t", 0>>
      BY <3>5, ReaderFields
    <3>7. v.got[1] = "t" /\ Len(v.got) = 2
      BY <3>6
    <3>8. Column(d, Reader(a, got)) = Puts(v, Append(got, c))
      BY <2>1, <2>a, <3>3, <3>6, <3>7 DEF v
    <3>9. Puts(v, Append(got, c)) = Reader(a + 2, Append(got, c))
      BY <3>5, PutsRead
    <3>10. QED
      BY <3>1, <3>8, <3>9
  <2>2. ASSUME c.raw # Empty
        PROVE  Column(d, Reader(a, got)) = Reader(a + Len(EncodeColumn(c)), Append(got, c))
    <3>1. EncodeColumn(c) = <<"t", 1, c.raw>> /\ Len(EncodeColumn(c)) = 3
      <4>1. EncodeColumn(c) = <<"t", 1, c.raw>>
        BY <1>2, <2>2 DEF EncodeColumn
      <4>2. QED
        BY <4>1
    <3>2. /\ a \in 1..Len(d) /\ a + 1 \in 1..Len(d) /\ a + 2 \in 1..Len(d)
          /\ d[a] = "t" /\ d[a + 1] = 1 /\ d[a + 2] = c.raw
          /\ a + 2 = a + 1 + 1 /\ a + 3 = a + 2 + 1
      <4>1. Stands(d, a, <<"t", 1, c.raw>>) /\ a + 2 = a + 1 + 1 /\ a + 3 = a + 2 + 1
        BY <1>0, <3>1
      <4>2. QED
        BY <1>0, <4>1, ThreeStand
    <3>3. k = Reader(a + 1, <<"t">>) /\ k.end = "ok" /\ k.got = <<"t">>
      BY <1>a, <3>2
    <3> HIDE DEF k
    <3>4. Number(d, k) = Reader(a + 2, <<"t", 1>>)
      <4>1. Append(<<"t">>, d[a + 1]) = <<"t", 1>>
        BY <3>2, AppendTwo
      <4>2. Number(d, Reader(a + 1, <<"t">>)) = Reader(a + 1 + 1, Append(<<"t">>, d[a + 1]))
        BY <3>2, NumberRead
      <4>3. QED
        BY <3>2, <3>3, <4>1, <4>2, Zenon
    <3>5. v = Reader(a + 3, <<"t", 1, c.raw>>)
      <4>1. Number(d, k).end = "ok" /\ Number(d, k).got = <<"t", 1>> /\ Number(d, k).at = a + 2
        BY <3>4, ReaderFields
      <4>2. Last(Number(d, k).got) = 1
        <5>1. Last(<<"t", 1>>) = 1
          BY DEF Last
        <5>2. QED
          BY <4>1, <5>1, Zenon
      <4>3. d[a + 2] # Cut /\ a + 2 <= Len(d)
        BY <1>0, <3>2, FieldHere
      <4>4. v = Yields(Number(d, k), d[a + 2])
        BY <4>1, <4>2, <4>3 DEF Value
      <4>5. Yields(Reader(a + 2, <<"t", 1>>), d[a + 2]) = Reader(a + 2 + 1, Append(<<"t", 1>>, d[a + 2]))
        BY ReaderFields
      <4>6. Append(<<"t", 1>>, d[a + 2]) = <<"t", 1, c.raw>>
        BY <3>2, AppendThree
      <4>7. QED
        BY <3>2, <3>4, <4>4, <4>5, <4>6, Zenon
    <3> HIDE DEF v
    <3>6. v.end = "ok" /\ v.got = <<"t", 1, c.raw>>
      BY <3>5, ReaderFields
    <3>7. v.got[1] = "t" /\ Len(v.got) = 3 /\ v.got[3] = c.raw
      BY <3>6
    <3>8. Column(d, Reader(a, got)) = Puts(v, Append(got, c))
      BY <2>a, <3>3, <3>6, <3>7 DEF v
    <3>9. Puts(v, Append(got, c)) = Reader(a + 3, Append(got, c))
      BY <3>5, PutsRead
    <3>10. QED
      BY <3>1, <3>8, <3>9
  <2>3. QED
    BY <2>1, <2>2
<1>3. QED
  BY <1>1, <1>2, CellForms

\* A column of a relation as it is sent.
Columns == [name : STRING, type : STRING]
RelationWord(c) == <<0, c.name, c.type, -1>>

LEMMA RelationColumnRead ==
  ASSUME NEW d \in Seq(Fields), NEW a, NEW c \in Columns, Stands(d, a, RelationWord(c)), NEW got
  PROVE  RelationColumn(d, Reader(a, got)) = Reader(a + 4, Append(got, c))
<1>0. Len(d) \in Nat /\ a \in Nat
  BY DEF Stands
<1>1. PICK x, y : x = c.name /\ y = c.type /\ x \in Fields /\ y \in Fields
  BY DEF Columns, Fields
<1>2. /\ a \in 1..Len(d) /\ a + 1 \in 1..Len(d) /\ a + 2 \in 1..Len(d) /\ a + 3 \in 1..Len(d)
      /\ d[a] = 0 /\ d[a + 1] = x /\ d[a + 2] = y /\ d[a + 3] = -1
  <2>1. Stands(d, a, <<0, x, y, -1>>)
    BY <1>1 DEF RelationWord
  <2>2. QED
    BY <1>0, <2>1, FourStand
<1>3. Number(d, Reader(a, <<>>)) = Reader(a + 1, <<0>>)
  <2>1. Number(d, Reader(a, <<>>)) = Reader(a + 1, Append(<<>>, d[a]))
    BY <1>2, NumberRead
  <2>2. Append(<<>>, d[a]) = <<0>>
    BY <1>2, GotOne
  <2>3. QED
    BY <2>1, <2>2, Zenon
<1>4. String(d, Reader(a + 1, <<0>>)) = Reader(a + 2, <<0, x>>)
  <2>1. String(d, Reader(a + 1, <<0>>)) = Reader(a + 1 + 1, Append(<<0>>, d[a + 1]))
    BY <1>2, StringRead
  <2>2. Append(<<0>>, d[a + 1]) = <<0, x>> /\ a + 1 + 1 = a + 2
    BY <1>0, <1>2, AppendTwo
  <2>3. QED
    BY <2>1, <2>2, Zenon
<1>5. Numbers(d, 2, Reader(a + 2, <<0, x>>)) = Reader(a + 4, <<0, x, y, -1>>)
  <2> DEFINE xs == <<y, -1>>
             h  == <<0, x>>
  <2>1. xs \in Seq(Fields) /\ Len(xs) = 2 /\ h \in Seq(Fields) /\ a + 2 + 2 = a + 4
    BY <1>0, <1>1 DEF Fields
  <2>2. h \o xs = <<0, x, y, -1>>
    BY ConcatTwo, Zenon
  <2>3. Stands(d, a + 2, xs)
    <3>1. a + 2 \in Nat \ {0} /\ a + 2 + 2 <= Len(d) + 1 /\ a + 2 + 1 - 1 = a + 2 /\ a + 2 + 2 - 1 = a + 3
      BY <1>0, <1>2
    <3>2. xs[1] = y /\ xs[2] = -1
      OBVIOUS
    <3>3. d[a + 2 + 1 - 1] = xs[1] /\ d[a + 2 + 2 - 1] = xs[2]
      BY <1>2, <3>1, <3>2
    <3> HIDE DEF xs
    <3>4. \A i \in 1..2 : d[a + 2 + i - 1] = xs[i]
      BY <3>3
    <3>5. QED
      BY <2>1, <3>1, <3>4 DEF Stands
  <2> HIDE DEF xs, h
  <2>4. Numbers(d, Len(xs), Reader(a + 2, h)) = Reader(a + 2 + Len(xs), h \o xs)
    BY <2>1, <2>3, NumbersRead
  <2>5. Numbers(d, 2, Reader(a + 2, h)) = Reader(a + 4, <<0, x, y, -1>>)
    BY <2>1, <2>2, <2>4
  <2>6. QED
    BY <2>5 DEF h
<1> DEFINE e == Reader(a + 4, <<0, x, y, -1>>)
<1>6. e.end = "ok" /\ e.got = <<0, x, y, -1>>
  BY ReaderFields
<1>7. e.got[2] = x /\ e.got[3] = y /\ [name |-> x, type |-> y] = c
  BY <1>1, <1>6 DEF Columns
<1>8. RelationColumn(d, Reader(a, got)) = Puts(e, Append(got, c))
  <2>1. Puts(Reader(a, got), <<>>) = Reader(a, <<>>) /\ Reader(a, got).got = got
    BY ReaderFields, PutsRead
  <2> HIDE DEF e
  <2>2. Numbers(d, 2, String(d, Number(d, Puts(Reader(a, got), <<>>)))) = e
    BY <1>3, <1>4, <1>5, <2>1 DEF e
  <2>3. RelationColumn(d, Reader(a, got))
          = Puts(e, Append(Reader(a, got).got, [name |-> e.got[2], type |-> e.got[3]]))
    BY <1>6, <2>2 DEF RelationColumn, Numbers, Puts
  <2>4. QED
    BY <1>7, <2>1, <2>3
<1>9. Puts(e, Append(got, c)) = Reader(a + 4, Append(got, c))
  BY PutsRead
<1>10. QED
  BY <1>8, <1>9, Zenon

-----------------------------------------------------------------------------
(* Lists.                                                                  *)

\* Where the items of a counted list stand.
OneByOne(d, a, words) ==
    /\ Len(words) \in Nat /\ a \in 1..Len(d) /\ d[a] = Len(words)
    /\ <<Len(words)>> \o FlattenSeq(words) \in Seq(Fields)
    /\ \E at \in [0..Len(words) -> Nat] :
          /\ at[0] = a + 1 /\ at[Len(words)] = a + Len(<<Len(words)>> \o FlattenSeq(words))
          /\ \A i \in 1..Len(words) : /\ at[i] = at[i - 1] + Len(words[i])
                                      /\ Stands(d, at[i - 1], words[i])

LEMMA CountedStand ==
  ASSUME NEW d \in Seq(Fields), NEW words \in Seq(Seq(Fields)), NEW a,
         Stands(d, a, <<Len(words)>> \o FlattenSeq(words))
  PROVE  OneByOne(d, a, words)
<1> DEFINE F    == FlattenSeq(words)
           n    == Len(words)
           list == <<n>> \o F
<1>1. n \in Nat /\ Len(d) \in Nat /\ n \in Fields /\ \A i \in 1..n : words[i] \in Seq(Fields)
  BY DEF Fields
<1>2. PICK in \in [1..(n + 1) -> Nat \ {0}] :
          /\ in[1] = 1
          /\ \A i \in 1..n : in[i + 1] = in[i] + Len(words[i]) /\ Stands(F, in[i], words[i])
          /\ F \in Seq(Fields) /\ Len(F) = in[n + 1] - 1
  BY WordsStand
<1> HIDE DEF F, n
<1>3. <<n>> \in Seq(Fields) /\ Len(<<n>>) = 1
  BY <1>1
<1>4. Stands(d, a, <<n>>) /\ Stands(d, a + 1, F)
  <2>1. Stands(d, a, <<n>> \o F)
    BY DEF F, n
  <2>2. QED
    BY <1>1, <1>2, <1>3, <2>1, WordParts
<1>5. a \in 1..Len(d) /\ d[a] = n /\ a \in Nat
  BY <1>1, <1>4, OneStands
<1>6. list \in Seq(Fields) /\ Len(list) = 1 + Len(F) /\ Len(F) \in Nat
  BY <1>2, <1>3, WordAppended
<1> HIDE DEF list
<1> DEFINE at == [i \in 0..n |-> a + in[i + 1]]
<1>7. ASSUME NEW i \in 0..n
      PROVE  i + 1 \in 1..(n + 1) /\ in[i + 1] \in Nat /\ at[i] = a + in[i + 1]
  <2>1. i + 1 \in 1..(n + 1)
    BY <1>1
  <2>2. in[i + 1] \in Nat
    BY <1>2, <2>1
  <2>3. QED
    BY <2>1, <2>2
<1>8. at \in [0..n -> Nat]
  BY <1>5, <1>7
<1> HIDE DEF at
<1>9. at[0] = a + 1 /\ at[n] = a + Len(list)
  <2>1. 0 \in 0..n /\ n \in 0..n /\ 0 + 1 = 1
    BY <1>1
  <2>2. at[0] = a + in[0 + 1] /\ at[n] = a + in[n + 1] /\ in[n + 1] \in Nat
    BY <1>7, <2>1
  <2>3. at[0] = a + 1
    BY <1>2, <2>1, <2>2
  <2>4. Len(list) = in[n + 1]
    BY <1>2, <1>6, <2>2
  <2>5. QED
    BY <2>2, <2>3, <2>4
<1>10. ASSUME NEW i \in 1..n
       PROVE  at[i] = at[i - 1] + Len(words[i]) /\ Stands(d, at[i - 1], words[i])
  <2>1. i \in 0..n /\ i - 1 \in 0..n /\ (i - 1) + 1 = i
    BY <1>1
  <2>2. at[i] = a + in[i + 1] /\ at[i - 1] = a + in[i] /\ in[i] \in Nat
    BY <1>7, <2>1
  <2>3. Len(words[i]) \in Nat
    BY <1>1
  <2>4. Stands(d, a + 1 + in[i] - 1, words[i])
    BY <1>1, <1>2, <1>4, <1>6, <2>3, WordInside
  <2>5. a + 1 + in[i] - 1 = at[i - 1]
    <3>1. \A b \in Nat : a + 1 + b - 1 = a + b
      BY <1>5
    <3>2. QED
      BY <2>2, <3>1
  <2>6. at[i] = at[i - 1] + Len(words[i])
    <3>1. in[i + 1] = in[i] + Len(words[i])
      BY <1>2
    <3>2. QED
      BY <1>5, <2>2, <2>3, <3>1
  <2>7. QED
    BY <2>4, <2>5, <2>6
<1>11. \E p \in [0..n -> Nat] :
          /\ p[0] = a + 1 /\ p[n] = a + Len(list)
          /\ \A i \in 1..n : p[i] = p[i - 1] + Len(words[i]) /\ Stands(d, p[i - 1], words[i])
  BY <1>8, <1>9, <1>10
<1>12. QED
  BY <1>1, <1>5, <1>6, <1>11 DEF n, list, F, OneByOne

LEMMA CellWord ==
  ASSUME NEW c \in Cells
  PROVE  EncodeColumn(c) \in Seq(Fields)
<1>1. CASE c.kind \in {"n", "u"}
  <2>1. EncodeColumn(c) = <<c.kind>>
    BY <1>1 DEF EncodeColumn
  <2>2. c.kind \in Fields
    BY <1>1 DEF Fields, Tags
  <2>3. QED
    BY <2>1, <2>2
<1>2. CASE c.kind = "t" /\ c.raw \in Texts
  <2>1. EncodeColumn(c) = <<"t", 0>> \/ EncodeColumn(c) = <<"t", 1, c.raw>>
    BY <1>2 DEF EncodeColumn
  <2>2. PICK x, y, z : x = "t" /\ y \in {0, 1} /\ z = c.raw
    OBVIOUS
  <2>3. x \in Fields /\ 0 \in Fields /\ 1 \in Fields /\ z \in Fields
    BY <1>2, <2>2 DEF Fields, Tags
  <2>4. <<x, 0>> \in Seq(Fields) /\ <<x, 1, z>> \in Seq(Fields)
    BY <2>3
  <2>5. QED
    BY <2>1, <2>2, <2>4
<1>3. QED
  BY <1>1, <1>2, CellForms

\* Columns one by one.
ColumnOf(d, q) == IF q.end = "ok" THEN Column(d, q) ELSE q

LEMMA TupleRead ==
  ASSUME NEW d \in Seq(Fields), NEW t \in Seq(Cells), NEW a, Stands(d, a, EncodeTuple(t)),
         NEW got, Last(Append(got, Len(t))) = Len(t)
  PROVE  Tuple(d, Reader(a, got)) = Reader(a + Len(EncodeTuple(t)), Append(got, t))
<1> DEFINE words == [i \in DOMAIN t |-> EncodeColumn(t[i])]
           n     == Len(t)
<1>0. /\ n \in Nat /\ DOMAIN t = 1..n /\ words \in Seq(Seq(Fields)) /\ n = Len(words)
      /\ \A i \in 1..n : words[i] = EncodeColumn(t[i]) /\ t[i] \in Cells
  <2>1. n \in Nat /\ DOMAIN t = 1..n /\ \A i \in 1..n : t[i] \in Cells
    OBVIOUS
  <2>2. words = [i \in 1..n |-> EncodeColumn(t[i])]
    BY <2>1
  <2> HIDE DEF words, n
  <2>3. \A i \in 1..n : EncodeColumn(t[i]) \in Seq(Fields)
    BY <2>1, CellWord
  <2>4. words \in Seq(Seq(Fields)) /\ Len(words) = n
    BY <2>1, <2>2, <2>3
  <2>5. QED
    BY <2>1, <2>2, <2>4
<1>1. EncodeTuple(t) = <<n>> \o FlattenSeq(words)
  BY DEF EncodeTuple
<1> HIDE DEF words, n
<1>2. /\ a \in 1..Len(d) /\ d[a] = n
      /\ \E at \in [0..n -> Nat] :
            /\ at[0] = a + 1 /\ at[n] = a + Len(EncodeTuple(t))
            /\ \A i \in 1..n : /\ at[i] = at[i - 1] + Len(words[i])
                               /\ Stands(d, at[i - 1], words[i])
  <2>1. EncodeTuple(t) = <<Len(words)>> \o FlattenSeq(words) /\ words \in Seq(Seq(Fields))
    BY <1>0, <1>1
  <2>2. Stands(d, a, <<Len(words)>> \o FlattenSeq(words))
    BY <2>1
  <2>3. /\ a \in 1..Len(d) /\ d[a] = Len(words)
        /\ \E at \in [0..Len(words) -> Nat] :
               /\ at[0] = a + 1 /\ at[Len(words)] = a + Len(<<Len(words)>> \o FlattenSeq(words))
               /\ \A i \in 1..Len(words) : /\ at[i] = at[i - 1] + Len(words[i])
                                           /\ Stands(d, at[i - 1], words[i])
    <3>1. OneByOne(d, a, words)
      BY <2>1, <2>2, CountedStand
    <3>2. QED
      BY <3>1, Zenon DEF OneByOne
  <2>4. n = Len(words) /\ EncodeTuple(t) = <<Len(words)>> \o FlattenSeq(words)
    BY <1>0, <2>1
  <2>5. QED
    BY <2>3, <2>4, Zenon
<1>3. PICK at \in [0..n -> Nat] :
            /\ at[0] = a + 1 /\ at[n] = a + Len(EncodeTuple(t))
            /\ \A i \in 1..n : /\ at[i] = at[i - 1] + Len(words[i])
                               /\ Stands(d, at[i - 1], words[i])
  BY <1>2
<1> DEFINE part(i) == SubSeq(t, 1, i)
           start == Reader(a + 1, <<>>)
           g     == [i \in 0..n |-> Reader(at[i], part(i))]
           Is(f) == f = [i \in 0..n |-> IF i = 0 THEN start ELSE ColumnOf(d, f[i - 1])]
           f     == CHOOSE f : Is(f)
<1>4. ASSUME NEW i \in 1..n
      PROVE  ColumnOf(d, Reader(at[i - 1], part(i - 1))) = Reader(at[i], part(i))
  <2>1. Append(part(i - 1), t[i]) = part(i)
    BY PartGrows DEF n
  <2> HIDE DEF part
  <2>2. Stands(d, at[i - 1], EncodeColumn(t[i])) /\ at[i] = at[i - 1] + Len(EncodeColumn(t[i])) /\ t[i] \in Cells
    BY <1>0, <1>3
  <2>3. Column(d, Reader(at[i - 1], part(i - 1)))
          = Reader(at[i - 1] + Len(EncodeColumn(t[i])), Append(part(i - 1), t[i]))
    BY <2>2, ColumnRead
  <2>4. Reader(at[i - 1], part(i - 1)).end = "ok"
    BY ReaderFields
  <2>5. QED
    BY <2>1, <2>2, <2>3, <2>4 DEF ColumnOf
<1>5. part(0) = <<>> /\ part(n) = t
  BY DEF n
<1> HIDE DEF part
<1>6. g[0] = start /\ \A i \in 1..n : i \in 0..n /\ i - 1 \in 0..n /\ g[i] = ColumnOf(d, g[i - 1])
  <2>1. 0 \in 0..n /\ \A i \in 1..n : i \in 0..n /\ i - 1 \in 0..n
    BY <1>0
  <2>2. \A i \in 0..n : g[i] = Reader(at[i], part(i))
    OBVIOUS
  <2>3. QED
    BY <1>3, <1>4, <1>5, <2>1, <2>2
<1>7. g[n] = Reader(a + Len(EncodeTuple(t)), t)
  BY <1>0, <1>3, <1>5
<1>8. Is(g)
  <2>1. g = [i \in 0..n |-> g[i]]
    OBVIOUS
  <2> HIDE DEF g
  <2>2. ASSUME NEW i \in 0..n
        PROVE  g[i] = IF i = 0 THEN start ELSE ColumnOf(d, g[i - 1])
    <3>1. i = 0 \/ i \in 1..n
      BY <1>0
    <3>2. QED
      BY <1>0, <1>6, <3>1
  <2>3. QED
    BY <2>1, <2>2
<1> HIDE DEF g
<1>9. Is(f)
  <2> HIDE DEF Is
  <2>1. QED
    BY <1>8
<1>10. Times(n, LAMBDA q : IF q.end = "ok" THEN Column(d, q) ELSE q, start) = f[n]
  BY DEF Times, ColumnOf
<1> HIDE DEF f
<1>11. \A i \in 0..n : f[i] = IF i = 0 THEN start ELSE ColumnOf(d, f[i - 1])
  BY <1>9
<1> HIDE DEF Is
<1>12. f[0] = g[0] /\ \A i \in 1..n : f[i - 1] = g[i - 1] => f[i] = g[i]
  <2>1. f[0] = g[0]
    BY <1>0, <1>6, <1>11
  <2>2. \A i \in 1..n : f[i] = ColumnOf(d, f[i - 1])
    BY <1>0, <1>6, <1>11
  <2>3. QED
    BY <1>6, <2>1, <2>2
<1>13. f[n] = g[n]
  BY <1>0, <1>12, GoOnAlike
<1>14. Number(d, Reader(a, got)) = Reader(a + 1, Append(got, n))
  BY <1>2, NumberRead
<1> DEFINE c == Number(d, Reader(a, got))
           l == Times(Last(c.got), LAMBDA q : IF q.end = "ok" THEN Column(d, q) ELSE q, Puts(c, <<>>))
<1>15. c.end = "ok" /\ Last(c.got) = n /\ Puts(c, <<>>) = start
  <2>1. c = Reader(a + 1, Append(got, n)) /\ start = Reader(a + 1, <<>>)
    BY <1>14
  <2> HIDE DEF c, start
  <2>2. c.end = "ok" /\ c.got = Append(got, n)
    <3>1. PICK p : p = Append(got, n)
      OBVIOUS
    <3>2. c = Reader(a + 1, p)
      BY <2>1, <3>1, Zenon
    <3>3. c.end = "ok" /\ c.got = p
      BY <3>2, ReaderFields
    <3>4. QED
      BY <3>1, <3>3, Zenon
  <2>3. Last(Append(got, n)) = n
    BY DEF n
  <2>4. Puts(c, <<>>) = start
    BY <2>1, PutsRead
  <2>5. QED
    BY <2>2, <2>3, <2>4, Zenon
<1>16. l = Reader(a + Len(EncodeTuple(t)), t)
  <2> HIDE DEF c, start
  <2>1. l = Times(n, LAMBDA q : IF q.end = "ok" THEN Column(d, q) ELSE q, start)
    BY <1>15
  <2>2. QED
    BY <1>7, <1>10, <1>13, <2>1
<1>17. Tuple(d, Reader(a, got)) = IF c.end # "ok" THEN c ELSE Puts(l, Append(Reader(a, got).got, l.got))
  BY DEF Tuple, List, Puts
<1>18. Tuple(d, Reader(a, got)) = Puts(l, Append(got, l.got))
  <2> HIDE DEF c, l
  <2>1. Reader(a, got).got = got
    BY ReaderFields
  <2>2. QED
    BY <1>15, <1>17, <2>1
<1>19. QED
  <2> HIDE DEF l
  <2>1. l.got = t
    BY <1>16, ReaderFields
  <2>2. Puts(l, Append(got, t)) = Reader(a + Len(EncodeTuple(t)), Append(got, t))
    BY <1>16, PutsRead
  <2>3. QED
    BY <1>18, <2>1, <2>2

LEMMA RelationWordLen ==
  ASSUME NEW c \in Columns
  PROVE  RelationWord(c) \in Seq(Fields) /\ Len(RelationWord(c)) = 4
<1>1. PICK x, y : x = c.name /\ y = c.type /\ x \in Fields /\ y \in Fields
  BY DEF Columns, Fields
<1>2. 0 \in Fields /\ -1 \in Fields
  BY DEF Fields
<1>3. <<0, x, y, -1>> \in Seq(Fields) /\ Len(<<0, x, y, -1>>) = 4
  BY <1>1, <1>2
<1>4. QED
  BY <1>1, <1>3 DEF RelationWord

\* Relation columns one by one, and their list.
RelationColumnOf(d, q) == IF q.end = "ok" THEN RelationColumn(d, q) ELSE q
RelationColumns(d, r)  == List(d, r, LAMBDA q : RelationColumn(d, q))

LEMMA RelationColumnsRead ==
  ASSUME NEW d \in Seq(Fields), NEW t \in Seq(Columns), NEW a, Stands(d, a, EncodeColumns(t)),
         NEW got, Last(Append(got, Len(t))) = Len(t)
  PROVE  RelationColumns(d, Reader(a, got)) = Reader(a + Len(EncodeColumns(t)), Append(got, t))
<1> DEFINE words == [i \in DOMAIN t |-> RelationWord(t[i])]
           n     == Len(t)
<1>0. /\ n \in Nat /\ DOMAIN t = 1..n /\ words \in Seq(Seq(Fields)) /\ n = Len(words)
      /\ \A i \in 1..n : words[i] = RelationWord(t[i]) /\ t[i] \in Columns
  <2>1. n \in Nat /\ DOMAIN t = 1..n /\ \A i \in 1..n : t[i] \in Columns
    OBVIOUS
  <2>2. words = [i \in 1..n |-> RelationWord(t[i])]
    BY <2>1
  <2> HIDE DEF words, n
  <2>3. \A i \in 1..n : RelationWord(t[i]) \in Seq(Fields)
    BY <2>1, RelationWordLen
  <2>4. words \in Seq(Seq(Fields)) /\ Len(words) = n
    BY <2>1, <2>2, <2>3
  <2>5. QED
    BY <2>1, <2>2, <2>4
<1>1. EncodeColumns(t) = <<n>> \o FlattenSeq(words)
  BY DEF EncodeColumns, RelationWord
<1> HIDE DEF words, n
<1>2. /\ a \in 1..Len(d) /\ d[a] = n
      /\ \E at \in [0..n -> Nat] :
            /\ at[0] = a + 1 /\ at[n] = a + Len(EncodeColumns(t))
            /\ \A i \in 1..n : /\ at[i] = at[i - 1] + Len(words[i])
                               /\ Stands(d, at[i - 1], words[i])
  <2>1. EncodeColumns(t) = <<Len(words)>> \o FlattenSeq(words) /\ words \in Seq(Seq(Fields))
    BY <1>0, <1>1
  <2>2. Stands(d, a, <<Len(words)>> \o FlattenSeq(words))
    BY <2>1
  <2>3. /\ a \in 1..Len(d) /\ d[a] = Len(words)
        /\ \E at \in [0..Len(words) -> Nat] :
               /\ at[0] = a + 1 /\ at[Len(words)] = a + Len(<<Len(words)>> \o FlattenSeq(words))
               /\ \A i \in 1..Len(words) : /\ at[i] = at[i - 1] + Len(words[i])
                                           /\ Stands(d, at[i - 1], words[i])
    <3>1. OneByOne(d, a, words)
      BY <2>1, <2>2, CountedStand
    <3>2. QED
      BY <3>1, Zenon DEF OneByOne
  <2>4. n = Len(words) /\ EncodeColumns(t) = <<Len(words)>> \o FlattenSeq(words)
    BY <1>0, <2>1
  <2>5. QED
    BY <2>3, <2>4, Zenon
<1>3. PICK at \in [0..n -> Nat] :
            /\ at[0] = a + 1 /\ at[n] = a + Len(EncodeColumns(t))
            /\ \A i \in 1..n : /\ at[i] = at[i - 1] + Len(words[i])
                               /\ Stands(d, at[i - 1], words[i])
  BY <1>2
<1> DEFINE part(i) == SubSeq(t, 1, i)
           start == Reader(a + 1, <<>>)
           g     == [i \in 0..n |-> Reader(at[i], part(i))]
           Is(f) == f = [i \in 0..n |-> IF i = 0 THEN start ELSE RelationColumnOf(d, f[i - 1])]
           f     == CHOOSE f : Is(f)
<1>4. ASSUME NEW i \in 1..n
      PROVE  RelationColumnOf(d, Reader(at[i - 1], part(i - 1))) = Reader(at[i], part(i))
  <2>1. Append(part(i - 1), t[i]) = part(i)
    BY PartGrows DEF n
  <2> HIDE DEF part
  <2>2. Stands(d, at[i - 1], RelationWord(t[i])) /\ at[i] = at[i - 1] + Len(RelationWord(t[i])) /\ t[i] \in Columns
    BY <1>0, <1>3
  <2>3. RelationColumn(d, Reader(at[i - 1], part(i - 1)))
          = Reader(at[i - 1] + Len(RelationWord(t[i])), Append(part(i - 1), t[i]))
    <3>1. RelationColumn(d, Reader(at[i - 1], part(i - 1))) = Reader(at[i - 1] + 4, Append(part(i - 1), t[i]))
      BY <2>2, RelationColumnRead
    <3>2. Len(RelationWord(t[i])) = 4
      BY <2>2, RelationWordLen
    <3>3. QED
      BY <3>1, <3>2, Zenon
  <2>4. Reader(at[i - 1], part(i - 1)).end = "ok"
    BY ReaderFields
  <2>5. QED
    BY <2>1, <2>2, <2>3, <2>4 DEF RelationColumnOf
<1>5. part(0) = <<>> /\ part(n) = t
  BY DEF n
<1> HIDE DEF part
<1>6. g[0] = start /\ \A i \in 1..n : i \in 0..n /\ i - 1 \in 0..n /\ g[i] = RelationColumnOf(d, g[i - 1])
  <2>1. 0 \in 0..n /\ \A i \in 1..n : i \in 0..n /\ i - 1 \in 0..n
    BY <1>0
  <2>2. \A i \in 0..n : g[i] = Reader(at[i], part(i))
    OBVIOUS
  <2>3. QED
    BY <1>3, <1>4, <1>5, <2>1, <2>2
<1>7. g[n] = Reader(a + Len(EncodeColumns(t)), t)
  BY <1>0, <1>3, <1>5
<1>8. Is(g)
  <2>1. g = [i \in 0..n |-> g[i]]
    OBVIOUS
  <2> HIDE DEF g
  <2>2. ASSUME NEW i \in 0..n
        PROVE  g[i] = IF i = 0 THEN start ELSE RelationColumnOf(d, g[i - 1])
    <3>1. i = 0 \/ i \in 1..n
      BY <1>0
    <3>2. QED
      BY <1>0, <1>6, <3>1
  <2>3. QED
    BY <2>1, <2>2
<1> HIDE DEF g
<1>9. Is(f)
  <2> HIDE DEF Is
  <2>1. QED
    BY <1>8
<1>10. Times(n, LAMBDA q : IF q.end = "ok" THEN RelationColumn(d, q) ELSE q, start) = f[n]
  BY DEF Times, RelationColumnOf
<1> HIDE DEF f
<1>11. \A i \in 0..n : f[i] = IF i = 0 THEN start ELSE RelationColumnOf(d, f[i - 1])
  BY <1>9
<1> HIDE DEF Is
<1>12. f[0] = g[0] /\ \A i \in 1..n : f[i - 1] = g[i - 1] => f[i] = g[i]
  <2>1. f[0] = g[0]
    BY <1>0, <1>6, <1>11
  <2>2. \A i \in 1..n : f[i] = RelationColumnOf(d, f[i - 1])
    BY <1>0, <1>6, <1>11
  <2>3. QED
    BY <1>6, <2>1, <2>2
<1>13. f[n] = g[n]
  BY <1>0, <1>12, GoOnAlike
<1>14. Number(d, Reader(a, got)) = Reader(a + 1, Append(got, n))
  BY <1>2, NumberRead
<1> DEFINE c == Number(d, Reader(a, got))
           l == Times(Last(c.got), LAMBDA q : IF q.end = "ok" THEN RelationColumn(d, q) ELSE q, Puts(c, <<>>))
<1>15. c.end = "ok" /\ Last(c.got) = n /\ Puts(c, <<>>) = start
  <2>1. c = Reader(a + 1, Append(got, n)) /\ start = Reader(a + 1, <<>>)
    BY <1>14
  <2> HIDE DEF c, start
  <2>2. c.end = "ok" /\ c.got = Append(got, n)
    <3>1. PICK p : p = Append(got, n)
      OBVIOUS
    <3>2. c = Reader(a + 1, p)
      BY <2>1, <3>1, Zenon
    <3>3. c.end = "ok" /\ c.got = p
      BY <3>2, ReaderFields
    <3>4. QED
      BY <3>1, <3>3, Zenon
  <2>3. Last(Append(got, n)) = n
    BY DEF n
  <2>4. Puts(c, <<>>) = start
    BY <2>1, PutsRead
  <2>5. QED
    BY <2>2, <2>3, <2>4, Zenon
<1>16. l = Reader(a + Len(EncodeColumns(t)), t)
  <2> HIDE DEF c, start
  <2>1. l = Times(n, LAMBDA q : IF q.end = "ok" THEN RelationColumn(d, q) ELSE q, start)
    BY <1>15
  <2>2. QED
    BY <1>7, <1>10, <1>13, <2>1
<1>17. RelationColumns(d, Reader(a, got)) = IF c.end # "ok" THEN c ELSE Puts(l, Append(Reader(a, got).got, l.got))
  BY DEF RelationColumns, List, Puts
<1>18. RelationColumns(d, Reader(a, got)) = Puts(l, Append(got, l.got))
  <2> HIDE DEF c, l
  <2>1. Reader(a, got).got = got
    BY ReaderFields
  <2>2. QED
    BY <1>15, <1>17, <2>1
<1>19. QED
  <2> HIDE DEF l
  <2>1. l.got = t
    BY <1>16, ReaderFields
  <2>2. Puts(l, Append(got, t)) = Reader(a + Len(EncodeColumns(t)), Append(got, t))
    BY <1>16, PutsRead
  <2>3. QED
    BY <1>18, <2>1, <2>2

LEMMA WordsInSeq ==
  ASSUME NEW words \in Seq(Seq(Fields))
  PROVE  <<Len(words)>> \o FlattenSeq(words) \in Seq(Fields)
<1>1. FlattenSeq(words) \in Seq(Fields)
  BY WordsStand
<1>2. Len(words) \in Nat
  OBVIOUS
<1>3. <<Len(words)>> \in Seq(Fields)
  BY <1>2 DEF Fields
<1> HIDE DEF FlattenSeq
<1>4. PICK u \in Seq(Fields), v \in Seq(Fields) : u = <<Len(words)>> /\ v = FlattenSeq(words)
  BY <1>1, <1>3
<1>5. u \o v \in Seq(Fields)
  OBVIOUS
<1>6. QED
  BY <1>4, <1>5

LEMMA TupleWord ==
  ASSUME NEW t \in Seq(Cells)
  PROVE  EncodeTuple(t) \in Seq(Fields)
<1> DEFINE words == [i \in DOMAIN t |-> EncodeColumn(t[i])]
<1>1. words \in Seq(Seq(Fields)) /\ Len(words) = Len(t)
  <2>1. \A i \in DOMAIN t : EncodeColumn(t[i]) \in Seq(Fields)
    BY CellWord
  <2>2. DOMAIN t = 1..Len(t) /\ Len(t) \in Nat
    OBVIOUS
  <2>3. QED
    BY <2>1, <2>2
<1>2. EncodeTuple(t) = <<Len(t)>> \o FlattenSeq(words)
  BY DEF EncodeTuple
<1> HIDE DEF words
<1>3. QED
  BY <1>1, <1>2, WordsInSeq

LEMMA ColumnsWord ==
  ASSUME NEW cs \in Seq(Columns)
  PROVE  EncodeColumns(cs) \in Seq(Fields)
<1> DEFINE words == [i \in DOMAIN cs |-> RelationWord(cs[i])]
<1>1. words \in Seq(Seq(Fields)) /\ Len(words) = Len(cs)
  <2>1. \A i \in DOMAIN cs : RelationWord(cs[i]) \in Seq(Fields)
    BY RelationWordLen
  <2>2. DOMAIN cs = 1..Len(cs) /\ Len(cs) \in Nat
    OBVIOUS
  <2>3. QED
    BY <2>1, <2>2
<1>2. EncodeColumns(cs) = <<Len(cs)>> \o FlattenSeq(words)
  BY DEF EncodeColumns, RelationWord
<1> HIDE DEF words
<1>3. QED
  BY <1>1, <1>2, WordsInSeq

-----------------------------------------------------------------------------
(* Messages.                                                               *)

\* The first k words have one field each: they stand at 1 to k.
LEMMA EncodeStands ==
  ASSUME NEW words \in Seq(Seq(Fields)), NEW k \in 0..Len(words),
         \A i \in 1..k : Len(words[i]) = 1
  PROVE  \E at \in [1..(Len(words) + 1) -> Nat \ {0}] :
            /\ \A i \in 1..(k + 1) : at[i] = i
            /\ \A i \in 1..Len(words) : /\ at[i + 1] = at[i] + Len(words[i])
                                        /\ Stands(FlattenSeq(words), at[i], words[i])
            /\ FlattenSeq(words) \in Seq(Fields)
            /\ Len(FlattenSeq(words)) = at[Len(words) + 1] - 1
<1> DEFINE F == FlattenSeq(words)
           n == Len(words)
<1>1. PICK at \in [1..(n + 1) -> Nat \ {0}] :
          /\ at[1] = 1
          /\ \A i \in 1..n : at[i + 1] = at[i] + Len(words[i]) /\ Stands(F, at[i], words[i])
          /\ F \in Seq(Fields) /\ Len(F) = at[n + 1] - 1
  BY WordsStand
<1>2. n \in Nat
  OBVIOUS
<1> HIDE DEF F, n
<1> DEFINE f == [i \in 0..k |-> at[i + 1]]
           g == [i \in 0..k |-> i + 1]
<1>3. f[0] = g[0] /\ \A i \in 1..k : f[i - 1] = g[i - 1] => f[i] = g[i]
  <2>1. k \in Nat /\ k <= n
    BY <1>2 DEF n
  <2>2. \A i \in 0..k : f[i] = at[i + 1] /\ g[i] = i + 1
    OBVIOUS
  <2> HIDE DEF f, g
  <2>3. f[0] = g[0]
    BY <1>1, <2>1, <2>2
  <2>4. ASSUME NEW i \in 1..k, f[i - 1] = g[i - 1]
        PROVE  f[i] = g[i]
    <3>1. i - 1 \in 0..k /\ i \in 0..k /\ i \in 1..n /\ (i - 1) + 1 = i
      BY <1>2, <2>1
    <3>2. f[i - 1] = at[i] /\ g[i - 1] = i /\ f[i] = at[i + 1] /\ g[i] = i + 1
      BY <2>2, <3>1
    <3>3. at[i + 1] = at[i] + 1
      BY <1>1, <3>1
    <3>4. QED
      BY <2>4, <3>2, <3>3
  <2>5. QED
    BY <2>3, <2>4
<1> HIDE DEF f, g
<1>4. ASSUME NEW j \in 0..k
      PROVE  f[j] = g[j]
  <2>1. j \in Nat /\ 1..j \subseteq 1..k
    BY <1>2 DEF n
  <2>2. \A i \in 1..j : f[i - 1] = g[i - 1] => f[i] = g[i]
    BY <1>3, <2>1
  <2>3. QED
    BY <1>3, <2>1, <2>2, GoOnAlike
<1>5. ASSUME NEW i \in 1..(k + 1)
      PROVE  at[i] = i
  <2>1. i - 1 \in 0..k /\ (i - 1) + 1 = i
    BY <1>2 DEF n
  <2>2. f[i - 1] = at[i] /\ g[i - 1] = i
    BY <2>1 DEF f, g
  <2>3. QED
    BY <1>4, <2>1, <2>2
<1>6. QED
  BY <1>1, <1>5 DEF F, n

\* The k-th field of the message m is read.
LEMMA FieldRead ==
  ASSUME NEW d \in Seq(Fields), NEW X, NEW m \in Seq(X), NEW k \in 1..Len(m), k \in 1..Len(d),
         d[k] = m[k]
  PROVE  /\ Number(d, Reader(k, SubSeq(m, 1, k - 1))) = Reader(k + 1, SubSeq(m, 1, k))
         /\ String(d, Reader(k, SubSeq(m, 1, k - 1))) = Reader(k + 1, SubSeq(m, 1, k))
         /\ \A tags : m[k] \in tags =>
                Tag(d, Reader(k, SubSeq(m, 1, k - 1)), tags) = Reader(k + 1, SubSeq(m, 1, k))
<1>1. Append(SubSeq(m, 1, k - 1), d[k]) = SubSeq(m, 1, k)
  BY PartGrows
<1>2. PICK p : p = SubSeq(m, 1, k - 1)
  OBVIOUS
<1>3. PICK q : q = SubSeq(m, 1, k)
  OBVIOUS
<1>4. Append(p, d[k]) = q
  BY <1>1, <1>2, <1>3, Zenon
<1>5. /\ Number(d, Reader(k, p)) = Reader(k + 1, q)
      /\ String(d, Reader(k, p)) = Reader(k + 1, q)
  BY <1>4, NumberRead, StringRead
<1>6. \A tags : d[k] \in tags => Tag(d, Reader(k, p), tags) = Reader(k + 1, q)
  BY <1>4, TagRead
<1>7. QED
  BY <1>2, <1>3, <1>5, <1>6, Zenon

\* Of a message without tuples the fields from j + 1 to k are read as numbers.
LEMMA FieldsRead ==
  ASSUME NEW m \in Seq(Fields), NEW j \in 0..Len(m), NEW k \in j..Len(m),
         NEW a, a = j + 1, NEW b, b = k + 1, NEW n, n = k - j
  PROVE  Numbers(m, n, Reader(a, SubSeq(m, 1, j))) = Reader(b, SubSeq(m, 1, k))
<1> DEFINE xs == SubSeq(m, j + 1, k)
           h  == SubSeq(m, 1, j)
<1>1. /\ xs \in Seq(Fields) /\ h \in Seq(Fields) /\ Len(xs) = k - j
      /\ \A i \in 1..Len(xs) : xs[i] = m[j + i]
  OBVIOUS
<1>2. h \o xs = SubSeq(m, 1, k)
  OBVIOUS
<1>3. Len(m) \in Nat /\ j \in Nat /\ k \in Nat /\ j + 1 + (k - j) = k + 1
  OBVIOUS
<1> HIDE DEF xs, h
<1>4. Stands(m, j + 1, xs)
  <2>1. \A i \in 1..Len(xs) : j + 1 + i - 1 = j + i
    BY <1>1, <1>3
  <2>2. QED
    BY <1>1, <1>3, <2>1 DEF Stands
<1>5. Numbers(m, Len(xs), Reader(j + 1, h)) = Reader(j + 1 + Len(xs), h \o xs)
  BY <1>1, <1>4, NumbersRead
<1>6. Numbers(m, n, Reader(a, h)) = Reader(b, SubSeq(m, 1, k))
  BY <1>1, <1>2, <1>3, <1>5
<1>7. QED
  BY <1>6 DEF h

\* A message without tuples is sent as it is.
LEMMA PlainEncode ==
  ASSUME NEW m \in Seq(Fields), Len(m) > 0, m[1] \in {"B", "C", "T"}
  PROVE  Encode(m) = m
<1> DEFINE words == [i \in DOMAIN m |-> <<m[i]>>]
           n     == Len(m)
           F     == FlattenSeq(words)
<1>1. Encode(m) = F
  <2>1. ~(m[1] \in {"I", "U", "D"}) /\ m[1] # "R"
    OBVIOUS
  <2>2. QED
    BY <2>1 DEF Encode
<1>2. n \in Nat /\ words \in Seq(Seq(Fields)) /\ Len(words) = n
      /\ \A i \in 1..n : words[i] = <<m[i]>> /\ Len(words[i]) = 1
  <2>1. n \in Nat /\ DOMAIN m = 1..n /\ \A i \in 1..n : <<m[i]>> \in Seq(Fields) /\ Len(<<m[i]>>) = 1
    OBVIOUS
  <2> HIDE DEF n
  <2>2. QED
    BY <2>1
<1> HIDE DEF words, F, n
<1>3. PICK at \in [1..(n + 1) -> Nat \ {0}] :
          /\ \A i \in 1..(n + 1) : at[i] = i
          /\ \A i \in 1..n : Stands(F, at[i], words[i])
          /\ F \in Seq(Fields) /\ Len(F) = at[n + 1] - 1
  <2>1. Len(words) \in 0..Len(words) /\ \A i \in 1..Len(words) : Len(words[i]) = 1
    BY <1>2
  <2>2. QED
    BY <1>2, <2>1, EncodeStands DEF F
<1>4. Len(F) = n
  BY <1>2, <1>3
<1>5. ASSUME NEW i \in 1..n
      PROVE  F[i] = m[i]
  <2>1. Stands(F, i, <<m[i]>>)
    <3>1. i \in 1..(n + 1)
      BY <1>2
    <3>2. at[i] = i /\ Stands(F, at[i], words[i]) /\ words[i] = <<m[i]>>
      BY <1>2, <1>3, <3>1
    <3>3. QED
      BY <3>2
  <2>2. QED
    BY <1>2, <1>4, <2>1, OneStands
<1>6. F = m
  BY <1>3, <1>4, <1>5, SeqEqual DEF n
<1>7. QED
  BY <1>1, <1>6

\* What Decode starts with.
LEMMA FirstRead ==
  ASSUME NEW X, NEW m \in Seq(X), NEW d \in Seq(Fields), Len(d) > 0, Len(m) > 0, d[1] = m[1]
  PROVE  /\ d # <<>> /\ Yields(Start, d[1]) = Reader(2, SubSeq(m, 1, 1))
         /\ Decode(d) = CASE m[1] = "B" -> DecodeBegin(d, Reader(2, SubSeq(m, 1, 1)))
                          [] m[1] = "C" -> DecodeCommit(d, Reader(2, SubSeq(m, 1, 1)))
                          [] m[1] = "R" -> DecodeRelation(d, Reader(2, SubSeq(m, 1, 1)))
                          [] m[1] = "I" -> DecodeInsert(d, Reader(2, SubSeq(m, 1, 1)))
                          [] m[1] = "U" -> DecodeUpdate(d, Reader(2, SubSeq(m, 1, 1)))
                          [] m[1] = "D" -> DecodeDelete(d, Reader(2, SubSeq(m, 1, 1)))
                          [] m[1] = "T" -> DecodeTruncate(d, Reader(2, SubSeq(m, 1, 1)))
                          [] OTHER -> Stops(Reader(2, SubSeq(m, 1, 1)), "none")
<1>1. d # <<>> /\ 1 \in 1..Len(m)
  OBVIOUS
<1>2. Append(<<>>, d[1]) = SubSeq(m, 1, 1)
  <2>1. Append(SubSeq(m, 1, 1 - 1), m[1]) = SubSeq(m, 1, 1) /\ SubSeq(m, 1, 0) = <<>>
    BY <1>1, PartGrows
  <2>2. QED
    BY <2>1
<1>3. Yields(Start, d[1]) = Reader(2, SubSeq(m, 1, 1))
  <2>1. Start = Reader(1, <<>>)
    BY DEF Start, Reader
  <2>2. Yields(Reader(1, <<>>), d[1]) = Reader(1 + 1, Append(<<>>, d[1]))
    <3>1. PICK a, g, x : a = 1 /\ g = <<>> /\ x = d[1]
      OBVIOUS
    <3>2. Yields(Reader(a, g), x) = Reader(a + 1, Append(g, x))
      BY ReaderFields
    <3>3. QED
      BY <3>1, <3>2, Zenon
  <2>3. Yields(Start, d[1]) = Reader(1 + 1, SubSeq(m, 1, 1))
    BY <1>2, <2>1, <2>2, Zenon
  <2>4. QED
    BY <2>3
<1> DEFINE r == Yields(Start, d[1])
<1>4. Decode(d) = CASE d[1] = "B" -> DecodeBegin(d, r)
                    [] d[1] = "C" -> DecodeCommit(d, r)
                    [] d[1] = "R" -> DecodeRelation(d, r)
                    [] d[1] = "I" -> DecodeInsert(d, r)
                    [] d[1] = "U" -> DecodeUpdate(d, r)
                    [] d[1] = "D" -> DecodeDelete(d, r)
                    [] d[1] = "T" -> DecodeTruncate(d, r)
                    [] OTHER -> Stops(r, "none")
  BY <1>1 DEF Decode
<1> HIDE DEF r
<1>5. r = Reader(2, SubSeq(m, 1, 1))
  BY <1>3 DEF r
<1>6. QED
  BY <1>1, <1>3, <1>4, <1>5

\* A message that is read to its end was read whole.
LEMMA WholeRead ==
  ASSUME NEW X, NEW m \in Seq(X), Len(m) > 0, NEW a,
         Encode(m)[1] = m[1], Decode(Encode(m)) = Reader(a, SubSeq(m, 1, Len(m)))
  PROVE  ReadsBack(m)
<1>1. SubSeq(m, 1, Len(m)) = m
  OBVIOUS
<1>2. Decode(Encode(m)) = Reader(a, m)
  BY <1>1
<1>3. QED
  BY <1>2, ReaderFields DEF ReadsBack

LEMMA BeginCommitBack ==
  ASSUME NEW n \in Nat
  PROVE  ReadsBack(Begin(n)) /\ ReadsBack(Commit(n))
<1>1. PICK b, c : b = "B" /\ c = "C"
  OBVIOUS
<1>2. b \in Fields /\ c \in Fields /\ Lsn(n) \in Fields /\ EndLsn(n) \in Fields /\ 0 \in Fields
  BY <1>1 DEF Fields, Tags, Lsn, EndLsn
<1>3. ReadsBack(Begin(n))
  <2> DEFINE m == Begin(n)
  <2>1. m \in Seq(Fields) /\ Len(m) = 4 /\ m[1] = "B"
    <3>1. <<b, Lsn(n), 0, 0>> \in Seq(Fields) /\ Len(<<b, Lsn(n), 0, 0>>) = 4 /\ <<b, Lsn(n), 0, 0>>[1] = b
      BY <1>2
    <3>2. QED
      BY <1>1, <3>1 DEF Begin
  <2> HIDE DEF m
  <2>2. Encode(m) = m
    BY <2>1, PlainEncode
  <2>3. Decode(m) = DecodeBegin(m, Reader(2, SubSeq(m, 1, 1)))
    BY <2>1, FirstRead
  <2>4. Numbers(m, 3, Reader(2, SubSeq(m, 1, 1))) = Reader(5, SubSeq(m, 1, 4))
    <3>1. PICK j, k, a, z, x : j = 1 /\ k = 4 /\ a = 2 /\ z = 5 /\ x = 3
      OBVIOUS
    <3>2. j \in 0..Len(m) /\ k \in j..Len(m) /\ a = j + 1 /\ z = k + 1 /\ x = k - j
      BY <2>1, <3>1
    <3>3. m \in Seq(Fields)
      BY <2>1
    <3>4. Numbers(m, x, Reader(a, SubSeq(m, 1, j))) = Reader(z, SubSeq(m, 1, k))
      BY <3>2, <3>3, FieldsRead
    <3>5. QED
      BY <3>1, <3>4, Zenon
  <2>5. DecodeBegin(m, Reader(2, SubSeq(m, 1, 1))) = Reader(5, SubSeq(m, 1, 4))
    BY <2>4 DEF DecodeBegin, Numbers
  <2>6. Decode(Encode(m)) = Reader(5, SubSeq(m, 1, Len(m))) /\ Encode(m)[1] = m[1] /\ Len(m) > 0
    BY <2>1, <2>2, <2>3, <2>5
  <2>7. ReadsBack(m)
    BY <2>1, <2>6, WholeRead
  <2>8. QED
    BY <2>7 DEF m
<1>4. ReadsBack(Commit(n))
  <2> DEFINE m == Commit(n)
  <2>1. m \in Seq(Fields) /\ Len(m) = 5 /\ m[1] = "C"
    <3> DEFINE w == <<c, 0, Lsn(n), EndLsn(n), 0>>
    <3>1. w \in Seq(Fields) /\ Len(w) = 5 /\ w[1] = c
      BY <1>2
    <3>2. QED
      BY <1>1, <3>1 DEF Commit
  <2> HIDE DEF m
  <2>2. Encode(m) = m
    BY <2>1, PlainEncode
  <2>3. Decode(m) = DecodeCommit(m, Reader(2, SubSeq(m, 1, 1)))
    BY <2>1, FirstRead, SMTT(30)
  <2>4. Numbers(m, 4, Reader(2, SubSeq(m, 1, 1))) = Reader(6, SubSeq(m, 1, 5))
    <3>1. PICK j, k, a, z, x : j = 1 /\ k = 5 /\ a = 2 /\ z = 6 /\ x = 4
      OBVIOUS
    <3>2. j \in 0..Len(m) /\ k \in j..Len(m) /\ a = j + 1 /\ z = k + 1 /\ x = k - j
      BY <2>1, <3>1
    <3>3. m \in Seq(Fields)
      BY <2>1
    <3>4. Numbers(m, x, Reader(a, SubSeq(m, 1, j))) = Reader(z, SubSeq(m, 1, k))
      BY <3>2, <3>3, FieldsRead
    <3>5. QED
      BY <3>1, <3>4, Zenon
  <2>5. DecodeCommit(m, Reader(2, SubSeq(m, 1, 1))) = Reader(6, SubSeq(m, 1, 5))
    BY <2>4 DEF DecodeCommit, Numbers
  <2>6. Decode(Encode(m)) = Reader(6, SubSeq(m, 1, Len(m))) /\ Encode(m)[1] = m[1] /\ Len(m) > 0
    BY <2>1, <2>2, <2>3, <2>5
  <2>7. ReadsBack(m)
    BY <2>1, <2>6, WholeRead
  <2>8. QED
    BY <2>7 DEF m
<1>5. QED
  BY <1>3, <1>4

LEMMA TruncateBack ==
  ASSUME NEW t \in Tables
  PROVE  ReadsBack(<<"T", 1, 0, t>>)
<1> DEFINE m == <<"T", 1, 0, t>>
<1>1. m \in Seq(Fields) /\ Len(m) = 4 /\ m[1] = "T" /\ m[2] = 1
  <2>1. PICK b : b = "T"
    OBVIOUS
  <2>2. b \in Fields /\ t \in Fields /\ 0 \in Fields /\ 1 \in Fields
    BY <2>1 DEF Fields, Tags
  <2>3. <<b, 1, 0, t>> \in Seq(Fields)
    BY <2>2
  <2>4. QED
    BY <2>1, <2>3
<1> HIDE DEF m
<1>2. Encode(m) = m
  BY <1>1, PlainEncode
<1> DEFINE r  == Reader(2, SubSeq(m, 1, 1))
           rr == Reader(4, SubSeq(m, 1, 3))
<1>3. Decode(m) = DecodeTruncate(m, r)
  BY <1>1, FirstRead
<1>4. Numbers(m, 2, Reader(2, SubSeq(m, 1, 1))) = Reader(4, SubSeq(m, 1, 3))
  <2>1. PICK j, k, a, b, n : j = 1 /\ k = 3 /\ a = 2 /\ b = 4 /\ n = 2
    OBVIOUS
  <2>2. j \in 0..Len(m) /\ k \in j..Len(m) /\ a = j + 1 /\ b = k + 1 /\ n = k - j
    BY <1>1, <2>1
  <2>3. m \in Seq(Fields)
    BY <1>1
  <2>4. Numbers(m, n, Reader(a, SubSeq(m, 1, j))) = Reader(b, SubSeq(m, 1, k))
    BY <2>2, <2>3, FieldsRead
  <2>5. QED
    BY <2>1, <2>4, Zenon
<1>5. Numbers(m, 1, Reader(4, SubSeq(m, 1, 3))) = Reader(5, SubSeq(m, 1, 4))
  <2>1. PICK j, k, a, b, n : j = 3 /\ k = 4 /\ a = 4 /\ b = 5 /\ n = 1
    OBVIOUS
  <2>2. j \in 0..Len(m) /\ k \in j..Len(m) /\ a = j + 1 /\ b = k + 1 /\ n = k - j
    BY <1>1, <2>1
  <2>3. m \in Seq(Fields)
    BY <1>1
  <2>4. Numbers(m, n, Reader(a, SubSeq(m, 1, j))) = Reader(b, SubSeq(m, 1, k))
    BY <2>2, <2>3, FieldsRead
  <2>5. QED
    BY <2>1, <2>4, Zenon
<1>6. rr.end = "ok" /\ rr.got[2] = 1
  <2>1. PICK p : p = SubSeq(m, 1, 3)
    OBVIOUS
  <2>2. p[2] = 1 /\ rr = Reader(4, p)
    BY <1>1, <2>1
  <2> HIDE DEF rr
  <2>3. rr.end = "ok" /\ rr.got = p
    BY <2>2, ReaderFields
  <2>4. QED
    BY <2>2, <2>3
<1>7. Numbers(m, 2, r) = rr /\ Numbers(m, 1, rr) = Reader(5, SubSeq(m, 1, 4))
  BY <1>4, <1>5
<1> HIDE DEF r, rr
<1>8. DecodeTruncate(m, r)
        = IF Numbers(m, 2, r).end # "ok" THEN Numbers(m, 2, r)
          ELSE Numbers(m, Numbers(m, 2, r).got[2], Numbers(m, 2, r))
  BY DEF DecodeTruncate, Numbers
<1>9. DecodeTruncate(m, r) = Reader(5, SubSeq(m, 1, 4))
  BY <1>6, <1>7, <1>8
<1>10. Decode(Encode(m)) = Reader(5, SubSeq(m, 1, Len(m))) /\ Encode(m)[1] = m[1] /\ Len(m) > 0
  BY <1>1, <1>2, <1>3, <1>9
<1>11. ReadsBack(m)
  BY <1>1, <1>10, WholeRead
<1>12. QED
  BY <1>11 DEF m

\* Of the words of a message the first k are its fields, and the next ones follow.
FieldsFirst(m, words, k) ==
    /\ k \in 0..Len(words) /\ k < Len(words)
    /\ \A i \in 1..k : words[i] = <<m[i]>>

WordsStanding(d, m, words, k) ==
    /\ \A i \in 1..k : i \in 1..Len(d) /\ d[i] = m[i]
    /\ Stands(d, k + 1, words[k + 1])
    /\ k + 2 <= Len(words) => Stands(d, k + 1 + Len(words[k + 1]), words[k + 2])
    /\ k + 3 <= Len(words) =>
           Stands(d, k + 1 + Len(words[k + 1]) + Len(words[k + 2]), words[k + 3])

LEMMA FrontStands ==
  ASSUME NEW m, NEW words \in Seq(Seq(Fields)), NEW k, FieldsFirst(m, words, k),
         NEW d, d = FlattenSeq(words)
  PROVE  d \in Seq(Fields) /\ WordsStanding(d, m, words, k)
<1>0. /\ k \in 0..Len(words) /\ k < Len(words)
      /\ \A i \in 1..k : words[i] = <<m[i]>>
  BY DEF FieldsFirst
<1>1. PICK n : n = Len(words)
  OBVIOUS
<1>2. n \in Nat /\ k \in 0..n /\ k < n /\ \A i \in 1..n : Len(words[i]) \in Nat
  BY <1>0, <1>1
<1>3. \A i \in 1..k : Len(words[i]) = 1
  <2>1. ASSUME NEW i \in 1..k
        PROVE  Len(words[i]) = 1
    <3>1. words[i] = <<m[i]>> /\ Len(<<m[i]>>) = 1
      BY <1>0
    <3>2. QED
      BY <3>1, Zenon
  <2>2. QED
    BY <2>1
<1>4. PICK at \in [1..(n + 1) -> Nat \ {0}] :
          /\ \A i \in 1..(k + 1) : at[i] = i
          /\ \A i \in 1..n : at[i + 1] = at[i] + Len(words[i]) /\ Stands(d, at[i], words[i])
          /\ d \in Seq(Fields)
  <2>1. \E at \in [1..(Len(words) + 1) -> Nat \ {0}] :
            /\ \A i \in 1..(k + 1) : at[i] = i
            /\ \A i \in 1..Len(words) : /\ at[i + 1] = at[i] + Len(words[i])
                                        /\ Stands(FlattenSeq(words), at[i], words[i])
            /\ FlattenSeq(words) \in Seq(Fields)
            /\ Len(FlattenSeq(words)) = at[Len(words) + 1] - 1
    BY <1>0, <1>3, EncodeStands, Zenon
  <2>2. QED
    BY <1>1, <2>1
<1>5. ASSUME NEW i \in 1..k
      PROVE  i \in 1..Len(d) /\ d[i] = m[i]
  <2>1. i \in 1..n /\ i \in 1..(k + 1)
    BY <1>2
  <2>2. at[i] = i /\ Stands(d, at[i], words[i]) /\ words[i] = <<m[i]>>
    BY <1>0, <1>4, <2>1
  <2>3. Stands(d, i, <<m[i]>>) /\ Len(d) \in Nat
    BY <1>4, <2>2
  <2>4. QED
    BY <2>3, OneStands
<1>6. k + 1 \in 1..n /\ k + 1 \in 1..(k + 1)
  BY <1>2
<1>7. at[k + 1] = k + 1 /\ Stands(d, k + 1, words[k + 1]) /\ at[k + 1 + 1] = k + 1 + Len(words[k + 1])
  BY <1>4, <1>6
<1>8. ASSUME k + 2 <= n
      PROVE  /\ Stands(d, k + 1 + Len(words[k + 1]), words[k + 2])
             /\ at[k + 3] = k + 1 + Len(words[k + 1]) + Len(words[k + 2])
  <2>1. k + 2 \in 1..n /\ k + 1 + 1 = k + 2 /\ k + 2 + 1 = k + 3
    BY <1>2, <1>8
  <2>2. at[k + 2] = k + 1 + Len(words[k + 1])
    BY <1>7, <2>1
  <2>3. at[k + 2 + 1] = at[k + 2] + Len(words[k + 2]) /\ Stands(d, at[k + 2], words[k + 2])
    BY <1>4, <2>1
  <2>4. QED
    BY <2>1, <2>2, <2>3
<1>9. ASSUME k + 3 <= n
      PROVE  Stands(d, k + 1 + Len(words[k + 1]) + Len(words[k + 2]), words[k + 3])
  <2>1. k + 3 \in 1..n /\ k + 2 <= n
    BY <1>2, <1>9
  <2>2. QED
    BY <1>4, <1>8, <2>1
<1>10. QED
  BY <1>1, <1>4, <1>5, <1>7, <1>8, <1>9 DEF WordsStanding

\* A tuple, or the columns of a relation, at place a, as the k-th field of m.
LEMMA TupleFieldRead ==
  ASSUME NEW d \in Seq(Fields), NEW X, NEW m \in Seq(X), NEW k \in 1..Len(m), NEW a,
         m[k] \in Seq(Cells), Stands(d, a, EncodeTuple(m[k]))
  PROVE  Tuple(d, Reader(a, SubSeq(m, 1, k - 1)))
           = Reader(a + Len(EncodeTuple(m[k])), SubSeq(m, 1, k))
<1>1. PICK p, t : p = SubSeq(m, 1, k - 1) /\ t = m[k]
  OBVIOUS
<1>2. p \in Seq(X) /\ Append(p, t) = SubSeq(m, 1, k)
  BY <1>1, PartGrows
<1>3. t \in Seq(Cells) /\ Stands(d, a, EncodeTuple(t))
  BY <1>1
<1>4. Last(Append(p, Len(t))) = Len(t)
  BY <1>2, LastAppended
<1>5. Tuple(d, Reader(a, p)) = Reader(a + Len(EncodeTuple(t)), Append(p, t))
  BY <1>3, <1>4, TupleRead
<1>6. QED
  BY <1>1, <1>2, <1>5, Zenon

LEMMA ColumnsFieldRead ==
  ASSUME NEW d \in Seq(Fields), NEW X, NEW m \in Seq(X), NEW k \in 1..Len(m), NEW a,
         m[k] \in Seq(Columns), Stands(d, a, EncodeColumns(m[k]))
  PROVE  RelationColumns(d, Reader(a, SubSeq(m, 1, k - 1)))
           = Reader(a + Len(EncodeColumns(m[k])), SubSeq(m, 1, k))
<1>1. PICK p, t : p = SubSeq(m, 1, k - 1) /\ t = m[k]
  OBVIOUS
<1>2. p \in Seq(X) /\ Append(p, t) = SubSeq(m, 1, k)
  BY <1>1, PartGrows
<1>3. t \in Seq(Columns) /\ Stands(d, a, EncodeColumns(t))
  BY <1>1
<1>4. Last(Append(p, Len(t))) = Len(t)
  BY <1>2, LastAppended
<1>5. RelationColumns(d, Reader(a, p)) = Reader(a + Len(EncodeColumns(t)), Append(p, t))
  BY <1>3, <1>4, RelationColumnsRead
<1>6. QED
  BY <1>1, <1>2, <1>5, Zenon

LEMMA RelationBack ==
  ASSUME NEW t \in Tables, NEW s \in Seq(Columns)
  PROVE  ReadsBack(Relation(t, s))
<1> DEFINE m     == Relation(t, s)
           words == [i \in DOMAIN m |->
                        CASE m[1] \in {"I", "U", "D"} /\ i \in {4, 6} -> EncodeTuple(m[i])
                          [] m[1] = "R" /\ i = 6                     -> EncodeColumns(m[i])
                          [] OTHER                                   -> <<m[i]>>]
<1>1. PICK X : m \in Seq(X)
  <2>1. m \in Seq({"R", t, "public", "name", 0, s})
    BY DEF Relation
  <2>2. QED
    BY <2>1
<1>2. /\ Len(m) = 6 /\ DOMAIN m = 1..6 /\ m[1] = "R" /\ m[2] = t /\ m[3] = "public" /\ m[4] = "name"
      /\ m[5] = 0 /\ m[6] = s
  BY DEF Relation
<1>3. Encode(m) = FlattenSeq(words)
  BY DEF Encode
<1> HIDE DEF m
<1>4. /\ words \in Seq(Seq(Fields)) /\ Len(words) = 6
      /\ \A i \in 1..5 : words[i] = <<m[i]>>
      /\ words[6] = EncodeColumns(s)
  <2>1. words = [i \in 1..6 |-> IF i = 6 THEN EncodeColumns(s) ELSE <<m[i]>>]
    BY <1>2
  <2> HIDE DEF words
  <2>2. ASSUME NEW i \in 1..5
        PROVE  m[i] \in Fields
    <3>1. i \in {1, 2, 3, 4, 5}
      OBVIOUS
    <3>2. QED
      BY <1>2, <3>1 DEF Fields, Tags
  <2>3. EncodeColumns(s) \in Seq(Fields)
    BY ColumnsWord
  <2>4. ASSUME NEW i \in 1..6
        PROVE  words[i] \in Seq(Fields)
    <3>1. CASE i = 6
      BY <2>1, <2>3, <3>1
    <3>2. CASE i \in 1..5
      BY <2>1, <2>2, <3>2
    <3>3. QED
      BY <3>1, <3>2
  <2>5. QED
    BY <2>1, <2>4
<1> HIDE DEF words
<1>5. PICK d : d = FlattenSeq(words)
  OBVIOUS
<1>6. /\ d \in Seq(Fields) /\ \A i \in 1..5 : i \in 1..Len(d) /\ d[i] = m[i]
      /\ Stands(d, 6, EncodeColumns(s))
  <2>1. PICK k : k = 5
    OBVIOUS
  <2>2. FieldsFirst(m, words, k)
    BY <1>4, <2>1 DEF FieldsFirst
  <2>3. words \in Seq(Seq(Fields))
    BY <1>4
  <2>4. d \in Seq(Fields) /\ WordsStanding(d, m, words, k)
    BY <1>5, <2>2, <2>3, FrontStands
  <2>5. k + 1 = 6 /\ words[6] = EncodeColumns(s)
    BY <1>4, <2>1
  <2>6. (\A i \in 1..5 : i \in 1..Len(d) /\ d[i] = m[i]) /\ Stands(d, k + 1, words[k + 1])
    BY <2>1, <2>4 DEF WordsStanding
  <2>7. QED
    BY <2>4, <2>5, <2>6
<1>7. ASSUME NEW k \in 1..5
      PROVE  /\ Number(d, Reader(k, SubSeq(m, 1, k - 1))) = Reader(k + 1, SubSeq(m, 1, k))
             /\ String(d, Reader(k, SubSeq(m, 1, k - 1))) = Reader(k + 1, SubSeq(m, 1, k))
  <2>1. k \in 1..Len(m) /\ k \in 1..Len(d) /\ d[k] = m[k]
    BY <1>2, <1>6
  <2>2. QED
    BY <1>1, <1>6, <2>1, FieldRead
<1>8. Decode(d) = DecodeRelation(d, Reader(2, SubSeq(m, 1, 1)))
  <2>1. 1 \in 1..5 /\ Len(d) \in Nat
    BY <1>6
  <2>2. Len(d) > 0 /\ Len(m) > 0 /\ d[1] = m[1]
    BY <1>2, <1>6, <2>1
  <2>3. QED
    BY <1>1, <1>2, <1>6, <2>2, FirstRead
<1>9. Number(d, Reader(2, SubSeq(m, 1, 1))) = Reader(3, SubSeq(m, 1, 2))
  <2>1. 2 \in 1..5 /\ 2 - 1 = 1 /\ 2 + 1 = 3
    OBVIOUS
  <2>2. QED
    BY <1>7, <2>1
<1>10. String(d, Reader(3, SubSeq(m, 1, 2))) = Reader(4, SubSeq(m, 1, 3))
  <2>1. 3 \in 1..5 /\ 3 - 1 = 2 /\ 3 + 1 = 4
    OBVIOUS
  <2>2. QED
    BY <1>7, <2>1
<1>11. String(d, Reader(4, SubSeq(m, 1, 3))) = Reader(5, SubSeq(m, 1, 4))
  <2>1. 4 \in 1..5 /\ 4 - 1 = 3 /\ 4 + 1 = 5
    OBVIOUS
  <2>2. QED
    BY <1>7, <2>1
<1>12. Number(d, Reader(5, SubSeq(m, 1, 4))) = Reader(6, SubSeq(m, 1, 5))
  <2>1. 5 \in 1..5 /\ 5 - 1 = 4 /\ 5 + 1 = 6
    OBVIOUS
  <2>2. QED
    BY <1>7, <2>1
<1>13. \E a : RelationColumns(d, Reader(6, SubSeq(m, 1, 5))) = Reader(a, SubSeq(m, 1, 6))
  <2>1. PICK k, j : k = 6 /\ j = 5
    OBVIOUS
  <2>2. k \in 1..Len(m) /\ j = k - 1 /\ m[k] \in Seq(Columns) /\ Stands(d, k, EncodeColumns(m[k]))
    BY <1>2, <1>6, <2>1
  <2>3. RelationColumns(d, Reader(k, SubSeq(m, 1, k - 1))) = Reader(k + Len(EncodeColumns(m[k])), SubSeq(m, 1, k))
    BY <1>1, <1>6, <2>2, ColumnsFieldRead
  <2>4. RelationColumns(d, Reader(k, SubSeq(m, 1, j))) = Reader(k + Len(EncodeColumns(m[k])), SubSeq(m, 1, k))
    BY <2>2, <2>3
  <2>5. QED
    BY <2>1, <2>4, Zenon
<1>14. DecodeRelation(d, Reader(2, SubSeq(m, 1, 1))) = RelationColumns(d, Reader(6, SubSeq(m, 1, 5)))
  <2>1. DecodeRelation(d, Reader(2, SubSeq(m, 1, 1)))
          = RelationColumns(d, Number(d, String(d, String(d, Number(d, Reader(2, SubSeq(m, 1, 1)))))))
    BY Zenon DEF DecodeRelation, RelationColumns
  <2>2. QED
    BY <1>9, <1>10, <1>11, <1>12, <2>1, Zenon
<1>15. PICK a : Decode(d) = Reader(a, SubSeq(m, 1, 6))
  BY <1>8, <1>13, <1>14
<1>16. Encode(m)[1] = m[1] /\ Len(m) > 0 /\ Decode(Encode(m)) = Reader(a, SubSeq(m, 1, Len(m)))
  <2>1. 1 \in 1..5
    OBVIOUS
  <2>2. Encode(m) = d /\ d[1] = m[1]
    BY <1>3, <1>5, <1>6, <2>1
  <2>3. QED
    BY <1>2, <1>15, <2>2
<1>17. ReadsBack(m)
  BY <1>1, <1>16, WholeRead
<1>18. QED
  BY <1>17 DEF m

\* The words of a message with tuples, which are its fourth and sixth field.
ChangeMessage(m, n) ==
    /\ n \in {4, 6} /\ Len(m) = n /\ m[1] \in {"I", "U", "D"}
    /\ \A i \in 1..n : IF i \in {4, 6} THEN m[i] \in Seq(Cells) ELSE m[i] \in Fields

ItsWords(m, n, words) ==
    /\ words \in Seq(Seq(Fields)) /\ Len(words) = n /\ Encode(m) = FlattenSeq(words)
    /\ \A i \in 1..n : words[i] = IF i \in {4, 6} THEN EncodeTuple(m[i]) ELSE <<m[i]>>

LEMMA ChangeWords ==
  ASSUME NEW X, NEW m \in Seq(X), NEW n, ChangeMessage(m, n)
  PROVE  \E words : ItsWords(m, n, words)
<1>0. /\ n \in {4, 6} /\ Len(m) = n /\ m[1] \in {"I", "U", "D"}
      /\ \A i \in 1..n : IF i \in {4, 6} THEN m[i] \in Seq(Cells) ELSE m[i] \in Fields
  BY DEF ChangeMessage
<1> DEFINE words == [i \in DOMAIN m |->
                        CASE m[1] \in {"I", "U", "D"} /\ i \in {4, 6} -> EncodeTuple(m[i])
                          [] m[1] = "R" /\ i = 6                     -> EncodeColumns(m[i])
                          [] OTHER                                   -> <<m[i]>>]
<1>1. Encode(m) = FlattenSeq(words)
  BY DEF Encode
<1>2. DOMAIN m = 1..n /\ n \in Nat
  BY <1>0
<1>3. words = [i \in 1..n |-> IF i \in {4, 6} THEN EncodeTuple(m[i]) ELSE <<m[i]>>]
  BY <1>0, <1>2
<1> HIDE DEF words
<1>4. \A i \in 1..n : words[i] = IF i \in {4, 6} THEN EncodeTuple(m[i]) ELSE <<m[i]>>
  BY <1>3
<1>5. ASSUME NEW i \in 1..n
      PROVE  words[i] \in Seq(Fields)
  <2>1. CASE i \in {4, 6}
    <3>1. m[i] \in Seq(Cells) /\ words[i] = EncodeTuple(m[i])
      BY <1>0, <1>4, <2>1
    <3>2. QED
      BY <3>1, TupleWord
  <2>2. CASE i \notin {4, 6}
    <3>1. PICK x : x = m[i]
      OBVIOUS
    <3>2. x \in Fields /\ words[i] = <<x>>
      BY <1>0, <1>4, <2>2, <3>1
    <3>3. QED
      BY <3>2
  <2>3. QED
    BY <2>1, <2>2
<1>6. words \in Seq(Seq(Fields)) /\ Len(words) = n
  BY <1>2, <1>3, <1>5
<1>7. QED
  BY <1>1, <1>4, <1>6 DEF ItsWords

\* A change with one tuple.
LEMMA ShortChangeBack ==
  ASSUME NEW t \in Tables, NEW row \in Seq(Cells),
         NEW g, NEW w, \/ g \in {"I", "U"} /\ w = "N"
                       \/ g = "D" /\ w = "O"
  PROVE  ReadsBack(<<g, t, w, row>>)
<1> DEFINE m == <<g, t, w, row>>
<1>1. PICK X : m \in Seq(X)
  <2>1. m \in Seq({g, t, w, row})
    OBVIOUS
  <2>2. QED
    BY <2>1
<1>2. Len(m) = 4 /\ m[1] = g /\ m[2] = t /\ m[3] = w /\ m[4] = row
  OBVIOUS
<1>3. g \in Fields /\ t \in Fields /\ w \in Fields /\ g \in {"I", "U", "D"}
  BY DEF Fields, Tags
<1> HIDE DEF m
<1>4. PICK words : ItsWords(m, 4, words)
  <2>1. PICK n : n = 4
    OBVIOUS
  <2>2. ASSUME NEW i \in 1..n
        PROVE  IF i \in {4, 6} THEN m[i] \in Seq(Cells) ELSE m[i] \in Fields
    <3>1. i = 4 \/ i \in {1, 2, 3}
      BY <2>1
    <3>2. QED
      BY <1>2, <1>3, <3>1
  <2>3. ChangeMessage(m, n)
    BY <1>2, <1>3, <2>1, <2>2 DEF ChangeMessage
  <2>4. \E words : ItsWords(m, n, words)
    BY <1>1, <2>3, ChangeWords
  <2>5. QED
    BY <2>1, <2>4
<1>a. /\ words \in Seq(Seq(Fields)) /\ Len(words) = 4 /\ Encode(m) = FlattenSeq(words)
      /\ \A i \in 1..3 : words[i] = <<m[i]>>
      /\ words[4] = EncodeTuple(row)
  <2>1. 4 \in 1..4 /\ 4 \in {4, 6} /\ \A i \in 1..3 : i \in 1..4 /\ i \notin {4, 6}
    OBVIOUS
  <2>2. QED
    BY <1>2, <1>4, <2>1 DEF ItsWords
<1>5. PICK d : d = FlattenSeq(words)
  OBVIOUS
<1>6. /\ d \in Seq(Fields) /\ \A i \in 1..3 : i \in 1..Len(d) /\ d[i] = m[i]
      /\ Stands(d, 4, EncodeTuple(row))
  <2>1. PICK k : k = 3
    OBVIOUS
  <2>2. FieldsFirst(m, words, k)
    BY <1>a, <2>1 DEF FieldsFirst
  <2>3. d \in Seq(Fields) /\ WordsStanding(d, m, words, k)
    BY <1>5, <1>a, <2>2, FrontStands
  <2>4. k + 1 = 4 /\ words[4] = EncodeTuple(row)
    BY <1>a, <2>1
  <2>5. (\A i \in 1..3 : i \in 1..Len(d) /\ d[i] = m[i]) /\ Stands(d, k + 1, words[k + 1])
    BY <2>1, <2>3 DEF WordsStanding
  <2>6. QED
    BY <2>3, <2>4, <2>5
<1> DEFINE r == Reader(2, SubSeq(m, 1, 1))
<1>7. Decode(d) = CASE g = "I" -> DecodeInsert(d, r)
                    [] g = "U" -> DecodeUpdate(d, r)
                    [] g = "D" -> DecodeDelete(d, r)
  <2>1. 1 \in 1..3 /\ Len(d) \in Nat
    BY <1>6
  <2>2. Len(d) > 0 /\ Len(m) > 0 /\ d[1] = m[1]
    BY <1>2, <1>6, <2>1
  <2>3. CASE g = "I"
    BY <1>1, <1>2, <1>6, <2>2, <2>3, FirstRead
  <2>4. CASE g = "U"
    BY <1>1, <1>2, <1>6, <2>2, <2>4, FirstRead
  <2>5. CASE g = "D"
    BY <1>1, <1>2, <1>6, <2>2, <2>5, FirstRead
  <2>6. QED
    BY <1>3, <2>3, <2>4, <2>5
<1> DEFINE r2 == Reader(3, SubSeq(m, 1, 2))
           r3 == Reader(4, SubSeq(m, 1, 3))
<1>8. Number(d, r) = r2
  <2>1. PICK k : k = 2
    OBVIOUS
  <2>2. k \in 1..Len(m) /\ k \in 1..Len(d) /\ d[k] = m[k] /\ k - 1 = 1 /\ k + 1 = 3
    BY <1>2, <1>6, <2>1
  <2>3. Number(d, Reader(k, SubSeq(m, 1, k - 1))) = Reader(k + 1, SubSeq(m, 1, k))
    BY <1>1, <1>6, <2>2, FieldRead
  <2>4. QED
    BY <2>1, <2>2, <2>3
<1>9. \A tags : w \in tags => Tag(d, r2, tags) = r3
  <2>1. PICK k : k = 3
    OBVIOUS
  <2>2. k \in 1..Len(m) /\ k \in 1..Len(d) /\ d[k] = m[k] /\ k - 1 = 2 /\ k + 1 = 4 /\ m[k] = w
    BY <1>2, <1>6, <2>1
  <2>3. \A tags : m[k] \in tags => Tag(d, Reader(k, SubSeq(m, 1, k - 1)), tags) = Reader(k + 1, SubSeq(m, 1, k))
    BY <1>1, <1>6, <2>2, FieldRead
  <2>4. QED
    BY <2>1, <2>2, <2>3
<1>10. PICK a : Tuple(d, r3) = Reader(a, SubSeq(m, 1, 4))
  <2>1. PICK k, j : k = 4 /\ j = 3
    OBVIOUS
  <2>2. k \in 1..Len(m) /\ j = k - 1 /\ m[k] \in Seq(Cells) /\ Stands(d, k, EncodeTuple(m[k]))
    BY <1>2, <1>6, <2>1
  <2>3. Tuple(d, Reader(k, SubSeq(m, 1, k - 1))) = Reader(k + Len(EncodeTuple(m[k])), SubSeq(m, 1, k))
    BY <1>1, <1>6, <2>2, TupleFieldRead
  <2>4. Tuple(d, Reader(k, SubSeq(m, 1, j))) = Reader(k + Len(EncodeTuple(m[k])), SubSeq(m, 1, k))
    BY <2>2, <2>3
  <2>5. QED
    BY <2>1, <2>4, Zenon
<1>11. r3.end = "ok" /\ Last(r3.got) = w
  <2>1. PICK p : p = SubSeq(m, 1, 3)
    OBVIOUS
  <2>2. p[3] = w /\ Len(p) = 3 /\ r3 = Reader(4, p)
    BY <1>1, <1>2, <2>1
  <2> HIDE DEF r3
  <2>3. r3.end = "ok" /\ r3.got = p
    BY <2>2, ReaderFields
  <2>4. QED
    BY <2>2, <2>3 DEF Last
<1> HIDE DEF r, r2, r3
<1>12. Decode(d) = Tuple(d, r3)
  <2>1. CASE g = "I"
    <3>1. Tag(d, r2, {"N"}) = r3
      BY <1>9, <2>1
    <3>2. QED
      BY <1>7, <1>8, <2>1, <3>1 DEF DecodeInsert
  <2>2. CASE g = "U"
    <3>1. Tag(d, r2, {"K", "O", "N"}) = r3 /\ w = "N"
      BY <1>9, <2>2
    <3>2. DecodeUpdate(d, r)
            = IF Tag(d, r2, {"K", "O", "N"}).end = "ok" /\ Last(Tag(d, r2, {"K", "O", "N"}).got) = "N"
              THEN Tuple(d, Tag(d, r2, {"K", "O", "N"}))
              ELSE Tuple(d, Tag(d, Tuple(d, Tag(d, r2, {"K", "O", "N"})), {"N"}))
      BY <1>8 DEF DecodeUpdate
    <3>3. DecodeUpdate(d, r) = Tuple(d, r3)
      BY <1>11, <3>1, <3>2
    <3>4. QED
      BY <1>7, <2>2, <3>3
  <2>3. CASE g = "D"
    <3>1. Tag(d, r2, {"K", "O"}) = r3
      BY <1>9, <2>3
    <3>2. QED
      BY <1>7, <1>8, <2>3, <3>1 DEF DecodeDelete
  <2>4. QED
    BY <1>3, <2>1, <2>2, <2>3
<1>13. Encode(m)[1] = m[1] /\ Len(m) > 0 /\ Decode(Encode(m)) = Reader(a, SubSeq(m, 1, Len(m)))
  <2>1. 1 \in 1..3
    OBVIOUS
  <2>2. Encode(m) = d /\ d[1] = m[1]
    BY <1>5, <1>6, <1>a, <2>1
  <2>3. QED
    BY <1>2, <1>10, <1>12, <2>2
<1>14. ReadsBack(m)
  BY <1>1, <1>13, WholeRead
<1>15. QED
  BY <1>14 DEF m

\* An update with an old tuple before the new one.
LEMMA LongUpdateBack ==
  ASSUME NEW t \in Tables, NEW old \in Seq(Cells), NEW row \in Seq(Cells)
  PROVE  ReadsBack(<<"U", t, "K", old, "N", row>>)
<1> DEFINE m == <<"U", t, "K", old, "N", row>>
<1>1. PICK X : m \in Seq(X)
  <2>1. m \in Seq({"U", t, "K", old, "N", row})
    OBVIOUS
  <2>2. QED
    BY <2>1
<1>2. Len(m) = 6 /\ m[1] = "U" /\ m[2] = t /\ m[3] = "K" /\ m[4] = old /\ m[5] = "N" /\ m[6] = row
  OBVIOUS
<1> HIDE DEF m
<1>3. m[1] \in Fields /\ m[2] \in Fields /\ m[3] \in Fields /\ m[5] \in Fields
  BY <1>2 DEF Fields, Tags
<1>4. PICK words : ItsWords(m, 6, words)
  <2>1. PICK n : n = 6
    OBVIOUS
  <2>2. ASSUME NEW i \in 1..n
        PROVE  IF i \in {4, 6} THEN m[i] \in Seq(Cells) ELSE m[i] \in Fields
    <3>1. i \in {4, 6} \/ i \in {1, 2, 3, 5}
      BY <2>1
    <3>2. QED
      BY <1>2, <1>3, <3>1
  <2>3. ChangeMessage(m, n)
    BY <1>2, <2>1, <2>2 DEF ChangeMessage
  <2>4. \E words : ItsWords(m, n, words)
    BY <1>1, <2>3, ChangeWords
  <2>5. QED
    BY <2>1, <2>4
<1>5. /\ words \in Seq(Seq(Fields)) /\ Len(words) = 6 /\ Encode(m) = FlattenSeq(words)
      /\ \A i \in 1..3 : words[i] = <<m[i]>>
      /\ words[4] = EncodeTuple(old) /\ words[5] = <<m[5]>> /\ words[6] = EncodeTuple(row)
  <2>1. /\ 4 \in 1..6 /\ 6 \in 1..6 /\ 5 \in 1..6 /\ 5 \notin {4, 6}
        /\ \A i \in 1..3 : i \in 1..6 /\ i \notin {4, 6}
    OBVIOUS
  <2>2. QED
    BY <1>2, <1>4, <2>1 DEF ItsWords
<1>6. PICK d : d = FlattenSeq(words)
  OBVIOUS
<1>7. PICK b : b = 4 + Len(EncodeTuple(old))
  OBVIOUS
<1>8. /\ d \in Seq(Fields) /\ \A i \in 1..3 : i \in 1..Len(d) /\ d[i] = m[i]
      /\ Stands(d, 4, EncodeTuple(old)) /\ Stands(d, b, <<m[5]>>) /\ Stands(d, b + 1, EncodeTuple(row))
  <2>1. PICK k : k = 3
    OBVIOUS
  <2>2. FieldsFirst(m, words, k)
    BY <1>5, <2>1 DEF FieldsFirst
  <2>3. d \in Seq(Fields) /\ WordsStanding(d, m, words, k)
    BY <1>5, <1>6, <2>2, FrontStands
  <2>4. /\ k + 1 = 4 /\ k + 2 = 5 /\ k + 3 = 6 /\ k + 2 <= Len(words) /\ k + 3 <= Len(words)
        /\ words[4] = EncodeTuple(old) /\ words[5] = <<m[5]>> /\ words[6] = EncodeTuple(row)
        /\ Len(words[5]) = 1
    BY <1>5, <2>1
  <2>5. /\ \A i \in 1..3 : i \in 1..Len(d) /\ d[i] = m[i]
        /\ Stands(d, k + 1, words[k + 1])
        /\ Stands(d, k + 1 + Len(words[k + 1]), words[k + 2])
        /\ Stands(d, k + 1 + Len(words[k + 1]) + Len(words[k + 2]), words[k + 3])
    BY <2>1, <2>3, <2>4 DEF WordsStanding
  <2>6. /\ Stands(d, 4, EncodeTuple(old)) /\ Stands(d, 4 + Len(EncodeTuple(old)), <<m[5]>>)
        /\ Stands(d, 4 + Len(EncodeTuple(old)) + 1, EncodeTuple(row))
    BY <2>4, <2>5
  <2>7. QED
    BY <1>7, <2>3, <2>5, <2>6
<1> DEFINE r  == Reader(2, SubSeq(m, 1, 1))
           r2 == Reader(3, SubSeq(m, 1, 2))
           r3 == Reader(4, SubSeq(m, 1, 3))
           r4 == Reader(b, SubSeq(m, 1, 4))
           r5 == Reader(b + 1, SubSeq(m, 1, 5))
<1>9. Decode(d) = DecodeUpdate(d, r)
  <2>1. 1 \in 1..3 /\ Len(d) \in Nat
    BY <1>8
  <2>2. Len(d) > 0 /\ Len(m) > 0 /\ d[1] = m[1]
    BY <1>2, <1>8, <2>1
  <2>3. QED
    BY <1>1, <1>2, <1>8, <2>2, FirstRead
<1>10. Number(d, r) = r2
  <2>1. PICK k : k = 2
    OBVIOUS
  <2>2. k \in 1..Len(m) /\ k \in 1..Len(d) /\ d[k] = m[k] /\ k - 1 = 1 /\ k + 1 = 3
    BY <1>2, <1>8, <2>1
  <2>3. Number(d, Reader(k, SubSeq(m, 1, k - 1))) = Reader(k + 1, SubSeq(m, 1, k))
    BY <1>1, <1>8, <2>2, FieldRead
  <2>4. QED
    BY <2>1, <2>2, <2>3
<1>11. Tag(d, r2, {"K", "O", "N"}) = r3
  <2>1. PICK k : k = 3
    OBVIOUS
  <2>2. k \in 1..Len(m) /\ k \in 1..Len(d) /\ d[k] = m[k] /\ k - 1 = 2 /\ k + 1 = 4 /\ m[k] = "K"
    BY <1>2, <1>8, <2>1
  <2>3. \A tags : m[k] \in tags => Tag(d, Reader(k, SubSeq(m, 1, k - 1)), tags) = Reader(k + 1, SubSeq(m, 1, k))
    BY <1>1, <1>8, <2>2, FieldRead
  <2>4. \A tags : "K" \in tags => Tag(d, r2, tags) = r3
    BY <2>1, <2>2, <2>3
  <2>5. QED
    BY <2>4
<1>12. Tuple(d, r3) = r4
  <2>1. PICK k, j : k = 4 /\ j = 3
    OBVIOUS
  <2>2. k \in 1..Len(m) /\ j = k - 1 /\ m[k] \in Seq(Cells) /\ Stands(d, k, EncodeTuple(m[k])) /\ m[k] = old
    BY <1>2, <1>8, <2>1
  <2>3. Tuple(d, Reader(k, SubSeq(m, 1, k - 1))) = Reader(k + Len(EncodeTuple(m[k])), SubSeq(m, 1, k))
    BY <1>1, <1>8, <2>2, TupleFieldRead
  <2>4. Tuple(d, Reader(k, SubSeq(m, 1, j))) = Reader(k + Len(EncodeTuple(old)), SubSeq(m, 1, k))
    BY <2>2, <2>3
  <2>5. Tuple(d, Reader(4, SubSeq(m, 1, 3))) = Reader(4 + Len(EncodeTuple(old)), SubSeq(m, 1, 4))
    BY <2>1, <2>4, Zenon
  <2>6. QED
    BY <1>7, <2>5, Zenon
<1>13. Tag(d, r4, {"N"}) = r5
  <2>1. b \in 1..Len(d) /\ d[b] = m[5]
    <3>1. Len(d) \in Nat
      BY <1>8
    <3>2. QED
      BY <1>8, <3>1, OneStands
  <2>2. d[b] \in {"N"}
    BY <1>2, <2>1
  <2>3. PICK p : p = SubSeq(m, 1, 4)
    OBVIOUS
  <2>4. Append(p, d[b]) = SubSeq(m, 1, 5)
    <3>1. PICK k, j : k = 5 /\ j = 4
      OBVIOUS
    <3>2. k \in 1..Len(m) /\ j = k - 1 /\ m[k] = d[b]
      BY <1>2, <2>1, <3>1
    <3>3. Append(SubSeq(m, 1, k - 1), m[k]) = SubSeq(m, 1, k)
      BY <1>1, <3>2, PartGrows
    <3>4. Append(SubSeq(m, 1, j), d[b]) = SubSeq(m, 1, k)
      BY <3>2, <3>3
    <3>5. QED
      BY <2>3, <3>1, <3>4, Zenon
  <2>5. Tag(d, Reader(b, p), {"N"}) = Reader(b + 1, Append(p, d[b]))
    BY <1>8, <2>1, <2>2, TagRead
  <2>6. QED
    BY <2>3, <2>4, <2>5, Zenon
<1>14. PICK a : Tuple(d, r5) = Reader(a, SubSeq(m, 1, 6))
  <2>1. PICK k, j, e : k = 6 /\ j = 5 /\ e = b + 1
    OBVIOUS
  <2>2. k \in 1..Len(m) /\ j = k - 1 /\ m[k] \in Seq(Cells) /\ Stands(d, e, EncodeTuple(m[k]))
    BY <1>2, <1>8, <2>1
  <2>3. Tuple(d, Reader(e, SubSeq(m, 1, k - 1))) = Reader(e + Len(EncodeTuple(m[k])), SubSeq(m, 1, k))
    BY <1>1, <1>8, <2>2, TupleFieldRead
  <2>4. Tuple(d, Reader(e, SubSeq(m, 1, j))) = Reader(e + Len(EncodeTuple(m[k])), SubSeq(m, 1, k))
    BY <2>2, <2>3
  <2>5. QED
    BY <2>1, <2>4, Zenon
<1>15. r3.end = "ok" /\ Last(r3.got) # "N"
  <2>1. PICK p : p = SubSeq(m, 1, 3)
    OBVIOUS
  <2>2. p[3] = "K" /\ Len(p) = 3 /\ r3 = Reader(4, p)
    BY <1>1, <1>2, <2>1
  <2> HIDE DEF r3
  <2>3. r3.end = "ok" /\ r3.got = p
    BY <2>2, ReaderFields
  <2>4. QED
    BY <2>2, <2>3 DEF Last
<1> HIDE DEF r, r2, r3, r4, r5
<1>16. Decode(d) = Tuple(d, r5)
  <2>1. DecodeUpdate(d, r)
          = IF Tag(d, r2, {"K", "O", "N"}).end = "ok" /\ Last(Tag(d, r2, {"K", "O", "N"}).got) = "N"
            THEN Tuple(d, Tag(d, r2, {"K", "O", "N"}))
            ELSE Tuple(d, Tag(d, Tuple(d, Tag(d, r2, {"K", "O", "N"})), {"N"}))
    BY <1>10 DEF DecodeUpdate
  <2>2. DecodeUpdate(d, r) = Tuple(d, Tag(d, Tuple(d, r3), {"N"}))
    BY <1>11, <1>15, <2>1
  <2>3. QED
    BY <1>9, <1>12, <1>13, <2>2
<1>17. Encode(m)[1] = m[1] /\ Len(m) > 0 /\ Decode(Encode(m)) = Reader(a, SubSeq(m, 1, Len(m)))
  <2>1. 1 \in 1..3
    OBVIOUS
  <2>2. Encode(m) = d /\ d[1] = m[1]
    BY <1>5, <1>6, <1>8, <2>1
  <2>3. QED
    BY <1>2, <1>14, <1>16, <2>2
<1>18. ReadsBack(m)
  BY <1>1, <1>17, WholeRead
<1>19. QED
  BY <1>18 DEF m

\* A tuple of the columns of a table.
LEMMA RowsAreCells ==
  ASSUME NEW cs \in Seq(Columns), NEW kinds \in [DOMAIN cs -> {"n", "u", "t"}]
  PROVE  RowOf(cs, kinds) \in Seq(Cells)
<1> DEFINE row == RowOf(cs, kinds)
<1>1. DOMAIN cs = 1..Len(cs) /\ Len(cs) \in Nat
  OBVIOUS
<1>2. ASSUME NEW i \in DOMAIN cs
      PROVE  [kind |-> kinds[i], raw |-> IF kinds[i] = "t" THEN RawOf(cs[i]) ELSE Null] \in Cells
  <2>1. CASE kinds[i] = "t"
    <3>1. RawOf(cs[i]) \in Texts
      <4>1. PICK x, y : x = cs[i].name /\ x \in STRING /\ y = IF cs[i].type = "int4" THEN {"i32"} ELSE {}
        <5>1. PICK c \in Columns : c = cs[i]
          BY <1>1
        <5>2. c.name \in STRING
          BY DEF Columns
        <5>3. QED
          BY <5>1, <5>2
      <4>2. y \in SUBSET {"i32", "i64", "f32", "f64", "u32", "json"}
        <5>1. CASE cs[i].type = "int4"
          BY <4>1, <5>1
        <5>2. CASE cs[i].type # "int4"
          BY <4>1, <5>2
        <5>3. QED
          BY <5>1, <5>2
      <4>3. [text |-> x, reads |-> y] \in Texts
        BY <4>1, <4>2 DEF Texts
      <4>4. QED
        BY <4>1, <4>3, Zenon DEF RawOf
    <3>2. QED
      BY <2>1, <3>1 DEF Cells
  <2>2. CASE kinds[i] \in {"n", "u"}
    BY <2>2 DEF Cells
  <2>3. QED
    BY <2>1, <2>2
<1>3. row = [i \in 1..Len(cs) |->
                [kind |-> kinds[i], raw |-> IF kinds[i] = "t" THEN RawOf(cs[i]) ELSE Null]]
  BY <1>1 DEF RowOf
<1> HIDE DEF row
<1>4. row \in Seq(Cells)
  BY <1>1, <1>2, <1>3
<1>5. QED
  BY <1>4 DEF row

LEMMA ChangesAreCells ==
  ASSUME NEW cs \in Seq(Columns)
  PROVE  /\ \A k \in {"n", "u", "t"} :
               RowOf(cs, [i \in DOMAIN cs |-> IF i = Len(cs) THEN k ELSE "t"]) \in Seq(Cells)
         /\ Key(cs) \in Seq(Cells) /\ Whole(cs) \in Seq(Cells)
<1>1. ASSUME NEW k \in {"n", "u", "t"}
      PROVE  RowOf(cs, [i \in DOMAIN cs |-> IF i = Len(cs) THEN k ELSE "t"]) \in Seq(Cells)
  <2>1. [i \in DOMAIN cs |-> IF i = Len(cs) THEN k ELSE "t"] \in [DOMAIN cs -> {"n", "u", "t"}]
    OBVIOUS
  <2>2. QED
    BY <2>1, RowsAreCells
<1>2. Key(cs) \in Seq(Cells)
  <2>1. [i \in DOMAIN cs |-> IF i = 1 THEN "t" ELSE "n"] \in [DOMAIN cs -> {"n", "u", "t"}]
    OBVIOUS
  <2>2. QED
    BY <2>1, RowsAreCells DEF Key
<1>3. Whole(cs) \in Seq(Cells)
  <2>1. [i \in DOMAIN cs |-> "t"] \in [DOMAIN cs -> {"n", "u", "t"}]
    OBVIOUS
  <2>2. QED
    BY <2>1, RowsAreCells DEF Whole
<1>4. QED
  BY <1>1, <1>2, <1>3

\* PgOutputDecoder gets back every message a session can send, whatever the table,
\* its columns and the values are: tags, lengths and counts lead the reader from
\* field to field, and it ends with the message whole.
THEOREM MessagesReadBack == DecodesBack
<1>1. MaxTx \in Nat /\ Shapes \subseteq Seq(Columns)
  BY PgStreamAssumption DEF Columns
<1>2. ASSUME NEW n \in 1..MaxTx
      PROVE  ReadsBack(Begin(n)) /\ ReadsBack(Commit(n))
  <2>1. n \in Nat
    BY <1>1
  <2>2. QED
    BY <2>1, BeginCommitBack
<1>3. ASSUME NEW t \in Tables, NEW s \in Shapes
      PROVE  ReadsBack(Relation(t, s))
  <2>1. s \in Seq(Columns)
    BY <1>1
  <2>2. QED
    BY <2>1, RelationBack
<1>4. ASSUME NEW t \in Tables, NEW s \in Shapes, NEW m \in ChangesOf(t, s)
      PROVE  ReadsBack(m)
  <2> DEFINE last(k) == RowOf(s, [i \in DOMAIN s |-> IF i = Len(s) THEN k ELSE "t"])
  <2>1. s \in Seq(Columns)
    BY <1>1
  <2>2. /\ \A k \in {"n", "u", "t"} : last(k) \in Seq(Cells)
        /\ Key(s) \in Seq(Cells) /\ Whole(s) \in Seq(Cells)
    BY <2>1, ChangesAreCells
  <2>3. \/ \E k \in {"t", "n"} : m = <<"I", t, "N", last(k)>>
        \/ \E k \in {"t", "u"} : m = <<"U", t, "N", last(k)>>
        \/ m = <<"U", t, "K", Key(s), "N", Whole(s)>>
        \/ m = <<"D", t, "O", Whole(s)>>
        \/ m = <<"T", 1, 0, t>>
    BY DEF ChangesOf
  <2> HIDE DEF last
  <2>4. CASE \E k \in {"t", "n"} : m = <<"I", t, "N", last(k)>>
    <3>1. PICK row \in Seq(Cells) : m = <<"I", t, "N", row>>
      BY <2>2, <2>4
    <3>2. QED
      BY <3>1, ShortChangeBack
  <2>5. CASE \E k \in {"t", "u"} : m = <<"U", t, "N", last(k)>>
    <3>1. PICK row \in Seq(Cells) : m = <<"U", t, "N", row>>
      BY <2>2, <2>5
    <3>2. QED
      BY <3>1, ShortChangeBack
  <2>6. CASE m = <<"U", t, "K", Key(s), "N", Whole(s)>>
    BY <2>2, <2>6, LongUpdateBack
  <2>7. CASE m = <<"D", t, "O", Whole(s)>>
    <3>1. PICK row \in Seq(Cells) : m = <<"D", t, "O", row>>
      BY <2>2, <2>7
    <3>2. QED
      BY <3>1, ShortChangeBack
  <2>8. CASE m = <<"T", 1, 0, t>>
    BY <2>8, TruncateBack
  <2>9. QED
    BY <2>3, <2>4, <2>5, <2>6, <2>7, <2>8
<1>5. QED
  BY <1>2, <1>3, <1>4 DEF DecodesBack

-----------------------------------------------------------------------------
(* start().                                                                *)

USE DEF startVars, serverVars, decoderVars, vars

\* Attempts is the configured number, and one when that is 0.
LEMMA AttemptsValue ==
  /\ Attempts \in Nat \ {0}
  /\ Attempts = IF MaxAttempts >= 1 THEN MaxAttempts ELSE 1
<1>1. MaxAttempts \in Nat
  BY PgStreamAssumption
<1>2. Max({MaxAttempts, 1}) = IF MaxAttempts >= 1 THEN MaxAttempts ELSE 1
  BY <1>1 DEF Max
<1>3. QED
  BY <1>1, <1>2 DEF Attempts

\* a(a + 1) grows with a.
LEMMA ProductGrows ==
  ASSUME NEW a \in Nat, NEW b \in Nat, a <= b
  PROVE  a * (a + 1) <= b * (b + 1)
<1>1. PICK d \in Nat : b = a + d
  <2>1. b - a \in Nat /\ b = a + (b - a)
    OBVIOUS
  <2>2. QED
    BY <2>1
<1>2. b * (b + 1) = a * (a + 1) + d * (2 * a + d + 1)
  BY <1>1
<1>3. d * (2 * a + d + 1) \in Nat /\ a * (a + 1) \in Nat
  BY <1>1
<1>4. QED
  BY <1>2, <1>3

\* What has been waited for when so many connects have failed: the sum of
\* 1..attempt before the next connect, one term less before the sleep.
RetryInv ==
    /\ attempt \in Nat /\ waited \in Nat
    /\ attempt < Attempts
    /\ pc \in {"idle", "connect", "sleep", "publication", "stream", "failed"}
    /\ pc \notin {"connect", "sleep"} => attempt = 0 /\ waited = 0
    /\ pc = "connect" => 2 * waited = attempt * (attempt + 1)
    /\ pc = "sleep" => attempt > 0 /\ 2 * waited = attempt * (attempt - 1)

LEMMA RetryInit == Init => RetryInv
BY AttemptsValue DEF Init, RetryInv

LEMMA RetryNext == RetryInv /\ [Next]_vars => RetryInv'
<1> SUFFICES ASSUME RetryInv, [Next]_vars
             PROVE  RetryInv'
  OBVIOUS
<1> USE AttemptsValue DEF RetryInv
<1>1. CASE BeginStart
  BY <1>1 DEF BeginStart
<1>2. CASE ConnectFails
  <2>1. CASE attempt + 1 = Attempts
    BY <1>2, <2>1 DEF ConnectFails, FailsWhenLast
  <2>2. CASE attempt + 1 # Attempts
    <3>1. pc = "connect" /\ pc' = "sleep" /\ attempt' = attempt + 1 /\ waited' = waited
      BY <1>2, <2>2 DEF ConnectFails, FailsWhenLast
    <3>2. 2 * waited' = attempt' * (attempt' - 1)
      BY <3>1
    <3>3. QED
      BY <2>2, <3>1, <3>2
  <2>3. QED
    BY <2>1, <2>2
<1>3. CASE Sleep
  <2>1. pc' = "connect" /\ attempt' = attempt /\ waited' = waited + attempt
    BY <1>3 DEF Sleep
  <2>2. 2 * waited = attempt * (attempt - 1)
    BY <1>3 DEF Sleep
  <2>3. attempt * (attempt + 1) = attempt * (attempt - 1) + 2 * attempt
    OBVIOUS
  <2>4. QED
    BY <2>1, <2>2, <2>3
<1>4. CASE FinishStart
  BY <1>4 DEF FinishStart
<1>5. CASE Stop
  BY <1>5 DEF Stop
<1>6. ASSUME NEW c \in Conns, Connect(c) \/ Disconnect(c)
      PROVE  RetryInv'
  <2>1. CASE Connect(c)
    <3>1. pc' = "publication" /\ attempt' = 0 /\ waited' = 0
      BY <2>1 DEF Connect
    <3>2. QED
      BY <3>1
  <2>2. CASE Disconnect(c)
    BY <2>2 DEF Disconnect
  <2>3. QED
    BY <1>6, <2>1, <2>2
<1>7. CASE SendBegin \/ SendCommit \/ SendKeepalive
  BY <1>7 DEF SendBegin, SendCommit, SendKeepalive
<1>8. ASSUME NEW t \in Tables, NEW s \in Shapes, SendRelation(t, s)
      PROVE  RetryInv'
  BY <1>8 DEF SendRelation
<1>9. ASSUME NEW t \in Tables, NEW m \in ChangesOf(t, Shape(t)), SendChange(t, m)
      PROVE  RetryInv'
  BY <1>9 DEF SendChange
<1>10. CASE BeginStream \/ DropReceiver \/ EndStream
  BY <1>10 DEF BeginStream, DropReceiver, EndStream
<1>11. CASE ProcessChunk
  <2>1. pc = "stream" /\ pc' \in {"stream", "failed"} /\ UNCHANGED <<attempt, waited>>
    BY <1>11 DEF ProcessChunk
  <2>2. QED
    BY <2>1
<1>12. CASE UNCHANGED vars
  BY <1>12
<1>13. QED
  BY <1>1, <1>2, <1>3, <1>4, <1>5, <1>6, <1>7, <1>8, <1>9, <1>10, <1>11, <1>12 DEF Next

\* What a step means for a start() that connects.
LEMMA RetryKinds ==
  ASSUME RetryInv, [Next]_vars
  PROVE  \/ pc = "idle" /\ pc' = "connect" /\ UNCHANGED <<attempt, waited>>
         \/ /\ pc = "connect" /\ attempt + 1 # Attempts
            /\ pc' = "sleep" /\ attempt' = attempt + 1 /\ waited' = waited
         \/ pc = "sleep" /\ pc' = "connect" /\ attempt' = attempt /\ waited' = waited + attempt
         \/ pc = "connect" /\ ~Connecting'
         \/ ~Connecting /\ ~Connecting'
         \/ UNCHANGED <<pc, attempt, waited>>
<1> USE DEF Connecting
<1>1. CASE BeginStart
  BY <1>1 DEF BeginStart
<1>2. CASE ConnectFails
  BY <1>2 DEF ConnectFails, FailsWhenLast
<1>3. CASE Sleep
  BY <1>3 DEF Sleep
<1>4. CASE FinishStart
  BY <1>4 DEF FinishStart
<1>5. CASE Stop
  BY <1>5 DEF Stop
<1>6. ASSUME NEW c \in Conns, Connect(c)
      PROVE  pc = "connect" /\ ~Connecting'
  BY <1>6 DEF Connect
<1>7. ASSUME NEW c \in Conns, Disconnect(c)
      PROVE  UNCHANGED <<pc, attempt, waited>>
  BY <1>7 DEF Disconnect
<1>8. CASE SendBegin \/ SendCommit \/ SendKeepalive
  BY <1>8 DEF SendBegin, SendCommit, SendKeepalive
<1>9. ASSUME NEW t \in Tables, NEW s \in Shapes, SendRelation(t, s)
      PROVE  UNCHANGED <<pc, attempt, waited>>
  BY <1>9 DEF SendRelation
<1>10. ASSUME NEW t \in Tables, NEW m \in ChangesOf(t, Shape(t)), SendChange(t, m)
       PROVE  UNCHANGED <<pc, attempt, waited>>
  BY <1>10 DEF SendChange
<1>11. CASE BeginStream \/ DropReceiver \/ EndStream
  BY <1>11 DEF BeginStream, DropReceiver, EndStream
<1>12. CASE ProcessChunk
  <2>1. pc = "stream" /\ pc' \in {"stream", "failed"}
    BY <1>12 DEF ProcessChunk
  <2>2. QED
    BY <2>1
<1>13. CASE UNCHANGED vars
  BY <1>13
<1>14. QED
  BY <1>1, <1>2, <1>3, <1>4, <1>5, <1>6, <1>7, <1>8, <1>9, <1>10, <1>11, <1>12, <1>13
     DEF Next

\* Every step of the connector is a step of Retry or none.
LEMMA RetryRefines ==
  ASSUME RetryInv, [Next]_vars
  PROVE  [Retries!Next]_(Retries!vars)
<1> USE DEF Connecting, Retries!vars
<1>1. CASE pc = "idle" /\ pc' = "connect" /\ UNCHANGED <<attempt, waited>>
  <2>1. attempt = 0 /\ waited = 0
    BY <1>1 DEF RetryInv
  <2>2. Retries!Call
    BY <1>1, <2>1 DEF Retries!Call
  <2>3. QED
    BY <2>2 DEF Retries!Next
<1>2. CASE /\ pc = "connect" /\ attempt + 1 # Attempts
           /\ pc' = "sleep" /\ attempt' = attempt + 1 /\ waited' = waited
  <2>1. attempt + 1 < Attempts
    BY <1>2, AttemptsValue DEF RetryInv
  <2>2. Retries!Fail
    BY <1>2, <2>1 DEF Retries!Fail
  <2>3. QED
    BY <2>2 DEF Retries!Next
<1>3. CASE pc = "sleep" /\ pc' = "connect" /\ attempt' = attempt /\ waited' = waited + attempt
  <2>1. Retries!Wait
    BY <1>3 DEF Retries!Wait
  <2>2. QED
    BY <2>1 DEF Retries!Next
<1>4. CASE pc = "connect" /\ ~Connecting'
  <2>1. Retries!Over
    BY <1>4 DEF Retries!Over
  <2>2. QED
    BY <2>1 DEF Retries!Next
<1>5. CASE ~Connecting /\ ~Connecting'
  BY <1>5
<1>6. CASE UNCHANGED <<pc, attempt, waited>>
  BY <1>6
<1>7. QED
  BY <1>1, <1>2, <1>3, <1>4, <1>5, <1>6, RetryKinds

\* The PostgreSQL connector implements Retry, for every number of attempts.
THEOREM StartRetries == Spec => RetriesAsPromised
<1>1. Init => Retries!Init
  BY DEF Init, Retries!Init, Connecting
<1>2. QED
  BY <1>1, RetryRefines, RetryInit, RetryNext, PTL
     DEF Spec, RetriesAsPromised, Retries!Spec

\* However many attempts are configured, a start() connects no more often, sleeps
\* between two attempts and not after the last, and each time longer.
THEOREM RetriesAreBounded == Spec => []RetryBounded
<1>1. RetryInv => RetryBounded
  <2> SUFFICES ASSUME RetryInv
               PROVE  2 * waited <= Attempts * (Attempts - 1)
    BY DEF RetryInv, RetryBounded
  <2> USE AttemptsValue DEF RetryInv
  <2>1. attempt * (attempt + 1) <= (Attempts - 1) * ((Attempts - 1) + 1)
    BY ProductGrows
  <2>2. (Attempts - 1) * ((Attempts - 1) + 1) = Attempts * (Attempts - 1)
    OBVIOUS
  <2>3. CASE pc = "connect"
    BY <2>1, <2>2, <2>3
  <2>4. CASE pc = "sleep"
    <3>1. attempt * (attempt - 1) <= attempt * (attempt + 1)
      OBVIOUS
    <3>2. QED
      BY <2>1, <2>2, <2>4, <3>1
  <2>5. CASE pc \notin {"connect", "sleep"}
    <3>1. waited = 0 /\ 0 <= Attempts * (Attempts - 1)
      BY <2>5
    <3>2. QED
      BY <3>1
  <2>6. QED
    BY <2>3, <2>4, <2>5
<1>2. QED
  BY <1>1, RetryInit, RetryNext, PTL DEF Spec

-----------------------------------------------------------------------------
(* Types, but for what is read from the wire.                              *)

BaseInv ==
    /\ opened \subseteq Conns /\ live \subseteq opened
    /\ {starting, client, connection_handle} \subseteq opened \cup {NoConn}
    /\ told \in [Tables -> Seq(Shapes)]
    /\ tx \in BOOLEAN /\ receiver \in BOOLEAN
    /\ ends \in Seq(Nat) /\ changes \in Nat
    /\ tx => Len(ends) < MaxTx

LEMMA NothingSent ==
  /\ [t \in Tables |-> <<>>] \in [Tables -> Seq(Shapes)]
  /\ <<>> \in Seq(Nat) /\ <<>> \in Seq(Relations) /\ <<>> \in Seq({})
  /\ \A S : Len(<<>>) = 0 /\ <<>> \in Seq(S)
OBVIOUS

LEMMA BaseInit == Init => BaseInv
<1> SUFFICES ASSUME Init
             PROVE  BaseInv
  OBVIOUS
<1>1. told \in [Tables -> Seq(Shapes)] /\ ends \in Seq(Nat)
  BY NothingSent DEF Init
<1>2. QED
  BY <1>1 DEF Init, BaseInv

LEMMA BaseNext == BaseInv /\ [Next]_vars => BaseInv'
<1> SUFFICES ASSUME BaseInv, [Next]_vars
             PROVE  BaseInv'
  OBVIOUS
<1> USE DEF BaseInv
<1>1. CASE BeginStart \/ ConnectFails \/ Sleep
  BY <1>1 DEF BeginStart, ConnectFails, FailsWhenLast, Sleep
<1>2. CASE FinishStart \/ Stop
  BY <1>2 DEF FinishStart, Stop
<1>3. ASSUME NEW c \in Conns, Connect(c) \/ Disconnect(c)
      PROVE  BaseInv'
  BY <1>3 DEF Connect, Disconnect
<1>4. CASE SendBegin
  BY <1>4 DEF SendBegin
<1>5. CASE SendCommit
  <2>1. tx' = FALSE /\ ends' = Append(ends, changes) /\ changes' = changes
    BY <1>5 DEF SendCommit
  <2>2. ends' \in Seq(Nat)
    BY <2>1
  <2>3. QED
    BY <1>5, <2>1, <2>2 DEF SendCommit
<1>6. CASE SendKeepalive
  BY <1>6 DEF SendKeepalive
<1>7. ASSUME NEW t \in Tables, NEW s \in Shapes, SendRelation(t, s)
      PROVE  BaseInv'
  <2>1. told' = [told EXCEPT ![t] = Append(told[t], s)]
    BY <1>7 DEF SendRelation
  <2>2. told' \in [Tables -> Seq(Shapes)]
    BY <2>1
  <2>3. QED
    BY <1>7, <2>2 DEF SendRelation
<1>8. ASSUME NEW t \in Tables, NEW m \in ChangesOf(t, Shape(t)), SendChange(t, m)
      PROVE  BaseInv'
  BY <1>8 DEF SendChange
<1>9. CASE BeginStream \/ DropReceiver
  <2>1. receiver' \in BOOLEAN /\ UNCHANGED <<startVars, serverVars>>
    BY <1>9 DEF BeginStream, DropReceiver
  <2>2. QED
    BY <2>1
<1>10. CASE EndStream
  <2>1. told' \in [Tables -> Seq(Shapes)] /\ ends' \in Seq(Nat)
    BY <1>10, NothingSent DEF EndStream
  <2>2. QED
    BY <1>10, <2>1 DEF EndStream
<1>11. CASE ProcessChunk
  BY <1>11 DEF ProcessChunk
<1>12. CASE UNCHANGED vars
  BY <1>12
<1>13. QED
  BY <1>1, <1>2, <1>3, <1>4, <1>5, <1>6, <1>7, <1>8, <1>9, <1>10, <1>11, <1>12 DEF Next

-----------------------------------------------------------------------------
(* The chunks.                                                             *)

\* What each message looks like as a chunk.
LEMMA SentBegin ==
  ASSUME NEW n \in 1..MaxTx, NEW chunk, chunk.data = Encode(Begin(n))
  PROVE  /\ Kind(chunk) = "B" /\ Decode(chunk.data).end = "ok"
         /\ Position(chunk) = Lsn(n)
<1>1. ReadsBack(Begin(n))
  BY MessagesReadBack DEF DecodesBack
<1>2. Begin(n)[1] = "B" /\ Begin(n)[2] = Lsn(n)
  BY DEF Begin
<1>3. QED
  BY <1>1, <1>2 DEF ReadsBack, Kind, Position, Got

LEMMA SentCommit ==
  ASSUME NEW n \in 1..MaxTx, NEW chunk, chunk.data = Encode(Commit(n))
  PROVE  /\ Kind(chunk) = "C" /\ Decode(chunk.data).end = "ok"
         /\ Position(chunk) = EndLsn(n)
<1>1. ReadsBack(Commit(n))
  BY MessagesReadBack DEF DecodesBack
<1>2. Commit(n)[1] = "C" /\ Commit(n)[4] = EndLsn(n)
  BY DEF Commit
<1>3. QED
  BY <1>1, <1>2 DEF ReadsBack, Kind, Position, Got

LEMMA SentRelation ==
  ASSUME NEW t \in Tables, NEW s \in Shapes,
         NEW chunk, chunk.data = Encode(Relation(t, s))
  PROVE  /\ Kind(chunk) = "R" /\ Decode(chunk.data).end = "ok"
         /\ Position(chunk) = -1
         /\ Got(chunk) \in Relations /\ Got(chunk)[2] = t /\ Got(chunk)[6] = s
<1>1. ReadsBack(Relation(t, s))
  BY MessagesReadBack DEF DecodesBack
<1>2. /\ Relation(t, s)[1] = "R" /\ Relation(t, s)[2] = t /\ Relation(t, s)[6] = s
      /\ Relation(t, s) \in Relations
  BY DEF Relation, Relations
<1>3. QED
  BY <1>1, <1>2 DEF ReadsBack, Kind, Position, Got

LEMMA ChangeFields ==
  ASSUME NEW t, NEW cs, NEW m \in ChangesOf(t, cs)
  PROVE  \/ m[1] = "T"
         \/ m[1] \in {"I", "U", "D"} /\ m[2] = t
BY DEF ChangesOf

LEMMA SentChange ==
  ASSUME NEW t \in Tables, NEW s \in Shapes, NEW m \in ChangesOf(t, s),
         NEW chunk, chunk.data = Encode(m)
  PROVE  /\ Position(chunk) = -1
         /\ Kind(chunk) = m[1] /\ m[1] \in {"I", "U", "D", "T"}
         /\ Decode(chunk.data).end = "ok" /\ Got(chunk) = m
         /\ m[1] # "T" => m[2] = t
<1>1. ReadsBack(m)
  BY MessagesReadBack DEF DecodesBack
<1>2. QED
  BY <1>1, ChangeFields DEF ReadsBack, Kind, Position, Got

\* A keepalive, and a message the decoder does not know.
LEMMA SentKeepalive ==
  ASSUME NEW lsn \in Nat, NEW chunk, chunk.data \in {<<"k", lsn, 0, 0>>, <<"Y", 0>>}
  PROVE  /\ Kind(chunk) \in {"k", "Y"} /\ Position(chunk) \in {lsn, -1}
         /\ Kind(chunk) = "k" => Len(chunk.data) >= 2
<1>1. CASE chunk.data = <<"k", lsn, 0, 0>>
  BY <1>1 DEF Kind, Position
<1>2. CASE chunk.data = <<"Y", 0>>
  BY <1>2 DEF Kind, Position
<1>3. QED
  BY <1>1, <1>2

\* A sequence over its own range stays one.
LEMMA AppendRange ==
  ASSUME NEW w, w \in Seq(Range(w)), NEW e
  PROVE  /\ Append(w, e) \in Seq(Range(Append(w, e)))
         /\ Len(Append(w, e)) = Len(w) + 1
         /\ DOMAIN w = 1..Len(w) /\ DOMAIN Append(w, e) = 1..Len(w) + 1
         /\ \A i \in 1..Len(w) : Append(w, e)[i] = w[i]
         /\ Append(w, e)[Len(w) + 1] = e
<1> DEFINE S == Range(w) \cup {e}
           v == Append(w, e)
<1>1. w \in Seq(S)
  BY Range(w) \subseteq S
<1>2. /\ v \in Seq(S) /\ Len(v) = Len(w) + 1 /\ v[Len(w) + 1] = e
      /\ \A i \in 1..Len(w) : v[i] = w[i]
  <2> HIDE DEF v
  <2>1. e \in S
    OBVIOUS
  <2>2. QED
    BY <1>1, <2>1, AppendProperties DEF v
<1>3. DOMAIN v = 1..Len(v) /\ DOMAIN w = 1..Len(w)
  BY <1>1, <1>2
<1>4. \A i \in 1..Len(v) : v[i] \in Range(v)
  BY <1>3 DEF Range
<1>5. v \in Seq(Range(v))
  BY <1>2, <1>4
<1>6. QED
  BY <1>2, <1>3, <1>5

LEMMA TailRange ==
  ASSUME NEW w, w \in Seq(Range(w)), w # <<>>
  PROVE  /\ Tail(w) \in Seq(Range(Tail(w)))
         /\ Len(w) \in Nat \ {0} /\ Len(Tail(w)) = Len(w) - 1
         /\ DOMAIN w = 1..Len(w) /\ DOMAIN Tail(w) = 1..Len(w) - 1
         /\ \A i \in 1..Len(w) - 1 : Tail(w)[i] = w[i + 1]
         /\ Head(w) = w[1]
<1> DEFINE v == Tail(w)
<1>1. /\ v \in Seq(Range(w)) /\ Len(v) = Len(w) - 1
      /\ \A i \in 1..Len(v) : v[i] = w[i + 1]
  BY HeadTailProperties, Zenon
<1> HIDE DEF v
<1>2. DOMAIN v = 1..Len(v) /\ DOMAIN w = 1..Len(w) /\ Len(w) \in Nat \ {0} /\ Head(w) = w[1]
  BY <1>1
<1>3. \A i \in 1..Len(v) : v[i] \in Range(v)
  BY <1>2 DEF Range
<1>4. v \in Seq(Range(v))
  BY <1>1, <1>3
<1>5. QED
  BY <1>1, <1>2, <1>4 DEF v

-----------------------------------------------------------------------------
(* A chunk is sent.                                                        *)

\* What sending may change of what is told.
Tells(chunk) ==
    \A t \in Tables :
        /\ told'[t] # <<>> <=> told[t] # <<>> \/ IsRelationOf(chunk, t)
        /\ told[t] # <<>> => Head(told'[t]) = Head(told[t])
        /\ IsRelationOf(chunk, t) => told[t] # <<>> \/ Got(chunk)[6] = Head(told'[t])

LEMMA SendDescribes ==
  ASSUME DescribedFirst, NEW chunk, wire' = Append(wire, chunk), relations' = relations,
         Sent(chunk)', Tells(chunk),
         IsChange(chunk) => told[Got(chunk)[2]] # <<>>
  PROVE  DescribedFirst'
<1> USE DEF DescribedFirst
<1> DEFINE last == Len(wire) + 1
<1>0. /\ wire' \in Seq(Range(wire')) /\ Len(wire) \in Nat
      /\ Len(wire') = last /\ DOMAIN wire = 1..Len(wire) /\ DOMAIN wire' = 1..last
      /\ \A k \in DOMAIN wire : wire'[k] = wire[k]
      /\ wire'[last] = chunk
  BY AppendRange
<1>1. relations' \in Seq(Relations)
  OBVIOUS
<1>2. ASSUME NEW i \in DOMAIN relations
      PROVE  relations[i][2] \in Tables
  BY DEF Relations, Relation
<1>3. ASSUME NEW t \in Tables
      PROVE  Known(t)' <=> Known(t)
  BY DEF Known
<1>4. ASSUME NEW t \in Tables, NEW k \in 1..last
      PROVE  Comes(t, k)' <=> Comes(t, k)
  BY <1>0 DEF Comes
<1>5. ASSUME NEW k \in DOMAIN wire'
      PROVE  Sent(wire[k])'
  <2>1. CASE k = last
    BY <1>0, <2>1
  <2>2. CASE k # last
    <3>1. k \in DOMAIN wire /\ wire'[k] = wire[k] /\ Sent(wire[k])
      BY <1>0, <2>2
    <3>2. IsChange(wire[k]) => told[Got(wire[k])[2]] # <<>>
      <4>1. SUFFICES ASSUME IsChange(wire[k])
                     PROVE  told[Got(wire[k])[2]] # <<>>
        OBVIOUS
      <4>2. /\ Got(wire[k])[2] \in Tables
            /\ Known(Got(wire[k])[2]) \/ Comes(Got(wire[k])[2], k)
        BY <3>1, <4>1 DEF Sent
      <4>3. Comes(Got(wire[k])[2], k) => Comes(Got(wire[k])[2], last)
        BY <1>0, <3>1 DEF Comes
      <4>4. QED
        BY <4>2, <4>3
    <3>3. QED
      BY <3>1, <3>2 DEF Sent, Tells
  <2>3. QED
    BY <2>1, <2>2
<1>6. ASSUME NEW t \in Tables
      PROVE  (Known(t) \/ Comes(t, Len(wire) + 1))' <=> told'[t] # <<>>
  <2>1. Comes(t, Len(wire) + 1)' <=> Comes(t, last) \/ IsRelationOf(chunk, t)
    BY <1>0 DEF Comes
  <2>2. told'[t] # <<>> <=> Known(t) \/ Comes(t, last) \/ IsRelationOf(chunk, t)
    BY DEF Tells
  <2>3. QED
    BY <1>3, <2>1, <2>2
<1>7. ASSUME NEW k \in DOMAIN wire', IsChange(wire'[k])
      PROVE  (Known(Got(wire[k])[2]) \/ Comes(Got(wire[k])[2], k))'
  <2>1. Got(wire'[k])[2] \in Tables
    BY <1>5, <1>7 DEF Sent
  <2>2. Known(Got(wire'[k])[2]) \/ Comes(Got(wire'[k])[2], k)
    BY <1>0, <1>7, <2>1
  <2>3. QED
    BY <1>0, <1>3, <1>4, <2>1, <2>2 DEF Known, Comes
<1>8. ASSUME NEW i \in DOMAIN relations'
      PROVE  \/ relations'[i][6] = Head(told'[relations'[i][2]])
             \/ \E j \in DOMAIN relations' : j < i /\ relations'[j][2] = relations'[i][2]
  <2>1. told[relations[i][2]] # <<>>
    BY <1>2 DEF Known
  <2>2. QED
    BY <1>2, <2>1 DEF Tells
<1>9. ASSUME NEW k \in DOMAIN wire', NEW t \in Tables, IsRelationOf(wire'[k], t)
       PROVE  (Known(t) \/ Comes(t, k))' \/ Got(wire'[k])[6] = Head(told'[t])
  <2>1. CASE k = last
    BY <1>0, <1>3, <1>4, <1>9, <2>1 DEF Tells
  <2>2. CASE k # last
    <3>1. k \in DOMAIN wire /\ wire'[k] = wire[k]
      BY <1>0, <2>2
    <3>2. told[t] # <<>>
      BY <1>0, <1>9, <3>1 DEF Comes
    <3>3. QED
      BY <1>0, <1>3, <1>4, <1>9, <3>1, <3>2 DEF Tells
  <2>3. QED
    BY <2>1, <2>2
<1>10. QED
  BY <1>0, <1>1, <1>5, <1>6, <1>7, <1>8, <1>9

\* The counts go on with the new chunk.
LEMMA SendCounts ==
  ASSUME BaseInv, BaseInv', InOrder, wire \in Seq(Range(wire)), wal_lsn \in Int,
         NEW chunk, wire' = Append(wire, chunk), UNCHANGED <<handled, wal_lsn>>,
         \A k \in DOMAIN wire : Position(wire[k]) \in Int,
         Position(chunk) \in Int, Position(chunk) <= Lsn(Len(ends') + 1),
         changes' = changes + (IF IsChange(chunk) THEN 1 ELSE 0),
         \/ ends' = ends
         \/ ends' = Append(ends, changes)
  PROVE  InOrder'
<1> USE DEF InOrder, Counted, Lsn, EndLsn, BaseInv
<1> DEFINE last == Len(wire) + 1
<1>0. /\ wire' \in Seq(Range(wire')) /\ Len(wire) \in Nat
      /\ Len(wire') = last /\ DOMAIN wire = 1..Len(wire) /\ DOMAIN wire' = 1..last
      /\ \A k \in DOMAIN wire : wire'[k] = wire[k]
      /\ wire'[last] = chunk
  BY AppendRange
<1>1. PICK count \in [0..Len(wire) -> 0..changes] : Counted(count)
  OBVIOUS
<1>2. /\ Len(ends) \in Nat /\ Len(ends') \in Nat /\ Len(ends') >= Len(ends)
      /\ \A n \in DOMAIN ends : n \in DOMAIN ends' /\ ends'[n] = ends[n]
      /\ \A n \in DOMAIN ends' \ DOMAIN ends : n = Len(ends) + 1 /\ ends'[n] = changes
      /\ \A n \in DOMAIN ends' : n \in Nat /\ ends'[n] \in Nat
  <2>1. CASE ends' = ends
    BY <2>1
  <2>2. CASE ends' = Append(ends, changes)
    BY <2>2
  <2>3. QED
    BY <2>1, <2>2
<1>3. changes \in Nat /\ changes' \in Nat /\ changes <= changes'
  OBVIOUS
<1>4. \A n \in DOMAIN ends' : ends'[n] <= changes
  BY <1>2
<1>5. PICK next \in [0..last -> 0..changes'] :
           /\ \A k \in 0..Len(wire) : next[k] = count[k]
           /\ next[last] = changes'
  <2> DEFINE f == [k \in 0..last |-> IF k <= Len(wire) THEN count[k] ELSE changes']
  <2>1. f \in [0..last -> 0..changes']
    BY <1>0, <1>3
  <2>2. (\A k \in 0..Len(wire) : f[k] = count[k]) /\ f[last] = changes'
    BY <1>0
  <2>3. QED
    BY <2>1, <2>2
<1>6. \A k \in 0..last : next[k] \in 0..changes'
  OBVIOUS
<1>7. next[0] = handled' /\ next[Len(wire')] = changes'
  BY <1>0, <1>1, <1>5
<1>8. ASSUME NEW k \in DOMAIN wire'
      PROVE  next[k] = next[k - 1] + (IF IsChange(wire'[k]) THEN 1 ELSE 0)
  <2>1. CASE k = last
    <3>1. next[k - 1] = changes /\ next[k] = changes' /\ wire'[k] = chunk
      BY <1>0, <1>1, <1>5, <2>1
    <3>2. QED
      BY <3>1
  <2>2. CASE k # last
    <3>1. Len(wire) \in Nat /\ k \in 1..Len(wire) /\ wire'[k] = wire[k]
      <4> HIDE DEF InOrder, BaseInv
      <4>1. QED
        BY <1>0, <2>2
    <3>2. k - 1 \in 0..Len(wire) /\ k \in 0..Len(wire)
      BY <3>1
    <3>3. QED
      BY <1>0, <1>1, <1>5, <3>1, <3>2
  <2>3. QED
    BY <2>1, <2>2
<1>9. ASSUME NEW k \in 0..last, NEW l \in 0..last, k <= l
      PROVE  next[k] <= next[l]
  <2>1. CASE l = last
    BY <1>3, <1>5, <1>6, <2>1
  <2>2. CASE l # last
    <3>1. k \in 0..Len(wire) /\ l \in 0..Len(wire)
      BY <1>0, <1>9, <2>2
    <3>2. QED
      BY <1>1, <1>5, <1>9, <3>1
  <2>3. QED
    BY <2>1, <2>2
<1>10. ASSUME NEW k \in DOMAIN wire', NEW n \in DOMAIN ends', Position(wire'[k]) >= EndLsn(n)
       PROVE  next[k] >= ends'[n]
  <2>1. CASE k = last
    BY <1>2, <1>3, <1>4, <1>5, <2>1
  <2>2. CASE k # last
    <3>1. k \in DOMAIN wire /\ wire'[k] = wire[k] /\ k \in 0..Len(wire)
      BY <1>0, <2>2
    <3>2. Position(wire[k]) <= 2 * (Len(ends) + 1) /\ Position(wire[k]) \in Int
      BY <3>1
    <3>3. n \in DOMAIN ends
      <4>1. Position(wire[k]) >= 2 * n + 1 /\ n \in Nat /\ Len(ends) \in Nat
        BY <1>2, <1>10, <3>1
      <4> DEFINE p == Position(wire[k])
                 e == Len(ends)
      <4>2. p \in Int /\ e \in Nat /\ n \in Nat /\ p <= 2 * (e + 1) /\ p >= 2 * n + 1
        BY <3>2, <4>1, Zenon
      <4> HIDE DEF p, e
      <4>3. n # e + 1
        BY <4>2
      <4>4. QED
        BY <1>2, <4>3 DEF e
    <3>4. QED
      BY <1>1, <1>2, <1>5, <1>10, <3>1, <3>3
  <2>3. QED
    BY <2>1, <2>2
<1>11. Counted(next)'
  BY <1>0, <1>7, <1>8, <1>9, <1>10
<1>12. \A k \in DOMAIN wire' : Position(wire'[k]) <= Lsn(Len(ends') + 1)
  BY <1>0, <1>2
<1>13. wal_lsn' <= Lsn(Len(ends') + 1)
  BY <1>2
<1>14. \A n \in DOMAIN ends' : ends'[n] <= changes'
  BY <1>2, <1>3, <1>4
<1>15. QED
  BY <1>0, <1>5, <1>11, <1>12, <1>13, <1>14

-----------------------------------------------------------------------------
(* A chunk is read.                                                        *)

\* get_relation finds the first relation of a table, if there is one.
LEMMA FirstRelation ==
  ASSUME relations \in Seq(Relations), NEW t
  PROVE  /\ GetRelation(t) # 0 <=> Known(t)
         /\ Known(t) => /\ GetRelation(t) \in DOMAIN relations
                        /\ relations[GetRelation(t)][2] = t
                        /\ \A j \in DOMAIN relations :
                              j < GetRelation(t) => relations[j][2] # t
<1> DEFINE S == {i \in 1..Len(relations) : relations[i][2] = t}
<1>1. DOMAIN relations = 1..Len(relations) /\ Len(relations) \in Nat
  OBVIOUS
<1>2. GetRelation(t) = IF S # {} THEN Min(S) ELSE 0
  BY DEF GetRelation, SelectInSeq
<1>3. S # {} <=> Known(t)
  BY <1>1 DEF Known
<1>4. S # {} => Min(S) \in S /\ \A j \in S : Min(S) <= j
  <2> HIDE DEF S
  <2> SUFFICES ASSUME S # {}
               PROVE  Min(S) \in S /\ \A j \in S : Min(S) <= j
    OBVIOUS
  <2>1. S \in SUBSET Nat
    BY DEF S
  <2>2. \E x \in S : \A y \in S : x <= y
    BY <2>1, LeastNumber
  <2>3. QED
    BY <2>2 DEF Min
<1>5. QED
  <2>1. CASE S = {}
    BY <1>2, <1>3, <2>1
  <2>2. CASE S # {}
    <3>1. GetRelation(t) = Min(S) /\ Min(S) \in S /\ \A j \in S : Min(S) <= j
      BY <1>2, <1>4, <2>2
    <3>2. \A j \in DOMAIN relations : relations[j][2] = t => j \in S
      BY <1>1
    <3>3. \A j \in DOMAIN relations : j < Min(S) => relations[j][2] # t
      <4> HIDE DEF S
      <4> SUFFICES ASSUME NEW j \in DOMAIN relations, j < Min(S), relations[j][2] = t
                   PROVE  FALSE
        OBVIOUS
      <4>1. j \in S /\ S \subseteq Int
        BY <1>1, <3>2 DEF S
      <4>2. QED
        BY <3>1, <4>1
    <3>4. Min(S) \in DOMAIN relations /\ relations[Min(S)][2] = t /\ Min(S) # 0
      BY <1>1, <3>1
    <3>5. QED
      <4> HIDE DEF S
      <4>1. QED
        BY <1>3, <2>2, <3>1, <3>3, <3>4
  <2>3. QED
    BY <2>1, <2>2

\* What ProcessChunk does with a chunk the server sent.
LEMMA ChunkRead ==
  ASSUME DescribedFirst, ProcessChunk
  PROVE  /\ wire # <<>> /\ wire' = Tail(wire)
         /\ UNCHANGED <<told, tx, ends, changes>>
         /\ relations' = IF Kind(wire[1]) = "R" THEN Append(relations, Got(wire[1]))
                                                 ELSE relations
         /\ wal_lsn' = IF Kind(wire[1]) \in {"k", "B", "C"} THEN Position(wire[1])
                                                            ELSE wal_lsn
         /\ handled' = IF IsChange(wire[1]) THEN handled + 1 ELSE handled
         /\ event' = IF IsChange(wire[1]) /\ receiver
                     THEN EventOf(Got(wire[1]), relations[GetRelation(Got(wire[1])[2])],
                                  wire[1].note)
                     ELSE event
         /\ IsChange(wire[1]) => Known(Got(wire[1])[2])
<1> USE DEF DescribedFirst
<1> DEFINE chunk == wire[1]
<1>1. wire # <<>> /\ wire' = Tail(wire) /\ UNCHANGED <<told, tx, ends, changes>>
  BY DEF ProcessChunk
<1>2. DOMAIN wire = 1..Len(wire) /\ Len(wire) \in Nat \ {0} /\ Head(wire) = chunk
  BY <1>1, TailRange
<1>3. Sent(chunk)
  BY <1>2
<1>4. IsChange(chunk) => Known(Got(chunk)[2])
  BY <1>2 DEF Comes
<1>5. wal_lsn' = WalLsn(chunk.data, Decode(chunk.data))
  BY <1>2 DEF ProcessChunk
<1>6. wal_lsn' = IF Kind(chunk) \in {"k", "B", "C"} THEN Position(chunk) ELSE wal_lsn
  BY <1>3, <1>5 DEF WalLsn, Sent, Kind, Position, Got
<1> DEFINE ok    == chunk.data[1] # "k" /\ Decode(chunk.data).end = "ok"
           found == IF ok /\ chunk.data[1] \in {"I", "U", "D"}
                    THEN GetRelation(Decode(chunk.data).got[2]) ELSE 0
<1>7. /\ relations' = IF ok /\ chunk.data[1] = "R"
                      THEN Append(relations, Decode(chunk.data).got) ELSE relations
      /\ handled' = IF found # 0 THEN handled + 1 ELSE handled
      /\ event' = IF found # 0 /\ receiver
                  THEN EventOf(Decode(chunk.data).got, relations[found], chunk.note) ELSE event
  BY <1>2 DEF ProcessChunk
<1>8. relations' = IF Kind(chunk) = "R" THEN Append(relations, Got(chunk)) ELSE relations
  BY <1>3, <1>7 DEF Sent, Kind, Got
<1>9. found = IF IsChange(chunk) THEN GetRelation(Got(chunk)[2]) ELSE 0
  BY <1>3 DEF Sent, Kind, Got, IsChange
<1>10. found # 0 <=> IsChange(chunk)
  BY <1>4, <1>9, FirstRelation
<1>11. QED
  <2> HIDE DEF found
  <2>1. handled' = IF IsChange(chunk) THEN handled + 1 ELSE handled
    BY <1>7, <1>10
  <2>2. event' = IF IsChange(chunk) /\ receiver
                 THEN EventOf(Got(chunk), relations[GetRelation(Got(chunk)[2])], chunk.note)
                 ELSE event
    BY <1>7, <1>9, <1>10 DEF Got
  <2>3. QED
    BY <1>1, <1>4, <1>6, <1>8, <2>1, <2>2

\* The relation a change is read with is the table's first description.
LEMMA ReadAsFirstDescribed ==
  ASSUME DescribedFirst, NEW t \in Tables, Known(t)
  PROVE  /\ relations[GetRelation(t)][2] = t
         /\ relations[GetRelation(t)][6] = Head(told[t])
<1>1. relations \in Seq(Relations)
  BY DEF DescribedFirst
<1>2. PICK g : g = GetRelation(t)
  OBVIOUS
<1>3. /\ g \in DOMAIN relations /\ relations[g][2] = t
      /\ \A j \in DOMAIN relations : j < g => relations[j][2] # t
  BY <1>1, <1>2, FirstRelation
<1>4. \/ relations[g][6] = Head(told[relations[g][2]])
      \/ \E j \in DOMAIN relations : j < g /\ relations[j][2] = relations[g][2]
  BY <1>3, Zenon DEF DescribedFirst
<1>5. QED
  BY <1>2, <1>3, <1>4

LEMMA ReadDescribes ==
  ASSUME DescribedFirst, ProcessChunk
  PROVE  DescribedFirst'
<1> DEFINE chunk == wire[1]
<1>1. /\ wire # <<>> /\ wire' = Tail(wire) /\ told' = told
      /\ relations' = IF Kind(chunk) = "R" THEN Append(relations, Got(chunk)) ELSE relations
  BY ChunkRead
<1>2. /\ wire' \in Seq(Range(wire'))
      /\ Len(wire) \in Nat \ {0} /\ Len(wire') = Len(wire) - 1
      /\ DOMAIN wire = 1..Len(wire) /\ DOMAIN wire' = 1..Len(wire) - 1
      /\ \A k \in DOMAIN wire' : wire'[k] = wire[k + 1]
  BY <1>1, TailRange DEF DescribedFirst
<1>3. Sent(chunk) /\ relations \in Seq(Relations)
  BY <1>2 DEF DescribedFirst
<1>4. /\ relations' \in Seq(Relations)
      /\ DOMAIN relations = 1..Len(relations) /\ DOMAIN relations' = 1..Len(relations')
      /\ Len(relations) \in Nat
      /\ \A i \in DOMAIN relations : i \in DOMAIN relations' /\ relations'[i] = relations[i]
      /\ Kind(chunk) = "R" => /\ Len(relations') = Len(relations) + 1
                              /\ relations'[Len(relations) + 1] = Got(chunk)
      /\ Kind(chunk) # "R" => Len(relations') = Len(relations)
  <2>1. CASE Kind(chunk) = "R"
    <3>1. Got(chunk) \in Relations
      BY <1>3, <2>1 DEF Sent
    <3>2. QED
      BY <1>1, <1>3, <2>1, <3>1
  <2>2. CASE Kind(chunk) # "R"
    BY <1>1, <1>3, <2>2
  <2>3. QED
    BY <2>1, <2>2
<1>5. ASSUME NEW i \in DOMAIN relations'
      PROVE  relations'[i][2] \in Tables
  <2>1. relations'[i] \in Relations
    <3>1. relations' \in Seq(Relations) /\ i \in 1..Len(relations')
      BY <1>4, Zenon
    <3>2. QED
      BY <3>1
  <2>2. QED
    BY <2>1 DEF Relations, Relation
<1>6. ASSUME NEW t \in Tables
      PROVE  Known(t)' <=> Known(t) \/ IsRelationOf(chunk, t)
  <2>1. Known(t) => Known(t)'
    BY <1>4, Zenon DEF Known
  <2>2. IsRelationOf(chunk, t) => Known(t)'
    BY <1>4 DEF Known, IsRelationOf
  <2>3. ASSUME Known(t)'
        PROVE  Known(t) \/ IsRelationOf(chunk, t)
    <3>1. PICK i \in DOMAIN relations' : relations'[i][2] = t
      BY <2>3, Zenon DEF Known
    <3>2. CASE i \in DOMAIN relations
      BY <1>4, <3>1, <3>2, Zenon DEF Known
    <3>3. CASE i \notin DOMAIN relations
      <4>1. Kind(chunk) = "R" /\ i = Len(relations) + 1
        <5>1. i \in 1..Len(relations') /\ i \notin 1..Len(relations) /\ Len(relations) \in Nat
          BY <1>4, <3>3, Zenon
        <5>2. Kind(chunk) = "R"
          BY <1>4, <5>1, Zenon
        <5>3. Len(relations') = Len(relations) + 1
          BY <1>4, <5>2
        <5>4. i = Len(relations) + 1
          BY <5>1, <5>3
        <5>5. QED
          BY <1>4, <5>2, <5>4
      <4>2. QED
        BY <1>4, <3>1, <4>1 DEF IsRelationOf
    <3>4. QED
      BY <3>2, <3>3
  <2>4. QED
    BY <2>1, <2>2, <2>3, Zenon
<1>7. ASSUME NEW t \in Tables, NEW k \in 1..Len(wire)
      PROVE  IsRelationOf(chunk, t) \/ Comes(t, k)' <=> Comes(t, k + 1)
  <2>1. Comes(t, k)' <=> \E j \in 1..Len(wire) - 1 : j < k /\ IsRelationOf(wire[j + 1], t)
    BY <1>2 DEF Comes
  <2>2. ASSUME Comes(t, k)'
        PROVE  Comes(t, k + 1)
    <3>1. PICK j \in 1..Len(wire) - 1 : j < k /\ IsRelationOf(wire[j + 1], t)
      BY <2>1, <2>2
    <3>2. Len(wire) \in Nat /\ DOMAIN wire = 1..Len(wire)
      BY <1>2
    <3>3. j + 1 \in DOMAIN wire /\ j + 1 < k + 1
      BY <3>1, <3>2
    <3>4. QED
      BY <3>1, <3>3, Zenon DEF Comes
  <2>3. IsRelationOf(chunk, t) => Comes(t, k + 1)
    BY <1>2 DEF Comes
  <2>4. ASSUME Comes(t, k + 1)
        PROVE  IsRelationOf(chunk, t) \/ Comes(t, k)'
    <3>1. PICK j \in 1..Len(wire) : j < k + 1 /\ IsRelationOf(wire[j], t)
      BY <1>2, <2>4 DEF Comes
    <3>2. CASE j = 1
      BY <3>1, <3>2
    <3>3. CASE j # 1
      <4>1. j - 1 \in 1..Len(wire) - 1 /\ j - 1 < k /\ IsRelationOf(wire[(j - 1) + 1], t)
        BY <3>1, <3>3
      <4>2. QED
        BY <2>1, <4>1
    <3>4. QED
      BY <3>2, <3>3
  <2>5. QED
    BY <2>2, <2>3, <2>4
<1>8. ASSUME NEW k \in DOMAIN wire'
      PROVE  Sent(wire[k])'
  <2>1. k + 1 \in DOMAIN wire /\ wire'[k] = wire[k + 1]
    BY <1>2
  <2>2. Sent(wire[k + 1])
    BY <2>1 DEF DescribedFirst
  <2>3. QED
    BY <1>1, <2>1, <2>2 DEF Sent
<1>9. ASSUME NEW t \in Tables
      PROVE  (Known(t) \/ Comes(t, Len(wire) + 1))' <=> told'[t] # <<>>
  <2>0. PICK n \in 1..Len(wire) : n = Len(wire)
    BY <1>2
  <2>1. Comes(t, Len(wire) + 1)' <=> Comes(t, n)'
    BY <1>2, <2>0 DEF Comes
  <2>2. IsRelationOf(chunk, t) \/ Comes(t, n)' <=> Comes(t, Len(wire) + 1)
    BY <1>7, <2>0
  <2>3. Known(t) \/ Comes(t, Len(wire) + 1) <=> told[t] # <<>>
    BY DEF DescribedFirst
  <2>4. QED
    BY <1>1, <1>6, <2>1, <2>2, <2>3
<1>10. ASSUME NEW k \in DOMAIN wire', IsChange(wire'[k])
       PROVE  (Known(Got(wire[k])[2]) \/ Comes(Got(wire[k])[2], k))'
  <2> DEFINE t == Got(wire'[k])[2]
  <2>1. t \in Tables
    BY <1>8, <1>10 DEF Sent
  <2>2. k + 1 \in DOMAIN wire /\ wire'[k] = wire[k + 1] /\ k \in 1..Len(wire)
    BY <1>2
  <2>3. Known(t) \/ Comes(t, k + 1)
    BY <1>10, <2>2 DEF DescribedFirst
  <2>4. QED
    BY <1>6, <1>7, <2>1, <2>2, <2>3
<1>11. ASSUME NEW i \in DOMAIN relations'
       PROVE  \/ relations'[i][6] = Head(told'[relations'[i][2]])
              \/ \E j \in DOMAIN relations' : j < i /\ relations'[j][2] = relations'[i][2]
  <2>1. CASE i \in DOMAIN relations
    <3>1. relations'[i] = relations[i] /\ told' = told
      <4>1. relations'[i] = relations[i]
        BY <1>4, <2>1, Zenon
      <4>2. QED
        BY <1>1, <4>1, Zenon
    <3>2. \A j \in DOMAIN relations : j \in DOMAIN relations' /\ relations'[j] = relations[j]
      BY <1>4, Zenon
    <3>3. \/ relations[i][6] = Head(told[relations[i][2]])
          \/ \E j \in DOMAIN relations : j < i /\ relations[j][2] = relations[i][2]
      BY <2>1 DEF DescribedFirst
    <3>4. QED
      BY <3>1, <3>2, <3>3
  <2>2. CASE i \notin DOMAIN relations
    <3>1. Kind(chunk) = "R" /\ i = Len(relations) + 1 /\ relations'[i] = Got(chunk)
      <4>1. i \in 1..Len(relations') /\ i \notin 1..Len(relations) /\ Len(relations) \in Nat
        BY <1>4, <2>2, Zenon
      <4>2. Kind(chunk) = "R"
        BY <1>4, <4>1, Zenon
      <4>3. Len(relations') = Len(relations) + 1
        BY <1>4, <4>2
      <4>4. i = Len(relations) + 1
        BY <4>1, <4>3
      <4>5. QED
        BY <1>4, <4>2, <4>4
    <3> DEFINE t == Got(chunk)[2]
    <3>2. t \in Tables /\ IsRelationOf(chunk, t)
      BY <1>5, <3>1 DEF IsRelationOf
    <3>3. Known(t) \/ Got(chunk)[6] = Head(told[t])
      BY <1>2, <3>2 DEF Comes, DescribedFirst
    <3>4. QED
      BY <1>1, <1>4, <3>1, <3>3 DEF Known
  <2>3. QED
    BY <2>1, <2>2
<1>12. ASSUME NEW k \in DOMAIN wire', NEW t \in Tables, IsRelationOf(wire'[k], t)
       PROVE  (Known(t) \/ Comes(t, k))' \/ Got(wire'[k])[6] = Head(told'[t])
  <2>1. k + 1 \in DOMAIN wire /\ wire'[k] = wire[k + 1] /\ k \in 1..Len(wire)
    BY <1>2
  <2>2. Known(t) \/ Comes(t, k + 1) \/ Got(wire'[k])[6] = Head(told[t])
    BY <1>12, <2>1 DEF DescribedFirst
  <2>3. QED
    BY <1>1, <1>6, <1>7, <2>1, <2>2
<1>13. QED
  BY <1>2, <1>4, <1>8, <1>9, <1>10, <1>11, <1>12, Zenon DEF DescribedFirst

LEMMA ReadCounts ==
  ASSUME BaseInv, DescribedFirst, InOrder, handled \in Nat, wal_lsn \in Int, ProcessChunk
  PROVE  /\ InOrder'
         /\ PositionCovers => PositionCovers'
         /\ handled' \in 0..changes
<1> DEFINE chunk == wire[1]
<1>0. /\ wire # <<>> /\ wire' = Tail(wire) /\ UNCHANGED <<told, tx, ends, changes>>
      /\ wal_lsn' = IF Kind(chunk) \in {"k", "B", "C"} THEN Position(chunk) ELSE wal_lsn
      /\ handled' = IF IsChange(chunk) THEN handled + 1 ELSE handled
  BY ChunkRead
<1>1. /\ wire' \in Seq(Range(wire'))
      /\ Len(wire) \in Nat \ {0} /\ Len(wire') = Len(wire) - 1
      /\ DOMAIN wire = 1..Len(wire) /\ DOMAIN wire' = 1..Len(wire) - 1
      /\ \A k \in DOMAIN wire' : wire'[k] = wire[k + 1]
  BY <1>0, TailRange DEF DescribedFirst
<1>2. PICK count \in [0..Len(wire) -> 0..changes] : Counted(count)
  BY DEF InOrder
<1>3. /\ count[0] = handled /\ count[Len(wire)] = changes
      /\ count[1] = count[0] + (IF IsChange(chunk) THEN 1 ELSE 0)
  BY <1>1, <1>2 DEF Counted
<1>4. handled' = count[1]
  BY <1>0, <1>3
<1>5. count[1] \in 0..changes /\ changes \in Nat /\ Len(wire) - 1 \in Nat
  <2>1. 1 \in 0..Len(wire) /\ Len(wire) - 1 \in Nat
    BY <1>1
  <2>2. QED
    BY <1>2, <2>1 DEF BaseInv
<1>6. PICK next \in [0..Len(wire) - 1 -> 0..changes] :
         \A k \in 0..Len(wire) - 1 : next[k] = count[k + 1]
  <2> DEFINE f == [k \in 0..Len(wire) - 1 |-> count[k + 1]]
  <2>1. \A k \in 0..Len(wire) - 1 : k + 1 \in 0..Len(wire)
    BY <1>1
  <2>2. f \in [0..Len(wire) - 1 -> 0..changes]
    BY <2>1
  <2>3. QED
    BY <2>2
<1>7. next[0] = handled' /\ next[Len(wire) - 1] = changes
  BY <1>1, <1>3, <1>4, <1>6
<1>8. ASSUME NEW k \in DOMAIN wire'
      PROVE  /\ next[k] = next[k - 1] + (IF IsChange(wire'[k]) THEN 1 ELSE 0)
             /\ \A n \in DOMAIN ends : Position(wire'[k]) >= EndLsn(n) => next[k] >= ends[n]
  <2>1. /\ k \in 0..Len(wire) - 1 /\ k - 1 \in 0..Len(wire) - 1 /\ k \in Nat
        /\ k + 1 \in DOMAIN wire /\ (k + 1) - 1 = k /\ (k - 1) + 1 = k
        /\ wire'[k] = wire[k + 1]
    BY <1>1
  <2>2. next[k] = count[k + 1] /\ next[k - 1] = count[k]
    BY <1>6, <2>1
  <2>3. count[k + 1] = count[(k + 1) - 1] + (IF IsChange(wire[k + 1]) THEN 1 ELSE 0)
    BY <1>2, <2>1 DEF Counted
  <2>4. \A n \in DOMAIN ends : Position(wire[k + 1]) >= EndLsn(n) => count[k + 1] >= ends[n]
    BY <1>2, <2>1 DEF Counted
  <2>5. QED
    BY <2>1, <2>2, <2>3, <2>4
<1>9. ASSUME NEW k \in 0..Len(wire) - 1, NEW l \in 0..Len(wire) - 1, k <= l
      PROVE  next[k] <= next[l]
  <2>1. k + 1 \in 0..Len(wire) /\ l + 1 \in 0..Len(wire) /\ k + 1 <= l + 1
    BY <1>1, <1>9
  <2>2. QED
    BY <1>2, <1>6, <2>1 DEF Counted
<1>10. Counted(next)'
  BY <1>0, <1>1, <1>7, <1>8, <1>9 DEF Counted, EndLsn
<1>11. ASSUME NEW k \in DOMAIN wire'
       PROVE  Position(wire'[k]) <= Lsn(Len(ends) + 1)
  <2>1. k + 1 \in DOMAIN wire /\ wire'[k] = wire[k + 1]
    BY <1>1
  <2>2. QED
    BY <2>1 DEF InOrder
<1>12. Position(chunk) <= Lsn(Len(ends) + 1)
  BY <1>1 DEF InOrder
<1>13. wal_lsn' <= Lsn(Len(ends) + 1)
  BY <1>0, <1>12 DEF InOrder
<1>14. InOrder'
  <2>1. next \in [0..Len(wire') -> 0..changes']
    BY <1>0, <1>1, <1>6
  <2>2. (\E c \in [0..Len(wire) -> 0..changes] : Counted(c))'
    BY <1>10, <2>1
  <2>3. (tx => Len(ends) < MaxTx)' /\ (\A n \in DOMAIN ends : ends[n] <= changes)'
    BY <1>0 DEF InOrder
  <2>4. QED
    BY <1>0, <1>11, <1>13, <2>2, <2>3 DEF InOrder, Lsn
<1>15. ASSUME PositionCovers
       PROVE  PositionCovers'
  <2> SUFFICES ASSUME NEW n \in DOMAIN ends, wal_lsn' >= EndLsn(n)
               PROVE  handled' >= ends[n]
    BY <1>0 DEF PositionCovers, EndLsn
  <2>1. n \in Nat /\ ends[n] \in Nat
    BY DEF BaseInv
  <2>2. CASE Kind(chunk) \in {"k", "B", "C"}
    BY <1>0, <1>1, <1>2, <1>4, <2>2 DEF Counted
  <2>3. CASE Kind(chunk) \notin {"k", "B", "C"}
    <3>1. handled >= ends[n]
      BY <1>0, <2>3 DEF PositionCovers
    <3>2. QED
      BY <1>0, <2>1, <3>1
  <2>4. QED
    BY <2>2, <2>3
<1>16. QED
  BY <1>4, <1>5, <1>14, <1>15

-----------------------------------------------------------------------------
(* Every step.                                                             *)

\* What is between the server and the sink, read and unread.
StreamInv ==
    /\ DescribedFirst /\ InOrder
    /\ wal_lsn \in Nat \cup {-1} /\ handled \in 0..changes
    /\ PositionCovers /\ RightUnlessAltered

\* Of a session that has not begun nothing is there.
Blank ==
    /\ told = [t \in Tables |-> <<>>]
    /\ tx = FALSE /\ ends = <<>> /\ changes = 0 /\ wire = <<>>
    /\ relations = <<>> /\ wal_lsn = -1
    /\ handled = 0 /\ event = NoEvent

LEMMA BlankHolds == Blank => StreamInv
<1> SUFFICES ASSUME Blank
             PROVE  StreamInv
  OBVIOUS
<1> USE DEF Blank
<1>1. DescribedFirst
  <2>1. \A t \in Tables : told[t] = <<>> /\ ~Known(t) /\ ~Comes(t, Len(wire) + 1)
    BY DEF Known, Comes
  <2>2. relations \in Seq(Relations) /\ wire \in Seq(Range(wire))
    BY NothingSent
  <2>3. DOMAIN wire = {} /\ DOMAIN relations = {}
    OBVIOUS
  <2>4. QED
    BY <2>1, <2>2, <2>3 DEF DescribedFirst
<1>2. InOrder
  <2>1. DOMAIN wire = {} /\ DOMAIN ends = {} /\ Len(wire) = 0 /\ Len(ends) = 0
    OBVIOUS
  <2> DEFINE none == [k \in 0..0 |-> 0]
  <2>2. none \in [0..Len(wire) -> 0..changes] /\ none[0] = 0
    BY <2>1
  <2>3. \A k, l \in 0..Len(wire) : none[k] <= none[l]
    BY <2>1
  <2>4. Counted(none)
    BY <2>1, <2>2, <2>3 DEF Counted
  <2>5. QED
    BY <2>1, <2>2, <2>4 DEF InOrder, Lsn
<1>3. QED
  BY <1>1, <1>2 DEF StreamInv, PositionCovers, RightUnlessAltered

LEMMA BlankHoldsNext == Blank' => StreamInv'
BY BlankHolds, PTL

LEMMA StreamKept ==
  ASSUME StreamInv, UNCHANGED <<serverVars, decoderVars>>
  PROVE  StreamInv'
<1>1. UNCHANGED <<told, tx, ends, changes, wire, relations, wal_lsn, handled, event>>
  OBVIOUS
<1>2. DescribedFirst'
  BY <1>1 DEF StreamInv, DescribedFirst, Sent, Known, Comes
<1>3. InOrder'
  <2>1. PICK count \in [0..Len(wire) -> 0..changes] : Counted(count)
    BY DEF StreamInv, InOrder
  <2>2. Counted(count)'
    BY <1>1, <2>1 DEF Counted
  <2>3. (\E c \in [0..Len(wire) -> 0..changes] : Counted(c))'
    BY <1>1, <2>2
  <2>4. QED
    BY <1>1, <2>3 DEF StreamInv, InOrder
<1>4. QED
  BY <1>1, <1>2, <1>3 DEF StreamInv, PositionCovers, RightUnlessAltered

\* What the steps that send have in common.
LEMMA StreamSends ==
  ASSUME BaseInv, BaseInv', StreamInv, NEW chunk, wire' = Append(wire, chunk),
         UNCHANGED decoderVars,
         Sent(chunk)', Tells(chunk),
         IsChange(chunk) => told[Got(chunk)[2]] # <<>>,
         Position(chunk) <= Lsn(Len(ends') + 1),
         changes' = changes + (IF IsChange(chunk) THEN 1 ELSE 0),
         ends' = ends \/ ends' = Append(ends, changes)
  PROVE  StreamInv'
<1>1. UNCHANGED <<relations, wal_lsn, handled, event>>
  OBVIOUS
<1>2. DescribedFirst'
  BY <1>1, SendDescribes DEF StreamInv
<1>3. Position(chunk) \in Int
  BY DEF Sent
<1>4. \A k \in DOMAIN wire : Position(wire[k]) \in Int
  BY DEF StreamInv, DescribedFirst, Sent
<1>5. wire \in Seq(Range(wire)) /\ wal_lsn \in Int
  BY DEF StreamInv, DescribedFirst
<1>6. InOrder'
  BY <1>1, <1>3, <1>4, <1>5, SendCounts DEF StreamInv
<1>7. handled' \in 0..changes'
  BY <1>1 DEF StreamInv, BaseInv
<1>8. PositionCovers'
  <2> SUFFICES ASSUME NEW n \in DOMAIN ends', wal_lsn' >= EndLsn(n)
               PROVE  handled' >= ends'[n]
    BY DEF PositionCovers, EndLsn
  <2>1. wal_lsn <= 2 * (Len(ends) + 1)
    BY DEF StreamInv, InOrder, Lsn
  <2>2. n \in DOMAIN ends /\ ends'[n] = ends[n]
    <3>1. CASE ends' = ends
      BY <3>1
    <3>2. CASE ends' = Append(ends, changes)
      <4>1. n \in 1..Len(ends) + 1 /\ Len(ends) \in Nat
        BY <3>2 DEF BaseInv
      <4>2. n # Len(ends) + 1
        BY <1>1, <1>5, <2>1, <4>1 DEF EndLsn
      <4>3. QED
        BY <3>2, <4>1, <4>2 DEF BaseInv
    <3>3. QED
      BY <3>1, <3>2
  <2>3. QED
    BY <1>1, <2>2 DEF StreamInv, PositionCovers, EndLsn
<1>9. QED
  BY <1>1, <1>2, <1>6, <1>7, <1>8 DEF StreamInv, RightUnlessAltered

LEMMA ReadsRight ==
  ASSUME StreamInv, ProcessChunk
  PROVE  RightUnlessAltered'
<1> DEFINE chunk == wire[1]
           t     == Got(chunk)[2]
<1>1. /\ wire # <<>>
      /\ IsChange(chunk) => Known(t)
      /\ event' = IF IsChange(chunk) /\ receiver
                  THEN EventOf(Got(chunk), relations[GetRelation(t)], chunk.note)
                  ELSE event
  BY ChunkRead DEF StreamInv
<1>2. CASE ~(IsChange(chunk) /\ receiver)
  BY <1>1, <1>2 DEF StreamInv, RightUnlessAltered
<1>3. CASE IsChange(chunk) /\ receiver
  <2>1. Sent(chunk)
    BY <1>1, TailRange DEF StreamInv, DescribedFirst
  <2>2. /\ t \in Tables /\ chunk.note.message = Got(chunk)
        /\ chunk.note.first = Head(told[t])
    BY <1>3, <2>1 DEF Sent
  <2> DEFINE rel == relations[GetRelation(t)]
             e   == EventOf(Got(chunk), rel, chunk.note)
  <2>3. rel[2] = t /\ rel[6] = Head(told[t])
    BY <1>1, <1>3, <2>2, ReadAsFirstDescribed DEF StreamInv
  <2>4. e.note = chunk.note
    BY DEF EventOf
  <2>5. chunk.note.first = chunk.note.now =>
           e = EventOf(Got(chunk), Relation(t, chunk.note.now), chunk.note)
    <3>1. /\ Relation(t, chunk.note.now)[2] = t
          /\ Relation(t, chunk.note.now)[6] = chunk.note.now
      BY DEF Relation
    <3> HIDE DEF rel, t
    <3>2. QED
      BY <2>2, <2>3, <3>1 DEF EventOf
  <2>6. event' = e
    BY <1>1, <1>3
  <2> HIDE DEF e, rel
  <2>7. event'.note.first = event'.note.now => EventIsRight(event')
    BY <2>2, <2>4, <2>5, <2>6 DEF EventIsRight
  <2>8. QED
    BY <2>7 DEF RightUnlessAltered
<1>4. QED
  BY <1>2, <1>3

LEMMA StreamNext ==
  ASSUME BaseInv, BaseInv', StreamInv, [Next]_vars
  PROVE  StreamInv'
<1>1. CASE BeginStart \/ ConnectFails \/ Sleep
  BY <1>1, StreamKept DEF BeginStart, ConnectFails, FailsWhenLast, Sleep
<1>2. CASE FinishStart \/ Stop
  BY <1>2, StreamKept DEF FinishStart, Stop
<1>3. ASSUME NEW c \in Conns, Connect(c) \/ Disconnect(c)
      PROVE  StreamInv'
  BY <1>3, StreamKept DEF Connect, Disconnect
<1>4. CASE SendBegin
  <2>0. PICK n, chunk : n = Len(ends) + 1 /\ chunk = [data |-> Encode(Begin(n)), note |-> NoEvent]
    OBVIOUS
  <2>1. /\ wire' = Append(wire, chunk) /\ n \in 1..MaxTx
        /\ UNCHANGED <<decoderVars, told, ends, changes>>
    BY <2>0, <1>4, PgStreamAssumption DEF SendBegin, Send, BaseInv
  <2>2. /\ Kind(chunk) = "B" /\ Decode(chunk.data).end = "ok" /\ Position(chunk) = Lsn(n)
    BY <2>0, <2>1, SentBegin
  <2>3. Position(chunk) \in Nat /\ Position(chunk) <= Lsn(Len(ends') + 1)
    BY <2>0, <2>1, <2>2 DEF Lsn
  <2>4. Sent(chunk)' /\ ~IsChange(chunk) /\ Tells(chunk)
    BY <2>1, <2>2, <2>3 DEF Sent, IsChange, Tells, IsRelationOf
  <2>5. changes' = changes + 0
    BY <2>1 DEF BaseInv
  <2>6. QED
    BY <2>1, <2>3, <2>4, <2>5, StreamSends
<1>5. CASE SendCommit
  <2>0. PICK n, chunk : n = Len(ends) + 1 /\ chunk = [data |-> Encode(Commit(n)), note |-> NoEvent]
    OBVIOUS
  <2>1. /\ wire' = Append(wire, chunk) /\ n \in 1..MaxTx /\ ends' = Append(ends, changes)
        /\ UNCHANGED <<decoderVars, told, changes>>
    BY <2>0, <1>5, PgStreamAssumption DEF SendCommit, Send, BaseInv
  <2>2. /\ Kind(chunk) = "C" /\ Decode(chunk.data).end = "ok" /\ Position(chunk) = EndLsn(n)
    BY <2>0, <2>1, SentCommit
  <2>3. Len(ends') = n
    BY <2>0, <2>1 DEF BaseInv
  <2>4. Position(chunk) \in Nat /\ Position(chunk) <= Lsn(Len(ends') + 1)
    BY <2>1, <2>2, <2>3 DEF Lsn, EndLsn
  <2>5. Sent(chunk)' /\ ~IsChange(chunk) /\ Tells(chunk)
    BY <2>1, <2>2, <2>4 DEF Sent, IsChange, Tells, IsRelationOf
  <2>6. changes' = changes + 0
    BY <2>1 DEF BaseInv
  <2>7. QED
    BY <2>1, <2>4, <2>5, <2>6, StreamSends
<1>6. CASE SendKeepalive
  <2>1. PICK data \in {<<"k", EndLsn(Len(ends)), 0, 0>>, <<"Y", 0>>} : Send(data, NoEvent)
    BY <1>6 DEF SendKeepalive
  <2> DEFINE chunk == [data |-> data, note |-> NoEvent]
  <2>2. /\ wire' = Append(wire, chunk)
        /\ UNCHANGED <<decoderVars, told, ends, changes>>
    BY <1>6, <2>1 DEF SendKeepalive, Send
  <2>3. EndLsn(Len(ends)) \in Nat /\ EndLsn(Len(ends)) <= Lsn(Len(ends) + 1)
    BY DEF EndLsn, Lsn, BaseInv
  <2>4. /\ Kind(chunk) \in {"k", "Y"} /\ Position(chunk) \in {EndLsn(Len(ends)), -1}
        /\ Kind(chunk) = "k" => Len(chunk.data) >= 2
    BY <2>3, SentKeepalive
  <2> HIDE DEF chunk
  <2>5. Position(chunk) <= Lsn(Len(ends') + 1)
    BY <2>2, <2>3, <2>4 DEF Lsn
  <2>6. Sent(chunk)' /\ ~IsChange(chunk) /\ Tells(chunk)
    BY <2>2, <2>3, <2>4 DEF Sent, IsChange, Tells, IsRelationOf
  <2>7. changes' = changes + 0
    BY <2>2 DEF BaseInv
  <2>8. QED
    BY <2>2, <2>5, <2>6, <2>7, StreamSends
<1>7. ASSUME NEW t \in Tables, NEW s \in Shapes, SendRelation(t, s)
      PROVE  StreamInv'
  <2> DEFINE chunk == [data |-> Encode(Relation(t, s)), note |-> NoEvent]
  <2>1. /\ wire' = Append(wire, chunk) /\ told' = [told EXCEPT ![t] = Append(told[t], s)]
        /\ UNCHANGED <<decoderVars, ends, changes>>
    BY <1>7 DEF SendRelation, Send
  <2>2. /\ Kind(chunk) = "R" /\ Decode(chunk.data).end = "ok" /\ Position(chunk) = -1
        /\ Got(chunk) \in Relations /\ Got(chunk)[2] = t /\ Got(chunk)[6] = s
    BY SentRelation
  <2> HIDE DEF chunk
  <2>3. Sent(chunk)' /\ ~IsChange(chunk)
    BY <2>2 DEF Sent, IsChange
  <2>4. Position(chunk) <= Lsn(Len(ends') + 1)
    BY <2>1, <2>2 DEF Lsn, BaseInv
  <2>5. Tells(chunk)
    <3> SUFFICES ASSUME NEW u \in Tables
                 PROVE  /\ told'[u] # <<>> <=> told[u] # <<>> \/ IsRelationOf(chunk, u)
                        /\ told[u] # <<>> => Head(told'[u]) = Head(told[u])
                        /\ IsRelationOf(chunk, u) =>
                              told[u] # <<>> \/ Got(chunk)[6] = Head(told'[u])
      BY DEF Tells
    <3>1. told \in [Tables -> Seq(Shapes)] /\ (IsRelationOf(chunk, u) <=> u = t)
      BY <2>2 DEF BaseInv, IsRelationOf
    <3>2. CASE u = t
      <4>1. told'[u] = Append(told[u], s) /\ told[u] \in Seq(Shapes)
        BY <2>1, <3>1, <3>2
      <4>2. told'[u] # <<>>
        BY <4>1, AppendProperties
      <4>3. Head(told'[u]) = IF told[u] = <<>> THEN s ELSE Head(told[u])
        BY <4>1, HeadTailAppend
      <4>4. QED
        BY <2>2, <3>1, <3>2, <4>2, <4>3
    <3>3. CASE u # t
      BY <2>1, <3>1, <3>3
    <3>4. QED
      BY <3>2, <3>3
  <2>6. changes' = changes + 0
    BY <2>1 DEF BaseInv
  <2>7. QED
    BY <2>1, <2>3, <2>4, <2>5, <2>6, StreamSends
<1>8. ASSUME NEW t \in Tables, told[t] # <<>>, NEW m \in ChangesOf(t, Shape(t)),
             SendChange(t, m)
      PROVE  StreamInv'
  <2>0. PICK chunk :
           chunk = [data |-> Encode(m),
                    note |-> [message |-> m, now |-> Shape(t), first |-> Head(told[t])]]
    OBVIOUS
  <2>1. /\ wire' = Append(wire, chunk)
        /\ changes' = IF m[1] = "T" THEN changes ELSE changes + 1
        /\ UNCHANGED <<decoderVars, ends, told>>
    BY <1>8, <2>0 DEF SendChange, Send
  <2>2. Shape(t) \in Shapes
    <3>1. told[t] \in Seq(Shapes)
      BY DEF BaseInv
    <3>2. QED
      BY <1>8, <3>1 DEF Shape, Last
  <2>3. /\ Position(chunk) = -1
        /\ Kind(chunk) = m[1] /\ m[1] \in {"I", "U", "D", "T"}
        /\ Decode(chunk.data).end = "ok" /\ Got(chunk) = m
        /\ m[1] # "T" => m[2] = t
    BY <2>0, <2>2, SentChange
  <2>4. chunk.note.message = m /\ chunk.note.first = Head(told[t])
    BY <2>0
  <2>5. IsChange(chunk) => Got(chunk)[2] = t
    BY <2>3 DEF IsChange
  <2>6. Sent(chunk)'
    BY <2>1, <2>3, <2>4, <2>5 DEF Sent
  <2>7. Position(chunk) <= Lsn(Len(ends') + 1)
    BY <2>1, <2>3 DEF Lsn, BaseInv
  <2>8. Tells(chunk)
    BY <2>1, <2>3 DEF Tells, IsRelationOf
  <2>9. changes' = changes + (IF IsChange(chunk) THEN 1 ELSE 0)
    BY <2>1, <2>3 DEF IsChange, BaseInv
  <2>10. QED
    BY <1>8, <2>1, <2>5, <2>6, <2>7, <2>8, <2>9, StreamSends
<1>9. CASE BeginStream \/ DropReceiver
  BY <1>9, StreamKept DEF BeginStream, DropReceiver
<1>10. CASE EndStream
  BY <1>10, BlankHoldsNext DEF EndStream, Blank
<1>11. CASE ProcessChunk
  <2>1. DescribedFirst' /\ RightUnlessAltered'
    BY <1>11, ReadDescribes, ReadsRight DEF StreamInv
  <2>2. handled \in Nat /\ wal_lsn \in Int
    BY DEF StreamInv, BaseInv
  <2>3. InOrder' /\ PositionCovers' /\ handled' \in 0..changes /\ changes' = changes
    BY <1>11, <2>2, ReadCounts, ChunkRead DEF StreamInv
  <2>4. wal_lsn' \in Nat \cup {-1}
    <3>1. wire # <<>> /\ wal_lsn' \in {wal_lsn, Position(wire[1])}
      BY <1>11, ChunkRead DEF StreamInv
    <3>2. Sent(wire[1])
      BY <3>1, TailRange DEF StreamInv, DescribedFirst
    <3>3. QED
      BY <3>1, <3>2 DEF Sent, StreamInv
  <2>5. QED
    BY <2>1, <2>3, <2>4 DEF StreamInv
<1>12. CASE UNCHANGED vars
  BY <1>12, StreamKept
<1>13. QED
  BY <1>1, <1>2, <1>3, <1>4, <1>5, <1>6, <1>7, <1>8, <1>9, <1>10, <1>11, <1>12 DEF Next

-----------------------------------------------------------------------------

StreamSpecInv == RetryInv /\ BaseInv /\ StreamInv

LEMMA StreamHolds == Spec => []StreamSpecInv
<1>1. Init => StreamSpecInv
  BY RetryInit, BaseInit, BlankHolds DEF Init, Blank, StreamSpecInv
<1>2. StreamSpecInv /\ [Next]_vars => StreamSpecInv'
  <2> SUFFICES ASSUME StreamSpecInv, [Next]_vars
               PROVE  StreamSpecInv'
    OBVIOUS
  <2> USE DEF StreamSpecInv
  <2>1. RetryInv' /\ BaseInv'
    BY RetryNext, BaseNext
  <2>2. StreamInv'
    BY <2>1, StreamNext
  <2>3. QED
    BY <2>1, <2>2
<1>3. QED
  BY <1>1, <1>2, PTL DEF Spec

\* Every variable has its type, whatever the server sends: the decoder never keeps
\* a relation of a table that is not there.
THEOREM StreamTypeCorrect == Spec => []TypeOK
<1>1. StreamSpecInv => TypeOK
  <2> SUFFICES ASSUME StreamSpecInv
               PROVE  TypeOK
    OBVIOUS
  <2>1. \A i \in DOMAIN relations : relations[i][2] \in Tables /\ relations[i][6] \in Shapes
    <3>1. relations \in Seq(Relations)
      BY DEF StreamSpecInv, StreamInv, DescribedFirst
    <3>2. \A rel \in Relations : rel[2] \in Tables /\ rel[6] \in Shapes
      BY DEF Relations, Relation
    <3>3. QED
      BY <3>1, <3>2
  <2>2. QED
    BY <2>1 DEF StreamSpecInv, RetryInv, BaseInv, StreamInv, TypeOK
<1>2. QED
  BY <1>1, StreamHolds, PTL

\* A position past the end of a transaction is not stored before every change of
\* it was made into an event, for any number of tables, shapes and chunks on
\* their way: no change meets a decoder that does not know its table.
THEOREM PositionIsCovered == Spec => []PositionCovers
<1>1. StreamSpecInv => PositionCovers
  BY DEF StreamSpecInv, StreamInv
<1>2. QED
  BY <1>1, StreamHolds, PTL

\* An event has the names and values of its change as long as its table has the
\* columns it was first described with.
THEOREM EventsAreRight == Spec => []RightUnlessAltered
<1>1. StreamSpecInv => RightUnlessAltered
  BY DEF StreamSpecInv, StreamInv
<1>2. QED
  BY <1>1, StreamHolds, PTL

=============================================================================
