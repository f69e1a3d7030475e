----------------------------- MODULE MySqlProofs -----------------------------
(***************************************************************************)
(* Proofs about MySqlConnector, for any tables, columns and rows, any number *)
(* of attempts, sessions and snapshots, and whatever the server answers.    *)
(***************************************************************************)
EXTENDS MySqlConnector, DataInduction, TLAPS

-----------------------------------------------------------------------------
(* Texts of a result.                                                      *)

LEMMA BytesAreNumbers ==
  ASSUME NEW v \in Seq(0..255)
  PROVE  v \in Seq(Nat) /\ Len(v) \in Nat
<1>1. 0..255 \subseteq Nat
  OBVIOUS
<1>2. v \in Seq(Nat)
  BY <1>1, SeqMonotonic
<1>3. QED
  BY <1>2

\* What begins a word begins what is put together of it and others.
LEMMA BeginsWith ==
  ASSUME NEW u \in Seq(Nat), NEW v \in Seq(Nat), u # <<>>
  PROVE  /\ u \o v \in Seq(Nat) /\ Len(u \o v) \in Nat \ {0} /\ u \o v # <<>>
         /\ (u \o v)[1] = u[1]
<1>1. /\ u \o v \in Seq(Nat) /\ Len(u \o v) = Len(u) + Len(v)
      /\ \A i \in 1..(Len(u) + Len(v)) : (u \o v)[i] = IF i <= Len(u) THEN u[i] ELSE v[i - Len(u)]
  BY ConcatProperties
<1>2. Len(u) \in Nat \ {0} /\ Len(v) \in Nat
  BY EmptySeq
<1>3. QED
  BY <1>1, <1>2

LEMMA TextWord ==
  ASSUME NEW v, v = Null \/ v \in Seq(0..255)
  PROVE  /\ EncodeText(v) \in Seq(Nat) /\ EncodeText(v) # <<>>
         /\ Len(EncodeText(v)) \in Nat \ {0} /\ EncodeText(v)[1] # EndMark
<1>1. CASE v = Null
  <2>1. EncodeText(v) = <<251>>
    BY <1>1 DEF EncodeText, NullMark
  <2>2. QED
    BY <2>1 DEF EndMark
<1>2. CASE v # Null /\ Len(v) < NullMark
  <2>1. EncodeText(v) = <<Len(v)>> \o v
    BY <1>2 DEF EncodeText
  <2>2. Len(v) \in Nat /\ v \in Seq(Nat) /\ Len(v) < 251
    BY <1>2, BytesAreNumbers DEF NullMark
  <2> DEFINE one == <<Len(v)>>
  <2>3. one \in Seq(Nat) /\ one # <<>> /\ one[1] = Len(v)
    BY <2>2
  <2> HIDE DEF one
  <2>6. (one \o v)[1] # 254
    <3>1. (one \o v)[1] = one[1]
      BY <2>2, <2>3, BeginsWith
    <3>2. Len(v) # 254
      <4>1. \A k \in Nat : k < 251 => k # 254
        OBVIOUS
      <4>2. QED
        BY <2>2, <4>1
    <3>3. QED
      BY <2>3, <3>1, <3>2, Zenon
  <2>4. one \o v \in Seq(Nat) /\ Len(one \o v) \in Nat \ {0} /\ one \o v # <<>>
    BY <2>2, <2>3, BeginsWith
  <2>5. QED
    BY <2>1, <2>4, <2>6 DEF EndMark, one
<1>3. CASE v # Null /\ ~(Len(v) < NullMark)
  <2>1. EncodeText(v) = <<252, Len(v) % 256, Len(v) \div 256>> \o v
    BY <1>3 DEF EncodeText
  <2>2. Len(v) \in Nat /\ v \in Seq(Nat)
    BY <1>3, BytesAreNumbers
  <2> DEFINE three == <<252, Len(v) % 256, Len(v) \div 256>>
  <2>3. three \in Seq(Nat) /\ three # <<>> /\ three[1] = 252
    BY <2>2
  <2>4. (three \o v)[1] # 254
    <3> HIDE DEF three
    <3>1. QED
      BY <2>2, <2>3, BeginsWith
  <2>5. QED
    BY <2>1, <2>2, <2>3, <2>4, BeginsWith DEF EndMark
<1>4. QED
  BY <1>1, <1>2, <1>3

\* What the text at r.at adds to r.
Text(p, r) ==
    IF r.at > Len(p) THEN r
    ELSE IF p[r.at] = NullMark THEN Yields(r, Null, 1)
    ELSE [at |-> DecodeLengthStr(p, r.at).at,
          got |-> Append(r.got, DecodeLengthStr(p, r.at).got)]

Readings(U) == [at : Nat \ {0}, got : Seq(U)]

LEMMA TextType ==
  ASSUME NEW p \in Seq(Nat), NEW r \in Readings({Null} \cup Seq(Nat))
  PROVE  Text(p, r) \in Readings({Null} \cup Seq(Nat))
<1> DEFINE U == {Null} \cup Seq(Nat)
           a == r.at
<1>1. a \in Nat \ {0} /\ r.got \in Seq(U) /\ Len(p) \in Nat
  BY DEF Readings
<1>2. CASE a > Len(p)
  BY <1>2 DEF Text
<1>3. CASE ~(a > Len(p)) /\ p[a] = NullMark
  <2>1. Text(p, r) = [at |-> a + 1, got |-> Append(r.got, Null)]
    BY <1>3 DEF Text, Yields
  <2>2. Append(r.got, Null) \in Seq(U) /\ a + 1 \in Nat \ {0}
    BY <1>1
  <2>3. QED
    BY <2>1, <2>2 DEF Readings
<1>4. CASE ~(a > Len(p)) /\ p[a] # NullMark
  <2> DEFINE s == DecodeLengthStr(p, a)
             n == p[a]
  <2>1. Text(p, r) = [at |-> s.at, got |-> Append(r.got, s.got)]
    BY <1>4 DEF Text
  <2>2. n \in Nat
    BY <1>1, <1>4
  <2>3. s.at \in Nat \ {0} /\ s.got \in Seq(Nat)
    <3>1. CASE n < Len(p) - a + 1
      <4>1. s = [at |-> a + 1 + n, got |-> SubSeq(p, a + 1, a + n)]
        BY <3>1 DEF DecodeLengthStr
      <4>2. a + 1 \in Int /\ a + n \in Int /\ \A i \in (a + 1)..(a + n) : p[i] \in Nat
        <5>1. \A i \in (a + 1)..(a + n) : i \in 1..Len(p)
          BY <1>1, <2>2, <3>1
        <5>2. QED
          BY <1>1, <2>2, <5>1, ElementOfSeq
      <4>3. SubSeq(p, a + 1, a + n) \in Seq(Nat)
        BY <4>2, SubSeqProperties
      <4>4. QED
        <5>1. a + 1 + n \in Nat \ {0}
          BY <1>1, <2>2
        <5> HIDE DEF s, a, n
        <5>2. s.at = a + 1 + n /\ s.got = SubSeq(p, a + 1, a + n)
          BY <4>1
        <5>3. QED
          BY <4>3, <5>1, <5>2
    <3>2. CASE ~(n < Len(p) - a + 1)
      <4>1. s = [at |-> a + 1, got |-> <<>>]
        BY <3>2 DEF DecodeLengthStr
      <4>2. QED
        BY <1>1, <4>1
    <3>3. QED
      BY <3>1, <3>2
  <2> HIDE DEF s
  <2>4. Append(r.got, s.got) \in Seq(U)
    BY <1>1, <2>3
  <2>5. QED
    BY <2>1, <2>3, <2>4 DEF Readings
<1>5. QED
  BY <1>2, <1>3, <1>4

\* A row is read text by text, from left to right.
LEMMA RowTexts ==
  ASSUME NEW p \in Seq(Nat), NEW n \in Nat
  PROVE  \E g \in [0..n -> Readings({Null} \cup Seq(Nat))] :
            /\ g[0] = At(1) /\ \A c \in 1..n : g[c] = Text(p, g[c - 1])
            /\ RowOf(p, n) = g[n].got
<1> DEFINE T == Readings({Null} \cup Seq(Nat))
           ids == [c \in 1..n |-> c]
           step == [i \in 1..n |-> [x \in T |-> Text(p, x)]]
           Eq(g) == g = [s \in SUBSET (1..n) |->
                            IF s = {} THEN At(1) ELSE Text(p, g[s \ {Max(s)}])]
           parts == CHOOSE g : Eq(g)
<1>1. RowOf(p, n) = parts[1..n].got
  BY DEF RowOf, FoldLeft, MapThenFoldSet, Text
<1>2. At(1) \in T
  BY DEF At, Readings
<1>3. \A x \in T : Text(p, x) \in T
  BY TextType
<1>4. \A s \in SUBSET (1..n) : s # {} => Max(s) \in 1..n /\ s \ {Max(s)} \in SUBSET (1..n)
  BY MaxOfPart
<1>5. PICK f : Folds(f, n, T, At(1), step)
  <2>1. step \in [1..n -> [T -> T]]
    <3> HIDE DEF T
    <3>1. QED
      BY <1>3
  <2> HIDE DEF step, T
  <2>2. QED
    BY <1>2, <2>1, FoldExists
<1>6. Eq(f)
  <2> HIDE DEF T
  <2>1. ASSUME NEW s \in SUBSET (1..n), s # {}
        PROVE  f[s] = Text(p, f[s \ {Max(s)}])
    <3>1. f[s] = step[Max(s)][f[s \ {Max(s)}]]
      BY <1>5, <2>1 DEF Folds
    <3>2. Max(s) \in 1..n /\ f[s \ {Max(s)}] \in T
      BY <1>4, <1>5, <2>1 DEF Folds
    <3>3. QED
      BY <3>1, <3>2
  <2>2. f[{}] = At(1) /\ f = [s \in SUBSET (1..n) |-> f[s]]
    BY <1>5 DEF Folds
  <2> HIDE DEF step
  <2>3. QED
    BY <2>1, <2>2
<1>7. Eq(parts)
  <2> HIDE DEF Eq
  <2>1. QED
    BY <1>6
<1> DEFINE g == [c \in 0..n |-> parts[1..c]]
<1> HIDE DEF parts, step
<1>8. g[0] = At(1)
  <2>1. 1..0 = {} /\ {} \in SUBSET (1..n) /\ 0 \in 0..n
    OBVIOUS
  <2>2. parts[{}] = At(1)
    BY <1>7, <2>1
  <2>3. QED
    BY <2>1, <2>2
<1>9. ASSUME NEW c \in 1..n
      PROVE  g[c] = Text(p, g[c - 1])
  <2>1. /\ 1..c \in SUBSET (1..n) /\ 1..c # {} /\ (1..c) \ {Max(1..c)} = 1..(c - 1)
        /\ c - 1 \in 0..n
    BY InitialPart
  <2>2. parts[1..c] = Text(p, parts[(1..c) \ {Max(1..c)}])
    BY <1>7, <2>1
  <2>3. g[c] = parts[1..c] /\ g[c - 1] = parts[1..(c - 1)]
    BY <2>1
  <2>4. QED
    BY <2>1, <2>2, <2>3
<1>10. \A c \in 0..n : g[c] \in T
  <2> DEFINE N == {c \in Nat : c <= n => g[c] \in T}
  <2> HIDE DEF g, T
  <2>1. 0 \in N
    BY <1>2, <1>8
  <2>2. ASSUME NEW c \in Nat, c \in N
        PROVE  c + 1 \in N
    <3>1. SUFFICES ASSUME c + 1 <= n
                   PROVE  g[c + 1] \in T
      OBVIOUS
    <3>2. c + 1 \in 1..n /\ (c + 1) - 1 = c /\ c <= n
      BY <3>1
    <3>3. g[c] \in T
      BY <2>2, <3>2
    <3>4. g[c + 1] = Text(p, g[c])
      BY <1>9, <3>2
    <3>5. QED
      BY <1>3, <3>3, <3>4
  <2>3. Nat \subseteq N
    <3> HIDE DEF N
    <3>1. QED
      BY <2>1, <2>2, SetInduction
  <2>4. QED
    BY <2>3
<1>11. g \in [0..n -> T]
  <2> HIDE DEF T
  <2>1. QED
    BY <1>10
<1>12. RowOf(p, n) = g[n].got
  BY <1>1
<1>13. QED
  <2> HIDE DEF g, T
  <2>1. g \in [0..n -> T] /\ g[0] = At(1) /\ \A c \in 1..n : g[c] = Text(p, g[c - 1])
    BY <1>8, <1>9, <1>11
  <2>2. QED
    BY <1>12, <2>1 DEF T

\* The text at a is v.
TextIs(p, a, v) ==
    \A so : Text(p, [at |-> a, got |-> so])
               = [at |-> a + Len(EncodeText(v)), got |-> Append(so, v)]

\* What is read of a text: itself when its length is one byte.
LEMMA TextBack ==
  ASSUME NEW p \in Seq(Nat), NEW a, NEW v, v = Null \/ (v \in Seq(0..255) /\ Len(v) < NullMark),
         Stands(p, a, EncodeText(v))
  PROVE  TextIs(p, a, v)
<1> SUFFICES ASSUME NEW so
             PROVE  Text(p, [at |-> a, got |-> so])
                       = [at |-> a + Len(EncodeText(v)), got |-> Append(so, v)]
  BY DEF TextIs
<1> DEFINE r == [at |-> a, got |-> so]
<1>0. r.at = a /\ r.got = so /\ Len(p) \in Nat
  OBVIOUS
<1>1. CASE v = Null
  <2>1. EncodeText(v) = <<NullMark>> /\ Len(<<NullMark>>) = 1
    BY <1>1 DEF EncodeText
  <2>2. a \in 1..Len(p) /\ p[a] = NullMark
    BY <1>0, <2>1, OneStands
  <2>3. ~(a > Len(p))
    BY <1>0, <2>2
  <2>4. Text(p, r) = [at |-> a + 1, got |-> Append(so, Null)]
    <3> HIDE DEF r
    <3>1. QED
      BY <1>0, <2>2, <2>3 DEF Text, Yields
  <2>5. QED
    BY <1>1, <2>1, <2>4
<1>2. CASE v # Null
  <2> DEFINE n == Len(v)
  <2>1. EncodeText(v) = <<n>> \o v /\ v \in Seq(Nat) /\ n \in Nat /\ n # NullMark /\ <<n>> \in Seq(Nat)
    <3>1. v \in Seq(0..255) /\ n < NullMark
      BY <1>2
    <3>2. v \in Seq(Nat) /\ n \in Nat
      BY <3>1, BytesAreNumbers
    <3>3. n # NullMark
      <4>1. \A k \in Nat : k < 251 => k # 251
        OBVIOUS
      <4>2. QED
        BY <3>1, <3>2, <4>1 DEF NullMark
    <3>4. QED
      BY <1>2, <3>1, <3>2, <3>3 DEF EncodeText
  <2>2. Stands(p, a, <<n>>) /\ Stands(p, a + 1, v) /\ Len(<<n>> \o v) = 1 + n
    <3>1. Stands(p, a, <<n>> \o v)
      BY <2>1
    <3>2. Len(<<n>>) = 1
      OBVIOUS
    <3>3. Stands(p, a, <<n>>) /\ Stands(p, a + Len(<<n>>), v)
      BY <1>0, <2>1, <3>1, WordParts
    <3>4. Len(<<n>> \o v) = Len(<<n>>) + n
      BY <2>1, ConcatProperties
    <3>5. QED
      BY <3>2, <3>3, <3>4
  <2>3. a \in 1..Len(p) /\ p[a] = n
    BY <1>0, <2>2, OneStands
  <2>4. a + 1 + n <= Len(p) + 1
    BY <2>2 DEF Stands
  <2>5. SubSeq(p, a + 1, a + n) = v
    <3>1. SubSeq(p, a + 1, a + 1 + Len(v) - 1) = v
      BY <2>1, <2>2, WordIsPart
    <3>2. a + 1 + Len(v) - 1 = a + n
      BY <2>1, <2>3
    <3>3. QED
      BY <3>1, <3>2
  <2> HIDE DEF n
  <2>6. DecodeLengthStr(p, a) = [at |-> a + 1 + n, got |-> v]
    <3>1. n < Len(p) - a + 1
      BY <1>0, <2>1, <2>3, <2>4
    <3>2. QED
      BY <2>3, <2>5, <3>1 DEF DecodeLengthStr
  <2>7. ~(a > Len(p)) /\ p[a] # NullMark
    BY <1>0, <2>1, <2>3
  <2>8. Text(p, r) = [at |-> a + 1 + n, got |-> Append(so, v)]
    <3> HIDE DEF r
    <3>1. QED
      BY <1>0, <2>6, <2>7 DEF Text
  <2>9. a + 1 + n = a + Len(EncodeText(v))
    <3>1. Len(EncodeText(v)) = 1 + n
      BY <2>1, <2>2
    <3>2. a + 1 + n = a + (1 + n)
      BY <2>1, <2>3
    <3>3. QED
      BY <3>1, <3>2
  <2>10. QED
    BY <2>8, <2>9
<1>3. QED
  BY <1>1, <1>2

\* The packet of a row.
Packet(row, n) == FlattenSeq([c \in 1..n |-> EncodeText(row[c])])

LEMMA PacketWords ==
  ASSUME NEW n \in Nat, NEW row, IsTexts(row, n)
  PROVE  /\ [c \in 1..n |-> EncodeText(row[c])] \in Seq(Seq(Nat))
         /\ Packet(row, n) \in Seq(Nat)
         /\ n > 0 => Packet(row, n) # <<>> /\ Packet(row, n)[1] # EndMark
<1> DEFINE words == [c \in 1..n |-> EncodeText(row[c])]
<1>1. ASSUME NEW c \in 1..n
      PROVE  /\ words[c] \in Seq(Nat) /\ words[c] # <<>> /\ Len(words[c]) \in Nat \ {0}
             /\ words[c][1] # EndMark
  <2>1. words[c] = EncodeText(row[c]) /\ (row[c] = Null \/ row[c] \in Seq(0..255))
    BY DEF IsTexts
  <2>2. QED
    BY <2>1, TextWord
<1>2. words \in Seq(Seq(Nat)) /\ Len(words) = n
  <2>1. words \in [1..n -> Seq(Nat)]
    BY <1>1
  <2>2. QED
    BY <2>1
<1> HIDE DEF words
<1>3. PICK at \in [1..(n + 1) -> Nat \ {0}] :
          /\ at[1] = 1
          /\ \A i \in 1..n : at[i + 1] = at[i] + Len(words[i])
                             /\ Stands(FlattenSeq(words), at[i], words[i])
          /\ FlattenSeq(words) \in Seq(Nat) /\ Len(FlattenSeq(words)) = at[n + 1] - 1
  BY <1>2, WordsStand
<1>4. ASSUME n > 0
      PROVE  FlattenSeq(words) # <<>> /\ FlattenSeq(words)[1] # EndMark
  <2> DEFINE d == FlattenSeq(words)
             w == words[1]
  <2>1. 1 \in 1..n
    BY <1>4
  <2>2. w \in Seq(Nat) /\ Len(w) \in Nat \ {0} /\ w[1] # EndMark
    BY <1>1, <2>1
  <2>3. Stands(d, 1, w)
    BY <1>3, <2>1
  <2> HIDE DEF d, w
  <2>4. 1 + Len(w) <= Len(d) + 1 /\ d[1 + 1 - 1] = w[1]
    BY <2>2, <2>3 DEF Stands
  <2>5. d # <<>> /\ d[1] # EndMark
    BY <2>2, <2>4
  <2>6. QED
    BY <2>5 DEF d
<1>5. QED
  BY <1>2, <1>3, <1>4 DEF words, Packet

\* A text whose length goes in one byte, or none.
OneByte(v)     == v = Null \/ Len(v) < NullMark
OneBytes(row, k) == \A c \in 1..k : OneByte(row[c])

\* The readings g of a row's packet get its first k texts right, and the next is at a.
ReadUpTo(row, n, k, g, a) ==
    LET p == Packet(row, n)
    IN  /\ \A c \in 1..n : g[c] = Text(p, g[c - 1])
        /\ RowOf(p, n) = g[n].got
        /\ g[k] = [at |-> a, got |-> SubSeq(row, 1, k)]
        /\ k < n => Stands(p, a, EncodeText(row[k + 1]))

\* A row is read as it is up to the first text that is not short.
LEMMA RowUpTo ==
  ASSUME NEW n \in Nat, NEW row, IsTexts(row, n), NEW k \in 0..n, OneBytes(row, k)
  PROVE  /\ Packet(row, n) \in Seq(Nat)
         /\ row \in Seq({Null} \cup Seq(0..255)) /\ Len(row) = n
         /\ \E g \in [0..n -> Readings({Null} \cup Seq(Nat))], a \in Nat \ {0} :
               ReadUpTo(row, n, k, g, a)
<1> DEFINE words == [c \in 1..n |-> EncodeText(row[c])]
           p == Packet(row, n)
           V == {Null} \cup Seq(0..255)
           T == Readings({Null} \cup Seq(Nat))
<1>1. words \in Seq(Seq(Nat)) /\ Len(words) = n /\ p \in Seq(Nat) /\ p = FlattenSeq(words)
      /\ \A c \in 1..n : words[c] = EncodeText(row[c])
  BY PacketWords DEF Packet
<1>2. row \in Seq(V) /\ Len(row) = n
  <2>1. row = [c \in 1..n |-> row[c]] /\ \A c \in 1..n : row[c] \in V
    <3>1. row \in Seq(Range(row)) /\ Len(row) = n
      BY DEF IsTexts
    <3>2. row = [c \in 1..n |-> row[c]]
      BY <3>1
    <3>3. QED
      BY <3>2 DEF IsTexts
  <2> HIDE DEF V
  <2>2. QED
    BY <2>1
<1> HIDE DEF words, p
<1>3. PICK at \in [1..(n + 1) -> Nat \ {0}] :
          /\ at[1] = 1
          /\ \A i \in 1..n : at[i + 1] = at[i] + Len(words[i]) /\ Stands(p, at[i], words[i])
  BY <1>1, WordsStand
<1>4. PICK g \in [0..n -> T] :
          /\ g[0] = At(1) /\ \A c \in 1..n : g[c] = Text(p, g[c - 1])
          /\ RowOf(p, n) = g[n].got
  BY <1>1, RowTexts
<1> DEFINE h == [c \in 0..n |-> [at |-> at[c + 1], got |-> SubSeq(row, 1, c)]]
<1>5. h[0] = g[0]
  <2>1. SubSeq(row, 1, 0) = <<>> /\ 0 \in 0..n /\ 0 + 1 = 1
    OBVIOUS
  <2>2. QED
    BY <1>3, <1>4, <2>1 DEF At
<1>6. ASSUME NEW c \in 1..k, g[c - 1] = h[c - 1]
      PROVE  g[c] = h[c]
  <2>1. c \in 1..n /\ c - 1 \in 0..n /\ c \in 0..n /\ (c - 1) + 1 = c
    OBVIOUS
  <2>2. g[c - 1] = [at |-> at[c], got |-> SubSeq(row, 1, c - 1)]
    BY <1>6, <2>1
  <2>3. Stands(p, at[c], EncodeText(row[c])) /\ at[c + 1] = at[c] + Len(EncodeText(row[c]))
    BY <1>1, <1>3, <2>1
  <2>4. row[c] = Null \/ (row[c] \in Seq(0..255) /\ Len(row[c]) < NullMark)
    BY <2>1 DEF IsTexts, OneBytes, OneByte
  <2>5. Text(p, g[c - 1]) = [at |-> at[c + 1], got |-> Append(SubSeq(row, 1, c - 1), row[c])]
    <3>1. TextIs(p, at[c], row[c])
      BY <1>1, <2>3, <2>4, TextBack, Zenon
    <3>2. QED
      BY <2>2, <2>3, <3>1 DEF TextIs
  <2>6. Append(SubSeq(row, 1, c - 1), row[c]) = SubSeq(row, 1, c)
    BY <1>2, <2>1, PartGrows
  <2>7. h[c] = [at |-> at[c + 1], got |-> SubSeq(row, 1, c)]
    BY <2>1
  <2> HIDE DEF h
  <2>8. QED
    BY <1>4, <2>1, <2>5, <2>6, <2>7
<1>7. g[k] = h[k]
  <2> HIDE DEF h
  <2>1. k \in Nat
    OBVIOUS
  <2>2. QED
    BY <1>5, <1>6, <2>1, GoOnAlike
<1>8. h[k] = [at |-> at[k + 1], got |-> SubSeq(row, 1, k)] /\ at[k + 1] \in Nat \ {0}
  <2>1. k \in 0..n /\ k + 1 \in 1..(n + 1)
    OBVIOUS
  <2>2. QED
    BY <1>3, <2>1
<1>9. k < n => Stands(p, at[k + 1], EncodeText(row[k + 1]))
  <2>1. k < n => k + 1 \in 1..n
    OBVIOUS
  <2>2. QED
    BY <1>1, <1>3, <2>1
<1> HIDE DEF h, T
<1>10. \E b \in Nat \ {0} :
           /\ g[k] = [at |-> b, got |-> SubSeq(row, 1, k)]
           /\ k < n => Stands(p, b, EncodeText(row[k + 1]))
  BY <1>7, <1>8, <1>9
<1>11. QED
  BY <1>1, <1>2, <1>4, <1>10 DEF p, V, T, ReadUpTo

\* A row of short texts is read as it is.
LEMMA RowBack ==
  ASSUME NEW n \in Nat, NEW row, IsTexts(row, n), Short(row)
  PROVE  RowOf(Packet(row, n), n) = row
<1>1. OneBytes(row, n)
  <2>1. DOMAIN row = 1..n
    BY DEF IsTexts
  <2>2. QED
    BY <2>1 DEF Short, OneBytes, OneByte
<1>2. n \in 0..n
  OBVIOUS
<1>3. PICK g \in [0..n -> Readings({Null} \cup Seq(Nat))], a \in Nat \ {0} :
         ReadUpTo(row, n, n, g, a)
  BY <1>1, <1>2, RowUpTo
<1>4. row \in Seq({Null} \cup Seq(0..255)) /\ Len(row) = n
  BY <1>1, <1>2, RowUpTo
<1>5. SubSeq(row, 1, n) = row
  BY <1>4, SubSeqFull
<1>6. RowOf(Packet(row, n), n) = g[n].got /\ g[n].got = SubSeq(row, 1, n)
  BY <1>3 DEF ReadUpTo
<1>7. QED
  BY <1>5, <1>6

\* A text is read where v is, and it is another one.
OtherText(p, a, so, v) ==
    \E b, x : x # v /\ Text(p, [at |-> a, got |-> so]) = [at |-> b, got |-> Append(so, x)]

\* What is read of a longer text: never itself.
LEMMA LongText ==
  ASSUME NEW p \in Seq(Nat), NEW a, NEW v \in Seq(0..255), v # Null,
         ~(Len(v) < NullMark), Len(v) # 252, Stands(p, a, EncodeText(v)), NEW so
  PROVE  OtherText(p, a, so, v)
<1> DEFINE rest == <<Len(v) % 256, Len(v) \div 256>>
           x == DecodeLengthStr(p, a).got
           r == [at |-> a, got |-> so]
<1>1. Len(v) \in Nat /\ v \in Seq(Nat) /\ Len(v) >= 251 /\ Len(p) \in Nat
  BY BytesAreNumbers DEF NullMark
<1>2. rest \o v \in Seq(Nat) /\ EncodeText(v) = <<252>> \o (rest \o v)
  <2>1. EncodeText(v) = <<252, Len(v) % 256, Len(v) \div 256>> \o v
    BY DEF EncodeText
  <2>2. rest \in Seq(Nat)
    BY <1>1
  <2>3. <<252, Len(v) % 256, Len(v) \div 256>> = <<252>> \o rest
    BY <1>1
  <2> HIDE DEF rest
  <2>4. (<<252>> \o rest) \o v = <<252>> \o (rest \o v) /\ rest \o v \in Seq(Nat)
    BY <1>1, <2>2
  <2>5. EncodeText(v) = (<<252>> \o rest) \o v
    BY <2>1, <2>3, Zenon
  <2>6. QED
    BY <2>4, <2>5, Zenon
<1> HIDE DEF rest
<1>3. a \in 1..Len(p) /\ p[a] = 252
  <2>1. Stands(p, a, <<252>>)
    <3>1. <<252>> \in Seq(Nat) /\ Stands(p, a, <<252>> \o (rest \o v))
      BY <1>2
    <3>2. QED
      BY <1>1, <1>2, <3>1, WordParts
  <2>2. QED
    BY <1>1, <2>1, OneStands
<1>4. x # v
  <2>1. CASE 252 < Len(p) - a + 1
    <3>1. x = SubSeq(p, a + 1, a + 252)
      BY <1>3, <2>1 DEF DecodeLengthStr
    <3>2. \A i \in (a + 1)..(a + 252) : p[i] \in Nat
      <4>1. \A i \in (a + 1)..(a + 252) : i \in 1..Len(p)
        BY <1>1, <1>3, <2>1
      <4>2. QED
        BY <1>1, <4>1, ElementOfSeq
    <3>3. Len(SubSeq(p, a + 1, a + 252)) = 252
      BY <1>3, <3>2, SubSeqProperties
    <3> HIDE DEF x
    <3>4. QED
      BY <3>1, <3>3
  <2>2. CASE ~(252 < Len(p) - a + 1)
    <3>1. x = <<>>
      BY <1>3, <2>2 DEF DecodeLengthStr
    <3>2. Len(<<>>) = 0
      OBVIOUS
    <3> HIDE DEF x
    <3>3. QED
      BY <1>1, <3>1, <3>2
  <2>3. QED
    BY <2>1, <2>2
<1>5. Text(p, r) = [at |-> DecodeLengthStr(p, a).at, got |-> Append(so, x)]
  <2>1. r.at = a /\ r.got = so /\ ~(a > Len(p)) /\ p[a] # NullMark
    BY <1>1, <1>3 DEF NullMark
  <2> HIDE DEF r
  <2>2. QED
    BY <2>1 DEF Text
<1>6. QED
  BY <1>4, <1>5 DEF OtherText

\* The i-th of the texts read is x.
ReadAt(texts, i, x) == i \in 1..Len(texts) /\ texts[i] = x

\* A further text leaves those before it alone.
LEMMA TextKeeps ==
  ASSUME NEW p \in Seq(Nat), NEW r \in Readings({Null} \cup Seq(Nat)), NEW i, NEW x,
         ReadAt(r.got, i, x)
  PROVE  ReadAt(Text(p, r).got, i, x)
<1> DEFINE U == {Null} \cup Seq(Nat)
           s == r.got
<1>1. s \in Seq(U)
  BY DEF Readings
<1>2. Text(p, r).got = s \/ \E y : Text(p, r).got = Append(s, y)
  BY DEF Text, Yields
<1>3. i \in 1..Len(s) /\ s[i] = x
  BY DEF ReadAt
<1> HIDE DEF U, s
<1>4. ASSUME NEW y
      PROVE  ReadAt(Append(s, y), i, x)
  <2>1. Len(Append(s, y)) = Len(s) + 1 /\ Len(s) \in Nat
    BY <1>1
  <2>2. Append(s, y)[i] = s[i]
    BY <1>1, <1>3
  <2>3. i \in 1..Len(Append(s, y))
    BY <1>3, <2>1
  <2>4. QED
    BY <1>3, <2>2, <2>3 DEF ReadAt
<1>5. ReadAt(s, i, x)
  BY <1>3 DEF ReadAt
<1>6. QED
  BY <1>2, <1>4, <1>5

\* The first text of a row that is longer than one byte of length can say, and not of
\* 252 bytes, is read as another text: the code takes the mark 252 before it for its
\* length, and yields 252 of the bytes that follow, two of them its length, or none.
\* So the rows SnapshotIsRight leaves out are not right either, and it cannot be
\* extended to them; 252 is left out as one such text, repeating that very mark, does
\* come out as itself.
THEOREM LongTextMisread ==
  ASSUME NEW n \in Nat, NEW row, IsTexts(row, n), NEW c \in 1..n,
         OneBytes(row, c - 1), ~OneByte(row[c]), Len(row[c]) # 252
  PROVE  RowOf(Packet(row, n), n)[c] # row[c]
<1> DEFINE p == Packet(row, n)
           T == Readings({Null} \cup Seq(Nat))
           v == row[c]
           so == SubSeq(row, 1, c - 1)
<1>0. c \in Nat /\ c >= 1 /\ c <= n /\ c - 1 \in 0..n /\ c - 1 < n /\ (c - 1) + 1 = c
  OBVIOUS
<1>1. PICK g \in [0..n -> T], a \in Nat \ {0} : ReadUpTo(row, n, c - 1, g, a)
  BY <1>0, RowUpTo
<1>2. /\ \A i \in 1..n : g[i] = Text(p, g[i - 1])
      /\ RowOf(p, n) = g[n].got
      /\ g[c - 1] = [at |-> a, got |-> so]
      /\ Stands(p, a, EncodeText(v))
  BY <1>0, <1>1 DEF ReadUpTo
<1>3. p \in Seq(Nat) /\ row \in Seq({Null} \cup Seq(0..255)) /\ Len(row) = n
  BY <1>0, RowUpTo
<1>4. v \in Seq(0..255) /\ v # Null /\ ~(Len(v) < NullMark)
  BY DEF OneByte, IsTexts
<1> HIDE DEF p, T, v, so
<1>5. PICK b, x : x # v /\ g[c] = [at |-> b, got |-> Append(so, x)]
  <2>1. g[c] = Text(p, [at |-> a, got |-> so])
    BY <1>2
  <2>2. Len(v) # 252
    BY DEF v
  <2>3. OtherText(p, a, so, v)
    BY <1>2, <1>3, <1>4, <2>2, LongText
  <2>4. QED
    BY <2>1, <2>3 DEF OtherText
<1>6. c \in 1..Len(g[c].got) /\ g[c].got[c] = x
  <2>1. so \in Seq({Null} \cup Seq(0..255)) /\ Len(so) = c - 1
    BY <1>0, <1>3 DEF so
  <2>2. g[c].got = Append(so, x)
    BY <1>5
  <2>3. QED
    BY <1>0, <2>1, <2>2
<1> DEFINE N == {j \in Nat : c + j <= n => ReadAt(g[c + j].got, c, x)}
<1>7. 0 \in N
  BY <1>0, <1>6 DEF ReadAt
<1>8. ASSUME NEW j \in Nat, j \in N
      PROVE  j + 1 \in N
  <2>1. SUFFICES ASSUME c + (j + 1) <= n
                 PROVE  ReadAt(g[c + (j + 1)].got, c, x)
    OBVIOUS
  <2>2. c + (j + 1) \in 1..n /\ c + j \in 0..n /\ (c + (j + 1)) - 1 = c + j /\ c + j <= n
    BY <1>0, <2>1
  <2>3. ReadAt(g[c + j].got, c, x)
    BY <1>8, <2>2
  <2>4. g[c + (j + 1)] = Text(p, g[c + j]) /\ g[c + j] \in T
    BY <1>2, <2>2
  <2>5. PICK r \in Readings({Null} \cup Seq(Nat)) : r = g[c + j]
    BY <2>4 DEF T
  <2>6. ReadAt(Text(p, r).got, c, x)
    BY <1>3, <2>3, <2>5, TextKeeps
  <2>7. QED
    BY <2>4, <2>5, <2>6
<1>9. Nat \subseteq N
  <2> HIDE DEF N
  <2>1. QED
    BY <1>7, <1>8, SetInduction
<1>10. g[n].got[c] = x
  <2>1. n - c \in Nat /\ c + (n - c) = n
    BY <1>0
  <2>2. QED
    BY <1>9, <2>1 DEF ReadAt
<1>11. QED
  BY <1>2, <1>5, <1>10 DEF p, v

\* The result of a table with these rows, before what ends it.
Packets(rows) == [i \in DOMAIN rows |-> Packet(rows[i], Len(rows[1]))]

LEMMA ResultRows ==
  ASSUME NEW rows \in Results
  PROVE  /\ Len(rows) \in Nat \ {0} /\ DOMAIN rows = 1..Len(rows) /\ Len(rows[1]) \in 1..250
         /\ \A i \in 1..Len(rows) : IsTexts(rows[i], Len(rows[1]))
         /\ Packets(rows) \in Seq(Seq(Nat)) /\ Len(Packets(rows)) = Len(rows)
         /\ \A i \in 1..Len(rows) : /\ Packets(rows)[i] = Packet(rows[i], Len(rows[1]))
                                    /\ Packets(rows)[i] # <<>> /\ Packets(rows)[i][1] # EndMark
<1> DEFINE m == Len(rows)
           n == Len(rows[1])
<1>1. /\ m \in Nat \ {0} /\ DOMAIN rows = 1..m /\ n \in 1..250
      /\ \A i \in 1..m : IsTexts(rows[i], n)
  <2>1. rows # <<>> /\ rows \in Seq(Range(rows))
    BY MySqlConnectorAssumption
  <2>2. m \in Nat \ {0} /\ DOMAIN rows = 1..m
    BY <2>1
  <2>3. n \in 1..(251 - 1) /\ \A i \in DOMAIN rows : IsTexts(rows[i], n)
    BY MySqlConnectorAssumption DEF NullMark
  <2>4. QED
    BY <2>2, <2>3
<1> HIDE DEF m, n
<1>2. ASSUME NEW i \in 1..m
      PROVE  Packet(rows[i], n) \in Seq(Nat) /\ Packet(rows[i], n) # <<>>
             /\ Packet(rows[i], n)[1] # EndMark
  <2>1. n \in Nat /\ n > 0
    BY <1>1
  <2>2. QED
    BY <1>1, <2>1, PacketWords
<1>3. Packets(rows) = [i \in 1..m |-> Packet(rows[i], n)]
  BY <1>1 DEF Packets, n
<1>4. Packets(rows) \in Seq(Seq(Nat)) /\ Len(Packets(rows)) = m
  <2>1. Packets(rows) \in [1..m -> Seq(Nat)]
    BY <1>2, <1>3
  <2>2. QED
    BY <1>1, <1>3, <2>1
<1>5. QED
  <2>1. \A i \in 1..m : Packets(rows)[i] = Packet(rows[i], n)
    BY <1>3
  <2>2. QED
    BY <1>1, <1>2, <1>4, <2>1 DEF m, n

\* w is u and then v.
Joined(X, w, u, v) ==
    /\ w \in Seq(X) /\ Len(w) = Len(u) + Len(v)
    /\ \A i \in 1..Len(u) : w[i] = u[i]
    /\ \A i \in 1..Len(v) : w[Len(u) + i] = v[i]

LEMMA JoinedWords ==
  ASSUME NEW X, NEW u \in Seq(X), NEW v \in Seq(X)
  PROVE  Joined(X, u \o v, u, v)
<1> DEFINE w == u \o v
           m == Len(u)
           n == Len(v)
<1>1. m \in Nat /\ n \in Nat
  OBVIOUS
<1>2. w \in Seq(X) /\ Len(w) = m + n
      /\ \A i \in 1..(m + n) : w[i] = IF i <= m THEN u[i] ELSE v[i - m]
  BY ConcatProperties
<1> HIDE DEF w, m, n
<1>3. ASSUME NEW i \in 1..m
      PROVE  w[i] = u[i]
  BY <1>1, <1>2
<1>4. ASSUME NEW i \in 1..n
      PROVE  w[m + i] = v[i]
  <2>1. m + i \in 1..(m + n) /\ ~(m + i <= m) /\ (m + i) - m = i
    BY <1>1
  <2>2. w[m + i] = v[(m + i) - m]
    BY <1>2, <2>1
  <2>3. QED
    BY <2>1, <2>2
<1>5. QED
  BY <1>2, <1>3, <1>4 DEF Joined, w, m, n

\* What query_table has behind the count and the definitions of the columns.
LEMMA ResultAfter ==
  ASSUME NEW rows \in Results, NEW x \in Nat
  PROVE  LET n == Len(rows[1])
             m == Len(rows)
             p == EncodeResult(n, rows, <<x>>)
             a == SubSeq(p, n + 3, Len(p))
         IN  /\ Head(p) = <<n>>
             /\ Len(a) = m + 1 /\ a[m + 1] = <<x>>
             /\ \A i \in 1..m : a[i] = Packets(rows)[i]
<1> DEFINE m == Len(rows)
           n == Len(rows[1])
           count == <<<<n>>>>
           defs == [c \in 1..n |-> <<0>>]
           mark == <<<<EndMark>>>>
           pre == (count \o defs) \o mark
           mid == Packets(rows)
           last == <<<<x>>>>
           p == (pre \o mid) \o last
           a == SubSeq(p, n + 3, Len(p))
           W == Seq(Nat)
<1>1. m \in Nat \ {0} /\ n \in 1..250 /\ mid \in Seq(W) /\ Len(mid) = m
  BY ResultRows
<1>2. EncodeResult(n, rows, <<x>>) = p
  <2>1. Packets(rows) = [i \in DOMAIN rows |-> FlattenSeq([c \in 1..n |-> EncodeText(rows[i][c])])]
    BY DEF Packets, Packet
  <2>2. QED
    BY <2>1 DEF EncodeResult
<1> HIDE DEF m, n, mid
<1>3. <<n>> \in W /\ <<0>> \in W /\ <<EndMark>> \in W /\ <<x>> \in W
  BY <1>1 DEF EndMark
<1>4. count \in Seq(W) /\ Len(count) = 1 /\ count[1] = <<n>>
  BY <1>3
<1>5. defs \in Seq(W) /\ Len(defs) = n
  BY <1>1, <1>3
<1>6. mark \in Seq(W) /\ Len(mark) = 1
  BY <1>3
<1>7. last \in Seq(W) /\ Len(last) = 1 /\ last[1] = <<x>>
  BY <1>3
<1> HIDE DEF count, defs, mark, last, W
<1> DEFINE two == count \o defs
           body == pre \o mid
<1>8. Joined(W, two, count, defs)
  BY <1>4, <1>5, JoinedWords, Zenon
<1> HIDE DEF two
<1>9. pre \in Seq(W) /\ Len(pre) = n + 2 /\ pre[1] = <<n>>
  <2>1. two \in Seq(W) /\ Len(two) = 1 + n /\ two[1] = <<n>>
    BY <1>4, <1>5, <1>8 DEF Joined
  <2>2. Joined(W, pre, two, mark)
    BY <1>6, <2>1, JoinedWords, Zenon DEF two
  <2> HIDE DEF pre
  <2>3. QED
    BY <1>1, <1>6, <2>1, <2>2 DEF Joined
<1> HIDE DEF pre
<1>10. /\ body \in Seq(W) /\ Len(body) = n + 2 + m /\ body[1] = <<n>>
       /\ \A i \in 1..m : body[n + 2 + i] = mid[i]
  <2>1. Joined(W, body, pre, mid)
    BY <1>1, <1>9, JoinedWords, Zenon
  <2> HIDE DEF body
  <2>2. QED
    BY <1>1, <1>9, <2>1 DEF Joined
<1>11. Joined(W, p, body, last)
  BY <1>7, <1>10, JoinedWords, Zenon
<1> HIDE DEF body
<1>12. p \in Seq(W) /\ Len(p) = n + 3 + m /\ p[1] = <<n>> /\ p[n + 3 + m] = <<x>>
       /\ \A i \in 1..m : p[n + 2 + i] = mid[i]
  <2> HIDE DEF p
  <2>1. p \in Seq(W) /\ Len(p) = n + 3 + m /\ p[1] = <<n>>
    BY <1>1, <1>7, <1>10, <1>11 DEF Joined
  <2>2. p[n + 3 + m] = <<x>>
    <3>1. 1 \in 1..Len(last) /\ Len(body) + 1 = n + 3 + m
      BY <1>1, <1>7, <1>10
    <3>2. p[Len(body) + 1] = last[1]
      BY <1>11, <3>1 DEF Joined
    <3>3. QED
      BY <1>7, <3>1, <3>2
  <2>3. ASSUME NEW i \in 1..m
        PROVE  p[n + 2 + i] = mid[i]
    <3>1. n + 2 + i \in 1..Len(body)
      <4>1. Len(body) = n + 2 + m
        BY <1>10
      <4>2. n + 2 + i \in 1..(n + 2 + m)
        BY <1>1
      <4>3. QED
        BY <4>1, <4>2
    <3>2. p[n + 2 + i] = body[n + 2 + i]
      BY <1>11, <3>1 DEF Joined
    <3>3. QED
      BY <1>10, <3>2
  <2>4. QED
    BY <2>1, <2>2, <2>3
<1> HIDE DEF p
<1>13. /\ Len(a) = m + 1
       /\ \A i \in 1..(m + 1) : a[i] = p[n + 2 + i]
  <2>1. n + 3 \in Int /\ Len(p) \in Int /\ n + 3 <= Len(p) /\ Len(p) - (n + 3) + 1 = m + 1
        /\ \A i \in (n + 3)..Len(p) : i \in 1..Len(p)
    BY <1>1, <1>12
  <2>2. \A i \in (n + 3)..Len(p) : p[i] \in W
    BY <1>12, <2>1, ElementOfSeq
  <2>3. /\ Len(SubSeq(p, n + 3, Len(p))) = m + 1
        /\ \A i \in 1..(m + 1) : SubSeq(p, n + 3, Len(p))[i] = p[n + 3 + i - 1]
    BY <2>1, <2>2, SubSeqProperties
  <2>4. \A i \in 1..(m + 1) : n + 3 + i - 1 = n + 2 + i
    BY <1>1
  <2>5. QED
    BY <2>3, <2>4
<1> HIDE DEF a
<1>14. a[m + 1] = <<x>> /\ \A i \in 1..m : a[i] = mid[i]
  <2>1. m + 1 \in 1..(m + 1) /\ n + 2 + (m + 1) = n + 3 + m /\ \A i \in 1..m : i \in 1..(m + 1)
    BY <1>1
  <2>2. QED
    BY <1>12, <1>13, <2>1
<1>15. Head(p) = <<n>>
  BY <1>12
<1>16. QED
  BY <1>2, <1>13, <1>14, <1>15 DEF a, m, n, mid

\* query_table reads a result that has its end row by row, whatever the number of
\* its columns and rows; of one with an error behind its rows it awaits the end,
\* which never comes.
THEOREM ResultRead ==
  ASSUME NEW rows \in Results, NEW x \in {EndMark, ErrorMark}
  PROVE  QueryTable(EncodeResult(Len(rows[1]), rows, <<x>>)) =
            IF x = EndMark
            THEN [end |-> "ok",
                  rows |-> [i \in 1..Len(rows) |-> RowOf(Packets(rows)[i], Len(rows[1]))]]
            ELSE [end |-> "waits", rows |-> <<>>]
<1> DEFINE n == Len(rows[1])
           m == Len(rows)
           p == EncodeResult(n, rows, <<x>>)
           a == SubSeq(p, n + 3, Len(p))
           I == {i \in 1..Len(a) : a[i] = <<>> \/ a[i][1] \in {EndMark}}
           stop == IF I # {} THEN Min(I) ELSE 0
<1>1. m \in Nat \ {0} /\ n \in 1..250 /\ x \in Nat
      /\ \A i \in 1..m : Packets(rows)[i] # <<>> /\ Packets(rows)[i][1] # EndMark
  BY ResultRows DEF EndMark, ErrorMark
<1>2. /\ Head(p) = <<n>> /\ Len(a) = m + 1 /\ a[m + 1] = <<x>>
      /\ \A i \in 1..m : a[i] = Packets(rows)[i]
  BY <1>1, ResultAfter
<1> DEFINE read(f, k) == [i \in 1..(stop - 1) |-> RowOf(a[i], k)]
<1>3. QueryTable(p) =
         IF Head(p) = <<>> THEN [end |-> "ok", rows |-> <<>>]
         ELSE IF Head(p)[1] = ErrorMark
         THEN [end |-> IF Len(Head(p)) < 3 THEN "panic" ELSE "error", rows |-> <<>>]
         ELSE IF stop = 0 THEN [end |-> "waits", rows |-> <<>>]
         ELSE [end |-> "ok", rows |-> [i \in 1..(stop - 1) |-> RowOf(a[i], Head(p)[1])]]
  <2>1. Head(p)[1] = n
    BY <1>2
  <2> HIDE DEF p, n
  <2>2. QED
    BY <2>1 DEF QueryTable, QueryTableUntil, SelectInSeq
<1>4. Head(p) # <<>> /\ Head(p)[1] = n /\ n # ErrorMark
  <2>1. n # 255
    <3>1. n \in 1..250
      BY <1>1
    <3> HIDE DEF n
    <3>2. QED
      BY <3>1
  <2>2. <<n>> # <<>> /\ <<n>>[1] = n
    OBVIOUS
  <2> HIDE DEF p, n
  <2>3. QED
    BY <1>2, <2>1, <2>2 DEF ErrorMark
<1> HIDE DEF p
<1>5. I = IF x = EndMark THEN {m + 1} ELSE {}
  <2>1. \A i \in 1..m : i \notin I
    <3> HIDE DEF a
    <3>1. QED
      BY <1>1, <1>2
  <2>2. m + 1 \in I <=> x = EndMark
    <3>1. m + 1 \in 1..Len(a) /\ a[m + 1] # <<>> /\ a[m + 1][1] = x
      <4>1. <<x>> # <<>> /\ <<x>>[1] = x
        OBVIOUS
      <4> HIDE DEF a, m
      <4>2. QED
        BY <1>1, <1>2, <4>1
    <3> HIDE DEF a, m
    <3>2. QED
      BY <3>1
  <2>3. \A i \in I : i \in 1..m \/ i = m + 1
    <3>1. \A i \in I : i \in 1..(m + 1)
      BY <1>2
    <3> HIDE DEF I, m
    <3>2. QED
      BY <1>1, <3>1
  <2> HIDE DEF I, m
  <2>4. QED
    BY <2>1, <2>2, <2>3
<1>6. stop = IF x = EndMark THEN m + 1 ELSE 0
  <2>1. CASE x = EndMark
    <3>1. I = {m + 1} /\ m + 1 <= m + 1
      <4> HIDE DEF I, m
      <4>1. QED
        BY <1>1, <1>5, <2>1
    <3> HIDE DEF I, m
    <3>2. Min(I) = m + 1
      BY <3>1 DEF Min
    <3>3. QED
      BY <2>1, <3>1, <3>2
  <2>2. CASE x # EndMark
    <3> HIDE DEF I
    <3>1. QED
      BY <1>5, <2>2
  <2>3. QED
    BY <2>1, <2>2
<1> HIDE DEF stop, I
<1>7. CASE x = EndMark
  <2>1. stop # 0 /\ stop - 1 = m
    <3> HIDE DEF m
    <3>1. QED
      BY <1>1, <1>6, <1>7
  <2>2. QueryTable(p) = [end |-> "ok", rows |-> [i \in 1..m |-> RowOf(a[i], n)]]
    BY <1>3, <1>4, <2>1
  <2>3. [i \in 1..m |-> RowOf(a[i], n)] = [i \in 1..m |-> RowOf(Packets(rows)[i], n)]
    <3> HIDE DEF a, m, n
    <3>1. QED
      BY <1>2
  <2>4. QED
    BY <1>7, <2>2, <2>3 DEF p
<1>8. CASE x # EndMark
  <2>1. stop = 0
    BY <1>6, <1>8
  <2>2. QED
    BY <1>3, <1>4, <1>8, <2>1 DEF p
<1>9. QED
  BY <1>7, <1>8

\* An error alone is none of the rows.
LEMMA ErrorRead ==
  ASSUME NEW end \in {<<ErrorMark>>, <<ErrorMark, 0, 0>>}
  PROVE  QueryTable(<<end>>) \in {[end |-> "panic", rows |-> <<>>], [end |-> "error", rows |-> <<>>]}
<1>1. Head(<<end>>) = end /\ end # <<>> /\ end[1] = ErrorMark
  OBVIOUS
<1>2. QED
  BY <1>1 DEF QueryTable, QueryTableUntil

-----------------------------------------------------------------------------
(* Columns of a row.                                                       *)

\* How many bytes a value takes, by its type.
LEMMA KindSize ==
  ASSUME NEW type \in Kinds, NEW meta
  PROVE  /\ MetaLength(type) \in {0, 1}
         /\ type \in Strings => /\ ColumnDataLength(type, meta) = 0
                                /\ type \notin DOMAIN Prefix /\ type \notin DOMAIN Bits
         /\ type \notin Strings => /\ type \in DOMAIN Bits \cap {"TINY", "SHORT", "LONG", "LONGLONG"}
                                   /\ type \notin DOMAIN Prefix
                                   /\ ColumnDataLength(type, meta) = Fixed[type]
                                   /\ Fixed[type] \in {1, 2, 4, 8}
                                   /\ MetaLength(type) = 0
<1>1. \/ type \in {"VARCHAR", "VAR_STRING", "STRING"}
      \/ type \in DOMAIN Bits \cap {"TINY", "SHORT", "LONG", "LONGLONG"}
  BY MySqlStreamAssumption DEF Kinds, Strings
<1>2. DOMAIN Bits \subseteq {"TINY", "SHORT", "INT24", "LONG", "LONGLONG"}
  BY MySqlStreamAssumption
<1>3. CASE type \in {"VARCHAR", "VAR_STRING", "STRING"}
  BY <1>2, <1>3 DEF Strings, ColumnDataLength, Prefix, Fixed, MetaLength
<1>4. CASE type \in DOMAIN Bits \cap {"TINY", "SHORT", "LONG", "LONGLONG"}
  BY <1>4 DEF Strings, ColumnDataLength, Prefix, Fixed, MetaLength
<1>5. QED
  BY <1>1, <1>3, <1>4

LEMMA LittleType == ASSUME NEW v \in Seq(Nat) PROVE Little(v) \in Int
<1> DEFINE F == [i \in DOMAIN v |-> v[i] * 256^(i - 1)]
           D == DOMAIN v
<1>1. D = 1..Len(v) /\ Len(v) \in Nat
  OBVIOUS
<1>2. IsFiniteSet(D)
  BY <1>1, FS_Interval
<1>3. F \in [D -> Int]
  <2>1. \A i \in D : i \in Nat \ {0} /\ v[i] \in Nat
    BY <1>1
  <2>2. \A i \in D : v[i] * 256^(i - 1) \in Int
    BY <2>1
  <2>3. QED
    BY <2>2
<1>4. SumFunction(F) \in Int
  <2> HIDE DEF F, D
  <2>1. QED
    BY <1>2, <1>3, SumType
<1>5. QED
  BY <1>4 DEF Little

\* Parts of data are data.
LEMMA BytesType ==
  ASSUME NEW d \in Seq(Nat), NEW a \in Nat \ {0}, NEW k \in Nat, a + k <= Len(d) + 1
  PROVE  SubSeq(d, a, a + k - 1) \in Seq(Nat)
<1>1. a \in Int /\ a + k - 1 \in Int /\ Len(d) \in Nat
  OBVIOUS
<1>2. \A i \in a..(a + k - 1) : i \in 1..Len(d)
  BY <1>1
<1>3. \A i \in a..(a + k - 1) : d[i] \in Nat
  BY <1>2, ElementOfSeq
<1>4. QED
  BY <1>1, <1>3, SubSeqProperties

\* What is read of the metadata of a column.
Meta(d, r, type) ==
    LET n == MetaLength(type)
    IN  IF n = 0 \/ n > Left(d, r) THEN Yields(r, 0, 0)
        ELSE Yields(r, Little(Bytes(d, r, n)), n)

LEMMA MetaType ==
  ASSUME NEW d \in Seq(Nat), NEW r \in Readings(Int), NEW type \in Kinds
  PROVE  /\ Meta(d, r, type) \in Readings(Int)
         /\ Len(Meta(d, r, type).got) = Len(r.got) + 1
         /\ \A k \in 1..Len(r.got) : Meta(d, r, type).got[k] = r.got[k]
         /\ type \notin Strings => Meta(d, r, type).got[Len(r.got) + 1] = 0
<1> DEFINE n == MetaLength(type)
<1>1. n \in {0, 1} /\ (type \notin Strings => n = 0)
  BY KindSize
<1>2. r.at \in Nat \ {0} /\ r.got \in Seq(Int) /\ Len(d) \in Nat
  BY DEF Readings
<1> DEFINE none == n = 0 \/ n > Left(d, r)
           v == IF none THEN 0 ELSE Little(Bytes(d, r, n))
           w == IF none THEN 0 ELSE n
<1>3. /\ Meta(d, r, type) = [at |-> r.at + w, got |-> Append(r.got, v)]
      /\ v \in Int /\ w \in Nat /\ (n = 0 => v = 0)
  <2>1. CASE none
    <3>1. Meta(d, r, type) = [at |-> r.at + 0, got |-> Append(r.got, 0)]
      BY <2>1 DEF Meta, Yields
    <3>2. v = 0 /\ w = 0
      <4> HIDE DEF none, n
      <4>1. QED
        BY <2>1
    <3> HIDE DEF v, w
    <3>3. QED
      BY <3>1, <3>2
  <2>2. CASE ~none
    <3>1. Bytes(d, r, n) \in Seq(Nat)
      BY <1>1, <1>2, <2>2, BytesType DEF Bytes, Left
    <3>2. Meta(d, r, type) = [at |-> r.at + n, got |-> Append(r.got, Little(Bytes(d, r, n)))]
      BY <2>2 DEF Meta, Yields
    <3>3. Little(Bytes(d, r, n)) \in Int /\ n \in Nat /\ n # 0
      BY <1>1, <2>2, <3>1, LittleType
    <3>4. QED
      BY <2>2, <3>2, <3>3
  <2>3. QED
    BY <2>1, <2>2
<1> HIDE DEF v, w
<1> HIDE DEF n
<1>4. /\ Append(r.got, v) \in Seq(Int) /\ Len(Append(r.got, v)) = Len(r.got) + 1
      /\ \A k \in 1..Len(r.got) : Append(r.got, v)[k] = r.got[k]
      /\ Append(r.got, v)[Len(r.got) + 1] = v
  BY <1>2, <1>3, AppendProperties
<1>5. QED
  BY <1>1, <1>2, <1>3, <1>4 DEF Readings

\* Whatever the metadata says, that of an integer is 0.
LEMMA MetasOfNumbers ==
  ASSUME NEW types \in Seq(Kinds), NEW d \in Seq(Nat)
  PROVE  \A c \in 1..Len(types) : types[c] \notin Strings => ColumnMetas(types, d)[c] = 0
<1> DEFINE n == Len(types)
           T == Readings(Int)
           step == [c \in 1..n |-> [x \in T |-> Meta(d, x, types[c])]]
           Eq(g) == g = [s \in SUBSET (1..n) |->
                            IF s = {} THEN At(1) ELSE Meta(d, g[s \ {Max(s)}], types[Max(s)])]
           parts == CHOOSE g : Eq(g)
<1>1. n \in Nat /\ DOMAIN types = 1..n /\ \A c \in 1..n : types[c] \in Kinds
  OBVIOUS
<1>2. ColumnMetas(types, d) = parts[1..n].got
  BY <1>1 DEF ColumnMetas, FoldLeft, MapThenFoldSet, Meta
<1> HIDE DEF n
<1>3. At(1) \in T
  BY DEF At, Readings
<1>4. \A c \in 1..n : \A x \in T : Meta(d, x, types[c]) \in T
  BY <1>1, MetaType
<1>5. step \in [1..n -> [T -> T]]
  <2> HIDE DEF T
  <2>1. QED
    BY <1>4
<1>6. \A s \in SUBSET (1..n) : s # {} => Max(s) \in 1..n /\ s \ {Max(s)} \in SUBSET (1..n)
  BY <1>1, MaxOfPart
<1>7. \E g : Eq(g)
  <2>1. PICK f : Folds(f, n, T, At(1), step)
    <3> HIDE DEF step, T
    <3>1. QED
      BY <1>1, <1>3, <1>5, FoldExists
  <2>2. ASSUME NEW s \in SUBSET (1..n), s # {}
        PROVE  f[s] = Meta(d, f[s \ {Max(s)}], types[Max(s)])
    <3> HIDE DEF T
    <3>1. f[s] = step[Max(s)][f[s \ {Max(s)}]]
      BY <2>1, <2>2 DEF Folds
    <3>2. Max(s) \in 1..n /\ f[s \ {Max(s)}] \in T
      BY <1>6, <2>1, <2>2 DEF Folds
    <3>3. QED
      BY <3>1, <3>2
  <2>3. f[{}] = At(1) /\ f = [s \in SUBSET (1..n) |-> f[s]]
    BY <2>1 DEF Folds
  <2>4. Eq(f)
    <3> HIDE DEF step, T
    <3>1. QED
      BY <2>2, <2>3
  <2>5. QED
    BY <2>4
<1>8. Eq(parts)
  <2> HIDE DEF Eq
  <2>1. QED
    BY <1>7
<1> HIDE DEF parts
<1>9. PICK g : Steps(g, n, T, At(1), step) /\ parts[1..n] = g[n]
  <2>1. parts[{}] = At(1)
    BY <1>8
  <2>2. \A s \in SUBSET (1..n) :
           s # {} /\ parts[s \ {Max(s)}] \in T => parts[s] = step[Max(s)][parts[s \ {Max(s)}]]
    <3> HIDE DEF T
    <3>1. QED
      BY <1>6, <1>8
  <2> HIDE DEF step, T
  <2>3. Unfolds(parts, n, T, At(1), step)
    BY <2>1, <2>2 DEF Unfolds
  <2>4. QED
    BY <1>1, <1>3, <1>5, <2>3, FoldSteps
<1>10. g[0] = At(1) /\ \A c \in 1..n : g[c - 1] \in T /\ g[c] = Meta(d, g[c - 1], types[c])
  <2> HIDE DEF T
  <2>1. QED
    BY <1>9 DEF Steps
<1> DEFINE Right(c) == /\ Len(g[c].got) = c
                       /\ \A k \in 1..c : types[k] \notin Strings => g[c].got[k] = 0
           N == {c \in Nat : c <= n => Right(c)}
<1>11. 0 \in N
  BY <1>10 DEF At
<1>12. ASSUME NEW c \in Nat, c \in N
       PROVE  c + 1 \in N
  <2>1. SUFFICES ASSUME c + 1 <= n
                 PROVE  Right(c + 1)
    OBVIOUS
  <2>2. c + 1 \in 1..n /\ (c + 1) - 1 = c /\ c <= n
    BY <1>1, <2>1
  <2>3. Right(c) /\ g[c] \in T /\ g[c + 1] = Meta(d, g[c], types[c + 1])
    BY <1>10, <1>12, <2>2
  <2>4. types[c + 1] \in Kinds
    BY <1>1, <2>2
  <2>5. /\ Len(g[c + 1].got) = Len(g[c].got) + 1
        /\ \A k \in 1..Len(g[c].got) : g[c + 1].got[k] = g[c].got[k]
        /\ types[c + 1] \notin Strings => g[c + 1].got[Len(g[c].got) + 1] = 0
    <3> DEFINE r == g[c]
               type == types[c + 1]
    <3>1. r \in Readings(Int) /\ type \in Kinds /\ g[c + 1] = Meta(d, r, type)
      BY <2>3, <2>4
    <3> HIDE DEF r, type
    <3>2. /\ Len(Meta(d, r, type).got) = Len(r.got) + 1
          /\ \A k \in 1..Len(r.got) : Meta(d, r, type).got[k] = r.got[k]
          /\ type \notin Strings => Meta(d, r, type).got[Len(r.got) + 1] = 0
      BY <3>1, MetaType
    <3>3. QED
      BY <3>1, <3>2 DEF r, type
  <2>6. \A k \in 1..(c + 1) : k \in 1..c \/ k = c + 1
    OBVIOUS
  <2>7. QED
    BY <2>3, <2>5, <2>6
<1>13. n \in N
  <2> HIDE DEF N
  <2>1. Nat \subseteq N
    BY <1>11, <1>12, SetInduction
  <2>2. QED
    BY <1>1, <2>1
<1>14. QED
  <2>1. Right(n) /\ ColumnMetas(types, d) = g[n].got
    BY <1>1, <1>2, <1>9, <1>13
  <2>2. QED
    BY <2>1 DEF n

-----------------------------------------------------------------------------

\* What may be read of a column.
ColumnValues == {Null} \cup {[string |-> s] : s \in Seq(Nat)}
                       \cup {[number |-> Little(b)] : b \in Seq(Nat)}
                       \cup {[string |-> Little(b)] : b \in Seq(Nat)}

\* A value as it is meant.
MeantOf(type, v) ==
    IF v = Null THEN Null
    ELSE IF type \in Strings THEN [string |-> v] ELSE [number |-> Little(v)]

\* A value as it is sent.
SentOf(type, v) == IF v = Null THEN <<>> ELSE IF type \in Strings THEN <<Len(v)>> \o v ELSE v

LEMMA ValueTypes ==
  ASSUME NEW s \in Seq(Nat)
  PROVE  /\ [string |-> s] \in ColumnValues /\ [number |-> Little(s)] \in ColumnValues
         /\ [string |-> Little(s)] \in ColumnValues /\ Null \in ColumnValues
<1>1. [string |-> s] \in {[string |-> b] : b \in Seq(Nat)}
  OBVIOUS
<1>2. [number |-> Little(s)] \in {[number |-> Little(b)] : b \in Seq(Nat)}
  OBVIOUS
<1>3. [string |-> Little(s)] \in {[string |-> Little(b)] : b \in Seq(Nat)}
  OBVIOUS
<1>4. QED
  BY <1>1, <1>2, <1>3, Zenon DEF ColumnValues

LEMMA ColumnType ==
  ASSUME NEW d \in Seq(Nat), NEW r \in Readings(ColumnValues), NEW type \in Kinds, NEW meta,
         type \notin Strings => meta = 0
  PROVE  ReadColumn(d, r, type, meta) \in Readings(ColumnValues)
<1> DEFINE n == ColumnDataLength(type, meta)
<1>1. r.at \in Nat \ {0} /\ r.got \in Seq(ColumnValues) /\ Len(d) \in Nat
  BY DEF Readings
<1>2. ASSUME NEW v \in ColumnValues, NEW w \in Nat
      PROVE  Yields(r, v, w) \in Readings(ColumnValues)
  <2>1. Append(r.got, v) \in Seq(ColumnValues) /\ r.at + w \in Nat \ {0}
    BY <1>1
  <2>2. QED
    BY <2>1 DEF Yields, Readings
<1>3. Yields(r, Null, 0) \in Readings(ColumnValues)
  BY <1>2 DEF ColumnValues
<1>4. CASE type \in Strings
  <2>1. n = 0 /\ type \notin DOMAIN Prefix
    BY <1>4, KindSize
  <2>2. CASE Left(d, r) <= 0
    <3>1. ReadColumn(d, r, type, meta) = Yields(r, Null, 0)
      BY <2>1, <2>2 DEF ReadColumn
    <3>2. QED
      BY <1>3, <3>1
  <2>3. CASE ~(Left(d, r) <= 0)
    <3> DEFINE k == d[r.at]
    <3>1. ReadColumn(d, r, type, meta) =
             IF k + 1 > Left(d, r) THEN Yields(r, [string |-> <<>>], 1)
             ELSE Yields(r, [string |-> SubSeq(d, r.at + 1, r.at + k)], 1 + k)
      BY <1>4, <2>1, <2>3 DEF ReadColumn, LengthEncoded
    <3>2. r.at \in 1..Len(d)
      BY <1>1, <2>3 DEF Left
    <3>3. k \in Nat
      BY <3>2
    <3> HIDE DEF k
    <3>4. Yields(r, [string |-> <<>>], 1) \in Readings(ColumnValues)
      <4>1. <<>> \in Seq(Nat)
        OBVIOUS
      <4>2. [string |-> <<>>] \in ColumnValues
        BY <4>1, ValueTypes
      <4>3. QED
        BY <1>2, <4>2
    <3>5. CASE k + 1 > Left(d, r)
      BY <3>1, <3>4, <3>5
    <3>6. CASE ~(k + 1 > Left(d, r))
      <4>1. r.at + 1 \in Nat \ {0} /\ r.at + 1 + k <= Len(d) + 1 /\ r.at + 1 + k - 1 = r.at + k
        BY <1>1, <3>3, <3>6 DEF Left
      <4>2. SubSeq(d, r.at + 1, r.at + k) \in Seq(Nat)
        BY <3>3, <4>1, BytesType
      <4>3. [string |-> SubSeq(d, r.at + 1, r.at + k)] \in ColumnValues /\ 1 + k \in Nat
        <5>1. [string |-> SubSeq(d, r.at + 1, r.at + k)] \in ColumnValues
          BY <4>2, ValueTypes, Zenon
        <5>2. QED
          BY <3>3, <5>1
      <4>4. QED
        BY <1>2, <3>1, <3>6, <4>3
    <3>7. QED
      BY <3>5, <3>6
  <2>4. QED
    BY <2>2, <2>3
<1>5. CASE type \notin Strings
  <2>1. /\ n = Fixed[type] /\ n \in {1, 2, 4, 8} /\ type \in DOMAIN Bits
        /\ type \notin DOMAIN Prefix
    BY <1>5, KindSize
  <2> DEFINE b == Bytes(d, r, n)
  <2>2. CASE n <= Left(d, r)
    <3>1. n > 0
      BY <2>1
    <3>2. ReadColumn(d, r, type, meta) = Yields(r, DecodeBinlogValue(b, type, meta), n)
      BY <2>2, <3>1 DEF ReadColumn
    <3>3. b \in Seq(Nat)
      <4>1. n \in Nat /\ r.at + n <= Len(d) + 1
        BY <1>1, <2>1, <2>2 DEF Left
      <4> HIDE DEF n
      <4>2. QED
        BY <1>1, <4>1, BytesType DEF Bytes
    <3> HIDE DEF b, n
    <3>4. DecodeBinlogValue(b, type, meta) \in {[number |-> Little(b)], [string |-> Little(b)]}
      <4>1. DecodeBinlogValue(b, type, meta) = IntegerValue(type, Little(b), meta)
        <5>1. type \in DOMAIN Bits /\ type \in {"TINY", "SHORT", "LONG", "LONGLONG"}
          BY <1>5, KindSize
        <5>2. QED
          BY <5>1 DEF DecodeBinlogValue
      <4>2. meta = 0 /\ (0 \div 128) % 2 # 1
        BY <1>5
      <4>3. QED
        BY <4>1, <4>2 DEF IntegerValue
    <3>5. DecodeBinlogValue(b, type, meta) \in ColumnValues /\ n \in Nat
      <4>1. [number |-> Little(b)] \in ColumnValues /\ [string |-> Little(b)] \in ColumnValues
        BY <3>3, ValueTypes, Zenon
      <4>2. QED
        BY <2>1, <3>4, <4>1
    <3>6. QED
      BY <1>2, <3>2, <3>5
  <2>3. CASE ~(n <= Left(d, r))
    <3>1. n > 0
      BY <2>1
    <3>2. ReadColumn(d, r, type, meta) = Yields(r, Null, 0)
      BY <2>3, <3>1 DEF ReadColumn
    <3>3. QED
      BY <1>3, <3>2
  <2>4. QED
    BY <2>2, <2>3
<1>6. QED
  BY <1>4, <1>5

\* The value at a is v as it is meant.
ColumnIs(d, a, type, meta, v) ==
    \A so : ReadColumn(d, [at |-> a, got |-> so], type, meta)
               = [at |-> a + Len(SentOf(type, v)), got |-> Append(so, MeantOf(type, v))]

LEMMA ColumnBack ==
  ASSUME NEW d \in Seq(Nat), NEW a \in Nat, NEW type \in Kinds, NEW meta,
         type \notin Strings => meta = 0,
         NEW v, v # Null, Fits(type, v), Stands(d, a, SentOf(type, v))
  PROVE  ColumnIs(d, a, type, meta, v)
<1> SUFFICES ASSUME NEW so
             PROVE  ReadColumn(d, [at |-> a, got |-> so], type, meta)
                       = [at |-> a + Len(SentOf(type, v)), got |-> Append(so, MeantOf(type, v))]
  BY DEF ColumnIs
<1> DEFINE r == [at |-> a, got |-> so]
           n == ColumnDataLength(type, meta)
           k == Len(v)
           left == Len(d) - a + 1
<1>1. /\ v \in Seq(0..255) /\ v \in Seq(Nat) /\ k \in Nat /\ Len(d) \in Nat
      /\ r.at = a /\ r.got = so /\ Left(d, r) = left
  <2>1. v \in Seq(0..255)
    BY DEF Fits
  <2>2. QED
    BY <2>1, BytesAreNumbers DEF Left
<1>2. CASE type \in Strings
  <2> DEFINE w == <<k>> \o v
  <2>1. w \in Seq(Nat) /\ SentOf(type, v) = w /\ k < 256
    BY <1>1, <1>2 DEF SentOf, Fits
  <2>2. Stands(d, a, <<k>>) /\ Stands(d, a + 1, v)
    <3>1. <<k>> \in Seq(Nat) /\ Len(<<k>>) = 1
      BY <1>1
    <3>2. Stands(d, a, <<k>> \o v)
      BY <2>1
    <3> HIDE DEF k
    <3>3. Stands(d, a, <<k>>) /\ Stands(d, a + Len(<<k>>), v)
      BY <1>1, <3>1, <3>2, WordParts
    <3>4. QED
      BY <3>1, <3>3
  <2>3. Len(w) = 1 + k
    BY <1>1
  <2>4. a \in 1..Len(d) /\ d[a] = k
    BY <1>1, <2>2, OneStands
  <2>5. SubSeq(d, a + 1, a + k) = v
    <3>1. SubSeq(d, a + 1, (a + 1) + Len(v) - 1) = v
      BY <1>1, <2>2, WordIsPart
    <3>2. (a + 1) + Len(v) - 1 = a + k
      BY <1>1
    <3>3. QED
      BY <3>1, <3>2
  <2>6. left > 0 /\ ~(k + 1 > left)
    <3>1. a + 1 + k <= Len(d) + 1
      BY <2>2 DEF Stands
    <3> HIDE DEF k
    <3>2. QED
      BY <1>1, <2>4, <3>1
  <2>7. n = 0 /\ type \notin DOMAIN Prefix
    BY <1>2, KindSize
  <2>8. ReadColumn(d, r, type, meta) = LengthEncoded(d, r)
    <3> HIDE DEF n, r, left
    <3>1. ~(n > 0) /\ ~(Left(d, r) <= 0)
      BY <1>1, <2>6, <2>7 DEF left
    <3>2. QED
      BY <1>2, <3>1 DEF ReadColumn, n
  <2>9. LengthEncoded(d, r) = [at |-> a + (1 + k), got |-> Append(so, [string |-> v])]
    <3>1. d[r.at] = k /\ ~(k + 1 > Left(d, r))
      BY <1>1, <2>4, <2>6
    <3>2. LengthEncoded(d, r) = Yields(r, [string |-> SubSeq(d, r.at + 1, r.at + k)], 1 + k)
      <4> HIDE DEF r, k
      <4>1. QED
        BY <3>1 DEF LengthEncoded
    <3>3. QED
      BY <1>1, <2>5, <3>2 DEF Yields
  <2>10. MeantOf(type, v) = [string |-> v]
    BY <1>2 DEF MeantOf
  <2>11. QED
    BY <2>1, <2>3, <2>8, <2>9, <2>10
<1>3. CASE type \notin Strings
  <2>1. /\ SentOf(type, v) = v /\ k = Fixed[type]
        /\ type = "LONGLONG" => Little(v) < 2^(Bits[type] - 1)
    BY <1>3 DEF SentOf, Fits
  <2>2. /\ n = k /\ n > 0 /\ type \in DOMAIN Bits
        /\ type \in {"TINY", "SHORT", "LONG", "LONGLONG"}
    <3>1. /\ n = Fixed[type] /\ Fixed[type] \in {1, 2, 4, 8} /\ type \in DOMAIN Bits
          /\ type \in {"TINY", "SHORT", "LONG", "LONGLONG"}
      BY <1>3, KindSize
    <3>2. QED
      BY <2>1, <3>1
  <2>3. k <= left /\ Bytes(d, r, k) = v
    <3>1. Stands(d, a, v)
      BY <2>1
    <3>2. SubSeq(d, a, a + Len(v) - 1) = v
      BY <1>1, <3>1, WordIsPart
    <3>3. k <= left
      BY <1>1, <3>1 DEF Stands
    <3>4. QED
      BY <1>1, <3>2, <3>3 DEF Bytes
  <2>4. ReadColumn(d, r, type, meta) = Yields(r, DecodeBinlogValue(v, type, meta), k)
    <3>1. n > 0 /\ n <= Left(d, r) /\ Bytes(d, r, n) = v
      BY <1>1, <2>2, <2>3
    <3>2. ReadColumn(d, r, type, meta) = Yields(r, DecodeBinlogValue(Bytes(d, r, n), type, meta), n)
      <4> HIDE DEF r
      <4>1. QED
        BY <3>1 DEF ReadColumn
    <3>3. QED
      BY <2>2, <3>1, <3>2
  <2>5. DecodeBinlogValue(v, type, meta) = [number |-> Little(v)]
    <3>1. DecodeBinlogValue(v, type, meta) = IntegerValue(type, Little(v), meta)
      BY <2>2 DEF DecodeBinlogValue
    <3>2. meta = 0 /\ (0 \div 128) % 2 # 1
      BY <1>3
    <3>3. type = "LONGLONG" => ~(Little(v) >= 2^(Bits[type] - 1))
      <4>1. Little(v) \in Int
        BY <1>1, LittleType
      <4>2. Bits[type] \in Nat \ {0}
        BY <2>2, MySqlStreamAssumption
      <4>3. 2^(Bits[type] - 1) \in Int
        BY <4>2
      <4>4. QED
        BY <2>1, <4>1, <4>3
    <3>4. QED
      BY <3>1, <3>2, <3>3 DEF IntegerValue
  <2>6. MeantOf(type, v) = [number |-> Little(v)]
    BY <1>3 DEF MeantOf
  <2>7. QED
    BY <1>1, <2>1, <2>4, <2>5, <2>6 DEF Yields
<1>4. QED
  BY <1>2, <1>3

-----------------------------------------------------------------------------
(* Bitmaps.                                                                *)

LEMMA SumOfEight ==
  ASSUME NEW F \in [0..7 -> Int]
  PROVE  SumFunction(F) = F[0] + F[1] + F[2] + F[3] + F[4] + F[5] + F[6] + F[7]
<1> DEFINE G(i) == [k \in 0..7 |-> IF k < i THEN F[k] ELSE 0]
<1>1. IsFiniteSet(0..7)
  <2>1. 0 \in Int /\ 7 \in Int
    OBVIOUS
  <2>2. QED
    BY <2>1, FS_Interval
<1>2. \A i \in 0..8 : G(i) \in [0..7 -> Int]
  OBVIOUS
<1>3. ASSUME NEW i \in 0..7
      PROVE  SumFunction(G(i + 1)) = SumFunction(G(i)) + F[i]
  <2> DEFINE g == G(i)
             h == G(i + 1)
  <2>1. g \in [0..7 -> Int] /\ h \in [0..7 -> Int] /\ i + 1 \in 0..8
    OBVIOUS
  <2>2. \A y \in 0..7 : y # i => h[y] = g[y]
    OBVIOUS
  <2>3. h[i] = F[i] /\ g[i] = 0 /\ F[i] \in Int
    OBVIOUS
  <2> HIDE DEF g, h
  <2>4. SumFunction(h) = SumFunction(g) + (h[i] - g[i])
    BY <1>1, <2>1, <2>2, SumChange
  <2>5. SumFunction(g) \in Int
    BY <1>1, <2>1, SumType
  <2>6. SumFunction(h) = SumFunction(g) + F[i]
    BY <2>3, <2>4, <2>5
  <2>7. QED
    BY <2>6 DEF g, h
<1>4. SumFunction(G(0)) = 0
  <2> DEFINE g == G(0)
  <2>1. g \in [0..7 -> Int] /\ \A y \in 0..7 : g[y] = 0
    OBVIOUS
  <2> HIDE DEF g
  <2>2. SumFunction(g) = 0
    BY <1>1, <2>1, SumOfZeros
  <2>3. QED
    BY <2>2 DEF g
<1>5. G(8) = F
  OBVIOUS
<1>6. /\ SumFunction(G(1)) = SumFunction(G(0)) + F[0]
      /\ SumFunction(G(2)) = SumFunction(G(1)) + F[1]
      /\ SumFunction(G(3)) = SumFunction(G(2)) + F[2]
      /\ SumFunction(G(4)) = SumFunction(G(3)) + F[3]
  <2> HIDE DEF G
  <2>1. /\ SumFunction(G(0 + 1)) = SumFunction(G(0)) + F[0]
        /\ SumFunction(G(1 + 1)) = SumFunction(G(1)) + F[1]
        /\ SumFunction(G(2 + 1)) = SumFunction(G(2)) + F[2]
        /\ SumFunction(G(3 + 1)) = SumFunction(G(3)) + F[3]
    BY <1>3
  <2>2. 0 + 1 = 1 /\ 1 + 1 = 2 /\ 2 + 1 = 3 /\ 3 + 1 = 4
    OBVIOUS
  <2>3. QED
    BY <2>1, <2>2
<1>7. /\ SumFunction(G(5)) = SumFunction(G(4)) + F[4]
      /\ SumFunction(G(6)) = SumFunction(G(5)) + F[5]
      /\ SumFunction(G(7)) = SumFunction(G(6)) + F[6]
      /\ SumFunction(G(8)) = SumFunction(G(7)) + F[7]
  <2> HIDE DEF G
  <2>1. /\ SumFunction(G(4 + 1)) = SumFunction(G(4)) + F[4]
        /\ SumFunction(G(5 + 1)) = SumFunction(G(5)) + F[5]
        /\ SumFunction(G(6 + 1)) = SumFunction(G(6)) + F[6]
        /\ SumFunction(G(7 + 1)) = SumFunction(G(7)) + F[7]
    BY <1>3
  <2>2. 4 + 1 = 5 /\ 5 + 1 = 6 /\ 6 + 1 = 7 /\ 7 + 1 = 8
    OBVIOUS
  <2>3. QED
    BY <2>1, <2>2
<1>8. /\ F[0] \in Int /\ F[1] \in Int /\ F[2] \in Int /\ F[3] \in Int /\ F[4] \in Int
      /\ F[5] \in Int /\ F[6] \in Int /\ F[7] \in Int
  OBVIOUS
<1> HIDE DEF G
<1>9. QED
  BY <1>4, <1>5, <1>6, <1>7, <1>8

\* The byte of a bitmap, and its bits.
BitOf(nulls, b, k) == IF 8 * (b - 1) + k + 1 \in nulls THEN 1 ELSE 0

ByteOf(nulls, b) ==
    SumFunction([k \in 0..7 |-> IF 8 * (b - 1) + k + 1 \in nulls THEN 2^k ELSE 0])

BitmapOf(n, nulls) == [b \in 1..BitmapBytes(n) |-> ByteOf(nulls, b)]

LEMMA ByteIs ==
  ASSUME NEW nulls, NEW b \in Nat
  PROVE  ByteOf(nulls, b) = BitOf(nulls, b, 0) + 2 * BitOf(nulls, b, 1) + 4 * BitOf(nulls, b, 2)
                            + 8 * BitOf(nulls, b, 3) + 16 * BitOf(nulls, b, 4)
                            + 32 * BitOf(nulls, b, 5) + 64 * BitOf(nulls, b, 6)
                            + 128 * BitOf(nulls, b, 7)
<1> DEFINE F == [k \in 0..7 |-> IF 8 * (b - 1) + k + 1 \in nulls THEN 2^k ELSE 0]
<1>1. F \in [0..7 -> Int]
  OBVIOUS
<1>2. /\ F[0] = BitOf(nulls, b, 0) /\ F[1] = 2 * BitOf(nulls, b, 1)
      /\ F[2] = 4 * BitOf(nulls, b, 2) /\ F[3] = 8 * BitOf(nulls, b, 3)
  BY DEF BitOf
<1>3. /\ F[4] = 16 * BitOf(nulls, b, 4) /\ F[5] = 32 * BitOf(nulls, b, 5)
      /\ F[6] = 64 * BitOf(nulls, b, 6) /\ F[7] = 128 * BitOf(nulls, b, 7)
  BY DEF BitOf
<1> HIDE DEF F
<1>4. SumFunction(F) = F[0] + F[1] + F[2] + F[3] + F[4] + F[5] + F[6] + F[7]
  BY <1>1, SumOfEight
<1>5. QED
  BY <1>2, <1>3, <1>4 DEF ByteOf, F

\* n has these digits.
Digits(n, p, q, r, s, t, u, v, w) ==
    /\ n \in 0..255
    /\ (n \div 2^0) % 2 = p /\ (n \div 2^1) % 2 = q /\ (n \div 2^2) % 2 = r
    /\ (n \div 2^3) % 2 = s /\ (n \div 2^4) % 2 = t /\ (n \div 2^5) % 2 = u
    /\ (n \div 2^6) % 2 = v /\ (n \div 2^7) % 2 = w

LEMMA Binary ==
  ASSUME NEW p \in {0, 1}, NEW q \in {0, 1}, NEW r \in {0, 1}, NEW s \in {0, 1},
         NEW t \in {0, 1}, NEW u \in {0, 1}, NEW v \in {0, 1}, NEW w \in {0, 1}
  PROVE  Digits(p + 2 * q + 4 * r + 8 * s + 16 * t + 32 * u + 64 * v + 128 * w,
                p, q, r, s, t, u, v, w)
BY DEF Digits

LEMMA ByteBack ==
  ASSUME NEW nulls, NEW b \in Nat, NEW k \in 0..7
  PROVE  ByteOf(nulls, b) \in 0..255 /\ (ByteOf(nulls, b) \div 2^k) % 2 = BitOf(nulls, b, k)
<1> DEFINE n == ByteOf(nulls, b)
<1>1. \A i \in 0..7 : BitOf(nulls, b, i) \in {0, 1}
  BY DEF BitOf
<1>2. /\ n \in 0..255
      /\ (n \div 2^0) % 2 = BitOf(nulls, b, 0) /\ (n \div 2^1) % 2 = BitOf(nulls, b, 1)
      /\ (n \div 2^2) % 2 = BitOf(nulls, b, 2) /\ (n \div 2^3) % 2 = BitOf(nulls, b, 3)
      /\ (n \div 2^4) % 2 = BitOf(nulls, b, 4) /\ (n \div 2^5) % 2 = BitOf(nulls, b, 5)
      /\ (n \div 2^6) % 2 = BitOf(nulls, b, 6) /\ (n \div 2^7) % 2 = BitOf(nulls, b, 7)
  <2>1. /\ BitOf(nulls, b, 0) \in {0, 1} /\ BitOf(nulls, b, 1) \in {0, 1}
        /\ BitOf(nulls, b, 2) \in {0, 1} /\ BitOf(nulls, b, 3) \in {0, 1}
        /\ BitOf(nulls, b, 4) \in {0, 1} /\ BitOf(nulls, b, 5) \in {0, 1}
        /\ BitOf(nulls, b, 6) \in {0, 1} /\ BitOf(nulls, b, 7) \in {0, 1}
    BY <1>1
  <2>2. n = BitOf(nulls, b, 0) + 2 * BitOf(nulls, b, 1) + 4 * BitOf(nulls, b, 2)
            + 8 * BitOf(nulls, b, 3) + 16 * BitOf(nulls, b, 4)
            + 32 * BitOf(nulls, b, 5) + 64 * BitOf(nulls, b, 6)
            + 128 * BitOf(nulls, b, 7)
    BY ByteIs
  <2> HIDE DEF n
  <2> DEFINE p == BitOf(nulls, b, 0)
             q == BitOf(nulls, b, 1)
             r == BitOf(nulls, b, 2)
             s == BitOf(nulls, b, 3)
             t == BitOf(nulls, b, 4)
             u == BitOf(nulls, b, 5)
             v == BitOf(nulls, b, 6)
             w == BitOf(nulls, b, 7)
  <2>3. n = p + 2 * q + 4 * r + 8 * s + 16 * t + 32 * u + 64 * v + 128 * w
    BY <2>2
  <2>4. /\ p \in {0, 1} /\ q \in {0, 1} /\ r \in {0, 1} /\ s \in {0, 1}
        /\ t \in {0, 1} /\ u \in {0, 1} /\ v \in {0, 1} /\ w \in {0, 1}
    BY <2>1
  <2> HIDE DEF p, q, r, s, t, u, v, w
  <2>5. Digits(p + 2 * q + 4 * r + 8 * s + 16 * t + 32 * u + 64 * v + 128 * w,
               p, q, r, s, t, u, v, w)
    BY <2>4, Binary
  <2>6. Digits(n, p, q, r, s, t, u, v, w)
    BY <2>3, <2>5
  <2>7. QED
    BY <2>6 DEF Digits, p, q, r, s, t, u, v, w
<1>3. k \in {0, 1, 2, 3, 4, 5, 6, 7}
  OBVIOUS
<1> HIDE DEF n
<1>4. (n \div 2^k) % 2 = BitOf(nulls, b, k)
  BY <1>2, <1>3
<1>5. QED
  BY <1>2, <1>4 DEF n

LEMMA BitmapBack ==
  ASSUME NEW n \in Nat, NEW nulls \in SUBSET (1..n)
  PROVE  /\ BitmapOf(n, nulls) \in Seq(Nat) /\ Len(BitmapOf(n, nulls)) = BitmapBytes(n)
         /\ BitmapBytes(n) \in Nat /\ (n > 0 => BitmapBytes(n) > 0)
         /\ SetBits(BitmapOf(n, nulls), n) = nulls
<1> DEFINE B == BitmapBytes(n)
           bytes == BitmapOf(n, nulls)
<1>1. B \in Nat /\ (n > 0 => B > 0)
  BY DEF BitmapBytes
<1>2. bytes \in [1..B -> Nat]
  <2>1. ASSUME NEW b \in 1..B
        PROVE  ByteOf(nulls, b) \in Nat
    <3>1. b \in Nat /\ 0 \in 0..7
      OBVIOUS
    <3>2. ByteOf(nulls, b) \in 0..255
      BY <3>1, ByteBack
    <3>3. QED
      BY <3>2
  <2>2. QED
    BY <2>1 DEF BitmapOf
<1>3. bytes \in Seq(Nat) /\ Len(bytes) = B
  <2>1. DOMAIN bytes = 1..B
    BY <1>2
  <2> HIDE DEF bytes, B
  <2>2. QED
    BY <1>1, <1>2, <2>1
<1>4. ASSUME NEW i \in 1..n
      PROVE  (bytes[((i - 1) \div 8) + 1] \div 2^((i - 1) % 8)) % 2 = 1 <=> i \in nulls
  <2> DEFINE b == ((i - 1) \div 8) + 1
             k == (i - 1) % 8
  <2>1. b \in 1..B /\ b \in Nat /\ k \in 0..7 /\ 8 * (b - 1) + k + 1 = i
    BY DEF BitmapBytes
  <2>2. bytes[b] = ByteOf(nulls, b)
    BY <2>1 DEF BitmapOf
  <2> HIDE DEF b, k, bytes
  <2>3. (ByteOf(nulls, b) \div 2^k) % 2 = BitOf(nulls, b, k)
    BY <2>1, ByteBack
  <2>4. BitOf(nulls, b, k) = IF i \in nulls THEN 1 ELSE 0
    BY <2>1 DEF BitOf
  <2>5. QED
    BY <2>2, <2>3, <2>4 DEF b, k
<1>5. SetBits(bytes, n) = nulls
  <2>1. SetBits(bytes, n) =
           {i \in 1..n : (bytes[((i - 1) \div 8) + 1] \div 2^((i - 1) % 8)) % 2 = 1}
    BY DEF SetBits
  <2>2. SetBits(bytes, n) = {i \in 1..n : i \in nulls}
    <3> HIDE DEF bytes
    <3>1. QED
      BY <1>4, <2>1
  <2>3. QED
    BY <2>2
<1>6. QED
  BY <1>1, <1>3, <1>5

\* A bitmap of all columns is that of a row of nulls.
LEMMA AllAreNull ==
  ASSUME NEW types, NEW n \in Nat, Len(types) = n
  PROVE  AllColumns(types) = BitmapOf(n, 1..n)
<1>1. ASSUME NEW b \in 1..BitmapBytes(n)
      PROVE  2^Min({8, n - 8 * (b - 1)}) - 1 = ByteOf(1..n, b)
  <2> DEFINE m == n - 8 * (b - 1)
             k(i) == IF i < m THEN 1 ELSE 0
  <2>1. b \in Nat /\ m \in Nat /\ m > 0
    BY DEF BitmapBytes
  <2>2. \A i \in 0..7 : BitOf(1..n, b, i) = k(i)
    BY <2>1 DEF BitOf
  <2>3. ByteOf(1..n, b) = k(0) + 2 * k(1) + 4 * k(2) + 8 * k(3) + 16 * k(4) + 32 * k(5)
                          + 64 * k(6) + 128 * k(7)
    <3>1. /\ BitOf(1..n, b, 0) = k(0) /\ BitOf(1..n, b, 1) = k(1) /\ BitOf(1..n, b, 2) = k(2)
          /\ BitOf(1..n, b, 3) = k(3) /\ BitOf(1..n, b, 4) = k(4) /\ BitOf(1..n, b, 5) = k(5)
          /\ BitOf(1..n, b, 6) = k(6) /\ BitOf(1..n, b, 7) = k(7)
      BY <2>2
    <3> HIDE DEF k
    <3>2. ByteOf(1..n, b) = BitOf(1..n, b, 0) + 2 * BitOf(1..n, b, 1) + 4 * BitOf(1..n, b, 2)
                            + 8 * BitOf(1..n, b, 3) + 16 * BitOf(1..n, b, 4)
                            + 32 * BitOf(1..n, b, 5) + 64 * BitOf(1..n, b, 6)
                            + 128 * BitOf(1..n, b, 7)
      BY <2>1, ByteIs
    <3>3. QED
      BY <3>1, <3>2
  <2> DEFINE x == Min({8, m})
  <2>4. x = IF m < 8 THEN m ELSE 8
    <3> HIDE DEF m
    <3>1. QED
      BY <2>1 DEF Min
  <2>5. m \in {1, 2, 3, 4, 5, 6, 7} \/ ~(m < 8)
    BY <2>1
  <2> HIDE DEF x, m
  <2>6. CASE ~(m < 8)
    <3>1. x = 8 /\ k(0) = 1 /\ k(1) = 1 /\ k(2) = 1 /\ k(3) = 1 /\ k(4) = 1 /\ k(5) = 1
          /\ k(6) = 1 /\ k(7) = 1
      BY <2>1, <2>4, <2>6
    <3> HIDE DEF k
    <3>2. ByteOf(1..n, b) = 255
      BY <2>3, <3>1
    <3>3. 2^x - 1 = 255
      BY <3>1
    <3>4. QED
      BY <3>2, <3>3 DEF x, m
  <2>7. ASSUME m = 1 PROVE 2^x - 1 = ByteOf(1..n, b)
    <3>1. x = 1
      BY <2>4, <2>7
    <3>2. 2^1 - 1 = 1
      OBVIOUS
    <3>3. ByteOf(1..n, b) = 1
      BY <2>3, <2>7
    <3>4. QED
      BY <3>1, <3>2, <3>3
  <2>8. ASSUME m = 2 PROVE 2^x - 1 = ByteOf(1..n, b)
    <3>1. x = 2
      BY <2>4, <2>8
    <3>2. 2^2 - 1 = 3
      OBVIOUS
    <3>3. ByteOf(1..n, b) = 3
      BY <2>3, <2>8
    <3>4. QED
      BY <3>1, <3>2, <3>3
  <2>9. ASSUME m = 3 PROVE 2^x - 1 = ByteOf(1..n, b)
    <3>1. x = 3
      BY <2>4, <2>9
    <3>2. 2^3 - 1 = 7
      OBVIOUS
    <3>3. ByteOf(1..n, b) = 7
      BY <2>3, <2>9
    <3>4. QED
      BY <3>1, <3>2, <3>3
  <2>10. ASSUME m = 4 PROVE 2^x - 1 = ByteOf(1..n, b)
    <3>1. x = 4
      BY <2>4, <2>10
    <3>2. 2^4 - 1 = 15
      OBVIOUS
    <3>3. ByteOf(1..n, b) = 15
      BY <2>3, <2>10
    <3>4. QED
      BY <3>1, <3>2, <3>3
  <2>11. ASSUME m = 5 PROVE 2^x - 1 = ByteOf(1..n, b)
    <3>1. x = 5
      BY <2>4, <2>11
    <3>2. 2^5 - 1 = 31
      OBVIOUS
    <3>3. ByteOf(1..n, b) = 31
      BY <2>3, <2>11
    <3>4. QED
      BY <3>1, <3>2, <3>3
  <2>12. ASSUME m = 6 PROVE 2^x - 1 = ByteOf(1..n, b)
    <3>1. x = 6
      BY <2>4, <2>12
    <3>2. 2^6 - 1 = 63
      OBVIOUS
    <3>3. ByteOf(1..n, b) = 63
      BY <2>3, <2>12
    <3>4. QED
      BY <3>1, <3>2, <3>3
  <2>13. ASSUME m = 7 PROVE 2^x - 1 = ByteOf(1..n, b)
    <3>1. x = 7
      BY <2>4, <2>13
    <3>2. 2^7 - 1 = 127
      OBVIOUS
    <3>3. ByteOf(1..n, b) = 127
      BY <2>3, <2>13
    <3>4. QED
      BY <3>1, <3>2, <3>3
  <2>14. 2^x - 1 = ByteOf(1..n, b)
    BY <2>5, <2>6, <2>7, <2>8, <2>9, <2>10, <2>11, <2>12, <2>13 DEF x, m
  <2>15. QED
    BY <2>14 DEF x, m
<1>2. QED
  BY <1>1 DEF AllColumns, BitmapOf

-----------------------------------------------------------------------------
(* Rows.                                                                   *)

RowFits(types, row) == DOMAIN row = DOMAIN types /\ \A c \in DOMAIN types : Fits(types[c], row[c])

IsTypes(types) == types \in Seq(Kinds) /\ types # <<>>

NullsOf(types, row) == {c \in DOMAIN types : row[c] = Null}

\* The values of a row as they are sent and as they are meant.
SentRow(types, row) == [c \in DOMAIN types |-> SentOf(types[c], row[c])]
MeantRow(types, row) == [c \in DOMAIN types |-> MeantOf(types[c], row[c])]

LEMMA TypesAre ==
  ASSUME NEW types, IsTypes(types)
  PROVE  /\ Len(types) \in Nat \ {0} /\ DOMAIN types = 1..Len(types)
         /\ \A c \in 1..Len(types) : types[c] \in Kinds
BY DEF IsTypes

LEMMA RowWord ==
  ASSUME NEW types, IsTypes(types), NEW row, RowFits(types, row)
  PROVE  /\ EncodeRow(types, row) = BitmapOf(Len(types), NullsOf(types, row))
                                    \o FlattenSeq(SentRow(types, row))
         /\ SentRow(types, row) \in Seq(Seq(Nat)) /\ Len(SentRow(types, row)) = Len(types)
         /\ NullsOf(types, row) \in SUBSET (1..Len(types))
<1> DEFINE n == Len(types)
           nulls == NullsOf(types, row)
           size(m, p) == [i \in 1..p |-> (m \div 256^(i - 1)) % 256]
           column(c) ==
            IF c \in nulls THEN <<>>
            ELSE IF types[c] \in Strings THEN size(Len(row[c]), 1) \o row[c]
            ELSE IF types[c] \in DOMAIN Prefix
            THEN size(Len(row[c]), Prefix[types[c]]) \o row[c]
            ELSE row[c]
<1>1. n \in Nat \ {0} /\ DOMAIN types = 1..n /\ \A c \in 1..n : types[c] \in Kinds
  BY TypesAre
<1>2. EncodeRow(types, row) = BitmapOf(n, nulls) \o FlattenSeq([c \in DOMAIN types |-> column(c)])
  BY DEF EncodeRow, BitmapOf, ByteOf, NullsOf
<1>3. ASSUME NEW c \in 1..n
      PROVE  column(c) = SentOf(types[c], row[c]) /\ SentOf(types[c], row[c]) \in Seq(Nat)
  <2> DEFINE v == row[c]
             type == types[c]
  <2>1. type \in Kinds /\ Fits(type, v) /\ (c \in nulls <=> v = Null)
    BY <1>1 DEF RowFits, NullsOf
  <2>2. CASE v = Null
    <3>1. column(c) = <<>> /\ SentOf(type, v) = <<>>
      BY <2>1, <2>2 DEF SentOf
    <3>2. <<>> \in Seq(Nat)
      OBVIOUS
    <3>3. QED
      BY <3>1, <3>2
  <2>3. CASE v # Null
    <3>1. v \in Seq(Nat) /\ Len(v) \in Nat /\ (type \in Strings => Len(v) < 256)
      BY <2>1, <2>3, BytesAreNumbers DEF Fits
    <3>2. CASE type \in Strings
      <4> DEFINE m == Len(v)
      <4>1. size(m, 1) = <<m>>
        <5>1. m \in Nat /\ m < 256
          BY <3>1, <3>2
        <5> HIDE DEF m
        <5>2. (m \div 256^(1 - 1)) % 256 = m
          BY <5>1
        <5>3. QED
          BY <5>2
      <4>2. column(c) = size(m, 1) \o v
        BY <2>1, <2>3, <3>2
      <4>3. SentOf(type, v) = <<m>> \o v
        BY <2>3, <3>2 DEF SentOf
      <4>4. <<m>> \in Seq(Nat)
        BY <3>1
      <4>5. <<m>> \o v \in Seq(Nat)
        BY <3>1, <4>4
      <4>6. QED
        BY <4>1, <4>2, <4>3, <4>5
    <3>3. CASE type \notin Strings
      <4>1. type \notin DOMAIN Prefix
        BY <2>1, <3>3, KindSize
      <4>2. column(c) = v
        BY <2>1, <2>3, <3>3, <4>1
      <4>3. SentOf(type, v) = v
        BY <2>3, <3>3 DEF SentOf
      <4>4. QED
        BY <3>1, <4>2, <4>3
    <3>4. QED
      BY <3>2, <3>3
  <2>4. QED
    BY <2>2, <2>3
<1>4. [c \in DOMAIN types |-> column(c)] = SentRow(types, row)
  <2> HIDE DEF column
  <2>1. QED
    BY <1>1, <1>3 DEF SentRow
<1>5. SentRow(types, row) \in Seq(Seq(Nat)) /\ Len(SentRow(types, row)) = n
  <2> HIDE DEF n
  <2>1. SentRow(types, row) = [c \in 1..n |-> SentOf(types[c], row[c])]
    BY <1>1 DEF SentRow
  <2>2. SentRow(types, row) \in [1..n -> Seq(Nat)]
    BY <1>3, <2>1
  <2>3. QED
    BY <1>1, <2>1, <2>2
<1>6. nulls \in SUBSET (1..n)
  BY <1>1 DEF NullsOf
<1>7. EncodeRow(types, row) = BitmapOf(n, nulls) \o FlattenSeq(SentRow(types, row))
  <2> HIDE DEF column, nulls, n
  <2>1. QED
    BY <1>2, <1>4
<1>8. QED
  BY <1>5, <1>6, <1>7

\* The column with number c of a row.
Column(d, types, metas, nulls, r, c) ==
    IF c \in nulls THEN Yields(r, Null, 0) ELSE ReadColumn(d, r, types[c], metas[c])

RowFrom(d, a, types, metas, nulls) ==
    FoldLeftDomain(LAMBDA r, c : Column(d, types, metas, nulls, r, c), At(a), types)

\* What metadata read from a table map comes to.
IsMetas(types, metas) == \A c \in DOMAIN types : types[c] \notin Strings => metas[c] = 0

LEMMA AnyColumn ==
  ASSUME NEW d \in Seq(Nat), NEW types, IsTypes(types), NEW metas, IsMetas(types, metas), NEW nulls,
         NEW r \in Readings(ColumnValues), NEW c \in 1..Len(types)
  PROVE  Column(d, types, metas, nulls, r, c) \in Readings(ColumnValues)
<1>1. types[c] \in Kinds /\ (types[c] \notin Strings => metas[c] = 0)
  BY TypesAre DEF IsMetas
<1>2. CASE c \in nulls
  <2>1. r.at \in Nat \ {0} /\ r.got \in Seq(ColumnValues) /\ Null \in ColumnValues
    BY DEF Readings, ColumnValues
  <2>2. Append(r.got, Null) \in Seq(ColumnValues) /\ r.at + 0 \in Nat \ {0}
    BY <2>1
  <2>3. QED
    BY <1>2, <2>2 DEF Column, Yields, Readings
<1>3. CASE c \notin nulls
  <2> DEFINE type == types[c]
             meta == metas[c]
  <2>1. type \in Kinds /\ (type \notin Strings => meta = 0)
    BY <1>1
  <2> HIDE DEF type, meta
  <2>2. ReadColumn(d, r, type, meta) \in Readings(ColumnValues)
    BY <2>1, ColumnType
  <2>3. QED
    BY <1>3, <2>2 DEF Column, type, meta
<1>4. QED
  BY <1>2, <1>3

\* How a row is read: g[c] is what is known of it behind c columns.
RowGoes(g, d, a, types, metas, nulls) ==
    /\ g \in [0..Len(types) -> Readings(ColumnValues)]
    /\ g[0] = At(a)
    /\ \A c \in 1..Len(types) : g[c] = Column(d, types, metas, nulls, g[c - 1], c)
    /\ RowFrom(d, a, types, metas, nulls) = g[Len(types)]

\* A row is read column by column, from left to right.
LEMMA RowColumns ==
  ASSUME NEW d \in Seq(Nat), NEW a \in Nat \ {0},
         NEW types, IsTypes(types), NEW metas, IsMetas(types, metas), NEW nulls
  PROVE  \E g : RowGoes(g, d, a, types, metas, nulls)
<1> DEFINE n == Len(types)
           T == Readings(ColumnValues)
           go(x, c) == Column(d, types, metas, nulls, x, c)
           step == [c \in 1..n |-> [x \in T |-> go(x, c)]]
           ids == [c \in DOMAIN types |-> c]
           Eq(g) == g = [s \in SUBSET (1..n) |->
                            IF s = {} THEN At(a) ELSE go(g[s \ {Max(s)}], ids[Max(s)])]
           parts == CHOOSE g : Eq(g)
<1>1. n \in Nat /\ DOMAIN types = 1..n
  BY TypesAre
<1>2. RowFrom(d, a, types, metas, nulls) = parts[1..n]
  <2>1. DOMAIN ids = 1..n
    BY <1>1
  <2>2. QED
    BY <1>1, <2>1 DEF RowFrom, FoldLeftDomain, FoldLeft, MapThenFoldSet
<1>3. At(a) \in T
  BY DEF At, Readings
<1>4. \A c \in 1..n : \A x \in T : go(x, c) \in T
  BY AnyColumn
<1> HIDE DEF go
<1>5. step \in [1..n -> [T -> T]]
  <2> HIDE DEF T, n
  <2>1. QED
    BY <1>4
<1>6. \A s \in SUBSET (1..n) : s # {} =>
         Max(s) \in 1..n /\ s \ {Max(s)} \in SUBSET (1..n) /\ ids[Max(s)] = Max(s)
  <2> HIDE DEF n
  <2>1. \A s \in SUBSET (1..n) : s # {} => Max(s) \in 1..n /\ s \ {Max(s)} \in SUBSET (1..n)
    BY <1>1, MaxOfPart
  <2>2. QED
    BY <1>1, <2>1
<1> HIDE DEF ids, n
<1>7. \E g : Eq(g)
  <2>1. PICK f : Folds(f, n, T, At(a), step)
    <3> HIDE DEF step, T
    <3>1. QED
      BY <1>1, <1>3, <1>5, FoldExists
  <2>2. ASSUME NEW s \in SUBSET (1..n), s # {}
        PROVE  f[s] = go(f[s \ {Max(s)}], ids[Max(s)])
    <3> HIDE DEF T
    <3>1. f[s] = step[Max(s)][f[s \ {Max(s)}]]
      BY <2>1, <2>2 DEF Folds
    <3>2. Max(s) \in 1..n /\ ids[Max(s)] = Max(s) /\ f[s \ {Max(s)}] \in T
      BY <1>6, <2>1, <2>2 DEF Folds
    <3>3. QED
      BY <3>1, <3>2
  <2>3. f[{}] = At(a) /\ f = [s \in SUBSET (1..n) |-> f[s]]
    BY <2>1 DEF Folds
  <2>4. Eq(f)
    <3> HIDE DEF step, T
    <3>1. QED
      BY <2>2, <2>3
  <2>5. QED
    BY <2>4
<1>8. Eq(parts)
  <2> HIDE DEF Eq
  <2>1. QED
    BY <1>7
<1> HIDE DEF parts
<1>9. PICK g : Steps(g, n, T, At(a), step) /\ parts[1..n] = g[n]
  <2>1. parts[{}] = At(a)
    BY <1>8
  <2>2. \A s \in SUBSET (1..n) :
           s # {} /\ parts[s \ {Max(s)}] \in T => parts[s] = step[Max(s)][parts[s \ {Max(s)}]]
    <3> HIDE DEF T
    <3>1. QED
      BY <1>6, <1>8
  <2> HIDE DEF step, T
  <2>3. Unfolds(parts, n, T, At(a), step)
    BY <2>1, <2>2 DEF Unfolds
  <2>4. QED
    BY <1>1, <1>3, <1>5, <2>3, FoldSteps
<1>10. g \in [0..n -> T] /\ g[0] = At(a) /\ \A c \in 1..n : g[c] = go(g[c - 1], c)
  <2> HIDE DEF T
  <2>1. QED
    BY <1>9 DEF Steps
<1>11. QED
  <2>1. RowFrom(d, a, types, metas, nulls) = g[n]
    BY <1>2, <1>9
  <2> HIDE DEF T
  <2>2. RowGoes(g, d, a, types, metas, nulls)
    BY <1>10, <2>1 DEF go, n, T, RowGoes
  <2>3. QED
    BY <2>2

LEMMA RowIs ==
  ASSUME NEW d, NEW a, NEW types, NEW metas
  PROVE  LET n == Len(types)
             bitmap == BitmapBytes(n)
         IN  ReadRow(d, a, types, metas) =
                IF a > Len(d) \/ types = <<>> \/ bitmap > Len(d) - a + 1 THEN At(a)
                ELSE RowFrom(d, a + bitmap, types, metas,
                             SetBits(SubSeq(d, a, a + bitmap - 1), n))
BY DEF ReadRow, RowFrom, Column, FoldLeftDomain, FoldLeft, MapThenFoldSet

\* Whatever stands in the data, what is read is a row or nothing.
LEMMA RowType ==
  ASSUME NEW d \in Seq(Nat), NEW a \in Nat \ {0},
         NEW types, IsTypes(types), NEW metas, IsMetas(types, metas)
  PROVE  ReadRow(d, a, types, metas) \in Readings(ColumnValues)
<1> DEFINE n == Len(types)
           bitmap == BitmapBytes(n)
           nulls == SetBits(SubSeq(d, a, a + bitmap - 1), n)
<1>1. n \in Nat /\ bitmap \in Nat
  BY TypesAre DEF BitmapBytes
<1>2. At(a) \in Readings(ColumnValues)
  BY DEF At, Readings
<1>3. RowFrom(d, a + bitmap, types, metas, nulls) \in Readings(ColumnValues)
  <2>1. a + bitmap \in Nat \ {0}
    BY <1>1
  <2> DEFINE b == a + bitmap
  <2> HIDE DEF nulls, n, bitmap, b
  <2>2. b \in Nat \ {0}
    BY <2>1 DEF b
  <2>3. PICK g : RowGoes(g, d, b, types, metas, nulls)
    BY <2>2, RowColumns
  <2>4. Len(types) \in 0..Len(types)
    BY <1>1 DEF n
  <2>5. QED
    BY <2>3, <2>4 DEF b, RowGoes
<1>4. ReadRow(d, a, types, metas) \in {At(a), RowFrom(d, a + bitmap, types, metas, nulls)}
  BY RowIs
<1>5. QED
  BY <1>2, <1>3, <1>4

\* The words of a row are data, and not nothing.
LEMMA RowWords ==
  ASSUME NEW types, IsTypes(types), NEW row, RowFits(types, row)
  PROVE  /\ EncodeRow(types, row) \in Seq(Nat) /\ Len(EncodeRow(types, row)) \in Nat \ {0}
         /\ FlattenSeq(SentRow(types, row)) \in Seq(Nat)
         /\ BitmapOf(Len(types), NullsOf(types, row)) \in Seq(Nat)
<1> DEFINE n == Len(types)
           b == BitmapOf(n, NullsOf(types, row))
           f == FlattenSeq(SentRow(types, row))
<1>1. /\ EncodeRow(types, row) = b \o f
      /\ SentRow(types, row) \in Seq(Seq(Nat)) /\ n \in Nat /\ n > 0
      /\ NullsOf(types, row) \in SUBSET (1..n)
  BY RowWord, TypesAre
<1>2. b \in Seq(Nat) /\ Len(b) \in Nat /\ Len(b) > 0
  BY <1>1, BitmapBack
<1>3. f \in Seq(Nat)
  BY <1>1, WordsStand
<1> HIDE DEF b, f
<1>4. b \o f \in Seq(Nat) /\ Len(b \o f) = Len(b) + Len(f) /\ Len(f) \in Nat
  BY <1>2, <1>3, WordAppended
<1>5. QED
  BY <1>1, <1>2, <1>3, <1>4 DEF b, f

\* What is read where a row stands is the row.
RowStands(d, a, types, metas, row) ==
    ReadRow(d, a, types, metas)
        = [at |-> a + Len(EncodeRow(types, row)), got |-> MeantRow(types, row)]

LEMMA StandingRow ==
  ASSUME NEW d \in Seq(Nat), NEW a \in Nat \ {0},
         NEW types, IsTypes(types), NEW metas, IsMetas(types, metas),
         NEW row, RowFits(types, row), Stands(d, a, EncodeRow(types, row))
  PROVE  RowStands(d, a, types, metas, row)
<1> DEFINE n == Len(types)
           bitmap == BitmapBytes(n)
           nulls == NullsOf(types, row)
           bits == BitmapOf(n, nulls)
           words == SentRow(types, row)
           meant == MeantRow(types, row)
           flat == FlattenSeq(words)
           b == a + bitmap
<1>1. /\ EncodeRow(types, row) = bits \o flat /\ words \in Seq(Seq(Nat)) /\ Len(words) = n
      /\ n \in Nat \ {0} /\ DOMAIN types = 1..n /\ nulls \in SUBSET (1..n)
      /\ \A c \in 1..n : types[c] \in Kinds
      /\ bits \in Seq(Nat) /\ flat \in Seq(Nat)
  BY RowWord, RowWords, TypesAre
<1>2. Len(bits) = bitmap /\ bitmap \in Nat /\ bitmap > 0 /\ SetBits(bits, n) = nulls
  BY <1>1, BitmapBack
<1>3. Len(d) \in Nat /\ Stands(d, a, bits) /\ Stands(d, b, flat)
  <2>1. Stands(d, a, bits \o flat) /\ Len(d) \in Nat
    BY <1>1
  <2> HIDE DEF bits, flat, bitmap, b
  <2>2. Stands(d, a, bits) /\ Stands(d, a + Len(bits), flat)
    BY <1>1, <2>1, WordParts
  <2>3. QED
    BY <1>2, <2>1, <2>2 DEF b
<1>4. SubSeq(d, a, a + bitmap - 1) = bits
  <2> HIDE DEF bits, bitmap
  <2>1. SubSeq(d, a, a + Len(bits) - 1) = bits
    BY <1>1, <1>3, WordIsPart
  <2>2. QED
    BY <1>2, <2>1
<1>5. ~(a > Len(d) \/ types = <<>> \/ bitmap > Len(d) - a + 1)
  <2>1. a + Len(bits) <= Len(d) + 1 /\ types # <<>>
    BY <1>3 DEF Stands, IsTypes
  <2> HIDE DEF bits, bitmap
  <2>2. QED
    BY <1>2, <1>3, <2>1
<1>6. ReadRow(d, a, types, metas) = RowFrom(d, b, types, metas, nulls)
  BY <1>2, <1>4, <1>5, RowIs
<1> HIDE DEF bits, bitmap, nulls
<1>7. PICK at \in [1..(n + 1) -> Nat \ {0}] :
          /\ at[1] = 1
          /\ \A i \in 1..n : at[i + 1] = at[i] + Len(words[i]) /\ Stands(flat, at[i], words[i])
          /\ Len(flat) = at[n + 1] - 1
  <2> HIDE DEF words, n
  <2>1. QED
    BY <1>1, WordsStand
<1>8. b \in Nat \ {0}
  BY <1>2
<1> HIDE DEF b
<1>9. PICK g : /\ g \in [0..n -> Readings(ColumnValues)]
               /\ g[0] = At(b) /\ \A c \in 1..n : g[c] = Column(d, types, metas, nulls, g[c - 1], c)
               /\ RowFrom(d, b, types, metas, nulls) = g[n]
  <2>1. PICK g : RowGoes(g, d, b, types, metas, nulls)
    BY <1>8, RowColumns, Zenon
  <2>2. QED
    BY <2>1 DEF RowGoes
<1>10. /\ \A c \in 1..n : words[c] = SentOf(types[c], row[c]) /\ meant[c] = MeantOf(types[c], row[c])
       /\ \A c \in 1..n : c \in nulls <=> row[c] = Null
  BY <1>1 DEF SentRow, MeantRow, NullsOf, nulls
<1>11. meant \in Seq(Range(meant)) /\ Len(meant) = n
  <2>1. meant = [c \in 1..n |-> meant[c]]
    BY <1>1 DEF MeantRow
  <2> HIDE DEF meant, n
  <2>2. DOMAIN meant = 1..n
    BY <2>1
  <2>3. \A c \in 1..n : meant[c] \in Range(meant)
    BY <2>2 DEF Range
  <2>4. meant \in [1..n -> Range(meant)]
    BY <2>1, <2>3
  <2>5. QED
    BY <1>1, <2>2, <2>4
<1> HIDE DEF words, meant, flat
<1> DEFINE h == [c \in 0..n |-> [at |-> b + at[c + 1] - 1, got |-> SubSeq(meant, 1, c)]]
<1>12. h[0] = g[0]
  <2>1. SubSeq(meant, 1, 0) = <<>> /\ 0 \in 0..n /\ 0 + 1 = 1
    BY <1>1
  <2>2. b + 1 - 1 = b
    BY <1>8
  <2>3. QED
    BY <1>7, <1>9, <2>1, <2>2 DEF At
<1>13. ASSUME NEW c \in 1..n, g[c - 1] = h[c - 1]
       PROVE  g[c] = h[c]
  <2> DEFINE type == types[c]
             v == row[c]
             meta == metas[c]
             so == SubSeq(meant, 1, c - 1)
             p == b + at[c] - 1
             q == b + at[c + 1] - 1
  <2>1. c - 1 \in 0..n /\ c \in 0..n /\ (c - 1) + 1 = c /\ c \in 1..(n + 1) /\ c + 1 \in 1..(n + 1)
    BY <1>1
  <2>2. g[c - 1] = [at |-> p, got |-> so]
    BY <1>13, <2>1
  <2>3. h[c] = [at |-> q, got |-> SubSeq(meant, 1, c)]
    BY <2>1
  <2>4. at[c] \in Nat \ {0} /\ at[c + 1] = at[c] + Len(SentOf(type, v)) /\ Stands(flat, at[c], SentOf(type, v))
    BY <1>7, <1>10, <2>1
  <2>5. Len(SentOf(type, v)) \in Nat
    <3>1. words[c] \in Seq(Nat)
      BY <1>1
    <3>2. QED
      BY <1>10, <3>1
  <2>6. q = p + Len(SentOf(type, v)) /\ p \in Nat
    BY <1>8, <2>4, <2>5
  <2>7. Stands(d, p, SentOf(type, v))
    <3> DEFINE w == SentOf(type, v)
    <3>1. Len(w) \in Nat /\ Len(flat) \in Nat /\ Stands(flat, at[c], w)
      BY <1>1, <2>4, <2>5
    <3> HIDE DEF w
    <3>2. QED
      BY <1>3, <3>1, WordInside DEF w
  <2>8. Append(so, meant[c]) = SubSeq(meant, 1, c)
    BY <1>11, PartGrows
  <2>9. g[c] = Column(d, types, metas, nulls, [at |-> p, got |-> so], c)
    BY <1>9, <2>2
  <2>10. type \in Kinds /\ Fits(type, v) /\ (type \notin Strings => meta = 0)
    BY <1>1 DEF RowFits, IsMetas
  <2>11. meant[c] = MeantOf(type, v)
    BY <1>10
  <2> HIDE DEF h, so, p, q
  <2>12. CASE v = Null
    <3>1. g[c] = [at |-> p + 0, got |-> Append(so, Null)]
      BY <1>10, <2>9, <2>12 DEF Column, Yields
    <3>2. SentOf(type, v) = <<>> /\ MeantOf(type, v) = Null /\ Len(<<>>) = 0
      BY <2>12 DEF SentOf, MeantOf
    <3>3. q = p + 0
      BY <2>6, <3>2
    <3>4. QED
      BY <2>3, <2>8, <2>11, <3>1, <3>2, <3>3
  <2>13. CASE v # Null
    <3> DEFINE r == [at |-> p, got |-> so]
    <3>1. g[c] = ReadColumn(d, r, type, meta)
      BY <1>10, <2>9, <2>13 DEF Column
    <3> HIDE DEF type, meta, v
    <3>2. ColumnIs(d, p, type, meta, v)
      BY <2>6, <2>7, <2>10, <2>13, ColumnBack
    <3>3. QED
      BY <2>3, <2>6, <2>8, <2>11, <3>1, <3>2 DEF ColumnIs
  <2>14. QED
    BY <2>12, <2>13
<1>14. g[n] = h[n]
  <2> HIDE DEF h
  <2>1. QED
    BY <1>1, <1>12, <1>13, GoOnAlike
<1>15. h[n] = [at |-> b + at[n + 1] - 1, got |-> meant]
  <2>1. n \in 0..n /\ SubSeq(meant, 1, n) = meant
    BY <1>1, <1>11, SubSeqFull
  <2>2. QED
    BY <2>1
<1>16. b + at[n + 1] - 1 = a + Len(EncodeRow(types, row))
  <2>1. Len(bits \o flat) = Len(bits) + Len(flat) /\ Len(flat) \in Nat
    BY <1>1, WordAppended
  <2>2. at[n + 1] \in Nat
    <3>1. n + 1 \in 1..(n + 1)
      BY <1>1
    <3>2. QED
      BY <1>7, <3>1
  <2>3. QED
    BY <1>1, <1>2, <1>7, <2>1, <2>2 DEF b
<1>17. QED
  <2> HIDE DEF h
  <2>1. ReadRow(d, a, types, metas) = [at |-> b + at[n + 1] - 1, got |-> meant]
    BY <1>6, <1>9, <1>14, <1>15
  <2>2. QED
    BY <1>16, <2>1 DEF RowStands, meant

-----------------------------------------------------------------------------
(* Rows one behind the other.                                              *)

RowsRead == Readings(Seq(ColumnValues))

\* What is known of the rows behind one more.
OneMore(d, types, metas, r) ==
    LET row == ReadRow(d, r.at, types, metas)
    IN  IF r.at > Len(d) \/ row.at = r.at THEN r
        ELSE [at |-> row.at, got |-> Append(r.got, row.got)]

LEMMA OneMoreType ==
  ASSUME NEW d \in Seq(Nat), NEW types, IsTypes(types), NEW metas, IsMetas(types, metas),
         NEW r \in RowsRead
  PROVE  OneMore(d, types, metas, r) \in RowsRead
<1> DEFINE row == ReadRow(d, r.at, types, metas)
<1>1. r.at \in Nat \ {0} /\ r.got \in Seq(Seq(ColumnValues))
  BY DEF RowsRead, Readings
<1>2. row \in Readings(ColumnValues)
  BY <1>1, RowType
<1> HIDE DEF row
<1>3. row.at \in Nat \ {0} /\ row.got \in Seq(ColumnValues)
  BY <1>2 DEF Readings
<1>4. Append(r.got, row.got) \in Seq(Seq(ColumnValues))
  <2> DEFINE U == Seq(ColumnValues)
  <2>1. r.got \in Seq(U) /\ row.got \in U
    BY <1>1, <1>3
  <2> HIDE DEF U
  <2>2. Append(r.got, row.got) \in Seq(U)
    BY <2>1
  <2>3. QED
    BY <2>2 DEF U
<1>5. [at |-> row.at, got |-> Append(r.got, row.got)] \in RowsRead
  BY <1>3, <1>4 DEF RowsRead, Readings
<1>6. OneMore(d, types, metas, r) \in {r, [at |-> row.at, got |-> Append(r.got, row.got)]}
  BY DEF OneMore, row
<1>7. QED
  BY <1>5, <1>6

\* How rows are read: g[c] is what is known of them behind c of them.
RowsGo(g, d, types, metas) ==
    /\ g \in [0..Len(d) -> RowsRead]
    /\ g[0] = At(1)
    /\ \A c \in 1..Len(d) : g[c] = OneMore(d, types, metas, g[c - 1])
    /\ ReadRows(d, types, metas) = g[Len(d)].got

LEMMA RowsOneByOne ==
  ASSUME NEW d \in Seq(Nat), NEW types, IsTypes(types), NEW metas, IsMetas(types, metas)
  PROVE  \E g : RowsGo(g, d, types, metas)
<1> DEFINE n == Len(d)
           T == RowsRead
           go(x) == OneMore(d, types, metas, x)
           step == [c \in 1..n |-> [x \in T |-> go(x)]]
           Eq(g) == g = [s \in SUBSET (1..n) |->
                            IF s = {} THEN At(1) ELSE go(g[s \ {Max(s)}])]
           parts == CHOOSE g : Eq(g)
<1>1. n \in Nat /\ DOMAIN d = 1..n
  OBVIOUS
<1>2. ReadRows(d, types, metas) = parts[1..n].got
  BY <1>1 DEF ReadRows, OneMore, FoldLeftDomain, FoldLeft, MapThenFoldSet
<1>3. At(1) \in T
  BY DEF At, RowsRead, Readings
<1>4. \A x \in T : go(x) \in T
  BY OneMoreType
<1> HIDE DEF go
<1>5. step \in [1..n -> [T -> T]]
  <2> HIDE DEF T, n
  <2>1. QED
    BY <1>4
<1>6. \A s \in SUBSET (1..n) : s # {} => Max(s) \in 1..n /\ s \ {Max(s)} \in SUBSET (1..n)
  <2> HIDE DEF n
  <2>1. QED
    BY <1>1, MaxOfPart
<1> HIDE DEF n
<1>7. \E g : Eq(g)
  <2>1. PICK f : Folds(f, n, T, At(1), step)
    <3> HIDE DEF step, T
    <3>1. QED
      BY <1>1, <1>3, <1>5, FoldExists
  <2>2. ASSUME NEW s \in SUBSET (1..n), s # {}
        PROVE  f[s] = go(f[s \ {Max(s)}])
    <3> HIDE DEF T
    <3>1. f[s] = step[Max(s)][f[s \ {Max(s)}]]
      BY <2>1, <2>2 DEF Folds
    <3>2. Max(s) \in 1..n /\ f[s \ {Max(s)}] \in T
      BY <1>6, <2>1, <2>2 DEF Folds
    <3>3. QED
      BY <3>1, <3>2
  <2>3. f[{}] = At(1) /\ f = [s \in SUBSET (1..n) |-> f[s]]
    BY <2>1 DEF Folds
  <2>4. Eq(f)
    <3> HIDE DEF step, T
    <3>1. QED
      BY <2>2, <2>3
  <2>5. QED
    BY <2>4
<1>8. Eq(parts)
  <2> HIDE DEF Eq
  <2>1. QED
    BY <1>7
<1> HIDE DEF parts
<1>9. PICK g : Steps(g, n, T, At(1), step) /\ parts[1..n] = g[n]
  <2>1. parts[{}] = At(1)
    BY <1>8
  <2>2. \A s \in SUBSET (1..n) :
           s # {} /\ parts[s \ {Max(s)}] \in T => parts[s] = step[Max(s)][parts[s \ {Max(s)}]]
    <3> HIDE DEF T
    <3>1. QED
      BY <1>6, <1>8
  <2> HIDE DEF step, T
  <2>3. Unfolds(parts, n, T, At(1), step)
    BY <2>1, <2>2 DEF Unfolds
  <2>4. QED
    BY <1>1, <1>3, <1>5, <2>3, FoldSteps
<1>10. g \in [0..n -> T] /\ g[0] = At(1) /\ \A c \in 1..n : g[c] = go(g[c - 1])
  <2> HIDE DEF T
  <2>1. QED
    BY <1>9 DEF Steps
<1>11. QED
  <2>1. ReadRows(d, types, metas) = g[n].got
    BY <1>2, <1>9
  <2> HIDE DEF T
  <2>2. RowsGo(g, d, types, metas)
    BY <1>10, <2>1 DEF go, n, T, RowsGo
  <2>3. QED
    BY <2>2

\* The data are the rows, one behind the other: row i stands at pos[i].
Listed(d, types, rows, pos) ==
    /\ pos \in [1..(Len(rows) + 1) -> Nat \ {0}]
    /\ pos[1] = 1 /\ pos[Len(rows) + 1] = Len(d) + 1
    /\ \A i \in 1..Len(rows) :
          /\ RowFits(types, rows[i]) /\ Stands(d, pos[i], EncodeRow(types, rows[i]))
          /\ pos[i + 1] = pos[i] + Len(EncodeRow(types, rows[i]))

MeantRows(types, rows) == [i \in 1..Len(rows) |-> MeantRow(types, rows[i])]

RowsAre(d, types, metas, rows) == ReadRows(d, types, metas) = MeantRows(types, rows)

\* There are no more rows than bytes.
LEMMA RowsHaveBytes ==
  ASSUME NEW m \in Nat, NEW pos \in [1..(m + 1) -> Nat \ {0}], pos[1] = 1,
         \A i \in 1..m : pos[i + 1] > pos[i]
  PROVE  pos[m + 1] >= m + 1
<1> DEFINE N == {k \in Nat : k <= m => pos[k + 1] >= k + 1}
<1>1. 0 \in N
  OBVIOUS
<1>2. ASSUME NEW k \in Nat, k \in N
      PROVE  k + 1 \in N
  <2>1. SUFFICES ASSUME k + 1 <= m
                 PROVE  pos[(k + 1) + 1] >= (k + 1) + 1
    OBVIOUS
  <2>2. k + 1 \in 1..m /\ k + 1 \in 1..(m + 1) /\ (k + 1) + 1 \in 1..(m + 1) /\ k <= m
    BY <2>1
  <2>3. pos[k + 1] >= k + 1 /\ pos[(k + 1) + 1] > pos[k + 1]
    BY <1>2, <2>2
  <2>4. pos[k + 1] \in Nat /\ pos[(k + 1) + 1] \in Nat
    BY <2>2
  <2>5. QED
    BY <2>3, <2>4
<1>3. Nat \subseteq N
  <2> HIDE DEF N
  <2>1. QED
    BY <1>1, <1>2, SetInduction
<1>4. QED
  BY <1>3

\* Rows one behind the other are read, and nothing else.
LEMMA RowsBack ==
  ASSUME NEW d \in Seq(Nat), NEW types, IsTypes(types), NEW metas, IsMetas(types, metas),
         NEW rows, Len(rows) \in Nat, NEW pos, Listed(d, types, rows, pos)
  PROVE  RowsAre(d, types, metas, rows)
<1> DEFINE n == Len(d)
           m == Len(rows)
           all == MeantRows(types, rows)
<1>1. n \in Nat /\ m \in Nat
  OBVIOUS
<1>2. /\ pos \in [1..(m + 1) -> Nat \ {0}] /\ pos[1] = 1 /\ pos[m + 1] = n + 1
      /\ \A i \in 1..m :
            /\ RowFits(types, rows[i]) /\ Stands(d, pos[i], EncodeRow(types, rows[i]))
            /\ pos[i + 1] = pos[i] + Len(EncodeRow(types, rows[i]))
  BY DEF Listed
<1>3. all \in Seq(Range(all)) /\ Len(all) = m /\ \A i \in 1..m : all[i] = MeantRow(types, rows[i])
  <2>1. all = [i \in 1..m |-> all[i]] /\ \A i \in 1..m : all[i] = MeantRow(types, rows[i])
    BY DEF MeantRows
  <2> HIDE DEF all, m
  <2>2. DOMAIN all = 1..m
    BY <2>1
  <2>3. \A i \in 1..m : all[i] \in Range(all)
    BY <2>2 DEF Range
  <2>4. all \in [1..m -> Range(all)]
    BY <2>1, <2>3
  <2> DEFINE U == Range(all)
  <2> HIDE DEF U
  <2>5. all \in [1..m -> U]
    BY <2>4 DEF U
  <2>6. all \in Seq(U) /\ Len(all) = m
    BY <1>1, <2>5
  <2>7. QED
    BY <2>1, <2>6 DEF U
<1> HIDE DEF all, n, m
<1>4. ASSUME NEW i \in 1..m
      PROVE  /\ Len(EncodeRow(types, rows[i])) \in Nat \ {0} /\ pos[i] \in Nat \ {0}
             /\ pos[i + 1] = pos[i] + Len(EncodeRow(types, rows[i]))
             /\ pos[i] <= n /\ pos[i + 1] > pos[i]
             /\ ReadRow(d, pos[i], types, metas) = [at |-> pos[i + 1], got |-> all[i]]
  <2> DEFINE row == rows[i]
             a == pos[i]
             w == EncodeRow(types, row)
  <2>1. RowFits(types, row) /\ Stands(d, a, w) /\ a \in Nat \ {0} /\ pos[i + 1] = a + Len(w)
    BY <1>1, <1>2
  <2>2. all[i] = MeantRow(types, row)
    BY <1>3
  <2> HIDE DEF row, a
  <2>3. Len(w) \in Nat \ {0}
    BY <2>1, RowWords
  <2>4. RowStands(d, a, types, metas, row)
    BY <2>1, StandingRow
  <2>5. a + Len(w) <= n + 1
    BY <2>1 DEF Stands, n
  <2>6. ReadRow(d, a, types, metas) = [at |-> pos[i + 1], got |-> all[i]]
    BY <2>1, <2>2, <2>4 DEF RowStands
  <2> HIDE DEF w
  <2>7. a <= n /\ pos[i + 1] > a
    BY <1>1, <2>1, <2>3, <2>5
  <2>8. QED
    BY <2>1, <2>3, <2>6, <2>7 DEF a, w, row
<1>5. m <= n
  <2>1. pos[m + 1] >= m + 1
    BY <1>1, <1>2, <1>4, RowsHaveBytes
  <2>2. QED
    BY <1>1, <1>2, <2>1
<1>6. PICK g : /\ g \in [0..n -> RowsRead]
               /\ g[0] = At(1) /\ \A c \in 1..n : g[c] = OneMore(d, types, metas, g[c - 1])
               /\ ReadRows(d, types, metas) = g[n].got
  <2>1. PICK g : RowsGo(g, d, types, metas)
    BY RowsOneByOne, Zenon
  <2>2. QED
    BY <2>1 DEF RowsGo, n
<1> DEFINE k(c) == IF c <= m THEN c ELSE m
           h == [c \in 0..n |-> [at |-> pos[k(c) + 1], got |-> SubSeq(all, 1, k(c))]]
<1>7. h[0] = g[0]
  <2>1. SubSeq(all, 1, 0) = <<>> /\ 0 \in 0..n /\ k(0) = 0 /\ 0 + 1 = 1
    BY <1>1, <1>3
  <2>2. QED
    BY <1>2, <1>6, <2>1 DEF At
<1>8. ASSUME NEW c \in 1..n, g[c - 1] = h[c - 1]
      PROVE  g[c] = h[c]
  <2>1. c - 1 \in 0..n /\ c \in 0..n
    BY <1>1
  <2>2. g[c - 1] = [at |-> pos[k(c - 1) + 1], got |-> SubSeq(all, 1, k(c - 1))]
    BY <1>8, <2>1
  <2>3. h[c] = [at |-> pos[k(c) + 1], got |-> SubSeq(all, 1, k(c))]
    BY <2>1
  <2>4. g[c] = OneMore(d, types, metas, g[c - 1])
    BY <1>6
  <2>5. CASE c <= m
    <3>1. c \in 1..m /\ k(c - 1) = c - 1 /\ k(c) = c /\ (c - 1) + 1 = c
      BY <1>1, <2>5
    <3> HIDE DEF h, k
    <3>2. g[c - 1] = [at |-> pos[c], got |-> SubSeq(all, 1, c - 1)]
      BY <2>2, <3>1
    <3>3. h[c] = [at |-> pos[c + 1], got |-> SubSeq(all, 1, c)]
      BY <2>3, <3>1
    <3>4. /\ ReadRow(d, pos[c], types, metas) = [at |-> pos[c + 1], got |-> all[c]]
          /\ ~(pos[c] > n) /\ pos[c + 1] # pos[c]
      <4>1. pos[c] <= n /\ pos[c + 1] > pos[c] /\ pos[c] \in Nat
        BY <1>4, <3>1
      <4>2. pos[c + 1] \in Nat
        BY <1>1, <1>2, <3>1
      <4>3. ReadRow(d, pos[c], types, metas) = [at |-> pos[c + 1], got |-> all[c]]
        BY <1>4, <3>1
      <4>4. QED
        BY <1>1, <4>1, <4>2, <4>3
    <3>5. OneMore(d, types, metas, g[c - 1])
             = [at |-> pos[c + 1], got |-> Append(SubSeq(all, 1, c - 1), all[c])]
      <4> DEFINE x == pos[c]
                 y == pos[c + 1]
                 so == SubSeq(all, 1, c - 1)
                 v == all[c]
      <4>1. /\ g[c - 1] = [at |-> x, got |-> so] /\ ~(x > Len(d)) /\ y # x
            /\ ReadRow(d, x, types, metas) = [at |-> y, got |-> v]
        BY <3>2, <3>4 DEF n
      <4> HIDE DEF x, y, so, v
      <4>2. OneMore(d, types, metas, g[c - 1]) = [at |-> y, got |-> Append(so, v)]
        BY <4>1 DEF OneMore
      <4>3. QED
        BY <4>2 DEF x, y, so, v
    <3>6. Append(SubSeq(all, 1, c - 1), all[c]) = SubSeq(all, 1, c)
      BY <1>3, <3>1, PartGrows
    <3>7. QED
      BY <2>4, <3>3, <3>5, <3>6
  <2>6. CASE ~(c <= m)
    <3>1. k(c - 1) = m /\ k(c) = m
      BY <1>1, <2>6
    <3> HIDE DEF h, k
    <3>2. g[c - 1] = [at |-> pos[m + 1], got |-> SubSeq(all, 1, m)] /\ h[c] = g[c - 1]
      BY <2>2, <2>3, <3>1
    <3>3. g[c - 1].at > Len(d)
      BY <1>1, <1>2, <3>2 DEF n
    <3>4. QED
      BY <2>4, <3>2, <3>3 DEF OneMore
  <2>7. QED
    BY <2>5, <2>6
<1>9. g[n] = h[n]
  <2> HIDE DEF h
  <2>1. QED
    BY <1>1, <1>7, <1>8, GoOnAlike
<1>10. h[n].got = all
  <2>1. n \in 0..n /\ k(n) = m /\ SubSeq(all, 1, m) = all
    BY <1>1, <1>3, <1>5, SubSeqFull
  <2>2. QED
    BY <2>1
<1>11. QED
  BY <1>6, <1>9, <1>10 DEF RowsAre, all

-----------------------------------------------------------------------------
(* Rows events.                                                            *)

EventRows(types, rows) ==
    /\ IsSeq(rows)
    /\ \A i \in DOMAIN rows : IsRow(types, rows[i].before) /\ IsRow(types, rows[i].after)

LEMMA RowMeant ==
  ASSUME NEW types, NEW row, IsRow(types, row)
  PROVE  RowFits(types, row) /\ Meant(types, row) = MeantRow(types, row)
BY DEF IsRow, RowFits, Meant, MeantRow, MeantOf

\* The rows that stand in an event, as before-images and after-images.
ListOf(op, rows) ==
    IF op = "u"
    THEN [j \in 1..(2 * Len(rows)) |->
             IF j % 2 = 1 THEN rows[(j + 1) \div 2].before ELSE rows[j \div 2].after]
    ELSE [i \in 1..Len(rows) |-> IF op = "c" THEN rows[i].after ELSE rows[i].before]

\* The words an event is made of.
WordsOf(types, op, rows) ==
    [i \in 1..Len(rows) |-> (IF op = "c" THEN <<>> ELSE EncodeRow(types, rows[i].before))
                             \o (IF op = "d" THEN <<>> ELSE EncodeRow(types, rows[i].after))]

IsList(types, d, rows) ==
    /\ d \in Seq(Nat) /\ Len(rows) \in Nat
    /\ \E pos : Listed(d, types, rows, pos)

\* One row for each row, or two.
LEMMA SingleListed ==
  ASSUME NEW types, IsTypes(types), NEW rows, EventRows(types, rows), NEW op \in {"c", "d"}
  PROVE  IsList(types, FlattenSeq(WordsOf(types, op, rows)), ListOf(op, rows))
<1> DEFINE m == Len(rows)
           words == WordsOf(types, op, rows)
           list == ListOf(op, rows)
           d == FlattenSeq(words)
<1>1. m \in Nat /\ DOMAIN rows = 1..m
  BY SeqDomain DEF EventRows
<1>2. ASSUME NEW i \in 1..m
      PROVE  RowFits(types, list[i]) /\ words[i] = EncodeRow(types, list[i]) /\ words[i] \in Seq(Nat)
  <2> DEFINE row == IF op = "c" THEN rows[i].after ELSE rows[i].before
             w == EncodeRow(types, row)
  <2>1. IsRow(types, row)
    BY <1>1 DEF EventRows
  <2>2. RowFits(types, row)
    BY <2>1, RowMeant
  <2>3. list[i] = row
    BY DEF ListOf
  <2> HIDE DEF row
  <2>4. w \in Seq(Nat)
    BY <2>2, RowWords
  <2>5. words[i] = (IF op = "c" THEN <<>> \o w ELSE w \o <<>>)
    BY DEF WordsOf, row
  <2> HIDE DEF w
  <2>6. <<>> \o w = w /\ w \o <<>> = w
    BY <2>4
  <2>7. QED
    BY <2>2, <2>3, <2>4, <2>5, <2>6 DEF w
<1>3. Len(words) = m /\ Len(list) = m
  <2>1. op # "u"
    OBVIOUS
  <2>2. list = [i \in 1..m |-> IF op = "c" THEN rows[i].after ELSE rows[i].before]
    BY <2>1 DEF ListOf
  <2>3. Len(words) = m
    BY <1>1 DEF WordsOf
  <2> HIDE DEF list, m
  <2>4. Len(list) = m
    BY <1>1, <2>2
  <2>5. QED
    BY <2>3, <2>4
<1>4. words \in Seq(Seq(Nat))
  <2> DEFINE U == Seq(Nat)
  <2>1. words = [i \in 1..m |-> words[i]]
    BY DEF WordsOf
  <2> HIDE DEF words, m, U
  <2>2. \A i \in 1..m : words[i] \in U
    BY <1>2 DEF U
  <2>3. words \in [1..m -> U]
    BY <2>1, <2>2
  <2>4. words \in Seq(U)
    BY <1>1, <2>3
  <2>5. QED
    BY <2>4 DEF U
<1> HIDE DEF words, list
<1>5. PICK at \in [1..(m + 1) -> Nat \ {0}] :
          /\ at[1] = 1
          /\ \A i \in 1..m : at[i + 1] = at[i] + Len(words[i]) /\ Stands(d, at[i], words[i])
          /\ d \in Seq(Nat) /\ Len(d) = at[m + 1] - 1
  <2>1. Len(words) = m
    BY <1>3
  <2> HIDE DEF m
  <2>2. QED
    BY <1>4, <2>1, WordsStand
<1>6. Listed(d, types, list, at)
  <2>1. at[m + 1] \in Nat
    <3>1. m + 1 \in 1..(m + 1)
      BY <1>1
    <3>2. QED
      BY <1>5, <3>1
  <2>2. at[m + 1] = Len(d) + 1
    <3> DEFINE x == at[m + 1]
    <3>1. x \in Nat /\ Len(d) = x - 1
      BY <1>5, <2>1
    <3> HIDE DEF x
    <3>2. x = Len(d) + 1
      BY <3>1
    <3>3. QED
      BY <3>2 DEF x
  <2> HIDE DEF d, m
  <2>3. QED
    BY <1>2, <1>3, <1>5, <2>2 DEF Listed
<1>7. QED
  BY <1>1, <1>3, <1>5, <1>6 DEF IsList, list, words

LEMMA PairListed ==
  ASSUME NEW types, IsTypes(types), NEW rows, EventRows(types, rows)
  PROVE  IsList(types, FlattenSeq(WordsOf(types, "u", rows)), ListOf("u", rows))
<1> DEFINE m == Len(rows)
           words == WordsOf(types, "u", rows)
           list == ListOf("u", rows)
           d == FlattenSeq(words)
           b(i) == EncodeRow(types, rows[i].before)
           a(i) == EncodeRow(types, rows[i].after)
<1>1. m \in Nat /\ DOMAIN rows = 1..m
  BY SeqDomain DEF EventRows
<1>2. ASSUME NEW i \in 1..m
      PROVE  /\ RowFits(types, rows[i].before) /\ RowFits(types, rows[i].after)
             /\ b(i) \in Seq(Nat) /\ a(i) \in Seq(Nat) /\ words[i] = b(i) \o a(i)
             /\ words[i] \in Seq(Nat) /\ Len(words[i]) = Len(b(i)) + Len(a(i))
             /\ Len(b(i)) \in Nat /\ Len(a(i)) \in Nat
  <2>1. RowFits(types, rows[i].before) /\ RowFits(types, rows[i].after)
    BY <1>1, RowMeant DEF EventRows
  <2>2. b(i) \in Seq(Nat) /\ a(i) \in Seq(Nat)
    BY <2>1, RowWords
  <2>3. words[i] = b(i) \o a(i)
    BY DEF WordsOf
  <2> HIDE DEF a, b
  <2>4. /\ b(i) \o a(i) \in Seq(Nat) /\ Len(b(i) \o a(i)) = Len(b(i)) + Len(a(i))
        /\ Len(b(i)) \in Nat /\ Len(a(i)) \in Nat
    BY <2>2, WordAppended
  <2>5. QED
    BY <2>1, <2>2, <2>3, <2>4
<1>3. Len(words) = m /\ Len(list) = 2 * m
  BY <1>1 DEF WordsOf, ListOf
<1>4. words \in Seq(Seq(Nat))
  <2> DEFINE U == Seq(Nat)
  <2>1. words = [i \in 1..m |-> words[i]]
    BY DEF WordsOf
  <2> HIDE DEF words, m, U, a, b
  <2>2. \A i \in 1..m : words[i] \in U
    BY <1>2 DEF U
  <2>3. words \in [1..m -> U]
    BY <2>1, <2>2
  <2>4. words \in Seq(U)
    BY <1>1, <2>3
  <2>5. QED
    BY <2>4 DEF U
<1>5. \A i \in 1..m : list[2 * i - 1] = rows[i].before /\ list[2 * i] = rows[i].after
  <2>1. \A i \in 1..m : /\ 2 * i - 1 \in 1..(2 * m) /\ 2 * i \in 1..(2 * m)
                        /\ (2 * i - 1) % 2 = 1 /\ (2 * i) % 2 = 0
                        /\ ((2 * i - 1) + 1) \div 2 = i /\ (2 * i) \div 2 = i
    <3> HIDE DEF m
    <3>1. QED
      BY <1>1
  <2>2. list = [j \in 1..(2 * m) |->
                  IF j % 2 = 1 THEN rows[(j + 1) \div 2].before ELSE rows[j \div 2].after]
    BY DEF ListOf
  <2> HIDE DEF list, m
  <2>3. QED
    BY <2>1, <2>2
<1> HIDE DEF words, list, a, b
<1>6. PICK at \in [1..(m + 1) -> Nat \ {0}] :
          /\ at[1] = 1
          /\ \A i \in 1..m : at[i + 1] = at[i] + Len(words[i]) /\ Stands(d, at[i], words[i])
          /\ d \in Seq(Nat) /\ Len(d) = at[m + 1] - 1
  <2> HIDE DEF m
  <2>1. QED
    BY <1>3, <1>4, WordsStand
<1> HIDE DEF d, m
<1>7. ASSUME NEW i \in 1..m
      PROVE  /\ at[i] \in Nat \ {0} /\ Stands(d, at[i], b(i)) /\ Stands(d, at[i] + Len(b(i)), a(i))
             /\ at[i + 1] = at[i] + Len(b(i)) + Len(a(i))
  <2>0. Len(d) \in Nat
    BY <1>6
  <2>1. Stands(d, at[i], b(i) \o a(i)) /\ Len(d) \in Nat /\ b(i) \in Seq(Nat) /\ a(i) \in Seq(Nat)
    <3>1. Stands(d, at[i], words[i])
      BY <1>6
    <3>2. QED
      BY <1>2, <2>0, <3>1
  <2>2. Stands(d, at[i], b(i)) /\ Stands(d, at[i] + Len(b(i)), a(i))
    BY <2>1, WordParts
  <2>3. at[i] \in Nat \ {0}
    BY <1>1, <1>6
  <2>4. at[i + 1] = at[i] + Len(b(i)) + Len(a(i))
    BY <1>2, <1>6, <2>3
  <2>5. QED
    BY <2>2, <2>3, <2>4
<1> DEFINE pos == [j \in 1..(2 * m + 1) |->
                     IF j % 2 = 1 THEN at[(j + 1) \div 2] ELSE at[j \div 2] + Len(b(j \div 2))]
<1>8. /\ \A i \in 1..(m + 1) : pos[2 * i - 1] = at[i]
      /\ \A i \in 1..m : pos[2 * i] = at[i] + Len(b(i))
  <2>1. \A i \in 1..(m + 1) : /\ 2 * i - 1 \in 1..(2 * m + 1) /\ (2 * i - 1) % 2 = 1
                              /\ ((2 * i - 1) + 1) \div 2 = i
    BY <1>1
  <2>2. \A i \in 1..m : 2 * i \in 1..(2 * m + 1) /\ (2 * i) % 2 # 1 /\ (2 * i) \div 2 = i
    BY <1>1
  <2>3. QED
    BY <2>1, <2>2
<1>9. \A j \in 1..(2 * m + 1) :
         \/ \E i \in 1..(m + 1) : j = 2 * i - 1
         \/ \E i \in 1..m : j = 2 * i
  <2> SUFFICES ASSUME NEW j \in 1..(2 * m + 1)
               PROVE  \/ \E i \in 1..(m + 1) : j = 2 * i - 1
                      \/ \E i \in 1..m : j = 2 * i
    OBVIOUS
  <2>1. CASE j % 2 = 1
    <3>1. (j + 1) \div 2 \in 1..(m + 1) /\ j = 2 * ((j + 1) \div 2) - 1
      BY <1>1, <2>1
    <3>2. QED
      BY <3>1
  <2>2. CASE j % 2 # 1
    <3>1. j \div 2 \in 1..m /\ j = 2 * (j \div 2)
      BY <1>1, <2>2
    <3>2. QED
      BY <3>1
  <2>3. QED
    BY <2>1, <2>2
<1>10. pos = [j \in 1..(2 * m + 1) |-> pos[j]]
  OBVIOUS
<1> HIDE DEF pos
<1>11. \A j \in 1..(2 * m + 1) : pos[j] \in Nat \ {0}
  <2> SUFFICES ASSUME NEW j \in 1..(2 * m + 1)
               PROVE  pos[j] \in Nat \ {0}
    OBVIOUS
  <2>1. ASSUME NEW i \in 1..(m + 1), j = 2 * i - 1
        PROVE  pos[j] \in Nat \ {0}
    BY <1>6, <1>8, <2>1
  <2>2. ASSUME NEW i \in 1..m, j = 2 * i
        PROVE  pos[j] \in Nat \ {0}
    <3>1. pos[j] = at[i] + Len(b(i)) /\ at[i] \in Nat \ {0} /\ Len(b(i)) \in Nat
      BY <1>2, <1>7, <1>8, <2>2
    <3>2. QED
      BY <3>1
  <2>3. QED
    BY <1>9, <2>1, <2>2
<1>12. pos \in [1..(2 * m + 1) -> Nat \ {0}]
  BY <1>10, <1>11
<1>13. pos[1] = 1 /\ pos[2 * m + 1] = Len(d) + 1
  <2>1. 1 \in 1..(m + 1) /\ m + 1 \in 1..(m + 1) /\ 2 * 1 - 1 = 1 /\ 2 * (m + 1) - 1 = 2 * m + 1
    BY <1>1
  <2>2. pos[1] = 1 /\ pos[2 * m + 1] = at[m + 1]
    BY <1>6, <1>8, <2>1
  <2>3. at[m + 1] \in Nat
    BY <1>6, <2>1
  <2> DEFINE x == at[m + 1]
  <2>4. x \in Nat /\ Len(d) = x - 1
    BY <1>6, <2>3
  <2> HIDE DEF x
  <2>5. x = Len(d) + 1
    BY <2>4
  <2>6. QED
    BY <2>2, <2>5 DEF x
<1>14. ASSUME NEW j \in 1..(2 * m)
       PROVE  /\ RowFits(types, list[j]) /\ Stands(d, pos[j], EncodeRow(types, list[j]))
              /\ pos[j + 1] = pos[j] + Len(EncodeRow(types, list[j]))
  <2>1. ASSUME NEW i \in 1..m, j = 2 * i - 1
        PROVE  /\ RowFits(types, list[j]) /\ Stands(d, pos[j], EncodeRow(types, list[j]))
               /\ pos[j + 1] = pos[j] + Len(EncodeRow(types, list[j]))
    <3>1. list[j] = rows[i].before /\ EncodeRow(types, list[j]) = b(i)
      BY <1>5, <2>1 DEF b
    <3>2. i \in 1..(m + 1) /\ j + 1 = 2 * i
      BY <1>1, <2>1
    <3>3. pos[j] = at[i] /\ pos[j + 1] = at[i] + Len(b(i))
      BY <1>8, <2>1, <3>2
    <3>4. QED
      BY <1>2, <1>7, <3>1, <3>3
  <2>2. ASSUME NEW i \in 1..m, j = 2 * i
        PROVE  /\ RowFits(types, list[j]) /\ Stands(d, pos[j], EncodeRow(types, list[j]))
               /\ pos[j + 1] = pos[j] + Len(EncodeRow(types, list[j]))
    <3>1. list[j] = rows[i].after /\ EncodeRow(types, list[j]) = a(i)
      BY <1>5, <2>2 DEF a
    <3>2. i + 1 \in 1..(m + 1) /\ j + 1 = 2 * (i + 1) - 1
      BY <1>1, <2>2
    <3>3. pos[j] = at[i] + Len(b(i)) /\ pos[j + 1] = at[i + 1]
      BY <1>8, <2>2, <3>2
    <3>4. QED
      BY <1>2, <1>7, <3>1, <3>3
  <2>3. j \in 1..(2 * m + 1) /\ j # 2 * (m + 1) - 1
    BY <1>1
  <2>4. \/ \E i \in 1..m : j = 2 * i - 1
        \/ \E i \in 1..m : j = 2 * i
    <3>1. \A i \in 1..(m + 1) : i # m + 1 => i \in 1..m
      BY <1>1
    <3>2. QED
      BY <1>9, <2>3, <3>1
  <2>5. QED
    BY <2>1, <2>2, <2>4
<1>15. Listed(d, types, list, pos)
  BY <1>3, <1>12, <1>13, <1>14 DEF Listed
<1>16. 2 * m \in Nat /\ d \in Seq(Nat)
  BY <1>1, <1>6
<1>17. QED
  BY <1>3, <1>15, <1>16 DEF IsList, list, words, d

\* A row before the others.
Led(row, rows) == [j \in 1..(Len(rows) + 1) |-> IF j = 1 THEN row ELSE rows[j - 1]]

LEMMA LedListed ==
  ASSUME NEW types, IsTypes(types), NEW row, RowFits(types, row),
         NEW d, NEW rows, IsList(types, d, rows)
  PROVE  IsList(types, EncodeRow(types, row) \o d, Led(row, rows))
<1> DEFINE m == Len(rows)
           w == EncodeRow(types, row)
           all == w \o d
           list == Led(row, rows)
<1>1. d \in Seq(Nat) /\ m \in Nat /\ w \in Seq(Nat)
  BY RowWords DEF IsList
<1>2. PICK pos : Listed(d, types, rows, pos)
  BY DEF IsList
<1> DEFINE to == [j \in 1..(m + 2) |-> IF j = 1 THEN 1 ELSE pos[j - 1] + Len(w)]
<1> HIDE DEF w
<1>3. /\ all \in Seq(Nat) /\ Len(w) \in Nat /\ Len(d) \in Nat /\ Len(all) = Len(w) + Len(d)
      /\ Stands(all, Len(w) + 1, d)
  BY <1>1, WordAppended
<1>4. Stands(all, 1, w)
  <2>1. \A i \in 1..Len(w) : all[i] = w[i]
    BY <1>1
  <2> HIDE DEF all
  <2>2. \A i \in 1..Len(w) : 1 + i - 1 = i
    BY <1>3
  <2>3. 1 + Len(w) <= Len(all) + 1 /\ 1 \in Nat \ {0}
    BY <1>3
  <2>4. QED
    BY <2>1, <2>2, <2>3 DEF Stands
<1> HIDE DEF all, m
<1>5. /\ pos \in [1..(m + 1) -> Nat \ {0}] /\ pos[1] = 1 /\ pos[m + 1] = Len(d) + 1
      /\ \A i \in 1..m : RowFits(types, rows[i]) /\ Stands(d, pos[i], EncodeRow(types, rows[i]))
                          /\ pos[i + 1] = pos[i] + Len(EncodeRow(types, rows[i]))
  BY <1>2 DEF Listed, m
<1>6. Len(list) = m + 1 /\ list[1] = row /\ \A j \in 2..(m + 1) : list[j] = rows[j - 1]
  BY <1>1 DEF Led, m
<1>7. to \in [1..(m + 2) -> Nat \ {0}]
  <2>1. \A j \in 1..(m + 2) : j # 1 => j - 1 \in 1..(m + 1)
    BY <1>1
  <2>2. \A j \in 1..(m + 2) : to[j] \in Nat \ {0}
    BY <1>3, <1>5, <2>1
  <2>3. QED
    BY <2>2
<1>8. to[1] = 1 /\ \A j \in 2..(m + 2) : to[j] = pos[j - 1] + Len(w)
  BY <1>1
<1> HIDE DEF to, list
<1>9. to[m + 2] = Len(all) + 1
  <2>1. m + 2 \in 2..(m + 2) /\ (m + 2) - 1 = m + 1
    BY <1>1
  <2>2. to[m + 2] = (Len(d) + 1) + Len(w)
    BY <1>5, <1>8, <2>1
  <2>3. QED
    BY <1>3, <2>2
<1>10. ASSUME NEW j \in 1..(m + 1)
       PROVE  /\ RowFits(types, list[j]) /\ Stands(all, to[j], EncodeRow(types, list[j]))
              /\ to[j + 1] = to[j] + Len(EncodeRow(types, list[j]))
  <2>1. CASE j = 1
    <3>1. to[2] = pos[1] + Len(w)
      <4>1. 2 \in 2..(m + 2) /\ 2 - 1 = 1
        BY <1>1
      <4>2. QED
        BY <1>8, <4>1
    <3>2. to[1 + 1] = to[1] + Len(w)
      BY <1>5, <1>8, <3>1
    <3>3. QED
      BY <1>4, <1>6, <1>8, <2>1, <3>2 DEF w
  <2>2. CASE j # 1
    <3> DEFINE i == j - 1
               x == rows[i]
               v == EncodeRow(types, x)
    <3>1. i \in 1..m /\ j \in 2..(m + 1) /\ j \in 2..(m + 2) /\ j + 1 \in 2..(m + 2)
          /\ (j + 1) - 1 = i + 1 /\ i \in 1..(m + 1) /\ j = i + 1
      BY <1>1, <2>2
    <3>2. list[j] = x /\ to[j] = pos[i] + Len(w) /\ to[j + 1] = pos[i + 1] + Len(w)
      BY <1>6, <1>8, <3>1
    <3> HIDE DEF i
    <3>3. /\ RowFits(types, x) /\ Stands(d, pos[i], v) /\ pos[i + 1] = pos[i] + Len(v)
          /\ pos[i] \in Nat \ {0}
      BY <1>5, <3>1
    <3> HIDE DEF x
    <3>4. Len(v) \in Nat
      BY <3>3, RowWords
    <3> DEFINE p == pos[i]
               n == Len(w) + 1
    <3>5. /\ Stands(all, n, d) /\ Stands(d, p, v) /\ Len(all) \in Nat /\ n \in Nat
          /\ p \in Nat /\ n = Len(w) + 1 /\ pos[i + 1] = p + Len(v) /\ to[j] = p + Len(w)
      BY <1>3, <3>2, <3>3
    <3> HIDE DEF v, p, n
    <3>6. Stands(all, n + p - 1, v)
      BY <1>3, <3>4, <3>5, WordInside
    <3>7. n + p - 1 = to[j] /\ to[j + 1] = to[j] + Len(v)
      BY <1>3, <3>2, <3>4, <3>5
    <3>8. QED
      BY <3>2, <3>3, <3>6, <3>7 DEF v
  <2>3. QED
    BY <2>1, <2>2
<1>11. Listed(all, types, list, to)
  <2>1. (m + 1) + 1 = m + 2
    BY <1>1
  <2>2. QED
    BY <1>6, <1>7, <1>8, <1>9, <1>10, <2>1 DEF Listed
<1>12. Len(list) \in Nat
  BY <1>1, <1>6
<1>13. QED
  BY <1>3, <1>11, <1>12 DEF IsList, list, all, w

\* Words of nothing come to nothing.
LEMMA FlattenEmpties ==
  ASSUME NEW n \in Nat, NEW words \in [1..n -> {<<>>}]
  PROVE  FlattenSeq(words) = <<>>
<1>1. words \in Seq(Seq(Nat)) /\ Len(words) = n /\ \A i \in 1..n : Len(words[i]) = 0
  <2> DEFINE U == Seq(Nat)
  <2>1. <<>> \in U /\ Len(<<>>) = 0
    OBVIOUS
  <2> HIDE DEF U
  <2>2. words \in [1..n -> U] /\ \A i \in 1..n : words[i] = <<>>
    BY <2>1
  <2>3. words \in Seq(U) /\ Len(words) = n
    BY <2>2
  <2>4. QED
    BY <2>1, <2>2, <2>3 DEF U
<1>2. PICK at \in [1..(n + 1) -> Nat \ {0}] :
          /\ at[1] = 1
          /\ \A i \in 1..n : at[i + 1] = at[i] + Len(words[i])
          /\ FlattenSeq(words) \in Seq(Nat) /\ Len(FlattenSeq(words)) = at[n + 1] - 1
  BY <1>1, WordsStand
<1> DEFINE f == [i \in 0..n |-> at[i + 1]]
           g == [i \in 0..n |-> 1]
<1>3. f[0] = g[0]
  BY <1>2
<1>4. ASSUME NEW i \in 1..n, f[i - 1] = g[i - 1]
      PROVE  f[i] = g[i]
  <2>1. i - 1 \in 0..n /\ i \in 0..n /\ (i - 1) + 1 = i /\ i \in 1..(n + 1)
    OBVIOUS
  <2>2. at[i] = 1 /\ at[i + 1] = at[i] + 0
    BY <1>1, <1>2, <1>4, <2>1
  <2>3. QED
    BY <2>1, <2>2
<1>5. f[n] = g[n]
  <2> HIDE DEF f, g
  <2>1. QED
    BY <1>3, <1>4, GoOnAlike
<1>6. at[n + 1] = 1
  BY <1>5
<1>7. QED
  <2> DEFINE d == FlattenSeq(words)
  <2>1. d \in Seq(Nat) /\ Len(d) = 1 - 1
    BY <1>2, <1>6
  <2> HIDE DEF d
  <2>2. d = <<>>
    BY <2>1
  <2>3. QED
    BY <2>2 DEF d

\* A second bitmap is a row of nulls.
NullRow(types) == [c \in DOMAIN types |-> Null]

LEMMA NullsEncoded ==
  ASSUME NEW types, IsTypes(types)
  PROVE  RowFits(types, NullRow(types)) /\ EncodeRow(types, NullRow(types)) = AllColumns(types)
<1> DEFINE n == Len(types)
           row == NullRow(types)
           words == SentRow(types, row)
<1>1. n \in Nat /\ DOMAIN types = 1..n
  BY TypesAre
<1>2. RowFits(types, row)
  BY DEF RowFits, NullRow, Fits
<1>3. EncodeRow(types, row) = BitmapOf(n, NullsOf(types, row)) \o FlattenSeq(words)
  BY <1>2, RowWord
<1>4. NullsOf(types, row) = 1..n
  BY <1>1 DEF NullsOf, NullRow
<1>5. words \in [1..n -> {<<>>}]
  BY <1>1 DEF SentRow, SentOf, NullRow
<1>6. FlattenSeq(words) = <<>>
  <2> HIDE DEF words, n
  <2>1. QED
    BY <1>1, <1>5, FlattenEmpties
<1> DEFINE b == BitmapOf(n, 1..n)
<1>7. b \in Seq(Nat) /\ AllColumns(types) = b
  <2>1. 1..n \in SUBSET (1..n)
    OBVIOUS
  <2> HIDE DEF n
  <2>2. b \in Seq(Nat)
    BY <1>1, <2>1, BitmapBack
  <2>3. AllColumns(types) = b
    BY <1>1, AllAreNull DEF n
  <2>4. QED
    BY <2>2, <2>3
<1> HIDE DEF b, words, row, n
<1>8. b \o <<>> = b
  BY <1>7
<1>9. EncodeRow(types, row) = b
  BY <1>3, <1>4, <1>6, <1>8 DEF b
<1>10. QED
  BY <1>2, <1>7, <1>9 DEF row

EventList(types, op, rows, second) ==
    IF second THEN Led(NullRow(types), ListOf(op, rows)) ELSE ListOf(op, rows)

\* The bytes of an event are its rows one behind the other.
LEMMA BodyListed ==
  ASSUME NEW types, IsTypes(types), NEW rows, EventRows(types, rows),
         NEW op \in {"c", "u", "d"}, NEW second \in BOOLEAN
  PROVE  IsList(types, Body(types, op, rows, second), EventList(types, op, rows, second))
<1> DEFINE d == FlattenSeq(WordsOf(types, op, rows))
           list == ListOf(op, rows)
<1>1. DOMAIN rows = 1..Len(rows)
  BY SeqDomain DEF EventRows
<1>2. Body(types, op, rows, second) = (IF second THEN AllColumns(types) ELSE <<>>) \o d
  BY <1>1 DEF Body, WordsOf
<1>3. IsList(types, d, list)
  <2>1. CASE op = "u"
    BY <2>1, PairListed
  <2>2. CASE op # "u"
    <3>1. op \in {"c", "d"}
      BY <2>2
    <3>2. QED
      BY <3>1, SingleListed
  <2>3. QED
    BY <2>1, <2>2
<1>4. CASE second
  <2>1. RowFits(types, NullRow(types)) /\ EncodeRow(types, NullRow(types)) = AllColumns(types)
    BY NullsEncoded
  <2> HIDE DEF d, list
  <2>2. IsList(types, EncodeRow(types, NullRow(types)) \o d, Led(NullRow(types), list))
    BY <1>3, <2>1, LedListed
  <2>3. QED
    BY <1>2, <1>4, <2>1, <2>2 DEF EventList, list
<1>5. CASE ~second
  <2>1. d \in Seq(Nat)
    BY <1>3 DEF IsList
  <2> HIDE DEF d
  <2>2. <<>> \o d = d
    BY <2>1
  <2>3. Body(types, op, rows, second) = d /\ EventList(types, op, rows, second) = list
    BY <1>2, <1>5, <2>2 DEF EventList
  <2>4. QED
    BY <1>3, <2>3
<1>6. QED
  BY <1>4, <1>5

\* The rows of an event as they are read, and as they are meant.
BeforeOf(types, op, row) == Meant(types, IF op = "c" THEN Null ELSE row.before)
AfterOf(types, op, row) == Meant(types, IF op = "d" THEN Null ELSE row.after)

EventIs(e, t, rows, second) ==
    /\ DOMAIN RowsOf(e, t) = 1..Len(rows)
    /\ ~second => \A i \in 1..Len(rows) :
          /\ RowsOf(e, t)[i].before = BeforeOf(t.types, e.op, rows[i])
          /\ RowsOf(e, t)[i].after = AfterOf(t.types, e.op, rows[i])

\* parse_write_rows, parse_update_rows and parse_delete_rows get back every event a
\* server can send of a table whose types and metadata they have: as many rows as
\* it has, a second bitmap or not, and without one each column as it is meant.
THEOREM RowsReadBack ==
  ASSUME NEW t, IsTypes(t.types), IsMetas(t.types, t.metas),
         NEW rows, EventRows(t.types, rows), NEW second \in BOOLEAN,
         NEW e, e.op \in {"c", "u", "d"}, second => e.op = "u",
         e.body = Body(t.types, e.op, rows, second)
  PROVE  EventIs(e, t, rows, second)
<1> DEFINE types == t.types
           metas == t.metas
           op == e.op
           d == e.body
           m == Len(rows)
           list == EventList(types, op, rows, second)
           read == ReadRows(d, types, metas)
<1>1. IsList(types, d, list)
  BY BodyListed
<1>2. /\ m \in Nat
      /\ \A i \in 1..m : IsRow(types, rows[i].before) /\ IsRow(types, rows[i].after)
  BY SeqDomain DEF EventRows
<1>3. \A i \in 1..m : /\ Meant(types, rows[i].before) = MeantRow(types, rows[i].before)
                      /\ Meant(types, rows[i].after) = MeantRow(types, rows[i].after)
  BY <1>2, RowMeant
<1>4. read = MeantRows(types, list) /\ Len(list) \in Nat
  <2>1. d \in Seq(Nat) /\ Len(list) \in Nat
    BY <1>1 DEF IsList
  <2>2. PICK pos : Listed(d, types, list, pos)
    BY <1>1 DEF IsList
  <2> HIDE DEF types, metas, d, list
  <2>3. IsTypes(types) /\ IsMetas(types, metas)
    BY DEF types, metas
  <2>4. RowsAre(d, types, metas, list)
    BY <2>1, <2>2, <2>3, RowsBack
  <2>5. QED
    BY <2>1, <2>4 DEF RowsAre
<1>5. Len(read) = Len(list) /\ DOMAIN read = 1..Len(list)
      /\ \A j \in 1..Len(list) : read[j] = MeantRow(types, list[j])
  <2> DEFINE n == Len(list)
  <2>1. n \in Nat /\ read = [j \in 1..n |-> MeantRow(types, list[j])]
    BY <1>4 DEF MeantRows
  <2> HIDE DEF n, read, list, types
  <2>2. DOMAIN read = 1..n /\ Len(read) = n /\ \A j \in 1..n : read[j] = MeantRow(types, list[j])
    BY <2>1
  <2>3. QED
    BY <2>2 DEF n
<1>6. CASE op = "u"
  <2>1. Len(ListOf(op, rows)) = 2 * m
    <3>1. ListOf(op, rows) = [j \in 1..(2 * m) |->
             IF j % 2 = 1 THEN rows[(j + 1) \div 2].before ELSE rows[j \div 2].after]
      BY <1>6 DEF ListOf
    <3> HIDE DEF m
    <3>2. 2 * m \in Nat
      BY <1>2
    <3>3. QED
      BY <3>1, <3>2
  <2>2. Len(list) \div 2 = m
    <3>1. CASE second
      <4> DEFINE l == ListOf(op, rows)
      <4>1. list = Led(NullRow(types), l) /\ Len(l) = 2 * m
        BY <2>1, <3>1 DEF EventList
      <4> HIDE DEF l, list, m
      <4>2. 2 * m + 1 \in Nat
        BY <1>2
      <4>3. list = [j \in 1..(2 * m + 1) |-> IF j = 1 THEN NullRow(types) ELSE l[j - 1]]
        BY <4>1 DEF Led
      <4>4. Len(list) = 2 * m + 1
        BY <4>2, <4>3
      <4>5. QED
        BY <1>2, <4>4
    <3>2. CASE ~second
      <4>1. Len(list) = 2 * m
        BY <2>1, <3>2 DEF EventList
      <4> HIDE DEF m, list
      <4>2. QED
        BY <1>2, <4>1
    <3>3. QED
      BY <3>1, <3>2
  <2> DEFINE pairs == ReadPairs(d, types, metas)
  <2>3. pairs = [i \in 1..m |-> <<read[2 * i - 1], read[2 * i]>>]
    BY <1>5, <2>2 DEF ReadPairs
  <2>4. RowsOf(e, t) = [i \in DOMAIN pairs |-> [before |-> pairs[i][1], after |-> pairs[i][2]]]
    BY <1>6 DEF RowsOf
  <2> HIDE DEF pairs, read, list
  <2>5. /\ DOMAIN RowsOf(e, t) = 1..m
        /\ \A i \in 1..m : RowsOf(e, t)[i] = [before |-> read[2 * i - 1], after |-> read[2 * i]]
    <3> HIDE DEF m
    <3>1. QED
      BY <2>3, <2>4
  <2>6. ASSUME ~second, NEW i \in 1..m
        PROVE  /\ RowsOf(e, t)[i].before = BeforeOf(types, op, rows[i])
               /\ RowsOf(e, t)[i].after = AfterOf(types, op, rows[i])
    <3>1. /\ list = [j \in 1..(2 * m) |->
                IF j % 2 = 1 THEN rows[(j + 1) \div 2].before ELSE rows[j \div 2].after]
          /\ Len(list) = 2 * m
      BY <1>6, <2>1, <2>6 DEF EventList, ListOf, list
    <3>2. /\ 2 * i - 1 \in 1..(2 * m) /\ 2 * i \in 1..(2 * m)
          /\ (2 * i - 1) % 2 = 1 /\ (2 * i) % 2 # 1
          /\ ((2 * i - 1) + 1) \div 2 = i /\ (2 * i) \div 2 = i
      <4> HIDE DEF m
      <4>1. QED
        BY <1>2
    <3>3. list[2 * i - 1] = rows[i].before /\ list[2 * i] = rows[i].after
      <4> HIDE DEF m
      <4>1. QED
        BY <3>1, <3>2
    <3>4. /\ read[2 * i - 1] = MeantRow(types, rows[i].before)
          /\ read[2 * i] = MeantRow(types, rows[i].after)
      BY <1>5, <3>1, <3>2, <3>3
    <3>5. op # "c" /\ op # "d"
      BY <1>6
    <3>6. QED
      BY <1>3, <2>5, <3>4, <3>5 DEF BeforeOf, AfterOf
  <2>7. QED
    BY <2>5, <2>6 DEF EventIs
<1>7. CASE op # "u"
  <2>1. ~second /\ op \in {"c", "d"}
    BY <1>7
  <2>2. list = [i \in 1..m |-> IF op = "c" THEN rows[i].after ELSE rows[i].before]
    BY <1>7, <2>1 DEF EventList, ListOf
  <2>3. Len(list) = m /\ \A i \in 1..m : list[i] = IF op = "c" THEN rows[i].after ELSE rows[i].before
    <3> HIDE DEF list, m
    <3>1. QED
      BY <1>2, <2>2
  <2>4. RowsOf(e, t) = [i \in DOMAIN read |-> [before |-> IF op = "d" THEN read[i] ELSE Null,
                                               after  |-> IF op = "c" THEN read[i] ELSE Null]]
    BY <1>7 DEF RowsOf
  <2> HIDE DEF read, list
  <2>5. /\ DOMAIN RowsOf(e, t) = 1..m
        /\ \A i \in 1..m : RowsOf(e, t)[i] = [before |-> IF op = "d" THEN read[i] ELSE Null,
                                              after  |-> IF op = "c" THEN read[i] ELSE Null]
    <3> HIDE DEF m
    <3>1. QED
      BY <1>5, <2>3, <2>4
  <2>6. ASSUME NEW i \in 1..m
        PROVE  /\ RowsOf(e, t)[i].before = BeforeOf(types, op, rows[i])
               /\ RowsOf(e, t)[i].after = AfterOf(types, op, rows[i])
    <3>1. Meant(types, Null) = Null
      BY DEF Meant
    <3>2. read[i] = MeantRow(types, list[i])
      BY <1>5, <2>3
    <3>3. CASE op = "c"
      <4>1. RowsOf(e, t)[i] = [before |-> Null, after |-> read[i]]
        BY <2>5, <3>3
      <4>2. read[i] = Meant(types, rows[i].after)
        BY <1>3, <2>3, <3>2, <3>3
      <4>3. QED
        BY <3>1, <3>3, <4>1, <4>2 DEF BeforeOf, AfterOf
    <3>4. CASE op = "d"
      <4>1. RowsOf(e, t)[i] = [before |-> read[i], after |-> Null]
        BY <2>5, <3>4
      <4>2. read[i] = Meant(types, rows[i].before)
        BY <1>3, <2>3, <3>2, <3>4
      <4>3. QED
        BY <3>1, <3>4, <4>1, <4>2 DEF BeforeOf, AfterOf
    <3>5. QED
      BY <2>1, <3>3, <3>4
  <2>7. QED
    BY <2>5, <2>6 DEF EventIs
<1>8. QED
  BY <1>6, <1>7

\* The metadata of a table map: nothing for a column without a length of its own.
LEMMA MetasMeant ==
  ASSUME NEW types, IsTypes(types)
  PROVE  IsMetas(types, ColumnMetas(types, EncodeMetas(types, [c \in DOMAIN types |-> 0])))
<1> DEFINE zeros == [c \in DOMAIN types |-> 0]
           size(type) ==
            CASE type \in {"BIT", "NEWDECIMAL", "VARCHAR", "VAR_STRING", "STRING"}  -> 2
              [] type \in DOMAIN Prefix \cup {"GEOMETRY", "FLOAT", "DOUBLE", "TIMESTAMP2",
                                              "DATETIME2", "TIME2"}                -> 1
              [] OTHER                                                             -> 0
           word(c) == [i \in 1..size(types[c]) |-> (zeros[c] \div 256^(i - 1)) % 256]
           words == [c \in DOMAIN types |-> word(c)]
           d == EncodeMetas(types, zeros)
           n == Len(types)
<1>1. n \in Nat /\ DOMAIN types = 1..n /\ types \in Seq(Kinds)
  BY TypesAre DEF IsTypes
<1>2. d = FlattenSeq(words)
  BY DEF EncodeMetas
<1>3. ASSUME NEW c \in 1..n
      PROVE  word(c) \in Seq(Nat)
  <2>1. size(types[c]) \in {0, 1, 2}
    OBVIOUS
  <2>2. zeros[c] = 0
    BY <1>1
  <2> DEFINE k == size(types[c])
             z == zeros[c]
  <2>3. word(c) = [i \in 1..k |-> (z \div 256^(i - 1)) % 256] /\ k \in Nat /\ z = 0
    BY <2>1, <2>2
  <2>4. \A i \in 1..k : (z \div 256^(i - 1)) % 256 \in Nat
    <3>1. k \in {0, 1, 2} /\ z = 0
      BY <2>1, <2>2
    <3> HIDE DEF k, z
    <3>2. (0 \div 256^(1 - 1)) % 256 \in Nat /\ (0 \div 256^(2 - 1)) % 256 \in Nat
      OBVIOUS
    <3>3. \A i \in 1..k : i = 1 \/ i = 2
      BY <3>1
    <3>4. QED
      BY <3>1, <3>2, <3>3
  <2> HIDE DEF word, k, z
  <2>5. word(c) \in [1..k -> Nat]
    BY <2>3, <2>4
  <2>6. QED
    BY <2>3, <2>5
<1>4. words \in Seq(Seq(Nat))
  <2> DEFINE U == Seq(Nat)
  <2>1. \A c \in 1..n : word(c) \in U
    BY <1>3
  <2> HIDE DEF word, U, n
  <2>2. words \in [1..n -> U]
    BY <1>1, <2>1
  <2> HIDE DEF words
  <2>3. words \in Seq(U)
    BY <1>1, <2>2
  <2>4. QED
    BY <2>3 DEF U
<1>5. d \in Seq(Nat)
  <2> HIDE DEF words
  <2>1. QED
    BY <1>2, <1>4, WordsStand
<1> HIDE DEF d, n
<1>6. \A c \in 1..n : types[c] \notin Strings => ColumnMetas(types, d)[c] = 0
  BY <1>1, <1>5, MetasOfNumbers DEF n
<1>7. QED
  BY <1>1, <1>6 DEF IsMetas, d, n

USE DEF callVars, serverVars, clientVars, vars

-----------------------------------------------------------------------------
(* Streams are let in.                                                     *)

\* What the server has granted where a session stands.
Inv ==
    /\ pc = "dump" => granted = "slave"
    /\ pc = "stream" => granted \in {"slave", "dump"}

\* A failed attempt goes back to where nothing is granted.
LEMMA FailedEnds == Failed => pc' \notin {"dump", "stream"}
BY DEF Failed

LEMMA EndCallEnds == EndCall => pc' \notin {"dump", "stream"}
BY DEF EndCall

LEMMA PanicEnds == Panic => pc' = "panic"
BY DEF Panic

LEMMA StreamKeeps == Inv /\ Next => Inv'
<1> SUFFICES ASSUME Inv, Next
             PROVE  Inv'
  OBVIOUS
\* Steps that lead to neither place.
<1>1. CASE pc' \notin {"dump", "stream"}
  BY <1>1 DEF Inv
<1>2. CASE UNCHANGED <<pc, granted>>
  BY <1>2 DEF Inv
<1>3. ASSUME NEW reply \in Replies, RegisterSlave(reply)
      PROVE  Inv'
  BY <1>1, <1>3, EndCallEnds, PanicEnds DEF RegisterSlave, Inv
<1>4. ASSUME NEW o, NEW reply \in Replies, Dump(o, reply)
      PROVE  Inv'
  <2>1. pc = "dump" /\ (EndCall \/ Panic \/ (pc' = "stream" /\ granted' \in {"dump", granted}))
    BY <1>4 DEF Dump
  <2>2. QED
    BY <1>1, <2>1, EndCallEnds, PanicEnds DEF Inv
<1>5. QED
  <2>1. ASSUME NEW who, BeginCall(who) PROVE pc' \notin {"dump", "stream"}
    BY <2>1 DEF BeginCall
  <2>2. Sleep \/ Disconnect => pc' \notin {"dump", "stream"}
    BY EndCallEnds DEF Sleep, Disconnect
  <2>3. ASSUME NEW b \in BOOLEAN, Dial(b) PROVE pc' \notin {"dump", "stream"}
    BY <2>3, FailedEnds DEF Dial
  <2>4. ASSUME NEW g, Greeting(g) PROVE pc' \notin {"dump", "stream"}
    BY <2>4, FailedEnds, PanicEnds DEF Greeting
  <2>5. ASSUME NEW reply, Login(reply) PROVE pc' \notin {"dump", "stream"}
    BY <2>5, FailedEnds, PanicEnds DEF Login
  <2>6. ASSUME NEW t, NEW s, MapTable(t, s) PROVE UNCHANGED <<pc, granted>>
    BY <2>6 DEF MapTable
  <2>7. ASSUME NEW id, NEW op, NEW rows, NEW second, ChangeRows(id, op, rows, second)
        PROVE  UNCHANGED <<pc, granted>>
    BY <2>7 DEF ChangeRows
  <2>8. ASSUME NEW k, OtherEvent(k) PROVE UNCHANGED <<pc, granted>>
    BY <2>8 DEF OtherEvent
  <2>9. ASSUME NEW flaw, SendPacket(flaw) PROVE UNCHANGED <<pc, granted>>
    BY <2>9 DEF SendPacket
  <2>10. ASSUME NEW n, NextEvent(n) PROVE UNCHANGED <<pc, granted>>
    BY <2>10 DEF NextEvent
  <2>11. QED
    BY <1>1, <1>2, <1>3, <1>4, <2>1, <2>2, <2>3, <2>4, <2>5, <2>6, <2>7, <2>8, <2>9,
       <2>10 DEF Next

\* A stream is read only on a session that the server let in, although a request
\* for another authentication passes for success and the reply to dump_gtid is
\* not read: the reply to register_slave tells.
THEOREM OnlyLetIn == ConnectorSpec => []StreamsLetIn
<1>1. ConnectorInit => Inv
  BY DEF ConnectorInit, Init, Inv
<1>2. Inv /\ [ConnectorNext]_connectorVars => Inv'
  <2> SUFFICES ASSUME Inv, [ConnectorNext]_connectorVars
               PROVE  Inv'
    OBVIOUS
  <2>1. CASE Next
    BY <2>1, StreamKeeps
  <2>2. CASE UNCHANGED vars
    BY <2>2 DEF Inv
  <2>3. QED
    BY <2>1, <2>2 DEF ConnectorNext, connectorVars
<1>3. Inv => StreamsLetIn
  BY DEF Inv, StreamsLetIn
<1>4. QED
  BY <1>1, <1>2, <1>3, PTL DEF ConnectorSpec

-----------------------------------------------------------------------------
(* Retries.                                                                *)

LEMMA AttemptsPositive == Attempts \in Nat \ {0}
<1>1. MaxAttempts \in Nat
  BY MySqlStreamAssumption
<1>2. Max({MaxAttempts, 1}) = IF MaxAttempts >= 1 THEN MaxAttempts ELSE 1
  BY <1>1 DEF Max
<1>3. QED
  BY <1>1, <1>2 DEF Attempts

\* No call goes past its last attempt, and between two calls none is counted; a
\* panic leaves the count, and nothing comes after it.
RetryInv ==
    /\ attempt \in Nat /\ waited \in Nat
    /\ attempt < Attempts
    /\ ~Connecting /\ pc # "panic" => attempt = 0 /\ waited = 0

\* What a step means for a call that connects.
RetryKind ==
    \/ pc = "idle" /\ pc' = "dial" /\ UNCHANGED <<attempt, waited>>
    \/ /\ pc \in {"dial", "greeting", "login"} /\ attempt + 1 # Attempts
       /\ pc' = "sleep" /\ attempt' = attempt + 1 /\ waited' = waited
    \/ pc = "sleep" /\ pc' = "dial" /\ attempt' = attempt /\ waited' = waited + attempt
    \/ /\ pc \in {"dial", "greeting", "login"} /\ pc' \in {"idle", "register", "panic"}
       /\ \/ attempt' = 0 /\ waited' = 0
          \/ pc' = "panic" /\ UNCHANGED <<attempt, waited>>
    \/ /\ pc \in {"dial", "greeting", "login"} /\ pc' \in {"dial", "greeting", "login"}
       /\ UNCHANGED <<attempt, waited>>
    \/ /\ ~Connecting /\ pc # "panic"
       /\ pc' \in {"idle", "register", "dump", "stream", "panic"}
       /\ UNCHANGED <<attempt, waited>>
    \/ UNCHANGED <<pc, attempt, waited>>

LEMMA RetryKinds == ASSUME [Next]_vars PROVE RetryKind
<1> USE DEF RetryKind, Connecting, callVars, vars
<1>1. ASSUME NEW who, BeginCall(who) PROVE RetryKind
  BY <1>1 DEF BeginCall
<1>2. CASE Sleep
  BY <1>2 DEF Sleep
<1>3. CASE Disconnect
  BY <1>3 DEF Disconnect, EndCall
<1>4. ASSUME Failed, pc \in {"dial", "greeting", "login"} PROVE RetryKind
  BY <1>4 DEF Failed
<1>5. ASSUME NEW b \in BOOLEAN, Dial(b) PROVE RetryKind
  BY <1>4, <1>5 DEF Dial
<1>6. ASSUME NEW g, Greeting(g) PROVE RetryKind
  BY <1>4, <1>6 DEF Greeting, Panic
<1>7. ASSUME NEW reply, Login(reply) PROVE RetryKind
  BY <1>4, <1>7 DEF Login, Panic
<1>8. ASSUME NEW reply, RegisterSlave(reply) PROVE RetryKind
  BY <1>8 DEF RegisterSlave, EndCall, Panic
<1>9. ASSUME NEW o, NEW reply, Dump(o, reply) PROVE RetryKind
  <2>1. CASE EndCall
    BY <1>9, <2>1 DEF Dump, EndCall
  <2>2. CASE ~EndCall
    <3>1. pc = "dump" /\ pc' \in {"stream", "panic"} /\ UNCHANGED <<attempt, waited>>
      BY <1>9, <2>2 DEF Dump, Panic
    <3>2. QED
      BY <3>1
  <2>3. QED
    BY <2>1, <2>2
<1>10. ASSUME NEW t, NEW s, MapTable(t, s) PROVE UNCHANGED <<pc, attempt, waited>>
  BY <1>10 DEF MapTable
<1>11. ASSUME NEW id, NEW op, NEW rows, NEW second, ChangeRows(id, op, rows, second)
       PROVE  UNCHANGED <<pc, attempt, waited>>
  BY <1>11 DEF ChangeRows
<1>12. ASSUME NEW k, OtherEvent(k) PROVE UNCHANGED <<pc, attempt, waited>>
  BY <1>12 DEF OtherEvent
<1>13. ASSUME NEW flaw, SendPacket(flaw) PROVE UNCHANGED <<pc, attempt, waited>>
  BY <1>13 DEF SendPacket
<1>14. ASSUME NEW n, NextEvent(n) PROVE UNCHANGED <<pc, attempt, waited>>
  BY <1>14 DEF NextEvent
<1>15. CASE UNCHANGED vars
  BY <1>15
<1> HIDE DEF RetryKind
<1>16. UNCHANGED <<pc, attempt, waited>> => RetryKind
  BY DEF RetryKind
<1>17. QED
  BY <1>1, <1>2, <1>3, <1>5, <1>6, <1>7, <1>8, <1>9, <1>10, <1>11, <1>12, <1>13, <1>14,
     <1>15, <1>16 DEF Next

LEMMA RetryKeeps == ASSUME RetryInv, RetryKind PROVE RetryInv'
BY AttemptsPositive DEF RetryInv, RetryKind, Connecting

\* Every step of the connector is a step of Retry or none.
LEMMA RetryRefines ==
  ASSUME RetryInv, RetryKind
  PROVE  [Retries!Next]_(Retries!vars)
<1> USE DEF Connecting, Retries!vars
<1> DEFINE Trying == pc \in {"dial", "greeting", "login"}
<1>1. CASE pc = "idle" /\ pc' = "dial" /\ UNCHANGED <<attempt, waited>>
  <2>1. attempt = 0 /\ waited = 0
    BY <1>1 DEF RetryInv
  <2>2. Retries!Call
    BY <1>1, <2>1 DEF Retries!Call
  <2>3. QED
    BY <2>2 DEF Retries!Next
<1>2. CASE /\ Trying /\ attempt + 1 # Attempts
           /\ pc' = "sleep" /\ attempt' = attempt + 1 /\ waited' = waited
  <2>1. attempt + 1 < Attempts
    BY <1>2, AttemptsPositive DEF RetryInv
  <2>2. Retries!Fail
    BY <1>2, <2>1 DEF Retries!Fail
  <2>3. QED
    BY <2>2 DEF Retries!Next
<1>3. CASE pc = "sleep" /\ pc' = "dial" /\ attempt' = attempt /\ waited' = waited + attempt
  <2>1. Retries!Wait
    BY <1>3 DEF Retries!Wait
  <2>2. QED
    BY <2>1 DEF Retries!Next
<1>4. CASE Trying /\ pc' \in {"idle", "register", "panic"}
  <2>1. Retries!Over
    BY <1>4 DEF Retries!Over
  <2>2. QED
    BY <2>1 DEF Retries!Next
<1>5. CASE Trying /\ Trying' /\ UNCHANGED <<attempt, waited>>
  BY <1>5
<1>6. CASE ~Connecting /\ pc' \in {"idle", "register", "dump", "stream", "panic"}
  BY <1>6
<1>7. CASE UNCHANGED <<pc, attempt, waited>>
  BY <1>7
<1>8. QED
  BY <1>1, <1>2, <1>3, <1>4, <1>5, <1>6, <1>7 DEF RetryKind

\* The MySQL connector implements Retry, for every number of attempts, although
\* an attempt is three steps that may each fail, and a cut packet panics.
THEOREM CallsRetry == ConnectorSpec => RetriesAsPromised
<1>1. ConnectorInit => RetryInv /\ Retries!Init
  BY AttemptsPositive DEF ConnectorInit, Init, RetryInv, Retries!Init, Connecting
<1>2. [ConnectorNext]_connectorVars => RetryKind
  <2>1. ConnectorNext \/ UNCHANGED connectorVars => [Next]_vars
    BY DEF ConnectorNext, connectorVars
  <2>2. QED
    BY <2>1, RetryKinds
<1>3. RetryInv /\ [ConnectorNext]_connectorVars => RetryInv' /\ [Retries!Next]_(Retries!vars)
  BY <1>2, RetryKeeps, RetryRefines
<1>4. QED
  BY <1>1, <1>3, PTL DEF ConnectorSpec, RetriesAsPromised, Retries!Spec

-----------------------------------------------------------------------------
(* Snapshots.                                                              *)

\* Results that were read.
Answers == [table : Tables, rows : Results, whole : {TRUE}]

\* The rows of an answer, each with its table.
DueRows(a) == [j \in DOMAIN a.rows |-> [table |-> a.table, row |-> a.rows[j]]]

\* The rows of all answers.
DueOf(all) == FlattenSeq([i \in DOMAIN all |-> DueRows(all[i])])

\* The tables of the answers.
TablesOf(all) == [i \in DOMAIN all |-> all[i].table]

\* Rows that servers have, with tables.
AllRows == UNION {Range(rows) : rows \in Results}
AllDue == [table : Tables, row : AllRows]

\* Rows as they were read.
Texts == Seq({Null} \cup Seq(Nat))

LEMMA AnswerRows ==
  ASSUME NEW t \in Tables, NEW rows \in Results
  PROVE  LET a == [table |-> t, rows |-> rows, whole |-> TRUE]
         IN  /\ a \in Answers
             /\ DueRows(a) \in Seq(AllDue) /\ Len(DueRows(a)) = Len(rows) /\ Len(rows) \in Nat
             /\ \A j \in 1..Len(rows) : DueRows(a)[j] = [table |-> t, row |-> rows[j]]
<1> DEFINE a == [table |-> t, rows |-> rows, whole |-> TRUE]
           m == Len(rows)
<1>1. a \in Answers /\ a.rows = rows /\ a.table = t
  BY DEF Answers
<1> HIDE DEF a
<1>2. m \in Nat /\ DOMAIN rows = 1..m
  BY ResultRows
<1>3. DueRows(a) = [j \in 1..m |-> [table |-> t, row |-> rows[j]]]
  BY <1>1, <1>2 DEF DueRows
<1>4. ASSUME NEW j \in 1..m
      PROVE  [table |-> t, row |-> rows[j]] \in AllDue
  <2>1. rows[j] \in Range(rows)
    BY <1>2 DEF Range
  <2>2. rows[j] \in AllRows
    BY <2>1 DEF AllRows
  <2>3. QED
    BY <2>2 DEF AllDue
<1> HIDE DEF m
<1>5. DueRows(a) \in Seq(AllDue) /\ Len(DueRows(a)) = m
  <2>1. DueRows(a) \in [1..m -> AllDue]
    BY <1>3, <1>4
  <2>2. QED
    BY <1>2, <1>3, <2>1
<1>6. \A j \in 1..m : DueRows(a)[j] = [table |-> t, row |-> rows[j]]
  BY <1>3
<1>7. QED
  BY <1>1, <1>2, <1>5, <1>6 DEF a, m

LEMMA DueWords ==
  ASSUME NEW all \in Seq(Answers)
  PROVE  /\ [i \in DOMAIN all |-> DueRows(all[i])] \in Seq(Seq(AllDue))
         /\ DueOf(all) \in Seq(AllDue)
<1> DEFINE n == Len(all)
           words == [i \in DOMAIN all |-> DueRows(all[i])]
<1>1. n \in Nat /\ DOMAIN all = 1..n
  OBVIOUS
<1>2. \A i \in 1..n : DueRows(all[i]) \in Seq(AllDue)
  <2>1. ASSUME NEW i \in 1..n
        PROVE  DueRows(all[i]) \in Seq(AllDue)
    <3>1. all[i] \in Answers
      BY <1>1
    <3>2. PICK t \in Tables, rows \in Results : all[i] = [table |-> t, rows |-> rows, whole |-> TRUE]
      BY <3>1 DEF Answers
    <3>3. QED
      BY <3>2, AnswerRows
  <2>2. QED
    BY <2>1
<1>3. words \in Seq(Seq(AllDue))
  <2> HIDE DEF n
  <2>1. words \in [1..n -> Seq(AllDue)]
    BY <1>1, <1>2
  <2>2. QED
    BY <1>1, <2>1
<1> HIDE DEF words
<1>4. FlattenSeq(words) \in Seq(AllDue)
  BY <1>3, WordsStand
<1>5. QED
  BY <1>3, <1>4 DEF words, DueOf

LEMMA DueAppended ==
  ASSUME NEW all \in Seq(Answers), NEW a \in Answers
  PROVE  DueOf(Append(all, a)) = DueOf(all) \o DueRows(a)
<1> DEFINE n == Len(all)
           more == Append(all, a)
           words == [i \in DOMAIN all |-> DueRows(all[i])]
           longer == [i \in DOMAIN more |-> DueRows(more[i])]
           w == DueRows(a)
<1>1. /\ n \in Nat /\ DOMAIN all = 1..n /\ DOMAIN more = 1..(n + 1)
      /\ \A i \in 1..n : more[i] = all[i]
      /\ more[n + 1] = a
  BY AppendProperties
<1>2. words \in Seq(Seq(AllDue)) /\ Len(words) = n
  <2>1. words \in Seq(Seq(AllDue))
    BY DueWords
  <2>2. DOMAIN words = 1..n
    BY <1>1
  <2> HIDE DEF words, n
  <2>3. QED
    BY <1>1, <2>1, <2>2
<1>3. w \in Seq(AllDue)
  <2>1. PICK t \in Tables, rows \in Results : a = [table |-> t, rows |-> rows, whole |-> TRUE]
    BY DEF Answers
  <2>2. QED
    BY <2>1, AnswerRows
<1> HIDE DEF more, n
<1>4. longer = Append(words, w)
  <2>1. \A i \in 1..n : longer[i] = words[i]
    BY <1>1
  <2>2. longer[n + 1] = w
    BY <1>1
  <2>3. longer = [i \in 1..(n + 1) |-> longer[i]]
    BY <1>1
  <2> DEFINE W == Seq(AllDue)
             both == Append(words, w)
  <2> HIDE DEF longer, words, w, W
  <2>4. /\ both \in Seq(W) /\ Len(both) = n + 1
        /\ \A i \in 1..n : both[i] = words[i]
        /\ both[n + 1] = w
    <3>1. words \in Seq(W) /\ w \in W
      BY <1>2, <1>3 DEF W
    <3>2. QED
      BY <1>2, <3>1, AppendProperties
  <2> HIDE DEF both
  <2>5. \A i \in 1..(n + 1) : i \in 1..n \/ i = n + 1
    BY <1>1
  <2>6. \A i \in 1..(n + 1) : longer[i] = both[i]
    BY <2>1, <2>2, <2>4, <2>5
  <2>7. both = [i \in 1..(n + 1) |-> both[i]]
    BY <1>1, <2>4
  <2>8. longer = both
    BY <2>3, <2>6, <2>7
  <2>9. QED
    BY <2>8 DEF both
<1>5. FlattenSeq(Append(words, w)) = FlattenSeq(words) \o w
  <2> HIDE DEF words, w
  <2>1. QED
    BY <1>2, <1>3, FlattenAppended
<1>6. FlattenSeq(longer) = FlattenSeq(words) \o w
  <2> HIDE DEF words, w, longer
  <2>1. QED
    BY <1>4, <1>5
<1>7. QED
  BY <1>6 DEF DueOf, more

-----------------------------------------------------------------------------

\* A row that was read is the one that is due.
RightRow(due, t, row) == due.table = t /\ (Short(due.row) => row = due.row)

SnapshotTypes ==
    /\ spc \in {"idle", "discover", "connect", "next", "send", "waits", "ok", "err", "panic"}
    /\ listed \in Seq(Tables) /\ toRead \in Seq(Tables)
    /\ answered \in Seq(Answers)
    /\ toSend \in Seq(Texts)
    /\ taken \in Seq([table : Tables, row : Texts])

\* Rows are taken in the order in which they are due, and those that are not yet
\* are of the last answer.
SnapshotRows ==
    LET due == DueOf(answered)
    IN  /\ Len(due) = Len(taken) + Len(toSend)
        /\ \A i \in 1..Len(taken) : RightRow(due[i], taken[i].table, taken[i].row)
        /\ \A j \in 1..Len(toSend) :
              RightRow(due[Len(taken) + j], Last(answered).table, toSend[j])
        /\ toSend # <<>> => answered # <<>> /\ spc \in {"send", "err"}

\* Where a snapshot stands in its list.
SnapshotList ==
    /\ spc = "idle" => answered = <<>> /\ taken = <<>>
    /\ spc \in {"discover", "connect"} => answered = <<>> /\ taken = <<>> /\ toRead = listed
    /\ spc \in {"next", "send", "ok"} => listed = TablesOf(answered) \o toRead
    /\ spc = "ok" /\ holds => toRead = <<>>

SnapshotInv == SnapshotTypes /\ SnapshotRows /\ SnapshotList

LEMMA DueOfNone == DueOf(<<>>) = <<>> /\ TablesOf(<<>>) = <<>>
<1>1. [i \in DOMAIN <<>> |-> DueRows(<<>>[i])] = <<>> /\ [i \in DOMAIN <<>> |-> <<>>[i].table] = <<>>
  OBVIOUS
<1>2. QED
  BY <1>1, FlattenNone DEF DueOf, TablesOf

LEMMA SnapshotInit == NoSnapshot => SnapshotInv
<1> SUFFICES ASSUME NoSnapshot
             PROVE  SnapshotInv
  OBVIOUS
<1>1. SnapshotTypes
  BY DEF NoSnapshot, SnapshotTypes
<1>2. SnapshotRows
  <2>1. DueOf(answered) = <<>> /\ taken = <<>> /\ toSend = <<>>
    BY DueOfNone DEF NoSnapshot
  <2>2. QED
    BY <2>1 DEF SnapshotRows
<1>3. SnapshotList
  BY DEF NoSnapshot, SnapshotList
<1>4. QED
  BY <1>1, <1>2, <1>3 DEF SnapshotInv

\* Steps that leave the rows alone.
LEMMA RowsAlone ==
  ASSUME SnapshotRows, UNCHANGED <<answered, taken, toSend>>,
         toSend # <<>> => spc' \in {"send", "err"}
  PROVE  SnapshotRows'
BY DEF SnapshotRows

LEMMA BeginRight ==
  ASSUME SnapshotInv, NEW list \in Lists, BeginSnapshot(list)
  PROVE  SnapshotInv'
<1>1. list \in Seq(Tables)
  BY MySqlConnectorAssumption
<1>2. SnapshotTypes'
  BY <1>1 DEF SnapshotInv, SnapshotTypes, BeginSnapshot
<1>3. SnapshotRows'
  <2>1. toSend = <<>>
    BY DEF SnapshotInv, SnapshotRows, BeginSnapshot
  <2>2. QED
    BY <2>1, RowsAlone DEF SnapshotInv, BeginSnapshot
<1>4. SnapshotList'
  BY DEF SnapshotInv, SnapshotList, BeginSnapshot
<1>5. QED
  BY <1>2, <1>3, <1>4 DEF SnapshotInv

LEMMA DiscoverRight ==
  ASSUME SnapshotInv, NEW ends \in {"ok", "err", "panic", "waits"}, DiscoverTables(ends)
  PROVE  SnapshotInv'
<1>1. toSend = <<>> /\ UNCHANGED <<answered, taken, toSend>>
  BY DEF SnapshotInv, SnapshotRows, DiscoverTables
<1>2. SnapshotTypes'
  BY DEF SnapshotInv, SnapshotTypes, DiscoverTables
<1>3. SnapshotRows'
  BY <1>1, RowsAlone DEF SnapshotInv
<1>4. SnapshotList'
  BY DEF SnapshotInv, SnapshotList, DiscoverTables
<1>5. QED
  BY <1>2, <1>3, <1>4 DEF SnapshotInv

LEMMA LogInRight ==
  ASSUME SnapshotInv, NEW ends \in {"ok", "err", "panic"}, LogIn(ends)
  PROVE  SnapshotInv'
<1>1. toSend = <<>> /\ UNCHANGED <<answered, taken, toSend>>
  BY DEF SnapshotInv, SnapshotRows, LogIn
<1>2. SnapshotTypes'
  BY DEF SnapshotInv, SnapshotTypes, LogIn
<1>3. SnapshotRows'
  BY <1>1, RowsAlone DEF SnapshotInv
<1>4. SnapshotList'
  <2>1. answered = <<>> /\ taken = <<>> /\ toRead = listed /\ listed \in Seq(Tables)
    BY DEF SnapshotInv, SnapshotList, SnapshotTypes, LogIn
  <2>2. TablesOf(<<>>) \o listed = listed
    BY <2>1, DueOfNone
  <2>3. QED
    BY <2>1, <2>2 DEF SnapshotList, LogIn
<1>5. QED
  BY <1>2, <1>3, <1>4 DEF SnapshotInv

LEMMA ReturnRight == SnapshotInv /\ SnapshotReturns => SnapshotInv'
<1> SUFFICES ASSUME SnapshotInv, SnapshotReturns
             PROVE  SnapshotInv'
  OBVIOUS
<1>1. toSend = <<>> /\ UNCHANGED <<answered, taken, toSend>>
  BY DEF SnapshotInv, SnapshotRows, SnapshotReturns
<1>2. SnapshotTypes'
  BY DEF SnapshotInv, SnapshotTypes, SnapshotReturns
<1>3. SnapshotRows'
  BY <1>1, RowsAlone DEF SnapshotInv
<1>4. SnapshotList'
  BY DEF SnapshotInv, SnapshotList, SnapshotReturns
<1>5. QED
  BY <1>2, <1>3, <1>4 DEF SnapshotInv

LEMMA DropRight == SnapshotInv /\ DropReceiver => SnapshotInv'
<1> SUFFICES ASSUME SnapshotInv, DropReceiver
             PROVE  SnapshotInv'
  OBVIOUS
<1>1. UNCHANGED <<spc, answered, taken, toSend>>
  BY DEF DropReceiver
<1>2. SnapshotTypes'
  BY DEF SnapshotInv, SnapshotTypes, DropReceiver
<1>3. SnapshotRows'
  BY <1>1, RowsAlone DEF SnapshotInv, SnapshotRows
<1>4. SnapshotList'
  BY DEF SnapshotInv, SnapshotList, DropReceiver
<1>5. QED
  BY <1>2, <1>3, <1>4 DEF SnapshotInv

LEMMA LoseRight == SnapshotInv /\ LoseConnection => SnapshotInv'
<1> SUFFICES ASSUME SnapshotInv, LoseConnection
             PROVE  SnapshotInv'
  OBVIOUS
<1>1. spc' = "err" /\ UNCHANGED <<answered, taken, toSend>>
  BY DEF LoseConnection
<1>2. SnapshotTypes'
  BY DEF SnapshotInv, SnapshotTypes, LoseConnection
<1>3. SnapshotRows'
  BY <1>1, RowsAlone DEF SnapshotInv
<1>4. SnapshotList'
  BY DEF SnapshotInv, SnapshotList, LoseConnection
<1>5. QED
  BY <1>2, <1>3, <1>4 DEF SnapshotInv

LEMMA ForgetRight == SnapshotInv /\ Forget => SnapshotInv'
<1> SUFFICES ASSUME SnapshotInv, Forget
             PROVE  SnapshotInv'
  OBVIOUS
<1>1. SnapshotTypes'
  BY DEF SnapshotTypes, Forget
<1>2. SnapshotRows'
  <2>1. DueOf(answered') = <<>> /\ taken' = <<>> /\ toSend' = <<>>
    BY DueOfNone DEF Forget
  <2>2. QED
    BY <2>1 DEF SnapshotRows
<1>3. SnapshotList'
  BY DEF SnapshotList, Forget
<1>4. QED
  BY <1>1, <1>2, <1>3 DEF SnapshotInv

LEMMA SendRight == SnapshotInv /\ SendRow => SnapshotInv'
<1> SUFFICES ASSUME SnapshotInv, SendRow
             PROVE  SnapshotInv'
  OBVIOUS
<1>1. CASE toSend = <<>> \/ ~holds
  <2>1. /\ UNCHANGED <<answered, taken, toSend, listed, toRead>>
        /\ spc' = IF toSend = <<>> THEN "next" ELSE "err"
        /\ spc = "send"
    BY <1>1 DEF SendRow
  <2>2. SnapshotTypes'
    BY <2>1 DEF SnapshotInv, SnapshotTypes
  <2>3. SnapshotRows'
    BY <2>1, RowsAlone DEF SnapshotInv
  <2>4. SnapshotList'
    BY <2>1 DEF SnapshotInv, SnapshotList
  <2>5. QED
    BY <2>2, <2>3, <2>4 DEF SnapshotInv
<1>2. CASE toSend # <<>> /\ holds
  <2> DEFINE due == DueOf(answered)
             t == Last(answered).table
             e == [table |-> t, row |-> Head(toSend)]
             k == Len(taken)
  <2>1. /\ spc = "send" /\ spc' = "send" /\ UNCHANGED <<answered, listed, toRead>>
        /\ toSend' = Tail(toSend) /\ taken' = Append(taken, e)
    BY <1>2 DEF SendRow
  <2>2. /\ toSend \in Seq(Texts) /\ taken \in Seq([table : Tables, row : Texts])
        /\ answered \in Seq(Answers) /\ answered # <<>> /\ k \in Nat
    BY <1>2 DEF SnapshotInv, SnapshotTypes, SnapshotRows
  <2>3. /\ Tail(toSend) \in Seq(Texts) /\ Len(Tail(toSend)) = Len(toSend) - 1
        /\ Len(toSend) \in Nat \ {0} /\ Head(toSend) = toSend[1] /\ toSend[1] \in Texts
        /\ \A j \in 1..Len(Tail(toSend)) : Tail(toSend)[j] = toSend[j + 1]
    BY <1>2, <2>2
  <2>4. e \in [table : Tables, row : Texts]
    <3>1. Last(answered) \in Answers
      BY <2>2 DEF Last
    <3>2. t \in Tables
      BY <3>1 DEF Answers
    <3>3. QED
      BY <2>3, <3>2
  <2>5. /\ Append(taken, e) \in Seq([table : Tables, row : Texts])
        /\ Len(Append(taken, e)) = k + 1
        /\ \A i \in 1..k : Append(taken, e)[i] = taken[i]
        /\ Append(taken, e)[k + 1] = e
    BY <2>2, <2>4, AppendProperties
  <2>6. SnapshotTypes'
    BY <2>1, <2>3, <2>5 DEF SnapshotInv, SnapshotTypes
  <2>7. SnapshotRows'
    <3>1. /\ Len(due) = k + Len(toSend)
          /\ \A i \in 1..k : RightRow(due[i], taken[i].table, taken[i].row)
          /\ \A j \in 1..Len(toSend) : RightRow(due[k + j], t, toSend[j])
      BY DEF SnapshotInv, SnapshotRows
    <3> HIDE DEF k, due, t, e
    <3>2. RightRow(due[k + 1], e.table, e.row)
      BY <2>3, <3>1 DEF e
    <3>3. \A i \in 1..(k + 1) : RightRow(due[i], Append(taken, e)[i].table, Append(taken, e)[i].row)
      <4>1. \A i \in 1..(k + 1) : i \in 1..k \/ i = k + 1
        BY <2>2
      <4>2. QED
        BY <2>5, <3>1, <3>2, <4>1
    <3>4. \A j \in 1..Len(Tail(toSend)) : RightRow(due[k + 1 + j], t, Tail(toSend)[j])
      <4>1. \A j \in 1..Len(Tail(toSend)) : j + 1 \in 1..Len(toSend) /\ k + 1 + j = k + (j + 1)
        BY <2>2, <2>3
      <4>2. QED
        BY <2>3, <3>1, <4>1
    <3>5. Len(due) = k + 1 + Len(Tail(toSend))
      BY <2>2, <2>3, <3>1
    <3>6. DueOf(answered') = due /\ Last(answered').table = t /\ answered' # <<>>
      BY <2>1, <2>2 DEF due, t
    <3>7. QED
      BY <2>1, <2>5, <3>3, <3>4, <3>5, <3>6 DEF SnapshotRows
  <2>8. SnapshotList'
    BY <2>1 DEF SnapshotInv, SnapshotList
  <2>9. QED
    BY <2>6, <2>7, <2>8 DEF SnapshotInv
<1>3. QED
  BY <1>1, <1>2

\* A result with its end is one more answer, whose rows are now to be sent.
LEMMA AnswerRight ==
  ASSUME SnapshotInv, NEW rows \in Results, ReadTable(rows, <<EndMark>>)
  PROVE  SnapshotInv'
<1> DEFINE n == Len(rows[1])
           m == Len(rows)
           t == Head(toRead)
           a == [table |-> t, rows |-> rows, whole |-> TRUE]
           texts == [i \in 1..m |-> RowOf(Packets(rows)[i], n)]
           k == Len(taken)
           due == DueOf(answered)
<1>1. /\ m \in Nat \ {0} /\ n \in 1..250
      /\ \A i \in 1..m : /\ IsTexts(rows[i], n) /\ Packets(rows)[i] = Packet(rows[i], n)
                         /\ Packets(rows)[i] \in Seq(Nat)
  <2>1. /\ m \in Nat \ {0} /\ n \in 1..250
        /\ \A i \in 1..m : IsTexts(rows[i], n) /\ Packets(rows)[i] = Packet(rows[i], n)
    BY ResultRows
  <2>2. Packets(rows) \in Seq(Seq(Nat)) /\ Len(Packets(rows)) = m
    BY ResultRows
  <2>3. \A i \in 1..m : Packets(rows)[i] \in Seq(Nat)
    BY <2>2, ElementOfSeq
  <2>4. QED
    BY <2>1, <2>3
<1>2. QueryTable(EncodeResult(n, rows, <<EndMark>>)) = [end |-> "ok", rows |-> texts]
  <2>1. EndMark \in {EndMark, ErrorMark}
    OBVIOUS
  <2>2. QED
    BY <2>1, ResultRead
<1>3. /\ spc = "next" /\ toRead # <<>> /\ holds /\ toRead' = Tail(toRead)
      /\ spc' = "send" /\ toSend' = texts /\ answered' = Append(answered, a)
      /\ UNCHANGED <<listed, taken, holds>>
  <2>1. rows # <<>> /\ <<EndMark>>[1] = EndMark
    BY MySqlConnectorAssumption
  <2> DEFINE result == EncodeResult(n, rows, <<EndMark>>)
             more == [table |-> Head(toRead), rows |-> rows, whole |-> <<EndMark>>[1] = EndMark]
  <2>2. more = a
    BY <2>1
  <2> HIDE DEF texts, more, result
  <2>3. QueryTable(result).end = "ok" /\ QueryTable(result).rows = texts
    BY <1>2 DEF result
  <2>4. /\ spc = "next" /\ toRead # <<>> /\ holds /\ toRead' = Tail(toRead)
        /\ UNCHANGED <<listed, taken, holds>>
    BY DEF ReadTable
  <2>5. /\ spc' = CASE QueryTable(result).end = "ok" -> "send"
                     [] QueryTable(result).end = "error" -> "err"
                     [] OTHER -> QueryTable(result).end
        /\ toSend' = QueryTable(result).rows
        /\ answered' = IF QueryTable(result).end = "ok" THEN Append(answered, more) ELSE answered
    BY <2>1, Zenon DEF ReadTable, n, result, more
  <2> HIDE DEF a
  <2>6. spc' = "send"
    BY <2>3, <2>5
  <2>7. toSend' = texts /\ answered' = Append(answered, a)
    BY <2>2, <2>3, <2>5
  <2>8. QED
    BY <2>4, <2>6, <2>7
<1> HIDE DEF n, m
<1>4. /\ toRead \in Seq(Tables) /\ t \in Tables /\ Tail(toRead) \in Seq(Tables)
      /\ answered \in Seq(Answers) /\ taken \in Seq([table : Tables, row : Texts]) /\ k \in Nat
      /\ listed = TablesOf(answered) \o toRead /\ listed \in Seq(Tables)
  BY <1>3 DEF SnapshotInv, SnapshotTypes, SnapshotList
<1>5. /\ due \in Seq(AllDue) /\ Len(due) = k
      /\ \A i \in 1..k : RightRow(due[i], taken[i].table, taken[i].row)
  <2>1. toSend = <<>>
    BY <1>3 DEF SnapshotInv, SnapshotRows
  <2>2. /\ Len(due) = k + Len(toSend)
        /\ \A i \in 1..k : RightRow(due[i], taken[i].table, taken[i].row)
    BY DEF SnapshotInv, SnapshotRows
  <2>3. due \in Seq(AllDue)
    BY <1>4, DueWords
  <2> HIDE DEF due, k
  <2>4. Len(due) = k
    BY <1>4, <2>1, <2>2
  <2>5. QED
    BY <2>2, <2>3, <2>4
<1>6. /\ a \in Answers /\ a.table = t
      /\ DueRows(a) \in Seq(AllDue) /\ Len(DueRows(a)) = m
      /\ \A j \in 1..m : DueRows(a)[j] = [table |-> t, row |-> rows[j]]
  <2>1. t \in Tables
    BY <1>4
  <2> HIDE DEF t
  <2>2. QED
    BY <2>1, AnswerRows DEF m
<1> HIDE DEF t, a, due, k
<1>7. texts \in Seq(Texts) /\ Len(texts) = m
      /\ \A j \in 1..m : texts[j] = RowOf(Packets(rows)[j], n)
  <2>1. ASSUME NEW j \in 1..m
        PROVE  RowOf(Packets(rows)[j], n) \in Texts
    <3>1. Packets(rows)[j] \in Seq(Nat) /\ n \in Nat
      BY <1>1
    <3> DEFINE p == Packets(rows)[j]
    <3> HIDE DEF p
    <3>2. PICK g \in [0..n -> Readings({Null} \cup Seq(Nat))] : RowOf(p, n) = g[n].got
      <4>1. p \in Seq(Nat) /\ n \in Nat
        BY <3>1 DEF p
      <4>2. QED
        BY <4>1, RowTexts
    <3>3. g[n] \in Readings({Null} \cup Seq(Nat))
      <4>1. n \in 0..n
        BY <1>1
      <4>2. QED
        BY <4>1
    <3>4. QED
      BY <3>2, <3>3 DEF Readings, Texts, p
  <2>2. texts \in [1..m -> Texts]
    BY <2>1
  <2>3. QED
    BY <1>1, <2>2
<1>8. \A j \in 1..m : Short(rows[j]) => texts[j] = rows[j]
  <2>1. ASSUME NEW j \in 1..m, Short(rows[j])
        PROVE  texts[j] = rows[j]
    <3>1. n \in Nat /\ IsTexts(rows[j], n) /\ Packets(rows)[j] = Packet(rows[j], n)
      BY <1>1
    <3>2. RowOf(Packet(rows[j], n), n) = rows[j]
      BY <2>1, <3>1, RowBack
    <3>3. QED
      BY <1>7, <3>1, <3>2
  <2>2. QED
    BY <2>1
<1> HIDE DEF texts
<1>9. /\ Append(answered, a) \in Seq(Answers) /\ Append(answered, a) # <<>>
      /\ Last(Append(answered, a)) = a
      /\ DueOf(Append(answered, a)) = due \o DueRows(a)
  <2>1. /\ Append(answered, a) \in Seq(Answers) /\ Len(Append(answered, a)) = Len(answered) + 1
        /\ Append(answered, a)[Len(answered) + 1] = a /\ Len(answered) \in Nat
    BY <1>4, <1>6, AppendProperties
  <2>2. Append(answered, a) # <<>>
    <3>1. \A s : Len(s) \in Nat \ {0} => s # <<>>
      OBVIOUS
    <3> DEFINE s == Append(answered, a)
    <3>2. Len(s) \in Nat \ {0}
      <4> HIDE DEF s
      <4>1. QED
        BY <2>1 DEF s
    <3>3. QED
      BY <3>1, <3>2
  <2>3. Last(Append(answered, a)) = a
    BY <2>1 DEF Last
  <2>4. DueOf(Append(answered, a)) = due \o DueRows(a)
    BY <1>4, <1>6, DueAppended DEF due
  <2>5. QED
    BY <2>1, <2>2, <2>3, <2>4
<1>10. SnapshotTypes'
  BY <1>3, <1>4, <1>7, <1>9 DEF SnapshotTypes
<1>11. SnapshotRows'
  <2> DEFINE both == due \o DueRows(a)
  <2>1. Joined(AllDue, both, due, DueRows(a))
    BY <1>5, <1>6, JoinedWords
  <2> HIDE DEF both
  <2>2. /\ Len(both) = k + m
        /\ \A i \in 1..k : both[i] = due[i]
        /\ \A j \in 1..m : both[k + j] = [table |-> t, row |-> rows[j]]
    BY <1>5, <1>6, <2>1 DEF Joined
  <2>3. \A i \in 1..k : RightRow(both[i], taken[i].table, taken[i].row)
    BY <1>5, <2>2
  <2>4. \A j \in 1..m : RightRow(both[k + j], t, texts[j])
    <3>1. ASSUME NEW j \in 1..m
          PROVE  RightRow(both[k + j], t, texts[j])
      <4> DEFINE e == [table |-> t, row |-> rows[j]]
      <4>1. e.table = t /\ e.row = rows[j]
        OBVIOUS
      <4>2. both[k + j] = e
        BY <2>2
      <4>3. Short(rows[j]) => texts[j] = rows[j]
        BY <1>8
      <4> HIDE DEF e
      <4>4. RightRow(e, t, texts[j])
        BY <4>1, <4>3 DEF RightRow
      <4>5. QED
        BY <4>2, <4>4
    <3>2. QED
      BY <3>1
  <2>5. /\ DueOf(answered') = both /\ Last(answered').table = t /\ answered' # <<>>
        /\ toSend' = texts /\ taken' = taken /\ spc' = "send"
    BY <1>3, <1>6, <1>9 DEF both
  <2>6. QED
    BY <1>7, <2>2, <2>3, <2>4, <2>5 DEF SnapshotRows, k
<1>12. SnapshotList'
  <2>1. TablesOf(Append(answered, a)) \o Tail(toRead) = TablesOf(answered) \o toRead
    <3>1. TablesOf(answered) \in Seq(Tables)
      <4>1. \A i \in 1..Len(answered) : answered[i] \in Answers
        BY <1>4
      <4>2. \A i \in 1..Len(answered) : answered[i].table \in Tables
        BY <4>1 DEF Answers
      <4>3. TablesOf(answered) = [i \in 1..Len(answered) |-> answered[i].table] /\ Len(answered) \in Nat
        BY <1>4 DEF TablesOf
      <4>4. QED
        BY <4>2, <4>3
    <3>2. TablesOf(Append(answered, a)) = Append(TablesOf(answered), t)
      <4>1. /\ Append(answered, a) \in Seq(Answers) /\ Len(Append(answered, a)) = Len(answered) + 1
            /\ \A i \in 1..Len(answered) : Append(answered, a)[i] = answered[i]
            /\ Append(answered, a)[Len(answered) + 1] = a /\ Len(answered) \in Nat
        BY <1>4, <1>6, AppendProperties
      <4> DEFINE c == Len(answered)
                 one == TablesOf(Append(answered, a))
                 two == Append(TablesOf(answered), t)
      <4>2. one = [i \in 1..(c + 1) |-> Append(answered, a)[i].table]
        BY <4>1 DEF TablesOf
      <4>3. Len(TablesOf(answered)) = c /\ \A i \in 1..c : TablesOf(answered)[i] = answered[i].table
        BY <1>4, <4>1 DEF TablesOf
      <4>4. /\ two \in Seq(Tables) /\ Len(two) = c + 1 /\ two[c + 1] = t
            /\ \A i \in 1..c : two[i] = TablesOf(answered)[i]
        BY <1>4, <3>1, <4>3, AppendProperties
      <4> HIDE DEF two, c
      <4>5. two = [i \in 1..(c + 1) |-> two[i]]
        BY <4>1, <4>4 DEF c
      <4>6. \A i \in 1..(c + 1) : i \in 1..c \/ i = c + 1
        BY <4>1 DEF c
      <4>7. \A i \in 1..c : Append(answered, a)[i].table = two[i]
        BY <4>1, <4>3, <4>4 DEF c
      <4>8. Append(answered, a)[c + 1].table = two[c + 1]
        BY <1>6, <4>1, <4>4 DEF c
      <4>9. \A i \in 1..(c + 1) : Append(answered, a)[i].table = two[i]
        BY <4>6, <4>7, <4>8
      <4>10. QED
        BY <4>2, <4>5, <4>9 DEF two
    <3>3. Append(TablesOf(answered), t) \o Tail(toRead) = TablesOf(answered) \o toRead
      <4> DEFINE L == TablesOf(answered)
      <4>1. L \in Seq(Tables)
        BY <3>1
      <4> HIDE DEF L
      <4>2. toRead \in Seq(Tables) /\ toRead # <<>>
        BY <1>3, <1>4
      <4>3. Append(L, Head(toRead)) \o Tail(toRead) = L \o toRead
        BY <4>1, <4>2
      <4>4. QED
        BY <4>3 DEF t, L
    <3>4. QED
      BY <3>2, <3>3
  <2>2. QED
    BY <1>3, <1>4, <2>1 DEF SnapshotList
<1>13. QED
  BY <1>10, <1>11, <1>12 DEF SnapshotInv

\* What has no end, or is an error, ends the snapshot or is waited for.
LEMMA NoAnswerRight ==
  ASSUME SnapshotInv, NEW rows, NEW end, ReadTable(rows, end),
         NEW how \in {"waits", "panic", "error"},
         QueryTable(IF rows = <<>> THEN <<end>> ELSE EncodeResult(Len(rows[1]), rows, end))
            = [end |-> how, rows |-> <<>>]
  PROVE  SnapshotInv'
<1>1. /\ spc = "next" /\ toRead # <<>> /\ toRead' = Tail(toRead)
      /\ spc' \in {"waits", "panic", "err"} /\ toSend' = <<>> /\ answered' = answered
      /\ UNCHANGED <<listed, taken, holds>>
  BY DEF ReadTable
<1>2. toSend = <<>>
  BY <1>1 DEF SnapshotInv, SnapshotRows
<1>3. SnapshotTypes'
  BY <1>1 DEF SnapshotInv, SnapshotTypes
<1>4. SnapshotRows'
  BY <1>1, <1>2, RowsAlone DEF SnapshotInv
<1>5. SnapshotList'
  BY <1>1 DEF SnapshotList
<1>6. QED
  BY <1>3, <1>4, <1>5 DEF SnapshotInv

LEMMA ResultRight ==
  ASSUME SnapshotInv, NEW rows \in Results, NEW end \in {EndMark, ErrorMark},
         ReadTable(rows, <<end>>)
  PROVE  SnapshotInv'
<1>1. CASE end = EndMark
  BY <1>1, AnswerRight
<1>2. CASE end # EndMark
  <2>1. rows # <<>>
    BY MySqlConnectorAssumption
  <2>2. QueryTable(EncodeResult(Len(rows[1]), rows, <<end>>)) = [end |-> "waits", rows |-> <<>>]
    BY <1>2, ResultRead
  <2>3. "waits" \in {"waits", "panic", "error"}
    OBVIOUS
  <2>4. QED
    BY <2>1, <2>2, <2>3, NoAnswerRight, Zenon
<1>3. QED
  BY <1>1, <1>2

LEMMA ErrorRight ==
  ASSUME SnapshotInv, NEW end \in {<<ErrorMark>>, <<ErrorMark, 0, 0>>}, ReadTable(<<>>, end)
  PROVE  SnapshotInv'
<1>1. QueryTable(<<end>>) \in {[end |-> "panic", rows |-> <<>>], [end |-> "error", rows |-> <<>>]}
  BY ErrorRead
<1>2. PICK how \in {"waits", "panic", "error"} : QueryTable(<<end>>) = [end |-> how, rows |-> <<>>]
  BY <1>1
<1>3. QED
  BY <1>2, NoAnswerRight, Zenon

LEMMA SnapshotStep == SnapshotInv /\ [ConnectorNext]_connectorVars => SnapshotInv'
<1>1. SnapshotInv /\ UNCHANGED snapshotVars => SnapshotInv'
  BY DEF snapshotVars, SnapshotInv, SnapshotTypes, SnapshotRows, SnapshotList
<1>2. SnapshotInv /\ Snapshot => SnapshotInv'
  BY BeginRight, DiscoverRight, LogInRight, ReturnRight, ResultRight, ErrorRight, SendRight,
     DropRight, LoseRight, ForgetRight DEF Snapshot
<1>3. QED
  BY <1>1, <1>2 DEF ConnectorNext, connectorVars

LEMMA SnapshotInvRight == SnapshotInv => SnapshotIsRight
<1> SUFFICES ASSUME SnapshotInv
             PROVE  SnapshotIsRight
  OBVIOUS
<1> DEFINE due == DueOf(answered)
           right == /\ Len(taken) <= Len(due)
                    /\ \A i \in DOMAIN taken :
                          /\ taken[i].table = due[i].table
                          /\ Short(due[i].row) => taken[i].row = due[i].row
                    /\ spc = "ok" /\ holds =>
                          /\ Len(taken) = Len(due)
                          /\ listed = TablesOf(answered)
                          /\ \A i \in DOMAIN answered : answered[i].whole
<1>1. /\ answered \in Seq(Answers) /\ Len(taken) \in Nat /\ Len(toSend) \in Nat
      /\ DOMAIN taken = 1..Len(taken)
  BY DEF SnapshotInv, SnapshotTypes
<1>2. /\ Len(due) = Len(taken) + Len(toSend)
      /\ \A i \in 1..Len(taken) : RightRow(due[i], taken[i].table, taken[i].row)
      /\ toSend # <<>> => spc \in {"send", "err"}
  BY DEF SnapshotInv, SnapshotRows
<1>3. \A i \in DOMAIN answered : answered[i].whole
  <2>1. \A i \in DOMAIN answered : answered[i] \in Answers
    BY <1>1
  <2>2. QED
    BY <2>1 DEF Answers
<1>4. spc = "ok" /\ holds => toSend = <<>> /\ listed = TablesOf(answered)
  <2>1. ASSUME spc = "ok", holds
        PROVE  listed = TablesOf(answered)
    <3>1. listed = TablesOf(answered) \o toRead /\ toRead = <<>>
      BY <2>1 DEF SnapshotInv, SnapshotList
    <3>2. TablesOf(answered) \in Seq(Tables)
      <4>1. \A i \in 1..Len(answered) : answered[i] \in Answers
        BY <1>1
      <4>2. \A i \in 1..Len(answered) : answered[i].table \in Tables
        BY <4>1 DEF Answers
      <4>3. TablesOf(answered) = [i \in 1..Len(answered) |-> answered[i].table] /\ Len(answered) \in Nat
        BY <1>1 DEF TablesOf
      <4>4. QED
        BY <4>2, <4>3
    <3>3. QED
      BY <3>1, <3>2
  <2>2. QED
    BY <1>2, <2>1
<1> HIDE DEF due
<1>5. right
  <2>1. Len(taken) <= Len(due)
    BY <1>1, <1>2
  <2>2. \A i \in DOMAIN taken : /\ taken[i].table = due[i].table
                                /\ Short(due[i].row) => taken[i].row = due[i].row
    BY <1>1, <1>2 DEF RightRow
  <2>3. spc = "ok" /\ holds => Len(taken) = Len(due) /\ listed = TablesOf(answered)
    <3>1. toSend = <<>> => Len(toSend) = 0
      OBVIOUS
    <3>2. QED
      BY <1>1, <1>2, <1>4, <3>1
  <2>4. QED
    BY <1>3, <2>1, <2>2, <2>3
<1>6. QED
  BY <1>5 DEF SnapshotIsRight, due, DueOf, DueRows, TablesOf

\* The events of a snapshot are the rows of its tables in order, short values
\* are right, and an Ok that nobody's absence explains has them all.
THEOREM SnapshotRight == ConnectorSpec => []SnapshotIsRight
<1>1. ConnectorInit => SnapshotInv
  BY SnapshotInit DEF ConnectorInit
<1>2. QED
  BY <1>1, SnapshotStep, SnapshotInvRight, PTL DEF ConnectorSpec

-----------------------------------------------------------------------------
(* A session: what the server sent, what waits, and what the client has.   *)

\* What every call begins and ends with.
Blank ==
    /\ opened = <<>> /\ mapped = {} /\ sent = <<>> /\ whole = TRUE
    /\ packing = <<>> /\ wire = <<>> /\ tables = <<>> /\ refused = FALSE /\ got = <<>>

SessionTypes ==
    /\ pc \in {"idle", "dial", "sleep", "greeting", "login", "register", "dump",
               "stream", "panic"}
    /\ caller \in {"start", "stream"}
    /\ attempt \in 0..(Attempts - 1) /\ waited \in Nat
    /\ whole \in BOOLEAN /\ receiver \in BOOLEAN /\ refused \in BOOLEAN
    /\ granted \in {"nothing", "login", "switch", "slave", "dump"}
    /\ opened \in Seq([table : Tables, types : Shapes])
    /\ mapped \subseteq DOMAIN opened
    /\ IsSeq(sent) /\ IsSeq(got) /\ IsSeq(wire) /\ IsSeq(packing)
    /\ \A p \in DOMAIN wire : IsSeq(wire[p].events)

BlankOutside == pc # "stream" => Blank

\* The events of packet p, behind the others the one that is being made.
Waiting(p) == IF p <= Len(wire) THEN wire[p].events ELSE packing

\* Event i of packet p waits.
Slot(p, i) == p \in 1..(Len(wire) + 1) /\ i \in DOMAIN Waiting(p)

EventAt(p, i) == Waiting(p)[i]

Before(p, i, q, j) == p < q \/ (p = q /\ i < j)

\* An event is what the server has opened and sent.
MapMeant(e, tabs) == e.id \in DOMAIN tabs /\ e = MapEvent(e.id, tabs[e.id])

RowsMeant(e, tabs, notes) ==
    /\ e.id \in DOMAIN tabs /\ e.op \in {"c", "u", "d"}
    /\ e.first \in Nat \ {0} /\ e.last \in Nat /\ e.first <= e.last /\ e.last <= Len(notes)
    /\ \E rows \in RowLists[tabs[e.id].types], second \in BOOLEAN :
          /\ EventRows(tabs[e.id].types, rows) /\ (second => e.op = "u")
          /\ e.body = Body(tabs[e.id].types, e.op, rows, second)
          /\ e.last = e.first + Len(rows) - 1
          /\ \A k \in 1..Len(rows) :
                notes[e.first + k - 1] = Note(tabs[e.id], e.op, rows[k], second)

EventMeant(e, tabs, notes) ==
    /\ e.kind = "map" => MapMeant(e, tabs)
    /\ e.kind = "rows" => RowsMeant(e, tabs, notes)

QueueMeant == \A p, i \in Nat : Slot(p, i) => EventMeant(EventAt(p, i), opened, sent)

IsRows(p, i) == Slot(p, i) /\ EventAt(p, i).kind = "rows"

QueueOrder ==
    \A p, i, q, j \in Nat : IsRows(p, i) /\ IsRows(q, j) /\ Before(p, i, q, j)
        => EventAt(p, i).last < EventAt(q, j).first

\* A table is what was read from its map.
Mapped(o) ==
    [table |-> o.table, types |-> o.types,
     metas |-> ColumnMetas(o.types, EncodeMetas(o.types, [c \in DOMAIN o.types |-> 0]))]

TablesMeant == \A id \in DOMAIN tables : id \in DOMAIN opened /\ tables[id] = Mapped(opened[id])

\* A change event is of a row that was sent.
GotMeant(g, notes) ==
    /\ g.row \in 1..Len(notes)
    /\ LET n == notes[g.row]
       IN  /\ g.table = n.table /\ g.op = n.op
           /\ ~n.second => g.before = Meant(n.types, n.before) /\ g.after = Meant(n.types, n.after)

GotRight ==
    /\ \A k \in DOMAIN got : got[k].row >= k /\ GotMeant(got[k], sent)
    /\ \A k, l \in DOMAIN got : k < l => got[k].row < got[l].row
    /\ \A k \in DOMAIN got : \A p, i \in Nat : IsRows(p, i) => got[k].row < EventAt(p, i).first

\* The map of id was read, or waits before event i of packet p.
KnownAt(id, p, i) ==
    \/ id \in DOMAIN tables
    \/ \E q, j \in Nat : /\ Slot(q, j) /\ Before(q, j, p, i)
                         /\ EventAt(q, j).kind = "map" /\ EventAt(q, j).id = id

\* A packet of which nothing is hidden.
Plain(packet) ==
    \/ packet.events = <<>>
    \/ packet.flaw = "none" /\ Counted(packet.events) \in {0, Len(packet.events)}

\* Row k was read, or waits.
Covered(k) ==
    \/ k <= Len(got)
    \/ \E p, i \in Nat : IsRows(p, i) /\ EventAt(p, i).first <= k /\ k <= EventAt(p, i).last

Lossless ==
    whole /\ ~refused =>
       /\ \A p \in DOMAIN wire : Plain(wire[p])
       /\ \A k \in 1..Len(sent) : Covered(k)
       /\ \A id \in mapped : KnownAt(id, Len(wire) + 2, 1)
       /\ \A p, i \in Nat : IsRows(p, i) => KnownAt(EventAt(p, i).id, p, i)

SessionInv ==
    /\ SessionTypes /\ BlankOutside /\ QueueMeant /\ QueueOrder /\ TablesMeant /\ GotRight
    /\ Lossless

-----------------------------------------------------------------------------

Grown(s, t) ==
    /\ Len(s) \in Nat /\ DOMAIN s = 1..Len(s) /\ Len(t) \in Nat /\ DOMAIN t = 1..Len(t)
    /\ Len(s) <= Len(t) /\ \A k \in 1..Len(s) : t[k] = s[k]

LEMMA SameGrown == ASSUME NEW s, IsSeq(s) PROVE Grown(s, s)
BY SeqDomain DEF Grown

LEMMA AppendGrown ==
  ASSUME NEW s, IsSeq(s), NEW e
  PROVE  Grown(s, Append(s, e)) /\ IsSeq(Append(s, e))
<1> DEFINE t == Append(s, e)
<1>1. /\ IsSeq(t) /\ Len(s) \in Nat /\ DOMAIN s = 1..Len(s) /\ Len(t) = Len(s) + 1
      /\ DOMAIN t = 1..(Len(s) + 1) /\ \A i \in DOMAIN s : t[i] = s[i]
  BY AppendAny
<1> HIDE DEF t
<1>2. QED
  BY <1>1 DEF Grown, t

Follows(u, s, t) ==
    Len(t) = Len(s) + Len(u) /\ \A k \in 1..Len(u) : t[Len(s) + k] = u[k]

LEMMA ConcatGrown ==
  ASSUME NEW s, IsSeq(s), NEW u, IsSeq(u)
  PROVE  Grown(s, s \o u) /\ IsSeq(s \o u) /\ Follows(u, s, s \o u)
<1> DEFINE t == s \o u
<1>1. /\ IsSeq(t) /\ Len(s) \in Nat /\ DOMAIN s = 1..Len(s) /\ Len(u) \in Nat
      /\ Len(t) = Len(s) + Len(u) /\ DOMAIN t = 1..(Len(s) + Len(u))
      /\ \A i \in 1..Len(s) : t[i] = s[i]
      /\ \A i \in 1..Len(u) : t[Len(s) + i] = u[i]
  BY ConcatAny
<1> HIDE DEF t
<1>2. QED
  BY <1>1 DEF Grown, Follows, t

\* What is meant stays what it is when more is opened and sent.
LEMMA MeantKept ==
  ASSUME NEW o, NEW oo, Grown(o, oo), NEW s, NEW ss, Grown(s, ss), NEW e, EventMeant(e, o, s)
  PROVE  EventMeant(e, oo, ss)
<1>1. \A id \in DOMAIN o : id \in DOMAIN oo /\ oo[id] = o[id]
  BY DEF Grown
<1>2. ASSUME MapMeant(e, o) PROVE MapMeant(e, oo)
  BY <1>1, <1>2 DEF MapMeant
<1>3. ASSUME RowsMeant(e, o, s) PROVE RowsMeant(e, oo, ss)
  <2>1. /\ e.id \in DOMAIN oo /\ oo[e.id] = o[e.id] /\ e.op \in {"c", "u", "d"}
        /\ e.first \in Nat \ {0} /\ e.last \in Nat /\ e.first <= e.last /\ e.last <= Len(ss)
    BY <1>1, <1>3 DEF RowsMeant, Grown
  <2>2. PICK rows \in RowLists[o[e.id].types], second \in BOOLEAN :
          /\ EventRows(o[e.id].types, rows) /\ (second => e.op = "u")
          /\ e.body = Body(o[e.id].types, e.op, rows, second)
          /\ e.last = e.first + Len(rows) - 1
          /\ \A k \in 1..Len(rows) : s[e.first + k - 1] = Note(o[e.id], e.op, rows[k], second)
    BY <1>3 DEF RowsMeant
  <2>3. ASSUME NEW k \in 1..Len(rows)
        PROVE  ss[e.first + k - 1] = s[e.first + k - 1]
    <3> DEFINE a == e.first
               b == e.last
               m == Len(rows)
    <3>1. a \in Nat \ {0} /\ b \in Nat /\ a <= b /\ b <= Len(s) /\ b = a + m - 1
      BY <1>3, <2>2 DEF RowsMeant
    <3>2. k \in 1..m /\ m \in Nat /\ Len(s) \in Nat
      BY <2>2, SeqDomain DEF Grown, EventRows
    <3> HIDE DEF a, b, m
    <3>3. a + k - 1 \in 1..Len(s)
      BY <3>1, <3>2
    <3>4. QED
      BY <3>3 DEF Grown, a
  <2>4. QED
    BY <2>1, <2>2, <2>3 DEF RowsMeant
<1>4. QED
  BY <1>2, <1>3 DEF EventMeant

-----------------------------------------------------------------------------
(* Events are packed, sent and read.                                        *)

\* The place of the next event.
NewSlot(p, i) == p = Len(wire) + 1 /\ i = Len(packing) + 1

LEMMA WaitingSeq ==
  ASSUME SessionTypes, NEW p \in 1..(Len(wire) + 1)
  PROVE  /\ IsSeq(Waiting(p)) /\ Len(Waiting(p)) \in Nat /\ DOMAIN Waiting(p) = 1..Len(Waiting(p))
         /\ p \in Nat \ {0} /\ Len(wire) \in Nat
<1>1. Len(wire) \in Nat /\ DOMAIN wire = 1..Len(wire)
  BY SeqDomain DEF SessionTypes
<1>2. IsSeq(Waiting(p))
  <2>1. CASE p <= Len(wire)
    <3>1. p \in DOMAIN wire
      BY <1>1, <2>1
    <3>2. QED
      BY <2>1, <3>1 DEF SessionTypes, Waiting
  <2>2. CASE ~(p <= Len(wire))
    BY <2>2 DEF SessionTypes, Waiting
  <2>3. QED
    BY <2>1, <2>2
<1>3. QED
  BY <1>1, <1>2, SeqDomain

LEMMA SlotNumbers ==
  ASSUME SessionTypes, NEW p, NEW i, Slot(p, i)
  PROVE  p \in Nat \ {0} /\ i \in Nat \ {0}
<1>1. p \in 1..(Len(wire) + 1) /\ i \in DOMAIN Waiting(p)
  BY DEF Slot
<1>2. p \in Nat \ {0} /\ DOMAIN Waiting(p) = 1..Len(Waiting(p)) /\ Len(Waiting(p)) \in Nat
  BY <1>1, WaitingSeq
<1>3. QED
  BY <1>1, <1>2

\* An event more is behind the others.
PackedOne(e) ==
    /\ IsSeq(packing')
    /\ \A p, i \in Nat : Slot(p, i)' <=> (Slot(p, i) \/ NewSlot(p, i))
    /\ \A p, i \in Nat : Slot(p, i) =>
          EventAt(p, i)' = EventAt(p, i) /\ p <= Len(wire) + 1
          /\ (p = Len(wire) + 1 => i < Len(packing) + 1)
    /\ \A p, i \in Nat : NewSlot(p, i) => EventAt(p, i)' = e

LEMMA PackSlots ==
  ASSUME SessionTypes, NEW e, Pack(e), wire' = wire
  PROVE  PackedOne(e)
<1> DEFINE n == Len(wire) + 1
           m == Len(packing)
<1>1. /\ IsSeq(packing') /\ m \in Nat /\ DOMAIN packing = 1..m /\ DOMAIN packing' = 1..(m + 1)
      /\ \A i \in 1..m : packing'[i] = packing[i]
      /\ packing'[m + 1] = e
  BY AppendAny DEF Pack, SessionTypes
<1>2. n \in Nat /\ Len(wire) \in Nat
  BY SeqDomain DEF SessionTypes
<1>3. \A p : Waiting(p)' = IF p <= Len(wire) THEN wire[p].events ELSE packing'
  BY DEF Waiting
<1>4. ASSUME NEW p \in Nat, p # n
      PROVE  /\ \A i : Slot(p, i)' <=> Slot(p, i)
             /\ \A i : Slot(p, i) => EventAt(p, i)' = EventAt(p, i)
  <2>1. CASE p \in 1..n
    <3>1. p <= Len(wire)
      BY <1>2, <1>4, <2>1
    <3>2. Waiting(p)' = Waiting(p)
      BY <1>3, <3>1 DEF Waiting
    <3>3. QED
      BY <3>2 DEF Slot, EventAt
  <2>2. CASE p \notin 1..n
    BY <2>2 DEF Slot
  <2>3. QED
    BY <2>1, <2>2
<1>5. Waiting(n) = packing /\ \A p : p = n => Waiting(p)' = packing'
  <2>1. ~(n <= Len(wire))
    BY <1>2
  <2>2. QED
    BY <1>3, <2>1 DEF Waiting
<1>6. /\ \A i : Slot(n, i) <=> i \in 1..m
      /\ \A p, i : p = n => (Slot(p, i)' <=> i \in 1..(m + 1))
  <2>1. n \in 1..n
    BY <1>2
  <2>2. QED
    BY <1>1, <1>5, <2>1 DEF Slot
<1>7. \A p, i \in Nat : NewSlot(p, i) => EventAt(p, i)' = e
  <2> HIDE DEF n, m
  <2>1. \A p, i \in Nat : NewSlot(p, i) => p = n /\ i = m + 1
    BY DEF NewSlot, n, m
  <2>2. \A p, i : p = n => EventAt(p, i)' = packing'[i]
    BY <1>5 DEF EventAt
  <2>3. QED
    BY <1>1, <2>1, <2>2
<1>8. ASSUME NEW p \in Nat, NEW i \in Nat
      PROVE  /\ Slot(p, i)' <=> (Slot(p, i) \/ NewSlot(p, i))
             /\ Slot(p, i) => EventAt(p, i)' = EventAt(p, i) /\ p <= Len(wire) + 1
                              /\ (p = Len(wire) + 1 => i < Len(packing) + 1)
  <2>1. Slot(p, i) => p <= Len(wire) + 1
    BY <1>2 DEF Slot
  <2>2. CASE p # n
    BY <1>4, <2>1, <2>2 DEF NewSlot
  <2>3. CASE p = n
    <3> HIDE DEF n, m
    <3>1. NewSlot(p, i) <=> i = m + 1
      BY <2>3 DEF NewSlot, n, m
    <3>2. (Slot(p, i) <=> i \in 1..m) /\ (Slot(p, i)' <=> i \in 1..(m + 1))
      BY <1>6, <2>3
    <3>3. i \in 1..(m + 1) <=> (i \in 1..m \/ i = m + 1)
      BY <1>1
    <3>4. Slot(p, i) => EventAt(p, i)' = EventAt(p, i) /\ i < m + 1
      <4>1. SUFFICES ASSUME i \in 1..m
                     PROVE  EventAt(p, i)' = EventAt(p, i) /\ i < m + 1
        BY <3>2
      <4>2. EventAt(p, i)' = packing'[i] /\ EventAt(p, i) = packing[i]
        BY <1>5, <2>3 DEF EventAt
      <4>3. QED
        BY <1>1, <4>1, <4>2
    <3>5. QED
      BY <2>1, <3>1, <3>2, <3>3, <3>4 DEF m
  <2>4. QED
    BY <2>2, <2>3
<1>9. QED
  BY <1>1, <1>7, <1>8 DEF PackedOne

\* What holds of an event that is packed: its rows are the last ones sent.
PackedRight(e) ==
    /\ Pack(e) /\ EventMeant(e, opened', sent')
    /\ Grown(opened, opened') /\ Grown(sent, sent')
    /\ e.kind = "rows" => e.first = Len(sent) + 1 /\ e.last = Len(sent') /\ e.id \in mapped
    /\ e.kind # "rows" => sent' = sent
    /\ \A id \in mapped' : id \in mapped \/ (e.kind = "map" /\ e.id = id)
    /\ UNCHANGED <<wire, tables, got, whole, refused>>

LEMMA PackQueue ==
  ASSUME SessionInv, NEW e, PackedRight(e)
  PROVE  QueueMeant' /\ QueueOrder'
<1>1. SessionTypes /\ QueueMeant /\ QueueOrder /\ Grown(opened, opened') /\ Grown(sent, sent')
  BY DEF SessionInv, PackedRight
<1>2. PackedOne(e)
  BY <1>1, PackSlots DEF PackedRight
<1>3. ASSUME NEW p \in Nat, NEW i \in Nat, Slot(p, i)'
      PROVE  EventMeant(EventAt(p, i)', opened', sent')
  <2>1. CASE Slot(p, i)
    <3>1. EventMeant(EventAt(p, i), opened, sent) /\ EventAt(p, i)' = EventAt(p, i)
      BY <1>1, <1>2, <2>1 DEF QueueMeant, PackedOne
    <3>2. EventMeant(EventAt(p, i), opened', sent')
      BY <1>1, <3>1, MeantKept
    <3>3. QED
      BY <3>1, <3>2
  <2>2. CASE NewSlot(p, i)
    BY <1>2, <2>2 DEF PackedOne, PackedRight
  <2>3. QED
    BY <1>2, <1>3, <2>1, <2>2 DEF PackedOne
<1>4. \A p, i \in Nat : (Slot(p, i) => EventMeant(EventAt(p, i), opened, sent))'
  BY <1>3
<1>5. QueueMeant'
  BY <1>4 DEF QueueMeant
<1>6. ASSUME NEW p \in Nat, NEW i \in Nat, NEW q \in Nat, NEW j \in Nat,
             IsRows(p, i)', IsRows(q, j)', Before(p, i, q, j)
      PROVE  EventAt(p, i)'.last < EventAt(q, j)'.first
  <2>1. Slot(p, i)' /\ Slot(q, j)' /\ EventAt(p, i)'.kind = "rows" /\ EventAt(q, j)'.kind = "rows"
    BY <1>6 DEF IsRows
  <2>2. ~NewSlot(p, i)
    <3>1. SUFFICES ASSUME NewSlot(p, i)
                   PROVE  FALSE
      OBVIOUS
    <3>2. p = Len(wire) + 1 /\ i = Len(packing) + 1
      BY <3>1 DEF NewSlot
    <3>3. Len(wire) \in Nat /\ Len(packing) \in Nat
      BY <1>1, SeqDomain DEF SessionTypes
    <3>4. q <= p /\ (q = p => j <= i)
      <4>1. CASE NewSlot(q, j)
        BY <3>2, <3>3, <4>1 DEF NewSlot
      <4>2. CASE Slot(q, j)
        BY <1>2, <3>2, <3>3, <4>2 DEF PackedOne
      <4>3. QED
        BY <1>2, <2>1, <4>1, <4>2 DEF PackedOne
    <3>5. QED
      BY <1>6, <3>4 DEF Before
  <2>3. Slot(p, i) /\ EventAt(p, i)' = EventAt(p, i)
    BY <1>2, <2>1, <2>2 DEF PackedOne
  <2>4. CASE Slot(q, j)
    <3>1. EventAt(q, j)' = EventAt(q, j)
      BY <1>2, <2>4 DEF PackedOne
    <3>2. EventAt(p, i).last < EventAt(q, j).first
      BY <1>1, <1>6, <2>1, <2>3, <2>4, <3>1 DEF QueueOrder, IsRows
    <3>3. QED
      BY <2>3, <3>1, <3>2
  <2>5. CASE NewSlot(q, j)
    <3>1. EventAt(q, j)' = e
      BY <1>2, <2>5 DEF PackedOne
    <3>2. e.first = Len(sent) + 1
      BY <2>1, <3>1 DEF PackedRight
    <3>3. RowsMeant(EventAt(p, i), opened, sent)
      BY <1>1, <2>1, <2>3 DEF QueueMeant, EventMeant
    <3>4. EventAt(p, i).last \in Nat /\ EventAt(p, i).last <= Len(sent) /\ Len(sent) \in Nat
      BY <1>1, <3>3 DEF RowsMeant, Grown
    <3>5. QED
      BY <2>3, <3>1, <3>2, <3>4
  <2>6. QED
    BY <1>2, <2>1, <2>4, <2>5 DEF PackedOne
<1>7. QueueOrder'
  BY <1>6 DEF QueueOrder, Before
<1>8. QED
  BY <1>5, <1>7

LEMMA PackTables ==
  ASSUME SessionInv, NEW e, PackedRight(e)
  PROVE  TablesMeant'
<1>1. TablesMeant /\ Grown(opened, opened') /\ tables' = tables
  BY DEF SessionInv, PackedRight
<1>2. QED
  BY <1>1 DEF TablesMeant, Grown

LEMMA GotKept ==
  ASSUME NEW s, NEW t, Grown(s, t), NEW g, GotMeant(g, s)
  PROVE  GotMeant(g, t)
<1>1. g.row \in 1..Len(s) /\ t[g.row] = s[g.row] /\ g.row \in 1..Len(t)
  BY DEF GotMeant, Grown
<1>2. QED
  BY <1>1 DEF GotMeant

LEMMA PackGot ==
  ASSUME SessionInv, NEW e, PackedRight(e)
  PROVE  GotRight'
<1>1. /\ SessionTypes /\ GotRight /\ Grown(sent, sent') /\ got' = got /\ Len(sent) \in Nat
  BY DEF SessionInv, PackedRight, Grown
<1>2. PackedOne(e)
  BY <1>1, PackSlots DEF PackedRight
<1>3. \A k \in DOMAIN got : got[k].row >= k /\ GotMeant(got[k], sent')
  BY <1>1, GotKept DEF GotRight
<1>4. ASSUME NEW k \in DOMAIN got, NEW p \in Nat, NEW i \in Nat, IsRows(p, i)'
      PROVE  got[k].row < EventAt(p, i)'.first
  <2>1. CASE Slot(p, i)
    <3>1. EventAt(p, i)' = EventAt(p, i)
      BY <1>2, <2>1 DEF PackedOne
    <3>2. got[k].row < EventAt(p, i).first
      BY <1>1, <1>4, <2>1, <3>1 DEF GotRight, IsRows
    <3>3. QED
      BY <3>1, <3>2
  <2>2. CASE NewSlot(p, i)
    <3>1. EventAt(p, i)' = e
      BY <1>2, <2>2 DEF PackedOne
    <3>2. e.first = Len(sent) + 1
      BY <1>4, <3>1 DEF PackedRight, IsRows
    <3>3. got[k].row \in 1..Len(sent)
      BY <1>1 DEF GotRight, GotMeant
    <3>4. QED
      BY <1>1, <3>1, <3>2, <3>3
  <2>3. QED
    BY <1>2, <1>4, <2>1, <2>2 DEF PackedOne, IsRows
<1>5. QED
  BY <1>1, <1>3, <1>4 DEF GotRight

LEMMA PackLossless ==
  ASSUME SessionInv, NEW e, PackedRight(e)
  PROVE  Lossless'
<1>1. /\ SessionTypes /\ Lossless /\ QueueMeant /\ Grown(sent, sent')
      /\ UNCHANGED <<wire, tables, got, whole, refused>>
  BY DEF SessionInv, PackedRight
<1>2. PackedOne(e)
  BY <1>1, PackSlots DEF PackedRight
<1>3. SUFFICES ASSUME whole, ~refused
               PROVE  /\ \A p \in DOMAIN wire : Plain(wire[p])
                      /\ \A k \in 1..Len(sent') : Covered(k)'
                      /\ \A id \in mapped' : KnownAt(id, Len(wire) + 2, 1)'
                      /\ \A p, i \in Nat : IsRows(p, i)' => KnownAt(EventAt(p, i).id, p, i)'
  BY <1>1 DEF Lossless, Plain
<1>4. PICK n \in Nat : n = Len(wire) + 1
  BY <1>1, SeqDomain DEF SessionTypes
<1>5. PICK m \in Nat : m = Len(packing) + 1
  BY <1>1, SeqDomain DEF SessionTypes
<1>6. /\ \A p, i \in Nat : Slot(p, i)' <=> (Slot(p, i) \/ (p = n /\ i = m))
      /\ \A p, i \in Nat : Slot(p, i) => /\ EventAt(p, i)' = EventAt(p, i)
                                         /\ p <= n /\ (p = n => i < m)
      /\ EventAt(n, m)' = e
  <2>1. \A p, i \in Nat : NewSlot(p, i) <=> p = n /\ i = m
    BY <1>4, <1>5 DEF NewSlot
  <2>2. \A p, i \in Nat : NewSlot(p, i) => EventAt(p, i)' = e
    BY <1>2 DEF PackedOne
  <2>3. EventAt(n, m)' = e
    BY <2>1, <2>2
  <2>4. QED
    BY <1>2, <1>4, <1>5, <2>1, <2>3 DEF PackedOne
<1>7. ASSUME NEW id, NEW p \in Nat, NEW i \in Nat, KnownAt(id, p, i)
      PROVE  KnownAt(id, p, i)'
  <2>1. CASE id \in DOMAIN tables
    BY <1>1, <2>1 DEF KnownAt
  <2>2. CASE id \notin DOMAIN tables
    <3>1. PICK q \in Nat, j \in Nat : /\ Slot(q, j) /\ Before(q, j, p, i)
                                      /\ EventAt(q, j).kind = "map" /\ EventAt(q, j).id = id
      BY <1>7, <2>2 DEF KnownAt
    <3>2. Slot(q, j)' /\ EventAt(q, j)' = EventAt(q, j)
      BY <1>6, <3>1
    <3>3. QED
      BY <3>1, <3>2 DEF KnownAt, Before
  <2>3. QED
    BY <2>1, <2>2
<1>8. \A id \in mapped : KnownAt(id, n + 1, 1) /\ KnownAt(id, n, m)
  <2>1. SUFFICES ASSUME NEW id \in mapped
                 PROVE  KnownAt(id, n + 1, 1) /\ KnownAt(id, n, m)
    OBVIOUS
  <2>2. n + 1 = Len(wire) + 2
    BY <1>1, <1>4, SeqDomain DEF SessionTypes
  <2>3. KnownAt(id, n + 1, 1)
    BY <1>1, <1>3, <2>2 DEF Lossless
  <2>4. CASE id \in DOMAIN tables
    BY <2>3, <2>4 DEF KnownAt
  <2>5. CASE id \notin DOMAIN tables
    <3>1. PICK q \in Nat, j \in Nat : Slot(q, j) /\ EventAt(q, j).kind = "map" /\ EventAt(q, j).id = id
      BY <2>3, <2>5 DEF KnownAt
    <3>2. Before(q, j, n, m)
      BY <1>6, <3>1 DEF Before
    <3>3. QED
      BY <2>3, <3>1, <3>2 DEF KnownAt
  <2>6. QED
    BY <2>4, <2>5
<1>9. \A p \in DOMAIN wire : Plain(wire[p])
  BY <1>1, <1>3 DEF Lossless
<1>10. ASSUME NEW k \in 1..Len(sent')
       PROVE  Covered(k)'
  <2>1. CASE k <= Len(sent)
    <3>1. Covered(k)
      BY <1>1, <1>3, <2>1 DEF Lossless, Grown
    <3>2. CASE k <= Len(got)
      BY <1>1, <3>2 DEF Covered
    <3>3. CASE ~(k <= Len(got))
      <4>1. PICK p \in Nat, i \in Nat : IsRows(p, i) /\ EventAt(p, i).first <= k /\ k <= EventAt(p, i).last
        BY <3>1, <3>3 DEF Covered
      <4>2. IsRows(p, i)' /\ EventAt(p, i)' = EventAt(p, i)
        BY <1>6, <4>1 DEF IsRows
      <4>3. QED
        BY <4>1, <4>2 DEF Covered
    <3>4. QED
      BY <3>2, <3>3
  <2>2. CASE ~(k <= Len(sent))
    <3>1. e.kind = "rows"
      BY <2>2 DEF PackedRight
    <3>2. e.first = Len(sent) + 1 /\ e.last = Len(sent')
      BY <3>1 DEF PackedRight
    <3>3. IsRows(n, m)'
      BY <1>6, <3>1 DEF IsRows
    <3>4. EventAt(n, m)'.first <= k /\ k <= EventAt(n, m)'.last
      BY <1>1, <1>6, <2>2, <3>2 DEF Grown
    <3>5. QED
      BY <3>3, <3>4 DEF Covered
  <2>3. QED
    BY <2>1, <2>2
<1>11. ASSUME NEW id \in mapped'
       PROVE  KnownAt(id, Len(wire) + 2, 1)'
  <2>1. n + 1 = Len(wire) + 2 /\ Len(wire') = Len(wire)
    BY <1>1, <1>4, SeqDomain DEF SessionTypes
  <2>2. CASE id \in mapped
    <3>1. KnownAt(id, n + 1, 1)'
      BY <1>7, <1>8, <2>2
    <3>2. QED
      BY <2>1, <3>1 DEF KnownAt, Before
  <2>3. CASE id \notin mapped
    <3>1. e.kind = "map" /\ e.id = id
      BY <2>3 DEF PackedRight
    <3>2. Slot(n, m)' /\ EventAt(n, m)' = e
      BY <1>6
    <3>3. Before(n, m, n + 1, 1)
      BY DEF Before
    <3>4. QED
      BY <2>1, <3>1, <3>2, <3>3 DEF KnownAt, Before
  <2>4. QED
    BY <2>2, <2>3
<1>12. ASSUME NEW p \in Nat, NEW i \in Nat, IsRows(p, i)'
       PROVE  KnownAt(EventAt(p, i).id, p, i)'
  <2>1. CASE Slot(p, i)
    <3>1. EventAt(p, i)' = EventAt(p, i) /\ IsRows(p, i)
      BY <1>6, <1>12, <2>1 DEF IsRows
    <3>2. KnownAt(EventAt(p, i).id, p, i)
      BY <1>1, <1>3, <3>1 DEF Lossless
    <3> DEFINE id == EventAt(p, i).id
    <3>3. PICK x : x = EventAt(p, i).id
      OBVIOUS
    <3>4. KnownAt(x, p, i)'
      BY <1>7, <3>2, <3>3
    <3>5. QED
      BY <3>1, <3>3, <3>4 DEF KnownAt
  <2>2. CASE ~Slot(p, i)
    <3>1. p = n /\ i = m /\ EventAt(p, i)' = e
      BY <1>6, <1>12, <2>2 DEF IsRows
    <3>2. e.id \in mapped
      BY <1>12, <3>1 DEF IsRows, PackedRight
    <3>3. KnownAt(e.id, n, m)
      BY <1>8, <3>2
    <3>4. KnownAt(e.id, n, m)'
      BY <1>7, <3>3
    <3>5. QED
      BY <3>1, <3>4 DEF KnownAt
  <2>3. QED
    BY <2>1, <2>2
<1>13. QED
  BY <1>9, <1>10, <1>11, <1>12

\* The parts of the invariant that a packed event leaves alone.
PackedTypes ==
    /\ pc = "stream" /\ UNCHANGED <<callVars, granted, receiver>>
    /\ opened' \in Seq([table : Tables, types : Shapes]) /\ mapped' \subseteq DOMAIN opened'
    /\ IsSeq(sent')

LEMMA Packed ==
  ASSUME SessionInv, NEW e, PackedRight(e), PackedTypes
  PROVE  SessionInv'
<1>1. SessionTypes
  BY DEF SessionInv
<1>2. PackedOne(e)
  BY <1>1, PackSlots DEF PackedRight
<1>3. SessionTypes'
  BY <1>1, <1>2 DEF SessionTypes, PackedTypes, PackedOne, PackedRight
<1>4. BlankOutside'
  BY DEF BlankOutside, PackedTypes
<1>5. QED
  BY <1>3, <1>4, PackQueue, PackTables, PackGot, PackLossless DEF SessionInv

LEMMA IdIs ==
  ASSUME SessionTypes, NEW t
  PROVE  IdOf(t) \in 0..Len(opened) /\ Len(opened) \in Nat /\ DOMAIN opened = 1..Len(opened)
<1> DEFINE n == Len(opened)
           I == {i \in 1..n : opened[i].table = t}
<1>1. n \in Nat /\ DOMAIN opened = 1..n
  BY DEF SessionTypes
<1>2. IdOf(t) = IF I # {} THEN Max(I) ELSE 0
  BY DEF IdOf, SelectLastInSeq
<1>3. I \in SUBSET (1..n)
  OBVIOUS
<1> HIDE DEF I, n
<1>4. I # {} => Max(I) \in 1..n
  BY <1>1, <1>3, MaxOfPart
<1>5. IdOf(t) \in 0..n
  BY <1>1, <1>2, <1>4
<1>6. QED
  BY <1>1, <1>5 DEF n

LEMMA MapTableRight ==
  ASSUME SessionInv, NEW t \in Tables, NEW s \in Shapes, MapTable(t, s)
  PROVE  SessionInv'
<1> DEFINE old == IdOf(t)
           now == [table |-> t, types |-> s]
           id  == IF old # 0 /\ opened[old] = now THEN old ELSE Len(opened) + 1
<1>1. SessionTypes
  BY DEF SessionInv
<1>2. PICK n \in Nat : n = Len(opened)
  BY <1>1 DEF SessionTypes
<1>3. old \in 0..n /\ DOMAIN opened = 1..n
  BY <1>1, <1>2, IdIs
<1>4. /\ Streams /\ opened' = (IF id = old THEN opened ELSE Append(opened, now))
      /\ mapped' = mapped \cup {id} /\ Pack(MapEvent(id, now))
      /\ UNCHANGED <<callVars, granted, sent, whole, wire, clientVars>>
  BY DEF MapTable
<1>5. PICK k : k = id
  OBVIOUS
<1>6. /\ k \in 1..(n + 1) /\ (k = old => opened[k] = now) /\ (k # old => k = n + 1)
  <2>1. CASE old # 0 /\ opened[old] = now
    BY <1>3, <1>5, <2>1
  <2>2. CASE ~(old # 0 /\ opened[old] = now)
    BY <1>2, <1>3, <1>5, <2>2
  <2>3. QED
    BY <2>1, <2>2
<1>7. PICK e : e = MapEvent(k, now)
  OBVIOUS
<1>8. /\ opened' = (IF k = old THEN opened ELSE Append(opened, now))
      /\ mapped' = mapped \cup {k} /\ Pack(e)
  BY <1>4, <1>5, <1>7
<1> HIDE DEF old, id
<1>9. now \in [table : Tables, types : Shapes] /\ opened \in Seq([table : Tables, types : Shapes])
  BY <1>1 DEF SessionTypes
<1> DEFINE T == [table : Tables, types : Shapes]
<1> HIDE DEF now, T
<1>10. Grown(opened, opened') /\ opened' \in Seq(T) /\ k \in DOMAIN opened' /\ opened'[k] = now
  <2>1. CASE k = old
    <3>1. opened' = opened
      BY <1>8, <2>1
    <3>2. IsSeq(opened) /\ k \in DOMAIN opened
      BY <1>3, <1>6, <1>9, <2>1, SeqIsSeq
    <3>3. Grown(opened, opened)
      BY <3>2, SameGrown
    <3>4. QED
      BY <1>6, <1>9, <2>1, <3>1, <3>2, <3>3 DEF T
  <2>2. CASE k # old
    <3>1. opened' = Append(opened, now) /\ k = n + 1
      BY <1>6, <1>8, <2>2
    <3>2. opened \in Seq(T) /\ now \in T
      BY <1>9 DEF T
    <3>3. IsSeq(opened)
      BY <3>2, SeqIsSeq
    <3>4. Grown(opened, Append(opened, now))
      BY <3>3, AppendGrown
    <3>5. Append(opened, now) \in Seq(T) /\ n + 1 \in DOMAIN Append(opened, now)
          /\ Append(opened, now)[n + 1] = now
      BY <1>2, <3>2
    <3>6. QED
      BY <3>1, <3>4, <3>5
  <2>3. QED
    BY <2>1, <2>2
<1>11. e.kind = "map" /\ e.id = k
  BY <1>7 DEF MapEvent
<1>12. EventMeant(e, opened', sent')
  BY <1>7, <1>10, <1>11 DEF EventMeant, MapMeant
<1>13. Grown(sent, sent') /\ IsSeq(sent')
  BY <1>1, <1>4, SameGrown DEF SessionTypes
<1>14. PackedRight(e)
  BY <1>4, <1>8, <1>10, <1>11, <1>12, <1>13 DEF PackedRight
<1>15. mapped' \subseteq DOMAIN opened'
  BY <1>1, <1>8, <1>10 DEF SessionTypes, Grown
<1>16. PackedTypes
  BY <1>4, <1>10, <1>13, <1>15 DEF PackedTypes, Streams, T
<1>17. QED
  BY <1>14, <1>16, Packed

LEMMA OtherEventRight ==
  ASSUME SessionInv, NEW kind \in Skipped \cup {"other"}, OtherEvent(kind)
  PROVE  SessionInv'
<1>1. SessionTypes
  BY DEF SessionInv
<1>2. /\ Streams /\ Pack([kind |-> kind])
      /\ UNCHANGED <<callVars, granted, opened, mapped, sent, whole, wire, clientVars>>
  BY DEF OtherEvent
<1>3. PICK e : e = [kind |-> kind]
  OBVIOUS
<1>4. e.kind # "map" /\ e.kind # "rows"
  BY <1>3 DEF Skipped
<1>5. IsSeq(opened) /\ IsSeq(sent) /\ opened \in Seq([table : Tables, types : Shapes])
  BY <1>1, SeqIsSeq DEF SessionTypes
<1>6. Grown(opened, opened') /\ Grown(sent, sent')
  BY <1>2, <1>5, SameGrown
<1>7. PackedRight(e)
  BY <1>2, <1>3, <1>4, <1>6 DEF PackedRight, EventMeant
<1>8. PackedTypes
  BY <1>1, <1>2, <1>5 DEF PackedTypes, Streams, SessionTypes
<1>9. QED
  BY <1>7, <1>8, Packed

\* The rows of the event are what the session has sent last.
Noted(s, ss, o, op, rows, second) ==
    /\ Grown(s, ss) /\ IsSeq(ss) /\ Len(ss) = Len(s) + Len(rows)
    /\ \A k \in 1..Len(rows) : ss[Len(s) + 1 + k - 1] = Note(o, op, rows[k], second)

LEMMA NotesSent ==
  ASSUME NEW s, IsSeq(s), NEW rows, IsSeq(rows), NEW o, NEW op, NEW second
  PROVE  Noted(s, s \o [i \in DOMAIN rows |-> Note(o, op, rows[i], second)], o, op, rows, second)
<1> DEFINE m == Len(rows)
           notes == [i \in DOMAIN rows |-> Note(o, op, rows[i], second)]
           ss == s \o notes
<1>1. m \in Nat /\ DOMAIN rows = 1..m /\ Len(s) \in Nat
  BY SeqDomain
<1>2. IsSeq(notes) /\ Len(notes) = m
  <2>1. notes = [i \in 1..m |-> notes[i]]
    BY <1>1
  <2> HIDE DEF notes, m
  <2> DEFINE U == Range(notes)
  <2>2. \A i \in 1..m : notes[i] \in U
    BY <2>1 DEF Range
  <2> HIDE DEF U
  <2>3. notes \in [1..m -> U]
    BY <2>1, <2>2
  <2>4. notes \in Seq(U) /\ Len(notes) = m
    BY <1>1, <2>3
  <2>5. QED
    BY <2>4 DEF IsSeq, U
<1>3. \A k \in 1..m : notes[k] = Note(o, op, rows[k], second)
  BY <1>1
<1> HIDE DEF notes, m, ss
<1>4. /\ Grown(s, ss) /\ IsSeq(ss) /\ Len(ss) = Len(s) + Len(notes)
      /\ \A k \in 1..Len(notes) : ss[Len(s) + k] = notes[k]
  <2>1. Grown(s, s \o notes) /\ IsSeq(s \o notes) /\ Follows(notes, s, s \o notes)
    BY <1>2, ConcatGrown, Zenon
  <2>2. QED
    BY <2>1 DEF ss, Follows
<1>5. ASSUME NEW k \in 1..m
      PROVE  ss[Len(s) + 1 + k - 1] = Note(o, op, rows[k], second)
  <2>1. Len(s) + 1 + k - 1 = Len(s) + k
    BY <1>1
  <2>2. QED
    BY <1>2, <1>3, <1>4, <2>1
<1>6. QED
  BY <1>2, <1>4, <1>5 DEF m, ss, notes, Noted

LEMMA ChangeRowsRight ==
  ASSUME SessionInv, NEW id \in mapped, NEW op \in {"c", "u", "d"}, NEW second \in BOOLEAN,
         NEW rows \in RowLists[opened[id].types], ChangeRows(id, op, rows, second)
  PROVE  SessionInv'
<1>1. SessionTypes
  BY DEF SessionInv
<1>2. PICK o : o = opened[id]
  OBVIOUS
<1>3. PICK e : e = [kind |-> "rows", id |-> id, op |-> op, first |-> Len(sent) + 1,
                    last |-> Len(sent) + Len(rows), body |-> Body(o.types, op, rows, second)]
  OBVIOUS
<1>4. /\ Streams /\ (second => op = "u") /\ Pack(e)
      /\ sent' = sent \o [i \in DOMAIN rows |-> Note(o, op, rows[i], second)]
      /\ mapped' \in {mapped, {}}
      /\ UNCHANGED <<callVars, granted, opened, whole, wire, clientVars>>
  BY <1>2, <1>3 DEF ChangeRows
<1>5. id \in DOMAIN opened /\ opened \in Seq([table : Tables, types : Shapes]) /\ o.types \in Shapes
  <2>1. id \in DOMAIN opened /\ opened \in Seq([table : Tables, types : Shapes])
    BY <1>1 DEF SessionTypes
  <2> DEFINE T == [table : Tables, types : Shapes]
  <2> HIDE DEF T
  <2>2. opened \in Seq(T)
    BY <2>1 DEF T
  <2>3. opened[id] \in T
    BY <2>1, <2>2
  <2>4. QED
    BY <1>2, <2>1, <2>3 DEF T
<1>6. rows # <<>> /\ EventRows(o.types, rows) /\ rows \in RowLists[o.types]
  BY <1>2, <1>5, MySqlStreamAssumption DEF EventRows, IsSeq
<1>7. PICK m \in Nat \ {0} : m = Len(rows)
  BY <1>6 DEF EventRows, IsSeq
<1>8. /\ Grown(sent, sent') /\ IsSeq(sent') /\ Len(sent') = Len(sent) + m
      /\ \A k \in 1..m : sent'[Len(sent) + 1 + k - 1] = Note(o, op, rows[k], second)
  <2>1. IsSeq(sent) /\ IsSeq(rows)
    BY <1>1, <1>6 DEF SessionTypes, EventRows
  <2>2. Noted(sent, sent', o, op, rows, second)
    BY <1>4, <2>1, NotesSent, Zenon
  <2>3. QED
    BY <1>7, <2>2 DEF Noted
<1>9. PICK n \in Nat : n = Len(sent)
  BY <1>8 DEF Grown
<1>10. /\ e.kind = "rows" /\ e.id = id /\ e.op = op /\ e.first = n + 1 /\ e.last = n + m
       /\ e.body = Body(o.types, op, rows, second)
  BY <1>3, <1>7, <1>9
<1>11. RowsMeant(e, opened', sent')
  <2>1. opened' = opened
    BY <1>4
  <2>2. e.first \in Nat \ {0} /\ e.last \in Nat /\ e.first <= e.last /\ e.last <= Len(sent')
    BY <1>8, <1>9, <1>10
  <2>3. e.last = e.first + Len(rows) - 1
    BY <1>7, <1>10
  <2>4. \A k \in 1..Len(rows) : sent'[e.first + k - 1] = Note(o, op, rows[k], second)
    BY <1>7, <1>8, <1>9, <1>10
  <2>5. /\ EventRows(opened'[e.id].types, rows) /\ (second => e.op = "u")
        /\ e.body = Body(opened'[e.id].types, e.op, rows, second)
        /\ rows \in RowLists[opened'[e.id].types]
        /\ \A k \in 1..Len(rows) : sent'[e.first + k - 1] = Note(opened'[e.id], e.op, rows[k], second)
    BY <1>2, <1>4, <1>6, <1>10, <2>1, <2>4
  <2>6. e.id \in DOMAIN opened' /\ e.op \in {"c", "u", "d"}
    BY <1>5, <1>10, <2>1
  <2>7. QED
    BY <2>2, <2>3, <2>5, <2>6 DEF RowsMeant
<1>12. EventMeant(e, opened', sent')
  BY <1>10, <1>11 DEF EventMeant
<1>13. Grown(opened, opened')
  BY <1>4, <1>5, SeqIsSeq, SameGrown
<1>14. PackedRight(e)
  BY <1>4, <1>8, <1>9, <1>10, <1>12, <1>13 DEF PackedRight
<1>15. PackedTypes
  BY <1>1, <1>4, <1>5, <1>8 DEF PackedTypes, Streams, SessionTypes
<1>16. QED
  BY <1>14, <1>15, Packed

LEMMA SendSlots ==
  ASSUME SessionTypes, NEW flaw, SendPacket(flaw)
  PROVE  /\ IsSeq(wire') /\ Len(wire') = Len(wire) + 1 /\ IsSeq(packing') /\ Len(wire) \in Nat
         /\ \A p \in 1..Len(wire) : wire'[p] = wire[p]
         /\ wire'[Len(wire) + 1] = [events |-> packing, flaw |-> flaw]
         /\ DOMAIN wire = 1..Len(wire) /\ DOMAIN wire' = 1..(Len(wire) + 1)
         /\ \A p, i \in Nat : Slot(p, i)' <=> Slot(p, i)
         /\ \A p, i \in Nat : Slot(p, i) => EventAt(p, i)' = EventAt(p, i)
<1> DEFINE n == Len(wire)
           packet == [events |-> packing, flaw |-> flaw]
<1>1. wire' = Append(wire, packet) /\ packing' = <<>>
  BY DEF SendPacket
<1>2. IsSeq(wire) /\ IsSeq(packing)
  BY DEF SessionTypes
<1>3. /\ IsSeq(wire') /\ n \in Nat /\ DOMAIN wire = 1..n /\ Len(wire') = n + 1
      /\ DOMAIN wire' = 1..(n + 1)
      /\ \A p \in 1..n : wire'[p] = wire[p]
      /\ wire'[n + 1] = packet
  BY <1>1, <1>2, AppendAny
<1>4. IsSeq(packing') /\ DOMAIN packing' = {}
  <2>1. IsSeq(<<>>) /\ DOMAIN <<>> = {}
    BY DEF IsSeq
  <2>2. QED
    BY <1>1, <2>1
<1>5. \A p : Waiting(p)' = IF p <= n + 1 THEN wire'[p].events ELSE <<>>
  BY <1>1, <1>3 DEF Waiting
<1> HIDE DEF n
<1>6. ASSUME NEW p \in 1..(n + 1)
      PROVE  Waiting(p)' = Waiting(p)
  <2>1. Waiting(p)' = wire'[p].events
    BY <1>3, <1>5
  <2>2. CASE p \in 1..n
    BY <1>3, <2>1, <2>2 DEF Waiting, n
  <2>3. CASE p = n + 1
    <3>1. ~(p <= Len(wire))
      BY <1>3, <2>3 DEF n
    <3>2. QED
      BY <1>3, <2>1, <2>3, <3>1 DEF Waiting
  <2>4. QED
    BY <1>3, <2>2, <2>3
<1>7. ASSUME NEW p \in Nat, NEW i \in Nat
      PROVE  (Slot(p, i)' <=> Slot(p, i)) /\ (Slot(p, i) => EventAt(p, i)' = EventAt(p, i))
  <2>1. CASE p \in 1..(n + 1)
    <3>1. p \in 1..(Len(wire') + 1)
      BY <1>3, <2>1
    <3>2. Waiting(p)' = Waiting(p)
      BY <1>6, <2>1
    <3>3. QED
      BY <2>1, <3>1, <3>2 DEF Slot, EventAt, n
  <2>2. CASE p \notin 1..(n + 1)
    <3>1. ~Slot(p, i)
      BY <2>2 DEF Slot, n
    <3>2. ~Slot(p, i)'
      <4>1. SUFFICES ASSUME p \in 1..(Len(wire') + 1)
                     PROVE  i \notin DOMAIN Waiting(p)'
        BY DEF Slot
      <4>2. ~(p <= n + 1)
        BY <1>3, <2>2, <4>1
      <4>3. Waiting(p)' = <<>>
        BY <1>5, <4>2
      <4>4. QED
        BY <1>1, <1>4, <4>3
    <3>3. QED
      BY <3>1, <3>2
  <2>3. QED
    BY <2>1, <2>2
<1>8. QED
  BY <1>3, <1>4, <1>7 DEF n

LEMMA SendPacketRight ==
  ASSUME SessionInv, NEW flaw, SendPacket(flaw)
  PROVE  SessionInv'
<1>1. /\ SessionTypes /\ BlankOutside /\ QueueMeant /\ QueueOrder /\ TablesMeant /\ GotRight
      /\ Lossless
  BY DEF SessionInv
<1>2. /\ Streams /\ packing' = <<>>
      /\ whole' = (whole /\ flaw = "none" /\ Counted(packing) \in {0, Len(packing)})
      /\ UNCHANGED <<callVars, granted, opened, mapped, sent, clientVars>>
  BY DEF SendPacket
<1>3. PICK n \in Nat : n = Len(wire)
  BY <1>1, SeqDomain DEF SessionTypes
<1>4. /\ IsSeq(wire') /\ Len(wire') = n + 1 /\ IsSeq(packing')
      /\ \A p \in 1..n : wire'[p] = wire[p]
      /\ wire'[n + 1] = [events |-> packing, flaw |-> flaw]
      /\ DOMAIN wire = 1..n /\ DOMAIN wire' = 1..(n + 1)
      /\ \A p, i \in Nat : Slot(p, i)' <=> Slot(p, i)
      /\ \A p, i \in Nat : Slot(p, i) => EventAt(p, i)' = EventAt(p, i)
  BY <1>1, <1>3, SendSlots
<1>5. \A p \in 1..(n + 1) : p \in 1..n \/ p = n + 1
  OBVIOUS
<1>6. SessionTypes'
  <2>1. \A p \in DOMAIN wire' : IsSeq(wire'[p].events)
    <3>1. ASSUME NEW p \in 1..(n + 1)
          PROVE  IsSeq(wire'[p].events)
      <4>1. CASE p \in 1..n
        BY <1>1, <1>4, <4>1 DEF SessionTypes
      <4>2. CASE p = n + 1
        BY <1>1, <1>4, <4>2 DEF SessionTypes
      <4>3. QED
        BY <1>5, <4>1, <4>2
    <3>2. QED
      BY <1>4, <3>1
  <2>2. whole' \in BOOLEAN
    BY <1>2
  <2>3. QED
    BY <1>1, <1>2, <1>4, <2>1, <2>2 DEF SessionTypes
<1>7. BlankOutside'
  BY <1>2 DEF BlankOutside, Streams
<1>8. QueueMeant'
  BY <1>1, <1>2, <1>4 DEF QueueMeant
<1>9. QueueOrder'
  <2>1. \A p, i \in Nat : IsRows(p, i)' => IsRows(p, i) /\ EventAt(p, i)' = EventAt(p, i)
    BY <1>4 DEF IsRows
  <2>2. QED
    BY <1>1, <2>1 DEF QueueOrder, Before
<1>10. TablesMeant'
  BY <1>1, <1>2 DEF TablesMeant
<1>11. GotRight'
  <2>1. \A p, i \in Nat : IsRows(p, i)' => IsRows(p, i) /\ EventAt(p, i)' = EventAt(p, i)
    BY <1>4 DEF IsRows
  <2>2. got' = got /\ sent' = sent
    BY <1>2
  <2>3. QED
    BY <1>1, <2>1, <2>2 DEF GotRight
<1>12. Lossless'
  <2>1. SUFFICES ASSUME whole, ~refused, flaw = "none", Counted(packing) \in {0, Len(packing)}
                 PROVE  /\ \A p \in DOMAIN wire' : Plain(wire'[p])
                        /\ \A k \in 1..Len(sent) : Covered(k)'
                        /\ \A id \in mapped : KnownAt(id, Len(wire) + 2, 1)'
                        /\ \A p, i \in Nat : IsRows(p, i)' => KnownAt(EventAt(p, i).id, p, i)'
    BY <1>2 DEF Lossless, Plain
  <2>2. /\ \A p \in DOMAIN wire : Plain(wire[p])
        /\ \A k \in 1..Len(sent) : Covered(k)
        /\ \A id \in mapped : KnownAt(id, Len(wire) + 2, 1)
        /\ \A p, i \in Nat : IsRows(p, i) => KnownAt(EventAt(p, i).id, p, i)
    BY <1>1, <2>1 DEF Lossless
  <2>3. ASSUME NEW p \in 1..(n + 1)
        PROVE  Plain(wire'[p])
    <3>1. CASE p \in 1..n
      BY <1>4, <2>2, <3>1
    <3>2. CASE p = n + 1
      BY <1>4, <2>1, <3>2 DEF Plain
    <3>3. QED
      BY <1>5, <3>1, <3>2
  <2>4. ASSUME NEW id, NEW p \in Nat, NEW i \in Nat, KnownAt(id, p, i)
        PROVE  KnownAt(id, p, i)'
    <3>1. CASE id \in DOMAIN tables
      BY <1>2, <3>1 DEF KnownAt
    <3>2. CASE id \notin DOMAIN tables
      <4>1. PICK q \in Nat, j \in Nat : /\ Slot(q, j) /\ Before(q, j, p, i)
                                        /\ EventAt(q, j).kind = "map" /\ EventAt(q, j).id = id
        BY <2>4, <3>2 DEF KnownAt
      <4>2. Slot(q, j)' /\ EventAt(q, j)' = EventAt(q, j)
        BY <1>4, <4>1
      <4>3. QED
        BY <4>1, <4>2 DEF KnownAt, Before
    <3>3. QED
      BY <3>1, <3>2
  <2>5. ASSUME NEW k \in 1..Len(sent)
        PROVE  Covered(k)'
    <3>1. CASE k <= Len(got)
      BY <1>2, <3>1 DEF Covered
    <3>2. CASE ~(k <= Len(got))
      <4>1. PICK p \in Nat, i \in Nat : IsRows(p, i) /\ EventAt(p, i).first <= k /\ k <= EventAt(p, i).last
        BY <2>2, <3>2 DEF Covered
      <4>2. IsRows(p, i)' /\ EventAt(p, i)' = EventAt(p, i)
        BY <1>4, <4>1 DEF IsRows
      <4>3. QED
        BY <4>1, <4>2 DEF Covered
    <3>3. QED
      BY <3>1, <3>2
  <2>6. ASSUME NEW id \in mapped
        PROVE  KnownAt(id, Len(wire) + 2, 1)'
    <3>1. KnownAt(id, n + 2, 1)
      BY <1>3, <2>2
    <3>2. KnownAt(id, n + 3, 1)
      <4>1. \A q, j \in Nat : Before(q, j, n + 2, 1) => Before(q, j, n + 3, 1)
        BY DEF Before
      <4>2. QED
        BY <3>1, <4>1 DEF KnownAt
    <3>3. KnownAt(id, n + 3, 1)'
      BY <2>4, <3>2
    <3>4. Len(wire') + 2 = n + 3
      BY <1>4
    <3>5. QED
      BY <3>3, <3>4 DEF KnownAt
  <2>7. ASSUME NEW p \in Nat, NEW i \in Nat, IsRows(p, i)'
        PROVE  KnownAt(EventAt(p, i).id, p, i)'
    <3>1. EventAt(p, i)' = EventAt(p, i) /\ IsRows(p, i)
      BY <1>4, <2>7 DEF IsRows
    <3>2. PICK x : x = EventAt(p, i).id
      OBVIOUS
    <3>3. KnownAt(x, p, i)'
      BY <2>2, <2>4, <3>1, <3>2
    <3>4. QED
      BY <3>1, <3>2, <3>3 DEF KnownAt
  <2>8. QED
    BY <1>4, <2>3, <2>5, <2>6, <2>7
<1>13. QED
  BY <1>6, <1>7, <1>8, <1>9, <1>10, <1>11, <1>12 DEF SessionInv

\* The first event that counts is one behind events that do not.
CountedOf(es, c) ==
    /\ c \in 0..Len(es)
    /\ c = 0 => \A i \in 1..Len(es) : es[i].kind \in Skipped
    /\ c # 0 => es[c].kind \notin Skipped /\ \A i \in 1..(c - 1) : es[i].kind \in Skipped

LEMMA CountedIs ==
  ASSUME NEW es, Len(es) \in Nat
  PROVE  CountedOf(es, Counted(es))
<1> DEFINE I == {i \in 1..Len(es) : es[i].kind \notin Skipped}
           c == Counted(es)
<1>1. c = IF I # {} THEN Min(I) ELSE 0
  BY DEF Counted, SelectInSeq
<1>2. \A i : i \in I <=> i \in 1..Len(es) /\ es[i].kind \notin Skipped
  OBVIOUS
<1> HIDE DEF I, c
<1>3. CASE I = {}
  <2>1. \A i \in 1..Len(es) : es[i].kind \in Skipped
    BY <1>2, <1>3
  <2>2. QED
    BY <1>1, <1>3, <2>1 DEF CountedOf, c
<1>4. CASE I # {}
  <2>1. I \in SUBSET Nat
    BY <1>2
  <2>2. c \in I /\ \A i \in I : c <= i
    <3>1. PICK m \in I : \A i \in I : m <= i
      BY <1>4, <2>1, LeastNumber
    <3>2. Min(I) \in I /\ \A i \in I : Min(I) <= i
      BY <3>1 DEF Min
    <3>3. QED
      BY <1>1, <1>4, <3>2
  <2>3. c \in 1..Len(es) /\ es[c].kind \notin Skipped
    BY <1>2, <2>2
  <2>4. \A i \in 1..(c - 1) : es[i].kind \in Skipped
    BY <1>2, <2>2, <2>3
  <2>5. QED
    BY <2>3, <2>4 DEF CountedOf, c
<1>5. QED
  BY <1>3, <1>4

\* What is seen of a packet: its events, or the first of them, or nothing.
LEMMA SeenIs ==
  ASSUME NEW packet, IsSeq(packet.events), NEW es, es = Seen(packet), NEW c, c = Counted(es)
  PROVE  /\ c \in 0..Len(packet.events) /\ Len(packet.events) \in Nat
         /\ c # 0 => /\ es[c] = packet.events[c]
                     /\ \A i \in 1..(c - 1) : packet.events[i].kind \in Skipped
         /\ Plain(packet) => \A i \in 1..Len(packet.events) : i = c \/ packet.events[i].kind \in Skipped
<1> DEFINE all == packet.events
           n == Len(all)
<1>1. n \in Nat /\ DOMAIN all = 1..n
  BY SeqDomain
<1>2. /\ Len(es) \in 0..n /\ \A i \in 1..Len(es) : es[i] = all[i]
      /\ packet.flaw = "none" => es = all
      /\ all = <<>> => es = all
  <2>1. CASE packet.flaw = "none"
    BY <1>1, <2>1 DEF Seen
  <2>2. CASE packet.flaw = "split" /\ all # <<>>
    <3>1. es = SubSeq(all, 1, n - 1)
      BY <2>2 DEF Seen, Front
    <3>2. all \in Seq(Range(all)) /\ all # <<>>
      BY <2>2 DEF IsSeq
    <3> DEFINE U == Range(all)
    <3> HIDE DEF U, all
    <3>3. all \in Seq(U) /\ n > 0
      BY <1>1, <3>2 DEF U
    <3> DEFINE m == n - 1
    <3> HIDE DEF m
    <3>4. m \in Nat /\ m = n - 1 /\ m <= Len(all)
      BY <1>1, <3>3 DEF m
    <3>5. Len(SubSeq(all, 1, m)) = m /\ \A i \in 1..m : SubSeq(all, 1, m)[i] = all[i]
      BY <3>3, <3>4
    <3>6. QED
      BY <1>1, <2>2, <3>1, <3>3, <3>4, <3>5 DEF all
  <2>3. CASE packet.flaw # "none" /\ ~(packet.flaw = "split" /\ all # <<>>)
    <3>1. es = <<>>
      BY <2>3 DEF Seen
    <3>2. QED
      BY <1>1, <2>3, <3>1
  <2>4. QED
    BY <2>1, <2>2, <2>3
<1> HIDE DEF all
<1>3. CountedOf(es, c)
  BY <1>1, <1>2, CountedIs
<1>4. c \in 0..n
  BY <1>1, <1>2, <1>3 DEF CountedOf
<1>5. c # 0 => es[c] = all[c] /\ \A i \in 1..(c - 1) : all[i].kind \in Skipped
  <2>1. SUFFICES ASSUME c # 0
                 PROVE  es[c] = all[c] /\ \A i \in 1..(c - 1) : all[i].kind \in Skipped
    OBVIOUS
  <2>2. c \in 1..Len(es) /\ \A i \in 1..(c - 1) : i \in 1..Len(es) /\ es[i].kind \in Skipped
    BY <1>1, <1>2, <1>3, <2>1 DEF CountedOf
  <2>3. QED
    BY <1>2, <2>2
<1>6. ASSUME Plain(packet), NEW i \in 1..n
      PROVE  i = c \/ all[i].kind \in Skipped
  <2>1. all # <<>>
    BY <1>1, <1>6
  <2>2. es = all /\ c \in {0, n}
    BY <1>2, <1>6, <2>1 DEF Plain, all
  <2>3. CASE c = 0
    BY <1>3, <1>6, <2>2, <2>3 DEF CountedOf
  <2>4. CASE c # 0
    <3>1. c = n
      BY <2>2, <2>4
    <3>2. i # n => i \in 1..(c - 1)
      <4> HIDE DEF n
      <4>1. QED
        BY <1>1, <1>6, <3>1
    <3>3. QED
      BY <1>5, <2>4, <3>1, <3>2
  <2>5. QED
    BY <2>3, <2>4
<1>7. QED
  BY <1>1, <1>4, <1>5, <1>6 DEF all

\* The packets behind the first move up.
LEMMA NextSlots ==
  ASSUME SessionTypes, wire # <<>>, wire' = Tail(wire), packing' = packing
  PROVE  /\ IsSeq(wire') /\ Len(wire) \in Nat \ {0} /\ Len(wire') = Len(wire) - 1
         /\ DOMAIN wire = 1..Len(wire) /\ DOMAIN wire' = 1..(Len(wire) - 1)
         /\ Head(wire) = wire[1] /\ Waiting(1) = wire[1].events
         /\ \A p \in DOMAIN wire' : p + 1 \in DOMAIN wire /\ wire'[p] = wire[p + 1]
         /\ \A p, i \in Nat : Slot(p, i)' <=> (p # 0 /\ Slot(p + 1, i))
         /\ \A p, i \in Nat : p # 0 => EventAt(p, i)' = EventAt(p + 1, i)
<1> DEFINE U == Range(wire)
<1>1. wire \in Seq(U)
  BY DEF SessionTypes, IsSeq
<1> HIDE DEF U
<1>2. /\ wire' \in Seq(U) /\ Len(wire) \in Nat \ {0} /\ Len(wire') = Len(wire) - 1
      /\ DOMAIN wire = 1..Len(wire) /\ DOMAIN wire' = 1..(Len(wire) - 1)
      /\ Head(wire) = wire[1]
      /\ \A p \in 1..(Len(wire) - 1) : wire'[p] = wire[p + 1]
  <2>1. wire \in Seq(U) /\ wire # <<>>
    BY <1>1
  <2>2. Tail(wire) \in Seq(U) /\ Len(Tail(wire)) = Len(wire) - 1 /\ Len(wire) \in Nat \ {0}
    BY <2>1
  <2>3. \A p \in 1..(Len(wire) - 1) : Tail(wire)[p] = wire[p + 1]
    BY <2>1, <2>2
  <2>4. Head(wire) = wire[1] /\ DOMAIN wire = 1..Len(wire)
    BY <2>1
  <2>5. DOMAIN Tail(wire) = 1..(Len(wire) - 1)
    BY <2>2
  <2>6. QED
    BY <2>2, <2>3, <2>4, <2>5
<1>3. IsSeq(wire')
  BY <1>2, SeqIsSeq
<1>4. PICK n \in Nat : n = Len(wire) - 1
  <2> DEFINE m == Len(wire)
  <2>1. m \in Nat \ {0}
    BY <1>2
  <2> HIDE DEF m
  <2>2. m - 1 \in Nat
    BY <2>1
  <2>3. QED
    BY <2>2 DEF m
<1>5. \A p : Waiting(p)' = IF p <= n THEN wire'[p].events ELSE packing
  BY <1>2, <1>4 DEF Waiting
<1>6. ASSUME NEW p \in Nat, p # 0
      PROVE  Waiting(p)' = Waiting(p + 1)
  <2>1. CASE p <= n
    <3>1. p \in 1..n /\ p + 1 <= Len(wire)
      BY <1>2, <1>4, <1>6, <2>1
    <3>2. QED
      BY <1>2, <1>4, <1>5, <2>1, <3>1 DEF Waiting
  <2>2. CASE ~(p <= n)
    <3>1. ~(p + 1 <= Len(wire))
      BY <1>2, <1>4, <2>2
    <3>2. QED
      BY <1>5, <2>2, <3>1 DEF Waiting
  <2>3. QED
    BY <2>1, <2>2
<1>7. ASSUME NEW p \in Nat, NEW i \in Nat
      PROVE  /\ Slot(p, i)' <=> (p # 0 /\ Slot(p + 1, i))
             /\ p # 0 => EventAt(p, i)' = EventAt(p + 1, i)
  <2>1. (p \in 1..(Len(wire') + 1)) <=> (p # 0 /\ p + 1 \in 1..(Len(wire) + 1))
    BY <1>2
  <2>2. QED
    BY <1>6, <2>1 DEF Slot, EventAt
<1>8. Waiting(1) = wire[1].events
  BY <1>2 DEF Waiting
<1>9. \A p \in DOMAIN wire' : p + 1 \in DOMAIN wire /\ wire'[p] = wire[p + 1]
  BY <1>2
<1>10. QED
  BY <1>2, <1>3, <1>7, <1>8, <1>9

\* The event that next_event stops at, if there is one, and its table.
Current == Seen(Head(wire))[Counted(Seen(Head(wire)))]

HasCurrent(kind) == Counted(Seen(Head(wire))) # 0 /\ Current.kind = kind

\* The change events offered.
Offered == IF HasCurrent("rows") THEN EventsOf(Current) ELSE <<>>

\* The event stands in the first packet, and what is before it is skipped.
LEMMA CurrentIs ==
  ASSUME SessionInv, wire # <<>>, NEW c, c = Counted(Seen(Head(wire))), NEW e, e = Current
  PROVE  /\ c \in Nat
         /\ c # 0 => Slot(1, c) /\ EventAt(1, c) = e
         /\ Plain(Head(wire)) => \A i \in Nat : Slot(1, i) => i = c \/ EventAt(1, i).kind \in Skipped
         /\ c # 0 => \A i \in Nat : Slot(1, i) /\ i < c => EventAt(1, i).kind \in Skipped
<1> DEFINE packet == Head(wire)
           all == packet.events
           es == Seen(packet)
<1>1. SessionTypes
  BY DEF SessionInv
<1>2. Len(wire) \in Nat \ {0} /\ DOMAIN wire = 1..Len(wire) /\ packet = wire[1]
  <2>1. wire \in Seq(Range(wire)) /\ wire # <<>>
    BY <1>1 DEF SessionTypes, IsSeq
  <2> DEFINE U == Range(wire)
  <2> HIDE DEF U
  <2>2. wire \in Seq(U) /\ wire # <<>>
    BY <2>1 DEF U
  <2>3. QED
    BY <2>2
<1>3. 1 \in DOMAIN wire /\ Waiting(1) = all
  BY <1>2 DEF Waiting
<1>4. IsSeq(all)
  BY <1>1, <1>2, <1>3 DEF SessionTypes
<1>5. /\ c \in 0..Len(all) /\ Len(all) \in Nat
      /\ c # 0 => es[c] = all[c] /\ \A i \in 1..(c - 1) : all[i].kind \in Skipped
      /\ Plain(packet) => \A i \in 1..Len(all) : i = c \/ all[i].kind \in Skipped
  <2>1. PICK x : x = packet
    OBVIOUS
  <2>2. PICK y : y = Seen(x)
    OBVIOUS
  <2>3. IsSeq(x.events) /\ c = Counted(y)
    BY <1>4, <2>1, <2>2
  <2>4. /\ c \in 0..Len(x.events) /\ Len(x.events) \in Nat
        /\ c # 0 => y[c] = x.events[c] /\ \A i \in 1..(c - 1) : x.events[i].kind \in Skipped
        /\ Plain(x) => \A i \in 1..Len(x.events) : i = c \/ x.events[i].kind \in Skipped
    BY <2>2, <2>3, SeenIs
  <2>5. QED
    BY <2>1, <2>2, <2>4
<1>6. \A i : (Slot(1, i) <=> i \in 1..Len(all)) /\ EventAt(1, i) = all[i]
  <2>1. DOMAIN all = 1..Len(all) /\ 1 \in 1..(Len(wire) + 1)
    BY <1>2, <1>4, SeqDomain
  <2>2. QED
    BY <1>3, <2>1 DEF Slot, EventAt
<1>7. c # 0 => e = all[c]
  BY <1>5 DEF Current
<1> HIDE DEF all, packet, es
<1>8. c \in Nat /\ (c # 0 => c \in 1..Len(all))
  BY <1>5
<1>9. c # 0 => \A i \in Nat : Slot(1, i) /\ i < c => EventAt(1, i).kind \in Skipped
  <2>1. ASSUME c # 0, NEW i \in Nat, Slot(1, i), i < c
        PROVE  EventAt(1, i).kind \in Skipped
    <3>1. i \in 1..(c - 1)
      BY <1>5, <1>6, <1>8, <2>1
    <3>2. QED
      BY <1>5, <1>6, <2>1, <3>1
  <2>2. QED
    BY <2>1
<1>10. QED
  BY <1>5, <1>6, <1>7, <1>8, <1>9 DEF packet

\* The tables after the event.
LEMMA NextTables ==
  ASSUME SessionInv, wire # <<>>,
         tables' = IF HasCurrent("map") THEN TableMap(Current) ELSE tables,
         opened' = opened
  PROVE  /\ TablesMeant' /\ \A id \in DOMAIN tables : id \in DOMAIN tables'
         /\ HasCurrent("map") => Current.id \in DOMAIN tables'
<1> DEFINE e == Current
<1>1. TablesMeant /\ QueueMeant
  BY DEF SessionInv
<1>2. CASE HasCurrent("map")
  <2>1. PICK x : x = Current
    OBVIOUS
  <2>2. PICK c : c = Counted(Seen(Head(wire)))
    OBVIOUS
  <2>3. c \in Nat /\ Slot(1, c) /\ EventAt(1, c) = x
    BY <1>2, <2>1, <2>2, CurrentIs DEF HasCurrent
  <2>4. x.kind = "map"
    BY <1>2, <2>1 DEF HasCurrent
  <2>5. x.id \in DOMAIN opened /\ x = MapEvent(x.id, opened[x.id])
    BY <1>1, <2>3, <2>4 DEF QueueMeant, EventMeant, MapMeant
  <2> DEFINE new == [table |-> x.table, types |-> x.types, metas |-> ColumnMetas(x.types, x.metas)]
  <2>6. new = Mapped(opened[x.id])
    <3>1. PICK o : o = opened[x.id]
      OBVIOUS
    <3>2. PICK k : k = x.id
      OBVIOUS
    <3>3. x = MapEvent(k, o)
      BY <2>5, <3>1, <3>2
    <3>4. /\ x.table = o.table /\ x.types = o.types
          /\ x.metas = EncodeMetas(o.types, [c2 \in DOMAIN o.types |-> 0])
      BY <3>3 DEF MapEvent
    <3>5. QED
      BY <3>1, <3>4 DEF Mapped
  <2>7. tables' = TableMap(x)
    BY <1>2, <2>1
  <2>8. /\ DOMAIN tables' = {x.id} \cup DOMAIN tables
        /\ tables'[x.id] = new
        /\ \A id \in DOMAIN tables : id # x.id => tables'[id] = tables[id]
    <3>1. tables' = [id \in {x.id} \cup DOMAIN tables |-> IF id = x.id THEN new ELSE tables[id]]
      BY <2>7 DEF TableMap
    <3> HIDE DEF new
    <3>2. PICK k : k = x.id
      OBVIOUS
    <3>3. tables' = [id \in {k} \cup DOMAIN tables |-> IF id = k THEN new ELSE tables[id]]
      BY <3>1, <3>2
    <3>4. QED
      BY <3>2, <3>3
  <2> HIDE DEF new
  <2>9. TablesMeant'
    BY <1>1, <2>5, <2>6, <2>8 DEF TablesMeant
  <2>10. QED
    BY <2>1, <2>8, <2>9
<1>3. CASE ~HasCurrent("map")
  BY <1>1, <1>3 DEF TablesMeant
<1>4. QED
  BY <1>2, <1>3

\* The events offered are those of the rows that an event stands for.
OfferedOf(events, e, notes) ==
    /\ IsSeq(events) /\ Len(events) = e.last - e.first + 1
    /\ \A k \in 1..Len(events) : events[k].row = e.first + k - 1 /\ GotMeant(events[k], notes)

ChangeOf(e, t, i) ==
    [table |-> t.table, op |-> e.op, before |-> RowsOf(e, t)[i].before,
     after |-> RowsOf(e, t)[i].after, row |-> e.first + i - 1]

\* An event with the rows given, which the notes tell of.
Carries(e, o, notes, rows, second) ==
    /\ e.op \in {"c", "u", "d"} /\ (second => e.op = "u") /\ EventRows(o.types, rows)
    /\ e.body = Body(o.types, e.op, rows, second)
    /\ e.first \in Nat \ {0} /\ e.last \in Nat /\ e.first <= e.last /\ e.last <= Len(notes)
    /\ e.last = e.first + Len(rows) - 1
    /\ \A k \in 1..Len(rows) : notes[e.first + k - 1] = Note(o, e.op, rows[k], second)

LEMMA ChangesRight ==
  ASSUME NEW o, IsTypes(o.types), NEW t, t = Mapped(o), NEW notes, Len(notes) \in Nat,
         NEW rows, NEW second \in BOOLEAN, NEW e, Carries(e, o, notes, rows, second),
         NEW events, events = [i \in DOMAIN RowsOf(e, t) |-> ChangeOf(e, t, i)]
  PROVE  OfferedOf(events, e, notes)
<1>0. /\ e.op \in {"c", "u", "d"} /\ (second => e.op = "u") /\ EventRows(o.types, rows)
      /\ e.body = Body(o.types, e.op, rows, second)
      /\ e.first \in Nat \ {0} /\ e.last \in Nat /\ e.first <= e.last /\ e.last <= Len(notes)
      /\ e.last = e.first + Len(rows) - 1
      /\ \A k \in 1..Len(rows) : notes[e.first + k - 1] = Note(o, e.op, rows[k], second)
  BY DEF Carries
<1>1. t.types = o.types /\ t.table = o.table /\ t.metas = ColumnMetas(o.types, EncodeMetas(o.types, [c \in DOMAIN o.types |-> 0]))
  BY DEF Mapped
<1>2. IsMetas(t.types, t.metas)
  <2>1. PICK x : x = o.types
    OBVIOUS
  <2>2. IsMetas(x, ColumnMetas(x, EncodeMetas(x, [c \in DOMAIN x |-> 0])))
    BY <2>1, MetasMeant
  <2>3. QED
    BY <1>1, <2>1, <2>2
<1>3. EventIs(e, t, rows, second)
  <2>1. /\ IsTypes(t.types) /\ EventRows(t.types, rows)
        /\ e.body = Body(t.types, e.op, rows, second)
    BY <1>0, <1>1
  <2>2. e.op \in {"c", "u", "d"}
    BY <1>0
  <2>3. second => e.op = "u"
    BY <1>0
  <2>4. QED
    BY <1>2, <2>1, <2>2, <2>3, RowsReadBack
<1>4. PICK m \in Nat : m = Len(rows)
  BY <1>0, SeqDomain DEF EventRows
<1>5. PICK a \in Nat \ {0} : a = e.first
  BY <1>0
<1>6. PICK b \in Nat : b = e.last
  BY <1>0
<1>7. b = a + m - 1 /\ a <= b /\ b <= Len(notes)
  BY <1>0, <1>4, <1>5, <1>6
<1>8. events = [i \in 1..m |-> ChangeOf(e, t, i)]
  BY <1>3, <1>4 DEF EventIs
<1>9. ASSUME NEW k \in 1..m
      PROVE  events[k].row = a + k - 1 /\ GotMeant(events[k], notes)
  <2>1. /\ events[k].row = a + k - 1 /\ events[k].table = o.table /\ events[k].op = e.op
        /\ events[k].before = RowsOf(e, t)[k].before /\ events[k].after = RowsOf(e, t)[k].after
    <3>1. events[k] = ChangeOf(e, t, k)
      BY <1>8
    <3>2. QED
      BY <1>1, <1>5, <3>1 DEF ChangeOf
  <2>2. a + k - 1 \in 1..Len(notes)
    BY <1>7
  <2>3. PICK n : n = notes[a + k - 1]
    OBVIOUS
  <2>4. n = Note(o, e.op, rows[k], second)
    BY <1>0, <1>4, <1>5, <2>3
  <2>5. /\ n.table = o.table /\ n.op = e.op /\ n.types = o.types /\ n.second = second
        /\ n.before = (IF e.op = "c" THEN Null ELSE rows[k].before)
        /\ n.after = (IF e.op = "d" THEN Null ELSE rows[k].after)
    BY <2>4 DEF Note
  <2>6. ~second => /\ RowsOf(e, t)[k].before = Meant(o.types, n.before)
                   /\ RowsOf(e, t)[k].after = Meant(o.types, n.after)
    BY <1>1, <1>3, <1>4, <2>5 DEF EventIs, BeforeOf, AfterOf
  <2>7. QED
    BY <2>1, <2>2, <2>3, <2>5, <2>6 DEF GotMeant
<1>10. IsSeq(events) /\ Len(events) = m
  <2>1. \A i \in 1..m : events[i] \in Range(events) /\ DOMAIN events = 1..m
    BY <1>8 DEF Range
  <2> DEFINE U == Range(events)
  <2> HIDE DEF U
  <2>2. events \in [1..m -> U]
    BY <1>8, <2>1 DEF U
  <2>3. events \in Seq(U) /\ Len(events) = m
    BY <2>2
  <2>4. QED
    BY <2>3 DEF IsSeq, U
<1>11. QED
  BY <1>5, <1>6, <1>7, <1>9, <1>10 DEF OfferedOf

LEMMA OfferedIs ==
  ASSUME SessionInv, wire # <<>>
  PROVE  /\ IsSeq(Offered)
         /\ HasCurrent("rows") /\ Current.id \in DOMAIN tables =>
               OfferedOf(Offered, Current, sent) /\ RowsMeant(Current, opened, sent)
         /\ ~(HasCurrent("rows") /\ Current.id \in DOMAIN tables) => Offered = <<>>
<1>1. TablesMeant /\ QueueMeant /\ SessionTypes /\ Len(sent) \in Nat
  BY SeqDomain DEF SessionInv, SessionTypes
<1>2. PICK e : e = Current
  OBVIOUS
<1>3. CASE HasCurrent("rows") /\ Current.id \in DOMAIN tables
  <2>1. PICK c : c = Counted(Seen(Head(wire)))
    OBVIOUS
  <2>2. c \in Nat /\ Slot(1, c) /\ EventAt(1, c) = e
    BY <1>2, <1>3, <2>1, CurrentIs DEF HasCurrent
  <2>3. e.kind = "rows"
    BY <1>2, <1>3 DEF HasCurrent
  <2>4. RowsMeant(e, opened, sent)
    BY <1>1, <2>2, <2>3 DEF QueueMeant, EventMeant
  <2>5. PICK o : o = opened[e.id]
    OBVIOUS
  <2>6. PICK t : t = tables[e.id]
    OBVIOUS
  <2>7. t = Mapped(o) /\ e.id \in DOMAIN opened
    BY <1>1, <1>2, <1>3, <2>5, <2>6 DEF TablesMeant
  <2>8. IsTypes(o.types)
    <3>1. o.types \in Shapes
      <4> DEFINE T == [table : Tables, types : Shapes]
      <4>1. opened \in Seq(T) /\ e.id \in DOMAIN opened
        BY <1>1, <2>7 DEF SessionTypes
      <4> HIDE DEF T
      <4>2. o \in T
        BY <2>5, <4>1
      <4>3. QED
        BY <4>2 DEF T
    <3>2. QED
      BY <3>1, MySqlStreamAssumption DEF IsTypes
  <2>9. PICK rows \in RowLists[o.types], second \in BOOLEAN : Carries(e, o, sent, rows, second)
    BY <2>4, <2>5 DEF RowsMeant, Carries
  <2>11. Offered = [i \in DOMAIN RowsOf(e, t) |-> ChangeOf(e, t, i)]
    <3>1. Offered = EventsOf(e)
      BY <1>2, <1>3 DEF Offered
    <3>2. TableOf(e) = <<t>> /\ <<t>> # <<>> /\ Head(<<t>>) = t
      BY <1>2, <1>3, <2>6 DEF TableOf
    <3>3. QED
      BY <3>1, <3>2 DEF EventsOf, ChangeOf
  <2>12. PICK events : events = Offered
    OBVIOUS
  <2>13. PICK notes : notes = sent
    OBVIOUS
  <2>14. OfferedOf(events, e, notes)
    <3>1. Len(notes) \in Nat /\ Carries(e, o, notes, rows, second)
      BY <1>1, <2>9, <2>13
    <3>2. events = [i \in DOMAIN RowsOf(e, t) |-> ChangeOf(e, t, i)]
      BY <2>11, <2>12
    <3>3. QED
      BY <2>7, <2>8, <3>1, <3>2, ChangesRight, Zenon
  <2>15. QED
    BY <1>2, <1>3, <2>4, <2>12, <2>13, <2>14 DEF OfferedOf
<1>4. CASE ~(HasCurrent("rows") /\ Current.id \in DOMAIN tables)
  <2>1. Offered = <<>>
    BY <1>4 DEF Offered, EventsOf, TableOf
  <2>2. QED
    BY <1>4, <2>1 DEF IsSeq
<1>5. QED
  BY <1>3, <1>4

LEMMA NextRead ==
  ASSUME NEW n, NextEvent(n)
  PROVE  /\ pc = "stream" /\ wire # <<>> /\ wire' = Tail(wire)
         /\ tables' = IF HasCurrent("map") THEN TableMap(Current) ELSE tables
         /\ Offer(Offered, n)
         /\ UNCHANGED <<callVars, granted, opened, mapped, sent, packing, whole>>
<1>1. /\ pc = "stream" /\ wire # <<>> /\ wire' = Tail(wire)
      /\ UNCHANGED <<callVars, granted, opened, mapped, sent, packing, whole>>
  BY DEF NextEvent
<1> DEFINE es   == Seen(Head(wire))
           e    == es[Counted(es)]
           kind == IF Counted(es) = 0 THEN "none" ELSE e.kind
<1>2. /\ tables' = IF kind = "map" THEN TableMap(e) ELSE tables
      /\ Offer(IF kind = "rows" THEN EventsOf(e) ELSE <<>>, n)
  BY DEF NextEvent
<1>3. e = Current /\ (kind = "map" <=> HasCurrent("map")) /\ (kind = "rows" <=> HasCurrent("rows"))
  BY DEF Current, HasCurrent
<1> HIDE DEF kind, e, es
<1>4. (IF kind = "rows" THEN EventsOf(e) ELSE <<>>) = Offered
  BY <1>3 DEF Offered
<1>5. Offer(Offered, n)
  BY <1>2, <1>4
<1>6. QED
  BY <1>1, <1>2, <1>3, <1>5

\* The queue is the one before without its first packet.
LEMMA NextQueue ==
  ASSUME SessionInv, NEW n, NextEvent(n)
  PROVE  QueueMeant' /\ QueueOrder'
<1>1. SessionTypes /\ QueueMeant /\ QueueOrder
  BY DEF SessionInv
<1>2. wire # <<>> /\ wire' = Tail(wire) /\ packing' = packing /\ opened' = opened /\ sent' = sent
  BY NextRead
<1>3. /\ \A p, i \in Nat : Slot(p, i)' <=> (p # 0 /\ Slot(p + 1, i))
      /\ \A p, i \in Nat : p # 0 => EventAt(p, i)' = EventAt(p + 1, i)
  BY <1>1, <1>2, NextSlots
<1>4. QueueMeant'
  <2>1. ASSUME NEW p \in Nat, NEW i \in Nat, Slot(p, i)'
        PROVE  EventMeant(EventAt(p, i)', opened, sent)
    <3>1. p + 1 \in Nat /\ Slot(p + 1, i) /\ EventAt(p, i)' = EventAt(p + 1, i)
      BY <1>3, <2>1
    <3>2. EventMeant(EventAt(p + 1, i), opened, sent)
      BY <1>1, <3>1 DEF QueueMeant
    <3>3. QED
      BY <3>1, <3>2
  <2>2. \A p, i \in Nat : Slot(p, i)' => EventMeant(EventAt(p, i)', opened', sent')
    BY <1>2, <2>1
  <2>3. QED
    BY <2>2 DEF QueueMeant
<1>5. QueueOrder'
  <2>1. ASSUME NEW p \in Nat, NEW i \in Nat, NEW q \in Nat, NEW j \in Nat,
               IsRows(p, i)', IsRows(q, j)', Before(p, i, q, j)
        PROVE  EventAt(p, i)'.last < EventAt(q, j)'.first
    <3>1. /\ p + 1 \in Nat /\ q + 1 \in Nat /\ IsRows(p + 1, i) /\ IsRows(q + 1, j)
          /\ EventAt(p, i)' = EventAt(p + 1, i) /\ EventAt(q, j)' = EventAt(q + 1, j)
      BY <1>3, <2>1 DEF IsRows
    <3>2. Before(p + 1, i, q + 1, j)
      BY <2>1 DEF Before
    <3>3. EventAt(p + 1, i).last < EventAt(q + 1, j).first
      BY <1>1, <3>1, <3>2 DEF QueueOrder
    <3>4. QED
      BY <3>1, <3>3
  <2>2. QED
    BY <2>1 DEF QueueOrder, Before
<1>6. QED
  BY <1>4, <1>5

\* The rows of the current event are behind those received, and before the others.
LEMMA CurrentRows ==
  ASSUME SessionInv, wire # <<>>, HasCurrent("rows"), NEW a, a = Current.first, NEW b, b = Current.last
  PROVE  /\ Len(got) \in Nat /\ DOMAIN got = 1..Len(got)
         /\ a \in Nat \ {0} /\ b \in Nat /\ a <= b /\ Len(got) < a
         /\ \A k \in DOMAIN got : got[k].row < a
         /\ \A p, i \in Nat : p > 1 /\ IsRows(p, i) => b < EventAt(p, i).first
<1>1. SessionTypes /\ QueueMeant /\ QueueOrder /\ GotRight
  BY DEF SessionInv
<1>2. PICK e : e = Current
  OBVIOUS
<1>3. PICK c : c = Counted(Seen(Head(wire)))
  OBVIOUS
<1>4. c \in Nat /\ Slot(1, c) /\ EventAt(1, c) = e /\ e.kind = "rows" /\ a = e.first /\ b = e.last
  BY <1>2, <1>3, CurrentIs DEF HasCurrent
<1>5. IsRows(1, c)
  BY <1>4 DEF IsRows
<1>6. RowsMeant(e, opened, sent)
  BY <1>1, <1>4 DEF QueueMeant, EventMeant
<1>7. a \in Nat \ {0} /\ b \in Nat /\ a <= b
  BY <1>4, <1>6 DEF RowsMeant
<1>8. \A k \in DOMAIN got : got[k].row < a
  BY <1>1, <1>4, <1>5 DEF GotRight
<1>9. Len(got) \in Nat /\ DOMAIN got = 1..Len(got)
  BY <1>1, SeqDomain DEF SessionTypes
<1>10. Len(got) < a
  <2>1. CASE Len(got) = 0
    BY <1>7, <2>1
  <2>2. CASE Len(got) # 0
    <3>1. PICK l \in Nat : l = Len(got)
      BY <1>9
    <3>2. l \in DOMAIN got
      BY <1>9, <2>2, <3>1
    <3>3. PICK r : r = got[l].row
      OBVIOUS
    <3>4. r >= l /\ r < a /\ r \in Nat
      BY <1>1, <1>8, <3>2, <3>3 DEF GotRight, GotMeant
    <3>5. QED
      BY <1>7, <3>1, <3>4
  <2>3. QED
    BY <2>1, <2>2
<1>11. ASSUME NEW p \in Nat, NEW i \in Nat, p > 1, IsRows(p, i)
       PROVE  b < EventAt(p, i).first
  <2>1. Before(1, c, p, i)
    BY <1>4, <1>11 DEF Before
  <2>2. QED
    BY <1>1, <1>4, <1>5, <1>11, <2>1 DEF QueueOrder
<1>12. QED
  BY <1>7, <1>8, <1>9, <1>10, <1>11

\* The client has the events it had, and the first n of those offered.
LEMMA NextTaken ==
  ASSUME SessionInv, NEW n \in Nat, NextEvent(n)
  PROVE  /\ IsSeq(got') /\ Len(got) \in Nat /\ DOMAIN got = 1..Len(got)
         /\ Len(got') = Len(got) + n /\ DOMAIN got' = 1..(Len(got) + n)
         /\ \A k \in 1..Len(got) : got'[k] = got[k]
         /\ \A k \in 1..n : got'[Len(got) + k] = Offered[k]
         /\ Len(Offered) \in Nat /\ n <= Len(Offered)
         /\ refused' = (refused \/ n < Len(Offered)) /\ receiver' \in BOOLEAN
<1>1. IsSeq(got) /\ wire # <<>> /\ Offer(Offered, n) /\ receiver \in BOOLEAN
  BY NextRead DEF SessionInv, SessionTypes
<1>2. PICK events : events = Offered
  OBVIOUS
<1>3. IsSeq(events)
  BY <1>1, <1>2, OfferedIs
<1>4. PICK m \in Nat : m = Len(events) /\ DOMAIN events = 1..m
  BY <1>3, SeqDomain
<1>5. /\ n <= m /\ got' = got \o SubSeq(events, 1, n)
      /\ receiver' = (receiver /\ n = m) /\ refused' = (refused \/ n < m)
  BY <1>1, <1>2, <1>4 DEF Offer
<1>6. PICK part : part = SubSeq(events, 1, n)
  OBVIOUS
<1>7. IsSeq(part) /\ Len(part) = n /\ \A k \in 1..n : part[k] = events[k]
  <2> DEFINE U == Range(events)
  <2>1. events \in Seq(U)
    BY <1>3 DEF IsSeq
  <2> HIDE DEF U
  <2>2. part \in Seq(U) /\ Len(part) = n /\ \A k \in 1..n : part[k] = events[k]
    BY <1>4, <1>5, <1>6, <2>1
  <2>3. QED
    BY <2>2, SeqIsSeq
<1>8. /\ IsSeq(got \o part) /\ Len(got) \in Nat /\ DOMAIN got = 1..Len(got)
      /\ Len(got \o part) = Len(got) + n /\ DOMAIN (got \o part) = 1..(Len(got) + n)
      /\ \A k \in 1..Len(got) : (got \o part)[k] = got[k]
      /\ \A k \in 1..n : (got \o part)[Len(got) + k] = part[k]
  <2>1. /\ IsSeq(got \o part) /\ Len(got) \in Nat /\ DOMAIN got = 1..Len(got)
        /\ Len(got \o part) = Len(got) + Len(part)
        /\ DOMAIN (got \o part) = 1..(Len(got) + Len(part))
        /\ \A k \in 1..Len(got) : (got \o part)[k] = got[k]
        /\ \A k \in 1..Len(part) : (got \o part)[Len(got) + k] = part[k]
    <3>1. PICK x : x = got
      OBVIOUS
    <3>2. IsSeq(x) /\ IsSeq(part)
      BY <1>1, <1>7, <3>1
    <3> DEFINE y == x \o part
    <3>3. /\ IsSeq(y) /\ Len(x) \in Nat /\ DOMAIN x = 1..Len(x)
          /\ Len(y) = Len(x) + Len(part) /\ DOMAIN y = 1..(Len(x) + Len(part))
          /\ \A k \in 1..Len(x) : y[k] = x[k]
          /\ \A k \in 1..Len(part) : y[Len(x) + k] = part[k]
      BY <3>2, ConcatAny
    <3>4. QED
      BY <3>1, <3>3
  <2>2. QED
    BY <1>7, <2>1
<1>9. got' = got \o part
  BY <1>5, <1>6
<1>10. \A k \in 1..n : got'[Len(got) + k] = events[k]
  BY <1>7, <1>8, <1>9
<1>11. QED
  BY <1>1, <1>2, <1>4, <1>5, <1>8, <1>9, <1>10

LEMMA NextGot ==
  ASSUME SessionInv, NEW n \in Nat, NextEvent(n)
  PROVE  GotRight'
<1>1. SessionTypes /\ GotRight /\ wire # <<>> /\ wire' = Tail(wire) /\ packing' = packing /\ sent' = sent
  BY NextRead DEF SessionInv
<1>2. \A p, i \in Nat : IsRows(p, i)' => /\ p # 0 /\ IsRows(p + 1, i)
                                        /\ EventAt(p, i)' = EventAt(p + 1, i)
  BY <1>1, NextSlots DEF IsRows
<1>3. PICK l \in Nat : l = Len(got)
  BY NextTaken
<1>4. /\ DOMAIN got = 1..l /\ DOMAIN got' = 1..(l + n)
      /\ \A k \in 1..l : got'[k] = got[k]
      /\ \A k \in 1..n : got'[l + k] = Offered[k]
      /\ Len(Offered) \in Nat /\ n <= Len(Offered)
  BY <1>3, NextTaken
<1>5. CASE n = 0
  <2>1. DOMAIN got' = DOMAIN got /\ \A k \in DOMAIN got : got'[k] = got[k]
    BY <1>4, <1>5
  <2>2. \A k \in DOMAIN got' : got'[k].row >= k /\ GotMeant(got'[k], sent')
    BY <1>1, <2>1 DEF GotRight
  <2>3. \A k, i \in DOMAIN got' : k < i => got'[k].row < got'[i].row
    BY <1>1, <2>1 DEF GotRight
  <2>4. ASSUME NEW k \in DOMAIN got', NEW p \in Nat, NEW i \in Nat, IsRows(p, i)'
        PROVE  got'[k].row < EventAt(p, i)'.first
    <3>1. p + 1 \in Nat /\ IsRows(p + 1, i) /\ EventAt(p, i)' = EventAt(p + 1, i)
      BY <1>2, <2>4
    <3>2. QED
      BY <1>1, <2>1, <3>1 DEF GotRight
  <2>5. QED
    BY <2>2, <2>3, <2>4 DEF GotRight
<1>6. CASE n # 0
  <2>1. HasCurrent("rows") /\ Current.id \in DOMAIN tables
    <3>1. Offered # <<>>
      BY <1>4, <1>6
    <3>2. QED
      BY <1>1, <3>1, OfferedIs
  <2>2. PICK a : a = Current.first
    OBVIOUS
  <2>3. PICK b : b = Current.last
    OBVIOUS
  <2>4. /\ a \in Nat \ {0} /\ b \in Nat /\ a <= b /\ l < a
        /\ \A k \in DOMAIN got : got[k].row < a
        /\ \A p, i \in Nat : p > 1 /\ IsRows(p, i) => b < EventAt(p, i).first
    BY <1>1, <1>3, <2>1, <2>2, <2>3, CurrentRows
  <2>5. /\ Len(Offered) = b - a + 1
        /\ \A k \in 1..Len(Offered) : Offered[k].row = a + k - 1 /\ GotMeant(Offered[k], sent)
    BY <1>1, <2>1, <2>2, <2>3, OfferedIs DEF OfferedOf
  <2>6. \A k \in 1..l : /\ got'[k].row >= k /\ got'[k].row < a /\ got'[k].row \in Nat
                        /\ GotMeant(got'[k], sent')
    BY <1>1, <1>4, <2>4 DEF GotRight, GotMeant
  <2>7. ASSUME NEW k \in (l + 1)..(l + n)
        PROVE  /\ got'[k].row = a + (k - l) - 1 /\ got'[k].row <= b /\ got'[k].row >= k
               /\ GotMeant(got'[k], sent')
    <3>1. PICK j \in 1..n : k = l + j
      <4>1. k - l \in 1..n /\ k = l + (k - l)
        OBVIOUS
      <4>2. QED
        BY <4>1
    <3>2. got'[k] = Offered[j] /\ j \in 1..Len(Offered)
      BY <1>4, <3>1
    <3>3. got'[k].row = a + j - 1 /\ GotMeant(got'[k], sent')
      BY <1>1, <2>5, <3>2
    <3>4. j <= b - a + 1 /\ j \in Nat
      BY <2>4, <2>5, <3>2
    <3>5. QED
      BY <2>4, <3>1, <3>3, <3>4
  <2>8. \A k \in DOMAIN got' : k \in 1..l \/ k \in (l + 1)..(l + n)
    BY <1>4
  <2>9. \A k \in DOMAIN got' : got'[k].row >= k /\ GotMeant(got'[k], sent') /\ got'[k].row <= b
    BY <2>4, <2>6, <2>7, <2>8
  <2>10. ASSUME NEW k \in DOMAIN got', NEW i \in DOMAIN got', k < i
         PROVE  got'[k].row < got'[i].row
    <3>1. CASE i \in 1..l
      <4>1. k \in 1..l
        BY <2>8, <2>10, <3>1
      <4>2. QED
        BY <1>1, <1>4, <2>10, <3>1, <4>1 DEF GotRight
    <3>2. CASE i \in (l + 1)..(l + n)
      <4>1. CASE k \in 1..l
        BY <2>4, <2>6, <2>7, <3>2, <4>1
      <4>2. CASE k \in (l + 1)..(l + n)
        BY <2>4, <2>7, <2>10, <3>2, <4>2
      <4>3. QED
        BY <2>8, <4>1, <4>2
    <3>3. QED
      BY <2>8, <3>1, <3>2
  <2>11. ASSUME NEW k \in DOMAIN got', NEW p \in Nat, NEW i \in Nat, IsRows(p, i)'
         PROVE  got'[k].row < EventAt(p, i)'.first
    <3>1. p + 1 \in Nat /\ p + 1 > 1 /\ IsRows(p + 1, i) /\ EventAt(p, i)' = EventAt(p + 1, i)
      BY <1>2, <2>11
    <3>2. PICK f : f = EventAt(p + 1, i).first
      OBVIOUS
    <3>3. b < f
      BY <2>4, <3>1, <3>2
    <3>4. f \in Nat
      <4>1. QueueMeant
        BY DEF SessionInv
      <4>2. RowsMeant(EventAt(p + 1, i), opened, sent)
        BY <3>1, <4>1 DEF QueueMeant, IsRows, EventMeant
      <4>3. QED
        BY <3>2, <4>2 DEF RowsMeant
    <3>5. got'[k].row <= b /\ got'[k].row \in Nat
      BY <2>9 DEF GotMeant
    <3>6. QED
      BY <2>4, <3>1, <3>2, <3>3, <3>4, <3>5
  <2>12. QED
    BY <2>9, <2>10, <2>11 DEF GotRight
<1>7. QED
  BY <1>5, <1>6

\* Where nothing is hidden, what is not current in the first packet is skipped.
LEMMA OnlyCurrent ==
  ASSUME SessionInv, wire # <<>>, whole, ~refused,
         NEW p \in Nat, NEW i \in Nat, Slot(p, i), EventAt(p, i).kind \in {"map", "rows"}, p < 2
  PROVE  /\ p = 1 /\ i = Counted(Seen(Head(wire))) /\ EventAt(p, i) = Current
         /\ HasCurrent(EventAt(p, i).kind)
<1>1. PICK c : c = Counted(Seen(Head(wire)))
  OBVIOUS
<1>2. SessionTypes /\ p = 1 /\ i # 0
  <2>1. SessionTypes
    BY DEF SessionInv
  <2>2. p \in Nat \ {0} /\ i \in Nat \ {0}
    BY <2>1, SlotNumbers
  <2>3. QED
    BY <2>1, <2>2
<1>3. Plain(Head(wire))
  <2>1. 1 \in DOMAIN wire /\ Head(wire) = wire[1]
    <3> DEFINE U == Range(wire)
    <3>1. wire \in Seq(U) /\ wire # <<>>
      BY <1>2 DEF SessionTypes, IsSeq
    <3> HIDE DEF U
    <3>2. QED
      BY <3>1
  <2>2. QED
    BY <2>1 DEF SessionInv, Lossless
<1>4. PICK e : e = Current
  OBVIOUS
<1>5. /\ c # 0 => EventAt(1, c) = e
      /\ \A j \in Nat : Slot(1, j) => j = c \/ EventAt(1, j).kind \in Skipped
  BY <1>1, <1>3, <1>4, CurrentIs
<1>6. EventAt(p, i).kind \notin Skipped
  BY DEF Skipped
<1>7. i = c
  BY <1>2, <1>5, <1>6
<1>8. EventAt(p, i) = e /\ c # 0
  BY <1>2, <1>5, <1>7
<1>9. QED
  BY <1>1, <1>2, <1>4, <1>7, <1>8 DEF HasCurrent

\* The table of the current event is known.
LEMMA CurrentKnown ==
  ASSUME SessionInv, wire # <<>>, whole, ~refused, HasCurrent("rows")
  PROVE  Current.id \in DOMAIN tables
<1>1. PICK c : c = Counted(Seen(Head(wire)))
  OBVIOUS
<1>2. PICK e : e = Current
  OBVIOUS
<1>3. /\ c \in Nat /\ Slot(1, c) /\ EventAt(1, c) = e /\ e.kind = "rows"
      /\ \A i \in Nat : Slot(1, i) /\ i < c => EventAt(1, i).kind \in Skipped
  BY <1>1, <1>2, CurrentIs DEF HasCurrent
<1>4. KnownAt(e.id, 1, c)
  BY <1>3 DEF SessionInv, Lossless, IsRows
<1>5. ASSUME NEW q \in Nat, NEW j \in Nat, Slot(q, j), Before(q, j, 1, c), EventAt(q, j).kind = "map"
      PROVE  FALSE
  <2>1. q # 0
    BY <1>5, SlotNumbers DEF SessionInv
  <2>2. q = 1 /\ j < c
    BY <1>5, <2>1 DEF Before
  <2>3. EventAt(1, j).kind \in Skipped
    BY <1>3, <1>5, <2>2
  <2>4. QED
    BY <1>5, <2>2, <2>3 DEF Skipped
<1>6. QED
  BY <1>2, <1>4, <1>5 DEF KnownAt

\* All rows that are not received wait.
LEMMA NextCovered ==
  ASSUME SessionInv, NEW n \in Nat, NextEvent(n), whole, ~refused, n = Len(Offered),
         NEW k \in 1..Len(sent)
  PROVE  Covered(k)'
<1>1. SessionTypes /\ wire # <<>> /\ wire' = Tail(wire) /\ packing' = packing /\ Len(sent) \in Nat
  BY NextRead, SeqDomain DEF SessionInv, SessionTypes
<1>2. \A i \in 1..Len(sent) : Covered(i)
  BY DEF SessionInv, Lossless
<1>3. PICK l \in Nat : l = Len(got) /\ Len(got') = l + n
  BY NextTaken
<1>4. CASE k <= l
  BY <1>3, <1>4 DEF Covered
<1>5. CASE ~(k <= l)
  <2>1. PICK p \in Nat, i \in Nat : IsRows(p, i) /\ EventAt(p, i).first <= k /\ k <= EventAt(p, i).last
    BY <1>2, <1>3, <1>5 DEF Covered
  <2>2. Slot(p, i) /\ EventAt(p, i).kind = "rows" /\ p # 0
    BY <1>1, <2>1, SlotNumbers DEF IsRows
  <2>3. CASE p > 1
    <3>1. PICK q \in Nat : p = q + 1 /\ q # 0
      <4>1. p - 1 \in Nat /\ p = (p - 1) + 1 /\ p - 1 # 0
        BY <2>3
      <4>2. QED
        BY <4>1
    <3>2. Slot(q, i)' /\ EventAt(q, i)' = EventAt(p, i)
      BY <1>1, <2>2, <3>1, NextSlots
    <3>3. IsRows(q, i)'
      BY <2>2, <3>2 DEF IsRows
    <3>4. QED
      BY <2>1, <3>2, <3>3 DEF Covered
  <2>4. CASE ~(p > 1)
    <3>1. PICK e : e = Current
      OBVIOUS
    <3>2. p = 1 /\ EventAt(p, i) = e /\ HasCurrent("rows")
      <4>1. p < 2 /\ EventAt(p, i).kind \in {"map", "rows"}
        BY <2>2, <2>4
      <4>2. QED
        BY <1>1, <2>2, <3>1, <4>1, OnlyCurrent
    <3>3. PICK a : a = e.first
      OBVIOUS
    <3>4. PICK b : b = e.last
      OBVIOUS
    <3>5. /\ a \in Nat \ {0} /\ b \in Nat /\ a <= b /\ l < a
          /\ \A r, j \in Nat : r > 1 /\ IsRows(r, j) => b < EventAt(r, j).first
      BY <1>1, <1>3, <3>1, <3>2, <3>3, <3>4, CurrentRows
    <3>6. Current.id \in DOMAIN tables
      BY <1>1, <3>2, CurrentKnown
    <3>7. n = b - a + 1
      BY <1>1, <3>1, <3>2, <3>3, <3>4, <3>6, OfferedIs DEF OfferedOf
    <3>8. a <= k /\ k <= b
      BY <2>1, <3>2, <3>3, <3>4
    <3>9. a - 1 <= l
      <4>1. SUFFICES ASSUME a - 1 > l
                     PROVE  FALSE
        BY <3>5
      <4>2. PICK y \in Nat : y = a - 1
        BY <3>5
      <4>3. y \in 1..Len(sent) /\ ~(y <= l)
        BY <1>1, <1>3, <3>5, <3>8, <4>1, <4>2
      <4>4. PICK q \in Nat, j \in Nat : IsRows(q, j) /\ EventAt(q, j).first <= y /\ y <= EventAt(q, j).last
        BY <1>2, <1>3, <4>3 DEF Covered
      <4>5. CASE q > 1
        <5>1. PICK f : f = EventAt(q, j).first
          OBVIOUS
        <5>2. b < f /\ f <= y
          BY <3>5, <4>4, <4>5, <5>1
        <5>3. f \in Nat
          <6>1. RowsMeant(EventAt(q, j), opened, sent)
            BY <4>4 DEF SessionInv, QueueMeant, IsRows, EventMeant
          <6>2. QED
            BY <5>1, <6>1 DEF RowsMeant
        <5>4. QED
          BY <3>5, <4>2, <5>2, <5>3
      <4>6. CASE ~(q > 1)
        <5>1. q < 2 /\ Slot(q, j) /\ EventAt(q, j).kind \in {"map", "rows"}
          BY <4>4, <4>6 DEF IsRows
        <5>2. EventAt(q, j) = e
          BY <1>1, <3>1, <5>1, OnlyCurrent
        <5>3. a <= y
          BY <3>3, <4>4, <5>2
        <5>4. QED
          BY <3>5, <4>2, <5>3
      <4>7. QED
        BY <4>5, <4>6
    <3>10. k <= l + n
      BY <3>5, <3>7, <3>8, <3>9
    <3>11. QED
      BY <1>3, <3>10 DEF Covered
  <2>5. QED
    BY <2>3, <2>4
<1>6. QED
  BY <1>4, <1>5

\* A table that is known stays known.
LEMMA NextKnown ==
  ASSUME SessionInv, NEW n, NextEvent(n), whole, ~refused,
         NEW id, NEW p \in Nat, p # 0, NEW i \in Nat, KnownAt(id, p + 1, i)
  PROVE  KnownAt(id, p, i)'
<1>1. SessionTypes /\ wire # <<>> /\ wire' = Tail(wire) /\ packing' = packing
  BY NextRead DEF SessionInv, SessionTypes
<1>2. /\ \A x \in DOMAIN tables : x \in DOMAIN tables'
      /\ HasCurrent("map") => Current.id \in DOMAIN tables'
  BY <1>1, NextRead, NextTables
<1>3. CASE id \in DOMAIN tables
  BY <1>2, <1>3 DEF KnownAt
<1>4. CASE id \notin DOMAIN tables
  <2>1. PICK q \in Nat, j \in Nat : /\ Slot(q, j) /\ Before(q, j, p + 1, i)
                                    /\ EventAt(q, j).kind = "map" /\ EventAt(q, j).id = id
    BY <1>4 DEF KnownAt
  <2>2. q # 0
    BY <1>1, <2>1, SlotNumbers
  <2>3. CASE q > 1
    <3>1. PICK r \in Nat : q = r + 1 /\ r # 0
      <4>1. q - 1 \in Nat /\ q = (q - 1) + 1 /\ q - 1 # 0
        BY <2>3
      <4>2. QED
        BY <4>1
    <3>2. Slot(r, j)' /\ EventAt(r, j)' = EventAt(q, j)
      BY <1>1, <2>1, <3>1, NextSlots
    <3>3. Before(r, j, p, i)
      BY <2>1, <3>1 DEF Before
    <3>4. QED
      BY <2>1, <3>2, <3>3 DEF KnownAt, Before
  <2>4. CASE ~(q > 1)
    <3>1. q < 2 /\ EventAt(q, j).kind \in {"map", "rows"}
      BY <2>1, <2>4
    <3>2. PICK e : e = EventAt(q, j)
      OBVIOUS
    <3>3. HasCurrent("map") /\ Current = e
      BY <1>1, <2>1, <3>1, <3>2, OnlyCurrent
    <3>4. QED
      BY <1>2, <2>1, <3>2, <3>3 DEF KnownAt
  <2>5. QED
    BY <2>3, <2>4
<1>5. QED
  BY <1>3, <1>4

LEMMA NextLossless ==
  ASSUME SessionInv, NEW n \in Nat, NextEvent(n)
  PROVE  Lossless'
<1>1. /\ SessionTypes /\ Lossless /\ wire # <<>> /\ wire' = Tail(wire)
      /\ UNCHANGED <<packing, sent, mapped, whole>>
  BY NextRead DEF SessionInv
<1>2. ~refused' => ~refused /\ n = Len(Offered)
  <2> DEFINE less == n < Len(Offered)
  <2>1. refused' = (refused \/ less) /\ n <= Len(Offered) /\ Len(Offered) \in Nat
    BY NextTaken
  <2>2. ~less => n = Len(Offered)
    BY <2>1
  <2> HIDE DEF less
  <2>3. QED
    BY <2>1, <2>2
<1>3. SUFFICES ASSUME whole, ~refused, n = Len(Offered)
               PROVE  /\ \A p \in DOMAIN wire' : Plain(wire'[p])
                      /\ \A k \in 1..Len(sent) : Covered(k)'
                      /\ \A id \in mapped : KnownAt(id, Len(wire) + 2, 1)'
                      /\ \A p, i \in Nat : IsRows(p, i)' => KnownAt(EventAt(p, i).id, p, i)'
  BY <1>1, <1>2 DEF Lossless, Plain
<1>4. /\ \A p \in DOMAIN wire : Plain(wire[p])
      /\ \A id \in mapped : KnownAt(id, Len(wire) + 2, 1)
      /\ \A p, i \in Nat : IsRows(p, i) => KnownAt(EventAt(p, i).id, p, i)
  BY <1>1, <1>3 DEF Lossless
<1>5. /\ Len(wire) \in Nat \ {0} /\ Len(wire') = Len(wire) - 1
      /\ \A p \in DOMAIN wire' : p + 1 \in DOMAIN wire /\ wire'[p] = wire[p + 1]
      /\ \A p, i \in Nat : Slot(p, i)' <=> (p # 0 /\ Slot(p + 1, i))
      /\ \A p, i \in Nat : p # 0 => EventAt(p, i)' = EventAt(p + 1, i)
  BY <1>1, NextSlots
<1>6. \A p \in DOMAIN wire' : Plain(wire'[p])
  BY <1>4, <1>5
<1>7. \A k \in 1..Len(sent) : Covered(k)'
  BY <1>3, NextCovered
<1>8. ASSUME NEW id \in mapped
      PROVE  KnownAt(id, Len(wire) + 2, 1)'
  <2>1. PICK p \in Nat : p = Len(wire) + 1 /\ p # 0
    BY <1>5
  <2>2. KnownAt(id, p + 1, 1)
    <3>1. p + 1 = Len(wire) + 2
      BY <1>5, <2>1
    <3>2. QED
      BY <1>4, <3>1
  <2>3. KnownAt(id, p, 1)'
    BY <1>3, <2>1, <2>2, NextKnown
  <2>4. Len(wire') + 2 = p
    BY <1>5, <2>1
  <2>5. QED
    BY <2>3, <2>4 DEF KnownAt
<1>9. ASSUME NEW p \in Nat, NEW i \in Nat, IsRows(p, i)'
      PROVE  KnownAt(EventAt(p, i).id, p, i)'
  <2>1. p # 0 /\ p + 1 \in Nat /\ IsRows(p + 1, i) /\ EventAt(p, i)' = EventAt(p + 1, i)
    BY <1>5, <1>9 DEF IsRows
  <2>2. PICK x : x = EventAt(p + 1, i).id
    OBVIOUS
  <2>3. KnownAt(x, p + 1, i)
    BY <1>4, <2>1, <2>2
  <2>4. KnownAt(x, p, i)'
    BY <1>3, <2>1, <2>3, NextKnown
  <2>5. QED
    BY <2>1, <2>2, <2>4 DEF KnownAt
<1>10. QED
  BY <1>6, <1>7, <1>8, <1>9

LEMMA NextEventRight ==
  ASSUME SessionInv, NEW n \in Nat, NextEvent(n)
  PROVE  SessionInv'
<1>1. /\ SessionTypes /\ pc = "stream" /\ wire # <<>> /\ wire' = Tail(wire)
      /\ UNCHANGED <<callVars, granted, opened, mapped, sent, packing, whole>>
  BY NextRead DEF SessionInv
<1>2. SessionTypes'
  <2>1. IsSeq(wire') /\ \A p \in DOMAIN wire' : p + 1 \in DOMAIN wire /\ wire'[p] = wire[p + 1]
    BY <1>1, NextSlots
  <2>2. \A p \in DOMAIN wire' : IsSeq(wire'[p].events)
    BY <1>1, <2>1 DEF SessionTypes
  <2>3. IsSeq(got') /\ receiver' \in BOOLEAN /\ refused' \in BOOLEAN
    <3>1. IsSeq(got') /\ receiver' \in BOOLEAN /\ refused' = (refused \/ n < Len(Offered))
      BY NextTaken
    <3>2. QED
      BY <3>1
  <2>4. QED
    BY <1>1, <2>1, <2>2, <2>3 DEF SessionTypes
<1>3. BlankOutside'
  BY <1>1 DEF BlankOutside
<1>4. TablesMeant'
  BY <1>1, NextRead, NextTables
<1>5. QED
  BY <1>2, <1>3, <1>4, NextQueue, NextGot, NextLossless DEF SessionInv

-----------------------------------------------------------------------------
(* Where nothing was sent yet, and where no stream is read.                *)

CallTypes ==
    /\ pc \in {"idle", "dial", "sleep", "greeting", "login", "register", "dump",
               "stream", "panic"}
    /\ caller \in {"start", "stream"}
    /\ attempt \in 0..(Attempts - 1) /\ waited \in Nat
    /\ receiver \in BOOLEAN
    /\ granted \in {"nothing", "login", "switch", "slave", "dump"}

\* At most a table was opened, and a packet without events is on its way.
Fresh ==
    /\ CallTypes /\ BlankOutside
    /\ sent = <<>> /\ packing = <<>> /\ tables = <<>> /\ got = <<>> /\ refused = FALSE
    /\ opened \in Seq([table : Tables, types : Shapes]) /\ mapped \subseteq DOMAIN opened
    /\ whole \in BOOLEAN /\ (whole => mapped = {})
    /\ IsSeq(wire) /\ \A p \in DOMAIN wire : wire[p].events = <<>>

LEMMA NoneSeq == IsSeq(<<>>) /\ DOMAIN <<>> = {} /\ Len(<<>>) = 0
BY DEF IsSeq

LEMMA FreshIs == Fresh => SessionInv
<1> SUFFICES ASSUME Fresh
             PROVE  SessionInv
  OBVIOUS
<1>1. /\ CallTypes /\ BlankOutside
      /\ sent = <<>> /\ packing = <<>> /\ tables = <<>> /\ got = <<>> /\ refused = FALSE
      /\ opened \in Seq([table : Tables, types : Shapes]) /\ mapped \subseteq DOMAIN opened
      /\ whole \in BOOLEAN /\ (whole => mapped = {})
      /\ IsSeq(wire) /\ \A p \in DOMAIN wire : wire[p].events = <<>>
  BY DEF Fresh
<1>2. Len(wire) \in Nat /\ DOMAIN wire = 1..Len(wire)
  BY <1>1, SeqDomain
<1>3. \A p, i : ~Slot(p, i)
  <2>1. ASSUME NEW p, NEW i, Slot(p, i)
        PROVE  FALSE
    <3>1. p \in 1..(Len(wire) + 1) /\ i \in DOMAIN Waiting(p)
      BY <2>1 DEF Slot
    <3>2. Waiting(p) = <<>>
      <4>1. CASE p <= Len(wire)
        <5>1. p \in DOMAIN wire
          BY <1>2, <3>1, <4>1
        <5>2. QED
          BY <1>1, <4>1, <5>1 DEF Waiting
      <4>2. CASE ~(p <= Len(wire))
        BY <1>1, <4>2 DEF Waiting
      <4>3. QED
        BY <4>1, <4>2
    <3>3. QED
      BY <3>1, <3>2, NoneSeq
  <2>2. QED
    BY <2>1
<1>4. SessionTypes
  <2>1. IsSeq(sent) /\ IsSeq(got) /\ IsSeq(packing) /\ \A p \in DOMAIN wire : IsSeq(wire[p].events)
    BY <1>1, NoneSeq
  <2>2. refused \in BOOLEAN
    BY <1>1
  <2>3. QED
    BY <1>1, <2>1, <2>2 DEF SessionTypes, CallTypes
<1>5. QueueMeant /\ QueueOrder
  BY <1>3 DEF QueueMeant, QueueOrder, IsRows
<1>6. TablesMeant /\ GotRight
  <2>1. DOMAIN tables = {} /\ DOMAIN got = {}
    BY <1>1, NoneSeq
  <2>2. QED
    BY <2>1 DEF TablesMeant, GotRight
<1>7. Lossless
  <2>1. \A p \in DOMAIN wire : Plain(wire[p])
    BY <1>1 DEF Plain
  <2>2. 1..Len(sent) = {}
    BY <1>1, NoneSeq
  <2>3. QED
    BY <1>1, <1>3, <2>1, <2>2 DEF Lossless, IsRows
<1>8. QED
  BY <1>1, <1>4, <1>5, <1>6, <1>7 DEF SessionInv

LEMMA BlankIs == CallTypes /\ Blank => SessionInv
<1>1. ASSUME CallTypes, Blank
      PROVE  Fresh
  <2>1. /\ opened = <<>> /\ mapped = {} /\ sent = <<>> /\ whole = TRUE
        /\ packing = <<>> /\ wire = <<>> /\ tables = <<>> /\ refused = FALSE /\ got = <<>>
    BY <1>1 DEF Blank
  <2>2. IsSeq(wire) /\ DOMAIN wire = {} /\ DOMAIN opened = {}
    BY <2>1, NoneSeq
  <2>3. opened \in Seq([table : Tables, types : Shapes])
    BY <2>1
  <2>4. BlankOutside
    BY <1>1 DEF BlankOutside
  <2>5. whole \in BOOLEAN
    BY <2>1
  <2>6. QED
    BY <1>1, <2>1, <2>2, <2>3, <2>4, <2>5 DEF Fresh
<1>2. QED
  BY <1>1, FreshIs

LEMMA SomeAttempts == Attempts \in Nat \ {0}
<1> DEFINE S == {MaxAttempts, 1}
<1>1. MaxAttempts \in Nat
  BY MySqlStreamAssumption
<1>2. PICK n \in Nat : MaxAttempts <= n /\ 1 <= n
  <2>1. MaxAttempts + 1 \in Nat /\ MaxAttempts <= MaxAttempts + 1 /\ 1 <= MaxAttempts + 1
    BY <1>1
  <2>2. QED
    BY <2>1
<1>3. S \in SUBSET (0..n) /\ S # {}
  BY <1>1, <1>2
<1>4. 1 \in S
  OBVIOUS
<1>5. Attempts = Max(S)
  BY DEF Attempts
<1> HIDE DEF S
<1>6. Max(S) \in S /\ \A y \in S : Max(S) >= y
  BY <1>2, <1>3, GreatestNumber
<1>7. PICK m : m = Max(S)
  OBVIOUS
<1>8. m \in 0..n /\ m >= 1
  <2>1. m \in S /\ m >= 1
    BY <1>4, <1>6, <1>7
  <2>2. m \in 0..n
    BY <1>3, <2>1
  <2>3. QED
    BY <2>1, <2>2
<1>9. QED
  BY <1>2, <1>5, <1>7, <1>8

\* A session that stays blank, or ends blank.
LEMMA FailedRight ==
  ASSUME CallTypes, Failed
  PROVE  CallTypes'
<1> DEFINE last == attempt + 1 = Attempts
<1>1. /\ pc' = (IF last THEN "idle" ELSE "sleep")
      /\ attempt' = (IF last THEN 0 ELSE attempt + 1)
      /\ waited' = (IF last THEN 0 ELSE waited)
      /\ receiver' = (receiver /\ ~last)
      /\ granted' = "nothing" /\ caller' = caller
  BY DEF Failed
<1>2. attempt' \in 0..(Attempts - 1)
  BY <1>1, SomeAttempts DEF CallTypes
<1>3. pc' \in {"idle", "sleep"} /\ waited' \in Nat /\ caller' \in {"start", "stream"}
  BY <1>1 DEF CallTypes
<1>4. receiver' \in BOOLEAN
  <2> HIDE DEF last
  <2>1. QED
    BY <1>1
<1>5. QED
  BY <1>1, <1>2, <1>3, <1>4 DEF CallTypes

LEMMA EndCallRight ==
  ASSUME CallTypes, EndCall
  PROVE  SessionInv'
<1>1. /\ pc' = "idle" /\ granted' = "nothing"
      /\ opened' = <<>> /\ mapped' = {} /\ sent' = <<>> /\ whole' = TRUE
      /\ packing' = <<>> /\ wire' = <<>>
      /\ tables' = <<>> /\ receiver' = FALSE /\ refused' = FALSE /\ got' = <<>>
      /\ UNCHANGED <<caller, attempt, waited>>
  BY DEF EndCall
<1>2. Blank'
  BY <1>1 DEF Blank
<1>3. CallTypes'
  BY <1>1 DEF CallTypes
<1>4. (CallTypes /\ Blank => SessionInv)'
  BY BlankIs, PTL
<1>5. QED
  BY <1>2, <1>3, <1>4

LEMMA OutsideRight ==
  ASSUME SessionInv, pc # "stream", CallTypes', UNCHANGED <<serverVars, tables, refused, got>>
  PROVE  SessionInv'
<1>1. Blank
  BY DEF SessionInv, BlankOutside
<1>2. Blank'
  BY <1>1 DEF Blank
<1>3. (CallTypes /\ Blank => SessionInv)'
  BY BlankIs, PTL
<1>4. QED
  BY <1>2, <1>3

\* A panic outside a stream leaves all as it is.
LEMMA PanicRight ==
  ASSUME SessionInv, pc # "stream", Panic
  PROVE  SessionInv'
<1>1. CallTypes
  BY DEF SessionInv, SessionTypes, CallTypes
<1>2. CallTypes'
  BY <1>1 DEF CallTypes, Panic
<1>3. QED
  BY <1>2, OutsideRight DEF Panic

LEMMA DumpRight ==
  ASSUME SessionInv, NEW o, NEW reply, Dump(o, reply)
  PROVE  SessionInv'
<1>1. CallTypes /\ pc = "dump" /\ Blank
  BY DEF SessionInv, SessionTypes, CallTypes, BlankOutside, Dump
<1>2. /\ opened = <<>> /\ mapped = {} /\ sent = <<>> /\ whole = TRUE
      /\ packing = <<>> /\ wire = <<>> /\ tables = <<>> /\ refused = FALSE /\ got = <<>>
  BY <1>1 DEF Blank
<1>3. CASE o = "file" /\ ~IsOk(reply)
  BY <1>1, <1>3, EndCallRight, PanicRight DEF Dump
<1>4. CASE ~(o = "file" /\ ~IsOk(reply))
  <2>1. /\ pc' = "stream" /\ granted' = (IF reply = "ok" THEN "dump" ELSE granted)
        /\ wire' = IF o = "gtid" THEN <<[events |-> <<>>, flaw |-> reply]>> ELSE <<>>
        /\ \/ UNCHANGED <<opened, mapped, whole>>
           \/ /\ \E t \in Tables, s \in Shapes : opened' = <<[table |-> t, types |-> s]>>
              /\ mapped' = {1} /\ whole' = FALSE
        /\ UNCHANGED <<caller, attempt, waited, sent, packing, clientVars>>
    BY <1>4 DEF Dump
  <2>2. CallTypes' /\ BlankOutside'
    BY <1>1, <2>1 DEF CallTypes, BlankOutside
  <2>3. sent' = <<>> /\ packing' = <<>> /\ tables' = <<>> /\ got' = <<>> /\ refused' = FALSE
    BY <1>2, <2>1
  <2>4. IsSeq(wire') /\ \A p \in DOMAIN wire' : wire'[p].events = <<>>
    <3>1. CASE o = "gtid"
      <4>1. PICK x : x = [events |-> <<>>, flaw |-> reply]
        OBVIOUS
      <4>2. wire' = <<x>> /\ x.events = <<>>
        BY <2>1, <3>1, <4>1
      <4>3. <<x>> \in Seq({x}) /\ \A p \in DOMAIN <<x>> : <<x>>[p] = x
        OBVIOUS
      <4>4. IsSeq(<<x>>)
        BY <4>3, SeqIsSeq
      <4>5. QED
        BY <4>2, <4>3, <4>4
    <3>2. CASE o # "gtid"
      BY <2>1, <3>2, NoneSeq
    <3>3. QED
      BY <3>1, <3>2
  <2>5. /\ opened' \in Seq([table : Tables, types : Shapes]) /\ mapped' \subseteq DOMAIN opened'
        /\ whole' \in BOOLEAN /\ (whole' => mapped' = {})
    <3>1. CASE UNCHANGED <<opened, mapped, whole>>
      <4>1. <<>> \in Seq([table : Tables, types : Shapes])
        OBVIOUS
      <4>2. QED
        BY <1>2, <3>1, <4>1
    <3>2. CASE /\ \E t \in Tables, s \in Shapes : opened' = <<[table |-> t, types |-> s]>>
               /\ mapped' = {1} /\ whole' = FALSE
      <4>1. PICK t \in Tables, s \in Shapes : opened' = <<[table |-> t, types |-> s]>>
        BY <3>2
      <4>2. PICK x : x = [table |-> t, types |-> s]
        OBVIOUS
      <4> DEFINE T == [table : Tables, types : Shapes]
      <4>3. x \in T
        BY <4>2
      <4> HIDE DEF T
      <4>4. <<x>> \in Seq(T) /\ DOMAIN <<x>> = 1..1
        BY <4>3
      <4>5. opened' \in Seq(T) /\ 1 \in DOMAIN opened'
        BY <4>1, <4>2, <4>4
      <4>6. QED
        BY <3>2, <4>5 DEF T
    <3>3. QED
      BY <2>1, <3>1, <3>2
  <2>6. Fresh'
    BY <2>2, <2>3, <2>4, <2>5 DEF Fresh
  <2>7. (Fresh => SessionInv)'
    BY FreshIs, PTL
  <2>8. QED
    BY <2>6, <2>7
<1>5. QED
  BY <1>3, <1>4

\* A step of the connection or of the stream.
LEMMA StepRight ==
  ASSUME SessionInv, Next
  PROVE  SessionInv'
<1>1. CallTypes
  BY DEF SessionInv, SessionTypes, CallTypes
<1>2. ASSUME NEW who \in {"start", "stream"}, BeginCall(who)
      PROVE  SessionInv'
  <2>1. CallTypes'
    BY <1>1, <1>2 DEF CallTypes, BeginCall
  <2>2. QED
    BY <1>2, <2>1, OutsideRight DEF BeginCall
<1>3. ASSUME Sleep
      PROVE  SessionInv'
  <2>1. CallTypes'
    <3>1. waited' = waited + attempt /\ pc' = "dial"
          /\ UNCHANGED <<caller, attempt, granted, receiver>>
      BY <1>3 DEF Sleep
    <3>2. waited' \in Nat
      BY <1>1, <3>1, SomeAttempts DEF CallTypes
    <3>3. QED
      BY <1>1, <3>1, <3>2 DEF CallTypes
  <2>2. QED
    BY <1>3, <2>1, OutsideRight DEF Sleep
<1>4. ASSUME Disconnect
      PROVE  SessionInv'
  BY <1>1, <1>4, EndCallRight DEF Disconnect
<1>5. ASSUME NEW b \in BOOLEAN, Dial(b)
      PROVE  SessionInv'
  <2>1. CASE b
    <3>1. CallTypes'
      BY <1>1, <1>5, <2>1 DEF CallTypes, Dial
    <3>2. QED
      BY <1>5, <3>1, OutsideRight DEF Dial
  <2>2. CASE ~b
    <3>1. Failed /\ pc # "stream" /\ UNCHANGED <<serverVars, tables, refused, got>>
      BY <1>5, <2>2 DEF Dial
    <3>2. QED
      BY <1>1, <3>1, FailedRight, OutsideRight
  <2>3. QED
    BY <2>1, <2>2
<1>6. ASSUME NEW kind \in {"v10", "error", "other", "cut"}, Greeting(kind)
      PROVE  SessionInv'
  <2>1. pc # "stream" /\ UNCHANGED <<serverVars, tables, refused, got>>
    BY <1>6 DEF Greeting
  <2>2. CASE kind \in {"v10", "cut"}
    <3>1. pc' \in {"login", "panic"} /\ UNCHANGED <<caller, attempt, waited, granted, receiver>>
      BY <1>6, <2>2 DEF Greeting, Panic
    <3>2. CallTypes'
      BY <1>1, <3>1 DEF CallTypes
    <3>3. QED
      BY <2>1, <3>2, OutsideRight
  <2>3. CASE kind \notin {"v10", "cut"}
    <3>1. Failed
      BY <1>6, <2>3 DEF Greeting
    <3>2. QED
      BY <1>1, <2>1, <3>1, FailedRight, OutsideRight
  <2>4. QED
    BY <2>2, <2>3
<1>7. ASSUME NEW reply, Login(reply)
      PROVE  SessionInv'
  <2>1. pc # "stream" /\ UNCHANGED <<serverVars, tables, refused, got>>
    BY <1>7 DEF Login
  <2>2. CASE IsOk(reply)
    <3>1. /\ pc' \in {"idle", "register"} /\ attempt' = 0 /\ waited' = 0
          /\ granted' \in {"nothing", "login", "switch"} /\ UNCHANGED <<caller, receiver>>
      BY <1>7, <2>2 DEF Login
    <3>2. attempt' \in 0..(Attempts - 1)
      BY <3>1, SomeAttempts
    <3>3. CallTypes'
      BY <1>1, <3>1, <3>2 DEF CallTypes
    <3>4. QED
      BY <2>1, <3>3, OutsideRight
  <2>3. CASE ~IsOk(reply)
    <3>1. Failed \/ Panic
      BY <1>7, <2>3 DEF Login
    <3>2. QED
      BY <1>1, <2>1, <3>1, FailedRight, OutsideRight, PanicRight
  <2>4. QED
    BY <2>2, <2>3
<1>8. ASSUME NEW reply, RegisterSlave(reply)
      PROVE  SessionInv'
  <2>1. CASE IsOk(reply)
    <3>1. CallTypes'
      BY <1>1, <1>8, <2>1 DEF CallTypes, RegisterSlave
    <3>2. pc # "stream" /\ UNCHANGED <<serverVars, tables, refused, got>>
      BY <1>8, <2>1 DEF RegisterSlave
    <3>3. QED
      BY <3>1, <3>2, OutsideRight
  <2>2. CASE ~IsOk(reply)
    BY <1>1, <1>8, <2>2, EndCallRight, PanicRight DEF RegisterSlave
  <2>3. QED
    BY <2>1, <2>2
<1>9. ASSUME NEW n \in 0..MaxRows, NextEvent(n)
      PROVE  SessionInv'
  <2>1. n \in Nat
    OBVIOUS
  <2>2. QED
    BY <1>9, <2>1, NextEventRight
<1>10. ASSUME NEW id \in mapped, NEW op \in {"c", "u", "d"}, NEW second \in BOOLEAN,
              NEW rows \in RowLists[opened[id].types], ChangeRows(id, op, rows, second)
       PROVE  SessionInv'
  BY <1>10, ChangeRowsRight
<1>11. QED
  BY <1>2, <1>3, <1>4, <1>5, <1>6, <1>7, <1>8, <1>9, <1>10, DumpRight, MapTableRight,
     OtherEventRight, SendPacketRight DEF Next

LEMMA SameSession == ASSUME SessionInv, UNCHANGED vars PROVE SessionInv'
<1>1. /\ SessionTypes /\ BlankOutside /\ QueueMeant /\ QueueOrder /\ TablesMeant /\ GotRight
      /\ Lossless
  BY DEF SessionInv
<1>2. \A p, i : (Slot(p, i)' <=> Slot(p, i)) /\ EventAt(p, i)' = EventAt(p, i)
  BY DEF Slot, EventAt, Waiting
<1>3. \A p, i : IsRows(p, i)' <=> IsRows(p, i)
  BY <1>2 DEF IsRows
<1>4. SessionTypes'
  BY <1>1 DEF SessionTypes
<1>5. BlankOutside'
  BY <1>1 DEF BlankOutside, Blank
<1>6. QueueMeant' /\ QueueOrder'
  BY <1>1, <1>2, <1>3 DEF QueueMeant, QueueOrder, Before
<1>7. TablesMeant' /\ GotRight'
  BY <1>1, <1>2, <1>3 DEF TablesMeant, GotRight
<1>8. Lossless'
  <2>1. SUFFICES ASSUME whole, ~refused
                 PROVE  /\ \A p \in DOMAIN wire : Plain(wire[p])
                        /\ \A k \in 1..Len(sent) : Covered(k)'
                        /\ \A id \in mapped : KnownAt(id, Len(wire) + 2, 1)'
                        /\ \A p, i \in Nat : IsRows(p, i)' => KnownAt(EventAt(p, i).id, p, i)'
    BY DEF Lossless
  <2>2. /\ \A p \in DOMAIN wire : Plain(wire[p])
        /\ \A k \in 1..Len(sent) : Covered(k)
        /\ \A id \in mapped : KnownAt(id, Len(wire) + 2, 1)
        /\ \A p, i \in Nat : IsRows(p, i) => KnownAt(EventAt(p, i).id, p, i)
    BY <1>1, <2>1 DEF Lossless
  <2>3. \A k : Covered(k) => Covered(k)'
    BY <1>2, <1>3 DEF Covered
  <2>4. ASSUME NEW id, NEW p, NEW i, KnownAt(id, p, i)
        PROVE  KnownAt(id, p, i)'
    BY <1>2, <2>4 DEF KnownAt, Before
  <2>5. \A id \in mapped : KnownAt(id, Len(wire) + 2, 1)'
    <3>1. ASSUME NEW id \in mapped
          PROVE  KnownAt(id, Len(wire) + 2, 1)'
      <4>1. PICK n : n = Len(wire) + 2
        OBVIOUS
      <4>2. KnownAt(id, n, 1)'
        BY <2>2, <2>4, <4>1
      <4>3. QED
        BY <4>1, <4>2 DEF KnownAt
    <3>2. QED
      BY <3>1
  <2>6. ASSUME NEW p \in Nat, NEW i \in Nat, IsRows(p, i)'
        PROVE  KnownAt(EventAt(p, i).id, p, i)'
    <3>1. PICK x : x = EventAt(p, i).id
      OBVIOUS
    <3>2. KnownAt(x, p, i)'
      BY <1>3, <2>2, <2>4, <2>6, <3>1
    <3>3. QED
      BY <1>2, <3>1, <3>2 DEF KnownAt
  <2>7. QED
    BY <2>2, <2>3, <2>5, <2>6
<1>9. QED
  BY <1>4, <1>5, <1>6, <1>7, <1>8 DEF SessionInv

LEMMA SessionStarts == Init => SessionInv
<1> SUFFICES ASSUME Init
             PROVE  SessionInv
  OBVIOUS
<1>1. Blank
  BY DEF Init, Blank
<1>2. CallTypes
  <2>1. attempt = 0 /\ 0 \in 0..(Attempts - 1)
    BY SomeAttempts DEF Init
  <2>2. QED
    BY <2>1 DEF Init, CallTypes
<1>3. QED
  BY <1>1, <1>2, BlankIs

LEMMA SessionKeeps == SessionInv /\ [ConnectorNext]_connectorVars => SessionInv'
<1> SUFFICES ASSUME SessionInv, [ConnectorNext]_connectorVars
             PROVE  SessionInv'
  OBVIOUS
<1>1. Next \/ UNCHANGED vars
  BY DEF ConnectorNext, connectorVars
<1>2. QED
  BY <1>1, StepRight, SameSession

\* Rows that were received are some of those that were sent.
LEMMA NoMoreRows ==
  ASSUME SessionInv
  PROVE  /\ Len(got) \in Nat /\ Len(sent) \in Nat /\ Len(got) <= Len(sent)
         /\ DOMAIN got = 1..Len(got)
<1>1. GotRight /\ IsSeq(got) /\ IsSeq(sent)
  BY DEF SessionInv, SessionTypes
<1>2. PICK l \in Nat : l = Len(got) /\ DOMAIN got = 1..l
  BY <1>1, SeqDomain
<1>3. PICK m \in Nat : m = Len(sent)
  BY <1>1, SeqDomain
<1>4. CASE l = 0
  BY <1>2, <1>3, <1>4
<1>5. CASE l # 0
  <2>1. PICK r : r = got[l].row
    OBVIOUS
  <2>2. l \in DOMAIN got
    BY <1>2, <1>5
  <2>3. r >= l /\ r \in 1..m
    BY <1>1, <1>3, <2>1, <2>2 DEF GotRight, GotMeant
  <2>4. QED
    BY <1>2, <1>3, <2>3
<1>6. QED
  BY <1>4, <1>5

LEMMA SessionTypeOK == SessionInv => TypeOK
<1> SUFFICES ASSUME SessionInv
             PROVE  TypeOK
  OBVIOUS
<1>1. SessionTypes /\ TablesMeant
  BY DEF SessionInv
<1>2. ASSUME NEW id \in DOMAIN tables
      PROVE  tables[id].table \in Tables /\ tables[id].types \in Shapes
  <2> DEFINE T == [table : Tables, types : Shapes]
  <2>1. PICK o : o = opened[id]
    OBVIOUS
  <2>2. opened \in Seq(T) /\ id \in DOMAIN opened /\ tables[id] = Mapped(o)
    BY <1>1, <1>2, <2>1 DEF SessionTypes, TablesMeant
  <2> HIDE DEF T
  <2>3. o \in T
    BY <2>1, <2>2
  <2>4. o.table \in Tables /\ o.types \in Shapes
    BY <2>3 DEF T
  <2>5. QED
    BY <2>2, <2>4 DEF Mapped
<1>3. attempt \in 0..Attempts
  BY <1>1, SomeAttempts DEF SessionTypes
<1>4. Len(got) <= Len(sent)
  BY NoMoreRows
<1>5. {whole, receiver, refused} \subseteq BOOLEAN
  BY <1>1 DEF SessionTypes
<1>6. QED
  BY <1>1, <1>2, <1>3, <1>4, <1>5 DEF SessionTypes, TypeOK

LEMMA SessionRowsRight == SessionInv => RowsAreRight
<1> SUFFICES ASSUME SessionInv
             PROVE  RowsAreRight
  OBVIOUS
<1>1. GotRight
  BY DEF SessionInv
<1>2. PICK l \in Nat : l = Len(got) /\ DOMAIN got = 1..l
  BY NoMoreRows
<1>3. ASSUME NEW i \in 2..Len(got)
      PROVE  got[i - 1].row < got[i].row
  <2>1. i - 1 \in DOMAIN got /\ i \in DOMAIN got /\ i - 1 < i
    BY <1>2
  <2>2. QED
    BY <1>1, <2>1 DEF GotRight
<1>4. QED
  BY <1>1, <1>3 DEF GotRight, GotMeant, RowsAreRight

LEMMA SessionRowsComplete == SessionInv => RowsAreComplete
<1> SUFFICES ASSUME SessionInv, wire = <<>>, packing = <<>>, whole, ~refused
             PROVE  Len(got) = Len(sent)
  BY DEF RowsAreComplete
<1>1. \A p, i \in Nat : ~Slot(p, i)
  <2>1. Len(wire) = 0
    BY NoneSeq
  <2>2. \A p \in Nat : p \in 1..1 => Waiting(p) = <<>>
    BY <2>1 DEF Waiting
  <2>3. QED
    BY <2>1, <2>2, NoneSeq DEF Slot
<1>2. \A k \in 1..Len(sent) : k <= Len(got)
  BY <1>1 DEF SessionInv, Lossless, Covered, IsRows
<1>3. QED
  BY <1>2, NoMoreRows

\* The session invariant holds of the connector, and with it the three below.
LEMMA SessionHolds == ConnectorSpec => []SessionInv
<1>1. ConnectorInit => SessionInv
  BY SessionStarts DEF ConnectorInit
<1>2. QED
  BY <1>1, SessionKeeps, PTL DEF ConnectorSpec

\* Every variable of the connection and the stream keeps its type, the client's
\* tables are those that the server opened, and no more rows come out than went in.
THEOREM StreamTypes == ConnectorSpec => []TypeOK
BY SessionHolds, SessionTypeOK, PTL

\* Whatever maps, packets and rows are lost, hidden or skipped, every event of the
\* stream is of a row that the session sent, in the session's order, with the
\* row's own table, operation and values: the bytes that the server encodes with
\* the columns of a table are read with the columns of that table.
THEOREM RowsRight == ConnectorSpec => []RowsAreRight
BY SessionHolds, SessionRowsRight, PTL

\* A stream that began between statements, whose receiver stayed and of whose
\* packets none had a flaw or an event behind one that counts, gives every row of
\* the session once it has read what was sent: next_event knows the table of each.
THEOREM RowsComplete == ConnectorSpec => []RowsAreComplete
BY SessionHolds, SessionRowsComplete, PTL

=============================================================================
