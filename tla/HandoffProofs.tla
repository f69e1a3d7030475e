--------------------------- MODULE HandoffProofs ----------------------------
(***************************************************************************)
(* Proofs about Handoff, for every set of tables, every WAL layout and     *)
(* every length of the log: which changes may be lost and which may not,   *)
(* what a PostgreSQL snapshot returns, how its position is misread and     *)
(* where its stream begins, and which calls end when their receiver is     *)
(* gone.                                                                   *)
(***************************************************************************)
EXTENDS Handoff, DataInduction

USE DEF serverVars, channelVars, snapshotVars, streamVars, vars

-----------------------------------------------------------------------------
(* Positions.                                                              *)

\* The greater of two numbers.
LEMMA MaxOfTwo ==
  ASSUME NEW a \in Int, NEW b \in Int
  PROVE  Max({a, b}) = IF a >= b THEN a ELSE b
BY DEF Max

\* A position just after n changes has those n before it.
LEMMA BeforeLsn ==
  ASSUME NEW n \in Nat PROVE Before(Lsn(n)) = n
<1>1. FirstLsn \in Nat /\ LsnStep \in Nat \ {0}
  BY HandoffAssumption
<1>2. LsnStep * n \in Nat /\ (LsnStep * n) \div LsnStep = n
  BY <1>1
<1>3. QED
  BY <1>1, <1>2 DEF Before, Lsn

LEMMA BeforeType == ASSUME NEW l \in Nat PROVE Before(l) \in Nat
<1>1. FirstLsn \in Nat /\ LsnStep \in Nat \ {0}
  BY HandoffAssumption
<1>2. CASE l < FirstLsn
  BY <1>2 DEF Before
<1>3. CASE ~(l < FirstLsn)
  <2>1. l - FirstLsn \in Nat
    BY <1>1, <1>3
  <2>2. (l - FirstLsn) \div LsnStep \in Nat
    BY <1>1, <2>1
  <2>3. QED
    BY <1>3, <2>2 DEF Before
<1>4. QED
  BY <1>2, <1>3

\* A later position has no fewer changes before it.
LEMMA BeforeGrows ==
  ASSUME NEW k \in Nat, NEW l \in Nat, k <= l
  PROVE  Before(k) <= Before(l)
<1>1. FirstLsn \in Nat /\ LsnStep \in Nat \ {0}
  BY HandoffAssumption
<1>2. CASE k < FirstLsn
  <2>1. Before(k) = 0 /\ Before(l) \in Nat
    BY <1>2, BeforeType DEF Before
  <2>2. QED
    BY <2>1
<1>3. CASE ~(k < FirstLsn)
  <2>1. k - FirstLsn \in Nat /\ l - FirstLsn \in Nat /\ k - FirstLsn <= l - FirstLsn
    BY <1>1, <1>3
  <2>2. (k - FirstLsn) \div LsnStep <= (l - FirstLsn) \div LsnStep
    BY <1>1, <2>1
  <2>3. QED
    BY <1>1, <1>3, <2>2 DEF Before
<1>4. QED
  BY <1>2, <1>3

\* One step of Misread, which looks at the number without its last digit.
MisreadStep(f, l) == IF l < 10 THEN l ELSE 16 * f[l \div 10] + (l % 10)

\* A number is made of its last digit and the digits before it.
LEMMA Digits ==
  ASSUME NEW l \in Nat
  PROVE  /\ l \div 10 \in Nat
         /\ l % 10 \in 0..9
         /\ l = 10 * (l \div 10) + (l % 10)
         /\ l >= 10 => l \div 10 < l
OBVIOUS

\* Misread is defined for every number: it looks at shorter ones only.
LEMMA MisreadEquation ==
  \A l \in Nat : Misread[l] = MisreadStep(Misread, l)
<1> DEFINE rank  == [l \in Nat |-> l]
           step  == [l \in Nat |-> [f \in [Nat -> Nat] |-> MisreadStep(f, l)]]
           Eq(f) == f = [l \in Nat |-> MisreadStep(f, l)]
<1>1. \A l \in Nat : \A f \in [Nat -> Nat] : MisreadStep(f, l) \in Nat
  <2> TAKE l \in Nat
  <2> TAKE f \in [Nat -> Nat]
  <2>1. f[l \div 10] \in Nat /\ l % 10 \in Nat
    BY Digits
  <2>2. QED
    BY <2>1 DEF MisreadStep
<1>2. Causal(Nat, Nat, rank, step)
  <2>1. ASSUME NEW l \in Nat, NEW g \in [Nat -> Nat], NEW h \in [Nat -> Nat],
               \A y \in Nat : rank[y] < rank[l] => g[y] = h[y]
        PROVE  step[l][g] = step[l][h]
    <3>1. l >= 10 => g[l \div 10] = h[l \div 10]
      BY <2>1, Digits
    <3>2. QED
      BY <3>1 DEF MisreadStep
  <2> HIDE DEF rank, step
  <2>2. QED
    BY <2>1 DEF Causal
<1>3. PICK f : Solution(Nat, Nat, step, f)
  <2>1. rank \in [Nat -> Nat] /\ step \in [Nat -> [[Nat -> Nat] -> Nat]] /\ Nat # {}
    BY <1>1
  <2> HIDE DEF rank, step
  <2>2. Recursion(Nat, Nat, rank, step)
    BY <1>2, <2>1, Zenon DEF Recursion
  <2>3. QED
    BY <2>2, RecursionExists
<1>4. Eq(f)
  <2>1. f \in [Nat -> Nat] /\ \A l \in Nat : f[l] = step[l][f]
    BY <1>3 DEF Solution
  <2>2. \A l \in Nat : f[l] = MisreadStep(f, l)
    BY <2>1
  <2>3. QED
    BY <2>1, <2>2
<1>5. Eq(Misread)
  <2>1. Misread = CHOOSE m : Eq(m)
    BY DEF Misread, MisreadStep
  <2> HIDE DEF Eq
  <2>2. QED
    BY <1>4, <2>1
<1>6. QED
  BY <1>5

\* Digits that count for more than they should never make a number smaller.
LEMMA MisreadNotLess ==
  ASSUME NEW l \in Nat
  PROVE  Misread[l] \in Nat /\ Misread[l] >= l
<1> DEFINE T == {n \in Nat : Misread[n] \in Nat /\ Misread[n] >= n}
<1>1. ASSUME NEW n \in Nat, \A m \in Nat : m < n => m \in T
      PROVE  n \in T
  <2>1. CASE n < 10
    BY <2>1, MisreadEquation DEF MisreadStep
  <2>2. CASE n >= 10
    <3>1. PICK d \in Nat, r \in 0..9 : d = n \div 10 /\ r = n % 10 /\ n = 10 * d + r /\ d < n
      BY <2>2, Digits
    <3>2. Misread[d] \in Nat /\ Misread[d] >= d
      BY <1>1, <3>1
    <3>3. Misread[n] = 16 * Misread[d] + r
      BY <2>2, <3>1, MisreadEquation DEF MisreadStep
    <3>4. PICK m \in Nat : m = Misread[d]
      BY <3>2
    <3>5. 16 * m + r \in Nat /\ 16 * m + r >= 10 * d + r
      BY <3>2, <3>4
    <3>6. QED
      BY <3>1, <3>3, <3>4, <3>5
  <2>3. QED
    BY <2>1, <2>2
<1>2. Nat \subseteq T
  <2> HIDE DEF T
  <2>1. QED
    BY <1>1, StrongInduction
<1>3. QED
  BY <1>2

\* Misreading keeps the order of two numbers.
LEMMA MisreadGrows ==
  ASSUME NEW k \in Nat, NEW l \in Nat, k < l
  PROVE  Misread[k] < Misread[l]
<1> DEFINE T == {n \in Nat : \A m \in Nat : m < n => Misread[m] < Misread[n]}
<1>1. ASSUME NEW n \in Nat, \A j \in Nat : j < n => j \in T
      PROVE  n \in T
  <2> SUFFICES ASSUME NEW m \in Nat, m < n
               PROVE  Misread[m] < Misread[n]
    OBVIOUS
  <2>1. CASE n < 10
    <3>1. Misread[m] = m /\ Misread[n] = n
      BY <2>1, MisreadEquation DEF MisreadStep
    <3>2. QED
      BY <3>1
  <2>2. CASE n >= 10 /\ m < 10
    <3>1. Misread[m] = m /\ Misread[n] \in Nat /\ Misread[n] >= n
      BY <2>2, MisreadEquation, MisreadNotLess DEF MisreadStep
    <3>2. QED
      BY <3>1
  <2>3. CASE m >= 10
    <3>1. PICK d \in Nat, r \in 0..9 : d = n \div 10 /\ r = n % 10 /\ n = 10 * d + r /\ d < n
      BY <2>3, Digits
    <3>2. PICK e \in Nat, q \in 0..9 : e = m \div 10 /\ q = m % 10 /\ m = 10 * e + q
      BY <2>3, Digits
    <3>3. PICK x \in Nat : x = Misread[d]
      BY MisreadNotLess
    <3>4. PICK y \in Nat : y = Misread[e]
      BY MisreadNotLess
    <3>5. Misread[n] = 16 * x + r /\ Misread[m] = 16 * y + q
      <4>1. n >= 10
        BY <2>3
      <4>2. Misread[n] = 16 * x + r
        BY <3>1, <3>3, <4>1, MisreadEquation DEF MisreadStep
      <4>3. Misread[m] = 16 * y + q
        BY <2>3, <3>2, <3>4, MisreadEquation DEF MisreadStep
      <4>4. QED
        BY <4>2, <4>3
    <3>6. e < d \/ (e = d /\ q < r)
      BY <3>1, <3>2
    <3>7. CASE e < d
      <4>1. y < x
        BY <1>1, <3>1, <3>3, <3>4, <3>7
      <4>2. 16 * y + q < 16 * x + r
        BY <4>1
      <4>3. QED
        BY <3>5, <4>2
    <3>8. CASE e = d /\ q < r
      BY <3>3, <3>4, <3>5, <3>8
    <3>9. QED
      BY <3>6, <3>7, <3>8
  <2>4. QED
    BY <2>1, <2>2, <2>3
<1>2. Nat \subseteq T
  <2> HIDE DEF T
  <2>1. QED
    BY <1>1, StrongInduction
<1>3. QED
  BY <1>2

\* An offset that a consumer hands back to a PostgreSQL connector, written in
\* decimal and read in hexadecimal, is understood only when it has one digit;
\* any other is taken for a later position, and a later one for a later one: a
\* stream may skip changes, and repeats none for that reason.
THEOREM OffsetsMisread ==
  ASSUME NEW l \in Nat
  PROVE  /\ Misread[l] = l <=> l < 10
         /\ Misread[l] >= l
         /\ \A k \in Nat : k <= l => Misread[k] <= Misread[l]
<1>1. Misread[l] \in Nat /\ Misread[l] >= l
  BY MisreadNotLess
<1>2. ASSUME l < 10 PROVE Misread[l] = l
  BY <1>2, MisreadEquation DEF MisreadStep
<1>3. ASSUME l >= 10 PROVE Misread[l] # l
  <2>1. PICK d \in Nat, r \in 0..9 : d = l \div 10 /\ r = l % 10 /\ l = 10 * d + r
    BY <1>3, Digits
  <2>2. PICK x \in Nat : x = Misread[d] /\ x >= d
    BY MisreadNotLess
  <2>3. Misread[l] = 16 * x + r
    BY <1>3, <2>1, <2>2, MisreadEquation DEF MisreadStep
  <2>4. d >= 1
    BY <1>3, <2>1
  <2>5. 16 * x + r # 10 * d + r
    BY <2>2, <2>4
  <2>6. QED
    BY <2>1, <2>3, <2>5
<1>4. ASSUME NEW k \in Nat, k <= l
      PROVE  Misread[k] <= Misread[l]
  <2>1. Misread[k] \in Nat /\ Misread[l] \in Nat
    BY MisreadNotLess
  <2>2. CASE k = l
    BY <2>1, <2>2
  <2>3. CASE k < l
    BY <2>1, <2>3, MisreadGrows
  <2>4. QED
    BY <1>4, <2>2, <2>3
<1>5. (Misread[l] = l <=> l < 10)
  BY <1>2, <1>3
<1>6. QED
  BY <1>1, <1>4, <1>5

-----------------------------------------------------------------------------
(* The last change of a table, in a log s.                                 *)

Change == [table : Tables, row : Rows \cup {NoRow}]

LastIn(s, t) == Max({0} \cup {i \in 1..Len(s) : s[i].table = t})

RowIn(s, t) ==
    LET of == {i \in 1..Len(s) : s[i].table = t}
    IN  IF of = {} THEN NoRow ELSE s[Max(of)].row

LEMMA LogTerms ==
  ASSUME NEW t
  PROVE  /\ LastChange(t) = LastIn(log, t) /\ LastChange(t)' = LastIn(log', t)
         /\ Now(t) = RowIn(log, t) /\ Now(t)' = RowIn(log', t)
BY DEF LastChange, LastIn, Now, After, RowIn

\* What the last change of a table is, and which row the table has after it.
LEMMA LastFacts ==
  ASSUME NEW s \in Seq(Change), NEW t
  PROVE  /\ LastIn(s, t) \in 0..Len(s)
         /\ \A i \in 1..Len(s) : s[i].table = t => i <= LastIn(s, t)
         /\ LastIn(s, t) = 0 => RowIn(s, t) = NoRow
         /\ LastIn(s, t) # 0 => /\ s[LastIn(s, t)].table = t
                                /\ RowIn(s, t) = s[LastIn(s, t)].row
<1> DEFINE of  == {i \in 1..Len(s) : s[i].table = t}
           all == {0} \cup of
<1>0. Len(s) \in Nat /\ LastIn(s, t) = Max(all)
  BY DEF LastIn
<1>1. all \in SUBSET (0..Len(s)) /\ all # {} /\ of \in SUBSET (0..Len(s))
  BY <1>0
<1>2. Max(all) \in all /\ \A y \in all : Max(all) >= y
  <2> HIDE DEF all
  <2>1. QED
    BY <1>0, <1>1, GreatestNumber
<1>3. CASE of = {}
  <2>1. LastIn(s, t) = 0
    BY <1>0, <1>2, <1>3
  <2>2. RowIn(s, t) = NoRow
    BY <1>3 DEF RowIn
  <2>3. QED
    BY <1>0, <1>3, <2>1, <2>2
<1>4. CASE of # {}
  <2>1. Max(of) \in of /\ \A y \in of : Max(of) >= y
    <3> HIDE DEF of
    <3>1. QED
      BY <1>0, <1>1, <1>4, GreatestNumber
  <2>2. Max(all) = Max(of)
    <3>1. Max(all) \in 0..Len(s) /\ Max(of) \in 1..Len(s)
      BY <1>1, <1>2, <2>1
    <3>2. Max(all) >= Max(of) /\ Max(all) # 0
      BY <1>2, <2>1, <3>1
    <3>3. Max(all) \in of
      BY <1>2, <3>2
    <3>4. QED
      BY <2>1, <3>1, <3>2, <3>3
  <2>3. RowIn(s, t) = s[Max(of)].row
    BY <1>4 DEF RowIn
  <2>4. \A i \in 1..Len(s) : s[i].table = t => i <= Max(of)
    BY <1>0, <2>1
  <2> HIDE DEF all
  <2>5. QED
    BY <1>0, <2>1, <2>2, <2>3, <2>4
<1>5. QED
  BY <1>3, <1>4

\* A change that is followed by none of its table is the last.
LEMMA LastIs ==
  ASSUME NEW s \in Seq(Change), NEW t, NEW c \in 1..Len(s), s[c].table = t,
         \A i \in 1..Len(s) : s[i].table = t => i <= c
  PROVE  LastIn(s, t) = c
<1>1. LastIn(s, t) \in 0..Len(s) /\ c <= LastIn(s, t)
  BY LastFacts
<1>2. s[LastIn(s, t)].table = t
  BY <1>1, LastFacts
<1>3. QED
  BY <1>1, <1>2

\* The log grows by a change.
LEMMA LastAppend ==
  ASSUME NEW s \in Seq(Change), NEW t, NEW e \in Change
  PROVE  /\ e.table = t => /\ LastIn(Append(s, e), t) = Len(s) + 1
                           /\ RowIn(Append(s, e), t) = e.row
         /\ e.table # t => /\ LastIn(Append(s, e), t) = LastIn(s, t)
                           /\ RowIn(Append(s, e), t) = RowIn(s, t)
<1> DEFINE z == Append(s, e)
<1>1. /\ z \in Seq(Change) /\ Len(z) = Len(s) + 1 /\ z[Len(s) + 1] = e
      /\ \A i \in 1..Len(s) : z[i] = s[i]
  OBVIOUS
<1>2. Len(s) \in Nat
  OBVIOUS
<1> HIDE DEF z
<1>3. CASE e.table = t
  <2>1. LastIn(z, t) = Len(s) + 1
    BY <1>1, <1>2, <1>3, LastIs
  <2>2. RowIn(z, t) = e.row
    BY <1>1, <1>2, <2>1, LastFacts
  <2>3. QED
    BY <1>3, <2>1, <2>2 DEF z
<1>4. CASE e.table # t
  <2> DEFINE c == LastIn(s, t)
             d == LastIn(z, t)
  <2>1. c \in 0..Len(s) /\ d \in 0..(Len(s) + 1)
    BY <1>1, LastFacts
  <2>2. d # Len(s) + 1
    BY <1>1, <1>2, <1>4, LastFacts
  <2>3. d <= c
    <3>1. CASE d = 0
      BY <2>1, <3>1
    <3>2. CASE d # 0
      <4>1. d \in 1..Len(s) /\ s[d].table = t
        BY <1>1, <1>2, <2>1, <2>2, <3>2, LastFacts
      <4>2. QED
        BY <4>1, LastFacts
    <3>3. QED
      BY <3>1, <3>2
  <2>4. c <= d
    <3>1. CASE c = 0
      BY <2>1, <3>1
    <3>2. CASE c # 0
      <4>1. c \in 1..Len(s) /\ s[c].table = t
        BY <2>1, <3>2, LastFacts
      <4>2. c \in 1..Len(z) /\ z[c].table = t
        BY <1>1, <1>2, <4>1
      <4>3. QED
        BY <1>1, <4>2, LastFacts
    <3>3. QED
      BY <3>1, <3>2
  <2>5. c = d
    BY <2>1, <2>3, <2>4
  <2>6. RowIn(z, t) = RowIn(s, t)
    <3>1. CASE c = 0
      BY <1>1, <2>5, <3>1, LastFacts
    <3>2. CASE c # 0
      <4>1. z[c] = s[c]
        BY <1>1, <2>1, <3>2
      <4>2. RowIn(z, t) = z[c].row /\ RowIn(s, t) = s[c].row
        BY <1>1, <2>5, <3>2, LastFacts
      <4>3. QED
        BY <4>1, <4>2
    <3>3. QED
      BY <3>1, <3>2
  <2>7. QED
    BY <1>4, <2>5, <2>6 DEF z
<1>5. QED
  BY <1>3, <1>4

-----------------------------------------------------------------------------
(* Types.                                                                  *)

Typed == TypeOK /\ RefusedInv

\* What SMT needs to know of one state.
LEMMA Facts ==
  ASSUME TypeOK
  PROVE  /\ Len(log) \in Nat /\ log \in Seq(Change)
         /\ slot \in Int /\ slot >= -1 /\ slot <= Len(log)
         /\ Before(position) \in Nat
         /\ offset.kind \in {"none", "done", "lsn"} /\ offset.lsn \in Nat
         /\ kind \in {"postgres", "mysql", "mongodb"}
         /\ \A t \in Tables : Now(t) \in Rows \cup {NoRow} /\ LastChange(t) \in 0..Len(log)
         /\ \A i \in 1..Len(log) : log[i].table \in Tables /\ log[i].row \in Rows \cup {NoRow}
<1>1. log \in Seq(Change) /\ Len(log) \in Nat /\ slot \in -1..Len(log)
  BY DEF TypeOK, Change
<1>2. \A i \in 1..Len(log) : log[i].table \in Tables /\ log[i].row \in Rows \cup {NoRow}
  <2> TAKE i \in 1..Len(log)
  <2>1. log[i] \in Change
    BY <1>1
  <2>2. QED
    BY <2>1 DEF Change
<1>3. Before(position) \in Nat
  BY BeforeType DEF TypeOK
<1>4. ASSUME NEW t \in Tables
      PROVE  Now(t) \in Rows \cup {NoRow} /\ LastChange(t) \in 0..Len(log)
  <2>1. LastIn(log, t) \in 0..Len(log)
    BY <1>1, LastFacts
  <2>2. CASE LastIn(log, t) = 0
    BY <1>1, <2>1, <2>2, LastFacts, LogTerms
  <2>3. CASE LastIn(log, t) # 0
    BY <1>1, <1>2, <2>1, <2>3, LastFacts, LogTerms
  <2>4. QED
    BY <2>2, <2>3
<1>5. kind \in {"postgres", "mysql", "mongodb"}
  BY HandoffAssumption DEF TypeOK
<1>6. offset.kind \in {"none", "done", "lsn"} /\ offset.lsn \in Nat
  BY DEF TypeOK
<1>7. QED
  BY <1>1, <1>2, <1>3, <1>4, <1>5, <1>6

\* Where a stream opens: for PostgreSQL at the slot, or after the position.
LEMMA OpensFacts ==
  ASSUME TypeOK
  PROVE  /\ Opens(offset) \in Nat
         /\ kind = "postgres" /\ slot # -1 =>
               /\ slot <= Opens(offset)
               /\ offset.kind # "lsn" => Opens(offset) = slot
               /\ offset.kind = "lsn" => Before(Misread[offset.lsn]) <= Opens(offset)
               /\ offset.kind = "lsn" => Opens(offset) = Max({slot, Before(Misread[offset.lsn])})
         /\ kind = "mysql" => Opens(offset) = 0
         /\ kind = "mongodb" => Opens(offset) = Len(log)
<1>0. /\ Len(log) \in Nat /\ slot \in Int /\ slot >= -1
      /\ offset.lsn \in Nat /\ kind \in {"postgres", "mysql", "mongodb"}
  BY Facts
<1>1. CASE kind = "postgres"
  <2> DEFINE l == IF offset.kind = "lsn" THEN Misread[offset.lsn] ELSE 0
  <2>1. l \in Nat /\ Before(l) \in Nat
    BY <1>0, MisreadNotLess, BeforeType
  <2>2. Opens(offset) = Max({slot, Before(l)})
    BY <1>1 DEF Opens, PostgresOpens
  <2>3. Opens(offset) = IF slot >= Before(l) THEN slot ELSE Before(l)
    <3> HIDE DEF l
    <3>1. QED
      BY <1>0, <2>1, <2>2, MaxOfTwo
  <2>5. Before(0) = 0
    <3>1. 0 \div LsnStep = 0 /\ FirstLsn \in Nat
      BY HandoffAssumption
    <3>2. QED
      BY <3>1 DEF Before
  <2>6. offset.kind # "lsn" => Before(l) = 0
    BY <2>5
  <2>7. CASE offset.kind = "lsn"
    BY <1>0, <1>1, <2>1, <2>2, <2>3, <2>7
  <2>8. CASE offset.kind # "lsn"
    BY <1>0, <1>1, <2>1, <2>3, <2>6, <2>8
  <2>9. QED
    BY <2>7, <2>8
<1>2. CASE kind = "mysql"
  BY <1>2 DEF Opens, MySqlOpens
<1>3. CASE kind = "mongodb"
  BY <1>0, <1>3 DEF Opens, MongoOpens
<1>4. QED
  BY <1>0, <1>1, <1>2, <1>3

LEMMA InitTyped == Init => Typed /\ PositionInv
<1> SUFFICES ASSUME Init PROVE Typed /\ PositionInv
  OBVIOUS
<1>1. TypeOK
  <2>1. log \in Seq([table : Tables, row : Rows \cup {NoRow}]) /\ Len(log) = 0
    BY DEF Init
  <2>2. pc \in {"stopped", "ready"}
    BY DEF Init
  <2>3. /\ slot \in -1..Len(log) /\ refused \in 0..Len(log) /\ begun \in 0..Len(log)
        /\ readAt \in [Tables -> 0..Len(log)]
    BY <2>1 DEF Init
  <2>4. /\ todo \subseteq Tables /\ position \in Nat /\ opened \in Nat /\ next \in Nat \ {0}
    BY DEF Init
  <2>5. receiver \in BOOLEAN /\ kind \in Kinds /\ offset = NoOffset /\ from = NoOffset
    BY DEF Init
  <2>6. replica \in [Tables -> Rows \cup {NoRow}]
    BY DEF Init
  <2>7. NoOffset \in [kind : {"none", "done", "lsn"}, lsn : Nat]
    BY DEF NoOffset
  <2>8. QED
    BY <2>1, <2>2, <2>3, <2>4, <2>5, <2>6, <2>7 DEF TypeOK
<1>2. RefusedInv
  BY DEF Init, RefusedInv
<1>3. PositionInv
  BY DEF Init, PositionInv, NoOffset
<1>4. QED
  BY <1>1, <1>2, <1>3 DEF Typed

LEMMA NextTyped == Typed /\ [Next]_vars => Typed'
<1> SUFFICES ASSUME TypeOK, RefusedInv, [Next]_vars
             PROVE  TypeOK' /\ RefusedInv'
  BY DEF Typed
<1>0. Len(log) \in Nat /\ slot \in Int /\ slot >= -1
  BY Facts
<1>1. ASSUME NEW t \in Tables, NEW row \in Rows \cup {NoRow}, Commit(t, row)
      PROVE  TypeOK' /\ RefusedInv'
  <2>1. /\ log' \in Seq([table : Tables, row : Rows \cup {NoRow}])
        /\ Len(log') = Len(log) + 1
    BY <1>1 DEF Commit, TypeOK
  <2>2. TypeOK'
    BY <1>0, <1>1, <2>1 DEF Commit, TypeOK
  <2>3. QED
    BY <1>1, <2>2 DEF Commit, RefusedInv
<1>2. CASE Start
  BY <1>0, <1>2 DEF Start, TypeOK, RefusedInv
<1>3. CASE Stop \/ DropReceiver \/ Fail
  BY <1>3 DEF Stop, DropReceiver, Fail, TypeOK, RefusedInv
<1>4. CASE BeginSnapshot
  BY <1>0, <1>4 DEF BeginSnapshot, OpenChannel, NoOffset, TypeOK, RefusedInv
<1>5. CASE ReadPosition
  <2>1. Lsn(Len(log)) \in Nat
    BY <1>0, HandoffAssumption DEF Lsn
  <2>2. QED
    BY <1>5, <2>1 DEF ReadPosition, TypeOK, RefusedInv
<1>6. CASE SnapshotReturns
  BY <1>6 DEF SnapshotReturns, AtLsn, Done, TypeOK, RefusedInv
<1>7. ASSUME NEW t \in Tables, ReadTable(t)
      PROVE  TypeOK' /\ RefusedInv'
  <2>1. Now(t) \in Rows \cup {NoRow}
    BY Facts
  <2>2. CASE UNCHANGED <<pc, refused>>
    <3>1. /\ pc = "tables" /\ pc' = pc /\ refused' = refused /\ todo' = todo \ {t}
          /\ readAt' = [readAt EXCEPT ![t] = Len(log)]
          /\ replica' = [replica EXCEPT ![t] = Now(t)]
          /\ UNCHANGED <<log, slot, kind, receiver, position, begun, offset, from, opened, next>>
      BY <1>7, <2>2 DEF ReadTable
    <3>2. readAt' \in [Tables -> 0..Len(log)] /\ replica' \in [Tables -> Rows \cup {NoRow}]
      BY <1>0, <2>1, <3>1 DEF TypeOK
    <3>3. QED
      BY <3>1, <3>2 DEF TypeOK, RefusedInv
  <2>3. CASE /\ ~receiver /\ Now(t) # NoRow /\ pc' = "ready" /\ refused' = refused + 1
             /\ UNCHANGED <<todo, readAt, replica>>
    <3>1. LastIn(log, t) # 0 /\ LastIn(log, t) \in 0..Len(log)
      BY <2>3, Facts, LastFacts, LogTerms
    <3>2. refused' \in 0..Len(log)
      BY <1>0, <1>7, <2>3, <3>1 DEF ReadTable, RefusedInv
    <3>3. QED
      BY <1>7, <2>3, <3>2 DEF ReadTable, TypeOK, RefusedInv
  <2>4. QED
    BY <1>7, <2>2, <2>3 DEF ReadTable
<1>8. CASE BeginStream
  <2>1. Opens(offset) \in Nat
    BY OpensFacts
  <2>2. opened' \in Nat /\ next' \in Nat \ {0} /\ refused' = 0
    BY <1>8, <2>1 DEF BeginStream, OpenChannel
  <2>3. QED
    BY <1>0, <1>8, <2>2 DEF BeginStream, OpenChannel, NoOffset, TypeOK, RefusedInv
<1>9. CASE Deliver
  <2>1. log[next].table \in Tables /\ log[next].row \in Rows \cup {NoRow}
    BY <1>0, <1>9, Facts DEF Deliver, TypeOK
  <2>2. next \in Nat \ {0} /\ refused \in Nat /\ refused < next /\ next <= Len(log)
    BY <1>0, <1>9 DEF Deliver, TypeOK, RefusedInv
  <2>3. refused' \in 0..Len(log) /\ refused' < next' /\ next' \in Nat \ {0}
    BY <1>0, <1>9, <2>2 DEF Deliver
  <2>4. replica' \in [Tables -> Rows \cup {NoRow}]
    BY <1>9, <2>1 DEF Deliver, TypeOK
  <2>5. pc' \in {"stream", "ready"}
    BY <1>9 DEF Deliver
  <2>6. QED
    BY <1>9, <2>3, <2>4, <2>5 DEF Deliver, TypeOK, RefusedInv
<1>10. CASE StreamRefused
  BY <1>0, <1>10 DEF StreamRefused, OpenChannel, NoOffset, TypeOK, RefusedInv
<1>11. CASE UNCHANGED vars
  BY <1>11 DEF TypeOK, RefusedInv
<1>12. QED
  BY <1>1, <1>2, <1>3, <1>4, <1>5, <1>6, <1>7, <1>8, <1>9, <1>10, <1>11 DEF Next

-----------------------------------------------------------------------------
(* The position of a PostgreSQL snapshot.                                  *)

\* A position that holds goes on holding while the log grows and tables are read.
LEMMA HoldsGrows ==
  ASSUME TypeOK, PositionHolds, UNCHANGED position,
         Len(log') \in Nat, Len(log) <= Len(log'),
         \A t \in Tables \ todo' :
            \/ t \notin todo /\ readAt'[t] = readAt[t]
            \/ readAt'[t] = Len(log)
  PROVE  PositionHolds'
<1>1. Len(log) \in Nat /\ Before(position) \in Nat
  BY Facts
<1>2. Before(position)' = Before(position)
  BY DEF Before
<1>3. \A t \in Tables \ todo' : Before(position) <= readAt'[t]
  BY <1>1 DEF PositionHolds
<1>4. QED
  BY <1>1, <1>2, <1>3 DEF PositionHolds

\* Steps that touch nothing the position depends on.
LEMMA PositionKept ==
  ASSUME TypeOK, PositionInv,
         UNCHANGED <<log, slot, kind, position, todo, readAt, offset>>,
         pc' \in {"ready", "stopped", "stream", pc}
  PROVE  PositionInv'
<1>1. PositionHolds' <=> PositionHolds
  BY DEF PositionHolds, Before
<1>2. QED
  BY <1>1 DEF PositionInv

LEMMA NextPosition == ASSUME TypeOK, PositionInv, [Next]_vars PROVE PositionInv'
<1>0. Len(log) \in Nat /\ Before(position) \in Nat /\ slot \in Int
  BY Facts DEF TypeOK
<1>1. ASSUME NEW t \in Tables, NEW row \in Rows \cup {NoRow}, Commit(t, row)
      PROVE  PositionInv'
  <2>1. Len(log') = Len(log) + 1
    BY <1>1 DEF Commit, TypeOK
  <2>2. PositionHolds => PositionHolds'
    BY <1>0, <1>1, <2>1, HoldsGrows DEF Commit
  <2>3. QED
    BY <1>0, <1>1, <2>1, <2>2 DEF Commit, PositionInv
<1>2. CASE Start
  <2>1. PositionHolds => PositionHolds'
    BY <1>0, <1>2, HoldsGrows DEF Start
  <2>2. slot' <= Len(log')
    BY <1>0, <1>2 DEF Start, PositionInv
  <2>3. QED
    BY <1>2, <2>1, <2>2 DEF Start, PositionInv
<1>3. CASE Stop \/ DropReceiver \/ Fail \/ Deliver
  BY <1>3, PositionKept DEF Stop, DropReceiver, Fail, Deliver
<1>4. CASE BeginSnapshot
  BY <1>4 DEF BeginSnapshot, PositionInv, NoOffset
<1>5. CASE ReadPosition
  <2>1. Before(position') = Len(log)
    BY <1>0, <1>5, BeforeLsn DEF ReadPosition
  <2>2. kind = "postgres" => PositionHolds'
    <3>1. todo' = Tables
      BY <1>5 DEF ReadPosition, PositionInv
    <3>2. QED
      BY <1>0, <1>5, <2>1, <3>1 DEF ReadPosition, PositionInv, PositionHolds
  <2>3. QED
    BY <1>0, <1>5, <2>2 DEF ReadPosition, PositionInv
<1>6. CASE SnapshotReturns
  <2>1. PositionHolds' <=> PositionHolds
    BY <1>6 DEF SnapshotReturns, PositionHolds, Before
  <2>2. offset'.kind = "lsn" => kind = "postgres" /\ todo = {} /\ offset'.lsn = position
    BY <1>6 DEF SnapshotReturns, AtLsn, Done, LookFirst
  <2>3. pc = "tables" /\ pc' = "ready" /\ UNCHANGED <<log, slot, kind, position, todo>>
    BY <1>6 DEF SnapshotReturns
  <2>4. QED
    BY <2>1, <2>2, <2>3 DEF PositionInv
<1>7. ASSUME NEW t \in Tables, ReadTable(t)
      PROVE  PositionInv'
  <2>1. PositionHolds => PositionHolds'
    <3>1. ASSUME NEW u \in Tables \ todo'
          PROVE  \/ u \notin todo /\ readAt'[u] = readAt[u]
                 \/ readAt'[u] = Len(log)
      BY <1>7 DEF ReadTable, TypeOK
    <3>2. QED
      BY <1>0, <1>7, <3>1, HoldsGrows DEF ReadTable
  <2>2. /\ pc = "tables" /\ pc' \in {"tables", "ready"}
        /\ UNCHANGED <<log, slot, kind, position, offset>>
    BY <1>7 DEF ReadTable
  <2>3. QED
    BY <2>1, <2>2 DEF PositionInv
<1>8. CASE BeginStream \/ StreamRefused
  BY <1>8 DEF BeginStream, StreamRefused, PositionInv, NoOffset
<1>9. CASE UNCHANGED vars
  BY <1>9, PositionKept
<1>10. QED
  BY <1>1, <1>2, <1>3, <1>4, <1>5, <1>6, <1>7, <1>8, <1>9 DEF Next

LEMMA NextAgreed == ASSUME TypeOK, PositionInv, AgreedPosition, [Next]_vars
                    PROVE  AgreedPosition'
<1>1. CASE BeginStream
  <2>1. ASSUME from'.kind = "lsn", Misread[from'.lsn] = from'.lsn
        PROVE  \A t \in Tables : opened' <= readAt'[t] \/ opened' = slot'
    <3>1. offset.kind = "lsn" /\ Misread[offset.lsn] = offset.lsn
      BY <1>1, <2>1 DEF BeginStream
    <3>2. kind = "postgres" /\ todo = {} /\ offset.lsn = position /\ PositionHolds
      BY <3>1 DEF PositionInv
    <3>3. opened' = Max({slot, Before(position)})
      BY <1>1, <3>1, <3>2 DEF BeginStream, Opens, PostgresOpens
    <3>4. opened' \in {slot, Before(position)}
      <4>1. slot \in Int /\ Before(position) \in Int
        BY Facts
      <4>2. QED
        BY <3>3, <4>1, MaxOfTwo
    <3>5. QED
      BY <1>1, <3>2, <3>4 DEF BeginStream, PositionHolds
  <2>2. QED
    BY <2>1 DEF AgreedPosition
<1>2. CASE Deliver
  BY <1>2 DEF Deliver, AgreedPosition
<1>3. CASE DropReceiver \/ UNCHANGED vars \/ \E t \in Tables, row \in Rows \cup {NoRow} : Commit(t, row)
  BY <1>3 DEF DropReceiver, Commit, AgreedPosition
<1>4. CASE Start \/ Stop \/ Fail \/ BeginSnapshot \/ ReadPosition \/ SnapshotReturns
           \/ StreamRefused \/ \E t \in Tables : ReadTable(t)
  <2>1. pc' # "stream"
    BY <1>4 DEF Start, Stop, Fail, BeginSnapshot, ReadPosition, SnapshotReturns, StreamRefused,
                ReadTable
  <2>2. QED
    BY <2>1 DEF AgreedPosition
<1>5. QED
  BY <1>1, <1>2, <1>3, <1>4 DEF Next

-----------------------------------------------------------------------------
(* What the consumer knows.                                                *)

LEMMA InitKnowledge == Init => KnowledgeInv /\ BegunInv
<1> SUFFICES ASSUME Init PROVE KnowledgeInv /\ BegunInv
  OBVIOUS
<1>1. ASSUME NEW t \in Tables
      PROVE  replica[t] = Now(t)
  BY DEF Init, Now, After
<1>2. pc # "stream"
  BY DEF Init
<1>3. pc # "tables" /\ offset.kind = "none"
  BY DEF Init, NoOffset
<1>4. QED
  BY <1>1, <1>2, <1>3 DEF KnowledgeInv, BegunInv

\* All but Commit leave the last change and the row of every table alone.
LEMMA LogKept ==
  ASSUME log' = log
  PROVE  /\ Len(log') = Len(log)
         /\ \A t \in Tables : LastChange(t)' = LastChange(t) /\ Now(t)' = Now(t)
BY LogTerms

\* Steps that touch nothing the knowledge depends on, within a call or outside.
LEMMA KnowledgeKept ==
  ASSUME KnowledgeInv,
         UNCHANGED <<log, slot, kind, offset, from, opened, next, begun, readAt, replica>>,
         receiver' => receiver,
         pc' = pc \/ {pc, pc'} \subseteq {"stopped", "ready"}
  PROVE  KnowledgeInv'
<1>1. \A t \in Tables : LastChange(t)' = LastChange(t) /\ Now(t)' = Now(t)
  BY LogKept
<1>2. \A t \in Tables : Settled(t)' <=> Settled(t)
  BY <1>1 DEF Settled
<1>3. OpenedInv' <=> OpenedInv
  BY LogKept DEF OpenedInv
<1>4. CASE pc = "stream"
  <2>1. pc' = "stream"
    BY <1>4
  <2>2. QED
    BY <1>1, <1>3, <1>4, <2>1 DEF KnowledgeInv
<1>5. CASE pc # "stream"
  <2>1. pc' # "stream" /\ (pc' \in {"position", "tables"} => pc \in {"position", "tables"})
    BY <1>5
  <2>2. QED
    BY <1>1, <1>2, <1>5, <2>1 DEF KnowledgeInv
<1>6. QED
  BY <1>4, <1>5

\* A stream ends: what is settled was before it was opened.
LEMMA StreamEnds ==
  ASSUME TypeOK, KnowledgeInv, pc = "stream", pc' = "ready",
         UNCHANGED <<log, slot, kind, offset, readAt, replica>>
  PROVE  KnowledgeInv'
<1>1. \A t \in Tables : LastChange(t)' = LastChange(t) /\ Now(t)' = Now(t)
  BY LogKept
<1>2. OpenedInv /\ offset.kind = "none"
  BY DEF KnowledgeInv
<1>3. ASSUME NEW t \in Tables, Settled(t)'
      PROVE  replica'[t] = Now(t)'
  <2>1. Settled(t)
    BY <1>1, <1>3 DEF Settled
  <2>2. /\ LastChange(t) \in Nat /\ slot \in Int /\ opened \in Nat /\ readAt[t] \in Nat
        /\ kind \in {"postgres", "mysql", "mongodb"}
    BY Facts DEF TypeOK
  <2>3. LastChange(t) <= readAt[t]
    BY <2>1 DEF Settled
  <2>4. LastChange(t) <= opened
    BY <1>2, <2>1, <2>2 DEF Settled, OpenedInv
  <2>5. replica[t] = Now(t)
    BY <2>3, <2>4 DEF KnowledgeInv
  <2>6. QED
    BY <1>1, <2>5
<1>4. QED
  BY <1>2, <1>3 DEF KnowledgeInv

\* A snapshot that is at work, or has returned, knows what it has read.
LEMMA ReadIsKnown ==
  ASSUME pc' # "stream", \A t \in Tables : LastChange(t)' <= readAt'[t] => replica'[t] = Now(t)'
  PROVE  KnowledgeInv'
BY DEF KnowledgeInv, Settled

LEMMA CommitKnowledge ==
  ASSUME TypeOK, KnowledgeInv, NEW u \in Tables, NEW row \in Rows \cup {NoRow}, Commit(u, row)
  PROVE  KnowledgeInv'
<1> DEFINE e == [table |-> u, row |-> row]
<1>1. /\ log \in Seq(Change) /\ Len(log) \in Nat /\ e \in Change
      /\ slot \in Int /\ slot <= Len(log)
  BY Facts DEF Change
<1>2. log' = Append(log, e) /\ Len(log') = Len(log) + 1
  BY <1>1 DEF Commit
<1>3. LastChange(u)' = Len(log) + 1 /\ Now(u)' = row
  <2>1. LastIn(Append(log, e), u) = Len(log) + 1 /\ RowIn(Append(log, e), u) = row
    BY <1>1, LastAppend
  <2>2. QED
    BY <1>2, <2>1, LogTerms
<1>4. ASSUME NEW t \in Tables, t # u
      PROVE  LastChange(t)' = LastChange(t) /\ Now(t)' = Now(t)
  <2>1. LastIn(Append(log, e), t) = LastIn(log, t) /\ RowIn(Append(log, e), t) = RowIn(log, t)
    BY <1>1, <1>4, LastAppend
  <2>2. QED
    BY <1>2, <2>1, LogTerms
<1>5. /\ UNCHANGED <<slot, kind, pc, receiver, offset, from, opened, next, begun, readAt, replica>>
      /\ readAt \in [Tables -> 0..Len(log)]
  BY DEF Commit, TypeOK
<1>6. ~(LastChange(u)' <= readAt'[u])
  BY <1>1, <1>3, <1>5
<1>7. \A t \in Tables : Settled(t)' => t # u /\ Settled(t)
  BY <1>4, <1>5, <1>6 DEF Settled
<1>8. OpenedInv => OpenedInv'
  BY <1>1, <1>2, <1>5 DEF OpenedInv, TypeOK
<1>9. CASE pc = "stream"
  <2>1. OpenedInv /\ offset.kind = "none"
    BY <1>9 DEF KnowledgeInv
  <2>2. ASSUME NEW t \in Tables,
               \/ LastChange(t)' <= readAt'[t] /\ LastChange(t)' <= opened'
               \/ receiver' /\ opened' < LastChange(t)' /\ LastChange(t)' < next'
        PROVE  replica'[t] = Now(t)'
    <3>1. CASE t # u
      <4>1. replica[t] = Now(t)
        BY <1>4, <1>5, <1>9, <2>2, <3>1 DEF KnowledgeInv
      <4>2. QED
        BY <1>4, <1>5, <3>1, <4>1
    <3>2. CASE t = u
      <4>1. opened < Len(log) + 1 /\ Len(log) + 1 < next
        BY <1>3, <1>5, <1>6, <2>2, <3>2
      <4>2. next <= opened + 1 \/ next <= Len(log) + 1
        BY <2>1 DEF OpenedInv
      <4>3. opened \in Nat /\ next \in Nat
        BY DEF TypeOK
      <4>4. QED
        BY <1>1, <4>1, <4>2, <4>3
    <3>3. QED
      BY <3>1, <3>2
  <2>3. QED
    BY <1>5, <1>8, <1>9, <2>1, <2>2 DEF KnowledgeInv
<1>10. CASE pc # "stream"
  <2>1. ASSUME NEW t \in Tables, Settled(t)'
        PROVE  replica'[t] = Now(t)'
    BY <1>4, <1>5, <1>7, <1>10, <2>1 DEF KnowledgeInv
  <2>2. ASSUME pc \in {"position", "tables"} \/ offset.kind # "none",
               NEW t \in Tables, LastChange(t)' <= readAt'[t]
        PROVE  replica'[t] = Now(t)'
    BY <1>4, <1>5, <1>6, <2>2 DEF KnowledgeInv
  <2>3. QED
    BY <1>5, <1>10, <2>1, <2>2 DEF KnowledgeInv
<1>11. QED
  BY <1>9, <1>10

-----------------------------------------------------------------------------
(* The position and the beginning of the snapshot.                         *)

LEMMA NextBegun == ASSUME TypeOK, BegunInv, [Next]_vars PROVE BegunInv'
<1>1. CASE ReadPosition
  <2>1. /\ Len(log) \in Nat /\ begun \in 0..Len(log)
        /\ position' = Lsn(Len(log)) /\ begun' = begun
    BY <1>1, Facts DEF ReadPosition, TypeOK
  <2>2. Before(position') = Len(log)
    BY <2>1, BeforeLsn
  <2>3. begun' <= Before(position')
    BY <2>1, <2>2
  <2>4. QED
    BY <2>3 DEF BegunInv, Before
<1>2. CASE BeginSnapshot
  BY <1>2 DEF BeginSnapshot, NoOffset, BegunInv
<1>3. CASE SnapshotReturns
  <2>1. /\ pc = "tables" /\ UNCHANGED <<begun, position>>
        /\ offset'.kind = "lsn" => kind = "postgres"
        /\ pc' = "ready"
    BY <1>3 DEF SnapshotReturns, AtLsn, Done
  <2>2. QED
    BY <2>1 DEF BegunInv, Before
<1>4. CASE BeginStream \/ StreamRefused
  BY <1>4 DEF BeginStream, StreamRefused, NoOffset, BegunInv
<1>5. ASSUME UNCHANGED <<kind, begun, position, offset>>, pc' = "tables" => pc = "tables"
      PROVE  BegunInv'
  BY <1>5 DEF BegunInv, Before
<1>6. ASSUME NEW t \in Tables, NEW row \in Rows \cup {NoRow}, Commit(t, row)
      PROVE  BegunInv'
  BY <1>5, <1>6 DEF Commit
<1>7. ASSUME NEW t \in Tables, ReadTable(t)
      PROVE  BegunInv'
  BY <1>5, <1>7 DEF ReadTable
<1>8. CASE Start \/ Stop \/ DropReceiver \/ Fail
  BY <1>5, <1>8 DEF Start, Stop, DropReceiver, Fail
<1>9. CASE Deliver
  <2>1. pc = "stream" /\ pc' \in {"stream", "ready"} /\ UNCHANGED <<kind, begun, position, offset>>
    BY <1>9 DEF Deliver
  <2>2. QED
    BY <1>5, <2>1
<1>10. CASE UNCHANGED vars
  BY <1>5, <1>10
<1>11. QED
  BY <1>1, <1>2, <1>3, <1>4, <1>6, <1>7, <1>8, <1>9, <1>10 DEF Next

\* The stream that takes the position opens after it in whatever notation it
\* is read: hexadecimal digits make no number smaller.
LEMMA BegunBeforeOpens ==
  ASSUME TypeOK, PositionInv, BegunInv, slot # -1, offset.kind = "lsn"
  PROVE  begun <= Opens(offset)
<1>1. offset.lsn = position /\ kind = "postgres" /\ begun <= Before(position)
  BY DEF PositionInv, BegunInv
<1>2. position \in Nat /\ begun \in Int
  BY Facts DEF TypeOK
<1>3. Misread[position] \in Nat /\ position <= Misread[position]
  BY <1>2, MisreadNotLess
<1>4. /\ Before(position) \in Nat /\ Before(Misread[position]) \in Nat
      /\ Before(position) <= Before(Misread[position])
  BY <1>2, <1>3, BeforeGrows, BeforeType
<1>5. Before(Misread[position]) <= Opens(offset) /\ Opens(offset) \in Nat
  BY <1>1, OpensFacts
<1>6. QED
  BY <1>1, <1>2, <1>4, <1>5

LEMMA NextKnowledge ==
  ASSUME TypeOK, PositionInv, BegunInv, KnowledgeInv, [Next]_vars
  PROVE  KnowledgeInv'
<1>0. Len(log) \in Nat /\ slot \in Int /\ slot >= -1 /\ slot <= Len(log)
  BY Facts
<1>1. ASSUME NEW t \in Tables, NEW row \in Rows \cup {NoRow}, Commit(t, row)
      PROVE  KnowledgeInv'
  BY <1>1, CommitKnowledge
<1>2. CASE Start
  <2>1. ASSUME NEW t \in Tables
        PROVE  /\ LastChange(t)' = LastChange(t) /\ Now(t)' = Now(t)
               /\ LastChange(t) \in 0..Len(log)
    BY <1>2, LogKept, Facts DEF Start
  <2>2. ASSUME NEW t \in Tables, Settled(t)'
        PROVE  Settled(t)
    BY <1>0, <1>2, <2>1, <2>2 DEF Settled, Start
  <2>3. pc = "stopped" /\ pc' = "ready" /\ UNCHANGED <<offset, readAt, replica>>
    BY <1>2 DEF Start
  <2>4. QED
    BY <2>1, <2>2, <2>3 DEF KnowledgeInv
<1>3. CASE Stop \/ DropReceiver \/ UNCHANGED vars
  BY <1>3, KnowledgeKept DEF Stop, DropReceiver
<1>4. CASE Fail
  <2>1. CASE pc = "stream"
    BY <1>4, <2>1, StreamEnds DEF Fail
  <2>2. CASE pc # "stream"
    <3>1. pc \in {"position", "tables"} /\ UNCHANGED <<log, readAt, replica>> /\ pc' = "ready"
      BY <1>4, <2>2 DEF Fail
    <3>2. \A t \in Tables : LastChange(t)' <= readAt'[t] => replica'[t] = Now(t)'
      BY <3>1, LogKept DEF KnowledgeInv
    <3>3. QED
      BY <3>1, <3>2, ReadIsKnown
  <2>3. QED
    BY <2>1, <2>2
<1>5. CASE BeginSnapshot
  <2>1. /\ log' = log /\ readAt' = [t \in Tables |-> 0]
        /\ replica' = [t \in Tables |-> NoRow] /\ pc' # "stream"
    BY <1>5 DEF BeginSnapshot
  <2>2. ASSUME NEW t \in Tables, LastChange(t)' <= readAt'[t]
        PROVE  replica'[t] = Now(t)'
    <3>1. LastIn(log, t) = 0
      BY <2>1, <2>2, LogTerms, Facts, LastFacts
    <3>2. Now(t) = NoRow
      BY <3>1, LogTerms, Facts, LastFacts
    <3>3. QED
      BY <2>1, <3>2, LogKept
  <2>3. QED
    BY <2>1, <2>2, ReadIsKnown
<1>6. CASE ReadPosition
  <2>1. pc = "position" /\ UNCHANGED <<log, readAt, replica>> /\ pc' = "tables"
    BY <1>6 DEF ReadPosition
  <2>2. \A t \in Tables : LastChange(t)' <= readAt'[t] => replica'[t] = Now(t)'
    BY <2>1, LogKept DEF KnowledgeInv
  <2>3. QED
    BY <2>1, <2>2, ReadIsKnown
<1>7. CASE SnapshotReturns
  <2>1. pc = "tables" /\ UNCHANGED <<log, readAt, replica>> /\ pc' = "ready"
    BY <1>7 DEF SnapshotReturns
  <2>2. \A t \in Tables : LastChange(t)' <= readAt'[t] => replica'[t] = Now(t)'
    BY <2>1, LogKept DEF KnowledgeInv
  <2>3. QED
    BY <2>1, <2>2, ReadIsKnown
<1>8. ASSUME NEW u \in Tables, ReadTable(u)
      PROVE  KnowledgeInv'
  <2>1. pc = "tables" /\ log' = log /\ pc' # "stream"
    BY <1>8 DEF ReadTable
  <2>2. \A t \in Tables : LastChange(t) <= readAt[t] => replica[t] = Now(t)
    BY <2>1 DEF KnowledgeInv
  <2>3. ASSUME NEW t \in Tables, LastChange(t)' <= readAt'[t]
        PROVE  replica'[t] = Now(t)'
    <3>1. \/ readAt'[t] = readAt[t] /\ replica'[t] = replica[t]
          \/ replica'[t] = Now(t)
      BY <1>8 DEF ReadTable, TypeOK
    <3>2. QED
      BY <2>1, <2>2, <2>3, <3>1, LogKept
  <2>4. QED
    BY <2>1, <2>3, ReadIsKnown
<1>9. CASE BeginStream
  <2>1. /\ pc = "ready" /\ pc' = "stream" /\ offset'.kind = "none" /\ from' = offset
        /\ UNCHANGED <<log, slot, kind, readAt, replica, begun>>
        /\ opened' = Opens(offset) /\ next' = Opens(offset) + 1
        /\ kind = "postgres" => slot # -1
    BY <1>9 DEF BeginStream, NoOffset
  <2>2. /\ Opens(offset) \in Nat
        /\ kind = "postgres" =>
               /\ slot # -1 /\ slot <= Opens(offset)
               /\ offset.kind # "lsn" => Opens(offset) = slot
        /\ kind = "mysql" => Opens(offset) = 0
        /\ kind = "mongodb" => Opens(offset) = Len(log)
    BY <2>1, OpensFacts
  <2>3. kind \in {"postgres", "mysql", "mongodb"} /\ \A t \in Tables : readAt[t] \in 0..Len(log)
    BY Facts DEF TypeOK
  <2>4. OpenedInv'
    <3>1. from'.kind = "lsn" => begun' <= opened'
      BY <2>1, BegunBeforeOpens DEF PositionInv
    <3>2. opened' < next' /\ next' <= opened' + 1
      BY <2>1, <2>2
    <3>3. kind' = "mongodb" => \A t \in Tables : readAt'[t] <= opened'
      BY <1>0, <2>1, <2>2, <2>3
    <3>4. QED
      BY <2>1, <2>2, <3>1, <3>2, <3>3 DEF OpenedInv
  <2>5. ASSUME NEW t \in Tables,
               \/ LastChange(t)' <= readAt'[t] /\ LastChange(t)' <= opened'
               \/ receiver' /\ opened' < LastChange(t)' /\ LastChange(t)' < next'
        PROVE  replica'[t] = Now(t)'
    <3>1. LastChange(t)' = LastChange(t) /\ Now(t)' = Now(t) /\ LastChange(t) \in Nat
      BY <2>1, LogKept, Facts
    <3>2. LastChange(t) <= readAt[t] /\ LastChange(t) <= Opens(offset)
      BY <2>1, <2>2, <2>5, <3>1
    <3>3. CASE offset.kind # "none"
      BY <2>1, <3>1, <3>2, <3>3 DEF KnowledgeInv
    <3>4. CASE offset.kind = "none"
      <4>1. Settled(t)
        BY <2>2, <2>3, <3>1, <3>2, <3>4 DEF Settled
      <4>2. QED
        BY <2>1, <3>1, <4>1 DEF KnowledgeInv
    <3>5. QED
      BY <3>3, <3>4
  <2>6. QED
    BY <2>1, <2>4, <2>5 DEF KnowledgeInv
<1>10. CASE Deliver
  <2>1. CASE pc' = "ready"
    BY <1>10, <2>1, StreamEnds DEF Deliver
  <2>2. CASE pc' # "ready"
    <3>1. /\ pc = "stream" /\ pc' = "stream" /\ next <= Len(log) /\ next' = next + 1
          /\ UNCHANGED <<log, slot, kind, receiver, readAt, begun, offset, from, opened>>
          /\ receiver => replica' = [replica EXCEPT ![log[next].table] = log[next].row]
          /\ ~receiver => replica' = replica
      BY <1>10, <2>2 DEF Deliver
    <3>2. /\ OpenedInv /\ offset.kind = "none" /\ next \in Nat \ {0} /\ opened \in Nat
          /\ replica \in [Tables -> Rows \cup {NoRow}]
      BY <3>1 DEF KnowledgeInv, TypeOK
    <3>3. OpenedInv'
      BY <1>0, <3>1, <3>2, LogKept DEF OpenedInv
    <3>4. ASSUME NEW t \in Tables,
                 \/ LastChange(t) <= readAt[t] /\ LastChange(t) <= opened
                 \/ receiver /\ opened < LastChange(t) /\ LastChange(t) < next + 1
          PROVE  replica'[t] = Now(t)
      <4>1. /\ LastChange(t) \in 0..Len(log) /\ log \in Seq(Change)
            /\ LastIn(log, t) = LastChange(t) /\ Now(t) = RowIn(log, t)
        BY Facts, LogTerms
      <4>2. CASE LastChange(t) = next /\ receiver
        <5>1. log[next].table = t /\ Now(t) = log[next].row
          BY <3>2, <4>1, <4>2, LastFacts
        <5>2. QED
          BY <3>1, <3>2, <4>2, <5>1
      <4>3. CASE ~(LastChange(t) = next /\ receiver)
        <5>1. replica[t] = Now(t)
          <6>1. \/ LastChange(t) <= readAt[t] /\ LastChange(t) <= opened
                \/ receiver /\ opened < LastChange(t) /\ LastChange(t) < next
            BY <3>2, <3>4, <4>1, <4>3
          <6>2. QED
            BY <3>1, <6>1 DEF KnowledgeInv
        <5>2. CASE ~receiver
          BY <3>1, <5>1, <5>2
        <5>3. CASE receiver
          <6>1. next \in 1..Len(log) /\ opened < next
            BY <1>0, <3>1, <3>2 DEF OpenedInv
          <6>2. LastChange(t) < next
            BY <3>2, <3>4, <4>1, <4>3, <5>3, <6>1
          <6>3. log[next].table # t
            BY <4>1, <6>1, <6>2, LastFacts
          <6>4. QED
            BY <3>1, <3>2, <5>1, <5>3, <6>3
        <5>4. QED
          BY <5>2, <5>3
      <4>4. QED
        BY <4>2, <4>3
    <3>5. QED
      BY <3>1, <3>2, <3>3, <3>4, LogKept DEF KnowledgeInv
  <2>3. QED
    BY <2>1, <2>2
<1>11. CASE StreamRefused
  <2>1. /\ pc = "ready" /\ pc' = "ready" /\ offset'.kind = "none"
        /\ UNCHANGED <<log, slot, kind, readAt, replica>>
    BY <1>11 DEF StreamRefused, NoOffset
  <2>2. \A t \in Tables : Settled(t)' => replica'[t] = Now(t)'
    BY <2>1, LogKept DEF KnowledgeInv, Settled
  <2>3. QED
    BY <2>1, <2>2 DEF KnowledgeInv
<1>12. QED
  BY <1>1, <1>2, <1>3, <1>4, <1>5, <1>6, <1>7, <1>8, <1>9, <1>10, <1>11 DEF Next


-----------------------------------------------------------------------------
(* The theorems.                                                           *)

Inv == Typed /\ PositionInv /\ AgreedPosition /\ KnowledgeInv /\ BegunInv

LEMMA Inductive == Spec => []Inv
<1>1. Init => Inv
  BY InitTyped, InitKnowledge DEF Init, NoOffset, AgreedPosition, Inv
<1>2. Inv /\ [Next]_vars => Inv'
  BY NextTyped, NextPosition, NextAgreed, NextKnowledge, NextBegun DEF Inv, Typed
<1>3. QED
  BY <1>1, <1>2, PTL DEF Spec

\* Every variable keeps its type: the slot, the reads and the refused sends
\* never run ahead of the log.
THEOREM TypeCorrect == Spec => []TypeOK
<1>1. Inv => TypeOK
  BY DEF Inv, Typed
<1>2. QED
  BY <1>1, Inductive, PTL

\* No connector loses a change but in one way: it was committed after the
\* snapshot read its table and before the place where the stream was opened,
\* however snapshots, failures and streams follow one another.
THEOREM LossInWindow == Spec => []LossIsWindow
<1>1. Inv => LossIsWindow
  <2> SUFFICES ASSUME Inv, CaughtUp, NEW t \in Tables,
                      LastChange(t) \notin (readAt[t] + 1)..opened
               PROVE  replica[t] = Now(t)
    BY DEF LossIsWindow
  <2>1. /\ TypeOK /\ KnowledgeInv /\ pc = "stream" /\ receiver /\ next > Len(log)
    BY DEF Inv, Typed, CaughtUp
  <2>2. /\ LastChange(t) \in 0..Len(log) /\ Len(log) \in Nat /\ opened \in Nat
        /\ next \in Nat /\ readAt[t] \in Nat
    BY <2>1, Facts DEF TypeOK
  <2>3. \/ LastChange(t) <= readAt[t] /\ LastChange(t) <= opened
        \/ opened < LastChange(t) /\ LastChange(t) < next
    BY <2>1, <2>2
  <2>4. QED
    BY <2>1, <2>3 DEF KnowledgeInv
<1>2. QED
  BY <1>1, Inductive, PTL

\* A PostgreSQL stream that takes the position of a snapshot never sends again
\* what was committed before that snapshot began, although the slot holds it.
THEOREM NeverReplays == Spec => []NoReplay
<1>1. Inv => NoReplay
  BY DEF Inv, KnowledgeInv, OpenedInv, NoReplay
<1>2. QED
  BY <1>1, Inductive, PTL

\* A PostgreSQL stream whose start position means the same in both notations
\* begins before each table was read, so that no change falls between, because
\* get_snapshot_lsn comes before the tables.  The one exception is a slot that
\* start() had failed to make and that a later start() made after the read: the
\* stream then begins with the slot, and not further on.
THEOREM PositionInTime == Spec => []AgreedPosition
<1>1. Inv => AgreedPosition
  BY DEF Inv
<1>2. QED
  BY <1>1, Inductive, PTL

\* A PostgreSQL snapshot that returns a position has read every table, whatever
\* became of its receiver.
THEOREM OkMeansRead == Spec => []OkSnapshotIsComplete
<1>1. Inv => OkSnapshotIsComplete
  BY DEF Inv, PositionInv, OkSnapshotIsComplete
<1>2. QED
  BY <1>1, Inductive, PTL

-----------------------------------------------------------------------------
(* The calls that give up at a refused send.                                *)

\* Nothing was refused as long as such a call is at work, and at most one
\* send after it.
RefusalInv ==
    /\ pc \in {"stopped", "ready", "position", "tables", "stream"}
    /\ pc \in {"position", "tables"} => refused = 0
    /\ kind \notin GoOn => refused \in {0, 1} /\ (pc = "stream" => refused = 0)

LEMMA RefusalInit == Init => RefusalInv
BY DEF Init, RefusalInv

LEMMA RefusalNext == RefusalInv /\ [Next]_vars => RefusalInv'
<1> SUFFICES ASSUME RefusalInv, [Next]_vars
             PROVE  RefusalInv'
  OBVIOUS
<1>1. CASE UNCHANGED <<kind, pc, refused>>
  BY <1>1 DEF RefusalInv, GoOn
<1>2. CASE Start \/ Stop \/ Fail \/ ReadPosition \/ SnapshotReturns
  BY <1>2 DEF Start, Stop, Fail, ReadPosition, SnapshotReturns, RefusalInv, GoOn
<1>3. CASE BeginSnapshot \/ StreamRefused \/ BeginStream
  BY <1>3 DEF BeginSnapshot, StreamRefused, BeginStream, OpenChannel, RefusalInv, GoOn
<1>4. ASSUME NEW t \in Tables, ReadTable(t)
      PROVE  RefusalInv'
  <2>1. /\ pc = "tables" /\ kind' = kind
        /\ (pc' = pc /\ refused' = refused) \/ (pc' = "ready" /\ refused' = refused + 1)
    BY <1>4 DEF ReadTable
  <2>2. QED
    BY <2>1 DEF RefusalInv, GoOn
<1>5. CASE Deliver
  <2>1. /\ pc = "stream" /\ kind' = kind
        /\ \/ pc' = pc /\ refused' = refused
           \/ pc' = (IF kind \in GoOn THEN pc ELSE "ready") /\ refused' = refused + 1
    BY <1>5 DEF Deliver
  <2>2. QED
    BY <2>1 DEF RefusalInv, GoOn
<1>6. QED
  <2>1. ASSUME NEW t \in Tables, NEW row \in Rows \cup {NoRow}, Commit(t, row)
        PROVE  UNCHANGED <<kind, pc, refused>>
    BY <2>1 DEF Commit
  <2>2. DropReceiver => UNCHANGED <<kind, pc, refused>>
    BY DEF DropReceiver
  <2>3. UNCHANGED vars => UNCHANGED <<kind, pc, refused>>
    OBVIOUS
  <2>4. QED
    BY <1>1, <1>2, <1>3, <1>4, <1>5, <2>1, <2>2, <2>3 DEF Next

\* Every snapshot, and the MongoDB stream, gives up at the first send that finds
\* no receiver, however calls, failures and receivers follow one another.
THEOREM RefusalEndsCall == Spec => []EndsAtRefusal
<1>1. RefusalInv => EndsAtRefusal
  BY DEF RefusalInv, EndsAtRefusal
<1>2. QED
  BY <1>1, RefusalInit, RefusalNext, PTL DEF Spec

=============================================================================
