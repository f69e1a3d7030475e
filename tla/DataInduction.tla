--------------------------- MODULE DataInduction ----------------------------
(***************************************************************************)
(* Induction over numbers, finite sets and recursive functions, stated of  *)
(* sets and functions, so that a proof can cite it for a property P as the *)
(* set {n \in Nat : P(n)}.  The other proof modules get from here that     *)
(* their recursive functions and sums satisfy the equations they are       *)
(* defined by, that the greatest number of a bounded set exists, and where *)
(* the parts stand in a sequence that was flattened.                       *)
(***************************************************************************)
EXTENDS FiniteSetsExt, SequencesExt, FiniteSetTheorems, SequenceTheorems, TLAPS

-----------------------------------------------------------------------------
(* Numbers.                                                                *)

NatLess == {p \in Nat \X Nat : p[1] < p[2]}

LEMMA NatLessWellFounded == IsWellFoundedOn(NatLess, Nat)
<1>1. OpToRel(<, Nat) = NatLess
  BY DEF OpToRel, NatLess
<1>2. QED
  BY <1>1, NatLessThanWellFounded

\* A set of numbers that is not empty has a least one.
LEMMA LeastNumber ==
  ASSUME NEW S \in SUBSET Nat, S # {}
  PROVE  \E x \in S : \A y \in S : x <= y
<1>1. PICK x \in S : \A y \in S : <<y, x>> \notin NatLess
  BY NatLessWellFounded, WFMin
<1>2. QED
  <2>1. ASSUME NEW y \in S
        PROVE  x <= y
    <3>1. ~(y < x)
      BY <1>1 DEF NatLess
    <3>2. QED
      BY <3>1
  <2>2. QED
    BY <2>1

\* Induction over the natural numbers.
LEMMA SetInduction ==
  ASSUME NEW S, 0 \in S, \A n \in Nat : n \in S => n + 1 \in S
  PROVE  Nat \subseteq S
<1>1. SUFFICES ASSUME Nat \ S # {} PROVE FALSE
  OBVIOUS
<1>2. PICK x \in Nat \ S : \A y \in Nat \ S : x <= y
  BY <1>1, LeastNumber
<1>3. x - 1 \in Nat \ S
  BY <1>2
<1>4. QED
  BY <1>2, <1>3

\* Induction that may go back to any smaller number.
LEMMA StrongInduction ==
  ASSUME NEW S, \A n \in Nat : (\A m \in Nat : m < n => m \in S) => n \in S
  PROVE  Nat \subseteq S
<1>1. SUFFICES ASSUME Nat \ S # {} PROVE FALSE
  OBVIOUS
<1>2. PICK x \in Nat \ S : \A y \in Nat \ S : x <= y
  BY <1>1, LeastNumber
<1>3. \A m \in Nat : m < x => m \in S
  BY <1>2
<1>4. QED
  BY <1>2, <1>3

\* A set of numbers up to n that is not empty has a greatest one.
LEMMA GreatestNumber ==
  ASSUME NEW n \in Nat, NEW S \in SUBSET (0..n), S # {}
  PROVE  /\ Max(S) \in S
         /\ \A y \in S : Max(S) >= y
<1> DEFINE T == {n - y : y \in S}
<1>1. T \in SUBSET Nat /\ T # {}
  <2>1. \A y \in S : n - y \in Nat
    OBVIOUS
  <2>2. QED
    BY <2>1
<1>2. PICK x \in T : \A z \in T : x <= z
  BY <1>1, LeastNumber
<1>3. PICK y \in S : x = n - y
  BY <1>2
<1>4. \A z \in S : y >= z
  <2> TAKE z \in S
  <2>1. n - z \in T
    OBVIOUS
  <2>2. QED
    BY <1>2, <1>3, <2>1
<1>5. QED
  BY <1>3, <1>4 DEF Max

-----------------------------------------------------------------------------
(* Recursive functions.                                                    *)

\* step[x][f] depends on f at arguments of smaller rank only.
Causal(A, S, rank, step) ==
    \A x \in A : \A g, h \in [A -> S] :
        (\A y \in A : rank[y] < rank[x] => g[y] = h[y]) => step[x][g] = step[x][h]

\* g obeys step at the arguments of rank below n.
Obeys(A, rank, step, g, n) ==
    \A x \in A : rank[x] < n => g[x] = step[x][g]

\* What a recursion along a rank needs, and what it gives.
Recursion(A, S, rank, step) ==
    /\ S # {}
    /\ rank \in [A -> Nat]
    /\ step \in [A -> [[A -> S] -> S]]
    /\ Causal(A, S, rank, step)

Solution(A, S, step, f) ==
    /\ f \in [A -> S]
    /\ \A x \in A : f[x] = step[x][f]

LEMMA ObeysUnique ==
  ASSUME NEW A, NEW S, NEW rank \in [A -> Nat], NEW step, Causal(A, S, rank, step),
         NEW g \in [A -> S], NEW h \in [A -> S], NEW n \in Nat,
         Obeys(A, rank, step, g, n), Obeys(A, rank, step, h, n)
  PROVE  \A x \in A : rank[x] < n => g[x] = h[x]
<1> DEFINE T == {m \in Nat : m < n => \A x \in A : rank[x] = m => g[x] = h[x]}
<1>1. ASSUME NEW m \in Nat, \A k \in Nat : k < m => k \in T
      PROVE  m \in T
  <2>1. SUFFICES ASSUME m < n, NEW x \in A, rank[x] = m
                 PROVE  g[x] = h[x]
    OBVIOUS
  <2>2. \A y \in A : rank[y] < rank[x] => g[y] = h[y]
    BY <1>1, <2>1
  <2>3. step[x][g] = step[x][h]
    BY <2>2 DEF Causal
  <2>4. g[x] = step[x][g] /\ h[x] = step[x][h]
    BY <2>1 DEF Obeys
  <2>5. QED
    BY <2>3, <2>4
<1>2. Nat \subseteq T
  <2> HIDE DEF T
  <2>1. QED
    BY <1>1, StrongInduction
<1>3. QED
  BY <1>2

LEMMA ObeysExists ==
  ASSUME NEW A, NEW S, S # {}, NEW rank \in [A -> Nat],
         NEW step \in [A -> [[A -> S] -> S]], Causal(A, S, rank, step)
  PROVE  \A n \in Nat : \E g \in [A -> S] : Obeys(A, rank, step, g, n)
<1> DEFINE T == {n \in Nat : \E g \in [A -> S] : Obeys(A, rank, step, g, n)}
<1>1. 0 \in T
  <2>1. PICK s \in S : TRUE
    OBVIOUS
  <2>2. [x \in A |-> s] \in [A -> S]
    OBVIOUS
  <2>3. Obeys(A, rank, step, [x \in A |-> s], 0)
    BY DEF Obeys
  <2>4. QED
    BY <2>2, <2>3
<1>2. ASSUME NEW n \in Nat, n \in T
      PROVE  n + 1 \in T
  <2>1. PICK g \in [A -> S] : Obeys(A, rank, step, g, n)
    BY <1>2
  <2> DEFINE h == [x \in A |-> IF rank[x] = n THEN step[x][g] ELSE g[x]]
  <2>2. h \in [A -> S]
    <3>1. \A x \in A : step[x][g] \in S
      OBVIOUS
    <3>2. QED
      BY <3>1
  <2>3. ASSUME NEW x \in A, rank[x] < n + 1
        PROVE  h[x] = step[x][h]
    <3>1. \A y \in A : rank[y] < rank[x] => g[y] = h[y]
      BY <2>3
    <3>2. step[x][g] = step[x][h]
      BY <2>2, <3>1 DEF Causal
    <3>3. h[x] = step[x][g]
      <4>1. PICK k \in Nat : k = rank[x]
        OBVIOUS
      <4>2. rank[x] < n => g[x] = step[x][g]
        BY <2>1 DEF Obeys
      <4>3. k < n + 1
        BY <2>3, <4>1
      <4>4. k < n \/ k = n
        BY <4>3
      <4>5. QED
        BY <4>1, <4>2, <4>4
    <3>4. QED
      BY <3>2, <3>3
  <2>4. Obeys(A, rank, step, h, n + 1)
    <3> HIDE DEF h
    <3>1. QED
      BY <2>3 DEF Obeys
  <2>5. QED
    <3> HIDE DEF h
    <3>1. QED
      BY <2>2, <2>4
<1>3. QED
  <2>1. Nat \subseteq T
    <3> HIDE DEF T
    <3>1. QED
      BY <1>1, <1>2, SetInduction
  <2>2. QED
    BY <2>1

\* A function that is defined by recursion along a rank exists.
LEMMA RecursionExists ==
  ASSUME NEW A, NEW S, NEW rank, NEW step, Recursion(A, S, rank, step)
  PROVE  \E f : Solution(A, S, step, f)
<1>0. /\ S # {} /\ rank \in [A -> Nat]
      /\ step \in [A -> [[A -> S] -> S]] /\ Causal(A, S, rank, step)
  BY DEF Recursion
<1> DEFINE G(n) == CHOOSE g \in [A -> S] : Obeys(A, rank, step, g, n)
           f    == [x \in A |-> G(rank[x] + 1)[x]]
<1>1. \A n \in Nat : G(n) \in [A -> S] /\ Obeys(A, rank, step, G(n), n)
  BY <1>0, ObeysExists
<1> HIDE DEF G
<1>2. f \in [A -> S]
  BY <1>0, <1>1
<1>3. ASSUME NEW x \in A
      PROVE  f[x] = step[x][f]
  <2> DEFINE n == rank[x] + 1
             g == G(n)
  <2>1. n \in Nat /\ g \in [A -> S] /\ Obeys(A, rank, step, g, n)
    BY <1>0, <1>1
  <2>2. ASSUME NEW y \in A, rank[y] < rank[x]
        PROVE  g[y] = f[y]
    <3> DEFINE m == rank[y] + 1
               h == G(m)
    <3>1. m \in Nat /\ m <= n /\ h \in [A -> S] /\ Obeys(A, rank, step, h, m)
      BY <1>0, <1>1, <2>2
    <3>2. Obeys(A, rank, step, g, m)
      <4> HIDE DEF g, n, m
      <4>1. QED
        BY <1>0, <2>1, <3>1 DEF Obeys
    <3>3. g[y] = h[y]
      <4>1. rank[y] < m
        BY <1>0
      <4> HIDE DEF g, h, m
      <4>2. QED
        BY <1>0, <2>1, <3>1, <3>2, <4>1, ObeysUnique
    <3>4. QED
      BY <3>3
  <2>3. step[x][g] = step[x][f]
    <3> HIDE DEF g, f
    <3>1. QED
      BY <1>0, <1>2, <2>1, <2>2 DEF Causal
  <2>4. g[x] = step[x][g]
    <3>1. rank[x] < n
      BY <1>0
    <3> HIDE DEF g, n
    <3>2. QED
      BY <2>1, <3>1 DEF Obeys
  <2>5. QED
    BY <2>3, <2>4
<1>4. QED
  <2> HIDE DEF f
  <2>1. Solution(A, S, step, f)
    BY <1>2, <1>3 DEF Solution
  <2>2. QED
    BY <2>1

-----------------------------------------------------------------------------
(* Sums over finite sets.                                                  *)

Pick(s) == CHOOSE x \in s : TRUE

\* The function behind SumFunction: the sum over each part of the domain.
PartSums(fun) ==
    CHOOSE iter : iter = [s \in SUBSET DOMAIN fun |->
        IF s = {} THEN 0 ELSE fun[Pick(s)] + iter[s \ {Pick(s)}]]

LEMMA SumIsPart == ASSUME NEW fun PROVE SumFunction(fun) = PartSums(fun)[DOMAIN fun]
BY DEF SumFunction, SumFunctionOnSet, FoldFunctionOnSet, MapThenFoldSet, PartSums, Pick

LEMMA PickIn == ASSUME NEW s, s # {} PROVE Pick(s) \in s
BY DEF Pick

\* The parts of a finite set, from the empty one up.
LEMMA SubsetInduction ==
  ASSUME NEW A, IsFiniteSet(A), NEW T, {} \in T,
         \A s \in SUBSET A : s # {} /\ s \ {Pick(s)} \in T => s \in T
  PROVE  SUBSET A \subseteq T
<1> DEFINE N == {n \in Nat : \A s \in SUBSET A : Cardinality(s) = n => s \in T}
<1>1. \A s \in SUBSET A : IsFiniteSet(s) /\ Cardinality(s) \in Nat
  BY FS_Subset, FS_CardinalityType
<1>2. 0 \in N
  <2>1. ASSUME NEW s \in SUBSET A, Cardinality(s) = 0
        PROVE  s = {}
    BY <1>1, <2>1, FS_EmptySet
  <2>2. QED
    BY <2>1
<1>3. ASSUME NEW n \in Nat, n \in N
      PROVE  n + 1 \in N
  <2>1. ASSUME NEW s \in SUBSET A, Cardinality(s) = n + 1
        PROVE  s \in T
    <3>1. s # {}
      BY <2>1, FS_EmptySet
    <3>2. Pick(s) \in s
      BY <3>1, PickIn
    <3>3. Cardinality(s \ {Pick(s)}) = n
      BY <1>1, <2>1, <3>2, FS_RemoveElement
    <3>4. s \ {Pick(s)} \in T
      BY <1>3, <3>3
    <3>5. QED
      BY <3>1, <3>4
  <2>2. QED
    BY <2>1
<1>4. Nat \subseteq N
  <2> HIDE DEF N
  <2>1. QED
    BY <1>2, <1>3, SetInduction
<1>5. QED
  BY <1>1, <1>4

LEMMA PartSumsEquation ==
  ASSUME NEW A, IsFiniteSet(A), NEW F \in [A -> Int]
  PROVE  /\ PartSums(F)[{}] = 0
         /\ \A s \in SUBSET A : s # {} =>
               PartSums(F)[s] = F[Pick(s)] + PartSums(F)[s \ {Pick(s)}]
<1> DEFINE D    == SUBSET A
           rank == [s \in D |-> Cardinality(s)]
           step == [s \in D |-> [g \in [D -> Int] |->
                       IF s = {} THEN 0 ELSE F[Pick(s)] + g[s \ {Pick(s)}]]]
           Eq(f) == f = [s \in D |-> IF s = {} THEN 0 ELSE F[Pick(s)] + f[s \ {Pick(s)}]]
<1>1. rank \in [D -> Nat]
  BY FS_Subset, FS_CardinalityType
<1>2. \A s \in D : s # {} => Pick(s) \in A /\ s \ {Pick(s)} \in D
  BY PickIn
<1>3. step \in [D -> [[D -> Int] -> Int]]
  <2>1. ASSUME NEW s \in D, NEW g \in [D -> Int]
        PROVE  (IF s = {} THEN 0 ELSE F[Pick(s)] + g[s \ {Pick(s)}]) \in Int
    <3>1. CASE s = {}
      BY <3>1
    <3>2. CASE s # {}
      <4>1. F[Pick(s)] \in Int /\ g[s \ {Pick(s)}] \in Int
        BY <1>2, <3>2
      <4>2. QED
        BY <3>2, <4>1
    <3>3. QED
      BY <3>1, <3>2
  <2>2. QED
    BY <2>1
<1>4. Causal(D, Int, rank, step)
  <2>1. ASSUME NEW s \in D, NEW g \in [D -> Int], NEW h \in [D -> Int],
               \A y \in D : rank[y] < rank[s] => g[y] = h[y]
        PROVE  step[s][g] = step[s][h]
    <3>1. CASE s = {}
      BY <3>1
    <3>2. CASE s # {}
      <4>1. Pick(s) \in s /\ s \ {Pick(s)} \in D
        BY <1>2, <3>2, PickIn
      <4>2. IsFiniteSet(s) /\ Cardinality(s) \in Nat
        BY FS_Subset, FS_CardinalityType
      <4>3. Cardinality(s \ {Pick(s)}) < Cardinality(s)
        <5>1. Cardinality(s \ {Pick(s)}) = Cardinality(s) - 1
          BY <4>1, <4>2, FS_RemoveElement
        <5>2. QED
          BY <4>2, <5>1
      <4>4. g[s \ {Pick(s)}] = h[s \ {Pick(s)}]
        BY <2>1, <4>1, <4>3
      <4>5. QED
        BY <3>2, <4>4
    <3>3. QED
      BY <3>1, <3>2
  <2> HIDE DEF step, rank, D
  <2>2. QED
    BY <2>1 DEF Causal
<1>5. PICK f : Solution(D, Int, step, f)
  <2>1. Int # {}
    OBVIOUS
  <2> HIDE DEF step, rank, D, Eq
  <2>2. Recursion(D, Int, rank, step)
    BY <1>1, <1>3, <1>4, <2>1, Zenon DEF Recursion
  <2>3. QED
    BY <2>2, RecursionExists
<1>6. Eq(f)
  <2>1. f \in [D -> Int] /\ \A s \in D : f[s] = step[s][f]
    BY <1>5 DEF Solution
  <2>2. \A s \in D : f[s] = IF s = {} THEN 0 ELSE F[Pick(s)] + f[s \ {Pick(s)}]
    BY <2>1
  <2>3. QED
    BY <2>1, <2>2
<1>7. Eq(PartSums(F))
  <2>1. DOMAIN F = A
    OBVIOUS
  <2>2. PartSums(F) = CHOOSE iter : Eq(iter)
    BY <2>1 DEF PartSums
  <2> HIDE DEF Eq
  <2>3. QED
    BY <1>6, <2>2
<1>8. QED
  BY <1>7

LEMMA PartSumsType ==
  ASSUME NEW A, IsFiniteSet(A), NEW F \in [A -> Int]
  PROVE  \A s \in SUBSET A : PartSums(F)[s] \in Int
<1> DEFINE T == {s \in SUBSET A : PartSums(F)[s] \in Int}
<1>1. {} \in T
  BY PartSumsEquation
<1>2. ASSUME NEW s \in SUBSET A, s # {}, s \ {Pick(s)} \in T
      PROVE  s \in T
  <2>1. F[Pick(s)] \in Int
    BY <1>2, PickIn
  <2>2. QED
    BY <1>2, <2>1, PartSumsEquation
<1>3. SUBSET A \subseteq T
  <2> HIDE DEF T
  <2>1. QED
    BY <1>1, <1>2, SubsetInduction
<1>4. QED
  BY <1>3

\* The sum over a finite domain is a number; it is 0 over the empty one.
LEMMA SumType ==
  ASSUME NEW A, IsFiniteSet(A), NEW F \in [A -> Int]
  PROVE  SumFunction(F) \in Int
<1>1. DOMAIN F = A
  OBVIOUS
<1>2. QED
  BY <1>1, SumIsPart, PartSumsType

\* Two functions that agree but at x have sums that differ by as much as they.
LEMMA SumChange ==
  ASSUME NEW A, IsFiniteSet(A), NEW F \in [A -> Int], NEW G \in [A -> Int],
         NEW x \in A, \A y \in A : y # x => G[y] = F[y]
  PROVE  SumFunction(G) = SumFunction(F) + (G[x] - F[x])
<1> DEFINE T == {s \in SUBSET A : PartSums(G)[s] =
                    PartSums(F)[s] + (IF x \in s THEN G[x] - F[x] ELSE 0)}
<1>0. \A s \in SUBSET A : PartSums(F)[s] \in Int /\ PartSums(G)[s] \in Int
  BY PartSumsType
<1>1. {} \in T
  <2>1. PartSums(F)[{}] = 0 /\ PartSums(G)[{}] = 0
    BY PartSumsEquation
  <2>2. QED
    BY <2>1
<1>2. ASSUME NEW s \in SUBSET A, s # {}, s \ {Pick(s)} \in T
      PROVE  s \in T
  <2> DEFINE p == Pick(s)
             r == s \ {p}
  <2>1. p \in s /\ p \in A /\ r \in SUBSET A
    BY <1>2, PickIn
  <2>2. /\ PartSums(F)[s] = F[p] + PartSums(F)[r]
        /\ PartSums(G)[s] = G[p] + PartSums(G)[r]
    BY <1>2, PartSumsEquation
  <2>3. PartSums(G)[r] = PartSums(F)[r] + (IF x \in r THEN G[x] - F[x] ELSE 0)
    BY <1>2
  <2>4. /\ F[p] \in Int /\ G[p] \in Int /\ F[x] \in Int /\ G[x] \in Int
        /\ PartSums(F)[r] \in Int /\ PartSums(G)[r] \in Int
    BY <1>0, <2>1
  <2>5. CASE p = x
    <3>1. x \notin r /\ x \in s
      BY <2>1, <2>5
    <3>2. PartSums(G)[s] = PartSums(F)[s] + (G[x] - F[x])
      <4> HIDE DEF r, p
      <4>1. QED
        BY <2>2, <2>3, <2>4, <2>5, <3>1
    <3>3. QED
      BY <3>1, <3>2
  <2>6. CASE p # x
    <3>1. x \in r <=> x \in s
      BY <2>6
    <3>2. G[p] = F[p]
      BY <2>1, <2>6
    <3>3. PartSums(G)[s] = PartSums(F)[s] + (IF x \in s THEN G[x] - F[x] ELSE 0)
      <4> HIDE DEF r, p
      <4>1. CASE x \in s
        BY <2>2, <2>3, <2>4, <3>1, <3>2, <4>1
      <4>2. CASE x \notin s
        BY <2>2, <2>3, <2>4, <3>1, <3>2, <4>2
      <4>3. QED
        BY <4>1, <4>2
    <3>4. QED
      BY <3>3
  <2>7. QED
    BY <2>5, <2>6
<1>3. SUBSET A \subseteq T
  <2> HIDE DEF T
  <2>1. QED
    BY <1>1, <1>2, SubsetInduction
<1>4. DOMAIN F = A /\ DOMAIN G = A
  OBVIOUS
<1>5. QED
  BY <1>3, <1>4, SumIsPart

\* A function that is 0 everywhere has the sum 0.
LEMMA SumOfZeros ==
  ASSUME NEW A, IsFiniteSet(A), NEW F \in [A -> Int], \A x \in A : F[x] = 0
  PROVE  SumFunction(F) = 0
<1> DEFINE T == {s \in SUBSET A : PartSums(F)[s] = 0}
<1>1. {} \in T
  BY PartSumsEquation
<1>2. ASSUME NEW s \in SUBSET A, s # {}, s \ {Pick(s)} \in T
      PROVE  s \in T
  <2>1. F[Pick(s)] = 0
    BY <1>2, PickIn
  <2>2. PartSums(F)[s] = F[Pick(s)] + PartSums(F)[s \ {Pick(s)}]
    BY <1>2, PartSumsEquation
  <2>3. PartSums(F)[s] = 0
    BY <1>2, <2>1, <2>2
  <2>4. QED
    BY <2>3
<1>3. SUBSET A \subseteq T
  <2> HIDE DEF T
  <2>1. QED
    BY <1>1, <1>2, SubsetInduction
<1>4. DOMAIN F = A
  OBVIOUS
<1>5. QED
  BY <1>3, <1>4, SumIsPart

-----------------------------------------------------------------------------
(* Sequences put together of words.                                        *)

\* Word w stands in d from place a on.
Stands(d, a, w) ==
    /\ a \in Nat \ {0} /\ a + Len(w) <= Len(d) + 1
    /\ \A i \in 1..Len(w) : d[a + i - 1] = w[i]

\* What FlattenSeq has put together of the first k words.
Parts(X, words, part) ==
    /\ part \in [0..Len(words) -> Seq(X)]
    /\ part[0] = <<>>
    /\ \A i \in 1..Len(words) : part[i] = part[i - 1] \o words[i]

LEMMA PartsExist ==
  ASSUME NEW X, NEW words \in Seq(Seq(X))
  PROVE  \E part : Parts(X, words, part)
<1> DEFINE Upto(k, part) == /\ part \in [0..k -> Seq(X)]
                            /\ part[0] = <<>>
                            /\ \A i \in 1..k : part[i] = part[i - 1] \o words[i]
           Q(k) == k <= Len(words) => \E part : Upto(k, part)
<1>0. Len(words) \in Nat /\ \A k \in 1..Len(words) : words[k] \in Seq(X)
  OBVIOUS
<1>1. Q(0)
  <2> DEFINE part == [k \in 0..0 |-> <<>>]
  <2>1. Upto(0, part)
    OBVIOUS
  <2>2. QED
    BY <2>1
<1>2. ASSUME NEW k \in Nat, Q(k)
      PROVE  Q(k + 1)
  <2> HIDE DEF Upto
  <2> SUFFICES ASSUME k + 1 <= Len(words)
               PROVE  \E part : Upto(k + 1, part)
    OBVIOUS
  <2>1. PICK part : Upto(k, part)
    BY <1>0, <1>2
  <2> USE DEF Upto
  <2> DEFINE next == [i \in 0..(k + 1) |-> IF i <= k THEN part[i] ELSE part[k] \o words[k + 1]]
  <2>2. words[k + 1] \in Seq(X) /\ part[k] \in Seq(X)
    BY <1>0, <2>1
  <2>3. part[k] \o words[k + 1] \in Seq(X)
    BY <2>2
  <2>4. next \in [0..(k + 1) -> Seq(X)]
    BY <2>1, <2>3
  <2>5. next[k + 1] = part[k] \o words[k + 1] /\ \A i \in 0..k : next[i] = part[i]
    <3> HIDE DEF Upto
    <3>1. /\ \A i \in 0..k : i \in 0..(k + 1) /\ i <= k
          /\ k + 1 \in 0..(k + 1) /\ ~(k + 1 <= k)
      OBVIOUS
    <3>2. QED
      BY <3>1
  <2> HIDE DEF next
  <2>6. ASSUME NEW i \in 1..(k + 1)
        PROVE  next[i] = next[i - 1] \o words[i]
    <3>1. CASE i <= k
      <4>1. i \in 1..k /\ i \in 0..k /\ i - 1 \in 0..k
        BY <3>1
      <4>2. QED
        BY <2>1, <2>5, <4>1
    <3>2. CASE ~(i <= k)
      <4>1. i = k + 1 /\ i - 1 = k /\ k \in 0..k
        BY <3>2
      <4>2. QED
        BY <2>5, <4>1
    <3>3. QED
      BY <3>1, <3>2
  <2>7. next[0] = <<>>
    BY <2>1, <2>5
  <2>8. Upto(k + 1, next)
    BY <2>4, <2>6, <2>7
  <2> HIDE DEF Upto
  <2>9. QED
    BY <2>8
<1>3. Q(Len(words))
  <2> DEFINE S == {k \in Nat : Q(k)}
  <2> HIDE DEF Q
  <2>1. 0 \in S /\ \A k \in Nat : k \in S => k + 1 \in S
    BY <1>1, <1>2
  <2> HIDE DEF S
  <2>2. Len(words) \in S
    BY <1>0, <2>1, SetInduction
  <2>3. QED
    BY <2>2 DEF S
<1>4. \E part : Upto(Len(words), part)
  <2> HIDE DEF Upto
  <2>1. QED
    BY <1>0, <1>3
<1>5. QED
  BY <1>4 DEF Parts

LEMMA FlattenIsPart ==
  ASSUME NEW X, NEW words \in Seq(Seq(X)), NEW part, Parts(X, words, part)
  PROVE  FlattenSeq(words) = part[Len(words)]
<1>1. CASE Len(words) = 0
  BY <1>1 DEF FlattenSeq, Parts
<1>2. CASE Len(words) # 0
  <2> DEFINE n == Len(words)
             Is(f) == f = [i \in 1..n |-> IF i = 1 THEN words[i] ELSE f[i - 1] \o words[i]]
             f == CHOOSE f : Is(f)
             g == [i \in 1..n |-> part[i]]
  <2>1. n \in Nat \ {0}
    BY <1>2
  <2>2. Is(g)
    <3>1. ASSUME NEW i \in 1..n
          PROVE  g[i] = IF i = 1 THEN words[i] ELSE g[i - 1] \o words[i]
      <4>1. part[i] = part[i - 1] \o words[i] /\ words[i] \in Seq(X)
        BY DEF Parts
      <4>2. CASE i = 1
        <5>1. part[i - 1] = <<>>
          BY <4>2 DEF Parts
        <5>2. QED
          BY <4>1, <4>2, <5>1
      <4>3. CASE i # 1
        <5>1. i - 1 \in 1..n
          BY <2>1, <4>3
        <5>2. g[i] = part[i] /\ g[i - 1] = part[i - 1]
          BY <5>1
        <5>3. QED
          BY <4>1, <4>3, <5>2
      <4>4. QED
        BY <4>2, <4>3
    <3>2. QED
      BY <3>1
  <2>3. Is(f)
    <3> HIDE DEF Is, g
    <3>1. QED
      BY <2>2
  <2>4. FlattenSeq(words) = f[n]
    BY <1>2 DEF FlattenSeq
  <2> HIDE DEF f
  <2>5. \A i \in 1..n : f[i] = IF i = 1 THEN words[i] ELSE f[i - 1] \o words[i]
    BY <2>3
  <2> HIDE DEF Is
  <2> DEFINE S == {k \in Nat : k + 1 <= n => f[k + 1] = part[k + 1]}
  <2>6. 0 \in S
    <3>1. f[1] = words[1]
      BY <2>1, <2>5
    <3>2. words[1] \in Seq(X) /\ part[1] = part[0] \o words[1] /\ part[0] = <<>>
      <4>1. 1 \in 1..n /\ 1 - 1 = 0
        BY <2>1
      <4>2. words[1] \in Seq(X)
        BY <4>1
      <4>3. QED
        BY <4>1, <4>2 DEF Parts
    <3>3. part[1] = words[1]
      BY <3>2
    <3>4. QED
      BY <3>1, <3>3
  <2>7. ASSUME NEW k \in Nat, k \in S
        PROVE  k + 1 \in S
    <3> SUFFICES ASSUME k + 2 <= n
                 PROVE  f[k + 2] = part[k + 2]
      BY <2>1
    <3>1. k + 2 \in 1..n /\ k + 2 # 1 /\ (k + 2) - 1 = k + 1 /\ k + 1 <= n
      BY <2>1
    <3>2. f[k + 2] = f[k + 1] \o words[k + 2]
      BY <2>5, <3>1
    <3>3. part[k + 2] = part[k + 1] \o words[k + 2]
      BY <3>1 DEF Parts
    <3>4. QED
      BY <2>7, <3>1, <3>2, <3>3
  <2>8. n - 1 \in S
    <3>1. n - 1 \in Nat
      BY <2>1
    <3> HIDE DEF S, n
    <3>2. QED
      BY <2>6, <2>7, <3>1, SetInduction
  <2>9. QED
    BY <2>1, <2>4, <2>8
<1>3. QED
  BY <1>1, <1>2

LEMMA WordAppended ==
  ASSUME NEW X, NEW u \in Seq(X), NEW v \in Seq(X)
  PROVE  /\ u \o v \in Seq(X) /\ Len(u) \in Nat /\ Len(v) \in Nat
         /\ Len(u \o v) = Len(u) + Len(v)
         /\ Stands(u \o v, Len(u) + 1, v)
<1> DEFINE d == u \o v
<1>1. /\ Len(d) = Len(u) + Len(v) /\ Len(u) \in Nat /\ Len(v) \in Nat /\ d \in Seq(X)
      /\ \A i \in 1..Len(u) : d[i] = u[i]
      /\ \A i \in 1..Len(v) : d[Len(u) + i] = v[i]
  OBVIOUS
<1> HIDE DEF d
<1>2. \A i \in 1..Len(v) : Len(u) + 1 + i - 1 = Len(u) + i
  BY <1>1
<1>3. Stands(d, Len(u) + 1, v)
  BY <1>1, <1>2 DEF Stands
<1>4. QED
  BY <1>1, <1>3 DEF d

LEMMA WordKept ==
  ASSUME NEW X, NEW u \in Seq(X), NEW v \in Seq(X),
         NEW a, NEW w, Len(w) \in Nat, Stands(u, a, w)
  PROVE  Stands(u \o v, a, w)
<1> DEFINE d == u \o v
<1>1. /\ Len(d) = Len(u) + Len(v) /\ Len(u) \in Nat /\ Len(v) \in Nat
      /\ \A i \in 1..Len(u) : d[i] = u[i]
  OBVIOUS
<1> HIDE DEF d
<1>2. a \in Nat \ {0} /\ a + Len(w) <= Len(u) + 1 /\ \A i \in 1..Len(w) : u[a + i - 1] = w[i]
  BY DEF Stands
<1>3. \A i \in 1..Len(w) : a + i - 1 \in 1..Len(u)
  BY <1>1, <1>2
<1>4. \A i \in 1..Len(w) : d[a + i - 1] = w[i]
  BY <1>1, <1>2, <1>3
<1>5. a + Len(w) <= Len(d) + 1
  BY <1>1, <1>2
<1>6. Stands(d, a, w)
  BY <1>2, <1>4, <1>5 DEF Stands
<1>7. QED
  BY <1>6 DEF d

\* A word that stands in a word stands where that one stands.
LEMMA WordInside ==
  ASSUME NEW d, Len(d) \in Nat, NEW w, Len(w) \in Nat, NEW v, Len(v) \in Nat,
         NEW a, NEW b, Stands(d, a, w), Stands(w, b, v)
  PROVE  Stands(d, a + b - 1, v)
<1>1. a \in Nat \ {0} /\ b \in Nat \ {0} /\ a + Len(w) <= Len(d) + 1 /\ b + Len(v) <= Len(w) + 1
  BY DEF Stands
<1>2. ASSUME NEW i \in 1..Len(v)
      PROVE  d[a + b - 1 + i - 1] = v[i]
  <2>1. b + i - 1 \in 1..Len(w) /\ a + (b + i - 1) - 1 = a + b - 1 + i - 1
    BY <1>1
  <2>2. d[a + (b + i - 1) - 1] = w[b + i - 1] /\ w[b + i - 1] = v[i]
    BY <2>1 DEF Stands
  <2>3. QED
    BY <2>1, <2>2
<1>3. QED
  BY <1>1, <1>2 DEF Stands

\* Of two words put together each stands where they do.
LEMMA WordParts ==
  ASSUME NEW X, NEW u \in Seq(X), NEW v \in Seq(X), NEW d, Len(d) \in Nat, NEW a,
         Stands(d, a, u \o v)
  PROVE  Stands(d, a, u) /\ Stands(d, a + Len(u), v)
<1> DEFINE w == u \o v
<1>1. /\ Len(w) = Len(u) + Len(v) /\ Len(u) \in Nat /\ Len(v) \in Nat
      /\ \A i \in 1..Len(u) : w[i] = u[i]
      /\ \A i \in 1..Len(v) : w[Len(u) + i] = v[i]
  OBVIOUS
<1> HIDE DEF w
<1>2. /\ a \in Nat \ {0} /\ a + Len(w) <= Len(d) + 1
      /\ \A i \in 1..Len(w) : d[a + i - 1] = w[i]
  BY DEF Stands, w
<1>3. \A i \in 1..Len(u) : d[a + i - 1] = u[i]
  BY <1>1, <1>2
<1>4. ASSUME NEW i \in 1..Len(v)
      PROVE  d[a + Len(u) + i - 1] = v[i]
  <2>1. Len(u) + i \in 1..Len(w) /\ a + (Len(u) + i) - 1 = a + Len(u) + i - 1
    BY <1>1, <1>2
  <2>2. QED
    BY <1>1, <1>2, <2>1
<1>5. QED
  BY <1>1, <1>2, <1>3, <1>4 DEF Stands

\* The words stand in what they are flattened to, one behind the other.
LEMMA WordsStand ==
  ASSUME NEW X, NEW words \in Seq(Seq(X))
  PROVE  \E at \in [1..(Len(words) + 1) -> Nat \ {0}] :
            /\ at[1] = 1
            /\ \A i \in 1..Len(words) :
                  at[i + 1] = at[i] + Len(words[i]) /\ Stands(FlattenSeq(words), at[i], words[i])
            /\ FlattenSeq(words) \in Seq(X)
            /\ Len(FlattenSeq(words)) = at[Len(words) + 1] - 1
<1>1. PICK part : Parts(X, words, part)
  BY PartsExist
<1>2. /\ Len(words) \in Nat /\ FlattenSeq(words) = part[Len(words)]
      /\ \A i \in 1..Len(words) : words[i] \in Seq(X) /\ Len(words[i]) \in Nat
  BY <1>1, FlattenIsPart
<1>3. PICK n \in Nat : n = Len(words)
  BY <1>2
<1>4. \A i \in 0..n : part[i] \in Seq(X) /\ Len(part[i]) \in Nat
  BY <1>1, <1>3 DEF Parts
<1>5. PICK at \in [1..(n + 1) -> Nat \ {0}] : \A i \in 1..(n + 1) : at[i] = Len(part[i - 1]) + 1
  <2> DEFINE f == [i \in 1..(n + 1) |-> Len(part[i - 1]) + 1]
  <2>1. \A i \in 1..(n + 1) : i - 1 \in 0..n
    OBVIOUS
  <2>2. f \in [1..(n + 1) -> Nat \ {0}]
    BY <1>4, <2>1
  <2>3. QED
    BY <2>2
<1>6. at[1] = 1
  <2>1. 1 \in 1..(n + 1) /\ 1 - 1 = 0 /\ part[0] = <<>> /\ Len(<<>>) = 0
    BY <1>1 DEF Parts
  <2>2. QED
    BY <1>5, <2>1
<1>7. ASSUME NEW i \in 1..n
      PROVE  /\ part[i] = part[i - 1] \o words[i] /\ part[i - 1] \in Seq(X)
             /\ words[i] \in Seq(X) /\ Len(words[i]) \in Nat
             /\ at[i] = Len(part[i - 1]) + 1
             /\ at[i + 1] = at[i] + Len(words[i])
             /\ Stands(part[i], at[i], words[i])
  <2>1. i - 1 \in 0..n /\ i \in 0..n /\ i \in 1..(n + 1) /\ i + 1 \in 1..(n + 1) /\ (i + 1) - 1 = i
    OBVIOUS
  <2>2. part[i] = part[i - 1] \o words[i]
    BY <1>1, <1>3 DEF Parts
  <2>3. part[i - 1] \in Seq(X) /\ words[i] \in Seq(X) /\ Len(words[i]) \in Nat
    BY <1>2, <1>3, <1>4, <2>1
  <2>4. at[i] = Len(part[i - 1]) + 1 /\ at[i + 1] = Len(part[i]) + 1
    BY <1>5, <2>1
  <2>5. /\ Len(part[i]) = Len(part[i - 1]) + Len(words[i])
        /\ Stands(part[i], Len(part[i - 1]) + 1, words[i])
    BY <2>2, <2>3, WordAppended
  <2>6. Len(part[i - 1]) \in Nat
    BY <1>4, <2>1
  <2>7. at[i + 1] = at[i] + Len(words[i])
    <3> DEFINE a == Len(part[i - 1])
               b == Len(words[i])
    <3>1. a \in Nat /\ b \in Nat /\ at[i] = a + 1 /\ at[i + 1] = (a + b) + 1
      BY <2>3, <2>4, <2>5, <2>6, Zenon
    <3> HIDE DEF a, b
    <3>2. at[i + 1] = at[i] + b
      BY <3>1
    <3>3. QED
      BY <3>2 DEF b
  <2>8. Stands(part[i], at[i], words[i])
    BY <2>4, <2>5
  <2>9. QED
    BY <2>2, <2>3, <2>4, <2>7, <2>8
<1> DEFINE Q(k) == k <= n => \A i \in 1..k : Stands(part[k], at[i], words[i])
<1>8. Q(0)
  OBVIOUS
<1>9. ASSUME NEW k \in Nat, Q(k)
      PROVE  Q(k + 1)
  <2> SUFFICES ASSUME k + 1 <= n, NEW i \in 1..(k + 1)
               PROVE  Stands(part[k + 1], at[i], words[i])
    OBVIOUS
  <2>1. k + 1 \in 1..n /\ (k + 1) - 1 = k
    OBVIOUS
  <2>2. part[k + 1] = part[k] \o words[k + 1] /\ words[k + 1] \in Seq(X) /\ part[k] \in Seq(X)
    BY <1>7, <2>1
  <2>3. CASE i = k + 1
    BY <1>7, <2>1, <2>3
  <2>4. CASE i # k + 1
    <3>1. i \in 1..k /\ i \in 1..n
      BY <2>1, <2>4
    <3>2. Stands(part[k], at[i], words[i]) /\ Len(words[i]) \in Nat
      BY <1>7, <1>9, <2>1, <3>1
    <3>3. QED
      <4>1. Stands(part[k] \o words[k + 1], at[i], words[i])
        BY <2>2, <3>2, WordKept
      <4>2. QED
        BY <2>2, <4>1
  <2>5. QED
    BY <2>3, <2>4
<1>10. Q(n)
  <2> DEFINE S == {k \in Nat : Q(k)}
  <2> HIDE DEF Q
  <2>1. 0 \in S /\ \A k \in Nat : k \in S => k + 1 \in S
    BY <1>8, <1>9
  <2> HIDE DEF S
  <2>2. n \in S
    BY <2>1, SetInduction
  <2>3. QED
    BY <2>2 DEF S
<1>11. \A i \in 1..n : Stands(FlattenSeq(words), at[i], words[i])
  BY <1>2, <1>3, <1>10
<1>12. at[n + 1] = Len(part[n]) + 1 /\ part[n] \in Seq(X) /\ Len(part[n]) \in Nat
  BY <1>4, <1>5
<1>13. Len(FlattenSeq(words)) = at[n + 1] - 1 /\ FlattenSeq(words) \in Seq(X)
  BY <1>2, <1>3, <1>12
<1>14. QED
  BY <1>3, <1>6, <1>7, <1>11, <1>13

\* A word behind the others, and no words.
LEMMA FlattenAppended ==
  ASSUME NEW X, NEW words \in Seq(Seq(X)), NEW w \in Seq(X)
  PROVE  /\ FlattenSeq(words) \in Seq(X)
         /\ FlattenSeq(Append(words, w)) = FlattenSeq(words) \o w
<1> DEFINE n == Len(words)
           more == Append(words, w)
<1>1. PICK part : Parts(X, words, part)
  BY PartsExist
<1>2. /\ n \in Nat /\ more \in Seq(Seq(X)) /\ Len(more) = n + 1
      /\ \A i \in 1..n : more[i] = words[i]
      /\ more[n + 1] = w
  BY AppendProperties
<1> DEFINE longer == [k \in 0..(n + 1) |-> IF k <= n THEN part[k] ELSE part[n] \o w]
<1> HIDE DEF more
<1>3. part[n] \in Seq(X) /\ FlattenSeq(words) = part[n]
  <2>1. FlattenSeq(words) = part[n]
    BY <1>1, FlattenIsPart
  <2>2. n \in 0..n /\ part \in [0..n -> Seq(X)]
    BY <1>1, <1>2 DEF Parts
  <2>3. QED
    BY <2>1, <2>2
<1>4. longer[n + 1] = part[n] \o w /\ part[n] \o w \in Seq(X)
  BY <1>2, <1>3
<1>5. Parts(X, more, longer)
  <2>1. longer \in [0..(n + 1) -> Seq(X)]
    BY <1>1, <1>2, <1>4 DEF Parts
  <2>2. longer[0] = <<>>
    BY <1>1, <1>2 DEF Parts
  <2>3. ASSUME NEW i \in 1..(n + 1)
        PROVE  longer[i] = longer[i - 1] \o more[i]
    <3>1. i - 1 \in 0..(n + 1) /\ i - 1 <= n /\ longer[i - 1] = part[i - 1]
      BY <1>2
    <3>2. CASE i = n + 1
      <4>1. longer[i] = part[n] \o w /\ i - 1 = n /\ more[i] = w
        BY <1>2, <1>4, <3>2
      <4>2. QED
        BY <3>1, <4>1
    <3>3. CASE i # n + 1
      <4>1. i \in 1..n /\ longer[i] = part[i]
        BY <1>2, <3>3
      <4>2. QED
        BY <1>1, <1>2, <3>1, <4>1 DEF Parts
    <3>4. QED
      BY <3>2, <3>3
  <2> HIDE DEF longer, n
  <2>4. QED
    BY <1>2, <2>1, <2>2, <2>3 DEF Parts
<1>6. FlattenSeq(more) = longer[n + 1]
  <2> HIDE DEF longer, n
  <2>1. QED
    BY <1>2, <1>5, FlattenIsPart
<1>7. QED
  BY <1>3, <1>4, <1>6 DEF more

LEMMA FlattenNone == FlattenSeq(<<>>) = <<>>
BY DEF FlattenSeq

\* A word is the part of the data where it stands.
LEMMA WordIsPart ==
  ASSUME NEW X, NEW d \in Seq(X), NEW Y, NEW w \in Seq(Y), NEW a, Stands(d, a, w)
  PROVE  SubSeq(d, a, a + Len(w) - 1) = w
<1> DEFINE n == Len(w)
           b == a + n - 1
<1>1. /\ a \in Nat \ {0} /\ n \in Nat /\ Len(d) \in Nat /\ a + n <= Len(d) + 1
      /\ \A i \in 1..n : d[a + i - 1] = w[i]
  BY DEF Stands
<1>2. b - a + 1 = n /\ a \in Int /\ b \in Int /\ (a <= b <=> n # 0)
  BY <1>1
<1>3. \A i \in a..b : d[i] \in X
  BY <1>1
<1>4. SubSeq(d, a, b) \in Seq(X) /\ Len(SubSeq(d, a, b)) = n
      /\ \A i \in 1..n : SubSeq(d, a, b)[i] = d[a + i - 1]
  BY <1>1, <1>2, <1>3, SubSeqProperties
<1> DEFINE v == SubSeq(d, a, b)
<1> HIDE DEF v, b
<1>5. \A i \in 1..n : v[i] = w[i]
  BY <1>1, <1>4 DEF v
<1>6. v \in Seq(X \cup Y) /\ w \in Seq(X \cup Y) /\ Len(v) = n
  <2>1. v \in Seq(X) /\ Len(v) = n
    BY <1>4 DEF v
  <2>2. QED
    BY <2>1, SeqMonotonic
<1>7. v = w
  <2> DEFINE Z == X \cup Y
  <2>1. v \in Seq(Z) /\ w \in Seq(Z) /\ Len(v) = Len(w) /\ \A i \in 1..Len(v) : v[i] = w[i]
    BY <1>5, <1>6
  <2> HIDE DEF Z, n
  <2>2. QED
    BY <2>1, SeqEqual
<1>8. QED
  BY <1>7 DEF v, b

\* Two functions that go on alike are alike.
LEMMA GoOnAlike ==
  ASSUME NEW n \in Nat, NEW f, NEW g, f[0] = g[0],
         \A i \in 1..n : f[i - 1] = g[i - 1] => f[i] = g[i]
  PROVE  f[n] = g[n]
<1> DEFINE Q(k) == k <= n => f[k] = g[k]
           S    == {k \in Nat : Q(k)}
<1>1. Q(0)
  OBVIOUS
<1>2. ASSUME NEW k \in Nat, Q(k)
      PROVE  Q(k + 1)
  <2> SUFFICES ASSUME k + 1 <= n
               PROVE  f[k + 1] = g[k + 1]
    OBVIOUS
  <2>1. k + 1 \in 1..n /\ (k + 1) - 1 = k
    OBVIOUS
  <2>2. QED
    BY <1>2, <2>1
<1> HIDE DEF Q
<1>3. 0 \in S /\ \A k \in Nat : k \in S => k + 1 \in S
  BY <1>1, <1>2
<1> HIDE DEF S
<1>4. n \in S
  BY <1>3, SetInduction
<1>5. QED
  BY <1>4 DEF S, Q


-----------------------------------------------------------------------------
(* Sequences of anything.                                                  *)

IsSeq(s) == s \in Seq(Range(s))

LEMMA SeqDomain == ASSUME NEW s, IsSeq(s) PROVE Len(s) \in Nat /\ DOMAIN s = 1..Len(s)
BY DEF IsSeq

LEMMA SeqIsSeq == ASSUME NEW U, NEW s \in Seq(U) PROVE IsSeq(s)
<1>1. s = [i \in 1..Len(s) |-> s[i]] /\ Len(s) \in Nat
  OBVIOUS
<1>2. \A i \in 1..Len(s) : s[i] \in Range(s)
  BY DEF Range
<1> DEFINE R == Range(s)
<1> HIDE DEF R
<1>3. \A i \in 1..Len(s) : s[i] \in R
  BY <1>2 DEF R
<1>4. s \in Seq(R)
  BY <1>1, <1>3
<1>5. QED
  BY <1>4 DEF IsSeq, R

LEMMA AppendAny ==
  ASSUME NEW s, IsSeq(s), NEW e
  PROVE  /\ IsSeq(Append(s, e))
         /\ Len(s) \in Nat /\ DOMAIN s = 1..Len(s)
         /\ Len(Append(s, e)) = Len(s) + 1
         /\ DOMAIN Append(s, e) = 1..(Len(s) + 1)
         /\ \A i \in DOMAIN s : Append(s, e)[i] = s[i]
         /\ Append(s, e)[Len(s) + 1] = e
<1> DEFINE S == Range(s) \cup {e}
           t == Append(s, e)
<1>1. s \in Seq(S)
  BY SeqMonotonic DEF IsSeq
<1>2. e \in S
  OBVIOUS
<1> HIDE DEF S
<1>3. /\ t \in Seq(S) /\ Len(s) \in Nat /\ DOMAIN s = 1..Len(s)
      /\ Len(t) = Len(s) + 1 /\ DOMAIN t = 1..(Len(s) + 1)
      /\ \A i \in DOMAIN s : t[i] = s[i]
      /\ t[Len(s) + 1] = e
  BY <1>1, <1>2
<1>4. S = Range(t)
  BY <1>3 DEF Range, S
<1>5. QED
  BY <1>3, <1>4 DEF IsSeq

LEMMA ConcatAny ==
  ASSUME NEW s, IsSeq(s), NEW t, IsSeq(t)
  PROVE  /\ IsSeq(s \o t)
         /\ Len(s) \in Nat /\ DOMAIN s = 1..Len(s)
         /\ Len(t) \in Nat /\ DOMAIN t = 1..Len(t)
         /\ Len(s \o t) = Len(s) + Len(t) /\ DOMAIN (s \o t) = 1..(Len(s) + Len(t))
         /\ \A i \in 1..Len(s) : (s \o t)[i] = s[i]
         /\ \A i \in 1..Len(t) : (s \o t)[Len(s) + i] = t[i]
<1> DEFINE S == Range(s) \cup Range(t)
           u == s \o t
<1>1. s \in Seq(S) /\ t \in Seq(S)
  BY SeqMonotonic DEF IsSeq
<1> HIDE DEF S
<1>2. /\ Len(s) \in Nat /\ DOMAIN s = 1..Len(s)
      /\ Len(t) \in Nat /\ DOMAIN t = 1..Len(t)
  BY <1>1, LenProperties
<1>3. /\ u \in Seq(S) /\ Len(u) = Len(s) + Len(t)
      /\ \A i \in 1..(Len(s) + Len(t)) : u[i] = IF i <= Len(s) THEN s[i] ELSE t[i - Len(s)]
  BY <1>1, ConcatProperties
<1> HIDE DEF u
<1>4. DOMAIN u = 1..Len(u)
  BY <1>3, LenProperties
<1>5. /\ \A i \in 1..Len(s) : u[i] = s[i]
      /\ \A i \in 1..Len(t) : u[Len(s) + i] = t[i]
  BY <1>2, <1>3
<1>6. u \in Seq(Range(u))
  <2>1. \A i \in 1..Len(u) : u[i] \in Range(u)
    BY <1>4 DEF Range
  <2>2. Len(u) \in Nat /\ u \in [1..Len(u) -> Range(u)]
    BY <1>2, <1>3, <1>4, <2>1, LenProperties
  <2>3. QED
    BY <2>2
<1>7. QED
  BY <1>2, <1>3, <1>4, <1>5, <1>6 DEF u, IsSeq

-----------------------------------------------------------------------------
(* Short sequences.                                                        *)

\* The part of a sequence up to i, one longer.
LEMMA PartGrows ==
  ASSUME NEW X, NEW s \in Seq(X), NEW i \in 1..Len(s)
  PROVE  /\ Append(SubSeq(s, 1, i - 1), s[i]) = SubSeq(s, 1, i)
         /\ SubSeq(s, 1, 0) = <<>> /\ SubSeq(s, 1, Len(s)) = s
         /\ SubSeq(s, 1, i - 1) \in Seq(X)
OBVIOUS

LEMMA LastAppended ==
  ASSUME NEW X, NEW s \in Seq(X), NEW v
  PROVE  Last(Append(s, v)) = v
<1>1. /\ Len(Append(s, v)) = Len(s) + 1
      /\ Append(s, v)[Len(s) + 1] = v
  OBVIOUS
<1>2. QED
  BY <1>1 DEF Last

LEMMA GotOne ==
  ASSUME NEW x
  PROVE  Append(<<>>, x) = <<x>> /\ Len(<<x>>) = 1 /\ <<x>>[1] = x /\ Last(<<x>>) = x
BY DEF Last

LEMMA AppendTwo ==
  ASSUME NEW x, NEW y
  PROVE  Append(<<x>>, y) = <<x, y>>
<1> DEFINE s == Append(<<x>>, y)
           t == <<x, y>>
<1>1. s \in Seq({x, y}) /\ t \in Seq({x, y})
  OBVIOUS
<1>2. Len(s) = 2 /\ s[1] = x /\ s[2] = y /\ Len(t) = 2 /\ t[1] = x /\ t[2] = y
  OBVIOUS
<1> HIDE DEF s, t
<1>3. \A i \in 1..Len(s) : s[i] = t[i]
  BY <1>2
<1>4. s = t
  BY <1>1, <1>2, <1>3, SeqEqual
<1>5. QED
  BY <1>4 DEF s, t

LEMMA AppendThree ==
  ASSUME NEW x, NEW y, NEW z
  PROVE  Append(<<x, y>>, z) = <<x, y, z>>
<1> DEFINE s == Append(<<x, y>>, z)
           t == <<x, y, z>>
<1>1. s \in Seq({x, y, z}) /\ t \in Seq({x, y, z})
  OBVIOUS
<1>2. Len(s) = 3 /\ s[1] = x /\ s[2] = y /\ s[3] = z /\ Len(t) = 3 /\ t[1] = x /\ t[2] = y /\ t[3] = z
  OBVIOUS
<1> HIDE DEF s, t
<1>3. \A i \in 1..Len(s) : s[i] = t[i]
  BY <1>2
<1>4. s = t
  BY <1>1, <1>2, <1>3, SeqEqual
<1>5. QED
  BY <1>4 DEF s, t

LEMMA ConcatTwo ==
  ASSUME NEW x, NEW y, NEW z, NEW w
  PROVE  <<x, y>> \o <<z, w>> = <<x, y, z, w>>
<1> DEFINE s == <<x, y>> \o <<z, w>>
           t == <<x, y, z, w>>
<1>1. s \in Seq({x, y, z, w}) /\ t \in Seq({x, y, z, w})
  OBVIOUS
<1>2. Len(s) = 4 /\ s[1] = x /\ s[2] = y /\ s[3] = z /\ s[4] = w /\ Len(t) = 4 /\ t[1] = x /\ t[2] = y /\ t[3] = z /\ t[4] = w
  OBVIOUS
<1> HIDE DEF s, t
<1>3. \A i \in 1..Len(s) : s[i] = t[i]
  BY <1>2
<1>4. s = t
  BY <1>1, <1>2, <1>3, SeqEqual
<1>5. QED
  BY <1>4 DEF s, t

\* The fields of a word stand one by one.
LEMMA OneStands ==
  ASSUME NEW d, Len(d) \in Nat, NEW a, NEW x, Stands(d, a, <<x>>)
  PROVE  a \in 1..Len(d) /\ d[a] = x
<1>1. a \in Nat \ {0} /\ a + 1 <= Len(d) + 1 /\ \A i \in 1..1 : d[a + i - 1] = <<x>>[i]
  BY DEF Stands
<1>2. d[a + 1 - 1] = x /\ a + 1 - 1 = a
  BY <1>1
<1>3. QED
  BY <1>1, <1>2

LEMMA TwoStand ==
  ASSUME NEW d, Len(d) \in Nat, NEW a, NEW x, NEW y, Stands(d, a, <<x, y>>)
  PROVE  /\ a \in 1..Len(d) /\ a + 1 \in 1..Len(d)
         /\ d[a] = x /\ d[a + 1] = y
<1>1. /\ a \in Nat \ {0} /\ a + 2 <= Len(d) + 1
      /\ \A i \in 1..2 : d[a + i - 1] = <<x, y>>[i]
  BY DEF Stands
<1>2. d[a + 1 - 1] = x /\ d[a + 2 - 1] = y /\ a + 2 - 1 = a + 1 /\ a + 1 - 1 = a
  BY <1>1
<1>3. QED
  BY <1>1, <1>2

LEMMA ThreeStand ==
  ASSUME NEW d, Len(d) \in Nat, NEW a, NEW x, NEW y, NEW z, Stands(d, a, <<x, y, z>>)
  PROVE  /\ a \in 1..Len(d) /\ a + 1 \in 1..Len(d) /\ a + 2 \in 1..Len(d)
         /\ d[a] = x /\ d[a + 1] = y /\ d[a + 2] = z
<1>1. /\ a \in Nat \ {0} /\ a + 3 <= Len(d) + 1
      /\ \A i \in 1..3 : d[a + i - 1] = <<x, y, z>>[i]
  BY DEF Stands
<1>2. /\ d[a + 1 - 1] = x /\ d[a + 2 - 1] = y /\ d[a + 3 - 1] = z
      /\ a + 1 - 1 = a /\ a + 2 - 1 = a + 1 /\ a + 3 - 1 = a + 2
  BY <1>1
<1>3. QED
  BY <1>1, <1>2

LEMMA FourStand ==
  ASSUME NEW d, Len(d) \in Nat, NEW a, NEW x, NEW y, NEW z, NEW w, Stands(d, a, <<x, y, z, w>>)
  PROVE  /\ a \in 1..Len(d) /\ a + 1 \in 1..Len(d) /\ a + 2 \in 1..Len(d) /\ a + 3 \in 1..Len(d)
         /\ d[a] = x /\ d[a + 1] = y /\ d[a + 2] = z /\ d[a + 3] = w
<1>1. /\ a \in Nat \ {0} /\ a + 4 <= Len(d) + 1
      /\ \A i \in 1..4 : d[a + i - 1] = <<x, y, z, w>>[i]
  BY DEF Stands
<1>2. /\ d[a + 1 - 1] = x /\ d[a + 2 - 1] = y /\ d[a + 3 - 1] = z /\ d[a + 4 - 1] = w
      /\ a + 1 - 1 = a /\ a + 2 - 1 = a + 1 /\ a + 3 - 1 = a + 2 /\ a + 4 - 1 = a + 3
  BY <1>1
<1>3. QED
  BY <1>1, <1>2

-----------------------------------------------------------------------------
(* Folds over sequences: FoldLeft is a recursion over the parts of the      *)
(* domain of a sequence that takes the largest index of a part last.        *)

LEMMA MaxOfPart ==
  ASSUME NEW n \in Nat, NEW s \in SUBSET (1..n), s # {}
  PROVE  /\ Max(s) \in s /\ Max(s) \in 1..n
         /\ \A y \in s : y <= Max(s)
         /\ s \ {Max(s)} \in SUBSET (1..n)
<1>1. Max(s) \in s /\ \A y \in s : Max(s) >= y
  BY GreatestNumber
<1>2. QED
  BY <1>1

\* The parts of 1..n, from the empty one up.
LEMMA PartsFromBelow ==
  ASSUME NEW n \in Nat, NEW P, {} \in P,
         \A s \in SUBSET (1..n) : s # {} /\ s \ {Max(s)} \in P => s \in P
  PROVE  SUBSET (1..n) \subseteq P
<1> DEFINE N == {k \in Nat : k <= n => \A s \in SUBSET (1..k) : s \in P}
<1>1. 0 \in N
  <2>1. \A s \in SUBSET (1..0) : s = {}
    OBVIOUS
  <2>2. QED
    BY <2>1
<1>2. ASSUME NEW k \in Nat, k \in N
      PROVE  k + 1 \in N
  <2>1. ASSUME k + 1 <= n, NEW s \in SUBSET (1..(k + 1)), s # {}
        PROVE  s \in P
    <3>1. k + 1 \in Nat /\ s \in SUBSET (1..n) /\ k <= n
      BY <2>1
    <3>2. PICK m : m = Max(s)
      OBVIOUS
    <3>3. m \in s /\ m \in 1..(k + 1) /\ \A y \in s : y <= m
      BY <2>1, <3>1, <3>2, MaxOfPart
    <3>4. s \ {m} \in SUBSET (1..k)
      <4>1. \A y \in s \ {m} : y \in 1..(k + 1) /\ y <= m /\ y # m
        BY <2>1, <3>3
      <4>2. \A y \in s \ {m} : y \in 1..k
        BY <3>3, <4>1
      <4>3. QED
        BY <4>2
    <3>5. s \ {m} \in P
      BY <1>2, <3>1, <3>4
    <3>6. QED
      BY <2>1, <3>1, <3>2, <3>5
  <2>2. ASSUME k + 1 <= n
        PROVE  \A s \in SUBSET (1..(k + 1)) : s \in P
    BY <2>1, <2>2
  <2>3. QED
    BY <2>2
<1>3. Nat \subseteq N
  <2> HIDE DEF N
  <2>1. QED
    BY <1>1, <1>2, SetInduction
<1>4. QED
  BY <1>3

\* The parts that a fold from the left goes through.
LEMMA InitialPart ==
  ASSUME NEW n \in Nat, NEW i \in 1..n
  PROVE  /\ 1..i \in SUBSET (1..n) /\ 1..i # {} /\ Max(1..i) = i
         /\ (1..i) \ {Max(1..i)} = 1..(i - 1)
         /\ i - 1 \in 0..n
<1>1. 1..i \in SUBSET (1..n) /\ i \in 1..i /\ i - 1 \in 0..n
  OBVIOUS
<1>2. Max(1..i) \in 1..i /\ \A y \in 1..i : y <= Max(1..i)
  BY <1>1, MaxOfPart
<1> DEFINE m == Max(1..i)
<1> HIDE DEF m
<1>3. m = i
  BY <1>1, <1>2 DEF m
<1>4. (1..i) \ {i} = 1..(i - 1)
  OBVIOUS
<1>5. QED
  BY <1>1, <1>3, <1>4 DEF m

\* f[s] is what the elements at the indices in s make of base.
Folds(f, n, T, base, step) ==
    /\ f \in [SUBSET (1..n) -> T]
    /\ f[{}] = base
    /\ \A s \in SUBSET (1..n) : s # {} => f[s] = step[Max(s)][f[s \ {Max(s)}]]

LEMMA FoldExists ==
  ASSUME NEW n \in Nat, NEW T, NEW base \in T, NEW step \in [1..n -> [T -> T]]
  PROVE  \E f : Folds(f, n, T, base, step)
<1> DEFINE D    == SUBSET (1..n)
           rank == [s \in D |-> IF s = {} THEN 0 ELSE Max(s)]
           go   == [s \in D |-> [g \in [D -> T] |->
                       IF s = {} THEN base ELSE step[Max(s)][g[s \ {Max(s)}]]]]
<1>1. \A s \in D : s # {} => Max(s) \in 1..n /\ s \ {Max(s)} \in D
  BY MaxOfPart
<1>2. rank \in [D -> Nat]
  BY <1>1
<1>3. go \in [D -> [[D -> T] -> T]]
  <2>1. ASSUME NEW s \in D, NEW g \in [D -> T]
        PROVE  (IF s = {} THEN base ELSE step[Max(s)][g[s \ {Max(s)}]]) \in T
    <3>1. CASE s = {}
      BY <3>1
    <3>2. CASE s # {}
      <4>1. step[Max(s)] \in [T -> T] /\ g[s \ {Max(s)}] \in T
        BY <1>1, <3>2
      <4>2. QED
        BY <3>2, <4>1
    <3>3. QED
      BY <3>1, <3>2
  <2>2. QED
    BY <2>1
<1>4. Causal(D, T, rank, go)
  <2>1. ASSUME NEW s \in D, NEW g \in [D -> T], NEW h \in [D -> T],
               \A y \in D : rank[y] < rank[s] => g[y] = h[y]
        PROVE  go[s][g] = go[s][h]
    <3>1. CASE s = {}
      BY <3>1
    <3>2. CASE s # {}
      <4> DEFINE r == s \ {Max(s)}
      <4>1. r \in D /\ Max(s) \in 1..n /\ \A y \in r : y < Max(s)
        BY <3>2, MaxOfPart
      <4>2. rank[r] < rank[s]
        <5>1. CASE r = {}
          BY <3>2, <4>1, <5>1
        <5>2. CASE r # {}
          <6>1. Max(r) \in r
            BY <4>1, <5>2, MaxOfPart
          <6> HIDE DEF r
          <6>2. QED
            BY <3>2, <4>1, <5>2, <6>1
        <5>3. QED
          BY <5>1, <5>2
      <4>3. g[r] = h[r]
        BY <2>1, <4>1, <4>2
      <4>4. QED
        BY <3>2, <4>3
    <3>3. QED
      BY <3>1, <3>2
  <2> HIDE DEF go, rank, D
  <2>2. QED
    BY <2>1 DEF Causal
<1>5. PICK f : Solution(D, T, go, f)
  <2> HIDE DEF go, rank, D
  <2>1. T # {}
    OBVIOUS
  <2>2. Recursion(D, T, rank, go)
    BY <1>2, <1>3, <1>4, <2>1, Zenon DEF Recursion
  <2>3. QED
    BY <2>2, RecursionExists
<1>6. f \in [D -> T] /\ \A s \in D : f[s] = go[s][f]
  BY <1>5 DEF Solution
<1>7. f[{}] = base /\ \A s \in D : s # {} => f[s] = step[Max(s)][f[s \ {Max(s)}]]
  BY <1>6
<1>8. QED
  BY <1>6, <1>7 DEF Folds

\* parts makes of base what the steps make of it, where they can be taken.
Unfolds(parts, n, T, base, step) ==
    /\ parts[{}] = base
    /\ \A s \in SUBSET (1..n) :
          s # {} /\ parts[s \ {Max(s)}] \in T => parts[s] = step[Max(s)][parts[s \ {Max(s)}]]

\* g is what base has become after each of the steps.
Steps(g, n, T, base, step) ==
    /\ g \in [0..n -> T] /\ g[0] = base
    /\ \A c \in 1..n : g[c - 1] \in T /\ g[c] = step[c][g[c - 1]]

\* A fold goes through the elements one by one: parts is the function behind it.
LEMMA FoldSteps ==
  ASSUME NEW n \in Nat, NEW T, NEW base \in T, NEW step \in [1..n -> [T -> T]],
         NEW parts, Unfolds(parts, n, T, base, step)
  PROVE  \E g : Steps(g, n, T, base, step) /\ parts[1..n] = g[n]
<1> DEFINE g == [c \in 0..n |-> parts[1..c]]
<1>1. g[0] = base
  <2>1. 1..0 = {} /\ 0 \in 0..n
    OBVIOUS
  <2>2. QED
    BY <2>1 DEF Unfolds
<1>2. ASSUME NEW c \in 1..n, g[c - 1] \in T
      PROVE  g[c] = step[c][g[c - 1]]
  <2>1. /\ 1..c \in SUBSET (1..n) /\ 1..c # {} /\ Max(1..c) = c
        /\ (1..c) \ {Max(1..c)} = 1..(c - 1) /\ c - 1 \in 0..n
    BY InitialPart
  <2>2. g[c] = parts[1..c] /\ g[c - 1] = parts[1..(c - 1)]
    BY <2>1
  <2> HIDE DEF g
  <2>3. parts[(1..c) \ {Max(1..c)}] \in T
    BY <1>2, <2>1, <2>2
  <2>4. parts[1..c] = step[Max(1..c)][parts[(1..c) \ {Max(1..c)}]]
    BY <2>1, <2>3 DEF Unfolds
  <2>5. QED
    BY <2>1, <2>2, <2>4
<1> DEFINE N == {c \in Nat : c <= n => g[c] \in T}
<1>3. \A c \in 0..n : g[c] \in T
  <2> HIDE DEF g
  <2>1. 0 \in N
    BY <1>1
  <2>2. ASSUME NEW c \in Nat, c \in N
        PROVE  c + 1 \in N
    <3>1. SUFFICES ASSUME c + 1 <= n
                   PROVE  g[c + 1] \in T
      OBVIOUS
    <3>2. c + 1 \in 1..n /\ (c + 1) - 1 = c /\ c <= n
      BY <3>1
    <3>3. g[c] \in T
      BY <2>2, <3>2
    <3>4. g[c + 1] = step[c + 1][g[c]]
      BY <1>2, <3>2, <3>3
    <3>5. QED
      BY <3>2, <3>3, <3>4
  <2>3. Nat \subseteq N
    <3> HIDE DEF N
    <3>1. QED
      BY <2>1, <2>2, SetInduction
  <2>4. QED
    BY <2>3
<1>4. \A c \in 1..n : g[c - 1] \in T /\ g[c] = step[c][g[c - 1]]
  <2>1. \A c \in 1..n : c - 1 \in 0..n
    OBVIOUS
  <2> HIDE DEF g
  <2>2. QED
    BY <1>2, <1>3, <2>1
<1>5. g \in [0..n -> T] /\ parts[1..n] = g[n]
  <2>1. n \in 0..n
    OBVIOUS
  <2>2. QED
    BY <1>3, <2>1
<1>6. QED
  BY <1>1, <1>4, <1>5 DEF Steps

=============================================================================
