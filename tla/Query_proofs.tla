----------------------------- MODULE Query_proofs -----------------------------
(***************************************************************************)
(* For any records, indexes and queries, whatever is written while the     *)
(* query runs and in whatever order its lookups, matches and loads end:    *)
(* what is returned has met each filter at some moment, and nothing that   *)
(* meets them all the time is missing.  While nothing is written, it is    *)
(* the part of the order that skip and take ask for.                       *)
(***************************************************************************)
EXTENDS Query, SequenceTheorems, FiniteSetTheorems, FunctionTheorems, WellFoundedInduction, TLAPS

-----------------------------------------------------------------------------
\* Sets in order.

\* Of a property of some natural numbers there is a smallest one that has it:
\* subsets of the finite set 0 .. n are well founded.
LEMMA Smallest ==
    ASSUME NEW S \in SUBSET Nat, S # {}
    PROVE  \E m \in S : \A i \in S : m <= i
<1> DEFINE T == {0 .. i : i \in S}
<1>1. T \subseteq FiniteSubsetsOf(Nat) /\ T # {}
  <2>1. ASSUME NEW i \in S
        PROVE  0 .. i \in FiniteSubsetsOf(Nat)
    <3>1. IsFiniteSet(0 .. i) /\ 0 .. i \subseteq Nat
      BY FS_Interval
    <3> QED
      BY <3>1 DEF FiniteSubsetsOf
  <2>2. T # {}
    OBVIOUS
  <2> QED
    BY <2>1, <2>2
<1>2. PICK t \in T : \A u \in T : ~ (<<u, t>> \in StrictSubsetOrdering(Nat))
  <2> HIDE DEF T
  <2> QED
    BY <1>1, FS_StrictSubsetOrderingWellFounded, WFMin
<1>3. PICK m \in S : t = 0 .. m
  OBVIOUS
<1>4. ASSUME NEW i \in S, ~ (m <= i) PROVE FALSE
  <2>1. 0 .. i \subseteq 0 .. m /\ 0 .. i # 0 .. m
    BY <1>4
  <2>2. <<0 .. i, 0 .. m>> \in StrictSubsetOrdering(Nat)
    BY <2>1 DEF StrictSubsetOrdering
  <2> QED
    BY <1>2, <1>3, <2>2
<1> QED
  BY <1>4

StrictTotal(S, less) ==
    /\ \A x \in S : <<x, x>> \notin less
    /\ \A x, y \in S : x # y => <<x, y>> \in less \/ <<y, x>> \in less
    /\ \A x, y, z \in S : <<x, y>> \in less /\ <<y, z>> \in less => <<x, z>> \in less

\* The place of each element is one more than the number of those before it,
\* and every place is taken.
LEMMA RankedIs ==
    ASSUME NEW S, IsFiniteSet(S), NEW less, StrictTotal(S, less)
    PROVE  LET r == Ranked(S, less) n == Cardinality(S)
           IN  /\ n \in Nat
               /\ r \in [1..n -> S]
               /\ \A i, j \in 1..n : i < j => <<r[i], r[j]>> \in less
               /\ \A x \in S : \E i \in 1..n : r[i] = x
<1> DEFINE n == Cardinality(S)
           below(x) == {y \in S : <<y, x>> \in less}
           rank == [x \in S |-> Cardinality(below(x)) + 1]
           r == Ranked(S, less)
<1>1. ASSUME NEW x \in S
      PROVE  /\ IsFiniteSet(below(x)) /\ Cardinality(below(x)) \in Nat
             /\ Cardinality(below(x)) < n /\ n \in Nat
  <2>1. below(x) \in SUBSET S /\ below(x) # S
    BY DEF StrictTotal
  <2> HIDE DEF below
  <2>2. IsFiniteSet(below(x)) /\ Cardinality(below(x)) <= n /\ (n = Cardinality(below(x)) => FALSE)
    BY <2>1, FS_Subset
  <2>3. Cardinality(below(x)) \in Nat /\ n \in Nat
    BY <2>2, FS_CardinalityType
  <2> QED
    BY <2>2, <2>3
<1>2. n \in Nat
  BY FS_CardinalityType
<1>3. ASSUME NEW x \in S, NEW y \in S, <<x, y>> \in less
      PROVE  Cardinality(below(x)) < Cardinality(below(y))
  <2>1. below(x) \union {x} \in SUBSET below(y) /\ x \notin below(x)
    BY <1>3 DEF StrictTotal
  <2>2. IsFiniteSet(below(x)) /\ Cardinality(below(x)) \in Nat /\ IsFiniteSet(below(y)) /\ Cardinality(below(y)) \in Nat
    BY <1>1
  <2> HIDE DEF below
  <2>3. Cardinality(below(x) \union {x}) = Cardinality(below(x)) + 1
    BY <2>1, <2>2, FS_AddElement
  <2>4. Cardinality(below(x) \union {x}) <= Cardinality(below(y))
    BY <2>1, <2>2, FS_Subset
  <2> QED
    BY <2>2, <2>3, <2>4
<1>4. rank \in [S -> 1..n]
  <2>1. \A x \in S : Cardinality(below(x)) + 1 \in 1..n
    <3> HIDE DEF below
    <3> QED
      BY <1>1, <1>2
  <2> HIDE DEF below
  <2> QED
    BY <2>1
<1>5. \A x, y \in S : rank[x] = rank[y] => x = y
  <2> SUFFICES ASSUME NEW x \in S, NEW y \in S, rank[x] = rank[y], x # y PROVE FALSE
    OBVIOUS
  <2>1. <<x, y>> \in less \/ <<y, x>> \in less
    BY DEF StrictTotal
  <2>2. Cardinality(below(x)) \in Nat /\ Cardinality(below(y)) \in Nat
    BY <1>1
  <2>3. Cardinality(below(x)) < Cardinality(below(y)) \/ Cardinality(below(y)) < Cardinality(below(x))
    BY <1>3, <2>1
  <2>4. Cardinality(below(x)) + 1 = Cardinality(below(y)) + 1
    OBVIOUS
  <2> HIDE DEF below
  <2> QED
    BY <2>2, <2>3, <2>4
<1>6. \A i \in 1..n : \E x \in S : rank[x] = i
  <2>1. rank \in Injection(S, 1..n)
    BY <1>4, <1>5 DEF Injection, IsInjective
  <2>2. IsFiniteSet(1..n) /\ Cardinality(1..n) = n
    BY <1>2, FS_Interval
  <2> HIDE DEF rank
  <2>3. rank \in Surjection(S, 1..n)
    BY <2>1, <2>2, FS_Injection
  <2> QED
    BY <2>3 DEF Surjection
<1>7. ASSUME NEW i \in 1..n
      PROVE  r[i] \in S /\ rank[r[i]] = i
  <2>1. r[i] = CHOOSE x \in S : Cardinality(below(x)) = i - 1
    BY DEF Ranked
  <2>2. PICK x \in S : rank[x] = i
    BY <1>6
  <2>3. Cardinality(below(x)) \in Nat
    BY <1>1
  <2>4. Cardinality(below(x)) = i - 1
    BY <2>2, <2>3, <1>2
  <2>5. r[i] \in S /\ Cardinality(below(r[i])) = i - 1
    <3> HIDE DEF below
    <3> QED
      BY <2>1, <2>4
  <2>6. rank[r[i]] = Cardinality(below(r[i])) + 1
    <3> HIDE DEF below, r
    <3> QED
      BY <2>5
  <2> HIDE DEF below, r, rank
  <2> QED
    BY <2>5, <2>6, <1>2
<1>8. r \in [1..n -> S]
  <2> DEFINE pick(i) == CHOOSE x \in S : Cardinality({y \in S : <<y, x>> \in less}) = i - 1
  <2>1. r = [i \in 1..n |-> pick(i)]
    BY DEF Ranked
  <2> HIDE DEF pick
  <2> HIDE DEF r
  <2>2. \A i \in 1..n : r[i] \in S
    BY <1>7
  <2>3. r = [i \in 1..n |-> r[i]]
    BY <2>1
  <2> QED
    BY <2>2, <2>3
<1>9. ASSUME NEW i \in 1..n, NEW j \in 1..n, i < j
      PROVE  <<r[i], r[j]>> \in less
  <2>1. r[i] \in S /\ r[j] \in S /\ rank[r[i]] = i /\ rank[r[j]] = j
    BY <1>7
  <2>2. r[i] # r[j]
    BY <2>1, <1>9, <1>2
  <2>3. <<r[j], r[i]>> \in less => FALSE
    <3>1. ASSUME <<r[j], r[i]>> \in less PROVE FALSE
      <4>1. Cardinality(below(r[j])) < Cardinality(below(r[i]))
        BY <3>1, <2>1, <1>3
      <4>2. Cardinality(below(r[j])) \in Nat /\ Cardinality(below(r[i])) \in Nat
        BY <2>1, <1>1
      <4>3. rank[r[i]] = Cardinality(below(r[i])) + 1 /\ rank[r[j]] = Cardinality(below(r[j])) + 1
        <5> HIDE DEF r, below
        <5> QED
          BY <2>1
      <4> HIDE DEF rank, below, r
      <4> QED
        BY <4>1, <4>2, <4>3, <2>1, <1>9, <1>2
    <3> QED
      BY <3>1
  <2> HIDE DEF r, rank, below
  <2> QED
    BY <2>1, <2>2, <2>3 DEF StrictTotal
<1>10. ASSUME NEW x \in S
       PROVE  \E i \in 1..n : r[i] = x
  <2>1. rank[x] \in 1..n
    BY <1>4
  <2>2. r[rank[x]] \in S /\ rank[r[rank[x]]] = rank[x]
    BY <2>1, <1>7
  <2> HIDE DEF r, rank
  <2> QED
    BY <2>1, <2>2, <1>5
<1> QED
  BY <1>2, <1>8, <1>9, <1>10

\* An order of a finite set has each element once, and none before one that
\* precedes it.
LEMMA OrdersAre ==
    ASSUME NEW S, IsFiniteSet(S), NEW before, NEW t \in Orders(S, before)
    PROVE  /\ t \in Seq(S) /\ Len(t) = Cardinality(S) /\ Range(t) = S
           /\ \A i, j \in 1..Len(t) : t[i] = t[j] => i = j
           /\ \A i, j \in 1..Len(t) : i < j => <<t[j], t[i]>> \notin before
<1> DEFINE n == Cardinality(S)
<1>1. n \in Nat
  BY FS_CardinalityType
<1>2. /\ t \in [1..n -> S] /\ \A i, j \in 1..n : i # j => t[i] # t[j]
      /\ \A i, j \in DOMAIN t : i < j => <<t[j], t[i]>> \notin before
  BY DEF Orders, SetToSeqs
<1>3. IsFiniteSet(1..n) /\ Cardinality(1..n) = n
  BY <1>1, FS_Interval
<1> HIDE DEF n
<1>4. t \in Injection(1..n, S)
  BY <1>2 DEF Injection, IsInjective
<1>5. t \in Surjection(1..n, S)
  BY <1>3, <1>4, FS_Injection DEF n
<1>6. DOMAIN t = 1..n /\ t \in Seq(S) /\ Len(t) = n
  BY <1>1, <1>2
<1>7. Range(t) = S
  BY <1>2, <1>5, <1>6 DEF Surjection, Range
<1> QED
  BY <1>2, <1>6, <1>7 DEF n

-----------------------------------------------------------------------------
\* The order of results.

Matches == [child : Children, val : [Keys -> Nat]]
SortVal(a, k) == a.val[query.sort[k].key]
TiedAt(a, b, k) == SortVal(a, k) = SortVal(b, k) /\ SortVal(a, k) # Missing
AheadAt(a, b, k) ==
    IF query.sort[k].ascending THEN SortVal(a, k) < SortVal(b, k) ELSE SortVal(a, k) > SortVal(b, k)

LEMMA QueryTyped ==
    ASSUME IsQuery(query)
    PROVE  /\ Len(query.sort) \in Nat /\ DOMAIN query.sort = 1..Len(query.sort)
           /\ \A k \in 1..Len(query.sort) : query.sort[k].key \in Keys /\ query.sort[k].ascending \in BOOLEAN
           /\ Len(query.filters) \in Nat /\ DOMAIN query.filters = 1..Len(query.filters)
           /\ \A i \in 1..Len(query.filters) : query.filters[i] \in Filters
           /\ query.skip \in Nat /\ query.take \in Int /\ query.snapshots \in BOOLEAN
<1>1. ASSUME NEW S, NEW q \in Seq(S)
      PROVE  Len(q) \in Nat /\ DOMAIN q = 1..Len(q) /\ \A i \in 1..Len(q) : q[i] \in S
  OBVIOUS
<1>2. query.filters \in Seq(Filters) /\ query.sort \in Seq([key : Keys, ascending : BOOLEAN])
  BY DEF IsQuery
<1>3. \A x \in [key : Keys, ascending : BOOLEAN] : x.key \in Keys /\ x.ascending \in BOOLEAN
  OBVIOUS
<1>4. query.skip \in Nat /\ query.take \in Int /\ query.snapshots \in BOOLEAN
  BY DEF IsQuery
<1> HIDE DEF Filters
<1> QED
  BY <1>1, <1>2, <1>3, <1>4

LEMMA AheadIs ==
    ASSUME IsQuery(query), NEW a, NEW b
    PROVE  /\ \A n : Tied(a, b, n) <=> \A k \in 1..n : TiedAt(a, b, k)
           /\ Ahead(a, b) <=> \E j \in 1..Len(query.sort) :
                                AheadAt(a, b, j) /\ \A k \in 1..(j - 1) : TiedAt(a, b, k)
<1>1. \A n : Tied(a, b, n) <=> \A k \in 1..n : TiedAt(a, b, k)
  BY DEF Tied, TiedAt, SortVal
<1>2. DOMAIN query.sort = 1..Len(query.sort)
  BY QueryTyped
<1>3. Ahead(a, b) <=> \E j \in DOMAIN query.sort : AheadAt(a, b, j) /\ Tied(a, b, j - 1)
  BY DEF Ahead, AheadAt, SortVal
<1> QED
  BY <1>1, <1>2, <1>3

\* At one key of the sort.
LEMMA AtKey ==
    ASSUME IsQuery(query), NEW k \in 1..Len(query.sort),
           NEW a \in Matches, NEW b \in Matches, NEW c \in Matches
    PROVE  /\ TiedAt(a, b, k) => TiedAt(b, a, k)
           /\ TiedAt(a, b, k) /\ TiedAt(b, c, k) => TiedAt(a, c, k)
           /\ AheadAt(a, b, k) => ~ AheadAt(b, a, k) /\ ~ TiedAt(a, b, k) /\ ~ TiedAt(b, a, k)
           /\ AheadAt(a, b, k) => AheadAt(a, c, k) \/ AheadAt(c, b, k)
           /\ TiedAt(a, b, k) => TiedAt(a, c, k) \/ AheadAt(a, c, k) \/ AheadAt(c, b, k)
<1>1. SortVal(a, k) \in Nat /\ SortVal(b, k) \in Nat /\ SortVal(c, k) \in Nat
  BY QueryTyped DEF SortVal, Matches
<1>2. query.sort[k].ascending \in BOOLEAN
  BY QueryTyped
<1> QED
  BY <1>1, <1>2 DEF TiedAt, AheadAt

LEMMA NeverBothBefore ==
    ASSUME IsQuery(query), NEW a \in Matches, NEW b \in Matches, Before(a, b)
    PROVE  ~ Before(b, a)
<1> DEFINE n == Len(query.sort)
<1>1. /\ \A m : Tied(a, b, m) <=> \A k \in 1..m : TiedAt(a, b, k)
      /\ \A m : Tied(b, a, m) <=> \A k \in 1..m : TiedAt(b, a, k)
      /\ Ahead(a, b) <=> \E j \in 1..n : AheadAt(a, b, j) /\ \A k \in 1..(j - 1) : TiedAt(a, b, k)
      /\ Ahead(b, a) <=> \E j \in 1..n : AheadAt(b, a, j) /\ \A k \in 1..(j - 1) : TiedAt(b, a, k)
  BY AheadIs
<1>2. n \in Nat
  BY QueryTyped
<1>3. \A k \in 1..n : /\ AheadAt(a, b, k) => ~ AheadAt(b, a, k) /\ ~ TiedAt(a, b, k) /\ ~ TiedAt(b, a, k)
                      /\ AheadAt(b, a, k) => ~ TiedAt(a, b, k) /\ ~ TiedAt(b, a, k)
  BY AtKey
<1>4. a.child \in Nat /\ b.child \in Nat
  BY QueryAssumption DEF Matches
<1> HIDE DEF n
<1>5. Ahead(a, b) => ~ Ahead(b, a)
  <2> SUFFICES ASSUME NEW j \in 1..n, AheadAt(a, b, j), \A k \in 1..(j - 1) : TiedAt(a, b, k),
                      NEW i \in 1..n, AheadAt(b, a, i), \A k \in 1..(i - 1) : TiedAt(b, a, k)
               PROVE  FALSE
    BY <1>1
  <2>1. CASE i < j
    BY <2>1, <1>2, <1>3
  <2>2. CASE j < i
    BY <2>2, <1>2, <1>3
  <2>3. CASE i = j
    BY <2>3, <1>3
  <2> QED
    BY <2>1, <2>2, <2>3, <1>2
<1>6. Ahead(a, b) => ~ Tied(a, b, n) /\ ~ Tied(b, a, n)
  BY <1>1, <1>3
<1>7. Ahead(b, a) => ~ Tied(a, b, n) /\ ~ Tied(b, a, n)
  BY <1>1, <1>3
<1> QED
  BY <1>4, <1>5, <1>6, <1>7 DEF Before, n

\* Where a third one is not tied with two that are, up to some key, it comes
\* after both or before both.
LEMMA ApartFromTied ==
    ASSUME IsQuery(query), NEW a \in Matches, NEW b \in Matches, NEW c \in Matches,
           NEW n \in Nat, n <= Len(query.sort), \A k \in 1..n : TiedAt(a, b, k)
    PROVE  (\A k \in 1..n : TiedAt(a, c, k) /\ TiedAt(c, b, k)) \/ Ahead(a, c) \/ Ahead(c, b)
<1> DEFINE S == {k \in 1..n : ~ TiedAt(a, c, k)}
<1>0. Len(query.sort) \in Nat
  BY QueryTyped
<1>1. \A k \in 1..n : k \in 1..Len(query.sort)
  BY <1>0
<1>2. \A k \in 1..n : TiedAt(a, c, k) => TiedAt(c, b, k)
  BY <1>1, AtKey
<1>3. CASE S = {}
  BY <1>3, <1>2
<1>4. CASE S # {}
  <2>1. PICK m \in S : \A i \in S : m <= i
    <3>1. S \in SUBSET Nat
      OBVIOUS
    <3> HIDE DEF S
    <3> QED
      BY <1>4, <3>1, Smallest
  <2>2. m \in 1..n /\ ~ TiedAt(a, c, m) /\ m \in 1..Len(query.sort)
    BY <1>1
  <2>3. AheadAt(a, c, m) \/ AheadAt(c, b, m)
    BY <2>2, AtKey
  <2>4. \A k \in 1..(m - 1) : k \in 1..n /\ TiedAt(a, c, k)
    BY <2>1, <2>2
  <2>5. \A k \in 1..(m - 1) : TiedAt(c, b, k)
    BY <2>4, <1>2
  <2> QED
    BY <2>2, <2>3, <2>4, <2>5, AheadIs
<1> QED
  BY <1>3, <1>4

LEMMA BeforeOneOfTwo ==
    ASSUME IsQuery(query), NEW a \in Matches, NEW b \in Matches, NEW c \in Matches, Before(a, b)
    PROVE  Before(a, c) \/ Before(c, b)
<1> DEFINE n == Len(query.sort)
<1>1. n \in Nat
  BY QueryTyped
<1>2. CASE Ahead(a, b)
  <2>1. PICK j \in 1..n : AheadAt(a, b, j) /\ \A k \in 1..(j - 1) : TiedAt(a, b, k)
    BY <1>2, AheadIs
  <2>2. j - 1 \in Nat /\ j - 1 <= n
    BY <1>1
  <2>3. (\A k \in 1..(j - 1) : TiedAt(a, c, k) /\ TiedAt(c, b, k)) \/ Ahead(a, c) \/ Ahead(c, b)
    BY <2>1, <2>2, ApartFromTied
  <2>4. AheadAt(a, c, j) \/ AheadAt(c, b, j)
    BY <2>1, AtKey
  <2>5. Ahead(a, c) \/ Ahead(c, b)
    BY <2>3, <2>4, AheadIs
  <2> QED
    BY <2>5 DEF Before
<1>3. CASE Tied(a, b, n) /\ a.child < b.child
  <2>1. \A k \in 1..n : TiedAt(a, b, k)
    BY <1>3, AheadIs
  <2>2. (\A k \in 1..n : TiedAt(a, c, k) /\ TiedAt(c, b, k)) \/ Ahead(a, c) \/ Ahead(c, b)
    BY <2>1, <1>1, ApartFromTied
  <2>3. (Tied(a, c, n) /\ Tied(c, b, n)) \/ Ahead(a, c) \/ Ahead(c, b)
    BY <2>2, AheadIs
  <2>4. a.child \in Nat /\ b.child \in Nat /\ c.child \in Nat
    BY QueryAssumption DEF Matches
  <2>5. a.child < c.child \/ c.child < b.child
    BY <1>3, <2>4
  <2> QED
    BY <2>3, <2>5 DEF Before
<1> QED
  BY <1>2, <1>3 DEF Before

LEMMA StableIsTotal ==
    ASSUME IsQuery(query), NEW s \in Seq(Matches)
    PROVE  StrictTotal(DOMAIN s, {x \in (DOMAIN s) \X (DOMAIN s) : StableBefore(s, x[1], x[2])})
<1> DEFINE D == DOMAIN s
           B(i, j) == Before(s[i], s[j])
           less == {x \in D \X D : StableBefore(s, x[1], x[2])}
<1>1. D = 1..Len(s) /\ Len(s) \in Nat /\ \A i \in D : s[i] \in Matches
  OBVIOUS
<1>2. \A i, j \in D : <<i, j>> \in less <=> B(i, j) \/ (i < j /\ ~ B(j, i))
  BY DEF StableBefore
<1>3. \A i, j \in D : B(i, j) => ~ B(j, i)
  BY <1>1, NeverBothBefore
<1>4. \A i, j, k \in D : B(i, j) => B(i, k) \/ B(k, j)
  BY <1>1, BeforeOneOfTwo
<1>5. \A i \in D : i \in Nat
  BY <1>1
<1> HIDE DEF B, D, less
<1>6. \A i \in D : <<i, i>> \notin less
  BY <1>2, <1>3, <1>5
<1>7. \A i, j \in D : i # j => <<i, j>> \in less \/ <<j, i>> \in less
  BY <1>2, <1>5
<1>8. \A i, j, k \in D : <<i, j>> \in less /\ <<j, k>> \in less => <<i, k>> \in less
  BY <1>2, <1>3, <1>4, <1>5
<1>9. StrictTotal(D, less)
  BY <1>6, <1>7, <1>8 DEF StrictTotal
<1> QED
  BY <1>9 DEF D, less

\* What is before another by values that are loaded precedes it by the same
\* values of an index.
LEMMA BeforePrecedes ==
    ASSUME IsQuery(query), NEW a, NEW b
    PROVE  /\ \A keys : SortKeys(query) \subseteq keys /\ Ahead(a, b) => Prior(a, b, keys)
           /\ SortKeys(query) \subseteq KnownKeys /\ query.sort # <<>> /\ Before(a, b) => Precedes(a, b)
<1>1. \A j \in DOMAIN query.sort : query.sort[j].key \in SortKeys(query)
  BY DEF SortKeys
<1>2. DOMAIN query.sort = 1..Len(query.sort) /\ Len(query.sort) \in Nat
  BY QueryTyped
<1>3. \A n : Tied(a, b, n) => Same(a, b, n)
  BY DEF Tied, Same
<1>4. ASSUME NEW keys, SortKeys(query) \subseteq keys, Ahead(a, b)
      PROVE  Prior(a, b, keys)
  <2>1. PICK j \in DOMAIN query.sort :
          /\ Tied(a, b, j - 1)
          /\ IF query.sort[j].ascending THEN a.val[query.sort[j].key] < b.val[query.sort[j].key]
             ELSE a.val[query.sort[j].key] > b.val[query.sort[j].key]
    BY <1>4 DEF Ahead
  <2>2. \A h \in 1..j : h \in DOMAIN query.sort
    BY <1>2
  <2>3. \A h \in 1..j : query.sort[h].key \in keys
    BY <1>1, <1>4, <2>2
  <2>4. Same(a, b, j - 1)
    BY <1>3, <2>1
  <2> QED
    BY <2>1, <2>3, <2>4 DEF Prior
<1>5. ASSUME SortKeys(query) \subseteq KnownKeys, query.sort # <<>>, Before(a, b)
      PROVE  Precedes(a, b)
  <2>1. CASE Ahead(a, b)
    BY <1>4, <1>5, <2>1 DEF Precedes
  <2>2. CASE ~ Ahead(a, b)
    BY <1>3, <1>5, <2>2 DEF Before, Precedes
  <2> QED
    BY <2>1, <2>2
<1> QED
  BY <1>4, <1>5

\* Results of different children.
Apart(s) == \A i, j \in DOMAIN s : s[i].child = s[j].child => i = j

\* Sorting keeps all results and puts none before one that should precede it.
LEMMA SortKeeps ==
    ASSUME IsQuery(query), NEW s \in Seq(Matches)
    PROVE  /\ SortMatches(s) \in Seq(Matches) /\ Len(SortMatches(s)) = Len(s)
           /\ Range(SortMatches(s)) = Range(s)
           /\ \A i, j \in 1..Len(s) : i < j => ~ Before(SortMatches(s)[j], SortMatches(s)[i])
           /\ Apart(s) => Apart(SortMatches(s))
<1> DEFINE D == DOMAIN s
           less == {x \in D \X D : StableBefore(s, x[1], x[2])}
           order == Ranked(D, less)
           t == SortMatches(s)
<1>1. D = 1..Len(s) /\ Len(s) \in Nat /\ \A i \in D : s[i] \in Matches
  OBVIOUS
<1>2. IsFiniteSet(D) /\ Cardinality(D) = Len(s)
  <2>1. 1 \in Int /\ Len(s) \in Int
    BY <1>1
  <2>2. IsFiniteSet(1..Len(s)) /\ Cardinality(1..Len(s)) = IF 1 > Len(s) THEN 0 ELSE Len(s) - 1 + 1
    BY <2>1, FS_Interval
  <2> QED
    BY <2>2, <1>1
<1>3. StrictTotal(D, less)
  BY StableIsTotal
<1>4. /\ order \in [1..Len(s) -> D]
      /\ \A i, j \in 1..Len(s) : i < j => <<order[i], order[j]>> \in less
      /\ \A x \in D : \E i \in 1..Len(s) : order[i] = x
  <2> HIDE DEF D, less
  <2> QED
    BY <1>2, <1>3, RankedIs
<1>5. t = [n \in D |-> s[order[n]]]
  BY DEF SortMatches
<1>6. \A i, j \in D : <<i, j>> \in less => Before(s[i], s[j]) \/ ~ Before(s[j], s[i])
  BY DEF StableBefore
<1> HIDE DEF order, t, less, D
<1>7. \A i \in 1..Len(s) : t[i] = s[order[i]] /\ order[i] \in D
  BY <1>1, <1>4, <1>5
<1>8. t \in Seq(Matches) /\ Len(t) = Len(s)
  BY <1>1, <1>5, <1>7
<1>9. Range(t) = Range(s)
  <2>1. \A n \in D : t[n] \in Range(s)
    BY <1>1, <1>7 DEF Range, D
  <2>2. \A n \in D : s[n] \in Range(t)
    BY <1>1, <1>4, <1>5, <1>7 DEF Range
  <2>3. DOMAIN t = D /\ DOMAIN s = D
    BY <1>5 DEF D
  <2> QED
    BY <2>1, <2>2, <2>3 DEF Range
<1>10. ASSUME NEW i \in 1..Len(s), NEW j \in 1..Len(s), i < j
       PROVE  ~ Before(t[j], t[i])
  <2>1. order[i] \in D /\ order[j] \in D /\ <<order[i], order[j]>> \in less
    BY <1>4, <1>10
  <2>2. Before(s[order[i]], s[order[j]]) => ~ Before(s[order[j]], s[order[i]])
    BY <1>1, <2>1, NeverBothBefore
  <2>3. ~ Before(s[order[j]], s[order[i]])
    BY <1>6, <2>1, <2>2
  <2> QED
    BY <2>3, <1>7
<1>11. Apart(s) => Apart(t)
  <2> SUFFICES ASSUME Apart(s), NEW i \in 1..Len(s), NEW j \in 1..Len(s), t[i].child = t[j].child
               PROVE  i = j
    BY <1>1, <1>5 DEF Apart, D
  <2>1. order[i] = order[j] /\ order[i] \in D
    BY <1>7 DEF Apart, D
  <2>2. <<order[i], order[i]>> \notin less
    BY <1>3, <2>1 DEF StrictTotal
  <2> QED
    BY <1>1, <1>4, <2>1, <2>2
<1> QED
  BY <1>8, <1>9, <1>10, <1>11 DEF t

\* Numbers in their order.
LEMMA InOrderIs ==
    ASSUME NEW S \in SUBSET Nat, IsFiniteSet(S)
    PROVE  LET r == InOrder(S) n == Cardinality(S)
           IN  /\ n \in Nat
               /\ r \in [1..n -> S]
               /\ \A i, j \in 1..n : i < j => r[i] < r[j]
               /\ \A x \in S : \E i \in 1..n : r[i] = x
<1> DEFINE less == {x \in S \X S : x[1] < x[2]}
           r == InOrder(S)
           n == Cardinality(S)
<1>1. \A x, y \in S : <<x, y>> \in less <=> x < y
  OBVIOUS
<1>2. r = Ranked(S, less)
  BY DEF InOrder
<1> HIDE DEF less, r, n
<1>3. StrictTotal(S, less)
  BY <1>1 DEF StrictTotal
<1>4. /\ n \in Nat /\ r \in [1..n -> S]
      /\ \A i, j \in 1..n : i < j => <<r[i], r[j]>> \in less
      /\ \A x \in S : \E i \in 1..n : r[i] = x
  <2>1. /\ Cardinality(S) \in Nat /\ Ranked(S, less) \in [1..Cardinality(S) -> S]
        /\ \A i, j \in 1..Cardinality(S) : i < j => <<Ranked(S, less)[i], Ranked(S, less)[j]>> \in less
        /\ \A x \in S : \E i \in 1..Cardinality(S) : Ranked(S, less)[i] = x
    BY <1>3, RankedIs
  <2> QED
    BY <1>2, <2>1 DEF n
<1>5. \A i, j \in 1..n : i < j => r[i] < r[j]
  BY <1>1, <1>4
<1> QED
  BY <1>4, <1>5 DEF r, n

\* What is left of results when those of one child go.
LEMMA WithoutIs ==
    ASSUME NEW s \in Seq(Matches), NEW c
    PROVE  /\ Without(s, c) \in Seq(Matches)
           /\ Range(Without(s, c)) = {m \in Range(s) : m.child # c}
<1> DEFINE S == {n \in DOMAIN s : s[n].child # c}
           r == InOrder(S)
           n == Cardinality(S)
           t == Without(s, c)
<1>1. DOMAIN s = 1..Len(s) /\ Len(s) \in Nat /\ \A i \in DOMAIN s : s[i] \in Matches
  OBVIOUS
<1>2. IsFiniteSet(1..Len(s))
  BY <1>1, FS_Interval
<1>3. S \in SUBSET (1..Len(s))
  BY <1>1
<1>4. S \in SUBSET Nat /\ IsFiniteSet(S)
  <2>1. 1..Len(s) \subseteq Nat
    BY <1>1
  <2> HIDE DEF S
  <2>2. IsFiniteSet(S)
    BY <1>2, <1>3, FS_Subset
  <2> QED
    BY <1>3, <2>1, <2>2
<1>5. t = [i \in DOMAIN r |-> s[r[i]]]
  BY DEF Without
<1>6. \A i \in S : i \in DOMAIN s /\ s[i].child # c
  OBVIOUS
<1>7. \A i \in DOMAIN s : s[i].child # c => i \in S
  OBVIOUS
<1> HIDE DEF S, t
<1>8. n \in Nat /\ r \in [1..n -> S] /\ \A x \in S : \E i \in 1..n : r[i] = x
  BY <1>4, InOrderIs
<1> HIDE DEF r, n
<1>9. DOMAIN t = 1..n /\ \A i \in 1..n : t[i] = s[r[i]] /\ r[i] \in S
  BY <1>5, <1>8
<1>10. t \in Seq(Matches)
  BY <1>1, <1>5, <1>6, <1>8, <1>9
<1>11. Range(t) = {m \in Range(s) : m.child # c}
  <2>1. \A i \in 1..n : t[i] \in Range(s) /\ t[i].child # c
    BY <1>6, <1>9 DEF Range
  <2>2. ASSUME NEW i \in DOMAIN s, s[i].child # c
        PROVE  s[i] \in Range(t)
    <3>1. PICK k \in 1..n : r[k] = i
      BY <1>7, <1>8, <2>2
    <3> QED
      BY <3>1, <1>9 DEF Range
  <2> QED
    BY <1>9, <2>1, <2>2 DEF Range
<1> QED
  BY <1>10, <1>11 DEF t

LEMMA PartOf ==
    ASSUME NEW S, NEW s \in Seq(S), NEW a \in Nat \ {0}, NEW b \in Int, b <= Len(s)
    PROVE  SubSeq(s, a, b) \in Seq(S) /\ Range(SubSeq(s, a, b)) \subseteq Range(s)
<1> DEFINE t == SubSeq(s, a, b)
<1>1. Len(s) \in Nat /\ DOMAIN s = 1..Len(s) /\ \A i \in 1..Len(s) : s[i] \in S
  OBVIOUS
<1>2. \A i \in a..b : i \in 1..Len(s)
  BY <1>1
<1>3. \A i \in a..b : s[i] \in S
  BY <1>1, <1>2
<1>4. /\ t \in Seq(S)
      /\ Len(t) = IF a <= b THEN b - a + 1 ELSE 0
      /\ \A i \in 1..(b - a + 1) : t[i] = s[a + i - 1]
  BY <1>3, SubSeqProperties
<1> HIDE DEF t
<1>5. DOMAIN t = 1..Len(t)
  BY <1>4
<1>6. ASSUME NEW i \in DOMAIN t
      PROVE  t[i] \in Range(s)
  <2>1. i \in 1..(b - a + 1) /\ a <= b
    BY <1>4, <1>5
  <2>2. t[i] = s[a + i - 1] /\ a + i - 1 \in a..b
    BY <1>4, <2>1
  <2> QED
    BY <1>1, <1>2, <2>2 DEF Range
<1> QED
  BY <1>4, <1>6 DEF Range, t

LEMMA WindowIs ==
    ASSUME IsQuery(query), NEW S, NEW s \in Seq(S)
    PROVE  /\ Window(s) \in Seq(S) /\ Range(Window(s)) \subseteq Range(s)
           /\ query.skip = 0 /\ Take = 0 => Window(s) = s
<1>1. query.skip \in Nat /\ Take \in Int
  BY QueryTyped DEF Take
<1>2. Len(s) \in Nat
  OBVIOUS
<1>3. Skipped(s) \in Seq(S) /\ Range(Skipped(s)) \subseteq Range(s) /\ (query.skip = 0 => Skipped(s) = s)
  <2>1. CASE query.skip = 0
    BY <2>1 DEF Skipped
  <2>2. CASE query.skip # 0 /\ Take < 0
    <3>1. 1 \in Nat \ {0} /\ Len(s) - query.skip \in Int /\ Len(s) - query.skip <= Len(s)
      BY <1>1, <1>2
    <3>2. SubSeq(s, 1, Len(s) - query.skip) \in Seq(S) /\ Range(SubSeq(s, 1, Len(s) - query.skip)) \subseteq Range(s)
      BY <3>1, PartOf
    <3> QED
      BY <2>2, <3>2 DEF Skipped
  <2>3. CASE query.skip # 0 /\ ~ (Take < 0)
    <3>1. query.skip + 1 \in Nat \ {0} /\ Len(s) \in Int /\ Len(s) <= Len(s)
      BY <1>1, <1>2
    <3>2. SubSeq(s, query.skip + 1, Len(s)) \in Seq(S) /\ Range(SubSeq(s, query.skip + 1, Len(s))) \subseteq Range(s)
      BY <3>1, PartOf
    <3> QED
      BY <2>3, <3>2 DEF Skipped
  <2> QED
    BY <2>1, <2>2, <2>3
<1>4. ASSUME NEW t \in Seq(S)
      PROVE  Taken(t) \in Seq(S) /\ Range(Taken(t)) \subseteq Range(t) /\ (Take = 0 => Taken(t) = t)
  <2>0. Len(t) \in Nat
    OBVIOUS
  <2>1. CASE Take = 0
    BY <2>1 DEF Taken
  <2>2. CASE Take < 0
    <3> DEFINE a == IF Len(t) + Take < 0 THEN 1 ELSE Len(t) + Take + 1
    <3>1. a \in Nat \ {0} /\ Len(t) \in Int /\ Len(t) <= Len(t)
      BY <1>1, <2>0
    <3>2. Taken(t) = IF Take = 0 THEN t ELSE IF Take < 0 THEN SubSeq(t, a, Len(t))
                     ELSE SubSeq(t, 1, IF Take < Len(t) THEN Take ELSE Len(t))
      BY DEF Taken
    <3> HIDE DEF a
    <3>5. Take # 0
      BY <2>2, <1>1
    <3>4. Taken(t) = SubSeq(t, a, Len(t))
      BY <2>2, <3>2, <3>5, Zenon
    <3>3. SubSeq(t, a, Len(t)) \in Seq(S) /\ Range(SubSeq(t, a, Len(t))) \subseteq Range(t)
      BY <3>1, PartOf
    <3> QED
      BY <2>2, <3>4, <3>3, <1>1
  <2>3. CASE Take # 0 /\ ~ (Take < 0)
    <3> DEFINE b == IF Take < Len(t) THEN Take ELSE Len(t)
    <3>1. 1 \in Nat \ {0} /\ b \in Int /\ b <= Len(t)
      BY <1>1, <2>0
    <3>2. Taken(t) = SubSeq(t, 1, b)
      BY <2>3, <1>1 DEF Taken
    <3> HIDE DEF b
    <3>3. SubSeq(t, 1, b) \in Seq(S) /\ Range(SubSeq(t, 1, b)) \subseteq Range(t)
      BY <3>1, PartOf
    <3> QED
      BY <2>3, <3>2, <3>3, <1>1
  <2> QED
    BY <2>1, <2>2, <2>3, <1>1
<1> QED
  BY <1>3, <1>4 DEF Window

LEMMA FrontIs ==
    ASSUME NEW S, NEW s \in Seq(S)
    PROVE  Front(s) \in Seq(S) /\ Range(Front(s)) \subseteq Range(s)
<1>1. 1 \in Nat \ {0} /\ Len(s) - 1 \in Int /\ Len(s) - 1 <= Len(s)
  OBVIOUS
<1> QED
  BY <1>1, PartOf DEF Front

LEMMA TossedIs ==
    ASSUME IsQuery(query), NEW s \in Seq(Matches)
    PROVE  /\ Sorted(s) \in Seq(Matches) /\ Range(Sorted(s)) = Range(s)
           /\ Tossed(s) \in Seq(Matches) /\ Range(Tossed(s)) \subseteq Range(s)
           /\ Take = 0 => Tossed(s) = s
           /\ TossedLoad(s) \in Seq(Matches) /\ Range(TossedLoad(s)) \subseteq Range(s)
           /\ query.skip = 0 => TossedLoad(s) = s
<1>1. SortMatches(s) \in Seq(Matches) /\ Range(SortMatches(s)) = Range(s)
  BY SortKeeps
<1>2. Sorted(s) \in Seq(Matches) /\ Range(Sorted(s)) = Range(s)
  BY <1>1 DEF Sorted
<1>3. Front(Sorted(s)) \in Seq(Matches) /\ Range(Front(Sorted(s))) \subseteq Range(s)
  BY <1>2, FrontIs
<1>4. Front(SortMatches(s)) \in Seq(Matches) /\ Range(Front(SortMatches(s))) \subseteq Range(s)
  BY <1>1, FrontIs
<1>5. query.skip \in Nat
  BY QueryTyped
<1> HIDE DEF Matches
<1> QED
  BY <1>2, <1>3, <1>4, <1>5 DEF Tossed, TossedLoad

-----------------------------------------------------------------------------
\* The plan.

\* A filter is scanned for, or it has an index of its own, or the index of
\* another filter has its key.
FilterPlanned(f, indexes, chosen, usage) ==
    \/ chosen = {} /\ usage = "none"
    \/ \E ix \in indexes :
          /\ chosen = {ix} /\ f.key \in KeysFor(ix)
          /\ usage = "metadata" \/ (usage = "lookup" /\ f.key = ix.key)
SortPlanned(q, indexes, chosen, key) ==
    \/ chosen = {}
    \/ \E ix \in indexes : /\ chosen = {ix} /\ key \in KeysFor(ix)
                           /\ q.filters = <<>> => ix.key = key
PlanGood(q, indexes, p) ==
    /\ DOMAIN p.sort = DOMAIN q.sort
    /\ \A j \in DOMAIN q.sort : SortPlanned(q, indexes, p.sort[j], q.sort[j].key)
    /\ p = [filter |-> p.filter, sort |-> p.sort, usage |-> p.usage]
    /\ DOMAIN p.filter = DOMAIN q.filters /\ DOMAIN p.usage = DOMAIN q.filters
    /\ \A i \in DOMAIN q.filters : FilterPlanned(q.filters[i], indexes, p.filter[i], p.usage[i])

LEMMA NoPlanGood ==
    ASSUME NEW q, NEW indexes
    PROVE  PlanGood(q, indexes, NoPlan(q))
BY DEF PlanGood, NoPlan, FilterPlanned, SortPlanned

LEMMA AssignKeepsGood ==
    ASSUME NEW q, NEW indexes, NEW p, PlanGood(q, indexes, p),
           NEW i \in DOMAIN q.filters
    PROVE  PlanGood(q, indexes, Assign(q, indexes, p, i))
<1> DEFINE best == Best(q, i, indexes)
           ix == CHOOSE x \in best : TRUE
           also == {j \in DOMAIN q.filters \ {i} : q.filters[j].key \in ForFilters(ix, q, i)}
           filter == [j \in DOMAIN q.filters |-> IF j \in also \union {i} THEN {ix} ELSE p.filter[j]]
           usage == [j \in DOMAIN q.filters |->
                       IF j \in also THEN "metadata" ELSE IF j = i THEN "lookup" ELSE p.usage[j]]
           sort == [j \in DOMAIN q.sort |->
                       IF q.sort[j].key \in ForSorting(ix, q, i) THEN {ix} ELSE p.sort[j]]
<1>1. CASE p.filter[i] # {} \/ best = {}
  BY <1>1 DEF Assign
<1>2. CASE ~ (p.filter[i] # {} \/ best = {})
  <2>1. Assign(q, indexes, p, i) = [filter |-> filter, usage |-> usage, sort |-> sort]
    BY <1>2 DEF Assign
  <2>2. ix \in indexes /\ ix.key = q.filters[i].key
    <3>1. best # {}
      BY <1>2
    <3>2. \A x \in best : x \in indexes /\ x.key = q.filters[i].key
      BY DEF Best
    <3> HIDE DEF best
    <3> QED
      BY <3>1, <3>2
  <2>3. \A j \in also : q.filters[j].key \in KeysFor(ix)
    BY DEF ForFilters
  <2>4. q.filters[i].key \in KeysFor(ix)
    BY <2>2 DEF KeysFor
  <2> HIDE DEF ix, best
  <2>5. ASSUME NEW j \in DOMAIN q.filters
        PROVE  FilterPlanned(q.filters[j], indexes, filter[j], usage[j])
    <3>1. CASE j \in also
      BY <2>2, <2>3, <3>1 DEF FilterPlanned
    <3>2. CASE j \notin also /\ j = i
      BY <2>2, <2>4, <3>2 DEF FilterPlanned
    <3>3. CASE j \notin also /\ j # i
      BY <3>3 DEF PlanGood
    <3> QED
      BY <3>1, <3>2, <3>3
  <2> HIDE DEF also
  <2>6. DOMAIN filter = DOMAIN q.filters /\ DOMAIN usage = DOMAIN q.filters /\ DOMAIN sort = DOMAIN q.sort
    OBVIOUS
  <2>7. q.filters # <<>>
    OBVIOUS
  <2>8. ASSUME NEW j \in DOMAIN q.sort
        PROVE  SortPlanned(q, indexes, sort[j], q.sort[j].key)
    <3>1. CASE q.sort[j].key \in ForSorting(ix, q, i)
      BY <2>2, <2>7, <3>1 DEF SortPlanned, ForSorting
    <3>2. CASE q.sort[j].key \notin ForSorting(ix, q, i)
      BY <3>2 DEF PlanGood
    <3> QED
      BY <3>1, <3>2
  <2> HIDE DEF filter, usage, sort
  <2> QED
    BY <2>1, <2>5, <2>6, <2>8 DEF PlanGood
<1> QED
  BY <1>1, <1>2

\* The filters get their index in turn: what there is after n of them.
LEMMA PlannedInTurn ==
    ASSUME NEW q, Len(q.filters) \in Nat, NEW indexes
    PROVE  \E after : /\ after = [n \in 0..Len(q.filters) |->
                                    IF n = 0 THEN NoPlan(q) ELSE Assign(q, indexes, after[n - 1], n)]
                      /\ Assigned(q, indexes) = after[Len(q.filters)]
<1> DEFINE N == Len(q.filters)
           A(p, n) == Assign(q, indexes, p, n)
           Is(f, n) == f = [m \in 0..n |-> IF m = 0 THEN NoPlan(q) ELSE A(f[m - 1], m)]
           S == {n \in 0..N : ~ \E f : Is(f, n)}
<1> HIDE DEF A
<1>0. N \in Nat
  OBVIOUS
<1>1. S = {}
  <2> SUFFICES ASSUME S # {} PROVE FALSE
    OBVIOUS
  <2>1. S \in SUBSET Nat
    BY <1>0
  <2>2. PICK n \in S : \A m \in S : n <= m
    <3> HIDE DEF S
    <3> QED
      BY <2>1, Smallest
  <2>3. n \in Nat /\ n \in 0..N /\ ~ \E f : Is(f, n)
    BY <2>2
  <2>4. CASE n = 0
    <3> DEFINE f == [m \in 0..0 |-> NoPlan(q)]
    <3>1. Is(f, n)
      BY <2>4
    <3> QED
      BY <3>1, <2>3
  <2>5. CASE n # 0
    <3>1. n - 1 \in 0..N /\ n - 1 \in Nat
      BY <2>3, <2>5, <1>0
    <3>2. n - 1 \notin S
      BY <2>2, <2>3, <3>1
    <3>3. PICK g : Is(g, n - 1)
      BY <3>1, <3>2
    <3> DEFINE h == [m \in 0..n |-> IF m = n THEN A(g[n - 1], n) ELSE g[m]]
    <3>4. \A m \in 0..(n - 1) : g[m] = IF m = 0 THEN NoPlan(q) ELSE A(g[m - 1], m)
      <4> HIDE DEF S
      <4> QED
        BY <3>3
    <3>5. \A m \in 0..n : h[m] = IF m = n THEN A(g[n - 1], n) ELSE g[m]
      OBVIOUS
    <3>6. ASSUME NEW m \in 0..n
          PROVE  h[m] = IF m = 0 THEN NoPlan(q) ELSE A(h[m - 1], m)
      <4>1. CASE m = n
        <5>1. n - 1 \in 0..n /\ n - 1 # n
          BY <2>3, <3>1
        <5>2. h[n - 1] = g[n - 1]
          BY <3>5, <5>1
        <5>3. h[m] = A(g[n - 1], n)
          BY <3>5, <4>1
        <5> HIDE DEF h
        <5> QED
          BY <4>1, <5>2, <5>3, <2>5
      <4>2. CASE m # n /\ m = 0
        <5>1. h[m] = g[m] /\ m \in 0..(n - 1)
          BY <4>2, <3>5, <2>3, <2>5
        <5> HIDE DEF h
        <5> QED
          BY <4>2, <5>1, <3>4
      <4>3. CASE m # n /\ m # 0
        <5>1. m \in 0..(n - 1) /\ m - 1 \in 0..n /\ m - 1 # n
          BY <4>3, <2>3
        <5>2. h[m] = g[m] /\ h[m - 1] = g[m - 1]
          BY <4>3, <5>1, <3>5
        <5> HIDE DEF h
        <5> QED
          BY <4>3, <5>1, <5>2, <3>4
      <4> QED
        BY <4>1, <4>2, <4>3
    <3>7. h = [m \in 0..n |-> h[m]]
      OBVIOUS
    <3> HIDE DEF h
    <3>8. Is(h, n)
      BY <3>6, <3>7
    <3> QED
      BY <3>8, <2>3
  <2> QED
    BY <2>4, <2>5
<1>2. \E f : Is(f, N)
  <2>1. N \in 0..N
    BY <1>0
  <2> QED
    BY <1>1, <2>1
<1>3. Assigned(q, indexes) = (CHOOSE f : Is(f, N))[N]
  BY DEF Assigned, A
<1>4. Is(CHOOSE f : Is(f, N), N)
  <2> HIDE DEF Is
  <2> QED
    BY <1>2
<1> QED
  BY <1>3, <1>4 DEF A

LEMMA PlanIsGood ==
    ASSUME NEW q, Len(q.filters) \in Nat, DOMAIN q.filters = 1..Len(q.filters), NEW indexes
    PROVE  PlanGood(q, indexes, PlanOf(q, indexes))
<1> DEFINE N == Len(q.filters)
<1>1. PICK after : /\ after = [n \in 0..N |-> IF n = 0 THEN NoPlan(q) ELSE Assign(q, indexes, after[n - 1], n)]
                   /\ Assigned(q, indexes) = after[N]
  BY PlannedInTurn
<1> DEFINE S == {n \in 0..N : ~ PlanGood(q, indexes, after[n])}
<1>2. S = {}
  <2> SUFFICES ASSUME S # {} PROVE FALSE
    OBVIOUS
  <2>1. S \in SUBSET Nat
    OBVIOUS
  <2>2. PICK n \in S : \A m \in S : n <= m
    <3> HIDE DEF S
    <3> QED
      BY <2>1, Smallest
  <2>3. n \in 0..N /\ n \in Nat
    BY <2>2
  <2>4. CASE n = 0
    BY <2>2, <2>4, <1>1, NoPlanGood
  <2>5. CASE n # 0
    <3>1. n - 1 \in 0..N /\ n - 1 \notin S
      BY <2>1, <2>2, <2>3, <2>5
    <3>2. PlanGood(q, indexes, after[n - 1])
      BY <3>1
    <3>3. after[n] = Assign(q, indexes, after[n - 1], n)
      BY <1>1, <2>3, <2>5
    <3>4. n \in DOMAIN q.filters
      BY <2>3, <2>5
    <3> QED
      BY <2>2, <3>2, <3>3, <3>4, AssignKeepsGood
  <2> QED
    BY <2>4, <2>5
<1>3. PlanGood(q, indexes, Assigned(q, indexes))
  <2>1. N \in 0..N
    OBVIOUS
  <2>2. N \notin S
    BY <1>2
  <2> QED
    BY <1>1, <2>1, <2>2
<1> DEFINE p == Assigned(q, indexes)
           sort == [j \in DOMAIN q.sort |-> LET on == {ix \in indexes : ix.key = q.sort[j].key}
                                            IN IF on = {} THEN {} ELSE {CHOOSE ix \in on : TRUE}]
<1>4. PlanOf(q, indexes) = p \/ (q.filters = <<>> /\ PlanOf(q, indexes) = [p EXCEPT !.sort = sort])
  BY DEF PlanOf
<1>5. \A j \in DOMAIN q.sort : SortPlanned(q, indexes, sort[j], q.sort[j].key)
  <2> SUFFICES ASSUME NEW j \in DOMAIN q.sort
               PROVE  SortPlanned(q, indexes, sort[j], q.sort[j].key)
    OBVIOUS
  <2> DEFINE on == {ix \in indexes : ix.key = q.sort[j].key}
             first == CHOOSE ix \in on : TRUE
  <2>1. sort[j] = IF on = {} THEN {} ELSE {first}
    OBVIOUS
  <2>2. on # {} => first \in on
    OBVIOUS
  <2>3. \A ix \in on : ix \in indexes /\ ix.key = q.sort[j].key /\ q.sort[j].key \in KeysFor(ix)
    BY DEF KeysFor
  <2> HIDE DEF sort, first, on
  <2> QED
    BY <2>1, <2>2, <2>3 DEF SortPlanned
<1>6. DOMAIN sort = DOMAIN q.sort
  OBVIOUS
<1> HIDE DEF p, sort
<1>7. ASSUME PlanGood(q, indexes, p)
      PROVE  PlanGood(q, indexes, [p EXCEPT !.sort = sort])
  BY <1>5, <1>6, <1>7 DEF PlanGood
<1> QED
  BY <1>3, <1>4, <1>7 DEF p

-----------------------------------------------------------------------------
\* What a scan tests and what an index compares.

RangeOrdered(f) == f.op \in {"between", "!between"} => f.compare[1] <= f.compare[2]
NullOperators == {"<", "<=", "!=", "!in", "!between"}

LEMMA FilterTyped ==
    ASSUME NEW f \in Filters
    PROVE  /\ f.key \in Keys /\ f.op \in Operators /\ f.compare \in Seq(Nat)
           /\ f.op \in {"between", "!between"} => Len(f.compare) = 2
           /\ f.op \in {"<", "<=", "==", "!=", ">", ">="} => Len(f.compare) = 1
           /\ f.op \in {"==", ">=", "in", "between"} => f.compare \in Seq(Nat \ {Missing})
BY DEF Filters

LEMMA BoundsIs ==
    ASSUME NEW c \in Seq(Nat), Len(c) = 2, c[1] <= c[2], NEW v \in Nat
    PROVE  Between(v, c) <=> v >= c[1] /\ v <= c[2]
<1>1. c[1] \in Nat /\ c[2] \in Nat /\ DOMAIN c = {1, 2}
  <2>1. DOMAIN c = 1 .. 2 /\ \A i \in 1 .. 2 : c[i] \in Nat
    BY LenProperties, ElementOfSeq
  <2>2. 1 .. 2 = {1, 2} /\ 1 \in 1 .. 2 /\ 2 \in 1 .. 2
    OBVIOUS
  <2> QED
    BY <2>1, <2>2, Zenon
<1>2. Range(c) = {c[1], c[2]}
  BY <1>1 DEF Range
<1> DEFINE low == CHOOSE x \in {c[1], c[2]} : \A y \in {c[1], c[2]} : x <= y
           high == CHOOSE x \in {c[1], c[2]} : \A y \in {c[1], c[2]} : x >= y
<1>3. low \in {c[1], c[2]} /\ \A y \in {c[1], c[2]} : low <= y
  BY <1>1
<1>4. high \in {c[1], c[2]} /\ \A y \in {c[1], c[2]} : high >= y
  BY <1>1
<1>5. Between(v, c) <=> v >= low /\ v <= high
  BY <1>2 DEF Between, Min, Max
<1> HIDE DEF low, high
<1>6. low = c[1] /\ high = c[2]
  BY <1>1, <1>3, <1>4
<1> QED
  BY <1>5, <1>6

\* What passes a scan passes a search of the index; what passes the search
\* passes a scan as well, but for a missing value, which is less than any.
LEMMA ComparedIs ==
    ASSUME NEW f \in Filters, RangeOrdered(f), NEW r \in [Keys -> Nat]
    PROVE  /\ TestNode(r, f) => Compare(f.op, r[f.key], f.compare)
           /\ Compare(f.op, r[f.key], f.compare) =>
                TestNode(r, f) \/ (f.op \in NullOperators /\ r[f.key] = Missing)
<1> DEFINE v == r[f.key]
           c == f.compare
<1>1. v \in Nat /\ c \in Seq(Nat) /\ f.op \in Operators
  BY FilterTyped
<1>2. CASE f.op \in {"between", "!between"}
  <2>1. Len(c) = 2 /\ c[1] <= c[2] /\ c[1] \in Nat /\ c[2] \in Nat
    BY <1>1, <1>2, FilterTyped DEF RangeOrdered
  <2>2. Between(v, c) <=> v >= c[1] /\ v <= c[2]
    BY <1>1, <2>1, BoundsIs
  <2>3. f.op = "between" => c[1] # Missing
    BY <2>1, FilterTyped
  <2> HIDE DEF v, c
  <2>4. CASE f.op = "between"
    <3>1. Compare(f.op, v, c) <=> Between(v, c)
      BY <2>4 DEF Compare
    <3>2. Test(f.op, v, c) <=> v >= c[1] /\ v <= c[2]
      BY <2>4 DEF Test
    <3>3. TestNode(r, f) <=> v # Missing /\ Test(f.op, v, c)
      BY <2>4 DEF TestNode, v, c
    <3> QED
      BY <1>1, <2>1, <2>2, <2>3, <2>4, <3>1, <3>2, <3>3 DEF Missing, v, c
  <2>5. CASE f.op = "!between"
    <3>1. Compare(f.op, v, c) <=> ~ Between(v, c)
      BY <2>5 DEF Compare
    <3>2. Test(f.op, v, c) <=> v < c[1] \/ v > c[2]
      BY <2>5 DEF Test
    <3>3. TestNode(r, f) <=> v # Missing /\ Test(f.op, v, c)
      BY <2>5 DEF TestNode, v, c
    <3> QED
      BY <1>1, <2>1, <2>2, <2>5, <3>1, <3>2, <3>3 DEF NullOperators, v, c
  <2> QED
    BY <1>2, <2>4, <2>5
<1>3. CASE f.op \in Operators \ {"between", "!between"}
  <2>1. Test(f.op, v, c) <=> Compare(f.op, v, c)
    BY <1>3 DEF Test
  <2>2. TestNode(r, f) <=> IF f.op = "!exists" THEN v = Missing ELSE v # Missing /\ Test(f.op, v, c)
    BY DEF TestNode
  <2>3. f.op = "!exists" => (Compare(f.op, v, c) <=> v = Missing)
    BY DEF Compare
  <2>4. f.op \notin NullOperators /\ f.op # "!exists" /\ Compare(f.op, v, c) => v # Missing
    <3> HIDE DEF v
    <3>1. CASE f.op = "=="
      <4>1. c[1] \in Nat \ {Missing}
        BY <3>1, FilterTyped
      <4>2. Compare(f.op, v, c) <=> v = c[1]
        BY <3>1 DEF Compare
      <4> QED
        BY <4>1, <4>2
    <3>2. CASE f.op = ">="
      <4>1. c[1] \in Nat \ {Missing}
        BY <3>2, FilterTyped
      <4>2. Compare(f.op, v, c) <=> v >= c[1]
        BY <3>2 DEF Compare
      <4> QED
        BY <1>1, <4>1, <4>2 DEF Missing
    <3>3. CASE f.op = ">"
      <4>1. c[1] \in Nat
        BY <1>1, <3>3, FilterTyped
      <4>2. Compare(f.op, v, c) <=> v > c[1]
        BY <3>3 DEF Compare
      <4> QED
        BY <1>1, <4>1, <4>2 DEF Missing
    <3>4. CASE f.op = "in"
      <4>1. \A n \in DOMAIN c : c[n] \in Nat \ {Missing}
        BY <3>4, FilterTyped
      <4>2. Compare(f.op, v, c) <=> v \in Range(c)
        BY <3>4 DEF Compare, OneOf
      <4> HIDE DEF c
      <4> QED
        BY <4>1, <4>2 DEF Range
    <3>5. CASE f.op = "exists"
      BY <3>5 DEF Compare
    <3> QED
      BY <1>3, <3>1, <3>2, <3>3, <3>4, <3>5 DEF Operators, NullOperators
  <2> HIDE DEF v, c
  <2>5. CASE f.op = "!exists"
    BY <2>2, <2>3, <2>5 DEF v, c
  <2>6. CASE f.op # "!exists"
    BY <2>1, <2>2, <2>4, <2>6 DEF v, c
  <2> QED
    BY <2>5, <2>6
<1> QED
  BY <1>1, <1>2, <1>3

-----------------------------------------------------------------------------
\* The invariant.

Kids(s) == {m.child : m \in Range(s)}
Records == [Keys -> Nat]

\* Every entry of an index was made of a record that was so during the query.
EntryFrom(ix, e, s) == e = EntryOf(ix, s[1], s[2])
Base ==
    /\ IsQuery(query) /\ query \in Queries
    /\ PlanGood(query, DOMAIN lag, plan)
    /\ \A ix \in DOMAIN lag : IsIndex(ix)
    /\ data \in [Children -> Records]
    /\ seen \subseteq Children \X Records
    /\ \A c \in Children : <<c, data[c]>> \in seen
    /\ \A ix \in DOMAIN lag : \A l \in lag[ix] : <<l.child, l.was>> \in seen
    /\ \A ix \in DOMAIN lag : \A e \in bare[ix] :
          \E s \in seen : EntryFrom(ix, e, s) /\ s[2][ix.key] = Missing
    /\ step \in {"lookup", "scan", "load", "reload", "done", "failed", "empty"}

\* An entry that lookup i found is of a record that the index compared with the
\* filter, and with those on other keys of the index.
PassedBy(i, record) ==
    \A j \in DOMAIN query.filters :
        (j = i \/ (plan.usage[j] = "metadata" /\ plan.filter[j] = plan.filter[i])) =>
            Compare(query.filters[j].op, record[query.filters[j].key], query.filters[j].compare)
SetsGood ==
    /\ DOMAIN sets \subseteq Lookups
    /\ \A i \in DOMAIN sets : \A e \in sets[i] :
          \E s \in seen : EntryFrom(IndexOf(i), e, s) /\ PassedBy(i, s[2])

Typed ==
    /\ matches \in Seq(Matches)
    /\ todo \subseteq Children /\ loading \subseteq Children
    /\ step = "lookup" => matches = <<>> /\ todo = {} /\ loading = {}
    /\ step \in {"scan", "load"} => Lookups = DOMAIN sets

\* What Sound says of one child and one filter.
Met(c, i) == \E s \in seen : s[1] = c /\ TestNode(s[2], query.filters[i])
Answers(c, i) ==
    \/ Lost(i)
    \/ plan.filter[i] # {} /\ (Emptied \/ ByNull(c, query.filters[i]))
    \/ Met(c, i)
Answered(c) == \A i \in DOMAIN query.filters : Answers(c, i)
HalfAnswered(c) == \A i \in DOMAIN query.filters : plan.filter[i] # {} => Answers(c, i)
AllSound ==
    /\ step = "scan" => \A c \in todo : HalfAnswered(c)
    /\ step = "load" => \A c \in todo : Answered(c)
    /\ \A c \in loading : Answered(c)
    /\ \A c \in Kids(matches) : Answered(c)

\* What Complete says of one child, on the way to the answer.
Always(c) == \A s \in seen : s[1] = c => Satisfies(s[2], query.filters)
Whole == query.skip = 0 /\ Take = 0 /\ ~ \E i \in DOMAIN query.filters : Unlisted(i)
Kept(c) ==
    /\ step = "lookup" => \A i \in DOMAIN sets : \E e \in sets[i] : e.child = c
    /\ step = "scan" => c \in todo \union loading \union Kids(matches)
    /\ step = "load" => c \in todo \union Kids(matches)
    /\ step \in {"reload", "done"} => c \in Kids(matches)
AllComplete == Whole => \A c \in Children : Always(c) => Kept(c)

\* A query that takes its results from an index that sorts has no filters to meet.
Rest == SetsGood /\ Typed /\ AllSound /\ AllComplete
IInv == Base /\ (~ SortedByIndex => Rest)

\* The bounds of a range are given in order: an index takes them in either
\* order, a scan does not.
OrderedBounds == \A q \in Queries : \A i \in DOMAIN q.filters : RangeOrdered(q.filters[i])

LEMMA KidsIs ==
    ASSUME NEW s \in Seq(Matches)
    PROVE  /\ Kids(s) \subseteq Children
           /\ \A n \in DOMAIN s : s[n].child \in Kids(s)
           /\ \A c \in Kids(s) : \E n \in DOMAIN s : s[n].child = c
<1>1. \A n \in DOMAIN s : s[n] \in Matches
  OBVIOUS
<1>2. \A m \in Matches : m.child \in Children
  BY DEF Matches
<1> QED
  BY <1>1, <1>2 DEF Kids, Range

LEMMA QueryOfFilters ==
    ASSUME Base, OrderedBounds
    PROVE  \A i \in DOMAIN query.filters :
              query.filters[i] \in Filters /\ RangeOrdered(query.filters[i]) /\ query.filters[i].key \in Keys
<1>1. \A i \in DOMAIN query.filters : query.filters[i] \in Filters
  BY QueryTyped DEF Base
<1> QED
  BY <1>1, FilterTyped DEF Base, OrderedBounds

\* The index of a filter.
LEMMA PlanIs ==
    ASSUME Base, NEW i \in DOMAIN query.filters
    PROVE  /\ plan.filter[i] = {} => plan.usage[i] = "none"
           /\ plan.filter[i] # {} =>
                /\ IndexOf(i) \in DOMAIN lag /\ plan.filter[i] = {IndexOf(i)}
                /\ IsIndex(IndexOf(i))
                /\ query.filters[i].key \in KeysFor(IndexOf(i))
                /\ plan.usage[i] \in {"lookup", "metadata"}
                /\ plan.usage[i] = "lookup" => query.filters[i].key = IndexOf(i).key
<1>1. FilterPlanned(query.filters[i], DOMAIN lag, plan.filter[i], plan.usage[i])
  BY DEF Base, PlanGood
<1>2. ASSUME plan.filter[i] # {}
      PROVE  /\ IndexOf(i) \in DOMAIN lag /\ plan.filter[i] = {IndexOf(i)}
             /\ IsIndex(IndexOf(i))
             /\ query.filters[i].key \in KeysFor(IndexOf(i))
             /\ plan.usage[i] \in {"lookup", "metadata"}
             /\ plan.usage[i] = "lookup" => query.filters[i].key = IndexOf(i).key
  <2>1. PICK ix \in DOMAIN lag :
          /\ plan.filter[i] = {ix} /\ query.filters[i].key \in KeysFor(ix)
          /\ plan.usage[i] = "metadata" \/ (plan.usage[i] = "lookup" /\ query.filters[i].key = ix.key)
    BY <1>1, <1>2 DEF FilterPlanned
  <2>2. IndexOf(i) = ix
    BY <2>1 DEF IndexOf
  <2>3. IsIndex(ix)
    BY DEF Base
  <2> QED
    BY <2>1, <2>2, <2>3
<1>3. plan.filter[i] = {} => plan.usage[i] = "none"
  BY <1>1 DEF FilterPlanned
<1> QED
  BY <1>2, <1>3

\* What an index says a record is was so at some moment of the query.
LEMMA EntriesFrom ==
    ASSUME Base, NEW ix \in DOMAIN lag
    PROVE  /\ \A c \in Children : <<c, Indexed(ix, c)>> \in seen
           /\ \A e \in EntriesOf(ix) : \E s \in seen :
                EntryFrom(ix, e, s) /\ (s[2][ix.key] # Missing => s[2] = Indexed(ix, s[1]))
<1>1. ASSUME NEW c \in Children
      PROVE  <<c, Indexed(ix, c)>> \in seen
  <2>1. CASE \E l \in lag[ix] : l.child = c
    <3> DEFINE l == CHOOSE x \in lag[ix] : x.child = c
    <3>1. l \in lag[ix] /\ l.child = c
      BY <2>1
    <3>2. Indexed(ix, c) = l.was
      BY <2>1 DEF Indexed
    <3> HIDE DEF l
    <3> QED
      BY <3>1, <3>2 DEF Base
  <2>2. CASE ~ \E l \in lag[ix] : l.child = c
    BY <2>2 DEF Indexed, Base
  <2> QED
    BY <2>1, <2>2
<1>2. ASSUME NEW e \in EntriesOf(ix)
      PROVE  \E s \in seen : EntryFrom(ix, e, s) /\ (s[2][ix.key] # Missing => s[2] = Indexed(ix, s[1]))
  <2>1. CASE e \in bare[ix]
    BY <2>1 DEF Base
  <2>2. CASE e \notin bare[ix]
    <3>1. PICK c \in Children : e = EntryOf(ix, c, Indexed(ix, c))
      BY <2>2 DEF EntriesOf
    <3> QED
      BY <3>1, <1>1 DEF EntryFrom
  <2> QED
    BY <2>1, <2>2
<1> QED
  BY <1>1, <1>2

LEMMA EntryIs ==
    ASSUME Base, NEW ix, IsIndex(ix), NEW e, NEW s \in seen, EntryFrom(ix, e, s)
    PROVE  /\ s[1] \in Children /\ s[2] \in Records /\ s = <<s[1], s[2]>>
           /\ e.child = s[1] /\ e.key = s[2][ix.key] /\ \A k \in ix.include : e.meta[k] = s[2][k]
<1>1. s \in Children \X Records
  BY DEF Base
<1> QED
  BY <1>1 DEF EntryFrom, EntryOf

\* What a lookup finds, the index has compared.
LEMMA MetadataIs ==
    ASSUME Base, OrderedBounds, NEW i \in DOMAIN query.filters, plan.filter[i] # {},
           NEW j \in DOMAIN query.filters, plan.filter[j] = plan.filter[i],
           NEW e, NEW s \in seen, EntryFrom(IndexOf(i), e, s)
    PROVE  FilterMetadata(e, IndexOf(i), query.filters[j]) <=>
              Compare(query.filters[j].op, s[2][query.filters[j].key], query.filters[j].compare)
<1>1. IndexOf(j) = IndexOf(i)
  BY DEF IndexOf
<1>2. IsIndex(IndexOf(i)) /\ query.filters[j].key \in KeysFor(IndexOf(i))
  BY <1>1, PlanIs
<1>3. e.key = s[2][IndexOf(i).key] /\ \A k \in IndexOf(i).include : e.meta[k] = s[2][k]
  BY <1>2, EntryIs
<1> QED
  BY <1>2, <1>3 DEF FilterMetadata, KeysFor

LEMMA LookupFinds ==
    ASSUME Base, OrderedBounds, NEW i \in Lookups
    PROVE  \A e \in LookupOf(i) : \E s \in seen : EntryFrom(IndexOf(i), e, s) /\ PassedBy(i, s[2])
<1> DEFINE ix == IndexOf(i)
           f == query.filters[i]
<1>1. i \in DOMAIN query.filters /\ plan.usage[i] = "lookup"
  BY DEF Lookups
<1>2. plan.filter[i] # {} /\ ix \in DOMAIN lag /\ IsIndex(ix) /\ f.key = ix.key
  BY <1>1, PlanIs
<1> SUFFICES ASSUME NEW e \in LookupOf(i)
             PROVE  \E s \in seen : EntryFrom(ix, e, s) /\ PassedBy(i, s[2])
  OBVIOUS
<1>3. /\ e \in EntriesOf(ix) /\ Compare(f.op, e.key, f.compare)
      /\ \A j \in DOMAIN query.filters : plan.usage[j] = "metadata" /\ plan.filter[j] = plan.filter[i]
            => FilterMetadata(e, ix, query.filters[j])
  BY DEF LookupOf, IndexQuery, SearchTree
<1>4. PICK s \in seen : EntryFrom(ix, e, s)
  BY <1>2, <1>3, EntriesFrom
<1>5. e.key = s[2][f.key]
  BY <1>2, <1>4, EntryIs
<1> HIDE DEF ix, f
<1>6. ASSUME NEW j \in DOMAIN query.filters,
             j = i \/ (plan.usage[j] = "metadata" /\ plan.filter[j] = plan.filter[i])
      PROVE  Compare(query.filters[j].op, s[2][query.filters[j].key], query.filters[j].compare)
  <2>1. CASE j = i
    BY <2>1, <1>3, <1>5 DEF f
  <2>2. CASE j # i
    <3>1. plan.filter[j] = plan.filter[i] /\ FilterMetadata(e, ix, query.filters[j])
      BY <1>3, <1>6, <2>2
    <3> QED
      BY <1>1, <1>2, <1>4, <3>1, MetadataIs DEF ix
  <2> QED
    BY <2>1, <2>2
<1> QED
  BY <1>4, <1>6 DEF PassedBy

\* The index has an entry of a record that meets all filters all the time, and
\* the lookup finds it.
LEMMA LookupKeeps ==
    ASSUME Base, OrderedBounds, NEW i \in Lookups, ~ Unlisted(i), NEW c \in Children, Always(c)
    PROVE  \E e \in LookupOf(i) : e.child = c
<1> DEFINE ix == IndexOf(i)
           f == query.filters[i]
           e == EntryOf(ix, c, Indexed(ix, c))
           s == <<c, Indexed(ix, c)>>
<1>1. i \in DOMAIN query.filters /\ plan.usage[i] = "lookup"
  BY DEF Lookups
<1>2. plan.filter[i] # {} /\ ix \in DOMAIN lag /\ IsIndex(ix) /\ f.key = ix.key
  BY <1>1, PlanIs
<1>3. f.op # "!exists"
  BY <1>2 DEF Unlisted
<1>4. s \in seen
  BY <1>2, EntriesFrom
<1>5. ASSUME NEW t \in seen, t[1] = c
      PROVE  /\ t[2][f.key] # Missing
             /\ \A j \in DOMAIN query.filters :
                  Compare(query.filters[j].op, t[2][query.filters[j].key], query.filters[j].compare)
  <2>1. Satisfies(t[2], query.filters) /\ t[2] \in Records
    BY <1>5 DEF Always, Base
  <2>2. ASSUME NEW j \in DOMAIN query.filters
        PROVE  TestNode(t[2], query.filters[j])
    <3>1. query.filters[j] \in Range(query.filters)
      BY DEF Range
    <3> QED
      BY <2>1, <3>1 DEF Satisfies, Holds
  <2>3. t[2][f.key] # Missing
    BY <1>1, <1>3, <2>2 DEF TestNode
  <2>4. ASSUME NEW j \in DOMAIN query.filters
        PROVE  Compare(query.filters[j].op, t[2][query.filters[j].key], query.filters[j].compare)
    BY <2>1, <2>2, QueryOfFilters, ComparedIs DEF Records
  <2> QED
    BY <2>3, <2>4
<1>6. s[1] = c /\ s[2] = Indexed(ix, c) /\ EntryFrom(ix, e, s)
  BY DEF EntryFrom
<1> HIDE DEF ix, f, e, s
<1>7. e.child = c /\ e.key = Indexed(ix, c)[f.key] /\ e.key \in Nat
  <2>1. e.child = c /\ e.key = Indexed(ix, c)[f.key] /\ s[2] \in Records
    BY <1>2, <1>4, <1>6, EntryIs
  <2>2. f.key \in Keys
    BY <1>2 DEF IsIndex
  <2> QED
    BY <1>6, <2>1, <2>2 DEF Records
<1>8. e \in SearchTree(ix, f)
  <2>1. Indexed(ix, c)[ix.key] # Missing
    BY <1>2, <1>4, <1>5, <1>6
  <2>2. e \in EntriesOf(ix)
    BY <2>1 DEF EntriesOf, e
  <2>3. Compare(f.op, e.key, f.compare)
    BY <1>1, <1>4, <1>5, <1>6, <1>7 DEF f
  <2> QED
    BY <2>2, <2>3 DEF SearchTree
<1>9. ASSUME NEW other \in SearchTree(ix, f), other.child = e.child
      PROVE  e.key <= other.key
  <2>1. other \in EntriesOf(ix)
    BY DEF SearchTree
  <2>2. PICK t \in seen : EntryFrom(ix, other, t) /\ (t[2][ix.key] # Missing => t[2] = Indexed(ix, t[1]))
    BY <1>2, <2>1, EntriesFrom
  <2>3. t[1] = c
    BY <1>2, <1>7, <1>9, <2>2, EntryIs
  <2>4. t[2] = Indexed(ix, c)
    BY <1>2, <1>5, <2>2, <2>3
  <2>5. other = e
    BY <2>2, <2>3, <2>4 DEF EntryFrom, e
  <2> QED
    BY <1>7, <2>5
<1>10. e \in IndexQuery(ix, f)
  BY <1>8, <1>9 DEF IndexQuery
<1>11. ASSUME NEW j \in DOMAIN query.filters, plan.usage[j] = "metadata", plan.filter[j] = plan.filter[i]
       PROVE  FilterMetadata(e, ix, query.filters[j])
  <2>1. Compare(query.filters[j].op, s[2][query.filters[j].key], query.filters[j].compare)
    BY <1>4, <1>5, <1>6
  <2> QED
    BY <1>1, <1>2, <1>4, <1>6, <1>11, <2>1, MetadataIs DEF ix
<1>12. e \in LookupOf(i)
  BY <1>10, <1>11 DEF LookupOf, ix, f
<1> QED
  BY <1>7, <1>12

\* The filters that have an index, of a record that all lookups found.
LEMMA FoundAnswers ==
    ASSUME Base, OrderedBounds, SetsGood, Lookups = DOMAIN sets,
           NEW c \in Found, NEW i \in DOMAIN query.filters, plan.filter[i] # {}
    PROVE  Answers(c, i)
<1> SUFFICES ASSUME ~ Lost(i) PROVE Answers(c, i)
  BY DEF Answers
<1>1. PICK j \in Lookups : j = i \/ (plan.usage[i] = "metadata" /\ plan.filter[i] = plan.filter[j])
  <2>1. plan.usage[i] \in {"lookup", "metadata"}
    BY PlanIs
  <2> QED
    BY <2>1 DEF Lost, Lookups
<1>2. PICK e \in sets[j] : e.child = c
  BY DEF Found
<1>3. PICK s \in seen : EntryFrom(IndexOf(j), e, s) /\ PassedBy(j, s[2])
  BY <1>1, <1>2 DEF SetsGood
<1>4. IsIndex(IndexOf(j))
  <2>1. j \in DOMAIN query.filters /\ plan.usage[j] = "lookup"
    BY DEF Lookups
  <2> QED
    BY <2>1, PlanIs
<1>5. s[1] = c /\ s[2] \in Records
  BY <1>2, <1>3, <1>4, EntryIs
<1>6. Compare(query.filters[i].op, s[2][query.filters[i].key], query.filters[i].compare)
  BY <1>1, <1>3 DEF PassedBy
<1>7. TestNode(s[2], query.filters[i])
      \/ (query.filters[i].op \in NullOperators /\ s[2][query.filters[i].key] = Missing)
  BY <1>5, <1>6, QueryOfFilters, ComparedIs DEF Records
<1>8. CASE TestNode(s[2], query.filters[i])
  BY <1>5, <1>8 DEF Answers, Met
<1>9. CASE query.filters[i].op \in NullOperators /\ s[2][query.filters[i].key] = Missing
  BY <1>5, <1>9 DEF Answers, ByNull, NullOperators
<1> QED
  BY <1>7, <1>8, <1>9

\* And of a record that is scanned.
LEMMA ListedAnswers ==
    ASSUME Base, OrderedBounds, SetsGood, Lookups = DOMAIN sets,
           ~ (Lookups # {} /\ ScanFilters = {}), NEW c \in Listed
    PROVE  HalfAnswered(c)
<1> SUFFICES ASSUME NEW i \in DOMAIN query.filters, plan.filter[i] # {}
             PROVE  Answers(c, i)
  BY DEF HalfAnswered
<1>1. CASE Lookups = {}
  <2>1. plan.usage[i] \in {"lookup", "metadata"} /\ i \notin Lookups
    BY <1>1, PlanIs
  <2>2. Lost(i)
    BY <1>1, <2>1 DEF Lost, Lookups
  <2> QED
    BY <2>2 DEF Answers
<1>2. CASE Lookups # {} /\ Found = {}
  BY <1>2 DEF Answers, Emptied
<1>3. CASE Lookups # {} /\ Found # {}
  <2>1. c \in Found
    BY <1>3 DEF Listed, KeyFilter
  <2> QED
    BY <2>1, FoundAnswers
<1> QED
  BY <1>1, <1>2, <1>3

LEMMA MatchAnswers ==
    ASSUME Base, NEW c \in Children, HalfAnswered(c), Holds(data[c], Scanned)
    PROVE  Answered(c)
<1> SUFFICES ASSUME NEW i \in DOMAIN query.filters, plan.filter[i] = {}
             PROVE  Answers(c, i)
  BY DEF Answered, HalfAnswered
<1>1. query.filters[i] \in Scanned
  BY DEF Scanned, ScanFilters
<1>2. TestNode(data[c], query.filters[i]) /\ <<c, data[c]>> \in seen
  BY <1>1 DEF Holds, Base
<1> QED
  BY <1>2 DEF Answers, Met

\* What a record that meets all filters all the time is now.
LEMMA AlwaysIs ==
    ASSUME Base, NEW c \in Children, Always(c)
    PROVE  data[c] # NoRecord /\ Holds(data[c], Scanned)
<1>1. Satisfies(data[c], query.filters)
  BY DEF Base, Always
<1>2. \A i \in ScanFilters : query.filters[i] \in Range(query.filters)
  BY DEF ScanFilters, Range
<1> QED
  BY <1>1, <1>2 DEF Satisfies, Holds, Scanned

-----------------------------------------------------------------------------
\* The results.

LEMMA AnswerOf ==
    ASSUME IsQuery(query), NEW t \in Seq(Matches)
    PROVE  /\ Window(t) \in Seq(Matches) /\ Kids(Window(t)) \subseteq Kids(t)
           /\ Whole => Kids(Window(t)) = Kids(t)
<1>1. Window(t) \in Seq(Matches) /\ Range(Window(t)) \subseteq Range(t) /\ (Whole => Window(t) = t)
  BY WindowIs DEF Whole
<1> QED
  BY <1>1 DEF Kids

LEMMA AnswerIs ==
    ASSUME IsQuery(query), NEW s \in Seq(Matches)
    PROVE  /\ Window(Sorted(s)) \in Seq(Matches) /\ Kids(Window(Sorted(s))) \subseteq Kids(s)
           /\ Whole => Kids(Window(Sorted(s))) = Kids(s)
           /\ Window(SortMatches(s)) \in Seq(Matches) /\ Kids(Window(SortMatches(s))) \subseteq Kids(s)
           /\ Whole => Kids(Window(SortMatches(s))) = Kids(s)
<1>1. Sorted(s) \in Seq(Matches) /\ Kids(Sorted(s)) = Kids(s)
  BY TossedIs DEF Kids
<1>2. SortMatches(s) \in Seq(Matches) /\ Kids(SortMatches(s)) = Kids(s)
  BY SortKeeps DEF Kids
<1> QED
  BY <1>1, <1>2, AnswerOf

LEMMA PushedIs ==
    ASSUME IsQuery(query), NEW s \in Seq(Matches), NEW m \in Matches
    PROVE  /\ Tossed(Append(s, m)) \in Seq(Matches)
           /\ Kids(Tossed(Append(s, m))) \subseteq Kids(s) \union {m.child}
           /\ Take = 0 => Kids(Tossed(Append(s, m))) = Kids(s) \union {m.child}
           /\ TossedLoad(Append(s, m)) \in Seq(Matches)
           /\ Kids(TossedLoad(Append(s, m))) \subseteq Kids(s) \union {m.child}
           /\ query.skip = 0 => Kids(TossedLoad(Append(s, m))) = Kids(s) \union {m.child}
<1> DEFINE t == Append(s, m)
<1>1. /\ t \in Seq(Matches) /\ Len(t) = Len(s) + 1 /\ t[Len(s) + 1] = m
      /\ \A n \in 1..Len(s) : t[n] = s[n]
  OBVIOUS
<1>2. DOMAIN s = 1..Len(s) /\ Len(s) \in Nat
  OBVIOUS
<1> HIDE DEF t
<1>3. DOMAIN t = 1..(Len(s) + 1)
  BY <1>1
<1>4. Range(t) = Range(s) \union {m}
  <2>1. \A n \in DOMAIN t : t[n] \in Range(s) \union {m}
    <3> SUFFICES ASSUME NEW n \in DOMAIN t PROVE t[n] \in Range(s) \union {m}
      OBVIOUS
    <3>1. n \in 1..Len(s) \/ n = Len(s) + 1
      BY <1>2, <1>3
    <3> QED
      BY <3>1, <1>1, <1>2 DEF Range
  <2>2. Len(s) + 1 \in DOMAIN t /\ \A n \in DOMAIN s : n \in DOMAIN t /\ t[n] = s[n]
    BY <1>1, <1>2, <1>3
  <2> QED
    BY <2>1, <2>2, <1>1 DEF Range
<1>5. Kids(t) = Kids(s) \union {m.child}
  BY <1>4 DEF Kids
<1>6. /\ Tossed(t) \in Seq(Matches) /\ Range(Tossed(t)) \subseteq Range(t)
      /\ Take = 0 => Tossed(t) = t
      /\ TossedLoad(t) \in Seq(Matches) /\ Range(TossedLoad(t)) \subseteq Range(t)
      /\ query.skip = 0 => TossedLoad(t) = t
  BY <1>1, TossedIs
<1>7. Kids(Tossed(t)) \subseteq Kids(t) /\ Kids(TossedLoad(t)) \subseteq Kids(t)
  BY <1>6 DEF Kids
<1> QED
  BY <1>5, <1>6, <1>7 DEF t

\* What the indexes say of the records that all lookups found.
LEMMA KnownIs ==
    ASSUME QueryAssumption, Base, SetsGood, Lookups = DOMAIN sets
    PROVE  /\ \A c \in Found : Known(c) \in Matches /\ Known(c).child = c
           /\ IsFiniteSet(Found)
<1>1. ASSUME NEW c \in Found
      PROVE  Known(c) \in Matches /\ Known(c).child = c
  <2> DEFINE by(k) == {i \in Lookups : k \in KeysFor(IndexOf(i))}
             entry(i) == CHOOSE e \in sets[i] : e.child = c
             val(i, k) == IF k = IndexOf(i).key THEN entry(i).key ELSE entry(i).meta[k]
             choice(k) == CHOOSE i \in by(k) : TRUE
  <2>1. ASSUME NEW i \in Lookups, NEW k \in Keys, k \in KeysFor(IndexOf(i))
        PROVE  val(i, k) \in Nat
    <3> DEFINE e == entry(i)
    <3>1. e \in sets[i]
      BY DEF Found
    <3>2. PICK s \in seen : EntryFrom(IndexOf(i), e, s)
      BY <3>1 DEF SetsGood
    <3>3. IsIndex(IndexOf(i))
      BY PlanIs DEF Lookups
    <3> HIDE DEF e
    <3>4. /\ s[2] \in Records /\ e.key = s[2][IndexOf(i).key]
          /\ \A x \in IndexOf(i).include : e.meta[x] = s[2][x]
      BY <3>2, <3>3, EntryIs
    <3>5. (IF k = IndexOf(i).key THEN e.key ELSE e.meta[k]) \in Nat
      BY <2>1, <3>4 DEF KeysFor, Records
    <3> QED
      BY <3>5 DEF e
  <2>2. Known(c) = [child |-> c, val |-> [k \in Keys |-> IF by(k) = {} THEN Missing ELSE val(choice(k), k)]]
    BY DEF Known
  <2>3. ASSUME NEW k \in Keys, by(k) # {}
        PROVE  choice(k) \in Lookups /\ k \in KeysFor(IndexOf(choice(k)))
    <3>1. choice(k) \in by(k)
      BY <2>3
    <3> QED
      BY <3>1
  <2> HIDE DEF by, val, choice
  <2>4. \A k \in Keys : (IF by(k) = {} THEN Missing ELSE val(choice(k), k)) \in Nat
    BY <2>1, <2>3 DEF Missing
  <2>5. c \in Children
    BY DEF Found
  <2> QED
    BY <2>2, <2>4, <2>5 DEF Matches
<1>2. Found \in SUBSET Nat /\ IsFiniteSet(Found)
  <2>1. Found \in SUBSET Children
    BY DEF Found
  <2>2. Children \subseteq Nat /\ IsFiniteSet(Children)
    BY DEF QueryAssumption
  <2> QED
    BY <2>1, <2>2, FS_Subset
<1> QED
  BY <1>1, <1>2

\* Each of them is in every order of them.
LEMMA KnownOrdersAre ==
    ASSUME QueryAssumption, Base, SetsGood, Lookups = DOMAIN sets, NEW t \in KnownOrders
    PROVE  /\ t \in Seq(Matches) /\ Kids(t) = Found /\ Apart(t)
           /\ \A n \in DOMAIN t : \E c \in Found : t[n] = Known(c)
           /\ ~ Undecided({Known(c) : c \in Found}) =>
                \A i, j \in 1..Len(t) : i < j => ~ Precedes(t[j], t[i])
<1> DEFINE S == {Known(c) : c \in Found}
           pairs == {x \in S \X S : Precedes(x[1], x[2])}
           before == IF Undecided(S) THEN {} ELSE pairs
<1>1. /\ \A c \in Found : Known(c) \in Matches /\ Known(c).child = c
      /\ IsFiniteSet(Found)
  BY KnownIs
<1>2. IsFiniteSet(S)
  <2> DEFINE f == [c \in Found |-> Known(c)]
  <2>1. f \in Surjection(Found, S)
    <3>1. f \in [Found -> S] /\ \A m \in S : \E c \in Found : f[c] = m
      OBVIOUS
    <3> HIDE DEF f, S
    <3> QED
      BY <3>1 DEF Surjection
  <2> HIDE DEF f, S
  <2> QED
    BY <1>1, <2>1, FS_Surjection
<1>3. t \in Orders(S, before)
  BY DEF KnownOrders
<1>4. \A x, y \in S : <<x, y>> \in pairs <=> Precedes(x, y)
  OBVIOUS
<1>5. \A m \in S : m \in Matches /\ \E c \in Found : m = Known(c) /\ m.child = c
  BY <1>1
<1>6. \A c \in Found : Known(c) \in S
  OBVIOUS
<1> HIDE DEF S, pairs, before
<1>7. /\ t \in Seq(S) /\ Range(t) = S
      /\ \A i, j \in 1..Len(t) : t[i] = t[j] => i = j
      /\ \A i, j \in 1..Len(t) : i < j => <<t[j], t[i]>> \notin before
  BY <1>2, <1>3, OrdersAre
<1>8. DOMAIN t = 1..Len(t) /\ Len(t) \in Nat /\ \A n \in DOMAIN t : t[n] \in S
  BY <1>7
<1>9. t \in Seq(Matches)
  BY <1>5, <1>7, <1>8
<1>10. Kids(t) = Found
  <2>1. \A m \in S : m.child \in Found
    BY <1>5
  <2>2. \A c \in Found : \E m \in S : m.child = c
    BY <1>1, <1>6
  <2> QED
    BY <1>7, <2>1, <2>2 DEF Kids
<1>11. Apart(t)
  <2>1. \A x, y \in S : x.child = y.child => x = y
    BY <1>5
  <2> QED
    BY <1>7, <1>8, <2>1 DEF Apart
<1>12. ~ Undecided(S) => \A i, j \in 1..Len(t) : i < j => ~ Precedes(t[j], t[i])
  BY <1>4, <1>7, <1>8 DEF before
<1> QED
  BY <1>5, <1>8, <1>9, <1>10, <1>11, <1>12 DEF S

-----------------------------------------------------------------------------
\* The steps.

\* Steps that leave the query, its plan and the lookups' results alone.
Still == UNCHANGED <<query, plan, sets>> /\ seen \subseteq seen'

LEMMA StillKeeps ==
    ASSUME Still, SetsGood
    PROVE  /\ SetsGood' /\ Lookups' = Lookups /\ Whole' = Whole
           /\ \A c : Answered(c) => Answered(c)'
           /\ \A c : HalfAnswered(c) => HalfAnswered(c)'
           /\ \A c : Always(c)' => Always(c)
<1>1. Lookups' = Lookups /\ ScanFilters' = ScanFilters /\ Found' = Found
  BY DEF Still, Lookups, ScanFilters, Found
<1>2. Whole' = Whole
  BY DEF Still, Whole, Unlisted, Take
<1>3. ASSUME NEW c, NEW i, Answers(c, i)
      PROVE  Answers(c, i)'
  <2>1. Lost(i)' = Lost(i) /\ Emptied' = Emptied
    BY <1>1 DEF Still, Lost, Emptied
  <2>2. Met(c, i) => Met(c, i)'
    BY DEF Still, Met, TestNode
  <2>3. ByNull(c, query.filters[i]) => ByNull(c, query.filters[i])'
    BY DEF Still, ByNull
  <2> QED
    BY <1>3, <2>1, <2>2, <2>3 DEF Answers, Still
<1>4. \A c : Always(c)' => Always(c)
  BY DEF Always, Still, Satisfies, Holds, TestNode
<1>5. SetsGood'
  <2>1. \A i : IndexOf(i)' = IndexOf(i)
    BY DEF Still, IndexOf
  <2>2. \A i, r : PassedBy(i, r)' = PassedBy(i, r)
    BY DEF Still, PassedBy
  <2>3. \A ix, e, s : EntryFrom(ix, e, s)' = EntryFrom(ix, e, s)
    BY DEF EntryFrom, EntryOf
  <2>4. \A i, e, s : (EntryFrom(IndexOf(i), e, s) /\ PassedBy(i, s[2]))'
                     = (EntryFrom(IndexOf(i), e, s) /\ PassedBy(i, s[2]))
    BY <2>1, <2>2 DEF EntryFrom, EntryOf
  <2>5. sets' = sets /\ seen \subseteq seen'
    BY DEF Still
  <2>6. DOMAIN sets' \subseteq Lookups'
    BY <1>1, <2>5 DEF SetsGood
  <2>7. ASSUME NEW i \in DOMAIN sets, NEW e \in sets[i]
        PROVE  \E s \in seen' : (EntryFrom(IndexOf(i), e, s) /\ PassedBy(i, s[2]))'
    <3>1. PICK s \in seen : EntryFrom(IndexOf(i), e, s) /\ PassedBy(i, s[2])
      BY DEF SetsGood
    <3> QED
      BY <3>1, <2>4, <2>5
  <2> QED
    BY <2>5, <2>6, <2>7 DEF SetsGood
<1>6. \A c : Answered(c) => Answered(c)'
  BY <1>3 DEF Answered, Still
<1>7. \A c : HalfAnswered(c) => HalfAnswered(c)'
  BY <1>3 DEF HalfAnswered, Still
<1> QED
  BY <1>1, <1>2, <1>4, <1>5, <1>6, <1>7

LEMMA BaseStarts ==
    ASSUME QueryAssumption, Init
    PROVE  Base
<1>1. PICK indexes \in IndexSets :
        /\ lag = [ix \in indexes |-> {}]
        /\ \E built \in BOOLEAN :
              bare = [ix \in indexes |->
                  IF ~ built THEN {} ELSE {EntryOf(ix, c, data[c]) :
                      c \in {x \in Children : data[x] # NoRecord /\ data[x][ix.key] = Missing}}]
  BY DEF Init
<1>2. DOMAIN lag = indexes /\ \A ix \in indexes : lag[ix] = {} /\ IsIndex(ix)
  BY <1>1 DEF QueryAssumption
<1>3. IsQuery(query) /\ query \in Queries
  BY DEF Init, QueryAssumption
<1>4. PlanGood(query, DOMAIN lag, plan)
  <2>1. Len(query.filters) \in Nat /\ DOMAIN query.filters = 1..Len(query.filters)
    BY <1>3, QueryTyped
  <2>2. plan = PlanOf(query, DOMAIN lag)
    BY DEF Init
  <2> QED
    BY <2>1, <2>2, PlanIsGood
<1>5. data \in [Children -> Records]
  BY DEF Init, QueryAssumption, Records
<1>6. seen = {<<c, data[c]>> : c \in Children}
  BY DEF Init
<1>7. seen \subseteq Children \X Records /\ \A c \in Children : <<c, data[c]>> \in seen
  BY <1>5, <1>6
<1>8. ASSUME NEW ix \in DOMAIN lag, NEW e \in bare[ix]
      PROVE  \E s \in seen : EntryFrom(ix, e, s) /\ s[2][ix.key] = Missing
  <2>1. PICK c \in Children : e = EntryOf(ix, c, data[c]) /\ data[c][ix.key] = Missing
    BY <1>1, <1>2
  <2>2. <<c, data[c]>>[1] = c /\ <<c, data[c]>>[2] = data[c]
    OBVIOUS
  <2> QED
    BY <1>7, <2>1, <2>2 DEF EntryFrom
<1>9. step = "lookup"
  BY DEF Init
<1> QED
  BY <1>2, <1>3, <1>4, <1>5, <1>7, <1>8, <1>9 DEF Base

LEMMA BaseKept ==
    ASSUME QueryAssumption, Base, [Next]_vars
    PROVE  Base'
<1>1. ASSUME UNCHANGED <<data, lag, bare, query, plan, seen>>,
             step' \in {"lookup", "scan", "load", "reload", "done", "failed", "empty"}
      PROVE  Base'
  BY <1>1 DEF Base, PlanGood, IsQuery, EntryFrom, EntryOf
<1>2. ASSUME NEW i \in DOMAIN query.filters, Lookup(i)
      PROVE  Base'
  BY <1>1, <1>2 DEF Lookup, Base
<1>3. CASE IndexTake
  <2>1. UNCHANGED <<data, lag, bare, query, plan, seen>> /\ step' \in {"reload", "done"}
    BY <1>3 DEF IndexTake
  <2> QED
    BY <1>1, <2>1
<1>4. CASE Merge
  <2>1. UNCHANGED <<data, lag, bare, query, plan, seen>> /\ step' \in {"reload", "done", "load", "scan"}
    BY <1>4 DEF Merge
  <2> QED
    BY <1>1, <2>1
<1>5. CASE FinishScan \/ FinishLoad \/ FinishReload
  <2>1. UNCHANGED <<data, lag, bare, query, plan, seen>> /\ step' \in {"reload", "done"}
    BY <1>5 DEF FinishScan, FinishLoad, FinishReload
  <2> QED
    BY <1>1, <2>1
<1>6. ASSUME NEW c \in Children, Match(c) \/ LoadValue(c) \/ LoadResult(c) \/ Reload(c)
      PROVE  Base'
  <2>1. UNCHANGED <<data, lag, bare, query, plan, seen>> /\ step' \in {step, "failed", "empty"}
    BY <1>6 DEF Match, MatchFails, Empty, LoadValue, LoadResult, Reload
  <2>2. step \in {"lookup", "scan", "load", "reload", "done", "failed", "empty"}
    BY DEF Base
  <2> QED
    BY <1>1, <2>1, <2>2
<1>7. ASSUME NEW c \in Children, NEW record \in UNION {Range(d) : d \in Databases}, Write(c, record)
      PROVE  Base'
  <2>1. record \in Records
    <3>1. PICK d \in Databases : record \in Range(d)
      OBVIOUS
    <3>2. d \in [Children -> Records]
      BY DEF QueryAssumption, Records
    <3> QED
      BY <3>1, <3>2 DEF Range
  <2>2. /\ data' = [data EXCEPT ![c] = record]
        /\ lag' = [ix \in DOMAIN lag |-> lag[ix] \union {[child |-> c, was |-> Indexed(ix, c)]}]
        /\ seen' = seen \union {<<c, record>>}
        /\ UNCHANGED <<bare, query, plan, step>>
    BY <1>7 DEF Write
  <2>3. data' \in [Children -> Records]
    BY <2>1, <2>2 DEF Base
  <2>4. seen' \subseteq Children \X Records
    BY <2>1, <2>2 DEF Base
  <2>5. \A x \in Children : <<x, data'[x]>> \in seen'
    BY <2>2 DEF Base
  <2>6. ASSUME NEW ix \in DOMAIN lag, NEW l \in lag'[ix]
        PROVE  <<l.child, l.was>> \in seen'
    <3>1. l \in lag[ix] \/ (l.child = c /\ l.was = Indexed(ix, c))
      BY <2>2
    <3>2. <<c, Indexed(ix, c)>> \in seen
      BY EntriesFrom
    <3> QED
      BY <2>2, <3>1, <3>2 DEF Base
  <2>7. ASSUME NEW ix \in DOMAIN lag, NEW e \in bare[ix]
        PROVE  \E s \in seen' : EntryFrom(ix, e, s) /\ s[2][ix.key] = Missing
    BY <2>2 DEF Base
  <2>8. DOMAIN lag' = DOMAIN lag
    BY <2>2
  <2>9. IsQuery(query)' /\ PlanGood(query, DOMAIN lag, plan)'
    BY <2>2, <2>8 DEF Base, IsQuery, PlanGood
  <2>10. \A ix \in DOMAIN lag : \A e \in bare[ix] : \E s \in seen' : EntryFrom(ix, e, s)' /\ s[2][ix.key] = Missing
    BY <2>7 DEF EntryFrom, EntryOf
  <2>11. bare' = bare /\ query' = query /\ step' = step
    BY <2>2
  <2> QED
    BY <2>3, <2>4, <2>5, <2>6, <2>8, <2>9, <2>10, <2>11 DEF Base
<1>8. ASSUME NEW ix \in DOMAIN lag, UpdateIndex(ix)
      PROVE  Base'
  <2>1. UNCHANGED <<data, bare, query, plan, step, seen>> /\ lag' = [lag EXCEPT ![ix] = {}]
    BY <1>8 DEF UpdateIndex
  <2>2. DOMAIN lag' = DOMAIN lag /\ \A x \in DOMAIN lag : lag'[x] \subseteq lag[x]
    BY <2>1
  <2> QED
    BY <2>1, <2>2 DEF Base, PlanGood, IsQuery, EntryFrom, EntryOf
<1>9. CASE Stop \/ UNCHANGED vars
  BY <1>1, <1>9 DEF Stop, vars, Base
<1>10. CASE ListingFails
  BY <1>1, <1>10 DEF ListingFails, Empty
<1> QED
  BY <1>2, <1>3, <1>4, <1>5, <1>6, <1>7, <1>8, <1>9, <1>10 DEF Next

LEMMA RestStarts ==
    ASSUME Init
    PROVE  Rest
<1>1. step = "lookup" /\ sets = <<>> /\ todo = {} /\ loading = {} /\ matches = <<>>
  BY DEF Init
<1>2. DOMAIN sets = {} /\ Kids(matches) = {}
  BY <1>1 DEF Kids, Range
<1>3. SetsGood /\ Typed
  BY <1>1, <1>2 DEF SetsGood, Typed
<1>4. AllSound /\ AllComplete
  BY <1>1, <1>2 DEF AllSound, AllComplete, Kept
<1> QED
  BY <1>3, <1>4 DEF Rest

LEMMA LookupKept ==
    ASSUME Base, OrderedBounds, Rest, NEW i \in DOMAIN query.filters, Lookup(i)
    PROVE  Rest'
<1>1. /\ step = "lookup" /\ i \in Lookups \ DOMAIN sets
      /\ sets' = [j \in DOMAIN sets \union {i} |-> IF j = i THEN LookupOf(i) ELSE sets[j]]
      /\ UNCHANGED <<data, lag, bare, query, plan, step, todo, loading, matches, seen>>
  BY DEF Lookup
<1>2. /\ DOMAIN sets' = DOMAIN sets \union {i}
      /\ sets'[i] = LookupOf(i) /\ \A j \in DOMAIN sets : j # i /\ sets'[j] = sets[j]
  BY <1>1
<1>3. Lookups' = Lookups
  BY <1>1 DEF Lookups
<1>4. DOMAIN sets' \subseteq Lookups
  BY <1>1, <1>2 DEF Rest, SetsGood
<1>5. ASSUME NEW j \in DOMAIN sets', NEW e \in sets'[j]
      PROVE  \E s \in seen : EntryFrom(IndexOf(j), e, s) /\ PassedBy(j, s[2])
  <2>1. CASE j = i
    <3>1. i \in Lookups /\ e \in LookupOf(i)
      BY <1>1, <1>2, <2>1
    <3> QED
      BY <2>1, <3>1, LookupFinds
  <2>2. CASE j # i
    <3>1. j \in DOMAIN sets /\ e \in sets[j]
      BY <1>2, <2>2
    <3> QED
      BY <3>1 DEF Rest, SetsGood
  <2> QED
    BY <2>1, <2>2
<1>6. SetsGood'
  <2>1. \A j, e, s : (EntryFrom(IndexOf(j), e, s) /\ PassedBy(j, s[2]))'
                     = (EntryFrom(IndexOf(j), e, s) /\ PassedBy(j, s[2]))
    BY <1>1 DEF EntryFrom, EntryOf, IndexOf, PassedBy
  <2>2. seen' = seen
    BY <1>1
  <2> QED
    BY <1>3, <1>4, <1>5, <2>1, <2>2 DEF SetsGood
<1>7. step' = "lookup" /\ matches' = <<>> /\ todo' = {} /\ loading' = {}
  BY <1>1 DEF Rest, Typed
<1>8. Typed'
  BY <1>7 DEF Typed
<1>9. AllSound'
  <2>1. Kids(matches)' = {}
    BY <1>7 DEF Kids, Range
  <2> QED
    BY <1>7, <2>1 DEF AllSound
<1>10. ASSUME Whole', NEW c \in Children, Always(c)'
       PROVE  \A j \in DOMAIN sets' : \E e \in sets'[j] : e.child = c
  <2>1. Whole /\ Always(c)
    BY <1>1, <1>10 DEF Whole, Unlisted, Take, Always, Satisfies, Holds, TestNode
  <2>2. \A j \in DOMAIN sets : \E e \in sets[j] : e.child = c
    BY <1>1, <2>1 DEF Rest, AllComplete, Kept
  <2>3. \E e \in LookupOf(i) : e.child = c
    <3>1. ~ Unlisted(i) /\ i \in Lookups
      BY <1>1, <2>1 DEF Whole
    <3> QED
      BY <2>1, <3>1, LookupKeeps
  <2> QED
    BY <1>2, <2>2, <2>3
<1>11. AllComplete'
  BY <1>7, <1>10 DEF AllComplete, Kept
<1> QED
  BY <1>6, <1>8, <1>9, <1>11 DEF Rest

LEMMA MergeKept ==
    ASSUME QueryAssumption, Base, OrderedBounds, Rest, Merge
    PROVE  Rest'
<1> DEFINE indexed == Lookups # {} /\ ScanFilters = {}
           answers == {Window(t) : t \in KnownOrders}
<1>1. /\ step = "lookup" /\ Lookups = DOMAIN sets
      /\ UNCHANGED <<query, plan, sets, loading, seen, data>>
  BY DEF Merge
<1>2. /\ matches = <<>> /\ todo = {} /\ loading = {}
      /\ Kids(matches) = {}
  BY <1>1 DEF Rest, Typed, Kids, Range
<1>4. ASSUME NEW known \in answers
      PROVE  known \in Seq(Matches) /\ Kids(known) \subseteq Found /\ (Whole => Kids(known) = Found)
  <2>1. PICK t \in KnownOrders : known = Window(t)
    OBVIOUS
  <2>2. t \in Seq(Matches) /\ Kids(t) = Found
    BY <1>1, KnownOrdersAre DEF Rest
  <2>3. IsQuery(query)
    BY DEF Base
  <2> QED
    BY <2>1, <2>2, <2>3, AnswerOf
<1>5. \/ /\ indexed /\ matches' \in answers
         /\ todo' \subseteq Kids(matches')
         /\ step' \in {"reload", "done"}
      \/ /\ indexed /\ todo' = Found /\ step' = "load" /\ matches' = matches
      \/ /\ ~ indexed /\ todo' = Listed /\ step' = "scan" /\ matches' = matches
  BY DEF Merge, Kids
<1> HIDE DEF answers
<1>6. Still
  BY <1>1 DEF Still
<1>7. /\ SetsGood' /\ Lookups' = Lookups /\ Whole' = Whole
      /\ \A c : Answered(c) => Answered(c)'
      /\ \A c : HalfAnswered(c) => HalfAnswered(c)'
      /\ \A c : Always(c)' => Always(c)
  BY <1>6, StillKeeps DEF Rest
<1>8. Found \subseteq Children /\ Listed \subseteq Children
  BY DEF Found, Listed, Existing
<1>9. indexed => \A c \in Found : Answered(c)
  <2> SUFFICES ASSUME indexed, NEW c \in Found, NEW i \in DOMAIN query.filters
               PROVE  Answers(c, i)
    BY DEF Answered
  <2>1. plan.filter[i] # {}
    BY DEF ScanFilters
  <2> QED
    BY <1>1, <2>1, FoundAnswers DEF Rest
<1>10. ~ indexed => \A c \in Listed : HalfAnswered(c)
  BY <1>1, ListedAnswers DEF Rest
<1>11. Whole => \A c \in Children : Always(c) => c \in Found /\ c \in Listed
  <2> SUFFICES ASSUME Whole, NEW c \in Children, Always(c)
               PROVE  c \in Found /\ c \in Listed
    OBVIOUS
  <2>1. \A i \in DOMAIN sets : \E e \in sets[i] : e.child = c
    BY <1>1 DEF Rest, AllComplete, Kept
  <2>2. c \in Found
    BY <1>1, <2>1 DEF Found
  <2>3. c \in Existing
    BY AlwaysIs DEF Existing
  <2> QED
    BY <2>2, <2>3 DEF Listed, KeyFilter
<1>12. CASE /\ indexed /\ matches' \in answers
            /\ todo' \subseteq Kids(matches')
            /\ step' \in {"reload", "done"}
  <2>1. step' \in {"reload", "done"} /\ loading' = {}
    BY <1>1, <1>2, <1>12
  <2>2. Kids(matches)' = Kids(matches')
    BY DEF Kids
  <2>3. /\ matches' \in Seq(Matches) /\ Kids(matches') \subseteq Found /\ (Whole => Kids(matches') = Found)
        /\ todo' \subseteq Children
    BY <1>4, <1>8, <1>12
  <2>4. Typed'
    BY <1>12, <2>1, <2>3 DEF Typed
  <2>5. AllSound'
    BY <1>7, <1>9, <1>12, <2>1, <2>2, <2>3 DEF AllSound
  <2>6. AllComplete'
    BY <1>7, <1>11, <2>1, <2>2, <2>3 DEF AllComplete, Kept
  <2> QED
    BY <1>7, <2>4, <2>5, <2>6 DEF Rest
<1>13. CASE indexed /\ todo' = Found /\ step' = "load" /\ matches' = matches
  <2>1. loading' = {} /\ Kids(matches)' = {} /\ matches' = <<>>
    BY <1>1, <1>2, <1>13 DEF Kids
  <2>2. Typed'
    BY <1>1, <1>7, <1>8, <1>13, <2>1 DEF Typed
  <2>3. AllSound'
    BY <1>7, <1>9, <1>13, <2>1 DEF AllSound
  <2>4. AllComplete'
    BY <1>7, <1>11, <1>13 DEF AllComplete, Kept
  <2> QED
    BY <1>7, <2>2, <2>3, <2>4 DEF Rest
<1>14. CASE ~ indexed /\ todo' = Listed /\ step' = "scan" /\ matches' = matches
  <2>1. loading' = {} /\ Kids(matches)' = {} /\ matches' = <<>>
    BY <1>1, <1>2, <1>14 DEF Kids
  <2>2. Typed'
    BY <1>1, <1>7, <1>8, <1>14, <2>1 DEF Typed
  <2>3. AllSound'
    BY <1>7, <1>10, <1>14, <2>1 DEF AllSound
  <2>4. AllComplete'
    BY <1>7, <1>11, <1>14 DEF AllComplete, Kept
  <2> QED
    BY <1>7, <2>2, <2>3, <2>4 DEF Rest
<1> QED
  BY <1>5, <1>12, <1>13, <1>14

LEMMA PushKept ==
    ASSUME Base, Rest, Still, step = "scan", step' = step, NEW c \in Children, Answered(c),
           NEW v \in Records, Push([child |-> c, val |-> v]), loading' \in {loading, loading \ {c}}
    PROVE  Rest'
<1> DEFINE m == [child |-> c, val |-> v]
           t == Tossed(Append(matches, m))
<1>1. /\ SetsGood' /\ Lookups' = Lookups /\ Whole' = Whole
      /\ \A x : Answered(x) => Answered(x)'
      /\ \A x : HalfAnswered(x) => HalfAnswered(x)'
      /\ \A x : Always(x)' => Always(x)
  BY StillKeeps DEF Rest
<1>2. m \in Matches /\ m.child = c
  BY DEF Matches, Records
<1>3. matches' = t /\ todo' \subseteq todo /\ (Take = 0 => todo' = todo \ {c})
  BY <1>2 DEF Push
<1> HIDE DEF m
<1>4. t \in Seq(Matches) /\ Kids(t) \subseteq Kids(matches) \union {c}
      /\ (Take = 0 => Kids(t) = Kids(matches) \union {c})
  BY <1>2, PushedIs DEF Base, Rest, Typed
<1> HIDE DEF t
<1>5. Kids(matches)' = Kids(t)
  BY <1>3 DEF Kids
<1>6. Typed'
  BY <1>1, <1>3, <1>4 DEF Rest, Typed, Still
<1>7. AllSound'
  BY <1>1, <1>3, <1>4, <1>5 DEF Rest, AllSound
<1>8. AllComplete'
  BY <1>1, <1>3, <1>4, <1>5 DEF Rest, AllComplete, Kept, Whole
<1> QED
  BY <1>1, <1>6, <1>7, <1>8 DEF Rest

\* An answer that an error has emptied.
LEMMA EmptyKept ==
    ASSUME Rest, Still, Empty, loading' = loading
    PROVE  Rest'
<1>1. /\ SetsGood' /\ Lookups' = Lookups /\ Whole' = Whole
      /\ \A x : Answered(x) => Answered(x)'
  BY StillKeeps DEF Rest
<1>2. step' = "empty" /\ matches' = <<>> /\ todo' = {}
  BY DEF Empty
<1>3. Kids(matches)' = {} /\ matches' \in Seq(Matches)
  BY <1>2 DEF Kids, Range
<1>4. Typed'
  BY <1>2, <1>3 DEF Rest, Typed
<1>5. AllSound'
  BY <1>1, <1>2, <1>3 DEF Rest, AllSound
<1>6. AllComplete'
  BY <1>2 DEF AllComplete, Kept
<1> QED
  BY <1>1, <1>4, <1>5, <1>6 DEF Rest

LEMMA MatchKept ==
    ASSUME Base, Rest, NEW c \in Children, Match(c)
    PROVE  Rest'
<1>1. step = "scan" /\ c \in todo /\ UNCHANGED <<data, query, plan, sets, seen>>
  BY DEF Match
<1>2. Still
  BY <1>1 DEF Still
<1>3. /\ SetsGood' /\ Lookups' = Lookups /\ Whole' = Whole
      /\ \A x : Answered(x) => Answered(x)'
      /\ \A x : HalfAnswered(x) => HalfAnswered(x)'
      /\ \A x : Always(x)' => Always(x)
  BY <1>2, StillKeeps DEF Rest
<1>4. Holds(data[c], Scanned) => Answered(c)
  BY <1>1, MatchAnswers DEF Rest, AllSound
<1>5. Always(c) => Holds(data[c], Scanned)
  BY AlwaysIs
<1>6. CASE step' = "failed" /\ todo' = {} /\ loading' = loading /\ matches' = matches
  <2>1. Kids(matches)' = Kids(matches)
    BY <1>6 DEF Kids
  <2>2. Typed'
    BY <1>6, <1>3 DEF Rest, Typed
  <2>3. AllSound'
    BY <1>3, <1>6, <2>1 DEF Rest, AllSound
  <2>4. AllComplete'
    BY <1>6 DEF AllComplete, Kept
  <2> QED
    BY <1>3, <2>2, <2>3, <2>4 DEF Rest
<1>7. CASE step' = step /\ ~ Holds(data[c], Scanned) /\ todo' = todo \ {c}
           /\ loading' = loading /\ matches' = matches
  <2>1. Kids(matches)' = Kids(matches)
    BY <1>7 DEF Kids
  <2>2. Typed'
    BY <1>1, <1>3, <1>7 DEF Rest, Typed
  <2>3. AllSound'
    BY <1>1, <1>3, <1>7, <2>1 DEF Rest, AllSound
  <2>4. AllComplete'
    BY <1>1, <1>3, <1>5, <1>7, <2>1 DEF Rest, AllComplete, Kept
  <2> QED
    BY <1>3, <2>2, <2>3, <2>4 DEF Rest
<1>8. CASE step' = step /\ Holds(data[c], Scanned) /\ todo' = todo \ {c}
           /\ loading' = loading \union {c} /\ matches' = matches
  <2>1. Kids(matches)' = Kids(matches)
    BY <1>8 DEF Kids
  <2>2. Typed'
    BY <1>1, <1>3, <1>8 DEF Rest, Typed
  <2>3. AllSound'
    BY <1>1, <1>3, <1>4, <1>8, <2>1 DEF Rest, AllSound
  <2>4. AllComplete'
    BY <1>1, <1>3, <1>8, <2>1 DEF Rest, AllComplete, Kept
  <2> QED
    BY <1>3, <2>2, <2>3, <2>4 DEF Rest
<1>9. CASE step' = step /\ Holds(data[c], Scanned) /\ loading' = loading
           /\ Push([child |-> c, val |-> NoRecord])
  <2>1. NoRecord \in Records
    BY DEF NoRecord, Records, Missing
  <2> QED
    BY <1>1, <1>2, <1>4, <1>9, <2>1, PushKept
<1>10. CASE Empty /\ loading' = loading
  BY <1>2, <1>10, EmptyKept
<1> QED
  BY <1>6, <1>7, <1>8, <1>9, <1>10 DEF Match, MatchFails

LEMMA LoadValueKept ==
    ASSUME Base, Rest, NEW c \in Children, LoadValue(c)
    PROVE  Rest'
<1>1. /\ step = "scan" /\ c \in loading /\ step' = step /\ loading' = loading \ {c}
      /\ Push([child |-> c, val |-> data[c]]) /\ UNCHANGED <<query, plan, sets, seen>>
  BY DEF LoadValue
<1>2. Still /\ Answered(c) /\ data[c] \in Records
  BY <1>1 DEF Still, Rest, AllSound, Base
<1> QED
  BY <1>1, <1>2, PushKept

\* The results are sorted, and skip and take leave the window.
LEMMA FinishKept ==
    ASSUME Base, Rest, FinishScan \/ FinishLoad
    PROVE  Rest'
<1> DEFINE t == IF step = "scan" THEN Window(Sorted(matches)) ELSE Window(SortMatches(matches))
<1>1. /\ step \in {"scan", "load"} /\ todo = {} /\ (step = "scan" => loading = {})
      /\ matches' = t /\ todo' \in {{}, {m.child : m \in Range(t)}} /\ step' \in {"done", "reload"}
      /\ loading' = loading /\ UNCHANGED <<query, plan, sets, seen>>
  BY DEF FinishScan, FinishLoad
<1>2. t \in Seq(Matches) /\ Kids(t) \subseteq Kids(matches) /\ (Whole => Kids(t) = Kids(matches))
  BY AnswerIs DEF Base, Rest, Typed
<1> HIDE DEF t
<1>3. Still
  BY <1>1 DEF Still
<1>4. /\ SetsGood' /\ Whole' = Whole
      /\ \A x : Answered(x) => Answered(x)'
      /\ \A x : Always(x)' => Always(x)
  BY <1>3, StillKeeps DEF Rest
<1>5. Kids(matches)' = Kids(t) /\ todo' \subseteq Kids(t) /\ Kids(t) \subseteq Children
  BY <1>1, <1>2, KidsIs DEF Kids
<1>6. Typed'
  BY <1>1, <1>2, <1>5 DEF Rest, Typed
<1>7. AllSound'
  BY <1>1, <1>2, <1>4, <1>5 DEF Rest, AllSound
<1>8. AllComplete'
  BY <1>1, <1>2, <1>4, <1>5 DEF Rest, AllComplete, Kept
<1> QED
  BY <1>4, <1>6, <1>7, <1>8 DEF Rest

LEMMA LoadResultKept ==
    ASSUME Base, Rest, NEW c \in Children, LoadResult(c)
    PROVE  Rest'
<1> DEFINE m == [child |-> c, val |-> data[c]]
           t == IF data[c] = NoRecord THEN matches ELSE TossedLoad(Append(matches, m))
<1>1. /\ step = "load" /\ c \in todo /\ step' = step /\ todo' = todo \ {c}
      /\ matches' = t /\ loading' = loading /\ UNCHANGED <<query, plan, sets, seen>>
  BY DEF LoadResult
<1>2. m \in Matches /\ m.child = c
  BY DEF Matches, Base, Records
<1> HIDE DEF m
<1>3. /\ t \in Seq(Matches) /\ Kids(t) \subseteq Kids(matches) \union {c}
      /\ (query.skip = 0 => Kids(matches) \subseteq Kids(t) /\ (data[c] # NoRecord => c \in Kids(t)))
  <2>1. IsQuery(query) /\ matches \in Seq(Matches)
    BY DEF Base, Rest, Typed
  <2>2. CASE data[c] = NoRecord
    BY <2>1, <2>2
  <2>3. CASE data[c] # NoRecord
    <3>1. /\ TossedLoad(Append(matches, m)) \in Seq(Matches)
          /\ Kids(TossedLoad(Append(matches, m))) \subseteq Kids(matches) \union {c}
          /\ query.skip = 0 => Kids(TossedLoad(Append(matches, m))) = Kids(matches) \union {c}
      BY <2>1, <1>2, PushedIs
    <3>2. t = TossedLoad(Append(matches, m))
      BY <2>3
    <3> HIDE DEF t
    <3> QED
      BY <3>1, <3>2
  <2> QED
    BY <2>2, <2>3
<1> HIDE DEF t
<1>4. Still
  BY <1>1 DEF Still
<1>5. /\ SetsGood' /\ Lookups' = Lookups /\ Whole' = Whole
      /\ \A x : Answered(x) => Answered(x)'
      /\ \A x : Always(x)' => Always(x)
  BY <1>4, StillKeeps DEF Rest
<1>6. Kids(matches)' = Kids(t)
  BY <1>1 DEF Kids
<1>7. Typed'
  BY <1>1, <1>3, <1>5 DEF Rest, Typed
<1>8. AllSound'
  BY <1>1, <1>3, <1>5, <1>6 DEF Rest, AllSound
<1>9. AllComplete'
  <2>1. Always(c) => data[c] # NoRecord
    BY AlwaysIs
  <2> QED
    BY <1>1, <1>3, <1>5, <1>6, <2>1 DEF Rest, AllComplete, Kept, Whole
<1> QED
  BY <1>5, <1>7, <1>8, <1>9 DEF Rest

LEMMA ReloadKept ==
    ASSUME Base, Rest, NEW c \in Children, Reload(c)
    PROVE  Rest'
<1> DEFINE m == [child |-> c, val |-> data[c]]
           with == [n \in DOMAIN matches |-> IF matches[n].child = c THEN m ELSE matches[n]]
           t == IF data[c] = NoRecord THEN Without(matches, c) ELSE with
<1>1. /\ step = "reload" /\ step' = step /\ todo' = todo \ {c}
      /\ matches' = t /\ loading' = loading /\ UNCHANGED <<query, plan, sets, seen>>
  BY DEF Reload
<1>2. matches \in Seq(Matches)
  BY DEF Rest, Typed
<1>3. Without(matches, c) \in Seq(Matches) /\ Kids(Without(matches, c)) = Kids(matches) \ {c}
  BY <1>2, WithoutIs DEF Kids
<1>4. with \in Seq(Matches) /\ Kids(with) = Kids(matches)
  <2>1. m \in Matches /\ m.child = c
    BY DEF Matches, Base, Records
  <2> HIDE DEF m
  <2>2. DOMAIN matches = 1..Len(matches) /\ Len(matches) \in Nat /\ \A n \in DOMAIN matches : matches[n] \in Matches
    BY <1>2
  <2>3. \A n \in DOMAIN matches : with[n] \in Matches /\ with[n].child = matches[n].child
    BY <2>1, <2>2
  <2>4. DOMAIN with = DOMAIN matches
    OBVIOUS
  <2>5. with \in Seq(Matches)
    BY <2>1, <2>2
  <2> HIDE DEF with
  <2> QED
    BY <2>3, <2>4, <2>5 DEF Kids, Range
<1> HIDE DEF with
<1>5. /\ t \in Seq(Matches) /\ Kids(t) \subseteq Kids(matches)
      /\ Kids(matches) \ {c} \subseteq Kids(t) /\ (data[c] # NoRecord => Kids(t) = Kids(matches))
  BY <1>3, <1>4
<1> HIDE DEF t
<1>6. Still
  BY <1>1 DEF Still
<1>7. /\ SetsGood' /\ Whole' = Whole
      /\ \A x : Answered(x) => Answered(x)'
      /\ \A x : Always(x)' => Always(x)
  BY <1>6, StillKeeps DEF Rest
<1>8. Kids(matches)' = Kids(t)
  BY <1>1 DEF Kids
<1>9. Typed'
  BY <1>1, <1>5 DEF Rest, Typed
<1>10. AllSound'
  BY <1>1, <1>5, <1>7, <1>8 DEF Rest, AllSound
<1>11. AllComplete'
  <2>1. Always(c) => data[c] # NoRecord
    BY AlwaysIs
  <2> QED
    BY <1>1, <1>5, <1>7, <1>8, <2>1 DEF Rest, AllComplete, Kept
<1> QED
  BY <1>7, <1>9, <1>10, <1>11 DEF Rest

\* Steps that do not touch the results.
LEMMA AsideKept ==
    ASSUME Rest, Still, UNCHANGED <<todo, loading, matches>>,
           step' = step \/ (step = "reload" /\ step' = "done")
    PROVE  Rest'
<1>1. /\ SetsGood' /\ Lookups' = Lookups /\ Whole' = Whole
      /\ \A x : Answered(x) => Answered(x)'
      /\ \A x : HalfAnswered(x) => HalfAnswered(x)'
      /\ \A x : Always(x)' => Always(x)
  BY StillKeeps DEF Rest
<1>2. Kids(matches)' = Kids(matches)
  BY DEF Kids
<1>3. Typed'
  BY <1>1 DEF Rest, Typed, Still
<1>4. AllSound'
  BY <1>1, <1>2 DEF Rest, AllSound
<1>5. AllComplete'
  BY <1>1, <1>2 DEF Rest, AllComplete, Kept, Still
<1> QED
  BY <1>1, <1>3, <1>4, <1>5 DEF Rest

LEMMA RestKept ==
    ASSUME QueryAssumption, OrderedBounds, Base, Rest, ~ SortedByIndex, [Next]_vars
    PROVE  Rest'
<1>1. ASSUME NEW i \in DOMAIN query.filters, Lookup(i)
      PROVE  Rest'
  BY <1>1, LookupKept
<1>2. CASE IndexTake
  BY <1>2 DEF IndexTake
<1>3. CASE Merge
  BY <1>3, MergeKept
<1>4. CASE FinishScan \/ FinishLoad
  BY <1>4, FinishKept
<1>5. CASE FinishReload
  BY <1>5, AsideKept DEF FinishReload, Still
<1>6. ASSUME NEW c \in Children, Match(c) \/ LoadValue(c) \/ LoadResult(c) \/ Reload(c)
      PROVE  Rest'
  BY <1>6, MatchKept, LoadValueKept, LoadResultKept, ReloadKept
<1>7. ASSUME NEW c \in Children, NEW record \in UNION {Range(d) : d \in Databases}, Write(c, record)
      PROVE  Rest'
  BY <1>7, AsideKept DEF Write, Still
<1>8. ASSUME NEW ix \in DOMAIN lag, UpdateIndex(ix)
      PROVE  Rest'
  BY <1>8, AsideKept DEF UpdateIndex, Still
<1>9. CASE Stop \/ UNCHANGED vars
  BY <1>9, AsideKept DEF Stop, vars, Still
<1>10. CASE ListingFails
  BY <1>10, EmptyKept DEF ListingFails, Still
<1> QED
  BY <1>1, <1>2, <1>3, <1>4, <1>5, <1>6, <1>7, <1>8, <1>9, <1>10 DEF Next

LEMMA IInvAnswers ==
    ASSUME QueryAssumption, IInv
    PROVE  Sound /\ Complete
<1>1. CASE SortedByIndex
  <2>0. query.filters = <<>>
    BY <1>1 DEF SortedByIndex
  <2>1. DOMAIN query.filters = {}
    BY <2>0
  <2>2. query.take \in Int
    BY QueryTyped DEF IInv, Base
  <2>3. Take # 0
    BY <2>0, <2>2 DEF Take
  <2> QED
    BY <2>1, <2>3 DEF Sound, Complete
<1>2. CASE ~ SortedByIndex
  <2>1. AllSound /\ AllComplete
    BY <1>2 DEF IInv, Rest
  <2>2. \A m \in Range(matches), i \in DOMAIN query.filters : Answers(m.child, i)
    BY <2>1 DEF AllSound, Answered, Kids
  <2>3. Sound
    BY <2>2 DEF Sound, Answers, Met
  <2>4. Complete
    BY <2>1 DEF AllComplete, Complete, Whole, Always, Kept, Kids
  <2> QED
    BY <2>3, <2>4
<1> QED
  BY <1>1, <1>2

\* The invariant holds of every query, whatever the data, the indexes and the
\* writes: the plan is one of PlanOf, what an index knows of a record was so at
\* some moment of the query, and children on their way to the answer have met
\* the filters that they are past (plan, lookups, merge, scan and loads of
\* query.ts).
THEOREM Invariance ==
    ASSUME OrderedBounds
    PROVE  Spec => []IInv
<1> USE QueryAssumption
<1>1. Init => IInv
  BY BaseStarts, RestStarts DEF IInv
<1>2. IInv /\ [Next]_vars => IInv'
  <2> SUFFICES ASSUME IInv, [Next]_vars PROVE IInv'
    OBVIOUS
  <2>1. Base /\ Base'
    BY BaseKept DEF IInv
  <2>2. SortedByIndex' = SortedByIndex
    BY DEF Next, Lookup, IndexTake, Merge, ListingFails, FinishScan, FinishLoad, FinishReload, Match, LoadValue,
           LoadResult, Reload, Write, UpdateIndex, Stop, vars, SortedByIndex
  <2>3. ~ SortedByIndex => Rest'
    BY RestKept DEF IInv
  <2> QED
    BY <2>1, <2>2, <2>3 DEF IInv
<1> QED
  BY <1>1, <1>2, PTL DEF Spec

\* Every record in an answer has met each of the filters at some moment of the
\* query, whichever index or scan has applied it and whatever was written
\* between the lookups, the matches and the loads of query.ts: for any records,
\* indexes and queries, when the bounds of ranges are given in order.
THEOREM AnswersAreSound ==
    ASSUME OrderedBounds
    PROVE  Spec => []Sound
<1>1. IInv => Sound
  BY QueryAssumption, IInvAnswers
<1>2. Spec => []IInv
  BY Invariance
<1> QED
  BY <1>1, <1>2, PTL

\* A record that meets all filters all the time is in the answer, if no skip or
\* take leaves it out: for any records, indexes and queries, no lookup,
\* intersection, scan or load of query.ts loses it.
THEOREM AnswersAreComplete ==
    ASSUME OrderedBounds
    PROVE  Spec => []Complete
<1>1. IInv => Complete
  BY QueryAssumption, IInvAnswers
<1>2. Spec => []IInv
  BY Invariance
<1> QED
  BY <1>1, <1>2, PTL

-----------------------------------------------------------------------------
\* Skip and take, while nothing is written.

\* The first q of elements that are all different are q elements.
FirstOf(t, q) == {t[i] : i \in 1..q}
LEMMA FirstAre ==
    ASSUME NEW F, NEW L \in Nat, NEW t \in [1..L -> F],
           \A i, j \in 1..L : t[i] = t[j] => i = j, NEW q \in 0..L
    PROVE  /\ IsFiniteSet(FirstOf(t, q)) /\ Cardinality(FirstOf(t, q)) = q
           /\ FirstOf(t, q) \in SUBSET F
<1> DEFINE B == {t[i] : i \in 1..q}
           f == [i \in 1..q |-> t[i]]
<1>1. q \in Nat /\ \A i \in 1..q : i \in 1..L /\ t[i] \in F
  OBVIOUS
<1>2. f \in Surjection(1..q, B) /\ f \in Injection(1..q, B)
  <2>1. f \in [1..q -> B]
    OBVIOUS
  <2>2. \A b \in B : \E i \in 1..q : f[i] = b
    OBVIOUS
  <2>3. \A i, j \in 1..q : f[i] = f[j] => i = j
    BY <1>1
  <2> HIDE DEF f, B
  <2> QED
    BY <2>1, <2>2, <2>3 DEF Surjection, Injection, IsInjective
<1>3. IsFiniteSet(1..q) /\ Cardinality(1..q) = q
  BY <1>1, FS_Interval
<1> HIDE DEF f
<1>4. IsFiniteSet(B) /\ Cardinality(B) = q
  <2> HIDE DEF B
  <2> QED
    BY <1>2, <1>3, FS_Surjection
<1>5. B \in SUBSET F
  BY <1>1
<1> QED
  BY <1>4, <1>5 DEF FirstOf

Below(F, less, x) == Cardinality({y \in F : <<y, x>> \in less})
Above(F, less, x) == Cardinality({y \in F : <<x, y>> \in less})

\* Where elements are at places that an order allows them, fewer than its place
\* precede each, and no more follow it than are left.
LEMMA PlacesAre ==
    ASSUME NEW F, IsFiniteSet(F), NEW less, NEW L \in Nat, NEW t \in [1..L -> F],
           \A i, j \in 1..L : t[i] = t[j] => i = j,
           \A i \in 1..L : <<t[i], t[i]>> \notin less,
           \A i, j \in 1..L : i < j => <<t[j], t[i]>> \notin less,
           \A x \in F : (\A i \in 1..L : t[i] # x) => \A i \in 1..L : <<x, t[i]>> \notin less,
           NEW p \in 1..L
    PROVE  Below(F, less, t[p]) < p /\ Above(F, less, t[p]) <= Cardinality(F) - p
<1> DEFINE A == {x \in F : <<x, t[p]>> \in less}
           E == {x \in F : <<t[p], x>> \in less}
           B == FirstOf(t, p - 1)
           C == FirstOf(t, p)
<1>0. \A q \in 0..L : /\ IsFiniteSet(FirstOf(t, q)) /\ Cardinality(FirstOf(t, q)) = q
                      /\ FirstOf(t, q) \in SUBSET F
  BY FirstAre
<1> HIDE DEF B, C
<1>1. IsFiniteSet(B) /\ Cardinality(B) = p - 1
  <2>1. p - 1 \in 0..L
    OBVIOUS
  <2> QED
    BY <2>1, <1>0 DEF B
<1>2. IsFiniteSet(C) /\ Cardinality(C) = p /\ C \in SUBSET F
  <2>1. p \in 0..L
    OBVIOUS
  <2> QED
    BY <2>1, <1>0 DEF C
<1>3. A \in SUBSET B
  <2> SUFFICES ASSUME NEW x \in A PROVE x \in B
    OBVIOUS
  <2>1. PICK i \in 1..L : t[i] = x
    OBVIOUS
  <2>2. i # p /\ ~ (p < i)
    BY <2>1
  <2>3. i \in 1..(p - 1)
    BY <2>2
  <2> QED
    BY <2>1, <2>3 DEF FirstOf, B
<1>4. E \in SUBSET (F \ C)
  <2> SUFFICES ASSUME NEW x \in E, NEW i \in 1..p, x = t[i] PROVE FALSE
    BY DEF FirstOf, C
  <2>1. i \in 1..L /\ (i < p \/ i = p)
    OBVIOUS
  <2> QED
    BY <2>1
<1>5. IsFiniteSet(F \ C) /\ Cardinality(F \ C) = Cardinality(F) - p
  <2>1. F \cap C = C
    BY <1>2
  <2> HIDE DEF C
  <2>2. IsFiniteSet(F \ C) /\ Cardinality(F \ C) = Cardinality(F) - Cardinality(F \cap C)
    BY FS_Difference
  <2> QED
    BY <1>2, <2>1, <2>2
<1> HIDE DEF A, E
<1>6. IsFiniteSet(A) /\ Cardinality(A) <= p - 1
  BY <1>1, <1>3, FS_Subset
<1>7. Cardinality(E) <= Cardinality(F) - p
  BY <1>4, <1>5, FS_Subset
<1>8. Cardinality(A) \in Nat
  BY <1>6, FS_CardinalityType
<1>9. Cardinality(A) < p
  BY <1>6, <1>8
<1> QED
  BY <1>7, <1>9 DEF A, E, Below, Above

\* The part of n results that skip and take ask for: where it starts and how
\* long it is.
StartOf(n) == IF Take < 0 THEN (IF n - Limit > 0 THEN n - Limit ELSE 0) ELSE query.skip
Wanted == IF Take < 0 THEN 0 - Take ELSE Take
Left(n) == IF n - query.skip > 0 THEN n - query.skip ELSE 0
LengthOf(n) == IF Take = 0 \/ Left(n) < Wanted THEN Left(n) ELSE Wanted

LEMMA PartAt ==
    ASSUME NEW S, NEW s \in Seq(S), NEW a \in Nat \ {0}, NEW b \in Int, b <= Len(s)
    PROVE  /\ SubSeq(s, a, b) \in Seq(S)
           /\ Len(SubSeq(s, a, b)) = IF a <= b THEN b - a + 1 ELSE 0
           /\ \A i \in 1..Len(SubSeq(s, a, b)) : SubSeq(s, a, b)[i] = s[a - 1 + i]
<1>1. Len(s) \in Nat /\ DOMAIN s = 1..Len(s) /\ \A i \in 1..Len(s) : s[i] \in S
  OBVIOUS
<1>2. \A i \in a..b : s[i] \in S
  BY <1>1
<1>3. /\ SubSeq(s, a, b) \in Seq(S)
      /\ Len(SubSeq(s, a, b)) = IF a <= b THEN b - a + 1 ELSE 0
      /\ \A i \in 1..(b - a + 1) : SubSeq(s, a, b)[i] = s[a + i - 1]
  BY <1>2, SubSeqProperties
<1> DEFINE t == SubSeq(s, a, b)
<1> HIDE DEF t
<1>4. ASSUME NEW i \in 1..Len(t)
      PROVE  t[i] = s[a - 1 + i]
  <2>1. i \in 1..(b - a + 1)
    BY <1>3 DEF t
  <2>2. a - 1 + i = a + i - 1
    OBVIOUS
  <2> QED
    BY <1>3, <2>1, <2>2 DEF t
<1> QED
  BY <1>3, <1>4 DEF t

LEMMA SkippedAt ==
    ASSUME IsQuery(query), NEW S, NEW s \in Seq(S)
    PROVE  /\ Skipped(s) \in Seq(S) /\ Len(Skipped(s)) = Left(Len(s))
           /\ \A i \in 1..Len(Skipped(s)) : Skipped(s)[i] = s[(IF Take < 0 THEN 0 ELSE query.skip) + i]
<1>1. query.skip \in Nat /\ Take \in Int /\ Len(s) \in Nat
  BY QueryTyped DEF Take
<1>2. CASE query.skip = 0
  <2>1. Skipped(s) = s
    BY <1>2 DEF Skipped
  <2>2. Left(Len(s)) = Len(s)
    BY <1>1, <1>2 DEF Left
  <2> QED
    BY <1>1, <1>2, <2>1, <2>2
<1>3. CASE query.skip # 0 /\ Take < 0
  <2> DEFINE b == Len(s) - query.skip
  <2>1. 1 \in Nat \ {0} /\ b \in Int /\ b <= Len(s) /\ Skipped(s) = SubSeq(s, 1, b)
    BY <1>1, <1>3 DEF Skipped
  <2>2. Left(Len(s)) = IF 1 <= b THEN b - 1 + 1 ELSE 0
    BY <1>1 DEF Left
  <2> HIDE DEF b
  <2>3. /\ SubSeq(s, 1, b) \in Seq(S) /\ Len(SubSeq(s, 1, b)) = IF 1 <= b THEN b - 1 + 1 ELSE 0
        /\ \A i \in 1..Len(SubSeq(s, 1, b)) : SubSeq(s, 1, b)[i] = s[1 - 1 + i]
    BY <2>1, PartAt
  <2> QED
    BY <1>3, <2>1, <2>2, <2>3
<1>4. CASE query.skip # 0 /\ ~ (Take < 0)
  <2> DEFINE a == query.skip + 1
             n == Len(s)
  <2>1. a \in Nat \ {0} /\ n \in Int /\ n <= Len(s) /\ Skipped(s) = SubSeq(s, a, n)
    <3>1. a \in Nat \ {0} /\ n \in Int /\ n <= Len(s)
      BY <1>1
    <3>2. Skipped(s) = SubSeq(s, a, n)
      BY <1>4, Zenon DEF Skipped
    <3> QED
      BY <3>1, <3>2
  <2>2. Left(n) = IF a <= n THEN n - a + 1 ELSE 0
    BY <1>1 DEF Left
  <2>3. a - 1 = query.skip
    BY <1>1
  <2> HIDE DEF a, n
  <2>4. /\ SubSeq(s, a, n) \in Seq(S) /\ Len(SubSeq(s, a, n)) = IF a <= n THEN n - a + 1 ELSE 0
        /\ \A i \in 1..Len(SubSeq(s, a, n)) : SubSeq(s, a, n)[i] = s[a - 1 + i]
    BY <2>1, PartAt
  <2> QED
    BY <1>4, <2>1, <2>2, <2>3, <2>4 DEF n
<1> QED
  BY <1>2, <1>3, <1>4

LEMMA TakenAt ==
    ASSUME IsQuery(query), NEW S, NEW s \in Seq(S)
    PROVE  /\ Taken(s) \in Seq(S)
           /\ Len(Taken(s)) = IF Take = 0 \/ Len(s) < Wanted THEN Len(s) ELSE Wanted
           /\ \A i \in 1..Len(Taken(s)) :
                Taken(s)[i] = s[(IF Take < 0 /\ Len(s) + Take > 0 THEN Len(s) + Take ELSE 0) + i]
<1> DEFINE n == Len(s)
<1>1. Take \in Int /\ n \in Nat
  BY QueryTyped DEF Take
<1>2. CASE Take = 0
  BY <1>1, <1>2 DEF Taken
<1>3. CASE Take < 0
  <2> DEFINE a == IF n + Take < 0 THEN 1 ELSE n + Take + 1
             from == IF Take < 0 /\ n + Take > 0 THEN n + Take ELSE 0
             length == IF Take = 0 \/ n < Wanted THEN n ELSE Wanted
  <2>1. a \in Nat \ {0} /\ n \in Int /\ n <= Len(s)
    BY <1>1
  <2>2. Taken(s) = SubSeq(s, a, n)
    <3>1. Taken(s) = IF Take = 0 THEN s ELSE IF Take < 0 THEN SubSeq(s, a, n)
                     ELSE SubSeq(s, 1, IF Take < Len(s) THEN Take ELSE Len(s))
      BY DEF Taken
    <3>2. Take # 0
      BY <1>1, <1>3
    <3> HIDE DEF a, n
    <3> QED
      BY <1>3, <3>1, <3>2, Zenon
  <2>3. from = a - 1
    BY <1>1, <1>3
  <2>4. length = IF a <= n THEN n - a + 1 ELSE 0
    <3>1. Wanted = 0 - Take /\ Wanted \in Nat \ {0} /\ Take = 0 - Wanted /\ Take # 0
      BY <1>1, <1>3 DEF Wanted
    <3> HIDE DEF n
    <3>2. CASE n + Take < 0
      BY <1>1, <3>1, <3>2
    <3>3. CASE ~ (n + Take < 0)
      <4>1. a = n + Take + 1 /\ length = Wanted /\ a <= n
        BY <1>1, <3>1, <3>3
      <4> QED
        BY <4>1, <1>1, <3>1
    <3> QED
      BY <3>2, <3>3
  <2> HIDE DEF a, n, from, length
  <2>5. /\ SubSeq(s, a, n) \in Seq(S) /\ Len(SubSeq(s, a, n)) = IF a <= n THEN n - a + 1 ELSE 0
        /\ \A i \in 1..Len(SubSeq(s, a, n)) : SubSeq(s, a, n)[i] = s[a - 1 + i]
    BY <2>1, PartAt
  <2>6. Taken(s) \in Seq(S) /\ Len(Taken(s)) = length /\ \A i \in 1..Len(Taken(s)) : Taken(s)[i] = s[from + i]
    BY <2>2, <2>3, <2>4, <2>5
  <2> QED
    BY <2>6 DEF from, length, n
<1>4. CASE Take # 0 /\ ~ (Take < 0)
  <2> DEFINE b == IF Take < n THEN Take ELSE n
  <2>1. 1 \in Nat \ {0} /\ b \in Int /\ b <= Len(s) /\ Taken(s) = SubSeq(s, 1, b)
    BY <1>1, <1>4 DEF Taken
  <2>2. (IF Take = 0 \/ n < Wanted THEN n ELSE Wanted) = IF 1 <= b THEN b - 1 + 1 ELSE 0
    BY <1>1, <1>4 DEF Wanted
  <2> HIDE DEF b
  <2>3. /\ SubSeq(s, 1, b) \in Seq(S) /\ Len(SubSeq(s, 1, b)) = IF 1 <= b THEN b - 1 + 1 ELSE 0
        /\ \A i \in 1..Len(SubSeq(s, 1, b)) : SubSeq(s, 1, b)[i] = s[1 - 1 + i]
    BY <2>1, PartAt
  <2> QED
    BY <1>4, <2>1, <2>2, <2>3
<1> QED
  BY <1>1, <1>2, <1>3, <1>4

LEMMA WindowAt ==
    ASSUME IsQuery(query), NEW S, NEW s \in Seq(S)
    PROVE  /\ Window(s) \in Seq(S) /\ Len(Window(s)) = LengthOf(Len(s))
           /\ \A i \in 1..Len(Window(s)) :
                StartOf(Len(s)) + i \in 1..Len(s) /\ Window(s)[i] = s[StartOf(Len(s)) + i]
<1> DEFINE t == Skipped(s)
           w == Taken(t)
           n == Len(s)
           k == Len(t)
           first == IF Take < 0 THEN 0 ELSE query.skip
           second == IF Take < 0 /\ k + Take > 0 THEN k + Take ELSE 0
<1>1. t \in Seq(S) /\ k = Left(n) /\ \A i \in 1..k : t[i] = s[first + i]
  BY SkippedAt
<1>2. query.skip \in Nat /\ Take \in Int /\ n \in Nat
  BY QueryTyped DEF Take
<1>3. k \in Nat
  BY <1>1, <1>2 DEF Left
<1> HIDE DEF t
<1>4. /\ w \in Seq(S) /\ Len(w) = IF Take = 0 \/ k < Wanted THEN k ELSE Wanted
      /\ \A i \in 1..Len(w) : w[i] = t[second + i]
  BY <1>1, TakenAt
<1> HIDE DEF n, k, w
<1>5. Len(w) = LengthOf(n)
  BY <1>1, <1>4 DEF LengthOf
<1>6. Len(w) \in Nat
  BY <1>4
<1>7. ASSUME NEW i \in 1..Len(w)
      PROVE  StartOf(n) + i \in 1..n /\ w[i] = s[StartOf(n) + i]
  <2>1. second + i \in 1..k /\ first + (second + i) = StartOf(n) + i /\ StartOf(n) + i \in 1..n
    <3>1. Limit = query.skip + Wanted
      BY DEF Limit, Wanted
    <3>2. i \in Nat /\ i >= 1 /\ i <= k /\ k <= n /\ (k > 0 => k = n - query.skip)
      BY <1>1, <1>2, <1>3, <1>4, <1>6 DEF Left
    <3>3. CASE Take < 0
      <4>1. Wanted = 0 - Take /\ i <= Wanted
        BY <1>2, <1>3, <1>4, <1>6, <3>3 DEF Wanted
      <4>2. StartOf(n) = IF n - Limit > 0 THEN n - Limit ELSE 0
        BY <3>3 DEF StartOf
      <4>3. n - Limit = k + Take
        BY <1>2, <1>3, <3>1, <3>2, <4>1
      <4>4. StartOf(n) = second /\ first = 0
        BY <3>3, <4>2, <4>3
      <4> QED
        BY <1>2, <1>3, <3>2, <3>3, <4>1, <4>4
    <3>4. CASE ~ (Take < 0)
      <4>1. first = query.skip /\ second = 0 /\ StartOf(n) = query.skip
        BY <3>4 DEF StartOf
      <4> QED
        BY <1>2, <1>3, <3>2, <4>1
    <3> QED
      BY <3>3, <3>4
  <2>2. w[i] = t[second + i] /\ t[second + i] = s[first + (second + i)]
    BY <1>1, <1>4, <2>1
  <2> HIDE DEF first, second
  <2> QED
    BY <2>1, <2>2
<1> QED
  BY <1>4, <1>5, <1>7 DEF Window, w, n, t

Rec(c) == [child |-> c, val |-> data[c]]
Fitting == {c \in Children : Satisfies(data[c], query.filters)}
All == {Rec(c) : c \in Fitting}

\* The orders that the results are put in.
ChildOrder == {x \in Children \X Children : Before(Rec(x[1]), Rec(x[2]))}
Order == {x \in All \X All : IF SortedByIndex THEN Ahead(x[1], x[2]) ELSE Before(x[1], x[2])}

\* What WindowRight takes for granted, but for Emptied.
Exact ==
    /\ ~ TossesWrong /\ ~ SortLost /\ ~ Unsortable
    /\ \A i \in DOMAIN query.filters :
          ~ Lost(i) /\ (plan.filter[i] # {} => ~ Unlisted(i) /\ \A c \in Children : ~ ByNull(c, query.filters[i]))

\* The answer, before it is loaded again and after.
Placed(s) ==
    /\ s \in Seq(Matches) /\ Len(s) = LengthOf(Cardinality(All)) /\ Apart(s) /\ Kids(s) \subseteq Fitting
    /\ query.sort # <<>> /\ ~ Disordered(All) => \A i \in DOMAIN s :
          /\ Below(All, Order, Rec(s[i].child)) < StartOf(Cardinality(All)) + i
          /\ Above(All, Order, Rec(s[i].child)) <= Cardinality(All) - (StartOf(Cardinality(All)) + i)

\* Results of the children that are matched and loaded, where the last of too
\* many are tossed (T), or not: none is missing, but for those that come after
\* all that are asked for.
Alike(m) == \A j \in DOMAIN query.sort : m.val[query.sort[j].key] = data[m.child][query.sort[j].key]
Pile(s, W, T) ==
    /\ s \in Seq(Matches) /\ Apart(s) /\ Kids(s) \subseteq Fitting /\ Kids(s) \cap W = {}
    /\ query.sort # <<>> => \A i \in DOMAIN s : Alike(s[i])
    /\ T => Len(s) <= Limit
    /\ \A c \in Fitting \ (W \union Kids(s)) :
          /\ T /\ Len(s) = Limit
          /\ query.sort # <<>> => \A d \in Kids(s) : <<c, d>> \notin ChildOrder
Tosses == IF step = "scan" THEN Take # 0 ELSE query.skip > 0

\* While nothing is written, an index has what is so now.
Fresh ==
    /\ seen = {<<c, data[c]>> : c \in Children}
    /\ \A ix \in DOMAIN lag :
          /\ lag[ix] = {}
          /\ \A e \in bare[ix] : \E c \in Existing : e = EntryOf(ix, c, data[c]) /\ data[c][ix.key] = Missing
Loads == Lookups # {} /\ ScanFilters = {}
Calm ==
    /\ Fresh
    /\ SortedByIndex => step \notin {"scan", "load"}
    /\ step = "load" => Loads /\ ~ AllSortsIndexed /\ loading = {}
    /\ step = "scan" => ~ Loads
    /\ Exact /\ step = "lookup" => \A i \in DOMAIN sets : \A c \in Fitting : \E e \in sets[i] : e.child = c
    /\ step \in {"scan", "load"} /\ Exact /\ ~ Emptied =>
          /\ Pile(matches, todo \union loading, Tosses)
          /\ todo \cap loading = {} /\ loading \subseteq Fitting
          /\ todo \subseteq (IF step = "load" THEN Fitting ELSE Existing)
    /\ step \in {"reload", "done"} /\ Exact /\ ~ Emptied =>
          Placed(matches) /\ (step = "reload" => todo \subseteq Kids(matches))
CalmInv == writes \in Nat /\ (writes = 0 => Calm)

LEMMA OrderIs ==
    ASSUME QueryAssumption, IsQuery(query), data \in [Children -> Records]
    PROVE  /\ \A c \in Children : Rec(c) \in Matches /\ Rec(c).child = c /\ <<c, c>> \notin ChildOrder
           /\ \A c, d \in Children : <<c, d>> \in ChildOrder <=> Before(Rec(c), Rec(d))
           /\ \A c, d, e \in Children : <<c, d>> \in ChildOrder => <<c, e>> \in ChildOrder \/ <<e, d>> \in ChildOrder
<1>1. \A c \in Children : Rec(c) \in Matches /\ Rec(c).child = c
  BY DEF Rec, Matches, Records
<1>2. \A c, d \in Children : <<c, d>> \in ChildOrder <=> Before(Rec(c), Rec(d))
  BY DEF ChildOrder
<1>3. \A c \in Children : ~ Before(Rec(c), Rec(c))
  BY <1>1, NeverBothBefore
<1>4. \A c, d, e \in Children : Before(Rec(c), Rec(d)) => Before(Rec(c), Rec(e)) \/ Before(Rec(e), Rec(d))
  BY <1>1, BeforeOneOfTwo
<1> QED
  BY <1>1, <1>2, <1>3, <1>4

\* Only the sort keys and the child count in the order.
LEMMA AlikeIs ==
    ASSUME QueryAssumption, IsQuery(query), data \in [Children -> Records],
           NEW a \in Matches, NEW b \in Matches, Alike(a), Alike(b)
    PROVE  Before(a, b) <=> <<a.child, b.child>> \in ChildOrder
<1> DEFINE n == Len(query.sort)
           p == Rec(a.child)
           q == Rec(b.child)
<1>1. a.child \in Children /\ b.child \in Children
  BY DEF Matches
<1>2. \A k \in 1..n : SortVal(a, k) = SortVal(p, k) /\ SortVal(b, k) = SortVal(q, k)
  BY QueryTyped DEF Alike, SortVal, Rec
<1>3. p.child = a.child /\ q.child = b.child
  BY DEF Rec
<1>4. n \in Nat
  BY QueryTyped
<1>5. \A k \in 1..n : (TiedAt(a, b, k) <=> TiedAt(p, q, k)) /\ (AheadAt(a, b, k) <=> AheadAt(p, q, k))
  BY <1>2 DEF TiedAt, AheadAt
<1> HIDE DEF n, p, q
<1>6. Ahead(a, b) <=> Ahead(p, q)
  <2>1. \A j \in 1..n : \A k \in 1..(j - 1) : k \in 1..n
    BY <1>4
  <2> QED
    BY <1>5, <2>1, AheadIs DEF n
<1>7. Tied(a, b, n) <=> Tied(p, q, n)
  BY <1>5, AheadIs
<1>8. Before(a, b) <=> Before(p, q)
  BY <1>3, <1>6, <1>7 DEF Before, n
<1>9. <<a.child, b.child>> \in ChildOrder <=> Before(p, q)
  BY <1>1, OrderIs DEF p, q
<1> QED
  BY <1>8, <1>9

\* A result that is added, and the last one tossed if that is too many.
LEMMA PileGrows ==
    ASSUME QueryAssumption, IsQuery(query), data \in [Children -> Records],
           NEW s, NEW W, NEW T \in BOOLEAN, Pile(s, W, T),
           NEW m \in Matches, m.child \in W, m.child \in Fitting, query.sort # <<>> => Alike(m),
           NEW V \in SUBSET (W \ {m.child}),
           V = W \ {m.child} \/ (T /\ query.sort = <<>> /\ Len(s) = Limit),
           T => Limit \in Nat \ {0}
    PROVE  Pile(IF T /\ Len(Append(s, m)) > Limit THEN Front(Sorted(Append(s, m))) ELSE Append(s, m), V, T)
<1> DEFINE t == Append(s, m)
<1>1. s \in Seq(Matches) /\ Len(s) \in Nat /\ DOMAIN s = 1..Len(s) /\ \A i \in DOMAIN s : s[i] \in Matches
  BY DEF Pile
<1>2. /\ t \in Seq(Matches) /\ Len(t) = Len(s) + 1 /\ DOMAIN t = 1..(Len(s) + 1)
      /\ t[Len(s) + 1] = m /\ \A i \in 1..Len(s) : t[i] = s[i]
  BY <1>1
<1> HIDE DEF t
<1>3. \A i \in DOMAIN t : (i \in DOMAIN s /\ t[i] = s[i]) \/ (i = Len(s) + 1 /\ t[i] = m)
  BY <1>1, <1>2
<1>4. Kids(t) = Kids(s) \union {m.child}
  <2>1. \A i \in DOMAIN t : t[i].child \in Kids(s) \union {m.child}
    BY <1>1, <1>3, KidsIs
  <2>2. \A i \in DOMAIN s : i \in DOMAIN t /\ t[i] = s[i]
    BY <1>1, <1>2
  <2>3. Len(s) + 1 \in DOMAIN t
    BY <1>1, <1>2
  <2>4. /\ \A x \in Kids(t) : \E i \in DOMAIN t : t[i].child = x
        /\ \A x \in Kids(s) : \E i \in DOMAIN s : s[i].child = x
        /\ \A i \in DOMAIN t : t[i].child \in Kids(t)
    BY <1>1, <1>2, KidsIs
  <2> QED
    BY <1>2, <2>1, <2>2, <2>3, <2>4
<1>5. m.child \notin Kids(s)
  BY DEF Pile
<1>6. Apart(t)
  <2> SUFFICES ASSUME NEW i \in DOMAIN t, NEW j \in DOMAIN t, t[i].child = t[j].child PROVE i = j
    BY DEF Apart
  <2>1. \A x \in DOMAIN s : s[x].child # m.child
    BY <1>1, <1>5, KidsIs
  <2> QED
    BY <1>3, <2>1 DEF Pile, Apart
<1>7. query.sort # <<>> => \A i \in DOMAIN t : Alike(t[i])
  BY <1>3 DEF Pile
<1>8. Kids(t) \subseteq Fitting /\ Kids(t) \cap V = {}
  BY <1>4 DEF Pile
<1>9. CASE ~ (T /\ Len(t) > Limit)
  <2>1. T => Len(s) # Limit /\ Len(t) <= Limit
    BY <1>1, <1>2, <1>9
  <2>2. V = W \ {m.child}
    BY <2>1
  <2>3. \A c \in Fitting \ (V \union Kids(t)) : c \in Fitting \ (W \union Kids(s))
    BY <1>4, <2>2
  <2>4. \A c \in Fitting \ (V \union Kids(t)) : FALSE
    BY <2>1, <2>3 DEF Pile
  <2>5. Pile(t, V, T)
    BY <1>2, <1>6, <1>7, <1>8, <2>1, <2>4 DEF Pile
  <2> QED
    BY <1>9, <2>5 DEF t
<1>10. CASE T /\ Len(t) > Limit
  <2> DEFINE u == Sorted(t)
             f == Front(u)
             L == Len(s)
  <2>1. L = Limit /\ L \in Nat \ {0}
    BY <1>1, <1>2, <1>10 DEF Pile
  <2>2. /\ u \in Seq(Matches) /\ Len(u) = L + 1 /\ Range(u) = Range(t) /\ Apart(u)
        /\ query.sort # <<>> => \A i, j \in 1..(L + 1) : i < j => ~ Before(u[j], u[i])
    BY <1>2, <1>6, SortKeeps DEF Sorted
  <2>3. \A i \in DOMAIN u : u[i] \in Range(t)
    BY <2>2 DEF Range
  <2>4. query.sort # <<>> => \A i \in DOMAIN u : Alike(u[i])
    BY <1>7, <2>3 DEF Range
  <2>5. Kids(u) = Kids(t)
    BY <2>2 DEF Kids
  <2> HIDE DEF u, L
  <2>6. f \in Seq(Matches) /\ Len(f) = L /\ \A i \in 1..L : f[i] = u[i]
    <3>1. 1 \in Nat \ {0} /\ Len(u) - 1 \in Int /\ Len(u) - 1 <= Len(u) /\ Len(u) - 1 = L
      BY <2>1, <2>2
    <3>2. f = SubSeq(u, 1, L)
      BY <3>1 DEF Front
    <3>3. /\ SubSeq(u, 1, L) \in Seq(Matches) /\ Len(SubSeq(u, 1, L)) = IF 1 <= L THEN L - 1 + 1 ELSE 0
          /\ \A i \in 1..Len(SubSeq(u, 1, L)) : SubSeq(u, 1, L)[i] = u[1 - 1 + i]
      BY <2>1, <2>2, <3>1, PartAt
    <3> HIDE DEF f
    <3> QED
      BY <2>1, <3>2, <3>3
  <2> HIDE DEF f
  <2>7. /\ DOMAIN u = 1..(L + 1) /\ DOMAIN f = 1..L /\ \A i \in 1..L : i \in DOMAIN u /\ i # L + 1
        /\ \A i \in DOMAIN u : i \in 1..L \/ i = L + 1
    BY <2>1, <2>2, <2>6
  <2> DEFINE last == u[L + 1]
  <2>8. /\ last \in Matches /\ last.child \in Kids(t) /\ \A i \in 1..L : f[i].child # last.child
        /\ \A i \in 1..L : f[i].child \in Kids(t) /\ f[i] \in Matches
    <3>1. L + 1 \in DOMAIN u /\ L + 1 \in 1..(L + 1)
      BY <2>1, <2>2
    <3>2. last \in Matches /\ last.child \in Kids(t)
      BY <2>2, <2>5, <3>1, KidsIs
    <3>3. ASSUME NEW i \in 1..L
          PROVE  f[i].child # last.child /\ f[i].child \in Kids(t) /\ f[i] \in Matches
      <4>1. f[i] = u[i] /\ i \in DOMAIN u /\ i # L + 1
        BY <2>6, <2>7
      <4>2. u[i] \in Matches /\ u[i].child \in Kids(u)
        BY <2>2, <4>1, KidsIs
      <4>3. u[i].child # last.child
        BY <2>2, <3>1, <4>1 DEF Apart
      <4> QED
        BY <2>5, <4>1, <4>2, <4>3
    <3> HIDE DEF last
    <3> QED
      BY <3>2, <3>3
  <2>9. Kids(f) = Kids(t) \ {last.child}
    <3>1. \A i \in DOMAIN u : i # L + 1 => i \in 1..L /\ u[i] = f[i]
      BY <2>6, <2>7
    <3>2. /\ \A x \in Kids(u) : \E i \in DOMAIN u : u[i].child = x
          /\ \A x \in Kids(f) : \E i \in DOMAIN f : f[i].child = x
          /\ \A i \in DOMAIN f : f[i].child \in Kids(f)
      BY <2>2, <2>6, KidsIs
    <3>3. \A x \in Kids(f) : x \in Kids(t) /\ x # last.child
      BY <2>7, <2>8, <3>2
    <3>4. \A x \in Kids(t) : x # last.child => x \in Kids(f)
      BY <2>5, <2>7, <3>1, <3>2
    <3> QED
      BY <3>3, <3>4
  <2>10. Apart(f)
    BY <2>2, <2>6, <2>7 DEF Apart
  <2>11. query.sort # <<>> => \A i \in DOMAIN f : Alike(f[i])
    BY <2>4, <2>6, <2>7
  <2>12. ASSUME query.sort # <<>>, NEW i \in 1..L
         PROVE  <<last.child, f[i].child>> \notin ChildOrder
    <3>1. ~ Before(last, f[i]) /\ Alike(last) /\ Alike(f[i])
      <4>1. L + 1 \in 1..(L + 1) /\ i \in 1..(L + 1) /\ i < L + 1
        BY <2>1
      <4> QED
        BY <2>2, <2>4, <2>6, <2>7, <2>12, <4>1
    <3> QED
      BY <2>8, <3>1, AlikeIs
  <2>13. \A x \in Kids(f) : \E i \in 1..L : f[i].child = x
    BY <2>6, <2>7, KidsIs
  <2>14. ASSUME NEW c \in Fitting \ (V \union Kids(f)), query.sort # <<>>, NEW d \in Kids(f)
         PROVE  <<c, d>> \notin ChildOrder
    <3>1. V = W \ {m.child}
      BY <2>14
    <3>2. PICK i \in 1..L : f[i].child = d
      BY <2>13
    <3>3. CASE c = last.child
      BY <3>2, <3>3, <2>12, <2>14
    <3>4. CASE c # last.child
      <4>1. c \in Fitting \ (W \union Kids(s)) /\ c \notin Kids(t)
        BY <1>4, <2>9, <3>1, <3>4
      <4>2. \A x \in Kids(s) : <<c, x>> \notin ChildOrder
        BY <2>14, <4>1 DEF Pile
      <4>3. d \in Kids(s) \/ d = m.child
        BY <1>4, <2>9
      <4>4. CASE d \in Kids(s)
        BY <4>2, <4>4
      <4>5. CASE d = m.child /\ d \notin Kids(s)
        <5>1. last.child \in Kids(s)
          BY <1>4, <2>8, <2>9, <4>5
        <5>2. <<c, last.child>> \notin ChildOrder /\ <<last.child, d>> \notin ChildOrder
          BY <2>12, <2>14, <3>2, <4>2, <5>1
        <5>3. c \in Children /\ d \in Children /\ last.child \in Children
          BY <2>8, <4>5 DEF Fitting, Matches
        <5>4. <<c, d>> \in ChildOrder
                => <<c, last.child>> \in ChildOrder \/ <<last.child, d>> \in ChildOrder
          <6>1. \A x, y, z \in Children : <<x, y>> \in ChildOrder
                                            => <<x, z>> \in ChildOrder \/ <<z, y>> \in ChildOrder
            BY OrderIs
          <6>2. \A z \in Children : <<c, d>> \in ChildOrder
                                      => <<c, z>> \in ChildOrder \/ <<z, d>> \in ChildOrder
            BY <5>3, <6>1
          <6> QED
            BY <5>3, <6>2
        <5> QED
          BY <5>2, <5>4, Zenon
      <4> QED
        BY <4>3, <4>4, <4>5
    <3> QED
      BY <3>3, <3>4
  <2>15. Kids(f) \subseteq Fitting /\ Kids(f) \cap V = {}
    BY <1>8, <2>9
  <2>16. Len(f) = Limit /\ T => Len(f) <= Limit
    BY <2>1, <2>6
  <2>17. Len(f) = Limit /\ T
    BY <1>10, <2>1, <2>6
  <2>18. Pile(f, V, T)
    BY <2>6, <2>10, <2>11, <2>14, <2>15, <2>16, <2>17 DEF Pile
  <2> QED
    BY <1>10, <2>18 DEF f, u, t
<1> QED
  BY <1>9, <1>10

LEMMA AllIs ==
    ASSUME QueryAssumption
    PROVE  /\ IsFiniteSet(Fitting) /\ IsFiniteSet(All) /\ Cardinality(All) \in Nat
           /\ Cardinality(Fitting) = Cardinality(All)
           /\ \A c \in Fitting : Rec(c) \in All
           /\ \A m \in All : m.child \in Fitting /\ m = Rec(m.child)
<1>1. IsFiniteSet(Fitting)
  <2>1. Fitting \in SUBSET Children /\ IsFiniteSet(Children)
    BY DEF Fitting, QueryAssumption
  <2> QED
    BY <2>1, FS_Subset
<1> DEFINE f == [c \in Fitting |-> Rec(c)]
<1>2. f \in Surjection(Fitting, All) /\ f \in Injection(Fitting, All)
  <2>1. f \in [Fitting -> All]
    BY DEF All
  <2>2. \A m \in All : \E c \in Fitting : f[c] = m
    BY DEF All
  <2>3. \A c, d \in Fitting : f[c] = f[d] => c = d
    BY DEF Rec
  <2> HIDE DEF f
  <2> QED
    BY <2>1, <2>2, <2>3 DEF Surjection, Injection, IsInjective
<1>3. IsFiniteSet(All) /\ Cardinality(Fitting) = Cardinality(All)
  <2> HIDE DEF f
  <2> QED
    BY <1>1, <1>2, FS_Surjection
<1>4. Cardinality(All) \in Nat
  BY <1>3, FS_CardinalityType
<1> QED
  BY <1>1, <1>3, <1>4 DEF All, Rec

\* Results in an order, of all children that fit or of all that are asked for:
\* skip and take leave the right ones.
LEMMA PlacedIs ==
    ASSUME QueryAssumption, IsQuery(query), NEW u \in Seq(Matches), Apart(u), Kids(u) \subseteq Fitting,
           \/ Len(u) = Cardinality(All)
           \/ Len(u) = Limit /\ Take # 0 /\ (query.sort # <<>> => Take > 0),
           query.sort # <<>> /\ ~ Disordered(All) =>
              /\ \A i \in 1..Len(u) : <<Rec(u[i].child), Rec(u[i].child)>> \notin Order
              /\ \A i, j \in 1..Len(u) : i < j => <<Rec(u[j].child), Rec(u[i].child)>> \notin Order
              /\ \A c \in Fitting \ Kids(u) : \A i \in 1..Len(u) : <<Rec(c), Rec(u[i].child)>> \notin Order
    PROVE  Placed(Window(u))
<1> DEFINE L == Len(u)
           N == Cardinality(All)
           w == Window(u)
           t == [i \in 1..L |-> Rec(u[i].child)]
<1>1. L \in Nat /\ DOMAIN u = 1..L /\ \A i \in 1..L : u[i] \in Matches /\ u[i].child \in Kids(u)
  BY KidsIs
<1>2. N \in Nat /\ IsFiniteSet(All)
  BY AllIs
<1>3. query.skip \in Nat /\ Take \in Int
  BY QueryTyped DEF Take
<1>4. /\ w \in Seq(Matches) /\ Len(w) = LengthOf(L)
      /\ \A i \in 1..Len(w) : StartOf(L) + i \in 1..L /\ w[i] = u[StartOf(L) + i]
  BY WindowAt
<1> HIDE DEF w
<1>5. DOMAIN w = 1..Len(w) /\ Len(w) \in Nat
  BY <1>4
<1>6. t \in [1..L -> All] /\ \A i \in 1..L : t[i].child = u[i].child
  <2>1. \A i \in 1..L : Rec(u[i].child) \in All /\ Rec(u[i].child).child = u[i].child
    BY <1>1, AllIs DEF Rec
  <2> QED
    BY <2>1
<1>7. \A i, j \in 1..L : t[i] = t[j] => i = j
  BY <1>1, <1>6 DEF Apart
<1>8. L <= N
  <2>1. L \in 0..L
    BY <1>1
  <2> HIDE DEF t, L, N
  <2>2. /\ IsFiniteSet(FirstOf(t, L)) /\ Cardinality(FirstOf(t, L)) = L
        /\ FirstOf(t, L) \in SUBSET All
    BY <1>1, <1>6, <1>7, <2>1, FirstAre
  <2>3. Cardinality(FirstOf(t, L)) <= Cardinality(All)
    BY <1>2, <2>2, FS_Subset
  <2> QED
    BY <2>2, <2>3 DEF N
<1>9. Limit = query.skip + Wanted /\ Wanted \in Nat /\ (Take # 0 => Wanted > 0)
  BY <1>3 DEF Limit, Wanted
<1>10. LengthOf(L) = LengthOf(N)
  <2>1. CASE L = N
    BY <2>1
  <2>2. CASE L = Limit /\ Take # 0
    <3> HIDE DEF L, N
    <3>1. Left(L) = Wanted /\ Left(N) >= Wanted
      BY <1>2, <1>3, <1>8, <1>9, <2>2 DEF Left
    <3>2. Left(N) \in Nat
      BY <1>2, <1>3 DEF Left
    <3>3. LengthOf(L) = Wanted /\ LengthOf(N) = Wanted
      BY <1>9, <2>2, <3>1, <3>2 DEF LengthOf
    <3> QED
      BY <3>3
  <2> QED
    BY <2>1, <2>2
<1>11. query.sort # <<>> => StartOf(L) = StartOf(N)
  <2>1. CASE L = N
    BY <2>1
  <2>2. CASE L # N
    <3>1. query.sort # <<>> => ~ (Take < 0)
      BY <1>3, <2>2
    <3> QED
      BY <3>1 DEF StartOf
  <2> QED
    BY <2>1, <2>2
<1>12. Apart(w)
  <2> SUFFICES ASSUME NEW i \in 1..Len(w), NEW j \in 1..Len(w), w[i].child = w[j].child
               PROVE  i = j
    BY <1>5 DEF Apart
  <2>1. StartOf(L) + i = StartOf(L) + j
    BY <1>1, <1>4 DEF Apart
  <2>2. StartOf(L) \in Int
    BY <1>1, <1>3, <1>9 DEF StartOf
  <2> QED
    BY <2>1, <2>2
<1>13. Kids(w) \subseteq Fitting
  <2>1. \A x \in Kids(w) : \E i \in DOMAIN w : w[i].child = x
    BY <1>4, KidsIs
  <2> QED
    BY <1>1, <1>4, <1>5, <2>1
<1>14. ASSUME query.sort # <<>>, ~ Disordered(All), NEW i \in 1..Len(w)
       PROVE  /\ Below(All, Order, Rec(w[i].child)) < StartOf(N) + i
              /\ Above(All, Order, Rec(w[i].child)) <= N - (StartOf(N) + i)
  <2> DEFINE p == StartOf(N) + i
  <2>1. p \in 1..L /\ Rec(w[i].child) = t[p]
    BY <1>4, <1>11, <1>14
  <2>2. \A x \in All : (\A j \in 1..L : t[j] # x) => \A j \in 1..L : <<x, t[j]>> \notin Order
    <3> SUFFICES ASSUME NEW x \in All, \A j \in 1..L : t[j] # x, NEW j \in 1..L
                 PROVE  <<x, t[j]>> \notin Order
      OBVIOUS
    <3>1. x.child \in Fitting /\ x = Rec(x.child)
      BY AllIs
    <3>2. x.child \notin Kids(u)
      <4>1. \A y \in Kids(u) : \E k \in DOMAIN u : u[k].child = y
        BY KidsIs
      <4>2. \A k \in 1..L : u[k].child # x.child
        BY <3>1
      <4> QED
        BY <1>1, <4>1, <4>2
    <3> QED
      BY <1>14, <3>1, <3>2
  <2>3. /\ \A j \in 1..L : <<t[j], t[j]>> \notin Order
        /\ \A j, k \in 1..L : j < k => <<t[k], t[j]>> \notin Order
    BY <1>14
  <2> HIDE DEF t, L, N, p
  <2>4. Below(All, Order, t[p]) < p /\ Above(All, Order, t[p]) <= Cardinality(All) - p
    BY <1>1, <1>2, <1>6, <1>7, <2>1, <2>2, <2>3, PlacesAre
  <2> QED
    BY <2>1, <2>4 DEF p, N
<1> QED
  BY <1>4, <1>5, <1>10, <1>12, <1>13, <1>14 DEF Placed, w

\* The pile in its order.
LEMMA PileIsPlaced ==
    ASSUME QueryAssumption, IsQuery(query), data \in [Children -> Records], ~ SortedByIndex,
           NEW u, NEW T \in BOOLEAN, Pile(u, {}, T), T => Take # 0 /\ (query.sort # <<>> => Take > 0),
           query.sort # <<>> /\ ~ Disordered(All) =>
              \A i, j \in 1..Len(u) : i < j => ~ Before(u[j], u[i])
    PROVE  Placed(Window(u))
<1>1. u \in Seq(Matches) /\ Apart(u) /\ Kids(u) \subseteq Fitting
  BY DEF Pile
<1>4. DOMAIN u = 1..Len(u) /\ Len(u) \in Nat
  BY <1>1
<1>5. query.sort # <<>> => \A i \in 1..Len(u) : Alike(u[i])
  BY <1>4 DEF Pile
<1>6. \A i \in 1..Len(u) : u[i] \in Matches /\ u[i].child \in Kids(u) /\ u[i].child \in Fitting /\ u[i].child \in Children
  BY <1>1, <1>4, KidsIs DEF Fitting
<1>7. \A c, d \in Fitting : <<Rec(c), Rec(d)>> \in Order <=> <<c, d>> \in ChildOrder
  <2>1. \A c, d \in Fitting : <<Rec(c), Rec(d)>> \in Order <=> Before(Rec(c), Rec(d))
    BY AllIs DEF Order
  <2> QED
    BY <2>1, OrderIs DEF Fitting
<1>8. \/ Len(u) = Cardinality(All)
      \/ Len(u) = Limit /\ Take # 0 /\ (query.sort # <<>> => Take > 0)
  <2>1. CASE Fitting \subseteq Kids(u)
    <3> DEFINE f == [i \in 1..Len(u) |-> u[i].child]
    <3>1. f \in Surjection(1..Len(u), Fitting) /\ f \in Injection(1..Len(u), Fitting)
      <4>1. f \in [1..Len(u) -> Fitting]
        BY <1>6
      <4>2. \A c \in Fitting : \E i \in 1..Len(u) : f[i] = c
        BY <1>1, <1>4, <2>1, KidsIs
      <4>3. \A i, j \in 1..Len(u) : f[i] = f[j] => i = j
        BY <1>1, <1>4 DEF Apart
      <4> HIDE DEF f
      <4> QED
        BY <4>1, <4>2, <4>3 DEF Surjection, Injection, IsInjective
    <3>2. IsFiniteSet(1..Len(u)) /\ Cardinality(1..Len(u)) = Len(u)
      <4>1. 1 \in Int /\ Len(u) \in Int /\ Len(u) \in Nat
        BY <1>4
      <4>2. IsFiniteSet(1..Len(u)) /\ Cardinality(1..Len(u)) = IF 1 > Len(u) THEN 0 ELSE Len(u) - 1 + 1
        BY <4>1, FS_Interval
      <4> QED
        BY <4>1, <4>2
    <3> HIDE DEF f
    <3>3. Cardinality(Fitting) = Len(u)
      BY <3>1, <3>2, FS_Surjection
    <3> QED
      BY <3>3, AllIs
  <2>2. CASE ~ (Fitting \subseteq Kids(u))
    BY <2>2 DEF Pile
  <2> QED
    BY <2>1, <2>2
<1>9. ASSUME query.sort # <<>>, ~ Disordered(All)
      PROVE  /\ \A i \in 1..Len(u) : <<Rec(u[i].child), Rec(u[i].child)>> \notin Order
             /\ \A i, j \in 1..Len(u) : i < j => <<Rec(u[j].child), Rec(u[i].child)>> \notin Order
             /\ \A c \in Fitting \ Kids(u) : \A i \in 1..Len(u) : <<Rec(c), Rec(u[i].child)>> \notin Order
  <2>1. \A i \in 1..Len(u) : <<u[i].child, u[i].child>> \notin ChildOrder
    BY <1>6, OrderIs
  <2>2. \A i, j \in 1..Len(u) : i < j => <<u[j].child, u[i].child>> \notin ChildOrder
    BY <1>5, <1>6, <1>9, AlikeIs
  <2>3. \A c \in Fitting \ Kids(u) : \A i \in 1..Len(u) : <<c, u[i].child>> \notin ChildOrder
    BY <1>6, <1>9 DEF Pile
  <2> QED
    BY <1>6, <1>7, <2>1, <2>2, <2>3
<1> QED
  BY <1>1, <1>8, <1>9, PlacedIs

\* A pile of loaded results, sorted.
LEMMA SortedIsPlaced ==
    ASSUME QueryAssumption, IsQuery(query), data \in [Children -> Records], ~ SortedByIndex,
           NEW s, NEW T \in BOOLEAN, Pile(s, {}, T), T => Take # 0 /\ (query.sort # <<>> => Take > 0)
    PROVE  Placed(Window(Sorted(s)))
<1> DEFINE u == Sorted(s)
<1>1. s \in Seq(Matches) /\ Apart(s)
  BY DEF Pile
<1>2. /\ u \in Seq(Matches) /\ Len(u) = Len(s) /\ Range(u) = Range(s) /\ Apart(u)
      /\ query.sort # <<>> => \A i, j \in 1..Len(u) : i < j => ~ Before(u[j], u[i])
  BY <1>1, SortKeeps DEF Sorted
<1>3. Kids(u) = Kids(s)
  BY <1>2 DEF Kids
<1> HIDE DEF u
<1>4. query.sort # <<>> => \A i \in DOMAIN u : Alike(u[i])
  <2>1. \A i \in DOMAIN u : u[i] \in Range(s)
    BY <1>2 DEF Range
  <2> QED
    BY <2>1 DEF Pile, Range
<1>5. Pile(u, {}, T)
  BY <1>2, <1>3, <1>4 DEF Pile
<1>6. Placed(Window(u))
  BY <1>2, <1>5, PileIsPlaced
<1> QED
  BY <1>6 DEF u

\* What is so while nothing is written.
LEMMA FreshIs ==
    ASSUME Base, Fresh
    PROVE  /\ \A s \in seen : s[1] \in Children /\ s[2] = data[s[1]]
           /\ \A c \in Children : Always(c) <=> c \in Fitting
           /\ \A c \in Children : <<c, data[c]>> \in seen
<1>1. \A s \in seen : s[1] \in Children /\ s[2] = data[s[1]]
  BY DEF Fresh
<1>2. \A c \in Children : <<c, data[c]>> \in seen
  BY DEF Fresh
<1>3. \A c \in Children : Always(c) <=> Satisfies(data[c], query.filters)
  BY <1>1, <1>2 DEF Always
<1> QED
  BY <1>1, <1>2, <1>3 DEF Fitting

LEMMA AnsweredFits ==
    ASSUME Base, Fresh, Exact, ~ Emptied, NEW c \in Children, Answered(c)
    PROVE  /\ \A i \in DOMAIN query.filters : TestNode(data[c], query.filters[i])
           /\ data[c] # NoRecord => c \in Fitting
<1>1. ASSUME NEW i \in DOMAIN query.filters
      PROVE  TestNode(data[c], query.filters[i])
  <2>1. ~ Lost(i) /\ (plan.filter[i] # {} => ~ ByNull(c, query.filters[i]))
    BY DEF Exact
  <2>2. Met(c, i)
    BY <2>1 DEF Answered, Answers
  <2>3. PICK s \in seen : s[1] = c /\ TestNode(s[2], query.filters[i])
    BY <2>2 DEF Met
  <2> QED
    BY <2>3, FreshIs
<1>2. Holds(data[c], Range(query.filters))
  BY <1>1 DEF Holds, Range
<1> QED
  BY <1>1, <1>2 DEF Fitting, Satisfies

\* The lookups find all that fits, and without a filter to scan for no more.
LEMMA FoundIs ==
    ASSUME Base, OrderedBounds, SetsGood, Fresh, Exact, Lookups = DOMAIN sets,
           \A i \in DOMAIN sets : \A c \in Fitting : \E e \in sets[i] : e.child = c
    PROVE  /\ Fitting \subseteq Found /\ Fitting \subseteq Listed
           /\ Loads => Found = Fitting
<1>1. Fitting \subseteq Found
  BY DEF Fitting, Found
<1>2. Fitting \subseteq Listed
  BY <1>1 DEF Listed, KeyFilter, Existing, Fitting, Satisfies
<1>3. ASSUME Loads, NEW c \in Found
      PROVE  c \in Fitting
  <2>1. \A i \in DOMAIN query.filters : plan.filter[i] # {}
    BY <1>3 DEF Loads, ScanFilters
  <2>2. Answered(c)
    BY <2>1, FoundAnswers DEF Answered
  <2>3. ~ Emptied /\ c \in Children
    BY <1>3 DEF Loads, Emptied, Found
  <2>4. \A i \in DOMAIN query.filters : TestNode(data[c], query.filters[i])
    BY <2>2, <2>3, AnsweredFits
  <2>5. PICK i \in Lookups : TRUE
    BY <1>3 DEF Loads
  <2>6. i \in DOMAIN query.filters /\ query.filters[i].op # "!exists"
    BY <2>1, <2>5 DEF Exact, Unlisted, Lookups
  <2>7. data[c][query.filters[i].key] # Missing
    BY <2>4, <2>6 DEF TestNode
  <2>8. query.filters[i].key \in Keys
    BY <2>6, QueryOfFilters
  <2>9. data[c] # NoRecord
    BY <2>7, <2>8 DEF NoRecord
  <2> QED
    BY <2>2, <2>3, <2>9, AnsweredFits
<1> QED
  BY <1>1, <1>2, <1>3

\* The index of a sort.
LEMMA SortIs ==
    ASSUME Base, NEW j \in DOMAIN query.sort, plan.sort[j] # {}
    PROVE  \E ix \in DOMAIN lag : /\ plan.sort[j] = {ix} /\ query.sort[j].key \in KeysFor(ix)
                                  /\ query.filters = <<>> => ix.key = query.sort[j].key
<1>1. SortPlanned(query, DOMAIN lag, plan.sort[j], query.sort[j].key)
  BY DEF Base, PlanGood
<1> QED
  BY <1>1 DEF SortPlanned

LEMMA SortsKnown ==
    ASSUME Base, AllSortsIndexed, ~ SortLost, ~ SortedByIndex, NEW j \in DOMAIN query.sort
    PROVE  query.sort[j].key \in Keys /\ \E i \in Lookups : query.sort[j].key \in KeysFor(IndexOf(i))
<1>1. plan.sort[j] # {}
  BY DEF AllSortsIndexed
<1>2. PICK i \in Lookups : plan.filter[i] = plan.sort[j]
  BY <1>1 DEF SortLost
<1>3. PICK ix \in DOMAIN lag : plan.sort[j] = {ix} /\ query.sort[j].key \in KeysFor(ix)
  BY <1>1, SortIs
<1>4. IndexOf(i) = ix
  BY <1>2, <1>3 DEF IndexOf
<1> QED
  BY <1>3, <1>4, QueryTyped DEF Base

\* Of results that are undecided, so are the records.
LEMMA UndecidedIs ==
    ASSUME IsQuery(query), NEW S, \A m \in S : Alike(m) /\ m.child \in Fitting, Undecided(S)
    PROVE  Undecided(All)
<1>1. DOMAIN query.sort = 1..Len(query.sort) /\ Len(query.sort) \in Nat
  BY QueryTyped
<1>2. PICK a \in S, b \in S, j \in DOMAIN query.sort :
        /\ Same(a, b, j - 1)
        /\ a.val[query.sort[j].key] = Missing /\ b.val[query.sort[j].key] # Missing
  BY DEF Undecided
<1>3. \A m \in S : Rec(m.child) \in All /\ \A h \in DOMAIN query.sort :
         Rec(m.child).val[query.sort[h].key] = m.val[query.sort[h].key]
  BY DEF All, Rec, Alike
<1>4. \A h \in 1..(j - 1) : h \in DOMAIN query.sort
  BY <1>1
<1>5. Same(Rec(a.child), Rec(b.child), j - 1)
  BY <1>2, <1>3, <1>4 DEF Same
<1> QED
  BY <1>2, <1>3, <1>5 DEF Undecided

\* What the indexes say of a record that all lookups found is so, of each key
\* that the results are sorted by.
LEMMA KnownAlike ==
    ASSUME Base, SetsGood, Fresh, Lookups = DOMAIN sets, AllSortsIndexed, ~ SortLost, ~ SortedByIndex,
           NEW c \in Found
    PROVE  Alike(Known(c))
<1> DEFINE by(k) == {i \in Lookups : k \in KeysFor(IndexOf(i))}
           entry(i) == CHOOSE e \in sets[i] : e.child = c
           val(i, k) == IF k = IndexOf(i).key THEN entry(i).key ELSE entry(i).meta[k]
           choice(k) == CHOOSE i \in by(k) : TRUE
<1>1. Known(c) = [child |-> c, val |-> [k \in Keys |-> IF by(k) = {} THEN Missing ELSE val(choice(k), k)]]
  BY DEF Known
<1>2. ASSUME NEW i \in Lookups, NEW k \in KeysFor(IndexOf(i))
      PROVE  val(i, k) = data[c][k]
  <2> DEFINE e == entry(i)
  <2>1. e \in sets[i] /\ e.child = c
    BY DEF Found
  <2>2. PICK s \in seen : EntryFrom(IndexOf(i), e, s)
    BY <2>1 DEF SetsGood
  <2>3. IsIndex(IndexOf(i))
    BY PlanIs DEF Lookups
  <2> HIDE DEF e
  <2>4. /\ s[1] = c /\ e.key = s[2][IndexOf(i).key]
        /\ \A x \in IndexOf(i).include : e.meta[x] = s[2][x]
    BY <2>1, <2>2, <2>3, EntryIs
  <2>5. s[2] = data[c]
    BY <2>4, FreshIs
  <2>6. (IF k = IndexOf(i).key THEN e.key ELSE e.meta[k]) = data[c][k]
    BY <1>2, <2>4, <2>5 DEF KeysFor
  <2> QED
    BY <2>6 DEF e
<1>3. ASSUME NEW j \in DOMAIN query.sort
      PROVE  by(query.sort[j].key) # {} /\ query.sort[j].key \in Keys
  BY SortsKnown
<1>4. \A k : by(k) # {} => choice(k) \in Lookups /\ k \in KeysFor(IndexOf(choice(k)))
  OBVIOUS
<1> HIDE DEF by, val, choice
<1>5. \A k \in Keys : Known(c).val[k] = IF by(k) = {} THEN Missing ELSE val(choice(k), k)
  BY <1>1
<1>6. Known(c).child = c
  BY <1>1
<1> QED
  BY <1>2, <1>3, <1>4, <1>5, <1>6 DEF Alike

\* Steps of a query that nothing is written during.
Steady == UNCHANGED <<data, lag, bare, query, plan, seen>>

LEMMA SteadyIs ==
    ASSUME Steady
    PROVE  /\ Fitting' = Fitting /\ All' = All /\ ChildOrder' = ChildOrder /\ Order' = Order
           /\ Limit' = Limit /\ Take' = Take /\ Existing' = Existing
           /\ Fresh' = Fresh /\ Exact' = Exact /\ Loads' = Loads
           /\ AllSortsIndexed' = AllSortsIndexed /\ SortedByIndex' = SortedByIndex
           /\ Disordered(All)' = Disordered(All)
<1> USE DEF Steady
<1>1. Fitting' = Fitting /\ Existing' = Existing
  BY DEF Fitting, Satisfies, Holds, TestNode, Existing
<1>2. All' = All
  BY <1>1 DEF All, Rec
<1>3. Take' = Take /\ Limit' = Limit
  BY DEF Take, Limit
<1>4. AllSortsIndexed' = AllSortsIndexed /\ SortedByIndex' = SortedByIndex /\ Lookups' = Lookups
      /\ ScanFilters' = ScanFilters
  BY DEF AllSortsIndexed, SortedByIndex, Lookups, ScanFilters
<1>5. \A a, b : Ahead(a, b)' = Ahead(a, b) /\ Before(a, b)' = Before(a, b)
  BY DEF Ahead, Before, Tied
<1>6. ChildOrder' = ChildOrder
  BY DEF ChildOrder, Rec, Before, Ahead, Tied
<1>7. Order' = Order
  BY <1>2, <1>4 DEF Order, Before, Ahead, Tied
<1>8. Fresh' = Fresh
  BY <1>1 DEF Fresh, EntryOf
<1>9. Loads' = Loads
  BY <1>4 DEF Loads
<1>10. Exact' = Exact
  <2>1. TossesWrong' = TossesWrong
    BY <1>3, <1>4 DEF TossesWrong
  <2>2. SortLost' = SortLost
    BY <1>4 DEF SortLost
  <2>3. Unsortable' = Unsortable
    BY <1>1, <1>4 DEF Unsortable
  <2>4. \A i : Lost(i)' = Lost(i) /\ Unlisted(i)' = Unlisted(i)
    BY <1>4 DEF Lost, Unlisted
  <2>5. \A i, c : ByNull(c, query.filters[i])' = ByNull(c, query.filters[i])
    BY DEF ByNull
  <2> QED
    BY <2>1, <2>2, <2>3, <2>4, <2>5 DEF Exact
<1>11. Disordered(All)' = Disordered(All)
  <2>1. \A a, b, n : Same(a, b, n)' = Same(a, b, n)
    BY DEF Same
  <2>2. Undecided(All)' = Undecided(All)
    BY <1>2, <2>1 DEF Undecided
  <2> QED
    BY <1>4, <2>2 DEF Disordered
<1> QED
  BY <1>1, <1>2, <1>3, <1>4, <1>6, <1>7, <1>8, <1>9, <1>10, <1>11

LEMMA PileStays ==
    ASSUME Steady, Pile(matches', todo' \union loading', Tosses')
    PROVE  Pile(matches, todo \union loading, Tosses)'
<1>1. Fitting' = Fitting /\ Limit' = Limit /\ ChildOrder' = ChildOrder
  BY SteadyIs
<1> QED
  BY <1>1 DEF Pile, Kids, Apart, Alike, Steady

LEMMA PlacedStays ==
    ASSUME Steady, Placed(matches')
    PROVE  Placed(matches)'
<1>1. Fitting' = Fitting /\ Limit' = Limit /\ All' = All /\ Order' = Order /\ Take' = Take
      /\ Disordered(All)' = Disordered(All)
  BY SteadyIs
<1> QED
  BY <1>1 DEF Placed, Kids, Apart, Rec, Below, Above, StartOf, LengthOf, Left, Wanted, Steady

LEMMA LimitIs ==
    ASSUME IsQuery(query)
    PROVE  /\ Take \in Int /\ query.skip \in Nat /\ Limit \in Nat
           /\ Take # 0 \/ query.skip > 0 => Limit \in Nat \ {0}
<1>1. query.skip \in Nat /\ query.take \in Int
  BY QueryTyped
<1>2. Take \in Int
  BY <1>1 DEF Take
<1> QED
  BY <1>1, <1>2 DEF Limit

\* The last of the order is tossed only where the first are asked for.
LEMMA TossesIs ==
    ASSUME IsQuery(query), Exact
    PROVE  /\ ~ Loads /\ Take # 0 => (query.sort # <<>> => Take > 0)
           /\ Loads /\ ~ AllSortsIndexed => query.sort # <<>> /\ (query.skip > 0 => Take > 0)
<1>1. Take \in Int /\ query.skip \in Nat
  BY LimitIs
<1>2. /\ ~ (Take < 0 /\ query.sort # <<>> /\ (Lookups = {} \/ ScanFilters # {} \/ ~ AllSortsIndexed))
      /\ ~ (query.skip > 0 /\ Take = 0 /\ Lookups # {} /\ ScanFilters = {} /\ ~ AllSortsIndexed)
  BY DEF Exact, TossesWrong
<1>3. ~ AllSortsIndexed => query.sort # <<>>
  BY DEF AllSortsIndexed
<1> QED
  BY <1>1, <1>2, <1>3 DEF Loads

LEMMA PileStarts ==
    ASSUME IsQuery(query), NEW W, Fitting \subseteq W, NEW T
    PROVE  Pile(<<>>, W, T)
<1>1. DOMAIN <<>> = {} /\ Len(<<>>) = 0 /\ <<>> \in Seq(Matches)
  OBVIOUS
<1>2. Kids(<<>>) = {}
  BY <1>1 DEF Kids, Range
<1>3. Limit >= 0
  BY LimitIs
<1> QED
  BY <1>1, <1>2, <1>3 DEF Pile, Apart

LEMMA CalmStarts ==
    ASSUME QueryAssumption, Init
    PROVE  CalmInv
<1>1. PICK indexes \in IndexSets :
        /\ lag = [ix \in indexes |-> {}]
        /\ \E built \in BOOLEAN :
              bare = [ix \in indexes |->
                  IF ~ built THEN {} ELSE {EntryOf(ix, c, data[c]) :
                      c \in {x \in Children : data[x] # NoRecord /\ data[x][ix.key] = Missing}}]
  BY DEF Init
<1>2. DOMAIN lag = indexes /\ \A ix \in indexes : lag[ix] = {}
  BY <1>1
<1>3. \A ix \in indexes : \A e \in bare[ix] :
         \E c \in Existing : e = EntryOf(ix, c, data[c]) /\ data[c][ix.key] = Missing
  BY <1>1 DEF Existing
<1>4. step = "lookup" /\ sets = <<>> /\ writes = 0 /\ seen = {<<c, data[c]>> : c \in Children}
  BY DEF Init
<1>5. DOMAIN sets = {}
  BY <1>4
<1> QED
  BY <1>2, <1>3, <1>4, <1>5 DEF CalmInv, Calm, Fresh

LEMMA CalmLookup ==
    ASSUME Base, OrderedBounds, Calm, NEW i \in DOMAIN query.filters, Lookup(i)
    PROVE  Calm'
<1>1. /\ step = "lookup" /\ step' = step /\ i \in Lookups \ DOMAIN sets
      /\ sets' = [j \in DOMAIN sets \union {i} |-> IF j = i THEN LookupOf(i) ELSE sets[j]]
      /\ Steady
  BY DEF Lookup, Steady
<1>2. Fitting' = Fitting /\ Exact' = Exact /\ Fresh' = Fresh
  BY <1>1, SteadyIs
<1>3. DOMAIN sets' = DOMAIN sets \union {i} /\ \A j \in DOMAIN sets' : sets'[j] = IF j = i THEN LookupOf(i) ELSE sets[j]
  BY <1>1
<1>4. ASSUME Exact, NEW c \in Fitting
      PROVE  \E e \in LookupOf(i) : e.child = c
  <2>1. c \in Children /\ Always(c)
    BY FreshIs DEF Calm, Fitting
  <2>2. ~ Unlisted(i) /\ i \in Lookups
    BY <1>1, <1>4 DEF Exact, Unlisted
  <2> QED
    BY <2>1, <2>2, LookupKeeps
<1>5. Exact => \A j \in DOMAIN sets' : \A c \in Fitting : \E e \in sets'[j] : e.child = c
  BY <1>1, <1>3, <1>4 DEF Calm
<1> QED
  BY <1>1, <1>2, <1>5 DEF Calm

\* The rest of a step that looks nothing up.
LEMMA CalmStep ==
    ASSUME Steady, sets' = sets, Calm, step' # "lookup",
           SortedByIndex => step' \notin {"scan", "load"},
           step' = "load" => Loads /\ ~ AllSortsIndexed /\ loading' = {},
           step' = "scan" => ~ Loads,
           step' \in {"scan", "load"} /\ Exact /\ ~ Emptied =>
              /\ Pile(matches', todo' \union loading', Tosses')
              /\ todo' \cap loading' = {} /\ loading' \subseteq Fitting
              /\ todo' \subseteq (IF step' = "load" THEN Fitting ELSE Existing),
           step' \in {"reload", "done"} /\ Exact /\ ~ Emptied =>
              Placed(matches') /\ (step' = "reload" => todo' \subseteq Kids(matches'))
    PROVE  Calm'
<1>1. /\ Fitting' = Fitting /\ Existing' = Existing /\ Fresh' = Fresh /\ Exact' = Exact /\ Loads' = Loads
      /\ AllSortsIndexed' = AllSortsIndexed /\ SortedByIndex' = SortedByIndex
  BY SteadyIs
<1>2. Emptied' = Emptied
  BY DEF Steady, Emptied, Lookups, ScanFilters, Found
<1>3. Kids(matches)' = Kids(matches')
  BY DEF Kids
<1>4. Pile(matches', todo' \union loading', Tosses') => Pile(matches, todo \union loading, Tosses)'
  BY PileStays
<1>5. Placed(matches') => Placed(matches)'
  BY PlacedStays
<1> QED
  BY <1>1, <1>2, <1>3, <1>4, <1>5 DEF Calm

LEMMA CalmMerge ==
    ASSUME QueryAssumption, OrderedBounds, Base, Rest, Calm, Merge
    PROVE  Calm'
<1>1. /\ step = "lookup" /\ ~ SortedByIndex /\ Lookups = DOMAIN sets
      /\ Steady /\ UNCHANGED <<sets, loading>>
  BY DEF Merge, Steady
<1>2. matches = <<>> /\ loading = {} /\ IsQuery(query) /\ data \in [Children -> Records] /\ SetsGood /\ Fresh
  BY <1>1 DEF Rest, Typed, Base, Calm
<1>3. \/ /\ Loads /\ AllSortsIndexed /\ \E t \in KnownOrders : matches' = Window(t)
         /\ todo' \subseteq Kids(matches')
         /\ step' \in {"reload", "done"}
      \/ Loads /\ ~ AllSortsIndexed /\ todo' = Found /\ step' = "load" /\ matches' = matches
      \/ ~ Loads /\ todo' = Listed /\ step' = "scan" /\ matches' = matches
  BY DEF Merge, Loads, Kids
<1>4. Exact => /\ Fitting \subseteq Found /\ Fitting \subseteq Listed
               /\ Loads => Found = Fitting
  BY <1>1, <1>2, FoundIs DEF Calm
<1>5. CASE /\ Loads /\ AllSortsIndexed /\ \E t \in KnownOrders : matches' = Window(t)
           /\ todo' \subseteq Kids(matches')
           /\ step' \in {"reload", "done"}
  <2>0. PICK t \in KnownOrders : matches' = Window(t)
    BY <1>5
  <2>1. /\ t \in Seq(Matches) /\ Kids(t) = Found /\ Apart(t)
        /\ \A n \in DOMAIN t : \E c \in Found : t[n] = Known(c)
        /\ ~ Undecided({Known(c) : c \in Found}) =>
             \A i, j \in 1..Len(t) : i < j => ~ Precedes(t[j], t[i])
    BY <1>1, <1>2, KnownOrdersAre
  <2>2. ASSUME Exact
        PROVE  Placed(Window(t))
    <3>1. \A c \in Found : Alike(Known(c))
      BY <1>1, <1>2, <1>5, <2>2, KnownAlike DEF Exact
    <3>2. Kids(t) = Fitting /\ Found = Fitting
      BY <1>4, <1>5, <2>1, <2>2
    <3>3. Pile(t, {}, FALSE)
      BY <2>1, <3>1, <3>2 DEF Pile
    <3>4. Undecided({Known(c) : c \in Found}) => Disordered(All)
      <4> DEFINE S == {Known(c) : c \in Found}
      <4>1. \A c \in Found : Known(c).child = c
        BY <1>1, <1>2, KnownIs
      <4>2. \A m \in S : Alike(m) /\ m.child \in Fitting
        BY <3>1, <3>2, <4>1
      <4> HIDE DEF S
      <4>3. Undecided(S) => Undecided(All)
        BY <1>2, <4>2, UndecidedIs
      <4> QED
        BY <1>5, <4>3 DEF S, Disordered, Loads
    <3>5. SortKeys(query) \subseteq KnownKeys
      <4>1. \A j \in DOMAIN query.sort : \E i \in Lookups : query.sort[j].key \in KeysFor(IndexOf(i))
        BY <1>1, <1>5, <2>2, SortsKnown DEF Exact
      <4> QED
        BY <4>1 DEF SortKeys, KnownKeys
    <3>6. ASSUME query.sort # <<>>, ~ Disordered(All), NEW i \in 1..Len(t), NEW j \in 1..Len(t), i < j
          PROVE  ~ Before(t[j], t[i])
      <4>1. ~ Precedes(t[j], t[i])
        BY <2>1, <3>4, <3>6
      <4> QED
        BY <1>2, <3>5, <3>6, <4>1, BeforePrecedes
    <3> QED
      BY <1>1, <1>2, <3>3, <3>6, PileIsPlaced
  <2>3. step' \in {"reload", "done"} /\ step' \notin {"lookup", "scan", "load"}
    BY <1>5
  <2> QED
    BY <1>1, <1>5, <2>0, <2>2, <2>3, CalmStep
<1>6. CASE Loads /\ ~ AllSortsIndexed /\ todo' = Found /\ step' = "load" /\ matches' = matches
  <2>1. Exact => Pile(matches', todo' \union loading', Tosses') /\ todo' \subseteq Fitting
    BY <1>1, <1>2, <1>4, <1>6, PileStarts
  <2>2. loading' = {}
    BY <1>1, <1>2
  <2> QED
    BY <1>1, <1>6, <2>1, <2>2, CalmStep
<1>7. CASE ~ Loads /\ todo' = Listed /\ step' = "scan" /\ matches' = matches
  <2>1. Exact => Pile(matches', todo' \union loading', Tosses')
    BY <1>1, <1>2, <1>4, <1>7, PileStarts
  <2>2. todo' \subseteq Existing /\ loading' = {}
    BY <1>1, <1>2, <1>7 DEF Listed
  <2> QED
    BY <1>1, <1>7, <2>1, <2>2, CalmStep
<1> QED
  BY <1>3, <1>5, <1>6, <1>7

\* A match more, in a scan.
LEMMA CalmPush ==
    ASSUME QueryAssumption, Base, Rest, Calm, Exact, ~ Emptied, step = "scan", step' = step, Steady,
           NEW c \in Fitting, c \in todo \union loading,
           NEW v \in Records, query.sort # <<>> => v = data[c], Push([child |-> c, val |-> v]),
           loading' = loading \ {c}
    PROVE  /\ Pile(matches', todo' \union loading', Tosses')
           /\ todo' \cap loading' = {} /\ loading' \subseteq Fitting /\ todo' \subseteq Existing
<1> DEFINE m == [child |-> c, val |-> v]
           T == Take # 0
           W == todo \union loading
           V == todo' \union loading'
<1>1. IsQuery(query) /\ data \in [Children -> Records] /\ c \in Children
  BY DEF Base, Fitting
<1>2. m \in Matches /\ m.child = c /\ (query.sort # <<>> => Alike(m))
  BY <1>1 DEF Matches, Records, Alike
<1>3. Pile(matches, W, T) /\ todo \cap loading = {} /\ loading \subseteq Fitting /\ todo \subseteq Existing
  BY DEF Calm, Tosses
<1> HIDE DEF m
<1>4. /\ matches' = Tossed(Append(matches, m))
      /\ todo' = IF Take > 0 /\ query.sort = <<>> /\ Len(matches) = Limit THEN {} ELSE todo \ {c}
  BY <1>2 DEF Push, m
<1>5. todo' \subseteq todo \ {c} /\ V \in SUBSET (W \ {c})
  BY <1>4
<1>6. V = W \ {c} \/ (T /\ query.sort = <<>> /\ Len(matches) = Limit)
  <2>1. Take > 0 => Take # 0
    BY <1>1, LimitIs
  <2> QED
    BY <1>4, <2>1
<1>7. T => Limit \in Nat \ {0}
  BY <1>1, LimitIs
<1>8. T \in BOOLEAN
  OBVIOUS
<1>9. matches' = IF T /\ Len(Append(matches, m)) > Limit THEN Front(Sorted(Append(matches, m))) ELSE Append(matches, m)
  BY <1>4 DEF Tossed
<1> HIDE DEF T, W, V
<1>a. m \in Matches /\ m.child \in W /\ m.child \in Fitting /\ (query.sort # <<>> => Alike(m))
  BY <1>2 DEF W
<1>b. V \in SUBSET (W \ {m.child}) /\ (V = W \ {m.child} \/ (T /\ query.sort = <<>> /\ Len(matches) = Limit))
  BY <1>2, <1>5, <1>6
<1>10. Pile(IF T /\ Len(Append(matches, m)) > Limit THEN Front(Sorted(Append(matches, m))) ELSE Append(matches, m), V, T)
  BY <1>1, <1>3, <1>a, <1>b, <1>7, <1>8, PileGrows
<1>11. Pile(matches', V, T)
  BY <1>9, <1>10
<1>12. Tosses' = T
  <2>1. Take' = Take
    BY SteadyIs
  <2> QED
    BY <2>1 DEF Tosses, T
<1>13. todo' \cap loading' = {} /\ loading' \subseteq Fitting /\ todo' \subseteq Existing
  BY <1>3, <1>5
<1> QED
  BY <1>11, <1>12, <1>13 DEF V

LEMMA CalmMatch ==
    ASSUME QueryAssumption, OrderedBounds, Base, Rest, Calm, NEW c \in Children, Match(c)
    PROVE  Calm'
<1>1. step = "scan" /\ c \in todo /\ Steady /\ sets' = sets /\ ~ SortedByIndex /\ ~ Loads /\ Fresh
  BY DEF Match, Steady, Calm
<1>2. Exact /\ ~ Emptied =>
        /\ Pile(matches, todo \union loading, Tosses)
        /\ todo \cap loading = {} /\ loading \subseteq Fitting /\ todo \subseteq Existing
  BY <1>1 DEF Calm
<1>3. Exact /\ ~ Emptied /\ Holds(data[c], Scanned) => c \in Fitting
  <2> SUFFICES ASSUME Exact, ~ Emptied, Holds(data[c], Scanned) PROVE c \in Fitting
    OBVIOUS
  <2>1. HalfAnswered(c)
    BY <1>1 DEF Rest, AllSound
  <2>2. Answered(c)
    BY <2>1, MatchAnswers
  <2>3. data[c] # NoRecord
    BY <1>1, <1>2 DEF Existing
  <2> QED
    BY <1>1, <2>2, <2>3, AnsweredFits
<1>4. c \in Fitting => Holds(data[c], Scanned)
  BY <1>1, FreshIs, AlwaysIs
<1>5. CASE step' \in {"failed", "empty"}
  BY <1>1, <1>5, CalmStep
<1>6. CASE step' = step /\ ~ Holds(data[c], Scanned) /\ todo' = todo \ {c}
           /\ loading' = loading /\ matches' = matches
  <2>1. Tosses' = Tosses
    BY <1>1, <1>6, SteadyIs DEF Tosses
  <2>2. c \notin Fitting
    BY <1>4, <1>6
  <2>3. Exact /\ ~ Emptied => Pile(matches', todo' \union loading', Tosses')
    BY <1>2, <1>6, <2>1, <2>2 DEF Pile
  <2> QED
    BY <1>1, <1>2, <1>6, <2>3, CalmStep
<1>7. CASE step' = step /\ Holds(data[c], Scanned) /\ todo' = todo \ {c}
           /\ loading' = loading \union {c} /\ matches' = matches
  <2>1. Tosses' = Tosses
    BY <1>1, <1>7, SteadyIs DEF Tosses
  <2>2. todo' \union loading' = todo \union loading
    BY <1>1, <1>7
  <2>3. Exact /\ ~ Emptied => Pile(matches', todo' \union loading', Tosses')
    BY <1>2, <1>7, <2>1, <2>2
  <2> QED
    BY <1>1, <1>2, <1>3, <1>7, <2>3, CalmStep
<1>8. CASE step' = step /\ Holds(data[c], Scanned) /\ loading' = loading /\ query.sort = <<>>
           /\ Push([child |-> c, val |-> NoRecord])
  <2>1. NoRecord \in Records
    BY DEF NoRecord, Records, Missing
  <2>2. ASSUME Exact, ~ Emptied
        PROVE  /\ Pile(matches', todo' \union loading', Tosses')
               /\ todo' \cap loading' = {} /\ loading' \subseteq Fitting /\ todo' \subseteq Existing
    <3>1. loading' = loading \ {c} /\ c \in todo \union loading /\ c \in Fitting
      BY <1>1, <1>2, <1>3, <1>8, <2>2
    <3> QED
      BY <1>1, <1>8, <2>1, <2>2, <3>1, CalmPush
  <2> QED
    BY <1>1, <1>8, <2>2, CalmStep
<1> QED
  BY <1>5, <1>6, <1>7, <1>8 DEF Match, MatchFails, Empty

LEMMA CalmListing ==
    ASSUME Calm, ListingFails
    PROVE  Calm'
<1>1. Steady /\ sets' = sets /\ step' = "empty"
  BY DEF ListingFails, Empty, Steady
<1> QED
  BY <1>1, CalmStep

LEMMA CalmLoadValue ==
    ASSUME QueryAssumption, Base, Rest, Calm, NEW c \in Children, LoadValue(c)
    PROVE  Calm'
<1>1. /\ step = "scan" /\ step' = step /\ c \in loading /\ loading' = loading \ {c}
      /\ Push([child |-> c, val |-> data[c]]) /\ Steady /\ sets' = sets
      /\ ~ SortedByIndex /\ ~ Loads
  BY DEF LoadValue, Steady, Calm
<1>2. data[c] \in Records
  BY DEF Base
<1>3. ASSUME Exact, ~ Emptied
      PROVE  /\ Pile(matches', todo' \union loading', Tosses')
             /\ todo' \cap loading' = {} /\ loading' \subseteq Fitting /\ todo' \subseteq Existing
  <2>1. c \in Fitting
    BY <1>1, <1>3 DEF Calm
  <2> QED
    BY <1>1, <1>2, <1>3, <2>1, CalmPush
<1> QED
  BY <1>1, <1>3, CalmStep

\* A child that was found, before the results are sorted.
LEMMA CalmLoadResult ==
    ASSUME QueryAssumption, Base, Rest, Calm, NEW c \in Children, LoadResult(c)
    PROVE  Calm'
<1> DEFINE m == [child |-> c, val |-> data[c]]
           T == query.skip > 0
           W == todo \union loading
           t == Append(matches, m)
<1>1. /\ step = "load" /\ step' = step /\ c \in todo /\ todo' = todo \ {c} /\ loading' = loading /\ loading = {}
      /\ matches' = IF data[c] = NoRecord THEN matches ELSE TossedLoad(t)
      /\ Steady /\ sets' = sets /\ ~ SortedByIndex /\ Loads /\ ~ AllSortsIndexed
  BY DEF LoadResult, Steady, Calm
<1>2. IsQuery(query) /\ data \in [Children -> Records] /\ query' = query
  BY <1>1 DEF Base, Steady
<1>3. ASSUME Exact, ~ Emptied
      PROVE  /\ Pile(matches', todo' \union loading', Tosses')
             /\ todo' \cap loading' = {} /\ loading' \subseteq Fitting /\ todo' \subseteq Fitting
  <2>1. Pile(matches, W, T) /\ todo \cap loading = {} /\ loading \subseteq Fitting /\ todo \subseteq Fitting
    BY <1>1, <1>3 DEF Calm, Tosses
  <2>2. c \in Fitting /\ data[c] # NoRecord
    BY <1>1, <2>1 DEF Fitting, Satisfies
  <2>3. query.sort # <<>>
    BY <1>1, <1>2, <1>3, TossesIs
  <2>4. m \in Matches /\ m.child = c /\ Alike(m)
    BY <1>2 DEF Matches, Records, Alike
  <2>5. T => Limit \in Nat \ {0}
    BY <1>2, LimitIs
  <2>6. matches' = IF T /\ Len(t) > Limit THEN Front(Sorted(t)) ELSE t
    BY <1>1, <2>2, <2>3 DEF TossedLoad, Sorted
  <2>7. todo' \union loading' = W \ {c} /\ c \in W
    BY <1>1, <2>1
  <2>8. T \in BOOLEAN
    OBVIOUS
  <2> HIDE DEF m, T, W
  <2>9. Pile(IF T /\ Len(t) > Limit THEN Front(Sorted(t)) ELSE t, W \ {c}, T)
    <3>1. W \ {m.child} \in SUBSET (W \ {m.child})
      OBVIOUS
    <3>2. m \in Matches /\ m.child \in W /\ m.child \in Fitting /\ (query.sort # <<>> => Alike(m))
      BY <2>2, <2>4, <2>7
    <3>3. Pile(IF T /\ Len(Append(matches, m)) > Limit THEN Front(Sorted(Append(matches, m))) ELSE Append(matches, m),
               W \ {m.child}, T)
      BY <1>2, <2>1, <2>5, <2>8, <3>1, <3>2, PileGrows
    <3> QED
      BY <2>4, <3>3
  <2>10. Tosses' = T
    BY <1>1, <1>2 DEF Tosses, T
  <2> QED
    BY <1>1, <2>1, <2>6, <2>7, <2>9, <2>10
<1> QED
  BY <1>1, <1>3, CalmStep

\* The results in their order, and skip and take.
LEMMA CalmFinish ==
    ASSUME QueryAssumption, Base, Rest, Calm, FinishScan \/ FinishLoad
    PROVE  Calm'
<1> DEFINE u == IF step = "scan" THEN Sorted(matches) ELSE SortMatches(matches)
           t == Window(u)
<1>1. /\ step \in {"scan", "load"} /\ todo = {} /\ matches' = t
      /\ todo' \in {{}, {m.child : m \in Range(t)}} /\ step' \in {"done", "reload"}
      /\ step = "scan" => loading = {}
      /\ Steady /\ sets' = sets
  BY DEF FinishScan, FinishLoad, Steady
<1>2. IsQuery(query) /\ data \in [Children -> Records] /\ ~ SortedByIndex
  BY <1>1 DEF Base, Calm
<1>3. ASSUME Exact, ~ Emptied
      PROVE  Placed(matches') /\ todo' \subseteq Kids(matches')
  <2>1. Pile(matches, {}, Tosses)
    <3>1. todo \union loading = {}
      BY <1>1 DEF Calm
    <3> QED
      BY <1>1, <1>3, <3>1 DEF Calm
  <2>2. Tosses => Take # 0 /\ (query.sort # <<>> => Take > 0)
    <3>1. Take > 0 => Take # 0
      BY <1>2, LimitIs
    <3> QED
      BY <1>1, <1>2, <1>3, <3>1, TossesIs DEF Tosses, Calm
  <2>3. u = Sorted(matches)
    BY <1>1, <1>2, <1>3, TossesIs DEF Calm, Sorted
  <2>4. Tosses \in BOOLEAN
    <3>1. CASE step = "scan"
      BY <3>1 DEF Tosses
    <3>2. CASE step # "scan"
      BY <3>2 DEF Tosses
    <3> QED
      BY <3>1, <3>2
  <2>5. Placed(Window(Sorted(matches)))
    BY <1>2, <2>1, <2>2, <2>4, SortedIsPlaced
  <2> QED
    BY <1>1, <2>3, <2>5 DEF Kids
<1> QED
  BY <1>1, <1>3, CalmStep

\* Results that are loaded again stay where they are.
LEMMA CalmReload ==
    ASSUME QueryAssumption, Base, Calm, NEW c \in Children, Reload(c)
    PROVE  Calm'
<1> DEFINE m == [child |-> c, val |-> data[c]]
           t == [n \in DOMAIN matches |-> IF matches[n].child = c THEN m ELSE matches[n]]
<1>1. /\ step = "reload" /\ step' = step /\ c \in todo /\ todo' = todo \ {c}
      /\ matches' = IF data[c] = NoRecord THEN Without(matches, c) ELSE t
      /\ Steady /\ sets' = sets
  BY DEF Reload, Steady
<1>2. ASSUME Exact, ~ Emptied
      PROVE  Placed(matches') /\ todo' \subseteq Kids(matches')
  <2>1. Placed(matches) /\ todo \subseteq Kids(matches)
    BY <1>1, <1>2 DEF Calm
  <2>2. data[c] # NoRecord
    BY <1>1, <2>1 DEF Placed, Fitting, Satisfies
  <2>3. m \in Matches /\ m.child = c
    BY DEF Matches, Base, Records
  <2>4. matches \in Seq(Matches)
    BY <2>1 DEF Placed
  <2> HIDE DEF m
  <2>5. DOMAIN matches = 1..Len(matches) /\ Len(matches) \in Nat /\ \A n \in DOMAIN matches : matches[n] \in Matches
    BY <2>4
  <2>6. t \in Seq(Matches) /\ Len(t) = Len(matches) /\ DOMAIN t = DOMAIN matches
        /\ \A n \in DOMAIN matches : t[n].child = matches[n].child
    <3>1. \A n \in DOMAIN matches : t[n] \in Matches /\ t[n].child = matches[n].child
      BY <2>3, <2>5
    <3>2. t \in Seq(Matches) /\ Len(t) = Len(matches)
      BY <2>3, <2>5
    <3> QED
      BY <3>1, <3>2
  <2>7. matches' = t
    BY <1>1, <2>2
  <2> HIDE DEF t
  <2>8. Kids(t) = Kids(matches)
    <3>1. /\ \A x \in Kids(t) : \E n \in DOMAIN t : t[n].child = x
          /\ \A x \in Kids(matches) : \E n \in DOMAIN matches : matches[n].child = x
          /\ \A n \in DOMAIN t : t[n].child \in Kids(t)
          /\ \A n \in DOMAIN matches : matches[n].child \in Kids(matches)
      BY <2>4, <2>6, KidsIs
    <3>2. Kids(t) \subseteq Kids(matches)
      BY <2>6, <3>1
    <3>3. Kids(matches) \subseteq Kids(t)
      BY <2>6, <3>1
    <3> QED
      BY <3>2, <3>3
  <2>9. Placed(t)
    BY <2>1, <2>6, <2>8 DEF Placed, Apart
  <2> QED
    BY <1>1, <2>1, <2>7, <2>8, <2>9
<1> QED
  BY <1>1, <1>2, CalmStep

\* The entries of the index that a query takes its results from, while nothing
\* is written: one of each record.
Ent(c) == EntryOf(SortIndex, c, data[c])
LEMMA EntriesAre ==
    ASSUME QueryAssumption, Base, Fresh, SortedByIndex, ~ Unsortable
    PROVE  /\ IsIndex(SortIndex) /\ 1 \in DOMAIN query.sort /\ SortIndex.key = query.sort[1].key
           /\ \A j \in DOMAIN query.sort \ {1} : query.sort[j].key \in SortIndex.include
           /\ \A e \in EntriesOf(SortIndex) : e.child \in Fitting /\ e = Ent(e.child)
           /\ \A c \in Fitting : Ent(c) \in EntriesOf(SortIndex) /\ Ent(c).child = c
           /\ Lookups = {}
<1> DEFINE ix == SortIndex
<1>1. IsQuery(query) /\ query.filters = <<>> /\ query.sort # <<>>
  BY DEF Base, SortedByIndex
<1>2. 1 \in DOMAIN query.sort
  <2>1. DOMAIN query.sort = 1..Len(query.sort) /\ Len(query.sort) \in Nat
    BY <1>1, QueryTyped
  <2>2. query.sort \in Seq([key : Keys, ascending : BOOLEAN])
    BY <1>1 DEF IsQuery
  <2>3. Len(query.sort) # 0
    BY <1>1, <2>2
  <2> QED
    BY <2>1, <2>3
<1>3. plan.sort[1] # {}
  BY DEF SortedByIndex
<1>4. ix \in DOMAIN lag /\ plan.sort[1] = {ix} /\ ix.key = query.sort[1].key
  <2>1. PICK x \in DOMAIN lag : plan.sort[1] = {x} /\ (query.filters = <<>> => x.key = query.sort[1].key)
    BY <1>2, <1>3, SortIs
  <2> QED
    BY <1>1, <2>1 DEF SortIndex
<1>5. IsIndex(ix) /\ \A j \in DOMAIN query.sort \ {1} : query.sort[j].key \in ix.include
  BY <1>4 DEF Base, SortedByIndex
<1>6. DOMAIN query.filters = {}
  BY <1>1
<1>7. Fitting = Existing
  <2>1. \A c \in Children : Satisfies(data[c], query.filters) <=> data[c] # NoRecord
    BY <1>6 DEF Satisfies, Holds, Range
  <2> QED
    BY <2>1 DEF Fitting, Existing
<1>8. ix.key \in Keys
  BY <1>5 DEF IsIndex
<1>9. \A c \in Children : data[c][ix.key] # Missing <=> c \in Existing
  <2>1. \A c \in Existing : data[c][ix.key] # Missing
    BY <1>4 DEF Unsortable
  <2>2. NoRecord[ix.key] = Missing
    BY <1>8 DEF NoRecord
  <2> QED
    BY <2>1, <2>2 DEF Existing
<1>10. bare[ix] = {}
  BY <1>4, <1>9 DEF Fresh, Existing
<1>11. \A c : Indexed(ix, c) = data[c]
  BY <1>4 DEF Fresh, Indexed
<1>12. EntriesOf(ix) = {EntryOf(ix, c, data[c]) : c \in Existing}
  <2>1. {x \in Children : Indexed(ix, x)[ix.key] # Missing} = Existing
    BY <1>9, <1>11 DEF Existing
  <2> QED
    BY <1>10, <1>11, <2>1 DEF EntriesOf
<1>13. \A c : EntryOf(ix, c, data[c]).child = c
  BY DEF EntryOf
<1>14. Lookups = {}
  BY <1>6 DEF Lookups
<1> QED
  BY <1>2, <1>4, <1>5, <1>7, <1>12, <1>13, <1>14 DEF Ent

\* What they say of their records.
LEMMA ListingIs ==
    ASSUME QueryAssumption, Base, Fresh, SortedByIndex, ~ Unsortable, NEW e \in EntriesOf(SortIndex)
    PROVE  Listing(e) \in Matches /\ Listing(e).child = e.child /\ Alike(Listing(e))
<1> DEFINE d == data[e.child]
           v == [k \in Keys |-> IF k = SortIndex.key THEN e.key
                                ELSE IF k \in SortIndex.include THEN e.meta[k] ELSE Missing]
<1>0. /\ IsIndex(SortIndex) /\ SortIndex.key = query.sort[1].key
      /\ \A j \in DOMAIN query.sort \ {1} : query.sort[j].key \in SortIndex.include
      /\ e.child \in Fitting /\ e = Ent(e.child)
  BY EntriesAre
<1>1. e.child \in Children /\ d \in [Keys -> Nat]
  BY <1>0 DEF Fitting, Base, Records
<1>2. e.key = d[SortIndex.key] /\ e.meta = [k \in SortIndex.include |-> d[k]]
  BY <1>0 DEF Ent, EntryOf
<1>3. SortIndex.key \in Keys /\ SortIndex.include \subseteq Keys
  BY <1>0 DEF IsIndex
<1>4. v \in [Keys -> Nat]
  <2> HIDE DEF d
  <2> QED
    BY <1>1, <1>2, <1>3 DEF Missing
<1>5. Listing(e) = [child |-> e.child, val |-> v]
  BY DEF Listing
<1>6. ASSUME NEW j \in DOMAIN query.sort
      PROVE  v[query.sort[j].key] = d[query.sort[j].key]
  <2>1. query.sort[j].key \in KeysFor(SortIndex)
    BY <1>0 DEF KeysFor
  <2> HIDE DEF d
  <2> QED
    BY <1>2, <1>3, <2>1 DEF KeysFor
<1> HIDE DEF v
<1>7. Listing(e).child = e.child /\ Listing(e).val = v
  BY <1>5
<1> QED
  BY <1>1, <1>4, <1>5, <1>6, <1>7 DEF Matches, Alike

\* What is ahead of another record has its entry before that of the other.
LEMMA AheadInIndex ==
    ASSUME QueryAssumption, Base, Fresh, SortedByIndex, ~ Unsortable, Take > 0, ~ Undecided(All),
           NEW c \in Fitting, NEW d \in Fitting, Ahead(Rec(c), Rec(d))
    PROVE  EntryBefore(Ent(c), Ent(d))
<1> DEFINE a == Rec(c)
           b == Rec(d)
           S == EntriesOf(SortIndex)
           group == {x \in S : x.key = Ent(c).key}
<1>1. /\ IsIndex(SortIndex) /\ 1 \in DOMAIN query.sort /\ SortIndex.key = query.sort[1].key
      /\ \A j \in DOMAIN query.sort \ {1} : query.sort[j].key \in SortIndex.include
      /\ \A e \in S : e.child \in Fitting /\ e = Ent(e.child)
      /\ Ent(c) \in S /\ Ent(c).child = c /\ Ent(d) \in S /\ Ent(d).child = d
  BY EntriesAre
<1>2. IsQuery(query) /\ DOMAIN query.sort = 1..Len(query.sort) /\ Len(query.sort) \in Nat
  BY QueryTyped DEF Base
<1>3. \A e \in S : Listing(e) \in Matches /\ Listing(e).child = e.child /\ Alike(Listing(e))
  BY ListingIs
<1>4. Ent(c).key = a.val[query.sort[1].key] /\ Ent(d).key = b.val[query.sort[1].key]
  BY <1>1 DEF Ent, EntryOf, Rec
<1> HIDE DEF S
<1>5. ~ Undecided({Listing(e) : e \in group})
  <2> DEFINE L == {Listing(e) : e \in group}
  <2>1. \A m \in L : Alike(m) /\ m.child \in Fitting
    BY <1>1, <1>3
  <2> HIDE DEF L
  <2>2. ~ Undecided(L)
    BY <1>2, <2>1, UndecidedIs
  <2> QED
    BY <2>2 DEF L
<1>6. Ahead(Listing(Ent(c)), Listing(Ent(d)))
  <2> DEFINE x == Listing(Ent(c))
             y == Listing(Ent(d))
  <2>1. Alike(x) /\ Alike(y) /\ x.child = c /\ y.child = d
    BY <1>1, <1>3
  <2>2. \A j \in DOMAIN query.sort : /\ x.val[query.sort[j].key] = a.val[query.sort[j].key]
                                     /\ y.val[query.sort[j].key] = b.val[query.sort[j].key]
    <3> HIDE DEF x, y
    <3> QED
      BY <2>1 DEF Alike, Rec
  <2> HIDE DEF x, y
  <2>3. \A k \in 1..Len(query.sort) : (TiedAt(x, y, k) <=> TiedAt(a, b, k)) /\ (AheadAt(x, y, k) <=> AheadAt(a, b, k))
    BY <1>2, <2>2 DEF TiedAt, AheadAt, SortVal
  <2>4. \A j \in 1..Len(query.sort) : \A k \in 1..(j - 1) : k \in 1..Len(query.sort)
    BY <1>2
  <2>5. Ahead(x, y)
    BY <1>2, <2>3, <2>4, AheadIs
  <2> QED
    BY <2>5 DEF x, y
<1>7. Prior(Listing(Ent(c)), Listing(Ent(d)), KeysFor(SortIndex))
  <2>1. SortKeys(query) \subseteq KeysFor(SortIndex)
    BY <1>1 DEF SortKeys, KeysFor
  <2> QED
    BY <1>2, <1>6, <2>1, BeforePrecedes
<1>8. CASE Ent(c).key = Ent(d).key
  BY <1>5, <1>7, <1>8 DEF EntryBefore, S
<1>9. CASE Ent(c).key # Ent(d).key
  <2>1. PICK j \in 1..Len(query.sort) : AheadAt(a, b, j) /\ \A k \in 1..(j - 1) : TiedAt(a, b, k)
    BY <1>2, AheadIs
  <2>2. j = 1
    <3>1. j # 1 => 1 \in 1..(j - 1)
      BY <1>2
    <3>2. TiedAt(a, b, 1) => Ent(c).key = Ent(d).key
      BY <1>4 DEF TiedAt, SortVal
    <3> QED
      BY <1>9, <2>1, <3>1, <3>2
  <2>3. Upwards = query.sort[1].ascending
    <3>1. Take \in Int
      BY <1>2, LimitIs
    <3> QED
      BY <3>1 DEF Upwards
  <2>4. IF query.sort[1].ascending THEN Ent(c).key < Ent(d).key ELSE Ent(c).key > Ent(d).key
    BY <1>4, <2>1, <2>2 DEF AheadAt, SortVal
  <2> QED
    BY <1>9, <2>3, <2>4 DEF EntryBefore
<1> QED
  BY <1>8, <1>9

\* All of them, in an order of the index.
LEMMA IndexOrdersAre ==
    ASSUME QueryAssumption, Base, Fresh, SortedByIndex, ~ Unsortable, NEW r \in IndexOrders
    PROVE  /\ r \in Seq(EntriesOf(SortIndex)) /\ Len(r) = Cardinality(All)
           /\ \A i, j \in 1..Cardinality(All) : r[i].child = r[j].child => i = j
           /\ \A c \in Fitting : \E i \in 1..Cardinality(All) : r[i].child = c
           /\ Take > 0 /\ ~ Undecided(All) => \A i, j \in 1..Cardinality(All) :
                i < j => ~ Ahead(Rec(r[j].child), Rec(r[i].child))
<1> DEFINE S == EntriesOf(SortIndex)
           before == {x \in S \X S : EntryBefore(x[1], x[2])}
           N == Cardinality(All)
           f == [c \in Fitting |-> Ent(c)]
<1>1. /\ \A e \in S : e.child \in Fitting /\ e = Ent(e.child)
      /\ \A c \in Fitting : Ent(c) \in S /\ Ent(c).child = c
  BY EntriesAre
<1>2. \A x, y \in S : EntryBefore(x, y) => <<x, y>> \in before
  OBVIOUS
<1>3. r \in Orders(S, before)
  BY DEF IndexOrders
<1> HIDE DEF S, before
<1>4. f \in Surjection(Fitting, S) /\ f \in Injection(Fitting, S)
  <2>1. f \in [Fitting -> S]
    BY <1>1
  <2>2. \A e \in S : \E c \in Fitting : f[c] = e
    BY <1>1
  <2>3. \A c, d \in Fitting : f[c] = f[d] => c = d
    BY <1>1
  <2> HIDE DEF f
  <2> QED
    BY <2>1, <2>2, <2>3 DEF Surjection, Injection, IsInjective
<1>5. IsFiniteSet(S) /\ Cardinality(S) = N
  <2>1. IsFiniteSet(Fitting) /\ Cardinality(Fitting) = N
    BY AllIs
  <2> HIDE DEF f, N
  <2> QED
    BY <1>4, <2>1, FS_Surjection
<1>6. /\ r \in Seq(S) /\ Len(r) = N /\ Range(r) = S
      /\ \A i, j \in 1..N : r[i] = r[j] => i = j
      /\ \A i, j \in 1..N : i < j => <<r[j], r[i]>> \notin before
  BY <1>3, <1>5, OrdersAre
<1> HIDE DEF N
<1>7. \A i \in 1..N : r[i] \in S
  BY <1>6
<1>8. \A i, j \in 1..N : r[i].child = r[j].child => i = j
  BY <1>1, <1>6, <1>7
<1>9. \A c \in Fitting : \E i \in 1..N : r[i].child = c
  <2>1. \A e \in S : \E i \in 1..N : r[i] = e
    BY <1>6 DEF Range
  <2> QED
    BY <1>1, <2>1
<1>10. ASSUME Take > 0, ~ Undecided(All), NEW i \in 1..N, NEW j \in 1..N, i < j
       PROVE  ~ Ahead(Rec(r[j].child), Rec(r[i].child))
  <2>1. r[i] \in S /\ r[j] \in S /\ ~ EntryBefore(r[j], r[i])
    BY <1>2, <1>6, <1>7, <1>10
  <2>2. /\ r[i].child \in Fitting /\ r[i] = Ent(r[i].child)
        /\ r[j].child \in Fitting /\ r[j] = Ent(r[j].child)
    BY <1>1, <2>1
  <2>3. Ahead(Rec(r[j].child), Rec(r[i].child)) => EntryBefore(Ent(r[j].child), Ent(r[i].child))
    BY <1>10, <2>2, AheadInIndex
  <2> QED
    BY <2>1, <2>2, <2>3
<1> QED
  BY <1>6, <1>8, <1>9, <1>10 DEF S, N

\* The results of the index.
LEMMA CalmIndexTake ==
    ASSUME QueryAssumption, Base, Calm, IndexTake
    PROVE  Calm'
<1>0. PICK r \in IndexOrders :
        LET last == IF Limit < Len(r) THEN Limit ELSE Len(r)
            w == SubSeq(r, query.skip + 1, last)
        IN /\ matches' = [n \in DOMAIN w |-> Listing(w[n])]
           /\ todo' = IF query.snapshots THEN {w[n].child : n \in DOMAIN w} ELSE {}
           /\ step' = IF query.snapshots THEN "reload" ELSE "done"
  BY DEF IndexTake
<1> DEFINE S == EntriesOf(SortIndex)
           N == Cardinality(All)
           last == IF Limit < Len(r) THEN Limit ELSE Len(r)
           w == SubSeq(r, query.skip + 1, last)
           t == [n \in DOMAIN w |-> Listing(w[n])]
           u == [n \in 1..N |-> Listing(r[n])]
<1>1. /\ step = "lookup" /\ SortedByIndex /\ Steady /\ sets' = sets
      /\ matches' = t
      /\ todo' = IF query.snapshots THEN {w[n].child : n \in DOMAIN w} ELSE {}
      /\ step' = IF query.snapshots THEN "reload" ELSE "done"
  BY <1>0 DEF IndexTake, Steady
<1>2. step' \in {"reload", "done"} /\ step' \notin {"lookup", "scan", "load"}
  BY <1>1
<1> HIDE DEF S, N, w, u
<1>3. ASSUME Exact
      PROVE  Placed(matches') /\ todo' \subseteq Kids(matches')
  <2>1. Fresh /\ ~ Unsortable /\ IsQuery(query) /\ query.filters = <<>> /\ query.sort # <<>>
    BY <1>1, <1>3 DEF Calm, Exact, Base, SortedByIndex
  <2>2. /\ IsIndex(SortIndex) /\ Lookups = {}
        /\ \A e \in S : e.child \in Fitting /\ e = Ent(e.child)
    BY <1>1, <2>1, EntriesAre DEF S
  <2>3. Take \in Int /\ Take > 0 /\ query.skip \in Nat /\ Limit = query.skip + Take
    <3>1. ~ (Take < 0)
      BY <1>3, <2>1, <2>2 DEF Exact, TossesWrong
    <3>2. Take # 0
      BY <2>1 DEF Take
    <3>3. Take \in Int /\ query.skip \in Nat
      BY <2>1, LimitIs
    <3> QED
      BY <3>1, <3>2, <3>3 DEF Limit
  <2>4. /\ r \in Seq(S) /\ Len(r) = N /\ N \in Nat
        /\ \A i, j \in 1..N : r[i].child = r[j].child => i = j
        /\ \A c \in Fitting : \E i \in 1..N : r[i].child = c
        /\ ~ Disordered(All) => \A i, j \in 1..N : i < j => ~ Ahead(Rec(r[j].child), Rec(r[i].child))
    BY <1>0, <1>1, <2>1, <2>3, IndexOrdersAre, AllIs DEF S, N, Disordered
  <2>5. \A e \in S : Listing(e) \in Matches /\ Listing(e).child = e.child
    BY <1>1, <2>1, ListingIs DEF S
  <2>6. \A i \in 1..N : r[i] \in S /\ r[i].child \in Fitting
    BY <2>2, <2>4
  <2>7. /\ u \in Seq(Matches) /\ Len(u) = N /\ DOMAIN u = 1..N
        /\ \A i \in 1..N : u[i] = Listing(r[i]) /\ u[i].child = r[i].child
    <3>1. \A i \in 1..N : Listing(r[i]) \in Matches /\ Listing(r[i]).child = r[i].child
      BY <2>5, <2>6
    <3>2. u \in [1..N -> Matches]
      BY <3>1 DEF u
    <3> QED
      BY <2>4, <3>1, <3>2 DEF u
  <2>8. Apart(u)
    BY <2>4, <2>7 DEF Apart
  <2>9. Kids(u) = Fitting
    <3>1. /\ \A x \in Kids(u) : \E i \in DOMAIN u : u[i].child = x
          /\ \A i \in DOMAIN u : u[i].child \in Kids(u)
      BY <2>7, KidsIs
    <3>2. Kids(u) \subseteq Fitting
      BY <2>6, <2>7, <3>1
    <3>3. Fitting \subseteq Kids(u)
      BY <2>4, <2>7, <3>1
    <3> QED
      BY <3>2, <3>3
  <2>10. /\ \A i \in 1..N : <<Rec(u[i].child), Rec(u[i].child)>> \notin Order
         /\ ~ Disordered(All) => \A i, j \in 1..N : i < j => <<Rec(u[j].child), Rec(u[i].child)>> \notin Order
    <3>1. \A c \in Fitting : ~ Ahead(Rec(c), Rec(c))
      <4> SUFFICES ASSUME NEW c \in Fitting PROVE ~ Ahead(Rec(c), Rec(c))
        OBVIOUS
      <4>1. Rec(c) \in Matches
        BY DEF Rec, Matches, Base, Records, Fitting
      <4>2. ~ Before(Rec(c), Rec(c))
        BY <2>1, <4>1, NeverBothBefore
      <4> QED
        BY <4>2 DEF Before
    <3>2. \A i, j \in 1..N : <<Rec(u[j].child), Rec(u[i].child)>> \in Order
                               => Ahead(Rec(r[j].child), Rec(r[i].child))
      BY <1>1, <2>7 DEF Order
    <3> QED
      BY <2>4, <2>6, <3>1, <3>2
  <2>11. Placed(Window(u))
    BY <2>1, <2>7, <2>8, <2>9, <2>10, PlacedIs DEF N
  <2>12. t = Window(u)
    <3>1. /\ Window(u) \in Seq(Matches) /\ Len(Window(u)) = LengthOf(N)
          /\ \A i \in 1..Len(Window(u)) : StartOf(N) + i \in 1..N /\ Window(u)[i] = u[StartOf(N) + i]
      BY <2>1, <2>7, WindowAt
    <3>2. query.skip + 1 \in Nat \ {0} /\ last \in Int /\ last <= Len(r)
      BY <2>3, <2>4
    <3>3. /\ Len(w) = IF query.skip + 1 <= last THEN last - (query.skip + 1) + 1 ELSE 0
          /\ w \in Seq(S) /\ \A i \in 1..Len(w) : w[i] = r[query.skip + i]
      <4> DEFINE a == query.skip + 1
      <4>1. w = SubSeq(r, a, last)
        BY DEF w
      <4>2. a \in Nat \ {0} /\ \A i \in Nat : a - 1 + i = query.skip + i
        BY <2>3
      <4>b. last \in Int /\ last <= Len(r)
        BY <3>2
      <4> HIDE DEF last, a
      <4>3. /\ SubSeq(r, a, last) \in Seq(S)
            /\ Len(SubSeq(r, a, last)) = IF a <= last THEN last - a + 1 ELSE 0
            /\ \A i \in 1..Len(SubSeq(r, a, last)) : SubSeq(r, a, last)[i] = r[a - 1 + i]
        BY <2>4, <4>2, <4>b, PartAt
      <4>4. \A i \in 1..Len(w) : i \in Nat
        OBVIOUS
      <4> QED
        BY <4>1, <4>2, <4>3, <4>4 DEF a
    <3>4. StartOf(N) = query.skip
      BY <2>3 DEF StartOf
    <3>5. LengthOf(N) = Len(w)
      <4>1. Wanted = Take /\ Len(r) = N
        BY <2>3, <2>4 DEF Wanted
      <4>2. LengthOf(N) = IF N - query.skip > 0 THEN (IF N - query.skip < Take THEN N - query.skip ELSE Take) ELSE 0
        BY <2>3, <2>4, <4>1 DEF LengthOf, Left
      <4>3. last = IF query.skip + Take < N THEN query.skip + Take ELSE N
        BY <2>3, <4>1
      <4>4. N \in Nat /\ query.skip \in Nat /\ Take \in Int /\ Take > 0
        BY <2>3, <2>4
      <4>5. Len(w) = IF query.skip + 1 <= last THEN last - (query.skip + 1) + 1 ELSE 0
        BY <3>3
      <4> DEFINE s == query.skip
                 k == Take
                 some == LengthOf(N)
                 all == Len(w)
      <4>6. /\ N \in Nat /\ s \in Nat /\ k \in Int /\ k > 0 /\ last = IF s + k < N THEN s + k ELSE N
            /\ some = IF N - s > 0 THEN (IF N - s < k THEN N - s ELSE k) ELSE 0
            /\ all = IF s + 1 <= last THEN last - (s + 1) + 1 ELSE 0
        BY <4>2, <4>3, <4>4, <4>5
      <4> HIDE DEF last, s, k, some, all
      <4>7. some = all
        BY <4>6
      <4> QED
        BY <4>7 DEF some, all
    <3>6. DOMAIN w = 1..Len(w) /\ Len(w) \in Nat /\ DOMAIN Window(u) = 1..Len(w)
      BY <3>1, <3>3, <3>5
    <3>7. \A i \in 1..Len(w) : Window(u)[i] = Listing(w[i])
      <4> SUFFICES ASSUME NEW i \in 1..Len(w) PROVE Window(u)[i] = Listing(w[i])
        OBVIOUS
      <4>2. w[i] = r[query.skip + i]
        BY <3>3
      <4>3. query.skip + i \in 1..N /\ Window(u)[i] = u[query.skip + i]
        BY <3>1, <3>4, <3>5
      <4> QED
        BY <2>7, <4>2, <4>3
    <3>8. Window(u) = [n \in 1..Len(w) |-> Window(u)[n]]
      BY <3>1, <3>6
    <3> QED
      BY <3>6, <3>7, <3>8
  <2>13. todo' \subseteq Kids(t)
    <3>1. t \in Seq(Matches) /\ DOMAIN t = DOMAIN w
      BY <2>11, <2>12 DEF Placed
    <3>2. \A n \in DOMAIN w : t[n].child = w[n].child
      <4>1. query.skip + 1 \in Nat \ {0} /\ last \in Int /\ last <= Len(r)
        BY <2>3, <2>4
      <4>2. w \in Seq(S)
        <5> HIDE DEF last
        <5> QED
          BY <2>4, <4>1, PartAt DEF w
      <4>3. \A n \in DOMAIN w : w[n] \in S
        BY <4>2
      <4> QED
        BY <2>5, <4>3
    <3>3. \A n \in DOMAIN t : t[n].child \in Kids(t)
      BY <3>1, KidsIs
    <3> HIDE DEF t
    <3> QED
      BY <1>1, <3>1, <3>2, <3>3
  <2> HIDE DEF t
  <2> QED
    BY <1>1, <2>11, <2>12, <2>13
<1> HIDE DEF t
<1> QED
  BY <1>1, <1>2, <1>3, CalmStep

LEMMA CalmFinishReload ==
    ASSUME Calm, FinishReload
    PROVE  Calm'
<1>1. /\ step = "reload" /\ step' = "done" /\ matches' = matches /\ Steady /\ sets' = sets
  BY DEF FinishReload, Steady
<1>2. Exact /\ ~ Emptied => Placed(matches')
  BY <1>1 DEF Calm
<1> QED
  BY <1>1, <1>2, CalmStep

LEMMA CalmStutter ==
    ASSUME Calm, UNCHANGED vars
    PROVE  Calm'
<1> USE DEF vars
<1>1. Steady
  BY DEF Steady
<1>2. /\ Fitting' = Fitting /\ Existing' = Existing /\ Fresh' = Fresh /\ Exact' = Exact /\ Loads' = Loads
      /\ AllSortsIndexed' = AllSortsIndexed /\ SortedByIndex' = SortedByIndex /\ Take' = Take
  BY <1>1, SteadyIs
<1>3. Emptied' = Emptied
  BY DEF Emptied, Lookups, ScanFilters, Found
<1>4. Tosses' = Tosses
  BY <1>2 DEF Tosses
<1>5. Kids(matches)' = Kids(matches)
  BY DEF Kids
<1>6. Pile(matches, todo \union loading, Tosses) => Pile(matches, todo \union loading, Tosses)'
  <2>1. Pile(matches, todo \union loading, Tosses) => Pile(matches', todo' \union loading', Tosses')
    BY <1>4
  <2> QED
    BY <1>1, <2>1, PileStays
<1>7. Placed(matches) => Placed(matches)'
  <2>1. Placed(matches) => Placed(matches')
    OBVIOUS
  <2> QED
    BY <1>1, <2>1, PlacedStays
<1> QED
  BY <1>2, <1>3, <1>5, <1>6, <1>7 DEF Calm

LEMMA CalmKept ==
    ASSUME QueryAssumption, OrderedBounds, IInv, CalmInv, [Next]_vars
    PROVE  CalmInv'
<1>1. Base /\ (~ SortedByIndex => Rest) /\ writes \in Nat /\ (writes = 0 => Calm)
  BY DEF IInv, CalmInv
<1>2. ASSUME writes' = writes, writes = 0 => Calm'
      PROVE  CalmInv'
  BY <1>1, <1>2 DEF CalmInv
<1>3. ASSUME NEW i \in DOMAIN query.filters, Lookup(i)
      PROVE  CalmInv'
  <2>1. writes' = writes
    BY <1>3 DEF Lookup
  <2> QED
    BY <1>1, <1>2, <1>3, <2>1, CalmLookup
<1>4. CASE IndexTake
  <2>1. writes' = writes
    BY <1>4 DEF IndexTake
  <2> QED
    BY <1>1, <1>2, <1>4, <2>1, CalmIndexTake
<1>5. CASE Merge
  <2>1. writes' = writes /\ ~ SortedByIndex
    BY <1>5 DEF Merge
  <2> QED
    BY <1>1, <1>2, <1>5, <2>1, CalmMerge
<1>6. CASE FinishScan \/ FinishLoad
  <2>1. writes' = writes /\ step \in {"scan", "load"}
    BY <1>6 DEF FinishScan, FinishLoad
  <2>2. writes = 0 => Rest
    BY <1>1, <2>1 DEF Calm
  <2> QED
    BY <1>1, <1>2, <1>6, <2>1, <2>2, CalmFinish
<1>7. CASE FinishReload
  <2>1. writes' = writes
    BY <1>7 DEF FinishReload
  <2> QED
    BY <1>1, <1>2, <1>7, <2>1, CalmFinishReload
<1>8. ASSUME NEW c \in Children, Match(c) \/ LoadValue(c) \/ LoadResult(c)
      PROVE  CalmInv'
  <2>1. writes' = writes /\ step \in {"scan", "load"}
    BY <1>8 DEF Match, LoadValue, LoadResult
  <2>2. writes = 0 => Rest
    BY <1>1, <2>1 DEF Calm
  <2> QED
    BY <1>1, <1>2, <1>8, <2>1, <2>2, CalmMatch, CalmLoadValue, CalmLoadResult
<1>9. ASSUME NEW c \in Children, Reload(c)
      PROVE  CalmInv'
  <2>1. writes' = writes
    BY <1>9 DEF Reload
  <2> QED
    BY <1>1, <1>2, <1>9, <2>1, CalmReload
<1>10. ASSUME NEW c \in Children, NEW record, Write(c, record)
       PROVE  CalmInv'
  <2>1. writes' = writes + 1
    BY <1>10 DEF Write
  <2> QED
    BY <1>1, <2>1 DEF CalmInv
\* Nothing is left to be done of no write.
<1>11. ASSUME NEW ix \in DOMAIN lag, UpdateIndex(ix)
       PROVE  CalmInv'
  <2>1. writes' = writes /\ lag[ix] # {}
    BY <1>11 DEF UpdateIndex
  <2>2. ~ Calm
    BY <2>1 DEF Calm, Fresh
  <2> QED
    BY <1>1, <1>2, <2>1, <2>2
<1>13. CASE ListingFails
  <2>1. writes' = writes
    BY <1>13 DEF ListingFails
  <2> QED
    BY <1>1, <1>2, <1>13, <2>1, CalmListing
<1>12. CASE Stop \/ UNCHANGED vars
  <2>1. UNCHANGED vars
    BY <1>12 DEF Stop
  <2>2. writes' = writes
    BY <2>1 DEF vars
  <2> QED
    BY <1>1, <1>2, <2>1, <2>2, CalmStutter
<1> QED
  BY <1>3, <1>4, <1>5, <1>6, <1>7, <1>8, <1>9, <1>10, <1>11, <1>12, <1>13 DEF Next

LEMMA CalmAnswers ==
    ASSUME QueryAssumption, IInv, CalmInv
    PROVE  WindowRight
<1> DEFINE n == Cardinality(All)
           from == IF Take < 0 THEN (IF n - Limit > 0 THEN n - Limit ELSE 0) ELSE query.skip
           one == [i \in 1..n |-> i]
           before(a, b) == IF SortedByIndex THEN Ahead(a, b) ELSE Before(a, b)
<1> SUFFICES ASSUME step = "done", writes = 0, ~ TossesWrong, ~ SortLost, ~ Unsortable, ~ Emptied,
                    \A i \in DOMAIN query.filters : ~ Lost(i) /\ (plan.filter[i] # {} => ~ Unlisted(i)
                       /\ \A c \in Children : ~ ByNull(c, query.filters[i]))
             PROVE  /\ Len(matches) = Len(Window(one))
                    /\ IsInjective([i \in DOMAIN matches |-> matches[i].child])
                    /\ \A i \in DOMAIN matches : \E m \in All :
                          /\ m.child = matches[i].child
                          /\ query.sort # <<>> /\ ~ Disordered(All) =>
                                /\ Cardinality({x \in All : before(x, m)}) < from + i
                                /\ Cardinality({x \in All : before(m, x)}) <= n - (from + i)
  BY DEF WindowRight, All, Rec, Fitting
<1>1. Exact
  BY DEF Exact
<1>2. Placed(matches) /\ IsQuery(query)
  BY <1>1 DEF CalmInv, Calm, IInv, Base
<1>3. n \in Nat
  BY AllIs
<1>4. from = StartOf(n)
  BY DEF StartOf
<1>5. \A m \in All : /\ {x \in All : before(x, m)} = {x \in All : <<x, m>> \in Order}
                     /\ {x \in All : before(m, x)} = {x \in All : <<m, x>> \in Order}
  BY DEF Order
<1> HIDE DEF n, from, before
<1>6. Len(matches) = Len(Window(one))
  <2>1. one \in Seq(Nat) /\ Len(one) = n
    BY <1>3
  <2> HIDE DEF one
  <2>2. Len(Window(one)) = LengthOf(n)
    BY <1>2, <2>1, WindowAt
  <2> QED
    BY <1>2, <2>2 DEF Placed, n
<1>7. DOMAIN matches = 1..Len(matches) /\ \A i \in DOMAIN matches : matches[i].child \in Fitting
  BY <1>2, KidsIs DEF Placed
<1>8. IsInjective([i \in DOMAIN matches |-> matches[i].child])
  BY <1>2, <1>7 DEF IsInjective, Placed, Apart
<1>9. ASSUME NEW i \in DOMAIN matches
      PROVE  \E m \in All :
                /\ m.child = matches[i].child
                /\ query.sort # <<>> /\ ~ Disordered(All) =>
                      /\ Cardinality({x \in All : before(x, m)}) < from + i
                      /\ Cardinality({x \in All : before(m, x)}) <= n - (from + i)
  <2> DEFINE m == Rec(matches[i].child)
  <2>1. m \in All /\ m.child = matches[i].child
    BY <1>7, AllIs DEF Rec
  <2>2. query.sort # <<>> /\ ~ Disordered(All) =>
           Below(All, Order, m) < from + i /\ Above(All, Order, m) <= n - (from + i)
    BY <1>2, <1>4 DEF Placed, n
  <2> HIDE DEF m
  <2> QED
    BY <1>5, <2>1, <2>2 DEF Below, Above
<1> QED
  BY <1>6, <1>8, <1>9

\* While nothing is written, the answer is the part of the sorted matches that
\* skip and take ask for, whichever of the four ways the plan of query.ts goes
\* (results of an index that sorts, results of the lookups, those after they
\* are loaded, and a scan), and in whatever order its lookups, matches and
\* loads end: for any records, indexes and queries, but for those that the
\* property is exempt from.
THEOREM WindowsAreRight ==
    ASSUME OrderedBounds
    PROVE  Spec => []WindowRight
<1> USE QueryAssumption
<1>1. Spec => []IInv
  BY Invariance
<1>2. Init => CalmInv
  BY CalmStarts
<1>3. IInv /\ CalmInv /\ [Next]_vars => CalmInv'
  BY CalmKept
<1>4. IInv /\ CalmInv => WindowRight
  BY CalmAnswers
<1> QED
  BY <1>1, <1>2, <1>3, <1>4, PTL DEF Spec
=============================================================================
