-------------------------- MODULE RecordWrite_proofs --------------------------
(***************************************************************************)
(* The free space table and the writes that use it.                        *)
(*                                                                         *)
(* The first part is about the operators of the table, for any page size   *)
(* and any table: an allocation hands out records that were free or are    *)
(* new, a release makes ranges of exactly the records that are free, and   *)
(* both leave a table in which no two ranges overlap or touch.             *)
(*                                                                         *)
(* The second part: for any number of nodes and pages of any size, and     *)
(* writes of the table that fail and end in any order, no record of the    *)
(* file is used twice, a program that stops while the file is not behind   *)
(* finds a table in it that has no record free which a node on file uses,  *)
(* free space is not split without need, and records get lost only where   *)
(* the code lets them.  All of it up to the first start with a table that  *)
(* was not sound.                                                          *)
(***************************************************************************)
EXTENDS RecordWrite, SequenceTheorems, FiniteSetTheorems, WellFoundedInduction, TLAPS

-----------------------------------------------------------------------------
\* The free space table.

\* The records of a file of p pages.
AllRecords(p) == (0 .. p - 1) \X (0 .. RecordsPerPage - 1)

LEMMA MorePages ==
    ASSUME NEW p \in Nat, NEW q \in Nat, p <= q
    PROVE  AllRecords(p) \subseteq AllRecords(q)
<1>1. \A i \in 0 .. p - 1 : i \in 0 .. q - 1
  OBVIOUS
<1> QED
  BY <1>1, Zenon DEF AllRecords

LEMMA PageSize == RecordsPerPage \in Nat /\ RecordsPerPage > 0 /\ Width \in Nat /\ RecordsPerPage <= Width
BY TableAssumption

LEMMA Interval ==
    ASSUME NEW a \in Nat, NEW b \in Nat, a <= b
    PROVE  IsFiniteSet(a .. b - 1) /\ Cardinality(a .. b - 1) = b - a
<1>1. a \in Int /\ b - 1 \in Int
  OBVIOUS
<1>2. IsFiniteSet(a .. b - 1) /\ Cardinality(a .. b - 1) = IF a > b - 1 THEN 0 ELSE (b - 1) - a + 1
  BY <1>1, FS_Interval
<1> QED
  BY <1>2

-----------------------------------------------------------------------------
\* Records of ranges.

LEMMA InRecordsOf ==
    ASSUME NEW R, NEW x
    PROVE  x \in RecordsOf(R) <=> \E r \in R : \E i \in r.start .. r.end - 1 : x = <<r.page, i>>
<1>1. ASSUME NEW r
      PROVE  x \in {r.page} \X (r.start .. r.end - 1) <=> \E i \in r.start .. r.end - 1 : x = <<r.page, i>>
  OBVIOUS
<1> QED
  BY <1>1 DEF RecordsOf

LEMMA RecordsOfUnion ==
    ASSUME NEW R, NEW T
    PROVE  RecordsOf(R \union T) = RecordsOf(R) \union RecordsOf(T)
BY DEF RecordsOf

LEMMA RecordsOfSubset ==
    ASSUME NEW R, NEW T, T \subseteq R
    PROVE  RecordsOf(T) \subseteq RecordsOf(R)
BY DEF RecordsOf

LEMMA RecordsOfEmpty == RecordsOf({}) = {}
BY DEF RecordsOf

\* What is left of a table, or seen in a file that has grown, is a table too.
LEMMA WellKeptSubset ==
    ASSUME NEW R, NEW p \in Nat, WellKept(R, p), NEW T \in SUBSET R,
           NEW q \in Nat, q >= p
    PROVE  WellKept(T, q)
<1>1. IsFiniteSet(T)
  BY FS_Subset DEF WellKept
<1>2. \A r \in T : r.page < q
  BY DEF WellKept, Ranges
<1> QED
  BY <1>1, <1>2 DEF WellKept

LEMMA RecordsInFile ==
    ASSUME NEW R, NEW p \in Nat, WellKept(R, p)
    PROVE  RecordsOf(R) \subseteq AllRecords(p)
<1> SUFFICES ASSUME NEW x \in RecordsOf(R) PROVE x \in AllRecords(p)
  OBVIOUS
<1>1. PICK r \in R : \E i \in r.start .. r.end - 1 : x = <<r.page, i>>
  BY InRecordsOf
<1>2. PICK i \in r.start .. r.end - 1 : x = <<r.page, i>>
  BY <1>1
<1>3. r.page \in 0 .. p - 1 /\ i \in 0 .. RecordsPerPage - 1
  BY <1>2, PageSize DEF WellKept, Ranges
<1> QED
  BY <1>2, <1>3 DEF AllRecords

LEMMA AllRecordsFinite ==
    ASSUME NEW p \in Nat
    PROVE  IsFiniteSet(AllRecords(p))
<1>1. IsFiniteSet(0 .. p - 1) /\ IsFiniteSet(0 .. RecordsPerPage - 1)
  BY Interval, PageSize
<1> QED
  BY <1>1, FS_Product DEF AllRecords

LEMMA TotalType ==
    ASSUME NEW R, NEW p \in Nat, WellKept(R, p)
    PROVE  IsFiniteSet(RecordsOf(R)) /\ Total(R) \in Nat
<1>1. IsFiniteSet(RecordsOf(R))
  BY AllRecordsFinite, RecordsInFile, FS_Subset
<1> QED
  BY <1>1, FS_CardinalityType DEF Total

\* Ranges that are not the same have no records in common.
LEMMA ApartRanges ==
    ASSUME NEW r \in Ranges, NEW q \in Ranges, Apart(r, q)
    PROVE  RecordsOf({r}) \intersect RecordsOf({q}) = {}
<1> SUFFICES ASSUME NEW x \in RecordsOf({r}), x \in RecordsOf({q}) PROVE FALSE
  OBVIOUS
<1>1. PICK i \in r.start .. r.end - 1 : x = <<r.page, i>>
  BY InRecordsOf
<1>2. PICK j \in q.start .. q.end - 1 : x = <<q.page, j>>
  BY InRecordsOf
<1>3. r.page = q.page /\ i = j
  BY <1>1, <1>2
<1> QED
  BY <1>3 DEF Apart, Ranges

LEMMA DisjointTables ==
    ASSUME NEW R, NEW p \in Nat, WellKept(R, p),
           NEW T \in SUBSET R, NEW U \in SUBSET R, T \intersect U = {}
    PROVE  RecordsOf(T) \intersect RecordsOf(U) = {}
<1> SUFFICES ASSUME NEW x \in RecordsOf(T), x \in RecordsOf(U) PROVE FALSE
  OBVIOUS
<1>1. PICK r \in T : x \in RecordsOf({r})
  BY InRecordsOf
<1>2. PICK q \in U : x \in RecordsOf({q})
  BY InRecordsOf
<1>3. r \in Ranges /\ q \in Ranges /\ Apart(r, q)
  BY DEF WellKept
<1> QED
  BY <1>1, <1>2, <1>3, ApartRanges

\* The size of a range is the number of its records, which add up.
LEMMA TotalOfOne ==
    ASSUME NEW r \in Ranges, r.start < r.end
    PROVE  IsFiniteSet(RecordsOf({r})) /\ Total({r}) = Size(r)
<1>1. RecordsOf({r}) = {r.page} \X (r.start .. r.end - 1)
  BY DEF RecordsOf
<1>2. IsFiniteSet(r.start .. r.end - 1) /\ Cardinality(r.start .. r.end - 1) = r.end - r.start
  BY Interval DEF Ranges
<1>3. IsFiniteSet({r.page}) /\ Cardinality({r.page}) = 1
  BY FS_Singleton
<1>4. /\ IsFiniteSet({r.page} \X (r.start .. r.end - 1))
      /\ Cardinality({r.page} \X (r.start .. r.end - 1)) = Cardinality({r.page}) * Cardinality(r.start .. r.end - 1)
  BY <1>2, <1>3, FS_Product, Zenon
<1>5. Cardinality({r.page} \X (r.start .. r.end - 1)) = r.end - r.start
  BY <1>2, <1>3, <1>4 DEF Ranges
<1> QED
  BY <1>1, <1>4, <1>5, Zenon DEF Total, Size

LEMMA TotalWithout ==
    ASSUME NEW R, NEW p \in Nat, WellKept(R, p), NEW l \in R
    PROVE  Total(R) = Total(R \ {l}) + Size(l) /\ Total(R \ {l}) \in Nat /\ Total(R) \in Nat
<1>1. WellKept(R \ {l}, p) /\ l \in Ranges /\ l.start < l.end
  BY WellKeptSubset DEF WellKept
<1>2. RecordsOf(R) = RecordsOf(R \ {l}) \union RecordsOf({l})
  BY RecordsOfUnion, R = (R \ {l}) \union {l}
<1>3. RecordsOf(R \ {l}) \intersect RecordsOf({l}) = {}
  BY DisjointTables
<1>4. IsFiniteSet(RecordsOf(R \ {l})) /\ Total(R \ {l}) \in Nat /\ Total(R) \in Nat
  BY <1>1, TotalType
<1>5. Cardinality(RecordsOf(R)) = Cardinality(RecordsOf(R \ {l})) + Cardinality(RecordsOf({l})) - Cardinality({})
  <2> DEFINE a == RecordsOf(R \ {l})
             b == RecordsOf({l})
  <2>1. IsFiniteSet(a) /\ IsFiniteSet(b) /\ a \intersect b = {} /\ RecordsOf(R) = a \union b
    BY <1>1, <1>2, <1>3, <1>4, TotalOfOne
  <2> HIDE DEF a, b
  <2>2. Cardinality(a \union b) = Cardinality(a) + Cardinality(b) - Cardinality(a \intersect b)
    BY <2>1, FS_Union
  <2> QED
    BY <2>1, <2>2 DEF a, b
<1> QED
  BY <1>1, <1>4, <1>5, TotalOfOne, FS_EmptySet DEF Total, Size, Ranges

\* Whole pages.
LEMMA IsWholePage ==
    ASSUME NEW R, NEW p \in Nat, WellKept(R, p), NEW r \in R, IsWhole(r)
    PROVE  r = WholePage(r.page)
<1>1. r \in Ranges /\ r.start = 0 /\ r.end = RecordsPerPage
  BY PageSize DEF WellKept, IsWhole, Size, Ranges
<1> QED
  BY <1>1 DEF WholePage, Ranges

LEMMA TotalOfWhole ==
    ASSUME NEW R, NEW p \in Nat, WellKept(R, p), \A r \in R : IsWhole(r)
    PROVE  Total(R) = Cardinality(R) * RecordsPerPage /\ Cardinality(R) \in Nat
<1> DEFINE P == {r.page : r \in R}
           f == [r \in R |-> r.page]
<1>1. IsFiniteSet(R) /\ Cardinality(R) \in Nat
  BY FS_CardinalityType DEF WellKept
<1>2. \A r \in R : r = WholePage(r.page)
  BY IsWholePage
<1>3. f \in Bijection(R, P)
  BY <1>2 DEF Bijection, Injection, Surjection, IsInjective
<1>4. IsFiniteSet(P) /\ Cardinality(P) = Cardinality(R)
  BY <1>1, <1>3, FS_Bijection DEF ExistsBijection
<1>5. RecordsOf(R) = P \X (0 .. RecordsPerPage - 1)
  <2>1. ASSUME NEW x
        PROVE  x \in RecordsOf(R) <=> x \in P \X (0 .. RecordsPerPage - 1)
    <3>1. x \in RecordsOf(R) <=> \E r \in R : \E i \in 0 .. RecordsPerPage - 1 : x = <<r.page, i>>
      BY <1>2, InRecordsOf DEF WholePage
    <3>2. x \in P \X (0 .. RecordsPerPage - 1) <=> \E r \in R : \E i \in 0 .. RecordsPerPage - 1 : x = <<r.page, i>>
      OBVIOUS
    <3> QED
      BY <3>1, <3>2
  <2> QED
    BY <2>1
<1>6. IsFiniteSet(0 .. RecordsPerPage - 1) /\ Cardinality(0 .. RecordsPerPage - 1) = RecordsPerPage
  BY Interval, PageSize
<1>7. Cardinality(RecordsOf(R)) = Cardinality(P) * Cardinality(0 .. RecordsPerPage - 1)
  BY <1>4, <1>5, <1>6, FS_Product, Zenon
<1> QED
  BY <1>1, <1>4, <1>6, <1>7 DEF Total

\* A file that grows by whole pages.
PagesFrom(p, q) == {WholePage(i) : i \in p .. q - 1}

LEMMA PagesAdded ==
    ASSUME NEW R, NEW p \in Nat, WellKept(R, p), NEW q \in Nat, q >= p
    PROVE  /\ WellKept(R \union PagesFrom(p, q), q)
           /\ RecordsOf(PagesFrom(p, q)) = AllRecords(q) \ AllRecords(p)
<1> DEFINE more == {WholePage(i) : i \in p .. q - 1}
           f == [i \in p .. q - 1 |-> WholePage(i)]
<1>1. IsFiniteSet(R \union more)
  <2>1. IsFiniteSet(p .. q - 1) /\ f \in Surjection(p .. q - 1, more)
    BY Interval DEF Surjection
  <2>2. IsFiniteSet(more)
    <3> HIDE DEF f, more
    <3> QED
      BY <2>1, FS_Surjection
  <2> QED
    BY <2>2, FS_Union DEF WellKept
<1>2. \A i \in p .. q - 1 : /\ WholePage(i) \in Ranges /\ WholePage(i).page = i
                            /\ WholePage(i).start = 0 /\ WholePage(i).end = RecordsPerPage
  BY PageSize DEF WholePage, Ranges
<1>3. \A r \in R \union more :
         r \in Ranges /\ r.page < q /\ r.start < r.end /\ r.end <= RecordsPerPage
  BY <1>2, PageSize DEF WellKept, Ranges
<1>4. \A r \in R : r.page \notin p .. q - 1
  BY DEF WellKept, Ranges
<1>5. \A r, s \in R \union more : r # s => Apart(r, s)
  <2> SUFFICES ASSUME NEW r \in R \union more, NEW s \in R \union more, r # s
               PROVE  Apart(r, s)
    OBVIOUS
  <2>1. CASE r \in R /\ s \in R
    BY <2>1 DEF WellKept
  <2>2. CASE r \in more /\ s \in more
    BY <1>2, <2>2 DEF Apart
  <2>3. CASE (r \in R /\ s \in more) \/ (r \in more /\ s \in R)
    BY <1>2, <1>4, <2>3 DEF Apart
  <2> QED
    BY <2>1, <2>2, <2>3
<1>6. RecordsOf(more) = AllRecords(q) \ AllRecords(p)
  <2>1. ASSUME NEW x
        PROVE  x \in RecordsOf(more) <=> x \in AllRecords(q) \ AllRecords(p)
    <3>1. x \in RecordsOf(more) <=> \E j \in p .. q - 1 : \E i \in 0 .. RecordsPerPage - 1 : x = <<j, i>>
      BY <1>2, InRecordsOf
    <3> QED
      BY <3>1 DEF AllRecords
  <2> QED
    BY <2>1
<1> QED
  BY <1>1, <1>3, <1>5, <1>6 DEF WellKept, PagesFrom

\* Part of a range in its place.
LEMMA ReplaceRange ==
    ASSUME NEW R, NEW p \in Nat, WellKept(R, p), NEW l \in R,
           NEW m \in Ranges, m.page = l.page,
           l.start <= m.start, m.start < m.end, m.end <= l.end
    PROVE  WellKept((R \ {l}) \union {m}, p)
<1> DEFINE T == (R \ {l}) \union {m}
<1>1. IsFiniteSet(T)
  BY FS_RemoveElement, FS_AddElement, Zenon DEF WellKept
<1>2. l \in Ranges /\ l.page < p /\ l.end <= RecordsPerPage
  BY DEF WellKept
<1>3. \A r \in T : r \in Ranges /\ r.page < p /\ r.start < r.end /\ r.end <= RecordsPerPage
  BY <1>2, PageSize DEF WellKept, Ranges
<1>4. ASSUME NEW r \in R, r # l
      PROVE  Apart(r, m) /\ Apart(m, r)
  <2>1. Apart(r, l) /\ r \in Ranges /\ r.start < r.end
    BY <1>4 DEF WellKept
  <2> QED
    BY <1>2, <2>1 DEF Apart, Ranges
<1>5. \A r, s \in T : r # s => Apart(r, s)
  BY <1>4 DEF WellKept
<1> QED
  BY <1>1, <1>3, <1>5 DEF WellKept

\* An allocation out of the table R of p pages hands out records that were free
\* or are new, and leaves the others in the table.
GoodAllocation(alloc, left, R, p, q) ==
    /\ WellKept(alloc, q) /\ WellKept(left, q)
    /\ RecordsOf(alloc) \intersect RecordsOf(left) = {}
    /\ RecordsOf(alloc) \union RecordsOf(left) = RecordsOf(R) \union (AllRecords(q) \ AllRecords(p))

\* Ranges T of a table are handed out, of the range l only the part up to cut.
HandedOut(T, l, cut) == (T \ {l}) \union {[l EXCEPT !.end = cut]}
LeftBy(R, T, l, cut) == (R \ T) \union (IF cut < l.end THEN {[l EXCEPT !.start = cut]} ELSE {})

LEMMA HandOut ==
    ASSUME NEW R, NEW p \in Nat, WellKept(R, p), NEW T \in SUBSET R, NEW l \in T,
           NEW cut \in Nat, l.start < cut, cut <= l.end
    PROVE  GoodAllocation(HandedOut(T, l, cut), LeftBy(R, T, l, cut), R, p, p)
<1> DEFINE head == [l EXCEPT !.end = cut]
           tail == [l EXCEPT !.start = cut]
           rest == IF cut < l.end THEN {tail} ELSE {}
           alloc == (T \ {l}) \union {head}
           left == (R \ T) \union rest
<1>1. l \in Ranges /\ l.start < l.end
  BY DEF WellKept
<1>2. /\ head \in Ranges /\ head.page = l.page /\ head.start = l.start /\ head.end = cut
      /\ tail \in Ranges /\ tail.page = l.page /\ tail.start = cut /\ tail.end = l.end
  BY <1>1 DEF Ranges
<1> HIDE DEF head, tail
<1>3. WellKept(T, p)
  BY WellKeptSubset
<1>4. WellKept(alloc, p)
  BY <1>1, <1>2, <1>3, ReplaceRange DEF Ranges
<1>5. WellKept(left, p)
  <2>1. CASE cut < l.end
    <3>1. WellKept((R \ T) \union {l}, p)
      BY WellKeptSubset
    <3>2. left = (((R \ T) \union {l}) \ {l}) \union {tail}
      BY <2>1
    <3>3. l.start <= tail.start /\ tail.start < tail.end /\ tail.end <= l.end
      BY <1>1, <1>2, <2>1 DEF Ranges
    <3> HIDE DEF left
    <3> QED
      BY <1>2, <3>1, <3>2, <3>3, ReplaceRange
  <2>2. CASE ~ (cut < l.end)
    BY <2>2, WellKeptSubset
  <2> QED
    BY <2>1, <2>2
<1>6. ASSUME NEW x
      PROVE  /\ x \in RecordsOf({l}) <=> x \in RecordsOf({head}) \/ x \in RecordsOf(rest)
             /\ ~ (x \in RecordsOf({head}) /\ x \in RecordsOf(rest))
  <2>1. x \in RecordsOf({l}) <=> \E i \in l.start .. l.end - 1 : x = <<l.page, i>>
    BY InRecordsOf
  <2>2. x \in RecordsOf({head}) <=> \E i \in l.start .. cut - 1 : x = <<l.page, i>>
    BY <1>2, InRecordsOf
  <2>3. x \in RecordsOf({tail}) <=> \E i \in cut .. l.end - 1 : x = <<l.page, i>>
    BY <1>2, InRecordsOf
  <2>4. x \in RecordsOf(rest) <=> cut < l.end /\ x \in RecordsOf({tail})
    BY RecordsOfEmpty
  <2> HIDE DEF rest
  <2> QED
    BY <1>1, <2>1, <2>2, <2>3, <2>4 DEF Ranges
<1>7. /\ RecordsOf(alloc) = RecordsOf(T \ {l}) \union RecordsOf({head})
      /\ RecordsOf(left) = RecordsOf(R \ T) \union RecordsOf(rest)
      /\ RecordsOf(R) = RecordsOf(T \ {l}) \union RecordsOf({l}) \union RecordsOf(R \ T)
  <2>1. RecordsOf(alloc) = RecordsOf(T \ {l}) \union RecordsOf({head})
    BY RecordsOfUnion
  <2>2. RecordsOf(left) = RecordsOf(R \ T) \union RecordsOf(rest)
    BY RecordsOfUnion
  <2>3. R = ((T \ {l}) \union {l}) \union (R \ T)
    OBVIOUS
  <2>4. RecordsOf(R) = RecordsOf(T \ {l}) \union RecordsOf({l}) \union RecordsOf(R \ T)
    BY <2>3, RecordsOfUnion
  <2> QED
    BY <2>1, <2>2, <2>4
<1>8. /\ RecordsOf(T \ {l}) \intersect RecordsOf(R \ T) = {}
      /\ RecordsOf(T \ {l}) \intersect RecordsOf({l}) = {}
      /\ RecordsOf({l}) \intersect RecordsOf(R \ T) = {}
  BY DisjointTables
<1>9. /\ RecordsOf(alloc) \intersect RecordsOf(left) = {}
      /\ RecordsOf(alloc) \union RecordsOf(left) = RecordsOf(R)
  <2> HIDE DEF alloc, left, rest
  <2> QED
    BY <1>6, <1>7, <1>8
<1>10. alloc = HandedOut(T, l, cut) /\ left = LeftBy(R, T, l, cut)
  BY Zenon DEF HandedOut, LeftBy, head, tail, rest
<1> HIDE DEF alloc, left
<1> QED
  BY <1>4, <1>5, <1>9, <1>10 DEF GoodAllocation

-----------------------------------------------------------------------------
\* Allocation.

LEMMA Ceiling ==
    ASSUME NEW a \in Nat, NEW b \in Nat, b > 0
    PROVE  CeilDiv(a, b) \in Nat /\ CeilDiv(a, b) * b >= a /\ (CeilDiv(a, b) - 1) * b < a
BY DEF CeilDiv

\* What is left of n after c - 1 whole pages fits in the last one.
LEMMA LastPage ==
    ASSUME NEW n \in Nat, NEW w \in Nat, NEW b \in Nat, b > 0, w * b < n
    PROVE  LET c == CeilDiv(n, b)
               rest == n - w * b - (c - w - 1) * b
           IN  c \in Nat /\ c > w /\ rest \in Nat /\ 0 < rest /\ rest <= b
<1> DEFINE c == CeilDiv(n, b)
<1>1. c \in Nat /\ c * b >= n /\ (c - 1) * b < n
  BY Ceiling
<1> HIDE DEF c
<1>2. c > w
  <2>1. ASSUME NEW d \in Nat, w = c + d PROVE FALSE
    BY <1>1, <2>1
  <2> QED
    BY <1>1, <2>1, w < c \/ (w - c \in Nat /\ w = c + (w - c))
<1>3. (c - w - 1) * b = (c - 1) * b - w * b /\ c * b = (c - 1) * b + b
  BY <1>1
<1>4. (c - 1) * b \in Int /\ w * b \in Int /\ c * b \in Int
  BY <1>1
<1>5. n - w * b - (c - w - 1) * b = n - (c - 1) * b
  BY <1>3, <1>4
<1> QED
  BY <1>1, <1>2, <1>3, <1>4, <1>5 DEF c

LEMMA ExactIsGood ==
    ASSUME NEW R, NEW p \in Nat, WellKept(R, p), NEW n \in Nat, NEW o \in Exact(n, R)
    PROVE  o.added = 0 /\ GoodAllocation(o.alloc, o.ranges, R, p, p)
<1>1. PICK r \in R : o = [alloc |-> {r}, ranges |-> R \ {r}, added |-> 0]
  BY DEF Exact
<1>2. WellKept({r}, p) /\ WellKept(R \ {r}, p)
  BY WellKeptSubset
<1>3. RecordsOf({r}) \intersect RecordsOf(R \ {r}) = {}
  BY DisjointTables
<1>4. RecordsOf({r}) \union RecordsOf(R \ {r}) = RecordsOf(R)
  BY RecordsOfUnion, {r} \union (R \ {r}) = R
<1> QED
  BY <1>1, <1>2, <1>3, <1>4 DEF GoodAllocation

LEMMA FirstFittingIsGood ==
    ASSUME NEW R, NEW p \in Nat, WellKept(R, p), NEW n \in Nat, n > 0, NEW o \in FirstFitting(n, R)
    PROVE  o.added = 0 /\ GoodAllocation(o.alloc, o.ranges, R, p, p)
<1>1. PICK r \in R : /\ Size(r) > n
                     /\ o = [alloc |-> {[r EXCEPT !.end = r.start + n]},
                             ranges |-> (R \ {r}) \union {[r EXCEPT !.start = r.start + n]},
                             added |-> 0]
  BY DEF FirstFitting
<1>2. r \in Ranges /\ r.start + n \in Nat /\ r.start < r.start + n /\ r.start + n < r.end
  BY <1>1 DEF WellKept, Ranges, Size
<1> DEFINE cut == r.start + n
<1>3. cut <= r.end
  BY <1>2 DEF Ranges
<1>4. GoodAllocation(HandedOut({r}, r, cut), LeftBy(R, {r}, r, cut), R, p, p)
  BY <1>2, <1>3, HandOut
<1>5. o.added = 0 /\ o.alloc = HandedOut({r}, r, cut) /\ o.ranges = LeftBy(R, {r}, r, cut)
  BY <1>1, <1>2 DEF HandedOut, LeftBy
<1> QED
  BY <1>4, <1>5

\* The range that is cut is cut inside.
LEMMA CutInside ==
    ASSUME NEW R, NEW p \in Nat, WellKept(R, p), NEW T \in SUBSET R, NEW l \in T,
           NEW n \in Nat, Total(T \ {l}) < n, n <= Total(T)
    PROVE  LET cut == l.start + (n - Total(T \ {l}))
           IN  cut \in Nat /\ l.start < cut /\ cut <= l.end
<1>1. WellKept(T, p) /\ l \in Ranges
  BY WellKeptSubset DEF WellKept
<1>2. Total(T) = Total(T \ {l}) + (l.end - l.start) /\ Total(T \ {l}) \in Nat
  BY <1>1, TotalWithout DEF Size
<1> HIDE DEF Total
<1> QED
  BY <1>1, <1>2 DEF Ranges

LEMMA UseScrapsIsGood ==
    ASSUME NEW R, NEW p \in Nat, WellKept(R, p), NEW T \in SUBSET R, NEW l \in T,
           NEW n \in Nat, Total(T \ {l}) < n, n <= Total(T)
    PROVE  LET o == UseScraps(n, R, T, l)
           IN  o.added = 0 /\ GoodAllocation(o.alloc, o.ranges, R, p, p)
<1> DEFINE cut == l.start + (n - Total(T \ {l}))
<1>1. cut \in Nat /\ l.start < cut /\ cut <= l.end
  BY CutInside
<1>2. UseScraps(n, R, T, l) = [alloc |-> HandedOut(T, l, cut), ranges |-> LeftBy(R, T, l, cut), added |-> 0]
  BY Zenon DEF UseScraps, HandedOut, LeftBy
<1>3. GoodAllocation(HandedOut(T, l, cut), LeftBy(R, T, l, cut), R, p, p)
  <2> HIDE DEF cut
  <2> QED
    BY <1>1, HandOut
<1> HIDE DEF cut
<1> QED
  BY <1>2, <1>3

\* Whole pages, those found in the table and k new ones from p on.
LEMMA UsePagesIsGood ==
    ASSUME NEW R, NEW p \in Nat, WellKept(R, p), NEW T \in SUBSET R,
           NEW n \in Nat, Total(T \ Scraps(T)) < n
    PROVE  LET o == UsePages(n, R, T, p)
           IN  o.added \in Nat /\ GoodAllocation(o.alloc, o.ranges, R, p, p + o.added)
<1> DEFINE whole == T \ Scraps(T)
           w == Cardinality(whole)
           k == CeilDiv(n, RecordsPerPage) - w
           rest == n - Total(whole) - (k - 1) * RecordsPerPage
           last == WholePage(p + k - 1)
           more == PagesFrom(p, p + k)
           R2 == R \union more
           T2 == whole \union more
<1>1. /\ WellKept(whole, p) /\ \A r \in whole : IsWhole(r)
      /\ Total(whole) = w * RecordsPerPage /\ w \in Nat
  <2>1. WellKept(whole, p) /\ \A r \in whole : IsWhole(r)
    BY WellKeptSubset DEF Scraps
  <2> HIDE DEF whole
  <2> QED
    BY <2>1, TotalOfWhole
<1>2. k \in Nat /\ k > 0 /\ rest \in Nat /\ 0 < rest /\ rest <= RecordsPerPage
  <2>1. w * RecordsPerPage < n
    BY <1>1
  <2>2. LET c == CeilDiv(n, RecordsPerPage)
            left == n - w * RecordsPerPage - (c - w - 1) * RecordsPerPage
        IN  c \in Nat /\ c > w /\ left \in Nat /\ 0 < left /\ left <= RecordsPerPage
    <3> HIDE DEF w
    <3> QED
      BY <1>1, <2>1, LastPage, PageSize
  <2> HIDE DEF w, whole
  <2> QED
    BY <1>1, <2>2
<1> HIDE DEF k, rest, w
<1>3. WellKept(R2, p + k) /\ RecordsOf(more) = AllRecords(p + k) \ AllRecords(p)
  <2>1. p + k \in Nat /\ p + k >= p
    BY <1>2
  <2> QED
    BY <2>1, PagesAdded
<1>4. last \in T2 /\ last.start = 0 /\ last.end = RecordsPerPage
  BY <1>2 DEF WholePage, PagesFrom
<1>5. GoodAllocation(HandedOut(T2, last, rest), LeftBy(R2, T2, last, rest), R2, p + k, p + k)
  <2>1. T2 \in SUBSET R2 /\ p + k \in Nat
    BY <1>2
  <2> HIDE DEF T2, R2, last
  <2> QED
    BY <1>2, <1>3, <1>4, <2>1, HandOut
<1>6. GoodAllocation(HandedOut(T2, last, rest), LeftBy(R2, T2, last, rest), R, p, p + k)
  <2>1. RecordsOf(R2) = RecordsOf(R) \union (AllRecords(p + k) \ AllRecords(p))
    BY <1>3, RecordsOfUnion
  <2> HIDE DEF R2, T2, last
  <2> QED
    BY <1>5, <2>1 DEF GoodAllocation
<1>7. \A r \in R : r.page \notin p .. p + k - 1
  BY DEF WellKept, Ranges
<1>8. T2 \ {last} = whole \union {WholePage(i) : i \in p .. p + k - 2}
  BY <1>2, <1>7 DEF WholePage, PagesFrom
<1>9. R2 \ T2 = R \ whole
  <2>1. \A r \in more : r.page \in p .. p + k - 1
    BY <1>2 DEF WholePage, PagesFrom
  <2> HIDE DEF more, whole
  <2> QED
    BY <1>7, <2>1
<1>10. UsePages(n, R, T, p) = [alloc |-> HandedOut(T2, last, rest), ranges |-> LeftBy(R2, T2, last, rest), added |-> k]
  <2>1. UsePages(n, R, T, p) =
          [alloc |-> (whole \union {WholePage(i) : i \in p .. p + k - 2}) \union {[last EXCEPT !.end = rest]},
           ranges |-> (R \ whole) \union (IF rest < RecordsPerPage THEN {[last EXCEPT !.start = rest]} ELSE {}),
           added |-> k]
    BY Zenon DEF UsePages, k, rest, w
  <2> HIDE DEF T2, R2, last, whole
  <2> QED
    BY <1>4, <1>8, <1>9, <2>1 DEF HandedOut, LeftBy
<1> HIDE DEF T2, R2, last
<1> QED
  BY <1>2, <1>6, <1>10

LEMMA TotalSubset ==
    ASSUME NEW R, NEW p \in Nat, WellKept(R, p), NEW T \in SUBSET R
    PROVE  Total(T) <= Total(R) /\ Total(T) \in Nat /\ Total(R) \in Nat
<1>1. IsFiniteSet(RecordsOf(R)) /\ Total(R) \in Nat /\ Total(T) \in Nat
  BY TotalType, WellKeptSubset
<1>2. RecordsOf(T) \subseteq RecordsOf(R)
  BY RecordsOfSubset
<1> QED
  BY <1>1, <1>2, FS_Subset DEF Total

LEMMA GatheredIsGood ==
    ASSUME NEW R, NEW p \in Nat, WellKept(R, p), NEW T \in SUBSET R, NEW l \in T,
           NEW n \in Nat, NEW max \in Nat, Gathered(n, R, T, l, max)
    PROVE  LET o == IF Cardinality(Scraps(T)) > max THEN UsePages(n, R, T, p) ELSE UseScraps(n, R, T, l)
           IN  o.added \in Nat /\ GoodAllocation(o.alloc, o.ranges, R, p, p + o.added)
<1>1. WellKept(T, p) /\ Total(T \ {l}) < n /\ Cardinality(Scraps(T \ {l})) <= max
  BY WellKeptSubset DEF Gathered
<1>2. CASE Cardinality(Scraps(T)) > max
  <2>1. l \in Scraps(T)
    <3>1. Scraps(T \ {l}) \subseteq Scraps(T) /\ (l \notin Scraps(T) => Scraps(T \ {l}) = Scraps(T))
      BY DEF Scraps
    <3>2. Cardinality(Scraps(T)) \in Nat /\ Cardinality(Scraps(T \ {l})) \in Nat
      <4>1. IsFiniteSet(Scraps(T)) /\ IsFiniteSet(Scraps(T \ {l}))
        BY <1>1, FS_Subset DEF WellKept, Scraps
      <4> QED
        BY <4>1, FS_CardinalityType
    <3> QED
      BY <1>1, <1>2, <3>1, <3>2
  <2>2. WellKept(T \ {l}, p) /\ T \ Scraps(T) \subseteq T \ {l}
    BY <1>1, <2>1, WellKeptSubset
  <2>3. Total(T \ Scraps(T)) < n
    BY <1>1, <2>2, TotalSubset
  <2> QED
    BY <1>2, <2>3, UsePagesIsGood
<1>3. CASE ~ (Cardinality(Scraps(T)) > max)
  <2>1. Total(T) >= n
    BY <1>3 DEF Gathered
  <2>2. Total(T) \in Nat
    BY <1>1, TotalType
  <2>3. UseScraps(n, R, T, l).added = 0
        /\ GoodAllocation(UseScraps(n, R, T, l).alloc, UseScraps(n, R, T, l).ranges, R, p, p)
    BY <1>1, <2>1, <2>2, UseScrapsIsGood
  <2> QED
    BY <1>3, <2>3
<1> QED
  BY <1>2, <1>3

\* FST.allocate
LEMMA AllocationsAreGood ==
    ASSUME pages \in Nat, WellKept(ranges, pages), NEW n \in Nat, n > 0, NEW o \in Allocations(n)
    PROVE  o.added \in Nat /\ GoodAllocation(o.alloc, o.ranges, ranges, pages, pages + o.added)
<1> DEFINE p == pages + NewPages(n)
           R == ranges \union PagesFrom(pages, p)
           max == ScrapsAllowed(R)
           fits == IF n > RecordsPerPage THEN {}
                   ELSE IF Exact(n, R) # {} THEN Exact(n, R) ELSE FirstFitting(n, R)
           gathered == {u \in (SUBSET R) \X R : u[2] \in u[1] /\ Gathered(n, R, u[1], u[2], max)}
           scraps == {IF Cardinality(Scraps(t[1])) > max
                        THEN UsePages(n, R, t[1], p) ELSE UseScraps(n, R, t[1], t[2]) : t \in gathered}
<1>1. p \in Nat /\ p >= pages
  <2>1. NewPages(n) \in Nat
    <3>1. Total(ranges) \in Nat
      BY TotalType
    <3> HIDE DEF Total
    <3>2. CASE n > Total(ranges)
      <4>1. n - Total(ranges) \in Nat
        BY <3>1, <3>2
      <4>2. CeilDiv(n - Total(ranges), RecordsPerPage) \in Nat
        BY <4>1, Ceiling, PageSize
      <4> QED
        BY <3>2, <4>2 DEF NewPages
    <3>3. CASE ~ (n > Total(ranges))
      BY <3>3 DEF NewPages
    <3> QED
      BY <3>2, <3>3
  <2> QED
    BY <2>1
<1>2. WellKept(R, p) /\ RecordsOf(R) = RecordsOf(ranges) \union (AllRecords(p) \ AllRecords(pages))
  <2> HIDE DEF p
  <2>1. /\ WellKept(ranges \union PagesFrom(pages, p), p)
        /\ RecordsOf(PagesFrom(pages, p)) = AllRecords(p) \ AllRecords(pages)
    BY <1>1, PagesAdded
  <2>2. RecordsOf(R) = RecordsOf(ranges) \union RecordsOf(PagesFrom(pages, p))
    BY RecordsOfUnion
  <2> QED
    BY <2>1, <2>2
<1>3. max \in Nat
  BY TableAssumption DEF ScrapsAllowed
<1>4. ASSUME NEW t \in fits \union scraps
      PROVE  t.added \in Nat /\ GoodAllocation(t.alloc, t.ranges, R, p, p + t.added)
  <2> HIDE DEF p, R, max
  <2>1. CASE t \in Exact(n, R) \/ t \in FirstFitting(n, R)
    <3>1. t.added = 0 /\ GoodAllocation(t.alloc, t.ranges, R, p, p)
      BY <1>1, <1>2, <2>1, ExactIsGood, FirstFittingIsGood
    <3> QED
      BY <1>1, <3>1
  <2>2. CASE t \in scraps
    <3>1. PICK T \in SUBSET R : \E l \in T :
              /\ Gathered(n, R, T, l, max)
              /\ t = IF Cardinality(Scraps(T)) > max THEN UsePages(n, R, T, p) ELSE UseScraps(n, R, T, l)
      BY <2>2
    <3>2. PICK l \in T :
              /\ Gathered(n, R, T, l, max)
              /\ t = IF Cardinality(Scraps(T)) > max THEN UsePages(n, R, T, p) ELSE UseScraps(n, R, T, l)
      BY <3>1
    <3> QED
      BY <1>1, <1>2, <1>3, <3>2, GatheredIsGood
  <2> QED
    BY <2>1, <2>2
<1>5. PICK t \in fits \union scraps : o = [t EXCEPT !.added = p + t.added - pages]
  <2>1. Allocations(n) = {[t EXCEPT !.added = p + t.added - pages] : t \in IF fits # {} THEN fits ELSE scraps}
    BY Zenon DEF Allocations, PagesFrom
  <2> HIDE DEF fits, scraps, p
  <2> QED
    BY <2>1
<1>6. t = [alloc |-> t.alloc, ranges |-> t.ranges, added |-> t.added]
  <2> HIDE DEF p, R, max
  <2>1. CASE t \in Exact(n, R)
    BY <2>1 DEF Exact
  <2>2. CASE t \in FirstFitting(n, R)
    BY <2>2 DEF FirstFitting
  <2>3. CASE t \in scraps
    <3>1. ASSUME NEW T, NEW l
          PROVE  /\ UsePages(n, R, T, p) = [alloc |-> UsePages(n, R, T, p).alloc,
                                           ranges |-> UsePages(n, R, T, p).ranges,
                                           added |-> UsePages(n, R, T, p).added]
                 /\ UseScraps(n, R, T, l) = [alloc |-> UseScraps(n, R, T, l).alloc,
                                            ranges |-> UseScraps(n, R, T, l).ranges,
                                            added |-> UseScraps(n, R, T, l).added]
      BY DEF UsePages, UseScraps
    <3>2. PICK u \in gathered : t = IF Cardinality(Scraps(u[1])) > max THEN UsePages(n, R, u[1], p)
                                                                   ELSE UseScraps(n, R, u[1], u[2])
      BY <2>3
    <3> QED
      BY <3>1, <3>2
  <2> QED
    BY <2>1, <2>2, <2>3
<1>7. o.alloc = t.alloc /\ o.ranges = t.ranges /\ o.added = p + t.added - pages
  <2>1. \A a, b, c, d : /\ [[alloc |-> a, ranges |-> b, added |-> c] EXCEPT !.added = d].alloc = a
                      /\ [[alloc |-> a, ranges |-> b, added |-> c] EXCEPT !.added = d].ranges = b
                      /\ [[alloc |-> a, ranges |-> b, added |-> c] EXCEPT !.added = d].added = d
    OBVIOUS
  <2> HIDE DEF p, fits, scraps
  <2> QED
    BY <1>5, <1>6, <2>1, Zenon
<1>8. t.added \in Nat /\ GoodAllocation(t.alloc, t.ranges, R, p, p + t.added)
  BY <1>4
<1>9. GoodAllocation(t.alloc, t.ranges, ranges, pages, p + t.added)
  <2>1. AllRecords(p + t.added) \ AllRecords(pages)
          = (AllRecords(p) \ AllRecords(pages)) \union (AllRecords(p + t.added) \ AllRecords(p))
    <3>1. AllRecords(pages) \subseteq AllRecords(p) /\ AllRecords(p) \subseteq AllRecords(p + t.added)
      <4> HIDE DEF p, fits, scraps
      <4> QED
        BY <1>1, <1>8 DEF AllRecords
    <3> HIDE DEF p, fits, scraps
    <3> QED
      BY <3>1
  <2> HIDE DEF p, R, fits, scraps
  <2> QED
    BY <1>2, <1>8, <2>1 DEF GoodAllocation
<1>10. pages + o.added = p + t.added /\ o.added \in Nat
  <2> HIDE DEF p, fits, scraps
  <2> QED
    BY <1>1, <1>7, <1>8
<1> HIDE DEF p, fits, scraps
<1> QED
  BY <1>7, <1>9, <1>10

-----------------------------------------------------------------------------
\* Release.

\* Of a property of some natural numbers there is a smallest one that has it:
\* subsets of the finite set 0 .. n are well founded.
LEMMA Smallest ==
    ASSUME NEW S \in SUBSET Nat, S # {}
    PROVE  \E m \in S : \A i \in S : m <= i
<1> DEFINE T == {0 .. i : i \in S}
<1>1. T \subseteq FiniteSubsetsOf(Nat) /\ T # {}
  <2>1. ASSUME NEW i \in S
        PROVE  0 .. i \in FiniteSubsetsOf(Nat)
    <3>1. IsFiniteSet(0 .. i) /\ 0 .. i \subseteq Nat
      BY FS_Interval
    <3> QED
      BY <3>1 DEF FiniteSubsetsOf
  <2>2. T # {}
    OBVIOUS
  <2> QED
    BY <2>1, <2>2
<1>2. PICK t \in T : \A u \in T : ~ (<<u, t>> \in StrictSubsetOrdering(Nat))
  <2> HIDE DEF T
  <2> QED
    BY <1>1, FS_StrictSubsetOrderingWellFounded, WFMin
<1>3. PICK m \in S : t = 0 .. m
  OBVIOUS
<1>4. ASSUME NEW i \in S, ~ (m <= i) PROVE FALSE
  <2>1. 0 .. i \subseteq 0 .. m /\ 0 .. i # 0 .. m
    BY <1>4
  <2>2. <<0 .. i, 0 .. m>> \in StrictSubsetOrdering(Nat)
    BY <2>1 DEF StrictSubsetOrdering
  <2> QED
    BY <1>2, <1>3, <2>2
<1> QED
  BY <1>4

LEMMA Largest ==
    ASSUME NEW S \in SUBSET Nat, S # {}, NEW n \in Nat, \A i \in S : i <= n
    PROVE  \E m \in S : \A i \in S : i <= m
<1> DEFINE D == {n - i : i \in S}
<1>1. D \in SUBSET Nat /\ D # {}
  <2>1. \A i \in S : n - i \in Nat
    OBVIOUS
  <2>2. D # {}
    OBVIOUS
  <2> QED
    BY <2>1, <2>2
<1>2. \A i \in S : i \in Nat /\ n - i \in D
  OBVIOUS
<1>3. \A k \in D : \E m \in S : k = n - m
  OBVIOUS
<1> HIDE DEF D
<1>4. PICK k \in D : \A j \in D : k <= j
  BY <1>1, Smallest
<1>5. PICK m \in S : k = n - m
  BY <1>3
<1>6. \A i \in S : n - m <= n - i
  BY <1>2, <1>4, <1>5
<1> QED
  BY <1>2, <1>6

\* The runs of a set of records are ranges of a table ...
LEMMA RunsAreKept ==
    ASSUME NEW p \in Nat, NEW S \in SUBSET AllRecords(p)
    PROVE  WellKept(Runs(S), p)
<1> DEFINE bounds == {x[2] : x \in S} \union {x[2] + 1 : x \in S}
<1>1. \A x \in S : x = <<x[1], x[2]>> /\ x[1] \in 0 .. p - 1 /\ x[2] \in 0 .. RecordsPerPage - 1
  BY DEF AllRecords
<1>2. ASSUME NEW r \in Runs(S)
      PROVE  /\ r \in Ranges /\ r.page < p /\ r.start < r.end /\ r.end <= RecordsPerPage
             /\ \A i \in r.start .. r.end - 1 : <<r.page, i>> \in S
             /\ <<r.page, r.start - 1>> \notin S /\ <<r.page, r.end>> \notin S
  <2>1. /\ r \in [page : {x[1] : x \in S}, start : bounds, end : bounds]
        /\ r.start < r.end /\ RecordsOf({r}) \subseteq S
        /\ <<r.page, r.start - 1>> \notin S /\ <<r.page, r.end>> \notin S
    BY DEF Runs
  <2>2. r \in Ranges
    BY <1>1, <2>1, PageSize DEF Ranges
  <2>3. \A i \in r.start .. r.end - 1 : <<r.page, i>> \in S
    BY <2>1, InRecordsOf
  <2>4. r.page < p /\ r.end <= RecordsPerPage
    <3>1. <<r.page, r.end - 1>> \in S
      BY <2>1, <2>2, <2>3 DEF Ranges
    <3> QED
      BY <2>2, <3>1, PageSize DEF AllRecords, Ranges
  <2> QED
    BY <2>1, <2>2, <2>3, <2>4
<1>3. ASSUME NEW r \in Runs(S), NEW q \in Runs(S), r # q
      PROVE  Apart(r, q)
  <2> SUFFICES ASSUME r.page = q.page, ~ (r.end < q.start), ~ (q.end < r.start) PROVE r = q
    BY <1>3 DEF Apart
  <2>1. r \in Ranges /\ q \in Ranges
    BY <1>2
  <2>2. r.start = q.start
    <3>1. ASSUME r.start < q.start PROVE FALSE
      <4>1. q.start - 1 \in r.start .. r.end - 1
        BY <1>2, <2>1, <3>1 DEF Ranges
      <4> QED
        BY <1>2, <4>1
    <3>2. ASSUME q.start < r.start PROVE FALSE
      <4>1. r.start - 1 \in q.start .. q.end - 1
        BY <1>2, <2>1, <3>2 DEF Ranges
      <4> QED
        BY <1>2, <4>1
    <3> QED
      BY <2>1, <3>1, <3>2 DEF Ranges
  <2>3. r.end = q.end
    <3>1. ASSUME r.end < q.end PROVE FALSE
      <4>1. r.end \in q.start .. q.end - 1
        BY <1>2, <2>1, <3>1 DEF Ranges
      <4> QED
        BY <1>2, <4>1
    <3>2. ASSUME q.end < r.end PROVE FALSE
      <4>1. q.end \in r.start .. r.end - 1
        BY <1>2, <2>1, <3>2 DEF Ranges
      <4> QED
        BY <1>2, <4>1
    <3> QED
      BY <2>1, <3>1, <3>2 DEF Ranges
  <2> QED
    BY <2>1, <2>2, <2>3 DEF Ranges
<1>4. IsFiniteSet(Runs(S))
  <2> DEFINE B == (0 .. p - 1) \X ((0 .. RecordsPerPage) \X (0 .. RecordsPerPage))
             f == [r \in Runs(S) |-> <<r.page, <<r.start, r.end>>>>]
  <2>1. IsFiniteSet(0 .. p - 1) /\ IsFiniteSet(0 .. RecordsPerPage)
    BY FS_Interval, PageSize
  <2>2. IsFiniteSet(B)
    BY <2>1, FS_Product
  <2>3. f \in Injection(Runs(S), B)
    <3>1. ASSUME NEW r \in Runs(S)
          PROVE  f[r] \in B
      <4>1. r.page \in 0 .. p - 1 /\ r.start \in 0 .. RecordsPerPage /\ r.end \in 0 .. RecordsPerPage
        <5>1. r \in Ranges /\ r.page < p /\ r.start < r.end /\ r.end <= RecordsPerPage
          BY <1>2
        <5>2. r.page \in Nat /\ r.start \in Nat /\ r.end \in Nat
          BY <5>1 DEF Ranges
        <5> HIDE DEF f, B
        <5> QED
          BY <5>1, <5>2, PageSize
      <4> QED
        BY <4>1
    <3>2. ASSUME NEW r \in Runs(S), NEW q \in Runs(S), f[r] = f[q]
          PROVE  r = q
      <4>1. r \in Ranges /\ q \in Ranges /\ r.page = q.page /\ r.start = q.start /\ r.end = q.end
        BY <1>2, <3>2
      <4> QED
        BY <4>1 DEF Ranges
    <3> QED
      BY <3>1, <3>2 DEF Injection, IsInjective
  <2> HIDE DEF B, f
  <2> QED
    BY <2>2, <2>3, FS_Injection
<1> QED
  BY <1>2, <1>3, <1>4 DEF WellKept

\* ... and they have exactly these records.
LEMMA RunsCoverAll ==
    ASSUME NEW p \in Nat, NEW S \in SUBSET AllRecords(p)
    PROVE  RecordsOf(Runs(S)) = S
<1>1. RecordsOf(Runs(S)) \subseteq S
  <2> SUFFICES ASSUME NEW x \in RecordsOf(Runs(S)) PROVE x \in S
    OBVIOUS
  <2>1. PICK r \in Runs(S) : \E i \in r.start .. r.end - 1 : x = <<r.page, i>>
    BY InRecordsOf
  <2>2. x \in RecordsOf({r})
    BY <2>1, InRecordsOf
  <2>3. RecordsOf({r}) \subseteq S
    BY DEF Runs
  <2> QED
    BY <2>2, <2>3
<1>2. ASSUME NEW x \in S
      PROVE  x \in RecordsOf(Runs(S))
  <2> DEFINE g == x[1]
             n == x[2]
             Below == {i \in 0 .. n : \A j \in i .. n : <<g, j>> \in S}
             Above == {i \in n .. RecordsPerPage - 1 : \A j \in n .. i : <<g, j>> \in S}
  <2>1. x = <<g, n>> /\ g \in 0 .. p - 1 /\ n \in 0 .. RecordsPerPage - 1
    BY DEF AllRecords
  <2>2. PICK a \in Below : \A i \in Below : a <= i
    <3>1. Below \in SUBSET Nat /\ n \in Below
      BY <2>1
    <3> HIDE DEF Below
    <3> QED
      BY <3>1, Smallest
  <2>3. PICK b \in Above : \A i \in Above : i <= b
    <3>1. Above \in SUBSET Nat /\ n \in Above /\ \A i \in Above : i <= RecordsPerPage
      BY <2>1, PageSize
    <3> HIDE DEF Above
    <3> QED
      BY <3>1, Largest, PageSize
  <2> DEFINE r == [page |-> g, start |-> a, end |-> b + 1]
  <2>4. a \in 0 .. n /\ b \in n .. RecordsPerPage - 1 /\ \A j \in a .. b : <<g, j>> \in S
    BY <2>1, PageSize
  <2>5. <<g, a - 1>> \notin S
    <3> SUFFICES ASSUME <<g, a - 1>> \in S PROVE FALSE
      OBVIOUS
    <3>1. a - 1 \in 0 .. n
      BY <2>1, <2>4 DEF AllRecords
    <3>2. a - 1 \in Below
      BY <2>1, <2>4, <3>1
    <3> QED
      BY <2>1, <2>2, <2>4, <3>2
  <2>6. <<g, b + 1>> \notin S
    <3> SUFFICES ASSUME <<g, b + 1>> \in S PROVE FALSE
      OBVIOUS
    <3>1. b + 1 \in n .. RecordsPerPage - 1
      BY <2>1, <2>4, PageSize DEF AllRecords
    <3>2. b + 1 \in Above
      BY <2>1, <2>4, <3>1
    <3> QED
      BY <2>1, <2>3, <2>4, <3>2, PageSize
  <2>7. RecordsOf({r}) \subseteq S /\ x \in RecordsOf({r})
    <3>1. \A y : y \in RecordsOf({r}) <=> \E i \in a .. b : y = <<g, i>>
      <4>1. \A y : y \in RecordsOf({r}) <=> \E i \in r.start .. r.end - 1 : y = <<r.page, i>>
        <5> HIDE DEF r
        <5> QED
          BY InRecordsOf
      <4>2. r.page = g /\ r.start .. r.end - 1 = a .. b
        BY <2>1, <2>4, PageSize
      <4> QED
        BY <4>1, <4>2
    <3> HIDE DEF r, g, n
    <3>2. RecordsOf({r}) \subseteq S
      BY <2>4, <3>1
    <3>3. n \in a .. b
      BY <2>1, <2>4
    <3> QED
      BY <2>1, <3>1, <3>2, <3>3
  <2>8. r \in Runs(S)
    <3>1. g \in {y[1] : y \in S}
      OBVIOUS
    <3>2. a \in {y[2] : y \in S} /\ b + 1 \in {y[2] + 1 : y \in S}
      <4>1. <<g, a>> \in S /\ <<g, b>> \in S
        BY <2>1, <2>4, PageSize
      <4> QED
        BY <4>1
    <3>3. r.start < r.end
      BY <2>1, <2>4, PageSize
    <3> QED
      BY <2>5, <2>6, <2>7, <3>1, <3>2, <3>3 DEF Runs
  <2> QED
    BY <2>7, <2>8, InRecordsOf
<1> QED
  BY <1>1, <1>2

-----------------------------------------------------------------------------
\* What a change of the table leaves in memory and sends to the file.  It has
\* dropped no range, or the table is as large as the file has room for.

LEMMA DroppedRanges ==
    ASSUME NEW R, NEW p \in Nat, WellKept(R, p), NEW D \in Dropped(R)
    PROVE  D \subseteq R /\ (D = {} \/ Cardinality(R \ D) = MaxRanges)
<1>1. IsFiniteSet(R) /\ IsFiniteSet(D) /\ D \subseteq R
  BY FS_Subset DEF WellKept, Dropped
<1>2. Cardinality(R) \in Nat /\ Cardinality(D) \in Nat /\ MaxRanges \in Nat
  BY <1>1, FS_CardinalityType, TableAssumption
<1>3. CASE Cardinality(R) > MaxRanges
  <2>1. Cardinality(D) = Cardinality(R) - MaxRanges
    BY <1>3 DEF Dropped
  <2>2. Cardinality(R \ D) = Cardinality(R) - Cardinality(R \intersect D)
    BY <1>1, FS_Difference
  <2>3. R \intersect D = D
    BY <1>1
  <2>4. Cardinality(R \ D) = Cardinality(R) - Cardinality(D)
    BY <2>2, <2>3, Zenon
  <2>5. Cardinality(R \ D) = MaxRanges
    BY <1>2, <2>1, <2>4
  <2> QED
    BY <1>1, <2>5
<1>4. CASE ~ (Cardinality(R) > MaxRanges)
  <2>1. Cardinality(D) = 0
    BY <1>4 DEF Dropped
  <2> QED
    BY <1>1, <2>1, FS_EmptySet
<1> QED
  BY <1>3, <1>4

\* What is stored of a table has no record free that the table has not: an end
\* that does not fit in its bits is stored as 0.
LEMMA ImageFrees ==
    ASSUME NEW R, NEW p \in Nat, WellKept(R, p)
    PROVE  /\ Image(R, p) \in [pages : Nat, ranges : SUBSET Ranges]
           /\ Image(R, p).pages = p /\ RecordsOf(Image(R, p).ranges) \subseteq RecordsOf(R)
<1> DEFINE Stored(r) == [r EXCEPT !.start = r.start % Width, !.end = r.end % Width]
<1>1. ASSUME NEW r \in R
      PROVE  /\ Stored(r) \in Ranges /\ Stored(r).page = r.page
             /\ Stored(r).start = r.start
             /\ Stored(r).end = r.end \/ Stored(r).end = 0
  <2>1. r \in Ranges /\ r.start < r.end /\ r.end <= Width
    BY PageSize DEF WellKept, Ranges
  <2>2. r.start % Width = r.start /\ (r.end < Width => r.end % Width = r.end) /\ Width % Width = 0
    BY <2>1, PageSize DEF Ranges
  <2>3. r.end % Width = r.end \/ r.end % Width = 0
    <3>1. CASE r.end < Width
      BY <2>2, <3>1
    <3>2. CASE r.end = Width
      BY <2>2, <3>2
    <3> QED
      BY <2>1, <3>1, <3>2, PageSize DEF Ranges
  <2> DEFINE e == r.end % Width
  <2>4. e \in Nat /\ (e = r.end \/ e = 0)
    BY <2>1, <2>3 DEF Ranges
  <2>5. Stored(r) = [r EXCEPT !.start = r.start, !.end = e]
    BY <2>2
  <2> HIDE DEF e, Stored
  <2>6. Stored(r) = [page |-> r.page, start |-> r.start, end |-> e]
    BY <2>1, <2>5 DEF Ranges
  <2> QED
    BY <2>1, <2>4, <2>6 DEF Ranges
<1>2. Image(R, p) = [pages |-> p, ranges |-> {Stored(r) : r \in R}]
  BY DEF Image
<1> HIDE DEF Stored
<1>3. {Stored(r) : r \in R} \in SUBSET Ranges
  BY <1>1
<1>4. ASSUME NEW x \in RecordsOf({Stored(r) : r \in R})
      PROVE  x \in RecordsOf(R)
  <2>1. PICK r \in R : x \in {Stored(r).page} \X (Stored(r).start .. Stored(r).end - 1)
    BY <1>4 DEF RecordsOf
  <2>2. x \in {r.page} \X (r.start .. r.end - 1)
    <3>1. r \in Ranges
      BY DEF WellKept
    <3> QED
      BY <1>1, <2>1, <3>1 DEF Ranges
  <2> QED
    BY <2>2 DEF RecordsOf
<1> QED
  BY <1>2, <1>3, <1>4

LEMMA WriteStep ==
    ASSUME NEW R, NEW p \in Nat, WellKept(R, p), NEW who, Write(R, p, who)
    PROVE  /\ pages' = p /\ WellKept(ranges', p)
           /\ RecordsOf(ranges') \subseteq RecordsOf(R)
           /\ ranges' = R \/ Cardinality(ranges') = MaxRanges
           /\ writes' = Append(writes, [image |-> Image(ranges', p), for |-> who, late |-> FALSE])
<1>1. PICK D \in Dropped(R) :
         /\ ranges' = R \ D /\ pages' = p
         /\ writes' = Append(writes, [image |-> Image(R \ D, p), for |-> who, late |-> FALSE])
  BY DEF Write
<1>2. R \ D \in SUBSET R /\ WellKept(R \ D, p)
  BY WellKeptSubset
<1>3. RecordsOf(R \ D) \subseteq RecordsOf(R)
  BY RecordsOfSubset
<1>4. R \ D = R \/ Cardinality(R \ D) = MaxRanges
  BY DroppedRanges
<1> QED
  BY <1>1, <1>2, <1>3, <1>4

\* FST.release
LEMMA ReleaseStep ==
    ASSUME pages \in Nat, WellKept(ranges, pages), NEW S \in SUBSET AllRecords(pages),
           NEW who, Released(S, who)
    PROVE  /\ pages' = pages /\ WellKept(ranges', pages)
           /\ RecordsOf(ranges') \subseteq RecordsOf(ranges) \union S
           /\ RecordsOf(ranges') = RecordsOf(ranges) \union S \/ Cardinality(ranges') = MaxRanges
           /\ writes' = Append(writes, [image |-> Image(ranges', pages), for |-> who, late |-> FALSE])
<1> DEFINE F == RecordsOf(ranges) \union S
<1>1. F \in SUBSET AllRecords(pages)
  BY RecordsInFile
<1>2. Write(Runs(F), pages, who)
  BY DEF Released
<1> HIDE DEF F
<1>3. WellKept(Runs(F), pages) /\ RecordsOf(Runs(F)) = F
  BY <1>1, RunsAreKept, RunsCoverAll
<1>4. /\ pages' = pages /\ WellKept(ranges', pages)
      /\ RecordsOf(ranges') \subseteq RecordsOf(Runs(F))
      /\ ranges' = Runs(F) \/ Cardinality(ranges') = MaxRanges
      /\ writes' = Append(writes, [image |-> Image(ranges', pages), for |-> who, late |-> FALSE])
  BY <1>2, <1>3, WriteStep
<1> QED
  BY <1>3, <1>4 DEF F

-----------------------------------------------------------------------------
\* Writes of records.

FileTables == [pages : Nat, ranges : SUBSET Ranges]
FileWrites == [image : FileTables, for : SUBSET Nodes, late : BOOLEAN]
Pending == {"allocating", "growing"}
Phases == Pending \union {"idle", "allocated", "storing", "linked"}

Typed ==
    /\ pages \in Nat /\ WellKept(ranges, pages)
    /\ file \in FileTables
    /\ writes \in Seq(FileWrites)
    /\ behind \in BOOLEAN
    /\ phase \in [Nodes -> Phases]
    /\ length \in [Nodes -> Nat]
    /\ cur \in [Nodes -> SUBSET Ranges]
    /\ new \in [Nodes -> SUBSET Ranges]
    /\ old \in [Nodes -> SUBSET Ranges]
    /\ \A n \in Nodes : WellKept(new[n], pages)

\* What a node holds goes with where its write is.
InPhase ==
    \A n \in Nodes : /\ phase[n] \in {"idle", "linked"} => new[n] = {}
                     /\ phase[n] # "linked" => old[n] = {}

\* The uses of the records, one by one.
Held(S) == S \subseteq AllRecords(pages) \ RecordsOf(ranges)
Separate ==
    /\ \A n \in Nodes : Held(RecordsOf(cur[n])) /\ Held(RecordsOf(new[n])) /\ Held(RecordsOf(old[n]))
    /\ \A n \in Nodes : /\ RecordsOf(new[n]) \intersect RecordsOf(cur[n]) = {}
                        /\ RecordsOf(new[n]) \intersect RecordsOf(old[n]) = {}
                        /\ RecordsOf(cur[n]) \intersect RecordsOf(old[n]) = {}
    /\ \A n, m \in Nodes : n # m =>
         (RecordsOf(cur[n]) \union RecordsOf(new[n]) \union RecordsOf(old[n]))
           \intersect (RecordsOf(cur[m]) \union RecordsOf(new[m]) \union RecordsOf(old[m])) = {}

\* The table t, which is in the file or is written there, keeps the records S.
Keeps(t, S) == S \subseteq AllRecords(t.pages) \ RecordsOf(t.ranges)
KeptIn(ws, i, S) == \A j \in i .. Len(ws) : ws[j].late \/ Keeps(ws[j].image, S)
KeptUnless(late, t, S) == late \/ Keeps(t, S)

\* A table that is in the file, or will be, keeps the records of the nodes on
\* file and of those that are about to be, whose write of the table ended, unless
\* one that was started later has ended.  An allocation that still waits for its
\* write is kept from that write on.
InOrder == \A i, j \in 1 .. Len(writes) : i < j /\ writes[j].late => writes[i].late
Saved ==
    /\ InOrder
    /\ \A n \in Nodes : /\ KeptUnless(behind, file, RecordsOf(cur[n]))
                         /\ KeptIn(writes, 1, RecordsOf(cur[n]))
    /\ \A n \in Nodes : phase[n] \in {"allocated", "storing"} =>
         /\ KeptUnless(behind, file, RecordsOf(new[n]))
         /\ KeptIn(writes, 1, RecordsOf(new[n]))
    /\ \A n \in Nodes, i \in 1 .. Len(writes) : writes[i].for = {n} =>
         /\ phase[n] \in Pending /\ KeptIn(writes, i, RecordsOf(new[n]))
         /\ writes[i].late => KeptUnless(behind, file, RecordsOf(new[n]))
         /\ \A j \in 1 .. Len(writes) : writes[j].for = {n} => j = i

IInv == Typed /\ InPhase /\ Separate /\ Saved

\* Up to the first start with a table that is not sound.
Inv == damaged \/ IInv

-----------------------------------------------------------------------------
\* What is asked for, and what is kept of it.

LEMMA AskedType ==
    ASSUME NEW bytes \in Nat, NEW chunks \in Nat, chunks > 0
    PROVE  RecordsNeeded(bytes, chunks) \in Nat /\ RecordsNeeded(bytes, chunks) > 0
<1> DEFINE more == bytes + 7 + 9 * (chunks - 1)
<1>1. BytesPerRecord \in Nat /\ BytesPerRecord > 0
  BY RecordAssumption
<1>2. bytes + 4 \in Nat /\ bytes + 4 > 0 /\ more \in Nat /\ more > 0
  OBVIOUS
<1>3. \A a \in Nat : a > 0 => CeilDiv(a, BytesPerRecord) \in Nat /\ CeilDiv(a, BytesPerRecord) > 0
  <2> SUFFICES ASSUME NEW a \in Nat, a > 0
               PROVE  CeilDiv(a, BytesPerRecord) \in Nat /\ CeilDiv(a, BytesPerRecord) > 0
    OBVIOUS
  <2>1. CeilDiv(a, BytesPerRecord) \in Nat /\ CeilDiv(a, BytesPerRecord) * BytesPerRecord >= a
    BY <1>1, Ceiling
  <2>2. CeilDiv(a, BytesPerRecord) # 0
    BY <1>1, <2>1
  <2> QED
    BY <2>1, <2>2
<1>4. RecordsNeeded(bytes, chunks) = IF CeilDiv(bytes + 4, BytesPerRecord) > 1
                                       THEN CeilDiv(more, BytesPerRecord)
                                       ELSE CeilDiv(bytes + 4, BytesPerRecord)
  BY DEF RecordsNeeded
<1> HIDE DEF more
<1> QED
  BY <1>2, <1>3, <1>4

LEMMA AskedForSome ==
    ASSUME NEW bytes \in Nat
    PROVE  RecordsAsked(bytes) \in Nat /\ RecordsAsked(bytes) > 0
<1> DEFINE n == RecordsNeeded(bytes, 1)
           chunks == n \div RecordsPerPage + Smaller(ScrapsAllowed(ranges), n % RecordsPerPage)
<1>1. n \in Nat /\ n > 0
  BY AskedType
<1>2. ScrapsAllowed(ranges) \in Nat /\ ScrapsAllowed(ranges) > 0
  BY TableAssumption DEF ScrapsAllowed
<1>3. chunks \in Nat /\ chunks > 0
  <2> DEFINE q == n \div RecordsPerPage
             r == n % RecordsPerPage
  <2>1. q \in Nat /\ r \in Nat /\ n = q * RecordsPerPage + r
    <3> HIDE DEF n
    <3> QED
      BY <1>1, PageSize
  <2>2. q > 0 \/ r > 0
    <3> HIDE DEF q, r, n
    <3> QED
      BY <1>1, <2>1, PageSize
  <2>3. chunks = q + Smaller(ScrapsAllowed(ranges), r)
    OBVIOUS
  <2> HIDE DEF q, r, n, chunks
  <2> QED
    BY <1>2, <2>1, <2>2, <2>3 DEF Smaller
<1>4. RecordsAsked(bytes) = IF n > 1 THEN RecordsNeeded(bytes, chunks) ELSE n
  BY DEF RecordsAsked
<1> HIDE DEF n, chunks
<1> QED
  BY <1>1, <1>3, <1>4, AskedType

LEMMA KeptRanges ==
    ASSUME NEW A, NEW p \in Nat, WellKept(A, p), NEW n \in Nat, NEW K \in Kept(A, n)
    PROVE  WellKept(K, p) /\ RecordsOf(K) \subseteq RecordsOf(A)
<1>1. PICK T \in SUBSET A, l \in A :
         /\ l \in T /\ Total(T \ {l}) < n /\ n <= Total(T)
         /\ K = (T \ {l}) \union {[l EXCEPT !.end = l.start + (n - Total(T \ {l}))]}
  BY DEF Kept
<1> DEFINE cut == l.start + (n - Total(T \ {l}))
<1>2. cut \in Nat /\ l.start < cut /\ cut <= l.end
  BY <1>1, CutInside
<1>3. K = HandedOut(T, l, cut)
  BY <1>1 DEF HandedOut
<1>4. GoodAllocation(HandedOut(T, l, cut), LeftBy(A, T, l, cut), A, p, p)
  <2> HIDE DEF cut
  <2> QED
    BY <1>1, <1>2, HandOut
<1> HIDE DEF cut
<1> QED
  <2>1. RecordsOf(HandedOut(T, l, cut)) \subseteq RecordsOf(A)
    BY <1>4 DEF GoodAllocation
  <2> QED
    BY <1>3, <1>4, <2>1 DEF GoodAllocation

-----------------------------------------------------------------------------
\* Writes that are in flight.

LEMMA Appended ==
    ASSUME NEW ws \in Seq(FileWrites), NEW w, NEW i \in Nat \ {0}, NEW S,
           KeptIn(ws, i, S), w.late \/ Keeps(w.image, S)
    PROVE  KeptIn(Append(ws, w), i, S)
<1> SUFFICES ASSUME NEW j \in i .. Len(Append(ws, w))
             PROVE  Append(ws, w)[j].late \/ Keeps(Append(ws, w)[j].image, S)
  BY DEF KeptIn
<1>1. Len(ws) \in Nat /\ Len(Append(ws, w)) = Len(ws) + 1
  OBVIOUS
<1>2. CASE j = Len(ws) + 1
  BY <1>1, <1>2
<1>3. CASE j # Len(ws) + 1
  <2>1. j \in i .. Len(ws) /\ Append(ws, w)[j] = ws[j]
    BY <1>1, <1>3
  <2> QED
    BY <2>1 DEF KeptIn
<1> QED
  BY <1>2, <1>3

LEMMA KeptLess ==
    ASSUME NEW ws, NEW i, NEW S, KeptIn(ws, i, S), NEW T \in SUBSET S
    PROVE  KeptIn(ws, i, T)
BY DEF KeptIn, Keeps

\* Where a write that is left was before the one at position i ended.
Before(i, j) == IF j < i THEN j ELSE j + 1

LEMMA WritesLeft ==
    ASSUME writes \in Seq(FileWrites), NEW i \in DOMAIN writes, writes' = LeftAfter(i)
    PROVE  /\ writes' \in Seq(FileWrites) /\ Len(writes') = Len(writes) - 1
           /\ \A j \in 1 .. Len(writes') :
                LET k == Before(i, j) IN
                /\ k \in 1 .. Len(writes) /\ k # i /\ (j < i <=> k < i)
                /\ writes'[j].image = writes[k].image /\ writes'[j].for = writes[k].for
                /\ writes'[j].late <=> writes[k].late \/ k < i
<1> DEFINE marked == [j \in DOMAIN writes |-> [writes[j] EXCEPT !.late = @ \/ j < i]]
           n == Len(writes)
<1>1. n \in Nat /\ i \in 1 .. n /\ DOMAIN writes = 1 .. n
  OBVIOUS
<1>2. \A j \in 1 .. n : /\ marked[j] \in FileWrites
                        /\ marked[j].image = writes[j].image /\ marked[j].for = writes[j].for
                        /\ marked[j].late <=> writes[j].late \/ j < i
  <2> TAKE j \in 1 .. n
  <2>1. writes[j] \in FileWrites
    <3> HIDE DEF FileWrites
    <3> QED
      BY <1>1
  <2>2. marked[j] = [writes[j] EXCEPT !.late = writes[j].late \/ j < i]
    BY <1>1
  <2> HIDE DEF marked
  <2> QED
    BY <2>1, <2>2 DEF FileWrites
<1>3. marked \in Seq(FileWrites) /\ Len(marked) = n
  <2>1. DOMAIN marked = 1 .. n
    BY <1>1
  <2> HIDE DEF marked, FileWrites, n
  <2>2. marked \in [1 .. n -> FileWrites]
    <3>1. marked = [j \in 1 .. n |-> marked[j]]
      BY <1>1, <2>1 DEF marked
    <3> QED
      BY <1>2, <3>1
  <2> QED
    BY <1>1, <2>2
<1>4. writes' = SubSeq(marked, 1, i - 1) \o SubSeq(marked, i + 1, n)
  BY <1>3 DEF LeftAfter, RemoveAt
<1> DEFINE a == SubSeq(marked, 1, i - 1)
           b == SubSeq(marked, i + 1, n)
<1> HIDE DEF marked, n, FileWrites
<1>5. /\ a \in Seq(FileWrites) /\ Len(a) = i - 1
      /\ \A j \in 1 .. i - 1 : a[j] = marked[j]
  BY <1>1, <1>3
<1>6. /\ b \in Seq(FileWrites) /\ Len(b) = n - i
      /\ \A j \in 1 .. n - i : b[j] = marked[i + j]
  BY <1>1, <1>3
<1> HIDE DEF a, b
<1>7. writes' = a \o b
  BY <1>4 DEF a, b
<1>8. /\ writes' \in Seq(FileWrites) /\ Len(writes') = n - 1
      /\ \A j \in 1 .. n - 1 : writes'[j] = IF j < i THEN a[j] ELSE b[j - (i - 1)]
  <2>1. Len(a) + Len(b) = n - 1
    BY <1>1, <1>5, <1>6
  <2>2. /\ writes' \in Seq(FileWrites) /\ Len(writes') = Len(a) + Len(b)
        /\ \A j \in 1 .. Len(a) + Len(b) : writes'[j] = IF j <= Len(a) THEN a[j] ELSE b[j - Len(a)]
    BY <1>5, <1>6, <1>7, ConcatProperties
  <2> QED
    <3>1. ASSUME NEW j \in 1 .. n - 1
          PROVE  writes'[j] = IF j < i THEN a[j] ELSE b[j - (i - 1)]
      <4>1. j \in 1 .. Len(a) + Len(b) /\ (j < i <=> j <= Len(a))
        BY <1>1, <1>5, <2>1
      <4> QED
        BY <1>5, <2>2, <4>1
    <3> QED
      BY <2>1, <2>2, <3>1
<1>9. \A j \in 1 .. n - 1 : writes'[j] = marked[Before(i, j)]
  <2> TAKE j \in 1 .. n - 1
  <2>1. CASE j < i
    <3>1. j \in 1 .. i - 1
      BY <1>1, <2>1
    <3> QED
      BY <1>5, <1>8, <2>1, <3>1 DEF Before
  <2>2. CASE ~(j < i)
    <3>1. j - (i - 1) \in 1 .. n - i /\ i + (j - (i - 1)) = j + 1
      BY <1>1, <2>2
    <3> QED
      BY <1>6, <1>8, <2>2, <3>1 DEF Before
  <2> QED
    BY <2>1, <2>2
<1>10. \A j \in 1 .. n - 1 : /\ Before(i, j) \in 1 .. n /\ Before(i, j) # i
                             /\ (j < i <=> Before(i, j) < i)
  BY <1>1 DEF Before
<1>11. ASSUME NEW j \in 1 .. n - 1
       PROVE  LET k == Before(i, j) IN
                /\ k \in 1 .. n /\ k # i /\ (j < i <=> k < i)
                /\ writes'[j].image = writes[k].image /\ writes'[j].for = writes[k].for
                /\ writes'[j].late <=> writes[k].late \/ k < i
  BY <1>2, <1>9, <1>10
<1> QED
  BY <1>8, <1>11 DEF n

\* A table that is written does not have the records free that somebody holds.
LEMMA ImageKeeps ==
    ASSUME pages' \in Nat, WellKept(ranges', pages'), NEW S \in SUBSET AllRecords(pages'),
           S \intersect RecordsOf(ranges') = {}
    PROVE  Keeps(Image(ranges', pages'), S)
<1>1. /\ Image(ranges', pages').pages = pages'
      /\ RecordsOf(Image(ranges', pages').ranges) \subseteq RecordsOf(ranges')
  BY ImageFrees
<1> QED
  BY <1>1 DEF Keeps

-----------------------------------------------------------------------------
\* What a step owes to the tables in flight, when it starts to write one ...

LEMMA SavedByWrite ==
    ASSUME Typed, Saved, Separate', NEW who, UNCHANGED <<file, behind>>,
           pages' \in Nat, WellKept(ranges', pages'),
           writes' = Append(writes, [image |-> Image(ranges', pages'), for |-> who, late |-> FALSE]),
           \A n \in Nodes :
             /\ RecordsOf(cur'[n]) \subseteq RecordsOf(cur[n])
             /\ phase'[n] \in {"allocated", "storing"} =>
                  phase[n] \in {"allocated", "storing"} /\ RecordsOf(new'[n]) \subseteq RecordsOf(new[n])
             /\ phase[n] \in Pending => phase'[n] \in Pending /\ new'[n] = new[n]
             /\ who = {n} => phase[n] \notin Pending /\ phase'[n] \in Pending
    PROVE  Saved'
<1> DEFINE w == [image |-> Image(ranges', pages'), for |-> who, late |-> FALSE]
<1>1. writes \in Seq(FileWrites) /\ Len(writes) \in Nat
  BY DEF Typed
<1>2. \A n \in Nodes : Keeps(w.image, RecordsOf(cur'[n])) /\ Keeps(w.image, RecordsOf(new'[n]))
  BY ImageKeeps DEF Separate, Held
<1>3. ASSUME NEW n \in Nodes
      PROVE  KeptUnless(behind', file', RecordsOf(cur'[n])) /\ KeptIn(writes', 1, RecordsOf(cur'[n]))
  <2>1. KeptUnless(behind, file, RecordsOf(cur'[n])) /\ KeptIn(writes, 1, RecordsOf(cur'[n]))
    BY KeptLess DEF Saved, KeptUnless, Keeps
  <2> HIDE DEF w
  <2> QED
    BY <1>1, <1>2, <2>1, Appended DEF w
<1>4. ASSUME NEW n \in Nodes, phase'[n] \in {"allocated", "storing"}
      PROVE  KeptUnless(behind', file', RecordsOf(new'[n])) /\ KeptIn(writes', 1, RecordsOf(new'[n]))
  <2>1. KeptUnless(behind, file, RecordsOf(new'[n])) /\ KeptIn(writes, 1, RecordsOf(new'[n]))
    BY <1>4, KeptLess DEF Saved, KeptUnless, Keeps
  <2> QED
    BY <1>1, <1>2, <2>1, Appended
<1>5. /\ Len(writes') = Len(writes) + 1
      /\ writes'[Len(writes) + 1].for = who /\ ~writes'[Len(writes) + 1].late
      /\ \A j \in 1 .. Len(writes) : writes'[j] = writes[j]
  BY <1>1
<1>6. ASSUME NEW n \in Nodes, NEW i \in 1 .. Len(writes'), writes'[i].for = {n}
      PROVE  /\ phase'[n] \in Pending /\ KeptIn(writes', i, RecordsOf(new'[n]))
             /\ writes'[i].late => KeptUnless(behind', file', RecordsOf(new'[n]))
             /\ \A j \in 1 .. Len(writes') : writes'[j].for = {n} => j = i
  <2>2. CASE i = Len(writes) + 1
    <3>1. who = {n} /\ ~writes'[i].late
      BY <1>5, <1>6, <2>2
    <3>2. \A j \in 1 .. Len(writes) : writes[j].for # {n}
      BY <3>1 DEF Saved
    <3>3. KeptIn(writes, i, RecordsOf(new'[n]))
      BY <1>1, <2>2 DEF KeptIn
    <3>4. KeptIn(writes', i, RecordsOf(new'[n]))
      BY <1>1, <1>2, <2>2, <3>3, Appended
    <3> QED
      BY <1>1, <1>5, <2>2, <3>1, <3>2, <3>4
  <2>3. CASE i # Len(writes) + 1
    <3>1. i \in 1 .. Len(writes) /\ writes'[i] = writes[i] /\ writes[i].for = {n}
      BY <1>1, <1>5, <1>6, <2>3
    <3>2. /\ phase[n] \in Pending /\ KeptIn(writes, i, RecordsOf(new[n]))
          /\ writes[i].late => KeptUnless(behind, file, RecordsOf(new[n]))
          /\ \A j \in 1 .. Len(writes) : writes[j].for = {n} => j = i
      BY <3>1 DEF Saved
    <3>3. new'[n] = new[n] /\ phase'[n] \in Pending /\ who # {n}
      BY <3>2
    <3>4. KeptIn(writes', i, RecordsOf(new'[n]))
      BY <1>1, <1>2, <3>1, <3>2, <3>3, Appended
    <3> QED
      BY <1>1, <1>5, <3>1, <3>2, <3>3, <3>4
  <2> QED
    BY <2>2, <2>3
<1>7. InOrder'
  <2> SUFFICES ASSUME NEW i \in 1 .. Len(writes'), NEW j \in 1 .. Len(writes'),
                      i < j, writes'[j].late
               PROVE  writes'[i].late
    BY DEF InOrder
  <2>1. j # Len(writes) + 1
    BY <1>5
  <2>2. i \in 1 .. Len(writes) /\ j \in 1 .. Len(writes)
    BY <1>1, <1>5, <2>1
  <2> QED
    BY <1>5, <2>2 DEF Saved, InOrder
<1> QED
  BY <1>3, <1>4, <1>6, <1>7 DEF Saved

\* ... and when it does not.
LEMMA SavedBefore ==
    ASSUME Typed, Saved, UNCHANGED <<file, writes, behind>>,
           \A n \in Nodes :
             /\ \/ RecordsOf(cur'[n]) \subseteq RecordsOf(cur[n])
                \/ phase[n] = "storing" /\ cur'[n] = new[n]
             /\ phase'[n] \in {"allocated", "storing"} =>
                  phase[n] \in {"allocated", "storing"} /\ RecordsOf(new'[n]) \subseteq RecordsOf(new[n])
             /\ phase[n] \in Pending => phase'[n] \in Pending /\ new'[n] = new[n]
    PROVE  Saved'
<1>1. ASSUME NEW n \in Nodes
      PROVE  KeptUnless(behind', file', RecordsOf(cur'[n])) /\ KeptIn(writes', 1, RecordsOf(cur'[n]))
  BY KeptLess DEF Saved, KeptUnless, Keeps
<1>2. ASSUME NEW n \in Nodes, phase'[n] \in {"allocated", "storing"}
      PROVE  KeptUnless(behind', file', RecordsOf(new'[n])) /\ KeptIn(writes', 1, RecordsOf(new'[n]))
  BY <1>2, KeptLess DEF Saved, KeptUnless, Keeps
<1>3. ASSUME NEW n \in Nodes, NEW i \in 1 .. Len(writes'), writes'[i].for = {n}
      PROVE  /\ phase'[n] \in Pending /\ KeptIn(writes', i, RecordsOf(new'[n]))
             /\ writes'[i].late => KeptUnless(behind', file', RecordsOf(new'[n]))
             /\ \A j \in 1 .. Len(writes') : writes'[j].for = {n} => j = i
  <2>1. i \in 1 .. Len(writes) /\ writes[i].for = {n}
    BY <1>3
  <2>2. /\ phase[n] \in Pending /\ KeptIn(writes, i, RecordsOf(new[n]))
        /\ writes[i].late => KeptUnless(behind, file, RecordsOf(new[n]))
        /\ \A j \in 1 .. Len(writes) : writes[j].for = {n} => j = i
    BY <2>1 DEF Saved
  <2> QED
    BY <2>2
<1> QED
  BY <1>1, <1>2, <1>3 DEF Saved, InOrder

-----------------------------------------------------------------------------
\* Each action.

\* The records a node holds, and the parts of Separate that are about it alone.
RecordsHeld(n) == RecordsOf(cur[n]) \union RecordsOf(new[n]) \union RecordsOf(old[n])
SeparateOf(n) ==
    /\ RecordsHeld(n) \subseteq AllRecords(pages) /\ RecordsHeld(n) \intersect RecordsOf(ranges) = {}
    /\ RecordsOf(new[n]) \intersect RecordsOf(cur[n]) = {}
    /\ RecordsOf(new[n]) \intersect RecordsOf(old[n]) = {}
    /\ RecordsOf(cur[n]) \intersect RecordsOf(old[n]) = {}

\* Records that no node holds: those of the table, and of pages that are added.
Unheld == RecordsOf(ranges) \union (AllRecords(pages') \ AllRecords(pages))

LEMMA SeparateIs ==
    Separate <=> /\ \A n \in Nodes : SeparateOf(n)
                 /\ \A n, m \in Nodes : n # m => RecordsHeld(n) \intersect RecordsHeld(m) = {}
<1>1. \A n \in Nodes :
         Held(RecordsOf(cur[n])) /\ Held(RecordsOf(new[n])) /\ Held(RecordsOf(old[n]))
           <=> RecordsHeld(n) \subseteq AllRecords(pages) /\ RecordsHeld(n) \intersect RecordsOf(ranges) = {}
  BY DEF Held, RecordsHeld
<1> QED
  BY <1>1, Zenon DEF Separate, SeparateOf, RecordsHeld

\* A step of one node, which takes records that no node holds, and gives back
\* no others than its own, leaves those of the others alone.
LEMMA SeparateOthers ==
    ASSUME Separate, NEW n \in Nodes, SeparateOf(n)',
           \A m \in Nodes : m # n => cur'[m] = cur[m] /\ new'[m] = new[m] /\ old'[m] = old[m],
           AllRecords(pages) \subseteq AllRecords(pages'),
           RecordsOf(ranges') \subseteq RecordsHeld(n) \union Unheld,
           RecordsHeld(n)' \subseteq RecordsHeld(n) \union Unheld
    PROVE  Separate'
<1>1. ASSUME NEW m \in Nodes, m # n
      PROVE  /\ SeparateOf(m) /\ RecordsHeld(m)' = RecordsHeld(m)
             /\ RecordsHeld(m) \intersect (RecordsHeld(n) \union Unheld) = {}
  <2>1. SeparateOf(m) /\ RecordsHeld(m) \intersect RecordsHeld(n) = {}
    BY <1>1, SeparateIs
  <2>2. RecordsHeld(m) \intersect Unheld = {}
    BY <2>1 DEF SeparateOf, Unheld
  <2>3. RecordsHeld(m)' = RecordsHeld(m)
    BY <1>1, Zenon DEF RecordsHeld
  <2> QED
    BY <2>1, <2>2, <2>3
<1>2. ASSUME NEW m \in Nodes
      PROVE  SeparateOf(m)'
  <2>1. CASE m # n
    <3>1. /\ RecordsHeld(m)' \subseteq AllRecords(pages')
          /\ RecordsHeld(m)' \intersect RecordsOf(ranges') = {}
      BY <1>1, <2>1 DEF SeparateOf
    <3>2. cur'[m] = cur[m] /\ new'[m] = new[m] /\ old'[m] = old[m] /\ SeparateOf(m)
      BY <1>1, <2>1
    <3> QED
      BY <3>1, <3>2 DEF SeparateOf
  <2> QED
    BY <2>1
<1>3. ASSUME NEW m \in Nodes, NEW k \in Nodes, m # k
      PROVE  RecordsHeld(m)' \intersect RecordsHeld(k)' = {}
  <2>1. CASE m = n
    BY <1>1, <1>3, <2>1
  <2>2. CASE k = n
    BY <1>1, <1>3, <2>2
  <2>3. CASE m # n /\ k # n
    <3>1. RecordsHeld(m) \intersect RecordsHeld(k) = {}
      BY <1>3, SeparateIs
    <3> QED
      BY <1>1, <2>3, <3>1
  <2> QED
    BY <2>1, <2>2, <2>3
<1>4. ASSUME NEW m \in Nodes
      PROVE  Held(RecordsOf(cur[m]))' /\ Held(RecordsOf(new[m]))' /\ Held(RecordsOf(old[m]))'
  BY <1>2 DEF SeparateOf, Held, RecordsHeld
<1> QED
  BY <1>2, <1>3, <1>4, Zenon DEF Separate, SeparateOf, RecordsHeld

LEMMA TypedAppend ==
    ASSUME Typed, pages' \in Nat, WellKept(ranges', pages'), NEW who \in SUBSET Nodes,
           writes' = Append(writes, [image |-> Image(ranges', pages'), for |-> who, late |-> FALSE])
    PROVE  writes' \in Seq(FileWrites)
<1>1. [image |-> Image(ranges', pages'), for |-> who, late |-> FALSE] \in FileWrites
  BY ImageFrees DEF FileWrites, FileTables
<1> QED
  BY <1>1 DEF Typed

LEMMA AllocateStep ==
    ASSUME IInv, NEW n \in Nodes, Allocate(n)
    PROVE  IInv'
<1>0. PICK bytes \in Lengths : \E o \in Allocations(RecordsAsked(bytes)) :
         /\ Write(o.ranges, pages + o.added, {n})
         /\ length' = [length EXCEPT ![n] = bytes]
         /\ new' = [new EXCEPT ![n] = o.alloc]
         /\ phase' = [phase EXCEPT ![n] = IF o.added > 0 THEN "growing" ELSE "allocating"]
  BY DEF Allocate
<1>1. PICK o \in Allocations(RecordsAsked(bytes)) :
         /\ Write(o.ranges, pages + o.added, {n})
         /\ length' = [length EXCEPT ![n] = bytes]
         /\ new' = [new EXCEPT ![n] = o.alloc]
         /\ phase' = [phase EXCEPT ![n] = IF o.added > 0 THEN "growing" ELSE "allocating"]
  BY <1>0
<1>2. phase[n] = "idle" /\ UNCHANGED <<file, behind, cur, old>>
  BY DEF Allocate
<1>9. PICK pending \in Pending : phase' = [phase EXCEPT ![n] = pending]
  BY <1>1 DEF Pending
<1>3. /\ pages \in Nat /\ bytes \in Nat
      /\ o.added \in Nat /\ GoodAllocation(o.alloc, o.ranges, ranges, pages, pages + o.added)
  <2>1. pages \in Nat /\ WellKept(ranges, pages) /\ bytes \in Nat
    BY RecordAssumption DEF IInv, Typed
  <2>2. RecordsAsked(bytes) \in Nat /\ RecordsAsked(bytes) > 0
    BY <2>1, AskedForSome
  <2> QED
    BY <2>1, <2>2, AllocationsAreGood
<1>4. /\ pages' = pages + o.added /\ WellKept(ranges', pages')
      /\ RecordsOf(ranges') \subseteq RecordsOf(o.ranges)
      /\ writes' = Append(writes, [image |-> Image(ranges', pages'), for |-> {n}, late |-> FALSE])
  <2>1. pages + o.added \in Nat /\ WellKept(o.ranges, pages + o.added)
    BY <1>3 DEF GoodAllocation
  <2> QED
    BY <1>1, <2>1, WriteStep
<1>5. Typed'
  <2>1. pages' \in Nat /\ pages' >= pages
    BY <1>3, <1>4
  <2>2. writes' \in Seq(FileWrites)
    BY <1>4, <2>1, TypedAppend DEF IInv
  <2>3. WellKept(o.alloc, pages') /\ o.alloc \in SUBSET Ranges
    BY <1>3, <1>4 DEF GoodAllocation, WellKept
  <2>4. \A m \in Nodes : WellKept(new'[m], pages')
    BY <1>1, <1>3, <2>1, <2>3, WellKeptSubset DEF IInv, Typed
  <2> QED
    BY <1>1, <1>2, <1>3, <1>4, <1>9, <2>1, <2>2, <2>3, <2>4 DEF IInv, Typed, Phases
<1>6. InPhase'
  BY <1>1, <1>2, <1>9 DEF IInv, Typed, InPhase, Pending
<1>7. Separate'
  <2>1. /\ RecordsOf(o.alloc) \subseteq AllRecords(pages')
        /\ RecordsOf(o.alloc) \intersect RecordsOf(ranges') = {}
        /\ RecordsOf(o.alloc) \subseteq RecordsOf(ranges) \union (AllRecords(pages') \ AllRecords(pages))
        /\ RecordsOf(ranges') \subseteq RecordsOf(ranges) \union (AllRecords(pages') \ AllRecords(pages))
    <3>1. WellKept(o.alloc, pages') /\ pages' \in Nat
      BY <1>3, <1>4 DEF GoodAllocation
    <3>2. RecordsOf(o.alloc) \subseteq AllRecords(pages')
      BY <3>1, RecordsInFile
    <3> QED
      BY <1>3, <1>4, <3>2 DEF GoodAllocation
  <2>2. AllRecords(pages) \subseteq AllRecords(pages')
    <3>1. pages \in Nat /\ pages' \in Nat /\ pages <= pages'
      BY <1>3, <1>4
    <3> QED
      BY <3>1, MorePages
  <2>3. new'[n] = o.alloc /\ new[n] = {} /\ \A m \in Nodes : m # n => new'[m] = new[m]
    BY <1>1, <1>2 DEF IInv, Typed, InPhase
  <2> QED
    <3>1. Separate /\ SeparateOf(n) /\ RecordsOf(new[n]) = {}
      BY <2>3, RecordsOfEmpty, SeparateIs DEF IInv
    <3>2. /\ RecordsOf(cur'[n]) = RecordsOf(cur[n]) /\ RecordsOf(old'[n]) = RecordsOf(old[n])
          /\ RecordsOf(new'[n]) = RecordsOf(o.alloc)
      BY <1>2, <2>3
    <3>3. RecordsOf(o.alloc) \subseteq Unheld /\ RecordsOf(ranges') \subseteq Unheld
      BY <2>1 DEF Unheld
    <3>4. RecordsHeld(n) \intersect Unheld = {}
      BY <3>1 DEF SeparateOf, Unheld
    <3>5. RecordsHeld(n)' = RecordsHeld(n) \union RecordsOf(o.alloc)
      BY <3>1, <3>2 DEF RecordsHeld
    <3>6. SeparateOf(n)'
      BY <2>1, <2>2, <3>1, <3>2, <3>3, <3>4, <3>5 DEF SeparateOf, RecordsHeld
    <3>7. \A m \in Nodes : m # n => cur'[m] = cur[m] /\ new'[m] = new[m] /\ old'[m] = old[m]
      BY <1>2, <2>3
    <3> QED
      BY <2>2, <3>1, <3>3, <3>5, <3>6, <3>7, SeparateOthers
<1>8. Saved'
  <2>1. \A m \in Nodes : /\ m # n => phase'[m] = phase[m] /\ new'[m] = new[m]
                         /\ {n} = {m} => m = n
    BY <1>1, <1>9 DEF IInv, Typed
  <2>2. phase'[n] \in Pending /\ phase[n] \notin Pending /\ phase'[n] \notin {"allocated", "storing"}
    BY <1>2, <1>9 DEF IInv, Typed, Pending
  <2>3. \A m \in Nodes :
             /\ RecordsOf(cur'[m]) \subseteq RecordsOf(cur[m])
             /\ phase'[m] \in {"allocated", "storing"} =>
                  phase[m] \in {"allocated", "storing"} /\ RecordsOf(new'[m]) \subseteq RecordsOf(new[m])
             /\ phase[m] \in Pending => phase'[m] \in Pending /\ new'[m] = new[m]
             /\ {n} = {m} => phase[m] \notin Pending /\ phase'[m] \in Pending
    BY <1>2, <2>1, <2>2
  <2>4. Typed /\ Saved /\ pages' \in Nat /\ WellKept(ranges', pages')
    BY <1>3, <1>4 DEF IInv
  <2> QED
    BY <1>2, <1>4, <1>7, <2>3, <2>4, SavedByWrite
<1> QED
  BY <1>5, <1>6, <1>7, <1>8 DEF IInv

LEMMA TrimStep ==
    ASSUME IInv, NEW n \in Nodes, Trim(n)
    PROVE  IInv'
<1> DEFINE need == RecordsNeeded(length[n], Chunks(new[n]))
<1>1. /\ phase[n] = "allocated" /\ phase' = [phase EXCEPT ![n] = "storing"]
      /\ length' = [length EXCEPT ![n] = 0] /\ UNCHANGED <<file, behind, cur, old>>
  BY DEF Trim
<1>2. CASE UNCHANGED <<ranges, pages, writes, new>>
  <2>1. Typed'
    BY <1>1, <1>2 DEF IInv, Typed, Phases
  <2>2. InPhase'
    BY <1>1, <1>2 DEF IInv, Typed, InPhase
  <2>3. Separate'
    <3>1. UNCHANGED <<ranges, pages, cur, new, old>>
      BY <1>1, <1>2
    <3> QED
      BY <3>1 DEF IInv, Separate, Held
  <2>4. Saved'
    BY <1>1, <1>2, SavedBefore DEF IInv, Typed, Pending
  <2> QED
    BY <2>1, <2>2, <2>3, <2>4 DEF IInv
<1>3. CASE \E K \in Kept(new[n], need) : /\ Released(RecordsOf(new[n]) \ RecordsOf(K), {})
                                       /\ new' = [new EXCEPT ![n] = K]
  <2>1. PICK K \in Kept(new[n], need) : /\ Released(RecordsOf(new[n]) \ RecordsOf(K), {})
                                        /\ new' = [new EXCEPT ![n] = K]
    BY <1>3
  <2>2. /\ pages \in Nat /\ WellKept(ranges, pages) /\ WellKept(new[n], pages)
        /\ length[n] \in Nat
    BY DEF IInv, Typed
  <2>3. WellKept(K, pages) /\ RecordsOf(K) \subseteq RecordsOf(new[n])
    <3>1. need \in Nat
      <4>1. new[n] # {} /\ IsFiniteSet(new[n])
        BY <2>2 DEF Kept, WellKept
      <4>2. Chunks(new[n]) \in Nat /\ Chunks(new[n]) > 0
        BY <4>1, FS_CardinalityType, FS_EmptySet DEF Chunks
      <4> QED
        BY <2>2, <4>2, AskedType
    <3> HIDE DEF need
    <3> QED
      BY <2>2, <3>1, KeptRanges
  <2>4. RecordsOf(new[n]) \subseteq AllRecords(pages)
    BY <2>2, RecordsInFile
  <2>5. /\ pages' = pages /\ WellKept(ranges', pages')
        /\ RecordsOf(ranges') \subseteq RecordsOf(ranges) \union (RecordsOf(new[n]) \ RecordsOf(K))
        /\ writes' = Append(writes, [image |-> Image(ranges', pages'), for |-> {}, late |-> FALSE])
    <3>1. RecordsOf(new[n]) \ RecordsOf(K) \in SUBSET AllRecords(pages)
      BY <2>4
    <3> QED
      BY <2>1, <2>2, <3>1, ReleaseStep
  <2>6. new'[n] = K /\ \A m \in Nodes : m # n => new'[m] = new[m]
    BY <2>1 DEF IInv, Typed
  <2>7. Typed'
    <3>1. writes' \in Seq(FileWrites)
      <4>1. pages' \in Nat /\ {} \in SUBSET Nodes
        BY <2>2, <2>5
      <4> QED
        BY <2>5, <4>1, TypedAppend DEF IInv
    <3>2. K \in SUBSET Ranges
      BY <2>3 DEF WellKept
    <3> QED
      BY <1>1, <2>1, <2>3, <2>5, <2>6, <3>1, <3>2 DEF IInv, Typed, Phases
  <2>8. InPhase'
    BY <1>1, <2>6 DEF IInv, Typed, InPhase
  <2>9. Separate'
    <3>1. RecordsOf(new'[n]) \subseteq RecordsOf(new[n])
      BY <2>3, <2>6
    <3> QED
      <4>1. Separate /\ SeparateOf(n)
        BY SeparateIs DEF IInv
      <4>2. RecordsOf(cur'[n]) = RecordsOf(cur[n]) /\ RecordsOf(old'[n]) = RecordsOf(old[n])
        BY <1>1
      <4>3. RecordsHeld(n)' \subseteq RecordsHeld(n)
        BY <3>1, <4>2 DEF RecordsHeld
      <4>4. RecordsOf(ranges') \subseteq RecordsOf(ranges) \union (RecordsOf(new[n]) \ RecordsOf(new'[n]))
        BY <2>5, <2>6
      <4>5. SeparateOf(n)'
        BY <2>5, <3>1, <4>1, <4>2, <4>3, <4>4 DEF SeparateOf, RecordsHeld
      <4>6. RecordsOf(ranges') \subseteq RecordsHeld(n) \union Unheld
        BY <4>4 DEF RecordsHeld, Unheld
      <4>7. \A m \in Nodes : m # n => cur'[m] = cur[m] /\ new'[m] = new[m] /\ old'[m] = old[m]
        BY <1>1, <2>6
      <4> QED
        BY <2>5, <4>1, <4>3, <4>5, <4>6, <4>7, SeparateOthers
  <2>10. Saved'
    <3>1. \A m \in Nodes :
             /\ RecordsOf(cur'[m]) \subseteq RecordsOf(cur[m])
             /\ phase'[m] \in {"allocated", "storing"} =>
                  phase[m] \in {"allocated", "storing"} /\ RecordsOf(new'[m]) \subseteq RecordsOf(new[m])
             /\ phase[m] \in Pending => phase'[m] \in Pending /\ new'[m] = new[m]
             /\ {} = {m} => phase[m] \notin Pending /\ phase'[m] \in Pending
      BY <1>1, <2>3, <2>6 DEF IInv, Typed, Pending
    <3>2. Typed /\ Saved /\ pages' \in Nat /\ WellKept(ranges', pages')
      BY <2>2, <2>5 DEF IInv
    <3>3. /\ UNCHANGED <<file, behind>>
          /\ writes' = Append(writes, [image |-> Image(ranges', pages'), for |-> {}, late |-> FALSE])
      BY <1>1, <2>5
    <3> QED
      BY <2>9, <3>1, <3>2, <3>3, SavedByWrite
  <2> QED
    BY <2>7, <2>8, <2>9, <2>10 DEF IInv
<1> QED
  BY <1>2, <1>3 DEF Trim

LEMMA StoreFailsStep ==
    ASSUME IInv, NEW n \in Nodes, StoreFails(n)
    PROVE  IInv'
<1>1. /\ phase[n] = "storing" /\ phase' = [phase EXCEPT ![n] = "idle"]
      /\ new' = [new EXCEPT ![n] = {}] /\ UNCHANGED <<ranges, pages, file, writes, behind, length, cur, old>>
  BY DEF StoreFails, fstVars
<1>2. RecordsOf(new'[n]) = {} /\ \A m \in Nodes : m # n => new'[m] = new[m]
  BY <1>1, RecordsOfEmpty DEF IInv, Typed
<1>3. Typed'
  <2>1. WellKept({}, pages)
    BY WellKeptSubset DEF IInv, Typed
  <2> QED
    BY <1>1, <2>1 DEF IInv, Typed, Phases
<1>4. InPhase'
  BY <1>1 DEF IInv, Typed, InPhase
<1>5. Separate'
  <2>1. Separate /\ SeparateOf(n)
    BY SeparateIs DEF IInv
  <2>2. /\ RecordsOf(new'[n]) = {} /\ RecordsOf(cur'[n]) = RecordsOf(cur[n])
        /\ RecordsOf(old'[n]) = RecordsOf(old[n])
        /\ pages' = pages /\ ranges' = ranges
    BY <1>1, <1>2
  <2>3. RecordsHeld(n)' \subseteq RecordsHeld(n)
    BY <2>2 DEF RecordsHeld
  <2>4. SeparateOf(n)'
    BY <2>1, <2>2, <2>3 DEF SeparateOf
  <2>5. RecordsOf(ranges') \subseteq RecordsHeld(n) \union Unheld
    BY <2>2 DEF Unheld
  <2>6. \A m \in Nodes : m # n => cur'[m] = cur[m] /\ new'[m] = new[m] /\ old'[m] = old[m]
    BY <1>1, <1>2
  <2> QED
    BY <2>1, <2>2, <2>3, <2>4, <2>5, <2>6, SeparateOthers
<1>6. Saved'
  BY <1>1, <1>2, SavedBefore DEF IInv, Typed, Pending
<1> QED
  BY <1>3, <1>4, <1>5, <1>6 DEF IInv

LEMMA LinkStep ==
    ASSUME IInv, NEW n \in Nodes, Link(n)
    PROVE  IInv'
<1>1. /\ phase[n] = "storing" /\ phase' = [phase EXCEPT ![n] = "linked"]
      /\ old' = [old EXCEPT ![n] = cur[n]] /\ cur' = [cur EXCEPT ![n] = new[n]]
      /\ new' = [new EXCEPT ![n] = {}] /\ UNCHANGED <<ranges, pages, file, writes, behind, length>>
  BY DEF Link, fstVars
<1>2. /\ RecordsOf(new'[n]) = {} /\ cur'[n] = new[n] /\ old'[n] = cur[n]
      /\ \A m \in Nodes : m # n => new'[m] = new[m] /\ cur'[m] = cur[m] /\ old'[m] = old[m]
  BY <1>1, RecordsOfEmpty DEF IInv, Typed
<1>3. Typed'
  <2>1. WellKept({}, pages)
    BY WellKeptSubset DEF IInv, Typed
  <2> QED
    BY <1>1, <2>1 DEF IInv, Typed, Phases
<1>4. InPhase'
  BY <1>1 DEF IInv, Typed, InPhase
<1>5. Separate'
  <2>1. Separate /\ SeparateOf(n)
    BY SeparateIs DEF IInv
  <2>2. /\ RecordsOf(new'[n]) = {} /\ RecordsOf(cur'[n]) = RecordsOf(new[n])
        /\ RecordsOf(old'[n]) = RecordsOf(cur[n])
        /\ pages' = pages /\ ranges' = ranges
    BY <1>1, <1>2
  <2>3. RecordsHeld(n)' \subseteq RecordsHeld(n)
    BY <2>2 DEF RecordsHeld
  <2>4. SeparateOf(n)'
    BY <2>1, <2>2, <2>3 DEF SeparateOf
  <2>5. RecordsOf(ranges') \subseteq RecordsHeld(n) \union Unheld
    BY <2>2 DEF Unheld
  <2>6. \A m \in Nodes : m # n => cur'[m] = cur[m] /\ new'[m] = new[m] /\ old'[m] = old[m]
    BY <1>1, <1>2
  <2> QED
    BY <2>1, <2>2, <2>3, <2>4, <2>5, <2>6, SeparateOthers
<1>6. Saved'
  BY <1>1, <1>2, SavedBefore DEF IInv, Typed, Pending
<1> QED
  BY <1>3, <1>4, <1>5, <1>6 DEF IInv

LEMMA UnlinkStep ==
    ASSUME IInv, NEW n \in Nodes, Unlink(n)
    PROVE  IInv'
<1>1. /\ phase[n] = "idle" /\ phase' = [phase EXCEPT ![n] = "linked"]
      /\ old' = [old EXCEPT ![n] = cur[n]] /\ cur' = [cur EXCEPT ![n] = {}]
      /\ UNCHANGED <<ranges, pages, file, writes, behind, length, new>>
  BY DEF Unlink, fstVars
<1>2. /\ RecordsOf(cur'[n]) = {} /\ old'[n] = cur[n]
      /\ \A m \in Nodes : m # n => cur'[m] = cur[m] /\ old'[m] = old[m]
  BY <1>1, RecordsOfEmpty DEF IInv, Typed
<1>3. Typed'
  BY <1>1 DEF IInv, Typed, Phases
<1>4. InPhase'
  BY <1>1 DEF IInv, Typed, InPhase
<1>5. Separate'
  <2>1. Separate /\ SeparateOf(n)
    BY SeparateIs DEF IInv
  <2>2. /\ RecordsOf(cur'[n]) = {} /\ RecordsOf(new'[n]) = RecordsOf(new[n])
        /\ RecordsOf(old'[n]) = RecordsOf(cur[n])
        /\ pages' = pages /\ ranges' = ranges
    BY <1>1, <1>2
  <2>3. RecordsHeld(n)' \subseteq RecordsHeld(n)
    BY <2>2 DEF RecordsHeld
  <2>4. SeparateOf(n)'
    BY <2>1, <2>2, <2>3 DEF SeparateOf
  <2>5. RecordsOf(ranges') \subseteq RecordsHeld(n) \union Unheld
    BY <2>2 DEF Unheld
  <2>6. \A m \in Nodes : m # n => cur'[m] = cur[m] /\ new'[m] = new[m] /\ old'[m] = old[m]
    BY <1>1, <1>2
  <2> QED
    BY <2>1, <2>2, <2>3, <2>4, <2>5, <2>6, SeparateOthers
<1>6. Saved'
  BY <1>1, <1>2, SavedBefore DEF IInv, Typed, Pending
<1> QED
  BY <1>3, <1>4, <1>5, <1>6 DEF IInv

LEMMA FreeStep ==
    ASSUME IInv, NEW n \in Nodes, Free(n)
    PROVE  IInv'
<1>1. /\ phase[n] = "linked" /\ phase' = [phase EXCEPT ![n] = "idle"]
      /\ old' = [old EXCEPT ![n] = {}] /\ UNCHANGED <<file, behind, length, cur, new>>
  BY DEF Free
<1>2. RecordsOf(old'[n]) = {} /\ \A m \in Nodes : m # n => old'[m] = old[m]
  BY <1>1, RecordsOfEmpty DEF IInv, Typed
<1>3. InPhase'
  BY <1>1 DEF IInv, Typed, InPhase
<1>4. CASE UNCHANGED <<ranges, pages, writes>>
  <2>1. Typed'
    BY <1>1, <1>4 DEF IInv, Typed, Phases
  <2>2. Separate'
    <3>1. Separate /\ SeparateOf(n)
      BY SeparateIs DEF IInv
    <3>2. RecordsOf(cur'[n]) = RecordsOf(cur[n]) /\ RecordsOf(new'[n]) = RecordsOf(new[n])
      BY <1>1
    <3>3. RecordsHeld(n)' \subseteq RecordsHeld(n)
      BY <1>2, <3>2 DEF RecordsHeld
    <3>4. RecordsOf(ranges') \subseteq RecordsOf(ranges) \union RecordsOf(old[n]) /\ pages' = pages
      BY <1>4
    <3>5. SeparateOf(n)'
      BY <1>2, <3>1, <3>2, <3>3, <3>4 DEF SeparateOf, RecordsHeld
    <3>6. RecordsOf(ranges') \subseteq RecordsHeld(n) \union Unheld
      BY <3>4 DEF RecordsHeld, Unheld
    <3>7. \A m \in Nodes : m # n => cur'[m] = cur[m] /\ new'[m] = new[m] /\ old'[m] = old[m]
      BY <1>1, <1>2
    <3> QED
      BY <3>1, <3>3, <3>4, <3>5, <3>6, <3>7, SeparateOthers
  <2>3. Saved'
    BY <1>1, <1>4, SavedBefore DEF IInv, Typed, Pending
  <2> QED
    BY <1>3, <2>1, <2>2, <2>3 DEF IInv
<1>5. CASE Released(RecordsOf(old[n]), {})
  <2>1. pages \in Nat /\ WellKept(ranges, pages)
    BY DEF IInv, Typed
  <2>2. /\ pages' = pages /\ WellKept(ranges', pages')
        /\ RecordsOf(ranges') \subseteq RecordsOf(ranges) \union RecordsOf(old[n])
        /\ writes' = Append(writes, [image |-> Image(ranges', pages'), for |-> {}, late |-> FALSE])
    <3>1. RecordsOf(old[n]) \in SUBSET AllRecords(pages)
      BY DEF IInv, Separate, Held
    <3> QED
      BY <1>5, <2>1, <3>1, ReleaseStep
  <2>3. Typed'
    <3>1. writes' \in Seq(FileWrites)
      <4>1. pages' \in Nat /\ {} \in SUBSET Nodes
        BY <2>1, <2>2
      <4> QED
        BY <2>2, <4>1, TypedAppend DEF IInv
    <3> QED
      BY <1>1, <2>2, <3>1 DEF IInv, Typed, Phases
  <2>4. Separate'
    <3>1. Separate /\ SeparateOf(n)
      BY SeparateIs DEF IInv
    <3>2. RecordsOf(cur'[n]) = RecordsOf(cur[n]) /\ RecordsOf(new'[n]) = RecordsOf(new[n])
      BY <1>1
    <3>3. RecordsHeld(n)' \subseteq RecordsHeld(n)
      BY <1>2, <3>2 DEF RecordsHeld
    <3>4. RecordsOf(ranges') \subseteq RecordsOf(ranges) \union RecordsOf(old[n]) /\ pages' = pages
      BY <2>2
    <3>5. SeparateOf(n)'
      BY <1>2, <3>1, <3>2, <3>3, <3>4 DEF SeparateOf, RecordsHeld
    <3>6. RecordsOf(ranges') \subseteq RecordsHeld(n) \union Unheld
      BY <3>4 DEF RecordsHeld, Unheld
    <3>7. \A m \in Nodes : m # n => cur'[m] = cur[m] /\ new'[m] = new[m] /\ old'[m] = old[m]
      BY <1>1, <1>2
    <3> QED
      BY <3>1, <3>3, <3>4, <3>5, <3>6, <3>7, SeparateOthers
  <2>5. Saved'
    <3>1. \A m \in Nodes :
             /\ RecordsOf(cur'[m]) \subseteq RecordsOf(cur[m])
             /\ phase'[m] \in {"allocated", "storing"} =>
                  phase[m] \in {"allocated", "storing"} /\ RecordsOf(new'[m]) \subseteq RecordsOf(new[m])
             /\ phase[m] \in Pending => phase'[m] \in Pending /\ new'[m] = new[m]
             /\ {} = {m} => phase[m] \notin Pending /\ phase'[m] \in Pending
      BY <1>1 DEF IInv, Typed, Pending
    <3>2. Typed /\ Saved /\ pages' \in Nat /\ WellKept(ranges', pages')
      BY <2>1, <2>2 DEF IInv
    <3>3. /\ UNCHANGED <<file, behind>>
          /\ writes' = Append(writes, [image |-> Image(ranges', pages'), for |-> {}, late |-> FALSE])
      BY <1>1, <2>2
    <3> QED
      BY <2>4, <3>1, <3>2, <3>3, SavedByWrite
  <2> QED
    BY <1>3, <2>3, <2>4, <2>5 DEF IInv
<1> QED
  BY <1>4, <1>5 DEF Free

LEMMA GrowFailsStep ==
    ASSUME IInv, NEW n \in Nodes, GrowFails(n)
    PROVE  IInv'
<1>1. /\ phase[n] = "growing" /\ phase' = [phase EXCEPT ![n] = "idle"]
      /\ length' = [length EXCEPT ![n] = 0] /\ new' = [new EXCEPT ![n] = {}]
      /\ UNCHANGED <<ranges, pages, file, behind, cur, old>>
  BY DEF GrowFails
<1>2. RecordsOf(new'[n]) = {} /\ \A m \in Nodes : m # n => new'[m] = new[m] /\ phase'[m] = phase[m]
  BY <1>1, RecordsOfEmpty DEF IInv, Typed
<1>3. /\ writes' \in Seq(FileWrites) /\ Len(writes') = Len(writes)
      /\ \A i \in 1 .. Len(writes) :
           /\ writes'[i].image = writes[i].image /\ writes'[i].late = writes[i].late
           /\ writes'[i].for = IF writes[i].for = {n} THEN {} ELSE writes[i].for
  <2>1. writes \in Seq(FileWrites) /\ DOMAIN writes = 1 .. Len(writes) /\ Len(writes) \in Nat
    BY DEF IInv, Typed
  <2>2. writes' = [i \in 1 .. Len(writes) |->
                     IF writes[i].for = {n} THEN [writes[i] EXCEPT !.for = {}] ELSE writes[i]]
    BY <2>1 DEF GrowFails
  <2>3. \A i \in 1 .. Len(writes) :
           /\ writes'[i] \in FileWrites
           /\ writes'[i].image = writes[i].image /\ writes'[i].late = writes[i].late
           /\ writes'[i].for = IF writes[i].for = {n} THEN {} ELSE writes[i].for
    <3> TAKE i \in 1 .. Len(writes)
    <3>1. writes[i] \in FileWrites
      BY <2>1
    <3> QED
      BY <2>2, <3>1 DEF FileWrites
  <2> QED
    BY <2>1, <2>2, <2>3
<1>4. Typed'
  <2>1. WellKept({}, pages)
    BY WellKeptSubset DEF IInv, Typed
  <2> QED
    BY <1>1, <1>3, <2>1 DEF IInv, Typed, Phases
<1>5. InPhase'
  BY <1>1 DEF IInv, Typed, InPhase
<1>6. Separate'
  <2>1. Separate /\ SeparateOf(n)
    BY SeparateIs DEF IInv
  <2>2. /\ RecordsOf(new'[n]) = {} /\ RecordsOf(cur'[n]) = RecordsOf(cur[n])
        /\ RecordsOf(old'[n]) = RecordsOf(old[n])
        /\ pages' = pages /\ ranges' = ranges
    BY <1>1, <1>2
  <2>3. RecordsHeld(n)' \subseteq RecordsHeld(n)
    BY <2>2 DEF RecordsHeld
  <2>4. SeparateOf(n)'
    BY <2>1, <2>2, <2>3 DEF SeparateOf
  <2>5. RecordsOf(ranges') \subseteq RecordsHeld(n) \union Unheld
    BY <2>2 DEF Unheld
  <2>6. \A m \in Nodes : m # n => cur'[m] = cur[m] /\ new'[m] = new[m] /\ old'[m] = old[m]
    BY <1>1, <1>2
  <2> QED
    BY <2>1, <2>2, <2>3, <2>4, <2>5, <2>6, SeparateOthers
<1>7. Saved'
  <2>1. \A i \in Nat \ {0} : \A S : KeptIn(writes, i, S) => KeptIn(writes', i, S)
    <3>1. ASSUME NEW i \in Nat \ {0}, NEW S, KeptIn(writes, i, S), NEW j \in i .. Len(writes')
          PROVE  writes'[j].late \/ Keeps(writes'[j].image, S)
      <4>1. j \in i .. Len(writes) /\ j \in 1 .. Len(writes)
        BY <1>3, <3>1 DEF IInv, Typed
      <4> QED
        BY <1>3, <3>1, <4>1 DEF KeptIn
    <3> QED
      BY <3>1 DEF KeptIn
  <2>2. \A m \in Nodes : KeptUnless(behind', file', RecordsOf(cur'[m])) /\ KeptIn(writes', 1, RecordsOf(cur'[m]))
    BY <1>1, <2>1 DEF IInv, Saved
  <2>3. ASSUME NEW m \in Nodes, phase'[m] \in {"allocated", "storing"}
        PROVE  KeptUnless(behind', file', RecordsOf(new'[m])) /\ KeptIn(writes', 1, RecordsOf(new'[m]))
    <3>1. m # n
      BY <1>1, <2>3 DEF IInv, Typed
    <3> QED
      BY <1>1, <1>2, <2>1, <2>3, <3>1 DEF IInv, Saved
  <2>4. ASSUME NEW m \in Nodes, NEW i \in 1 .. Len(writes'), writes'[i].for = {m}
        PROVE  /\ phase'[m] \in Pending /\ KeptIn(writes', i, RecordsOf(new'[m]))
               /\ writes'[i].late => KeptUnless(behind', file', RecordsOf(new'[m]))
               /\ \A j \in 1 .. Len(writes') : writes'[j].for = {m} => j = i
    <3>1. i \in 1 .. Len(writes) /\ writes[i].for = {m} /\ {m} # {n}
      BY <1>3, <2>4
    <3>2. /\ phase[m] \in Pending /\ KeptIn(writes, i, RecordsOf(new[m]))
          /\ writes[i].late => KeptUnless(behind, file, RecordsOf(new[m]))
          /\ \A j \in 1 .. Len(writes) : writes[j].for = {m} => j = i
      BY <3>1 DEF IInv, Saved
    <3>3. m # n /\ i \in Nat \ {0}
      BY <3>1
    <3>4. \A j \in 1 .. Len(writes') : writes'[j].for = {m} => writes[j].for = {m}
      BY <1>3
    <3> QED
      BY <1>1, <1>2, <1>3, <2>1, <3>1, <3>2, <3>3, <3>4
  <2>5. InOrder'
    BY <1>3 DEF IInv, Saved, InOrder
  <2> QED
    BY <2>2, <2>3, <2>4, <2>5 DEF Saved
<1> QED
  BY <1>4, <1>5, <1>6, <1>7 DEF IInv

\* A write of the table ends, with or without success and in any order.
LEMMA TableWrittenStep ==
    ASSUME IInv, TableWritten
    PROVE  IInv'
<1>1. PICK i \in DOMAIN writes :
        /\ Lands(i) \/ LandsNot(i)
        /\ phase' = [n \in Nodes |-> IF writes[i].for = {n} THEN "allocated" ELSE phase[n]]
        /\ UNCHANGED <<length, cur, new, old>>
  BY DEF TableWritten
<1>2. /\ writes' = LeftAfter(i) /\ UNCHANGED <<ranges, pages>>
      /\ \/ file' = writes[i].image /\ behind' = writes[i].late
         \/ file' = file /\ behind' = (behind \/ ~writes[i].late)
  BY <1>1 DEF Lands, LandsNot
<1>3. /\ writes \in Seq(FileWrites) /\ Len(writes) \in Nat /\ i \in 1 .. Len(writes)
      /\ writes[i] \in FileWrites
  BY <1>1 DEF IInv, Typed
<1>4. /\ writes' \in Seq(FileWrites) /\ Len(writes') = Len(writes) - 1
      /\ \A j \in 1 .. Len(writes') :
           LET k == Before(i, j) IN
           /\ k \in 1 .. Len(writes) /\ k # i /\ (j < i <=> k < i)
           /\ writes'[j].image = writes[k].image /\ writes'[j].for = writes[k].for
           /\ writes'[j].late <=> writes[k].late \/ k < i
  BY <1>2, <1>3, WritesLeft
<1>5. Typed'
  BY <1>1, <1>2, <1>3, <1>4 DEF IInv, Typed, Phases, FileWrites
<1>6. \A n \in Nodes : writes[i].for = {n} => phase[n] \in Pending
  BY <1>3 DEF IInv, Saved
<1>7. InPhase'
  BY <1>1, <1>6 DEF IInv, InPhase, Pending
<1>8. Separate'
  <2>1. UNCHANGED <<ranges, pages, cur, new, old>>
    BY <1>1, <1>2
  <2> QED
    BY <2>1 DEF IInv, Separate, Held
<1>9. \A a, b \in 1 .. Len(writes') : a < b => Before(i, a) < Before(i, b)
  BY <1>3, <1>4 DEF Before
\* Records that are kept from the write at k on are kept by what is left of them.
<1>10. ASSUME NEW S, NEW k \in 1 .. Len(writes), KeptIn(writes, k, S), NEW b \in 1 .. Len(writes'),
              writes'[b].late \/ k <= Before(i, b)
       PROVE  writes'[b].late \/ Keeps(writes'[b].image, S)
  <2>1. CASE writes'[b].late
    BY <2>1
  <2>2. CASE ~writes'[b].late
    <3>1. Before(i, b) \in k .. Len(writes) /\ ~writes[Before(i, b)].late
      BY <1>3, <1>4, <1>10, <2>2
    <3> QED
      BY <1>4, <1>10, <3>1 DEF KeptIn
  <2> QED
    BY <2>1, <2>2
<1>11. ASSUME NEW S, KeptIn(writes, 1, S), KeptUnless(behind, file, S)
       PROVE  KeptUnless(behind', file', S) /\ KeptIn(writes', 1, S)
  <2>1. KeptUnless(behind', file', S)
    BY <1>2, <1>3, <1>11 DEF KeptIn, KeptUnless
  <2>2. ASSUME NEW b \in 1 .. Len(writes')
        PROVE  writes'[b].late \/ Keeps(writes'[b].image, S)
    <3>1. 1 \in 1 .. Len(writes) /\ 1 <= Before(i, b)
      BY <1>3, <1>4
    <3> QED
      BY <1>10, <1>11, <3>1
  <2> QED
    BY <2>1, <2>2 DEF KeptIn
<1>12. ASSUME NEW n \in Nodes, writes[i].for = {n}
       PROVE  KeptUnless(behind', file', RecordsOf(new[n])) /\ KeptIn(writes', 1, RecordsOf(new[n]))
  <2>1. /\ KeptIn(writes, i, RecordsOf(new[n]))
        /\ writes[i].late => KeptUnless(behind, file, RecordsOf(new[n]))
    BY <1>3, <1>12 DEF IInv, Saved
  <2>2. KeptUnless(behind', file', RecordsOf(new[n]))
    <3>1. CASE file' = writes[i].image /\ behind' = writes[i].late
      BY <1>3, <2>1, <3>1 DEF KeptIn, KeptUnless
    <3>2. CASE file' = file /\ behind' = (behind \/ ~writes[i].late)
      BY <2>1, <3>2 DEF KeptUnless
    <3> QED
      BY <1>2, <3>1, <3>2
  <2>3. ASSUME NEW b \in 1 .. Len(writes')
        PROVE  writes'[b].late \/ Keeps(writes'[b].image, RecordsOf(new[n]))
    <3>1. writes'[b].late \/ i <= Before(i, b)
      BY <1>3, <1>4
    <3> QED
      BY <1>3, <1>10, <2>1, <3>1
  <2> QED
    BY <2>2, <2>3 DEF KeptIn
<1>13. InOrder /\ InOrder'
  <2>1. InOrder
    BY DEF IInv, Saved
  <2>2. ASSUME NEW a \in 1 .. Len(writes'), NEW b \in 1 .. Len(writes'), a < b, writes'[b].late
        PROVE  writes'[a].late
    <3>1. Before(i, a) < Before(i, b)
      BY <1>9, <2>2
    <3>2. CASE writes[Before(i, b)].late
      BY <1>4, <2>1, <3>1, <3>2 DEF InOrder
    <3>3. CASE Before(i, b) < i
      BY <1>3, <1>4, <3>1, <3>3
    <3> QED
      BY <1>4, <2>2, <3>2, <3>3
  <2> QED
    BY <2>1, <2>2 DEF InOrder
<1>14. ASSUME NEW n \in Nodes, NEW b \in 1 .. Len(writes'), writes'[b].for = {n}
       PROVE  /\ phase'[n] \in Pending /\ KeptIn(writes', b, RecordsOf(new'[n]))
              /\ writes'[b].late => KeptUnless(behind', file', RecordsOf(new'[n]))
              /\ \A j \in 1 .. Len(writes') : writes'[j].for = {n} => j = b
  <2> DEFINE k == Before(i, b)
             S == RecordsOf(new[n])
  <2>1. /\ k \in 1 .. Len(writes) /\ k # i /\ writes[k].for = {n}
        /\ writes'[b].late <=> writes[k].late \/ k < i
    BY <1>4, <1>14
  <2>2. /\ phase[n] \in Pending /\ KeptIn(writes, k, S)
        /\ writes[k].late => KeptUnless(behind, file, S)
        /\ \A j \in 1 .. Len(writes) : writes[j].for = {n} => j = k
    BY <2>1 DEF IInv, Saved
  <2>3. writes[i].for # {n}
    BY <1>3, <2>1, <2>2
  <2>4. phase'[n] \in Pending /\ new'[n] = new[n]
    BY <1>1, <2>2, <2>3
  <2>5. ASSUME NEW j \in b .. Len(writes')
        PROVE  writes'[j].late \/ Keeps(writes'[j].image, S)
    <3>1. j \in 1 .. Len(writes') /\ (j = b \/ b < j)
      BY <1>3, <1>4
    <3>2. k <= Before(i, j)
      BY <1>4, <1>9, <3>1
    <3> HIDE DEF k, S
    <3> QED
      BY <1>10, <2>1, <2>2, <3>1, <3>2
  <2>6. ASSUME writes'[b].late
        PROVE  KeptUnless(behind', file', S)
    <3> HIDE DEF k, S
    <3>1. CASE writes[i].late
      <4>1. writes[k].late
        BY <1>3, <1>13, <2>1, <2>6, <3>1 DEF InOrder
      <4> QED
        BY <1>2, <2>2, <3>1, <4>1 DEF KeptUnless
    <3>2. CASE ~writes[i].late
      <4>1. k < i
        <5>1. CASE writes[k].late
          BY <1>3, <1>13, <2>1, <3>2, <5>1 DEF InOrder
        <5> QED
          BY <2>1, <2>6, <5>1
      <4>2. Keeps(writes[i].image, S)
        BY <1>3, <2>1, <2>2, <3>2, <4>1 DEF KeptIn
      <4> QED
        BY <1>2, <3>2, <4>2 DEF KeptUnless
    <3> QED
      BY <3>1, <3>2
  <2>7. ASSUME NEW j \in 1 .. Len(writes'), writes'[j].for = {n}
        PROVE  j = b
    <3>1. Before(i, j) = k
      BY <1>4, <2>2, <2>7
    <3> QED
      BY <1>3, <1>4, <3>1 DEF Before
  <2> QED
    BY <2>4, <2>5, <2>6, <2>7 DEF KeptIn
<1>15. Saved'
  <2>1. ASSUME NEW n \in Nodes
        PROVE  KeptUnless(behind', file', RecordsOf(cur'[n])) /\ KeptIn(writes', 1, RecordsOf(cur'[n]))
    BY <1>1, <1>11 DEF IInv, Saved
  <2>2. ASSUME NEW n \in Nodes, phase'[n] \in {"allocated", "storing"}
        PROVE  KeptUnless(behind', file', RecordsOf(new'[n])) /\ KeptIn(writes', 1, RecordsOf(new'[n]))
    <3>1. CASE writes[i].for = {n}
      BY <1>1, <1>12, <3>1
    <3>2. CASE writes[i].for # {n}
      <4>1. phase[n] \in {"allocated", "storing"} /\ new'[n] = new[n]
        BY <1>1, <2>2, <3>2
      <4> QED
        BY <1>11, <4>1 DEF IInv, Saved
    <3> QED
      BY <3>1, <3>2
  <2> QED
    BY <1>13, <1>14, <2>1, <2>2 DEF Saved
<1> QED
  BY <1>5, <1>7, <1>8, <1>15 DEF IInv

\* A start with a table that is sound.
LEMMA RestartStep ==
    ASSUME IInv, Restart, ~damaged'
    PROVE  IInv'
<1>1. /\ ranges' = file.ranges /\ pages' = file.pages /\ writes' = <<>> /\ behind' = FALSE
      /\ phase' = [n \in Nodes |-> "idle"] /\ length' = [n \in Nodes |-> 0]
      /\ new' = [n \in Nodes |-> {}] /\ old' = [n \in Nodes |-> {}] /\ UNCHANGED <<file, cur>>
  BY DEF Restart, Load
<1>2. Sound(file)
  BY DEF Restart
<1>3. pages' \in Nat /\ WellKept(ranges', pages')
  BY <1>1, <1>2 DEF IInv, Typed, FileTables, Sound
<1>4. Typed'
  <2>1. WellKept({}, pages')
    BY <1>3, WellKeptSubset
  <2>2. writes' \in Seq(FileWrites)
    BY <1>1
  <2> QED
    BY <1>1, <1>3, <2>1, <2>2 DEF IInv, Typed, Phases
<1>5. InPhase'
  BY <1>1 DEF InPhase
<1>6. \A n \in Nodes : Keeps(file, RecordsOf(cur[n]))
  BY <1>2 DEF Sound, Keeps, AllRecords
<1>7. Separate'
  <2>1. \A n \in Nodes : RecordsOf(new'[n]) = {} /\ RecordsOf(old'[n]) = {}
    BY <1>1, RecordsOfEmpty
  <2> QED
    <3>1. \A n \in Nodes : RecordsOf(cur'[n]) \subseteq AllRecords(pages') \ RecordsOf(ranges')
      BY <1>1, <1>6 DEF Keeps
    <3>2. ASSUME NEW n \in Nodes, NEW m \in Nodes, n # m
          PROVE  RecordsOf(cur'[n]) \intersect RecordsOf(cur'[m]) = {}
      <4>1. RecordsHeld(n) \intersect RecordsHeld(m) = {}
        BY <3>2, SeparateIs DEF IInv
      <4> QED
        BY <1>1, <4>1 DEF RecordsHeld
    <3> QED
      BY <2>1, <3>1, <3>2 DEF Separate, Held
<1>8. Saved'
  <2>1. Len(writes') = 0 /\ \A S : KeptIn(writes', 1, S)
    BY <1>1 DEF KeptIn
  <2>2. \A n \in Nodes : KeptUnless(behind', file', RecordsOf(cur'[n]))
    BY <1>1, <1>6 DEF KeptUnless
  <2>3. \A n \in Nodes : phase'[n] \notin {"allocated", "storing"}
    BY <1>1
  <2> QED
    BY <2>1, <2>2, <2>3 DEF Saved, InOrder
<1> QED
  BY <1>4, <1>5, <1>7, <1>8 DEF IInv

-----------------------------------------------------------------------------
LEMMA Initially == Init => IInv
<1> SUFFICES ASSUME Init PROVE IInv
  OBVIOUS
<1>1. /\ file \in Tables /\ ranges = file.ranges /\ pages = file.pages /\ writes = <<>> /\ behind = FALSE
      /\ phase = [n \in Nodes |-> "idle"] /\ length = [n \in Nodes |-> 0]
      /\ cur = [n \in Nodes |-> {}] /\ new = [n \in Nodes |-> {}] /\ old = [n \in Nodes |-> {}]
  BY DEF Init, FSTInit
<1>2. /\ file = [pages |-> file.pages, ranges |-> file.ranges]
      /\ pages \in Nat /\ WellKept(ranges, pages)
  BY <1>1, TableAssumption
<1>3. Typed
  <2>1. file \in FileTables
    BY <1>1, <1>2 DEF FileTables, WellKept
  <2>2. WellKept({}, pages)
    BY <1>2, WellKeptSubset
  <2>3. writes \in Seq(FileWrites)
    BY <1>1
  <2> QED
    BY <1>1, <1>2, <2>1, <2>2, <2>3 DEF Typed, Phases
<1>4. \A n \in Nodes : RecordsOf(cur[n]) = {} /\ RecordsOf(new[n]) = {} /\ RecordsOf(old[n]) = {}
  BY <1>1, RecordsOfEmpty
<1>5. Len(writes) = 0
  BY <1>1
<1>6. InPhase /\ Separate
  BY <1>1, <1>4 DEF InPhase, Separate, Held
<1>7. Saved
  BY <1>1, <1>4, <1>5 DEF Saved, InOrder, KeptUnless, Keeps, KeptIn
<1> QED
  BY <1>3, <1>6, <1>7 DEF IInv

LEMMA Inductive == Inv /\ [Next]_vars => Inv'
<1> SUFFICES ASSUME Inv, [Next]_vars PROVE Inv'
  OBVIOUS
<1>1. CASE UNCHANGED vars
  BY <1>1 DEF vars, Inv, IInv, Typed, InPhase, Separate, Held, Saved, InOrder
<1>2. CASE Next
  <2>1. IInv
    BY <1>2 DEF Next, Inv
  <2>2. ASSUME NEW n \in Nodes, Work(n)
        PROVE  IInv'
    BY <2>1, <2>2, AllocateStep, GrowFailsStep, TrimStep, StoreFailsStep, LinkStep, UnlinkStep,
       FreeStep DEF Work
  <2> QED
    BY <1>2, <2>1, <2>2, TableWrittenStep, RestartStep DEF Next, Inv
<1> QED
  BY <1>1, <1>2

LEMMA RecordsOfThree ==
    ASSUME NEW A, NEW B, NEW C
    PROVE  RecordsOf(A \union B \union C) = RecordsOf(A) \union RecordsOf(B) \union RecordsOf(C)
<1>1. RecordsOf((A \union B) \union C) = RecordsOf(A \union B) \union RecordsOf(C)
  BY RecordsOfUnion
<1>2. RecordsOf(A \union B) = RecordsOf(A) \union RecordsOf(B)
  BY RecordsOfUnion
<1> QED
  BY <1>1, <1>2

\* The inductive invariant, at every moment of every run.
THEOREM Invariance == Spec => []Inv
<1>1. Init => Inv
  BY Initially DEF Inv
<1> QED
  BY <1>1, Inductive, PTL DEF Spec

\* A record of the file has at most one use, as long as the program was never
\* started with a table that was not sound (FST.allocate, FST.release, _write).
THEOREM RecordsHaveOneOwner == Spec => []OneOwner
<1>1. Inv => OneOwner
  <2> SUFFICES ASSUME IInv PROVE OneOwner
    BY DEF Inv, OneOwner
  <2>1. pages \in Nat /\ WellKept(ranges, pages) /\ Records = AllRecords(pages)
    BY DEF IInv, Typed, Records, AllRecords
  <2>2. RecordsOf(ranges) \subseteq Records
    BY <2>1, RecordsInFile
  <2>3. \A r, q \in ranges : r # q => RecordsOf({r}) \intersect RecordsOf({q}) = {}
    <3>1. ASSUME NEW r \in ranges, NEW q \in ranges, r # q
          PROVE  RecordsOf({r}) \intersect RecordsOf({q}) = {}
      <4>1. r \in Ranges /\ q \in Ranges /\ Apart(r, q)
        <5>1. WellKept(ranges, pages)
          BY <2>1
        <5>2. \A a, b \in ranges : a \in Ranges /\ b \in Ranges /\ (a # b => Apart(a, b))
          BY <5>1, Zenon DEF WellKept
        <5> QED
          BY <3>1, <5>2, Zenon
      <4> QED
        BY <4>1, ApartRanges
    <3> QED
      BY <3>1
  <2>4. \A n \in Nodes : /\ RecordsOf(Owned(n)) = RecordsOf(cur[n]) \union RecordsOf(new[n]) \union RecordsOf(old[n])
                         /\ RecordsOf(cur[n] \union old[n]) = RecordsOf(cur[n]) \union RecordsOf(old[n])
    <3>1. ASSUME NEW n \in Nodes
          PROVE  /\ RecordsOf(Owned(n)) = RecordsOf(cur[n]) \union RecordsOf(new[n]) \union RecordsOf(old[n])
                 /\ RecordsOf(cur[n] \union old[n]) = RecordsOf(cur[n]) \union RecordsOf(old[n])
      <4>1. Owned(n) = cur[n] \union new[n] \union old[n]
        BY DEF Owned
      <4> QED
        BY <4>1, RecordsOfThree, RecordsOfUnion
    <3> QED
      BY <3>1
  <2> QED
    <3>1. /\ \A n \in Nodes : SeparateOf(n) /\ RecordsOf(Owned(n)) = RecordsHeld(n)
          /\ \A n, m \in Nodes : n # m => RecordsHeld(n) \intersect RecordsHeld(m) = {}
      BY <2>4, SeparateIs DEF IInv, RecordsHeld
    <3>2. ASSUME NEW n \in Nodes
          PROVE  /\ RecordsOf(Owned(n)) \subseteq Records \ RecordsOf(ranges)
                 /\ RecordsOf(new[n]) \intersect RecordsOf(cur[n] \union old[n]) = {}
                 /\ RecordsOf(cur[n]) \intersect RecordsOf(old[n]) = {}
      <4>1. SeparateOf(n) /\ RecordsOf(Owned(n)) = RecordsHeld(n)
        BY <3>1
      <4> QED
        BY <2>1, <2>4, <4>1 DEF SeparateOf
    <3> QED
      BY <2>2, <2>3, <3>1, <3>2 DEF OneOwner
<1> QED
  BY <1>1, Invariance, PTL

\* The program may stop at any time: unless the file is behind, the table in it
\* has no record free that a node on file uses (FST.load after FST.write).
THEOREM CrashesAreSafe == Spec => []CrashSafe
<1>1. Inv => CrashSafe
  BY DEF Inv, IInv, Saved, KeptUnless, Keeps, AllRecords, CrashSafe
<1> QED
  BY <1>1, Invariance, PTL

\* Free space is never split without need (the merging in FST.release).
THEOREM FreeSpaceIsMerged == Spec => []Merged
<1>1. Inv => Merged
  <2> SUFFICES ASSUME IInv, NEW r \in ranges
               PROVE  r.start < r.end /\ \A q \in ranges : r.page = q.page => r.end # q.start
    BY DEF Inv, Merged
  <2>1. \A q \in ranges : q \in Ranges /\ q.start < q.end /\ (r # q => Apart(r, q))
    BY DEF IInv, Typed, WellKept
  <2> QED
    BY <2>1 DEF Apart, Ranges
<1> QED
  BY <1>1, Invariance, PTL

-----------------------------------------------------------------------------
\* Records that are lost.

LEMMA InLost ==
    ASSUME NEW x
    PROVE  x \in Lost <=>
             /\ x \in AllRecords(pages) /\ x \notin RecordsOf(ranges)
             /\ \A n \in Nodes : x \notin RecordsOf(cur[n]) /\ x \notin RecordsOf(new[n]) /\ x \notin RecordsOf(old[n])
<1>1. ASSUME NEW n \in Nodes
      PROVE  RecordsOf(Owned(n)) = RecordsOf(cur[n]) \union RecordsOf(new[n]) \union RecordsOf(old[n])
  <2>1. Owned(n) = cur[n] \union new[n] \union old[n]
    BY DEF Owned
  <2> QED
    BY <2>1, RecordsOfThree
<1> QED
  BY <1>1 DEF Lost, Records, AllRecords

LEMMA InLostNext ==
    ASSUME NEW x
    PROVE  x \in Lost' <=>
             /\ x \in AllRecords(pages') /\ x \notin RecordsOf(ranges')
             /\ \A n \in Nodes : x \notin RecordsOf(cur'[n]) /\ x \notin RecordsOf(new'[n]) /\ x \notin RecordsOf(old'[n])
<1>1. ASSUME NEW n \in Nodes
      PROVE  RecordsOf(Owned(n)') = RecordsOf(cur'[n]) \union RecordsOf(new'[n]) \union RecordsOf(old'[n])
  <2>1. Owned(n)' = cur'[n] \union new'[n] \union old'[n]
    BY DEF Owned
  <2> QED
    BY <2>1, RecordsOfThree
<1> QED
  BY <1>1 DEF Lost, Records, AllRecords, RecordsOf

LEMMA AllocateLosesNothing ==
    ASSUME IInv, NEW n \in Nodes, Allocate(n)
    PROVE  Lost' \subseteq Lost \/ Cardinality(ranges') = MaxRanges
<1>0. PICK bytes \in Lengths : \E o \in Allocations(RecordsAsked(bytes)) :
         Write(o.ranges, pages + o.added, {n}) /\ new' = [new EXCEPT ![n] = o.alloc]
  BY DEF Allocate
<1>1. PICK o \in Allocations(RecordsAsked(bytes)) :
         Write(o.ranges, pages + o.added, {n}) /\ new' = [new EXCEPT ![n] = o.alloc]
  BY <1>0
<1>2. /\ pages \in Nat
      /\ o.added \in Nat /\ GoodAllocation(o.alloc, o.ranges, ranges, pages, pages + o.added)
  <2>1. pages \in Nat /\ WellKept(ranges, pages) /\ bytes \in Nat
    BY RecordAssumption DEF IInv, Typed
  <2>2. RecordsAsked(bytes) \in Nat /\ RecordsAsked(bytes) > 0
    BY <2>1, AskedForSome
  <2> QED
    BY <2>1, <2>2, AllocationsAreGood
<1>3. pages' = pages + o.added /\ (ranges' = o.ranges \/ Cardinality(ranges') = MaxRanges)
  <2>1. pages + o.added \in Nat /\ WellKept(o.ranges, pages + o.added)
    BY <1>2 DEF GoodAllocation
  <2> QED
    BY <1>1, <2>1, WriteStep
<1>4. ASSUME ranges' = o.ranges, NEW x \in Lost'
      PROVE  x \in Lost
  <2>1. /\ x \in AllRecords(pages') /\ x \notin RecordsOf(o.ranges)
        /\ \A m \in Nodes : x \notin RecordsOf(cur'[m]) /\ x \notin RecordsOf(new'[m]) /\ x \notin RecordsOf(old'[m])
    BY <1>4, InLostNext
  <2>2. new'[n] = o.alloc /\ new[n] = {} /\ UNCHANGED <<cur, old>>
        /\ \A m \in Nodes : m # n => new'[m] = new[m]
    BY <1>1 DEF Allocate, IInv, Typed, InPhase
  <2>3. x \notin RecordsOf(ranges) /\ x \in AllRecords(pages)
    <3>1. x \notin RecordsOf(o.alloc) \union RecordsOf(o.ranges)
      BY <2>1, <2>2
    <3> QED
      BY <1>2, <1>3, <2>1, <3>1 DEF GoodAllocation
  <2>4. \A m \in Nodes : x \notin RecordsOf(cur[m]) /\ x \notin RecordsOf(new[m]) /\ x \notin RecordsOf(old[m])
    BY <2>1, <2>2, RecordsOfEmpty
  <2> QED
    BY <2>3, <2>4, InLost
<1> QED
  BY <1>3, <1>4

\* A release that drops nothing makes its records free.
LEMMA ReleaseLosesNothing ==
    ASSUME IInv, NEW S \in SUBSET AllRecords(pages), Released(S, {}),
           \A n \in Nodes : /\ RecordsOf(cur[n]) = RecordsOf(cur'[n])
                            /\ RecordsOf(new[n]) \subseteq RecordsOf(new'[n]) \union S
                            /\ RecordsOf(old[n]) \subseteq RecordsOf(old'[n]) \union S
    PROVE  Lost' \subseteq Lost \/ Cardinality(ranges') = MaxRanges
<1>1. /\ pages' = pages
      /\ RecordsOf(ranges') = RecordsOf(ranges) \union S \/ Cardinality(ranges') = MaxRanges
  BY ReleaseStep DEF IInv, Typed
<1>2. ASSUME RecordsOf(ranges') = RecordsOf(ranges) \union S, NEW x \in Lost'
      PROVE  x \in Lost
  <2>1. /\ x \in AllRecords(pages) /\ x \notin RecordsOf(ranges) \union S
        /\ \A n \in Nodes : x \notin RecordsOf(cur'[n]) /\ x \notin RecordsOf(new'[n]) /\ x \notin RecordsOf(old'[n])
    BY <1>1, <1>2, InLostNext
  <2> QED
    BY <2>1, InLost
<1> QED
  BY <1>1, <1>2

\* Neither does a step that leaves the table alone and moves records within a node.
LEMMA MoveLosesNothing ==
    ASSUME UNCHANGED <<ranges, pages>>,
           \A n \in Nodes : RecordsOf(cur[n]) \union RecordsOf(new[n]) \union RecordsOf(old[n])
                              = RecordsOf(cur'[n]) \union RecordsOf(new'[n]) \union RecordsOf(old'[n])
    PROVE  Lost' \subseteq Lost
<1> SUFFICES ASSUME NEW x \in Lost' PROVE x \in Lost
  OBVIOUS
<1>1. /\ x \in AllRecords(pages) /\ x \notin RecordsOf(ranges)
      /\ \A n \in Nodes : x \notin RecordsOf(cur'[n]) \union RecordsOf(new'[n]) \union RecordsOf(old'[n])
  BY InLostNext
<1> QED
  BY <1>1, InLost

LEMMA NothingLost ==
    ASSUME Inv, [Next]_vars
    PROVE  \/ Lost' \subseteq Lost
           \/ Cardinality(ranges') = MaxRanges
           \/ Restart
           \/ \E n \in Nodes : StoreFails(n) \/ GrowFails(n)
<1>0. CASE UNCHANGED vars
  BY <1>0, MoveLosesNothing DEF vars
<1> SUFFICES ASSUME IInv, Next
             PROVE  \/ Lost' \subseteq Lost
                    \/ Cardinality(ranges') = MaxRanges
                    \/ Restart
                    \/ \E n \in Nodes : StoreFails(n) \/ GrowFails(n)
  BY <1>0 DEF Inv, Next
<1>1. ASSUME NEW n \in Nodes, Trim(n)
      PROVE  Lost' \subseteq Lost \/ Cardinality(ranges') = MaxRanges
  <2> DEFINE need == RecordsNeeded(length[n], Chunks(new[n]))
  <2>1. CASE UNCHANGED <<ranges, pages, writes, new>>
    BY <1>1, <2>1, MoveLosesNothing DEF Trim
  <2>2. CASE \E K \in Kept(new[n], need) : /\ Released(RecordsOf(new[n]) \ RecordsOf(K), {})
                                         /\ new' = [new EXCEPT ![n] = K]
    <3>1. PICK K \in Kept(new[n], need) : /\ Released(RecordsOf(new[n]) \ RecordsOf(K), {})
                                          /\ new' = [new EXCEPT ![n] = K]
      BY <2>2
    <3>2. UNCHANGED <<cur, old>> /\ new'[n] = K /\ \A m \in Nodes : m # n => new'[m] = new[m]
      BY <1>1, <3>1 DEF Trim, IInv, Typed
    <3>3. RecordsOf(new[n]) \ RecordsOf(K) \in SUBSET AllRecords(pages)
      BY DEF IInv, Separate, Held
    <3>4. \A m \in Nodes : RecordsOf(new[m]) \subseteq RecordsOf(new'[m]) \union (RecordsOf(new[n]) \ RecordsOf(K))
      BY <3>2
    <3> QED
      BY <3>1, <3>2, <3>3, <3>4, ReleaseLosesNothing
  <2> QED
    BY <1>1, <2>1, <2>2 DEF Trim
<1>2. ASSUME NEW n \in Nodes, Link(n)
      PROVE  Lost' \subseteq Lost
  <2>1. /\ cur'[n] = new[n] /\ new'[n] = {} /\ old'[n] = cur[n] /\ old[n] = {}
        /\ \A m \in Nodes : m # n => cur'[m] = cur[m] /\ new'[m] = new[m] /\ old'[m] = old[m]
        /\ UNCHANGED <<ranges, pages>>
    BY <1>2 DEF Link, fstVars, IInv, Typed, InPhase
  <2> QED
    BY <2>1, RecordsOfEmpty, MoveLosesNothing
<1>3. ASSUME NEW n \in Nodes, Unlink(n)
      PROVE  Lost' \subseteq Lost
  <2>1. /\ cur'[n] = {} /\ old'[n] = cur[n] /\ old[n] = {}
        /\ \A m \in Nodes : m # n => cur'[m] = cur[m] /\ old'[m] = old[m]
        /\ UNCHANGED <<ranges, pages, new>>
    BY <1>3 DEF Unlink, fstVars, IInv, Typed, InPhase
  <2> QED
    BY <2>1, RecordsOfEmpty, MoveLosesNothing
<1>4. ASSUME NEW n \in Nodes, Free(n)
      PROVE  Lost' \subseteq Lost \/ Cardinality(ranges') = MaxRanges
  <2>1. /\ old'[n] = {} /\ UNCHANGED <<cur, new>>
        /\ \A m \in Nodes : m # n => old'[m] = old[m]
    BY <1>4 DEF Free, IInv, Typed
  <2>2. CASE old[n] = {} /\ UNCHANGED <<ranges, pages, writes>>
    BY <2>1, <2>2, MoveLosesNothing
  <2>3. CASE Released(RecordsOf(old[n]), {})
    <3>1. RecordsOf(old[n]) \in SUBSET AllRecords(pages)
      BY DEF IInv, Separate, Held
    <3> QED
      BY <2>1, <2>3, <3>1, ReleaseLosesNothing
  <2> QED
    BY <1>4, <2>2, <2>3 DEF Free
<1>5. ASSUME TableWritten
      PROVE  Lost' \subseteq Lost
  BY <1>5, MoveLosesNothing DEF TableWritten, Lands, LandsNot
<1> QED
  BY <1>1, <1>2, <1>3, <1>4, <1>5, AllocateLosesNothing DEF Next, Work

\* Records that are neither free nor in use are never found again: that only
\* happens when a table is full, when a value cannot be written or the file not be
\* made longer, and when the program stops (FST.write, _write).
THEOREM RecordsAreRarelyLost == Spec => LostOnlyWhenFull
BY Invariance, NothingLost, PTL DEF Spec, LostOnlyWhenFull
===============================================================================
