---------------------------- MODULE Trees_proofs ----------------------------
(***************************************************************************)
(* Lemmas about paths, prefixes and trees, for the proofs about the        *)
(* modules that have trees as their data.                                  *)
(***************************************************************************)
EXTENDS Trees, SequenceTheorems, FiniteSetTheorems, WellFoundedInduction, TLAPS

----------------------------------------------------------------------------
\* Paths, key by key.

LEMMA PathLength ==
    ASSUME NEW p \in Path
    PROVE  Len(p) \in Nat /\ (p = <<>> <=> Len(p) = 0)
BY EmptySeq, LenProperties DEF Path

LEMMA OneKeyLong ==
    ASSUME NEW p \in Path, Len(p) = 1
    PROVE  p # <<>>
<1>1. Len(p) # 0
  OBVIOUS
<1> QED
  BY <1>1, PathLength, Zenon

LEMMA EmptyPath == <<>> \in Path /\ Len(<<>>) = 0
BY DEF Path

LEMMA EmptyConcat ==
    ASSUME NEW p \in Path
    PROVE  p \o <<>> = p /\ <<>> \o p = p
BY ConcatEmptySeq DEF Path

LEMMA OneOfSet ==
    ASSUME NEW S, NEW k \in S
    PROVE  <<k>> \in Seq(S)
OBVIOUS

LEMMA KeyPath ==
    ASSUME NEW k \in STRING
    PROVE  <<k>> \in Path /\ Len(<<k>>) = 1 /\ <<k>>[1] = k /\ <<k>> # <<>>
<1>1. <<k>> \in Path
  BY OneOfSet, Zenon DEF Path
<1> QED
  BY <1>1

LEMMA KeyOf ==
    ASSUME NEW p \in Path, NEW i \in 1..Len(p)
    PROVE  p[i] \in STRING
BY ElementOfSeq DEF Path

LEMMA PathEqual ==
    ASSUME NEW p \in Path, NEW q \in Path, Len(p) = Len(q), \A i \in 1..Len(p) : p[i] = q[i]
    PROVE  p = q
BY SeqEqual DEF Path

LEMMA ConcatKeys ==
    ASSUME NEW p \in Path, NEW q \in Path
    PROVE  /\ p \o q \in Path /\ Len(p \o q) = Len(p) + Len(q)
           /\ \A i \in 1..Len(p) : (p \o q)[i] = p[i]
           /\ \A i \in 1..Len(q) : (p \o q)[Len(p) + i] = q[i]
<1>1. /\ p \o q \in Path /\ Len(p \o q) = Len(p) + Len(q)
      /\ \A i \in 1 .. Len(p) + Len(q) : (p \o q)[i] = IF i <= Len(p) THEN p[i] ELSE q[i - Len(p)]
  BY ConcatProperties DEF Path
<1>2. Len(p) \in Nat /\ Len(q) \in Nat
  BY PathLength
<1> QED
  BY <1>1, <1>2

LEMMA SubPathKeys ==
    ASSUME NEW p \in Path, NEW m \in Nat, NEW n \in Nat, m <= n, n <= Len(p)
    PROVE  /\ SubSeq(p, m + 1, n) \in Path /\ Len(SubSeq(p, m + 1, n)) = n - m
           /\ \A i \in 1 .. n - m : SubSeq(p, m + 1, n)[i] = p[m + i]
<1>1. Len(p) \in Nat
  BY PathLength
<1>2. \A i \in m + 1 .. n : p[i] \in STRING
  <2>1. \A i \in m + 1 .. n : i \in 1..Len(p)
    BY <1>1
  <2> QED
    BY <2>1, KeyOf
<1>3. /\ SubSeq(p, m + 1, n) \in Seq(STRING)
      /\ Len(SubSeq(p, m + 1, n)) = IF m + 1 <= n THEN n - (m + 1) + 1 ELSE 0
      /\ \A i \in 1 .. n - (m + 1) + 1 : SubSeq(p, m + 1, n)[i] = p[(m + 1) + i - 1]
  BY <1>2, SubSeqProperties
<1> QED
  BY <1>3 DEF Path

LEMMA FirstKeys ==
    ASSUME NEW p \in Path, NEW n \in Nat, n <= Len(p)
    PROVE  /\ SubSeq(p, 1, n) \in Path /\ Len(SubSeq(p, 1, n)) = n
           /\ \A i \in 1..n : SubSeq(p, 1, n)[i] = p[i]
<1>1. 0 + 1 = 1 /\ 0 \in Nat /\ 0 <= n /\ n - 0 = n
  OBVIOUS
<1>2. /\ SubSeq(p, 0 + 1, n) \in Path /\ Len(SubSeq(p, 0 + 1, n)) = n - 0
      /\ \A i \in 1 .. n - 0 : SubSeq(p, 0 + 1, n)[i] = p[0 + i]
  BY <1>1, SubPathKeys
<1>3. \A i \in 1..n : 0 + i = i
  OBVIOUS
<1> QED
  BY <1>1, <1>2, <1>3

LEMMA PrefixKeys ==
    ASSUME NEW p \in Path, NEW q \in Path
    PROVE  IsPrefix(p, q) <=> Len(p) <= Len(q) /\ \A i \in 1..Len(p) : p[i] = q[i]
<1>1. Len(p) \in Nat /\ Len(q) \in Nat
  BY PathLength
<1>2. CASE Len(p) <= Len(q)
  <2> DEFINE a == SubSeq(p, 1, Len(p))
             b == SubSeq(q, 1, Len(p))
  <2>1. a \in Path /\ Len(a) = Len(p) /\ \A i \in 1..Len(p) : a[i] = p[i]
    BY <1>1, FirstKeys
  <2>2. b \in Path /\ Len(b) = Len(p) /\ \A i \in 1..Len(p) : b[i] = q[i]
    BY <1>1, <1>2, FirstKeys
  <2>3. IsPrefix(p, q) <=> a = b
    BY <1>2 DEF IsPrefix
  <2> HIDE DEF a, b
  <2>4. a = b <=> \A i \in 1..Len(p) : p[i] = q[i]
    BY <2>1, <2>2, PathEqual
  <2> QED
    BY <1>2, <2>3, <2>4
<1>3. CASE ~ (Len(p) <= Len(q))
  BY <1>3 DEF IsPrefix
<1> QED
  BY <1>2, <1>3

----------------------------------------------------------------------------
\* Paths, without their keys.

LEMMA Concat ==
    ASSUME NEW p \in Path, NEW q \in Path
    PROVE  p \o q \in Path /\ Len(p \o q) = Len(p) + Len(q)
BY ConcatKeys

LEMMA Associative ==
    ASSUME NEW p \in Path, NEW q \in Path, NEW r \in Path
    PROVE  (p \o q) \o r = p \o (q \o r)
<1>1. p \in Seq(STRING) /\ q \in Seq(STRING) /\ r \in Seq(STRING)
  BY DEF Path
<1>2. \A S : \A s, t, u \in Seq(S) : (s \o t) \o u = s \o (t \o u)
  BY ConcatAssociative, Zenon
<1>3. \A s, t, u \in Seq(STRING) : (s \o t) \o u = s \o (t \o u)
  BY <1>2, SMTT(30)
<1> QED
  BY <1>1, <1>3, Zenon

\* The same for three paths named: a fact to cite without the law.
Regroups(p, q, r) == (p \o q) \o r = p \o (q \o r)

LEMMA Regroup ==
    ASSUME NEW p \in Path, NEW q \in Path, NEW r \in Path
    PROVE  Regroups(p, q, r)
BY Associative DEF Regroups

LEMMA Extends ==
    ASSUME NEW p \in Path, NEW q \in Path
    PROVE  IsPrefix(p, p \o q)
<1>1. p \o q \in Path /\ Len(p \o q) = Len(p) + Len(q) /\ \A i \in 1..Len(p) : (p \o q)[i] = p[i]
  BY ConcatKeys
<1>2. Len(p) \in Nat /\ Len(q) \in Nat
  BY PathLength
<1>3. Len(p) <= Len(p \o q)
  BY <1>1, <1>2
<1> QED
  BY <1>1, <1>3, PrefixKeys

LEMMA RestOfConcat ==
    ASSUME NEW p \in Path, NEW q \in Path
    PROVE  Rest(p \o q, Len(p)) = q
<1> DEFINE c == p \o q
           r == SubSeq(c, Len(p) + 1, Len(c))
<1>1. c \in Path /\ Len(c) = Len(p) + Len(q) /\ \A i \in 1..Len(q) : c[Len(p) + i] = q[i]
  BY ConcatKeys
<1>2. Len(p) \in Nat /\ Len(q) \in Nat
  BY PathLength
<1> HIDE DEF c
<1>3. /\ Len(c) \in Nat /\ Len(p) <= Len(c)
      /\ Len(c) - Len(p) = Len(q)
  BY <1>1, <1>2
<1>4. r \in Path /\ Len(r) = Len(q) /\ \A i \in 1..Len(q) : r[i] = c[Len(p) + i]
  BY <1>1, <1>2, <1>3, SubPathKeys
<1>5. Rest(c, Len(p)) = r
  BY DEF Rest
<1> HIDE DEF r
<1>6. r = q
  BY <1>1, <1>4, PathEqual
<1> QED
  BY <1>5, <1>6 DEF c

LEMMA Cancel ==
    ASSUME NEW p \in Path, NEW q \in Path, NEW r \in Path, p \o q = p \o r
    PROVE  q = r
<1>1. Rest(p \o q, Len(p)) = q
  BY RestOfConcat
<1>2. Rest(p \o r, Len(p)) = r
  BY RestOfConcat
<1> QED
  BY <1>1, <1>2, Zenon

LEMMA PrefixSplits ==
    ASSUME NEW p \in Path, NEW q \in Path, IsPrefix(p, q)
    PROVE  /\ Rest(q, Len(p)) \in Path
           /\ p \o Rest(q, Len(p)) = q
<1>1. Len(p) \in Nat /\ Len(q) \in Nat /\ Len(p) <= Len(q) /\ \A i \in 1..Len(p) : p[i] = q[i]
  BY PathLength, PrefixKeys
<1> DEFINE r == Rest(q, Len(p))
           c == p \o r
<1>2. r = SubSeq(q, Len(p) + 1, Len(q))
  BY DEF Rest
<1>3. r \in Path /\ Len(r) = Len(q) - Len(p) /\ \A i \in 1 .. Len(q) - Len(p) : r[i] = q[Len(p) + i]
  BY <1>1, <1>2, SubPathKeys
<1> HIDE DEF r
<1>4. /\ c \in Path /\ Len(c) = Len(p) + Len(r)
      /\ \A i \in 1..Len(p) : c[i] = p[i]
      /\ \A i \in 1..Len(r) : c[Len(p) + i] = r[i]
  BY <1>3, ConcatKeys
<1> HIDE DEF c
<1>5. Len(c) = Len(q)
  BY <1>1, <1>3, <1>4
<1>6. ASSUME NEW i \in 1..Len(q)
      PROVE  c[i] = q[i]
  <2>1. CASE i <= Len(p)
    BY <1>1, <1>4, <2>1
  <2>2. CASE ~ (i <= Len(p))
    <3>1. i - Len(p) \in 1 .. Len(q) - Len(p) /\ i = Len(p) + (i - Len(p))
      BY <1>1, <2>2
    <3>2. c[Len(p) + (i - Len(p))] = r[i - Len(p)]
      BY <1>3, <1>4, <3>1
    <3>3. r[i - Len(p)] = q[Len(p) + (i - Len(p))]
      BY <1>3, <3>1
    <3> QED
      BY <3>1, <3>2, <3>3
  <2> QED
    BY <2>1, <2>2
<1>7. c = q
  BY <1>4, <1>5, <1>6, PathEqual
<1> QED
  BY <1>3, <1>7 DEF r, c

LEMMA PrefixReflexive ==
    ASSUME NEW p \in Path
    PROVE  IsPrefix(p, p) /\ IsPrefix(<<>>, p)
<1>1. p \o <<>> = p /\ <<>> \o p = p
  BY EmptyConcat
<1> QED
  BY <1>1, EmptyPath, Extends

LEMMA PrefixTransitive ==
    ASSUME NEW p \in Path, NEW q \in Path, NEW r \in Path, IsPrefix(p, q), IsPrefix(q, r)
    PROVE  IsPrefix(p, r)
<1>1. Len(p) \in Nat /\ Len(q) \in Nat /\ Len(r) \in Nat
  BY PathLength
<1> QED
  BY <1>1, PrefixKeys

LEMMA PrefixLength ==
    ASSUME NEW p \in Path, NEW q \in Path, IsPrefix(p, q)
    PROVE  Len(p) <= Len(q) /\ (p = q <=> Len(p) = Len(q))
BY PrefixKeys, PathEqual

LEMMA PrefixAntisymmetric ==
    ASSUME NEW p \in Path, NEW q \in Path, IsPrefix(p, q), IsPrefix(q, p)
    PROVE  p = q
<1>1. Len(p) \in Nat /\ Len(q) \in Nat
  BY PathLength
<1> QED
  BY <1>1, PrefixLength

LEMMA PrefixesOrdered ==
    ASSUME NEW p \in Path, NEW q \in Path, NEW r \in Path, IsPrefix(p, r), IsPrefix(q, r), Len(p) <= Len(q)
    PROVE  IsPrefix(p, q)
<1>1. Len(p) \in Nat /\ Len(q) \in Nat /\ Len(r) \in Nat
  BY PathLength
<1> QED
  BY <1>1, PrefixKeys

LEMMA PrefixesCompare ==
    ASSUME NEW p \in Path, NEW q \in Path, NEW r \in Path, IsPrefix(p, r), IsPrefix(q, r)
    PROVE  IsPrefix(p, q) \/ IsPrefix(q, p)
<1>1. Len(p) \in Nat /\ Len(q) \in Nat
  BY PathLength
<1>2. Len(p) <= Len(q) \/ Len(q) <= Len(p)
  BY <1>1
<1> QED
  BY <1>2, PrefixesOrdered

\* The first n keys of a path, and its prefixes.
LEMMA FirstIsPrefix ==
    ASSUME NEW p \in Path, NEW n \in Nat, n <= Len(p)
    PROVE  SubSeq(p, 1, n) \in Path /\ Len(SubSeq(p, 1, n)) = n /\ IsPrefix(SubSeq(p, 1, n), p)
<1>1. /\ SubSeq(p, 1, n) \in Path /\ Len(SubSeq(p, 1, n)) = n
      /\ \A i \in 1..n : SubSeq(p, 1, n)[i] = p[i]
  BY FirstKeys
<1> QED
  BY <1>1, PrefixKeys

LEMMA PrefixIsFirst ==
    ASSUME NEW p \in Path, NEW q \in Path, IsPrefix(q, p)
    PROVE  Len(q) \in Nat /\ Len(q) <= Len(p) /\ q = SubSeq(p, 1, Len(q))
<1>1. Len(q) \in Nat /\ Len(q) <= Len(p)
  BY PathLength, PrefixLength
<1> DEFINE f == SubSeq(p, 1, Len(q))
<1>2. f \in Path /\ Len(f) = Len(q) /\ IsPrefix(f, p)
  BY <1>1, FirstIsPrefix
<1> HIDE DEF f
<1>3. IsPrefix(f, q)
  <2>1. Len(f) <= Len(q)
    BY <1>1, <1>2
  <2> QED
    BY <1>2, <2>1, PrefixesOrdered
<1>4. f = q
  BY <1>2, <1>3, PrefixLength
<1> QED
  BY <1>1, <1>4 DEF f

\* Prefixes of what is below a path.
LEMMA PrefixBelow ==
    ASSUME NEW p \in Path, NEW q \in Path, NEW r \in Path
    PROVE  IsPrefix(p \o q, p \o r) <=> IsPrefix(q, r)
<1>1. p \o q \in Path /\ p \o r \in Path
  BY Concat
<1>2. ASSUME IsPrefix(q, r)
      PROVE  IsPrefix(p \o q, p \o r)
  <2> DEFINE d == Rest(r, Len(q))
  <2>1. d \in Path /\ q \o d = r
    BY <1>2, PrefixSplits
  <2> HIDE DEF d
  <2>2. p \o (q \o d) = (p \o q) \o d
    <3>1. Regroups(p, q, d)
      BY <2>1, Regroup
    <3> QED
      BY <3>1 DEF Regroups
  <2>3. IsPrefix(p \o q, (p \o q) \o d)
    BY <1>1, <2>1, Extends
  <2> QED
    BY <2>1, <2>2, <2>3
<1>3. ASSUME IsPrefix(p \o q, p \o r)
      PROVE  IsPrefix(q, r)
  <2> DEFINE d == Rest(p \o r, Len(p \o q))
  <2>1. d \in Path /\ (p \o q) \o d = p \o r
    BY <1>1, <1>3, PrefixSplits
  <2> HIDE DEF d
  <2>2. (p \o q) \o d = p \o (q \o d)
    BY <2>1, Associative
  <2>3. q \o d \in Path
    BY <2>1, Concat
  <2>4. q \o d = r
    BY <2>1, <2>2, <2>3, Cancel
  <2>5. IsPrefix(q, q \o d)
    BY <2>1, Extends
  <2> QED
    BY <2>4, <2>5
<1> QED
  BY <1>2, <1>3

\* A path and its last key.
LEMMA FrontAndLast ==
    ASSUME NEW p \in Path, p # <<>>
    PROVE  /\ Front(p) \in Path /\ <<Last(p)>> \in Path /\ Len(<<Last(p)>>) = 1
           /\ Front(p) \o <<Last(p)>> = p /\ IsPrefix(Front(p), p)
           /\ Len(Front(p)) + 1 = Len(p)
<1>1. Len(p) \in Nat /\ Len(p) > 0
  BY PathLength
<1>2. Len(p) - 1 \in Nat /\ Len(p) - 1 <= Len(p) /\ Len(p) \in 1..Len(p)
  BY <1>1
<1>3. /\ Front(p) \in Path /\ Len(Front(p)) = Len(p) - 1
      /\ \A i \in 1 .. Len(p) - 1 : Front(p)[i] = p[i]
  BY <1>2, FirstKeys DEF Front
<1>4. IsPrefix(Front(p), p)
  BY <1>2, FirstIsPrefix DEF Front
<1>5. Last(p) = p[Len(p)] /\ Last(p) \in STRING
  BY <1>2, KeyOf DEF Last
<1> DEFINE l == <<Last(p)>>
<1>6. l \in Path /\ Len(l) = 1 /\ l[1] = Last(p)
  BY <1>5, KeyPath
<1> HIDE DEF l
<1> DEFINE c == Front(p) \o l
<1>7. /\ c \in Path /\ Len(c) = Len(Front(p)) + Len(l)
      /\ \A i \in 1..Len(Front(p)) : c[i] = Front(p)[i]
      /\ \A i \in 1..Len(l) : c[Len(Front(p)) + i] = l[i]
  BY <1>3, <1>6, ConcatKeys
<1> HIDE DEF c
<1>8. Len(c) = Len(p)
  BY <1>1, <1>3, <1>6, <1>7
<1>9. ASSUME NEW i \in 1..Len(p) PROVE c[i] = p[i]
  <2>1. CASE i = Len(p)
    <3>1. 1 \in 1..Len(l) /\ Len(Front(p)) + 1 = Len(p)
      BY <1>1, <1>3, <1>6
    <3> QED
      BY <1>5, <1>6, <1>7, <2>1, <3>1
  <2>2. CASE i # Len(p)
    <3>1. i \in 1 .. Len(p) - 1
      BY <1>1, <2>2
    <3> QED
      BY <1>3, <1>7, <3>1
  <2> QED
    BY <2>1, <2>2
<1>10. c = p
  BY <1>7, <1>8, <1>9, PathEqual
<1>11. Len(Front(p)) + 1 = Len(p)
  BY <1>1, <1>3
<1> QED
  BY <1>3, <1>4, <1>6, <1>10, <1>11 DEF c, l

LEMMA PrefixOfFront ==
    ASSUME NEW p \in Path, p # <<>>, NEW q \in Path
    PROVE  IsPrefix(q, p) <=> q = p \/ IsPrefix(q, Front(p))
<1>1. Front(p) \in Path /\ IsPrefix(Front(p), p) /\ Len(Front(p)) + 1 = Len(p)
  BY FrontAndLast
<1>2. Len(p) \in Nat /\ Len(q) \in Nat /\ Len(Front(p)) \in Nat
  BY <1>1, PathLength
<1>3. ASSUME IsPrefix(q, p), q # p
      PROVE  IsPrefix(q, Front(p))
  <2>1. Len(q) <= Len(p) /\ Len(q) # Len(p)
    BY <1>3, PrefixLength
  <2>2. Len(q) <= Len(Front(p))
    BY <1>1, <1>2, <2>1
  <2> QED
    BY <1>1, <1>3, <2>2, PrefixesOrdered
<1>4. q = p => IsPrefix(q, p)
  BY PrefixReflexive
<1>5. IsPrefix(q, Front(p)) => IsPrefix(q, p)
  BY <1>1, PrefixTransitive
<1> QED
  BY <1>3, <1>4, <1>5

LEMMA FrontNotSame ==
    ASSUME NEW p \in Path, p # <<>>
    PROVE  Front(p) # p
<1>1. Front(p) \in Path /\ Len(Front(p)) + 1 = Len(p) /\ Len(p) \in Nat
  BY FrontAndLast, PathLength
<1> QED
  BY <1>1

\* A child of a path.
LEMMA ChildPath ==
    ASSUME NEW p \in Path, NEW c \in Path, Len(c) = 1
    PROVE  /\ p \o c \in Path /\ p \o c # <<>> /\ p \o c # p /\ c # <<>>
           /\ Front(p \o c) = p /\ <<Last(p \o c)>> = c
<1> DEFINE pc == p \o c
<1>1. pc \in Path /\ Len(pc) = Len(p) + 1 /\ Len(p) \in Nat /\ IsPrefix(p, pc)
  <2>1. pc \in Path /\ Len(pc) = Len(p) + Len(c)
    BY Concat
  <2>2. IsPrefix(p, pc)
    BY Extends
  <2>3. Len(p) \in Nat
    BY PathLength
  <2> QED
    BY <2>1, <2>2, <2>3
<1>2. Rest(pc, Len(p)) = c
  BY RestOfConcat
<1> HIDE DEF pc
<1>3. pc # <<>> /\ pc # p /\ c # <<>>
  <2>1. Len(pc) # 0 /\ Len(pc) # Len(p) /\ Len(c) # 0
    BY <1>1
  <2> QED
    BY <1>1, <2>1, PathLength
<1>4. /\ Front(pc) \in Path /\ <<Last(pc)>> \in Path
      /\ Front(pc) \o <<Last(pc)>> = pc /\ IsPrefix(Front(pc), pc)
      /\ Len(Front(pc)) + 1 = Len(pc)
  BY <1>1, <1>3, FrontAndLast
<1>5. Front(pc) = p
  <2>1. IsPrefix(p, Front(pc))
    BY <1>1, <1>3, PrefixOfFront
  <2>2. Len(p) = Len(Front(pc))
    <3>1. Len(Front(pc)) \in Nat
      BY <1>4, PathLength
    <3> QED
      BY <1>1, <1>4, <3>1
  <2> QED
    BY <1>4, <2>1, <2>2, PrefixLength
<1>6. Rest(Front(pc) \o <<Last(pc)>>, Len(Front(pc))) = <<Last(pc)>>
  BY <1>4, RestOfConcat
<1>7. <<Last(pc)>> = c
  BY <1>2, <1>4, <1>5, <1>6
<1> QED
  BY <1>1, <1>3, <1>5, <1>7 DEF pc

\* What is above a path below another.
LEMMA FrontOfConcat ==
    ASSUME NEW p \in Path, NEW q \in Path, q # <<>>
    PROVE  /\ p \o q \in Path /\ p \o q # <<>> /\ Front(p \o q) = p \o Front(q) /\ Last(p \o q) = Last(q)
           /\ IsPrefix(p, p \o Front(q)) /\ Front(q) \in Path /\ p \o Front(q) \in Path
<1> DEFINE f == Front(q)
           c == <<Last(q)>>
<1>1. f \in Path /\ c \in Path /\ Len(c) = 1 /\ f \o c = q
  BY FrontAndLast
<1> HIDE DEF f, c
<1>2. p \o f \in Path /\ p \o q \in Path /\ IsPrefix(p, p \o f)
  BY <1>1, Concat, Extends
<1>3. (p \o f) \o c = p \o (f \o c)
  BY <1>1, Associative
<1>4. (p \o f) \o c = p \o q
  BY <1>1, <1>3
<1>5. p \o q # <<>> /\ Front(p \o q) = p \o f /\ <<Last(p \o q)>> = c
  <2> DEFINE g == p \o f
  <2>1. g \in Path
    BY <1>2
  <2> HIDE DEF g
  <2>2. g \o c # <<>> /\ Front(g \o c) = g /\ <<Last(g \o c)>> = c
    BY <1>1, <2>1, ChildPath
  <2> QED
    BY <1>4, <2>2 DEF g
<1>6. Last(p \o q) = Last(q)
  <2>1. <<Last(p \o q)>> = <<Last(q)>>
    BY <1>5 DEF c
  <2>2. <<Last(p \o q)>>[1] = Last(p \o q) /\ <<Last(q)>>[1] = Last(q)
    OBVIOUS
  <2> QED
    BY <2>1, <2>2
<1> QED
  BY <1>1, <1>2, <1>5, <1>6 DEF f

\* The first key of a path that is not empty.
LEMMA FirstStep ==
    ASSUME NEW p \in Path, p # <<>>
    PROVE  \E c \in Path : Len(c) = 1 /\ IsPrefix(c, p)
<1>1. Len(p) \in Nat /\ Len(p) > 0
  BY PathLength
<1>2. 1 \in Nat /\ 1 <= Len(p)
  BY <1>1
<1>3. SubSeq(p, 1, 1) \in Path /\ Len(SubSeq(p, 1, 1)) = 1 /\ IsPrefix(SubSeq(p, 1, 1), p)
  BY <1>2, FirstIsPrefix
<1> QED
  BY <1>3

\* The next key on the way from a path to another below it.
LEMMA NextStep ==
    ASSUME NEW p \in Path, NEW q \in Path, IsPrefix(p, q), p # q
    PROVE  \E c \in Path : Len(c) = 1 /\ IsPrefix(p \o c, q)
<1> DEFINE d == Rest(q, Len(p))
<1>1. d \in Path /\ p \o d = q
  BY PrefixSplits
<1> HIDE DEF d
<1>2. d # <<>>
  BY <1>1, EmptyConcat
<1>3. PICK c \in Path : Len(c) = 1 /\ IsPrefix(c, d)
  BY <1>1, <1>2, FirstStep
<1>4. IsPrefix(p \o c, p \o d)
  BY <1>1, <1>3, PrefixBelow
<1> QED
  BY <1>1, <1>3, <1>4

----------------------------------------------------------------------------
\* Trees.

LEMMA AboveMeans ==
    ASSUME NEW p \in Path, NEW q
    PROVE  q \in Above(p) <=> q \in Path /\ IsPrefix(q, p) /\ q # p
<1>1. Len(p) \in Nat
  BY PathLength
<1>2. ASSUME q \in Above(p)
      PROVE  q \in Path /\ IsPrefix(q, p) /\ q # p
  <2>1. PICK n \in 0..(Len(p) - 1) : q = SubSeq(p, 1, n)
    BY <1>2 DEF Above
  <2>2. n \in Nat /\ n <= Len(p) /\ n # Len(p)
    BY <1>1, <2>1
  <2>3. SubSeq(p, 1, n) \in Path /\ Len(SubSeq(p, 1, n)) = n /\ IsPrefix(SubSeq(p, 1, n), p)
    BY <2>2, FirstIsPrefix
  <2> QED
    BY <2>1, <2>2, <2>3
<1>3. ASSUME q \in Path, IsPrefix(q, p), q # p
      PROVE  q \in Above(p)
  <2>1. Len(q) \in Nat /\ Len(q) <= Len(p) /\ q = SubSeq(p, 1, Len(q))
    BY <1>3, PrefixIsFirst
  <2>2. Len(q) # Len(p)
    BY <1>3, PrefixLength
  <2>3. Len(q) \in 0..(Len(p) - 1)
    BY <1>1, <2>1, <2>2
  <2> QED
    BY <2>1, <2>3 DEF Above
<1> QED
  BY <1>2, <1>3

LEMMA TreeAbove ==
    ASSUME NEW tree, IsTree(tree), NEW p \in DOMAIN tree, NEW q \in Path, IsPrefix(q, p), q # p
    PROVE  p \in Path /\ q \in DOMAIN tree /\ tree[q] = "obj"
<1>1. p \in Path /\ \A a \in Above(p) : Kind(tree, a) = "obj"
  BY DEF IsTree
<1>2. q \in Above(p)
  BY <1>1, AboveMeans
<1> QED
  BY <1>1, <1>2 DEF Kind

\* The values below a path.
LEMMA InAnyAt ==
    ASSUME NEW tree, DOMAIN tree \subseteq Path, NEW p \in Path, NEW q \in Path
    PROVE  /\ q \in DOMAIN At(tree, p) <=> p \o q \in DOMAIN tree
           /\ q \in DOMAIN At(tree, p) => At(tree, p)[q] = tree[p \o q]
           /\ DOMAIN At(tree, p) \subseteq Path
<1>1. DOMAIN At(tree, p) = {Rest(r, Len(p)) : r \in {d \in DOMAIN tree : IsPrefix(p, d)}}
  BY DEF At
<1>2. \A r \in DOMAIN tree : r \in Path
  OBVIOUS
<1>3. ASSUME NEW r \in DOMAIN tree, IsPrefix(p, r)
      PROVE  Rest(r, Len(p)) \in Path /\ p \o Rest(r, Len(p)) = r
  BY <1>2, <1>3, PrefixSplits
<1>4. IsPrefix(p, p \o q) /\ Rest(p \o q, Len(p)) = q
  BY Extends, RestOfConcat
<1>5. q \in DOMAIN At(tree, p) => At(tree, p)[q] = tree[p \o q]
  BY DEF At
<1> QED
  BY <1>1, <1>3, <1>4, <1>5

LEMMA InAt ==
    ASSUME NEW tree, IsTree(tree), NEW p \in Path, NEW q \in Path
    PROVE  /\ q \in DOMAIN At(tree, p) <=> p \o q \in DOMAIN tree
           /\ q \in DOMAIN At(tree, p) => At(tree, p)[q] = tree[p \o q]
           /\ DOMAIN At(tree, p) \subseteq Path
<1>1. DOMAIN tree \subseteq Path
  BY DEF IsTree
<1> QED
  BY <1>1, InAnyAt

\* Updates at paths of which none is at or below another.
IsUpdates(updates) ==
    /\ \A k \in DOMAIN updates : k \in Path /\ DOMAIN updates[k] \subseteq Path
    /\ \A k \in DOMAIN updates, l \in DOMAIN updates, q \in Path : IsPrefix(k, q) /\ IsPrefix(l, q) => k = l

LEMMA AppliedIn ==
    ASSUME NEW tree, DOMAIN tree \subseteq Path, NEW path \in Path, NEW updates, IsUpdates(updates), NEW q \in Path
    PROVE  LET a == Applied(tree, path, updates) IN
           /\ DOMAIN a \subseteq Path
           /\ \A k \in DOMAIN updates : IsPrefix(path \o k, q) =>
                /\ q \in DOMAIN a <=> Rest(q, Len(path \o k)) \in DOMAIN updates[k]
                /\ q \in DOMAIN a => a[q] = updates[k][Rest(q, Len(path \o k))]
           /\ (\A k \in DOMAIN updates : ~IsPrefix(path \o k, q)) =>
                /\ q \in DOMAIN a <=> q \in DOMAIN tree
                /\ q \in DOMAIN a => a[q] = tree[q]
<1> DEFINE kept == {x \in DOMAIN tree : \A k \in DOMAIN updates : ~IsPrefix(path \o k, x)}
           inUpdate(k) == {path \o k \o d : d \in DOMAIN updates[k]}
           all == UNION {inUpdate(k) : k \in DOMAIN updates}
           of(x) == CHOOSE k \in DOMAIN updates : IsPrefix(path \o k, x)
           put == [x \in all |-> updates[of(x)][Rest(x, Len(path \o of(x)))]]
           a == Applied(tree, path, updates)
<1>1. a = [x \in kept \union DOMAIN put |-> IF x \in DOMAIN put THEN put[x] ELSE tree[x]]
  BY DEF Applied
<1>2. \A k \in DOMAIN updates : k \in Path /\ path \o k \in Path /\ DOMAIN updates[k] \subseteq Path
  BY Concat DEF IsUpdates
<1>3. ASSUME NEW x \in Path, NEW k \in DOMAIN updates, IsPrefix(path \o k, x)
      PROVE  of(x) = k
  <2>1. of(x) \in DOMAIN updates /\ IsPrefix(path \o of(x), x)
    BY <1>3
  <2> HIDE DEF of
  <2>2. IsPrefix(path, path \o k)
    BY <1>2, Extends
  <2>3. IsPrefix(path, x)
    BY <1>2, <1>3, <2>2, PrefixTransitive
  <2> DEFINE e == Rest(x, Len(path))
  <2>4. e \in Path /\ path \o e = x
    BY <2>3, PrefixSplits
  <2> HIDE DEF e
  <2>5. IsPrefix(of(x), e) /\ IsPrefix(k, e)
    BY <1>2, <1>3, <2>1, <2>4, PrefixBelow
  <2> QED
    BY <2>1, <2>4, <2>5 DEF IsUpdates
<1> HIDE DEF of
<1>4. ASSUME NEW x, NEW k \in DOMAIN updates, x \in inUpdate(k)
      PROVE  x \in Path /\ IsPrefix(path \o k, x)
  <2>1. PICK d \in DOMAIN updates[k] : x = path \o k \o d
    BY <1>4
  <2>2. d \in Path /\ path \o k \in Path
    BY <1>2
  <2> QED
    BY <2>1, <2>2, Concat, Extends
<1>5. ASSUME NEW k \in DOMAIN updates, IsPrefix(path \o k, q)
      PROVE  q \in inUpdate(k) <=> Rest(q, Len(path \o k)) \in DOMAIN updates[k]
  <2> DEFINE pk == path \o k
             d == Rest(q, Len(pk))
  <2>1. pk \in Path /\ DOMAIN updates[k] \subseteq Path
    BY <1>2
  <2> HIDE DEF pk
  <2>2. IsPrefix(pk, q)
    BY <1>5 DEF pk
  <2>3. d \in Path /\ pk \o d = q
    BY <2>1, <2>2, PrefixSplits
  <2> HIDE DEF d
  <2>4. \A e \in DOMAIN updates[k] : pk \o e = q => e = d
    BY <2>1, <2>3, Cancel
  <2>5. q \in {pk \o e : e \in DOMAIN updates[k]} <=> d \in DOMAIN updates[k]
    BY <2>3, <2>4
  <2> QED
    BY <2>5 DEF d, pk
<1> HIDE DEF inUpdate
<1>6. \A x : x \in all <=> \E k \in DOMAIN updates : x \in inUpdate(k)
  OBVIOUS
<1> HIDE DEF all
<1>7. DOMAIN put = all /\ \A x \in all : put[x] = updates[of(x)][Rest(x, Len(path \o of(x)))]
  OBVIOUS
<1> HIDE DEF put, a
<1>8. DOMAIN a = kept \union all
  BY <1>1, <1>7
<1>9. \A x \in DOMAIN a : a[x] = IF x \in all THEN put[x] ELSE tree[x]
  BY <1>1, <1>7
<1>10. DOMAIN a \subseteq Path
  BY <1>4, <1>6, <1>8
<1>11. ASSUME NEW k \in DOMAIN updates, IsPrefix(path \o k, q)
       PROVE  /\ q \in DOMAIN a <=> Rest(q, Len(path \o k)) \in DOMAIN updates[k]
              /\ q \in DOMAIN a => a[q] = updates[k][Rest(q, Len(path \o k))]
  <2>1. of(q) = k
    BY <1>3, <1>11
  <2>2. q \in all <=> q \in inUpdate(k)
    <3>1. ASSUME NEW l \in DOMAIN updates, q \in inUpdate(l)
          PROVE  l = k
      BY <1>3, <1>4, <2>1, <3>1
    <3> QED
      BY <1>6, <3>1
  <2>3. q \notin kept
    BY <1>11
  <2>4. q \in DOMAIN a <=> Rest(q, Len(path \o k)) \in DOMAIN updates[k]
    BY <1>5, <1>8, <1>11, <2>2, <2>3
  <2>5. q \in DOMAIN a => a[q] = updates[k][Rest(q, Len(path \o k))]
    <3>1. q \in DOMAIN a => q \in all
      BY <1>8, <2>3
    <3>2. q \in all => put[q] = updates[k][Rest(q, Len(path \o k))]
      BY <1>7, <2>1
    <3> QED
      BY <1>9, <3>1, <3>2
  <2> QED
    BY <2>4, <2>5
<1>12. ASSUME \A k \in DOMAIN updates : ~IsPrefix(path \o k, q)
       PROVE  /\ q \in DOMAIN a <=> q \in DOMAIN tree
              /\ q \in DOMAIN a => a[q] = tree[q]
  <2>1. q \notin all
    BY <1>4, <1>6, <1>12
  <2>2. q \in kept <=> q \in DOMAIN tree
    BY <1>12
  <2> HIDE DEF kept
  <2>3. q \in DOMAIN a <=> q \in DOMAIN tree
    BY <1>8, <2>1, <2>2
  <2>4. q \in DOMAIN a => a[q] = tree[q]
    BY <1>9, <2>1
  <2> QED
    BY <2>3, <2>4
<1> QED
  BY <1>10, <1>11, <1>12 DEF a

LEMMA AppliedKind ==
    ASSUME NEW tree, DOMAIN tree \subseteq Path, NEW path \in Path, NEW updates, IsUpdates(updates), NEW q \in Path
    PROVE  /\ DOMAIN Applied(tree, path, updates) \subseteq Path
           /\ \A k \in DOMAIN updates : IsPrefix(path \o k, q) =>
                Kind(Applied(tree, path, updates), q) = Kind(updates[k], Rest(q, Len(path \o k)))
           /\ (\A k \in DOMAIN updates : ~IsPrefix(path \o k, q)) =>
                Kind(Applied(tree, path, updates), q) = Kind(tree, q)
BY AppliedIn DEF Kind

----------------------------------------------------------------------------
\* A set of numbers has a least one.
LEMMA Smallest ==
    ASSUME NEW S \in SUBSET Nat, S # {}
    PROVE  \E m \in S : \A i \in S : m <= i
<1> DEFINE T == {0 .. i : i \in S}
<1>1. T \subseteq FiniteSubsetsOf(Nat) /\ T # {}
  <2>1. ASSUME NEW i \in S
        PROVE  0 .. i \in FiniteSubsetsOf(Nat)
    <3>1. IsFiniteSet(0 .. i) /\ 0 .. i \subseteq Nat
      BY FS_Interval
    <3> QED
      BY <3>1 DEF FiniteSubsetsOf
  <2>2. T # {}
    OBVIOUS
  <2> QED
    BY <2>1, <2>2
<1>2. PICK t \in T : \A u \in T : ~ (<<u, t>> \in StrictSubsetOrdering(Nat))
  <2> HIDE DEF T
  <2> QED
    BY <1>1, FS_StrictSubsetOrderingWellFounded, WFMin
<1>3. PICK m \in S : t = 0 .. m
  OBVIOUS
<1>4. ASSUME NEW i \in S, ~ (m <= i) PROVE FALSE
  <2>1. 0 .. i \subseteq 0 .. m /\ 0 .. i # 0 .. m
    BY <1>4
  <2>2. <<0 .. i, 0 .. m>> \in StrictSubsetOrdering(Nat)
    BY <2>1 DEF StrictSubsetOrdering
  <2> QED
    BY <1>2, <1>3, <2>2
<1> QED
  BY <1>4

\* The largest of some numbers.
LEMMA Largest ==
    ASSUME NEW n \in Nat, NEW S \in SUBSET (0..n), S # {}
    PROVE  \E m \in S : \A i \in S : i <= m
<1> DEFINE T == {i..n : i \in S}
<1>1. T \subseteq FiniteSubsetsOf(Nat) /\ T # {}
  <2>1. ASSUME NEW i \in S
        PROVE  i..n \in FiniteSubsetsOf(Nat)
    <3>1. IsFiniteSet(i..n) /\ i..n \subseteq Nat
      BY FS_Interval
    <3> QED
      BY <3>1 DEF FiniteSubsetsOf
  <2>2. T # {}
    OBVIOUS
  <2> QED
    BY <2>1, <2>2
<1>2. PICK t \in T : \A u \in T : ~ (<<u, t>> \in StrictSubsetOrdering(Nat))
  <2> HIDE DEF T
  <2> QED
    BY <1>1, FS_StrictSubsetOrderingWellFounded, WFMin
<1>3. PICK m \in S : t = m..n
  OBVIOUS
<1>4. ASSUME NEW i \in S, ~ (i <= m) PROVE FALSE
  <2>1. i..n \subseteq m..n /\ i..n # m..n
    BY <1>4
  <2>2. <<i..n, m..n>> \in StrictSubsetOrdering(Nat)
    BY <2>1 DEF StrictSubsetOrdering
  <2> QED
    BY <1>2, <1>3, <2>2
<1> QED
  BY <1>4

\* Trees whose leafs are not mistaken for nothing.
Plain(t) == DOMAIN t \subseteq Path /\ \A p \in DOMAIN t : t[p] # "none"

LEMMA PlainKind ==
    ASSUME NEW t, Plain(t), NEW p
    PROVE  Kind(t, p) # "none" <=> p \in DOMAIN t
BY DEF Plain, Kind

LEMMA AtKind ==
    ASSUME NEW t, DOMAIN t \subseteq Path, NEW p \in Path, NEW q \in Path
    PROVE  Kind(At(t, p), q) = Kind(t, p \o q)
BY InAnyAt DEF Kind

LEMMA AtPlain ==
    ASSUME NEW t, Plain(t), NEW p \in Path
    PROVE  Plain(At(t, p)) /\ At(t, p) = [q \in DOMAIN At(t, p) |-> At(t, p)[q]]
<1>1. DOMAIN At(t, p) \subseteq Path
  BY EmptyPath, InAnyAt DEF Plain
<1>2. ASSUME NEW q \in DOMAIN At(t, p)
      PROVE  At(t, p)[q] # "none"
  BY <1>1, InAnyAt DEF Plain
<1>3. At(t, p) = [q \in DOMAIN At(t, p) |-> At(t, p)[q]]
  BY DEF At
<1> QED
  BY <1>1, <1>2, <1>3 DEF Plain

\* Functions that are the same tree.
LEMMA SameTree ==
    ASSUME NEW a, NEW b, Plain(a), Plain(b),
           a = [p \in DOMAIN a |-> a[p]], b = [p \in DOMAIN b |-> b[p]],
           \A p \in Path : Kind(a, p) = Kind(b, p)
    PROVE  a = b
<1>1. \A p \in Path : p \in DOMAIN a <=> p \in DOMAIN b
  BY PlainKind
<1>2. DOMAIN a = DOMAIN b
  BY <1>1 DEF Plain
<1>3. \A p \in DOMAIN a : a[p] = b[p]
  BY <1>2 DEF Plain, Kind
<1> QED
  BY <1>2, <1>3

LEMMA SameAt ==
    ASSUME NEW a, NEW b, Plain(a), Plain(b), NEW p \in Path, NEW q \in Path
    PROVE  At(a, p) = At(b, q) <=> \A x \in Path : Kind(a, p \o x) = Kind(b, q \o x)
<1>1. /\ Plain(At(a, p)) /\ At(a, p) = [x \in DOMAIN At(a, p) |-> At(a, p)[x]]
      /\ Plain(At(b, q)) /\ At(b, q) = [x \in DOMAIN At(b, q) |-> At(b, q)[x]]
  BY AtPlain
<1>2. \A x \in Path : Kind(At(a, p), x) = Kind(a, p \o x) /\ Kind(At(b, q), x) = Kind(b, q \o x)
  BY AtKind DEF Plain
<1> DEFINE s == At(a, p)
           t == At(b, q)
<1>3. (\A x \in Path : Kind(s, x) = Kind(t, x)) => s = t
  <2> HIDE DEF s, t
  <2>1. Plain(s) /\ Plain(t) /\ s = [x \in DOMAIN s |-> s[x]] /\ t = [x \in DOMAIN t |-> t[x]]
    BY <1>1 DEF s, t
  <2> QED
    BY <2>1, SameTree
<1> QED
  BY <1>2, <1>3

\* What is below what is below.
LEMMA AtAt ==
    ASSUME NEW t, Plain(t), NEW p \in Path, NEW q \in Path
    PROVE  At(At(t, p), q) = At(t, p \o q)
<1> DEFINE a == At(t, p)
<1>1. Plain(a) /\ p \o q \in Path
  BY AtPlain, Concat
<1>2. ASSUME NEW x \in Path
      PROVE  Kind(a, q \o x) = Kind(t, p \o q \o x)
  <2>1. q \o x \in Path /\ (p \o q) \o x = p \o (q \o x)
    <3>1. q \o x \in Path
      BY Concat
    <3>2. Regroups(p, q, x)
      BY Regroup
    <3> QED
      BY <3>1, <3>2 DEF Regroups
  <2>2. \A y \in Path : Kind(a, y) = Kind(t, p \o y)
    BY AtKind DEF Plain
  <2> HIDE DEF a
  <2> QED
    BY <2>1, <2>2
<1> HIDE DEF a
<1>3. At(a, q) = At(t, p \o q) <=> \A x \in Path : Kind(a, q \o x) = Kind(t, (p \o q) \o x)
  BY <1>1, SameAt
<1> QED
  BY <1>2, <1>3 DEF a

----------------------------------------------------------------------------
\* Where two trees start to differ.
Differ(a, b, d) ==
    /\ Kind(a, d) # Kind(b, d)
    /\ \A x \in Path : IsPrefix(x, d) /\ x # d => Kind(a, x) = Kind(b, x)

LEMMA DifferencesAre ==
    ASSUME NEW a, NEW b, DOMAIN a \subseteq Path, DOMAIN b \subseteq Path, NEW d
    PROVE  d \in Differences(a, b) <=> d \in Path /\ Differ(a, b, d)
<1>1. Kind(a, d) # Kind(b, d) => d \in DOMAIN a \union DOMAIN b
  BY DEF Kind
<1>2. ASSUME d \in Path
      PROVE  (\A n \in 0..(Len(d) - 1) : Kind(a, SubSeq(d, 1, n)) = Kind(b, SubSeq(d, 1, n)))
             <=> (\A x \in Path : IsPrefix(x, d) /\ x # d => Kind(a, x) = Kind(b, x))
  <2>1. \A x : x \in Above(d) <=> x \in Path /\ IsPrefix(x, d) /\ x # d
    BY <1>2, AboveMeans
  <2> QED
    BY <2>1 DEF Above
<1> QED
  BY <1>1, <1>2 DEF Differences, Differ

LEMMA FirstDifference ==
    ASSUME NEW a, NEW b, NEW q \in Path, Kind(a, q) # Kind(b, q)
    PROVE  \E d \in Path : IsPrefix(d, q) /\ Differ(a, b, d)
<1> DEFINE S == {n \in 0..Len(q) : Kind(a, SubSeq(q, 1, n)) # Kind(b, SubSeq(q, 1, n))}
<1>1. Len(q) \in Nat /\ S \in SUBSET Nat
  BY PathLength
<1>2. Len(q) \in S
  <2>1. q = SubSeq(q, 1, Len(q))
    BY PrefixReflexive, PrefixIsFirst
  <2>2. Kind(a, SubSeq(q, 1, Len(q))) # Kind(b, SubSeq(q, 1, Len(q)))
    BY <2>1
  <2>3. Len(q) \in 0..Len(q)
    BY <1>1
  <2> QED
    BY <2>2, <2>3
<1>3. PICK n \in S : \A i \in S : n <= i
  BY <1>1, <1>2, Smallest
<1> DEFINE d == SubSeq(q, 1, n)
<1>4. n \in Nat /\ n <= Len(q) /\ Kind(a, d) # Kind(b, d)
  BY <1>1
<1>5. d \in Path /\ Len(d) = n /\ IsPrefix(d, q)
  BY <1>4, FirstIsPrefix
<1>6. ASSUME NEW x \in Path, IsPrefix(x, d), x # d
      PROVE  Kind(a, x) = Kind(b, x)
  <2> HIDE DEF d
  <2>1. IsPrefix(x, q) /\ Len(x) <= Len(d) /\ Len(x) # Len(d) /\ Len(x) \in Nat
    BY <1>5, <1>6, PrefixTransitive, PrefixLength, PathLength
  <2>2. x = SubSeq(q, 1, Len(x)) /\ Len(x) \in 0..Len(q)
    BY <1>1, <2>1, PrefixIsFirst
  <2>3. Len(x) \notin S
    BY <1>3, <1>4, <1>5, <2>1
  <2> QED
    BY <2>2, <2>3
<1> HIDE DEF d
<1> QED
  BY <1>4, <1>5, <1>6 DEF Differ

\* They do so at places of which none is at or below another.
LEMMA DifferencesApart ==
    ASSUME NEW a, NEW b, NEW d \in Path, NEW e \in Path, Differ(a, b, d), Differ(a, b, e), NEW q \in Path,
           IsPrefix(d, q), IsPrefix(e, q)
    PROVE  d = e
<1>1. IsPrefix(d, e) \/ IsPrefix(e, d)
  BY PrefixesCompare
<1> QED
  BY <1>1 DEF Differ

----------------------------------------------------------------------------
\* Updates of a node, or of its properties.
IsUpdate(u) ==
    /\ DOMAIN u # {}
    /\ DOMAIN u = {<<>>} \/ \A k \in DOMAIN u : k \in Path /\ Len(k) = 1
    /\ \A k \in DOMAIN u : Plain(u[k]) /\ IsTree(u[k])

LEMMA UpdateKeys ==
    ASSUME NEW u, IsUpdate(u)
    PROVE  /\ IsUpdates(u)
           /\ \A k \in DOMAIN u : k \in Path /\ (k = <<>> \/ (Len(k) = 1 /\ <<>> \notin DOMAIN u))
<1>1. \A k \in DOMAIN u : k \in Path /\ (k = <<>> \/ (Len(k) = 1 /\ <<>> \notin DOMAIN u))
  BY EmptyPath DEF IsUpdate
<1>2. ASSUME NEW k \in DOMAIN u, NEW l \in DOMAIN u, NEW q \in Path, IsPrefix(k, q), IsPrefix(l, q)
      PROVE  k = l
  <2>1. k \in Path /\ l \in Path /\ Len(k) = Len(l)
    BY <1>1, EmptyPath
  <2>2. IsPrefix(k, l)
    BY <1>2, <2>1, PathLength, PrefixesOrdered
  <2> QED
    BY <2>1, <2>2, PrefixLength
<1> QED
  BY <1>1, <1>2 DEF IsUpdates, IsUpdate, Plain

LEMMA AppliedFunction ==
    ASSUME NEW t, NEW path, NEW u
    PROVE  Applied(t, path, u) = [p \in DOMAIN Applied(t, path, u) |-> Applied(t, path, u)[p]]
<1> DEFINE kept == {q \in DOMAIN t : \A r \in DOMAIN u : ~IsPrefix(path \o r, q)}
           all == UNION {{path \o r \o d : d \in DOMAIN u[r]} : r \in DOMAIN u}
           of(x) == CHOOSE r \in DOMAIN u : IsPrefix(path \o r, x)
           put == [x \in all |-> u[of(x)][Rest(x, Len(path \o of(x)))]]
           S == kept \union DOMAIN put
           f(x) == IF x \in DOMAIN put THEN put[x] ELSE t[x]
           a == Applied(t, path, u)
<1>1. a = [x \in S |-> f(x)]
  BY DEF Applied
<1> HIDE DEF S, f, a
<1> QED
  BY <1>1 DEF a

\* An update makes a tree of a tree.
LEMMA AppliedTree ==
    ASSUME NEW t, Plain(t), IsTree(t), NEW path \in Path, NEW u, IsUpdate(u),
           \A x \in Path : IsPrefix(x, path) /\ (x # path \/ <<>> \notin DOMAIN u) => Kind(t, x) = "obj"
    PROVE  LET a == Applied(t, path, u) IN Plain(a) /\ IsTree(a) /\ a = [p \in DOMAIN a |-> a[p]]
<1> DEFINE a == Applied(t, path, u)
<1>1. /\ IsUpdates(u)
      /\ \A k \in DOMAIN u : k \in Path /\ (k = <<>> \/ (Len(k) = 1 /\ <<>> \notin DOMAIN u))
  BY UpdateKeys
<1>2. /\ DOMAIN a \subseteq Path
      /\ \A q \in Path : \A k \in DOMAIN u : IsPrefix(path \o k, q) => Kind(a, q) = Kind(u[k], Rest(q, Len(path \o k)))
      /\ \A q \in Path : (\A k \in DOMAIN u : ~IsPrefix(path \o k, q)) => Kind(a, q) = Kind(t, q)
  BY <1>1, EmptyPath, AppliedKind DEF Plain
<1>9. ASSUME NEW q \in Path
      PROVE  /\ \A k \in DOMAIN u : IsPrefix(path \o k, q) =>
                  /\ q \in DOMAIN a <=> Rest(q, Len(path \o k)) \in DOMAIN u[k]
                  /\ q \in DOMAIN a => a[q] = u[k][Rest(q, Len(path \o k))]
             /\ (\A k \in DOMAIN u : ~IsPrefix(path \o k, q)) =>
                  /\ q \in DOMAIN a <=> q \in DOMAIN t
                  /\ q \in DOMAIN a => a[q] = t[q]
  BY <1>1, AppliedIn DEF Plain
<1>3. a = [p \in DOMAIN a |-> a[p]]
  BY AppliedFunction
<1> HIDE DEF a
<1>4. \A k \in DOMAIN u : path \o k \in Path /\ Plain(u[k]) /\ IsTree(u[k])
  BY <1>1, Concat DEF IsUpdate
<1>5. ASSUME NEW p \in DOMAIN a, a[p] = "none" PROVE FALSE
  <2>1. CASE \E k \in DOMAIN u : IsPrefix(path \o k, p)
    <3>1. PICK k \in DOMAIN u : IsPrefix(path \o k, p)
      BY <2>1
    <3>2. p \in Path /\ Rest(p, Len(path \o k)) \in DOMAIN u[k] /\ a[p] = u[k][Rest(p, Len(path \o k))]
      BY <1>2, <1>9, <3>1
    <3> QED
      BY <1>4, <1>5, <3>2 DEF Plain
  <2>2. CASE \A k \in DOMAIN u : ~IsPrefix(path \o k, p)
    BY <1>2, <1>5, <1>9, <2>2 DEF Plain
  <2> QED
    BY <2>1, <2>2
<1>6. Plain(a)
  BY <1>2, <1>5 DEF Plain
<1>7. ASSUME NEW p \in DOMAIN a, NEW q \in Path, IsPrefix(q, p), q # p
      PROVE  Kind(a, q) = "obj"
  <2>1. p \in Path /\ Kind(a, p) # "none"
    BY <1>2, <1>6, PlainKind
  <2>2. CASE \E k \in DOMAIN u : IsPrefix(path \o k, q)
    <3>1. PICK k \in DOMAIN u : IsPrefix(path \o k, q)
      BY <2>2
    <3> DEFINE pk == path \o k
               x == Rest(q, Len(pk))
               y == Rest(p, Len(pk))
    <3>2. pk \in Path /\ IsPrefix(pk, q)
      BY <1>4, <3>1
    <3> HIDE DEF pk
    <3>3. IsPrefix(pk, p)
      BY <1>7, <2>1, <3>2, PrefixTransitive
    <3>4. x \in Path /\ y \in Path /\ pk \o x = q /\ pk \o y = p
      BY <2>1, <3>2, <3>3, PrefixSplits
    <3>5. Kind(a, q) = Kind(u[k], x) /\ Kind(a, p) = Kind(u[k], y)
      BY <1>2, <2>1, <3>2, <3>3 DEF pk
    <3> HIDE DEF x, y
    <3>6. IsPrefix(x, y) /\ x # y
      BY <1>7, <3>2, <3>4, PrefixBelow
    <3>7. y \in DOMAIN u[k]
      BY <2>1, <3>5 DEF Kind
    <3> QED
      BY <1>4, <3>4, <3>5, <3>6, <3>7, TreeAbove DEF Kind
  <2>3. CASE (\A k \in DOMAIN u : ~IsPrefix(path \o k, q)) /\ \E k \in DOMAIN u : IsPrefix(path \o k, p)
    <3>1. PICK k \in DOMAIN u : IsPrefix(path \o k, p)
      BY <2>3
    <3>2. k \in Path /\ path \o k \in Path
      BY <1>1, <1>4
    <3>3. IsPrefix(q, path \o k) /\ q # path \o k
      BY <1>7, <2>1, <2>3, <3>1, <3>2, PrefixesCompare, PrefixReflexive
    <3>4. IsPrefix(q, path) /\ (q # path \/ <<>> \notin DOMAIN u)
      <4>1. CASE k = <<>>
        BY <3>3, <4>1, EmptyConcat
      <4>2. CASE k # <<>>
        <5>1. Len(k) = 1 /\ <<>> \notin DOMAIN u
          BY <1>1, <4>2
        <5>2. path \o k # <<>> /\ Front(path \o k) = path
          BY <3>2, <5>1, ChildPath
        <5> DEFINE pk == path \o k
        <5>3. pk \in Path /\ pk # <<>> /\ Front(pk) = path /\ IsPrefix(q, pk) /\ q # pk
          BY <3>2, <3>3, <5>2
        <5> HIDE DEF pk
        <5> QED
          BY <5>1, <5>3, PrefixOfFront
      <4> QED
        BY <4>1, <4>2
    <3> QED
      BY <1>2, <2>3, <3>4
  <2>4. CASE \A k \in DOMAIN u : ~IsPrefix(path \o k, p)
    <3>1. \A k \in DOMAIN u : ~IsPrefix(path \o k, q)
      BY <1>4, <1>7, <2>1, <2>4, PrefixTransitive
    <3>2. Kind(a, q) = Kind(t, q) /\ p \in DOMAIN t
      <4>1. Kind(a, q) = Kind(t, q) /\ Kind(a, p) = Kind(t, p)
        BY <1>2, <2>1, <2>4, <3>1
      <4> QED
        BY <2>1, <4>1 DEF Kind
    <3> QED
      BY <1>7, <3>2, TreeAbove DEF Kind
  <2> QED
    BY <2>2, <2>3, <2>4
<1>8. IsTree(a)
  <2>1. ASSUME NEW p \in DOMAIN a, NEW q \in Above(p)
        PROVE  Kind(a, q) = "obj"
    <3>1. p \in Path
      BY <1>2
    <3> QED
      BY <1>7, <3>1, AboveMeans
  <2> QED
    BY <1>2, <2>1 DEF IsTree
<1> QED
  BY <1>3, <1>6, <1>8 DEF a

\* Where a tree with an update differs from the tree, the update is for it.
LEMMA ChangedAt ==
    ASSUME NEW t, Plain(t), NEW path \in Path, NEW u, IsUpdate(u), NEW q \in Path,
           Kind(Applied(t, path, u), q) # Kind(t, q)
    PROVE  \E k \in DOMAIN u : k \in Path /\ IsPrefix(path \o k, q)
BY UpdateKeys, AppliedKind DEF Plain
=============================================================================
