-------------------------- MODULE TrackedStore_proofs -------------------------
(***************************************************************************)
(* Proofs about TrackedStore: a write loads what it has to of the data, so *)
(* the copy of a client follows the data by its events, and an index does  *)
(* by the updates that are made of the part that is loaded; its events are *)
(* those that its changes call for.                                        *)
(***************************************************************************)
EXTENDS TrackedStore, Trees_proofs

----------------------------------------------------------------------------
\* What a write takes.

\* The database: a value that is an object.
GoodTree(t) == IsValue(t) /\ Kind(t, <<>>) = "obj"

\* A write in a node that is there: of the node, that is not removed, or of
\* properties of an object.
GoodWrite(t, path, u) ==
    /\ path \in Path /\ path \in DOMAIN t
    /\ IsUpdate(u)
    /\ <<>> \in DOMAIN u => Kind(u[<<>>], <<>>) # "none" /\ (path = <<>> => Kind(u[<<>>], <<>>) = "obj")
    /\ <<>> \notin DOMAIN u => Kind(t, path) = "obj"

LEMMA ValueIsPlain ==
    ASSUME NEW v, IsValue(v)
    PROVE  Plain(v) /\ IsTree(v) /\ v = [p \in DOMAIN v |-> v[p]]
BY DEF IsValue, IsTree, Plain

LEMMA ValueAbove ==
    ASSUME NEW t, Plain(t), IsTree(t), NEW p \in Path, p \in DOMAIN t, NEW q \in Path, IsPrefix(q, p), q # p
    PROVE  Kind(t, q) = "obj"
BY TreeAbove DEF Kind

\* A leaf, or nothing, has nothing below it.
LEMMA NothingBelow ==
    ASSUME NEW t, Plain(t), IsTree(t), NEW p \in Path, Kind(t, p) # "obj", NEW q \in Path, q # <<>>
    PROVE  p \o q \notin DOMAIN t
<1> DEFINE pq == p \o q
<1>1. pq \in Path /\ IsPrefix(p, pq) /\ pq # p
  <2>1. pq \in Path /\ IsPrefix(p, pq) /\ Len(pq) = Len(p) + Len(q)
    BY Concat, Extends
  <2>2. Len(p) \in Nat /\ Len(q) \in Nat /\ Len(q) # 0
    BY PathLength
  <2>3. Len(pq) # Len(p)
    BY <2>1, <2>2
  <2> HIDE DEF pq
  <2> QED
    BY <2>1, <2>3
<1> HIDE DEF pq
<1>2. pq \in DOMAIN t => FALSE
  BY <1>1, ValueAbove
<1> QED
  BY <1>2 DEF pq

LEMMA AfterWrite ==
    ASSUME NEW t, GoodTree(t), NEW path, NEW u, GoodWrite(t, path, u)
    PROVE  GoodTree(Applied(t, path, u))
<1>1. /\ Plain(t) /\ IsTree(t) /\ Kind(t, <<>>) = "obj"
      /\ path \in Path /\ path \in DOMAIN t /\ IsUpdate(u)
  BY ValueIsPlain DEF GoodTree, GoodWrite
<1>2. ASSUME NEW x \in Path, IsPrefix(x, path), x # path \/ <<>> \notin DOMAIN u
      PROVE  Kind(t, x) = "obj"
  BY <1>1, <1>2, ValueAbove DEF GoodWrite
<1> DEFINE a == Applied(t, path, u)
<1>3. Plain(a) /\ IsTree(a) /\ a = [p \in DOMAIN a |-> a[p]]
  BY <1>1, <1>2, AppliedTree
<1>4. /\ IsUpdates(u)
      /\ \A k \in DOMAIN u : k \in Path
      /\ DOMAIN t \subseteq Path
  BY <1>1, UpdateKeys DEF Plain
<1>5. /\ \A k \in DOMAIN u : IsPrefix(path \o k, <<>>) => Kind(a, <<>>) = Kind(u[k], Rest(<<>>, Len(path \o k)))
      /\ (\A k \in DOMAIN u : ~IsPrefix(path \o k, <<>>)) => Kind(a, <<>>) = Kind(t, <<>>)
  BY <1>1, <1>4, EmptyPath, AppliedKind
<1> HIDE DEF a
<1>6. Kind(a, <<>>) = "obj"
  <2>1. CASE \A k \in DOMAIN u : ~IsPrefix(path \o k, <<>>)
    BY <1>1, <1>5, <2>1
  <2>2. CASE \E k \in DOMAIN u : IsPrefix(path \o k, <<>>)
    <3>1. PICK k \in DOMAIN u : IsPrefix(path \o k, <<>>)
      BY <2>2
    <3>2. k \in Path /\ path \o k \in Path /\ Len(path \o k) = Len(path) + Len(k)
      BY <1>1, <1>4, Concat
    <3>3. Len(path) \in Nat /\ Len(k) \in Nat
      BY <1>1, <3>2, PathLength
    <3> DEFINE pk == path \o k
    <3>4. pk \in Path /\ IsPrefix(pk, <<>>) /\ Len(pk) = Len(path) + Len(k)
      BY <3>1, <3>2
    <3> HIDE DEF pk
    <3>5. Len(pk) = 0
      BY <3>3, <3>4, EmptyPath, PrefixLength
    <3>6. path = <<>> /\ k = <<>> /\ pk = <<>>
      <4>1. Len(path) = 0 /\ Len(k) = 0
        <5> DEFINE a1 == Len(path)
                   a2 == Len(k)
        <5>1. a1 \in Nat /\ a2 \in Nat /\ a1 + a2 = 0
          BY <3>3, <3>4, <3>5
        <5> HIDE DEF a1, a2
        <5>2. a1 = 0 /\ a2 = 0
          BY <5>1
        <5> QED
          BY <5>2 DEF a1, a2
      <4> QED
        BY <1>1, <3>2, <3>4, <3>5, <4>1, PathLength
    <3>7. Kind(a, <<>>) = Kind(u[k], Rest(<<>>, 0))
      BY <1>5, <3>1, <3>5 DEF pk
    <3>8. Rest(<<>>, 0) = <<>>
      BY DEF Rest
    <3> QED
      BY <3>6, <3>7, <3>8 DEF GoodWrite
  <2> QED
    BY <2>1, <2>2
<1>7. IsValue(a)
  BY <1>3 DEF IsValue, Plain
<1> QED
  BY <1>6, <1>7 DEF GoodTree, a

\* Values of one key.
LEMMA OneKey ==
    ASSUME NEW c \in Path, Len(c) = 1 \/ c = <<>>, NEW v, Plain(v), IsTree(v)
    PROVE  LET u == [k \in {c} |-> v] IN DOMAIN u = {c} /\ u[c] = v /\ IsUpdate(u)
<1> DEFINE u == [k \in {c} |-> v]
<1>1. DOMAIN u = {c} /\ u[c] = v
  OBVIOUS
<1>2. IsUpdate(u)
  <2> HIDE DEF u
  <2> QED
    BY <1>1 DEF IsUpdate
<1> QED
  BY <1>1, <1>2

LEMMA RequestIsUpdate ==
    ASSUME NEW r, IsRequest(r)
    PROVE  r.path \in Path /\ IsUpdate(r.updates)
<1>1. \A k \in DOMAIN r.updates : Plain(r.updates[k]) /\ IsTree(r.updates[k])
  BY ValueIsPlain DEF IsRequest
<1> QED
  BY <1>1 DEF IsRequest, IsUpdate

\* A value that is merged into its parent leaves a write of the same kind.
LEMMA MergedGood ==
    ASSUME NEW r, IsRequest(r)
    PROVE  LET w == Merged(r.path, r.updates) IN
           /\ w.path \in Path /\ IsUpdate(w.updates)
           /\ <<>> \in DOMAIN w.updates =>
                /\ Kind(w.updates[<<>>], <<>>) # "none"
                /\ w.path = <<>> => Kind(w.updates[<<>>], <<>>) = "obj"
<1> DEFINE path == r.path
           u == r.updates
           w == Merged(path, u)
           v == u[<<>>]
<1>1. path \in Path /\ IsUpdate(u)
  BY RequestIsUpdate
<1>2. path = <<>> /\ <<>> \in DOMAIN u => Kind(v, <<>>) = "obj"
  BY DEF IsRequest
<1>3. \A k \in DOMAIN u : Plain(u[k]) /\ IsTree(u[k])
  BY <1>1 DEF IsUpdate
<1> HIDE DEF path, u
<1>4. CASE path # <<>> /\ <<>> \in DOMAIN u /\ FitsInline(v)
  <2> DEFINE c == <<Last(path)>>
             x == [k \in {c} |-> v]
  <2>1. Front(path) \in Path /\ c \in Path /\ Len(c) = 1
    BY <1>1, <1>4, FrontAndLast
  <2>2. w.path = Front(path) /\ w.updates = x
    BY <1>4 DEF Merged
  <2> HIDE DEF c, w
  <2>3. DOMAIN x = {c} /\ IsUpdate(x)
    BY <1>3, <1>4, <2>1, OneKey
  <2>4. <<>> \notin DOMAIN x
    BY <2>1, <2>3, EmptyPath
  <2> QED
    BY <2>1, <2>2, <2>3, <2>4 DEF w, path, u
<1>5. CASE ~(path # <<>> /\ <<>> \in DOMAIN u /\ FitsInline(v))
  <2>1. w.path = path /\ w.updates = u
    BY <1>5 DEF Merged
  <2>2. ASSUME <<>> \in DOMAIN u, path # <<>>
        PROVE  Kind(v, <<>>) # "none"
    <3>1. ~FitsInline(v) /\ Plain(v) /\ IsTree(v)
      BY <1>3, <1>5, <2>2
    <3> HIDE DEF v
    <3>2. PICK p \in DOMAIN v : p # <<>> /\ p \in Path
      BY <3>1 DEF FitsInline, Plain
    <3>3. Kind(v, <<>>) = "obj"
      BY <3>1, <3>2, EmptyPath, PrefixReflexive, ValueAbove
    <3> QED
      BY <3>3
  <2> HIDE DEF w, v
  <2>3. w.path \in Path /\ IsUpdate(w.updates)
    BY <1>1, <2>1
  <2>4. <<>> \in DOMAIN w.updates =>
          /\ Kind(w.updates[<<>>], <<>>) # "none"
          /\ w.path = <<>> => Kind(w.updates[<<>>], <<>>) = "obj"
    BY <1>2, <2>1, <2>2 DEF v
  <2> QED
    BY <2>3, <2>4 DEF w, path, u
<1> QED
  BY <1>4, <1>5

\* Objects on the way to a path.
LEMMA ObjectsTo ==
    ASSUME NEW p \in Path
    PROVE  LET t == [x \in Above(p) \union {p} |-> "obj"] IN
           Plain(t) /\ IsTree(t) /\ \A x \in Path : IsPrefix(x, p) => Kind(t, x) = "obj"
<1> DEFINE t == [x \in Above(p) \union {p} |-> "obj"]
<1>1. \A x : x \in DOMAIN t <=> x \in Path /\ IsPrefix(x, p)
  <2>1. \A x : x \in Above(p) <=> x \in Path /\ IsPrefix(x, p) /\ x # p
    BY AboveMeans
  <2> QED
    BY <2>1, PrefixReflexive
<1>2. \A x \in DOMAIN t : t[x] = "obj"
  OBVIOUS
<1> HIDE DEF t
<1>3. ASSUME NEW x \in DOMAIN t, NEW y \in Above(x)
      PROVE  Kind(t, y) = "obj"
  <2>1. x \in Path /\ IsPrefix(x, p)
    BY <1>1
  <2>2. y \in Path /\ IsPrefix(y, x)
    BY <2>1, AboveMeans
  <2>3. y \in DOMAIN t
    BY <1>1, <2>1, <2>2, PrefixTransitive
  <2> QED
    BY <1>2, <2>3 DEF Kind
<1> QED
  BY <1>1, <1>2, <1>3 DEF Plain, IsTree, Kind, t

\* The value of updates of properties is an object.
LEMMA TreeOfGood ==
    ASSUME NEW u, IsUpdate(u), <<>> \notin DOMAIN u
    PROVE  Plain(TreeOf(u)) /\ IsTree(TreeOf(u)) /\ Kind(TreeOf(u), <<>>) = "obj"
<1>1. Plain(Object) /\ IsTree(Object) /\ <<>> \in DOMAIN Object /\ Kind(Object, <<>>) = "obj"
  <2>1. Above(<<>>) = {}
    BY EmptyPath DEF Above
  <2> QED
    BY <2>1, EmptyPath DEF Plain, IsTree, Object, Kind
<1>2. Object = [p \in DOMAIN Object |-> Object[p]]
  BY DEF Object
<1> HIDE DEF Object
<1>3. TreeOf(u) = Applied(Object, <<>>, u)
  BY DEF TreeOf
<1>4. GoodTree(Object)
  BY <1>1, <1>2 DEF GoodTree, IsValue, Plain
<1>5. GoodWrite(Object, <<>>, u)
  BY <1>1, EmptyPath DEF GoodWrite
<1>6. GoodTree(TreeOf(u))
  BY <1>3, <1>4, <1>5, AfterWrite
<1> QED
  BY <1>6, ValueIsPlain DEF GoodTree

\* The nearest node that is there.
IsNearest(t, path, p) ==
    /\ p \in DOMAIN t
    /\ \A n \in (Len(p) + 1)..Len(path) : SubSeq(path, 1, n) \notin DOMAIN t
Nearest(t, path) == CHOOSE p \in {SubSeq(path, 1, n) : n \in 0..Len(path)} : IsNearest(t, path, p)

LEMMA NearestIs ==
    ASSUME NEW t, <<>> \in DOMAIN t, NEW path \in Path
    PROVE  Nearest(t, path) \in DOMAIN t /\ Nearest(t, path) \in Path /\ IsPrefix(Nearest(t, path), path)
<1> DEFINE firsts == {SubSeq(path, 1, n) : n \in 0..Len(path)}
           S == {n \in 0..Len(path) : SubSeq(path, 1, n) \in DOMAIN t}
<1>1. Len(path) \in Nat
  BY PathLength
<1>2. \A n \in 0..Len(path) :
        SubSeq(path, 1, n) \in Path /\ Len(SubSeq(path, 1, n)) = n /\ IsPrefix(SubSeq(path, 1, n), path)
  BY <1>1, FirstIsPrefix
<1>3. 0 \in S
  <2> DEFINE f == SubSeq(path, 1, 0)
  <2>1. 0 \in 0..Len(path) /\ f \in Path /\ Len(f) = 0
    BY <1>1, <1>2
  <2> HIDE DEF f
  <2>2. f \in DOMAIN t
    BY <2>1, PathLength
  <2> QED
    BY <2>1, <2>2 DEF f
<1>4. PICK m \in S : \A i \in S : i <= m
  <2>1. S \in SUBSET (0..Len(path)) /\ S # {}
    BY <1>3
  <2> HIDE DEF S
  <2> QED
    BY <1>1, <2>1, Largest
<1> DEFINE f == SubSeq(path, 1, m)
<1>5. f \in firsts /\ IsNearest(t, path, f)
  <2>1. m \in 0..Len(path) /\ f \in DOMAIN t /\ Len(f) = m
    BY <1>2
  <2>2. ASSUME NEW n \in (m + 1)..Len(path), SubSeq(path, 1, n) \in DOMAIN t
        PROVE  FALSE
    <3>1. n \in 0..Len(path) /\ ~(n <= m)
      BY <1>1, <2>1
    <3>2. n \in S
      BY <2>2, <3>1
    <3> QED
      BY <1>4, <3>1, <3>2
  <2>3. IsNearest(t, path, f)
    BY <2>1, <2>2 DEF IsNearest
  <2> QED
    BY <2>1, <2>3
<1> HIDE DEF f
<1>6. Nearest(t, path) \in firsts /\ IsNearest(t, path, Nearest(t, path))
  <2> HIDE DEF firsts
  <2>1. \E p \in firsts : IsNearest(t, path, p)
    BY <1>5
  <2> DEFINE near == CHOOSE p \in firsts : IsNearest(t, path, p)
  <2>2. near \in firsts /\ IsNearest(t, path, near)
    BY <2>1
  <2> QED
    BY <2>2 DEF Nearest, firsts
<1>7. PICK n \in 0..Len(path) : Nearest(t, path) = SubSeq(path, 1, n)
  BY <1>6
<1> QED
  BY <1>2, <1>6, <1>7 DEF IsNearest

\* A write in the nearest node, of what is written further down.
LEMMA WrittenInNearest ==
    ASSUME NEW trail \in Path, trail # <<>>, NEW u, IsUpdate(u)
    PROVE  LET here == [k \in {<<Head(trail)>>} |->
                          Applied([p \in Above(Tail(trail)) \union {Tail(trail)} |-> "obj"], Tail(trail), u)]
           IN IsUpdate(here) /\ <<>> \notin DOMAIN here
<1> DEFINE below == Tail(trail)
           c == <<Head(trail)>>
           parents == [p \in Above(below) \union {below} |-> "obj"]
           v == Applied(parents, below, u)
<1>1. below \in Path /\ c \in Path /\ Len(c) = 1
  <2>1. Head(trail) \in STRING /\ below \in Path
    BY HeadTailProperties DEF Path
  <2> QED
    BY <2>1, KeyPath
<1> HIDE DEF below, c
<1>2. Plain(parents) /\ IsTree(parents) /\ \A x \in Path : IsPrefix(x, below) => Kind(parents, x) = "obj"
  BY <1>1, ObjectsTo
<1> HIDE DEF parents
<1>3. Plain(v) /\ IsTree(v)
  BY <1>1, <1>2, AppliedTree
<1> HIDE DEF v
<1>4. DOMAIN [k \in {c} |-> v] = {c} /\ IsUpdate([k \in {c} |-> v])
  BY <1>1, <1>3, OneKey
<1>5. <<>> \notin {c}
  <2>1. c # <<>>
    BY <1>1, OneKeyLong
  <2> QED
    BY <2>1
<1> QED
  BY <1>4, <1>5 DEF c, v, parents, below

LEMMA TargetGood ==
    ASSUME NEW t, GoodTree(t), NEW r, IsRequest(r)
    PROVE  LET w == Target(t, r.path, r.updates) IN GoodWrite(t, w.path, w.updates)
<1> DEFINE m == Merged(r.path, r.updates)
           near == Nearest(t, m.path)
           trail == Rest(m.path, Len(near))
           parents == [p \in Above(Tail(trail)) \union {Tail(trail)} |-> "obj"]
           below == [k \in {<<Head(trail)>>} |-> Applied(parents, Tail(trail), m.updates)]
           here == IF trail = <<>> THEN m.updates ELSE below
           replaced == near # <<>> /\ FitsInline(At(t, near)) /\ <<>> \notin DOMAIN here
           w == Target(t, r.path, r.updates)
<1>1. w = [path |-> near, updates |-> IF replaced THEN [k \in {<<>>} |-> TreeOf(here)] ELSE here]
  BY DEF Target, Nearest, IsNearest
<1>2. /\ m.path \in Path /\ IsUpdate(m.updates)
      /\ <<>> \in DOMAIN m.updates =>
                /\ Kind(m.updates[<<>>], <<>>) # "none"
                /\ m.path = <<>> => Kind(m.updates[<<>>], <<>>) = "obj"
  BY MergedGood
<1> HIDE DEF m
<1>3. Plain(t) /\ IsTree(t) /\ <<>> \in DOMAIN t
  BY EmptyPath, ValueIsPlain DEF GoodTree, Kind
<1>4. near \in DOMAIN t /\ near \in Path /\ IsPrefix(near, m.path)
  BY <1>2, <1>3, NearestIs
<1> HIDE DEF near
<1>5. trail \in Path /\ near \o trail = m.path
  BY <1>2, <1>4, PrefixSplits
<1> HIDE DEF trail
<1>6. trail # <<>> => IsUpdate(below) /\ <<>> \notin DOMAIN below
  BY <1>2, <1>5, WrittenInNearest
<1> HIDE DEF below
<1>7. trail = <<>> => near = m.path
  BY <1>4, <1>5, EmptyConcat
<1>8. /\ IsUpdate(here)
      /\ <<>> \in DOMAIN here =>
                /\ Kind(here[<<>>], <<>>) # "none"
                /\ near = <<>> => Kind(here[<<>>], <<>>) = "obj"
  BY <1>2, <1>6, <1>7
<1> HIDE DEF here
<1>9. CASE replaced
  <2> DEFINE v == TreeOf(here)
             x == [k \in {<<>>} |-> v]
  <2>1. Plain(v) /\ IsTree(v) /\ Kind(v, <<>>) = "obj"
    BY <1>8, <1>9, TreeOfGood
  <2>2. w.path = near /\ w.updates = x
    BY <1>1, <1>9
  <2> HIDE DEF v, w
  <2>3. DOMAIN x = {<<>>} /\ x[<<>>] = v /\ IsUpdate(x)
    BY <2>1, EmptyPath, OneKey
  <2> HIDE DEF x
  <2>4. GoodWrite(t, near, x)
    BY <1>4, <2>1, <2>3 DEF GoodWrite
  <2> QED
    BY <2>2, <2>4 DEF w
<1>10. CASE ~replaced
  <2>1. w.path = near /\ w.updates = here
    BY <1>1, <1>10
  <2>2. <<>> \notin DOMAIN here => Kind(t, near) = "obj"
    <3>1. CASE near = <<>>
      BY <3>1 DEF GoodTree
    <3>2. CASE near # <<>> /\ <<>> \notin DOMAIN here
      <4>1. DOMAIN At(t, near) \subseteq Path /\ \E q \in DOMAIN At(t, near) : q # <<>>
        BY <1>3, <1>4, <1>10, <3>2, AtPlain DEF FitsInline, Plain
      <4>2. PICK q \in Path : q \in DOMAIN At(t, near) /\ q # <<>>
        BY <4>1
      <4>3. near \o q \in DOMAIN t
        BY <1>3, <1>4, <4>2, InAnyAt DEF Plain
      <4> QED
        BY <1>3, <1>4, <4>2, <4>3, NothingBelow
    <3> QED
      BY <3>1, <3>2
  <2> HIDE DEF w, replaced
  <2>3. GoodWrite(t, near, here)
    BY <1>4, <1>8, <2>2 DEF GoodWrite
  <2> QED
    BY <2>1, <2>3 DEF w
<1> QED
  BY <1>9, <1>10

----------------------------------------------------------------------------
\* Patterns.

LEMMA FilledKeys ==
    ASSUME NEW S, NEW pattern \in Seq(S), NEW path \in Path
    PROVE  /\ Len(pattern) \in Nat /\ Len(Filled(pattern, path)) = Len(pattern)
           /\ \A i \in 1..Len(pattern) :
                Filled(pattern, path)[i] = IF i <= Len(path) /\ pattern[i] = "*" THEN path[i] ELSE pattern[i]
<1> DEFINE n == Len(pattern)
           f(i) == IF i <= Len(path) /\ pattern[i] = "*" THEN path[i] ELSE pattern[i]
           e == [i \in 1..n |-> f(i)]
<1>1. n \in Nat /\ DOMAIN pattern = 1..n
  BY LenProperties
<1>2. Filled(pattern, path) = e
  BY <1>1 DEF Filled
<1>3. \A i \in 1..n : e[i] = f(i)
  OBVIOUS
<1> HIDE DEF n, f
<1>4. Len(e) = n
  BY <1>1
<1> HIDE DEF e
<1> QED
  BY <1>1, <1>2, <1>3, <1>4 DEF n, f

\* A pattern with the keys of a path that it is on the trail of.
LEMMA FilledPrefix ==
    ASSUME NEW S, NEW pattern \in Seq(S), NEW path \in Path, OnTrail(pattern, path), Len(pattern) <= Len(path)
    PROVE  LET e == Filled(pattern, path) IN e \in Path /\ Len(e) = Len(pattern) /\ IsPrefix(e, path)
<1> DEFINE n == Len(pattern)
           e == Filled(pattern, path)
           f == SubSeq(path, 1, n)
<1>1. /\ n \in Nat /\ Len(e) = n /\ DOMAIN pattern = 1..n
      /\ \A i \in 1..n : e[i] = IF i <= Len(path) /\ pattern[i] = "*" THEN path[i] ELSE pattern[i]
  BY FilledKeys, LenProperties
<1>2. Len(path) \in Nat /\ n <= Len(path)
  BY PathLength
<1>3. \A i \in 1..n : pattern[i] \in {path[i], "*"}
  BY <1>1, <1>2 DEF OnTrail
<1>4. f \in Path /\ Len(f) = n /\ IsPrefix(f, path)
  BY <1>1, <1>2, FirstIsPrefix
<1>5. e = [i \in 1..n |-> e[i]]
  <2>1. e = [i \in 1..n |-> IF i <= Len(path) /\ pattern[i] = "*" THEN path[i] ELSE pattern[i]]
    BY <1>1 DEF Filled
  <2> QED
    BY <2>1
<1>6. f = [i \in 1..n |-> f[i]]
  <2> HIDE DEF f
  <2>1. DOMAIN f = 1..n /\ f = [i \in DOMAIN f |-> f[i]]
    BY <1>4, LenProperties DEF Path
  <2> QED
    BY <2>1
<1>7. \A i \in 1..n : f[i] = path[i]
  <2> HIDE DEF f
  <2> QED
    BY <1>4, PrefixKeys
<1> HIDE DEF e, f, n
<1>8. \A i \in 1..n : e[i] = f[i]
  BY <1>1, <1>2, <1>3, <1>7
<1>9. e = f
  BY <1>5, <1>6, <1>8
<1> QED
  BY <1>4, <1>9 DEF e, n

LEMMA FilledTrail ==
    ASSUME NEW pattern \in Path, NEW path \in Path, OnTrail(Filled(pattern, path), path)
    PROVE  OnTrail(pattern, path)
<1> DEFINE e == Filled(pattern, path)
<1>1. /\ Len(e) = Len(pattern)
      /\ \A i \in 1..Len(pattern) : e[i] = IF i <= Len(path) /\ pattern[i] = "*" THEN path[i] ELSE pattern[i]
  BY FilledKeys DEF Path
<1>2. Len(pattern) \in Nat /\ Len(path) \in Nat
  BY PathLength
<1> DEFINE n == IF Len(pattern) < Len(path) THEN Len(pattern) ELSE Len(path)
<1>3. \A i \in 1..n : e[i] \in {path[i], "*"}
  BY <1>1 DEF OnTrail
<1> HIDE DEF e
<1>4. n \in Nat /\ n <= Len(pattern) /\ n <= Len(path)
  BY <1>2
<1> HIDE DEF n
<1>5. \A i \in 1..n : pattern[i] \in {path[i], "*"}
  BY <1>1, <1>2, <1>3, <1>4
<1> QED
  BY <1>5 DEF OnTrail, n

----------------------------------------------------------------------------
\* What a write has an impact on.

LEMMA NeededAbove ==
    ASSUME NEW s, s.path \in Path, NEW path \in Path, NEW d \in DataNeeded(s, path)
    PROVE  d \in Path /\ IsPrefix(d, path)
<1> DEFINE e == Filled(s.path, path)
<1>1. Len(e) = Len(s.path) /\ Len(e) \in Nat
  BY FilledKeys DEF Path
<1>2. Len(path) \in Nat /\ Len(e) \in Nat
  BY <1>1, PathLength
<1>3. /\ OnTrail(e, path) /\ ~(Len(path) - Len(e) < 0)
      /\ d = e \/ d = path \/ (d = SubSeq(path, 1, Len(e) + 1) /\ Len(path) - Len(e) > 0)
  BY DEF DataNeeded
<1>4. e \in Path /\ IsPrefix(e, path)
  <2>1. Len(s.path) <= Len(path)
    BY <1>1, <1>2, <1>3
  <2> QED
    BY <1>3, <2>1, FilledTrail, FilledPrefix DEF Path
<1> HIDE DEF e
<1>5. CASE d = e
  BY <1>1, <1>4, <1>5
<1>6. CASE d = path
  BY <1>6, PrefixReflexive
<1>7. CASE d = SubSeq(path, 1, Len(e) + 1) /\ Len(path) - Len(e) > 0
  <2>1. Len(e) + 1 \in Nat /\ Len(e) + 1 <= Len(path)
    BY <1>2, <1>7
  <2> QED
    BY <1>7, <2>1, FirstIsPrefix
<1> QED
  BY <1>3, <1>5, <1>6, <1>7

LEMMA ShortestIs ==
    ASSUME NEW S \in SUBSET Path, S # {}
    PROVE  Shortest(S) \in S /\ \A q \in S : Len(Shortest(S)) <= Len(q)
<1> DEFINE T == {Len(p) : p \in S}
<1>1. T \subseteq Nat /\ T # {}
  BY PathLength
<1>2. PICK m \in T : \A i \in T : m <= i
  <2> HIDE DEF T
  <2> QED
    BY <1>1, Smallest
<1>3. PICK p \in S : m = Len(p)
  BY <1>2
<1>4. \A q \in S : Len(p) <= Len(q)
  BY <1>2, <1>3
<1> QED
  BY <1>4 DEF Shortest

GoodSub(s) == s.path \in Path

\* The values a subscriber needs are loaded, with all that is below them.
IsLoadedFor(w, s) ==
    s.type # "mutated" => \A d \in DataNeeded(s, w.path) : \E l \in w.keys : IsPrefix(w.top \o l, d)

\* The impact of a write: the data that is loaded is above it, and has all that
\* it changes.
GoodImpact(w) ==
    /\ w.path \in Path /\ w.top \in Path /\ IsPrefix(w.top, w.path)
    /\ w.keys \subseteq Path
    /\ \A k \in DOMAIN w.updates : \E l \in w.keys : IsPrefix(w.top \o l, w.path \o k)
    /\ \A i \in w.indexes : Len(w.top) <= Len(i.path) + 1
    /\ \A s \in w.subs : GoodSub(s) /\ DataPath(s, w.path) # {} /\ IsLoadedFor(w, s)

GoodIndex(i) == i.path \in Path /\ i.key \in Path /\ i.include \subseteq Path

Pattern == Seq(STRING \union {"*"})

LEMMA PatternOf ==
    ASSUME NEW p \in Path
    PROVE  /\ Append(p, "*") \in Pattern /\ Len(Append(p, "*")) = Len(p) + 1
           /\ \A j \in 1..Len(p) : Append(p, "*")[j] = p[j]
           /\ Append(p, "*")[Len(p) + 1] = "*"
<1> DEFINE S == STRING \union {"*"}
<1>1. p \in Seq(S)
  <2>1. Len(p) \in Nat /\ p \in [1..Len(p) -> STRING]
    BY LenProperties DEF Path
  <2>2. p \in [1..Len(p) -> S]
    BY <2>1
  <2> HIDE DEF S
  <2> QED
    BY <2>1, <2>2, SeqDef
<1>2. "*" \in S
  OBVIOUS
<1> HIDE DEF S
<1> QED
  BY <1>1, <1>2, AppendProperties DEF S, Pattern

LEMMA ImpactGood ==
    ASSUME NEW S, \A s \in S : GoodSub(s), NEW I, \A i \in I : GoodIndex(i),
           NEW path \in Path, NEW updates, \A k \in DOMAIN updates : k \in Path
    PROVE  LET w == Impact(S, I, path, updates) IN
           /\ GoodImpact(w)
           /\ w.path = path /\ w.updates = updates
           /\ w.subs = AllSubscribers(S, path) /\ w.indexes = AffectedIndexes(I, path)
<1> DEFINE needed == UNION {DataNeeded(s, path) : s \in S}
           top == IF needed = {} THEN path ELSE Shortest(needed)
           values == \E s \in S : top \in DataNeeded(s, path) /\ s.type # "mutated"
           affected == AffectedIndexes(I, path)
           paths == {i.path : i \in affected}
           topIndex == Shortest(paths)
           record == IF topIndex = path THEN path ELSE Filled(Append(topIndex, "*"), path)
           higher == affected # {} /\ Len(record) < Len(top)
           indexKeys == UNION {IndexKeys(i) : i \in {j \in affected : j.path = topIndex}}
           keys == CASE higher -> indexKeys
                     [] ~higher /\ ~values /\ <<>> \notin DOMAIN updates ->
                          {Rest(path, Len(top)) \o r : r \in DOMAIN updates}
                     [] OTHER -> {<<>>}
           w == Impact(S, I, path, updates)
<1>1. w = [path |-> path, updates |-> updates, subs |-> AllSubscribers(S, path), indexes |-> affected,
           top |-> IF higher THEN record ELSE top, keys |-> keys]
  BY DEF Impact
<1> HIDE DEF w
<1>2. w.path = path /\ w.updates = updates /\ w.subs = AllSubscribers(S, path)
      /\ w.indexes = affected /\ w.top = (IF higher THEN record ELSE top) /\ w.keys = keys
  BY <1>1
<1>3. top \in Path /\ IsPrefix(top, path)
  <2>1. CASE needed = {}
    BY <2>1, PrefixReflexive
  <2>2. CASE needed # {}
    <3>1. ASSUME NEW d \in needed
          PROVE  d \in Path /\ IsPrefix(d, path)
      <4>1. PICK s \in S : d \in DataNeeded(s, path)
        OBVIOUS
      <4> QED
        BY <4>1, NeededAbove DEF GoodSub
    <3> HIDE DEF needed
    <3>2. Shortest(needed) \in needed
      BY <2>2, <3>1, ShortestIs
    <3> QED
      BY <2>2, <3>1, <3>2
  <2> QED
    BY <2>1, <2>2
<1>10. \A s \in S : \A d \in DataNeeded(s, path) : d \in Path /\ IsPrefix(d, path) /\ Len(top) <= Len(d)
  <2> TAKE s \in S
  <2> TAKE d \in DataNeeded(s, path)
  <2>1. d \in Path /\ IsPrefix(d, path)
    BY NeededAbove DEF GoodSub
  <2>2. ASSUME NEW c \in needed
        PROVE  c \in Path
    <3>1. PICK r \in S : c \in DataNeeded(r, path)
      OBVIOUS
    <3> QED
      BY <3>1, NeededAbove DEF GoodSub
  <2>3. d \in needed
    OBVIOUS
  <2> HIDE DEF needed
  <2>4. Len(Shortest(needed)) <= Len(d)
    BY <2>2, <2>3, ShortestIs
  <2> QED
    BY <2>1, <2>3, <2>4
<1>11. ASSUME NEW s \in S, s.type # "mutated", NEW d \in DataNeeded(s, path), ~values
       PROVE  FALSE
  <2>1. d \in needed
    OBVIOUS
  <2>2. ASSUME NEW c \in needed
        PROVE  c \in Path
    <3>1. PICK r \in S : c \in DataNeeded(r, path)
      OBVIOUS
    <3> QED
      BY <3>1, NeededAbove DEF GoodSub
  <2>3. top \in needed
    <3> HIDE DEF needed
    <3> QED
      BY <2>1, <2>2, ShortestIs
  <2>4. PICK r \in S : top \in DataNeeded(r, path)
    BY <2>3
  <2> HIDE DEF top
  <2>5. r.type = "mutated"
    BY <1>11, <2>4
  <2>6. top = path
    BY <2>4, <2>5 DEF DataNeeded, MutationEvents, ParentEvents
  <2>7. d = path
    <3>1. d \in Path /\ IsPrefix(d, path) /\ Len(path) <= Len(d)
      BY <1>10, <2>6
    <3>2. Len(d) = Len(path)
      <4>1. Len(d) \in Nat /\ Len(path) \in Nat /\ Len(d) <= Len(path)
        BY <3>1, PathLength, PrefixLength
      <4> QED
        BY <3>1, <4>1
    <3> QED
      BY <3>1, <3>2, PrefixLength
  <2> QED
    BY <1>11, <2>6, <2>7
<1>12. \A s \in AllSubscribers(S, path) : s \in S /\ GoodSub(s) /\ DataPath(s, path) # {}
  BY DEF AllSubscribers
<1> HIDE DEF top, values
<1>4. \A i \in affected : i \in I /\ GoodIndex(i) /\ OnTrail(RecordPattern(i), path)
  BY DEF AffectedIndexes
<1>5. ASSUME affected # {}
      PROVE  topIndex \in paths /\ topIndex \in Path /\ \A i \in affected : Len(topIndex) <= Len(i.path)
  <2>1. paths \subseteq Path /\ paths # {}
    BY <1>4, <1>5 DEF GoodIndex
  <2>2. \A i \in affected : i.path \in paths
    OBVIOUS
  <2> HIDE DEF paths, affected
  <2> QED
    BY <2>1, <2>2, ShortestIs
<1> HIDE DEF topIndex
<1>6. Len(path) \in Nat /\ Len(top) \in Nat /\ Len(top) <= Len(path)
  BY <1>3, PathLength, PrefixLength
<1>7. ASSUME affected # {}
      PROVE  Len(record) \in Nat
             /\ (topIndex # path => Len(record) = Len(topIndex) + 1) /\ (topIndex = path => record = path)
  <2>1. Append(topIndex, "*") \in Pattern /\ Len(Append(topIndex, "*")) = Len(topIndex) + 1
    BY <1>5, <1>7, PatternOf
  <2> DEFINE pattern == Append(topIndex, "*")
  <2>2. pattern \in Pattern /\ Len(pattern) = Len(topIndex) + 1
    BY <2>1
  <2> HIDE DEF pattern
  <2>3. Len(pattern) \in Nat /\ Len(Filled(pattern, path)) = Len(topIndex) + 1
    BY <2>2, FilledKeys DEF Pattern
  <2>4. record = IF topIndex = path THEN path ELSE Filled(pattern, path)
    BY DEF pattern
  <2> HIDE DEF record
  <2>5. Len(record) \in Nat
    BY <1>6, <2>2, <2>3, <2>4
  <2> QED
    BY <2>3, <2>4, <2>5
<1>8. CASE higher
  <2>1. topIndex # path /\ Len(record) = Len(topIndex) + 1 /\ Len(record) < Len(path)
    BY <1>6, <1>7, <1>8
  <2>2. PICK i \in affected : i.path = topIndex
    BY <1>5, <1>8
  <2> DEFINE pattern == RecordPattern(i)
             n == Len(record)
  <2>3. pattern = Append(topIndex, "*") /\ pattern \in Pattern /\ Len(pattern) = Len(record) /\ OnTrail(pattern, path)
    BY <1>4, <1>5, <1>8, <2>1, <2>2, PatternOf DEF RecordPattern
  <2>4. <<path[n + 1]>> \in IndexKeys(i)
    BY <1>6, <2>1, <2>2, <2>3 DEF AffectedIndexes
  <2>5. record = Filled(pattern, path)
    BY <2>1, <2>3
  <2> HIDE DEF record, pattern
  <2>6. record \in Path /\ IsPrefix(record, path)
    <3>1. Len(pattern) <= Len(path)
      BY <1>6, <1>7, <1>8, <2>1, <2>3 DEF record
    <3> QED
      BY <2>3, <2>5, <3>1, FilledPrefix DEF Pattern
  <2> DEFINE c == <<path[n + 1]>>
  <2>7. n \in Nat /\ n + 1 \in 1..Len(path)
    BY <1>6, <1>7, <1>8, <2>1 DEF record
  <2>8. c \in Path /\ Len(c) = 1 /\ c[1] = path[n + 1]
    BY <2>7, KeyOf, KeyPath
  <2>9. c \in IndexKeys(i)
    BY <2>4
  <2> HIDE DEF c
  <2>10. IsPrefix(record \o c, path)
    <3>1. record \o c \in Path /\ Len(record \o c) = n + 1
          /\ (\A j \in 1..n : (record \o c)[j] = record[j]) /\ (record \o c)[n + 1] = path[n + 1]
      <4> DEFINE rc == record \o c
      <4>1. /\ rc \in Path /\ Len(rc) = Len(record) + Len(c)
            /\ \A j \in 1..Len(record) : rc[j] = record[j]
            /\ \A j \in 1..Len(c) : rc[Len(record) + j] = c[j]
        BY <2>6, <2>8, ConcatKeys
      <4>2. 1 \in 1..Len(c)
        BY <2>8
      <4> HIDE DEF rc
      <4>3. rc[n + 1] = c[1]
        BY <4>1, <4>2
      <4>4. Len(rc) = n + 1
        BY <2>8, <4>1
      <4> QED
        BY <2>8, <4>1, <4>3, <4>4 DEF rc
    <3> DEFINE rc == record \o c
    <3>2. rc \in Path /\ Len(rc) = n + 1 /\ (\A j \in 1..n : rc[j] = record[j]) /\ rc[n + 1] = path[n + 1]
      BY <3>1
    <3> HIDE DEF rc
    <3>3. \A j \in 1..n : record[j] = path[j]
      BY <2>6, PrefixKeys
    <3>4. \A j \in 1..Len(rc) : rc[j] = path[j]
      BY <2>7, <3>2, <3>3
    <3>5. Len(rc) <= Len(path)
      BY <2>7, <3>2
    <3> QED
      BY <3>2, <3>4, <3>5, PrefixKeys DEF rc
  <2>11. c \in keys /\ keys = indexKeys
    <3>1. keys = indexKeys
      BY <1>8
    <3>2. c \in indexKeys
      BY <2>2, <2>9
    <3> QED
      BY <3>1, <3>2
  <2>12. indexKeys \subseteq Path
    BY <1>4 DEF GoodIndex, IndexKeys
  <2> HIDE DEF keys, indexKeys
  <2>13. \A k \in DOMAIN updates : IsPrefix(record \o c, path \o k)
    <3> TAKE k \in DOMAIN updates
    <3>1. IsPrefix(path, path \o k) /\ path \o k \in Path /\ record \o c \in Path
      BY <2>6, <2>8, Concat, Extends
    <3> QED
      BY <2>10, <3>1, PrefixTransitive
  <2>14. w.top = record /\ w.keys = keys
    BY <1>2, <1>8
  <2>15. \A j \in affected : Len(record) <= Len(j.path) + 1
    <3> TAKE j \in affected
    <3>1. Len(topIndex) <= Len(j.path) /\ Len(topIndex) \in Nat /\ Len(j.path) \in Nat
      BY <1>4, <1>5, PathLength DEF GoodIndex
    <3> QED
      BY <2>1, <3>1
  <2> HIDE DEF affected
  <2>17. ASSUME NEW s \in AllSubscribers(S, path)
         PROVE  IsLoadedFor(w, s)
    <3>1. ASSUME NEW d \in DataNeeded(s, path)
          PROVE  IsPrefix(record \o c, d)
      <4>1. d \in Path /\ IsPrefix(d, path) /\ Len(top) <= Len(d)
        BY <1>10, <1>12
      <4> DEFINE rc == record \o c
      <4>2. rc \in Path /\ Len(rc) = Len(record) + 1 /\ IsPrefix(rc, path)
        <5>1. rc \in Path /\ Len(rc) = Len(record) + Len(c)
          BY <2>6, <2>8, Concat
        <5> QED
          BY <2>8, <2>10, <5>1
      <4>3. Len(record) < Len(top) /\ Len(record) \in Nat /\ Len(d) \in Nat
        BY <1>8, <4>1, <2>7, PathLength
      <4> HIDE DEF rc
      <4>4. Len(rc) <= Len(d)
        BY <1>6, <4>1, <4>2, <4>3
      <4> QED
        BY <4>1, <4>2, <4>4, PrefixesOrdered DEF rc
    <3> QED
      BY <1>2, <2>11, <2>14, <3>1 DEF IsLoadedFor
  <2>16. GoodImpact(w)
    BY <1>2, <1>12, <2>1, <2>6, <2>11, <2>12, <2>13, <2>14, <2>15, <2>17 DEF GoodImpact
  <2> QED
    BY <1>2, <2>16 DEF w, affected
<1>9. CASE ~higher
  <2>1. w.top = top /\ w.keys = keys
    BY <1>2, <1>9
  <2>2. \A j \in affected : Len(top) <= Len(j.path) + 1
    <3> TAKE j \in affected
    <3>1. Len(topIndex) <= Len(j.path) /\ Len(topIndex) \in Nat /\ Len(j.path) \in Nat
      BY <1>4, <1>5, PathLength DEF GoodIndex
    <3>2. Len(record) \in Nat
             /\ (topIndex # path => Len(record) = Len(topIndex) + 1) /\ (topIndex = path => record = path)
      BY <1>7
    <3>3. ~(Len(record) < Len(top))
      BY <1>9
    <3> QED
      BY <1>6, <3>1, <3>2, <3>3
  <2>3. CASE ~values /\ <<>> \notin DOMAIN updates
    <3> DEFINE rest == Rest(path, Len(top))
               made == {rest \o r : r \in DOMAIN updates}
    <3>1. keys = made
      BY <1>9, <2>3
    <3>2. rest \in Path /\ top \o rest = path
      BY <1>3, PrefixSplits
    <3> HIDE DEF rest, keys
    <3>3. made \subseteq Path
      BY <3>2, Concat
    <3>4. ASSUME NEW k \in DOMAIN updates
          PROVE  \E l \in made : IsPrefix(top \o l, path \o k)
      <4>3. k \in Path /\ path \o k \in Path
        BY <3>4, Concat
      <4>5. top \in Path /\ rest \in Path /\ k \in Path
        BY <1>3, <3>2, <4>3
      <4> HIDE DEF top
      <4>4. (top \o rest) \o k = top \o (rest \o k)
        BY <4>5, Associative
      <4>1. (top \o rest) \o k = top \o (rest \o k) /\ path \o k \in Path
        BY <4>3, <4>4
      <4>2. IsPrefix(top \o (rest \o k), path \o k)
        BY <3>2, <4>1, PrefixReflexive
      <4> QED
        BY <4>2
    <3> HIDE DEF made, affected
    <3>5. \A s \in AllSubscribers(S, path) : IsLoadedFor(w, s)
      BY <1>2, <1>11, <1>12, <2>3 DEF IsLoadedFor
    <3>6. GoodImpact(w)
      BY <1>2, <1>3, <1>12, <2>1, <2>2, <3>1, <3>3, <3>4, <3>5 DEF GoodImpact
    <3> QED
      BY <1>2, <3>6 DEF w, affected
  <2>4. CASE ~(~values /\ <<>> \notin DOMAIN updates)
    <3>1. keys = {<<>>}
      BY <1>9, <2>4
    <3> HIDE DEF keys
    <3>2. ASSUME NEW k \in DOMAIN updates
          PROVE  IsPrefix(top \o <<>>, path \o k)
      <4>1. top \o <<>> = top /\ IsPrefix(path, path \o k) /\ path \o k \in Path
        BY <1>3, EmptyConcat, Extends, Concat
      <4> QED
        BY <1>3, <4>1, PrefixTransitive
    <3> HIDE DEF affected
    <3>3. ASSUME NEW s \in AllSubscribers(S, path)
          PROVE  IsLoadedFor(w, s)
      <4>1. ASSUME NEW d \in DataNeeded(s, path)
            PROVE  IsPrefix(top \o <<>>, d)
        <5>1. d \in Path /\ IsPrefix(d, path) /\ Len(top) <= Len(d)
          BY <1>10, <1>12
        <5>2. top \o <<>> = top
          BY <1>3, EmptyConcat
        <5> QED
          BY <1>3, <5>1, <5>2, PrefixesOrdered
      <4> QED
        BY <1>2, <2>1, <3>1, <4>1 DEF IsLoadedFor
    <3>4. GoodImpact(w)
      BY <1>2, <1>3, <1>12, <2>1, <2>2, <3>1, <3>2, <3>3, EmptyPath DEF GoodImpact
    <3> QED
      BY <1>2, <3>4 DEF w, affected
  <2> QED
    BY <2>3, <2>4
<1> QED
  BY <1>8, <1>9

----------------------------------------------------------------------------
\* The data that a write has loaded, before and after.

LEMMA AtTree ==
    ASSUME NEW t, Plain(t), IsTree(t), NEW p \in Path
    PROVE  IsTree(At(t, p))
<1> DEFINE a == At(t, p)
<1>1. Plain(a)
  BY AtPlain
<1>2. \A q \in Path : q \in DOMAIN a <=> p \o q \in DOMAIN t
  BY InAnyAt DEF Plain
<1>3. \A q \in Path : Kind(a, q) = Kind(t, p \o q)
  BY AtKind DEF Plain
<1> HIDE DEF a
<1>4. ASSUME NEW q \in DOMAIN a, NEW x \in Above(q)
      PROVE  Kind(a, x) = "obj"
  <2>1. q \in Path /\ x \in Path /\ IsPrefix(x, q) /\ x # q
    BY <1>1, <1>4, AboveMeans DEF Plain
  <2>2. p \o q \in Path /\ p \o x \in Path /\ IsPrefix(p \o x, p \o q) /\ p \o x # p \o q
    BY <2>1, Concat, PrefixBelow, Cancel
  <2> DEFINE pq == p \o q
             px == p \o x
  <2>3. pq \in Path /\ px \in Path /\ IsPrefix(px, pq) /\ px # pq /\ pq \in DOMAIN t
    BY <1>2, <1>4, <2>1, <2>2
  <2> HIDE DEF pq, px
  <2>4. Kind(t, px) = "obj"
    BY <2>3, ValueAbove
  <2> QED
    BY <1>3, <2>1, <2>4 DEF px
<1> QED
  BY <1>1, <1>4 DEF IsTree, Plain, a

\* Whether the path q is among the keys that are loaded, or above or below one.
Near(keys, q) == \E k \in keys : IsPrefix(q, k) \/ IsPrefix(k, q)

LEMMA IncludeIs ==
    ASSUME NEW t, Plain(t), IsTree(t), NEW keys \in SUBSET Path
    PROVE  LET i == Include(t, keys) IN
           /\ Plain(i) /\ IsTree(i) /\ i = [p \in DOMAIN i |-> i[p]]
           /\ \A q \in Path : Kind(i, q) = IF Near(keys, q) THEN Kind(t, q) ELSE "none"
<1> DEFINE i == Include(t, keys)
<1>1. /\ \A q : q \in DOMAIN i <=> q \in DOMAIN t /\ Near(keys, q)
      /\ \A q \in DOMAIN i : i[q] = t[q]
  BY DEF Include, Near
<1>2. i = [p \in DOMAIN i |-> i[p]]
  BY DEF Include
<1> HIDE DEF i
<1>3. Plain(i)
  BY <1>1 DEF Plain
<1>4. \A q \in Path : Kind(i, q) = IF Near(keys, q) THEN Kind(t, q) ELSE "none"
  BY <1>1 DEF Kind
<1>5. ASSUME NEW q \in DOMAIN i, NEW x \in Above(q)
      PROVE  Kind(i, x) = "obj"
  <2>1. q \in DOMAIN t /\ q \in Path /\ Near(keys, q)
    BY <1>1 DEF Plain
  <2>2. x \in Path /\ IsPrefix(x, q) /\ x # q
    BY <2>1, AboveMeans
  <2>3. Near(keys, x)
    <3>1. PICK k \in keys : IsPrefix(q, k) \/ IsPrefix(k, q)
      BY <2>1 DEF Near
    <3>2. k \in Path
      OBVIOUS
    <3>3. IsPrefix(x, k) \/ IsPrefix(k, x)
      <4>1. CASE IsPrefix(q, k)
        BY <2>1, <2>2, <3>2, <4>1, PrefixTransitive
      <4>2. CASE IsPrefix(k, q)
        BY <2>1, <2>2, <3>2, <4>2, PrefixesCompare
      <4> QED
        BY <3>1, <4>1, <4>2
    <3> QED
      BY <3>3 DEF Near
  <2>4. Kind(t, x) = "obj"
    BY <2>1, <2>2, ValueAbove
  <2> QED
    BY <1>4, <2>2, <2>3, <2>4
<1> QED
  BY <1>2, <1>3, <1>4, <1>5 DEF IsTree, Plain, i

After(t, w) == Applied(t, w.path, w.updates)
Changed(t, w, q) == Kind(t, q) # Kind(After(t, w), q)

\* A change is where the update is, and that is loaded with all below it.
LEMMA ChangeIsLoaded ==
    ASSUME NEW t, GoodTree(t), NEW w, GoodImpact(w), GoodWrite(t, w.path, w.updates),
           NEW q \in Path, Changed(t, w, q)
    PROVE  /\ IsPrefix(w.path, q)
           /\ \E l \in w.keys : IsPrefix(w.top \o l, q)
<1>1. Plain(t) /\ w.path \in Path /\ w.top \in Path /\ w.keys \subseteq Path /\ IsUpdate(w.updates)
  BY ValueIsPlain DEF GoodTree, GoodImpact, GoodWrite
<1> DEFINE path == w.path
           u == w.updates
<1>2. \E k \in DOMAIN u : k \in Path /\ IsPrefix(path \o k, q)
  <2>1. path \in Path /\ IsUpdate(u) /\ Kind(Applied(t, path, u), q) # Kind(t, q)
    BY <1>1 DEF Changed, After
  <2> HIDE DEF path, u
  <2> QED
    BY <1>1, <2>1, ChangedAt
<1>3. PICK k \in DOMAIN u : k \in Path /\ IsPrefix(path \o k, q)
  BY <1>2
<1>4. PICK l \in w.keys : IsPrefix(w.top \o l, path \o k)
  BY DEF GoodImpact
<1>5. path \o k \in Path /\ w.top \o l \in Path /\ IsPrefix(path, path \o k)
  <2>1. l \in Path /\ path \in Path /\ w.top \in Path
    BY <1>1
  <2> HIDE DEF path
  <2> QED
    BY <1>3, <2>1, Concat, Extends
<1> DEFINE pk == path \o k
           tl == w.top \o l
<1>6. pk \in Path /\ tl \in Path /\ path \in Path /\ IsPrefix(path, pk) /\ IsPrefix(tl, pk) /\ IsPrefix(pk, q)
  BY <1>1, <1>3, <1>4, <1>5
<1>7. IsPrefix(path, q) /\ IsPrefix(tl, q)
  <2> HIDE DEF pk, tl, path
  <2> QED
    BY <1>6, PrefixTransitive
<1> QED
  BY <1>7

\* What is loaded is the data as far as it is near the keys.
IsLoaded(t, w) ==
    LET old == OldData(t, w)
        new == NewData(t, w)
    IN /\ Plain(old) /\ IsTree(old) /\ old = [p \in DOMAIN old |-> old[p]] /\ <<>> \in DOMAIN old
       /\ Plain(new) /\ IsTree(new) /\ new = [p \in DOMAIN new |-> new[p]]
       /\ \A q \in Path :
            /\ Kind(old, q) = IF Near(w.keys, q) THEN Kind(t, w.top \o q) ELSE "none"
            /\ Kind(new, q) = IF Near(w.keys, q) THEN Kind(After(t, w), w.top \o q) ELSE "none"

LEMMA Loaded ==
    ASSUME NEW t, GoodTree(t), NEW w, GoodImpact(w), GoodWrite(t, w.path, w.updates)
    PROVE  IsLoaded(t, w)
<1> DEFINE path == w.path
           u == w.updates
           top == w.top
           keys == w.keys
           old == OldData(t, w)
           new == NewData(t, w)
           down == Rest(path, Len(top))
<1>1. /\ Plain(t) /\ IsTree(t)
      /\ path \in Path /\ top \in Path /\ IsPrefix(top, path) /\ keys \in SUBSET Path /\ IsUpdate(u)
      /\ \A k \in DOMAIN u : \E l \in keys : IsPrefix(top \o l, path \o k)
      /\ path \in DOMAIN t /\ (<<>> \notin DOMAIN u => Kind(t, path) = "obj")
  BY ValueIsPlain DEF GoodTree, GoodImpact, GoodWrite
<1>2. old = Include(At(t, top), keys)
  BY DEF OldData
<1>3. new = Applied(IF old = Null THEN Object ELSE old, down, u)
  BY DEF NewData
<1>4. After(t, w) = Applied(t, path, u)
  BY DEF After
<1> HIDE DEF path, u, top, keys, old, new
<1>5. Plain(At(t, top)) /\ IsTree(At(t, top)) /\ \A q \in Path : Kind(At(t, top), q) = Kind(t, top \o q)
  <2>1. DOMAIN t \subseteq Path
    BY <1>1 DEF Plain
  <2> QED
    BY <1>1, <2>1, AtPlain, AtTree, AtKind
<1>6. /\ Plain(old) /\ IsTree(old) /\ old = [p \in DOMAIN old |-> old[p]]
      /\ \A q \in Path : Kind(old, q) = IF Near(keys, q) THEN Kind(t, top \o q) ELSE "none"
  <2> DEFINE at == At(t, top)
  <2>1. Plain(at) /\ IsTree(at) /\ (\A q \in Path : Kind(at, q) = Kind(t, top \o q)) /\ old = Include(at, keys)
    BY <1>2, <1>5
  <2> HIDE DEF at
  <2>2. /\ Plain(old) /\ IsTree(old) /\ old = [p \in DOMAIN old |-> old[p]]
        /\ \A q \in Path : Kind(old, q) = IF Near(keys, q) THEN Kind(at, q) ELSE "none"
    BY <1>1, <2>1, IncludeIs
  <2> QED
    BY <2>1, <2>2
<1>7. down \in Path /\ top \o down = path
  BY <1>1, PrefixSplits
<1> HIDE DEF down
<1>8. \A k \in DOMAIN u : k \in Path
  BY <1>1, UpdateKeys
<1>9. ASSUME NEW k \in DOMAIN u
      PROVE  /\ down \o k \in Path /\ top \o (down \o k) = path \o k
             /\ \E l \in keys : IsPrefix(l, down \o k)
  <2>1. k \in Path
    BY <1>8
  <2>5. (top \o down) \o k = top \o (down \o k)
    <3>1. Regroups(top, down, k)
      BY <1>1, <1>7, <2>1, Regroup
    <3> QED
      BY <3>1 DEF Regroups
  <2>2. down \o k \in Path /\ (top \o down) \o k = top \o (down \o k)
    BY <1>7, <2>1, <2>5, Concat
  <2>3. PICK l \in keys : IsPrefix(top \o l, path \o k)
    BY <1>1
  <2> DEFINE dk == down \o k
  <2>4. dk \in Path /\ l \in Path /\ IsPrefix(top \o l, top \o dk)
    BY <1>1, <1>7, <2>2, <2>3
  <2> HIDE DEF dk
  <2>6. IsPrefix(l, dk)
    BY <1>1, <2>4, PrefixBelow
  <2> QED
    BY <1>7, <2>2, <2>6 DEF dk
<1>10. \A x \in Path : IsPrefix(x, down) => Near(keys, x)
  <2> TAKE x \in Path
  <2> HAVE IsPrefix(x, down)
  <2>1. PICK k \in DOMAIN u : TRUE
    BY <1>1 DEF IsUpdate
  <2>2. PICK l \in keys : IsPrefix(l, down \o k)
    BY <1>9
  <2>3. l \in Path /\ down \o k \in Path /\ IsPrefix(down, down \o k)
    BY <1>1, <1>7, <1>8, Concat, Extends
  <2> DEFINE dk == down \o k
  <2>4. dk \in Path /\ IsPrefix(down, dk) /\ IsPrefix(l, dk)
    BY <2>2, <2>3
  <2> HIDE DEF dk
  <2>5. IsPrefix(x, dk)
    BY <1>7, <2>4, PrefixTransitive
  <2>6. IsPrefix(x, l) \/ IsPrefix(l, x)
    BY <2>3, <2>4, <2>5, PrefixesCompare
  <2> QED
    BY <2>6 DEF Near
<1>11. \A x \in Path : IsPrefix(x, down) /\ (x # down \/ <<>> \notin DOMAIN u) => Kind(old, x) = "obj"
  <2> TAKE x \in Path
  <2> HAVE IsPrefix(x, down) /\ (x # down \/ <<>> \notin DOMAIN u)
  <2>1. top \o x \in Path /\ IsPrefix(top \o x, top \o down) /\ (x # down => top \o x # top \o down)
    BY <1>1, <1>7, Concat, PrefixBelow, Cancel
  <2> DEFINE tx == top \o x
  <2>2. tx \in Path /\ IsPrefix(tx, path) /\ (tx # path \/ <<>> \notin DOMAIN u)
    BY <1>7, <2>1
  <2> HIDE DEF tx
  <2>3. Kind(t, tx) = "obj"
    <3>1. CASE tx = path
      BY <1>1, <2>2, <3>1
    <3>2. CASE tx # path
      BY <1>1, <2>2, <3>2, ValueAbove
    <3> QED
      BY <3>1, <3>2
  <2> QED
    BY <1>6, <1>10, <2>3 DEF tx
<1>12. <<>> \in DOMAIN old /\ old # Null
  <2>1. Near(keys, <<>>) /\ top \o <<>> = top
    BY <1>1, <1>7, <1>10, EmptyPath, EmptyConcat, PrefixReflexive
  <2>2. Kind(old, <<>>) = Kind(t, top)
    BY <1>6, <2>1, EmptyPath
  <2>3. top \in DOMAIN t
    <3>1. CASE top = path
      BY <1>1, <3>1
    <3>2. CASE top # path
      BY <1>1, <3>2, TreeAbove
    <3> QED
      BY <3>1, <3>2
  <2>4. Kind(old, <<>>) # "none"
    BY <1>1, <2>2, <2>3, PlainKind
  <2>5. <<>> \in DOMAIN old
    BY <2>4 DEF Kind
  <2>6. DOMAIN Null = {}
    BY DEF Null
  <2> QED
    BY <2>5, <2>6
<1>13. new = Applied(old, down, u)
  BY <1>3, <1>12
<1>14. Plain(new) /\ IsTree(new) /\ new = [p \in DOMAIN new |-> new[p]]
  <2> HIDE DEF Plain
  <2> QED
    BY <1>1, <1>6, <1>7, <1>11, <1>13, AppliedTree
<1>15. ASSUME NEW q \in Path
       PROVE  Kind(new, q) = IF Near(keys, q) THEN Kind(Applied(t, path, u), top \o q) ELSE "none"
  <2> DEFINE a == Applied(t, path, u)
             tq == top \o q
  <2>1. IsUpdates(u) /\ DOMAIN old \subseteq Path /\ DOMAIN t \subseteq Path /\ tq \in Path
    BY <1>1, <1>6, UpdateKeys, Concat DEF Plain
  <2>2. /\ \A k \in DOMAIN u : IsPrefix(down \o k, q) => Kind(new, q) = Kind(u[k], Rest(q, Len(down \o k)))
        /\ (\A k \in DOMAIN u : ~IsPrefix(down \o k, q)) => Kind(new, q) = Kind(old, q)
    BY <1>7, <1>13, <2>1, AppliedKind
  <2>3. /\ \A k \in DOMAIN u : IsPrefix(path \o k, tq) => Kind(a, tq) = Kind(u[k], Rest(tq, Len(path \o k)))
        /\ (\A k \in DOMAIN u : ~IsPrefix(path \o k, tq)) => Kind(a, tq) = Kind(t, tq)
    BY <1>1, <2>1, AppliedKind
  <2>4. ASSUME NEW k \in DOMAIN u
        PROVE  /\ IsPrefix(path \o k, tq) <=> IsPrefix(down \o k, q)
               /\ IsPrefix(down \o k, q) => Rest(tq, Len(path \o k)) = Rest(q, Len(down \o k))
    <3> DEFINE dk == down \o k
               pk == path \o k
    <3>1. dk \in Path /\ pk = top \o dk /\ pk \in Path
      BY <1>1, <1>8, <1>9, Concat
    <3> HIDE DEF dk, pk
    <3>2. IsPrefix(pk, tq) <=> IsPrefix(dk, q)
      BY <1>1, <3>1, PrefixBelow
    <3>3. ASSUME IsPrefix(dk, q)
          PROVE  Rest(tq, Len(pk)) = Rest(q, Len(dk))
      <4> DEFINE r == Rest(q, Len(dk))
      <4>1. r \in Path /\ dk \o r = q
        BY <3>1, <3>3, PrefixSplits
      <4> HIDE DEF r
      <4>5. top \in Path /\ dk \in Path /\ r \in Path
        BY <1>1, <3>1, <4>1
      <4>4. (top \o dk) \o r = top \o (dk \o r)
        BY <4>5, Associative
      <4>2. tq = pk \o r
        BY <3>1, <4>1, <4>4
      <4>3. Rest(pk \o r, Len(pk)) = r
        BY <3>1, <4>1, RestOfConcat
      <4> QED
        BY <4>2, <4>3 DEF r
    <3> QED
      BY <3>2, <3>3 DEF dk, pk
  <2> HIDE DEF a, tq
  <2>5. CASE \E k \in DOMAIN u : IsPrefix(down \o k, q)
    <3>1. PICK k \in DOMAIN u : IsPrefix(down \o k, q)
      BY <2>5
    <3>2. Kind(new, q) = Kind(a, tq)
      <4>1. IsPrefix(path \o k, tq) /\ Rest(tq, Len(path \o k)) = Rest(q, Len(down \o k))
        BY <2>4, <3>1
      <4>2. Kind(new, q) = Kind(u[k], Rest(q, Len(down \o k)))
        BY <2>2, <3>1
      <4>3. Kind(a, tq) = Kind(u[k], Rest(tq, Len(path \o k)))
        BY <2>3, <4>1
      <4> QED
        BY <4>1, <4>2, <4>3
    <3>3. PICK l \in keys : IsPrefix(l, down \o k) /\ down \o k \in Path
      BY <1>9
    <3> DEFINE dk == down \o k
    <3>4. dk \in Path /\ l \in Path /\ IsPrefix(l, dk) /\ IsPrefix(dk, q)
      BY <1>1, <3>1, <3>3
    <3> HIDE DEF dk
    <3>5. IsPrefix(l, q)
      BY <3>4, PrefixTransitive
    <3>6. Near(keys, q)
      BY <3>5 DEF Near
    <3> QED
      BY <3>2, <3>6 DEF a, tq
  <2>6. CASE \A k \in DOMAIN u : ~IsPrefix(down \o k, q)
    <3>1. Kind(new, q) = Kind(old, q) /\ Kind(a, tq) = Kind(t, tq)
      BY <2>2, <2>3, <2>4, <2>6
    <3> QED
      BY <1>6, <3>1 DEF a, tq
  <2> QED
    BY <2>5, <2>6
<1>16. ASSUME NEW q \in Path
       PROVE  /\ Kind(old, q) = IF Near(w.keys, q) THEN Kind(t, w.top \o q) ELSE "none"
              /\ Kind(new, q) = IF Near(w.keys, q) THEN Kind(After(t, w), w.top \o q) ELSE "none"
  BY <1>4, <1>6, <1>15 DEF top, keys
<1> QED
  BY <1>6, <1>12, <1>14, <1>16 DEF IsLoaded, old, new

----------------------------------------------------------------------------
\* What a write changes, in the database and in the data it has loaded.

LEMMA NullAt ==
    ASSUME NEW t, Plain(t), IsTree(t), NEW p \in Path
    PROVE  At(t, p) = Null <=> Kind(t, p) = "none"
<1> DEFINE a == At(t, p)
<1>1. /\ Plain(a) /\ a = [q \in DOMAIN a |-> a[q]]
      /\ \A q \in Path : Kind(a, q) = Kind(t, p \o q)
  BY AtPlain, AtKind DEF Plain
<1>2. Plain(Null) /\ Null = [q \in DOMAIN Null |-> Null[q]] /\ \A q : Kind(Null, q) = "none"
  BY DEF Null, Plain, Kind
<1> HIDE DEF a
<1>3. a = Null => Kind(t, p) = "none"
  <2>1. Kind(a, <<>>) = Kind(t, p)
    BY <1>1, EmptyPath, EmptyConcat
  <2> QED
    BY <1>2, <2>1
<1>4. ASSUME Kind(t, p) = "none"
      PROVE  a = Null
  <2>1. ASSUME NEW q \in Path
        PROVE  Kind(t, p \o q) = "none"
    <3>1. CASE q = <<>>
      BY <1>4, <3>1, EmptyConcat
    <3>2. CASE q # <<>>
      <4>1. p \o q \notin DOMAIN t
        BY <1>4, <3>2, NothingBelow
      <4> QED
        BY <4>1 DEF Kind
    <3> QED
      BY <3>1, <3>2
  <2>2. \A q \in Path : Kind(a, q) = Kind(Null, q)
    BY <1>1, <1>2, <2>1
  <2> QED
    BY <1>1, <1>2, <2>2, SameTree
<1> QED
  BY <1>3, <1>4 DEF a

Untouched(t, w, q) == \A x \in Path : ~Changed(t, w, q \o x)

LEMMA UntouchedSame ==
    ASSUME NEW t, GoodTree(t), NEW w, GoodWrite(t, w.path, w.updates), NEW q \in Path
    PROVE  Untouched(t, w, q) <=> At(t, q) = At(After(t, w), q)
<1> DEFINE a == After(t, w)
<1>1. Plain(t) /\ Plain(a)
  <2>1. GoodTree(a)
    BY AfterWrite DEF After
  <2> QED
    BY <2>1, ValueIsPlain DEF GoodTree
<1>2. Untouched(t, w, q) <=> \A x \in Path : Kind(t, q \o x) = Kind(a, q \o x)
  BY DEF Untouched, Changed
<1> HIDE DEF a
<1>3. At(t, q) = At(a, q) <=> \A x \in Path : Kind(t, q \o x) = Kind(a, q \o x)
  BY <1>1, SameAt
<1> QED
  BY <1>2, <1>3 DEF a

LEMMA TouchedAt ==
    ASSUME NEW t, GoodTree(t), NEW w, GoodImpact(w), GoodWrite(t, w.path, w.updates),
           NEW p \in Path, ~Untouched(t, w, p)
    PROVE  /\ \E y \in Path : Changed(t, w, y) /\ IsPrefix(p, y) /\ IsPrefix(w.path, y)
           /\ IsPrefix(p, w.path) \/ IsPrefix(w.path, p)
           /\ p \in DOMAIN t \union DOMAIN After(t, w)
<1> DEFINE a == After(t, w)
           path == w.path
<1>1. PICK x \in Path : Changed(t, w, p \o x)
  BY DEF Untouched
<1> DEFINE y == p \o x
<1>2. y \in Path /\ IsPrefix(p, y)
  BY Concat, Extends
<1>3. Changed(t, w, y)
  BY <1>1
<1> HIDE DEF y
<1>4. IsPrefix(path, y) /\ path \in Path
  BY <1>2, <1>3, ChangeIsLoaded DEF GoodImpact
<1>5. Plain(t) /\ IsTree(t) /\ Plain(a) /\ IsTree(a)
  <2>1. GoodTree(a)
    BY AfterWrite DEF After
  <2> QED
    BY <2>1, ValueIsPlain DEF GoodTree
<1>6. y \in DOMAIN t \/ y \in DOMAIN a
  BY <1>3 DEF Changed, Kind
<1> HIDE DEF path, a
<1>7. IsPrefix(p, path) \/ IsPrefix(path, p)
  BY <1>2, <1>4, PrefixesCompare
<1>8. p \in DOMAIN t \/ p \in DOMAIN a
  BY <1>2, <1>5, <1>6, TreeAbove
<1> QED
  BY <1>2, <1>3, <1>4, <1>7, <1>8 DEF path, a

\* What is loaded tells where the data changes, and whether there was and will
\* be something there; with a key that is loaded at or above it, also what.
SeesChanges(t, w, q) ==
    LET old == OldData(t, w)
        new == NewData(t, w)
        a == After(t, w)
        y == w.top \o q
    IN /\ Kind(old, q) # Kind(new, q) <=> Kind(t, y) # Kind(a, y)
       /\ At(old, q) = At(new, q) <=> Untouched(t, w, y)
       /\ ~Untouched(t, w, y) =>
            /\ q \in DOMAIN old \union DOMAIN new
            /\ At(old, q) = Null <=> At(t, y) = Null
            /\ At(new, q) = Null <=> At(a, y) = Null
       /\ (\E l \in w.keys : IsPrefix(w.top \o l, y)) => At(old, q) = At(t, y) /\ At(new, q) = At(a, y)

LEMMA LoadedAt ==
    ASSUME NEW t, GoodTree(t), NEW w, GoodImpact(w), GoodWrite(t, w.path, w.updates), NEW q \in Path
    PROVE  SeesChanges(t, w, q)
<1> DEFINE old == OldData(t, w)
           new == NewData(t, w)
           a == After(t, w)
           top == w.top
           y == top \o q
<1>1. /\ Plain(old) /\ IsTree(old) /\ Plain(new) /\ IsTree(new)
      /\ \A x \in Path :
            /\ Kind(old, x) = IF Near(w.keys, x) THEN Kind(t, top \o x) ELSE "none"
            /\ Kind(new, x) = IF Near(w.keys, x) THEN Kind(a, top \o x) ELSE "none"
  BY Loaded DEF IsLoaded
<1>2. Plain(t) /\ IsTree(t) /\ Plain(a) /\ IsTree(a)
  <2>1. GoodTree(a)
    BY AfterWrite DEF After
  <2> QED
    BY <2>1, ValueIsPlain DEF GoodTree
<1>3. top \in Path /\ w.keys \subseteq Path
  BY DEF GoodImpact
<1>4. ASSUME NEW z \in Path, Kind(t, z) # Kind(a, z)
      PROVE  \E l \in w.keys : IsPrefix(top \o l, z)
  BY <1>4, ChangeIsLoaded DEF Changed
<1>5. Untouched(t, w, y) <=> \A x \in Path : Kind(t, y \o x) = Kind(a, y \o x)
  BY DEF Untouched, Changed
<1> HIDE DEF old, new, a, top
<1>6. y \in Path
  BY <1>3, Concat
<1>7. ASSUME NEW x \in Path
      PROVE  q \o x \in Path /\ IsPrefix(q, q \o x) /\ top \o (q \o x) = y \o x
  <2>1. q \o x \in Path /\ IsPrefix(q, q \o x)
    BY Concat, Extends
  <2>2. Regroups(top, q, x)
    BY <1>3, Regroup
  <2> QED
    BY <2>1, <2>2 DEF Regroups
<1> HIDE DEF y
<1>8. ASSUME NEW x \in Path, Kind(t, y \o x) # Kind(a, y \o x)
      PROVE  \E l \in w.keys : IsPrefix(l, q \o x)
  <2> DEFINE z == q \o x
  <2>1. z \in Path /\ top \o z = y \o x
    BY <1>7
  <2> HIDE DEF z
  <2>2. top \o z \in Path
    BY <1>3, <2>1, Concat
  <2>3. PICK l \in w.keys : IsPrefix(top \o l, top \o z)
    BY <1>4, <1>8, <2>1, <2>2
  <2>4. IsPrefix(l, z)
    BY <1>3, <2>1, <2>3, PrefixBelow
  <2> QED
    BY <2>4 DEF z
<1>9. ASSUME NEW x \in Path
      PROVE  /\ Kind(old, q \o x) = IF Near(w.keys, q \o x) THEN Kind(t, y \o x) ELSE "none"
             /\ Kind(new, q \o x) = IF Near(w.keys, q \o x) THEN Kind(a, y \o x) ELSE "none"
             /\ Kind(old, q \o x) # Kind(new, q \o x) <=> Kind(t, y \o x) # Kind(a, y \o x)
  <2>1. /\ Kind(old, q \o x) = IF Near(w.keys, q \o x) THEN Kind(t, y \o x) ELSE "none"
        /\ Kind(new, q \o x) = IF Near(w.keys, q \o x) THEN Kind(a, y \o x) ELSE "none"
    BY <1>1, <1>7
  <2>2. Kind(t, y \o x) # Kind(a, y \o x) => Near(w.keys, q \o x)
    BY <1>8 DEF Near
  <2> QED
    BY <2>1, <2>2
<1>10. At(old, q) = At(new, q) <=> Untouched(t, w, y)
  <2>1. At(old, q) = At(new, q) <=> \A x \in Path : Kind(old, q \o x) = Kind(new, q \o x)
    BY <1>1, SameAt
  <2> QED
    BY <1>5, <1>9, <2>1
<1>11. ASSUME ~Untouched(t, w, y)
       PROVE  /\ q \in DOMAIN old \union DOMAIN new
              /\ At(old, q) = Null <=> At(t, y) = Null
              /\ At(new, q) = Null <=> At(a, y) = Null
  <2>1. PICK x \in Path : Kind(t, y \o x) # Kind(a, y \o x)
    BY <1>5, <1>11
  <2> DEFINE z == q \o x
  <2>2. z \in Path /\ IsPrefix(q, z) /\ Kind(old, z) # Kind(new, z) /\ \E l \in w.keys : IsPrefix(l, z)
    BY <1>7, <1>8, <1>9, <2>1
  <2> HIDE DEF z
  <2>3. z \in DOMAIN old \/ z \in DOMAIN new
    BY <2>2 DEF Kind
  <2>4. q \in DOMAIN old \union DOMAIN new
    BY <1>1, <2>2, <2>3, TreeAbove
  <2>5. Near(w.keys, q)
    <3>1. PICK l \in w.keys : IsPrefix(l, z)
      BY <2>2
    <3>2. IsPrefix(l, q) \/ IsPrefix(q, l)
      BY <1>3, <2>2, <3>1, PrefixesCompare
    <3> QED
      BY <3>2 DEF Near
  <2>6. Kind(old, q) = Kind(t, y) /\ Kind(new, q) = Kind(a, y)
    BY <1>1, <2>5 DEF y
  <2> QED
    BY <1>1, <1>2, <1>6, <2>4, <2>6, NullAt
<1>12. ASSUME NEW l \in w.keys, IsPrefix(top \o l, y)
       PROVE  At(old, q) = At(t, y) /\ At(new, q) = At(a, y)
  <2>1. IsPrefix(l, q)
    BY <1>3, <1>12, PrefixBelow DEF y
  <2>2. ASSUME NEW x \in Path
        PROVE  Kind(old, q \o x) = Kind(t, y \o x) /\ Kind(new, q \o x) = Kind(a, y \o x)
    <3> DEFINE z == q \o x
    <3>1. z \in Path /\ IsPrefix(q, z)
      BY <1>7
    <3> HIDE DEF z
    <3>2. IsPrefix(l, z)
      BY <1>3, <2>1, <3>1, PrefixTransitive
    <3>3. Near(w.keys, z)
      BY <3>2 DEF Near
    <3> QED
      BY <1>9, <3>3 DEF z
  <2> QED
    BY <1>1, <1>2, <1>6, <2>2, SameAt
<1>13. Kind(old, q) # Kind(new, q) <=> Kind(t, y) # Kind(a, y)
  <2>1. Kind(old, q \o <<>>) # Kind(new, q \o <<>>) <=> Kind(t, y \o <<>>) # Kind(a, y \o <<>>)
    BY <1>9, EmptyPath
  <2> QED
    BY <1>6, <2>1, EmptyConcat
<1> QED
  BY <1>10, <1>11, <1>12, <1>13 DEF SeesChanges, old, new, a, top, y

----------------------------------------------------------------------------
\* The events of a subscription to mutations, of a path without wildcards.

Exact(p) == p \in Path /\ \A i \in 1..Len(p) : p[i] # "*"

LEMMA ExactIsFilled ==
    ASSUME NEW p, Exact(p), NEW q \in Path
    PROVE  Filled(p, q) = p
<1>1. p \in Path /\ Len(p) \in Nat /\ DOMAIN p = 1..Len(p) /\ p = [i \in DOMAIN p |-> p[i]]
  BY PathLength, LenProperties DEF Exact, Path
<1>2. \A i \in DOMAIN p : p[i] # "*"
  BY <1>1 DEF Exact
<1> DEFINE f(i) == IF i <= Len(q) /\ p[i] = "*" THEN q[i] ELSE p[i]
<1>3. \A i \in DOMAIN p : f(i) = p[i]
  BY <1>2
<1>4. Filled(p, q) = [i \in DOMAIN p |-> f(i)]
  BY DEF Filled
<1> HIDE DEF f
<1>5. [i \in DOMAIN p |-> f(i)] = [i \in DOMAIN p |-> p[i]]
  BY <1>3
<1> QED
  BY <1>1, <1>4, <1>5

LEMMA ExactTrail ==
    ASSUME NEW p, Exact(p), NEW q \in Path
    PROVE  OnTrail(p, q) <=> IsPrefix(p, q) \/ IsPrefix(q, p)
<1>1. p \in Path /\ Len(p) \in Nat /\ Len(q) \in Nat
  BY PathLength DEF Exact
<1>2. IsPrefix(p, q) <=> Len(p) <= Len(q) /\ \A i \in 1..Len(p) : p[i] = q[i]
  BY <1>1, PrefixKeys
<1>3. IsPrefix(q, p) <=> Len(q) <= Len(p) /\ \A i \in 1..Len(q) : q[i] = p[i]
  BY <1>1, PrefixKeys
<1> DEFINE n == IF Len(p) < Len(q) THEN Len(p) ELSE Len(q)
<1>4. OnTrail(p, q) <=> \A i \in 1..n : p[i] \in {q[i], "*"}
  BY DEF OnTrail
<1>5. \A i \in 1..n : p[i] # "*"
  BY <1>1 DEF Exact
<1>6. OnTrail(p, q) <=> \A i \in 1..n : p[i] = q[i]
  BY <1>4, <1>5
<1>7. CASE Len(p) < Len(q)
  BY <1>1, <1>2, <1>3, <1>6, <1>7
<1>8. CASE ~(Len(p) < Len(q))
  <2>1. n = Len(q) /\ Len(q) <= Len(p)
    BY <1>1, <1>8
  <2>2. IsPrefix(p, q) => Len(p) = Len(q)
    BY <1>1, <1>2, <2>1
  <2> HIDE DEF n
  <2> QED
    BY <1>1, <1>2, <1>3, <1>6, <2>1, <2>2
<1> QED
  BY <1>7, <1>8

\* The place y below p is where two values start to differ.
First(a, b, p, y) ==
    /\ Kind(a, y) # Kind(b, y)
    /\ \A x \in Path : IsPrefix(p, x) /\ IsPrefix(x, y) /\ x # y => Kind(a, x) = Kind(b, x)

LEMMA DifferencesBelow ==
    ASSUME NEW o, NEW n, DOMAIN o \subseteq Path, DOMAIN n \subseteq Path, NEW a, NEW b, NEW f \in Path,
           \A q \in Path : Kind(o, q) # Kind(n, q) <=> Kind(a, f \o q) # Kind(b, f \o q),
           NEW d
    PROVE  d \in Differences(o, n) <=> d \in Path /\ First(a, b, f, f \o d)
<1>1. d \in Differences(o, n) <=> d \in Path /\ Differ(o, n, d)
  BY DifferencesAre
<1> SUFFICES ASSUME d \in Path
             PROVE  Differ(o, n, d) <=> First(a, b, f, f \o d)
  BY <1>1
<1> DEFINE y == f \o d
<1>2. y \in Path /\ (Kind(o, d) # Kind(n, d) <=> Kind(a, y) # Kind(b, y))
  BY Concat
<1>3. ASSUME NEW x \in Path
      PROVE  /\ f \o x \in Path /\ IsPrefix(f, f \o x)
             /\ Kind(o, x) # Kind(n, x) <=> Kind(a, f \o x) # Kind(b, f \o x)
             /\ IsPrefix(f \o x, y) <=> IsPrefix(x, d)
             /\ f \o x = y <=> x = d
  BY Concat, Extends, PrefixBelow, Cancel
<1> HIDE DEF y
<1>4. ASSUME Differ(o, n, d), NEW z \in Path, IsPrefix(f, z), IsPrefix(z, y), z # y
      PROVE  Kind(a, z) = Kind(b, z)
  <2> DEFINE x == Rest(z, Len(f))
  <2>1. x \in Path /\ f \o x = z
    BY <1>4, PrefixSplits
  <2> HIDE DEF x
  <2>2. IsPrefix(x, d) /\ x # d
    BY <1>3, <1>4, <2>1
  <2> QED
    BY <1>3, <1>4, <2>1, <2>2 DEF Differ
<1>5. ASSUME First(a, b, f, y), NEW x \in Path, IsPrefix(x, d), x # d
      PROVE  Kind(o, x) = Kind(n, x)
  <2> DEFINE z == f \o x
  <2>1. z \in Path /\ IsPrefix(f, z) /\ IsPrefix(z, y) /\ z # y /\ (Kind(o, x) # Kind(n, x) <=> Kind(a, z) # Kind(b, z))
    BY <1>3, <1>5
  <2> HIDE DEF z
  <2>2. Kind(a, z) = Kind(b, z)
    BY <1>5, <2>1 DEF First
  <2> QED
    BY <2>1, <2>2
<1>6. Differ(o, n, d) => First(a, b, f, y)
  BY <1>2, <1>4 DEF Differ, First
<1>7. First(a, b, f, y) => Differ(o, n, d)
  BY <1>2, <1>5 DEF Differ, First
<1> QED
  BY <1>6, <1>7 DEF y

LEMMA DifferencesAt ==
    ASSUME NEW a, NEW b, DOMAIN a \subseteq Path, DOMAIN b \subseteq Path, NEW p \in Path
    PROVE  /\ \A d : d \in Differences(At(a, p), At(b, p)) <=> d \in Path /\ First(a, b, p, p \o d)
           /\ \A q \in Path : IsPrefix(p, q) /\ Kind(a, q) # Kind(b, q) =>
                \E d \in Differences(At(a, p), At(b, p)) : IsPrefix(p \o d, q)
<1> DEFINE o == At(a, p)
           n == At(b, p)
<1>1. /\ DOMAIN o \subseteq Path /\ DOMAIN n \subseteq Path
      /\ \A q \in Path : Kind(o, q) = Kind(a, p \o q) /\ Kind(n, q) = Kind(b, p \o q)
  BY EmptyPath, InAnyAt, AtKind
<1> HIDE DEF o, n
<1>2. \A d : d \in Differences(o, n) <=> d \in Path /\ First(a, b, p, p \o d)
  BY <1>1, DifferencesBelow
<1>3. ASSUME NEW q \in Path, IsPrefix(p, q), Kind(a, q) # Kind(b, q)
      PROVE  \E d \in Differences(o, n) : IsPrefix(p \o d, q)
  <2> DEFINE r == Rest(q, Len(p))
  <2>1. r \in Path /\ p \o r = q
    BY <1>3, PrefixSplits
  <2> HIDE DEF r
  <2>2. Kind(o, r) # Kind(n, r)
    BY <1>1, <1>3, <2>1
  <2>3. PICK d \in Path : IsPrefix(d, r) /\ Differ(o, n, d)
    BY <2>1, <2>2, FirstDifference
  <2>4. d \in Differences(o, n)
    BY <1>1, <2>3, DifferencesAre
  <2>5. IsPrefix(p \o d, p \o r)
    BY <2>1, <2>3, PrefixBelow
  <2> QED
    BY <2>1, <2>4, <2>5
<1> QED
  BY <1>2, <1>3 DEF o, n

----------------------------------------------------------------------------
\* The characters of strings.

LEMMA ChildIsAt ==
    ASSUME NEW tree, NEW p, ~InString(tree, p)
    PROVE  Child(tree, p) = At(tree, p)
BY DEF Child

\* A path below another one, neither of which names a character.
LEMMA NoStringBelow ==
    ASSUME NEW tree, NEW p \in Path, NamesNoCharacter(p), NEW top \in Path, NEW f \in Path, top \o f = p \/ f = <<>>
    PROVE  ~InString(tree, f)
<1>1. CASE f = <<>>
  <2>1. Len(f) = 0
    BY <1>1, EmptyPath
  <2> QED
    BY <2>1 DEF InString
<1>2. CASE top \o f = p
  <2> DEFINE c == top \o f
  <2>3. Len(c) = Len(top) + Len(f) /\ \A i \in 1..Len(f) : c[Len(top) + i] = f[i]
    BY ConcatKeys
  <2>4. c = p
    BY <1>2
  <2> HIDE DEF c
  <2>5. Len(p) \in Nat /\ Len(top) \in Nat /\ Len(f) \in Nat
    BY PathLength
  <2>1. /\ Len(p) = Len(top) + Len(f) /\ \A i \in 1..Len(f) : p[Len(top) + i] = f[i]
        /\ Len(p) \in Nat /\ Len(top) \in Nat /\ Len(f) \in Nat
    BY <2>3, <2>4, <2>5
  <2>2. ASSUME NEW i \in 1..Len(f), NEW v \in DOMAIN Letters
        PROVE  f[i] \notin DOMAIN Letters[v]
    <3>1. Len(top) + i \in 1..Len(p)
      BY <2>1
    <3>2. p[Len(top) + i] \notin DOMAIN Letters[v]
      BY <3>1 DEF NamesNoCharacter
    <3> QED
      BY <2>1, <3>2
  <2> QED
    BY <2>2 DEF InString
<1> QED
  BY <1>1, <1>2

\* A part of a tree has no other strings.
LEMMA StringBelow ==
    ASSUME NEW part, NEW tree, NEW top \in Path, NEW q \in Path, InString(part, q),
           \A x \in Path : Kind(part, x) \in DOMAIN Letters => Kind(part, x) = Kind(tree, top \o x)
    PROVE  InString(tree, top \o q)
<1> DEFINE m == Len(top)
           c == top \o q
<1>1. /\ c \in Path /\ Len(c) = m + Len(q) /\ m \in Nat /\ Len(q) \in Nat
      /\ \A i \in 1..m : c[i] = top[i]
      /\ \A i \in 1..Len(q) : c[m + i] = q[i]
  BY ConcatKeys, PathLength
<1>2. PICK n \in 1..Len(q) :
        /\ Kind(part, SubSeq(q, 1, n - 1)) \in DOMAIN Letters
        /\ q[n] \in DOMAIN Letters[Kind(part, SubSeq(q, 1, n - 1))]
        /\ \A i \in (n + 1)..Len(q) : q[i] = "0"
  BY DEF InString
<1> DEFINE x == SubSeq(q, 1, n - 1)
           y == SubSeq(c, 1, m + n - 1)
           d == top \o x
<1>3. n - 1 \in Nat /\ n - 1 <= Len(q) /\ m + n - 1 \in Nat /\ m + n - 1 <= Len(c) /\ m + n \in 1..Len(c)
  BY <1>1
<1>4. x \in Path /\ Len(x) = n - 1 /\ \A i \in 1 .. n - 1 : x[i] = q[i]
  BY <1>3, FirstKeys
<1> HIDE DEF c
<1>5. y \in Path /\ Len(y) = m + n - 1 /\ \A i \in 1 .. m + n - 1 : y[i] = c[i]
  BY <1>1, <1>3, FirstKeys
<1> HIDE DEF x
<1>6. /\ d \in Path /\ Len(d) = m + Len(x)
      /\ \A i \in 1..m : d[i] = top[i]
      /\ \A i \in 1..Len(x) : d[m + i] = x[i]
  BY <1>4, ConcatKeys
<1> HIDE DEF y, d, m
<1>7. Len(y) = Len(d)
  BY <1>1, <1>4, <1>5, <1>6
<1>8. ASSUME NEW i \in 1..Len(y)
      PROVE  y[i] = d[i]
  <2>1. y[i] = c[i]
    BY <1>5
  <2>2. CASE i <= m
    <3>1. i \in 1..m
      BY <1>1, <1>5, <2>2
    <3> QED
      BY <1>1, <1>6, <2>1, <3>1
  <2>3. CASE ~(i <= m)
    <3>1. i - m \in 1 .. n - 1 /\ i - m \in 1..Len(q) /\ m + (i - m) = i
      BY <1>1, <1>3, <1>5, <2>3
    <3>2. c[i] = q[i - m]
      BY <1>1, <3>1
    <3>3. i - m \in 1..Len(x)
      BY <1>4, <3>1
    <3>4. d[i] = x[i - m]
      BY <1>6, <3>1, <3>3
    <3>5. x[i - m] = q[i - m]
      BY <1>4, <3>1
    <3> QED
      BY <2>1, <3>2, <3>4, <3>5
  <2> QED
    BY <2>2, <2>3
<1>9. y = d
  BY <1>5, <1>6, <1>7, <1>8, PathEqual
<1>10. Kind(part, x) = Kind(tree, y) /\ Kind(part, x) \in DOMAIN Letters
  BY <1>2, <1>4, <1>9 DEF d, x
<1>11. c[m + n] = q[n]
  BY <1>1
<1>12. ASSUME NEW i \in (m + n + 1)..Len(c)
       PROVE  c[i] = "0"
  <2>1. i - m \in (n + 1)..Len(q) /\ i - m \in 1..Len(q) /\ m + (i - m) = i
    BY <1>1
  <2>2. c[i] = q[i - m]
    BY <1>1, <2>1
  <2> QED
    BY <1>2, <2>1, <2>2
<1>13. \E k \in 1..Len(c) :
         /\ Kind(tree, SubSeq(c, 1, k - 1)) \in DOMAIN Letters
         /\ c[k] \in DOMAIN Letters[Kind(tree, SubSeq(c, 1, k - 1))]
         /\ \A i \in (k + 1)..Len(c) : c[i] = "0"
  <2>1. Kind(tree, SubSeq(c, 1, (m + n) - 1)) = Kind(part, x)
    <3>1. (m + n) - 1 = m + n - 1
      BY <1>1
    <3>2. SubSeq(c, 1, (m + n) - 1) = y
      BY <3>1 DEF y
    <3> QED
      BY <1>10, <3>2
  <2>2. c[m + n] \in DOMAIN Letters[Kind(part, x)]
    BY <1>2, <1>11 DEF x
  <2> QED
    BY <1>3, <1>10, <1>12, <2>1, <2>2
<1> QED
  BY <1>13 DEF InString, c

LEMMA RepeatedOfSet ==
    ASSUME NEW S, NEW k \in S, NEW m \in Nat
    PROVE  [i \in 1..m |-> k] \in Seq(S)
OBVIOUS

LEMMA CharactersArePaths ==
    ASSUME NEW tree, DOMAIN tree \subseteq Path, NEW n \in Int
    PROVE  Characters(tree, n) \subseteq Path
<1> DEFINE zeros(q) == [i \in 1..(n - Len(q) - 1) |-> "0"]
           path(q, k) == q \o <<k>> \o zeros(q)
           strings == {q \in DOMAIN tree : tree[q] \in DOMAIN Letters /\ Len(q) < n}
           below(q) == {path(q, k) : k \in DOMAIN Letters[tree[q]]}
<1>1. Characters(tree, n) = UNION {below(q) : q \in strings}
  BY DEF Characters
<1>2. ASSUME NEW q \in strings, NEW k \in DOMAIN Letters[tree[q]]
      PROVE  path(q, k) \in Path
  <2> DEFINE m == n - Len(q) - 1
  <2>1. q \in Path /\ Len(q) \in Nat /\ k \in STRING
    BY LettersAssumption, PathLength
  <2>2. m \in Nat
    BY <2>1
  <2> HIDE DEF m
  <2>3. [i \in 1..m |-> "0"] \in Path
    <3>1. "0" \in STRING
      BY LettersAssumption
    <3> QED
      BY <2>2, <3>1, RepeatedOfSet, Zenon DEF Path
  <2>4. <<k>> \in Path
    BY <2>1, KeyPath
  <2>5. q \o <<k>> \in Path
    BY <2>1, <2>4, Concat
  <2> DEFINE qk == q \o <<k>>
             z == [i \in 1..m |-> "0"]
  <2> HIDE DEF qk, z
  <2>6. qk \o z \in Path
    BY <2>3, <2>5, Concat DEF qk, z
  <2> QED
    BY <2>6 DEF qk, z, m
<1> HIDE DEF path, strings
<1> QED
  BY <1>1, <1>2

\* What is outside the strings in the database is so in the part of it that a
\* write loads.
LEMMA StringsLoaded ==
    ASSUME NEW t, GoodTree(t), NEW w, GoodImpact(w), GoodWrite(t, w.path, w.updates),
           NEW q \in Path, ~IsCharacter(w.top \o q, t, After(t, w))
    PROVE  ~InString(OldData(t, w), q) /\ ~InString(NewData(t, w), q)
<1> DEFINE old == OldData(t, w)
           new == NewData(t, w)
           a == After(t, w)
           top == w.top
<1>1. /\ \A x \in Path :
            /\ Kind(old, x) = IF Near(w.keys, x) THEN Kind(t, top \o x) ELSE "none"
            /\ Kind(new, x) = IF Near(w.keys, x) THEN Kind(a, top \o x) ELSE "none"
  BY Loaded DEF IsLoaded
<1>2. top \in Path /\ ~InString(t, top \o q) /\ ~InString(a, top \o q)
  BY DEF GoodImpact, IsCharacter
<1>3. "none" \notin DOMAIN Letters
  BY LettersAssumption
<1> HIDE DEF old, new, a, top
<1>4. \A x \in Path : Kind(old, x) \in DOMAIN Letters => Kind(old, x) = Kind(t, top \o x)
  BY <1>1, <1>3
<1>5. \A x \in Path : Kind(new, x) \in DOMAIN Letters => Kind(new, x) = Kind(a, top \o x)
  BY <1>1, <1>3
<1>6. ~InString(old, q)
  BY <1>2, <1>4, StringBelow
<1>7. ~InString(new, q)
  BY <1>2, <1>5, StringBelow
<1> QED
  BY <1>6, <1>7 DEF old, new

----------------------------------------------------------------------------
\* Mutations.

\* An event on every path where something below p starts to change.
Mutations(s, t, w) ==
    {Event(s, y, At(t, y), At(After(t, w), y)) :
       y \in {x \in Path : IsPrefix(s.path, x) /\ First(t, After(t, w), s.path, x)}}

LEMMA MutatedAre ==
    ASSUME NEW t, GoodTree(t), NEW w, GoodImpact(w), GoodWrite(t, w.path, w.updates),
           NEW s, Exact(s.path), NamesNoCharacter(s.path), OnTrail(s.path, w.path)
    PROVE  MutatedEvents(s, w, OldData(t, w), NewData(t, w)) = Mutations(s, t, w)
<1> DEFINE path == w.path
           top == w.top
           p == s.path
           old == OldData(t, w)
           new == NewData(t, w)
           a == After(t, w)
           from == IF Len(p) <= Len(top) THEN top ELSE p
           f == Rest(from, Len(top))
           oldF == At(old, f)
           newF == At(new, f)
           before == Child(old, f)
           after == Child(new, f)
           seen(q) == Event(s, from \o q, At(oldF, q), At(newF, q))
           due(y) == Event(s, y, At(t, y), At(a, y))
           differ == Differences(oldF, newF)
           first == {x \in Path : IsPrefix(p, x) /\ First(t, a, p, x)}
<1>1. MutatedEvents(s, w, old, new) =
        {Event(s, from \o q, At(before, q), At(after, q)) : q \in Differences(before, after)}
  <2>1. Filled(p, path) = p
    BY ExactIsFilled DEF GoodImpact
  <2> QED
    BY <2>1 DEF MutatedEvents
<1>2. Mutations(s, t, w) = {due(y) : y \in first}
  BY DEF Mutations
<1>3. /\ path \in Path /\ top \in Path /\ p \in Path /\ IsPrefix(top, path) /\ w.keys \subseteq Path
      /\ IsPrefix(p, path) \/ IsPrefix(path, p)
      /\ Len(p) \in Nat /\ Len(top) \in Nat
  <2>1. path \in Path /\ top \in Path /\ p \in Path /\ IsPrefix(top, path) /\ w.keys \subseteq Path
    BY DEF GoodImpact, Exact
  <2> QED
    BY <2>1, ExactTrail, PathLength
<1>4. DOMAIN old \subseteq Path /\ DOMAIN new \subseteq Path /\ Plain(old) /\ Plain(new)
  BY Loaded DEF IsLoaded, Plain
<1>5. ASSUME NEW q \in Path, Kind(t, q) # Kind(a, q)
      PROVE  IsPrefix(path, q) /\ \E l \in w.keys : IsPrefix(top \o l, q)
  BY <1>5, ChangeIsLoaded DEF Changed
<1>6. ASSUME NEW q \in Path
      PROVE  /\ Kind(old, q) # Kind(new, q) <=> Kind(t, top \o q) # Kind(a, top \o q)
             /\ (\E l \in w.keys : IsPrefix(top \o l, top \o q)) =>
                  At(old, q) = At(t, top \o q) /\ At(new, q) = At(a, top \o q)
  BY LoadedAt DEF SeesChanges
<1> HIDE DEF path, top, p, old, new, a
<1>7. /\ from \in Path /\ IsPrefix(top, from) /\ IsPrefix(p, from)
      /\ \A q \in Path : IsPrefix(path, q) /\ IsPrefix(p, q) => IsPrefix(from, q)
  <2>1. IsPrefix(top, p) \/ IsPrefix(p, top)
    <3>1. CASE IsPrefix(p, path)
      BY <1>3, <3>1, PrefixesCompare
    <3>2. CASE IsPrefix(path, p)
      BY <1>3, <3>2, PrefixTransitive
    <3> QED
      BY <1>3, <3>1, <3>2
  <2>2. CASE Len(p) <= Len(top)
    <3>1. from = top /\ IsPrefix(p, top)
      BY <1>3, <2>1, <2>2, PrefixLength, PrefixReflexive
    <3>2. \A q \in Path : IsPrefix(path, q) => IsPrefix(top, q)
      BY <1>3, PrefixTransitive
    <3> QED
      BY <1>3, <3>1, <3>2, PrefixReflexive
  <2>3. CASE ~(Len(p) <= Len(top))
    <3>1. from = p /\ IsPrefix(top, p)
      BY <1>3, <2>1, <2>3, PrefixLength
    <3> QED
      BY <1>3, <3>1, PrefixReflexive
  <2> QED
    BY <2>2, <2>3
<1> HIDE DEF from
<1>8. f \in Path /\ top \o f = from
  BY <1>3, <1>7, PrefixSplits
<1>19. before = oldF /\ after = newF
  <2>1. top \o f = p \/ f = <<>>
    <3>1. CASE from = p
      BY <1>8, <3>1
    <3>2. CASE from = top
      <4>1. top \o f = top \o <<>> /\ <<>> \in Path
        BY <1>3, <1>8, <3>2, EmptyConcat, EmptyPath
      <4> HIDE DEF f
      <4> QED
        BY <1>3, <1>8, <4>1, Cancel
    <3> QED
      BY <3>1, <3>2 DEF from
  <2> HIDE DEF f
  <2>2. ~InString(old, f) /\ ~InString(new, f)
    BY <1>3, <1>8, <2>1, NoStringBelow DEF p
  <2> QED
    BY <2>2, ChildIsAt
<1> HIDE DEF f
<1>9. ASSUME NEW q \in Path
      PROVE  /\ f \o q \in Path /\ from \o q \in Path /\ top \o (f \o q) = from \o q
             /\ Rest(from \o q, Len(top)) = f \o q
  <2>1. f \o q \in Path /\ from \o q \in Path
    BY <1>7, <1>8, Concat
  <2>2. (top \o f) \o q = top \o (f \o q)
    <3>1. Regroups(top, f, q)
      BY <1>3, <1>8, Regroup
    <3> QED
      BY <3>1 DEF Regroups
  <2>3. top \o (f \o q) = from \o q
    BY <1>8, <2>2
  <2> DEFINE fq == f \o q
  <2>4. fq \in Path
    BY <2>1
  <2> HIDE DEF fq
  <2>5. Rest(top \o fq, Len(top)) = fq
    BY <1>3, <2>4, RestOfConcat
  <2> QED
    BY <2>1, <2>3, <2>5 DEF fq
<1>10. \A q \in Path : Kind(oldF, q) = Kind(old, f \o q) /\ Kind(newF, q) = Kind(new, f \o q)
  BY <1>4, <1>8, AtKind
<1>11. DOMAIN oldF \subseteq Path /\ DOMAIN newF \subseteq Path
  BY <1>4, <1>8, AtPlain DEF Plain
<1> HIDE DEF oldF, newF
<1>12. ASSUME NEW q \in Path
       PROVE  Kind(oldF, q) # Kind(newF, q) <=> Kind(t, from \o q) # Kind(a, from \o q)
  <2> DEFINE fq == f \o q
  <2>1. fq \in Path /\ top \o fq = from \o q /\ Kind(oldF, q) = Kind(old, fq) /\ Kind(newF, q) = Kind(new, fq)
    BY <1>9, <1>10
  <2> HIDE DEF fq
  <2> QED
    BY <1>6, <2>1
<1>13. \A d : d \in differ <=> d \in Path /\ First(t, a, from, from \o d)
  BY <1>7, <1>11, <1>12, DifferencesBelow
<1>14. ASSUME NEW y \in Path, IsPrefix(from, y)
       PROVE  First(t, a, from, y) <=> First(t, a, p, y)
  <2>1. First(t, a, p, y) => First(t, a, from, y)
    <3>1. ASSUME NEW x \in Path, IsPrefix(from, x)
          PROVE  IsPrefix(p, x)
      BY <1>3, <1>7, <3>1, PrefixTransitive
    <3> QED
      BY <3>1 DEF First
  <2>2. First(t, a, from, y) => First(t, a, p, y)
    <3>1. ASSUME NEW x \in Path, IsPrefix(p, x), Kind(t, x) # Kind(a, x)
          PROVE  IsPrefix(from, x)
      BY <1>5, <1>7, <3>1
    <3> QED
      BY <3>1 DEF First
  <2> QED
    BY <2>1, <2>2
<1> HIDE DEF differ
<1>15. ASSUME NEW q \in differ
       PROVE  from \o q \in first /\ seen(q) = due(from \o q)
  <2> DEFINE y == from \o q
             fq == f \o q
  <2>1. q \in Path /\ First(t, a, from, y)
    BY <1>13
  <2>2. fq \in Path /\ y \in Path /\ top \o fq = y
    BY <1>9, <2>1
  <2>7. At(oldF, q) = At(old, fq) /\ At(newF, q) = At(new, fq)
    BY <1>4, <1>8, <2>1, AtAt DEF oldF, newF
  <2>3. IsPrefix(from, y)
    BY <1>7, <2>1, Extends
  <2> HIDE DEF y, fq
  <2>4. IsPrefix(p, y) /\ First(t, a, p, y)
    BY <1>3, <1>7, <1>14, <2>1, <2>2, <2>3, PrefixTransitive
  <2>5. \E l \in w.keys : IsPrefix(top \o l, top \o fq)
    BY <1>5, <2>1, <2>2 DEF First
  <2>6. At(old, fq) = At(t, y) /\ At(new, fq) = At(a, y)
    BY <1>6, <2>2, <2>5
  <2> QED
    BY <2>2, <2>4, <2>6, <2>7 DEF y
<1>16. ASSUME NEW y \in first
       PROVE  \E q \in differ : y = from \o q
  <2>1. y \in Path /\ IsPrefix(p, y) /\ First(t, a, p, y)
    OBVIOUS
  <2>2. IsPrefix(from, y)
    BY <1>5, <1>7, <2>1 DEF First
  <2> DEFINE q == Rest(y, Len(from))
  <2>3. q \in Path /\ from \o q = y
    BY <1>7, <2>1, <2>2, PrefixSplits
  <2> HIDE DEF q
  <2>4. q \in differ
    BY <1>13, <1>14, <2>1, <2>2, <2>3
  <2> QED
    BY <2>3, <2>4
<1>18. MutatedEvents(s, w, old, new) = {seen(q) : q \in differ}
  <2> HIDE DEF before, after
  <2> QED
    BY <1>1, <1>19 DEF differ
<1> HIDE DEF first, seen, due
<1>17. {seen(q) : q \in differ} = {due(y) : y \in first}
  BY <1>15, <1>16
<1> QED
  BY <1>2, <1>17, <1>18 DEF old, new

\* Every change below the subscription has an event, at or above it, with the
\* new value there; there are no two that hold the same place.
AreChanges(t, w, p, events) ==
    /\ \A e \in events : e.path \in Path /\ IsPrefix(p, e.path) /\ e.new = At(After(t, w), e.path)
    /\ \A e \in events, f \in events, q \in Path : IsPrefix(e.path, q) /\ IsPrefix(f.path, q) => e.path = f.path
    /\ \A q \in Path : IsPrefix(p, q) /\ Changed(t, w, q) => \E e \in events : IsPrefix(e.path, q)

LEMMA MutationsAreChanges ==
    ASSUME NEW t, GoodTree(t), NEW w, GoodWrite(t, w.path, w.updates), NEW s, Exact(s.path), ~s.notify
    PROVE  AreChanges(t, w, s.path, Mutations(s, t, w))
<1> DEFINE a == After(t, w)
           p == s.path
           due(y) == Event(s, y, At(t, y), At(a, y))
           first == {x \in Path : IsPrefix(p, x) /\ First(t, a, p, x)}
           events == {due(y) : y \in first}
<1>1. Mutations(s, t, w) = events
  BY DEF Mutations
<1>2. p \in Path
  BY DEF Exact
<1>3. \A y : due(y).path = y /\ due(y).new = At(a, y)
  BY DEF Event
<1>7. DOMAIN t \subseteq Path /\ DOMAIN a \subseteq Path
  <2>1. GoodTree(a)
    BY AfterWrite DEF After
  <2> QED
    BY <2>1, ValueIsPlain DEF GoodTree, Plain
<1> HIDE DEF a, p, due
<1>4. ASSUME NEW e \in events
      PROVE  \E y \in Path : e.path = y /\ e.new = At(a, y) /\ IsPrefix(p, y) /\ First(t, a, p, y)
  BY <1>3
<1>5. ASSUME NEW e \in events, NEW g \in events, NEW q \in Path, IsPrefix(e.path, q), IsPrefix(g.path, q)
      PROVE  e.path = g.path
  <2>1. PICK y \in Path : e.path = y /\ IsPrefix(p, y) /\ First(t, a, p, y)
    BY <1>4
  <2>2. PICK z \in Path : g.path = z /\ IsPrefix(p, z) /\ First(t, a, p, z)
    BY <1>4
  <2>3. IsPrefix(y, z) \/ IsPrefix(z, y)
    BY <1>5, <2>1, <2>2, PrefixesCompare
  <2> QED
    BY <2>1, <2>2, <2>3 DEF First
<1>6. ASSUME NEW q \in Path, IsPrefix(p, q), Kind(t, q) # Kind(a, q)
      PROVE  \E e \in events : IsPrefix(e.path, q)
  <2>1. PICK d \in Differences(At(t, p), At(a, p)) : IsPrefix(p \o d, q)
    BY <1>2, <1>6, <1>7, DifferencesAt
  <2> DEFINE y == p \o d
  <2>2. d \in Path /\ First(t, a, p, y)
    BY <1>2, <1>7, DifferencesAt
  <2>3. y \in Path /\ IsPrefix(p, y) /\ IsPrefix(y, q)
    BY <1>2, <2>1, <2>2, Concat, Extends
  <2> HIDE DEF y
  <2>4. due(y) \in events /\ due(y).path = y
    BY <1>3, <2>2, <2>3
  <2> HIDE DEF events
  <2> QED
    BY <2>3, <2>4
<1> HIDE DEF events
<1> QED
  BY <1>1, <1>4, <1>5, <1>6 DEF AreChanges, Changed, a, p

LEMMA AppliedPlain ==
    ASSUME NEW t, Plain(t), NEW path \in Path, NEW u, IsUpdates(u), \A k \in DOMAIN u : Plain(u[k])
    PROVE  Plain(Applied(t, path, u))
<1> DEFINE a == Applied(t, path, u)
<1>1. \A k \in DOMAIN u : k \in Path /\ path \o k \in Path
  BY Concat DEF IsUpdates
<1>2. ASSUME NEW p \in Path
      PROVE  /\ DOMAIN a \subseteq Path
             /\ \A k \in DOMAIN u : IsPrefix(path \o k, p) =>
                  /\ p \in DOMAIN a <=> Rest(p, Len(path \o k)) \in DOMAIN u[k]
                  /\ p \in DOMAIN a => a[p] = u[k][Rest(p, Len(path \o k))]
             /\ (\A k \in DOMAIN u : ~IsPrefix(path \o k, p)) =>
                  /\ p \in DOMAIN a <=> p \in DOMAIN t
                  /\ p \in DOMAIN a => a[p] = t[p]
  BY AppliedIn DEF Plain
<1> HIDE DEF a
<1>3. DOMAIN a \subseteq Path
  BY <1>2, EmptyPath
<1>4. ASSUME NEW p \in DOMAIN a
      PROVE  a[p] # "none"
  <2>1. p \in Path
    BY <1>3
  <2>2. CASE \E k \in DOMAIN u : IsPrefix(path \o k, p)
    <3>1. PICK k \in DOMAIN u : IsPrefix(path \o k, p)
      BY <2>2
    <3> DEFINE r == Rest(p, Len(path \o k))
    <3>2. r \in DOMAIN u[k] /\ a[p] = u[k][r]
      BY <1>2, <2>1, <3>1
    <3> HIDE DEF r
    <3> QED
      BY <3>2 DEF Plain
  <2>3. CASE \A k \in DOMAIN u : ~IsPrefix(path \o k, p)
    BY <1>2, <2>1, <2>3 DEF Plain
  <2> QED
    BY <2>2, <2>3
<1> QED
  BY <1>3, <1>4 DEF Plain, a

\* Who an event is for.
LEMMA SubOfEvent ==
    ASSUME NEW s, NEW w, NEW old, NEW new
    PROVE  /\ \A e \in MutatedEvents(s, w, old, new) : e.sub = s
           /\ \A e \in NotifiedAbove(s, w, old, new) : e.sub = s
           /\ \A e \in ValueEvents(s, w, old, new) : e.sub = s
<1>1. \A p, x, y : Event(s, p, x, y).sub = s
  BY DEF Event
<1>2. \A e \in MutatedEvents(s, w, old, new) : \E p, x, y : e = Event(s, p, x, y)
  BY DEF MutatedEvents
<1>3. \A e \in NotifiedAbove(s, w, old, new) : \E p, x, y : e = Event(s, p, x, y)
  BY DEF NotifiedAbove
<1>4. \A e \in ValueEvents(s, w, old, new) : \E p, x, y : e = Event(s, p, x, y)
  BY DEF ValueEvents
<1> QED
  BY <1>1, <1>2, <1>3, <1>4

\* The events of a write for one subscription to mutations.
LEMMA EventsFor ==
    ASSUME NEW t, NEW w, NEW s, s.type \in MutationEvents
    PROVE  {e \in EventsOf(t, w) : e.sub = s} =
             IF s \in w.subs THEN MutatedEvents(s, w, OldData(t, w), NewData(t, w)) ELSE {}
<1> DEFINE old == OldData(t, w)
           new == NewData(t, w)
           above(r) == r.notify /\ Len(r.path) < Len(w.top)
           for(r) == CASE r.type \in MutationEvents -> MutatedEvents(r, w, old, new)
                       [] r.type \notin MutationEvents /\ above(r) -> NotifiedAbove(r, w, old, new)
                       [] OTHER -> ValueEvents(r, w, old, new)
           all == UNION {for(r) : r \in w.subs}
<1>1. EventsOf(t, w) = IF old = new THEN {} ELSE all
  BY DEF EventsOf
<1>2. ASSUME NEW r, NEW e \in for(r)
      PROVE  e.sub = r
  <2>1. CASE r.type \in MutationEvents
    BY <1>2, <2>1, SubOfEvent
  <2>2. CASE r.type \notin MutationEvents /\ above(r)
    BY <1>2, <2>2, SubOfEvent
  <2>3. CASE r.type \notin MutationEvents /\ ~above(r)
    BY <1>2, <2>3, SubOfEvent
  <2> QED
    BY <2>1, <2>2, <2>3
<1>3. for(s) = MutatedEvents(s, w, old, new)
  OBVIOUS
<1>4. old = new => MutatedEvents(s, w, old, new) = {}
  <2> HIDE DEF old, new
  <2>1. \A x : Differences(x, x) = {}
    BY DEF Differences
  <2> QED
    BY <2>1 DEF MutatedEvents
<1> HIDE DEF for, old, new
<1>5. {e \in all : e.sub = s} = IF s \in w.subs THEN for(s) ELSE {}
  <2>1. ASSUME NEW e \in all, e.sub = s
        PROVE  s \in w.subs /\ e \in for(s)
    <3>1. PICK r \in w.subs : e \in for(r)
      BY <2>1
    <3> QED
      BY <1>2, <2>1, <3>1
  <2>2. ASSUME s \in w.subs, NEW e \in for(s)
        PROVE  e \in all /\ e.sub = s
    BY <1>2, <2>2
  <2> HIDE DEF all
  <2> QED
    BY <2>1, <2>2
<1> HIDE DEF all
<1> QED
  BY <1>1, <1>3, <1>4, <1>5 DEF old, new

----------------------------------------------------------------------------
\* A copy and the events that are under way.

Mine(events) == {e \in events : e.sub = Mirror}

EventsGood ==
    /\ \A e \in Mine(queue) : e.path \in Path /\ IsPrefix(Mirror.path, e.path) /\ e.new = At(db, e.path)
    /\ \A e \in Mine(queue), f \in Mine(queue), q \in Path :
         IsPrefix(e.path, q) /\ IsPrefix(f.path, q) => e.path = f.path
CopyIs(c) ==
    /\ Plain(c) /\ c = [p \in DOMAIN c |-> c[p]]
    /\ \A x \in Path : (\A e \in Mine(queue) : ~IsPrefix(e.path, Mirror.path \o x)) =>
         Kind(c, x) = Kind(db, Mirror.path \o x)
WriteIs(w) ==
    /\ GoodImpact(w) /\ GoodWrite(db, w.path, w.updates)
    /\ w.indexes = AffectedIndexes(Indexes, w.path)
    /\ Mirror \in w.subs => OnTrail(Mirror.path, w.path)
    /\ copy # {} /\ OnTrail(Mirror.path, w.path) => Mirror \in w.subs

IInv ==
    /\ GoodTree(db)
    /\ subs \subseteq Subscriptions
    /\ copy # {} => Mirror \in subs
    /\ \A w \in write : WriteIs(w)
    /\ EventsGood
    /\ \A c \in copy : CopyIs(c)

LEMMA MirrorIs ==
    /\ Exact(Mirror.path) /\ Mirror.path \in Path /\ NamesNoCharacter(Mirror.path)
    /\ Mirror.type = "mutated" /\ Mirror.type \in MutationEvents /\ ~Mirror.notify
    /\ \A s \in Subscriptions : GoodSub(s)
    /\ \A i \in Indexes : GoodIndex(i)
BY TrackedAssumption DEF Exact, GoodSub, GoodIndex, MutationEvents

\* Values of a tree are copies of it.
LEMMA FreshCopy ==
    ASSUME GoodTree(db)
    PROVE  CopyIs(At(db, Mirror.path))
<1> DEFINE p == Mirror.path
           c == At(db, p)
<1>1. Plain(db) /\ p \in Path
  BY MirrorIs, ValueIsPlain DEF GoodTree
<1> HIDE DEF p
<1>2. Plain(c) /\ c = [x \in DOMAIN c |-> c[x]] /\ \A x \in Path : Kind(c, x) = Kind(db, p \o x)
  BY <1>1, AtPlain, AtKind DEF Plain
<1> HIDE DEF c
<1> QED
  BY <1>2 DEF CopyIs, c, p

LEMMA InvInit == Init => IInv
<1> SUFFICES ASSUME Init PROVE IInv
  OBVIOUS
<1>1. GoodTree(Object)
  <2>1. Above(<<>>) = {}
    BY EmptyPath DEF Above
  <2>2. Object = [p \in DOMAIN Object |-> Object[p]]
    BY DEF Object
  <2> QED
    BY <2>1, <2>2, EmptyPath DEF GoodTree, IsValue, IsTree, Object, Kind
<1> QED
  BY <1>1 DEF Init, IInv, EventsGood, Mine

\* A write that begins.
LEMMA BeginKeeps ==
    ASSUME IInv, NEW r \in Requests, Begin(r)
    PROVE  IInv'
<1> DEFINE w == Target(db, r.path, r.updates)
           i == Impact(subs, Indexes, w.path, w.updates)
<1>1. IsRequest(r)
  BY TrackedAssumption
<1>2. GoodTree(db)
  BY DEF IInv
<1>3. GoodWrite(db, w.path, w.updates)
  BY <1>1, <1>2, TargetGood
<1>4. write' = {i} /\ UNCHANGED <<db, subs, queue, copy>>
  BY DEF Begin
<1> HIDE DEF w
<1>5. w.path \in Path /\ \A k \in DOMAIN w.updates : k \in Path
  BY <1>3, UpdateKeys DEF GoodWrite
<1>6. /\ GoodImpact(i) /\ i.path = w.path /\ i.updates = w.updates
      /\ i.subs = AllSubscribers(subs, w.path) /\ i.indexes = AffectedIndexes(Indexes, w.path)
  <2> DEFINE path == w.path
             u == w.updates
  <2>1. path \in Path /\ \A k \in DOMAIN u : k \in Path
    BY <1>5
  <2>2. (\A s \in subs : GoodSub(s)) /\ \A x \in Indexes : GoodIndex(x)
    BY MirrorIs DEF IInv
  <2> HIDE DEF path, u
  <2> DEFINE j == Impact(subs, Indexes, path, u)
  <2>3. /\ GoodImpact(j) /\ j.path = path /\ j.updates = u
        /\ j.subs = AllSubscribers(subs, path) /\ j.indexes = AffectedIndexes(Indexes, path)
    BY <2>1, <2>2, ImpactGood
  <2> QED
    BY <2>3 DEF path, u
<1> HIDE DEF i
<1>7. DataPath(Mirror, w.path) = IF OnTrail(Mirror.path, w.path) THEN {w.path} ELSE {}
  <2>1. Mirror.type # "value" /\ Mirror.type \in MutationEvents
    BY MirrorIs
  <2>2. Mirror.type \notin ParentEvents /\ Mirror.type # "child_changed"
    BY MirrorIs DEF ParentEvents
  <2> QED
    BY <2>1, <2>2 DEF DataPath
<1>8. Mirror \in i.subs <=> Mirror \in subs /\ OnTrail(Mirror.path, w.path)
  BY <1>6, <1>7 DEF AllSubscribers
<1>9. ASSUME NEW v \in write'
      PROVE  WriteIs(v)'
  <2>1. v = i
    BY <1>4
  <2>2. /\ GoodImpact(v) /\ GoodWrite(db, v.path, v.updates)
        /\ v.indexes = AffectedIndexes(Indexes, v.path)
    BY <1>3, <1>6, <2>1
  <2>3. Mirror \in v.subs <=> Mirror \in subs /\ OnTrail(Mirror.path, v.path)
    BY <1>6, <1>8, <2>1
  <2>4. copy # {} => Mirror \in subs
    BY DEF IInv
  <2> QED
    BY <1>4, <2>2, <2>3, <2>4 DEF WriteIs
<1>10. EventsGood' /\ \A c \in copy : CopyIs(c)'
  BY <1>4 DEF IInv, EventsGood, CopyIs, Mine
<1>11. GoodTree(db') /\ subs' \subseteq Subscriptions /\ (copy' # {} => Mirror \in subs')
  BY <1>4 DEF IInv
<1>12. \A c \in copy' : CopyIs(c)'
  BY <1>4, <1>10
<1> QED
  BY <1>9, <1>10, <1>11, <1>12 DEF IInv

\* A write that ends.
LEMMA EndKeeps ==
    ASSUME IInv, End
    PROVE  IInv'
<1>1. PICK w \in write : db' = Applied(db, w.path, w.updates) /\ queue' = EventsOf(db, w)
  BY DEF End
<1>2. WriteIs(w) /\ GoodTree(db) /\ queue = {} /\ write' = {} /\ subs' = subs /\ copy' = copy
  BY DEF IInv, End
<1>3. GoodTree(db') /\ db' = After(db, w)
  BY <1>1, <1>2, AfterWrite DEF WriteIs, After
<1> DEFINE mutated == MutatedEvents(Mirror, w, OldData(db, w), NewData(db, w))
<1>4. Mine(queue') = IF Mirror \in w.subs THEN mutated ELSE {}
  BY <1>1, MirrorIs, EventsFor DEF Mine
<1>5. Mirror \in w.subs => AreChanges(db, w, Mirror.path, mutated)
  <2>1. Mirror \in w.subs => mutated = Mutations(Mirror, db, w)
    BY <1>2, MirrorIs, MutatedAre DEF WriteIs
  <2>2. AreChanges(db, w, Mirror.path, Mutations(Mirror, db, w))
    BY <1>2, MirrorIs, MutationsAreChanges DEF WriteIs
  <2> QED
    BY <2>1, <2>2
<1> HIDE DEF mutated
<1>6. EventsGood'
  <2>1. CASE Mirror \in w.subs
    BY <1>3, <1>4, <1>5, <2>1 DEF AreChanges, EventsGood, Mine
  <2>2. CASE Mirror \notin w.subs
    BY <1>4, <2>2 DEF EventsGood, Mine
  <2> QED
    BY <2>1, <2>2
<1>7. ASSUME NEW c \in copy
      PROVE  CopyIs(c)'
  <2>1. /\ Plain(c) /\ c = [p \in DOMAIN c |-> c[p]]
        /\ \A x \in Path : Kind(c, x) = Kind(db, Mirror.path \o x)
    BY <1>2 DEF IInv, CopyIs, Mine
  <2>2. ASSUME NEW x \in Path, \A e \in Mine(queue') : ~IsPrefix(e.path, Mirror.path \o x)
        PROVE  Kind(db, Mirror.path \o x) = Kind(db', Mirror.path \o x)
    <3> DEFINE q == Mirror.path \o x
    <3>1. q \in Path /\ IsPrefix(Mirror.path, q)
      BY MirrorIs, Concat, Extends
    <3> HIDE DEF q
    <3>2. ASSUME Kind(db, q) # Kind(db', q)
          PROVE  FALSE
      <4>1. Changed(db, w, q)
        BY <1>3, <3>2 DEF Changed
      <4>2. IsPrefix(w.path, q) /\ w.path \in Path
        BY <1>2, <3>1, <4>1, ChangeIsLoaded DEF WriteIs, GoodImpact
      <4>3. OnTrail(Mirror.path, w.path)
        <5> DEFINE path == w.path
        <5>1. path \in Path /\ IsPrefix(path, q)
          BY <4>2
        <5> HIDE DEF path
        <5>2. IsPrefix(Mirror.path, path) \/ IsPrefix(path, Mirror.path)
          BY <3>1, <5>1, MirrorIs, PrefixesCompare
        <5>3. OnTrail(Mirror.path, path)
          BY <5>1, <5>2, MirrorIs, ExactTrail
        <5> QED
          BY <5>3 DEF path
      <4>4. Mirror \in w.subs
        BY <1>2, <4>3 DEF WriteIs
      <4>5. \E e \in Mine(queue') : IsPrefix(e.path, q)
        BY <1>4, <1>5, <3>1, <4>1, <4>4 DEF AreChanges
      <4> QED
        BY <2>2, <4>5 DEF q
    <3> QED
      BY <3>2 DEF q
  <2> QED
    BY <2>1, <2>2 DEF CopyIs, Mine
<1> QED
  BY <1>2, <1>3, <1>6, <1>7 DEF IInv

\* Events that fire.
LEMMA FireKeeps ==
    ASSUME IInv, Fire
    PROVE  IInv'
<1> DEFINE p == Mirror.path
           mine == Mine(queue)
           below(e) == Rest(e.path, Len(p))
           keys == {below(e) : e \in mine}
           at(k) == CHOOSE e \in mine : below(e) = k
           u == [k \in keys |-> at(k).new]
<1>1. copy' = {Applied(c, <<>>, u) : c \in copy} /\ queue' = {} /\ UNCHANGED <<db, subs, write>>
  BY DEF Fire, Mine
<1>2. /\ GoodTree(db) /\ Plain(db) /\ p \in Path
      /\ \A e \in mine : e.path \in Path /\ IsPrefix(p, e.path) /\ e.new = At(db, e.path)
      /\ \A e \in mine, f \in mine, q \in Path : IsPrefix(e.path, q) /\ IsPrefix(f.path, q) => e.path = f.path
  BY MirrorIs, ValueIsPlain DEF IInv, EventsGood, GoodTree
<1>3. ASSUME NEW c \in copy
      PROVE  /\ Plain(c)
             /\ \A x \in Path : (\A e \in mine : ~IsPrefix(e.path, p \o x)) => Kind(c, x) = Kind(db, p \o x)
  BY DEF IInv, CopyIs
<1> HIDE DEF mine, p
<1>4. ASSUME NEW e \in mine
      PROVE  below(e) \in Path /\ p \o below(e) = e.path
  <2> DEFINE y == e.path
  <2>1. y \in Path /\ IsPrefix(p, y)
    BY <1>2
  <2> HIDE DEF y
  <2>2. Rest(y, Len(p)) \in Path /\ p \o Rest(y, Len(p)) = y
    BY <1>2, <2>1, PrefixSplits
  <2> QED
    BY <2>2 DEF y
<1> HIDE DEF below
<1>5. ASSUME NEW k \in keys
      PROVE  k \in Path /\ at(k) \in mine /\ below(at(k)) = k /\ at(k).path = p \o k /\ at(k).new = At(db, p \o k)
  <2>1. at(k) \in mine /\ below(at(k)) = k
    BY <1>5
  <2> HIDE DEF at
  <2> QED
    BY <1>2, <1>4, <2>1
<1> HIDE DEF at
<1>6. \A e \in mine : below(e) \in keys
  OBVIOUS
<1>7. DOMAIN u = keys /\ \A k \in keys : u[k] = at(k).new
  OBVIOUS
<1> HIDE DEF u, keys
<1>8. ASSUME NEW k \in keys
      PROVE  u[k] = At(db, p \o k) /\ Plain(u[k]) /\ \A x \in Path : Kind(u[k], x) = Kind(db, (p \o k) \o x)
  <2> DEFINE pk == p \o k
  <2>1. pk \in Path /\ u[k] = At(db, pk)
    BY <1>2, <1>5, <1>7, Concat
  <2> HIDE DEF pk
  <2>2. Plain(At(db, pk)) /\ \A x \in Path : Kind(At(db, pk), x) = Kind(db, pk \o x)
    BY <1>2, <2>1, AtPlain, AtKind DEF Plain
  <2> QED
    BY <2>1, <2>2 DEF pk
<1>9. IsUpdates(u)
  <2>1. ASSUME NEW k \in keys, NEW l \in keys, NEW q \in Path, IsPrefix(k, q), IsPrefix(l, q)
        PROVE  k = l
    <3>1. k \in Path /\ l \in Path /\ p \o q \in Path
      BY <1>2, <1>5, Concat
    <3>2. IsPrefix(p \o k, p \o q) /\ IsPrefix(p \o l, p \o q)
      BY <1>2, <2>1, <3>1, PrefixBelow
    <3>3. at(k) \in mine /\ at(l) \in mine /\ at(k).path = p \o k /\ at(l).path = p \o l
      BY <1>5
    <3>4. p \o k = p \o l
      BY <1>2, <3>1, <3>2, <3>3
    <3> QED
      BY <1>2, <3>1, <3>4, Cancel
  <2>2. \A k \in keys : k \in Path /\ DOMAIN u[k] \subseteq Path
    BY <1>5, <1>8 DEF Plain
  <2> QED
    BY <1>7, <2>1, <2>2 DEF IsUpdates
<1>10. ASSUME NEW c \in copy
       PROVE  LET a == Applied(c, <<>>, u) IN
              /\ Plain(a) /\ a = [x \in DOMAIN a |-> a[x]]
              /\ \A x \in Path : Kind(a, x) = Kind(db, p \o x)
  <2> DEFINE a == Applied(c, <<>>, u)
  <2>1. Plain(a) /\ a = [x \in DOMAIN a |-> a[x]]
    <3>1. \A k \in DOMAIN u : Plain(u[k])
      BY <1>7, <1>8
    <3> QED
      BY <1>3, <1>9, <3>1, EmptyPath, AppliedPlain, AppliedFunction
  <2>2. ASSUME NEW x \in Path
        PROVE  Kind(a, x) = Kind(db, p \o x)
    <3> DEFINE root == <<>>
    <3>1. DOMAIN c \subseteq Path /\ root \in Path /\ a = Applied(c, root, u)
      BY <1>3, EmptyPath DEF Plain
    <3>3. \A k \in keys : root \o k = k
      BY <1>5, EmptyConcat
    <3> HIDE DEF root, a
    <3>2. /\ \A k \in DOMAIN u : IsPrefix(root \o k, x) => Kind(a, x) = Kind(u[k], Rest(x, Len(root \o k)))
          /\ (\A k \in DOMAIN u : ~IsPrefix(root \o k, x)) => Kind(a, x) = Kind(c, x)
      BY <1>9, <3>1, AppliedKind
    <3>4. /\ \A k \in keys : IsPrefix(k, x) => Kind(a, x) = Kind(u[k], Rest(x, Len(k)))
          /\ (\A k \in keys : ~IsPrefix(k, x)) => Kind(a, x) = Kind(c, x)
      BY <1>7, <3>2, <3>3
    <3>5. CASE \E k \in keys : IsPrefix(k, x)
      <4>1. PICK k \in keys : IsPrefix(k, x)
        BY <3>5
      <4>2. k \in Path
        BY <1>5
      <4> DEFINE r == Rest(x, Len(k))
      <4>3. r \in Path /\ k \o r = x
        BY <4>1, <4>2, PrefixSplits
      <4>4. Kind(a, x) = Kind(u[k], r)
        BY <3>4, <4>1
      <4> HIDE DEF r
      <4>5. Kind(u[k], r) = Kind(db, (p \o k) \o r)
        BY <1>8, <4>3
      <4>6. (p \o k) \o r = p \o (k \o r)
        <5>1. Regroups(p, k, r)
          BY <1>2, <4>2, <4>3, Regroup
        <5> QED
          BY <5>1 DEF Regroups
      <4> QED
        BY <4>3, <4>4, <4>5, <4>6
    <3>6. CASE \A k \in keys : ~IsPrefix(k, x)
      <4>1. ASSUME NEW e \in mine, IsPrefix(e.path, p \o x)
            PROVE  FALSE
        <5>1. below(e) \in Path /\ below(e) \in keys /\ IsPrefix(p \o below(e), p \o x)
          BY <1>4, <1>6, <4>1
        <5> DEFINE b == below(e)
        <5>2. b \in Path /\ b \in keys /\ IsPrefix(p \o b, p \o x)
          BY <5>1
        <5> HIDE DEF b
        <5>3. IsPrefix(b, x)
          BY <1>2, <5>2, PrefixBelow
        <5> QED
          BY <3>6, <5>2, <5>3
      <4> QED
        BY <1>3, <3>4, <3>6, <4>1
    <3> QED
      BY <3>5, <3>6
  <2> HIDE DEF a
  <2> QED
    BY <2>1, <2>2 DEF a
<1>11. Mine(queue') = {}
  BY <1>1 DEF Mine
<1>12. ASSUME NEW c \in copy'
       PROVE  CopyIs(c)'
  <2>1. PICK d \in copy : c = Applied(d, <<>>, u)
    BY <1>1, <1>12
  <2>2. /\ Plain(c) /\ c = [x \in DOMAIN c |-> c[x]]
        /\ \A x \in Path : Kind(c, x) = Kind(db', p \o x)
    BY <1>1, <1>10, <2>1
  <2> QED
    BY <2>2 DEF CopyIs, p
<1>13. EventsGood'
  BY <1>11 DEF EventsGood
<1>14. \A w \in write' : WriteIs(w)'
  <2>1. copy' # {} => copy # {}
    BY <1>1
  <2>2. \A w \in write : WriteIs(w)
    BY DEF IInv
  <2> HIDE DEF u
  <2> QED
    BY <1>1, <2>1, <2>2 DEF WriteIs
<1>15. GoodTree(db)' /\ subs' \subseteq Subscriptions /\ (copy' # {} => Mirror \in subs')
  BY <1>1 DEF IInv
<1> QED
  BY <1>12, <1>13, <1>14, <1>15 DEF IInv

LEMMA InvStep == IInv /\ [Next]_vars => IInv'
<1> SUFFICES ASSUME IInv, [Next]_vars PROVE IInv'
  OBVIOUS
<1>1. ASSUME NEW s \in Subscriptions, Subscribe(s)
      PROVE  IInv'
  <2>1. subs' = subs \union {s} /\ UNCHANGED <<db, write, queue, copy>>
    BY <1>1 DEF Subscribe
  <2> QED
    BY <2>1 DEF IInv, WriteIs, EventsGood, CopyIs, Mine
<1>2. ASSUME NEW s \in Subscriptions, Unsubscribe(s)
      PROVE  IInv'
  <2>1. /\ subs' = subs \ {s} /\ UNCHANGED <<db, write, queue>>
        /\ copy' = IF s = Mirror THEN {} ELSE copy
    BY <1>2 DEF Unsubscribe
  <2>2. copy' \subseteq copy /\ (copy' # {} => copy # {} /\ s # Mirror)
    BY <2>1
  <2> QED
    BY <2>1, <2>2 DEF IInv, WriteIs, EventsGood, CopyIs, Mine
<1>3. ASSUME NEW r \in Requests, Begin(r)
      PROVE  IInv'
  BY <1>3, BeginKeeps
<1>4. CASE End
  BY <1>4, EndKeeps
<1>5. CASE Fire
  BY <1>5, FireKeeps
<1>6. CASE Load
  <2>1. /\ Mirror \in subs /\ write = {} /\ copy' = {At(db, Mirror.path)}
        /\ UNCHANGED <<db, subs, write, queue>>
    BY <1>6 DEF Load
  <2>2. CopyIs(At(db, Mirror.path))
    BY FreshCopy DEF IInv
  <2> QED
    BY <2>1, <2>2 DEF IInv, WriteIs, EventsGood, CopyIs, Mine
<1>7. CASE UNCHANGED vars
  BY <1>7 DEF vars, IInv, WriteIs, EventsGood, CopyIs, Mine
<1> QED
  BY <1>1, <1>2, <1>3, <1>4, <1>5, <1>6, <1>7 DEF Next

\* The database stays a tree of objects and leaves, a write under way has what
\* its lock found, and a copy is the data but for the events that are to fire.
THEOREM Invariance == Spec => []IInv
BY InvInit, InvStep, PTL DEF Spec

\* A client that subscribes to mutations of a node, loads it under a read lock
\* and applies the events as they fire has the data, whatever _writeNodeWithTracking
\* loads for the other subscriptions and the indexes.
THEOREM CopiesFollow == Spec => []CopyFollows
<1>1. IInv => CopyFollows
  <2> SUFFICES ASSUME IInv, queue = {}, NEW c \in copy
               PROVE  c = At(db, Mirror.path)
    BY DEF CopyFollows
  <2> DEFINE p == Mirror.path
             d == At(db, p)
  <2>1. Plain(c) /\ c = [x \in DOMAIN c |-> c[x]] /\ \A x \in Path : Kind(c, x) = Kind(db, p \o x)
    BY DEF IInv, CopyIs, Mine
  <2>2. Plain(db) /\ p \in Path
    BY MirrorIs, ValueIsPlain DEF IInv, GoodTree
  <2> HIDE DEF p
  <2>3. Plain(d) /\ d = [x \in DOMAIN d |-> d[x]] /\ \A x \in Path : Kind(d, x) = Kind(db, p \o x)
    BY <2>2, AtPlain, AtKind DEF Plain
  <2> HIDE DEF d
  <2>4. c = d
    BY <2>1, <2>3, SameTree
  <2> QED
    BY <2>4 DEF d, p
<1> QED
  BY <1>1, Invariance, PTL

----------------------------------------------------------------------------
\* Indexes on one key of their records, that include no other keys.

IsPlain(i) == Len(i.key) = 1 /\ i.include = {}
PlainIndexes == \A i \in Indexes : IsPlain(i)

EntryOf(i, t, p) == [record |-> p, key |-> At(t, p \o i.key), meta |-> [k \in i.include |-> At(t, p \o k)]]
EntriesOf(i, t, p) == IF IsLeaf(At(t, p \o i.key)) THEN {EntryOf(i, t, p)} ELSE {}
MayBeRecord(i, p) == p \in Path /\ Len(p) = Len(i.path) + 1 /\ OnTrail(i.path, p)
Complete(i, t, entries) ==
    /\ \A e \in entries : MayBeRecord(i, e.record)
    /\ \A e, p : MayBeRecord(i, p) => (e \in entries /\ e.record = p <=> e \in EntriesOf(i, t, p))
ToFollow(t, i) ==
    {[record |-> p, key |-> At(t, p \o i.key), meta |-> [k \in i.include |-> At(t, p \o k)]] :
       p \in {q \in DOMAIN t : Len(q) = Len(i.path) + 1 /\ OnTrail(i.path, q) /\ IsLeaf(At(t, q \o i.key))}}

LEMMA LeafKind ==
    ASSUME NEW t, Plain(t), NEW q \in Path
    PROVE  IsLeaf(At(t, q)) <=> Kind(t, q) \notin {"obj", "none"}
<1>1. Kind(At(t, q), <<>>) = Kind(t, q \o <<>>)
  BY EmptyPath, AtKind DEF Plain
<1>2. q \o <<>> = q
  BY EmptyConcat
<1> QED
  BY <1>1, <1>2 DEF IsLeaf

LEMMA FollowsMeans ==
    ASSUME NEW t, GoodTree(t), NEW i, GoodIndex(i), NEW entries
    PROVE  entries = ToFollow(t, i) <=> Complete(i, t, entries)
<1> DEFINE R == {q \in DOMAIN t : Len(q) = Len(i.path) + 1 /\ OnTrail(i.path, q) /\ IsLeaf(At(t, q \o i.key))}
           key == i.key
<1>1. Plain(t) /\ IsTree(t) /\ key \in Path
  BY ValueIsPlain DEF GoodTree, GoodIndex
<1>2. ASSUME NEW p \in Path, IsLeaf(At(t, p \o key))
      PROVE  p \in DOMAIN t
  <2> DEFINE pk == p \o key
  <2>1. pk \in Path /\ IsPrefix(p, pk)
    BY <1>1, Concat, Extends
  <2>2. IsLeaf(At(t, pk))
    BY <1>2
  <2> HIDE DEF pk
  <2>3. pk \in DOMAIN t
    BY <1>1, <2>1, <2>2, LeafKind DEF Kind
  <2> QED
    BY <1>1, <2>1, <2>3, TreeAbove
<1>3. \A p : p \in R <=> MayBeRecord(i, p) /\ IsLeaf(At(t, p \o i.key))
  BY <1>1, <1>2 DEF MayBeRecord, Plain
<1>4. ToFollow(t, i) = {EntryOf(i, t, p) : p \in R}
  BY DEF ToFollow, EntryOf
<1> HIDE DEF R
<1>5. \A p : EntryOf(i, t, p).record = p
  BY DEF EntryOf
<1>6. \A e : e \in ToFollow(t, i) <=> MayBeRecord(i, e.record) /\ e \in EntriesOf(i, t, e.record)
  <2> TAKE e
  <2>1. ASSUME e \in ToFollow(t, i)
        PROVE  MayBeRecord(i, e.record) /\ e \in EntriesOf(i, t, e.record)
    <3>1. PICK p \in R : e = EntryOf(i, t, p)
      BY <1>4, <2>1
    <3>2. e.record = p
      BY <1>5, <3>1
    <3> QED
      BY <1>3, <3>1, <3>2 DEF EntriesOf
  <2>2. ASSUME MayBeRecord(i, e.record), e \in EntriesOf(i, t, e.record)
        PROVE  e \in ToFollow(t, i)
    <3>1. IsLeaf(At(t, e.record \o i.key)) /\ e = EntryOf(i, t, e.record)
      BY <2>2 DEF EntriesOf
    <3>2. e.record \in R
      BY <1>3, <2>2, <3>1
    <3> QED
      BY <1>4, <3>1, <3>2
  <2> QED
    BY <2>1, <2>2
<1>7. \A p : \A e \in EntriesOf(i, t, p) : e.record = p
  BY <1>5 DEF EntriesOf
<1> HIDE DEF key
<1>8. ASSUME entries = ToFollow(t, i)
      PROVE  Complete(i, t, entries)
  BY <1>6, <1>7, <1>8 DEF Complete
<1>9. ASSUME Complete(i, t, entries)
      PROVE  entries = ToFollow(t, i)
  <2>1. \A e : e \in entries <=> e \in ToFollow(t, i)
    BY <1>6, <1>7, <1>9 DEF Complete
  <2> QED
    BY <2>1
<1> QED
  BY <1>8, <1>9

----------------------------------------------------------------------------
\* What a write changes of the key of a record.

LEMMA SameEntries ==
    ASSUME NEW t, GoodTree(t), NEW w, GoodWrite(t, w.path, w.updates), NEW i, GoodIndex(i), IsPlain(i),
           NEW p \in Path, Untouched(t, w, p \o i.key)
    PROVE  EntriesOf(i, t, p) = EntriesOf(i, After(t, w), p)
<1> DEFINE q == p \o i.key
<1>1. q \in Path /\ Untouched(t, w, q)
  BY Concat DEF GoodIndex
<1> HIDE DEF q
<1>2. At(t, q) = At(After(t, w), q)
  BY <1>1, UntouchedSame
<1>3. i.include = {}
  BY DEF IsPlain
<1> DEFINE a == After(t, w)
<1> HIDE DEF a
<1>4. [k \in i.include |-> At(t, p \o k)] = [k \in i.include |-> At(a, p \o k)]
  BY <1>3
<1>5. EntryOf(i, t, p) = EntryOf(i, a, p)
  BY <1>2, <1>4 DEF EntryOf, q, a
<1> QED
  BY <1>2, <1>5 DEF EntriesOf, q, a

\* Changes of a record's key have the index looked for.
LEMMA OnPattern ==
    ASSUME NEW i, GoodIndex(i), NEW p, MayBeRecord(i, p), NEW q \in Path, IsPrefix(p, q) \/ IsPrefix(q, p)
    PROVE  OnTrail(RecordPattern(i), q)
<1> DEFINE n == Len(i.path)
           r == RecordPattern(i)
<1>1. n \in Nat /\ Len(p) = n + 1 /\ p \in Path /\ Len(q) \in Nat
  BY PathLength DEF GoodIndex, MayBeRecord
<1>2. Len(r) = n + 1 /\ r[n + 1] = "*" /\ \A j \in 1..n : r[j] = i.path[j]
  BY PatternOf DEF GoodIndex, RecordPattern
<1>3. \A j \in 1..n : i.path[j] \in {p[j], "*"}
  BY <1>1 DEF MayBeRecord, OnTrail
<1>4. \A j \in 1..(n + 1) : j <= Len(q) => p[j] = q[j]
  <2>1. CASE IsPrefix(p, q)
    BY <1>1, <2>1, PrefixKeys
  <2>2. CASE IsPrefix(q, p)
    <3>1. \A j \in 1..Len(q) : q[j] = p[j]
      BY <1>1, <2>2, PrefixKeys
    <3> QED
      BY <1>1, <3>1
  <2> QED
    BY <2>1, <2>2
<1> HIDE DEF n, r
<1>5. \A j \in 1..(n + 1) : j <= Len(q) => r[j] \in {q[j], "*"}
  <2> TAKE j \in 1..(n + 1)
  <2>1. CASE j = n + 1
    BY <1>2, <2>1
  <2>2. CASE j # n + 1
    <3>1. j \in 1..n
      BY <1>1, <2>2
    <3> QED
      BY <1>2, <1>3, <1>4, <3>1
  <2> QED
    BY <2>1, <2>2
<1> DEFINE m == IF Len(r) < Len(q) THEN Len(r) ELSE Len(q)
<1>6. \A j \in 1..m : j \in 1..(n + 1) /\ j <= Len(q)
  BY <1>1, <1>2
<1>7. \A j \in 1..m : r[j] \in {q[j], "*"}
  BY <1>5, <1>6
<1> QED
  BY <1>7 DEF OnTrail, r

LEMMA TrailOfPattern ==
    ASSUME NEW i, GoodIndex(i), NEW p \in Path, Len(p) = Len(i.path) + 1
    PROVE  OnTrail(RecordPattern(i), p) <=> OnTrail(i.path, p)
<1> DEFINE n == Len(i.path)
           r == RecordPattern(i)
           path == i.path
<1>1. n \in Nat /\ Len(p) = n + 1 /\ Len(p) \in Nat /\ path \in Path
  BY PathLength DEF GoodIndex
<1>2. OnTrail(path, p) => OnTrail(r, p)
  BY <1>1, OnPattern, PrefixReflexive DEF MayBeRecord
<1>3. Len(r) = n + 1 /\ \A j \in 1..n : r[j] = path[j]
  BY PatternOf DEF GoodIndex, RecordPattern
<1> HIDE DEF r, path
<1>4. OnTrail(r, p) => OnTrail(path, p)
  <2>1. OnTrail(r, p) => \A j \in 1..(n + 1) : r[j] \in {p[j], "*"}
    BY <1>1, <1>3 DEF OnTrail
  <2>2. Len(path) = n
    BY DEF path
  <2> HIDE DEF n
  <2>3. (\A j \in 1..n : path[j] \in {p[j], "*"}) => OnTrail(path, p)
    BY <1>1, <2>2 DEF OnTrail
  <2> QED
    BY <1>1, <1>3, <2>1, <2>3
<1> QED
  BY <1>2, <1>4 DEF r, path

\* An index that is not affected by a write: the write leaves the keys alone.
LEMMA NotAffected ==
    ASSUME NEW t, GoodTree(t), NEW w, GoodImpact(w), GoodWrite(t, w.path, w.updates),
           NEW I, NEW i \in I, GoodIndex(i), IsPlain(i), i \notin AffectedIndexes(I, w.path),
           NEW p, MayBeRecord(i, p)
    PROVE  Untouched(t, w, p \o i.key)
<1> DEFINE path == w.path
           key == i.key
           pk == p \o key
           n == Len(p)
<1>1. /\ path \in Path /\ key \in Path /\ Len(key) = 1 /\ p \in Path
      /\ n \in Nat /\ n = Len(i.path) + 1 /\ Len(path) \in Nat
  BY PathLength DEF GoodImpact, GoodIndex, IsPlain, MayBeRecord
<1>2. /\ pk \in Path /\ Len(pk) = n + 1 /\ IsPrefix(p, pk) /\ pk[n + 1] = key[1]
  <2>1. /\ pk \in Path /\ Len(pk) = Len(p) + Len(key)
        /\ \A j \in 1..Len(key) : pk[Len(p) + j] = key[j]
    BY <1>1, ConcatKeys
  <2>2. IsPrefix(p, pk)
    BY <1>1, Extends
  <2>3. 1 \in 1..Len(key)
    BY <1>1
  <2> HIDE DEF pk
  <2> QED
    BY <1>1, <2>1, <2>2, <2>3
<1>3. Len(RecordPattern(i)) = n
  BY <1>1, PatternOf DEF RecordPattern, GoodIndex
<1>4. key \in IndexKeys(i)
  BY DEF IndexKeys
<1>5. <<key[1]>> = key
  <2>1. DOMAIN key = 1..1 /\ key = [j \in 1..1 |-> key[j]]
    <3> HIDE DEF key
    <3>1. DOMAIN key = 1..Len(key) /\ key = [j \in DOMAIN key |-> key[j]]
      BY <1>1, LenProperties DEF Path
    <3> QED
      BY <1>1, <3>1
  <2> HIDE DEF key
  <2> QED
    BY <2>1
<1>6. ASSUME NEW x \in Path, Changed(t, w, pk \o x)
      PROVE  FALSE
  <2> DEFINE q == pk \o x
  <2>1. q \in Path /\ IsPrefix(pk, q)
    BY <1>2, <1>6, Concat, Extends
  <2> HIDE DEF q
  <2>2. IsPrefix(path, q)
    <3>1. Changed(t, w, q)
      BY <1>6 DEF q
    <3> QED
      BY <2>1, <3>1, ChangeIsLoaded
  <2> HIDE DEF path, pk
  <2>3. IsPrefix(p, q)
    BY <1>1, <1>2, <2>1, PrefixTransitive
  <2>4. IsPrefix(p, path) \/ IsPrefix(path, p)
    BY <1>1, <2>1, <2>2, <2>3, PrefixesCompare
  <2>5. OnTrail(RecordPattern(i), path)
    BY <1>1, <2>4, OnPattern
  <2>6. Len(path) > n /\ <<path[n + 1]>> \notin IndexKeys(i)
    BY <1>1, <1>3, <2>5 DEF AffectedIndexes, path
  <2>7. IsPrefix(pk, path)
    <3>1. Len(pk) <= Len(path)
      BY <1>1, <1>2, <2>6
    <3> QED
      BY <1>1, <1>2, <2>1, <2>2, <3>1, PrefixesOrdered
  <2>8. path[n + 1] = key[1]
    <3>1. n + 1 \in 1..Len(pk)
      BY <1>1, <1>2
    <3>2. pk[n + 1] = path[n + 1]
      BY <1>1, <1>2, <2>7, <3>1, PrefixKeys
    <3> QED
      BY <1>2, <3>2
  <2> HIDE DEF n, key
  <2> QED
    BY <1>4, <1>5, <2>6, <2>8
<1> QED
  BY <1>6 DEF Untouched, pk, key

\* What is changed below the key of a record is loaded with the key, or is
\* strictly below it, where the key is an object before and after.
LEMMA KeyLoaded ==
    ASSUME NEW t, GoodTree(t), NEW w, GoodImpact(w), GoodWrite(t, w.path, w.updates),
           NEW b \in Path, NEW x \in Path, Changed(t, w, w.top \o (b \o x))
    PROVE  LET q == w.top \o b IN
           \/ \E l \in w.keys : IsPrefix(l, b)
           \/ Near(w.keys, b) /\ Kind(t, q) = "obj" /\ Kind(After(t, w), q) = "obj"
<1> DEFINE path == w.path
           top == w.top
           u == w.updates
           q == top \o b
           a == After(t, w)
           bx == b \o x
           tbx == top \o bx
<1>1. /\ Plain(t) /\ IsTree(t) /\ path \in Path /\ top \in Path /\ IsUpdate(u) /\ w.keys \subseteq Path
      /\ path \in DOMAIN t /\ (<<>> \notin DOMAIN u => Kind(t, path) = "obj")
      /\ \A k \in DOMAIN u : \E l \in w.keys : IsPrefix(top \o l, path \o k)
      /\ IsUpdates(u) /\ \A k \in DOMAIN u : k \in Path /\ (k = <<>> \/ (Len(k) = 1 /\ <<>> \notin DOMAIN u))
  BY ValueIsPlain, UpdateKeys DEF GoodTree, GoodImpact, GoodWrite
<1>2. /\ q \in Path /\ bx \in Path /\ tbx \in Path /\ IsPrefix(b, bx) /\ IsPrefix(q, tbx)
  <2>1. bx \in Path /\ IsPrefix(b, bx)
    BY Concat, Extends
  <2> HIDE DEF bx
  <2> QED
    BY <1>1, <2>1, Concat, PrefixBelow
<1>3. a = Applied(t, path, u) /\ Kind(a, tbx) # Kind(t, tbx)
  BY DEF After, Changed
<1> HIDE DEF path, top, u, q, a, bx, tbx
<1>4. PICK k \in DOMAIN u : k \in Path /\ IsPrefix(path \o k, tbx)
  BY <1>1, <1>2, <1>3, ChangedAt
<1>5. PICK l \in w.keys : IsPrefix(top \o l, path \o k)
  BY <1>1
<1> DEFINE pk == path \o k
           tl == top \o l
<1>6. l \in Path /\ pk \in Path /\ tl \in Path /\ IsPrefix(pk, tbx) /\ IsPrefix(tl, pk) /\ IsPrefix(path, pk)
      /\ Len(pk) = Len(path) + Len(k)
  BY <1>1, <1>4, <1>5, Concat, Extends
<1> HIDE DEF pk
<1>7. IsPrefix(l, bx)
  <2>1. IsPrefix(tl, tbx)
    <3> HIDE DEF tl
    <3> QED
      BY <1>2, <1>6, PrefixTransitive
  <2> QED
    BY <1>1, <1>2, <1>6, <2>1, PrefixBelow DEF tbx
<1>8. IsPrefix(l, b) \/ IsPrefix(b, l)
  BY <1>2, <1>6, <1>7, PrefixesCompare
<1>9. CASE IsPrefix(l, b)
  BY <1>9
<1>10. CASE ~IsPrefix(l, b)
  <2>1. IsPrefix(b, l) /\ Near(w.keys, b) /\ ~IsPrefix(tl, q)
    BY <1>1, <1>6, <1>8, <1>10, PrefixBelow DEF Near, q
  <2>2. IsPrefix(q, tl)
    BY <1>1, <1>6, <2>1, PrefixBelow DEF q
  <2> HIDE DEF tl
  <2>3. IsPrefix(q, pk) /\ ~IsPrefix(pk, q)
    BY <1>2, <1>6, <2>1, <2>2, PrefixTransitive
  <2>4. q # pk
    BY <1>2, <2>3, PrefixReflexive
  <2>5. IsPrefix(q, path) /\ (q # path \/ <<>> \notin DOMAIN u)
    <3>1. CASE k = <<>>
      <4>1. pk = path
        BY <1>1, <3>1, EmptyConcat DEF pk
      <4> QED
        BY <2>3, <2>4, <4>1
    <3>2. CASE k # <<>>
      <4>1. Len(k) = 1 /\ <<>> \notin DOMAIN u
        BY <1>1, <3>2
      <4>2. pk # <<>> /\ Front(pk) = path
        BY <1>1, <1>4, <4>1, ChildPath DEF pk
      <4> QED
        BY <1>2, <1>6, <2>3, <2>4, <4>1, <4>2, PrefixOfFront
    <3> QED
      BY <3>1, <3>2
  <2>6. Kind(t, q) = "obj"
    <3>1. CASE q = path
      BY <1>1, <2>5, <3>1
    <3>2. CASE q # path
      BY <1>1, <1>2, <2>5, <3>2, ValueAbove
    <3> QED
      BY <3>1, <3>2
  <2>7. ASSUME NEW m \in DOMAIN u, IsPrefix(path \o m, q)
        PROVE  FALSE
    <3> DEFINE pm == path \o m
    <3>1. m \in Path /\ pm \in Path /\ IsPrefix(pm, q) /\ IsPrefix(path, pm)
      BY <1>1, <2>7, Concat, Extends
    <3>2. Len(pm) = Len(path) + Len(m)
      BY <1>1, <3>1, Concat
    <3> HIDE DEF pm
    <3>3. IsPrefix(path, q) /\ q = path
      BY <1>1, <1>2, <2>5, <3>1, PrefixTransitive, PrefixAntisymmetric
    <3>4. Len(m) = 0 /\ m = <<>>
      <4>1. Len(pm) <= Len(path)
        BY <1>1, <3>1, <3>3, PrefixLength
      <4>2. Len(m) \in Nat /\ Len(path) \in Nat
        BY <1>1, <3>1, PathLength
      <4>3. Len(m) = 0
        BY <3>2, <4>1, <4>2
      <4> QED
        BY <3>1, <4>3, PathLength
    <3> QED
      BY <2>5, <3>3, <3>4
  <2>8. Kind(a, q) = Kind(t, q)
    <3>1. DOMAIN t \subseteq Path
      BY <1>1 DEF Plain
    <3> QED
      BY <1>1, <1>2, <1>3, <2>7, <3>1, AppliedKind
  <2> QED
    BY <2>1, <2>6, <2>8 DEF q, a, top
<1> QED
  BY <1>9, <1>10 DEF top

\* A record that a write does not find in the data has its key as it was.
LEMMA NotFound ==
    ASSUME NEW t, GoodTree(t), NEW w, GoodImpact(w), GoodWrite(t, w.path, w.updates),
           NEW i \in w.indexes, GoodIndex(i), NEW p, MayBeRecord(i, p),
           p \notin {w.top \o q : q \in DOMAIN OldData(t, w) \union DOMAIN NewData(t, w)}
    PROVE  Untouched(t, w, p \o i.key)
<1> DEFINE top == w.top
           key == i.key
           pk == p \o key
           old == OldData(t, w)
           new == NewData(t, w)
           found == {top \o q : q \in DOMAIN old \union DOMAIN new}
<1>1. /\ top \in Path /\ key \in Path /\ p \in Path /\ w.keys \subseteq Path
      /\ Len(top) <= Len(p)
  BY DEF GoodImpact, GoodIndex, MayBeRecord
<1>2. /\ Plain(old) /\ IsTree(old) /\ Plain(new) /\ IsTree(new)
      /\ \A q \in Path :
            /\ Kind(old, q) = IF Near(w.keys, q) THEN Kind(t, top \o q) ELSE "none"
            /\ Kind(new, q) = IF Near(w.keys, q) THEN Kind(After(t, w), top \o q) ELSE "none"
  BY Loaded DEF IsLoaded
<1>3. pk \in Path /\ IsPrefix(p, pk) /\ p \notin found
  BY <1>1, Concat, Extends
<1> HIDE DEF old, new, pk, found
<1>4. ASSUME NEW x \in Path, Changed(t, w, pk \o x)
      PROVE  FALSE
  <2> DEFINE y == pk \o x
  <2>1. y \in Path /\ IsPrefix(pk, y)
    BY <1>3, <1>4, Concat, Extends
  <2> HIDE DEF y
  <2>2. Kind(t, y) # Kind(After(t, w), y) /\ \E l \in w.keys : IsPrefix(w.top \o l, y)
    <3>1. Changed(t, w, y)
      BY <1>4 DEF y
    <3> QED
      BY <2>1, <3>1, ChangeIsLoaded DEF Changed
  <2> HIDE DEF top
  <2>3. PICK l \in w.keys : IsPrefix(top \o l, y)
    BY <2>2 DEF top
  <2> DEFINE tl == top \o l
  <2>4. l \in Path /\ tl \in Path /\ IsPrefix(top, tl) /\ IsPrefix(tl, y)
    BY <1>1, <2>3, Concat, Extends
  <2> HIDE DEF tl
  <2>5. IsPrefix(top, y) /\ IsPrefix(p, y)
    BY <1>1, <1>3, <2>1, <2>4, PrefixTransitive
  <2>6. IsPrefix(top, p)
    BY <1>1, <2>1, <2>5, PrefixesOrdered
  <2> DEFINE q == Rest(p, Len(top))
             z == Rest(y, Len(top))
  <2>7. q \in Path /\ top \o q = p /\ z \in Path /\ top \o z = y
    BY <1>1, <2>1, <2>5, <2>6, PrefixSplits
  <2> HIDE DEF q, z
  <2>8. IsPrefix(q, z) /\ IsPrefix(l, z)
    BY <1>1, <2>4, <2>5, <2>7, PrefixBelow DEF tl
  <2>9. Near(w.keys, z)
    BY <2>8 DEF Near
  <2>10. Kind(old, z) # Kind(new, z)
    BY <1>2, <2>2, <2>7, <2>9
  <2>11. z \in DOMAIN old \/ z \in DOMAIN new
    BY <2>10 DEF Kind
  <2>12. q \in DOMAIN old \/ q \in DOMAIN new
    <3>1. CASE q = z
      BY <2>11, <3>1
    <3>2. CASE q # z
      BY <1>2, <2>7, <2>8, <2>11, <3>2, TreeAbove
    <3> QED
      BY <3>1, <3>2
  <2> QED
    BY <1>3, <2>7, <2>12 DEF found
<1> QED
  BY <1>4 DEF Untouched, pk

\* A record that is found is indexed again when its key changed.
LEMMA Found ==
    ASSUME NEW t, GoodTree(t), NEW w, GoodImpact(w), GoodWrite(t, w.path, w.updates),
           NEW i, GoodIndex(i), IsPlain(i), NEW q \in Path
    PROVE  LET p == w.top \o q IN
           RecordUpdated(i, EntriesOf(i, t, p), p, At(OldData(t, w), q), At(NewData(t, w), q)) =
             EntriesOf(i, After(t, w), p)
<1> DEFINE top == w.top
           key == i.key
           p == top \o q
           pk == p \o key
           b == q \o key
           old == OldData(t, w)
           new == NewData(t, w)
           a == After(t, w)
           before == At(At(old, q), key)
           after == At(At(new, q), key)
           entries == EntriesOf(i, t, p)
           meta == [k \in i.include |-> IF Len(k) = 1 THEN At(At(new, q), k) ELSE Null]
           removed == {e \in entries : e.record = p /\ e.key = before}
           added == IF IsLeaf(after) THEN {[record |-> p, key |-> after, meta |-> meta]} ELSE {}
<1>1. RecordUpdated(i, entries, p, At(old, q), At(new, q)) =
        IF before = after THEN entries ELSE (entries \ removed) \union added
  <2>1. IndexKeys(i) = {key}
    BY DEF IndexKeys, IsPlain
  <2> QED
    BY <2>1 DEF RecordUpdated
<1>2. /\ Plain(old) /\ Plain(new)
      /\ \A y \in Path :
            /\ Kind(old, y) = IF Near(w.keys, y) THEN Kind(t, top \o y) ELSE "none"
            /\ Kind(new, y) = IF Near(w.keys, y) THEN Kind(a, top \o y) ELSE "none"
  BY Loaded DEF IsLoaded
<1>3. Plain(t) /\ Plain(a)
  <2>1. GoodTree(a)
    BY AfterWrite DEF After
  <2> QED
    BY <2>1, ValueIsPlain DEF GoodTree
<1>4. top \in Path /\ key \in Path /\ w.keys \subseteq Path
  BY DEF GoodImpact, GoodIndex
<1> HIDE DEF top, key
<1>5. p \in Path /\ b \in Path /\ pk \in Path /\ pk = top \o b
  <2>1. p \in Path /\ b \in Path /\ (top \o q) \o key = top \o (q \o key)
    BY <1>4, Concat, Associative
  <2> HIDE DEF b
  <2>2. top \o b \in Path
    BY <1>4, <2>1, Concat
  <2> QED
    BY <2>1, <2>2 DEF b
<1> HIDE DEF p, pk, b, old, new, a
<1>6. before = At(old, b) /\ after = At(new, b)
  BY <1>2, <1>4, AtAt DEF b
<1>7. /\ EntriesOf(i, t, p) = IF IsLeaf(At(t, pk)) THEN {EntryOf(i, t, p)} ELSE {}
      /\ EntriesOf(i, a, p) = IF IsLeaf(At(a, pk)) THEN {EntryOf(i, a, p)} ELSE {}
      /\ EntryOf(i, t, p).record = p /\ EntryOf(i, t, p).key = At(t, pk)
  BY DEF EntriesOf, EntryOf, pk, key
<1>8. [record |-> p, key |-> At(a, pk), meta |-> meta] = EntryOf(i, a, p)
  <2>1. i.include = {}
    BY DEF IsPlain
  <2>2. meta = [k \in i.include |-> At(a, p \o k)]
    BY <2>1
  <2> HIDE DEF meta
  <2> QED
    BY <2>2 DEF EntryOf, pk, key
<1>9. ASSUME NEW x \in Path, Changed(t, w, pk \o x)
      PROVE  /\ Kind(old, b \o x) # Kind(new, b \o x)
             /\ \/ \E l \in w.keys : IsPrefix(l, b)
                \/ Near(w.keys, b) /\ Kind(t, pk) = "obj" /\ Kind(a, pk) = "obj"
  <2> DEFINE bx == b \o x
             y == pk \o x
  <2>4. (top \o b) \o x = top \o (b \o x)
    <3>1. Regroups(top, b, x)
      BY <1>4, <1>5, Regroup
    <3> QED
      BY <3>1 DEF Regroups
  <2>1. bx \in Path /\ y = top \o bx /\ y \in Path
    BY <1>5, <2>4, Concat
  <2>2. Changed(t, w, top \o (b \o x))
    BY <1>5, <1>9, <2>4
  <2>3. \/ \E l \in w.keys : IsPrefix(l, b)
        \/ Near(w.keys, b) /\ Kind(t, pk) = "obj" /\ Kind(a, pk) = "obj"
    BY <1>5, <2>2, KeyLoaded DEF top, a
  <2> HIDE DEF bx, y
  <2>5. Changed(t, w, y)
    BY <1>9 DEF y
  <2>6. PICK l \in w.keys : IsPrefix(top \o l, y)
    BY <2>1, <2>5, ChangeIsLoaded DEF top
  <2>7. IsPrefix(l, bx)
    <3>1. l \in Path
      BY <1>4
    <3> QED
      BY <1>4, <2>1, <2>6, <3>1, PrefixBelow
  <2>8. Near(w.keys, bx)
    BY <2>7 DEF Near
  <2>9. Kind(old, bx) # Kind(new, bx)
    BY <1>2, <2>1, <2>5, <2>8 DEF Changed, a
  <2> QED
    BY <2>3, <2>9 DEF bx
<1>10. before = after <=> \A x \in Path : Kind(old, b \o x) = Kind(new, b \o x)
  BY <1>2, <1>5, <1>6, SameAt
<1>11. CASE before = after
  <2>1. Untouched(t, w, pk)
    BY <1>9, <1>10, <1>11 DEF Untouched
  <2>2. EntriesOf(i, t, p) = EntriesOf(i, a, p)
    <3>1. p \in Path /\ Untouched(t, w, p \o i.key)
      BY <1>5, <2>1 DEF pk, key
    <3>2. \A o \in Path : Untouched(t, w, o \o i.key) => EntriesOf(i, t, o) = EntriesOf(i, After(t, w), o)
      BY SameEntries
    <3> QED
      BY <3>1, <3>2 DEF a
  <2> QED
    BY <1>1, <1>11, <2>2 DEF top, p, old, new, a
<1>12. CASE before # after
  <2>1. PICK x \in Path : Kind(old, b \o x) # Kind(new, b \o x)
    BY <1>10, <1>12
  <2>2. Changed(t, w, pk \o x)
    <3> DEFINE bx == b \o x
    <3>1. (top \o b) \o x = top \o (b \o x)
      <4>1. Regroups(top, b, x)
        BY <1>4, <1>5, <2>1, Regroup
      <4> QED
        BY <4>1 DEF Regroups
    <3>2. bx \in Path /\ pk \o x = top \o bx
      BY <1>5, <2>1, <3>1, Concat
    <3>3. Kind(old, bx) # Kind(new, bx)
      BY <2>1
    <3> HIDE DEF bx
    <3>4. Kind(t, top \o bx) # Kind(a, top \o bx)
      BY <1>2, <3>2, <3>3
    <3> QED
      BY <3>2, <3>4 DEF Changed, a
  <2>3. \/ \E l \in w.keys : IsPrefix(l, b)
        \/ Near(w.keys, b) /\ Kind(t, pk) = "obj" /\ Kind(a, pk) = "obj"
    BY <1>9, <2>1, <2>2
  <2>4. CASE \E l \in w.keys : IsPrefix(l, b)
    <3>1. PICK l \in w.keys : IsPrefix(l, b)
      BY <2>4
    <3>2. ASSUME NEW y \in Path
          PROVE  Kind(old, b \o y) = Kind(t, pk \o y) /\ Kind(new, b \o y) = Kind(a, pk \o y)
      <4> DEFINE z == b \o y
      <4>1. (top \o b) \o y = top \o (b \o y)
        <5>1. top \in Path /\ b \in Path /\ y \in Path
          BY <1>4, <1>5, <3>2
        <5>2. Regroups(top, b, y)
          BY <5>1, Regroup
        <5> QED
          BY <5>2 DEF Regroups
      <4>2. z \in Path /\ IsPrefix(b, z) /\ top \o z = pk \o y /\ l \in Path
        BY <1>4, <1>5, <3>2, <4>1, Concat, Extends
      <4> HIDE DEF z
      <4>3. IsPrefix(l, z)
        BY <1>5, <3>1, <4>2, PrefixTransitive
      <4>4. Near(w.keys, z)
        BY <4>3 DEF Near
      <4> QED
        BY <1>2, <4>2, <4>4 DEF z
    <3>3. before = At(t, pk) /\ after = At(a, pk)
      BY <1>2, <1>3, <1>5, <1>6, <3>2, SameAt
    <3> HIDE DEF before, after, meta
    <3>4. removed = entries
      <4>1. \A e \in entries : e = EntryOf(i, t, p)
        BY <1>7
      <4> HIDE DEF entries
      <4> QED
        BY <1>7, <3>3, <4>1
    <3>5. added = EntriesOf(i, a, p)
      BY <1>7, <1>8, <3>3
    <3>6. RecordUpdated(i, entries, p, At(old, q), At(new, q)) = EntriesOf(i, a, p)
      BY <1>1, <1>12, <3>4, <3>5
    <3> QED
      BY <3>6 DEF top, p, old, new, a
  <2>5. CASE Near(w.keys, b) /\ Kind(t, pk) = "obj" /\ Kind(a, pk) = "obj"
    <3>1. Kind(new, b) = "obj"
      BY <1>2, <1>5, <2>5
    <3>2. ~IsLeaf(after) /\ ~IsLeaf(At(t, pk)) /\ ~IsLeaf(At(a, pk))
      BY <1>2, <1>3, <1>5, <1>6, <2>5, <3>1, LeafKind
    <3> HIDE DEF before, after, meta
    <3>3. entries = {} /\ added = {} /\ EntriesOf(i, a, p) = {}
      BY <1>7, <3>2
    <3>4. RecordUpdated(i, entries, p, At(old, q), At(new, q)) = EntriesOf(i, a, p)
      BY <1>1, <1>12, <3>3
    <3> QED
      BY <3>4 DEF top, p, old, new, a
  <2> QED
    BY <2>3, <2>4, <2>5
<1> QED
  BY <1>11, <1>12

\* A write keeps an index complete.
LEMMA IndexWritten ==
    ASSUME NEW t, GoodTree(t), NEW w, GoodImpact(w), GoodWrite(t, w.path, w.updates),
           NEW I, NEW i \in I, GoodIndex(i), IsPlain(i), w.indexes = AffectedIndexes(I, w.path),
           NEW entries, Complete(i, t, entries)
    PROVE  Complete(i, After(t, w), IndexUpdated(t, w, i, entries))
<1> DEFINE old == OldData(t, w)
           new == NewData(t, w)
           a == After(t, w)
           top == w.top
           found == {top \o q : q \in DOMAIN old \union DOMAIN new}
           records == {p \in found : Len(p) = Len(i.path) + 1 /\ OnTrail(RecordPattern(i), p)}
           value(tree, p) == At(tree, Rest(p, Len(top)))
           updated(r) == RecordUpdated(i, {e \in entries : e.record = r}, r, value(old, r), value(new, r))
           made == {e \in entries : e.record \notin records} \union (UNION {updated(r) : r \in records})
<1>1. IndexUpdated(t, w, i, entries) = IF i \notin w.indexes \/ old = new THEN entries ELSE made
  BY DEF IndexUpdated
<1>2. /\ Plain(old) /\ Plain(new)
      /\ \A q \in Path :
            /\ Kind(old, q) = IF Near(w.keys, q) THEN Kind(t, top \o q) ELSE "none"
            /\ Kind(new, q) = IF Near(w.keys, q) THEN Kind(a, top \o q) ELSE "none"
  BY Loaded DEF IsLoaded
<1>3. top \in Path /\ w.keys \subseteq Path /\ i.key \in Path
  BY DEF GoodImpact, GoodIndex
<1>4. ASSUME \A p : MayBeRecord(i, p) => EntriesOf(i, t, p) = EntriesOf(i, a, p)
      PROVE  Complete(i, a, entries)
  BY <1>4 DEF Complete
<1>5. CASE i \notin w.indexes
  <2>1. ASSUME NEW p, MayBeRecord(i, p)
        PROVE  EntriesOf(i, t, p) = EntriesOf(i, a, p)
    <3>1. Untouched(t, w, p \o i.key) /\ p \in Path
      BY <1>5, <2>1, NotAffected DEF MayBeRecord
    <3> QED
      BY <3>1, SameEntries
  <2> QED
    BY <1>1, <1>4, <1>5, <2>1
<1>6. CASE old = new
  <2>1. ASSUME NEW q \in Path, Changed(t, w, q)
        PROVE  FALSE
    <3>1. PICK l \in w.keys : IsPrefix(top \o l, q)
      BY <2>1, ChangeIsLoaded
    <3> HIDE DEF top
    <3> DEFINE tl == top \o l
               z == Rest(q, Len(top))
    <3>2. l \in Path /\ tl \in Path /\ IsPrefix(top, tl) /\ IsPrefix(tl, q)
      BY <1>3, <3>1, Concat, Extends
    <3> HIDE DEF tl
    <3>3. IsPrefix(top, q)
      BY <1>3, <2>1, <3>2, PrefixTransitive
    <3>4. z \in Path /\ top \o z = q
      BY <1>3, <2>1, <3>3, PrefixSplits
    <3> HIDE DEF z
    <3>5. IsPrefix(l, z)
      BY <1>3, <3>2, <3>4, PrefixBelow DEF tl
    <3>6. Near(w.keys, z)
      BY <3>5 DEF Near
    <3>7. Kind(t, q) = Kind(a, q)
      BY <1>2, <1>6, <3>4, <3>6
    <3> QED
      BY <2>1, <3>7 DEF Changed
  <2>2. ASSUME NEW p, MayBeRecord(i, p)
        PROVE  EntriesOf(i, t, p) = EntriesOf(i, a, p)
    <3> DEFINE pk == p \o i.key
    <3>1. p \in Path /\ pk \in Path
      BY <1>3, <2>2, Concat DEF MayBeRecord
    <3> HIDE DEF pk
    <3>2. Untouched(t, w, pk)
      BY <2>1, <3>1, Concat DEF Untouched
    <3> QED
      BY <3>1, <3>2, SameEntries DEF pk
  <2> QED
    BY <1>1, <1>4, <1>6, <2>2
<1>7. CASE i \in w.indexes /\ old # new
  <2>1. IndexUpdated(t, w, i, entries) = made
    BY <1>1, <1>7
  <2>2. found \subseteq Path
    <3>1. DOMAIN old \union DOMAIN new \subseteq Path
      BY <1>2 DEF Plain
    <3> HIDE DEF old, new, top
    <3> QED
      BY <1>3, <3>1, Concat
  <2>3. \A p : p \in records <=> MayBeRecord(i, p) /\ p \in found
    <3> HIDE DEF found
    <3> QED
      BY <2>2, TrailOfPattern DEF MayBeRecord
  <2>4. ASSUME NEW p, MayBeRecord(i, p), p \notin records
        PROVE  EntriesOf(i, t, p) = EntriesOf(i, a, p)
    <3>1. p \notin found
      <4> HIDE DEF found, records
      <4> QED
        BY <2>3, <2>4
    <3>2. Untouched(t, w, p \o i.key) /\ p \in Path
      BY <1>7, <2>4, <3>1, NotFound DEF MayBeRecord
    <3> QED
      BY <3>2, SameEntries
  <2>5. ASSUME NEW r \in records
        PROVE  updated(r) = EntriesOf(i, a, r)
    <3>1. r \in found /\ MayBeRecord(i, r)
      <4> HIDE DEF found, records
      <4> QED
        BY <2>3
    <3>2. {e \in entries : e.record = r} = EntriesOf(i, t, r)
      <4>1. \A e : e \in entries /\ e.record = r <=> e \in EntriesOf(i, t, r)
        BY <3>1 DEF Complete
      <4>2. \A e \in EntriesOf(i, t, r) : e \in entries
        BY <4>1
      <4> QED
        BY <4>1, <4>2
    <3>3. PICK q \in Path : r = top \o q
      BY <1>2, <3>1 DEF Plain
    <3>4. Rest(r, Len(top)) = q
      <4> HIDE DEF top
      <4> QED
        BY <1>3, <3>3, RestOfConcat
    <3>5. RecordUpdated(i, EntriesOf(i, t, top \o q), top \o q, At(old, q), At(new, q)) = EntriesOf(i, a, top \o q)
      BY <3>3, Found
    <3> HIDE DEF old, new, a, top
    <3>6. updated(r) = RecordUpdated(i, EntriesOf(i, t, r), r, At(old, q), At(new, q))
      BY <3>2, <3>4
    <3> QED
      BY <3>3, <3>5, <3>6
  <2>6. \A p : \A e \in EntriesOf(i, a, p) : e.record = p
    BY DEF EntriesOf, EntryOf
  <2> HIDE DEF records, updated, a
  <2>7. ASSUME NEW e
        PROVE  e \in made <=> \/ e \in entries /\ e.record \notin records
                              \/ e.record \in records /\ e \in EntriesOf(i, a, e.record)
    <3>1. e \in UNION {updated(r) : r \in records} <=> \E r \in records : e \in EntriesOf(i, a, r)
      BY <2>5
    <3>2. (\E r \in records : e \in EntriesOf(i, a, r)) <=> e.record \in records /\ e \in EntriesOf(i, a, e.record)
      BY <2>6
    <3> QED
      BY <3>1, <3>2
  <2> HIDE DEF made, found
  <2>8. \A e \in made : MayBeRecord(i, e.record)
    BY <2>3, <2>7 DEF Complete
  <2>9. ASSUME NEW e, NEW p, MayBeRecord(i, p)
        PROVE  e \in made /\ e.record = p <=> e \in EntriesOf(i, a, p)
    <3>1. CASE p \in records
      BY <2>6, <2>7, <3>1
    <3>2. CASE p \notin records
      <4>1. e \in entries /\ e.record = p <=> e \in EntriesOf(i, t, p)
        BY <2>9 DEF Complete
      <4> QED
        BY <2>4, <2>7, <2>9, <3>2, <4>1
    <3> QED
      BY <3>1, <3>2
  <2> QED
    BY <2>1, <2>8, <2>9 DEF Complete, a
<1> QED
  BY <1>5, <1>6, <1>7

----------------------------------------------------------------------------
IndexInv == \A i \in Indexes : IsPlain(i) => Complete(i, db, idx[i])

LEMMA IndexInit == Init => IndexInv
<1> SUFFICES ASSUME Init, NEW i \in Indexes, IsPlain(i) PROVE Complete(i, db, idx[i])
  BY DEF IndexInv
<1>1. idx[i] = {} /\ db = Object
  BY DEF Init
<1>2. GoodTree(Object) /\ Plain(Object)
  <2>1. GoodTree(db)
    BY InvInit DEF IInv
  <2> QED
    BY <1>1, <2>1, ValueIsPlain DEF GoodTree
<1>3. ASSUME NEW p, MayBeRecord(i, p)
      PROVE  EntriesOf(i, Object, p) = {}
  <2> DEFINE pk == p \o i.key
  <2>1. pk \in Path /\ Len(pk) = Len(p) + Len(i.key) /\ Len(p) \in Nat /\ Len(i.key) = 1
    BY <1>3, MirrorIs, Concat, PathLength DEF MayBeRecord, GoodIndex, IsPlain
  <2> HIDE DEF pk
  <2>2. pk # <<>>
    <3>1. Len(pk) # 0
      BY <2>1
    <3> QED
      BY <2>1, <3>1, PathLength
  <2>3. Kind(Object, pk) = "none"
    BY <2>2 DEF Kind, Object
  <2>4. ~IsLeaf(At(Object, pk))
    BY <1>2, <2>1, <2>3, LeafKind
  <2> QED
    BY <2>4 DEF EntriesOf, pk
<1> QED
  BY <1>1, <1>3 DEF Complete

LEMMA IndexStep == IInv /\ IndexInv /\ [Next]_vars => IndexInv'
<1> SUFFICES ASSUME IInv, IndexInv, [Next]_vars PROVE IndexInv'
  OBVIOUS
<1>1. CASE UNCHANGED <<db, idx>>
  BY <1>1 DEF IndexInv
<1>2. CASE End
  <2>1. PICK w \in write : /\ db' = Applied(db, w.path, w.updates)
                           /\ idx' = [i \in Indexes |-> IndexUpdated(db, w, i, idx[i])]
    BY <1>2 DEF End
  <2>2. GoodTree(db) /\ GoodImpact(w) /\ GoodWrite(db, w.path, w.updates)
        /\ w.indexes = AffectedIndexes(Indexes, w.path) /\ db' = After(db, w)
    BY <2>1 DEF IInv, WriteIs, After
  <2>3. ASSUME NEW i \in Indexes, IsPlain(i)
        PROVE  Complete(i, db', idx'[i])
    <3>1. Complete(i, db, idx[i]) /\ GoodIndex(i)
      BY <2>3, MirrorIs DEF IndexInv
    <3> DEFINE entries == idx[i]
    <3> HIDE DEF entries
    <3>2. Complete(i, db, entries)
      BY <3>1 DEF entries
    <3>3. Complete(i, After(db, w), IndexUpdated(db, w, i, entries))
      BY <2>2, <2>3, <3>1, <3>2, IndexWritten
    <3> QED
      BY <2>1, <2>2, <3>3 DEF entries
  <2> QED
    BY <2>3 DEF IndexInv
<1> QED
  BY <1>1, <1>2 DEF Next, Subscribe, Unsubscribe, Begin, Fire, Load, vars

\* Indexes on one key without included keys have an entry of every record with
\* a leaf at that key, and no other, after each write: _writeNodeWithTracking
\* finds every record whose key has changed in the part of the data it loads.
\* Of nested and included keys indexes.getAll does not find every change.
THEOREM IndexesFollow ==
    ASSUME PlainIndexes
    PROVE  Spec => []IndexFollows
<1>1. IInv /\ IndexInv => IndexFollows
  <2> SUFFICES ASSUME IInv, IndexInv, NEW i \in Indexes
               PROVE  idx[i] = ToFollow(db, i)
    BY DEF IndexFollows, ToFollow
  <2>1. Complete(i, db, idx[i]) /\ GoodTree(db) /\ GoodIndex(i)
    BY MirrorIs DEF IInv, IndexInv, PlainIndexes
  <2> QED
    BY <2>1, FollowsMeans
<1> QED
  BY <1>1, InvInit, InvStep, IndexInit, IndexStep, PTL DEF Spec

----------------------------------------------------------------------------
\* Where a subscription has its events, and which of them a write may have.

PlaceLength(s) == Len(s.path) + (IF s.type = "value" THEN 0 ELSE 1)
Place(s, p) == p \in Path /\ Len(p) = PlaceLength(s) /\ OnTrail(s.path, p)

\* The data that an event of a write at path is about: the path of the
\* subscription with the keys of the write, and one key more for children.
IsDataPath(s, path, d) ==
    /\ Len(d) = PlaceLength(s)
    /\ \A i \in 1..Len(s.path) : d[i] = IF i <= Len(path) /\ s.path[i] = "*" THEN path[i] ELSE s.path[i]
    /\ s.type # "value" =>
         d[Len(s.path) + 1] = IF Len(path) <= Len(s.path) THEN "*" ELSE path[Len(s.path) + 1]

LEMMA FilledPattern ==
    ASSUME NEW p \in Path, NEW path \in Path
    PROVE  Filled(p, path) \in Pattern
<1> DEFINE S == STRING \union {"*"}
           n == Len(p)
           f(i) == IF i <= Len(path) /\ p[i] = "*" THEN path[i] ELSE p[i]
<1>1. n \in Nat /\ DOMAIN p = 1..n /\ Len(path) \in Nat
  BY LenProperties, PathLength DEF Path
<1>2. \A i \in 1..n : f(i) \in S
  <2> TAKE i \in 1..n
  <2>1. p[i] \in S
    BY KeyOf
  <2>2. ASSUME i <= Len(path)
        PROVE  path[i] \in S
    <3>1. i \in 1..Len(path)
      BY <1>1, <2>2
    <3> QED
      BY <3>1, KeyOf
  <2> HIDE DEF S
  <2> QED
    BY <2>1, <2>2
<1>3. Filled(p, path) = [i \in 1..n |-> f(i)]
  BY <1>1 DEF Filled
<1> HIDE DEF f, S
<1>4. [i \in 1..n |-> f(i)] \in Seq(S)
  BY <1>1, <1>2
<1> QED
  BY <1>3, <1>4 DEF Pattern, S

LEMMA DataPathIs ==
    ASSUME NEW s, GoodSub(s), s.type \notin MutationEvents, NEW path \in Path, DataPath(s, path) # {}
    PROVE  /\ OnTrail(s.path, path)
           /\ s.type \in {"value", "child_changed"} \union ParentEvents
           /\ s.type \in ParentEvents => Len(path) <= Len(s.path) + 1
           /\ \E d : DataPath(s, path) = {d} /\ IsDataPath(s, path, d)
<1> DEFINE e == Filled(s.path, path)
           n == Len(s.path)
           child == IF Len(path) <= Len(e) THEN "*" ELSE path[Len(e) + 1]
           d == Append(e, child)
<1>1. s.path \in Path /\ n \in Nat /\ Len(path) \in Nat
  BY PathLength DEF GoodSub
<1>2. /\ Len(e) = n
      /\ \A i \in 1..n : e[i] = IF i <= Len(path) /\ s.path[i] = "*" THEN path[i] ELSE s.path[i]
  BY <1>1, FilledKeys DEF Path
<1>3. e \in Pattern
  BY <1>1, FilledPattern
<1>4. child \in STRING \union {"*"}
  <2>1. ASSUME ~(Len(path) <= Len(e))
        PROVE  path[Len(e) + 1] \in STRING
    <3>1. Len(e) + 1 \in 1..Len(path)
      BY <1>1, <1>2, <2>1
    <3> HIDE DEF e
    <3> QED
      BY <3>1, KeyOf
  <2> HIDE DEF e
  <2> QED
    BY <2>1
<1>5. DataPath(s, path) # {} => OnTrail(s.path, path)
  BY DEF DataPath
<1>6. DataPath(s, path) =
        CASE s.type = "value" -> {e}
          [] s.type \in MutationEvents -> {path}
          [] s.type = "child_changed" -> {d}
          [] s.type \in ParentEvents /\ Len(path) <= Len(e) + 1 -> {d}
          [] OTHER -> {}
  BY <1>5 DEF DataPath
<1>7. child = IF Len(path) <= n THEN "*" ELSE path[n + 1]
  BY <1>2
<1> HIDE DEF e, child
<1>8. Len(d) = n + 1 /\ d[n + 1] = child /\ \A i \in 1..n : d[i] = e[i]
  <2> DEFINE S == STRING \union {"*"}
  <2>1. e \in Seq(S) /\ child \in S
    BY <1>3, <1>4 DEF Pattern
  <2> HIDE DEF S
  <2>2. /\ Len(Append(e, child)) = Len(e) + 1
        /\ \A i \in 1..Len(e) : Append(e, child)[i] = e[i]
        /\ Append(e, child)[Len(e) + 1] = child
    BY <2>1, AppendProperties
  <2> QED
    BY <1>2, <2>2
<1> HIDE DEF d
<1>9. CASE s.type = "value"
  <2>1. DataPath(s, path) = {e}
    BY <1>6, <1>9 DEF ParentEvents
  <2>2. IsDataPath(s, path, e)
    BY <1>1, <1>2, <1>9 DEF IsDataPath, PlaceLength
  <2> QED
    BY <1>5, <1>9, <2>1, <2>2 DEF ParentEvents
<1>10. CASE s.type # "value"
  <2>1. IsDataPath(s, path, d)
    BY <1>2, <1>7, <1>8, <1>10 DEF IsDataPath, PlaceLength
  <2>2. CASE s.type = "child_changed"
    <3>1. DataPath(s, path) = {d}
      BY <1>6, <1>10, <2>2
    <3> QED
      BY <1>5, <2>1, <2>2, <3>1 DEF ParentEvents
  <2>3. CASE s.type \in ParentEvents /\ Len(path) <= Len(e) + 1
    <3>1. DataPath(s, path) = {d}
      BY <1>6, <1>10, <2>3 DEF ParentEvents
    <3> QED
      BY <1>2, <1>5, <2>1, <2>3, <3>1
  <2>4. CASE s.type # "child_changed" /\ ~(s.type \in ParentEvents /\ Len(path) <= Len(e) + 1)
    BY <1>6, <1>10, <2>4
  <2> QED
    BY <2>2, <2>3, <2>4
<1> QED
  BY <1>9, <1>10

\* A place whose data is written, or above what is written, is where the event
\* of the write is looked for; and there are no others.
LEMMA OnDataPath ==
    ASSUME NEW s, GoodSub(s), NEW path \in Path, NEW d, IsDataPath(s, path, d), NEW p \in Path
    PROVE  /\ Len(p) = Len(d) /\ OnTrail(d, p) => Place(s, p)
           /\ Place(s, p) /\ (IsPrefix(p, path) \/ IsPrefix(path, p)) => Len(p) = Len(d) /\ OnTrail(d, p)
<1> DEFINE n == Len(s.path)
           sp == s.path
<1>1. sp \in Path /\ n \in Nat /\ Len(path) \in Nat /\ Len(p) \in Nat
  BY PathLength DEF GoodSub
<1>2. /\ Len(d) = PlaceLength(s) /\ PlaceLength(s) \in {n, n + 1} /\ (PlaceLength(s) = n <=> s.type = "value")
      /\ \A i \in 1..n : d[i] = IF i <= Len(path) /\ sp[i] = "*" THEN path[i] ELSE sp[i]
      /\ s.type # "value" => d[n + 1] = IF Len(path) <= n THEN "*" ELSE path[n + 1]
  <2>1. PlaceLength(s) = n + (IF s.type = "value" THEN 0 ELSE 1)
    BY DEF PlaceLength
  <2>2. PlaceLength(s) \in {n, n + 1} /\ (PlaceLength(s) = n <=> s.type = "value")
    <3>1. n \in Nat
      BY <1>1
    <3> HIDE DEF n
    <3>2. CASE s.type = "value"
      <4>1. PlaceLength(s) = n + 0
        BY <2>1, <3>2
      <4> QED
        BY <3>1, <3>2, <4>1
    <3>3. CASE s.type # "value"
      <4>1. PlaceLength(s) = n + 1
        BY <2>1, <3>3
      <4> QED
        BY <3>1, <3>3, <4>1
    <3> QED
      BY <3>2, <3>3
  <2> QED
    BY <2>2 DEF IsDataPath
<1> DEFINE onD == \A i \in 1..Len(p) : d[i] \in {p[i], "*"}
           onS == \A i \in 1..n : sp[i] \in {p[i], "*"}
<1> HIDE DEF n
<1>3. ASSUME Len(p) = PlaceLength(s)
      PROVE  (OnTrail(d, p) <=> onD) /\ (OnTrail(sp, p) <=> onS)
  <2>1. (IF Len(d) < Len(p) THEN Len(d) ELSE Len(p)) = Len(p)
    BY <1>1, <1>2, <1>3
  <2>2. (IF Len(sp) < Len(p) THEN Len(sp) ELSE Len(p)) = n
    BY <1>1, <1>2, <1>3 DEF n
  <2> QED
    BY <2>1, <2>2 DEF OnTrail
<1> HIDE DEF sp
<1>4. ASSUME Len(p) = PlaceLength(s), onD
      PROVE  onS
  <2> TAKE i \in 1..n
  <2>1. i \in 1..Len(p)
    BY <1>1, <1>2, <1>4
  <2> QED
    BY <1>2, <1>4, <2>1
<1>5. ASSUME Len(p) = PlaceLength(s), onS, IsPrefix(p, path) \/ IsPrefix(path, p)
      PROVE  onD
  <2>1. \A i \in 1..Len(p) : i <= Len(path) => path[i] = p[i]
    <3>1. CASE IsPrefix(p, path)
      BY <3>1, PrefixKeys
    <3>2. CASE IsPrefix(path, p)
      <4>1. \A i \in 1..Len(path) : path[i] = p[i]
        BY <3>2, PrefixKeys
      <4> QED
        BY <1>1, <4>1
    <3> QED
      BY <1>5, <3>1, <3>2
  <2> TAKE i \in 1..Len(p)
  <2>2. CASE i <= n
    <3>1. i \in 1..n
      BY <1>1, <2>2
    <3>2. d[i] = IF i <= Len(path) /\ sp[i] = "*" THEN path[i] ELSE sp[i]
      BY <1>2, <3>1
    <3>3. sp[i] \in {p[i], "*"} /\ (i <= Len(path) => path[i] = p[i])
      BY <1>5, <2>1, <3>1
    <3> QED
      BY <3>2, <3>3
  <2>3. CASE ~(i <= n)
    <3>1. i = n + 1 /\ s.type # "value"
      BY <1>1, <1>2, <1>5, <2>3
    <3>2. d[i] = IF Len(path) <= n THEN "*" ELSE path[i]
      BY <1>2, <3>1
    <3>3. ~(Len(path) <= n) => i <= Len(path)
      BY <1>1, <3>1
    <3> QED
      BY <2>1, <3>2, <3>3
  <2> QED
    BY <2>2, <2>3
<1> HIDE DEF onD, onS
<1> QED
  BY <1>2, <1>3, <1>4, <1>5 DEF Place, sp

----------------------------------------------------------------------------
\* Events of the types other than mutations.

Wants(s, t, a, p) == Place(s, p) /\ Triggers(s.type, At(t, p), At(a, p))
Due(s, t, a) == {Event(s, p, At(t, p), At(a, p)) : p \in {q \in Path : Wants(s, t, a, q)}}

LEMMA OwedIsDue ==
    ASSUME NEW t, GoodTree(t), NEW w, GoodImpact(w), GoodWrite(t, w.path, w.updates),
           NEW s, GoodSub(s), s.type \notin MutationEvents
    PROVE  Owed(s, t, After(t, w)) = Due(s, t, After(t, w))
<1> DEFINE a == After(t, w)
           places == {p \in DOMAIN t \union DOMAIN a :
                        /\ Len(p) = Len(s.path) + (IF s.type \in MutationEvents \union {"value"} THEN 0 ELSE 1)
                        /\ OnTrail(s.path, p)}
           event(p) == Event(s, p, At(t, p), At(a, p))
           owed == {q \in places : Triggers(s.type, At(t, q), At(a, q))}
           due == {q \in Path : Wants(s, t, a, q)}
<1>1. Owed(s, t, a) = {event(p) : p \in owed}
  BY DEF Owed
<1>2. Due(s, t, a) = {event(p) : p \in due}
  BY DEF Due
<1>3. DOMAIN t \subseteq Path /\ DOMAIN a \subseteq Path
  <2>1. GoodTree(a)
    BY AfterWrite DEF After
  <2> QED
    BY <2>1, ValueIsPlain DEF GoodTree, Plain
<1>4. (IF s.type \in MutationEvents \union {"value"} THEN 0 ELSE 1) = (IF s.type = "value" THEN 0 ELSE 1)
  OBVIOUS
<1>5. ASSUME NEW q \in Path, Triggers(s.type, At(t, q), At(a, q))
      PROVE  q \in DOMAIN t \union DOMAIN a
  <2>1. At(t, q) # At(a, q)
    BY <1>5 DEF Triggers
  <2>2. ~Untouched(t, w, q)
    BY <2>1, UntouchedSame
  <2> QED
    BY <2>2, TouchedAt
<1> HIDE DEF event, a
<1>6. \A q : q \in owed <=> q \in due
  BY <1>3, <1>4, <1>5 DEF Wants, Place, PlaceLength
<1> HIDE DEF owed, due
<1>7. owed = due
  BY <1>6
<1> QED
  BY <1>1, <1>2, <1>7 DEF a

LEMMA TriggersSame ==
    ASSUME NEW type, NEW o, NEW n, NEW p, NEW q, o = n <=> p = q, o = Null <=> p = Null, n = Null <=> q = Null
    PROVE  Triggers(type, o, n) <=> Triggers(type, p, q)
BY DEF Triggers

LEMMA TriggersSeen ==
    ASSUME NEW t, GoodTree(t), NEW w, GoodImpact(w), GoodWrite(t, w.path, w.updates), NEW q \in Path, NEW type
    PROVE  Triggers(type, At(OldData(t, w), q), At(NewData(t, w), q)) <=>
             Triggers(type, At(t, w.top \o q), At(After(t, w), w.top \o q))
<1> DEFINE y == w.top \o q
           o == At(OldData(t, w), q)
           n == At(NewData(t, w), q)
           ot == At(t, y)
           nt == At(After(t, w), y)
<1>1. /\ o = n <=> Untouched(t, w, y)
      /\ ~Untouched(t, w, y) => (o = Null <=> ot = Null) /\ (n = Null <=> nt = Null)
  BY LoadedAt DEF SeesChanges
<1>2. Untouched(t, w, y) <=> ot = nt
  <2>1. y \in Path
    BY Concat DEF GoodImpact
  <2> HIDE DEF y
  <2> QED
    BY <2>1, UntouchedSame
<1> HIDE DEF o, n, ot, nt, y
<1>3. Triggers(type, o, n) <=> Triggers(type, ot, nt)
  <2>1. CASE Untouched(t, w, y)
    BY <1>1, <1>2, <2>1 DEF Triggers
  <2>2. CASE ~Untouched(t, w, y)
    BY <1>1, <1>2, <2>2, TriggersSame
  <2> QED
    BY <2>1, <2>2
<1> QED
  BY <1>3 DEF o, n, ot, nt, y

\* The data that an event is about is what the impact has needed.
LEMMA PlaceNeeded ==
    ASSUME NEW s, GoodSub(s), s.type \notin MutationEvents, ~s.notify, NEW path \in Path, DataPath(s, path) # {},
           NEW p \in Path, Place(s, p), IsPrefix(p, path)
    PROVE  p \in DataNeeded(s, path)
<1> DEFINE e == Filled(s.path, path)
           n == Len(s.path)
<1>1. s.path \in Path /\ n \in Nat /\ Len(path) \in Nat /\ Len(p) \in Nat /\ Len(p) <= Len(path)
  BY PathLength, PrefixLength DEF GoodSub
<1>2. /\ OnTrail(s.path, path)
      /\ s.type \in {"value", "child_changed"} \union ParentEvents
      /\ s.type \in ParentEvents => Len(path) <= n + 1
  BY DataPathIs
<1>3. Len(p) = n + (IF s.type = "value" THEN 0 ELSE 1)
  BY DEF Place, PlaceLength
<1>4. n <= Len(path)
  <2>1. n <= Len(p)
    <3>1. n \in Nat
      BY <1>1
    <3> HIDE DEF n
    <3>2. Len(p) \in {n, n + 1}
      BY <1>3, <3>1
    <3> QED
      BY <3>1, <3>2
  <2> HIDE DEF n
  <2> QED
    BY <1>1, <2>1
<1>5. e \in Path /\ Len(e) = n /\ IsPrefix(e, path)
  BY <1>1, <1>2, <1>4, FilledPrefix DEF Path
<1>6. DataNeeded(s, path) =
        IF s.notify \/ Len(path) - Len(e) < 0 \/ ~OnTrail(e, path) THEN {}
        ELSE CASE s.type = "value" -> {e}
               [] s.type \in MutationEvents /\ Len(path) - Len(e) > 0 -> {path}
               [] s.type = "child_changed" /\ Len(path) - Len(e) > 0 -> {SubSeq(path, 1, Len(e) + 1)}
               [] s.type \in ParentEvents /\ Len(path) - Len(e) = 1 -> {path}
               [] OTHER -> {}
  BY DEF DataNeeded
<1> HIDE DEF e
<1>7. OnTrail(e, path)
  <2>1. Len(e) \in Nat /\ \A i \in 1..Len(e) : e[i] = path[i]
    BY <1>1, <1>5, PrefixKeys
  <2> QED
    BY <1>1, <1>4, <1>5, <2>1 DEF OnTrail
<1> HIDE DEF n
<1>8. ~(Len(path) - Len(e) < 0)
  BY <1>1, <1>4, <1>5
<1>9. CASE s.type = "value"
  <2>1. DataNeeded(s, path) = {e}
    BY <1>6, <1>7, <1>8, <1>9 DEF ParentEvents
  <2>2. Len(p) = n
    BY <1>1, <1>3, <1>9
  <2>3. p = e
    BY <1>5, <2>2, PrefixIsFirst
  <2> QED
    BY <2>1, <2>3
<1>10. CASE s.type = "child_changed"
  <2>1. Len(p) = n + 1
    BY <1>1, <1>3, <1>10
  <2>2. Len(path) - Len(e) > 0
    BY <1>1, <1>5, <2>1
  <2>3. DataNeeded(s, path) = {SubSeq(path, 1, Len(e) + 1)}
    BY <1>6, <1>7, <1>8, <1>10, <2>2 DEF ParentEvents
  <2>4. p = SubSeq(path, 1, Len(e) + 1)
    BY <1>5, <2>1, PrefixIsFirst
  <2> QED
    BY <2>3, <2>4
<1>11. CASE s.type \in ParentEvents
  <2>1. Len(p) = n + 1
    BY <1>1, <1>3, <1>11 DEF ParentEvents
  <2>2. Len(path) = n + 1
    BY <1>1, <1>2, <1>11, <2>1
  <2>3. Len(path) - Len(e) = 1
    BY <1>1, <1>5, <2>2
  <2>4. DataNeeded(s, path) = {path}
    BY <1>6, <1>7, <1>8, <1>11, <2>3 DEF ParentEvents
  <2>5. p = path
    BY <2>1, <2>2, PrefixLength
  <2> QED
    BY <2>4, <2>5
<1> QED
  BY <1>2, <1>9, <1>10, <1>11

\* What a place has, and in the end will have, is loaded when it changes.
LEMMA PlaceLoaded ==
    ASSUME NEW t, GoodTree(t), NEW w, GoodImpact(w), GoodWrite(t, w.path, w.updates),
           NEW s \in w.subs, s.type \notin MutationEvents, NEW p, Place(s, p), ~Untouched(t, w, p)
    PROVE  /\ ~s.notify => \E l \in w.keys : IsPrefix(w.top \o l, p)
           /\ ~s.notify \/ Len(w.top) <= Len(s.path) => IsPrefix(w.top, p)
<1> DEFINE path == w.path
           top == w.top
           u == w.updates
           a == After(t, w)
<1>1. /\ path \in Path /\ top \in Path /\ IsPrefix(top, path) /\ w.keys \subseteq Path
      /\ \A k \in DOMAIN u : \E l \in w.keys : IsPrefix(top \o l, path \o k)
      /\ GoodSub(s) /\ DataPath(s, path) # {} /\ IsLoadedFor(w, s)
  BY DEF GoodImpact
<1>2. Plain(t) /\ IsUpdate(u) /\ \A k \in DOMAIN u : k \in Path /\ Len(k) \in {0, 1}
  <2>1. Plain(t) /\ IsUpdate(u)
    BY ValueIsPlain DEF GoodTree, GoodWrite
  <2> HIDE DEF u
  <2>2. \A k \in DOMAIN u : k \in Path /\ (k = <<>> \/ Len(k) = 1)
    BY <2>1, UpdateKeys
  <2> QED
    BY <2>1, <2>2, EmptyPath
<1>3. a = Applied(t, path, u)
  BY DEF After
<1>4. p \in Path /\ Len(p) = PlaceLength(s)
  BY DEF Place
<1>5. PICK y \in Path : Kind(t, y) # Kind(a, y) /\ IsPrefix(p, y) /\ IsPrefix(path, y)
  BY <1>4, TouchedAt DEF Changed
<1>6. s.type # "mutated"
  BY DEF MutationEvents
<1>7. \A d \in DataNeeded(s, path) : \E l \in w.keys : IsPrefix(top \o l, d)
  BY <1>1, <1>6 DEF IsLoadedFor
<1> HIDE DEF path, top, u, a
<1>8. Len(p) \in Nat /\ Len(path) \in Nat /\ Len(top) \in Nat
  BY <1>1, <1>4, PathLength
<1>9. ASSUME ~s.notify
      PROVE  \E l \in w.keys : IsPrefix(top \o l, p)
  <2>1. CASE Len(p) <= Len(path)
    <3>1. IsPrefix(p, path)
      BY <1>1, <1>4, <1>5, <2>1, PrefixesOrdered
    <3>2. p \in DataNeeded(s, path)
      BY <1>1, <1>4, <1>9, <3>1, PlaceNeeded
    <3> QED
      BY <1>7, <3>2
  <2>2. CASE ~(Len(p) <= Len(path))
    <3>1. PICK k \in DOMAIN u : k \in Path /\ IsPrefix(path \o k, y)
      BY <1>1, <1>2, <1>3, <1>5, ChangedAt
    <3>2. PICK l \in w.keys : IsPrefix(top \o l, path \o k)
      BY <1>1
    <3> DEFINE pk == path \o k
               tl == top \o l
    <3>3. pk \in Path /\ tl \in Path /\ Len(pk) = Len(path) + Len(k) /\ IsPrefix(pk, y) /\ IsPrefix(tl, pk)
      BY <1>1, <3>1, <3>2, Concat
    <3> HIDE DEF pk, tl
    <3>4. Len(k) \in {0, 1}
      BY <1>2
    <3>5. Len(pk) <= Len(p)
      <4>1. Len(path) + 1 <= Len(p)
        BY <1>8, <2>2
      <4>2. Len(pk) <= Len(path) + 1
        <5>1. CASE Len(k) = 0
          BY <1>8, <3>3, <5>1
        <5>2. CASE Len(k) = 1
          BY <1>8, <3>3, <5>2
        <5> QED
          BY <3>4, <5>1, <5>2
      <4>3. Len(pk) \in Nat
        BY <3>3, PathLength
      <4> QED
        BY <1>8, <4>1, <4>2, <4>3
    <3>6. IsPrefix(pk, p)
      BY <1>4, <1>5, <3>3, <3>5, PrefixesOrdered
    <3>7. IsPrefix(tl, p)
      BY <1>4, <3>3, <3>6, PrefixTransitive
    <3> QED
      BY <3>7 DEF tl
  <2> QED
    BY <2>1, <2>2
<1>10. ASSUME ~s.notify
       PROVE  IsPrefix(top, p)
  <2>1. PICK l \in w.keys : IsPrefix(top \o l, p)
    BY <1>9, <1>10
  <2> DEFINE tl == top \o l
  <2>2. tl \in Path /\ IsPrefix(top, tl) /\ IsPrefix(tl, p)
    BY <1>1, <2>1, Concat, Extends
  <2> HIDE DEF tl
  <2> QED
    BY <1>1, <1>4, <2>2, PrefixTransitive
<1>11. ASSUME Len(top) <= Len(s.path)
       PROVE  IsPrefix(top, p)
  <2>1. Len(s.path) \in Nat
    BY <1>1, PathLength DEF GoodSub
  <2>2. PlaceLength(s) = Len(s.path) + (IF s.type = "value" THEN 0 ELSE 1)
    BY DEF PlaceLength
  <2> DEFINE n == Len(s.path)
  <2>3. Len(p) \in {n, n + 1}
    <3>1. n \in Nat /\ Len(p) = n + (IF s.type = "value" THEN 0 ELSE 1)
      BY <1>4, <2>1, <2>2
    <3> HIDE DEF n
    <3> QED
      BY <3>1
  <2>4. n \in Nat /\ Len(top) <= n
    BY <1>11, <2>1
  <2> HIDE DEF n
  <2>5. Len(top) <= Len(p)
    BY <1>8, <2>3, <2>4
  <2>6. IsPrefix(top, y)
    BY <1>1, <1>5, PrefixTransitive
  <2> QED
    BY <1>1, <1>4, <1>5, <2>5, <2>6, PrefixesOrdered
<1> QED
  BY <1>9, <1>10, <1>11 DEF top

\* The events that are not about characters of strings.
Outside(events, old, new) == {e \in events : ~IsCharacter(e.path, old, new)}

LEMMA ValueEventsAre ==
    ASSUME NEW t, GoodTree(t), NEW w, GoodImpact(w), GoodWrite(t, w.path, w.updates),
           NEW s \in w.subs, s.type \notin MutationEvents, ~(s.notify /\ Len(s.path) < Len(w.top))
    PROVE  Outside(ValueEvents(s, w, OldData(t, w), NewData(t, w)), t, After(t, w)) =
             Outside(Due(s, t, After(t, w)), t, After(t, w))
<1> DEFINE old == OldData(t, w)
           new == NewData(t, w)
           a == After(t, w)
           path == w.path
           top == w.top
           value(tree, p) == Child(tree, Rest(p, Len(top)))
           keys(tree, d) == DOMAIN tree \union Characters(tree, Len(d) - Len(top))
           happened(d) == {top \o q : q \in keys(old, d) \union keys(new, d)}
           hit(d) == {p \in happened(d) :
                        /\ Len(p) = Len(d)
                        /\ OnTrail(d, p)
                        /\ Triggers(s.type, value(old, p), value(new, p))}
           wanted == {p \in Path : Wants(s, t, a, p)}
           seen(p) == Event(s, p, value(old, p), value(new, p))
           due(p) == Event(s, p, At(t, p), At(a, p))
<1>1. ValueEvents(s, w, old, new) = UNION {{seen(p) : p \in hit(d)} : d \in DataPath(s, path)}
  BY DEF ValueEvents
<1>2. Due(s, t, a) = {due(p) : p \in wanted}
  BY DEF Due
<1>3. /\ path \in Path /\ top \in Path /\ GoodSub(s) /\ DataPath(s, path) # {}
      /\ Len(top) \in Nat /\ Len(s.path) \in Nat
  BY PathLength DEF GoodImpact, GoodSub
<1>4. PICK d : DataPath(s, path) = {d} /\ IsDataPath(s, path, d)
  BY <1>3, DataPathIs
<1>5. DOMAIN old \subseteq Path /\ DOMAIN new \subseteq Path
  BY Loaded DEF IsLoaded, Plain
<1>15. keys(old, d) \union keys(new, d) \subseteq Path
  <2>1. Len(d) - Len(top) \in Int
    BY <1>3, <1>4, PathLength DEF IsDataPath
  <2> DEFINE n == Len(d) - Len(top)
  <2>2. n \in Int
    BY <2>1
  <2> HIDE DEF n, old, new
  <2>3. Characters(old, n) \subseteq Path /\ Characters(new, n) \subseteq Path
    BY <1>5, <2>2, CharactersArePaths
  <2> QED
    BY <1>5, <2>3 DEF n
<1>6. ASSUME NEW p \in Path
      PROVE  /\ Untouched(t, w, p) <=> At(t, p) = At(a, p)
             /\ Wants(s, t, a, p) => ~Untouched(t, w, p)
  <2>1. Untouched(t, w, p) <=> At(t, p) = At(a, p)
    BY UntouchedSame
  <2> QED
    BY <2>1 DEF Wants, Triggers
<1>7. ASSUME NEW p \in Path, ~Untouched(t, w, p)
      PROVE  /\ IsPrefix(p, path) \/ IsPrefix(path, p)
             /\ Place(s, p) => IsPrefix(top, p) /\ (s.notify \/ \E l \in w.keys : IsPrefix(top \o l, p))
  <2>1. IsPrefix(p, path) \/ IsPrefix(path, p)
    BY <1>7, TouchedAt
  <2>2. ~s.notify \/ Len(top) <= Len(s.path)
    BY <1>3
  <2> QED
    BY <1>7, <2>1, <2>2, PlaceLoaded
<1>8. ASSUME NEW q \in Path
      PROVE  /\ Triggers(s.type, At(old, q), At(new, q)) <=> Triggers(s.type, At(t, top \o q), At(a, top \o q))
             /\ ~Untouched(t, w, top \o q) => q \in DOMAIN old \union DOMAIN new
             /\ (\E l \in w.keys : IsPrefix(top \o l, top \o q)) =>
                  At(old, q) = At(t, top \o q) /\ At(new, q) = At(a, top \o q)
  <2>1. SeesChanges(t, w, q)
    BY LoadedAt
  <2> QED
    BY <2>1, TriggersSeen DEF SeesChanges
<1>16. ASSUME NEW q \in Path, ~IsCharacter(top \o q, t, a)
       PROVE  Child(old, q) = At(old, q) /\ Child(new, q) = At(new, q)
  <2>1. ~InString(old, q) /\ ~InString(new, q)
    BY <1>16, StringsLoaded
  <2> QED
    BY <2>1, ChildIsAt
<1> HIDE DEF old, new, a, path, top
<1>9. ASSUME NEW q \in Path
      PROVE  top \o q \in Path /\ Rest(top \o q, Len(top)) = q /\ IsPrefix(top, top \o q)
  BY <1>3, Concat, RestOfConcat, Extends
<1>10. ASSUME NEW p \in Path, IsPrefix(top, p)
       PROVE  \E q \in Path : p = top \o q
  BY <1>3, <1>10, PrefixSplits
<1>11. ASSUME NEW p \in hit(d), ~IsCharacter(p, t, a)
       PROVE  p \in wanted
  <2>1. PICK q \in Path : p = top \o q
    BY <1>15
  <2>2. p \in Path /\ value(old, p) = At(old, q) /\ value(new, p) = At(new, q)
    BY <1>9, <1>11, <1>16, <2>1
  <2>3. Len(p) = Len(d) /\ OnTrail(d, p) /\ Triggers(s.type, At(old, q), At(new, q))
    BY <2>2
  <2>4. Place(s, p)
    BY <1>3, <1>4, <2>2, <2>3, OnDataPath
  <2>5. Triggers(s.type, At(t, p), At(a, p))
    BY <1>8, <2>1, <2>3
  <2> QED
    BY <2>2, <2>4, <2>5 DEF Wants
<1>12. ASSUME NEW p \in wanted, ~IsCharacter(p, t, a)
       PROVE  p \in hit(d) /\ seen(p) = due(p)
  <2>1. p \in Path /\ Place(s, p) /\ ~Untouched(t, w, p) /\ Triggers(s.type, At(t, p), At(a, p))
    BY <1>6 DEF Wants
  <2>2. /\ IsPrefix(p, path) \/ IsPrefix(path, p)
        /\ IsPrefix(top, p) /\ (s.notify \/ \E l \in w.keys : IsPrefix(top \o l, p))
    BY <1>7, <2>1
  <2>3. PICK q \in Path : p = top \o q
    BY <1>10, <2>1, <2>2
  <2>4. value(old, p) = At(old, q) /\ value(new, p) = At(new, q) /\ q \in DOMAIN old \union DOMAIN new
    BY <1>8, <1>9, <1>12, <1>16, <2>1, <2>3
  <2>5. Len(p) = Len(d) /\ OnTrail(d, p)
    BY <1>3, <1>4, <2>1, <2>2, OnDataPath
  <2>6. Triggers(s.type, value(old, p), value(new, p))
    BY <1>8, <2>1, <2>3, <2>4
  <2>7. p \in happened(d)
    BY <2>3, <2>4
  <2>8. s.notify \/ (value(old, p) = At(t, p) /\ value(new, p) = At(a, p))
    BY <1>8, <2>2, <2>3, <2>4
  <2>9. seen(p) = due(p)
    BY <2>8 DEF Event
  <2> HIDE DEF happened, value
  <2> QED
    BY <2>5, <2>6, <2>7, <2>9
<1>13. \A p : seen(p).path = p /\ due(p).path = p
  BY DEF Event
<1> HIDE DEF hit, wanted, seen, due
<1>14. ASSUME NEW e
       PROVE  e \in Outside(ValueEvents(s, w, old, new), t, a) <=> e \in Outside(Due(s, t, a), t, a)
  <2>1. ASSUME e \in ValueEvents(s, w, old, new), ~IsCharacter(e.path, t, a)
        PROVE  e \in Due(s, t, a)
    <3>1. PICK p \in hit(d) : e = seen(p)
      BY <1>1, <1>4, <2>1
    <3>2. ~IsCharacter(p, t, a)
      BY <1>13, <2>1, <3>1
    <3>3. p \in wanted /\ e = due(p)
      BY <1>11, <1>12, <3>1, <3>2
    <3> QED
      BY <1>2, <3>3
  <2>2. ASSUME e \in Due(s, t, a), ~IsCharacter(e.path, t, a)
        PROVE  e \in ValueEvents(s, w, old, new)
    <3>1. PICK p \in wanted : e = due(p)
      BY <1>2, <2>2
    <3>2. ~IsCharacter(p, t, a)
      BY <1>13, <2>2, <3>1
    <3>3. p \in hit(d) /\ e = seen(p)
      BY <1>12, <3>1, <3>2
    <3> QED
      BY <1>1, <1>4, <3>3
  <2> QED
    BY <2>1, <2>2 DEF Outside
<1>17. Outside(ValueEvents(s, w, old, new), t, a) = Outside(Due(s, t, a), t, a)
  BY <1>14
<1> QED
  BY <1>17 DEF old, new, a

\* A notification about data above what is loaded.

LEMMA AtRoot ==
    ASSUME NEW t, Plain(t), t = [p \in DOMAIN t |-> t[p]]
    PROVE  At(t, <<>>) = t
<1> DEFINE a == At(t, <<>>)
<1>1. /\ Plain(a) /\ a = [q \in DOMAIN a |-> a[q]]
      /\ \A q \in Path : Kind(a, q) = Kind(t, <<>> \o q)
  BY EmptyPath, AtPlain, AtKind DEF Plain
<1> HIDE DEF a
<1>2. \A q \in Path : Kind(a, q) = Kind(t, q)
  BY <1>1, EmptyConcat
<1>3. a = t
  BY <1>1, <1>2, SameTree
<1> QED
  BY <1>3 DEF a

LEMMA TouchedAbove ==
    ASSUME NEW t, NEW w, NEW p \in Path, NEW q \in Path, IsPrefix(q, p), ~Untouched(t, w, p)
    PROVE  ~Untouched(t, w, q)
<1>1. PICK x \in Path : Changed(t, w, p \o x)
  BY DEF Untouched
<1> DEFINE y == p \o x
<1>2. y \in Path /\ IsPrefix(p, y) /\ Changed(t, w, y)
  BY <1>1, Concat, Extends
<1> HIDE DEF y
<1>3. IsPrefix(q, y)
  BY <1>2, PrefixTransitive
<1> DEFINE r == Rest(y, Len(q))
<1>4. r \in Path /\ q \o r = y
  BY <1>2, <1>3, PrefixSplits
<1> HIDE DEF r
<1> QED
  BY <1>2, <1>4 DEF Untouched

\* Nothing is loaded that changes: nothing changes.  What is loaded of the top
\* is there or not as it is in the database.
LEMMA TopChanges ==
    ASSUME NEW t, GoodTree(t), NEW w, GoodImpact(w), GoodWrite(t, w.path, w.updates)
    PROVE  LET old == OldData(t, w)
               new == NewData(t, w)
           IN /\ old = new <=> Untouched(t, w, w.top)
              /\ old # new => /\ old = Null <=> At(t, w.top) = Null
                              /\ new = Null <=> At(After(t, w), w.top) = Null
<1> DEFINE old == OldData(t, w)
           new == NewData(t, w)
           a == After(t, w)
           top == w.top
<1>1. At(old, <<>>) = old /\ At(new, <<>>) = new
  <2>1. Plain(old) /\ old = [p \in DOMAIN old |-> old[p]] /\ Plain(new) /\ new = [p \in DOMAIN new |-> new[p]]
    BY Loaded DEF IsLoaded
  <2> HIDE DEF old, new
  <2> QED
    BY <2>1, AtRoot
<1>2. top \o <<>> = top
  BY EmptyConcat DEF GoodImpact
<1>3. SeesChanges(t, w, <<>>)
  BY EmptyPath, LoadedAt
<1>4. /\ At(old, <<>>) = At(new, <<>>) <=> Untouched(t, w, top \o <<>>)
      /\ ~Untouched(t, w, top \o <<>>) =>
           /\ At(old, <<>>) = Null <=> At(t, top \o <<>>) = Null
           /\ At(new, <<>>) = Null <=> At(a, top \o <<>>) = Null
  BY <1>3 DEF SeesChanges
<1> HIDE DEF old, new, a, top
<1>5. /\ old = new <=> Untouched(t, w, top)
      /\ ~Untouched(t, w, top) => (old = Null <=> At(t, top) = Null) /\ (new = Null <=> At(a, top) = Null)
  BY <1>1, <1>2, <1>4
<1> QED
  BY <1>5 DEF old, new, a, top

\* The place above a write that a subscription has its events of.
LEMMA DataPathAbove ==
    ASSUME NEW s, GoodSub(s), s.type \notin MutationEvents, NEW path \in Path, DataPath(s, path) # {},
           Len(s.path) < Len(path)
    PROVE  LET d == SubSeq(path, 1, PlaceLength(s)) IN
           /\ DataPath(s, path) = {d} /\ d \in Path /\ Len(d) = PlaceLength(s) /\ IsPrefix(d, path)
           /\ Place(s, d)
<1> DEFINE n == Len(s.path)
           m == PlaceLength(s)
           d == SubSeq(path, 1, m)
           e == Filled(s.path, path)
           c == Append(e, path[n + 1])
<1>1. s.path \in Path /\ n \in Nat /\ Len(path) \in Nat /\ n < Len(path)
  BY PathLength DEF GoodSub
<1>2. /\ OnTrail(s.path, path)
      /\ s.type \in {"value", "child_changed"} \union ParentEvents
      /\ s.type \in ParentEvents => Len(path) <= n + 1
  BY DataPathIs
<1>3. e \in Path /\ Len(e) = n /\ IsPrefix(e, path)
  BY <1>1, <1>2, FilledPrefix DEF Path
<1>4. DataPath(s, path) =
        CASE s.type = "value" -> {e}
          [] s.type \in MutationEvents -> {path}
          [] s.type = "child_changed" -> {c}
          [] s.type \in ParentEvents /\ Len(path) <= Len(e) + 1 -> {c}
          [] OTHER -> {}
  <2> DEFINE child == IF Len(path) <= Len(e) THEN "*" ELSE path[Len(e) + 1]
  <2>1. DataPath(s, path) =
          CASE s.type = "value" -> {e}
            [] s.type \in MutationEvents -> {path}
            [] s.type = "child_changed" -> {Append(e, child)}
            [] s.type \in ParentEvents /\ Len(path) <= Len(e) + 1 -> {Append(e, child)}
            [] OTHER -> {}
    BY <1>2 DEF DataPath
  <2>2. ~(Len(path) <= Len(e)) /\ path[Len(e) + 1] = path[n + 1]
    <3>1. Len(e) = n /\ n \in Nat /\ Len(path) \in Nat /\ n < Len(path)
      BY <1>1, <1>3
    <3> HIDE DEF e, n
    <3> QED
      BY <3>1
  <2>3. child = path[n + 1]
    BY <2>2
  <2> HIDE DEF child, e
  <2> QED
    BY <2>1, <2>3
<1>5. m = n + (IF s.type = "value" THEN 0 ELSE 1)
  BY DEF PlaceLength
<1>6. m = IF s.type = "value" THEN n ELSE n + 1
  <2>1. n \in Nat
    BY <1>1
  <2> HIDE DEF n, m
  <2> QED
    BY <1>5, <2>1
<1> HIDE DEF e, n, m
<1>7. m \in Nat /\ m <= Len(path) /\ n + 1 <= Len(path)
  BY <1>1, <1>6
<1>8. d \in Path /\ Len(d) = m /\ IsPrefix(d, path)
  BY <1>7, FirstIsPrefix
<1> HIDE DEF d
<1>9. c \in Path /\ Len(c) = n + 1 /\ IsPrefix(c, path)
  <2>1. path[n + 1] \in STRING
    BY <1>1, <1>7, KeyOf
  <2>2. c \in Path /\ Len(c) = n + 1 /\ (\A i \in 1..n : c[i] = e[i]) /\ c[n + 1] = path[n + 1]
    BY <1>3, <2>1, AppendProperties DEF Path
  <2>3. \A i \in 1..n : e[i] = path[i]
    BY <1>3, PrefixKeys
  <2> HIDE DEF c
  <2>4. \A i \in 1..(n + 1) : c[i] = path[i]
    <3> TAKE i \in 1..(n + 1)
    <3>1. i \in 1..n \/ i = n + 1
      BY <1>1
    <3> QED
      BY <2>2, <2>3, <3>1
  <2> QED
    BY <1>7, <2>2, <2>4, PrefixKeys
<1> HIDE DEF c
<1>10. DataPath(s, path) = {d}
  <2>1. CASE s.type = "value"
    <3>1. DataPath(s, path) = {e}
      BY <1>4, <2>1 DEF ParentEvents
    <3>2. e = SubSeq(path, 1, m)
      BY <1>3, <1>6, <2>1, PrefixIsFirst
    <3> QED
      BY <3>1, <3>2 DEF d
  <2>2. CASE s.type # "value"
    <3>1. DataPath(s, path) = {c}
      BY <1>2, <1>3, <1>4, <2>2 DEF ParentEvents
    <3>2. c = SubSeq(path, 1, m)
      BY <1>6, <1>9, <2>2, PrefixIsFirst
    <3> QED
      BY <3>1, <3>2 DEF d
  <2> QED
    BY <2>1, <2>2
<1>11. OnTrail(s.path, d)
  <2>1. \A i \in 1..m : d[i] = path[i]
    BY <1>8, PrefixKeys
  <2>2. (IF Len(s.path) < Len(path) THEN Len(s.path) ELSE Len(path)) = n
    BY <1>1 DEF n
  <2>3. (IF Len(s.path) < Len(d) THEN Len(s.path) ELSE Len(d)) = n
    BY <1>1, <1>6, <1>8 DEF n
  <2>4. \A i \in 1..n : i \in 1..m
    BY <1>1, <1>6
  <2> QED
    BY <1>2, <2>1, <2>2, <2>3, <2>4 DEF OnTrail
<1> QED
  BY <1>8, <1>10, <1>11 DEF Place, d, m

LEMMA NotifiedAre ==
    ASSUME NEW t, GoodTree(t), NEW w, GoodImpact(w), GoodWrite(t, w.path, w.updates),
           NEW s \in w.subs, s.type \notin MutationEvents, s.notify, Len(s.path) < Len(w.top),
           OldData(t, w) # NewData(t, w)
    PROVE  NotifiedAbove(s, w, OldData(t, w), NewData(t, w)) = Due(s, t, After(t, w))
<1> DEFINE old == OldData(t, w)
           new == NewData(t, w)
           a == After(t, w)
           path == w.path
           top == w.top
           n == Len(s.path)
           m == PlaceLength(s)
           d == SubSeq(path, 1, m)
           parent == Len(Filled(s.path, path)) + 1 = Len(top)
           hit == CASE s.type = "value" -> TRUE
                    [] s.type = "child_changed" -> ~parent \/ (old # Null /\ new # Null)
                    [] OTHER -> parent /\ Triggers(s.type, old, new)
           wanted == {p \in Path : Wants(s, t, a, p)}
<1>1. /\ path \in Path /\ top \in Path /\ IsPrefix(top, path)
      /\ GoodSub(s) /\ s.path \in Path /\ DataPath(s, path) # {}
      /\ path \in DOMAIN t /\ Plain(t) /\ IsTree(t)
  <2>1. Plain(t) /\ IsTree(t)
    BY ValueIsPlain DEF GoodTree
  <2> QED
    BY <2>1 DEF GoodImpact, GoodSub, GoodWrite
<1>2. n \in Nat /\ Len(top) \in Nat /\ Len(path) \in Nat /\ n < Len(top) /\ Len(top) <= Len(path)
  BY <1>1, PathLength, PrefixLength
<1>3. Len(Filled(s.path, path)) = n
  BY <1>1, FilledKeys DEF Path
<1>4. parent <=> n + 1 = Len(top)
  BY <1>3
<1>5. /\ s.type \in {"value", "child_changed"} \union ParentEvents
      /\ s.type \in ParentEvents => Len(path) <= n + 1
  BY <1>1, DataPathIs
<1>6. m = IF s.type = "value" THEN n ELSE n + 1
  <2>1. m = n + (IF s.type = "value" THEN 0 ELSE 1)
    BY DEF PlaceLength
  <2>2. n \in Nat
    BY <1>2
  <2> HIDE DEF n, m
  <2> QED
    BY <2>1, <2>2
<1>7. DataPath(s, path) = {d} /\ d \in Path /\ Len(d) = m /\ IsPrefix(d, path) /\ Place(s, d)
  <2>1. Len(s.path) < Len(path)
    BY <1>2
  <2> HIDE DEF path
  <2> QED
    BY <1>1, <2>1, DataPathAbove
<1>8. ~Untouched(t, w, top)
      /\ (old = Null <=> At(t, top) = Null) /\ (new = Null <=> At(a, top) = Null)
  BY TopChanges
<1>9. NotifiedAbove(s, w, old, new) = IF hit THEN {Event(s, d, Null, Null)} ELSE {}
  <2>1. NotifiedAbove(s, w, old, new) = {Event(s, x, Null, Null) : x \in {y \in DataPath(s, path) : hit}}
    BY DEF NotifiedAbove
  <2> HIDE DEF hit, d
  <2> QED
    BY <1>7, <2>1
<1>10. Due(s, t, a) = {Event(s, p, Null, Null) : p \in wanted}
  BY DEF Due, Event
<1>11. \A p \in Path : Untouched(t, w, p) <=> At(t, p) = At(a, p)
  BY UntouchedSame
<1>12. \A p \in Path : ~Untouched(t, w, p) => IsPrefix(p, path) \/ IsPrefix(path, p)
  BY TouchedAt
<1>13. \A p \in Path : Kind(t, p) # Kind(a, p) => IsPrefix(path, p)
  BY ChangeIsLoaded DEF Changed
<1>14. Plain(a) /\ IsTree(a)
  <2>1. GoodTree(a)
    BY AfterWrite DEF After
  <2> QED
    BY <2>1, ValueIsPlain DEF GoodTree
<1> HIDE DEF old, new, a, path, top, n, m, d, parent, hit
<1>15. m \in Nat /\ m <= Len(top) /\ (m = Len(top) <=> s.type # "value" /\ n + 1 = Len(top))
  BY <1>2, <1>6
<1>16. IsPrefix(d, top) /\ (d = top <=> m = Len(top))
  <2>1. IsPrefix(d, top)
    BY <1>1, <1>7, <1>15, PrefixesOrdered
  <2> QED
    BY <1>1, <1>7, <2>1, PrefixLength
<1>17. ~Untouched(t, w, d) /\ At(t, d) # At(a, d)
  BY <1>1, <1>7, <1>8, <1>11, <1>16, TouchedAbove
<1>18. d # top => At(t, d) # Null /\ At(a, d) # Null
  <2> SUFFICES ASSUME d # top
               PROVE  At(t, d) # Null /\ At(a, d) # Null
    OBVIOUS
  <2>1. d # path
    BY <1>1, <1>2, <1>7, <1>15, <1>16, PrefixLength
  <2>2. Kind(t, d) = "obj"
    BY <1>1, <1>7, <2>1, ValueAbove
  <2>3. ~IsPrefix(path, d)
    BY <1>1, <1>7, <2>1, PrefixAntisymmetric
  <2>4. Kind(a, d) = "obj"
    BY <1>7, <1>13, <2>2, <2>3
  <2> QED
    BY <1>1, <1>7, <1>14, <2>2, <2>4, NullAt
<1>19. hit <=> Triggers(s.type, At(t, d), At(a, d))
  <2>1. CASE s.type = "value"
    <3>1. hit
      BY <2>1 DEF hit
    <3> QED
      BY <1>17, <2>1, <3>1 DEF Triggers
  <2>2. CASE s.type = "child_changed"
    <3>1. hit <=> ~parent \/ (old # Null /\ new # Null)
      BY <2>2 DEF hit
    <3>2. Triggers(s.type, At(t, d), At(a, d)) <=> At(t, d) # Null /\ At(a, d) # Null
      BY <1>17, <2>2 DEF Triggers
    <3>3. parent <=> d = top
      BY <1>4, <1>15, <1>16, <2>2
    <3> QED
      BY <1>8, <1>18, <3>1, <3>2, <3>3
  <2>3. CASE s.type \in ParentEvents
    <3>1. s.type # "value" /\ s.type # "child_changed"
      BY <2>3 DEF ParentEvents
    <3>2. n + 1 = Len(top)
      BY <1>2, <1>5, <2>3
    <3>3. d = top /\ parent
      BY <1>4, <1>15, <1>16, <3>1, <3>2
    <3>4. hit <=> Triggers(s.type, old, new)
      BY <3>1, <3>3 DEF hit
    <3>5. old = new <=> At(t, d) = At(a, d)
      BY <1>17 DEF old, new
    <3> QED
      BY <1>8, <3>3, <3>4, <3>5, TriggersSame
  <2> QED
    BY <1>5, <2>1, <2>2, <2>3
<1>20. ASSUME NEW p \in Path, Wants(s, t, a, p)
       PROVE  p = d
  <2>1. Len(p) = m /\ At(t, p) # At(a, p)
    BY <1>20 DEF Wants, Place, Triggers, m
  <2>2. IsPrefix(p, path) \/ IsPrefix(path, p)
    BY <1>11, <1>12, <2>1
  <2>3. IsPrefix(p, path)
    <3>1. CASE IsPrefix(path, p)
      <4>1. Len(path) <= m
        BY <1>1, <2>1, <3>1, PrefixLength
      <4>2. Len(path) = Len(p)
        BY <1>2, <1>15, <2>1, <4>1
      <4>3. path = p
        BY <1>1, <3>1, <4>2, PrefixLength
      <4> QED
        BY <1>1, <4>3, PrefixReflexive
    <3> QED
      BY <2>2, <3>1
  <2> QED
    BY <1>1, <2>1, <2>3, PrefixIsFirst DEF d
<1>21. Wants(s, t, a, d) <=> hit
  BY <1>7, <1>19 DEF Wants
<1>22. wanted = IF hit THEN {d} ELSE {}
  BY <1>7, <1>20, <1>21
<1> HIDE DEF wanted
<1>23. Due(s, t, a) = IF hit THEN {Event(s, d, Null, Null)} ELSE {}
  BY <1>10, <1>22
<1> QED
  BY <1>9, <1>23 DEF old, new, a

----------------------------------------------------------------------------
\* All events of a write.

LEMMA OwedMutations ==
    ASSUME NEW t, GoodTree(t), NEW w, GoodWrite(t, w.path, w.updates),
           NEW s, Exact(s.path), s.type \in MutationEvents
    PROVE  Owed(s, t, After(t, w)) = Mutations(s, t, w)
<1> DEFINE a == After(t, w)
           p == s.path
           event(y) == Event(s, y, At(t, y), At(a, y))
           places == {x \in DOMAIN t \union DOMAIN a :
                        /\ Len(x) = Len(p) + (IF s.type \in MutationEvents \union {"value"} THEN 0 ELSE 1)
                        /\ OnTrail(p, x)}
           below(x) == {event(x \o q) : q \in Differences(At(t, x), At(a, x))}
           first == {x \in Path : IsPrefix(p, x) /\ First(t, a, p, x)}
<1>1. Owed(s, t, a) = UNION {below(x) : x \in places}
  BY DEF Owed
<1>2. Mutations(s, t, w) = {event(y) : y \in first}
  BY DEF Mutations
<1>3. /\ Plain(t) /\ IsTree(t) /\ Plain(a) /\ IsTree(a) /\ DOMAIN t \subseteq Path /\ DOMAIN a \subseteq Path
      /\ p \in Path /\ Len(p) \in Nat
  <2>1. GoodTree(a)
    BY AfterWrite DEF After
  <2> QED
    BY <2>1, ValueIsPlain, PathLength DEF GoodTree, Plain, Exact
<1>4. \A x : x \in places <=> x = p /\ p \in DOMAIN t \union DOMAIN a
  <2>1. ASSUME NEW x \in Path
        PROVE  Len(x) = Len(p) /\ OnTrail(p, x) <=> x = p
    <3>1. OnTrail(p, x) <=> IsPrefix(p, x) \/ IsPrefix(x, p)
      BY ExactTrail
    <3> QED
      BY <1>3, <3>1, PrefixLength, PrefixReflexive
  <2>2. Len(p) + (IF s.type \in MutationEvents \union {"value"} THEN 0 ELSE 1) = Len(p)
    <3>1. (IF s.type \in MutationEvents \union {"value"} THEN 0 ELSE 1) = 0
      OBVIOUS
    <3> DEFINE n == Len(p)
    <3>2. n \in Nat
      BY <1>3
    <3> HIDE DEF n
    <3>3. n + 0 = n
      BY <3>2
    <3> QED
      BY <3>1, <3>3 DEF n
  <2> QED
    BY <1>3, <2>1, <2>2
<1>5. /\ \A d : d \in Differences(At(t, p), At(a, p)) <=> d \in Path /\ First(t, a, p, p \o d)
  BY <1>3, DifferencesAt
<1> HIDE DEF a, p, event, places
<1>6. ASSUME NEW q, q \in Differences(At(t, p), At(a, p))
      PROVE  p \o q \in first
  BY <1>3, <1>5, <1>6, Concat, Extends
<1>7. ASSUME NEW y \in first
      PROVE  /\ p \in places
             /\ \E q \in Differences(At(t, p), At(a, p)) : y = p \o q
  <2>1. y \in Path /\ IsPrefix(p, y) /\ First(t, a, p, y)
    OBVIOUS
  <2>2. y \in DOMAIN t \/ y \in DOMAIN a
    BY <2>1 DEF First, Kind
  <2>3. p \in DOMAIN t \/ p \in DOMAIN a
    BY <1>3, <2>1, <2>2, TreeAbove
  <2> DEFINE q == Rest(y, Len(p))
  <2>4. q \in Path /\ p \o q = y
    BY <1>3, <2>1, PrefixSplits
  <2> HIDE DEF q
  <2> QED
    BY <1>4, <1>5, <2>1, <2>3, <2>4
<1>8. ASSUME NEW e \in UNION {below(x) : x \in places}
      PROVE  e \in {event(y) : y \in first}
  <2>1. PICK x \in places : e \in below(x)
    BY <1>8
  <2>2. x = p
    BY <1>4, <2>1
  <2>3. PICK q \in Differences(At(t, p), At(a, p)) : e = event(p \o q)
    BY <2>1, <2>2
  <2> QED
    BY <1>6, <2>3
<1>9. ASSUME NEW y \in first
      PROVE  event(y) \in UNION {below(x) : x \in places}
  <2>1. PICK q \in Differences(At(t, p), At(a, p)) : y = p \o q
    BY <1>7
  <2>2. event(y) \in below(p)
    BY <2>1
  <2> HIDE DEF below
  <2> QED
    BY <1>7, <2>2
<1> HIDE DEF below, first
<1>10. UNION {below(x) : x \in places} = {event(y) : y \in first}
  BY <1>8, <1>9
<1> QED
  BY <1>1, <1>2, <1>10 DEF a

LEMMA NothingOwed ==
    ASSUME NEW t, GoodTree(t), NEW w, GoodImpact(w), GoodWrite(t, w.path, w.updates),
           NEW s, GoodSub(s), s.type \in MutationEvents => Exact(s.path),
           OldData(t, w) = NewData(t, w)
    PROVE  Owed(s, t, After(t, w)) = {}
<1> DEFINE a == After(t, w)
           top == w.top
<1>1. Untouched(t, w, top)
  BY TopChanges
<1>2. ASSUME NEW y \in Path, Changed(t, w, y)
      PROVE  FALSE
  <2>1. IsPrefix(w.path, y) /\ w.path \in Path /\ top \in Path /\ IsPrefix(top, w.path)
    BY <1>2, ChangeIsLoaded DEF GoodImpact
  <2> DEFINE path == w.path
  <2>2. path \in Path /\ IsPrefix(path, y) /\ top \in Path /\ IsPrefix(top, path)
    BY <2>1
  <2> HIDE DEF path, top
  <2>3. IsPrefix(top, y)
    BY <2>2, PrefixTransitive
  <2> DEFINE r == Rest(y, Len(top))
  <2>4. r \in Path /\ top \o r = y
    BY <2>2, <2>3, PrefixSplits
  <2> HIDE DEF r
  <2> QED
    BY <1>1, <1>2, <2>4 DEF Untouched
<1>3. CASE s.type \in MutationEvents
  <2>1. Owed(s, t, a) = Mutations(s, t, w)
    BY <1>3, OwedMutations
  <2>2. Mutations(s, t, w) = {}
    BY <1>2 DEF Mutations, First, Changed
  <2> QED
    BY <2>1, <2>2
<1>4. CASE s.type \notin MutationEvents
  <2>1. Owed(s, t, a) = Due(s, t, a)
    BY <1>4, OwedIsDue
  <2>2. ASSUME NEW p \in Path, Wants(s, t, a, p)
        PROVE  FALSE
    <3>1. At(t, p) # At(a, p)
      BY <2>2 DEF Wants, Triggers
    <3>2. ~Untouched(t, w, p)
      BY <3>1, UntouchedSame
    <3> QED
      BY <1>2, <3>2, TouchedAt
  <2>3. Due(s, t, a) = {}
    BY <2>2 DEF Due
  <2> QED
    BY <2>1, <2>3
<1> QED
  BY <1>3, <1>4

LEMMA EventsAre ==
    ASSUME NEW t, GoodTree(t), NEW w, GoodImpact(w), GoodWrite(t, w.path, w.updates),
           \A s \in w.subs : s.type \in MutationEvents => Exact(s.path) /\ NamesNoCharacter(s.path)
    PROVE  Outside(EventsOf(t, w), t, After(t, w)) =
             Outside(UNION {Owed(s, t, After(t, w)) : s \in w.subs}, t, After(t, w))
<1> DEFINE old == OldData(t, w)
           new == NewData(t, w)
           above(s) == s.notify /\ Len(s.path) < Len(w.top)
           for(s) == CASE s.type \in MutationEvents -> MutatedEvents(s, w, old, new)
                       [] s.type \notin MutationEvents /\ above(s) -> NotifiedAbove(s, w, old, new)
                       [] OTHER -> ValueEvents(s, w, old, new)
           a == After(t, w)
           owed(s) == Owed(s, t, After(t, w))
           outside(events) == Outside(events, t, a)
<1>1. EventsOf(t, w) = IF old = new THEN {} ELSE UNION {for(s) : s \in w.subs}
  BY DEF EventsOf
<1>2. ASSUME NEW s \in w.subs
      PROVE  GoodSub(s) /\ DataPath(s, w.path) # {} /\ OnTrail(s.path, w.path)
  <2>1. GoodSub(s) /\ DataPath(s, w.path) # {}
    BY DEF GoodImpact
  <2> QED
    BY <2>1 DEF DataPath
<1>3. CASE old = new
  <2>1. \A s \in w.subs : owed(s) = {}
    BY <1>2, <1>3, NothingOwed
  <2> HIDE DEF owed
  <2>2. UNION {owed(s) : s \in w.subs} = {}
    BY <2>1
  <2>3. EventsOf(t, w) = UNION {owed(s) : s \in w.subs}
    BY <1>1, <1>3, <2>2
  <2> QED
    BY <2>3 DEF owed
<1>4. CASE old # new
  <2>1. ASSUME NEW s \in w.subs
        PROVE  outside(for(s)) = outside(owed(s))
    <3>1. CASE s.type \in MutationEvents
      <4>1. for(s) = MutatedEvents(s, w, old, new)
        BY <3>1
      <4>2. MutatedEvents(s, w, old, new) = Mutations(s, t, w)
        BY <1>2, <3>1, MutatedAre
      <4>3. owed(s) = Mutations(s, t, w)
        BY <3>1, OwedMutations
      <4> QED
        BY <4>1, <4>2, <4>3
    <3>2. CASE s.type \notin MutationEvents /\ above(s)
      <4>1. for(s) = NotifiedAbove(s, w, old, new)
        BY <3>2
      <4>2. NotifiedAbove(s, w, old, new) = Due(s, t, After(t, w))
        BY <1>4, <3>2, NotifiedAre
      <4>3. owed(s) = Due(s, t, After(t, w))
        BY <1>2, <3>2, OwedIsDue
      <4> QED
        BY <4>1, <4>2, <4>3
    <3>3. CASE s.type \notin MutationEvents /\ ~above(s)
      <4>1. for(s) = ValueEvents(s, w, old, new)
        BY <3>3
      <4>2. outside(ValueEvents(s, w, old, new)) = outside(Due(s, t, After(t, w)))
        BY <3>3, ValueEventsAre
      <4>3. owed(s) = Due(s, t, After(t, w))
        BY <1>2, <3>3, OwedIsDue
      <4> QED
        BY <4>1, <4>2, <4>3
    <3> QED
      BY <3>1, <3>2, <3>3
  <2> HIDE DEF for, owed, a
  <2>2. ASSUME NEW e
        PROVE  e \in outside(UNION {for(s) : s \in w.subs}) <=> e \in outside(UNION {owed(s) : s \in w.subs})
    <3>1. \A s \in w.subs : e \in outside(for(s)) <=> e \in outside(owed(s))
      BY <2>1
    <3> QED
      BY <3>1 DEF Outside
  <2>3. outside(UNION {for(s) : s \in w.subs}) = outside(UNION {owed(s) : s \in w.subs})
    BY <2>2
  <2>4. EventsOf(t, w) = UNION {for(s) : s \in w.subs}
    BY <1>1, <1>4
  <2> HIDE DEF old, new
  <2> QED
    BY <2>3, <2>4 DEF owed, a
<1> QED
  BY <1>3, <1>4

\* Subscriptions to mutations are of paths without wildcards and not of
\* characters.
MutationsExact ==
    \A s \in Subscriptions : s.type \in MutationEvents => Exact(s.path) /\ NamesNoCharacter(s.path)

\* One write at a time has the lock, for subscriptions that there were.
OneWrite ==
    /\ \A v \in write, w \in write : v = w
    /\ \A w \in write : w.subs \subseteq Subscriptions

LEMMA OneWriteInit == Init => OneWrite
BY DEF Init, OneWrite

LEMMA OneWriteStep == IInv /\ OneWrite /\ [Next]_vars => OneWrite'
<1> SUFFICES ASSUME IInv, OneWrite, [Next]_vars
             PROVE  OneWrite'
  OBVIOUS
<1>1. ASSUME NEW r \in Requests, Begin(r)
      PROVE  OneWrite'
  <2> DEFINE i == Impact(subs, Indexes, Target(db, r.path, r.updates).path, Target(db, r.path, r.updates).updates)
  <2>1. write' = {i}
    BY <1>1 DEF Begin
  <2>2. i.subs \subseteq subs
    BY DEF Impact, AllSubscribers
  <2>3. subs \subseteq Subscriptions
    BY DEF IInv
  <2> HIDE DEF i
  <2> QED
    BY <2>1, <2>2, <2>3 DEF OneWrite
<1>2. CASE write' = write \/ write' = {}
  BY <1>2 DEF OneWrite
<1> QED
  BY <1>1, <1>2 DEF Next, Subscribe, Unsubscribe, End, Fire, Load, vars

\* What _writeNodeWithTracking prepares in the data it loads are the events that
\* the changes of the whole database call for, with the values before and after:
\* none is missed, none is made up and none has part of a value only, but for
\* those about the characters of a string, that lines 1062-1068 take for children.
\* Patterns of mutations are exact, as line 1122 looks a wildcard up as a key.
THEOREM EveryEventIsOwed ==
    ASSUME MutationsExact
    PROVE  Spec => EventsAreChanges
<1>1. IInv /\ OneWrite /\ [Next]_vars =>
        [\A w \in write : write' = {} =>
            Outside(queue', db, db') = Outside(UNION {Owed(s, db, db') : s \in w.subs}, db, db')]_vars
  <2> SUFFICES ASSUME IInv, OneWrite, [Next]_vars, NEW w \in write, write' = {}
               PROVE  Outside(queue', db, db') = Outside(UNION {Owed(s, db, db') : s \in w.subs}, db, db')
    OBVIOUS
  <2>1. End
    BY DEF Next, Subscribe, Unsubscribe, Begin, Fire, Load, vars
  <2>2. db' = After(db, w) /\ queue' = EventsOf(db, w)
    BY <2>1 DEF End, OneWrite, After
  <2>3. GoodTree(db) /\ GoodImpact(w) /\ GoodWrite(db, w.path, w.updates)
    BY DEF IInv, WriteIs
  <2>4. \A s \in w.subs : s.type \in MutationEvents => Exact(s.path) /\ NamesNoCharacter(s.path)
    BY DEF OneWrite, MutationsExact
  <2>5. Outside(EventsOf(db, w), db, After(db, w)) =
          Outside(UNION {Owed(s, db, After(db, w)) : s \in w.subs}, db, After(db, w))
    BY <2>3, <2>4, EventsAre
  <2> QED
    BY <2>2, <2>5
<1>2. IInv /\ OneWrite /\ [Next]_vars =>
        [\A w \in write : write' = {} =>
           LET owed == UNION {Owed(s, db, db') : s \in w.subs} IN
           {e \in queue' : ~IsCharacter(e.path, db, db')} = {e \in owed : ~IsCharacter(e.path, db, db')}]_vars
  BY <1>1 DEF Outside
<1> QED
  BY <1>2, InvInit, InvStep, OneWriteInit, OneWriteStep, PTL DEF Spec, EventsAreChanges
==============================================================================
