-------------------------- MODULE RecordStore_proofs --------------------------
(***************************************************************************)
(* For any requests: whatever was written, wherever it was stored before,  *)
(* a node is stored in one place, and reads the same by itself and as a    *)
(* part of the root, unless a write for it or for what it is in has        *)
(* failed.  And the engine that keeps records implements the tree          *)
(* (TreeStore), for requests without nulls in objects that are set: the    *)
(* records that a write stores and removes change the tree that is read as *)
(* the request says, and a part of those changes leaves all alone but what *)
(* the write is for.                                                       *)
(***************************************************************************)
EXTENDS RecordStore, Trees_proofs

\* What no write that failed was for, T being the keys of those.
Safe(p, T) == \A k \in T : ~IsPrefix(k, p)

\* Records have values that are not null, inline those of the children of an
\* object.
GoodRecord(record) ==
    /\ <<>> \in DOMAIN record
    /\ \A c \in DOMAIN record :
         /\ c \in Path /\ record[c] # "null"
         /\ c = <<>> \/ (Len(c) = 1 /\ record[<<>>] = "obj")
StoreType(s) ==
    /\ DOMAIN s \subseteq Path /\ <<>> \in DOMAIN s
    /\ \A p \in DOMAIN s : GoodRecord(s[p])

\* The records of a store, of which the writes for the keys T have failed:
\* above a record there are records, of objects that do not have it inline.
Linked(s, T) == \A p \in DOMAIN s : \A q \in Above(p) : Safe(q, T) => q \in DOMAIN s
OneEach(s, T) ==
    \A p \in DOMAIN s : Safe(p, T) =>
        /\ \A q \in Above(p) : Kind(s[q], <<>>) = "obj"
        /\ ~InParent(s, p)
GoodStore(s, T) == StoreType(s) /\ Linked(s, T) /\ OneEach(s, T)

\* The store n that the changes at D of the write t make of the store s.
Stores(t) == {t.path \o q : q \in Dedicated(t.value)}
Gone(s, t, D) == {x \in DOMAIN s : \E p \in D \ Stores(t) : IsPrefix(p, x)}
Partly(s, t, D, n) ==
    /\ DOMAIN n = (DOMAIN s \ Gone(s, t, D)) \union (D \intersect Stores(t))
    /\ \A p \in DOMAIN n :
         n[p] = IF p \in D \intersect Stores(t) THEN Changes(s, t)[p] ELSE s[p]

\* A write w that found the store s, and made it n so far.
InWrite(w, s, n) ==
    LET t == Target(s, w.request)
        changes == Changes(s, t)
    IN /\ w = [request |-> w.request, keys |-> w.keys, todo |-> w.todo]
       /\ w.request \in Requests /\ w.keys = Written(t)
       /\ DOMAIN w.todo \subseteq DOMAIN changes
       /\ \A p \in DOMAIN w.todo : w.todo[p] = changes[p]
       /\ w.todo = [p \in DOMAIN w.todo |-> w.todo[p]]
       /\ t.path \in DOMAIN s => DOMAIN w.todo = {} \/ t.path \in DOMAIN w.todo
       /\ Partly(s, t, DOMAIN changes \ DOMAIN w.todo, n)

IInv ==
    /\ torn \subseteq Path
    /\ \A w \in write : InWrite(w, base, nodes)
    /\ write # {} => GoodStore(base, torn) /\ \E w \in write : write = {w}
    /\ write = {} => GoodStore(nodes, torn)

-----------------------------------------------------------------------------
\* Paths.

LEMMA SafeAbove ==
    ASSUME NEW T \in SUBSET Path, NEW p \in Path, Safe(p, T), NEW q \in Path, IsPrefix(q, p)
    PROVE  Safe(q, T)
BY PrefixTransitive DEF Safe

LEMMA LinkedAbove ==
    ASSUME NEW s, NEW T, GoodStore(s, T), NEW p \in DOMAIN s, NEW q \in Path, IsPrefix(q, p), Safe(q, T)
    PROVE  q \in DOMAIN s
<1>1. p \in Path
  BY DEF GoodStore, StoreType
<1>2. CASE q = p
  BY <1>2
<1>3. CASE q # p
  <2>1. q \in Above(p)
    BY <1>1, <1>3, AboveMeans
  <2> QED
    BY <2>1 DEF GoodStore, Linked
<1> QED
  BY <1>2, <1>3

LEMMA SafeRecord ==
    ASSUME NEW s, NEW T \in SUBSET Path, GoodStore(s, T), NEW p \in DOMAIN s, Safe(p, T)
    PROVE  /\ p \in Path /\ ~InParent(s, p)
           /\ \A q \in Path : IsPrefix(q, p) /\ q # p =>
                Safe(q, T) /\ q \in DOMAIN s /\ Kind(s[q], <<>>) = "obj"
<1>1. p \in Path
  BY DEF GoodStore, StoreType
<1>2. ASSUME NEW q \in Path, IsPrefix(q, p), q # p
      PROVE  Safe(q, T) /\ q \in DOMAIN s /\ Kind(s[q], <<>>) = "obj"
  <2>1. q \in Above(p)
    BY <1>1, <1>2, AboveMeans
  <2>2. Safe(q, T)
    BY <1>1, <1>2, SafeAbove
  <2> QED
    BY <2>1, <2>2 DEF GoodStore, Linked, OneEach
<1>3. ~InParent(s, p)
  BY DEF GoodStore, OneEach
<1> QED
  BY <1>1, <1>2, <1>3

-----------------------------------------------------------------------------
\* What a request writes, and where.

LEMMA WrappedTree ==
    ASSUME NEW trail \in Path, NEW value, IsTree(value), <<>> \in DOMAIN value,
           trail # <<>> \/ value[<<>>] = "obj"
    PROVE  /\ IsTree(Wrapped(trail, value)) /\ <<>> \in DOMAIN Wrapped(trail, value)
           /\ Wrapped(trail, value)[<<>>] = "obj"
<1> DEFINE v == Wrapped(trail, value)
<1>1. /\ DOMAIN v = Above(trail) \union {trail \o d : d \in DOMAIN value}
      /\ \A q \in DOMAIN v : v[q] = IF q \in Above(trail) THEN "obj" ELSE value[Rest(q, Len(trail))]
  BY DEF Wrapped, Above
<1> HIDE DEF v
<1>2. \A d \in DOMAIN value : d \in Path
  BY DEF IsTree
<1>3. ASSUME NEW d \in DOMAIN value
      PROVE  trail \o d \in Path /\ trail \o d \in DOMAIN v
             /\ (v[trail \o d] = "obj" \/ v[trail \o d] = value[d])
  <2>1. trail \o d \in Path /\ Rest(trail \o d, Len(trail)) = d
    BY <1>2, Concat, RestOfConcat
  <2> QED
    BY <1>1, <2>1
<1>4. trail \o <<>> = trail
  BY EmptyConcat
<1>5. <<>> \in DOMAIN v /\ v[<<>>] = "obj"
  <2>1. CASE trail = <<>>
    <3>1. trail \o <<>> = <<>>
      BY <1>4, <2>1
    <3> QED
      BY <1>3, <2>1, <3>1
  <2>2. CASE trail # <<>>
    <3>1. <<>> \in Above(trail)
      BY <2>2, AboveMeans, EmptyPath, PrefixReflexive
    <3> QED
      BY <1>1, <3>1
  <2> QED
    BY <2>1, <2>2
<1>6. ASSUME NEW p \in DOMAIN v
      PROVE  p \in Path /\ \A q \in Above(p) : q \in DOMAIN v /\ v[q] = "obj"
  <2>1. CASE p \in Above(trail)
    <3>1. p \in Path /\ IsPrefix(p, trail) /\ p # trail
      BY <2>1, AboveMeans
    <3>2. ASSUME NEW q \in Above(p)
          PROVE  q \in Above(trail)
      <4>1. q \in Path /\ IsPrefix(q, p) /\ q # p
        BY <3>1, AboveMeans
      <4>2. IsPrefix(q, trail) /\ q # trail
        BY <3>1, <4>1, PrefixTransitive, PrefixAntisymmetric
      <4> QED
        BY <4>1, <4>2, AboveMeans
    <3> QED
      BY <1>1, <3>1, <3>2
  <2>2. CASE p \in {trail \o d : d \in DOMAIN value}
    <3>1. PICK d \in DOMAIN value : p = trail \o d
      BY <2>2
    <3>2. d \in Path /\ p \in Path /\ IsPrefix(trail, p)
      BY <1>2, <1>3, <3>1, Extends
    <3>3. ASSUME NEW q \in Above(p)
          PROVE  q \in DOMAIN v /\ v[q] = "obj"
      <4>1. q \in Path /\ IsPrefix(q, p) /\ q # p
        BY <3>2, AboveMeans
      <4>2. CASE q \in Above(trail)
        BY <1>1, <4>2
      <4>3. CASE q \notin Above(trail)
        <5>1. IsPrefix(trail, q)
          <6>1. IsPrefix(q, trail) \/ IsPrefix(trail, q)
            BY <3>2, <4>1, PrefixesCompare
          <6>2. q = trail => IsPrefix(trail, q)
            BY PrefixReflexive
          <6> QED
            BY <4>1, <4>3, <6>1, <6>2, AboveMeans
        <5> DEFINE e == Rest(q, Len(trail))
        <5>2. e \in Path /\ trail \o e = q
          BY <4>1, <5>1, PrefixSplits
        <5> HIDE DEF e
        <5>3. IsPrefix(e, d) /\ e # d
          BY <3>1, <3>2, <4>1, <5>2, PrefixBelow
        <5>4. e \in DOMAIN value /\ value[e] = "obj"
          BY <5>2, <5>3, TreeAbove
        <5> QED
          BY <1>3, <5>2, <5>4
      <4> QED
        BY <4>2, <4>3
    <3> QED
      BY <3>2, <3>3
  <2> QED
    BY <1>1, <2>1, <2>2
<1> QED
  BY <1>5, <1>6 DEF IsTree, Kind, v

\* What is known of a write: it has a tree to write at a path, at or below
\* which the store has a record, and merges only objects.
GoodTarget(s, t) ==
    /\ t.path \in Path /\ IsTree(t.value) /\ <<>> \in DOMAIN t.value /\ t.value[<<>>] # "null"
    /\ t.merge => t.value[<<>>] = "obj"
    /\ \E d \in DOMAIN s : IsPrefix(t.path, d)

LEMMA MergeGood ==
    ASSUME NEW s, NEW at \in Path, NEW path \in Path, IsPrefix(at, path),
           NEW value, IsTree(value), <<>> \in DOMAIN value, at # path \/ value[<<>>] = "obj",
           NEW d \in DOMAIN s, IsPrefix(at, d)
    PROVE  GoodTarget(s, Merge(at, path, value))
<1> DEFINE trail == Rest(path, Len(at))
           t == Merge(at, path, value)
<1>1. trail \in Path /\ at \o trail = path
  BY PrefixSplits
<1>2. t.path = at /\ t.value = Wrapped(trail, value) /\ t.merge = TRUE
  BY DEF Merge
<1> HIDE DEF trail, t
<1>3. trail # <<>> \/ value[<<>>] = "obj"
  BY <1>1, EmptyConcat
<1>4. IsTree(t.value) /\ <<>> \in DOMAIN t.value /\ t.value[<<>>] = "obj"
  BY <1>1, <1>2, <1>3, WrappedTree
<1>5. GoodTarget(s, t)
  BY <1>2, <1>4 DEF GoodTarget
<1> QED
  BY <1>5 DEF t

\* The nearest record at or above a path.
NearestAt(s, at, path) ==
    /\ at \in Path /\ IsPrefix(at, path) /\ at \in DOMAIN s
    /\ \A c \in Path : Len(c) = 1 /\ IsPrefix(at \o c, path) => at \o c \notin DOMAIN s

LEMMA UpdateAt ==
    ASSUME NEW s, StoreType(s), NEW path \in Path, NEW value
    PROVE  \E at : NearestAt(s, at, path) /\ UpdateNode(s, path, value) = Merge(at, path, value)
<1> DEFINE First(n) == SubSeq(path, 1, n)
           N == {n \in 0..Len(path) : Exists(s, First(n))}
           IsNear(p) == /\ Exists(s, p)
                        /\ \A n \in (Len(p) + 1)..Len(path) : ~Exists(s, First(n))
           near == CHOOSE p \in {First(n) : n \in 0..Len(path)} : IsNear(p)
<1>1. Len(path) \in Nat
  BY PathLength
<1>2. \A n \in 0..Len(path) : First(n) \in Path /\ Len(First(n)) = n /\ IsPrefix(First(n), path)
  BY <1>1, FirstIsPrefix
<1> HIDE DEF First
<1>3. 0 \in N
  <2>1. 0 \in 0..Len(path)
    BY <1>1
  <2>2. First(0) = <<>>
    BY <1>2, <2>1, PathLength
  <2>3. <<>> \in DOMAIN s
    BY DEF StoreType
  <2> QED
    BY <2>1, <2>2, <2>3 DEF Exists
<1>4. PICK m \in N : \A i \in N : i <= m
  <2>1. N \in SUBSET (0..Len(path)) /\ N # {}
    BY <1>3
  <2> HIDE DEF N
  <2> QED
    BY <1>1, <2>1, Largest
<1>5. m \in 0..Len(path) /\ IsNear(First(m))
  <2>1. m \in 0..Len(path) /\ Exists(s, First(m)) /\ Len(First(m)) = m
    BY <1>2, <1>4
  <2>2. ASSUME NEW n \in (m + 1)..Len(path), Exists(s, First(n))
        PROVE  FALSE
    <3>1. n \in 0..Len(path) /\ ~ (n <= m)
      BY <1>1, <2>1
    <3> QED
      BY <1>4, <2>2, <3>1
  <2> QED
    BY <2>1, <2>2
<1>6. \E n \in 0..Len(path) : near = First(n) /\ IsNear(near)
  <2> HIDE DEF IsNear
  <2>1. \E p \in {First(n) : n \in 0..Len(path)} : IsNear(p)
    BY <1>5
  <2>2. near \in {First(n) : n \in 0..Len(path)}
    BY <2>1
  <2>3. IsNear(near)
    BY <2>1
  <2> QED
    BY <2>2, <2>3
<1> DEFINE at == IF near \in DOMAIN s THEN near ELSE Front(near)
<1>7. UpdateNode(s, path, value) = Merge(at, path, value)
  BY DEF UpdateNode, First
<1> HIDE DEF near
<1>8. near \in Path /\ IsPrefix(near, path) /\ Exists(s, near)
  BY <1>2, <1>6
<1>9. ASSUME NEW p \in Path, IsPrefix(p, path), Len(p) = Len(near) + 1
      PROVE  p \notin DOMAIN s
  <2>1. p = First(Len(p)) /\ Len(p) \in (Len(near) + 1)..Len(path)
    BY <1>1, <1>9, PrefixIsFirst DEF First
  <2> QED
    BY <1>6, <2>1 DEF Exists
<1>10. NearestAt(s, at, path)
  <2>1. CASE near \in DOMAIN s
    <3>1. ASSUME NEW c \in Path, Len(c) = 1, IsPrefix(near \o c, path)
          PROVE  near \o c \notin DOMAIN s
      <4>1. near \o c \in Path /\ Len(near \o c) = Len(near) + Len(c)
        BY <1>8, <3>1, Concat
      <4> QED
        BY <1>9, <3>1, <4>1
    <3> QED
      BY <1>8, <2>1, <3>1 DEF NearestAt
  <2>2. CASE near \notin DOMAIN s
    <3>1. near # <<>> /\ Front(near) \in DOMAIN s
      BY <1>8, <2>2 DEF Exists, InParent
    <3>2. Front(near) \in Path /\ IsPrefix(Front(near), near) /\ Len(Front(near)) + 1 = Len(near)
      BY <1>8, <3>1, FrontAndLast
    <3>3. IsPrefix(Front(near), path)
      BY <1>8, <3>2, PrefixTransitive
    <3>4. ASSUME NEW c \in Path, Len(c) = 1, IsPrefix(Front(near) \o c, path)
          PROVE  Front(near) \o c \notin DOMAIN s
      <4>1. Front(near) \o c \in Path /\ Len(Front(near) \o c) = Len(Front(near)) + Len(c)
        BY <3>2, <3>4, Concat
      <4>2. Len(Front(near) \o c) = Len(near)
        BY <3>2, <3>4, <4>1
      <4>3. Front(near) \o c = near
        <5>1. IsPrefix(Front(near) \o c, near) \/ IsPrefix(near, Front(near) \o c)
          BY <1>8, <3>4, <4>1, PrefixesCompare
        <5> QED
          BY <1>8, <4>1, <4>2, <5>1, PrefixLength
      <4> QED
        BY <2>2, <4>3
    <3> QED
      BY <2>2, <3>1, <3>2, <3>3, <3>4 DEF NearestAt
  <2> QED
    BY <2>1, <2>2
<1> QED
  BY <1>7, <1>10

LEMMA UpdateGood ==
    ASSUME NEW s, StoreType(s), NEW path \in Path, NEW value, IsTree(value), <<>> \in DOMAIN value,
           value[<<>>] = "obj"
    PROVE  GoodTarget(s, UpdateNode(s, path, value))
<1>1. PICK at : NearestAt(s, at, path) /\ UpdateNode(s, path, value) = Merge(at, path, value)
  BY UpdateAt
<1>2. at \in Path /\ IsPrefix(at, path) /\ at \in DOMAIN s /\ IsPrefix(at, at)
  BY <1>1, PrefixReflexive DEF NearestAt
<1> QED
  BY <1>1, <1>2, MergeGood

LEMMA SetGood ==
    ASSUME NEW s, StoreType(s), NEW path \in Path, NEW value, IsTree(value), <<>> \in DOMAIN value,
           path = <<>> => value[<<>>] = "obj"
    PROVE  GoodTarget(s, SetNode(s, path, value))
<1>1. CASE path = <<>>
  <2> DEFINE t == [path |-> path, value |-> value, merge |-> FALSE]
  <2>1. SetNode(s, path, value) = t
    BY <1>1 DEF SetNode
  <2>2. <<>> \in DOMAIN s /\ IsPrefix(<<>>, <<>>)
    BY EmptyPath, PrefixReflexive DEF StoreType
  <2>3. t.path = path /\ t.value = value /\ t.merge = FALSE
    OBVIOUS
  <2> HIDE DEF t
  <2>4. GoodTarget(s, t)
    BY <1>1, <2>2, <2>3 DEF GoodTarget
  <2> QED
    BY <2>1, <2>4
<1>2. CASE path # <<>>
  <2> DEFINE key == <<Last(path)>>
             v == Wrapped(key, value)
  <2>1. Front(path) \in Path /\ key \in Path /\ key # <<>>
    BY <1>2, FrontAndLast, ChildPath
  <2>2. SetNode(s, path, value) = UpdateNode(s, Front(path), v)
    BY <1>2 DEF SetNode
  <2> HIDE DEF key
  <2>3. IsTree(v) /\ <<>> \in DOMAIN v /\ v[<<>>] = "obj"
    BY <2>1, WrappedTree
  <2> HIDE DEF v
  <2> QED
    BY <2>1, <2>2, <2>3, UpdateGood
<1> QED
  BY <1>1, <1>2

LEMMA TransactGood ==
    ASSUME NEW s, StoreType(s), NEW path \in Path, NEW value, IsTree(value), <<>> \in DOMAIN value,
           path = <<>> => value[<<>>] = "obj"
    PROVE  GoodTarget(s, SetTransacted(s, path, value))
<1>1. CASE path = <<>> \/ ~Exists(s, path)
  <2>1. SetTransacted(s, path, value) = SetNode(s, path, value)
    BY <1>1 DEF SetTransacted, Exists
  <2> QED
    BY <2>1, SetGood
<1>2. CASE /\ ~ (path = <<>> \/ ~Exists(s, path))
           /\ path # <<>> /\ path \in DOMAIN s /\ Kind(value, <<>>) # "null" /\ ~FitsInline(value)
  <2> DEFINE t == [path |-> path, value |-> value, merge |-> FALSE]
  <2>1. SetTransacted(s, path, value) = t
    BY <1>2 DEF SetTransacted
  <2>2. IsPrefix(path, path) /\ path \in DOMAIN s
    BY <1>2, PrefixReflexive
  <2>3. t.path = path /\ t.value = value /\ t.merge = FALSE /\ value[<<>>] # "null"
    BY <1>2 DEF Kind
  <2> HIDE DEF t
  <2>4. GoodTarget(s, t)
    BY <2>2, <2>3 DEF GoodTarget
  <2> QED
    BY <2>1, <2>4
<1>3. CASE /\ ~ (path = <<>> \/ ~Exists(s, path))
           /\ ~ (path # <<>> /\ path \in DOMAIN s /\ Kind(value, <<>>) # "null" /\ ~FitsInline(value))
  <2>1. SetTransacted(s, path, value) = Merge(Front(path), path, value)
    BY <1>3 DEF SetTransacted
  <2>2. Front(path) \in Path /\ IsPrefix(Front(path), path) /\ Front(path) # path
    BY <1>3, FrontAndLast, FrontNotSame
  <2>3. \E d \in DOMAIN s : IsPrefix(Front(path), d)
    <3>1. CASE path \in DOMAIN s
      BY <2>2, <3>1
    <3>2. CASE path \notin DOMAIN s
      <4>1. Front(path) \in DOMAIN s
        BY <1>3, <3>2 DEF Exists, InParent
      <4> QED
        BY <2>2, <4>1, PrefixReflexive
    <3> QED
      BY <3>1, <3>2
  <2> QED
    BY <2>1, <2>2, <2>3, MergeGood
<1> QED
  BY <1>1, <1>2, <1>3

LEMMA TargetGood ==
    ASSUME NEW s, StoreType(s), NEW r \in Requests
    PROVE  GoodTarget(s, Target(s, r))
<1>1. /\ r.path \in Path /\ IsTree(r.value) /\ <<>> \in DOMAIN r.value
      /\ r.op \in {"set", "update", "transact"}
      /\ r.op = "update" => r.value[<<>>] = "obj"
      /\ r.path = <<>> => r.value[<<>>] = "obj"
  BY RecordStoreAssumption DEF Kind
<1>2. CASE r.op = "set"
  BY <1>1, <1>2, SetGood DEF Target
<1>3. CASE r.op = "update"
  BY <1>1, <1>3, UpdateGood DEF Target
<1>4. CASE r.op = "transact"
  BY <1>1, <1>4, TransactGood DEF Target
<1> QED
  BY <1>1, <1>2, <1>3, <1>4

-----------------------------------------------------------------------------
\* The changes of a write.

\* Of a value everything above what is dedicated is a dedicated object.
LEMMA DedicatedAbove ==
    ASSUME NEW value, IsTree(value), NEW d \in DOMAIN value, NEW q \in Path, IsPrefix(q, d), q # d
    PROVE  q \in Dedicated(value) /\ value[q] = "obj"
<1>1. d \in Path /\ q \in DOMAIN value /\ value[q] = "obj"
  BY TreeAbove
<1> DEFINE e == Rest(d, Len(q))
<1>2. e \in Path /\ q \o e = d
  BY <1>1, PrefixSplits
<1> HIDE DEF e
<1>3. e # <<>>
  BY <1>1, <1>2, EmptyConcat
<1>4. e \in DOMAIN At(value, q)
  BY <1>2, InAt
<1>5. ~FitsInline(At(value, q))
  BY <1>3, <1>4 DEF FitsInline
<1> QED
  BY <1>1, <1>5 DEF Dedicated, Kind

LEMMA DedicatedType ==
    ASSUME NEW t, NEW s, GoodTarget(s, t)
    PROVE  /\ <<>> \in Dedicated(t.value) /\ t.path \in Stores(t)
           /\ \A d \in Dedicated(t.value) : d \in DOMAIN t.value /\ d \in Path
           /\ \A x \in Stores(t) : x \in Path /\ IsPrefix(t.path, x)
           /\ \A d \in Path : t.path \o d \in Stores(t) => d \in Dedicated(t.value)
<1>1. t.path \in Path /\ IsTree(t.value) /\ <<>> \in DOMAIN t.value
  BY DEF GoodTarget
<1>2. \A d \in Dedicated(t.value) : d \in DOMAIN t.value /\ d \in Path
  BY <1>1 DEF Dedicated, IsTree
<1>3. <<>> \in Dedicated(t.value)
  BY <1>1 DEF Dedicated
<1>4. t.path \in Stores(t)
  <2>1. t.path \o <<>> = t.path
    BY <1>1, EmptyConcat
  <2> QED
    BY <1>3, <2>1 DEF Stores
<1>5. ASSUME NEW x \in Stores(t)
      PROVE  x \in Path /\ IsPrefix(t.path, x)
  <2>1. PICK d \in Dedicated(t.value) : x = t.path \o d
    BY DEF Stores
  <2> QED
    BY <1>1, <1>2, <2>1, Concat, Extends
<1>6. ASSUME NEW d \in Path, t.path \o d \in Stores(t)
      PROVE  d \in Dedicated(t.value)
  <2>1. PICK e \in Dedicated(t.value) : t.path \o d = t.path \o e
    BY <1>6 DEF Stores
  <2>2. d = e
    BY <1>1, <1>2, <2>1, Cancel
  <2> QED
    BY <2>2
<1> QED
  BY <1>2, <1>3, <1>4, <1>5, <1>6

LEMMA InChanges ==
    ASSUME NEW s, NEW t
    PROVE  /\ DOMAIN Changes(s, t) = Stores(t) \union UNION {Removed(s, t, q) : q \in Dedicated(t.value)}
           /\ \A p \in DOMAIN Changes(s, t) : Changes(s, t)[p] =
                IF p \in Stores(t) THEN NewRecord(s, t, Rest(p, Len(t.path))) ELSE Null
BY DEF Changes, Stores

\* What is at a record that is stored.
LEMMA StoredRecord ==
    ASSUME NEW s, StoreType(s), NEW t, GoodTarget(s, t), NEW d \in Dedicated(t.value)
    PROVE  /\ t.path \o d \in DOMAIN Changes(s, t)
           /\ Changes(s, t)[t.path \o d] = NewRecord(s, t, d)
           /\ DOMAIN NewRecord(s, t, d) \subseteq Path /\ <<>> \in DOMAIN NewRecord(s, t, d)
           /\ NewRecord(s, t, d)[<<>>] = t.value[d]
<1>1. t.path \in Path /\ IsTree(t.value) /\ d \in Path
  BY DedicatedType DEF GoodTarget
<1>2. t.path \o d \in Stores(t) /\ Rest(t.path \o d, Len(t.path)) = d /\ d \o <<>> = d
  BY <1>1, RestOfConcat, EmptyConcat DEF Stores
<1>3. DOMAIN NewRecord(s, t, d) = {<<>>} \union NewInline(t, d) \union Staying(s, t, d)
  BY DEF NewRecord
<1>4. NewInline(t, d) \subseteq Path
  BY <1>1, InAt DEF NewInline, Children
<1>5. Staying(s, t, d) \subseteq Path
  <2>1. DOMAIN Current(s, t, d) \subseteq Path
    BY DEF Current, HasRecord, StoreType, GoodRecord, Null
  <2> QED
    BY <2>1 DEF Staying, Unmentioned, Children
<1>6. NewRecord(s, t, d)[<<>>] = t.value[d]
  BY <1>2, <1>3 DEF NewRecord
<1> QED
  BY <1>2, <1>3, <1>4, <1>5, <1>6, EmptyPath, InChanges

\* Nothing that is stored is at or below what is removed.
LEMMA StoresAreKept ==
    ASSUME NEW s, StoreType(s), NEW t, GoodTarget(s, t), NEW p \in Path, IsPrefix(t.path, p), p \notin Stores(t),
           NEW x \in Stores(t)
    PROVE  ~IsPrefix(p, x)
<1> SUFFICES ASSUME IsPrefix(p, x) PROVE FALSE
  OBVIOUS
<1>1. t.path \in Path /\ IsTree(t.value)
  BY DEF GoodTarget
<1>2. PICK d \in Dedicated(t.value) : x = t.path \o d
  BY DEF Stores
<1>3. d \in DOMAIN t.value /\ d \in Path
  BY DedicatedType
<1> DEFINE e == Rest(p, Len(t.path))
<1>4. e \in Path /\ t.path \o e = p
  BY <1>1, PrefixSplits
<1> HIDE DEF e
<1>5. IsPrefix(e, d)
  BY <1>1, <1>2, <1>3, <1>4, PrefixBelow
<1>6. e \in Dedicated(t.value)
  <2>1. CASE e = d
    BY <2>1
  <2>2. CASE e # d
    BY <1>1, <1>3, <1>4, <1>5, <2>2, DedicatedAbove
  <2> QED
    BY <2>1, <2>2
<1> QED
  BY <1>4, <1>6 DEF Stores

\* A record that is removed is that of a child of one that is written.
ChildOf(s, t, q, p, c) ==
    /\ c \in Path /\ Len(c) = 1
    /\ p = (t.path \o q) \o c /\ p = t.path \o (q \o c)
    /\ \/ Merging(t, q) /\ c \in DOMAIN t.value
       \/ Merging(t, q) /\ p \in DOMAIN s /\ c \in Staying(s, t, q)
       \/ ~Merging(t, q)

LEMMA RemovedChild ==
    ASSUME NEW s, StoreType(s), NEW t, GoodTarget(s, t), NEW q \in Dedicated(t.value), NEW p \in Removed(s, t, q)
    PROVE  t.path \o q \in DOMAIN s /\ \E c \in Path : ChildOf(s, t, q, p, c)
<1> DEFINE here == t.path \o q
<1>1. t.path \in Path /\ q \in Path /\ here \in Path /\ IsTree(t.value)
  BY DedicatedType, Concat DEF GoodTarget
<1>2. here \in DOMAIN s
  BY DEF Removed, HasRecord
<1>3. \A c \in Path : here \o c = t.path \o (q \o c)
  BY <1>1, Associative
<1>4. ASSUME p \in ChildrenOf(s, here)
      PROVE  /\ Rest(p, Len(here)) \in Path /\ Len(Rest(p, Len(here))) = 1 /\ p = here \o Rest(p, Len(here))
             /\ p \in DOMAIN s
  <2>1. p \in Path /\ Len(p) = Len(here) + 1 /\ IsPrefix(here, p) /\ p \in DOMAIN s
    BY <1>4 DEF ChildrenOf, StoreType
  <2> DEFINE c == Rest(p, Len(here))
  <2>2. c \in Path /\ here \o c = p
    BY <1>1, <2>1, PrefixSplits
  <2> HIDE DEF c, here
  <2>3. Len(here \o c) = Len(here) + Len(c)
    BY <1>1, <2>2, Concat
  <2>4. Len(here) \in Nat /\ Len(c) \in Nat
    BY <1>1, <2>2, PathLength
  <2>5. Len(here) + 1 = Len(here) + Len(c)
    BY <2>1, <2>2, <2>3
  <2>6. Len(c) = 1
    <3>1. \A i, j \in Nat : i + 1 = i + j => j = 1
      OBVIOUS
    <3> QED
      BY <2>4, <2>5, <3>1, Zenon
  <2> QED
    BY <2>1, <2>2, <2>6 DEF c
<1>5. CASE Merging(t, q)
  <2>1. q = <<>>
    BY <1>5 DEF Merging
  <2>2. CASE p \in {here \o c : c \in {c \in Children(t.value) : Kind(t.value, c) = "null"}}
    <3>1. PICK c \in Children(t.value) : p = here \o c
      BY <2>2
    <3>2. c \in Path /\ Len(c) = 1 /\ c \in DOMAIN t.value
      BY <1>1 DEF Children, IsTree
    <3> QED
      BY <1>2, <1>3, <1>5, <3>1, <3>2 DEF ChildOf
  <2>3. CASE p \in ChildrenOf(s, here) /\ Rest(p, Len(here)) \in DOMAIN NewRecord(s, t, q)
    <3> DEFINE c == Rest(p, Len(here))
    <3>1. c \in Path /\ Len(c) = 1 /\ p = here \o c /\ p \in DOMAIN s
      BY <1>4, <2>3
    <3>2. c \in DOMAIN NewRecord(s, t, q)
      BY <2>3
    <3> HIDE DEF c
    <3>3. c # <<>>
      BY <3>1, OneKeyLong
    <3>4. c \in NewInline(t, q) \/ c \in Staying(s, t, q)
      BY <3>2, <3>3 DEF NewRecord
    <3>5. c \in NewInline(t, q) => c \in DOMAIN t.value
      <4>1. <<>> \o c = c
        BY <3>1, EmptyConcat
      <4>2. c \in DOMAIN At(t.value, <<>>) <=> <<>> \o c \in DOMAIN t.value
        BY <1>1, <3>1, EmptyPath, InAt
      <4> QED
        BY <2>1, <4>1, <4>2 DEF NewInline, Children
    <3> QED
      BY <1>2, <1>3, <1>5, <3>1, <3>4, <3>5 DEF ChildOf
  <2> QED
    BY <1>2, <1>5, <2>2, <2>3 DEF Removed, HasRecord
<1>6. CASE ~Merging(t, q)
  <2>1. p \in ChildrenOf(s, here)
    BY <1>2, <1>6 DEF Removed, HasRecord
  <2> QED
    BY <1>2, <1>3, <1>4, <1>6, <2>1 DEF ChildOf
<1> QED
  BY <1>5, <1>6

-----------------------------------------------------------------------------
\* The store after some of the changes.

\* A record that was stored by the changes D, and one that they left alone.
StoredAt(s, t, D, n, x) ==
    /\ x \in D /\ x \in Stores(t)
    /\ \E d \in Dedicated(t.value) : x = t.path \o d /\ n[x] = NewRecord(s, t, d)
LeftAt(s, t, D, n, x) ==
    /\ x \in DOMAIN s /\ x \notin Gone(s, t, D)
    /\ ~ (x \in D /\ x \in Stores(t)) /\ n[x] = s[x]

LEMMA AfterChanges ==
    ASSUME NEW s, StoreType(s), NEW t, GoodTarget(s, t), NEW D \in SUBSET DOMAIN Changes(s, t),
           NEW n, Partly(s, t, D, n), NEW x \in DOMAIN n
    PROVE  StoredAt(s, t, D, n, x) \/ LeftAt(s, t, D, n, x)
<1>1. DOMAIN n = (DOMAIN s \ Gone(s, t, D)) \union (D \intersect Stores(t))
      /\ n[x] = IF x \in D \intersect Stores(t) THEN Changes(s, t)[x] ELSE s[x]
  BY DEF Partly
<1>2. CASE x \in D \intersect Stores(t)
  <2>1. PICK d \in Dedicated(t.value) : x = t.path \o d
    BY <1>2 DEF Stores
  <2>2. n[x] = NewRecord(s, t, d)
    BY <1>1, <1>2, <2>1, StoredRecord
  <2> QED
    BY <1>2, <2>1, <2>2 DEF StoredAt
<1>3. CASE x \notin D \intersect Stores(t)
  BY <1>1, <1>3 DEF LeftAt
<1> QED
  BY <1>2, <1>3

\* The shape of what is removed, for short.
IsRemoved(s, t, p) ==
    /\ p \in DOMAIN Changes(s, t) \ Stores(t)
    /\ p \in Path /\ IsPrefix(t.path, p) /\ p # t.path
    /\ t.merge => \/ \E k \in Written(t) : IsPrefix(k, p)
                  \/ InParent(s, p)

LEMMA KeyOfWrite ==
    ASSUME NEW s, NEW t, GoodTarget(s, t), NEW d \in DOMAIN t.value, d # <<>>, t.merge
    PROVE  \E k \in Written(t) : k \in Path /\ IsPrefix(k, t.path \o d)
<1>1. t.path \in Path /\ IsTree(t.value) /\ d \in Path
  BY DEF GoodTarget, IsTree
<1>2. PICK c \in Path : Len(c) = 1 /\ IsPrefix(c, d)
  BY <1>1, FirstStep
<1>3. c \in DOMAIN t.value
  <2>1. CASE c = d
    BY <2>1
  <2>2. CASE c # d
    BY <1>1, <1>2, <2>2, TreeAbove
  <2> QED
    BY <2>1, <2>2
<1>4. t.path \o c \in Written(t) /\ t.path \o c \in Path /\ IsPrefix(t.path \o c, t.path \o d)
  BY <1>1, <1>2, <1>3, Concat, PrefixBelow DEF Written, Children
<1> QED
  BY <1>4

LEMMA WhatIsRemoved ==
    ASSUME NEW s, StoreType(s), NEW t, GoodTarget(s, t), NEW p \in DOMAIN Changes(s, t) \ Stores(t)
    PROVE  IsRemoved(s, t, p)
<1>1. t.path \in Path /\ IsTree(t.value)
  BY DEF GoodTarget
<1>2. PICK q \in Dedicated(t.value) : p \in Removed(s, t, q)
  <2>1. DOMAIN Changes(s, t) = Stores(t) \union UNION {Removed(s, t, q) : q \in Dedicated(t.value)}
    BY InChanges
  <2> QED
    BY <2>1
<1>3. q \in Path /\ q \in DOMAIN t.value /\ t.path \o q \in Path
  BY <1>1, DedicatedType, Concat
<1> DEFINE here == t.path \o q
<1>4. PICK c \in Path : ChildOf(s, t, q, p, c)
  BY <1>2, RemovedChild
<1>5. /\ Len(c) = 1 /\ p = here \o c /\ p = t.path \o (q \o c)
      /\ \/ Merging(t, q) /\ c \in DOMAIN t.value
         \/ Merging(t, q) /\ p \in DOMAIN s /\ c \in Staying(s, t, q)
         \/ ~Merging(t, q)
  BY <1>4 DEF ChildOf
<1>6. here \in DOMAIN s
  BY <1>2, RemovedChild
<1>7. c \in Path /\ Len(c) = 1 /\ c # <<>>
  <2>1. c \in Path /\ Len(c) = 1
    BY <1>5
  <2>2. <<>> \in Path /\ <<>> \o c # <<>>
    BY <2>1, EmptyPath, ChildPath
  <2>3. <<>> \o c = c
    BY <2>1, EmptyConcat
  <2> QED
    BY <2>1, <2>2, <2>3
<1>8. q \o c \in Path /\ q \o c # <<>> /\ p \in Path /\ Front(p) = here /\ <<Last(p)>> = c /\ p # <<>>
  <2>1. q \o c \in Path /\ q \o c # <<>>
    BY <1>3, <1>5, ChildPath
  <2>2. here \o c \in Path /\ Front(here \o c) = here /\ <<Last(here \o c)>> = c /\ here \o c # <<>>
    <3>1. here \in Path
      BY <1>3
    <3> HIDE DEF here
    <3> QED
      BY <1>7, <3>1, ChildPath
  <2> QED
    BY <1>5, <2>1, <2>2
<1>9. IsPrefix(t.path, p) /\ p # t.path
  <2>1. IsPrefix(t.path, t.path \o (q \o c))
    BY <1>1, <1>8, Extends
  <2>2. t.path \o (q \o c) # t.path
    <3>1. t.path \o <<>> = t.path
      BY <1>1, EmptyConcat
    <3> QED
      BY <1>1, <1>8, <3>1, EmptyPath, Cancel
  <2> QED
    BY <1>5, <2>1, <2>2
<1>10. ASSUME t.merge
      PROVE  (\E k \in Written(t) : IsPrefix(k, p)) \/ InParent(s, p)
  <2>1. CASE q # <<>>
    <3>1. PICK k \in Written(t) : k \in Path /\ IsPrefix(k, here)
      BY <1>3, <1>10, <2>1, KeyOfWrite
    <3>2. IsPrefix(here, p)
      BY <1>3, <1>5, Extends
    <3>3. IsPrefix(k, p)
      BY <1>3, <1>8, <3>1, <3>2, PrefixTransitive
    <3> QED
      BY <3>3
  <2>2. CASE q = <<>>
    <3>1. here = t.path /\ Merging(t, q)
      BY <1>1, <1>10, <2>2, EmptyConcat DEF Merging
    <3>2. CASE c \in DOMAIN t.value
      <4>1. c # <<>>
        BY <1>7
      <4>2. PICK k \in Written(t) : k \in Path /\ IsPrefix(k, t.path \o c)
        BY <1>10, <3>2, <4>1, KeyOfWrite
      <4> QED
        BY <1>5, <3>1, <4>2
    <3>3. CASE p \in DOMAIN s /\ c \in Staying(s, t, q)
      <4>1. c \in DOMAIN s[here]
        BY <1>6, <3>3 DEF Staying, Unmentioned, Children, Current, HasRecord
      <4> QED
        BY <1>6, <1>8, <4>1 DEF InParent
    <3> QED
      BY <1>5, <3>1, <3>2, <3>3
  <2> QED
    BY <2>1, <2>2
<1> QED
  BY <1>8, <1>9, <1>10 DEF IsRemoved

\* What a new record has inline: what is written small, or stays.
LEMMA InNewRecord ==
    ASSUME NEW s, StoreType(s), NEW t, GoodTarget(s, t), NEW d \in Dedicated(t.value),
           NEW c \in DOMAIN NewRecord(s, t, d), c # <<>>
    PROVE  /\ c \in Path /\ Len(c) = 1
           /\ \/ d \o c \in DOMAIN t.value /\ FitsInline(At(t.value, d \o c))
              \/ /\ d = <<>> /\ t.merge /\ d \o c \notin DOMAIN t.value
                 /\ t.path \in DOMAIN s /\ c \in DOMAIN s[t.path]
<1>1. t.path \in Path /\ IsTree(t.value) /\ d \in Path
  BY DedicatedType DEF GoodTarget
<1>2. c \in NewInline(t, d) \/ c \in Staying(s, t, d)
  BY DEF NewRecord
<1>3. CASE c \in NewInline(t, d)
  <2>1. c \in DOMAIN At(t.value, d) /\ Len(c) = 1 /\ FitsInline(At(t.value, d \o c))
    BY <1>3 DEF NewInline, Children
  <2>2. DOMAIN At(t.value, d) \subseteq Path
    BY <1>1, EmptyPath, InAt
  <2>3. c \in Path
    BY <2>1, <2>2
  <2>4. d \o c \in DOMAIN t.value
    BY <1>1, <2>1, <2>3, InAt
  <2> QED
    BY <2>1, <2>3, <2>4
<1>4. CASE c \in Staying(s, t, d)
  <2>1. d = <<>> /\ t.merge /\ c \in Children(Current(s, t, d)) /\ d \o c \notin DOMAIN t.value
    BY <1>4 DEF Staying, Merging, Unmentioned
  <2>2. t.path \o d = t.path
    BY <1>1, <2>1, EmptyConcat
  <2>3. t.path \in DOMAIN s /\ c \in DOMAIN s[t.path] /\ Len(c) = 1
    BY <2>1, <2>2 DEF Children, Current, HasRecord, Null
  <2> QED
    BY <2>1, <2>3 DEF StoreType, GoodRecord
<1> QED
  BY <1>2, <1>3, <1>4

LEMMA NewRecordGood ==
    ASSUME NEW s, StoreType(s), NEW t, GoodTarget(s, t), NEW d \in Dedicated(t.value)
    PROVE  GoodRecord(NewRecord(s, t, d))
<1> DEFINE record == NewRecord(s, t, d)
<1>1. t.path \in Path /\ IsTree(t.value) /\ d \in Path /\ d \in DOMAIN t.value
  BY DedicatedType DEF GoodTarget
<1>2. <<>> \in DOMAIN record /\ record[<<>>] = t.value[d] /\ DOMAIN record \subseteq Path
  BY StoredRecord
<1>3. t.value[d] # "null"
  BY <1>1 DEF Dedicated, GoodTarget, Kind
<1>4. ASSUME NEW c \in DOMAIN record, c # <<>>
      PROVE  Len(c) = 1 /\ record[c] # "null" /\ t.value[d] = "obj"
  <2>1. /\ c \in Path /\ Len(c) = 1
        /\ \/ d \o c \in DOMAIN t.value
           \/ /\ d = <<>> /\ t.merge /\ t.path \in DOMAIN s
    BY <1>4, InNewRecord
  <2>2. t.value[d] = "obj"
    <3>1. IsPrefix(d, d \o c) /\ d # d \o c
      BY <1>1, <2>1, Extends, ChildPath
    <3> QED
      BY <1>1, <2>1, <3>1, TreeAbove DEF GoodTarget
  <2>3. CASE c \in NewInline(t, d)
    <3>1. record[c] = t.value[d \o c]
      BY <2>3 DEF NewRecord
    <3>2. d \o c \in DOMAIN t.value /\ t.value[d \o c] # "null"
      <4>1. c \in DOMAIN At(t.value, d) /\ Kind(t.value, d \o c) # "null"
        BY <2>3 DEF NewInline, Children
      <4> QED
        BY <1>1, <2>1, <4>1, InAt DEF Kind
    <3> QED
      BY <2>1, <2>2, <3>1, <3>2
  <2>4. CASE c \notin NewInline(t, d)
    <3>1. c \in Staying(s, t, d) /\ record[c] = Current(s, t, d)[c]
      BY <1>4, <2>4 DEF NewRecord
    <3>2. c \in DOMAIN Current(s, t, d)
      BY <3>1 DEF Staying, Unmentioned, Children
    <3>3. t.path \o d \in DOMAIN s /\ Current(s, t, d) = s[t.path \o d]
      BY <3>2 DEF Current, HasRecord, Null
    <3>4. GoodRecord(s[t.path \o d])
      BY <3>3 DEF StoreType
    <3> QED
      BY <2>1, <2>2, <3>1, <3>2, <3>3, <3>4 DEF GoodRecord
  <2> QED
    BY <2>3, <2>4
<1> HIDE DEF record
<1> QED
  BY <1>2, <1>3, <1>4, EmptyPath DEF GoodRecord, record

LEMMA TypeAfter ==
    ASSUME NEW s, StoreType(s), NEW t, GoodTarget(s, t), NEW D \in SUBSET DOMAIN Changes(s, t),
           NEW n, Partly(s, t, D, n)
    PROVE  StoreType(n)
<1>1. ASSUME NEW x \in DOMAIN n
      PROVE  x \in Path /\ GoodRecord(n[x])
  <2>1. CASE StoredAt(s, t, D, n, x)
    <3>1. PICK d \in Dedicated(t.value) : n[x] = NewRecord(s, t, d)
      BY <2>1 DEF StoredAt
    <3>2. x \in Path
      BY <2>1, DedicatedType DEF StoredAt
    <3> QED
      BY <3>1, <3>2, NewRecordGood
  <2>2. CASE LeftAt(s, t, D, n, x)
    BY <2>2 DEF StoreType, LeftAt
  <2> QED
    BY <2>1, <2>2, AfterChanges
<1>2. <<>> \in DOMAIN n
  <2>1. <<>> \in DOMAIN s
    BY DEF StoreType
  <2>2. ASSUME NEW p \in D \ Stores(t), IsPrefix(p, <<>>)
        PROVE  FALSE
    <3>1. p \in Path /\ IsPrefix(t.path, p) /\ p # t.path /\ t.path \in Path
      BY WhatIsRemoved DEF IsRemoved, GoodTarget
    <3>2. IsPrefix(<<>>, p) /\ IsPrefix(<<>>, t.path)
      BY <3>1, PrefixReflexive
    <3>3. p = <<>> /\ IsPrefix(p, t.path)
      BY <2>2, <3>1, <3>2, EmptyPath, PrefixAntisymmetric
    <3> QED
      BY <3>1, <3>3, PrefixAntisymmetric
  <2> QED
    BY <2>1, <2>2 DEF Partly, Gone
<1> QED
  BY <1>1, <1>2 DEF StoreType

-----------------------------------------------------------------------------
\* Where a write is, and what it is below.

LEMMA AboveTarget ==
    ASSUME NEW s, NEW T \in SUBSET Path, GoodStore(s, T), NEW t, GoodTarget(s, t),
           NEW q \in Path, IsPrefix(q, t.path), Safe(q, T)
    PROVE  q \in DOMAIN s
<1>1. PICK d \in DOMAIN s : IsPrefix(t.path, d)
  BY DEF GoodTarget
<1>2. d \in Path /\ t.path \in Path
  BY DEF GoodStore, StoreType, GoodTarget
<1>3. IsPrefix(q, d)
  BY <1>1, <1>2, PrefixTransitive
<1> QED
  BY <1>3, LinkedAbove

\* What is above a record that is stored is above the write, or stored too.
LEMMA AboveStored ==
    ASSUME NEW s, NEW t, GoodTarget(s, t), NEW d \in Dedicated(t.value),
           NEW q \in Path, IsPrefix(q, t.path \o d), ~IsPrefix(q, t.path)
    PROVE  \E e \in Dedicated(t.value) : /\ q = t.path \o e /\ e # <<>> /\ IsPrefix(e, d)
                                         /\ e # d => t.value[e] = "obj"
<1>1. t.path \in Path /\ IsTree(t.value) /\ d \in Path /\ d \in DOMAIN t.value
  BY DedicatedType DEF GoodTarget
<1>2. t.path \o d \in Path /\ IsPrefix(t.path, t.path \o d)
  BY <1>1, Concat, Extends
<1>3. IsPrefix(t.path, q)
  BY <1>1, <1>2, PrefixesCompare
<1> DEFINE e == Rest(q, Len(t.path))
<1>4. e \in Path /\ t.path \o e = q
  BY <1>1, <1>3, PrefixSplits
<1> HIDE DEF e
<1>5. e # <<>>
  <2>1. t.path \o <<>> = t.path /\ IsPrefix(t.path, t.path)
    BY <1>1, EmptyConcat, PrefixReflexive
  <2> QED
    BY <1>4, <2>1
<1>6. IsPrefix(e, d)
  BY <1>1, <1>4, PrefixBelow
<1>7. e # d => e \in Dedicated(t.value) /\ t.value[e] = "obj"
  BY <1>1, <1>4, <1>6, DedicatedAbove
<1> QED
  BY <1>4, <1>5, <1>6, <1>7

LEMMA NotGone ==
    ASSUME NEW s, StoreType(s), NEW t, GoodTarget(s, t), NEW D \in SUBSET DOMAIN Changes(s, t),
           NEW q \in Path, IsPrefix(q, t.path)
    PROVE  q \notin Gone(s, t, D)
<1>1. ASSUME NEW p \in D \ Stores(t), IsPrefix(p, q)
      PROVE  FALSE
  <2>1. p \in Path /\ IsPrefix(t.path, p) /\ p # t.path /\ t.path \in Path
    BY WhatIsRemoved DEF IsRemoved, GoodTarget
  <2>2. IsPrefix(p, t.path)
    BY <1>1, <2>1, PrefixTransitive
  <2> QED
    BY <2>1, <2>2, PrefixAntisymmetric
<1> QED
  BY <1>1 DEF Gone

LEMMA WrittenType ==
    ASSUME NEW s, NEW t, GoodTarget(s, t)
    PROVE  Written(t) \in SUBSET Path
<1>1. t.path \in Path /\ IsTree(t.value)
  BY DEF GoodTarget
<1>2. ASSUME NEW c \in Children(t.value)
      PROVE  t.path \o c \in Path
  <2>1. c \in Path
    BY <1>1 DEF Children, IsTree
  <2> QED
    BY <1>1, <2>1, Concat
<1> QED
  BY <1>1, <1>2 DEF Written

-----------------------------------------------------------------------------
\* A write that fails.

LEMMA SafeAndWritten ==
    ASSUME NEW T, NEW K, NEW p
    PROVE  Safe(p, T \union K) <=> Safe(p, T) /\ Safe(p, K)
BY DEF Safe

\* What is not at or below a key of the write is as it was, but for the record
\* of the node into which the keys are merged.
LEMMA Untouched ==
    ASSUME NEW s, NEW T \in SUBSET Path, GoodStore(s, T), NEW t, GoodTarget(s, t),
           NEW D \in SUBSET DOMAIN Changes(s, t), NEW n, Partly(s, t, D, n),
           NEW x \in DOMAIN s, Safe(x, T), Safe(x, Written(t))
    PROVE  /\ x \in DOMAIN n
           /\ n[x] = s[x] \/ (t.merge /\ x = t.path /\ n[x] = NewRecord(s, t, <<>>))
<1>1. StoreType(s) /\ x \in Path /\ t.path \in Path /\ IsTree(t.value)
  BY DEF GoodStore, StoreType, GoodTarget
<1>2. Written(t) \in SUBSET Path
  BY WrittenType
<1>3. ~t.merge => ~IsPrefix(t.path, x)
  BY DEF Safe, Written
<1>4. ASSUME NEW p \in D \ Stores(t), IsPrefix(p, x)
      PROVE  FALSE
  <2>1. p \in Path /\ IsPrefix(t.path, p) /\ (t.merge => (\E k \in Written(t) : IsPrefix(k, p)) \/ InParent(s, p))
    BY <1>1, WhatIsRemoved DEF IsRemoved
  <2>2. CASE ~t.merge
    <3>1. IsPrefix(t.path, x)
      BY <1>1, <1>4, <2>1, PrefixTransitive
    <3> QED
      BY <1>3, <2>2, <3>1
  <2>3. CASE \E k \in Written(t) : IsPrefix(k, p)
    <3>1. PICK k \in Written(t) : IsPrefix(k, p)
      BY <2>3
    <3>2. IsPrefix(k, x)
      BY <1>1, <1>2, <1>4, <2>1, <3>1, PrefixTransitive
    <3> QED
      BY <3>2 DEF Safe
  <2>4. CASE InParent(s, p)
    <3>1. Safe(p, T)
      BY <1>1, <1>4, <2>1, SafeAbove
    <3>2. p \in DOMAIN s
      BY <1>1, <1>4, <2>1, <3>1, LinkedAbove
    <3> QED
      BY <2>4, <3>1, <3>2, SafeRecord
  <2> QED
    BY <2>1, <2>2, <2>3, <2>4
<1>5. x \in DOMAIN n
  BY <1>4 DEF Partly, Gone
<1>6. ASSUME NEW d \in Dedicated(t.value), x = t.path \o d, n[x] = NewRecord(s, t, d)
      PROVE  t.merge /\ x = t.path /\ n[x] = NewRecord(s, t, <<>>)
  <2>1. d \in Path /\ d \in DOMAIN t.value
    BY DedicatedType
  <2>2. t.merge
    BY <1>1, <1>3, <1>6, <2>1, Extends
  <2>3. d = <<>>
    <3>1. ASSUME d # <<>> PROVE FALSE
      <4>1. \E k \in Written(t) : IsPrefix(k, t.path \o d)
        BY <2>1, <2>2, <3>1, KeyOfWrite
      <4> QED
        BY <1>6, <4>1 DEF Safe
    <3> QED
      BY <3>1
  <2> QED
    BY <1>1, <1>6, <2>2, <2>3, EmptyConcat
<1>7. StoredAt(s, t, D, n, x) \/ LeftAt(s, t, D, n, x)
  BY <1>1, <1>5, AfterChanges
<1> QED
  BY <1>5, <1>6, <1>7 DEF StoredAt, LeftAt

LEMMA FailedStore ==
    ASSUME NEW s, NEW T \in SUBSET Path, GoodStore(s, T), NEW t, GoodTarget(s, t),
           NEW D \in SUBSET DOMAIN Changes(s, t), NEW n, Partly(s, t, D, n)
    PROVE  GoodStore(n, T \union Written(t))
<1> DEFINE K == T \union Written(t)
<1>1. StoreType(s) /\ StoreType(n) /\ t.path \in Path /\ IsTree(t.value)
  BY TypeAfter DEF GoodStore, GoodTarget
<1>2. Written(t) \in SUBSET Path /\ K \in SUBSET Path
  BY WrittenType
<1>3. ~t.merge => \A x \in Path : Safe(x, K) => ~IsPrefix(t.path, x)
  BY DEF Safe, Written
<1>4. \A x : Safe(x, K) => Safe(x, T) /\ Safe(x, Written(t))
  BY SafeAndWritten
<1>5. \A p \in DOMAIN n : StoredAt(s, t, D, n, p) \/ LeftAt(s, t, D, n, p)
  BY <1>1, AfterChanges
<1>6. Linked(n, K)
  <2> SUFFICES ASSUME NEW p \in DOMAIN n, NEW q \in Above(p), Safe(q, K)
               PROVE  q \in DOMAIN n
    BY DEF Linked
  <2>1. p \in Path /\ q \in Path /\ IsPrefix(q, p) /\ q # p
    BY <1>1, AboveMeans DEF StoreType
  <2>2. Safe(q, T) /\ Safe(q, Written(t))
    BY <1>4
  <2>3. q \in DOMAIN s
    <3>1. CASE LeftAt(s, t, D, n, p)
      BY <2>1, <2>2, <3>1, LinkedAbove DEF LeftAt
    <3>2. CASE StoredAt(s, t, D, n, p)
      <4>1. PICK d \in Dedicated(t.value) : p = t.path \o d
        BY <3>2 DEF StoredAt
      <4>2. CASE IsPrefix(q, t.path)
        BY <2>1, <2>2, <4>2, AboveTarget
      <4>3. CASE ~IsPrefix(q, t.path)
        <5>1. PICK e \in Dedicated(t.value) : q = t.path \o e /\ e # <<>>
          BY <2>1, <4>1, <4>3, AboveStored
        <5>2. e \in Path /\ e \in DOMAIN t.value
          BY DedicatedType
        <5>3. IsPrefix(t.path, q)
          BY <1>1, <5>1, <5>2, Extends
        <5>4. t.merge
          BY <1>3, <2>1, <5>3
        <5>5. \E k \in Written(t) : IsPrefix(k, q)
          BY <5>1, <5>2, <5>4, KeyOfWrite
        <5> QED
          BY <2>2, <5>5 DEF Safe
      <4> QED
        BY <4>2, <4>3
    <3> QED
      BY <1>5, <3>1, <3>2
  <2> QED
    BY <2>2, <2>3, Untouched
<1>7. OneEach(n, K)
  <2> SUFFICES ASSUME NEW p \in DOMAIN n, Safe(p, K)
               PROVE  (\A q \in Above(p) : Kind(n[q], <<>>) = "obj") /\ ~InParent(n, p)
    BY DEF OneEach
  <2>1. p \in Path /\ Safe(p, T) /\ Safe(p, Written(t))
    BY <1>1, <1>4 DEF StoreType
  <2>2. p \in DOMAIN s
    <3>1. CASE LeftAt(s, t, D, n, p)
      BY <3>1 DEF LeftAt
    <3>2. CASE StoredAt(s, t, D, n, p)
      <4>1. PICK d \in Dedicated(t.value) : p = t.path \o d
        BY <3>2 DEF StoredAt
      <4>2. d \in Path /\ d \in DOMAIN t.value /\ IsPrefix(t.path, p)
        BY <1>1, <4>1, DedicatedType, Extends
      <4>3. t.merge
        BY <1>3, <2>1, <4>2
      <4>4. d = <<>>
        <5>1. ASSUME d # <<>> PROVE FALSE
          <6>1. \E k \in Written(t) : IsPrefix(k, t.path \o d)
            BY <4>2, <4>3, <5>1, KeyOfWrite
          <6> QED
            BY <2>1, <4>1, <6>1 DEF Safe
        <5> QED
          BY <5>1
      <4>5. p = t.path
        BY <1>1, <4>1, <4>4, EmptyConcat
      <4> QED
        BY <1>1, <2>1, <4>5, PrefixReflexive, AboveTarget
    <3> QED
      BY <1>5, <3>1, <3>2
  <2>3. ~InParent(s, p) /\ \A q \in Path : IsPrefix(q, p) /\ q # p =>
                             Safe(q, T) /\ q \in DOMAIN s /\ Kind(s[q], <<>>) = "obj"
    BY <2>1, <2>2, SafeRecord
  <2>4. ASSUME NEW q \in Path, IsPrefix(q, p), q # p
        PROVE  /\ q \in DOMAIN s /\ Kind(s[q], <<>>) = "obj"
               /\ n[q] = s[q] \/ (t.merge /\ q = t.path /\ n[q] = NewRecord(s, t, <<>>))
    <3>1. Safe(q, K)
      BY <1>2, <2>1, <2>4, SafeAbove
    <3>2. q \in DOMAIN s /\ Safe(q, T) /\ Safe(q, Written(t))
      BY <1>4, <2>3, <2>4, <3>1
    <3>3. Kind(s[q], <<>>) = "obj"
      BY <2>3, <2>4
    <3>4. q \in DOMAIN n /\ (n[q] = s[q] \/ (t.merge /\ q = t.path /\ n[q] = NewRecord(s, t, <<>>)))
      BY <3>2, Untouched
    <3> QED
      BY <3>2, <3>3, <3>4
  <2>5. ASSUME NEW q \in Above(p)
        PROVE  Kind(n[q], <<>>) = "obj"
    <3>1. q \in Path /\ IsPrefix(q, p) /\ q # p
      BY <2>1, AboveMeans
    <3>2. CASE n[q] = s[q]
      BY <2>4, <3>1, <3>2
    <3>3. CASE t.merge /\ n[q] = NewRecord(s, t, <<>>)
      <4>1. <<>> \in DOMAIN n[q] /\ n[q][<<>>] = t.value[<<>>]
        BY <1>1, <3>3, DedicatedType, StoredRecord
      <4> QED
        BY <3>3, <4>1 DEF GoodTarget, Kind
    <3> QED
      BY <2>4, <3>1, <3>2, <3>3
  <2>6. ASSUME InParent(n, p)
        PROVE  FALSE
    <3> DEFINE f == Front(p)
               c == <<Last(p)>>
    <3>1. p # <<>> /\ c \in DOMAIN n[f]
      BY <2>6 DEF InParent
    <3>2. f \in Path /\ IsPrefix(f, p) /\ f # p /\ f \o c = p /\ c \in Path /\ Len(c) = 1
      BY <2>1, <3>1, FrontAndLast, FrontNotSame
    <3>3. ~(c \in DOMAIN s[f])
      BY <2>3, <3>1, <3>2 DEF InParent
    <3> HIDE DEF f, c
    <3>4. t.merge /\ f = t.path /\ c \in DOMAIN NewRecord(s, t, <<>>)
      BY <2>4, <3>1, <3>2, <3>3
    <3>5. <<>> \in Dedicated(t.value) /\ c # <<>> /\ <<>> \o c = c
      BY <3>2, DedicatedType, ChildPath, EmptyPath, EmptyConcat
    <3>6. c \in DOMAIN t.value
      <4>1. \/ <<>> \o c \in DOMAIN t.value
            \/ c \in DOMAIN s[t.path]
        BY <1>1, <3>4, <3>5, InNewRecord
      <4> QED
        BY <3>3, <3>4, <3>5, <4>1
    <3>7. p \in Written(t)
      BY <3>2, <3>4, <3>6 DEF Written, Children
    <3> QED
      BY <2>1, <3>7, PrefixReflexive DEF Safe
  <2> QED
    BY <2>5, <2>6
<1> QED
  BY <1>1, <1>6, <1>7 DEF GoodStore

-----------------------------------------------------------------------------
\* A write that is done.

LEMMA DoneStore ==
    ASSUME NEW s, NEW T \in SUBSET Path, GoodStore(s, T), NEW t, GoodTarget(s, t),
           NEW n, Partly(s, t, DOMAIN Changes(s, t), n)
    PROVE  GoodStore(n, T)
<1> DEFINE D == DOMAIN Changes(s, t)
<1>1. StoreType(s) /\ StoreType(n) /\ t.path \in Path /\ IsTree(t.value)
  BY TypeAfter DEF GoodStore, GoodTarget
<1>2. \A p \in DOMAIN n : p \in Path /\ (StoredAt(s, t, D, n, p) \/ LeftAt(s, t, D, n, p))
  BY <1>1, AfterChanges DEF StoreType
<1>3. \A d \in Dedicated(t.value) : /\ d \in Path /\ d \in DOMAIN t.value /\ t.path \o d \in DOMAIN n
                                    /\ n[t.path \o d] = NewRecord(s, t, d)
                                    /\ NewRecord(s, t, d)[<<>>] = t.value[d] /\ <<>> \in DOMAIN NewRecord(s, t, d)
  <2> SUFFICES ASSUME NEW d \in Dedicated(t.value)
               PROVE  /\ d \in Path /\ d \in DOMAIN t.value /\ t.path \o d \in DOMAIN n
                      /\ n[t.path \o d] = NewRecord(s, t, d)
                      /\ NewRecord(s, t, d)[<<>>] = t.value[d] /\ <<>> \in DOMAIN NewRecord(s, t, d)
    OBVIOUS
  <2>1. t.path \o d \in D /\ t.path \o d \in Stores(t)
    BY <1>1, StoredRecord DEF Stores
  <2>2. t.path \o d \in DOMAIN n /\ n[t.path \o d] = Changes(s, t)[t.path \o d]
    BY <2>1 DEF Partly
  <2> QED
    BY <1>1, <2>2, DedicatedType, StoredRecord
\* Records that were left alone below one that was stored.
<1>4. ASSUME NEW p \in DOMAIN s, p \notin Gone(s, t, D), Safe(p, T),
             NEW d \in Dedicated(t.value), IsPrefix(t.path \o d, p), p # t.path \o d
      PROVE  /\ t.value[d] = "obj"
             /\ t.path \o d \in DOMAIN s
             /\ \A c \in Path : Len(c) = 1 /\ p = (t.path \o d) \o c => c \notin DOMAIN NewRecord(s, t, d)
  <2> DEFINE here == t.path \o d
  <2>1. d \in Path /\ here \in Path /\ p \in Path /\ here = t.path \o d
    BY <1>1, <1>3, Concat DEF StoreType
  <2> HIDE DEF here
  <2>2. IsPrefix(here, p) /\ here # p
    BY <1>4 DEF here
  <2>3. here \in DOMAIN s
    BY <1>4, <2>1, <2>2, SafeRecord
  <2>4. ASSUME NEW r \in Removed(s, t, d), r \notin Stores(t), IsPrefix(r, p)
        PROVE  FALSE
    <3>1. D = Stores(t) \union UNION {Removed(s, t, e) : e \in Dedicated(t.value)}
      BY InChanges
    <3> HIDE DEF D
    <3>2. r \in D \ Stores(t)
      BY <2>4, <3>1
    <3> QED
      BY <1>4, <2>4, <3>2 DEF Gone
  <2>5. ASSUME NEW c \in Path, Len(c) = 1, IsPrefix(here \o c, p)
        PROVE  /\ here \o c \in ChildrenOf(s, here) /\ Rest(here \o c, Len(here)) = c
               /\ Rest(here \o c, Len(t.path)) = d \o c
               /\ here \o c \in Stores(t) => d \o c \in Dedicated(t.value)
    <3>1. /\ here \o c \in Path /\ Len(here \o c) = Len(here) + 1 /\ IsPrefix(here, here \o c)
      <4>1. here \o c \in Path /\ Len(here \o c) = Len(here) + Len(c)
        BY <2>1, Concat
      <4> QED
        BY <2>1, <2>5, <4>1, Extends
    <3>2. here \o c \in DOMAIN s
      <4>1. CASE here \o c = p
        BY <4>1
      <4>2. CASE here \o c # p
        BY <1>4, <2>5, <3>1, <4>2, SafeRecord
      <4> QED
        BY <4>1, <4>2
    <3>3. here \o c = t.path \o (d \o c) /\ d \o c \in Path
      <4>1. (t.path \o d) \o c = t.path \o (d \o c)
        <5>1. Regroups(t.path, d, c)
          BY <1>1, <2>1, Regroup
        <5> QED
          BY <5>1 DEF Regroups
      <4> QED
        BY <2>1, <4>1, Concat DEF here
    <3>4. Rest(here \o c, Len(here)) = c /\ Rest(t.path \o (d \o c), Len(t.path)) = d \o c
      BY <1>1, <2>1, <3>3, RestOfConcat
    <3>5. here \o c \in Stores(t) => d \o c \in Dedicated(t.value)
      BY <3>3, DedicatedType
    <3> QED
      BY <3>1, <3>2, <3>3, <3>4, <3>5 DEF ChildrenOf
  <2>6. t.value[d] = "obj"
    <3>1. CASE Merging(t, d)
      BY <3>1 DEF Merging, GoodTarget
    <3>2. CASE ~Merging(t, d)
      <4>1. PICK c \in Path : Len(c) = 1 /\ IsPrefix(here \o c, p)
        BY <2>1, <2>2, NextStep
      <4>2. /\ here \o c \in ChildrenOf(s, here) /\ Rest(here \o c, Len(t.path)) = d \o c
            /\ here \o c \in Stores(t) => d \o c \in Dedicated(t.value)
        BY <2>5, <4>1
      <4>3. d \o c \in DOMAIN t.value
        <5>1. ASSUME d \o c \notin DOMAIN t.value
              PROVE  FALSE
          <6>1. here \o c \in Removed(s, t, d)
            BY <2>3, <3>2, <4>2, <5>1 DEF Removed, HasRecord, here
          <6>2. here \o c \notin Stores(t)
            BY <1>3, <4>2, <5>1
          <6> QED
            BY <2>4, <4>1, <6>1, <6>2
        <5> QED
          BY <5>1
      <4>4. IsPrefix(d, d \o c) /\ d # d \o c
        BY <2>1, <4>1, Extends, ChildPath
      <4> QED
        BY <1>1, <2>1, <4>3, <4>4, TreeAbove
    <3> QED
      BY <3>1, <3>2
  <2>7. ASSUME NEW c \in Path, Len(c) = 1, p = here \o c, c \in DOMAIN NewRecord(s, t, d)
        PROVE  FALSE
    <3>1. IsPrefix(here \o c, p)
      BY <2>1, <2>7, PrefixReflexive
    <3>2. /\ p \in ChildrenOf(s, here) /\ Rest(p, Len(here)) = c
          /\ p \in Stores(t) => d \o c \in Dedicated(t.value)
      BY <2>5, <2>7, <3>1
    <3>3. p \in Removed(s, t, d)
      BY <2>3, <2>7, <3>2 DEF Removed, HasRecord, here
    <3>4. p \notin Stores(t)
      <4>1. c # <<>>
        BY <2>7, ChildPath, EmptyPath
      <4>2. d \o c \notin Dedicated(t.value)
        <5>1. \/ d \o c \in DOMAIN t.value /\ FitsInline(At(t.value, d \o c))
              \/ d \o c \notin DOMAIN t.value
          BY <1>1, <2>7, <4>1, InNewRecord
        <5>2. d \o c # <<>>
          BY <2>1, <2>7, ChildPath
        <5> QED
          BY <5>1, <5>2 DEF Dedicated
      <4> QED
        BY <3>2, <4>2
    <3>5. IsPrefix(p, p)
      BY <2>1, PrefixReflexive
    <3> QED
      BY <2>4, <3>3, <3>4, <3>5
  <2> QED
    BY <2>3, <2>6, <2>7 DEF here
<1>5. Linked(n, T)
  <2> SUFFICES ASSUME NEW p \in DOMAIN n, NEW q \in Above(p), Safe(q, T)
               PROVE  q \in DOMAIN n
    BY DEF Linked
  <2>1. p \in Path /\ q \in Path /\ IsPrefix(q, p) /\ q # p
    BY <1>2, AboveMeans
  <2>2. CASE LeftAt(s, t, D, n, p)
    <3>1. q \in DOMAIN s /\ p \notin Gone(s, t, D) /\ p \in DOMAIN s
      BY <2>1, <2>2, LinkedAbove DEF LeftAt
    <3>2. q \notin Gone(s, t, D)
      <4>1. ASSUME NEW r \in D \ Stores(t), IsPrefix(r, q)
            PROVE  FALSE
        <5>1. r \in Path
          BY <1>1, WhatIsRemoved DEF IsRemoved
        <5>2. IsPrefix(r, p)
          BY <2>1, <4>1, <5>1, PrefixTransitive
        <5> QED
          BY <3>1, <5>2 DEF Gone
      <4> QED
        BY <4>1 DEF Gone
    <3> QED
      BY <3>1, <3>2 DEF Partly
  <2>3. CASE StoredAt(s, t, D, n, p)
    <3>1. PICK d \in Dedicated(t.value) : p = t.path \o d
      BY <2>3 DEF StoredAt
    <3>2. CASE IsPrefix(q, t.path)
      <4>1. q \in DOMAIN s /\ q \notin Gone(s, t, D)
        BY <1>1, <2>1, <3>2, AboveTarget, NotGone
      <4> QED
        BY <4>1 DEF Partly
    <3>3. CASE ~IsPrefix(q, t.path)
      <4>1. \E e \in Dedicated(t.value) : q = t.path \o e
        BY <2>1, <3>1, <3>3, AboveStored
      <4> QED
        BY <1>3, <4>1
    <3> QED
      BY <3>2, <3>3
  <2> QED
    BY <1>2, <2>2, <2>3
<1>6. OneEach(n, T)
  <2> SUFFICES ASSUME NEW p \in DOMAIN n, Safe(p, T)
               PROVE  (\A q \in Above(p) : Kind(n[q], <<>>) = "obj") /\ ~InParent(n, p)
    BY DEF OneEach
  <2>1. p \in Path
    BY <1>2
  <2>2. ASSUME p \in DOMAIN s
        PROVE  ~InParent(s, p) /\ \A q \in Path : IsPrefix(q, p) /\ q # p => q \in DOMAIN s /\ Kind(s[q], <<>>) = "obj"
    BY <2>2, SafeRecord
  <2>3. ASSUME NEW q \in Path, IsPrefix(q, t.path), Safe(t.path, T)
        PROVE  /\ q \in DOMAIN s
               /\ q # t.path => Kind(s[q], <<>>) = "obj"
    <3>1. t.path \in DOMAIN s
      BY <1>1, <2>3, PrefixReflexive, AboveTarget
    <3> QED
      BY <2>3, <3>1, SafeRecord
  <2>4. ASSUME NEW q \in Above(p)
        PROVE  Kind(n[q], <<>>) = "obj"
    <3>1. q \in Path /\ IsPrefix(q, p) /\ q # p /\ Safe(q, T)
      BY <2>1, AboveMeans, SafeAbove
    <3>2. q \in DOMAIN n
      BY <1>5, <3>1 DEF Linked
    <3>3. CASE StoredAt(s, t, D, n, q)
      <4>1. PICK e \in Dedicated(t.value) : q = t.path \o e
        BY <3>3 DEF StoredAt
      <4>2. t.value[e] = "obj"
        <5>1. CASE StoredAt(s, t, D, n, p)
          <6>1. PICK d \in Dedicated(t.value) : p = t.path \o d
            BY <5>1 DEF StoredAt
          <6>2. d \in Path /\ d \in DOMAIN t.value /\ e \in Path
            BY <1>3
          <6>3. IsPrefix(e, d) /\ e # d
            BY <1>1, <3>1, <4>1, <6>1, <6>2, PrefixBelow
          <6> QED
            BY <1>1, <6>2, <6>3, TreeAbove
        <5>2. CASE LeftAt(s, t, D, n, p)
          BY <1>4, <3>1, <4>1, <5>2 DEF LeftAt
        <5> QED
          BY <1>2, <5>1, <5>2
      <4>3. <<>> \in DOMAIN n[q] /\ n[q][<<>>] = t.value[e]
        BY <1>3, <4>1
      <4> QED
        BY <4>2, <4>3 DEF Kind
    <3>4. CASE LeftAt(s, t, D, n, q)
      <4>1. n[q] = s[q] /\ ~ (q \in D /\ q \in Stores(t))
        BY <3>4 DEF LeftAt
      <4>2. Kind(s[q], <<>>) = "obj"
        <5>1. CASE LeftAt(s, t, D, n, p)
          BY <2>2, <3>1, <5>1 DEF LeftAt
        <5>2. CASE StoredAt(s, t, D, n, p)
          <6>1. PICK d \in Dedicated(t.value) : p = t.path \o d
            BY <5>2 DEF StoredAt
          <6>2. q \notin Stores(t)
            BY <4>1, InChanges
          <6>3. IsPrefix(q, t.path)
            <7>1. ASSUME ~IsPrefix(q, t.path)
                PROVE  \E x \in Dedicated(t.value) : q = t.path \o x
              BY <3>1, <6>1, <7>1, AboveStored
            <7> QED
              BY <6>2, <7>1 DEF Stores
          <6>4. q # t.path
            BY <6>2, DedicatedType
          <6>5. Safe(t.path, T)
            <7>1. IsPrefix(t.path, p)
              BY <1>1, <1>3, <6>1, Extends
            <7> QED
              BY <1>1, <2>1, <7>1, SafeAbove
          <6> QED
            BY <2>3, <3>1, <6>3, <6>4, <6>5
        <5> QED
          BY <1>2, <5>1, <5>2
      <4> QED
        BY <4>1, <4>2
    <3> QED
      BY <1>2, <3>2, <3>3, <3>4
  <2>5. ASSUME InParent(n, p)
        PROVE  FALSE
    <3> DEFINE f == Front(p)
               c == <<Last(p)>>
    <3>1. p # <<>> /\ f \in DOMAIN n /\ c \in DOMAIN n[f]
      BY <2>5 DEF InParent
    <3>2. f \in Path /\ IsPrefix(f, p) /\ f # p /\ f \o c = p /\ c \in Path /\ Len(c) = 1 /\ c # <<>>
      BY <2>1, <3>1, FrontAndLast, FrontNotSame
    <3>3. p \in DOMAIN s => f \in DOMAIN s /\ c \notin DOMAIN s[f]
      BY <2>2, <3>1, <3>2 DEF InParent
    <3> HIDE DEF f, c
    <3>4. CASE StoredAt(s, t, D, n, f)
      <4>1. PICK e \in Dedicated(t.value) : f = t.path \o e
        BY <3>4 DEF StoredAt
      <4>2. c \in DOMAIN NewRecord(s, t, e)
        BY <1>3, <3>1, <4>1
      <4>3. CASE LeftAt(s, t, D, n, p)
        BY <1>4, <3>2, <4>1, <4>2, <4>3 DEF LeftAt
      <4>4. CASE StoredAt(s, t, D, n, p)
        <5>1. PICK d \in Dedicated(t.value) : p = t.path \o d
          BY <4>4 DEF StoredAt
        <5>2. e \in Path /\ d \in Path /\ d \in DOMAIN t.value
          BY <1>3
        <5>3. t.path \o (e \o c) = t.path \o d /\ e \o c \in Path
          <6>1. (t.path \o e) \o c = t.path \o (e \o c)
            BY <1>1, <3>2, <5>2, Associative
          <6>2. e \o c \in Path
            BY <3>2, <5>2, Concat
          <6> QED
            BY <3>2, <4>1, <5>1, <6>1, <6>2
        <5>4. d = e \o c
          BY <1>1, <5>2, <5>3, Cancel
        <5>5. d \in DOMAIN t.value /\ FitsInline(At(t.value, d))
          BY <1>1, <3>2, <4>2, <5>2, <5>4, InNewRecord
        <5>6. d # <<>>
          BY <3>2, <5>2, <5>4, ChildPath
        <5> QED
          BY <5>1, <5>5, <5>6 DEF Dedicated
      <4> QED
        BY <1>2, <4>3, <4>4
    <3>5. CASE LeftAt(s, t, D, n, f)
      <4>1. n[f] = s[f] /\ ~ (f \in D /\ f \in Stores(t)) /\ f \in DOMAIN s
        BY <3>5 DEF LeftAt
      <4>2. p \notin DOMAIN s
        BY <3>1, <3>3, <4>1
      <4>3. StoredAt(s, t, D, n, p)
        BY <1>2, <4>2 DEF LeftAt
      <4>4. PICK d \in Dedicated(t.value) : p = t.path \o d
        BY <4>3 DEF StoredAt
      <4>5. f \notin Stores(t)
        BY <4>1, InChanges
      <4>6. IsPrefix(f, t.path)
        <5>1. ASSUME ~IsPrefix(f, t.path)
            PROVE  \E x \in Dedicated(t.value) : f = t.path \o x
          BY <3>2, <4>4, <5>1, AboveStored
        <5> QED
          BY <4>5, <5>1 DEF Stores
      <4>7. f # t.path
        BY <4>5, DedicatedType
      <4>8. p = t.path
        <5>1. p # <<>> /\ f = Front(p)
          BY <3>1 DEF f
        <5>2. IsPrefix(t.path, p)
          BY <1>1, <1>3, <4>4, Extends
        <5>3. t.path = p \/ IsPrefix(t.path, f)
          BY <1>1, <2>1, <5>1, <5>2, PrefixOfFront
        <5> QED
          BY <1>1, <3>2, <4>6, <4>7, <5>3, PrefixAntisymmetric
      <4> QED
        BY <1>1, <2>3, <4>2, <4>8, PrefixReflexive
    <3> QED
      BY <1>2, <3>1, <3>4, <3>5
  <2> QED
    BY <2>4, <2>5
<1> QED
  BY <1>1, <1>5, <1>6 DEF GoodStore

-----------------------------------------------------------------------------
\* One change more.

LEMMA OneMore ==
    ASSUME NEW s, StoreType(s), NEW t, GoodTarget(s, t), NEW D \in SUBSET DOMAIN Changes(s, t),
           NEW n, Partly(s, t, D, n), NEW p \in DOMAIN Changes(s, t)
    PROVE  Partly(s, t, D \union {p}, Changed(n, p, Changes(s, t)[p]))
<1> DEFINE C == Changes(s, t)
           m == Changed(n, p, C[p])
           E == D \union {p}
<1>1. DOMAIN n = (DOMAIN s \ Gone(s, t, D)) \union (D \intersect Stores(t))
      /\ \A x \in DOMAIN n : n[x] = IF x \in D \intersect Stores(t) THEN C[x] ELSE s[x]
  BY DEF Partly
<1>2. CASE p \in Stores(t)
  <2>1. C[p] # Null
    <3>1. PICK d \in Dedicated(t.value) : p = t.path \o d
      BY <1>2 DEF Stores
    <3>2. C[p] = NewRecord(s, t, d) /\ <<>> \in DOMAIN NewRecord(s, t, d)
      BY <3>1, StoredRecord
    <3> QED
      BY <3>2 DEF Null
  <2>2. /\ DOMAIN m = {p} \union DOMAIN n
        /\ \A x \in DOMAIN m : m[x] = IF x = p THEN C[p] ELSE n[x]
    BY <2>1 DEF Changed, Stored
  <2>3. Gone(s, t, E) = Gone(s, t, D)
    BY <1>2 DEF Gone
  <2> HIDE DEF m
  <2>4. Partly(s, t, E, m)
    BY <1>1, <1>2, <2>2, <2>3 DEF Partly
  <2> QED
    BY <2>4 DEF m
<1>3. CASE p \notin Stores(t)
  <2>1. C[p] = Null
    BY <1>3, InChanges
  <2>2. p \in Path /\ IsPrefix(t.path, p)
    BY <1>3, WhatIsRemoved DEF IsRemoved
  <2>3. \A x \in Stores(t) : ~IsPrefix(p, x)
    BY <1>3, <2>2, StoresAreKept
  <2>4. /\ DOMAIN m = {x \in DOMAIN n : ~IsPrefix(p, x)}
        /\ \A x \in DOMAIN m : m[x] = n[x]
    <3>1. m = [x \in DOMAIN n \ ({p} \union DescendantsOf(n, p)) |-> n[x]]
      BY <2>1 DEF Changed
    <3>2. DOMAIN n \ ({p} \union DescendantsOf(n, p)) = {x \in DOMAIN n : ~IsPrefix(p, x)}
      BY <2>2, PrefixReflexive DEF DescendantsOf, IsStrictPrefix
    <3> HIDE DEF m
    <3> QED
      BY <3>1, <3>2
  <2>5. Gone(s, t, E) = Gone(s, t, D) \union {x \in DOMAIN s : IsPrefix(p, x)}
    BY <1>3 DEF Gone
  <2> HIDE DEF m
  <2>6. E \intersect Stores(t) = D \intersect Stores(t)
    BY <1>3
  <2>7. DOMAIN m = (DOMAIN s \ Gone(s, t, E)) \union (E \intersect Stores(t))
    BY <1>1, <2>3, <2>4, <2>5, <2>6
  <2>8. \A x \in DOMAIN m : m[x] = IF x \in E \intersect Stores(t) THEN C[x] ELSE s[x]
    BY <1>1, <2>4, <2>6
  <2>9. Partly(s, t, E, m)
    BY <2>7, <2>8 DEF Partly
  <2> QED
    BY <2>9 DEF m
<1> QED
  BY <1>2, <1>3

LEMMA NoChanges ==
    ASSUME NEW s, NEW t
    PROVE  Partly(s, t, {}, s)
BY DEF Partly, Gone

-----------------------------------------------------------------------------
\* The invariant holds initially, and every step keeps it.

LEMMA InvInit == Init => IInv
<1> SUFFICES ASSUME Init PROVE IInv
  OBVIOUS
<1>1. write = {} /\ torn = {} /\ nodes = [p \in {<<>>} |-> Object]
  BY DEF Init
<1>2. DOMAIN nodes = {<<>>} /\ nodes[<<>>] = Object
  BY <1>1
<1>3. StoreType(nodes)
  BY <1>2, EmptyPath DEF StoreType, GoodRecord, Object
<1>4. Above(<<>>) = {}
  <2>1. ASSUME NEW q \in Above(<<>>) PROVE FALSE
    <3>1. q \in Path /\ IsPrefix(q, <<>>) /\ q # <<>>
      BY EmptyPath, AboveMeans
    <3> QED
      BY <3>1, EmptyPath, PrefixReflexive, PrefixAntisymmetric
  <2> QED
    BY <2>1
<1>5. Linked(nodes, torn) /\ OneEach(nodes, torn)
  BY <1>2, <1>4 DEF Linked, OneEach, InParent
<1> QED
  BY <1>1, <1>3, <1>5 DEF IInv, GoodStore

LEMMA BeginKeeps ==
    ASSUME IInv, NEW r \in Requests, Begin(r)
    PROVE  IInv'
<1> DEFINE t == Target(nodes, r)
           w == [request |-> r, keys |-> Written(t), todo |-> Changes(nodes, t)]
<1>1. write = {} /\ GoodStore(nodes, torn) /\ torn \subseteq Path
  BY DEF Begin, IInv
<1>2. write' = {w} /\ base' = nodes /\ nodes' = nodes /\ torn' = torn
  BY DEF Begin
<1>3. /\ w = [request |-> w.request, keys |-> w.keys, todo |-> w.todo]
      /\ w.request = r /\ w.keys = Written(t) /\ w.todo = Changes(nodes, t)
  OBVIOUS
<1> HIDE DEF w
<1>4. InWrite(w, nodes, nodes)
  <2>1. Partly(nodes, t, {}, nodes)
    BY NoChanges
  <2>2. DOMAIN Changes(nodes, t) \ DOMAIN w.todo = {}
    BY <1>3
  <2>3. t.path \in DOMAIN w.todo
    <3>1. GoodTarget(nodes, t)
      BY <1>1, TargetGood DEF GoodStore
    <3> HIDE DEF t
    <3>2. t.path \in Stores(t)
      BY <3>1, DedicatedType
    <3>3. t.path \in DOMAIN Changes(nodes, t)
      BY <3>2, InChanges
    <3> QED
      BY <1>3, <3>3
  <2>4. w.todo = [p \in DOMAIN w.todo |-> w.todo[p]]
    <3>1. Changes(nodes, t) = [p \in DOMAIN Changes(nodes, t) |-> Changes(nodes, t)[p]]
      BY DEF Changes
    <3> QED
      BY <1>3, <3>1
  <2> QED
    BY <1>3, <2>1, <2>2, <2>3, <2>4 DEF InWrite
<1>5. \A v \in write' : InWrite(v, base', nodes')
  BY <1>2, <1>4
<1> QED
  BY <1>1, <1>2, <1>5 DEF IInv

LEMMA StepKeeps ==
    ASSUME IInv, NEW w \in write, NEW p \in DOMAIN w.todo, Step(w, p)
    PROVE  IInv'
<1> DEFINE t == Target(base, w.request)
           C == Changes(base, t)
           rest == [q \in DOMAIN w.todo \ {p} |-> w.todo[q]]
           v == [w EXCEPT !.todo = rest]
<1>1. torn \subseteq Path /\ InWrite(w, base, nodes) /\ GoodStore(base, torn)
  BY DEF IInv
<1>2. write' = {v} /\ base' = base /\ torn' = torn /\ nodes' = Changed(nodes, p, w.todo[p])
  BY DEF Step
<1>3. /\ w.request \in Requests /\ w.keys = Written(t) /\ DOMAIN w.todo \subseteq DOMAIN C
      /\ \A q \in DOMAIN w.todo : w.todo[q] = C[q]
      /\ Partly(base, t, DOMAIN C \ DOMAIN w.todo, nodes)
  BY <1>1 DEF InWrite
<1>4. GoodTarget(base, t) /\ StoreType(base)
  BY <1>1, <1>3, TargetGood DEF GoodStore
<1>5. Partly(base, t, (DOMAIN C \ DOMAIN w.todo) \union {p}, nodes')
  <2>1. p \in DOMAIN C /\ nodes' = Changed(nodes, p, C[p])
    BY <1>2, <1>3
  <2> HIDE DEF t
  <2>2. (DOMAIN C \ DOMAIN w.todo) \in SUBSET DOMAIN C
    OBVIOUS
  <2> QED
    BY <1>3, <1>4, <2>1, <2>2, OneMore
<1>6. /\ DOMAIN rest = DOMAIN w.todo \ {p} /\ \A q \in DOMAIN rest : rest[q] = C[q]
      /\ rest = [q \in DOMAIN rest |-> rest[q]]
  BY <1>3
<1>7. v.request = w.request /\ v.keys = w.keys /\ v.todo = rest
  <2>1. w = [request |-> w.request, keys |-> w.keys, todo |-> w.todo]
    BY <1>1 DEF InWrite
  <2> HIDE DEF rest
  <2> QED
    BY <2>1
<1>8. DOMAIN C \ DOMAIN rest = (DOMAIN C \ DOMAIN w.todo) \union {p}
  BY <1>3, <1>6
<1>9. v = [request |-> v.request, keys |-> v.keys, todo |-> v.todo]
  BY <1>1 DEF v, InWrite
\* The record that is merged is stored last.
<1>10. t.path \in DOMAIN base => DOMAIN rest = {} \/ t.path \in DOMAIN rest
  <2> SUFFICES ASSUME t.path \in DOMAIN base, NEW x \in DOMAIN rest
               PROVE  t.path \in DOMAIN rest
    OBVIOUS
  <2>1. t.path \in DOMAIN w.todo
    BY <1>1, <1>6 DEF InWrite
  <2>2. x \in DOMAIN C /\ x # p /\ x \in DOMAIN w.todo
    BY <1>3, <1>6
  <2>3. IsPrefix(t.path, x)
    BY <1>4, <2>2, DedicatedType, WhatIsRemoved DEF IsRemoved
  <2>4. p = t.path => ~IsStrictPrefix(p, x)
    BY <2>2 DEF Step
  <2>5. p # t.path
    BY <2>2, <2>3, <2>4 DEF IsStrictPrefix
  <2> QED
    BY <1>6, <2>1, <2>5
<1> HIDE DEF v, rest
<1>11. InWrite(v, base, nodes')
  <2>1. Target(base, v.request) = t
    BY <1>7
  <2>2. v.request \in Requests /\ v.keys = Written(t)
    BY <1>3, <1>7
  <2>3. DOMAIN v.todo \subseteq DOMAIN C /\ \A q \in DOMAIN v.todo : v.todo[q] = C[q]
    BY <1>3, <1>6, <1>7
  <2>4. v.todo = [q \in DOMAIN v.todo |-> v.todo[q]]
    BY <1>6, <1>7
  <2>5. t.path \in DOMAIN base => DOMAIN v.todo = {} \/ t.path \in DOMAIN v.todo
    BY <1>7, <1>10
  <2>6. Partly(base, t, DOMAIN C \ DOMAIN v.todo, nodes')
    BY <1>5, <1>7, <1>8
  <2> HIDE DEF t
  <2> QED
    BY <1>9, <2>1, <2>2, <2>3, <2>4, <2>5, <2>6 DEF InWrite
<1> QED
  BY <1>1, <1>2, <1>11 DEF IInv

LEMMA CommitKeeps ==
    ASSUME IInv, NEW w \in write, Commit(w)
    PROVE  IInv'
<1> DEFINE t == Target(base, w.request)
<1>1. torn \subseteq Path /\ InWrite(w, base, nodes) /\ GoodStore(base, torn)
  BY DEF IInv
<1>2. write' = {} /\ nodes' = nodes /\ base' = base /\ torn' = torn /\ DOMAIN w.todo = {}
  BY DEF Commit
<1>3. w.request \in Requests /\ Partly(base, t, DOMAIN Changes(base, t), nodes)
  BY <1>1, <1>2 DEF InWrite
<1>4. GoodTarget(base, t)
  BY <1>1, <1>3, TargetGood DEF GoodStore
<1> HIDE DEF t
<1>5. GoodStore(nodes, torn)
  BY <1>1, <1>3, <1>4, DoneStore
<1> QED
  BY <1>1, <1>2, <1>5 DEF IInv

LEMMA FailKeeps ==
    ASSUME IInv, NEW w \in write, Fail(w)
    PROVE  IInv'
<1> DEFINE t == Target(base, w.request)
           D == DOMAIN Changes(base, t) \ DOMAIN w.todo
<1>1. torn \subseteq Path /\ InWrite(w, base, nodes) /\ GoodStore(base, torn)
  BY DEF IInv
<1>2. write' = {} /\ nodes' = nodes /\ base' = base /\ torn' = torn \union w.keys
  BY DEF Fail
<1>3. w.request \in Requests /\ w.keys = Written(t) /\ Partly(base, t, D, nodes)
  BY <1>1 DEF InWrite
<1>4. GoodTarget(base, t)
  BY <1>1, <1>3, TargetGood DEF GoodStore
<1>5. D \in SUBSET DOMAIN Changes(base, t)
  OBVIOUS
<1> HIDE DEF t, D
<1>6. GoodStore(nodes, torn \union Written(t)) /\ Written(t) \in SUBSET Path
  BY <1>1, <1>3, <1>4, <1>5, FailedStore, WrittenType
<1> QED
  BY <1>1, <1>2, <1>3, <1>6 DEF IInv

\* The records are those of a good store, or of a good store with a part of
\* the changes of the write that is under way.
THEOREM Invariance == Spec => []IInv
<1>1. Init => IInv
  BY InvInit
<1>2. IInv /\ [Next]_vars => IInv'
  <2> SUFFICES ASSUME IInv, [Next]_vars
               PROVE  IInv'
    OBVIOUS
  <2>1. CASE \E r \in Requests : Begin(r)
    BY <2>1, BeginKeeps
  <2>2. CASE \E w \in write : \E p \in DOMAIN w.todo : Step(w, p)
    BY <2>2, StepKeeps
  <2>3. CASE \E w \in write : Commit(w)
    BY <2>3, CommitKeeps
  <2>4. CASE \E w \in write : Fail(w)
    BY <2>4, FailKeeps
  <2>5. CASE UNCHANGED vars
    BY <2>5 DEF vars, IInv
  <2> QED
    BY <2>1, <2>2, <2>3, <2>4, <2>5 DEF Next
<1> QED
  BY <1>1, <1>2, PTL DEF Spec

\* A node is inline in the record of its parent or has a record of its own,
\* and then its parent has one, of an object: with whatever requests, unless
\* a write that was for it failed (_writeNode of custom storage).
THEOREM NodesHaveOneHome == Spec => []OneHome
<1>1. IInv => OneHome
  <2> SUFFICES ASSUME IInv, write = {}, NEW p \in DOMAIN nodes, Sound(p), p # <<>>
               PROVE  /\ Kind(IF Front(p) \in DOMAIN nodes THEN nodes[Front(p)] ELSE Null, <<>>) = "obj"
                      /\ ~InParent(nodes, p)
    BY DEF OneHome
  <2>1. torn \in SUBSET Path /\ GoodStore(nodes, torn) /\ Safe(p, torn)
    BY DEF IInv, Sound, Safe
  <2>2. p \in Path /\ ~InParent(nodes, p)
        /\ \A q \in Path : IsPrefix(q, p) /\ q # p => q \in DOMAIN nodes /\ Kind(nodes[q], <<>>) = "obj"
    BY <2>1, SafeRecord
  <2>3. Front(p) \in Path /\ IsPrefix(Front(p), p) /\ Front(p) # p
    BY <2>2, FrontAndLast, FrontNotSame
  <2> QED
    BY <2>2, <2>3
<1> QED
  BY <1>1, Invariance, PTL

-----------------------------------------------------------------------------
\* What is read.

\* The nodes that a store has, and their values: with records in one place
\* only, all of a node is read from what is at its path and below.
Known(s, x) == InParent(s, x) \/ \E r \in DOMAIN s : IsPrefix(x, r)
ValueOf(s, x) ==
    IF InParent(s, x) THEN s[Front(x)][<<Last(x)>>]
    ELSE IF x \in DOMAIN s THEN s[x][<<>>] ELSE "obj"
NodeOf(s, p) == [q \in {q \in Path : Known(s, p \o q)} |-> ValueOf(s, p \o q)]

LEMMA ReadRecord ==
    ASSUME NEW s, StoreType(s), NEW p \in DOMAIN s, ~InParent(s, p)
    PROVE  Held(s, p) = NodeOf(s, p)
<1> DEFINE under == DescendantsOf(s, p) \union {p}
           line(r) == {r \o c : c \in Children(s[r])}
           lines == UNION {line(r) : r \in under}
           inline(q) == p \o q \in lines
           rows == {Rest(r, Len(p)) : r \in under}
           inRow(q) == {q \o c : c \in DOMAIN s[p \o q]}
           toRow(q) == {SubSeq(q, 1, n) : n \in 0..Len(q)}
           paths == (UNION {inRow(q) : q \in rows}) \union (UNION {toRow(q) : q \in rows})
           value(q) == CASE q # <<>> /\ inline(q) -> s[Front(p \o q)][<<Last(q)>>]
                         [] ~(q # <<>> /\ inline(q)) /\ q \in rows -> s[p \o q][<<>>]
                         [] OTHER -> "obj"
<1>1. p \in Path /\ p \o <<>> = p
  BY EmptyConcat DEF StoreType
<1>2. \A r : r \in under <=> r \in DOMAIN s /\ r \in Path /\ IsPrefix(p, r)
  BY <1>1, PrefixReflexive DEF DescendantsOf, IsStrictPrefix, StoreType
<1>3. Held(s, p) = [q \in paths |-> value(q)]
  BY DEF Held
<1> HIDE DEF under
<1>4. \A q \in Path : q \in rows <=> p \o q \in DOMAIN s
  <2>1. ASSUME NEW q \in Path, q \in rows
        PROVE  p \o q \in DOMAIN s
    <3>1. PICK r \in under : q = Rest(r, Len(p))
      BY <2>1
    <3>2. r \in DOMAIN s /\ r \in Path /\ IsPrefix(p, r)
      BY <1>2
    <3>3. p \o q = r
      BY <1>1, <3>1, <3>2, PrefixSplits
    <3> QED
      BY <3>2, <3>3
  <2>2. ASSUME NEW q \in Path, p \o q \in DOMAIN s
        PROVE  q \in rows
    <3>1. p \o q \in under
      BY <1>1, <1>2, <2>2, Extends, Concat
    <3>2. Rest(p \o q, Len(p)) = q
      BY <1>1, RestOfConcat
    <3> QED
      BY <3>1, <3>2
  <2> QED
    BY <2>1, <2>2
<1>5. \A q \in rows : q \in Path
  <2>1. \A r \in under : Rest(r, Len(p)) \in Path
    BY <1>1, <1>2, PrefixSplits
  <2> QED
    BY <2>1
<1> HIDE DEF rows
<1>6. ASSUME NEW q \in Path, q # <<>>
      PROVE  inline(q) <=> InParent(s, p \o q)
  <2>1. /\ p \o q \in Path /\ p \o q # <<>> /\ Front(p \o q) = p \o Front(q) /\ Last(p \o q) = Last(q)
        /\ IsPrefix(p, p \o Front(q)) /\ Front(q) \in Path /\ p \o Front(q) \in Path
    BY <1>1, <1>6, FrontOfConcat
  <2>2. ASSUME p \o q \in lines
        PROVE  InParent(s, p \o q)
    <3>1. PICK r \in under : p \o q \in line(r)
      BY <2>2
    <3>2. PICK c \in Children(s[r]) : p \o q = r \o c
      BY <3>1 DEF line
    <3>3. r \in DOMAIN s /\ r \in Path /\ c \in DOMAIN s[r] /\ Len(c) = 1 /\ c \in Path
      BY <1>2 DEF Children, StoreType, GoodRecord
    <3>4. Front(r \o c) = r /\ <<Last(r \o c)>> = c
      BY <3>3, ChildPath
    <3> QED
      BY <2>1, <3>2, <3>3, <3>4 DEF InParent
  <2>3. ASSUME InParent(s, p \o q)
        PROVE  p \o q \in lines
    <3> DEFINE r == Front(p \o q)
               c == <<Last(p \o q)>>
    <3>1. r \in DOMAIN s /\ c \in DOMAIN s[r] /\ r \in under
      BY <1>2, <2>1, <2>3 DEF InParent
    <3>2. Len(c) = 1 /\ r \o c = p \o q
      BY <2>1, FrontAndLast
    <3> HIDE DEF r, c, lines
    <3>3. p \o q \in line(r)
      BY <3>1, <3>2 DEF Children
    <3> HIDE DEF line
    <3> QED
      BY <3>1, <3>3 DEF lines
  <2> QED
    BY <2>2, <2>3
<1> HIDE DEF inline
<1> HIDE DEF inRow, toRow
<1>7. ASSUME NEW q \in paths
      PROVE  q \in Path /\ Known(s, p \o q)
  <2>1. CASE \E a \in rows : q \in inRow(a)
    <3>1. PICK a \in rows : q \in inRow(a)
      BY <2>1
    <3>2. PICK c \in DOMAIN s[p \o a] : q = a \o c
      BY <3>1 DEF inRow
    <3>3. a \in Path /\ p \o a \in DOMAIN s
      BY <1>4, <1>5
    <3>4. c \in Path /\ (c = <<>> \/ Len(c) = 1) /\ q \in Path /\ p \o a \in Path
      BY <3>2, <3>3, Concat DEF StoreType, GoodRecord
    <3>5. (p \o a) \o c = p \o q
      <4>1. Regroups(p, a, c)
        BY <1>1, <3>3, <3>4, Regroup
      <4> QED
        BY <3>2, <4>1 DEF Regroups
    <3>6. CASE c = <<>>
      <4>1. (p \o a) \o c = p \o a
        BY <3>4, <3>6, EmptyConcat
      <4>2. p \o q \in DOMAIN s /\ IsPrefix(p \o q, p \o q)
        BY <3>3, <3>4, <3>5, <4>1, PrefixReflexive
      <4> QED
        BY <3>4, <4>2 DEF Known
    <3>7. CASE Len(c) = 1
      <4> DEFINE g == p \o a
      <4>1. g \in Path /\ g \in DOMAIN s /\ c \in DOMAIN s[g] /\ g \o c = p \o q
        BY <3>2, <3>3, <3>4, <3>5
      <4> HIDE DEF g
      <4>2. g \o c # <<>> /\ Front(g \o c) = g /\ <<Last(g \o c)>> = c
        BY <3>4, <3>7, <4>1, ChildPath
      <4>3. InParent(s, p \o q)
        BY <4>1, <4>2 DEF InParent
      <4> QED
        BY <3>4, <4>3 DEF Known
    <3> QED
      BY <3>4, <3>6, <3>7
  <2>2. CASE \E a \in rows : q \in toRow(a)
    <3>1. PICK a \in rows : q \in toRow(a)
      BY <2>2
    <3>2. PICK n \in 0..Len(a) : q = SubSeq(a, 1, n)
      BY <3>1 DEF toRow
    <3>3. a \in Path /\ p \o a \in DOMAIN s /\ Len(a) \in Nat
      BY <1>4, <1>5, PathLength
    <3>4. n \in Nat /\ n <= Len(a)
      BY <3>3
    <3>5. q \in Path /\ IsPrefix(q, a)
      BY <3>2, <3>3, <3>4, FirstIsPrefix
    <3>6. IsPrefix(p \o q, p \o a)
      BY <1>1, <3>3, <3>5, PrefixBelow
    <3> QED
      BY <3>3, <3>5, <3>6 DEF Known
  <2> QED
    BY <2>1, <2>2
<1>8. ASSUME NEW q \in Path, Known(s, p \o q)
      PROVE  q \in paths
  <2>1. ASSUME NEW r \in DOMAIN s, IsPrefix(p \o q, r)
        PROVE  q \in paths
    <3>1. r \in Path /\ p \o q \in Path /\ IsPrefix(p, p \o q)
      BY <1>1, Concat, Extends DEF StoreType
    <3>2. IsPrefix(p, r)
      BY <1>1, <2>1, <3>1, PrefixTransitive
    <3> DEFINE a == Rest(r, Len(p))
    <3>3. a \in Path /\ p \o a = r
      BY <1>1, <3>1, <3>2, PrefixSplits
    <3> HIDE DEF a
    <3>4. a \in rows /\ IsPrefix(q, a)
      BY <1>1, <1>4, <2>1, <3>3, PrefixBelow
    <3>5. Len(q) \in Nat /\ Len(q) <= Len(a) /\ q = SubSeq(a, 1, Len(q))
      BY <3>3, <3>4, PrefixIsFirst
    <3>6. Len(q) \in 0..Len(a)
      BY <3>3, <3>5, PathLength
    <3>7. q \in toRow(a)
      BY <3>5, <3>6 DEF toRow
    <3> QED
      BY <3>4, <3>7
  <2>2. CASE q = <<>>
    BY <1>1, <2>1, <2>2, PrefixReflexive
  <2>3. CASE q # <<>> /\ InParent(s, p \o q)
    <3>1. /\ p \o q \in Path /\ p \o q # <<>> /\ Front(p \o q) = p \o Front(q) /\ Last(p \o q) = Last(q)
          /\ Front(q) \in Path
      BY <1>1, <2>3, FrontOfConcat
    <3>2. Front(q) \in rows /\ <<Last(q)>> \in DOMAIN s[p \o Front(q)]
      BY <1>4, <2>3, <3>1 DEF InParent
    <3>3. q = Front(q) \o <<Last(q)>>
      BY <2>3, FrontAndLast
    <3>4. q \in inRow(Front(q))
      BY <3>2, <3>3 DEF inRow
    <3> QED
      BY <3>2, <3>4
  <2> QED
    BY <1>8, <2>1, <2>2, <2>3 DEF Known
<1>9. ASSUME NEW q \in Path
      PROVE  value(q) = ValueOf(s, p \o q)
  <2>1. CASE q = <<>>
    <3>1. q \in rows
      BY <1>1, <1>4, <2>1
    <3> QED
      BY <1>1, <2>1, <3>1 DEF ValueOf
  <2>2. CASE q # <<>>
    <3>1. Last(p \o q) = Last(q)
      BY <1>1, <2>2, FrontOfConcat
    <3>2. inline(q) <=> InParent(s, p \o q)
      BY <1>6, <2>2
    <3>3. q \in rows <=> p \o q \in DOMAIN s
      BY <1>4
    <3> QED
      BY <2>2, <3>1, <3>2, <3>3 DEF ValueOf
  <2> QED
    BY <2>1, <2>2
<1> HIDE DEF value, paths
<1>10. paths = {q \in Path : Known(s, p \o q)}
  BY <1>7, <1>8
<1>11. \A q \in paths : value(q) = ValueOf(s, p \o q)
  BY <1>7, <1>9
<1> QED
  BY <1>3, <1>10, <1>11 DEF NodeOf

\* Without a record a node has what the record of its parent has inline.
LEMMA ReadInline ==
    ASSUME NEW s, NEW T \in SUBSET Path, GoodStore(s, T), NEW p \in Path, p \notin DOMAIN s, Safe(p, T)
    PROVE  Held(s, p) = NodeOf(s, p)
<1>1. StoreType(s) /\ <<>> \in DOMAIN s /\ p # <<>> /\ p \o <<>> = p
  BY EmptyConcat DEF GoodStore, StoreType
<1>2. ASSUME NEW r \in DOMAIN s, IsPrefix(p, r) PROVE FALSE
  BY <1>2, LinkedAbove
<1>3. ASSUME NEW q \in Path, Known(s, p \o q)
      PROVE  q = <<>> /\ InParent(s, p)
  <2>1. p \o q \in Path /\ IsPrefix(p, p \o q)
    BY Concat, Extends
  <2>2. ASSUME NEW r \in DOMAIN s, IsPrefix(p \o q, r) PROVE FALSE
    <3>1. r \in Path
      BY <1>1 DEF StoreType
    <3>2. IsPrefix(p, r)
      BY <2>1, <2>2, <3>1, PrefixTransitive
    <3> QED
      BY <1>2, <3>2
  <2>3. InParent(s, p \o q)
    BY <1>3, <2>2 DEF Known
  <2>4. CASE q # <<>>
    <3>1. Front(p \o q) = p \o Front(q) /\ IsPrefix(p, p \o Front(q))
      BY <2>4, FrontOfConcat
    <3> QED
      BY <1>2, <2>3, <3>1 DEF InParent
  <2> QED
    BY <1>1, <2>3, <2>4
<1>4. InParent(s, p) => Known(s, p \o <<>>) /\ <<>> \in Path
  BY <1>1, EmptyPath DEF Known
<1>5. CASE InParent(s, p)
  <2> DEFINE f == Front(p)
             c == <<Last(p)>>
  <2>1. f \in DOMAIN s /\ c \in DOMAIN s[f] /\ c \in Path /\ Len(c) = 1
    BY <1>1, <1>5, FrontAndLast DEF InParent
  <2>2. Held(s, p) = At(s[f], c)
    BY <1>1, <2>1 DEF Held
  <2>3. NodeOf(s, p) = [q \in {<<>>} |-> s[f][c]]
    <3>1. {q \in Path : Known(s, p \o q)} = {<<>>}
      BY <1>3, <1>4, <1>5
    <3>2. ValueOf(s, p \o <<>>) = s[f][c]
      BY <1>1, <1>5 DEF ValueOf
    <3> QED
      BY <3>1, <3>2 DEF NodeOf
  <2> HIDE DEF f, c
  <2> DEFINE v == s[f]
  <2>4. \A d \in DOMAIN v : d \in Path /\ (d = <<>> \/ Len(d) = 1)
    BY <1>1, <2>1 DEF StoreType, GoodRecord
  <2>5. c \in DOMAIN v
    BY <2>1
  <2>6. At(v, c) = [q \in {<<>>} |-> v[c]]
    <3> HIDE DEF v
    <3>1. c \in Path /\ Len(c) = 1 /\ c \o <<>> = c /\ <<>> \in Path /\ DOMAIN v \subseteq Path
      BY <2>1, <2>4, EmptyPath, EmptyConcat
    <3>2. /\ <<>> \in DOMAIN At(v, c) /\ At(v, c)[<<>>] = v[c]
          /\ DOMAIN At(v, c) \subseteq Path
      <4>1. /\ <<>> \in DOMAIN At(v, c) <=> c \o <<>> \in DOMAIN v
            /\ <<>> \in DOMAIN At(v, c) => At(v, c)[<<>>] = v[c \o <<>>]
            /\ DOMAIN At(v, c) \subseteq Path
        BY <3>1, InAnyAt
      <4> QED
        BY <2>5, <3>1, <4>1
    <3>3. ASSUME NEW q \in DOMAIN At(v, c)
          PROVE  q = <<>>
      <4>1. q \in Path /\ c \o q \in DOMAIN v
        BY <3>1, <3>2, <3>3, InAnyAt
      <4>2. c \o q = <<>> \/ Len(c \o q) = 1
        BY <2>4, <4>1
      <4>3. Len(c \o q) = 1 + Len(q) /\ Len(q) \in Nat
        <5>1. Len(c \o q) = Len(c) + Len(q)
          BY <3>1, <4>1, Concat
        <5> QED
          BY <3>1, <4>1, <5>1, PathLength
      <4>4. Len(<<>>) = 0
        BY EmptyPath
      <4>5. Len(q) = 0
        BY <4>2, <4>3, <4>4
      <4> QED
        BY <4>1, <4>5, PathLength
    <3>4. DOMAIN At(v, c) = {<<>>}
      BY <3>2, <3>3
    <3>5. At(v, c) = [q \in DOMAIN At(v, c) |-> At(v, c)[q]]
      BY DEF At
    <3> QED
      BY <3>2, <3>4, <3>5
  <2> QED
    BY <2>2, <2>3, <2>6
<1>6. CASE ~InParent(s, p)
  <2>1. NodeOf(s, p) = Null
    <3>1. {q \in Path : Known(s, p \o q)} = {}
      BY <1>3, <1>6
    <3> QED
      BY <3>1 DEF NodeOf, Null
  <2>2. CASE Front(p) \notin DOMAIN s
    BY <1>1, <2>1, <2>2 DEF Held
  <2>3. CASE Front(p) \in DOMAIN s
    <3> DEFINE v == s[Front(p)]
               c == <<Last(p)>>
    <3>1. Held(s, p) = At(v, c)
      BY <1>1, <2>3 DEF Held
    <3>2. c \notin DOMAIN v /\ c \in Path /\ Len(c) = 1
      BY <1>1, <1>6, <2>3, FrontAndLast DEF InParent
    <3>3. \A d \in DOMAIN v : d \in Path /\ (d = <<>> \/ Len(d) = 1)
      BY <1>1, <2>3 DEF StoreType, GoodRecord
    <3> HIDE DEF v, c
    <3>4. {d \in DOMAIN v : IsPrefix(c, d)} = {}
      <4>1. ASSUME NEW d \in DOMAIN v, IsPrefix(c, d) PROVE FALSE
        <5>1. d \in Path /\ Len(c) <= Len(d) /\ (c = d <=> Len(c) = Len(d))
          BY <3>2, <3>3, <4>1, PrefixLength
        <5>2. Len(<<>>) = 0
          BY EmptyPath
        <5> QED
          BY <3>2, <3>3, <5>1, <5>2
      <4> QED
        BY <4>1
    <3>5. At(v, c) = Null
      BY <3>4 DEF At, Null
    <3> QED
      BY <2>1, <3>1, <3>5
  <2> QED
    BY <2>2, <2>3
<1> QED
  BY <1>5, <1>6

LEMMA NodeOfRoot ==
    ASSUME NEW s, NEW p \in Path
    PROVE  At(NodeOf(s, <<>>), p) = NodeOf(s, p)
<1> DEFINE tree == NodeOf(s, <<>>)
           a == At(tree, p)
<1>1. DOMAIN tree = {x \in Path : Known(s, x)} /\ \A x \in DOMAIN tree : tree[x] = ValueOf(s, x)
  <2>1. \A x \in Path : <<>> \o x = x
    BY EmptyConcat
  <2> QED
    BY <2>1 DEF NodeOf
<1> HIDE DEF tree
<1>2. DOMAIN tree \subseteq Path
  BY <1>1
<1>3. DOMAIN a \subseteq Path
  BY <1>2, EmptyPath, InAnyAt
<1>4. ASSUME NEW q \in Path
      PROVE  /\ q \in DOMAIN a <=> Known(s, p \o q)
             /\ q \in DOMAIN a => a[q] = ValueOf(s, p \o q)
  <2>1. q \in DOMAIN a <=> p \o q \in DOMAIN tree
    BY <1>2, InAnyAt
  <2>2. q \in DOMAIN a => a[q] = tree[p \o q]
    BY <1>2, InAnyAt
  <2>3. p \o q \in Path
    BY Concat
  <2> QED
    BY <1>1, <2>1, <2>2, <2>3
<1>5. a = [q \in DOMAIN a |-> a[q]]
  BY DEF At
<1> HIDE DEF a
<1>6. DOMAIN a = {q \in Path : Known(s, p \o q)}
  BY <1>3, <1>4
<1>7. \A q \in DOMAIN a : a[q] = ValueOf(s, p \o q)
  BY <1>3, <1>4
<1>8. a = NodeOf(s, p)
  BY <1>5, <1>6, <1>7 DEF NodeOf
<1> QED
  BY <1>8 DEF a, tree

\* The rows of a node are merged without an error, unless a write failed below
\* it: none of them is there twice, or below a value that is no object.
LEMMA ReadsFail ==
    ASSUME NEW s, NEW T \in SUBSET Path, GoodStore(s, T), NEW p \in Path, Safe(p, T), ReadFails(s, p)
    PROVE  \E k \in T : IsPrefix(p, k)
<1> SUFFICES ASSUME \A k \in T : ~IsPrefix(p, k)
             PROVE  FALSE
  OBVIOUS
<1>1. ASSUME NEW q \in Path, IsPrefix(p, q)
      PROVE  Safe(q, T)
  <2>1. ASSUME NEW k \in T, IsPrefix(k, q)
        PROVE  FALSE
    <3>1. IsPrefix(p, k) \/ IsPrefix(k, p)
      BY <1>1, <2>1, PrefixesCompare
    <3> QED
      BY <3>1 DEF Safe
  <2> QED
    BY <2>1 DEF Safe
<1>2. PICK r \in DescendantsOf(s, p) \union {p} : Twice(s, p, r) \/ BelowLeaf(s, p, r)
  BY DEF ReadFails
<1>3. r \in DOMAIN s /\ r \in Path /\ IsPrefix(p, r) /\ GoodRecord(s[r])
  BY <1>2, PrefixReflexive DEF ReadFails, DescendantsOf, IsStrictPrefix, GoodStore, StoreType
<1>4. CASE Twice(s, p, r)
  <2>1. PICK c \in Children(s[r]), d \in DOMAIN s : IsPrefix(r \o c, d)
    BY <1>4 DEF Twice
  <2>2. c \in DOMAIN s[r] /\ c \in Path /\ Len(c) = 1 /\ d \in Path
    BY <1>3, <2>1 DEF Children, GoodRecord, GoodStore, StoreType
  <2>3. r \o c \in Path /\ IsPrefix(r, r \o c)
    BY <1>3, <2>2, Extends, Concat
  <2>4. IsPrefix(p, r \o c)
    BY <1>3, <2>3, PrefixTransitive
  <2>5. Safe(r \o c, T)
    BY <1>1, <2>3, <2>4
  <2>6. r \o c \in DOMAIN s
    BY <2>1, <2>3, <2>5, LinkedAbove
  <2>7. ~InParent(s, r \o c)
    BY <2>5, <2>6, SafeRecord
  <2>8. r \o c # <<>> /\ Front(r \o c) = r /\ <<Last(r \o c)>> = c
    BY <1>3, <2>2, ChildPath
  <2> QED
    BY <1>3, <2>2, <2>7, <2>8 DEF InParent
<1>5. CASE BelowLeaf(s, p, r)
  <2>1. PICK d \in DOMAIN s : IsPrefix(r, d) /\ r # d
    BY <1>5 DEF BelowLeaf, DescendantsOf, IsStrictPrefix
  <2>2. d \in Path
    BY DEF GoodStore, StoreType
  <2>3. IsPrefix(p, d)
    BY <1>3, <2>1, <2>2, PrefixTransitive
  <2>4. Kind(s[r], <<>>) = "obj"
    BY <1>1, <1>3, <2>1, <2>2, <2>3, SafeRecord
  <2>5. s[r][<<>>] = "obj"
    BY <1>3, <2>4 DEF Kind, GoodRecord
  <2> QED
    BY <1>5, <2>5 DEF BelowLeaf
<1> QED
  BY <1>2, <1>4, <1>5

\* What is found of a node by itself, and as a part of the root.
LEMMA HeldBelowRoot ==
    ASSUME NEW s, NEW T \in SUBSET Path, GoodStore(s, T), NEW p \in Path, Safe(p, T)
    PROVE  Held(s, p) = At(Held(s, <<>>), p)
<1>1. StoreType(s) /\ <<>> \in DOMAIN s /\ ~InParent(s, <<>>)
  BY DEF GoodStore, StoreType, InParent
<1>2. Held(s, <<>>) = NodeOf(s, <<>>)
  BY <1>1, ReadRecord
<1>3. Held(s, p) = NodeOf(s, p)
  <2>1. CASE p \in DOMAIN s
    <3>1. ~InParent(s, p)
      BY <2>1, SafeRecord
    <3> QED
      BY <1>1, <2>1, <3>1, ReadRecord
  <2>2. CASE p \notin DOMAIN s
    BY <2>2, ReadInline
  <2> QED
    BY <2>1, <2>2
<1> QED
  BY <1>2, <1>3, NodeOfRoot

\* A node reads the same by itself, from its record and those below it or from
\* what the record of its parent has inline, and as a part of the root (getNode
\* of custom storage), unless a write that was for it failed; its read fails
\* only if a write that was for something below it did.
THEOREM NodesReadTheSame == Spec => []ReadsAgree
<1>1. IInv => ReadsAgree
  <2> SUFFICES ASSUME IInv, write = {}, NEW p \in Paths, Sound(p)
               PROVE  /\ ReadFails(nodes, p) => \E k \in torn : IsPrefix(p, k)
                      /\ ~ReadFails(nodes, p) /\ ~ReadFails(nodes, <<>>) =>
                            ReadNode(nodes, p) = At(ReadNode(nodes, <<>>), p)
    BY DEF ReadsAgree
  <2>1. torn \in SUBSET Path /\ GoodStore(nodes, torn) /\ Safe(p, torn) /\ p \in Path
    BY RecordStoreAssumption DEF IInv, Sound, Safe
  <2>2. ReadFails(nodes, p) => \E k \in torn : IsPrefix(p, k)
    BY <2>1, ReadsFail
  <2>3. Held(nodes, p) = At(Held(nodes, <<>>), p)
    BY <2>1, HeldBelowRoot
  <2> QED
    BY <2>2, <2>3 DEF ReadNode
<1> QED
  BY <1>1, Invariance, PTL

-----------------------------------------------------------------------------
\* How a node reads: in a good store it is inline in its parent or has a record.

ReadsAs(s, p) == IF Known(s, p) THEN ValueOf(s, p) ELSE "none"

LEMMA KindRead ==
    ASSUME NEW s, NEW p \in Path
    PROVE  /\ DOMAIN NodeOf(s, <<>>) \subseteq Path
           /\ Kind(NodeOf(s, <<>>), p) = ReadsAs(s, p)
<1>1. \A x \in Path : <<>> \o x = x
  BY EmptyConcat
<1>2. /\ DOMAIN NodeOf(s, <<>>) = {x \in Path : Known(s, <<>> \o x)}
      /\ \A x \in DOMAIN NodeOf(s, <<>>) : NodeOf(s, <<>>)[x] = ValueOf(s, <<>> \o x)
  BY DEF NodeOf
<1>3. p \in DOMAIN NodeOf(s, <<>>) <=> Known(s, p)
  BY <1>1, <1>2
<1>4. p \in DOMAIN NodeOf(s, <<>>) => NodeOf(s, <<>>)[p] = ValueOf(s, p)
  BY <1>1, <1>2
<1> QED
  BY <1>2, <1>3, <1>4 DEF Kind, ReadsAs

LEMMA SafeReads ==
    ASSUME NEW s, NEW T \in SUBSET Path, GoodStore(s, T), NEW p \in Path, Safe(p, T)
    PROVE  /\ p \in DOMAIN s => ~InParent(s, p) /\ ReadsAs(s, p) = s[p][<<>>]
           /\ InParent(s, p) => p \notin DOMAIN s /\ ReadsAs(s, p) = s[Front(p)][<<Last(p)>>]
           /\ p \notin DOMAIN s /\ ~InParent(s, p) => ReadsAs(s, p) = "none"
<1>1. p \in DOMAIN s => ~InParent(s, p) /\ Known(s, p)
  BY SafeRecord, PrefixReflexive DEF Known
<1>2. Known(s, p) => InParent(s, p) \/ p \in DOMAIN s
  <2>1. ASSUME NEW r \in DOMAIN s, IsPrefix(p, r)
        PROVE  p \in DOMAIN s
    BY <2>1, LinkedAbove
  <2> QED
    BY <2>1 DEF Known
<1> QED
  BY <1>1, <1>2 DEF ReadsAs, ValueOf, Known

LEMMA NothingBelow ==
    ASSUME NEW s, NEW T \in SUBSET Path, GoodStore(s, T), NEW p \in Path, p \notin DOMAIN s,
           NEW q \in Path, IsPrefix(p, q), Safe(q, T)
    PROVE  q \notin DOMAIN s /\ (q # p => ReadsAs(s, q) = "none")
<1>1. Safe(p, T)
  BY SafeAbove
<1>2. \A r \in Path : IsPrefix(p, r) => r \notin DOMAIN s
  <2> SUFFICES ASSUME NEW r \in Path, IsPrefix(p, r), r \in DOMAIN s PROVE FALSE
    OBVIOUS
  <2> QED
    BY <1>1, LinkedAbove
<1>3. ASSUME q # p
      PROVE  ~InParent(s, q)
  <2>1. CASE q = <<>>
    BY <2>1 DEF InParent
  <2>2. CASE q # <<>>
    <3>1. Front(q) \in Path /\ IsPrefix(p, Front(q))
      BY <1>3, <2>2, FrontAndLast, PrefixOfFront
    <3> QED
      BY <1>2, <3>1 DEF InParent
  <2> QED
    BY <2>1, <2>2
<1> QED
  BY <1>2, <1>3, SafeReads

\* Nulls are not stored.
LEMMA NoNullRead ==
    ASSUME NEW s, StoreType(s), NEW p \in Path
    PROVE  ReadsAs(s, p) # "null"
<1>1. CASE InParent(s, p)
  BY <1>1 DEF ReadsAs, ValueOf, InParent, StoreType, GoodRecord
<1>2. CASE ~InParent(s, p)
  BY <1>2 DEF ReadsAs, ValueOf, StoreType, GoodRecord
<1> QED
  BY <1>1, <1>2

-----------------------------------------------------------------------------
\* What a write does to a node that it is not for: nothing, whether it is done
\* or not, but that the node into which the keys are merged is an object then.

LEMMA Unwritten ==
    ASSUME NEW s, NEW T \in SUBSET Path, GoodStore(s, T), NEW t, GoodTarget(s, t),
           NEW D \in SUBSET DOMAIN Changes(s, t), NEW n, Partly(s, t, D, n),
           NEW p \in Path, Safe(p, T), Safe(p, Written(t)), p # t.path \/ p \notin D
    PROVE  ReadsAs(n, p) = ReadsAs(s, p)
<1> DEFINE K == T \union Written(t)
<1>1. StoreType(s) /\ StoreType(n) /\ t.path \in Path /\ IsTree(t.value)
  BY TypeAfter DEF GoodStore, GoodTarget
<1>2. K \in SUBSET Path /\ Safe(p, K) /\ GoodStore(n, K)
  BY WrittenType, SafeAndWritten, FailedStore
<1>3. \A x \in DOMAIN n : StoredAt(s, t, D, n, x) \/ LeftAt(s, t, D, n, x)
  BY <1>1, AfterChanges
<1>4. ASSUME NEW x \in Path, Safe(x, K), NEW d \in Dedicated(t.value), x = t.path \o d
      PROVE  x = t.path /\ t.merge
  <2>1. d \in Path /\ d \in DOMAIN t.value
    BY DedicatedType
  <2>2. t.merge
    <3>1. IsPrefix(t.path, x)
      BY <1>1, <1>4, <2>1, Extends
    <3> QED
      BY <1>4, <3>1 DEF Safe, Written
  <2>3. d = <<>>
    <3>1. ASSUME d # <<>> PROVE FALSE
      <4>1. \E k \in Written(t) : IsPrefix(k, t.path \o d)
        BY <2>1, <2>2, <3>1, KeyOfWrite
      <4> QED
        BY <1>4, <4>1 DEF Safe
    <3> QED
      BY <3>1
  <2> QED
    BY <1>1, <1>4, <2>2, <2>3, EmptyConcat
\* Records of nodes that the write is not for.
<1>5. ASSUME NEW x \in Path, Safe(x, K)
      PROVE  /\ x \in DOMAIN s => x \in DOMAIN n
             /\ x \in DOMAIN n /\ (x # t.path \/ x \notin D) => x \in DOMAIN s /\ n[x] = s[x]
             /\ x \in DOMAIN n /\ x = t.path => x \in DOMAIN s
                   /\ (n[x] = s[x] \/ (t.merge /\ n[x] = NewRecord(s, t, <<>>)))
  <2>1. Safe(x, T) /\ Safe(x, Written(t))
    BY <1>5, SafeAndWritten
  <2>2. x \in DOMAIN s => /\ x \in DOMAIN n
                          /\ n[x] = s[x] \/ (t.merge /\ x = t.path /\ n[x] = NewRecord(s, t, <<>>))
    BY <2>1, Untouched
  <2>3. ASSUME x \in DOMAIN n, x # t.path \/ x \notin D
        PROVE  x \in DOMAIN s /\ n[x] = s[x]
    <3>1. ~StoredAt(s, t, D, n, x)
      BY <1>4, <1>5, <2>3 DEF StoredAt
    <3> QED
      BY <1>3, <2>3, <3>1 DEF LeftAt
  <2>4. ASSUME x \in DOMAIN n, x = t.path
        PROVE  x \in DOMAIN s /\ (n[x] = s[x] \/ (t.merge /\ n[x] = NewRecord(s, t, <<>>)))
    <3>1. x \in DOMAIN s
      BY <1>1, <2>1, <2>4, PrefixReflexive, AboveTarget
    <3> QED
      BY <2>2, <3>1
  <2> QED
    BY <2>2, <2>3, <2>4
\* And what they have inline.
<1>6. ASSUME NEW f \in Path, NEW c \in Path, Len(c) = 1, p = f \o c
      PROVE  /\ f \in DOMAIN n /\ c \in DOMAIN n[f] <=> f \in DOMAIN s /\ c \in DOMAIN s[f]
             /\ f \in DOMAIN n /\ c \in DOMAIN n[f] => n[f][c] = s[f][c]
  <2>1. IsPrefix(f, p)
    BY <1>6, Extends
  <2>2. Safe(f, K)
    BY <1>2, <2>1, SafeAbove
  <2>3. CASE f \notin DOMAIN n
    BY <1>5, <2>2, <2>3
  <2>4. CASE f \in DOMAIN n /\ n[f] = s[f]
    BY <1>5, <2>2, <2>4
  <2>5. CASE f \in DOMAIN n /\ n[f] # s[f]
    <3>1. f = t.path /\ f \in DOMAIN s /\ t.merge /\ n[f] = NewRecord(s, t, <<>>)
      BY <1>5, <2>2, <2>5
    <3>2. c \notin DOMAIN t.value
      <4>1. ASSUME c \in DOMAIN t.value PROVE FALSE
        <5>1. p \in Written(t)
          BY <1>6, <3>1, <4>1 DEF Written, Children
        <5> QED
          BY <5>1, PrefixReflexive DEF Safe
      <4> QED
        BY <4>1
    <3>3. c # <<>> /\ <<>> \o c = c /\ t.path \o <<>> = t.path
      BY <1>1, <1>6, ChildPath, EmptyConcat
    <3>4. Current(s, t, <<>>) = s[f]
      BY <3>1, <3>3 DEF Current, HasRecord
    <3>5. c \notin NewInline(t, <<>>)
      <4>1. c \in DOMAIN At(t.value, <<>>) => <<>> \o c \in DOMAIN t.value
        BY <1>1, <1>6, EmptyPath, InAt
      <4> QED
        BY <3>2, <3>3, <4>1 DEF NewInline, Children
    <3>6. c \in Staying(s, t, <<>>) <=> c \in DOMAIN s[f]
      <4>1. c \in DOMAIN s[f] => Kind(s[f], <<>>) = "obj"
        <5>1. GoodRecord(s[f])
          BY <1>1, <3>1 DEF StoreType
        <5> QED
          BY <3>3, <5>1 DEF GoodRecord, Kind
      <4>2. Kind(t.value, <<>>) = "obj"
        BY <3>1 DEF GoodTarget, Kind
      <4>3. c \in DOMAIN s[f] => BothObjects(s, t, <<>>)
        BY <3>4, <4>1, <4>2 DEF BothObjects
      <4> QED
        BY <1>6, <3>1, <3>2, <3>3, <3>4, <4>3 DEF Staying, Unmentioned, Merging, Children
    <3>7. c \in DOMAIN NewRecord(s, t, <<>>) <=> c \in DOMAIN s[f]
      BY <3>3, <3>5, <3>6 DEF NewRecord
    <3>8. c \in DOMAIN NewRecord(s, t, <<>>) => NewRecord(s, t, <<>>)[c] = s[f][c]
      BY <3>3, <3>4, <3>5 DEF NewRecord
    <3> QED
      BY <2>5, <3>1, <3>7, <3>8
  <2> QED
    BY <2>3, <2>4, <2>5
<1>7. /\ InParent(n, p) <=> InParent(s, p)
      /\ InParent(n, p) => n[Front(p)][<<Last(p)>>] = s[Front(p)][<<Last(p)>>]
  <2>1. CASE p = <<>>
    BY <2>1 DEF InParent
  <2>2. CASE p # <<>>
    <3>1. Front(p) \in Path /\ <<Last(p)>> \in Path /\ Len(<<Last(p)>>) = 1 /\ p = Front(p) \o <<Last(p)>>
      BY <2>2, FrontAndLast
    <3>2. /\ Front(p) \in DOMAIN n /\ <<Last(p)>> \in DOMAIN n[Front(p)]
               <=> Front(p) \in DOMAIN s /\ <<Last(p)>> \in DOMAIN s[Front(p)]
          /\ Front(p) \in DOMAIN n /\ <<Last(p)>> \in DOMAIN n[Front(p)] =>
               n[Front(p)][<<Last(p)>>] = s[Front(p)][<<Last(p)>>]
      BY <1>6, <3>1
    <3> QED
      BY <2>2, <3>2 DEF InParent
  <2> QED
    BY <2>1, <2>2
<1>8. /\ p \in DOMAIN n <=> p \in DOMAIN s
      /\ p \in DOMAIN n => n[p] = s[p]
  BY <1>2, <1>5
<1> HIDE DEF K
<1>9. /\ InParent(n, p) => ReadsAs(n, p) = n[Front(p)][<<Last(p)>>]
      /\ p \in DOMAIN n => ReadsAs(n, p) = n[p][<<>>]
      /\ p \notin DOMAIN n /\ ~InParent(n, p) => ReadsAs(n, p) = "none"
  BY <1>2, SafeReads
<1>10. /\ InParent(s, p) => ReadsAs(s, p) = s[Front(p)][<<Last(p)>>]
       /\ p \in DOMAIN s => ReadsAs(s, p) = s[p][<<>>]
       /\ p \notin DOMAIN s /\ ~InParent(s, p) => ReadsAs(s, p) = "none"
  BY SafeReads
<1> QED
  BY <1>7, <1>8, <1>9, <1>10

-----------------------------------------------------------------------------
\* How a node reads that a write, which is done, was for: as the value that was
\* written, without nulls.

Clean(value, d) == IF Kind(value, d) = "null" THEN "none" ELSE Kind(value, d)

\* Nulls are merged into a record, or there is nothing yet where they are.
NullsGone(s, t, T) ==
    \A d \in DOMAIN t.value : t.value[d] = "null" /\ Safe(t.path \o d, T) =>
        (t.merge /\ Len(d) = 1) \/ t.path \o Front(d) \notin DOMAIN s

\* Where a path leaves a set that has its start.
LEMMA LastStep ==
    ASSUME NEW S, <<>> \in S, NEW e \in Path, e \notin S
    PROVE  \E d \in Path : \E c \in Path :
             Len(c) = 1 /\ d \in S /\ d \o c \notin S /\ d \o c \in Path /\ IsPrefix(d \o c, e)
<1> DEFINE First(n) == SubSeq(e, 1, n)
           N == {n \in 0..Len(e) : First(n) \in S}
<1>1. Len(e) \in Nat
  BY PathLength
<1>2. \A n \in 0..Len(e) : First(n) \in Path /\ Len(First(n)) = n /\ IsPrefix(First(n), e)
  BY <1>1, FirstIsPrefix
<1>3. \A q \in Path : IsPrefix(q, e) => q = First(Len(q)) /\ Len(q) \in 0..Len(e)
  BY <1>1, PrefixIsFirst
<1> HIDE DEF First
<1>4. 0 \in N
  <2>1. 0 \in 0..Len(e)
    BY <1>1
  <2>2. First(0) = <<>>
    BY <1>2, <2>1, PathLength
  <2> QED
    BY <2>1, <2>2
<1>5. PICK m \in N : \A i \in N : i <= m
  <2>1. N \in SUBSET (0..Len(e)) /\ N # {}
    BY <1>4
  <2> HIDE DEF N
  <2> QED
    BY <1>1, <2>1, Largest
<1>6. m \in 0..Len(e) /\ First(m) \in S /\ First(m) \in Path /\ IsPrefix(First(m), e) /\ Len(First(m)) = m
  BY <1>2, <1>5
<1>7. PICK c \in Path : Len(c) = 1 /\ IsPrefix(First(m) \o c, e)
  BY <1>6, NextStep
<1>8. First(m) \o c \in Path /\ Len(First(m) \o c) = m + 1
  <2>1. /\ First(m) \o c \in Path
        /\ Len(First(m) \o c) = Len(First(m)) + Len(c)
    <3>1. First(m) \in Path /\ c \in Path
      BY <1>6
    <3> HIDE DEF First
    <3> QED
      BY <3>1, Concat
  <2> QED
    BY <1>6, <1>7, <2>1
<1>9. First(m) \o c = First(m + 1) /\ m + 1 \in 0..Len(e)
  <2>1. /\ First(m) \o c = First(Len(First(m) \o c))
        /\ Len(First(m) \o c) \in 0..Len(e)
    BY <1>3, <1>7, <1>8
  <2> QED
    BY <1>8, <2>1
<1>10. First(m) \o c \notin S
  <2>1. ASSUME First(m + 1) \in S PROVE FALSE
    <3>1. m + 1 \in N
      BY <1>9, <2>1
    <3> QED
      BY <1>1, <1>5, <1>6, <3>1
  <2> QED
    BY <1>9, <2>1
<1> QED
  BY <1>6, <1>7, <1>8, <1>10

LEMMA SameKey ==
    ASSUME NEW c \in Path, NEW k \in Path, Len(c) = 1, Len(k) = 1, NEW p \in Path, IsPrefix(c, p), IsPrefix(k, p)
    PROVE  c = k
BY PrefixesCompare, PrefixLength

\* A key that a write is for.
LEMMA WrittenKey ==
    ASSUME NEW s, NEW t, GoodTarget(s, t), NEW d \in Path, ~Safe(t.path \o d, Written(t))
    PROVE  t.merge => \E k \in DOMAIN t.value : k \in Path /\ Len(k) = 1 /\ IsPrefix(k, d)
<1> SUFFICES ASSUME t.merge PROVE \E k \in DOMAIN t.value : k \in Path /\ Len(k) = 1 /\ IsPrefix(k, d)
  OBVIOUS
<1>1. t.path \in Path /\ IsTree(t.value)
  BY DEF GoodTarget
<1>2. PICK x \in Written(t) : IsPrefix(x, t.path \o d)
  BY DEF Safe
<1>3. PICK k \in Children(t.value) : x = t.path \o k
  BY DEF Written
<1>4. k \in DOMAIN t.value /\ k \in Path /\ Len(k) = 1
  BY <1>1 DEF Children, IsTree
<1> QED
  BY <1>1, <1>2, <1>3, <1>4, PrefixBelow

LEMMA StoredBelow ==
    ASSUME NEW s, NEW T \in SUBSET Path, GoodStore(s, T), NEW t, GoodTarget(s, t), NullsGone(s, t, T),
           NEW n, Partly(s, t, DOMAIN Changes(s, t), n), GoodStore(n, T),
           NEW e \in Path, t.path \o e \in DOMAIN n, Safe(t.path \o e, T), ~Safe(t.path \o e, Written(t))
    PROVE  e \in Dedicated(t.value)
<1> SUFFICES ASSUME e \notin Dedicated(t.value) PROVE FALSE
  OBVIOUS
<1> DEFINE D == DOMAIN Changes(s, t)
           x == t.path \o e
<1>1. StoreType(s) /\ StoreType(n) /\ t.path \in Path /\ IsTree(t.value) /\ <<>> \in Dedicated(t.value) /\ x \in Path
  BY DedicatedType, Concat DEF GoodStore, GoodTarget
<1>2. PICK d \in Path : \E c \in Path :
        Len(c) = 1 /\ d \in Dedicated(t.value) /\ d \o c \notin Dedicated(t.value) /\ d \o c \in Path /\ IsPrefix(d \o c, e)
  BY <1>1, LastStep
<1>3. PICK c \in Path :
        Len(c) = 1 /\ d \in Dedicated(t.value) /\ d \o c \notin Dedicated(t.value) /\ d \o c \in Path /\ IsPrefix(d \o c, e)
  BY <1>2
<1> DEFINE here == t.path \o d
           y == here \o c
<1>4. /\ here \in Path /\ y \in Path /\ y = t.path \o (d \o c) /\ Len(y) = Len(here) + 1
      /\ IsPrefix(here, y) /\ Rest(y, Len(here)) = c /\ Rest(y, Len(t.path)) = d \o c
      /\ Front(y) = here /\ <<Last(y)>> = c /\ y # <<>> /\ c # <<>> /\ d \o c # <<>> /\ Front(d \o c) = d
  <2>1. here \in Path
    BY <1>1, Concat
  <2>2. y = t.path \o (d \o c)
    <3>1. Regroups(t.path, d, c)
      BY <1>1, Regroup
    <3> QED
      BY <3>1 DEF Regroups
  <2>3. Rest(t.path \o (d \o c), Len(t.path)) = d \o c
    BY <1>1, <1>3, RestOfConcat
  <2>4. y # <<>> /\ Front(y) = here /\ <<Last(y)>> = c /\ c # <<>>
    <3> HIDE DEF here
    <3> QED
      BY <1>3, <2>1, ChildPath
  <2>5. y \in Path /\ Len(y) = Len(here) + 1 /\ IsPrefix(here, y) /\ Rest(y, Len(here)) = c
    <3> HIDE DEF here
    <3>1. Len(here \o c) = Len(here) + Len(c)
      BY <2>1, Concat
    <3> QED
      BY <1>3, <2>1, <3>1, Concat, Extends, RestOfConcat
  <2>6. d \o c # <<>> /\ Front(d \o c) = d
    BY <1>3, ChildPath
  <2> QED
    BY <2>1, <2>2, <2>3, <2>4, <2>5, <2>6
<1> HIDE DEF here
<1>5. IsPrefix(y, x)
  <2>1. IsPrefix(t.path \o (d \o c), t.path \o e)
    BY <1>1, <1>3, PrefixBelow
  <2> QED
    BY <1>4, <2>1
<1>6. y \in DOMAIN n /\ ~InParent(n, y) /\ Safe(y, T)
  <2>1. Safe(y, T)
    BY <1>1, <1>4, <1>5, SafeAbove
  <2>2. y \in DOMAIN n
    BY <1>4, <1>5, <2>1, LinkedAbove
  <2> QED
    BY <2>1, <2>2, SafeRecord
<1>7. y \notin Stores(t)
  BY <1>1, <1>3, <1>4, DedicatedType
<1>8. y \in DOMAIN s /\ y \notin Gone(s, t, D)
  <2>1. LeftAt(s, t, D, n, y)
    <3>1. StoredAt(s, t, D, n, y) \/ LeftAt(s, t, D, n, y)
      BY <1>1, <1>6, AfterChanges
    <3> QED
      BY <1>7, <3>1 DEF StoredAt
  <2> QED
    BY <2>1 DEF LeftAt
<1>9. here \in DOMAIN s /\ y \in ChildrenOf(s, here)
  <2>1. here # y
    BY <1>4, FrontNotSame
  <2>2. here \in DOMAIN s
    BY <1>4, <1>6, <1>8, <2>1, SafeRecord
  <2> QED
    BY <1>4, <1>8, <2>2 DEF ChildrenOf
<1>10. y \notin Removed(s, t, d)
  <2> SUFFICES ASSUME y \in Removed(s, t, d) PROVE FALSE
    OBVIOUS
  <2>1. DOMAIN Changes(s, t) = Stores(t) \union UNION {Removed(s, t, q) : q \in Dedicated(t.value)}
    BY InChanges
  <2>2. y \in D \ Stores(t)
    BY <1>3, <1>7, <2>1
  <2>3. IsPrefix(y, y)
    BY <1>4, PrefixReflexive
  <2> QED
    BY <1>8, <2>2, <2>3 DEF Gone
<1>11. HasRecord(s, t, d) /\ here = t.path \o d
  BY <1>9 DEF HasRecord, here
<1>12. CASE d \o c \in DOMAIN t.value /\ t.value[d \o c] = "null"
  <2>1. t.merge /\ Len(d \o c) = 1
    <3>1. Safe(t.path \o (d \o c), T)
      BY <1>4, <1>6
    <3>2. t.path \o Front(d \o c) \in DOMAIN s
      BY <1>4, <1>9, <1>11
    <3> QED
      BY <1>12, <3>1, <3>2 DEF NullsGone
  <2>2. d = <<>>
    <3>1. Len(d \o c) = Len(d) + Len(c) /\ Len(d) \in Nat
      BY <1>3, Concat, PathLength
    <3>2. Len(d) = 0
      BY <1>3, <2>1, <3>1
    <3> QED
      BY <3>2, PathLength
  <2>3. d \o c = c
    BY <2>2, EmptyConcat
  <2>4. Merging(t, d) /\ c \in Children(t.value) /\ Kind(t.value, c) = "null"
    BY <1>3, <1>12, <2>1, <2>2, <2>3 DEF Merging, Children, Kind
  <2>5. y \in {(t.path \o d) \o k : k \in {k \in Children(t.value) : Kind(t.value, k) = "null"}}
    BY <1>11, <2>4
  <2>6. y \in Removed(s, t, d)
    BY <1>11, <2>4, <2>5 DEF Removed
  <2> QED
    BY <1>10, <2>6
<1>13. CASE d \o c \in DOMAIN t.value /\ t.value[d \o c] # "null"
  <2>1. FitsInline(At(t.value, d \o c))
    BY <1>3, <1>4, <1>13 DEF Dedicated, Kind
  <2>2. c \in NewInline(t, d)
    <3>1. c \in DOMAIN At(t.value, d)
      BY <1>1, <1>13, InAt
    <3> QED
      BY <1>3, <1>13, <2>1, <3>1 DEF NewInline, Children, Kind
  <2>3. here \in DOMAIN n /\ n[here] = NewRecord(s, t, d)
    <3>1. here \in D /\ here \in Stores(t) /\ Changes(s, t)[here] = NewRecord(s, t, d)
      BY <1>1, <1>3, <1>11, StoredRecord DEF Stores
    <3> QED
      BY <3>1 DEF Partly
  <2>4. c \in DOMAIN n[here]
    BY <2>2, <2>3 DEF NewRecord
  <2>5. InParent(n, y)
    BY <1>4, <2>3, <2>4 DEF InParent
  <2> QED
    BY <1>6, <2>5
<1>14. CASE d \o c \notin DOMAIN t.value
  <2>1. CASE ~Merging(t, d)
    <3>1. y \in {p \in ChildrenOf(s, t.path \o d) : Rest(p, Len(t.path)) \notin DOMAIN t.value}
      BY <1>4, <1>9, <1>11, <1>14
    <3>2. y \in Removed(s, t, d)
      BY <1>11, <2>1, <3>1 DEF Removed
    <3> QED
      BY <1>10, <3>2
  <2>2. CASE Merging(t, d)
    <3>1. t.merge /\ d = <<>> /\ d \o c = c
      BY <2>2, EmptyConcat DEF Merging
    <3>2. PICK k \in DOMAIN t.value : k \in Path /\ Len(k) = 1 /\ IsPrefix(k, e)
      BY <3>1, WrittenKey
    <3>3. k = c
      BY <1>3, <3>1, <3>2, SameKey
    <3> QED
      BY <1>14, <3>1, <3>2, <3>3
  <2> QED
    BY <2>1, <2>2
<1> QED
  BY <1>12, <1>13, <1>14

LEMMA WrittenReads ==
    ASSUME NEW s, NEW T \in SUBSET Path, GoodStore(s, T), NEW t, GoodTarget(s, t), NullsGone(s, t, T),
           NEW n, Partly(s, t, DOMAIN Changes(s, t), n),
           NEW d \in Path, Safe(t.path \o d, T), ~Safe(t.path \o d, Written(t))
    PROVE  ReadsAs(n, t.path \o d) = Clean(t.value, d)
<1> DEFINE D == DOMAIN Changes(s, t)
           p == t.path \o d
<1>1. StoreType(s) /\ t.path \in Path /\ IsTree(t.value) /\ GoodStore(n, T) /\ <<>> \in Dedicated(t.value)
  BY DoneStore, DedicatedType DEF GoodStore, GoodTarget
<1>2. p \in Path
  BY <1>1, Concat
<1>3. \A e \in Dedicated(t.value) : t.path \o e \in DOMAIN n /\ n[t.path \o e] = NewRecord(s, t, e)
  <2> SUFFICES ASSUME NEW e \in Dedicated(t.value)
               PROVE  t.path \o e \in DOMAIN n /\ n[t.path \o e] = NewRecord(s, t, e)
    OBVIOUS
  <2>1. t.path \o e \in D /\ t.path \o e \in Stores(t) /\ Changes(s, t)[t.path \o e] = NewRecord(s, t, e)
    BY <1>1, StoredRecord DEF Stores
  <2> QED
    BY <2>1 DEF Partly
<1>4. /\ p \in DOMAIN n => ReadsAs(n, p) = n[p][<<>>]
      /\ InParent(n, p) => ReadsAs(n, p) = n[Front(p)][<<Last(p)>>]
      /\ p \notin DOMAIN n /\ ~InParent(n, p) => ReadsAs(n, p) = "none"
  BY <1>1, <1>2, SafeReads
<1>5. CASE d \in Dedicated(t.value)
  <2>1. d \in DOMAIN t.value /\ t.value[d] # "null"
    BY <1>5, DedicatedType DEF Dedicated, GoodTarget, Kind
  <2>2. NewRecord(s, t, d)[<<>>] = t.value[d]
    BY <1>1, <1>5, StoredRecord
  <2> QED
    BY <1>3, <1>4, <1>5, <2>1, <2>2 DEF Clean, Kind
<1>6. CASE d \notin Dedicated(t.value)
  <2> DEFINE f == t.path \o Front(d)
             c == <<Last(d)>>
  <2>1. d # <<>> /\ p \notin DOMAIN n
    BY <1>1, <1>6, StoredBelow
  <2>2. /\ p # <<>> /\ Front(p) = f /\ <<Last(p)>> = c /\ f \in Path /\ Front(d) \in Path /\ c \in Path /\ Len(c) = 1
        /\ Front(d) \o c = d /\ IsPrefix(Front(d), d) /\ Front(d) # d /\ IsPrefix(f, p)
    <3>1. p # <<>> /\ Front(p) = f /\ Last(p) = Last(d) /\ f \in Path /\ Front(d) \in Path
      BY <1>1, <2>1, FrontOfConcat
    <3>2. c \in Path /\ Len(c) = 1 /\ Front(d) \o c = d /\ IsPrefix(Front(d), d) /\ Front(d) # d
      BY <2>1, FrontAndLast, FrontNotSame
    <3>3. IsPrefix(f, p)
      BY <1>1, <3>1, <3>2, PrefixBelow
    <3> QED
      BY <3>1, <3>2, <3>3
  <2> HIDE DEF c
  <2>3. CASE d \in DOMAIN t.value /\ t.value[d] # "null"
    <3>1. FitsInline(At(t.value, d))
      BY <1>6, <2>3 DEF Dedicated, Kind
    <3>2. Front(d) \in Dedicated(t.value)
      BY <1>1, <2>2, <2>3, DedicatedAbove
    <3>3. c \in NewInline(t, Front(d))
      <4>1. c \in DOMAIN At(t.value, Front(d))
        BY <1>1, <2>2, <2>3, InAt
      <4> QED
        BY <2>2, <2>3, <3>1, <4>1 DEF NewInline, Children, Kind
    <3>4. c \in DOMAIN NewRecord(s, t, Front(d)) /\ NewRecord(s, t, Front(d))[c] = t.value[d]
      BY <2>2, <3>3 DEF NewRecord
    <3>5. f \in DOMAIN n /\ n[f] = NewRecord(s, t, Front(d))
      BY <1>3, <3>2
    <3> HIDE DEF f, p
    <3>6. InParent(n, p)
      BY <2>2, <3>4, <3>5 DEF InParent
    <3>7. ReadsAs(n, p) = t.value[d]
      BY <1>4, <2>2, <3>4, <3>5, <3>6
    <3> QED
      BY <2>3, <3>7 DEF Clean, Kind, p
  <2>4. CASE ~ (d \in DOMAIN t.value /\ t.value[d] # "null")
    <3>1. ASSUME InParent(n, p) PROVE FALSE
      <4>1. f \in DOMAIN n /\ c \in DOMAIN n[f]
        BY <2>2, <3>1 DEF InParent
      <4>2. Front(d) \in Dedicated(t.value)
        <5>1. CASE Front(d) = <<>>
          BY <1>1, <5>1
        <5>2. CASE Front(d) # <<>>
          <6>1. Safe(f, T)
            BY <1>2, <2>2, SafeAbove
          <6>2. CASE ~t.merge
            <7>1. t.path \in Written(t) /\ IsPrefix(t.path, f)
              BY <1>1, <2>2, <6>2, Extends DEF Written
            <7>2. ~Safe(f, Written(t))
              BY <7>1 DEF Safe
            <7> QED
              BY <1>1, <2>2, <4>1, <6>1, <7>2, StoredBelow
          <6>3. CASE t.merge
            <7>1. PICK k \in DOMAIN t.value : k \in Path /\ Len(k) = 1 /\ IsPrefix(k, d)
              BY <6>3, WrittenKey
            <7>2. IsPrefix(k, Front(d))
              <8>1. ASSUME k = d PROVE FALSE
                <9>1. Len(Front(d)) + 1 = Len(d) /\ Len(Front(d)) \in Nat
                  BY <2>1, FrontAndLast, PathLength
                <9>2. Len(Front(d)) = 0
                  <10>1. \A i \in Nat : i + 1 = 1 => i = 0
                    OBVIOUS
                  <10> QED
                    BY <7>1, <8>1, <9>1, <10>1
                <9> QED
                  BY <2>2, <5>2, <9>2, PathLength
              <8> QED
                BY <2>1, <7>1, <8>1, PrefixOfFront
            <7>3. t.path \o k \in Written(t) /\ IsPrefix(t.path \o k, f)
              BY <1>1, <2>2, <6>3, <7>1, <7>2, PrefixBelow DEF Written, Children
            <7>4. ~Safe(f, Written(t))
              BY <7>3 DEF Safe
            <7> QED
              BY <1>1, <2>2, <4>1, <6>1, <7>4, StoredBelow
          <6> QED
            BY <6>2, <6>3
        <5> QED
          BY <5>1, <5>2
      <4>3. c \in DOMAIN NewRecord(s, t, Front(d)) /\ c # <<>>
        BY <1>3, <2>2, <4>1, <4>2, EmptyPath
      <4>4. CASE d \notin DOMAIN t.value
        <5>1. Front(d) = <<>> /\ t.merge
          <6>1. \/ Front(d) \o c \in DOMAIN t.value
                \/ Front(d) = <<>> /\ t.merge
            BY <1>1, <4>2, <4>3, InNewRecord
          <6> QED
            BY <2>2, <4>4, <6>1
        <5>2. d = c
          BY <2>2, <5>1, EmptyConcat
        <5>3. PICK k \in DOMAIN t.value : k \in Path /\ Len(k) = 1 /\ IsPrefix(k, d)
          BY <5>1, WrittenKey
        <5>4. k = d
          BY <2>2, <5>2, <5>3, PrefixReflexive, SameKey
        <5> QED
          BY <4>4, <5>3, <5>4
      <4>5. CASE d \in DOMAIN t.value /\ t.value[d] = "null"
        <5>1. c \notin NewInline(t, Front(d))
          BY <2>2, <4>5 DEF NewInline, Kind
        <5>2. c \notin Staying(s, t, Front(d))
          BY <2>2, <4>5 DEF Staying, Unmentioned
        <5> QED
          BY <4>3, <5>1, <5>2 DEF NewRecord
      <4> QED
        BY <2>4, <4>4, <4>5
    <3> QED
      BY <1>4, <2>1, <2>4, <3>1 DEF Clean, Kind
  <2> QED
    BY <2>3, <2>4
<1> QED
  BY <1>5, <1>6

-----------------------------------------------------------------------------
\* What a request writes.

\* The value that a tree has at p, if any.
ValueAt(tree, p) == {tree[q] : q \in DOMAIN tree \intersect {p}}

LEMMA ValueAtMeans ==
    ASSUME NEW tree, NEW p
    PROVE  ValueAt(tree, p) = IF p \in DOMAIN tree THEN {tree[p]} ELSE {}
BY DEF ValueAt

\* What is at q when the value is put at path, below objects.
PutAt(value, path, q) ==
    IF q \in Above(path) THEN {"obj"}
    ELSE IF IsPrefix(path, q) THEN ValueAt(value, Rest(q, Len(path))) ELSE {}

LEMMA WrappedValue ==
    ASSUME NEW trail \in Path, NEW value, DOMAIN value \subseteq Path, NEW q \in Path
    PROVE  /\ DOMAIN Wrapped(trail, value) \subseteq Path
           /\ ValueAt(Wrapped(trail, value), q) = PutAt(value, trail, q)
<1> DEFINE v == Wrapped(trail, value)
<1>1. /\ DOMAIN v = Above(trail) \union {trail \o d : d \in DOMAIN value}
      /\ \A x \in DOMAIN v : v[x] = IF x \in Above(trail) THEN "obj" ELSE value[Rest(x, Len(trail))]
  BY DEF Wrapped, Above
<1> HIDE DEF v
<1>2. DOMAIN v \subseteq Path
  BY <1>1, Concat, AboveMeans
<1>3. CASE q \in Above(trail)
  BY <1>1, <1>2, <1>3, ValueAtMeans DEF PutAt, v
<1>4. CASE q \notin Above(trail) /\ IsPrefix(trail, q)
  <2> DEFINE d == Rest(q, Len(trail))
  <2>1. d \in Path /\ trail \o d = q
    BY <1>4, PrefixSplits
  <2>2. q \in DOMAIN v <=> d \in DOMAIN value
    <3>1. ASSUME NEW e \in DOMAIN value, q = trail \o e
          PROVE  d = e
      BY <2>1, <3>1, Cancel
    <3> HIDE DEF d
    <3> QED
      BY <1>1, <1>4, <2>1, <3>1
  <2>3. q \in DOMAIN v => v[q] = value[d]
    BY <1>1, <1>4
  <2>4. PutAt(value, trail, q) = ValueAt(value, d)
    BY <1>4 DEF PutAt
  <2> HIDE DEF d
  <2> QED
    BY <1>2, <2>2, <2>3, <2>4, ValueAtMeans DEF v
<1>5. CASE q \notin Above(trail) /\ ~IsPrefix(trail, q)
  <2>1. q \notin DOMAIN v
    BY <1>1, <1>5, Extends
  <2> QED
    BY <1>2, <1>5, <2>1, ValueAtMeans DEF PutAt, v
<1> QED
  BY <1>2, <1>3, <1>4, <1>5 DEF v

\* A value put below p is found there as if p were the root.
PutsBelow(value, p, trail, d) == PutAt(value, p \o trail, p \o d) = PutAt(value, trail, d)

LEMMA PutBelow ==
    ASSUME NEW value, NEW p \in Path, NEW trail \in Path, NEW d \in Path
    PROVE  PutsBelow(value, p, trail, d)
<1>1. p \o trail \in Path /\ p \o d \in Path
  BY Concat
<1>2. IsPrefix(p \o trail, p \o d) <=> IsPrefix(trail, d)
  BY PrefixBelow
<1>3. p \o d \in Above(p \o trail) <=> d \in Above(trail)
  <2>1. IsPrefix(p \o d, p \o trail) <=> IsPrefix(d, trail)
    BY PrefixBelow
  <2>2. p \o d = p \o trail <=> d = trail
    BY Cancel
  <2> QED
    BY <1>1, <2>1, <2>2, AboveMeans
<1>4. ASSUME IsPrefix(trail, d)
      PROVE  Rest(p \o d, Len(p \o trail)) = Rest(d, Len(trail))
  <2> DEFINE e == Rest(d, Len(trail))
  <2>1. e \in Path /\ trail \o e = d
    BY <1>4, PrefixSplits
  <2> HIDE DEF e
  <2>2. p \o d = (p \o trail) \o e
    <3>1. Regroups(p, trail, e)
      BY <2>1, Regroup
    <3> QED
      BY <2>1, <3>1 DEF Regroups
  <2>3. Rest(p \o d, Len(p \o trail)) = e
    <3> DEFINE a == p \o trail
    <3>1. a \in Path /\ p \o d = a \o e
      BY <1>1, <2>2
    <3> HIDE DEF a
    <3>2. Rest(a \o e, Len(a)) = e
      BY <2>1, <3>1, RestOfConcat
    <3> QED
      BY <3>1, <3>2 DEF a
  <2> QED
    BY <2>3 DEF e
<1> QED
  BY <1>2, <1>3, <1>4 DEF PutAt, PutsBelow

LEMMA PutTwice ==
    ASSUME NEW a \in Path, NEW b \in Path, NEW value, DOMAIN value \subseteq Path, NEW q \in Path
    PROVE  PutAt(Wrapped(b, value), a, q) = PutAt(value, a \o b, q)
<1>1. a \o b \in Path /\ IsPrefix(a, a \o b)
  BY Concat, Extends
<1>2. CASE IsPrefix(a, q)
  <2> DEFINE e == Rest(q, Len(a))
  <2>1. e \in Path /\ a \o e = q
    BY <1>2, PrefixSplits
  <2>2. q \notin Above(a)
    BY <1>2, AboveMeans, PrefixAntisymmetric
  <2>3. PutAt(Wrapped(b, value), a, q) = ValueAt(Wrapped(b, value), e)
    BY <1>2, <2>2 DEF PutAt
  <2> HIDE DEF e
  <2>4. ValueAt(Wrapped(b, value), e) = PutAt(value, b, e)
    BY <2>1, WrappedValue
  <2>5. PutAt(value, a \o b, a \o e) = PutAt(value, b, e)
    <3>1. PutsBelow(value, a, b, e)
      BY <2>1, PutBelow
    <3> QED
      BY <3>1 DEF PutsBelow
  <2> QED
    BY <2>1, <2>3, <2>4, <2>5
<1>3. CASE ~IsPrefix(a, q)
  <2>1. ~IsPrefix(a \o b, q)
    BY <1>1, <1>3, PrefixTransitive
  <2>2. q \in Above(a) <=> q \in Above(a \o b)
    <3>1. q \in Above(a) => IsPrefix(q, a \o b) /\ q # a \o b
      BY <1>1, <1>3, AboveMeans, PrefixTransitive
    <3>2. IsPrefix(q, a \o b) => IsPrefix(q, a)
      BY <1>1, <1>3, PrefixesCompare
    <3> QED
      BY <1>1, <1>3, <3>1, <3>2, AboveMeans, PrefixReflexive
  <2> QED
    BY <1>3, <2>1, <2>2 DEF PutAt
<1> QED
  BY <1>2, <1>3

\* The shape of a write for a request: it writes the value of the request, at
\* its path or at a record above, below which there is no record yet on the way.
Shape(s, t, r) ==
    /\ t.path \in Path /\ IsPrefix(t.path, r.path)
    /\ \A d \in Path : ValueAt(t.value, d) = PutAt(r.value, r.path, t.path \o d)
    /\ ~t.merge => t.path = r.path /\ r.op # "update"
    /\ t.merge /\ t.path = r.path => r.op = "update"
    /\ \A c \in Path : Len(c) = 1 /\ IsPrefix(t.path \o c, r.path) =>
         (t.path \o c = r.path /\ r.op # "update") \/ t.path \o c \notin DOMAIN s

\* A value that is put at a path below the one of the write.
LEMMA MergeShape ==
    ASSUME NEW at \in Path, NEW path \in Path, IsPrefix(at, path), NEW value, DOMAIN value \subseteq Path, NEW d \in Path
    PROVE  ValueAt(Merge(at, path, value).value, d) = PutAt(value, path, at \o d)
<1> DEFINE trail == Rest(path, Len(at))
<1>1. trail \in Path /\ at \o trail = path
  BY PrefixSplits
<1>2. Merge(at, path, value).value = Wrapped(trail, value)
  BY DEF Merge
<1> HIDE DEF trail
<1>3. ValueAt(Wrapped(trail, value), d) = PutAt(value, trail, d)
  BY <1>1, WrappedValue
<1>4. PutAt(value, at \o trail, at \o d) = PutAt(value, trail, d)
  <2>1. PutsBelow(value, at, trail, d)
    BY <1>1, PutBelow
  <2> QED
    BY <2>1 DEF PutsBelow
<1> QED
  BY <1>1, <1>2, <1>3, <1>4

LEMMA UpdateShape ==
    ASSUME NEW s, StoreType(s), NEW r \in Requests, r.op = "update"
    PROVE  Shape(s, UpdateNode(s, r.path, r.value), r)
<1> DEFINE t == UpdateNode(s, r.path, r.value)
<1>1. r.path \in Path /\ DOMAIN r.value \subseteq Path
  BY RecordStoreAssumption DEF IsTree
<1>2. PICK at : NearestAt(s, at, r.path) /\ t = Merge(at, r.path, r.value)
  BY <1>1, UpdateAt
<1> HIDE DEF t
<1>3. /\ at \in Path /\ IsPrefix(at, r.path)
      /\ \A c \in Path : Len(c) = 1 /\ IsPrefix(at \o c, r.path) => at \o c \notin DOMAIN s
  BY <1>2 DEF NearestAt
<1>4. t.path = at /\ t.merge = TRUE
  BY <1>2 DEF Merge
<1>5. \A d \in Path : ValueAt(t.value, d) = PutAt(r.value, r.path, t.path \o d)
  BY <1>1, <1>2, <1>3, <1>4, MergeShape
<1>6. Shape(s, t, r)
  BY <1>3, <1>4, <1>5 DEF Shape
<1> QED
  BY <1>6 DEF t

LEMMA SetShape ==
    ASSUME NEW s, StoreType(s), NEW r \in Requests, r.op # "update"
    PROVE  Shape(s, SetNode(s, r.path, r.value), r)
<1> DEFINE t == SetNode(s, r.path, r.value)
<1>1. r.path \in Path /\ DOMAIN r.value \subseteq Path
  BY RecordStoreAssumption DEF IsTree
<1>2. CASE r.path = <<>>
  <2>1. t = [path |-> r.path, value |-> r.value, merge |-> FALSE]
    BY <1>2 DEF SetNode
  <2>2. t.path = r.path /\ t.value = r.value /\ t.merge = FALSE
    BY <2>1
  <2> HIDE DEF t
  <2>3. IsPrefix(r.path, r.path)
    BY <1>1, PrefixReflexive
  <2>4. ASSUME NEW d \in Path
        PROVE  ValueAt(t.value, d) = PutAt(r.value, r.path, t.path \o d)
    <3>1. t.path \o d = d /\ r.path \o d = d /\ IsPrefix(r.path, d)
      BY <1>2, <2>2, EmptyConcat, PrefixReflexive
    <3>2. d \notin Above(r.path)
      BY <1>1, <3>1, AboveMeans, PrefixAntisymmetric
    <3>3. Rest(r.path \o d, Len(r.path)) = d
      BY <1>1, RestOfConcat
    <3> QED
      BY <2>2, <3>1, <3>2, <3>3 DEF PutAt
  <2>5. ASSUME NEW c \in Path, Len(c) = 1, IsPrefix(t.path \o c, r.path)
        PROVE  FALSE
    <3>1. t.path \o c = c /\ IsPrefix(<<>>, c) /\ c # <<>>
      BY <1>2, <2>2, <2>5, EmptyConcat, PrefixReflexive, PathLength
    <3> QED
      BY <1>2, <2>5, <3>1, EmptyPath, PrefixAntisymmetric
  <2>6. Shape(s, t, r)
    BY <1>1, <2>2, <2>3, <2>4, <2>5 DEF Shape
  <2> QED
    BY <2>6 DEF t
<1>3. CASE r.path # <<>>
  <2> DEFINE f == Front(r.path)
             c == <<Last(r.path)>>
             v == Wrapped(c, r.value)
  <2>1. /\ f \in Path /\ c \in Path /\ Len(c) = 1 /\ f \o c = r.path /\ IsPrefix(f, r.path) /\ f # r.path
    BY <1>1, <1>3, FrontAndLast, FrontNotSame
  <2>2. t = UpdateNode(s, f, v)
    BY <1>3 DEF SetNode
  <2>3. \A q \in Path : IsPrefix(q, r.path) => q = r.path \/ IsPrefix(q, f)
    BY <1>1, <1>3, PrefixOfFront
  <2> HIDE DEF f, c, t
  <2>4. DOMAIN v \subseteq Path
    BY <1>1, <2>1, WrappedValue
  <2>5. \A q \in Path : PutAt(v, f, q) = PutAt(r.value, r.path, q)
    <3>1. \A q \in Path : PutAt(Wrapped(c, r.value), f, q) = PutAt(r.value, f \o c, q)
      <4> DEFINE value == r.value
      <4>1. DOMAIN value \subseteq Path
        BY <1>1
      <4> HIDE DEF value
      <4>2. \A x \in Path, y \in Path, q \in Path : PutAt(Wrapped(y, value), x, q) = PutAt(value, x \o y, q)
        BY <4>1, PutTwice
      <4> QED
        BY <2>1, <4>2 DEF value
    <3> QED
      BY <2>1, <3>1
  <2> HIDE DEF v
  <2>6. PICK at : NearestAt(s, at, f) /\ t = Merge(at, f, v)
    BY <2>1, <2>2, UpdateAt
  <2>7. /\ at \in Path /\ IsPrefix(at, f)
        /\ \A k \in Path : Len(k) = 1 /\ IsPrefix(at \o k, f) => at \o k \notin DOMAIN s
    BY <2>6 DEF NearestAt
  <2>8. t.path = at /\ t.merge = TRUE
    BY <2>6 DEF Merge
  <2>9. ASSUME NEW d \in Path
        PROVE  ValueAt(t.value, d) = PutAt(r.value, r.path, t.path \o d)
    <3>1. ValueAt(t.value, d) = PutAt(v, f, at \o d)
      BY <2>1, <2>4, <2>6, <2>7, MergeShape
    <3>2. at \o d \in Path
      BY <2>7, Concat
    <3> QED
      BY <2>5, <2>8, <3>1, <3>2
  <2>10. IsPrefix(at, r.path) /\ at # r.path
    BY <1>1, <2>1, <2>7, PrefixTransitive, PrefixAntisymmetric
  <2>11. ASSUME NEW k \in Path, Len(k) = 1, IsPrefix(at \o k, r.path)
         PROVE  at \o k = r.path \/ at \o k \notin DOMAIN s
    BY <2>3, <2>7, <2>11, Concat
  <2>12. Shape(s, t, r)
    BY <2>7, <2>8, <2>9, <2>10, <2>11 DEF Shape
  <2> QED
    BY <2>12 DEF t
<1> QED
  BY <1>2, <1>3

LEMMA TransactShape ==
    ASSUME NEW s, StoreType(s), NEW r \in Requests, r.op # "update"
    PROVE  Shape(s, SetTransacted(s, r.path, r.value), r)
<1> DEFINE t == SetTransacted(s, r.path, r.value)
<1>1. r.path \in Path /\ DOMAIN r.value \subseteq Path
  BY RecordStoreAssumption DEF IsTree
<1>2. CASE r.path = <<>> \/ ~Exists(s, r.path)
  <2>1. t = SetNode(s, r.path, r.value)
    BY <1>2 DEF SetTransacted, Exists
  <2> QED
    BY <2>1, SetShape
<1>3. CASE /\ ~ (r.path = <<>> \/ ~Exists(s, r.path))
           /\ r.path \in DOMAIN s /\ Kind(r.value, <<>>) # "null" /\ ~FitsInline(r.value)
  <2>1. t = [path |-> r.path, value |-> r.value, merge |-> FALSE]
    BY <1>3 DEF SetTransacted
  <2>2. t.path = r.path /\ t.value = r.value /\ t.merge = FALSE
    BY <2>1
  <2> HIDE DEF t
  <2>3. IsPrefix(r.path, r.path) /\ r.path \o <<>> = r.path
    BY <1>1, PrefixReflexive, EmptyConcat
  <2>4. ASSUME NEW d \in Path
        PROVE  ValueAt(t.value, d) = PutAt(r.value, r.path, t.path \o d)
    <3>1. IsPrefix(r.path, r.path \o d) /\ Rest(r.path \o d, Len(r.path)) = d /\ r.path \o d \in Path
      BY <1>1, Extends, RestOfConcat, Concat
    <3>2. r.path \o d \notin Above(r.path)
      BY <1>1, <3>1, AboveMeans, PrefixAntisymmetric
    <3> QED
      BY <2>2, <3>1, <3>2 DEF PutAt
  <2>5. ASSUME NEW c \in Path, Len(c) = 1, IsPrefix(t.path \o c, r.path)
        PROVE  FALSE
    <3>1. r.path \o c \in Path /\ r.path \o c # r.path /\ IsPrefix(r.path, r.path \o c)
      BY <1>1, <2>5, ChildPath, Extends
    <3> QED
      BY <1>1, <2>2, <2>5, <3>1, PrefixAntisymmetric
  <2>6. Shape(s, t, r)
    BY <1>1, <2>2, <2>3, <2>4, <2>5 DEF Shape
  <2> QED
    BY <2>6 DEF t
<1>4. CASE /\ ~ (r.path = <<>> \/ ~Exists(s, r.path))
           /\ ~ (r.path \in DOMAIN s /\ Kind(r.value, <<>>) # "null" /\ ~FitsInline(r.value))
  <2> DEFINE f == Front(r.path)
  <2>1. t = Merge(f, r.path, r.value)
    BY <1>4 DEF SetTransacted
  <2>2. f \in Path /\ IsPrefix(f, r.path) /\ f # r.path
    BY <1>1, <1>4, FrontAndLast, FrontNotSame
  <2>3. \A q \in Path : IsPrefix(q, r.path) => q = r.path \/ IsPrefix(q, f)
    BY <1>1, <1>4, PrefixOfFront
  <2> HIDE DEF f, t
  <2>4. t.path = f /\ t.merge = TRUE
    BY <2>1 DEF Merge
  <2>5. \A d \in Path : ValueAt(t.value, d) = PutAt(r.value, r.path, t.path \o d)
    BY <1>1, <2>1, <2>2, <2>4, MergeShape
  <2>6. ASSUME NEW c \in Path, Len(c) = 1, IsPrefix(f \o c, r.path)
        PROVE  f \o c = r.path
    <3>1. f \o c \in Path /\ f \o c # f /\ IsPrefix(f, f \o c)
      BY <2>2, <2>6, ChildPath, Extends
    <3> QED
      BY <2>2, <2>3, <2>6, <3>1, PrefixAntisymmetric
  <2>7. Shape(s, t, r)
    BY <2>2, <2>4, <2>5, <2>6 DEF Shape
  <2> QED
    BY <2>7 DEF t
<1> QED
  BY <1>2, <1>3, <1>4

LEMMA TargetShape ==
    ASSUME NEW s, StoreType(s), NEW r \in Requests
    PROVE  Shape(s, Target(s, r), r)
<1>1. r.op \in {"set", "update", "transact"}
  BY RecordStoreAssumption
<1>2. CASE r.op = "set"
  BY <1>2, SetShape DEF Target
<1>3. CASE r.op = "update"
  BY <1>3, UpdateShape DEF Target
<1>4. CASE r.op = "transact"
  BY <1>4, TransactShape DEF Target
<1> QED
  BY <1>1, <1>2, <1>3, <1>4

-----------------------------------------------------------------------------
\* The same of the tree: what is at a path when a request took effect.

LEMMA SameOperators ==
    /\ \A t, p : Store!Kind(t, p) = Kind(t, p)
    /\ \A p, q : Store!IsPrefix(p, q) = IsPrefix(p, q)
    /\ \A t, p : Store!At(t, p) = At(t, p)
    /\ \A p : Store!Above(p) = Above(p)
    /\ \A t, p, u : Store!Applied(t, p, u) = Applied(t, p, u)
    /\ \A v : Store!Keys(v) = Children(v)
    /\ Store!Object = Object
<1>1. \A t, p : Store!Kind(t, p) = Kind(t, p)
  BY DEF Store!Kind, Kind
<1>2. \A p, q : Store!IsPrefix(p, q) = IsPrefix(p, q)
  BY DEF Store!IsPrefix, IsPrefix
<1>3. \A t, p : Store!At(t, p) = At(t, p)
  BY DEF Store!At, At, Store!IsPrefix, IsPrefix, Store!Rest, Rest
<1>4. \A p : Store!Above(p) = Above(p)
  BY DEF Store!Above, Above
<1>5. \A t, p, u : Store!Applied(t, p, u) = Applied(t, p, u)
  BY DEF Store!Applied, Applied, Store!IsPrefix, IsPrefix, Store!Rest, Rest
<1>6. \A v : Store!Keys(v) = Children(v) /\ Store!Object = Object
  BY DEF Store!Keys, Children, Store!Object, Object
<1> QED
  BY <1>1, <1>2, <1>3, <1>4, <1>5, <1>6

\* What a request names.
Named(r, q) ==
    IF r.op = "update" THEN \E c \in Children(r.value) : IsPrefix(r.path \o c, q)
                       ELSE IsPrefix(r.path, q)
MadeObject(r, q) == q \in Above(r.path) \/ (r.op = "update" /\ q = r.path)

\* The tree with the value of a request, and its nulls.
WithValue(t, r) ==
    IF r.op = "update"
    THEN Applied(Store!WithObjects(t, Above(r.path) \union {r.path}), r.path,
                 [p \in Children(r.value) |-> At(r.value, p)])
    ELSE Applied(Store!WithObjects(t, Above(r.path)), r.path, [p \in {<<>>} |-> r.value])

LEMMA PutIs ==
    ASSUME NEW t, NEW r
    PROVE  Store!Put(t, r) = Store!WithoutNulls(WithValue(t, r))
BY SameOperators DEF Store!Put, WithValue

LEMMA WithObjectsKind ==
    ASSUME NEW t, DOMAIN t \subseteq Path, NEW trail \in SUBSET Path, NEW q
    PROVE  /\ DOMAIN Store!WithObjects(t, trail) \subseteq Path
           /\ Kind(Store!WithObjects(t, trail), q) = IF q \in trail THEN "obj" ELSE Kind(t, q)
BY DEF Store!WithObjects, Kind

LEMMA WithoutNullsKind ==
    ASSUME NEW t, DOMAIN t \subseteq Path, NEW q \in Path
    PROVE  /\ DOMAIN Store!WithoutNulls(t) \subseteq Path
           /\ (\E p \in Path : IsPrefix(p, q) /\ Kind(t, p) = "null") => Kind(Store!WithoutNulls(t), q) = "none"
           /\ (\A p \in Path : IsPrefix(p, q) => Kind(t, p) # "null") => Kind(Store!WithoutNulls(t), q) = Kind(t, q)
<1> DEFINE u == Store!WithoutNulls(t)
           Clear(d) == \A n \in 0..Len(d) : Kind(t, SubSeq(d, 1, n)) # "null"
<1>1. u = [d \in {d \in DOMAIN t : Clear(d)} |-> t[d]]
  BY SameOperators DEF Store!WithoutNulls
<1>2. ASSUME NEW d \in Path
      PROVE  Clear(d) <=> \A p \in Path : IsPrefix(p, d) => Kind(t, p) # "null"
  <2>1. Len(d) \in Nat
    BY PathLength
  <2>2. \A n \in 0..Len(d) : SubSeq(d, 1, n) \in Path /\ IsPrefix(SubSeq(d, 1, n), d)
    BY <2>1, FirstIsPrefix
  <2>3. \A p \in Path : IsPrefix(p, d) => Len(p) \in 0..Len(d) /\ p = SubSeq(d, 1, Len(p))
    BY <2>1, PrefixIsFirst
  <2> QED
    BY <2>2, <2>3
<1> HIDE DEF Clear
<1>3. /\ DOMAIN u = {d \in DOMAIN t : Clear(d)}
      /\ \A d \in DOMAIN u : u[d] = t[d]
  BY <1>1
<1> HIDE DEF u
<1>4. DOMAIN u \subseteq Path
  BY <1>3
<1>5. ~Clear(q) => Kind(u, q) = "none"
  BY <1>3 DEF Kind
<1>6. Clear(q) => Kind(u, q) = Kind(t, q)
  BY <1>3 DEF Kind
<1> QED
  BY <1>2, <1>4, <1>5, <1>6 DEF u

LEMMA RequestType ==
    ASSUME NEW r \in Requests
    PROVE  /\ r.path \in Path /\ IsTree(r.value) /\ <<>> \in DOMAIN r.value /\ DOMAIN r.value \subseteq Path
           /\ r.op = "update" => Kind(r.value, <<>>) = "obj"
BY RecordStoreAssumption DEF IsTree

LEMMA WithValueKind ==
    ASSUME NEW t, DOMAIN t \subseteq Path, NEW r \in Requests, NEW q \in Path
    PROVE  /\ DOMAIN WithValue(t, r) \subseteq Path
           /\ Kind(WithValue(t, r), q) =
                IF Named(r, q) THEN Kind(r.value, Rest(q, Len(r.path)))
                ELSE IF MadeObject(r, q) THEN "obj" ELSE Kind(t, q)
<1>1. r.path \in Path /\ IsTree(r.value) /\ <<>> \in DOMAIN r.value /\ DOMAIN r.value \subseteq Path
  BY RequestType
<1>2. Above(r.path) \subseteq Path
  BY <1>1, AboveMeans
<1>3. CASE r.op # "update"
  <2> DEFINE u == [p \in {<<>>} |-> r.value]
             o == Store!WithObjects(t, Above(r.path))
  <2>1. WithValue(t, r) = Applied(o, r.path, u)
    BY <1>3 DEF WithValue
  <2>2. DOMAIN u = {<<>>} /\ u[<<>>] = r.value
    OBVIOUS
  <2>3. DOMAIN o \subseteq Path /\ Kind(o, q) = IF q \in Above(r.path) THEN "obj" ELSE Kind(t, q)
    BY <1>2, WithObjectsKind
  <2> HIDE DEF u, o
  <2>4. IsUpdates(u)
    BY <1>1, <2>2, EmptyPath DEF IsUpdates
  <2>5. r.path \o <<>> = r.path
    BY <1>1, EmptyConcat
  <2>6. /\ DOMAIN Applied(o, r.path, u) \subseteq Path
        /\ \A k \in DOMAIN u : IsPrefix(r.path \o k, q) =>
             Kind(Applied(o, r.path, u), q) = Kind(u[k], Rest(q, Len(r.path \o k)))
        /\ (\A k \in DOMAIN u : ~IsPrefix(r.path \o k, q)) => Kind(Applied(o, r.path, u), q) = Kind(o, q)
    <3> DEFINE path == r.path
    <3>1. path \in Path
      BY <1>1
    <3> HIDE DEF path
    <3>2. /\ DOMAIN Applied(o, path, u) \subseteq Path
          /\ \A k \in DOMAIN u : IsPrefix(path \o k, q) =>
               Kind(Applied(o, path, u), q) = Kind(u[k], Rest(q, Len(path \o k)))
          /\ (\A k \in DOMAIN u : ~IsPrefix(path \o k, q)) => Kind(Applied(o, path, u), q) = Kind(o, q)
      BY <2>3, <2>4, <3>1, AppliedKind
    <3> QED
      BY <3>2 DEF path
  <2>7. CASE IsPrefix(r.path, q)
    BY <1>3, <2>1, <2>2, <2>5, <2>6, <2>7 DEF Named
  <2>8. CASE ~IsPrefix(r.path, q)
    BY <1>3, <2>1, <2>2, <2>3, <2>5, <2>6, <2>8 DEF Named, MadeObject
  <2> QED
    BY <2>7, <2>8
<1>4. CASE r.op = "update"
  <2> DEFINE u == [p \in Children(r.value) |-> At(r.value, p)]
             o == Store!WithObjects(t, Above(r.path) \union {r.path})
  <2>1. WithValue(t, r) = Applied(o, r.path, u)
    BY <1>4 DEF WithValue
  <2>2. DOMAIN u = Children(r.value) /\ \A k \in Children(r.value) : u[k] = At(r.value, k)
    OBVIOUS
  <2>3. /\ DOMAIN o \subseteq Path
        /\ Kind(o, q) = IF q \in Above(r.path) \union {r.path} THEN "obj" ELSE Kind(t, q)
    BY <1>1, <1>2, WithObjectsKind
  <2> HIDE DEF u, o
  <2>4. \A k \in Children(r.value) : k \in Path /\ Len(k) = 1 /\ k \in DOMAIN r.value
    BY <1>1 DEF Children
  <2>5. IsUpdates(u)
    <3>1. ASSUME NEW k \in DOMAIN u
          PROVE  k \in Path /\ DOMAIN u[k] \subseteq Path
      BY <1>1, <2>2, <2>4, <3>1, EmptyPath, InAt
    <3>2. ASSUME NEW k \in DOMAIN u, NEW l \in DOMAIN u, NEW x \in Path, IsPrefix(k, x), IsPrefix(l, x)
          PROVE  k = l
      BY <2>2, <2>4, <3>2, SameKey
    <3> QED
      BY <3>1, <3>2 DEF IsUpdates
  <2>6. /\ DOMAIN Applied(o, r.path, u) \subseteq Path
        /\ \A k \in DOMAIN u : IsPrefix(r.path \o k, q) =>
             Kind(Applied(o, r.path, u), q) = Kind(u[k], Rest(q, Len(r.path \o k)))
        /\ (\A k \in DOMAIN u : ~IsPrefix(r.path \o k, q)) => Kind(Applied(o, r.path, u), q) = Kind(o, q)
    <3> DEFINE path == r.path
    <3>1. path \in Path
      BY <1>1
    <3> HIDE DEF path
    <3>2. /\ DOMAIN Applied(o, path, u) \subseteq Path
          /\ \A k \in DOMAIN u : IsPrefix(path \o k, q) =>
               Kind(Applied(o, path, u), q) = Kind(u[k], Rest(q, Len(path \o k)))
          /\ (\A k \in DOMAIN u : ~IsPrefix(path \o k, q)) => Kind(Applied(o, path, u), q) = Kind(o, q)
      BY <2>3, <2>5, <3>1, AppliedKind
    <3> QED
      BY <3>2 DEF path
  <2>7. CASE Named(r, q)
    <3>1. PICK k \in Children(r.value) : IsPrefix(r.path \o k, q)
      BY <1>4, <2>7 DEF Named
    <3> DEFINE pk == r.path \o k
               d == Rest(q, Len(pk))
    <3>2. k \in Path /\ pk \in Path
      BY <1>1, <2>4, Concat
    <3>3. Kind(WithValue(t, r), q) = Kind(At(r.value, k), d)
      BY <2>1, <2>2, <2>6, <3>1
    <3> HIDE DEF pk
    <3>4. d \in Path /\ pk \o d = q
      BY <3>1, <3>2, PrefixSplits DEF pk
    <3> HIDE DEF d
    <3>5. Rest(q, Len(r.path)) = k \o d /\ k \o d \in Path
      <4>1. q = r.path \o (k \o d)
        <5>1. Regroups(r.path, k, d)
          BY <1>1, <3>2, <3>4, Regroup
        <5> QED
          BY <3>4, <5>1 DEF Regroups, pk
      <4> DEFINE path == r.path
                 e == k \o d
      <4>2. path \in Path /\ e \in Path /\ q = path \o e
        BY <1>1, <3>2, <3>4, <4>1, Concat
      <4> HIDE DEF path, e
      <4>3. Rest(q, Len(path)) = e
        BY <4>2, RestOfConcat
      <4> QED
        BY <4>2, <4>3 DEF path, e
    <3>6. Kind(At(r.value, k), d) = Kind(r.value, k \o d)
      BY <1>1, <3>2, <3>4, InAt DEF Kind
    <3> QED
      BY <2>1, <2>6, <2>7, <3>3, <3>5, <3>6
  <2>8. CASE ~Named(r, q)
    BY <1>4, <2>1, <2>2, <2>3, <2>6, <2>8 DEF Named, MadeObject
  <2> QED
    BY <2>7, <2>8
<1> QED
  BY <1>3, <1>4

-----------------------------------------------------------------------------
\* How a request and its write go together.

\* Nulls remove the node that is set or properties that are merged.  (A null in
\* an object that is set is not removed by the code, see the README.)
NullsAtTop ==
    \A r \in Requests : \A d \in DOMAIN r.value :
        r.value[d] = "null" => IF r.op = "update" THEN Len(d) = 1 ELSE d = <<>>

\* At or below the first node that is not there yet.
OnTheWay(t, r, q) ==
    \E c \in Path : Len(c) = 1 /\ IsPrefix(t.path \o c, r.path) /\ IsPrefix(t.path \o c, q)

LEMMA NamedBelow ==
    ASSUME NEW r \in Requests, NEW q \in Path, Named(r, q)
    PROVE  IsPrefix(r.path, q) /\ \A x \in Path : IsPrefix(q, x) => Named(r, x)
<1>1. r.path \in Path /\ \A c \in Children(r.value) : c \in Path /\ r.path \o c \in Path /\ IsPrefix(r.path, r.path \o c)
  BY RequestType, Concat, Extends DEF Children
<1>2. CASE r.op = "update"
  <2>1. PICK c \in Children(r.value) : IsPrefix(r.path \o c, q)
    BY <1>2 DEF Named
  <2>2. \A x \in Path : IsPrefix(q, x) => IsPrefix(r.path \o c, x)
    BY <1>1, <2>1, PrefixTransitive
  <2> QED
    BY <1>1, <1>2, <2>1, <2>2, PrefixTransitive DEF Named
<1>3. CASE r.op # "update"
  BY <1>1, <1>3, PrefixTransitive DEF Named
<1> QED
  BY <1>2, <1>3

LEMMA MergedKey ==
    ASSUME NEW s, NEW t, NEW r \in Requests, GoodTarget(s, t), Shape(s, t, r), t.merge, NEW c \in Path, Len(c) = 1
    PROVE  c \in DOMAIN t.value <=>
             IF t.path = r.path THEN c \in DOMAIN r.value ELSE IsPrefix(t.path \o c, r.path)
<1>1. t.path \in Path /\ IsPrefix(t.path, r.path) /\ ValueAt(t.value, c) = PutAt(r.value, r.path, t.path \o c)
  BY DEF Shape
<1>2. r.path \in Path /\ <<>> \in DOMAIN r.value
  BY RequestType
<1>3. t.path \o c \in Path /\ IsPrefix(t.path, t.path \o c) /\ t.path \o c # t.path
  BY <1>1, ChildPath, Extends
<1>4. c \in DOMAIN t.value <=> PutAt(r.value, r.path, t.path \o c) # {}
  BY <1>1, ValueAtMeans
<1>5. CASE t.path = r.path
  <2>1. t.path \o c \notin Above(r.path)
    BY <1>2, <1>3, <1>5, AboveMeans, PrefixAntisymmetric
  <2>2. Rest(t.path \o c, Len(r.path)) = c
    BY <1>1, <1>5, RestOfConcat
  <2>3. PutAt(r.value, r.path, t.path \o c) = ValueAt(r.value, c)
    BY <1>3, <1>5, <2>1, <2>2 DEF PutAt
  <2> QED
    BY <1>4, <1>5, <2>3, ValueAtMeans
<1>6. CASE t.path # r.path /\ IsPrefix(t.path \o c, r.path)
  <2>1. CASE t.path \o c = r.path
    <3>1. t.path \o c \notin Above(r.path) /\ IsPrefix(r.path, t.path \o c)
      BY <1>2, <2>1, AboveMeans, PrefixReflexive
    <3>2. Rest(t.path \o c, Len(r.path)) = <<>>
      <4>1. r.path \o <<>> = r.path
        BY <1>2, EmptyConcat
      <4>2. r.path \in Path /\ <<>> \in Path
        BY <1>2, EmptyPath
      <4>3. Rest(r.path \o <<>>, Len(r.path)) = <<>>
        BY <4>2, RestOfConcat
      <4> QED
        BY <2>1, <4>1, <4>3, Zenon
    <3>3. PutAt(r.value, r.path, t.path \o c) = {r.value[<<>>]}
      BY <1>2, <3>1, <3>2, ValueAtMeans DEF PutAt
    <3> QED
      BY <1>4, <1>6, <3>3
  <2>2. CASE t.path \o c # r.path
    <3>1. t.path \o c \in Above(r.path)
      BY <1>2, <1>3, <1>6, <2>2, AboveMeans
    <3> QED
      BY <1>4, <1>6, <3>1 DEF PutAt
  <2> QED
    BY <2>1, <2>2
<1>7. CASE t.path # r.path /\ ~IsPrefix(t.path \o c, r.path)
  <2>1. t.path \o c \notin Above(r.path)
    BY <1>2, <1>7, AboveMeans
  <2>2. ~IsPrefix(r.path, t.path \o c)
    <3> SUFFICES ASSUME IsPrefix(r.path, t.path \o c) PROVE FALSE
      OBVIOUS
    <3>1. Len(t.path \o c) = Len(t.path) + 1 /\ Len(t.path) \in Nat /\ Len(r.path) \in Nat
      <4>1. Len(t.path \o c) = Len(t.path) + Len(c)
        BY <1>1, Concat
      <4> QED
        BY <1>1, <1>2, <4>1, PathLength
    <3>2. Len(t.path) <= Len(r.path) /\ Len(t.path) # Len(r.path)
      BY <1>1, <1>2, <1>7, PrefixLength
    <3>3. Len(r.path) <= Len(t.path \o c)
      BY <1>2, <1>3, PrefixLength
    <3>4. Len(r.path) = Len(t.path \o c)
      BY <3>1, <3>2, <3>3
    <3>5. r.path = t.path \o c
      BY <1>2, <1>3, <3>4, PrefixLength
    <3> QED
      BY <1>2, <1>7, <3>5, PrefixReflexive
  <2> QED
    BY <1>4, <1>7, <2>1, <2>2 DEF PutAt
<1> QED
  BY <1>5, <1>6, <1>7

LEMMA WrittenMeans ==
    ASSUME NEW s, NEW t, NEW r \in Requests, GoodTarget(s, t), Shape(s, t, r), NEW q \in Path
    PROVE  ~Safe(q, Written(t)) <=> Named(r, q) \/ (t.merge /\ OnTheWay(t, r, q))
<1>1. t.path \in Path /\ IsPrefix(t.path, r.path) /\ IsTree(t.value)
  BY DEF Shape, GoodTarget
<1>2. r.path \in Path /\ IsTree(r.value)
  BY RequestType
<1>3. CASE ~t.merge
  <2>1. Written(t) = {r.path} /\ r.op # "update"
    BY <1>3 DEF Written, Shape
  <2> QED
    BY <1>3, <2>1 DEF Safe, Named
<1>4. CASE t.merge
  <2>1. ~Safe(q, Written(t)) <=> \E c \in Path : Len(c) = 1 /\ c \in DOMAIN t.value /\ IsPrefix(t.path \o c, q)
    <3>1. \A c : c \in Children(t.value) <=> c \in Path /\ Len(c) = 1 /\ c \in DOMAIN t.value
      BY <1>1 DEF Children, IsTree
    <3>2. Written(t) = {t.path \o c : c \in Children(t.value)}
      BY <1>4 DEF Written
    <3> QED
      BY <3>1, <3>2 DEF Safe
  <2>2. CASE t.path = r.path
    <3>1. r.op = "update"
      BY <1>4, <2>2 DEF Shape
    <3>2. \A c \in Path : Len(c) = 1 => (c \in DOMAIN t.value <=> c \in Children(r.value))
      BY <1>4, <2>2, MergedKey DEF Children
    <3>3. \A c \in Children(r.value) : c \in Path /\ Len(c) = 1
      BY <1>2 DEF Children, IsTree
    <3>4. ~OnTheWay(t, r, q)
      <4>1. ASSUME NEW c \in Path, Len(c) = 1, IsPrefix(t.path \o c, r.path)
            PROVE  FALSE
        <5>1. t.path \o c \in Path /\ t.path \o c # t.path /\ IsPrefix(t.path, t.path \o c)
          BY <1>1, <4>1, ChildPath, Extends
        <5> QED
          BY <1>1, <2>2, <4>1, <5>1, PrefixAntisymmetric
      <4> QED
        BY <4>1 DEF OnTheWay
    <3> QED
      BY <2>1, <2>2, <3>1, <3>2, <3>3, <3>4 DEF Named
  <2>3. CASE t.path # r.path
    <3>1. \A c \in Path : Len(c) = 1 => (c \in DOMAIN t.value <=> IsPrefix(t.path \o c, r.path))
      BY <1>4, <2>3, MergedKey
    <3>2. Named(r, q) => OnTheWay(t, r, q)
      <4> SUFFICES ASSUME Named(r, q) PROVE OnTheWay(t, r, q)
        OBVIOUS
      <4>1. IsPrefix(r.path, q)
        BY NamedBelow
      <4>2. PICK c \in Path : Len(c) = 1 /\ IsPrefix(t.path \o c, r.path)
        BY <1>1, <1>2, <2>3, NextStep
      <4>3. IsPrefix(t.path \o c, q)
        BY <1>1, <1>2, <4>1, <4>2, Concat, PrefixTransitive
      <4> QED
        BY <4>2, <4>3 DEF OnTheWay
    <3> QED
      BY <1>4, <2>1, <3>1, <3>2 DEF OnTheWay
  <2> QED
    BY <2>2, <2>3
<1> QED
  BY <1>3, <1>4

LEMMA NullsAreGone ==
    ASSUME NullsAtTop, NEW s, NEW T \in SUBSET Path, GoodStore(s, T), NEW r \in Requests,
           NEW t, GoodTarget(s, t), Shape(s, t, r)
    PROVE  NullsGone(s, t, T)
<1> SUFFICES ASSUME NEW d \in DOMAIN t.value, t.value[d] = "null", Safe(t.path \o d, T)
             PROVE  (t.merge /\ Len(d) = 1) \/ t.path \o Front(d) \notin DOMAIN s
  BY DEF NullsGone
<1> DEFINE q == t.path \o d
<1>1. t.path \in Path /\ IsPrefix(t.path, r.path) /\ d \in Path /\ d # <<>>
  BY DEF Shape, GoodTarget, IsTree
<1>2. r.path \in Path /\ q \in Path
  BY <1>1, RequestType, Concat
<1>3. PutAt(r.value, r.path, q) = {"null"}
  <2>1. ValueAt(t.value, d) = {"null"}
    BY ValueAtMeans
  <2> QED
    BY <1>1, <2>1 DEF Shape
<1> DEFINE e == Rest(q, Len(r.path))
<1>4. IsPrefix(r.path, q) /\ e \in DOMAIN r.value /\ r.value[e] = "null"
  <2>1. q \notin Above(r.path) /\ IsPrefix(r.path, q)
    BY <1>3 DEF PutAt
  <2>2. ValueAt(r.value, e) = {"null"}
    BY <1>3, <2>1 DEF PutAt
  <2> HIDE DEF e
  <2>3. e \in DOMAIN r.value /\ r.value[e] = "null"
    BY <2>2, ValueAtMeans
  <2> QED
    BY <2>1, <2>3
<1>5. e \in Path /\ r.path \o e = q
  BY <1>2, <1>4, PrefixSplits
<1> HIDE DEF e
<1>6. /\ Front(d) \in Path /\ t.path \o Front(d) \in Path /\ IsPrefix(t.path \o Front(d), q) /\ Front(q) = t.path \o Front(d)
      /\ Safe(t.path \o Front(d), T)
  <2>1. Front(d) \in Path /\ t.path \o Front(d) \in Path /\ IsPrefix(Front(d), d) /\ Front(q) = t.path \o Front(d)
    BY <1>1, FrontOfConcat, FrontAndLast
  <2>2. IsPrefix(t.path \o Front(d), q)
    BY <1>1, <2>1, PrefixBelow
  <2> HIDE DEF q
  <2>3. Safe(q, T)
    BY DEF q
  <2>4. Safe(t.path \o Front(d), T)
    BY <1>2, <2>1, <2>2, <2>3, SafeAbove
  <2> QED
    BY <2>1, <2>2, <2>4
<1>7. ASSUME NEW c \in Path, Len(c) = 1, IsPrefix(t.path \o c, r.path), t.path \o c # r.path \/ r.op = "update",
             IsPrefix(t.path \o c, t.path \o Front(d))
      PROVE  t.path \o Front(d) \notin DOMAIN s
  <2>1. t.path \o c \notin DOMAIN s /\ t.path \o c \in Path
    BY <1>1, <1>7, Concat DEF Shape
  <2> QED
    BY <1>6, <1>7, <2>1, NothingBelow
<1>8. CASE r.op # "update"
  <2>1. e = <<>>
    BY <1>4, <1>8 DEF NullsAtTop
  <2>2. q = r.path
    BY <1>2, <1>5, <2>1, EmptyConcat
  <2>3. t.merge
    <3>1. ASSUME ~t.merge PROVE FALSE
      <4>1. t.path \o d = t.path \o <<>>
        BY <1>1, <2>2, <3>1, EmptyConcat DEF Shape
      <4> QED
        BY <1>1, <4>1, EmptyPath, Cancel
    <3> QED
      BY <3>1
  <2>4. ASSUME Len(d) # 1
        PROVE  t.path \o Front(d) \notin DOMAIN s
    <3>1. PICK c \in Path : Len(c) = 1 /\ IsPrefix(c, d)
      BY <1>1, FirstStep
    <3>2. c # d /\ IsPrefix(c, Front(d))
      BY <1>1, <2>4, <3>1, PrefixOfFront
    <3>3. IsPrefix(t.path \o c, t.path \o d) /\ t.path \o c # t.path \o d
      BY <1>1, <3>1, <3>2, PrefixBelow, Cancel
    <3>4. IsPrefix(t.path \o c, t.path \o Front(d))
      BY <1>1, <1>6, <3>2, PrefixBelow
    <3> QED
      BY <1>7, <2>2, <3>1, <3>3, <3>4
  <2> QED
    BY <2>3, <2>4
<1>9. CASE r.op = "update"
  <2>1. Len(e) = 1
    BY <1>4, <1>9 DEF NullsAtTop
  <2>2. t.merge
    BY <1>9 DEF Shape
  <2>3. r.path = t.path \o Front(d)
    <3>1. Front(r.path \o e) = r.path
      BY <1>2, <1>5, <2>1, ChildPath
    <3> HIDE DEF q
    <3>2. Front(q) = r.path
      BY <1>5, <3>1
    <3> QED
      BY <1>6, <3>2
  <2>4. CASE t.path = r.path
    <3>1. d = e
      BY <1>1, <1>5, <2>4, Cancel
    <3> QED
      BY <2>1, <2>2, <3>1
  <2>5. CASE t.path # r.path
    <3>1. PICK c \in Path : Len(c) = 1 /\ IsPrefix(t.path \o c, r.path)
      BY <1>1, <1>2, <2>5, NextStep
    <3> QED
      BY <1>7, <1>9, <2>3, <3>1
  <2> QED
    BY <2>4, <2>5
<1> QED
  BY <1>8, <1>9

\* What a request makes of the tree that is read.
LEMMA PutKind ==
    ASSUME NEW s, StoreType(s), NEW r \in Requests, NEW q \in Path
    PROVE  /\ DOMAIN Store!Put(NodeOf(s, <<>>), r) \subseteq Path
           /\ Kind(Store!Put(NodeOf(s, <<>>), r), q) =
                IF Named(r, q) THEN Clean(r.value, Rest(q, Len(r.path)))
                ELSE IF MadeObject(r, q) THEN "obj" ELSE ReadsAs(s, q)
<1> DEFINE t == NodeOf(s, <<>>)
           a == WithValue(t, r)
           u == Store!WithoutNulls(a)
<1>1. DOMAIN t \subseteq Path /\ \A x \in Path : Kind(t, x) = ReadsAs(s, x)
  BY EmptyPath, KindRead
<1>2. Store!Put(t, r) = u
  BY PutIs
<1> HIDE DEF t
<1>3. DOMAIN a \subseteq Path
      /\ \A x \in Path : Kind(a, x) = IF Named(r, x) THEN Kind(r.value, Rest(x, Len(r.path)))
                                      ELSE IF MadeObject(r, x) THEN "obj" ELSE ReadsAs(s, x)
  <2>1. DOMAIN a \subseteq Path
    BY <1>1, EmptyPath, WithValueKind
  <2>2. ASSUME NEW x \in Path
        PROVE  Kind(a, x) = IF Named(r, x) THEN Kind(r.value, Rest(x, Len(r.path)))
                            ELSE IF MadeObject(r, x) THEN "obj" ELSE ReadsAs(s, x)
    <3>1. Kind(a, x) = IF Named(r, x) THEN Kind(r.value, Rest(x, Len(r.path)))
                       ELSE IF MadeObject(r, x) THEN "obj" ELSE Kind(t, x)
      BY <1>1, WithValueKind
    <3> QED
      BY <1>1, <3>1
  <2> QED
    BY <2>1, <2>2
<1> HIDE DEF a
<1>4. /\ DOMAIN u \subseteq Path
      /\ (\E p \in Path : IsPrefix(p, q) /\ Kind(a, p) = "null") => Kind(u, q) = "none"
      /\ (\A p \in Path : IsPrefix(p, q) => Kind(a, p) # "null") => Kind(u, q) = Kind(a, q)
  BY <1>3, WithoutNullsKind
<1> HIDE DEF u
<1>5. ASSUME NEW p \in Path, IsPrefix(p, q), Kind(a, p) = "null"
      PROVE  Named(r, p) /\ Named(r, q) /\ Kind(r.value, Rest(p, Len(r.path))) = "null"
  <2>1. Named(r, p) /\ Kind(r.value, Rest(p, Len(r.path))) = "null"
    BY <1>3, <1>5, NoNullRead
  <2> QED
    BY <1>5, <2>1, NamedBelow
<1>6. CASE ~Named(r, q)
  BY <1>2, <1>3, <1>4, <1>5, <1>6 DEF t
<1>7. CASE Named(r, q)
  <2>1. Kind(a, q) = Kind(r.value, Rest(q, Len(r.path)))
    BY <1>3, <1>7
  <2>2. CASE \A p \in Path : IsPrefix(p, q) => Kind(a, p) # "null"
    <3>1. Kind(a, q) # "null"
      BY <2>2, PrefixReflexive
    <3> QED
      BY <1>2, <1>4, <1>7, <2>1, <2>2, <3>1 DEF Clean, t
  <2>3. CASE \E p \in Path : IsPrefix(p, q) /\ Kind(a, p) = "null"
    <3>1. PICK p \in Path : IsPrefix(p, q) /\ Kind(a, p) = "null"
      BY <2>3
    <3>2. Named(r, p) /\ Kind(r.value, Rest(p, Len(r.path))) = "null"
      BY <1>5, <3>1
    <3> DEFINE d == Rest(p, Len(r.path))
               e == Rest(q, Len(r.path))
    <3>3. d \in Path /\ r.path \o d = p
      BY <3>2, RequestType, NamedBelow, PrefixSplits
    <3>4. e \in Path /\ r.path \o e = q
      BY <1>7, RequestType, NamedBelow, PrefixSplits
    <3>5. Kind(r.value, d) = "null"
      BY <3>2
    <3> HIDE DEF d, e
    <3>6. IsPrefix(d, e)
      BY <3>1, <3>3, <3>4, RequestType, PrefixBelow
    <3>7. Clean(r.value, e) = "none"
      <4>1. CASE e = d
        BY <3>5, <4>1 DEF Clean
      <4>2. CASE e # d
        <5>1. ASSUME e \in DOMAIN r.value PROVE FALSE
          <6>1. d \in DOMAIN r.value /\ r.value[d] = "obj"
            BY <3>3, <3>6, <4>2, <5>1, RequestType, TreeAbove
          <6> QED
            BY <3>5, <6>1 DEF Kind
        <5> QED
          BY <5>1 DEF Clean, Kind
      <4> QED
        BY <4>1, <4>2
    <3>8. Kind(u, q) = "none"
      BY <1>4, <3>1
    <3> QED
      BY <1>2, <1>4, <1>7, <3>7, <3>8 DEF e, t
  <2> QED
    BY <2>2, <2>3
<1> QED
  BY <1>6, <1>7

LEMMA SameClean ==
    ASSUME NEW a, NEW b, NEW p, NEW q, ValueAt(a, p) = ValueAt(b, q)
    PROVE  Clean(a, p) = Clean(b, q)
<1>1. p \in DOMAIN a <=> q \in DOMAIN b
  BY ValueAtMeans
<1>2. p \in DOMAIN a => a[p] = b[q]
  BY ValueAtMeans
<1> QED
  BY <1>1, <1>2 DEF Clean, Kind

\* A write that is done, at a path that no write that failed was for, changes
\* what is read as the request says.
LEMMA DoneReads ==
    ASSUME NullsAtTop, NEW s, NEW T \in SUBSET Path, GoodStore(s, T), NEW r \in Requests,
           NEW t, GoodTarget(s, t), Shape(s, t, r), Safe(t.path, T),
           NEW n, Partly(s, t, DOMAIN Changes(s, t), n), NEW q \in Path, Safe(q, T)
    PROVE  ReadsAs(n, q) = Kind(Store!Put(NodeOf(s, <<>>), r), q)
<1> DEFINE put == Kind(Store!Put(NodeOf(s, <<>>), r), q)
<1>1. /\ StoreType(s) /\ t.path \in Path /\ IsTree(t.value) /\ IsPrefix(t.path, r.path) /\ GoodStore(n, T)
      /\ NullsGone(s, t, T)
  BY DoneStore, NullsAreGone DEF GoodStore, GoodTarget, Shape
<1>2. r.path \in Path /\ IsTree(r.value) /\ <<>> \in DOMAIN r.value /\ (r.op = "update" => Kind(r.value, <<>>) = "obj")
  BY RequestType
<1>3. put = IF Named(r, q) THEN Clean(r.value, Rest(q, Len(r.path)))
            ELSE IF MadeObject(r, q) THEN "obj" ELSE ReadsAs(s, q)
  BY <1>1, PutKind
<1>4. ~Safe(q, Written(t)) <=> Named(r, q) \/ (t.merge /\ OnTheWay(t, r, q))
  BY WrittenMeans
<1> HIDE DEF put
<1>5. CASE ~Safe(q, Written(t))
  <2>1. IsPrefix(t.path, q)
    <3>1. CASE Named(r, q)
      BY <1>1, <1>2, <3>1, NamedBelow, PrefixTransitive
    <3>2. CASE OnTheWay(t, r, q)
      <4>1. PICK c \in Path : IsPrefix(t.path \o c, q)
        BY <3>2 DEF OnTheWay
      <4> QED
        BY <1>1, <4>1, Concat, Extends, PrefixTransitive
    <3> QED
      BY <1>4, <1>5, <3>1, <3>2
  <2> DEFINE d == Rest(q, Len(t.path))
  <2>2. d \in Path /\ t.path \o d = q
    BY <1>1, <2>1, PrefixSplits
  <2> HIDE DEF d
  <2>3. ReadsAs(n, q) = Clean(t.value, d)
    <3>1. Safe(t.path \o d, T) /\ ~Safe(t.path \o d, Written(t))
      BY <1>5, <2>2
    <3>2. \A x \in Path : Safe(t.path \o x, T) /\ ~Safe(t.path \o x, Written(t))
                          => ReadsAs(n, t.path \o x) = Clean(t.value, x)
      BY <1>1, WrittenReads
    <3> QED
      BY <2>2, <3>1, <3>2
  <2>4. ValueAt(t.value, d) = PutAt(r.value, r.path, q)
    <3>1. ValueAt(t.value, d) = PutAt(r.value, r.path, t.path \o d)
      BY <2>2 DEF Shape
    <3> QED
      BY <2>2, <3>1
  <2>5. CASE Named(r, q)
    <3>1. IsPrefix(r.path, q)
      BY <2>5, NamedBelow
    <3>2. q \notin Above(r.path)
      BY <1>2, <3>1, AboveMeans, PrefixAntisymmetric
    <3>3. PutAt(r.value, r.path, q) = ValueAt(r.value, Rest(q, Len(r.path)))
      BY <3>1, <3>2 DEF PutAt
    <3>4. Clean(t.value, d) = Clean(r.value, Rest(q, Len(r.path)))
      BY <2>4, <3>3, SameClean
    <3> QED
      BY <1>3, <2>3, <2>5, <3>4 DEF put
  <2>6. CASE ~Named(r, q)
    <3>1. PICK c \in Path : Len(c) = 1 /\ IsPrefix(t.path \o c, r.path) /\ IsPrefix(t.path \o c, q)
      BY <1>4, <1>5, <2>6 DEF OnTheWay
    <3>2. CASE q \in Above(r.path)
      <4>1. ValueAt(t.value, d) = {"obj"}
        BY <2>4, <3>2 DEF PutAt
      <4>2. Clean(t.value, d) = "obj"
        BY <4>1, ValueAtMeans DEF Clean, Kind
      <4> QED
        BY <1>3, <2>3, <2>6, <3>2, <4>2 DEF put, MadeObject
    <3>3. CASE r.op = "update" /\ q = r.path
      <4>1. q \notin Above(r.path) /\ IsPrefix(r.path, q) /\ Rest(q, Len(r.path)) = <<>>
        <5>1. r.path \o <<>> = r.path
          BY <1>2, EmptyConcat
        <5> QED
          BY <1>2, <3>3, <5>1, EmptyPath, AboveMeans, PrefixReflexive, RestOfConcat
      <4>2. ValueAt(t.value, d) = ValueAt(r.value, <<>>)
        BY <2>4, <4>1 DEF PutAt
      <4>3. Clean(t.value, d) = "obj"
        BY <1>2, <3>3, <4>2, SameClean DEF Clean
      <4> QED
        BY <1>3, <2>3, <2>6, <3>3, <4>3 DEF put, MadeObject
    <3>4. CASE ~MadeObject(r, q)
      <4>1. ReadsAs(s, q) = "none"
        <5>1. t.path \o c \in Path
          BY <1>1, <3>1, Concat
        <5>2. ~ (t.path \o c = r.path /\ r.op # "update")
          BY <2>6, <3>1 DEF Named
        <5>3. t.path \o c \notin DOMAIN s
          BY <3>1, <5>2 DEF Shape
        <5>4. q # t.path \o c
          BY <1>2, <3>1, <3>4, <5>1, <5>2, AboveMeans DEF MadeObject
        <5> QED
          BY <3>1, <5>1, <5>3, <5>4, NothingBelow
      <4>2. ValueAt(t.value, d) = {}
        <5>1. ASSUME IsPrefix(r.path, q)
              PROVE  Rest(q, Len(r.path)) \notin DOMAIN r.value
          <6> DEFINE e == Rest(q, Len(r.path))
          <6>1. e \in Path /\ r.path \o e = q
            BY <1>2, <5>1, PrefixSplits
          <6> HIDE DEF e
          <6>2. r.op = "update"
            BY <2>6, <5>1 DEF Named
          <6>3. e # <<>>
            BY <1>2, <3>4, <6>1, <6>2, EmptyConcat DEF MadeObject
          <6>4. ASSUME e \in DOMAIN r.value PROVE FALSE
            <7>1. PICK k \in Path : Len(k) = 1 /\ IsPrefix(k, e)
              BY <6>1, <6>3, FirstStep
            <7>2. k \in DOMAIN r.value
              <8>1. CASE k = e
                BY <6>4, <8>1
              <8>2. CASE k # e
                BY <1>2, <6>4, <7>1, <8>2, TreeAbove
              <8> QED
                BY <8>1, <8>2
            <7>3. IsPrefix(r.path \o k, r.path \o e)
              BY <1>2, <6>1, <7>1, PrefixBelow
            <7> QED
              BY <2>6, <6>1, <6>2, <7>1, <7>2, <7>3 DEF Named, Children
          <6> QED
            BY <6>4 DEF e
        <5>2. q \notin Above(r.path)
          BY <3>4 DEF MadeObject
        <5>3. PutAt(r.value, r.path, q) = {}
          BY <5>1, <5>2, ValueAtMeans DEF PutAt
        <5> QED
          BY <2>4, <5>3
      <4>3. Clean(t.value, d) = "none"
        BY <4>2, ValueAtMeans DEF Clean, Kind
      <4> QED
        BY <1>3, <2>3, <2>6, <3>4, <4>1, <4>3 DEF put
    <3> QED
      BY <3>2, <3>3, <3>4 DEF MadeObject
  <2> QED
    BY <2>5, <2>6
<1>6. CASE Safe(q, Written(t)) /\ q = t.path
  <2>1. t.merge
    BY <1>1, <1>6, PrefixReflexive DEF Written, Safe
  <2>2. <<>> \in Dedicated(t.value) /\ t.path \in DOMAIN Changes(s, t) /\ t.path \in Stores(t)
    <3>1. <<>> \in Dedicated(t.value) /\ t.path \in Stores(t)
      BY <1>1, DedicatedType
    <3>2. Stores(t) \subseteq DOMAIN Changes(s, t)
      BY InChanges
    <3> QED
      BY <3>1, <3>2
  <2>3. t.path \o <<>> = t.path
    BY <1>1, EmptyConcat
  <2>4. Changes(s, t)[t.path] = NewRecord(s, t, <<>>) /\ NewRecord(s, t, <<>>)[<<>>] = "obj"
    <3>1. \A e \in Dedicated(t.value) :
            /\ Changes(s, t)[t.path \o e] = NewRecord(s, t, e)
            /\ NewRecord(s, t, e)[<<>>] = t.value[e]
      BY <1>1, StoredRecord
    <3>2. t.value[<<>>] = "obj"
      BY <2>1 DEF GoodTarget
    <3> QED
      BY <2>2, <2>3, <3>1, <3>2
  <2>5. q \in DOMAIN n /\ n[q][<<>>] = "obj"
    BY <1>6, <2>2, <2>4 DEF Partly
  <2>6. ReadsAs(n, q) = "obj"
    BY <1>1, <2>5, SafeReads
  <2>7. MadeObject(r, q)
    <3>1. t.path = r.path => r.op = "update"
      BY <2>1 DEF Shape
    <3> QED
      BY <1>1, <1>2, <1>6, <3>1, AboveMeans DEF MadeObject
  <2> QED
    BY <1>3, <1>4, <1>6, <2>6, <2>7 DEF put
<1>7. CASE Safe(q, Written(t)) /\ q # t.path
  <2>1. ReadsAs(n, q) = ReadsAs(s, q)
    BY <1>7, Unwritten
  <2>2. ASSUME MadeObject(r, q)
        PROVE  ReadsAs(s, q) = "obj"
    <3>1. IsPrefix(q, r.path)
      BY <1>2, <2>2, AboveMeans, PrefixReflexive DEF MadeObject
    <3>2. CASE IsPrefix(q, t.path)
      <4>1. t.path \in DOMAIN s
        BY <1>1, PrefixReflexive, AboveTarget
      <4>2. q \in DOMAIN s /\ Kind(s[q], <<>>) = "obj"
        BY <1>7, <3>2, <4>1, SafeRecord
      <4>3. <<>> \in DOMAIN s[q]
        BY <1>1, <4>2 DEF StoreType, GoodRecord
      <4>4. s[q][<<>>] = "obj"
        BY <4>2, <4>3 DEF Kind
      <4> QED
        BY <4>2, <4>4, SafeReads
    <3>3. CASE ~IsPrefix(q, t.path)
      <4>1. IsPrefix(t.path, q)
        BY <1>1, <1>2, <3>1, <3>3, PrefixesCompare
      <4>2. PICK c \in Path : Len(c) = 1 /\ IsPrefix(t.path \o c, q)
        BY <1>1, <1>7, <4>1, NextStep
      <4>3. IsPrefix(t.path \o c, r.path)
        BY <1>1, <1>2, <3>1, <4>2, Concat, PrefixTransitive
      <4>4. OnTheWay(t, r, q)
        BY <4>2, <4>3 DEF OnTheWay
      <4>5. ~t.merge
        BY <1>4, <1>7, <4>4
      <4> QED
        BY <3>1, <3>3, <4>5 DEF Shape
    <3> QED
      BY <3>2, <3>3
  <2> QED
    BY <1>3, <1>4, <1>7, <2>1, <2>2 DEF put
<1> QED
  BY <1>5, <1>6, <1>7

-----------------------------------------------------------------------------
\* The keys of a write.

LEMMA WrittenBelow ==
    ASSUME NEW s, NEW t, GoodTarget(s, t)
    PROVE  \A k \in Written(t) : k \in Path /\ IsPrefix(t.path, k)
<1>1. t.path \in Path /\ \A c \in Children(t.value) : c \in Path
  BY DEF GoodTarget, IsTree, Children
<1>2. \A c \in Path : t.path \o c \in Path /\ IsPrefix(t.path, t.path \o c)
  BY <1>1, Concat, Extends
<1> QED
  BY <1>1, <1>2, PrefixReflexive DEF Written

\* They are those that the request names, or the first on its way that is not
\* there; without one, the request is an update of nothing.
LEMMA WrittenNames ==
    ASSUME NEW s, NEW t, NEW r \in Requests, GoodTarget(s, t), Shape(s, t, r)
    PROVE  /\ Written(t) # {} \/ Children(r.value) = {}
           /\ \A k \in Written(t) : IsPrefix(r.path, k) \/ (k # <<>> /\ IsPrefix(k, r.path))
<1> DEFINE at == t.path
           path == r.path
<1>1. /\ at \in Path /\ path \in Path /\ IsPrefix(at, path)
      /\ \A c \in Children(t.value) : c \in Path /\ Len(c) = 1
      /\ \A c \in Children(r.value) : c \in Path /\ Len(c) = 1
  BY RequestType DEF Shape, GoodTarget, IsTree, Children
<1>2. CASE ~t.merge
  <2>1. Written(t) = {path}
    BY <1>2 DEF Written, Shape
  <2> QED
    BY <1>1, <2>1, PrefixReflexive
<1>3. CASE t.merge
  <2>1. Written(t) = {at \o c : c \in Children(t.value)}
    BY <1>3 DEF Written
  <2>2. \A c \in Path : Len(c) = 1 =>
          (c \in DOMAIN t.value <=> IF at = path THEN c \in DOMAIN r.value ELSE IsPrefix(at \o c, path))
    BY <1>3, MergedKey
  <2> HIDE DEF at, path
  <2>3. \A c \in Path : at \o c \in Path /\ IsPrefix(at, at \o c)
    BY <1>1, Concat, Extends
  <2>4. CASE at = path
    <3>1. Children(t.value) = Children(r.value)
      BY <1>1, <2>2, <2>4 DEF Children
    <3> QED
      BY <1>1, <2>1, <2>3, <2>4, <3>1 DEF path
  <2>5. CASE at # path
    <3>1. PICK c \in Path : Len(c) = 1 /\ IsPrefix(at \o c, path)
      BY <1>1, <2>5, NextStep
    <3>2. c \in Children(t.value)
      BY <2>2, <2>5, <3>1 DEF Children
    <3>3. ASSUME NEW e \in Children(t.value)
          PROVE  at \o e # <<>> /\ IsPrefix(at \o e, path)
      <4>1. IsPrefix(at \o e, path)
        BY <1>1, <2>2, <2>5 DEF Children
      <4>2. Len(at \o e) = Len(at) + Len(e) /\ Len(at) \in Nat /\ Len(e) = 1
        BY <1>1, Concat, PathLength
      <4> QED
        BY <4>1, <4>2, EmptyPath
    <3> QED
      BY <2>1, <3>2, <3>3 DEF path
  <2> QED
    BY <2>4, <2>5
<1> QED
  BY <1>2, <1>3

-----------------------------------------------------------------------------
\* The initial states and the steps of the engine are those of the tree.

LEMMA RootRead ==
    ASSUME NEW s, StoreType(s)
    PROVE  Held(s, <<>>) = NodeOf(s, <<>>)
<1>1. <<>> \in DOMAIN s /\ ~InParent(s, <<>>)
  BY DEF StoreType, InParent
<1> QED
  BY <1>1, ReadRecord

LEMMA SeenRead ==
    ASSUME IInv
    PROVE  StoreType(Readable) /\ Visible = NodeOf(Readable, <<>>)
<1>1. StoreType(Readable)
  BY DEF IInv, GoodStore, Readable
<1> QED
  BY <1>1, RootRead DEF Visible

\* What reads give is what the tree has, but what is torn.
LEMMA SeenIsTree ==
    ASSUME IInv, write = {}
    PROVE  Store!Reads(Visible, Seen, torn)
<1>1. Readable = nodes /\ torn \in SUBSET Path /\ GoodStore(nodes, torn)
  BY DEF IInv, Readable
<1>2. DOMAIN Seen = Paths /\ \A p \in Paths : Seen[p] = ReadNode(nodes, p)
  BY <1>1 DEF Seen
<1>3. ASSUME NEW p \in Paths, \A k \in torn : ~IsPrefix(k, p), Seen[p] # At(Visible, p)
      PROVE  Seen[p] = Failed /\ \E k \in torn : IsPrefix(p, k)
  <2>1. p \in Path /\ Safe(p, torn)
    BY <1>3, RecordStoreAssumption DEF Safe
  <2>2. Held(nodes, p) = At(Visible, p)
    BY <1>1, <2>1, HeldBelowRoot DEF Visible
  <2>3. ReadFails(nodes, p)
    BY <1>2, <1>3, <2>2 DEF ReadNode
  <2>4. \E k \in torn : IsPrefix(p, k)
    BY <1>1, <2>1, <2>3, ReadsFail
  <2> QED
    BY <1>2, <2>3, <2>4 DEF ReadNode
<1>4. Store!Failed = Failed
  BY DEF Store!Failed, Failed
<1> QED
  BY <1>2, <1>3, <1>4, SameOperators DEF Store!Reads

LEMMA SeenAfter == IInv' /\ write' = {} => Store!Reads(Visible, Seen, torn)'
<1>1. IInv /\ write = {} => Store!Reads(Visible, Seen, torn)
  BY SeenIsTree
<1>2. (IInv /\ write = {} => Store!Reads(Visible, Seen, torn))'
  BY <1>1, PTL
<1> QED
  BY <1>2

LEMMA AgreeReads ==
    ASSUME NEW a, NEW b, DOMAIN a \subseteq Path, DOMAIN b \subseteq Path, NEW T,
           \A p \in Path : Safe(p, T) => Kind(a, p) = Kind(b, p)
    PROVE  Store!Agree(a, b, T)
BY SameOperators DEF Store!Agree, Safe

LEMMA InitIs ==
    ASSUME Init
    PROVE  Store!Init
<1>1. write = {} /\ torn = {} /\ nodes = [p \in {<<>>} |-> Object]
  BY DEF Init
<1>2. DOMAIN nodes = {<<>>} /\ nodes[<<>>] = Object /\ DOMAIN Object = {<<>>} /\ Object[<<>>] = "obj"
  BY <1>1 DEF Object
<1>3. Visible = NodeOf(nodes, <<>>)
  BY <1>1, InvInit, SeenRead DEF Readable
<1>4. \A x \in Path : <<>> \o x = x /\ (IsPrefix(x, <<>>) <=> x = <<>>)
  BY EmptyConcat, EmptyPath, PrefixReflexive, PrefixAntisymmetric, Extends
<1>5. \A x \in Path : (Known(nodes, x) <=> x = <<>>) /\ (x = <<>> => ValueOf(nodes, x) = "obj")
  <2>1. \A x \in Path : ~InParent(nodes, x)
    BY <1>2, ChildPath, FrontAndLast DEF InParent
  <2> QED
    BY <1>2, <1>4, <2>1 DEF Known, ValueOf
<1>6. NodeOf(nodes, <<>>) = [x \in {<<>>} |-> "obj"]
  <2>1. \A x \in Path : <<>> \o x = x
    BY <1>4
  <2>2. {x \in Path : Known(nodes, <<>> \o x)} = {<<>>}
    BY <1>5, <2>1, EmptyPath
  <2>3. \A x \in {<<>>} : ValueOf(nodes, <<>> \o x) = "obj"
    BY <1>5, <2>1, EmptyPath
  <2> QED
    BY <2>2, <2>3 DEF NodeOf
<1>7. Visible = Object
  BY <1>3, <1>6 DEF Object
<1>8. Seen = [p \in Paths |-> At(Object, p)]
  <2>1. Store!Reads(Visible, Seen, torn)
    BY <1>1, InvInit, SeenIsTree
  <2>2. \A p \in Paths : Seen[p] = At(Object, p)
    BY <1>1, <1>7, <2>1, SameOperators DEF Store!Reads
  <2> QED
    BY <2>2 DEF Seen
<1> QED
  BY <1>1, <1>7, <1>8, SameOperators DEF Store!Init

LEMMA BeginAsks ==
    ASSUME IInv, NEW r \in Requests, Begin(r)
    PROVE  Store!Ask
<1>1. write = {} /\ base' = nodes /\ nodes' = nodes /\ torn' = torn
  BY DEF Begin
<1> DEFINE w == [request |-> r, keys |-> Written(Target(nodes, r)), todo |-> Changes(nodes, Target(nodes, r))]
<1>2. write' = {w} /\ w.request = r
  BY DEF Begin
<1> HIDE DEF w
<1>3. Readable' = Readable
  BY <1>1, <1>2 DEF Readable
<1>4. Visible' = Visible /\ Seen' = Seen
  BY <1>3 DEF Visible, Seen
<1> QED
  BY <1>1, <1>2, <1>4 DEF Store!Ask

LEMMA StepStutters ==
    ASSUME IInv, NEW w \in write, NEW p \in DOMAIN w.todo, Step(w, p)
    PROVE  UNCHANGED <<Visible, Seen, {x.request : x \in write}, torn>>
<1>1. write = {w} /\ w = [request |-> w.request, keys |-> w.keys, todo |-> w.todo]
  BY DEF IInv, InWrite
<1> DEFINE v == [w EXCEPT !.todo = [q \in DOMAIN w.todo \ {p} |-> w.todo[q]]]
<1>2. write' = {v} /\ v.request = w.request
  <2>1. v.request = w.request
    BY <1>1
  <2> QED
    BY <2>1 DEF Step
<1> HIDE DEF v
<1>3. base' = base /\ torn' = torn
  BY DEF Step
<1>4. Visible' = Visible /\ Seen' = Seen
  <2>1. Readable' = Readable
    BY <1>1, <1>2, <1>3 DEF Readable
  <2> QED
    BY <2>1 DEF Visible, Seen
<1>5. {x.request : x \in write} = {w.request} /\ {x.request : x \in write'} = {w.request}
  BY <1>1, <1>2
<1> QED
  BY <1>3, <1>4, <1>5

\* What is known of the write that ends.
Ends(w, t) ==
    /\ w.request \in Requests /\ write = {w} /\ torn \subseteq Path
    /\ t = Target(base, w.request) /\ GoodTarget(base, t) /\ Shape(base, t, w.request)
    /\ GoodStore(base, torn) /\ Visible = NodeOf(base, <<>>)

LEMMA WriteEnds ==
    ASSUME IInv, NEW w \in write
    PROVE  Ends(w, Target(base, w.request))
<1>1. w.request \in Requests /\ write = {w} /\ torn \subseteq Path /\ GoodStore(base, torn)
  BY DEF IInv, InWrite
<1>2. StoreType(base)
  BY <1>1 DEF GoodStore
<1> QED
  BY <1>1, <1>2, TargetGood, TargetShape, SeenRead DEF Ends, Readable

\* A write that is done takes effect; at a path that a write failed on, it may
\* leave what is there.
LEMMA CommitWrites ==
    ASSUME NullsAtTop, IInv, NEW w \in write, Commit(w)
    PROVE  Store!Write \/ Store!Fail
<1> DEFINE t == Target(base, w.request)
           r == w.request
<1>1. Ends(w, t)
  BY WriteEnds
<1>2. write' = {} /\ nodes' = nodes /\ torn' = torn /\ DOMAIN w.todo = {} /\ torn \in SUBSET Path
  BY <1>1 DEF Commit, Ends
<1>3. Partly(base, t, DOMAIN Changes(base, t), nodes)
  <2>1. InWrite(w, base, nodes)
    BY DEF IInv
  <2>2. Partly(base, t, DOMAIN Changes(base, t) \ DOMAIN w.todo, nodes)
    BY <2>1 DEF InWrite
  <2>3. DOMAIN Changes(base, t) \ DOMAIN w.todo = DOMAIN Changes(base, t)
    BY <1>2
  <2> QED
    BY <2>2, <2>3, Zenon
<1>4. Visible' = NodeOf(nodes, <<>>) /\ StoreType(base) /\ Store!Reads(Visible', Seen', torn')
  <2>1. IInv'
    BY CommitKeeps
  <2>2. GoodStore(nodes', torn')
    BY <1>2, <2>1 DEF IInv
  <2>3. Held(nodes', <<>>) = NodeOf(nodes', <<>>)
    BY <2>2, RootRead DEF GoodStore
  <2>4. Visible' = NodeOf(nodes, <<>>) /\ StoreType(base)
    BY <1>1, <1>2, <2>3 DEF Visible, Readable, Ends, GoodStore
  <2>5. Store!Reads(Visible', Seen', torn')
    BY <1>2, <2>1, SeenAfter
  <2> QED
    BY <2>4, <2>5
<1>5. /\ r \in Requests /\ GoodTarget(base, t) /\ Shape(base, t, r) /\ GoodStore(base, torn)
      /\ Visible = NodeOf(base, <<>>) /\ write = {w}
  BY <1>1 DEF Ends
<1>6. {x.request : x \in write} = {r} /\ {x.request : x \in write'} = {}
  BY <1>2, <1>5
<1>7. /\ DOMAIN NodeOf(nodes, <<>>) \subseteq Path /\ DOMAIN NodeOf(base, <<>>) \subseteq Path
      /\ DOMAIN Store!Put(NodeOf(base, <<>>), r) \subseteq Path
      /\ \A p \in Path : /\ Kind(NodeOf(nodes, <<>>), p) = ReadsAs(nodes, p)
                         /\ Kind(NodeOf(base, <<>>), p) = ReadsAs(base, p)
  BY <1>4, <1>5, EmptyPath, KindRead, PutKind
<1> HIDE DEF t, r
<1>8. ASSUME Store!Agree(NodeOf(nodes, <<>>), Store!Put(NodeOf(base, <<>>), r), torn)
      PROVE  Store!Write
  BY <1>2, <1>4, <1>5, <1>6, <1>8 DEF Store!Write, r
<1>9. CASE Safe(t.path, torn)
  <2>1. \A p \in Path : Safe(p, torn) => ReadsAs(nodes, p) = Kind(Store!Put(NodeOf(base, <<>>), r), p)
    BY <1>2, <1>3, <1>5, <1>9, DoneReads
  <2> QED
    BY <1>7, <1>8, <2>1, AgreeReads
<1>10. CASE <<>> \in torn
  <2>1. \A p \in Path : ~Safe(p, torn)
    BY <1>10, EmptyPath, EmptyConcat, Extends DEF Safe
  <2> QED
    BY <1>7, <1>8, <2>1, AgreeReads
<1>11. CASE ~Safe(t.path, torn) /\ <<>> \notin torn
  <2> DEFINE keys == {k \in torn : IsPrefix(k, t.path)}
  <2>1. keys # {} /\ keys \in SUBSET torn' /\ torn' = torn \union keys
    BY <1>2, <1>11 DEF Safe
  <2>2. t.path \in Path /\ r.path \in Path /\ IsPrefix(t.path, r.path)
    BY <1>5, RequestType DEF Shape
  <2>3. \A k \in keys : k # <<>> /\ IsPrefix(k, r.path)
    BY <1>2, <1>11, <2>2, PrefixTransitive
  <2> HIDE DEF keys
  <2>4. \A p \in Path : Safe(p, torn) => ReadsAs(nodes, p) = ReadsAs(base, p)
    <3> SUFFICES ASSUME NEW p \in Path, Safe(p, torn)
                 PROVE  ReadsAs(nodes, p) = ReadsAs(base, p)
      OBVIOUS
    <3>1. ~IsPrefix(t.path, p)
      BY <1>2, <1>11, <2>2, SafeAbove
    <3>2. Safe(p, Written(t)) /\ p # t.path
      <4>1. \A k \in Written(t) : k \in Path /\ IsPrefix(t.path, k)
        BY <1>5, <2>2, WrittenBelow
      <4> QED
        BY <2>2, <3>1, <4>1, PrefixReflexive, PrefixTransitive DEF Safe
    <3> DEFINE D == DOMAIN Changes(base, t)
    <3>3. D \in SUBSET DOMAIN Changes(base, t) /\ Partly(base, t, D, nodes)
      BY <1>3
    <3> HIDE DEF D
    <3>4. p # t.path \/ p \notin D
      BY <3>2
    <3>5. Safe(p, Written(t)) /\ torn \in SUBSET Path
      BY <1>2, <3>2
    <3>6. GoodStore(base, torn) /\ GoodTarget(base, t)
      BY <1>5
    <3> QED
      BY <3>3, <3>4, <3>5, <3>6, Unwritten
  <2>5. Store!Agree(NodeOf(nodes, <<>>), NodeOf(base, <<>>), torn)
    BY <1>7, <2>4, AgreeReads
  <2>6. Store!Fail
    BY <1>2, <1>4, <1>5, <1>6, <2>1, <2>3, <2>5, SameOperators DEF Store!Fail, r
  <2> QED
    BY <2>6
<1> QED
  BY <1>9, <1>10, <1>11

\* A write that fails harms no data but that at its keys.
LEMMA FailFails ==
    ASSUME IInv, NEW w \in write, Fail(w)
    PROVE  Store!Fail
<1> DEFINE t == Target(base, w.request)
           r == w.request
           D == DOMAIN Changes(base, t) \ DOMAIN w.todo
<1>1. Ends(w, t)
  BY WriteEnds
<1>2. /\ write' = {} /\ nodes' = nodes /\ torn' = torn \union w.keys /\ torn \in SUBSET Path
      /\ w.todo # [p \in {} |-> Null]
  BY <1>1 DEF Fail, Ends
<1>3. /\ Partly(base, t, D, nodes) /\ w.keys = Written(t)
      /\ w.todo = [p \in DOMAIN w.todo |-> w.todo[p]]
      /\ t.path \in DOMAIN base => DOMAIN w.todo = {} \/ t.path \in DOMAIN w.todo
  BY DEF IInv, InWrite
<1>4. DOMAIN w.todo # {}
  BY <1>2, <1>3
<1>5. /\ r \in Requests /\ GoodTarget(base, t) /\ Shape(base, t, r) /\ GoodStore(base, torn)
      /\ Visible = NodeOf(base, <<>>) /\ write = {w}
  BY <1>1 DEF Ends
<1>6. Visible' = NodeOf(nodes, <<>>) /\ Store!Reads(Visible', Seen', torn')
  <2>1. IInv'
    BY FailKeeps
  <2>2. GoodStore(nodes', torn')
    BY <1>2, <2>1 DEF IInv
  <2>3. Held(nodes', <<>>) = NodeOf(nodes', <<>>)
    BY <2>2, RootRead DEF GoodStore
  <2>4. Visible' = NodeOf(nodes, <<>>)
    BY <1>2, <2>3 DEF Visible, Readable
  <2>5. Store!Reads(Visible', Seen', torn')
    BY <1>2, <2>1, SeenAfter
  <2> QED
    BY <2>4, <2>5
<1>7. {x.request : x \in write} = {r} /\ {x.request : x \in write'} = {}
  BY <1>2, <1>5
<1>8. /\ DOMAIN NodeOf(nodes, <<>>) \subseteq Path /\ DOMAIN NodeOf(base, <<>>) \subseteq Path
      /\ \A p \in Path : /\ Kind(NodeOf(nodes, <<>>), p) = ReadsAs(nodes, p)
                         /\ Kind(NodeOf(base, <<>>), p) = ReadsAs(base, p)
  BY EmptyPath, KindRead
<1>9. /\ D \in SUBSET DOMAIN Changes(base, t) /\ Written(t) \in SUBSET torn'
      /\ torn' = torn \union Written(t)
      /\ t.path \in DOMAIN base => t.path \notin D
  BY <1>2, <1>3, <1>4
<1> HIDE DEF t, r, D
<1>10. Store!Agree(NodeOf(nodes, <<>>), NodeOf(base, <<>>), torn')
  <2>1. ASSUME NEW p \in Path, Safe(p, torn')
        PROVE  ReadsAs(nodes, p) = ReadsAs(base, p)
    <3>1. Safe(p, torn) /\ Safe(p, Written(t))
      BY <1>9, <2>1, SafeAndWritten
    <3>2. p # t.path \/ p \notin D
      <4>1. t.path \in Path
        BY <1>5 DEF GoodTarget
      <4>2. p = t.path => p \in DOMAIN base
        BY <1>2, <1>5, <3>1, <4>1, PrefixReflexive, AboveTarget
      <4> QED
        BY <1>9, <4>2
    <3> QED
      BY <1>2, <1>3, <1>5, <1>9, <3>1, <3>2, Unwritten
  <2> QED
    BY <1>8, <2>1, AgreeReads
<1>11. /\ Written(t) # {} \/ Children(r.value) = {}
       /\ \A k \in Written(t) : IsPrefix(r.path, k) \/ (k # <<>> /\ IsPrefix(k, r.path))
  BY <1>5, WrittenNames
<1> QED
  BY <1>2, <1>5, <1>6, <1>7, <1>9, <1>10, <1>11, SameOperators DEF Store!Fail, r

LEMMA NextIs ==
    ASSUME NullsAtTop, IInv, [Next]_vars
    PROVE  Store!Next \/ UNCHANGED <<Visible, Seen, {w.request : w \in write}, torn>>
<1>1. ASSUME NEW r \in Requests, Begin(r)
      PROVE  Store!Next
  BY <1>1, BeginAsks DEF Store!Next
<1>2. ASSUME NEW w \in write, NEW p \in DOMAIN w.todo, Step(w, p)
      PROVE  UNCHANGED <<Visible, Seen, {x.request : x \in write}, torn>>
  BY <1>2, StepStutters
<1>3. ASSUME NEW w \in write, Commit(w)
      PROVE  Store!Next
  BY <1>3, CommitWrites DEF Store!Next
<1>4. ASSUME NEW w \in write, Fail(w)
      PROVE  Store!Next
  BY <1>4, FailFails DEF Store!Next
<1>5. CASE UNCHANGED vars
  BY <1>5 DEF vars, Visible, Seen, Readable
<1> QED
  BY <1>1, <1>2, <1>3, <1>4, <1>5 DEF Next

\* The engine is a tree (setNode, updateNode, transactNode and _writeNode of
\* custom storage): as readers see it, a write takes effect at once and does
\* what the request says, wherever the nodes it touches were stored and will
\* be, and one that fails in between harms no data but that it was for.
THEOREM RecordsImplementTree == NullsAtTop => (Spec => ImplementsTree)
<1> SUFFICES ASSUME NullsAtTop
             PROVE  Spec => ImplementsTree
  OBVIOUS
<1>1. Init => Store!Init
  BY InitIs
<1>2. IInv /\ [Next]_vars => [Store!Next]_<<Visible, Seen, {w.request : w \in write}, torn>>
  BY NextIs
<1> QED
  BY <1>1, <1>2, Invariance, PTL DEF Spec, ImplementsTree, Store!Spec
=============================================================================
