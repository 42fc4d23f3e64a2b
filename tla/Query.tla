------------------------------- MODULE Query -------------------------------
(***************************************************************************)
(* query(): which filters go to which index, the index lookups, the        *)
(* intersection of their results, the scan of the children that is left,   *)
(* sorting, skip and take, while the data changes.  The lookups, matches   *)
(* and loads of one query are asynchronous: they finish in any order.      *)
(***************************************************************************)
EXTENDS Integers, FiniteSets, SequencesExt

CONSTANTS
    Children,   \* the child nodes of the path; numbers, ordered as their paths
    Keys,       \* their properties
    Databases,  \* what the data may be: child -> record, or NoRecord
    IndexSets,  \* which indexes there may be: sets of [key, include]
    Queries,    \* [filters, sort, skip, take]
    BatchSize,  \* matches of a scan that are awaited together; in the code 1000
    ReadErrors, \* whether listing the children may fail
    MaxWrites   \* bound on the writes during the query

\* A property that a record does not have.  An index compares it as less than
\* any value, as JavaScript does null and a positive number.
Missing == 0
NoRecord == [k \in Keys |-> Missing]

\* What a client can ask for.  Missing is no value that a filter compares with;
\* that a property is greater says that it is there.
Operators == {"<", "<=", "==", "!=", ">", ">=", "in", "!in", "between", "!between", "exists", "!exists"}
Filters ==
    {f \in [key : Keys, op : Operators, compare : Seq(Nat)] :
        /\ f.op \in {"between", "!between"} => Len(f.compare) = 2
        /\ f.op \in {"<", "<=", "==", "!=", ">", ">="} => Len(f.compare) = 1
        /\ f.op \in {"==", ">=", "in", "between"} => f.compare \in Seq(Nat \ {Missing})}
IsQuery(q) ==
    /\ q.filters \in Seq(Filters)
    /\ q.sort \in Seq([key : Keys, ascending : BOOLEAN])
    /\ q.skip \in Nat /\ q.take \in Int /\ q.snapshots \in BOOLEAN
IsIndex(ix) == ix.key \in Keys /\ ix.include \subseteq Keys

ASSUME QueryAssumption ==
    /\ Children \subseteq Nat /\ IsFiniteSet(Children)
    /\ Databases \subseteq [Children -> [Keys -> Nat]]
    /\ \A indexes \in IndexSets : IsFiniteSet(indexes) /\ \A ix \in indexes : IsIndex(ix)
    /\ \A q \in Queries : IsQuery(q)
    /\ BatchSize \in Nat \ {0} /\ ReadErrors \in BOOLEAN
    /\ MaxWrites \in Nat

\* The elements of a finite set, ordered by a relation.
Ranked(S, less) ==
    [n \in 1..Cardinality(S) |->
        CHOOSE x \in S : Cardinality({y \in S : <<y, x>> \in less}) = n - 1]
InOrder(S) == Ranked(S, {x \in S \X S : x[1] < x[2]})

VARIABLES
    data,    \* child -> record
    lag,     \* index -> what it still has of records written: [child, was]
    bare,    \* index -> entries for the missing key, which a build adds
    query,   \* the query that runs
    plan,    \* [filter, sort, usage]: the index of each filter and sort, and what for
    step,    \* "lookup", "scan", "load", "reload", "done", "failed", or "empty":
             \* an error that was met in the scan is answered with no results
    sets,    \* results of the index lookups that are done, by filter
    listed,  \* how many children the scan goes through
    todo,    \* children still to be matched or loaded
    loading, \* children that matched, whose value is being loaded
    matches, \* the results so far: a sequence of [child, val]
    writes,  \* writes since the query began
    seen     \* <<child, record>> that was so at some moment of the query

vars == <<data, lag, bare, query, plan, step, sets, listed, todo, loading, matches, writes, seen>>

----------------------------------------------------------------------------
\* Operators of filters: [key, op, compare], compare being a sequence.  Searches
\* of an index take the bounds of a range in either order.
OneOf(v, c) == v \in Range(c)
Between(v, c) == v >= Min(Range(c)) /\ v <= Max(Range(c))
Compare(op, v, c) ==
    CASE op = "<"  -> v < c[1]
      [] op = "<=" -> v <= c[1]
      [] op = "==" -> v = c[1]
      [] op = "!=" -> v # c[1]
      [] op = ">"  -> v > c[1]
      [] op = ">=" -> v >= c[1]
      [] op = "in"  -> OneOf(v, c)
      [] op = "!in" -> ~ OneOf(v, c)
      [] op = "between"  -> Between(v, c)
      [] op = "!between" -> ~ Between(v, c)
      [] op = "exists"   -> v # Missing
      [] op = "!exists"  -> v = Missing

\* A match in a scan takes the first bound for the lower one.
Test(op, v, c) ==
    CASE op = "between"  -> v >= c[1] /\ v <= c[2]
      [] op = "!between" -> v < c[1] \/ v > c[2]
      [] OTHER -> Compare(op, v, c)

\* matchNode: of a property that is not there only "!exists" holds.
TestNode(record, f) ==
    IF f.op = "!exists" THEN record[f.key] = Missing
    ELSE record[f.key] # Missing /\ Test(f.op, record[f.key], f.compare)

Holds(record, filters) == \A f \in filters : TestNode(record, f)
Satisfies(record, filters) == record # NoRecord /\ Holds(record, Range(filters))

----------------------------------------------------------------------------
\* The plan.  An index on the key of a filter is as good as the other filters
\* and the sorts that it has the keys of.
KeysFor(ix) == ix.include \union {ix.key}
OtherKeys(q, i) == {q.filters[j].key : j \in DOMAIN q.filters \ {i}}
SortKeys(q) == {q.sort[j].key : j \in DOMAIN q.sort}
ForFilters(ix, q, i) == KeysFor(ix) \cap OtherKeys(q, i)
ForSorting(ix, q, i) == KeysFor(ix) \cap (SortKeys(q) \ {q.filters[i].key})
Points(ix, q, i) ==
    LET f == Cardinality(ForFilters(ix, q, i))
        s == Cardinality(ForSorting(ix, q, i))
        b == Cardinality(ForFilters(ix, q, i) \union ForSorting(ix, q, i))
    IN f + s * (IF q.take # 0 THEN s ELSE 1) + b * b
Best(q, i, indexes) ==
    LET on == {ix \in indexes : ix.key = q.filters[i].key}
    IN {ix \in on : \A other \in on : Points(ix, q, i) >= Points(other, q, i)}

NoPlan(q) ==
    [filter |-> [i \in DOMAIN q.filters |-> {}], sort |-> [j \in DOMAIN q.sort |-> {}],
     usage |-> [i \in DOMAIN q.filters |-> "none"]]

\* The filters get their index in turn.  The index of one becomes that of all
\* others on its keys, whatever they had.
Assign(q, indexes, p, i) ==
    IF p.filter[i] # {} \/ Best(q, i, indexes) = {} THEN p
    ELSE LET ix == CHOOSE x \in Best(q, i, indexes) : TRUE
             also == {j \in DOMAIN q.filters \ {i} : q.filters[j].key \in ForFilters(ix, q, i)}
         IN [filter |-> [j \in DOMAIN q.filters |-> IF j \in also \union {i} THEN {ix} ELSE p.filter[j]],
             usage  |-> [j \in DOMAIN q.filters |->
                           IF j \in also THEN "metadata" ELSE IF j = i THEN "lookup" ELSE p.usage[j]],
             sort   |-> [j \in DOMAIN q.sort |->
                           IF q.sort[j].key \in ForSorting(ix, q, i) THEN {ix} ELSE p.sort[j]]]
Assigned(q, indexes) ==
    LET after[n \in 0..Len(q.filters)] ==
          IF n = 0 THEN NoPlan(q) ELSE Assign(q, indexes, after[n - 1], n)
    IN after[Len(q.filters)]

\* Without filters the first index on the key of a sort serves to sort.
PlanOf(q, indexes) ==
    LET p == Assigned(q, indexes)
        on(j) == {ix \in indexes : ix.key = q.sort[j].key}
    IN IF q.filters # <<>> \/ q.take = 0 THEN p
       ELSE [p EXCEPT !.sort = [j \in DOMAIN q.sort |->
                                  IF on(j) = {} THEN {} ELSE {CHOOSE ix \in on(j) : TRUE}]]

Lookups == {i \in DOMAIN query.filters : plan.usage[i] = "lookup"}
ScanFilters == {i \in DOMAIN query.filters : plan.filter[i] = {}}
Scanned == {query.filters[i] : i \in ScanFilters}

\* A query without filters takes the results from the index, when all of its
\* sort keys are in there.
SortedByIndex ==
    /\ query.filters = <<>> /\ query.sort # <<>>
    /\ \E ix \in plan.sort[1] : \A j \in DOMAIN query.sort \ {1} : query.sort[j].key \in ix.include
AllSortsIndexed == \A j \in DOMAIN query.sort : plan.sort[j] # {}

----------------------------------------------------------------------------
\* The entries of an index: [child, key, meta].  It has what a record was until
\* its update is done; the entries for a missing key stay what they were.
EntryOf(ix, c, record) ==
    [child |-> c, key |-> record[ix.key], meta |-> [k \in ix.include |-> record[k]]]
Indexed(ix, c) ==
    IF \E l \in lag[ix] : l.child = c THEN (CHOOSE l \in lag[ix] : l.child = c).was ELSE data[c]
EntriesOf(ix) ==
    bare[ix] \union {EntryOf(ix, c, Indexed(ix, c)) : c \in {x \in Children : Indexed(ix, x)[ix.key] # Missing}}

\* The entries that a search of the tree adds to its results.
SearchTree(ix, f) == {e \in EntriesOf(ix) : Compare(f.op, e.key, f.compare)}

\* A lookup: of the entries of one record the first counts.
IndexQuery(ix, f) ==
    LET found == SearchTree(ix, f)
    IN {e \in found : \A other \in found : other.child = e.child => e.key <= other.key}
FilterMetadata(e, ix, f) ==
    Compare(f.op, IF f.key = ix.key THEN e.key ELSE e.meta[f.key], f.compare)

IndexOf(i) == CHOOSE ix \in plan.filter[i] : TRUE
\* Lookup of filter i, with the filters on other keys of its index.
LookupOf(i) ==
    {e \in IndexQuery(IndexOf(i), query.filters[i]) :
       \A j \in DOMAIN query.filters : plan.usage[j] = "metadata" /\ plan.filter[j] = plan.filter[i]
           => FilterMetadata(e, IndexOf(i), query.filters[j])}

\* The records that all lookups found, and what the indexes say of them.  Missing
\* is undefined here where an index has the key, and null where none of them has.
Found == {c \in Children : \A i \in Lookups : \E e \in sets[i] : e.child = c}
Known(c) ==
    LET by(k) == {i \in Lookups : k \in KeysFor(IndexOf(i))}
        entry(i) == CHOOSE e \in sets[i] : e.child = c
        val(i, k) == IF k = IndexOf(i).key THEN entry(i).key ELSE entry(i).meta[k]
    IN [child |-> c,
        val |-> [k \in Keys |-> IF by(k) = {} THEN Missing ELSE val(CHOOSE i \in by(k) : TRUE, k)]]
KnownKeys == UNION {KeysFor(IndexOf(i)) : i \in Lookups}

----------------------------------------------------------------------------
\* The order of loaded results: a missing value is null, which is first (last when
\* descending) and ends the comparison; equal values leave it to the next key, and
\* then to the path.
Tied(a, b, n) == \A j \in 1..n : a.val[query.sort[j].key] = b.val[query.sort[j].key]
                                   /\ a.val[query.sort[j].key] # Missing
Ahead(a, b) == \E j \in DOMAIN query.sort :
    /\ Tied(a, b, j - 1)
    /\ LET left == a.val[query.sort[j].key]
           right == b.val[query.sort[j].key]
       IN IF query.sort[j].ascending THEN left < right ELSE left > right
Before(a, b) == Ahead(a, b) \/ (Tied(a, b, Len(query.sort)) /\ a.child < b.child)
StableBefore(s, i, j) == Before(s[i], s[j]) \/ (i < j /\ ~ Before(s[j], s[i]))
SortMatches(s) ==
    LET order == Ranked(DOMAIN s, {x \in (DOMAIN s) \X (DOMAIN s) : StableBefore(s, x[1], x[2])})
    IN [n \in DOMAIN s |-> s[order[n]]]
Sorted(s) == IF query.sort = <<>> THEN s ELSE SortMatches(s)

\* The order by what indexes say, which have these keys: a missing value of them is
\* undefined, equal to another one, but neither less nor more than a value.  Two
\* results that differ in that have no order, and a sort of them and others may end
\* in any.  A key that no index has is null and ends the comparison.
Same(a, b, n) == \A j \in 1..n : a.val[query.sort[j].key] = b.val[query.sort[j].key]
Prior(a, b, keys) == \E j \in DOMAIN query.sort :
    /\ Same(a, b, j - 1) /\ \A h \in 1..j : query.sort[h].key \in keys
    /\ LET left == a.val[query.sort[j].key]
           right == b.val[query.sort[j].key]
       IN IF query.sort[j].ascending THEN left < right ELSE left > right
Undecided(S) == \E a, b \in S, j \in DOMAIN query.sort :
    /\ Same(a, b, j - 1)
    /\ a.val[query.sort[j].key] = Missing /\ b.val[query.sort[j].key] # Missing
Precedes(a, b) ==
    \/ Prior(a, b, KnownKeys)
    \/ query.sort # <<>> /\ SortKeys(query) \subseteq KnownKeys /\ Same(a, b, Len(query.sort)) /\ a.child < b.child
\* A set in an order that puts none before one that precedes it.
Orders(S, before) ==
    {t \in SetToSeqs(S) : \A i, j \in DOMAIN t : i < j => <<t[j], t[i]>> \notin before}
KnownOrders ==
    LET S == {Known(c) : c \in Found}
    IN Orders(S, IF Undecided(S) THEN {} ELSE {x \in S \X S : Precedes(x[1], x[2])})

\* A query without filters takes 100, if it does not say how many.
Take == IF query.filters = <<>> /\ query.take = 0 THEN 100 ELSE query.take
Limit == query.skip + (IF Take < 0 THEN 0 - Take ELSE Take)
Skipped(s) ==
    IF query.skip = 0 THEN s
    ELSE IF Take < 0 THEN SubSeq(s, 1, Len(s) - query.skip)
    ELSE SubSeq(s, query.skip + 1, Len(s))
Taken(s) ==
    IF Take = 0 THEN s
    ELSE IF Take < 0 THEN SubSeq(s, IF Len(s) + Take < 0 THEN 1 ELSE Len(s) + Take + 1, Len(s))
    ELSE SubSeq(s, 1, IF Take < Len(s) THEN Take ELSE Len(s))
Window(s) == Taken(Skipped(s))

\* More than is asked for: the last is tossed, when sorted the last of the order.
TossedUnsorted(s) == IF Take # 0 /\ Len(s) > Limit THEN Front(s) ELSE s
Tossed(s) == IF Take # 0 /\ Len(s) > Limit THEN Front(Sorted(s)) ELSE s
TossedLoadAlways(s) == IF Len(s) > Limit THEN Front(SortMatches(s)) ELSE s
TossedLoad(s) == IF query.skip > 0 /\ Len(s) > Limit THEN Front(SortMatches(s)) ELSE s

----------------------------------------------------------------------------
Init ==
    /\ data \in Databases
    /\ \E indexes \in IndexSets :
          /\ lag = [ix \in indexes |-> {}]
          /\ \E built \in BOOLEAN :
                bare = [ix \in indexes |->
                    IF ~ built THEN {} ELSE {EntryOf(ix, c, data[c]) :
                        c \in {x \in Children : data[x] # NoRecord /\ data[x][ix.key] = Missing}}]
    /\ query \in Queries
    /\ plan = PlanOf(query, DOMAIN lag)
    /\ step = "lookup"
    /\ sets = <<>> /\ listed = 0 /\ todo = {} /\ loading = {} /\ matches = <<>>
    /\ writes = 0 /\ seen = {<<c, data[c]>> : c \in Children}

\* A lookup of one index is done.
Lookup(i) ==
    /\ step = "lookup" /\ i \in Lookups \ DOMAIN sets
    /\ sets' = [j \in DOMAIN sets \union {i} |-> IF j = i THEN LookupOf(i) ELSE sets[j]]
    /\ UNCHANGED <<data, lag, bare, query, plan, step, listed, todo, loading, matches, writes, seen>>

\* The entries of the index that sorts, from the end when the last are taken;
\* those of equal keys are ordered by the other sort keys.
SortIndex == CHOOSE ix \in plan.sort[1] : TRUE
Upwards == IF Take < 0 THEN ~ query.sort[1].ascending ELSE query.sort[1].ascending
\* What an entry of it says of its record.
Listing(e) ==
    [child |-> e.child,
     val |-> [k \in Keys |-> IF k = SortIndex.key THEN e.key
                             ELSE IF k \in SortIndex.include THEN e.meta[k] ELSE Missing]]
EntryBefore(a, b) ==
    IF a.key # b.key THEN IF Upwards THEN a.key < b.key ELSE a.key > b.key
    ELSE /\ ~ Undecided({Listing(e) : e \in {x \in EntriesOf(SortIndex) : x.key = a.key}})
         /\ Prior(Listing(a), Listing(b), KeysFor(SortIndex))
IndexOrders ==
    LET S == EntriesOf(SortIndex)
    IN Orders(S, {x \in S \X S : EntryBefore(x[1], x[2])})

\* The results of that index, without a lookup.
IndexTake ==
    /\ step = "lookup" /\ SortedByIndex
    /\ \E entries \in IndexOrders :
       LET last == IF Limit < Len(entries) THEN Limit ELSE Len(entries)
           window == SubSeq(entries, query.skip + 1, last)
       IN /\ matches' = [n \in DOMAIN window |-> Listing(window[n])]
          /\ todo' = IF query.snapshots THEN {window[n].child : n \in DOMAIN window} ELSE {}
          /\ step' = IF query.snapshots THEN "reload" ELSE "done"
    /\ UNCHANGED <<data, lag, bare, query, plan, sets, listed, loading, writes, seen>>

\* All lookups are done.  Their results are the answer when no filter is left,
\* unless they must be loaded to be sorted; else the children are scanned.
KeyFilterNone == Children
KeyFilter == IF Found = {} THEN Children ELSE Found
Existing == {c \in Children : data[c] # NoRecord}
Listed == (IF Lookups = {} THEN Children ELSE KeyFilter) \cap Existing
Merge ==
    /\ step = "lookup" /\ ~ SortedByIndex /\ Lookups = DOMAIN sets
    /\ LET indexed == Lookups # {} /\ ScanFilters = {}
       IN \/ /\ indexed /\ AllSortsIndexed
             /\ \E known \in KnownOrders : matches' = Window(known)
             /\ todo' = IF query.snapshots THEN {m.child : m \in Range(matches')} ELSE {}
             /\ step' = IF query.snapshots THEN "reload" ELSE "done"
             /\ UNCHANGED listed
          \/ /\ indexed /\ ~ AllSortsIndexed
             /\ todo' = Found /\ step' = "load" /\ UNCHANGED <<listed, matches>>
          \/ /\ ~ indexed
             /\ todo' = Listed /\ listed' = Cardinality(Listed) /\ step' = "scan" /\ UNCHANGED matches
    /\ UNCHANGED <<data, lag, bare, query, plan, sets, loading, writes, seen>>

\* A match more, and the last one tossed if that is too many.  Without an order
\* the scan then stops: the children that are still matched are tossed too.
Push(m) ==
    /\ matches' = Tossed(Append(matches, m))
    /\ todo' = IF Take > 0 /\ query.sort = <<>> /\ Len(matches) = Limit THEN {} ELSE todo \ {m.child}

\* matchNode of a child in the scan.  It fails on a child removed meanwhile: writes
\* wait for the listing to end, or until its lock expires.  Full batches are awaited
\* in the listing, and an error there is taken for a path that does not exist; one
\* in the last batch is that of the query.
Empty == step' = "empty" /\ matches' = <<>> /\ todo' = {}
MatchFails ==
    \/ listed >= BatchSize /\ Empty
    \/ listed % BatchSize # 0 /\ step' = "failed" /\ todo' = {} /\ UNCHANGED matches
\* The value is loaded when it is asked for or sorted.
Match(c) ==
    /\ step = "scan" /\ c \in todo
    /\ \/ data[c] = NoRecord /\ Scanned # {} /\ MatchFails /\ UNCHANGED loading
       \/ /\ data[c] # NoRecord \/ Scanned = {}
          /\ UNCHANGED step
          /\ \/ ~ Holds(data[c], Scanned) /\ todo' = todo \ {c} /\ UNCHANGED <<loading, matches>>
             \/ /\ Holds(data[c], Scanned) /\ (query.snapshots \/ query.sort # <<>>)
                /\ todo' = todo \ {c} /\ loading' = loading \union {c} /\ UNCHANGED matches
             \/ /\ Holds(data[c], Scanned) /\ ~ query.snapshots /\ query.sort = <<>>
                /\ Push([child |-> c, val |-> NoRecord]) /\ UNCHANGED loading
    /\ UNCHANGED <<data, lag, bare, query, plan, sets, listed, writes, seen>>

\* The children cannot be listed, or not any more: reading them fails, or looking
\* them up in a tree with an empty first or last leaf (CanLookUp of KeyTree).
ListingFails ==
    /\ ReadErrors /\ step = "scan" /\ Empty
    /\ UNCHANGED <<data, lag, bare, query, plan, sets, listed, loading, writes, seen>>

LoadValue(c) ==
    /\ step = "scan" /\ c \in loading
    /\ loading' = loading \ {c}
    /\ Push([child |-> c, val |-> data[c]])
    /\ UNCHANGED <<data, lag, bare, query, plan, step, sets, listed, writes, seen>>

\* All children are matched: sort, skip and take.  Sorted results were loaded
\* with their sort keys only, and are loaded again.
FinishScan ==
    /\ step = "scan" /\ todo = {} /\ loading = {}
    /\ matches' = Window(Sorted(matches))
    /\ todo' = IF query.sort = <<>> THEN {} ELSE {m.child : m \in Range(matches')}
    /\ step' = IF query.sort = <<>> THEN "done" ELSE "reload"
    /\ UNCHANGED <<data, lag, bare, query, plan, sets, listed, loading, writes, seen>>

\* loadResultsData before the results are sorted: one that was removed is left
\* out, and the last one is tossed when skip and take are exceeded.
LoadResult(c) ==
    /\ step = "load" /\ c \in todo
    /\ todo' = todo \ {c}
    /\ matches' = IF data[c] = NoRecord THEN matches
                  ELSE TossedLoad(Append(matches, [child |-> c, val |-> data[c]]))
    /\ UNCHANGED <<data, lag, bare, query, plan, step, sets, listed, loading, writes, seen>>
FinishLoad ==
    /\ step = "load" /\ todo = {}
    /\ matches' = Window(SortMatches(matches))
    /\ todo' = IF query.snapshots THEN {m.child : m \in Range(matches')} ELSE {}
    /\ step' = IF query.snapshots THEN "reload" ELSE "done"
    /\ UNCHANGED <<data, lag, bare, query, plan, sets, listed, loading, writes, seen>>

\* loadResultsData of the results: they keep their places.
Without(s, c) ==
    LET places == InOrder({n \in DOMAIN s : s[n].child # c})
    IN [n \in DOMAIN places |-> s[places[n]]]
Reload(c) ==
    /\ step = "reload" /\ c \in todo
    /\ todo' = todo \ {c}
    /\ matches' = IF data[c] = NoRecord THEN Without(matches, c)
                  ELSE [n \in DOMAIN matches |->
                          IF matches[n].child = c THEN [child |-> c, val |-> data[c]] ELSE matches[n]]
    /\ UNCHANGED <<data, lag, bare, query, plan, step, sets, listed, loading, writes, seen>>
FinishReload ==
    /\ step = "reload" /\ todo = {} /\ step' = "done"
    /\ UNCHANGED <<data, lag, bare, query, plan, sets, listed, todo, loading, matches, writes, seen>>

Ended == step \in {"done", "failed", "empty"}

\* A record is written; the indexes are updated after it, one by one.
Write(c, record) ==
    /\ ~ Ended /\ writes < MaxWrites /\ record # data[c]
    /\ data' = [data EXCEPT ![c] = record]
    /\ lag' = [ix \in DOMAIN lag |-> lag[ix] \union {[child |-> c, was |-> Indexed(ix, c)]}]
    /\ writes' = writes + 1
    /\ seen' = seen \union {<<c, record>>}
    /\ UNCHANGED <<bare, query, plan, step, sets, listed, todo, loading, matches>>
UpdateIndex(ix) ==
    /\ ~ Ended /\ lag[ix] # {}
    /\ lag' = [lag EXCEPT ![ix] = {}]
    /\ UNCHANGED <<data, bare, query, plan, step, sets, listed, todo, loading, matches, writes, seen>>

Stop == Ended /\ UNCHANGED vars

Next ==
    \/ \E i \in DOMAIN query.filters : Lookup(i)
    \/ IndexTake \/ Merge \/ ListingFails \/ FinishScan \/ FinishLoad \/ FinishReload
    \/ \E c \in Children : Match(c) \/ LoadValue(c) \/ LoadResult(c) \/ Reload(c)
    \/ \E c \in Children, record \in UNION {Range(d) : d \in Databases} : Write(c, record)
    \/ \E ix \in DOMAIN lag : UpdateIndex(ix)
    \/ Stop

Spec == Init /\ [][Next]_vars

----------------------------------------------------------------------------
\* What the answers below are exempt from; see the hazards of the README.

\* The lookup of an index is lost when all filters on it were given to it as
\* that of another filter, and that one went to the index of a third.
Lost(i) == plan.usage[i] = "metadata" /\ \A j \in Lookups : plan.filter[j] # plan.filter[i]
\* An index compares a missing value as null.
ByNull(c, f) == f.op \in {"<", "<=", "!=", "!in", "!between"} /\ \E r \in {p[2] : p \in {p \in seen : p[1] = c}} : r[f.key] = Missing
\* Without results of the lookups the scan looks at all children.
Emptied == Lookups # {} /\ ScanFilters # {} /\ Found = {}
\* Records that the index has no entry of.
Unlisted(i) == plan.filter[i] # {} /\ query.filters[i].op = "!exists"

\* Every record in an answer has met each of the filters at some moment of the
\* query, whichever index or scan has applied it and whatever was written
\* between the lookups, the matches and the loads.
Sound == step = "done" => \A m \in Range(matches), i \in DOMAIN query.filters :
    LET f == query.filters[i]
    IN \/ Lost(i) \/ (plan.filter[i] # {} /\ (Emptied \/ ByNull(m.child, f)))
       \/ \E s \in seen : s[1] = m.child /\ TestNode(s[2], f)

\* A record that meets all filters all the time is in the answer, if no skip or
\* take leaves it out: no lookup, intersection, scan or load loses it.  The answer
\* that an error in the scan has emptied (ListingFails, MatchFails) is "empty", and
\* not "done".
Complete ==
    (step = "done" /\ query.skip = 0 /\ Take = 0 /\ ~ \E i \in DOMAIN query.filters : Unlisted(i)) =>
        \A c \in Children :
            (\A s \in seen : s[1] = c => Satisfies(s[2], query.filters)) => \E m \in Range(matches) : m.child = c

\* Where the last must not be tossed: they are the ones to take, or nothing is
\* to be tossed at all.
TossesWrong ==
    \/ Take < 0 /\ query.sort # <<>> /\ (Lookups = {} \/ ScanFilters # {} \/ ~ AllSortsIndexed)
    \/ query.skip > 0 /\ Take = 0 /\ Lookups # {} /\ ScanFilters = {} /\ ~ AllSortsIndexed
\* A sort that waits for the index of a lookup that is lost.
SortLost == \E j \in DOMAIN query.sort : plan.sort[j] # {} /\ ~ SortedByIndex
                                         /\ \A i \in Lookups : plan.filter[i] # plan.sort[j]
Unsortable == SortedByIndex /\ \E c \in Existing : data[c][query.sort[1].key] = Missing

\* Results that are sorted by what an index says of them, one without a sort key.
Disordered(S) ==
    (SortedByIndex \/ (Lookups # {} /\ ScanFilters = {} /\ AllSortsIndexed)) /\ Undecided(S)

\* While nothing is written, the answer is the part of the sorted matches that
\* skip and take ask for, whichever of the four ways the plan goes: of the right
\* length, and each record at a place that the order allows it.
WindowRight ==
    (step = "done" /\ writes = 0 /\ ~ TossesWrong /\ ~ SortLost /\ ~ Unsortable /\ ~ Emptied
     /\ \A i \in DOMAIN query.filters : ~ Lost(i) /\ (plan.filter[i] # {} => ~ Unlisted(i)
            /\ \A c \in Children : ~ ByNull(c, query.filters[i]))) =>
        LET all == {[child |-> c, val |-> data[c]] : c \in {x \in Children : Satisfies(data[x], query.filters)}}
            before(a, b) == IF SortedByIndex THEN Ahead(a, b) ELSE Before(a, b)
            n == Cardinality(all)
            from == IF Take < 0 THEN (IF n - Limit > 0 THEN n - Limit ELSE 0) ELSE query.skip
            length == Len(Window([i \in 1..n |-> i]))
        IN /\ Len(matches) = length
           /\ IsInjective([i \in DOMAIN matches |-> matches[i].child])
           /\ \A i \in DOMAIN matches : \E m \in all :
                 /\ m.child = matches[i].child
                 /\ query.sort # <<>> /\ ~ Disordered(all) =>
                       /\ Cardinality({x \in all : before(x, m)}) < from + i
                       /\ Cardinality({x \in all : before(m, x)}) <= n - (from + i)

\* README.md: "The filtered results must match all conditions set (logical AND)".
LogicalAnd ==
    (step = "done" /\ writes = 0) => \A m \in Range(matches) : Satisfies(data[m.child], query.filters)
=============================================================================
