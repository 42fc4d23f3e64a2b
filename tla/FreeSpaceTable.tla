---------------------------- MODULE FreeSpaceTable ----------------------------
(***************************************************************************)
(* The free space table (FST) of the binary storage engine: which records  *)
(* of the database file are free.  One process, the master of the cluster, *)
(* keeps it in memory and saves it to a fixed part of the file after each  *)
(* change.  Workers ask the master to allocate and to release for them.    *)
(*                                                                         *)
(* A range is the records start .. end - 1 of a page.  The code keeps the  *)
(* ranges in an array; which of two equally suitable ranges comes first in *)
(* it is left open here, so the table is a set.                            *)
(*                                                                         *)
(* Several writes of the table may be under way, each may fail, and they   *)
(* end in any order.  behind and late keep track of it; no step of the     *)
(* program looks at them.                                                  *)
(***************************************************************************)
EXTENDS Integers, FiniteSets, SequencesExt

CONSTANTS
    RecordsPerPage, \* settings.pageSize
    Width,          \* what a start or an end is stored modulo (2^16)
    MaxScraps,      \* ranges that are not whole pages in an allocation (3)
    ManyScraps,     \* the same for a table with more than ManyRanges (10)
    ManyRanges,     \* (7500)
    MaxRanges,      \* ranges there is room for in the file (8191)
    MaxWrites,      \* bound on the writes in flight
    Tables          \* page counts and ranges of the database that is opened

Ranges == [page : Nat, start : Nat, end : Nat]

\* A table as releases and allocations leave it: no range is empty or leaves
\* its page, and no two of them overlap or touch.
Apart(r, q) == r.page # q.page \/ r.end < q.start \/ q.end < r.start
WellKept(R, p) ==
    /\ IsFiniteSet(R)
    /\ \A r \in R : r \in Ranges /\ r.page < p /\ r.start < r.end /\ r.end <= RecordsPerPage
    /\ \A r, q \in R : r # q => Apart(r, q)

ASSUME TableAssumption ==
    /\ RecordsPerPage \in Nat \ {0}
    /\ Width \in Nat /\ RecordsPerPage <= Width
    /\ {MaxScraps, ManyScraps} \subseteq Nat \ {0}
    /\ {ManyRanges, MaxRanges, MaxWrites} \subseteq Nat
    /\ \A t \in Tables : /\ t = [pages |-> t.pages, ranges |-> t.ranges]
                         /\ t.pages \in Nat /\ WellKept(t.ranges, t.pages)

VARIABLES
    ranges,   \* FST.ranges
    pages,    \* FST.pages
    file,     \* the table and the page count as the file has them
    writes,   \* writes of the table that were started and did not end, in the
              \* order in which they were; late if one started later has ended
    behind    \* whether a write that did not reach the file, or was written over
              \* by a late one, started later than the one the file is from

fstVars == <<ranges, pages, file, writes, behind>>

\* The records of a set of ranges, and how many there are.
RecordsOf(R) == UNION {{r.page} \X (r.start .. r.end - 1) : r \in R}
Total(R) == Cardinality(RecordsOf(R))
Size(r) == r.end - r.start
WholePage(p) == [page |-> p, start |-> 0, end |-> RecordsPerPage]
CeilDiv(a, b) == (a + b - 1) \div b

----------------------------------------------------------------------------
\* Allocation.  Each way to allocate n records from the ranges R is described
\* by the ranges it hands out, the ranges it leaves, and the pages it adds.

NewPages(n) == IF n > Total(ranges) THEN CeilDiv(n - Total(ranges), RecordsPerPage) ELSE 0

Exact(n, R) ==
    {[alloc |-> {r}, ranges |-> R \ {r}, added |-> 0] : r \in {q \in R : Size(q) = n}}

\* (mutant) The range keeps one record of what it hands out.
FirstFittingOverlaps(n, R) ==
    {[alloc |-> {[r EXCEPT !.end = r.start + n]},
      ranges |-> (R \ {r}) \union {[r EXCEPT !.start = r.start + n - 1]},
      added |-> 0] : r \in {q \in R : Size(q) > n}}

FirstFitting(n, R) ==
    {[alloc |-> {[r EXCEPT !.end = r.start + n]},
      ranges |-> (R \ {r}) \union {[r EXCEPT !.start = r.start + n]},
      added |-> 0] : r \in {q \in R : Size(q) > n}}

IsWhole(r) == Size(r) = RecordsPerPage
Scraps(T) == {r \in T : ~IsWhole(r)}
ScrapsAllowed(R) == IF Cardinality(R) > ManyRanges THEN ManyScraps ELSE MaxScraps

\* The ranges T, the last of them l, that the loop over the ranges in order
\* of their size gathers until there are enough, or too many scraps.
Gathered(n, R, T, l, max) ==
    /\ \A r \in T, q \in R \ T : Size(r) >= Size(q)
    /\ \A r \in T : Size(r) >= Size(l)
    /\ Total(T \ {l}) < n
    /\ Cardinality(Scraps(T \ {l})) <= max
    /\ Total(T) >= n \/ Cardinality(Scraps(T)) > max

UseScraps(n, R, T, l) ==
    LET cut == l.start + (n - Total(T \ {l})) IN
    [alloc |-> (T \ {l}) \union {[l EXCEPT !.end = cut]},
     ranges |-> (R \ T) \union (IF cut < l.end THEN {[l EXCEPT !.start = cut]} ELSE {}),
     added |-> 0]

\* Too fragmented: the whole pages found, and new pages from p on.
UsePages(n, R, T, p) ==
    LET whole == T \ Scraps(T)
        k == CeilDiv(n, RecordsPerPage) - Cardinality(whole)
        rest == n - Total(whole) - (k - 1) * RecordsPerPage
        last == WholePage(p + k - 1)
    IN [alloc |-> whole \union {WholePage(q) : q \in p .. p + k - 2}
                        \union {[last EXCEPT !.end = rest]},
        ranges |-> (R \ whole)
                     \union (IF rest < RecordsPerPage THEN {[last EXCEPT !.start = rest]} ELSE {}),
        added |-> k]

\* FST.allocate
Allocations(n) ==
    LET p == pages + NewPages(n)
        R == ranges \union {WholePage(q) : q \in pages .. p - 1}
        fits == IF n > RecordsPerPage THEN {}
                ELSE IF Exact(n, R) # {} THEN Exact(n, R) ELSE FirstFitting(n, R)
        scraps == {IF Cardinality(Scraps(t[1])) > ScrapsAllowed(R)
                     THEN UsePages(n, R, t[1], p) ELSE UseScraps(n, R, t[1], t[2]) :
                   t \in {u \in (SUBSET R) \X R :
                            u[2] \in u[1] /\ Gathered(n, R, u[1], u[2], ScrapsAllowed(R))}}
    IN {[o EXCEPT !.added = p + o.added - pages] : o \in IF fits # {} THEN fits ELSE scraps}

----------------------------------------------------------------------------
\* FST.write: a table that is too large loses its smallest ranges.
Dropped(R) ==
    {D \in SUBSET R : /\ Cardinality(R \ D) <= MaxRanges
                      /\ Cardinality(D) = (IF Cardinality(R) > MaxRanges
                                            THEN Cardinality(R) - MaxRanges ELSE 0)
                      /\ \A d \in D, r \in R \ D : Size(d) <= Size(r)}

\* What is sent to the file, starts and ends in 16 bits.
Image(R, p) ==
    [pages |-> p,
     ranges |-> {[r EXCEPT !.start = r.start % Width, !.end = r.end % Width] : r \in R}]

Write(R, p, who) ==
    /\ Len(writes) < MaxWrites
    /\ \E D \in Dropped(R) :
         /\ ranges' = R \ D
         /\ pages' = p
         /\ writes' = Append(writes, [image |-> Image(R \ D, p), for |-> who, late |-> FALSE])

\* The runs of records of S with nothing adjacent on either side: what adding,
\* sorting and merging ranges makes of the free records.
Runs(S) ==
    LET bounds == {x[2] : x \in S} \union {x[2] + 1 : x \in S}
    IN {r \in [page : {x[1] : x \in S}, start : bounds, end : bounds] :
          /\ r.start < r.end
          /\ RecordsOf({r}) \subseteq S
          /\ <<r.page, r.start - 1>> \notin S
          /\ <<r.page, r.end>> \notin S}

\* (mutant) The ranges are added to the table and not merged.
ReleasedUnmerged(S, who) == Write(ranges \union Runs(S), pages, who)

\* FST.release of the records S, for which nobody awaits the write.
Released(S, who) == Write(Runs(RecordsOf(ranges) \union S), pages, who)

\* FST.load
Load ==
    /\ ranges' = file.ranges
    /\ pages' = file.pages
    /\ writes' = <<>>
    /\ behind' = FALSE

\* The writes that are under way when the one at position i ends.
LeftAfter(i) ==
    RemoveAt([j \in DOMAIN writes |-> [writes[j] EXCEPT !.late = @ \/ j < i]], i)

\* A write of the table ends, the one at position i: nothing makes it wait for
\* those that were started before it.
Lands(i) ==
    /\ i \in DOMAIN writes
    /\ file' = writes[i].image
    /\ behind' = writes[i].late
    /\ writes' = LeftAfter(i)
    /\ UNCHANGED <<ranges, pages>>

\* It fails: the error is logged, and whoever waits goes on as if it had not.
LandsNot(i) ==
    /\ i \in DOMAIN writes
    /\ behind' = (behind \/ ~writes[i].late)
    /\ writes' = LeftAfter(i)
    /\ UNCHANGED <<ranges, pages, file>>

\* A new database, or one that was used before.
FSTInit ==
    /\ file \in Tables
    /\ ranges = file.ranges
    /\ pages = file.pages
    /\ writes = <<>>
    /\ behind = FALSE
=============================================================================
