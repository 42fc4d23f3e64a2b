----------------------------- MODULE RecordWrite -----------------------------
(***************************************************************************)
(* How the binary storage engine moves a node to new records: it allocates *)
(* records in the free space table, writes the value there, stores the new *)
(* address in the parent (or, for the root, in the header of the file) and *)
(* frees the records the node had.  Several nodes are written at a time,   *)
(* each by the holder of its lock, and the program may stop at any step.   *)
(***************************************************************************)
EXTENDS FreeSpaceTable

CONSTANTS
    Nodes,          \* the nodes that are stored in records of their own
    Lengths,        \* sizes in bytes of the values written
    BytesPerRecord, \* settings.recordSize
    MaxPages        \* bound on the pages the file grows to

ASSUME RecordAssumption ==
    /\ IsFiniteSet(Nodes)
    /\ Lengths \subseteq Nat
    /\ BytesPerRecord \in Nat \ {0}
    /\ MaxPages \in Nat

VARIABLES
    phase,   \* where the write of each node is
    length,  \* the bytes it writes
    cur,     \* ranges of the record the parent of the node refers to, on file
    new,     \* ranges that are allocated for its next record
    old,     \* ranges of the record it had, to be released
    damaged  \* the program was started with a table that cannot be right

vars == <<ranges, pages, file, writes, behind, phase, length, cur, new, old, damaged>>

----------------------------------------------------------------------------
\* _write: calculateStorageNeeds.  A header of 4 bytes, or of 7 and 9 for
\* each chunk after the first when the value needs more than one record.
RecordsNeeded(bytes, chunks) ==
    LET one == CeilDiv(bytes + 4, BytesPerRecord)
    IN IF one > 1 THEN CeilDiv(bytes + 7 + 9 * (chunks - 1), BytesPerRecord) ELSE one

\* The number of records asked for, with the chunks expected at worst.
Smaller(a, b) == IF a < b THEN a ELSE b
RecordsAsked(bytes) ==
    LET n == RecordsNeeded(bytes, 1)
        chunks == n \div RecordsPerPage + Smaller(ScrapsAllowed(ranges), n % RecordsPerPage)
    IN IF n > 1 THEN RecordsNeeded(bytes, chunks) ELSE n

Chunks(A) == Cardinality(A)

\* Ranges of A that n records fit in: the ones kept, the last one cut.
Kept(A, n) ==
    {(k[1] \ {k[2]}) \union {[k[2] EXCEPT !.end = k[2].start + (n - Total(k[1] \ {k[2]}))]} :
       k \in {j \in (SUBSET A) \X A :
                j[2] \in j[1] /\ Total(j[1] \ {j[2]}) < n /\ n <= Total(j[1])}}

----------------------------------------------------------------------------
Init ==
    /\ FSTInit
    /\ phase = [n \in Nodes |-> "idle"]
    /\ length = [n \in Nodes |-> 0]
    /\ cur = [n \in Nodes |-> {}]
    /\ new = [n \in Nodes |-> {}]
    /\ old = [n \in Nodes |-> {}]
    /\ damaged = FALSE

\* _write asks for records; the allocation is there when the write of the table
\* ended, and the file has its new length if pages were added.
Allocate(n) ==
    /\ phase[n] = "idle"
    /\ \E bytes \in Lengths : \E o \in Allocations(RecordsAsked(bytes)) :
         /\ pages + o.added <= MaxPages
         /\ Write(o.ranges, pages + o.added, {n})
         /\ length' = [length EXCEPT ![n] = bytes]
         /\ new' = [new EXCEPT ![n] = o.alloc]
         /\ phase' = [phase EXCEPT ![n] = IF o.added > 0 THEN "growing" ELSE "allocating"]
    /\ UNCHANGED <<file, behind, cur, old>>

\* A write of the table ends, and with it the allocation it was part of, also
\* when it failed.
TableWritten ==
    \E i \in DOMAIN writes :
        /\ Lands(i) \/ LandsNot(i)
        /\ phase' = [n \in Nodes |-> IF writes[i].for = {n} THEN "allocated" ELSE phase[n]]
        /\ UNCHANGED <<length, cur, new, old>>

\* The file cannot be made longer: the allocation fails, and nobody frees its
\* records.  The write of the table goes on.
GrowFails(n) ==
    /\ phase[n] = "growing"
    /\ phase' = [phase EXCEPT ![n] = "idle"]
    /\ length' = [length EXCEPT ![n] = 0]
    /\ new' = [new EXCEPT ![n] = {}]
    /\ writes' = [i \in DOMAIN writes |->
                    IF writes[i].for = {n} THEN [writes[i] EXCEPT !.for = {}] ELSE writes[i]]
    /\ UNCHANGED <<ranges, pages, file, behind, cur, old>>

\* (mutant) The records that are not needed are not released.
TrimForgets(n) ==
    /\ phase[n] = "allocated"
    /\ LET need == RecordsNeeded(length[n], Chunks(new[n]))
       IN IF need < Total(new[n])
            THEN new' \in {[new EXCEPT ![n] = K] : K \in Kept(new[n], need)}
            ELSE UNCHANGED new
    /\ phase' = [phase EXCEPT ![n] = "storing"]
    /\ length' = [length EXCEPT ![n] = 0]
    /\ UNCHANGED <<fstVars, cur, old>>

\* (mutant) The write of the table is not awaited.
TrimUnsaved(n) ==
    /\ phase[n] \in {"allocating", "growing", "allocated"}
    /\ phase' = [phase EXCEPT ![n] = "storing"]
    /\ length' = [length EXCEPT ![n] = 0]
    /\ UNCHANGED <<fstVars, cur, new, old>>

\* What it turns out not to need is released; then the value is written.
Trim(n) ==
    /\ phase[n] = "allocated"
    /\ LET need == RecordsNeeded(length[n], Chunks(new[n]))
       IN IF need < Total(new[n])
            THEN \E K \in Kept(new[n], need) :
                   /\ Released(RecordsOf(new[n]) \ RecordsOf(K), {})
                   /\ new' = [new EXCEPT ![n] = K]
            ELSE UNCHANGED <<ranges, pages, writes, new>>
    /\ phase' = [phase EXCEPT ![n] = "storing"]
    /\ length' = [length EXCEPT ![n] = 0]
    /\ UNCHANGED <<file, behind, cur, old>>

\* The write of the value, or of its address, fails.  Nobody frees the records.
StoreFails(n) ==
    /\ phase[n] = "storing"
    /\ phase' = [phase EXCEPT ![n] = "idle"]
    /\ new' = [new EXCEPT ![n] = {}]
    /\ UNCHANGED <<fstVars, length, cur, old>>

\* The value is written, and its address is in the file: in the header for
\* the root (rootRecord.update), in the parent for another node (_updateNode).
Link(n) ==
    /\ phase[n] = "storing"
    /\ phase' = [phase EXCEPT ![n] = "linked"]
    /\ old' = [old EXCEPT ![n] = cur[n]]
    /\ cur' = [cur EXCEPT ![n] = new[n]]
    /\ new' = [new EXCEPT ![n] = {}]
    /\ UNCHANGED <<fstVars, length>>

\* The parent is written without the node.
Unlink(n) ==
    /\ phase[n] = "idle" /\ cur[n] # {}
    /\ phase' = [phase EXCEPT ![n] = "linked"]
    /\ old' = [old EXCEPT ![n] = cur[n]]
    /\ cur' = [cur EXCEPT ![n] = {}]
    /\ UNCHANGED <<fstVars, length, new>>

\* _updateNode: the old allocation is released, and the lock.
Free(n) ==
    /\ phase[n] = "linked"
    /\ IF old[n] = {} THEN UNCHANGED <<ranges, pages, writes>>
                      ELSE Released(RecordsOf(old[n]), {})
    /\ phase' = [phase EXCEPT ![n] = "idle"]
    /\ old' = [old EXCEPT ![n] = {}]
    /\ UNCHANGED <<file, behind, length, cur, new>>

\* A table that can be worked with: well kept, and every record that a node on
\* file uses is in a page of it and not free.
Sound(t) ==
    /\ WellKept(t.ranges, t.pages)
    /\ \A n \in Nodes :
         RecordsOf(cur[n]) \subseteq
           ((0 .. t.pages - 1) \X (0 .. RecordsPerPage - 1)) \ RecordsOf(t.ranges)

\* The program stops and is started again.  It does not look whether the table
\* it finds is sound; what it does with one that is not is not followed.
Restart ==
    /\ Load
    /\ phase' = [n \in Nodes |-> "idle"]
    /\ new' = [n \in Nodes |-> {}]
    /\ old' = [n \in Nodes |-> {}]
    /\ length' = [n \in Nodes |-> 0]
    /\ damaged' = ~Sound(file)
    /\ UNCHANGED <<file, cur>>

Work(n) ==
    \/ Allocate(n) \/ GrowFails(n) \/ Trim(n) \/ StoreFails(n)
    \/ Link(n) \/ Unlink(n) \/ Free(n)

Next ==
    /\ ~damaged
    /\ \/ (\E n \in Nodes : Work(n)) /\ UNCHANGED damaged
       \/ TableWritten /\ UNCHANGED damaged
       \/ Restart

Spec == Init /\ [][Next]_vars

----------------------------------------------------------------------------
\* Properties.

Owned(n) == cur[n] \union new[n] \union old[n]
Records == (0 .. pages - 1) \X (0 .. RecordsPerPage - 1)

\* A record of the file has at most one use: it is in one free range, or in one
\* of the allocations of one node (FST.allocate and release, _write), as long as
\* the program was never started with a table that was not sound.
OneOwner ==
    damaged \/
    /\ RecordsOf(ranges) \subseteq Records
    /\ \A r, q \in ranges : r # q => RecordsOf({r}) \intersect RecordsOf({q}) = {}
    /\ \A n \in Nodes :
         /\ RecordsOf(Owned(n)) \subseteq Records \ RecordsOf(ranges)
         /\ \A m \in Nodes \ {n} : RecordsOf(Owned(n)) \intersect RecordsOf(Owned(m)) = {}
         /\ RecordsOf(new[n]) \intersect RecordsOf(cur[n] \union old[n]) = {}
         /\ RecordsOf(cur[n]) \intersect RecordsOf(old[n]) = {}

\* The program may stop at any time: the table in the file does not have a record
\* free that a node on file uses, or no page of it (allocate and release against
\* load).  It does so only while the file is behind: the write of a later table
\* failed, or an earlier one overtook it, and no write started since then ended.
CrashSafe ==
    damaged \/ behind \/
    \A n \in Nodes :
        RecordsOf(cur[n]) \subseteq
          ((0 .. file.pages - 1) \X (0 .. RecordsPerPage - 1)) \ RecordsOf(file.ranges)

\* Free space is never split without need: no free range ends where another
\* one starts, and none is empty (the merging in FST.release).
Merged ==
    damaged \/
    \A r \in ranges :
        r.start < r.end /\ \A q \in ranges : r.page = q.page => r.end # q.start

\* A record that is neither free nor in use is never found again.  That only
\* happens to the smallest ranges of a table that is too large to be saved, to
\* records for a value that could not be written or of a file that could not be
\* made longer, and when the program stops.
Lost == Records \ (RecordsOf(ranges) \union UNION {RecordsOf(Owned(n)) : n \in Nodes})
LostOnlyWhenFull ==
    [][\/ Lost' \subseteq Lost
       \/ Cardinality(ranges') = MaxRanges
       \/ Restart
       \/ \E n \in Nodes : StoreFails(n) \/ GrowFails(n)]_vars
=============================================================================
