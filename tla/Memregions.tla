------------------------------ MODULE Memregions ------------------------------
(***************************************************************************)
(* The two trackers of writable shared mappings of files: MemregionTracker *)
(* of src/mtrace/mtrace.cpp, which decides whether a store is traced, and  *)
(* MemregionTracker of src/conv_micro.py, which finds out which bytes of   *)
(* which file a traced store has written.                                  *)
(*                                                                         *)
(* A tracker is its set of regions.  The table of mtrace.cpp has holes,    *)
(* which are filled first: it is full when it has MaxRegions regions.  A   *)
(* region is from start to end, both included; file and offset are of      *)
(* conv_micro.py only, where file stands for name and inode.               *)
(***************************************************************************)
EXTENDS Integers, FiniteSets, Sequences, SequencesExt

CONSTANT MaxRegions  \* MAX_MEM_REGIONS

ASSUME MaxRegionsAssumption == MaxRegions \in Nat

\* _find_overlap, __find_overlap
Overlaps(r, first, last) == r.start <= last /\ first <= r.end

Overlapping(regions, first, last) == {r \in regions : Overlaps(r, first, last)}

\* address_mapped
Covers(regions, addr) == \E r \in regions : Overlaps(r, addr, addr)

Disjoint(regions) == \A r, q \in regions : r # q => ~Overlaps(r, q.start, q.end)

\* The assertions of insert: nothing is at the place, and the table has room.
CanInsert(regions, first, last) ==
    Overlapping(regions, first, last) = {} /\ Cardinality(regions) < MaxRegions

\* munmap: a region that overlaps is forgotten as a whole.
remove_overlapping_regions(regions, first, last) ==
    regions \ Overlapping(regions, first, last)

remove_overlapsEntirely(regions, first, last) ==
    regions \ Overlapping(regions, first, last)

\* A mapping at a fixed address: the parts before and after it stay.
remove_overlaps(regions, first, last) ==
    LET found == Overlapping(regions, first, last)
    IN  (regions \ found)
        \cup {[r EXCEPT !.end = first - 1] : r \in {q \in found : q.start < first}}
        \cup {[r EXCEPT !.start = last + 1] : r \in {q \in found : q.end > last}}

-----------------------------------------------------------------------------
(* conv_micro.py                                                           *)

FromSameOffset(r, first) == [r EXCEPT !.start = first]

\* What of a region is from first on.
From(r, first) ==
    LET moved == [r EXCEPT !.offset = @ + (first - r.start)]
    IN  [moved EXCEPT !.start = first]

conv_remove_overlapsKeepsOffset(regions, first, last) ==
    LET found == Overlapping(regions, first, last)
    IN  (regions \ found)
        \cup {[r EXCEPT !.end = first - 1] : r \in {q \in found : q.start < first}}
        \cup {[r EXCEPT !.start = last + 1] : r \in {q \in found : q.end > last}}

\* The part after the new mapping is kept if the region starts after it, which
\* no region that overlaps does.
conv_remove_overlaps(regions, first, last) ==
    LET found == Overlapping(regions, first, last)
    IN  (regions \ found)
        \cup {[r EXCEPT !.end = first - 1] : r \in {q \in found : q.start < first}}
        \cup {From(r, last + 1) : r \in {q \in found : q.start > last}}

Clipped(r, first, last) ==
    [(IF r.start < first THEN From(r, first) ELSE r)
     EXCEPT !.end = IF @ > last THEN last ELSE @]

\* The parts of the regions that are in a range, in the order of addresses.
resolve_range(regions, first, last) ==
    SetToSortSeq({Clipped(r, first, last) : r \in Overlapping(regions, first, last)},
                 LAMBDA r, q : r.start < q.start)
=============================================================================
