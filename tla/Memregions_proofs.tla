--------------------------- MODULE Memregions_proofs ---------------------------
(***************************************************************************)
(* What the trackers of Memregions keep of a set of regions, whatever the  *)
(* regions and the range; and that the regions of mtrace never overlap,    *)
(* whatever the threads do.                                                *)
(***************************************************************************)
EXTENDS MappedWrites, TLAPS

Region == [start: Int, end: Int]
FileRegion == [start: Int, end: Int, file: Files, offset: Int]

\* A part of a region that lies in it.
LEMMA PartOf ==
  ASSUME NEW r \in Region, NEW x \in Int, NEW y \in Int
  PROVE  /\ [r EXCEPT !.end = x] \in Region
         /\ [r EXCEPT !.end = x].start = r.start /\ [r EXCEPT !.end = x].end = x
         /\ [r EXCEPT !.start = y] \in Region
         /\ [r EXCEPT !.start = y].start = y /\ [r EXCEPT !.start = y].end = r.end
BY DEF Region

LEMMA FilePartOf ==
  ASSUME NEW r \in FileRegion, NEW x \in Int, NEW y \in Int
  PROVE  /\ [r EXCEPT !.end = x] \in FileRegion
         /\ [r EXCEPT !.end = x].start = r.start /\ [r EXCEPT !.end = x].end = x
         /\ [r EXCEPT !.end = x].file = r.file /\ [r EXCEPT !.end = x].offset = r.offset
BY DEF FileRegion

LEMMA FromOf ==
  ASSUME NEW r \in FileRegion, NEW y \in Int
  PROVE  /\ From(r, y) \in FileRegion
         /\ From(r, y).start = y /\ From(r, y).end = r.end
         /\ From(r, y).file = r.file /\ From(r, y).offset = r.offset + (y - r.start)
<1>. DEFINE moved == [r EXCEPT !.offset = r.offset + (y - r.start)]
<1>1. /\ moved \in FileRegion /\ moved.start = r.start /\ moved.end = r.end
      /\ moved.file = r.file /\ moved.offset = r.offset + (y - r.start)
  BY DEF FileRegion
<1>2. From(r, y) = [moved EXCEPT !.start = y]
  BY DEF From
<1>. QED  BY <1>1, <1>2 DEF FileRegion

-----------------------------------------------------------------------------
\* After a fixed mapping, mtrace takes exactly the addresses outside of it for
\* mapped that were so before: a region that it cuts is neither forgotten nor kept
\* as a whole (remove_overlaps, mtrace.cpp).
THEOREM FixedMappingExact ==
  ASSUME NEW S \in SUBSET Region, NEW first \in Int, NEW last \in Int, first <= last,
         NEW a \in Int
  PROVE  Covers(remove_overlaps(S, first, last), a)
            <=> Covers(S, a) /\ ~(first <= a /\ a <= last)
<1>. DEFINE found == Overlapping(S, first, last)
            before == {[r EXCEPT !.end = first - 1] : r \in {q \in found : q.start < first}}
            after == {[r EXCEPT !.start = last + 1] : r \in {q \in found : q.end > last}}
<1>1. remove_overlaps(S, first, last) = (S \ found) \cup before \cup after
  BY DEF remove_overlaps
<1>2. \A r \in S : r \in Region /\ r.start \in Int /\ r.end \in Int
  BY DEF Region
<1>3. \A r \in S : r \in found <=> r.start <= last /\ first <= r.end
  BY DEF Overlapping, Overlaps
<1>4. found \subseteq S
  BY DEF Overlapping
<1>5. ASSUME Covers(remove_overlaps(S, first, last), a)
      PROVE  Covers(S, a) /\ ~(first <= a /\ a <= last)
  <2>1. PICK p \in (S \ found) \cup before \cup after : p.start <= a /\ a <= p.end
    BY <1>1, <1>5 DEF Covers, Overlaps
  <2>2. CASE p \in S \ found
    BY <2>1, <2>2, <1>2, <1>3 DEF Covers, Overlaps
  <2>3. CASE p \in before
    <3>1. PICK r \in found : r.start < first /\ p = [r EXCEPT !.end = first - 1]
      BY <2>3
    <3>2. p.start = r.start /\ p.end = first - 1
      BY <3>1, <1>2, <1>4, PartOf
    <3>. QED  BY <2>1, <3>1, <3>2, <1>2, <1>3, <1>4 DEF Covers, Overlaps
  <2>4. CASE p \in after
    <3>1. PICK r \in found : r.end > last /\ p = [r EXCEPT !.start = last + 1]
      BY <2>4
    <3>2. p.start = last + 1 /\ p.end = r.end
      BY <3>1, <1>2, <1>4, PartOf
    <3>. QED  BY <2>1, <3>1, <3>2, <1>2, <1>3, <1>4 DEF Covers, Overlaps
  <2>. QED  BY <2>1, <2>2, <2>3, <2>4
<1>6. ASSUME Covers(S, a), ~(first <= a /\ a <= last)
      PROVE  Covers(remove_overlaps(S, first, last), a)
  <2>1. PICK r \in S : r.start <= a /\ a <= r.end
    BY <1>6 DEF Covers, Overlaps
  <2>2. CASE r \notin found
    BY <2>1, <2>2, <1>1 DEF Covers, Overlaps
  <2>3. CASE r \in found /\ a < first
    <3>1. [r EXCEPT !.end = first - 1] \in before
      BY <2>1, <2>3, <1>2
    <3>2. [r EXCEPT !.end = first - 1].start <= a /\ a <= [r EXCEPT !.end = first - 1].end
      BY <2>1, <2>3, <1>2, PartOf
    <3>. QED  BY <3>1, <3>2, <1>1 DEF Covers, Overlaps
  <2>4. CASE r \in found /\ a > last
    <3>1. [r EXCEPT !.start = last + 1] \in after
      BY <2>1, <2>4, <1>2
    <3>2. [r EXCEPT !.start = last + 1].start <= a /\ a <= [r EXCEPT !.start = last + 1].end
      BY <2>1, <2>4, <1>2, PartOf
    <3>. QED  BY <3>1, <3>2, <1>1 DEF Covers, Overlaps
  <2>. QED  BY <2>2, <2>3, <2>4, <1>6
<1>. QED  BY <1>5, <1>6

-----------------------------------------------------------------------------
\* Clipping a region to a range leaves its addresses in the range, each with the
\* byte of the file that it was: what resolve_range attributes to a store or to
\* an msync is the byte that is mapped there (conv_micro.py, resolve_range).
THEOREM ClippingKeepsBytes ==
  ASSUME NEW r \in FileRegion, NEW first \in Int, NEW last \in Int, first <= last,
         NEW a \in Int
  PROVE  LET c == Clipped(r, first, last)
         IN  /\ c \in FileRegion /\ c.file = r.file
             /\ (c.start <= a /\ a <= c.end)
                   <=> (r.start <= a /\ a <= r.end /\ first <= a /\ a <= last)
             /\ c.offset + (a - c.start) = r.offset + (a - r.start)
<1>. DEFINE f == IF r.start < first THEN From(r, first) ELSE r
<1>1. /\ r.start \in Int /\ r.end \in Int /\ r.offset \in Int
  BY DEF FileRegion
<1>2. /\ f \in FileRegion /\ f.file = r.file /\ f.end = r.end
      /\ f.start = IF r.start < first THEN first ELSE r.start
      /\ f.offset = r.offset + (f.start - r.start)
  <2>1. CASE r.start < first
    BY <2>1, FromOf
  <2>2. CASE ~(r.start < first)
    BY <2>2, <1>1
  <2>. QED  BY <2>1, <2>2
<1>. HIDE DEF f
<1>3. PICK e \in Int : e = IF f.end > last THEN last ELSE f.end
  BY <1>1, <1>2
<1>4. Clipped(r, first, last) = [f EXCEPT !.end = e]
  BY <1>3 DEF Clipped, f
<1>5. /\ [f EXCEPT !.end = e] \in FileRegion
      /\ [f EXCEPT !.end = e].start = f.start /\ [f EXCEPT !.end = e].end = e
      /\ [f EXCEPT !.end = e].file = f.file /\ [f EXCEPT !.end = e].offset = f.offset
  BY <1>2, <1>3, FilePartOf
<1>. QED  BY <1>1, <1>2, <1>3, <1>4, <1>5

\* After a fixed mapping, conv_micro attributes no address in it to a file, and every
\* other one to the byte it was attributed to before.
THEOREM ConvFixedMappingRight ==
  ASSUME NEW S \in SUBSET FileRegion, NEW first \in Int, NEW last \in Int, first <= last,
         NEW p \in conv_remove_overlaps(S, first, last), NEW a \in Int,
         p.start <= a, a <= p.end
  PROVE  /\ ~(first <= a /\ a <= last)
         /\ \E r \in S : /\ r.start <= a /\ a <= r.end /\ r.file = p.file
                         /\ r.offset + (a - r.start) = p.offset + (a - p.start)
<1>. DEFINE found == Overlapping(S, first, last)
            before == {[r EXCEPT !.end = first - 1] : r \in {q \in found : q.start < first}}
            after == {From(r, last + 1) : r \in {q \in found : q.start > last}}
<1>1. p \in (S \ found) \cup before \cup after
  BY DEF conv_remove_overlaps
<1>2. \A r \in S : /\ r \in FileRegion /\ r.start \in Int /\ r.end \in Int
                  /\ r.offset \in Int
  BY DEF FileRegion
<1>3. \A r \in S : r \in found <=> r.start <= last /\ first <= r.end
  BY DEF Overlapping, Overlaps
<1>4. found \subseteq S
  BY DEF Overlapping
<1>5. CASE p \in S \ found
  BY <1>5, <1>2, <1>3
<1>6. CASE p \in before
  <2>1. PICK r \in found : r.start < first /\ p = [r EXCEPT !.end = first - 1]
    BY <1>6
  <2>2. /\ p.start = r.start /\ p.end = first - 1
        /\ p.file = r.file /\ p.offset = r.offset
    BY <2>1, <1>2, <1>4, FilePartOf
  <2>. QED  BY <2>1, <2>2, <1>2, <1>3, <1>4
<1>7. after = {}
  BY <1>2, <1>3, <1>4
<1>. QED  BY <1>1, <1>5, <1>6, <1>7

\* What conv_micro forgets then, and mtrace does not, is what comes after the new
\* mapping in a region that it cuts (conv_micro.py, remove_overlaps).
THEOREM ConvForgetsOnlyAfter ==
  ASSUME NEW S \in SUBSET FileRegion, NEW first \in Int, NEW last \in Int, first <= last,
         NEW a \in Int, Covers(S, a), ~(first <= a /\ a <= last)
  PROVE  \/ Covers(conv_remove_overlaps(S, first, last), a)
         \/ a > last /\ \E r \in Overlapping(S, first, last) : r.start <= a /\ a <= r.end
<1>. DEFINE found == Overlapping(S, first, last)
            before == {[r EXCEPT !.end = first - 1] : r \in {q \in found : q.start < first}}
<1>1. /\ S \ found \subseteq conv_remove_overlaps(S, first, last)
      /\ before \subseteq conv_remove_overlaps(S, first, last)
  BY DEF conv_remove_overlaps
<1>2. PICK r \in S : r.start <= a /\ a <= r.end
  BY DEF Covers, Overlaps
<1>3. r \in FileRegion /\ r.start \in Int /\ r.end \in Int
  BY DEF FileRegion
<1>4. CASE r \notin found
  BY <1>1, <1>2, <1>4 DEF Covers, Overlaps
<1>5. CASE r \in found /\ a < first
  <2>1. [r EXCEPT !.end = first - 1] \in before
    BY <1>2, <1>3, <1>5
  <2>2. [r EXCEPT !.end = first - 1].start <= a /\ a <= [r EXCEPT !.end = first - 1].end
    BY <1>2, <1>3, <1>5, FilePartOf
  <2>. QED  BY <2>1, <2>2, <1>1 DEF Covers, Overlaps
<1>6. CASE r \in found /\ a > last
  BY <1>2, <1>6
<1>. QED  BY <1>3, <1>4, <1>5, <1>6

-----------------------------------------------------------------------------
(* The regions of mtrace do not overlap                                      *)

SomeRegions(R) == R \subseteq Region /\ \A r \in R : r.start <= r.end

LEMMA DisjointWithout ==
  ASSUME NEW R, SomeRegions(R), Disjoint(R), NEW first \in Int, NEW last \in Int
  PROVE  /\ SomeRegions(remove_overlapping_regions(R, first, last))
         /\ Disjoint(remove_overlapping_regions(R, first, last))
BY DEF SomeRegions, Disjoint, remove_overlapping_regions

LEMMA DisjointWith ==
  ASSUME NEW R, SomeRegions(R), Disjoint(R), NEW first \in Int, NEW last \in Int,
         first <= last, CanInsert(R, first, last)
  PROVE  /\ SomeRegions(R \cup {[start |-> first, end |-> last]})
         /\ Disjoint(R \cup {[start |-> first, end |-> last]})
<1>. DEFINE n == [start |-> first, end |-> last]
<1>1. n \in Region /\ n.start = first /\ n.end = last
  BY DEF Region
<1>2. \A r \in R : r \in Region /\ r.start \in Int /\ r.end \in Int /\ r.start <= r.end
  BY DEF SomeRegions, Region
<1>3. \A r \in R : ~Overlaps(r, first, last)
  BY DEF CanInsert, Overlapping
<1>. HIDE DEF n
<1>4. SomeRegions(R \cup {n})
  BY <1>1, <1>2 DEF SomeRegions
<1>5. ASSUME NEW r \in R \cup {n}, NEW q \in R \cup {n}, r # q
      PROVE  ~Overlaps(r, q.start, q.end)
  <2>1. CASE r \in R /\ q \in R
    BY <1>5, <2>1 DEF Disjoint
  <2>2. CASE r \in R /\ q = n
    BY <2>2, <1>1, <1>3
  <2>3. CASE r = n /\ q \in R
    BY <2>3, <1>1, <1>2, <1>3 DEF Overlaps
  <2>. QED  BY <1>5, <2>1, <2>2, <2>3
<1>. QED  BY <1>4, <1>5 DEF Disjoint, n

\* Every region that remains lies in one that was there, outside of the range.
LEMMA RemainingPart ==
  ASSUME NEW R, SomeRegions(R), NEW first \in Int, NEW last \in Int, first <= last,
         NEW p \in remove_overlaps(R, first, last)
  PROVE  /\ p \in Region /\ p.start <= p.end
         /\ \E r \in R : /\ r.start <= p.start /\ p.end <= r.end
                         /\ \/ p = r /\ ~Overlaps(r, first, last)
                            \/ p.start = r.start /\ p.end = first - 1
                            \/ p.start = last + 1 /\ p.end = r.end
<1>. DEFINE found == Overlapping(R, first, last)
            before == {[r EXCEPT !.end = first - 1] : r \in {q \in found : q.start < first}}
            after == {[r EXCEPT !.start = last + 1] : r \in {q \in found : q.end > last}}
<1>1. p \in (R \ found) \cup before \cup after
  BY DEF remove_overlaps
<1>2. \A r \in R : r \in Region /\ r.start \in Int /\ r.end \in Int /\ r.start <= r.end
  BY DEF SomeRegions, Region
<1>3. \A r \in R : r \in found <=> r.start <= last /\ first <= r.end
  BY DEF Overlapping, Overlaps
<1>4. found \subseteq R
  BY DEF Overlapping
<1>5. CASE p \in R \ found
  BY <1>5, <1>2 DEF Overlapping
<1>6. CASE p \in before
  <2>1. PICK r \in found : r.start < first /\ p = [r EXCEPT !.end = first - 1]
    BY <1>6
  <2>3. r \in Region /\ first - 1 \in Int /\ last + 1 \in Int
    BY <1>2, <1>4
  <2>. HIDE DEF found
  <2>2. p \in Region /\ p.start = r.start /\ p.end = first - 1
    BY <2>1, <2>3, PartOf
  <2>. QED  BY <2>1, <2>2, <1>2, <1>3, <1>4
<1>7. CASE p \in after
  <2>1. PICK r \in found : r.end > last /\ p = [r EXCEPT !.start = last + 1]
    BY <1>7
  <2>3. r \in Region /\ first - 1 \in Int /\ last + 1 \in Int
    BY <1>2, <1>4
  <2>. HIDE DEF found
  <2>2. p \in Region /\ p.start = last + 1 /\ p.end = r.end
    BY <2>1, <2>3, PartOf, ZenonT(40)
  <2>. QED  BY <2>1, <2>2, <1>2, <1>3, <1>4
<1>. QED  BY <1>1, <1>5, <1>6, <1>7

\* Regions are the same when they start and end at the same addresses.
LEMMA SameRegion ==
  ASSUME NEW p \in Region, NEW q \in Region, p.start = q.start, p.end = q.end
  PROVE  p = q
BY DEF Region

LEMMA DisjointAround ==
  ASSUME NEW R, SomeRegions(R), Disjoint(R), NEW first \in Int, NEW last \in Int,
         first <= last
  PROVE  /\ SomeRegions(remove_overlaps(R, first, last))
         /\ Disjoint(remove_overlaps(R, first, last))
<1>. DEFINE N == remove_overlaps(R, first, last)
<1>1. SomeRegions(N)
  BY RemainingPart DEF SomeRegions
<1>2. \A r \in R : r \in Region /\ r.start \in Int /\ r.end \in Int /\ r.start <= r.end
  BY DEF SomeRegions, Region
<1>3. ASSUME NEW p \in N, NEW q \in N, p # q
      PROVE  ~Overlaps(p, q.start, q.end)
  <2>. HIDE DEF N
  <2>1. PICK r \in R : /\ r.start <= p.start /\ p.end <= r.end
                      /\ \/ p = r /\ ~Overlaps(r, first, last)
                         \/ p.start = r.start /\ p.end = first - 1
                         \/ p.start = last + 1 /\ p.end = r.end
    BY RemainingPart DEF N
  <2>2. PICK s \in R : /\ s.start <= q.start /\ q.end <= s.end
                      /\ \/ q = s /\ ~Overlaps(s, first, last)
                         \/ q.start = s.start /\ q.end = first - 1
                         \/ q.start = last + 1 /\ q.end = s.end
    BY RemainingPart DEF N
  <2>3. /\ p \in Region /\ p.start \in Int /\ p.end \in Int /\ p.start <= p.end
        /\ q \in Region /\ q.start \in Int /\ q.end \in Int /\ q.start <= q.end
    BY <1>1 DEF SomeRegions, Region
  <2>4. ~(p.start = q.start /\ p.end = q.end)
    BY <1>3, <2>3, SameRegion
  <2>5. CASE r = s
    BY <2>1, <2>2, <2>3, <2>4, <2>5, <1>2, <1>3 DEF Overlaps
  <2>6. CASE r # s
    BY <2>1, <2>2, <2>3, <2>6, <1>2 DEF Disjoint, Overlaps
  <2>. QED  BY <2>5, <2>6
<1>. QED  BY <1>1, <1>3 DEF Disjoint

-----------------------------------------------------------------------------
(* What the threads do to them                                               *)

Line ==
    [call: {"mmap", "fixed", "munmap", "msync", "mwrite"}, start: Int,
     length: Nat \ {0}, file: Files \cup {"other"}, offset: Int, dump: Seq(Int),
     done: BOOLEAN, failed: BOOLEAN, bytes: SUBSET (Files \X Int), stores: Nat]
Page == [map: Int, file: Files \cup {"free", "other"}, offset: Int, length: Int]

MemoryOK == space \in [Pages -> Page] /\ content \in [Files -> [Bytes -> Int]]
ThreadsOK ==
    /\ thread \in [Threads -> [pc: {"user", "call", "return", "stored"}, line: Int,
                               addr: Int]]
    /\ writes \in [Threads -> [next: Int, line: Int]]
    /\ \A t \in Threads : InCall(t) => thread[t].line \in DOMAIN log
LogOK == log \in Seq(Line) /\ stores \in Nat
RegionsOK == SomeRegions(regions) /\ Disjoint(regions)

TraceInv == program \in Programs /\ MemoryOK /\ ThreadsOK /\ LogOK /\ RegionsOK

LEMMA Dividing ==
  ASSUME NEW n \in Nat, NEW d \in Nat \ {0}
  PROVE  /\ n \div d \in Nat
         /\ d * (n \div d) <= n /\ n < d * ((n \div d) + 1)
OBVIOUS

\* A mapping is never empty.
LEMMA MappingsNotEmpty ==
  ASSUME NEW m \in Mappings
  PROVE  m.file \in Files \cup {"other"} /\ m.offset \in Int /\ m.length \in Nat \ {0}
<1>. DEFINE n == FileSize - 1
<1>1. PageSize \in Nat \ {0} /\ FileSize \in Nat \ {0} /\ n \in Nat
  BY SpaceAssumption
<1>2. CASE m = [file |-> "other", offset |-> 0, length |-> PageSize]
  BY <1>1, <1>2
<1>3. ASSUME NEW f \in Files, NEW k \in 0..(n \div PageSize),
             NEW end \in {FileSize, PageEnd},
             m = [file |-> f, offset |-> PageSize * k, length |-> end - PageSize * k]
      PROVE  m.offset \in Int /\ m.length \in Nat \ {0}
  <2>1. n \div PageSize \in Nat /\ k \in Nat /\ k <= n \div PageSize
    BY <1>1, Dividing
  <2>2. PageSize * (n \div PageSize) <= n /\ n < PageSize * ((n \div PageSize) + 1)
    BY <1>1, Dividing
  <2>3. \A a, b, c \in Nat : a <= b => c * a <= c * b
    OBVIOUS
  <2>4. PageSize * k <= PageSize * (n \div PageSize)
    BY <2>1, <2>3, <1>1
  <2>5. PageEnd = PageSize * ((n \div PageSize) + 1)
    BY DEF PageEnd
  <2>6. PageSize * k \in Int /\ PageSize * (n \div PageSize) \in Int /\ PageEnd \in Int
    BY <2>1, <2>5, <1>1
  <2>7. end \in Int /\ end > PageSize * k
    BY <2>2, <2>4, <2>5, <2>6, <1>1
  <2>. QED  BY <1>3, <2>6, <2>7
<1>4. \/ m = [file |-> "other", offset |-> 0, length |-> PageSize]
      \/ \E f \in Files, k \in 0..(n \div PageSize), end \in {FileSize, PageEnd} :
            m = [file |-> f, offset |-> PageSize * k, length |-> end - PageSize * k]
  BY DEF Mappings
<1>. QED  BY <1>2, <1>3, <1>4

LEMMA RequestOK ==
  ASSUME NEW q \in Requests
  PROVE  q \in [call: {"mmap", "fixed", "munmap", "msync"}, start: Int,
                file: Files \cup {"other"}, offset: Int, length: Nat \ {0}]
<1>1. PageSize \in Nat \ {0} /\ Pages \subseteq Nat
  BY SpaceAssumption
<1>2. \A page \in Pages : StartOf(page) \in Int
  BY <1>1 DEF StartOf
<1>3. \A n \in 1..2 : n * PageSize \in Nat \ {0}
  BY <1>1
<1>. QED  BY <1>2, <1>3, MappingsNotEmpty DEF Requests

LEMMA OffsetIsInt ==
  ASSUME MemoryOK, NEW a \in Int, PageOf(a) \in Pages
  PROVE  OffsetOf(a) \in Int
<1>1. a % PageSize \in Int
  BY SpaceAssumption
<1>. QED  BY <1>1 DEF OffsetOf, MemoryOK, Page

LEMMA BytesOK ==
  ASSUME MemoryOK, NEW A \in SUBSET Int
  PROVE  BytesAt(A) \in SUBSET (Files \X Int)
BY OffsetIsInt DEF BytesAt, Writable, Mapped

LEMMA MemoryIsInt ==
  ASSUME MemoryOK, NEW a \in Int
  PROVE  Memory(a) \in Int
BY OffsetIsInt DEF Memory, Writable, Mapped, MemoryOK

\* A line that is completed or lengthened is a line.
LEMMA LineChanged ==
  ASSUME LogOK, NEW k \in DOMAIN log, NEW l \in Line
  PROVE  /\ [log EXCEPT ![k] = l] \in Seq(Line)
         /\ DOMAIN [log EXCEPT ![k] = l] = DOMAIN log
BY DEF LogOK

LEMMA LineAdded ==
  ASSUME LogOK, NEW l \in Line
  PROVE  /\ Append(log, l) \in Seq(Line) /\ Len(log) + 1 \in DOMAIN Append(log, l)
         /\ Len(log) + 1 \in Int /\ DOMAIN log \subseteq DOMAIN Append(log, l)
BY DEF LogOK

LEMMA CallIsLine ==
  ASSUME TraceInv, NEW t \in Threads, InCall(t)
  PROVE  /\ CallOf(t) \in Line /\ CallOf(t).start \in Int
         /\ CallOf(t).length \in Nat \ {0} /\ CallOf(t).offset \in Int
         /\ CallOf(t).file \in Files \cup {"other"} /\ thread[t].line \in DOMAIN log
         /\ LastOf(CallOf(t)) \in Int /\ CallOf(t).start <= LastOf(CallOf(t))
<1>1. thread[t].line \in DOMAIN log /\ log \in Seq(Line)
  BY DEF TraceInv, ThreadsOK, LogOK
<1>2. PICK l \in Line : l = CallOf(t)
  BY <1>1 DEF CallOf
<1>3. /\ l.start \in Int /\ l.length \in Nat \ {0} /\ l.offset \in Int
      /\ l.file \in Files \cup {"other"}
  BY DEF Line
<1>4. LastOf(l) \in Int /\ l.start <= LastOf(l)
  BY <1>3 DEF LastOf
<1>. QED  BY <1>1, <1>2, <1>3, <1>4

\* The thread goes on in its call, or is back from it or from a store.
LEMMA ThreadGoesOn ==
  ASSUME ThreadsOK, NEW t \in Threads, Returns(t) \/ Back(t), UNCHANGED writes,
         InCall(t) \/ Back(t), DOMAIN log \subseteq DOMAIN log'
  PROVE  ThreadsOK'
<1>1. CASE Returns(t)
  BY <1>1 DEF ThreadsOK, Returns, InCall, Back, User
<1>2. CASE Back(t)
  BY <1>2 DEF ThreadsOK, InCall, Back, User
<1>. QED  BY <1>1, <1>2

LEMMA TraceInit == Init => TraceInv
<1>. SUFFICES ASSUME Init PROVE TraceInv
  OBVIOUS
<1>1. MemoryOK
  BY DEF Init, MemoryOK, Free, Page
<1>2. ThreadsOK
  BY DEF Init, ThreadsOK, User, NoWrite, InCall
<1>3. LogOK
  BY DEF Init, LogOK
<1>4. RegionsOK
  BY DEF Init, RegionsOK, SomeRegions, Disjoint
<1>. QED  BY <1>1, <1>2, <1>3, <1>4 DEF Init, TraceInv

\* The kernel gives a call its place, or takes it away, and the line is done.
LEMMA KernelStep ==
  ASSUME TraceInv, UNCHANGED program, NEW t \in Threads, thread[t].pc = "call",
         NEW start \in Int, NEW S, S \in [Pages -> Page],
         space' = S,
         log' = [log EXCEPT ![thread[t].line] = [@ EXCEPT !.start = start, !.done = TRUE]],
         Returns(t), UNCHANGED <<content, regions, writes, stores>>
  PROVE  TraceInv'
<1>1. InCall(t) /\ MemoryOK /\ ThreadsOK /\ LogOK /\ RegionsOK
  BY DEF InCall, TraceInv
<1>2. PICK k \in DOMAIN log : k = thread[t].line
  BY <1>1, CallIsLine
<1>3. PICK l \in Line : l = log[k]
  BY <1>1 DEF LogOK
<1>4. PICK m \in Line : m = [l EXCEPT !.start = start, !.done = TRUE]
  BY DEF Line
<1>5. log' = [log EXCEPT ![k] = m]
  BY <1>2, <1>3, <1>4
<1>6. LogOK' /\ DOMAIN log' = DOMAIN log
  BY <1>1, <1>5, LineChanged, ZenonT(40) DEF LogOK
<1>7. ThreadsOK'
  BY <1>1, <1>6, ThreadGoesOn
<1>8. MemoryOK' /\ RegionsOK'
  BY <1>1 DEF MemoryOK, RegionsOK
<1>. QED  BY <1>6, <1>7, <1>8 DEF TraceInv

\* The hook after a call or a store changes the regions only.
LEMMA HookStep ==
  ASSUME TraceInv, UNCHANGED program, NEW t \in Threads, RegionsOK', Back(t),
         UNCHANGED <<space, content, writes, log, stores>>
  PROVE  TraceInv'
<1>1. ThreadsOK'
  BY ThreadGoesOn DEF TraceInv
<1>. QED  BY <1>1 DEF TraceInv, MemoryOK, LogOK

\* The page of a new mapping.
LEMMA NewPageOK ==
  ASSUME TraceInv, NEW t \in Threads, InCall(t), NEW start \in Int, NEW p \in Pages
  PROVE  NewPage(t, start, p) \in Page
<1>1. StartOf(p) \in Int
  BY SpaceAssumption DEF StartOf
<1>2. PICK l \in Line : l = CallOf(t)
  BY CallIsLine
<1>3. /\ l.file \in Files \cup {"other"} /\ l.offset \in Int /\ l.length \in Int
      /\ thread[t].line \in Int
  BY DEF Line, TraceInv, ThreadsOK
<1>. QED  BY <1>1, <1>2, <1>3 DEF NewPage, Page

LEMMA EntryStep ==
  ASSUME TraceInv, UNCHANGED program, NEW t \in Threads, NEW request \in Requests,
         SyscallEntry(t, request)
  PROVE  TraceInv'
<1>. DEFINE l == [call |-> request.call, start |-> request.start,
                  length |-> request.length, file |-> request.file,
                  offset |-> request.offset, dump |-> << >>, done |-> FALSE,
                  failed |-> FALSE, bytes |-> {}, stores |-> 0]
<1>1. l \in Line
  BY RequestOK DEF Line
<1>2. /\ log' = Append(log, l) /\ writes' = [writes EXCEPT ![t] = NoWrite]
      /\ thread' = [thread EXCEPT ![t] = [pc |-> "call", line |-> Len(log) + 1, addr |-> 0]]
      /\ UNCHANGED <<space, content, regions, stores>>
  BY DEF SyscallEntry
<1>. HIDE DEF l
<1>3. LogOK /\ ThreadsOK /\ MemoryOK /\ RegionsOK
  BY DEF TraceInv
<1>4. /\ LogOK' /\ Len(log) + 1 \in DOMAIN log' /\ Len(log) + 1 \in Int
      /\ DOMAIN log \subseteq DOMAIN log'
  BY <1>1, <1>2, <1>3, LineAdded DEF LogOK
<1>5. ThreadsOK'
  BY <1>2, <1>3, <1>4 DEF ThreadsOK, NoWrite, InCall
<1>. QED  BY <1>2, <1>3, <1>4, <1>5 DEF TraceInv, MemoryOK, RegionsOK

LEMMA MapStep ==
  ASSUME TraceInv, UNCHANGED program, NEW t \in Threads,
         MmapKernel(t) \/ FixedKernel(t) \/ MunmapKernel(t)
  PROVE  TraceInv'
<1>1. MemoryOK
  BY DEF TraceInv
<1>2. thread[t].pc = "call" /\ InCall(t)
  BY DEF MmapKernel, FixedKernel, MunmapKernel, InCall
<1>3. CallOf(t).start \in Int
  BY <1>2, CallIsLine
<1>4. \A q \in Pages : StartOf(q) \in Int
  BY SpaceAssumption DEF StartOf
<1>5. ASSUME NEW start \in Int, NEW pages, Changes(t, start, pages, LAMBDA p : NewPage(t, start, p))
      PROVE  TraceInv'
  <2>1. [p \in Pages |-> IF p \in pages THEN NewPage(t, start, p) ELSE space[p]]
           \in [Pages -> Page]
    BY <1>1, <1>2, NewPageOK DEF MemoryOK
  <2>. QED  BY <1>2, <1>5, <2>1, KernelStep DEF Changes
<1>6. ASSUME NEW start \in Int, NEW pages, Changes(t, start, pages, LAMBDA p : Free)
      PROVE  TraceInv'
  <2>1. [p \in Pages |-> IF p \in pages THEN Free ELSE space[p]] \in [Pages -> Page]
    BY <1>1 DEF MemoryOK, Free, Page
  <2>. QED  BY <1>2, <1>6, <2>1, KernelStep DEF Changes
<1>7. CASE MmapKernel(t)
  BY <1>4, <1>5, <1>7 DEF MmapKernel
<1>8. CASE FixedKernel(t)
  BY <1>3, <1>5, <1>8 DEF FixedKernel
<1>9. CASE MunmapKernel(t)
  BY <1>3, <1>6, <1>9 DEF MunmapKernel
<1>. QED  BY <1>7, <1>8, <1>9

LEMMA MsyncStep ==
  ASSUME TraceInv, UNCHANGED program, NEW t \in Threads, MsyncKernel(t)
  PROVE  TraceInv'
<1>1. InCall(t) /\ MemoryOK /\ ThreadsOK /\ LogOK /\ RegionsOK
  BY DEF InCall, TraceInv, MsyncKernel
<1>2. PICK k \in DOMAIN log : k = thread[t].line
  BY <1>1, CallIsLine
<1>3. PICK l \in Line : l = log[k]
  BY <1>1 DEF LogOK
<1>4. PICK bytes \in SUBSET (Files \X Int) :
        bytes = BytesAt(CallOf(t).start..LastOf(CallOf(t)))
  BY <1>1, BytesOK, CallIsLine
<1>5. PICK m \in Line : m = [l EXCEPT !.done = TRUE, !.stores = stores, !.bytes = bytes]
  BY <1>1 DEF Line, LogOK
<1>6. log' = [log EXCEPT ![k] = m]
  BY <1>2, <1>3, <1>4, <1>5 DEF MsyncKernel
<1>7. LogOK' /\ DOMAIN log' = DOMAIN log
  <2>1. /\ [log EXCEPT ![k] = m] \in Seq(Line)
        /\ DOMAIN [log EXCEPT ![k] = m] = DOMAIN log
    BY <1>1, LineChanged
  <2>2. log' \in Seq(Line) /\ DOMAIN log' = DOMAIN log
    BY <1>6, <2>1
  <2>3. stores' \in Nat
    BY <1>1 DEF LogOK, MsyncKernel
  <2>. QED  BY <2>2, <2>3 DEF LogOK
<1>8. ThreadsOK'
  BY <1>1, <1>7, ThreadGoesOn DEF MsyncKernel
<1>9. MemoryOK' /\ RegionsOK'
  BY <1>1 DEF MemoryOK, RegionsOK, MsyncKernel
<1>. QED  BY <1>7, <1>8, <1>9 DEF TraceInv

LEMMA FailStep ==
  ASSUME TraceInv, UNCHANGED program, NEW t \in Threads, Fails(t)
  PROVE  TraceInv'
<1>1. InCall(t) /\ MemoryOK /\ ThreadsOK /\ LogOK /\ RegionsOK
  BY DEF InCall, TraceInv, Fails
<1>2. PICK k \in DOMAIN log : k = thread[t].line
  BY <1>1, CallIsLine
<1>3. PICK l \in Line : l = log[k]
  BY <1>1 DEF LogOK
<1>4. PICK m \in Line : m = [l EXCEPT !.failed = TRUE]
  BY DEF Line
<1>5. log' = [log EXCEPT ![k] = m]
  BY <1>2, <1>3, <1>4 DEF Fails
<1>6. LogOK' /\ DOMAIN log' = DOMAIN log
  <2>1. /\ [log EXCEPT ![k] = m] \in Seq(Line)
        /\ DOMAIN [log EXCEPT ![k] = m] = DOMAIN log
    BY <1>1, LineChanged
  <2>2. stores' = stores
    BY DEF Fails
  <2>. QED  BY <1>1, <1>5, <2>1, <2>2 DEF LogOK
<1>7. ThreadsOK'
  BY <1>1, <1>6, ThreadGoesOn DEF Fails
<1>8. MemoryOK' /\ RegionsOK'
  BY <1>1 DEF MemoryOK, RegionsOK, Fails
<1>. QED  BY <1>6, <1>7, <1>8 DEF TraceInv

\* The exit of a mapping or of a munmap: the regions stay apart.
LEMMA ExitStep ==
  ASSUME TraceInv, UNCHANGED program, NEW t \in Threads, ExitMmap(t) \/ ExitMunmap(t)
  PROVE  TraceInv'
<1>. DEFINE line == CallOf(t)
            last == LastOf(line)
            kept == IF line.call = "fixed" THEN remove_overlaps(regions, line.start, last)
                    ELSE regions
<1>1. InCall(t) /\ RegionsOK
  BY DEF ExitMmap, ExitMunmap, InCall, TraceInv
<1>2. line.start \in Int /\ last \in Int /\ line.start <= last
  BY <1>1, CallIsLine
<1>. HIDE DEF line, last
<1>3. SomeRegions(kept) /\ Disjoint(kept)
  BY <1>1, <1>2, DisjointAround DEF RegionsOK
<1>4. CASE ExitMmap(t)
  <2>1. \/ regions' = kept
        \/ /\ CanInsert(kept, line.start, last)
           /\ regions' = kept \cup {[start |-> line.start, end |-> last]}
    BY <1>4 DEF ExitMmap, line, last
  <2>. HIDE DEF kept
  <2>2. SomeRegions(regions') /\ Disjoint(regions')
    BY <2>1, <1>2, <1>3, DisjointWith
  <2>3. RegionsOK'
    BY <2>2 DEF RegionsOK
  <2>. QED  BY <2>3, <1>4, HookStep DEF ExitMmap
<1>5. CASE ExitMunmap(t)
  <2>1. regions' = remove_overlapping_regions(regions, line.start, last)
    BY <1>5 DEF ExitMunmap, line, last
  <2>2. SomeRegions(regions') /\ Disjoint(regions')
    BY <2>1, <1>1, <1>2, DisjointWithout DEF RegionsOK
  <2>3. RegionsOK'
    BY <2>2 DEF RegionsOK
  <2>. QED  BY <2>3, <1>5, HookStep DEF ExitMunmap
<1>. QED  BY <1>4, <1>5

LEMMA StoreStep ==
  ASSUME TraceInv, UNCHANGED program, NEW t \in Threads, NEW addr \in Int, Store(t, addr)
  PROVE  TraceInv'
<1>1. MemoryOK /\ ThreadsOK /\ LogOK /\ RegionsOK
  BY DEF TraceInv
<1>2. /\ stores' = stores + 1 /\ UNCHANGED <<space, regions, writes, log>>
      /\ content' = [content EXCEPT ![space[PageOf(addr)].file][OffsetOf(addr)] = stores']
      /\ thread' = [thread EXCEPT ![t] = [pc |-> "stored", line |-> 0, addr |-> addr]]
  BY DEF Store
<1>3. LogOK' /\ stores' \in Int
  BY <1>1, <1>2 DEF LogOK
<1>4. MemoryOK'
  BY <1>1, <1>2, <1>3 DEF MemoryOK
<1>5. ThreadsOK'
  BY <1>1, <1>2 DEF ThreadsOK, InCall
<1>. QED  BY <1>1, <1>2, <1>3, <1>4, <1>5 DEF TraceInv, RegionsOK

LEMMA EmitMergedStep ==
  ASSUME TraceInv, UNCHANGED program, NEW t \in Threads, EmitMerged(t)
  PROVE  TraceInv'
<1>1. MemoryOK /\ ThreadsOK /\ LogOK /\ RegionsOK
  BY DEF TraceInv
<1>2. PICK ea \in Int : ea = thread[t].addr
  BY <1>1 DEF ThreadsOK
<1>3. PICK k \in Int : k = writes[t].line
  BY <1>1 DEF ThreadsOK
<1>4. PICK value \in Int : value = Memory(ea)
  BY <1>1, <1>2, MemoryIsInt
<1>5. PICK more \in SUBSET (Files \X Int) : more = BytesAt({ea})
  BY <1>1, <1>2, BytesOK
<1>6. /\ log' = [log EXCEPT ![k] =
                    [log[k] EXCEPT !.dump = Append(log[k].dump, value),
                                   !.length = log[k].length + 1,
                                   !.bytes = log[k].bytes \cup more]]
      /\ writes' = [writes EXCEPT ![t].next = ea + 1] /\ Back(t)
      /\ UNCHANGED <<space, content, regions, stores>>
  BY <1>2, <1>3, <1>4, <1>5 DEF EmitMerged
<1>7. LogOK' /\ DOMAIN log' = DOMAIN log
  <2>1. CASE k \in DOMAIN log
    <3>1. PICK l \in Line : l = log[k]
      BY <1>1, <2>1 DEF LogOK
    <3>2. /\ Append(l.dump, value) \in Seq(Int) /\ l.length + 1 \in Nat \ {0}
          /\ l.bytes \cup more \in SUBSET (Files \X Int)
      BY DEF Line
    <3>3. PICK m \in Line : m = [l EXCEPT !.dump = Append(l.dump, value),
                                          !.length = l.length + 1,
                                          !.bytes = l.bytes \cup more]
      BY <3>2 DEF Line
    <3>4. log' = [log EXCEPT ![k] = m]
      BY <1>6, <3>1, <3>3
    <3>. QED  BY <1>1, <1>6, <2>1, <3>4, LineChanged DEF LogOK
  <2>2. CASE k \notin DOMAIN log
    <3>1. log' = log
      BY <1>1, <1>6, <2>2 DEF LogOK
    <3>. QED  BY <1>1, <1>6, <3>1 DEF LogOK
  <2>. QED  BY <2>1, <2>2
<1>8. ThreadsOK'
  BY <1>1, <1>2, <1>6, <1>7 DEF ThreadsOK, Back, InCall, User
<1>. QED  BY <1>1, <1>6, <1>7, <1>8 DEF TraceInv, MemoryOK, RegionsOK

LEMMA EmitNewStep ==
  ASSUME TraceInv, UNCHANGED program, NEW t \in Threads, EmitNew(t)
  PROVE  TraceInv'
<1>1. MemoryOK /\ ThreadsOK /\ LogOK /\ RegionsOK
  BY DEF TraceInv
<1>2. PICK ea \in Int : ea = thread[t].addr
  BY <1>1 DEF ThreadsOK
<1>3. PICK value \in Int : value = Memory(ea)
  BY <1>1, <1>2, MemoryIsInt
<1>4. PICK bytes \in SUBSET (Files \X Int) : bytes = BytesAt({ea})
  BY <1>1, <1>2, BytesOK
<1>. DEFINE l == [call |-> "mwrite", start |-> ea, length |-> 1, file |-> "other",
                  offset |-> 0, dump |-> <<value>>, done |-> TRUE,
                  failed |-> FALSE, bytes |-> bytes, stores |-> 0]
<1>5. l \in Line
  BY DEF Line
<1>6. /\ log' = Append(log, l) /\ Back(t)
      /\ writes' = [writes EXCEPT ![t] = [next |-> ea + 1, line |-> Len(log) + 1]]
      /\ UNCHANGED <<space, content, regions, stores>>
  BY <1>2, <1>3, <1>4 DEF EmitNew
<1>. HIDE DEF l
<1>7. LogOK' /\ Len(log) + 1 \in Int /\ DOMAIN log \subseteq DOMAIN log'
  BY <1>1, <1>5, <1>6, LineAdded DEF LogOK
<1>8. ThreadsOK'
  BY <1>1, <1>2, <1>6, <1>7 DEF ThreadsOK, Back, InCall, User
<1>. QED  BY <1>1, <1>6, <1>7, <1>8 DEF TraceInv, MemoryOK, RegionsOK

LEMMA TraceStep == TraceInv /\ [Next]_vars => TraceInv'
<1>. SUFFICES ASSUME TraceInv, [Next]_vars PROVE TraceInv'
  OBVIOUS
<1>1. CASE UNCHANGED vars
  BY <1>1 DEF vars, TraceInv, MemoryOK, ThreadsOK, LogOK, RegionsOK, InCall
<1>2. CASE Next
  <2>1. UNCHANGED program /\ program.threads \subseteq Threads
    BY <1>2, SpaceAssumption DEF Next, TraceInv
  <2>2. PICK t \in Threads : Step(t)
    BY <1>2, <2>1 DEF Next
  <2>3. RegionsOK
    BY DEF TraceInv
  <2>4. CASE \E request \in Requests : SyscallEntry(t, request)
    BY <2>1, <2>4, EntryStep
  <2>5. CASE MmapKernel(t) \/ FixedKernel(t) \/ MunmapKernel(t)
    BY <2>1, <2>5, MapStep
  <2>6. CASE MsyncKernel(t)
    BY <2>1, <2>6, MsyncStep
  <2>7. CASE Fails(t)
    BY <2>1, <2>7, FailStep
  <2>8. CASE ExitMmap(t) \/ ExitMunmap(t)
    BY <2>1, <2>8, ExitStep
  <2>9. CASE ExitOther(t) \/ EmitNothing(t)
    <3>1. RegionsOK'
      BY <2>3, <2>9 DEF ExitOther, EmitNothing, RegionsOK
    <3>. QED  BY <2>1, <2>9, <3>1, HookStep DEF ExitOther, EmitNothing
  <2>10. CASE \E addr \in UNION {StartOf(p)..(StartOf(p) + PageSize - 1) : p \in Pages} :
                 Store(t, addr)
    <3>1. PICK addr \in Int : Store(t, addr)
      BY <2>10
    <3>. QED  BY <2>1, <3>1, StoreStep
  <2>11. CASE EmitMerged(t)
    BY <2>1, <2>11, EmitMergedStep
  <2>12. CASE EmitNew(t)
    BY <2>1, <2>12, EmitNewStep
  <2>. QED  BY <2>2, <2>4, <2>5, <2>6, <2>7, <2>8, <2>9, <2>10, <2>11, <2>12 DEF Step
<1>. QED  BY <1>1, <1>2

\* However the calls and stores of the threads interleave, and whatever the lines
\* of an mmap and of a munmap that race with each other make of them, no two regions
\* of mtrace overlap: a store is traced or not, whichever region is found first
\* (insert, remove_overlaps and remove_overlapping_regions, mtrace.cpp).
THEOREM RegionsNeverOverlap == Spec => []Disjoint(regions)
<1>1. TraceInv => Disjoint(regions)
  BY DEF TraceInv, RegionsOK
<1>. QED  BY <1>1, TraceInit, TraceStep, PTL DEF Spec
=============================================================================
