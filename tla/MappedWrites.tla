----------------------------- MODULE MappedWrites -----------------------------
(***************************************************************************)
(* A process with several threads that writes to files through shared      *)
(* mappings, traced by mtrace (src/mtrace/mtrace.cpp) for its stores and   *)
(* by strace for its system calls, and what src/conv_micro.py makes of the *)
(* two traces, sorted by time.                                             *)
(*                                                                         *)
(* A call is traced in three steps: at its entry, with the time that       *)
(* strace gives it; in the kernel; and at its exit, where mtrace updates   *)
(* its regions.  A store is two: the instruction, and the hook after it.   *)
(* The threads may take their steps in any order.                          *)
(*                                                                         *)
(* Addresses and offsets count units; the value of the n-th store is n.    *)
(***************************************************************************)
EXTENDS Memregions

CONSTANTS
    Threads, Files,
    Pages,      \* the pages of the address space
    PageSize,   \* in units
    FileSize,   \* of each file, which does not change
    Programs    \* bound: what the threads may do

ASSUME SpaceAssumption ==
    /\ PageSize \in Nat \ {0} /\ FileSize \in Nat \ {0} /\ Pages \subseteq Nat \ {0}
    /\ Programs \subseteq
          [threads: SUBSET Threads, calls: Nat, stores: Nat,
           kinds: SUBSET {"mmap", "fixed", "munmap", "msync"}]

VARIABLES
    program,  \* the program that runs
    space,    \* the kernel's map: what is at each page
    content,  \* the bytes of each file
    thread,   \* where each thread is
    regions,  \* MemregionTracker of mtrace
    writes,   \* mwrite_tracker, for each thread
    log,      \* the lines of both traces in the order of their times
    aborted,  \* has an assertion of mtrace ended the process?
    stores,   \* how many stores there have been
    met       \* what the traces cannot be expected to get right

vars == <<program, space, content, thread, regions, writes, log, aborted, stores, met>>

-----------------------------------------------------------------------------
(* The address space.  A mapping is the call that made it, how much of the   *)
(* file it was for, and the page's offset in the file.                       *)

Free == [map |-> 0, file |-> "free", offset |-> 0, length |-> 0]
Mapped(page) == space[page].file \in Files
Bytes == 0..(FileSize - 1)

PageOf(addr) == addr \div PageSize
StartOf(page) == page * PageSize
PagesOf(start, length) == PageOf(start)..PageOf(start + length - 1)

\* Where in the file of its page an address is, and whether the program may
\* write there: inside the mapping and inside the file.
OffsetOf(addr) == space[PageOf(addr)].offset + (addr % PageSize)
Writable(addr) ==
    /\ PageOf(addr) \in Pages /\ Mapped(PageOf(addr))
    /\ OffsetOf(addr) < space[PageOf(addr)].length /\ OffsetOf(addr) \in Bytes

BytesAt(addrs) ==
    {<<space[PageOf(a)].file, OffsetOf(a)>> : a \in {a \in addrs : Writable(a)}}

\* A program maps a file from a page of it to its end, as conv_micro asserts, or
\* to the end of the last page; or something else, which is not traced.
PageEnd == PageSize * (((FileSize - 1) \div PageSize) + 1)
Mappings ==
    {[file |-> f, offset |-> o, length |-> end - o] :
        f \in Files, o \in {PageSize * k : k \in 0..((FileSize - 1) \div PageSize)},
        end \in {FileSize, PageEnd}}
    \cup {[file |-> "other", offset |-> 0, length |-> PageSize]}

-----------------------------------------------------------------------------
(* conv_micro.py: __get_micro_op for one line, after the lines before it      *)

Converted0 == [regions |-> {}, content |-> [f \in Files |-> [b \in Bytes |-> 0]],
               synced |-> << >>, raised |-> FALSE]

LastOfTooFar(line) == line.start + line.length

LastOf(line) == line.start + line.length - 1

ConvMmap(c, line) ==
    LET kept == IF line.call = "fixed"
                THEN conv_remove_overlaps(c.regions, line.start, LastOf(line)) ELSE c.regions
        region == [start |-> line.start, end |-> LastOf(line),
                   file |-> line.file, offset |-> line.offset]
    IN  IF line.file \notin Files THEN [c EXCEPT !.regions = kept]
        ELSE [c EXCEPT !.regions = kept \cup {region},
                       !.raised = @ \/ Overlapping(kept, line.start, LastOf(line)) # {}]

\* The pages written, in the order of regions; a byte is the one of the dump.
ConvMwrite(c, line) ==
    LET write(bytes, r) ==
            [bytes EXCEPT ![r.file] =
                [b \in Bytes |->
                    IF b \in r.offset..(r.offset + r.end - r.start)
                    THEN line.dump[r.start - line.start + 1 + (b - r.offset)]
                    ELSE bytes[r.file][b]]]
    IN  [c EXCEPT !.content =
            FoldLeft(write, @, resolve_range(c.regions, line.start, LastOf(line)))]

ConvMsyncWholeRegions(c, line) ==
    [c EXCEPT !.synced = Append(@,
        UNION {{<<r.file, b, c.content[r.file][b]>> :
                    b \in Bytes \cap (r.offset..(r.offset + r.end - r.start))} :
                r \in Overlapping(c.regions, line.start, LastOf(line))})]

\* A file_sync_range promises what has been written so far.
ConvMsync(c, line) ==
    [c EXCEPT !.synced = Append(@,
        UNION {{<<r.file, b, c.content[r.file][b]>> :
                    b \in Bytes \cap (r.offset..(r.offset + r.end - r.start))} :
                r \in Range(resolve_range(c.regions, line.start, LastOf(line)))})]

ConvLine(c, line) ==
    CASE line.call \in {"mmap", "fixed"} -> ConvMmap(c, line)
      [] line.call = "munmap" ->
            [c EXCEPT !.regions =
                remove_overlapping_regions(@, line.start, LastOf(line))]
      [] line.call = "msync" -> ConvMsync(c, line)
      [] line.call = "mwrite" -> ConvMwrite(c, line)

\* For a failed mmap __get_micro_op returns None, which get_micro_ops cannot add to
\* its list; other failed calls, and one that has not returned, are skipped.
ConvFailed(c, line) ==
    IF line.call \in {"mmap", "fixed"} THEN [c EXCEPT !.raised = TRUE] ELSE c

\* get_micro_ops, which exits at the first exception.
Converted ==
    LET convert(c, line) ==
            IF c.raised THEN c
            ELSE IF line.failed THEN ConvFailed(c, line)
            ELSE IF line.done THEN ConvLine(c, line) ELSE c
    IN  FoldLeft(convert, Converted0, log)

-----------------------------------------------------------------------------
NoWrite == [next |-> 0, line |-> 0]
User == [pc |-> "user", line |-> 0, addr |-> 0]

Init ==
    /\ program \in Programs
    /\ space = [p \in Pages |-> Free]
    /\ content = [f \in Files |-> [b \in Bytes |-> 0]]
    /\ thread = [t \in Threads |-> User]
    /\ regions = {} /\ writes = [t \in Threads |-> NoWrite]
    /\ log = << >> /\ aborted = FALSE /\ stores = 0 /\ met = {}

Calls == Cardinality({i \in DOMAIN log : log[i].call # "mwrite"})
CallOf(t) == log[thread[t].line]
InCall(t) == thread[t].pc \in {"call", "return"}

\* Another thread is in a call that changes these pages, other than a munmap that
\* is done; or uses them in an msync or a store.
Changing(t, pages) ==
    \E u \in Threads \ {t} :
        /\ InCall(u) /\ CallOf(u).call # "msync" /\ CallOf(u).start # 0
        /\ ~(CallOf(u).call = "munmap" /\ CallOf(u).done)
        /\ PagesOf(CallOf(u).start, CallOf(u).length) \cap pages # {}

Using(t, pages) ==
    \E u \in Threads \ {t} :
        \/ /\ InCall(u) /\ CallOf(u).call = "msync"
           /\ PagesOf(CallOf(u).start, CallOf(u).length) \cap pages # {}
        \/ thread[u].pc = "stored" /\ PageOf(thread[u].addr) \in pages

\* What a program asks for: the kernel finds the place of an mmap without
\* MAP_FIXED; the other calls are for whole pages that exist.
Requests ==
    {[call |-> "mmap", start |-> 0, file |-> m.file, offset |-> m.offset,
      length |-> m.length] : m \in Mappings}
    \cup
    {[call |-> "fixed", start |-> StartOf(p), file |-> m.file, offset |-> m.offset,
      length |-> m.length] :
        p \in Pages, m \in {m \in Mappings : m.length % PageSize = 0}}
    \cup
    {[call |-> call, start |-> StartOf(p), file |-> "other", offset |-> 0,
      length |-> n * PageSize] : call \in {"munmap", "msync"}, p \in Pages, n \in 1..2}

\* flush_mwrite, and the entry stops of Pin and strace.
SyscallEntry(t, request) ==
    /\ thread[t].pc = "user" /\ Calls < program.calls
    /\ request.call \in program.kinds
    /\ request.call # "mmap" => PagesOf(request.start, request.length) \subseteq Pages
    /\ log' = Append(log, [call |-> request.call, start |-> request.start,
                           length |-> request.length, file |-> request.file,
                           offset |-> request.offset, dump |-> << >>, done |-> FALSE,
                           failed |-> FALSE, bytes |-> {}, stores |-> 0])
    /\ thread' = [thread EXCEPT ![t] = [pc |-> "call", line |-> Len(log) + 1, addr |-> 0]]
    /\ writes' = [writes EXCEPT ![t] = NoWrite]
    /\ met' = LET pages == PagesOf(request.start, request.length) IN
              IF request.call # "mmap"
                 /\ (Changing(t, pages) \/ (request.call # "msync" /\ Using(t, pages)))
              THEN met \cup {"race"} ELSE met
    /\ UNCHANGED <<space, content, regions, aborted, stores>>

-----------------------------------------------------------------------------
(* The kernel                                                                *)

Returns(t) == thread' = [thread EXCEPT ![t].pc = "return"]

\* The place has been freed by a munmap that is later in the log, or has not
\* returned.
Reuses(t, pages) ==
    \E j \in DOMAIN log :
        /\ log[j].call = "munmap" /\ log[j].done
        /\ PagesOf(log[j].start, log[j].length) \cap pages # {}
        /\ j > thread[t].line \/ \E u \in Threads : InCall(u) /\ thread[u].line = j

\* The call takes pages of a file mapping of which others stay, among these.
CutBy(t, pages) ==
    LET taken == PagesOf(CallOf(t).start, CallOf(t).length) IN
    \E p \in taken, q \in pages \ taken : Mapped(p) /\ space[q].map = space[p].map

\* What the call meets, when it changes pages and a mapping may be cut at those.
Meets(t, pages, cuttable) ==
    met' = met \cup (IF CutBy(t, cuttable) THEN {"cut"} ELSE {})
               \cup (IF Reuses(t, pages) THEN {"reuse"} ELSE {})
               \cup (IF Changing(t, pages) \/ Using(t, pages) THEN {"race"} ELSE {})

Changes(t, start, pages, what(_)) ==
    /\ pages \subseteq Pages
    /\ space' = [p \in Pages |-> IF p \in pages THEN what(p) ELSE space[p]]
    /\ log' = [log EXCEPT ![thread[t].line] = [@ EXCEPT !.start = start, !.done = TRUE]]
    /\ Returns(t)
    /\ UNCHANGED <<content, regions, writes, aborted, stores>>

\* The pages of the mapping that thread t has asked for.
NewPage(t, start, p) ==
    LET line == CallOf(t) IN
    [map |-> thread[t].line, file |-> line.file,
     offset |-> line.offset + StartOf(p) - start, length |-> line.offset + line.length]

MmapKernel(t) ==
    /\ thread[t].pc = "call" /\ CallOf(t).call = "mmap"
    /\ \E q \in Pages :
          LET start == StartOf(q)
              pages == PagesOf(start, CallOf(t).length)
          IN  /\ \A p \in pages \cap Pages : space[p] = Free
              /\ Changes(t, start, pages, LAMBDA p : NewPage(t, start, p))
              /\ Meets(t, pages, {})

FixedKernel(t) ==
    LET start == CallOf(t).start
        pages == PagesOf(start, CallOf(t).length)
    IN  /\ thread[t].pc = "call" /\ CallOf(t).call = "fixed"
        /\ Changes(t, start, pages, LAMBDA p : NewPage(t, start, p))
        /\ Meets(t, pages, {p \in Pages : StartOf(p) > start})

MunmapKernel(t) ==
    LET start == CallOf(t).start
        pages == PagesOf(start, CallOf(t).length)
    IN  /\ thread[t].pc = "call" /\ CallOf(t).call = "munmap"
        /\ Changes(t, start, pages, LAMBDA p : Free)
        /\ Meets(t, {}, Pages)

MsyncKernel(t) ==
    /\ thread[t].pc = "call" /\ CallOf(t).call = "msync"
    /\ \A p \in PagesOf(CallOf(t).start, CallOf(t).length) : space[p] # Free
    /\ log' = [log EXCEPT ![thread[t].line] =
                  [@ EXCEPT !.done = TRUE, !.stores = stores,
                            !.bytes = BytesAt(CallOf(t).start..LastOf(CallOf(t)))]]
    /\ Returns(t)
    /\ UNCHANGED <<space, content, regions, writes, aborted, stores, met>>

\* The call fails: -1 is in both traces.
Fails(t) ==
    /\ thread[t].pc = "call"
    /\ log' = [log EXCEPT ![thread[t].line] = [@ EXCEPT !.failed = TRUE]]
    /\ met' = IF CallOf(t).call \in {"mmap", "fixed"} THEN met \cup {"failed"} ELSE met
    /\ Returns(t)
    /\ UNCHANGED <<space, content, regions, writes, aborted, stores>>

-----------------------------------------------------------------------------
(* The hooks of mtrace                                                       *)

Back(t) == thread' = [thread EXCEPT ![t] = User]

\* SyscallExit, for mmap: addr_start is what the call has returned.
ExitMmap(t) ==
    LET line == CallOf(t)
        kept == IF line.call = "fixed" THEN remove_overlaps(regions, line.start, LastOf(line))
                ELSE regions
        tracked == line.file \in Files
        inserts == CanInsert(kept, line.start, LastOf(line))
    IN  /\ thread[t].pc = "return" /\ line.call \in {"mmap", "fixed"} /\ line.done
        /\ regions' = IF tracked /\ inserts
                      THEN kept \cup {[start |-> line.start, end |-> LastOf(line)]} ELSE kept
        /\ aborted' = ((tracked /\ ~inserts) \/ Cardinality(kept) > MaxRegions)
        /\ Back(t)
        /\ UNCHANGED <<space, content, writes, log, stores, met>>

ExitMunmap(t) ==
    /\ thread[t].pc = "return" /\ CallOf(t).call = "munmap" /\ CallOf(t).done
    /\ regions' = remove_overlapping_regions(regions, CallOf(t).start, LastOf(CallOf(t)))
    /\ Back(t)
    /\ UNCHANGED <<space, content, writes, log, aborted, stores, met>>

\* Another call, or a failed one.
ExitOther(t) ==
    /\ thread[t].pc = "return" /\ (CallOf(t).call = "msync" \/ ~CallOf(t).done)
    /\ Back(t)
    /\ UNCHANGED <<space, content, regions, writes, log, aborted, stores, met>>

\* CaptureWriteEa, and the instruction.
Store(t, addr) ==
    /\ thread[t].pc = "user" /\ stores < program.stores
    /\ Writable(addr)
    /\ stores' = stores + 1
    /\ content' = [content EXCEPT ![space[PageOf(addr)].file][OffsetOf(addr)] = stores']
    /\ thread' = [thread EXCEPT ![t] = [pc |-> "stored", line |-> 0, addr |-> addr]]
    /\ met' = IF Changing(t, {PageOf(addr)}) THEN met \cup {"race"} ELSE met
    /\ UNCHANGED <<space, regions, writes, log, aborted>>

\* What PIN_SafeCopy finds: the memory as it is now.
Memory(addr) ==
    IF Writable(addr) THEN content[space[PageOf(addr)].file][OffsetOf(addr)] ELSE 0

\* Lines that the store is before, when it is merged, although it came later, and
\* that are about the same bytes or the same page.
IsLate(line, addr) ==
    \E j \in (line + 1)..Len(log) :
        \/ log[j].bytes \cap BytesAt({addr}) # {}
        \/ log[j].call \in {"mmap", "fixed", "munmap"} /\ log[j].start # 0
           /\ PageOf(addr) \in PagesOf(log[j].start, log[j].length)

\* EmitWrite, outside of the regions.
EmitNothing(t) ==
    /\ thread[t].pc = "stored" /\ ~Covers(regions, thread[t].addr)
    /\ Back(t)
    /\ UNCHANGED <<space, content, regions, writes, log, aborted, stores, met>>

\* A store next to the last one, not long after it, lengthens its line.
EmitMerged(t) ==
    LET ea == thread[t].addr
        line == writes[t].line
        last == log[line]
    IN  /\ thread[t].pc = "stored" /\ Covers(regions, ea)
        /\ writes[t].next = ea
        /\ log' = [log EXCEPT ![line] =
                      [last EXCEPT !.dump = Append(last.dump, Memory(ea)),
                                   !.length = last.length + 1,
                                   !.bytes = last.bytes \cup BytesAt({ea})]]
        /\ writes' = [writes EXCEPT ![t].next = ea + 1]
        /\ met' = IF IsLate(line, ea) THEN met \cup {"late"} ELSE met
        /\ Back(t)
        /\ UNCHANGED <<space, content, regions, aborted, stores>>

EmitNew(t) ==
    LET ea == thread[t].addr IN
    /\ thread[t].pc = "stored" /\ Covers(regions, ea)
    /\ log' = Append(log, [call |-> "mwrite", start |-> ea, length |-> 1, file |-> "other",
                           offset |-> 0, dump |-> <<Memory(ea)>>, done |-> TRUE,
                           failed |-> FALSE, bytes |-> BytesAt({ea}), stores |-> 0])
    /\ writes' = [writes EXCEPT ![t] = [next |-> ea + 1, line |-> Len(log) + 1]]
    /\ Back(t)
    /\ UNCHANGED <<space, content, regions, aborted, stores, met>>

-----------------------------------------------------------------------------
Step(t) ==
    \/ \E request \in Requests : SyscallEntry(t, request)
    \/ MmapKernel(t) \/ FixedKernel(t) \/ MunmapKernel(t) \/ MsyncKernel(t) \/ Fails(t)
    \/ ExitMmap(t) \/ ExitMunmap(t) \/ ExitOther(t)
    \/ \E addr \in UNION {StartOf(p)..(StartOf(p) + PageSize - 1) : p \in Pages} :
          Store(t, addr)
    \/ EmitNothing(t) \/ EmitMerged(t) \/ EmitNew(t)

Next ==
    /\ ~aborted /\ UNCHANGED program
    /\ \E t \in program.threads : Step(t)

Spec == Init /\ [][Next]_vars

-----------------------------------------------------------------------------
(* Properties.  What is expected of the traces depends on what the threads     *)
(* have done: met has "cut" when part of a mapping of a file was unmapped, or  *)
(* was replaced so that a later part stays; "reuse" when mmap gave a thread    *)
(* the place of a munmap that is later in the log or had not returned; "race"  *)
(* when a thread stored to pages, or changed them, while another changed them; *)
(* "late" when a store was merged into an earlier line although a line of      *)
(* another thread about the same place is between the two; and "failed" when   *)
(* an mmap failed, which ends the conversion.                                  *)

MappedWritesTypeOK ==
    /\ regions \subseteq [start: Nat, end: Nat]
    /\ \A r \in regions : r.start <= r.end
    /\ Disjoint(regions)
    /\ \A i \in DOMAIN log : log[i].call = "mwrite" => Len(log[i].dump) = log[i].length

Quiet == ~aborted /\ \A t \in Threads : thread[t].pc = "user"

\* The assertions on insertion of both trackers hold: mtrace never aborts, and the
\* conversion raises an exception only at a failed mmap.
AssertionsHold ==
    met \cap {"reuse", "race"} = {} =>
        ~aborted /\ (Converted.raised <=> "failed" \in met)

\* The two trackers and the kernel agree on which addresses are those of files: that
\* of mtrace always, and that of conv_micro if no mmap has failed.
TrackersAgree ==
    Quiet /\ met \cap {"cut", "reuse", "race"} = {} =>
        \A p \in Pages : \A a \in StartOf(p)..(StartOf(p) + PageSize - 1) :
            LET mapped == Mapped(p) /\ OffsetOf(a) < space[p].length
            IN  /\ Covers(regions, a) = mapped
                /\ "failed" \notin met => Covers(Converted.regions, a) = mapped

\* The files that conv_micro replays are those the program has written.
FilesAgree ==
    Quiet /\ met = {} => Converted.content = content

\* conv_micro never writes a byte to a place where the program did not write it,
\* also if part of a mapping was unmapped.
WrittenThere ==
    Quiet /\ met \cap {"late", "race", "reuse"} = {} =>
        \A f \in Files : \A b \in Bytes :
            LET value == Converted.content[f][b] IN
            value # 0 => \E i \in DOMAIN log :
                /\ log[i].call = "mwrite" /\ <<f, b>> \in log[i].bytes
                /\ \E k \in DOMAIN log[i].dump : log[i].dump[k] = value

\* msync is for the bytes that are mapped there, and for no store that came later.
SyncedInTime ==
    Quiet /\ met = {} =>
        LET calls == SelectSeq(log, LAMBDA line : line.call = "msync" /\ line.done)
            synced == Converted.synced
        IN  \A i \in DOMAIN calls :
                /\ calls[i].bytes = {<<s[1], s[2]>> : s \in synced[i]}
                /\ \A s \in synced[i] : s[3] <= calls[i].stores
=============================================================================
