----------------------------- MODULE StackTraces -----------------------------
(***************************************************************************)
(* The stack traces that strace prints at the entry of calls: the copy of  *)
(* /proc/PID/maps that each tcb keeps (mmap_cache of strace-4.8/defs.h),   *)
(* the calls that delete it, the search in it, and the two ways of walking *)
(* the stack (strace-4.8/syscall.c).                                       *)
(*                                                                         *)
(* The threads of a process share its address space, but each has a tcb.   *)
(* While strace prints a stack, the thread is stopped and the others run.  *)
(* An address is a page.  The first thread is the leader, whose pid the    *)
(* thread that calls execve gets.                                          *)
(***************************************************************************)
EXTENDS Integers, Sequences, SequencesExt, FiniteSetsExt

CONSTANTS Threads,
          Programs, Libraries,  \* files that are loaded by execve, and mapped
          LastPage,   \* of an address space that starts at page 1
          Workloads,  \* the calls, and SIGKILL, that there are, and the stack at a call
          MaxDepth,   \* 255 frames
          MaxCalls    \* bound: how many calls the threads make

ASSUME StackTracesAssumption ==
    /\ Threads \in SUBSET (Nat \ {0}) /\ 1 \in Threads
    /\ {LastPage, MaxDepth, MaxCalls} \subseteq Nat \ {0}

VARIABLES
    use_libunwind,
    workload, \* its stack has the pc, and of each frame the next one and the return address
    space,    \* what each page is: a page of a file, or nothing
    thread,   \* where each thread is, and the call it makes
    mmap_cache,
    ui,       \* whether libunwind_ui of the tcb is of a thread there is
    backtrace,\* the stack that strace is printing, after its call
    printed,  \* the last address printed, and what was printed of it
    exited,   \* EXITIF
    missed,   \* of each tcb: what changed the space and left the cache as it is
    killed, calls

vars == <<use_libunwind, workload, space, thread, mmap_cache, ui, backtrace, printed,
          exited, missed, killed, calls>>

Pages == 1..LastPage
Free == [file |-> "", offset |-> 0]
NULL == << >>
NoBacktrace == [tcp |-> 0, frame |-> 0, retaddr |-> 0, depth |-> 0]
NotPrinted == [tcp |-> 0, addr |-> 0, as |-> Free]
User == [pc |-> "user", call |-> ""]

\* The program is loaded at the first page.
Loaded(f) == [p \in Pages |-> IF p = 1 THEN [file |-> f, offset |-> 0] ELSE Free]

-----------------------------------------------------------------------------
(* The cache                                                               *)

\* The lines of /proc/PID/maps with the name of a file: each is a longest run of
\* pages of it.
Starts(sp, p) ==
    /\ sp[p] # Free
    /\ p - 1 \in Pages =>
           sp[p - 1] # [file |-> sp[p].file, offset |-> sp[p].offset - 1]

RunEnd(sp, p) ==
    Min({q \in (p + 1)..(LastPage + 1) : q \notin Pages \/ sp[q] = Free \/ Starts(sp, q)})

MapsOf(sp) ==
    [i \in 1..Cardinality({p \in Pages : Starts(sp, p)}) |->
        LET p == SetToSortSeq({q \in Pages : Starts(sp, q)}, <)[i]
        IN  [start |-> p, end |-> RunEnd(sp, p), offset |-> sp[p].offset, file |-> sp[p].file]]

Maps == MapsOf(space)

\* What the memory after the last entry holds: alloc_mmap_cache does not set it.
Unset == {[start |-> 0, end |-> 0, offset |-> 0, file |-> "unset"],
          [start |-> 0, end |-> LastPage + 2, offset |-> 0, file |-> "unset"]}

\* The cache, which has one entry more than mmap_cache_size.
alloc_mmap_cache(unset) == Append(Maps, unset)

SearchFromZero(cache, addr) ==
    LET found == {i \in 1..Len(cache) : cache[i].start <= addr /\ addr <= cache[i].end}
    IN  IF found = {} THEN Free
        ELSE [file |-> cache[Min(found)].file,
              offset |-> addr - cache[Min(found)].start + cache[Min(found)].offset]

\* print_normalized_addr: upper starts at the size, which is after the last entry.
print_normalized_addr(cache, addr) ==
    LET search[lower \in 0..Len(cache), upper \in -1..Len(cache)] ==
            LET mid == (upper + lower) \div 2
                cur == cache[mid + 1]
            IN  IF lower > upper THEN Free
                ELSE IF cur.start <= addr /\ addr < cur.end
                THEN [file |-> cur.file, offset |-> addr - cur.start + cur.offset]
                ELSE IF lower = upper THEN Free
                ELSE IF addr < cur.start THEN search[lower, mid - 1]
                ELSE search[mid + 1, upper]
    IN  search[0, Len(cache) - 1]

PrintAddr(tcp, cache, addr) ==
    printed' = [tcp |-> tcp, addr |-> addr, as |-> print_normalized_addr(cache, addr)]

-----------------------------------------------------------------------------
(* The threads and the kernel                                              *)

Init ==
    /\ use_libunwind \in BOOLEAN
    /\ workload \in Workloads
    /\ \E f \in Programs : space = Loaded(f)
    /\ thread = [t \in Threads |-> User]
    /\ mmap_cache = [t \in Threads |-> NULL] /\ ui = [t \in Threads |-> TRUE]
    /\ backtrace = NoBacktrace /\ printed = NotPrinted
    /\ missed = [t \in Threads |-> {}]
    /\ exited = FALSE /\ killed = FALSE /\ calls = 0

\* A call is open, mmap, munmap, mprotect, mremap, execve, mmap2 (sys_mmap_pgoff), or
\* "filtered", a mmap that is not in the set of -e trace=.
Call(t) ==
    /\ thread[t].pc = "user" /\ calls < MaxCalls /\ ~killed /\ ~exited
    /\ \E c \in workload.calls \ {"SIGKILL"} :
           thread' = [thread EXCEPT ![t] = [pc |-> "entry", call |-> c]]
    /\ calls' = calls + 1
    /\ UNCHANGED <<use_libunwind, workload, space, mmap_cache, ui, backtrace, printed,
                   exited, missed, killed>>

\* What a call does to the space: nothing, if it fails.
Served(c) ==
    \/ UNCHANGED space
    \/ /\ c \in {"mmap", "mmap2", "filtered"}
       /\ \E f \in Libraries, first \in Pages : \E last \in first..LastPage :
              space' = [p \in Pages |-> IF p \in first..last
                                       THEN [file |-> f, offset |-> p - first]
                                       ELSE space[p]]
    \/ /\ c = "munmap"
       /\ \E first \in Pages : \E last \in first..LastPage :
              space' = [p \in Pages |-> IF p \in first..last THEN Free ELSE space[p]]
    \/ /\ c = "mremap"
       /\ \E old, new \in Pages :
              space' = [p \in Pages |-> IF p = new THEN space[old]
                                       ELSE IF p = old THEN Free ELSE space[p]]
    \/ c = "execve" /\ \E f \in Programs : space' = Loaded(f)

DeletingNotUnmapped == {"mmap", "mprotect", "execve"}

\* The calls after which sys_func deletes the cache.
Deleting == {"mmap", "munmap", "mprotect", "execve"}

Missing(t, c) ==
    [u \in Threads |->
        missed[u] \cup (IF u # t THEN {"thread"} ELSE {})
                  \cup (IF u = t /\ c \in {"mmap2", "mremap", "filtered"}
                      THEN {"unnoticed"} ELSE {})]

\* A thread that has ended: strace has been told, or will be.
Gone(u) == [pc |-> IF thread[u].pc = "dropped" THEN "dropped" ELSE "gone",
            call |-> thread[u].call]

\* The kernel serves a call; it may fail.  execve ends the other threads.
Serve(t) ==
    LET c == thread[t].call
    IN  /\ thread[t].pc = "kernel" /\ ~exited
        /\ Served(c)
        /\ missed' = IF space' = space THEN missed ELSE Missing(t, c)
        /\ IF c = "execve" /\ space' # space
           THEN /\ thread' = [u \in Threads |-> IF u = t THEN [pc |-> "exit", call |-> c]
                                               ELSE Gone(u)]
                /\ ui' = [u \in Threads |-> ui[u] /\ (u # t \/ t = 1)]
           ELSE thread' = [thread EXCEPT ![t].pc = "exit"] /\ UNCHANGED ui
        /\ UNCHANGED <<use_libunwind, workload, mmap_cache, backtrace, printed, exited,
                       killed, calls>>

\* SIGKILL, which ends a stopped thread as well.
Kill ==
    /\ "SIGKILL" \in workload.calls /\ ~killed /\ ~exited
    /\ killed' = TRUE
    /\ thread' = [t \in Threads |-> Gone(t)]
    /\ UNCHANGED <<use_libunwind, workload, space, mmap_cache, ui, backtrace, printed,
                   exited, missed, calls>>

-----------------------------------------------------------------------------
(* strace                                                                  *)

Idle == backtrace = NoBacktrace /\ ~exited

\* trace_syscall_entering of a call without a stack, or that is not traced.
\* mmap, munmap and mprotect print "[]".
Entering(t) ==
    /\ Idle /\ thread[t].pc = "entry"
    /\ thread[t].call \in {"mmap", "munmap", "mprotect", "filtered"}
    /\ thread' = [thread EXCEPT ![t].pc = "kernel"]
    /\ UNCHANGED <<use_libunwind, workload, space, mmap_cache, ui, backtrace, printed,
                   exited, missed, killed, calls>>

\* trace_syscall_entering of the others, up to output_stacktrace.
EnteringWithStack(t) ==
    /\ Idle /\ thread[t].pc = "entry"
    /\ thread[t].call \in {"open", "mmap2", "mremap", "execve"}
    /\ backtrace' = [NoBacktrace EXCEPT !.tcp = t]
    /\ thread' = [thread EXCEPT ![t].pc = "printing"]
    /\ UNCHANGED <<use_libunwind, workload, space, mmap_cache, ui, printed, exited, missed,
                   killed, calls>>

\* print_libunwind_backtrace and print_i386_ebp_backtrace up to the first address:
\* the registers can be read of a thread that is there, which libunwind looks up by
\* the pid that the tcb was made for.
RegistersRead(t) == thread[t].pc # "gone" /\ (use_libunwind => ui[t])

OutputStack(t) ==
    /\ backtrace.tcp = t /\ backtrace.depth = 0 /\ ~exited /\ RegistersRead(t)
    /\ \E unset \in Unset :
           LET cache == IF mmap_cache[t] # NULL THEN mmap_cache[t]
                        ELSE alloc_mmap_cache(unset)
           IN  /\ mmap_cache' = [mmap_cache EXCEPT ![t] = cache]
               /\ PrintAddr(t, cache, workload.stack.pc)
    /\ missed' = IF mmap_cache[t] = NULL THEN [missed EXCEPT ![t] = {}] ELSE missed
    /\ backtrace' = [backtrace EXCEPT !.frame = 1, !.depth = 1]
    /\ UNCHANGED <<use_libunwind, workload, space, thread, ui, exited, killed, calls>>

Exitif(t) ==
    /\ backtrace.tcp = t /\ backtrace.depth = 0 /\ ~exited /\ ~RegistersRead(t)
    /\ exited' = TRUE
    /\ UNCHANGED <<use_libunwind, workload, space, thread, mmap_cache, ui, backtrace,
                   printed, missed, killed, calls>>

Readable(t, frame) == thread[t].pc # "gone" /\ frame \in DOMAIN workload.stack.next

WalksOnWhileThere(t, frame, depth) ==
    IF use_libunwind THEN Readable(t, frame) ELSE frame # 0

\* Up to MaxDepth frames, or until the frame pointer is 0.
WalksOn(t, frame, depth) ==
    IF use_libunwind THEN Readable(t, frame) /\ depth <= MaxDepth ELSE frame # 0

\* One turn of the loop.  The frame pointer stays 0 for the last frame; without
\* libunwind an address that cannot be read is the one before it, and the loop ends
\* because the frame cannot be read either.
NextFrame(t) ==
    /\ backtrace.tcp = t /\ backtrace.depth > 0
    /\ WalksOn(t, backtrace.frame, backtrace.depth)
    /\ LET frame == backtrace.frame
           addr == IF Readable(t, frame) THEN workload.stack.ret[frame]
                   ELSE backtrace.retaddr
       IN  /\ PrintAddr(t, mmap_cache[t], addr)
           /\ backtrace' =
                [backtrace EXCEPT
                    !.retaddr = addr, !.depth = Min({@ + 1, MaxDepth + 1}),
                    !.frame = IF Readable(t, frame) THEN workload.stack.next[frame] ELSE 0]
    /\ UNCHANGED <<use_libunwind, workload, space, thread, mmap_cache, ui, exited, missed,
                   killed, calls>>

\* The end of the trace; the call goes on.
StackEnds(t) ==
    /\ backtrace.tcp = t /\ backtrace.depth > 0
    /\ ~WalksOn(t, backtrace.frame, backtrace.depth)
    /\ backtrace' = NoBacktrace /\ printed' = NotPrinted
    /\ thread' = IF thread[t].pc = "gone" THEN thread
                 ELSE [thread EXCEPT ![t].pc = "kernel"]
    /\ UNCHANGED <<use_libunwind, workload, space, mmap_cache, ui, exited, missed,
                   killed, calls>>

\* trace_syscall_exiting: delete_mmap_cache by sys_func.
Exiting(t) ==
    /\ Idle /\ thread[t].pc = "exit"
    /\ mmap_cache' = IF thread[t].call \in Deleting
                     THEN [mmap_cache EXCEPT ![t] = NULL] ELSE mmap_cache
    /\ thread' = [thread EXCEPT ![t] = User]
    /\ UNCHANGED <<use_libunwind, workload, space, ui, backtrace, printed, exited, missed,
                   killed, calls>>

\* droptcb
Dropped(t) ==
    /\ Idle /\ thread[t].pc = "gone" /\ ui' = [ui EXCEPT ![t] = FALSE]
    /\ mmap_cache' = [mmap_cache EXCEPT ![t] = NULL]
    /\ thread' = [thread EXCEPT ![t].pc = "dropped"]
    /\ UNCHANGED <<use_libunwind, workload, space, backtrace, printed, exited, missed,
                   killed, calls>>

PrintStep(t) == OutputStack(t) \/ Exitif(t) \/ NextFrame(t) \/ StackEnds(t)

Next ==
    \/ Kill
    \/ \E t \in Threads :
           \/ Call(t) \/ Serve(t)
           \/ Entering(t) \/ EnteringWithStack(t) \/ PrintStep(t)
           \/ Exiting(t) \/ Dropped(t)

\* strace does not wait for anything while it prints a stack.
Fairness == WF_vars(\E t \in Threads : PrintStep(t))

Spec == Init /\ [][Next]_vars /\ Fairness

-----------------------------------------------------------------------------
StackTracesTypeOK ==
    /\ space \in [Pages -> [file : Programs \cup Libraries \cup {""}, offset : 0..LastPage]]
    /\ \A t \in Threads :
           /\ thread[t].pc \in {"user", "entry", "printing", "kernel", "exit", "gone",
                                "dropped"}
           /\ mmap_cache[t] = NULL \/ Len(mmap_cache[t]) \in 1..(LastPage + 1)
           /\ thread[t].pc = "dropped" => mmap_cache[t] = NULL
    /\ backtrace.tcp \in Threads \cup {0}

\* While a thread does not make a call, its cache is what /proc/PID/maps says; unless
\* another thread has changed the address space, or a call that does not delete the
\* cache (mremap, the mmap2 of 32-bit programs, or a call that is not traced).
CachesCurrent ==
    \A t \in Threads :
        mmap_cache[t] # NULL /\ thread[t].pc \in {"user", "entry", "printing"}
            /\ missed[t] = {} =>
        Front(mmap_cache[t]) = Maps

\* What is printed of an address is the place in the file that is mapped there, and
\* nothing if there is none; unless the cache is not current.  For an address after
\* the last mapping of a file it may be anything.
AddressesRight ==
    [][LET p == printed'
       IN  p \notin {printed, NotPrinted} /\ missed'[p.tcp] = {} /\ ~killed =>
           \/ p.as = (IF p.addr \in Pages THEN space[p.addr] ELSE Free)
           \/ /\ p.as.file = "unset"
              /\ \A q \in Pages : q >= p.addr => space[q] = Free]_vars

\* strace prints every stack to its end, also of a thread that is killed meanwhile
\* or whose frames cannot be read; without libunwind, unless the frame pointers
\* form a cycle.  It gives up if the thread has gone since its stop, or was not the
\* leader of its process when it called execve.
Cyclic(s) == \A f \in DOMAIN s.next : s.next[f] \in DOMAIN s.next

StacksEnd ==
    \A t \in Threads :
        backtrace.tcp = t /\ (use_libunwind \/ ~Cyclic(workload.stack)) ~>
            \/ backtrace = NoBacktrace
            \/ exited /\ (thread[t].pc = "gone" \/ t # 1)
=============================================================================
