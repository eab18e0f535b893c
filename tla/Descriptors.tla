------------------------------ MODULE Descriptors ------------------------------
(***************************************************************************)
(* Processes and threads that open, share, duplicate and inherit file      *)
(* descriptors and write through them, and what src/conv_micro.py makes of *)
(* the lines that strace has written of it, in the order of the times at   *)
(* which the calls began.                                                  *)
(*                                                                         *)
(* The kernel has one position for each opening of a file, however many    *)
(* descriptors of however many processes refer to it; conv_micro has       *)
(* FdTracker.                                                              *)
(*                                                                         *)
(* A call begins, takes effect, and then its line is known; it may begin   *)
(* long before.  The conversion is shown as far as the lines are known.    *)
(***************************************************************************)
EXTENDS FdTracker

CONSTANTS
    Outside,   \* a name that is not interesting
    MaxSize,   \* bound: of files
    MaxCounts, \* bound: bytes of a write
    Programs   \* bound: what the threads may do

Flags == {"O_TRUNC", "O_APPEND", "O_CLOEXEC", "O_SYNC"}
Operations == {"open", "write", "pwrite", "read", "lseek", "ftruncate", "fsync",
               "close", "dup", "dup2", "setfd", "rename", "unlink", "fork",
               "clone", "execve"}

ASSUME ProgramsAssumption ==
    /\ Outside \notin Names /\ MaxSize \in Nat /\ MaxCounts \in Nat /\ 1 \in Threads
    /\ Programs \subseteq [calls: Nat, ops: SUBSET Operations, flags: SUBSET SUBSET Flags,
                           begins: BOOLEAN, fails: BOOLEAN]

VARIABLES
    program,    \* the program that runs
    calls,      \* how many calls have taken effect
    names,      \* what is at each name
    files,      \* the files
    openings,   \* the openings of files
    fdtable,    \* per process: the opening and the flag of each descriptor
    process,    \* the process of each thread
    lines,      \* begun calls, in that order, but for those converted
    conv,       \* the conversion, see FdTracker
    stale,      \* <<process, opening>>: conv cannot know the position
    mixed,      \* <<process, opening>>: conv cannot know FD_CLOEXEC
    lost,       \* processes: conv cannot know the descriptors
    unsure,     \* files: conv cannot know what is in them
    forgotten,  \* threads: a failed execve has ended them for conv
    late        \* has a call that began earlier disturbed a later one?

kernelVars == <<names, files, openings, fdtable, process>>
ghostVars == <<stale, mixed, lost, unsure, forgotten, late>>
vars == <<program, calls, kernelVars, lines, conv, ghostVars>>

-----------------------------------------------------------------------------
(* The kernel                                                                *)

NewInode == Min(Inodes \ DOMAIN files)
Terminal == [inode |-> Missing, pos |-> 0, name |-> Outside, flags |-> {}]

Table(t) == fdtable[process[t]]
Opening(t, fd) == openings[Table(t)[fd].opening]
File(t, fd) == Opening(t, fd).inode
Interesting(t, fd) == File(t, fd) # Missing
FreeFds(t) == Fds \ DOMAIN Table(t)
Fd(t) == Min(FreeFds(t))
Siblings(t) == {u \in Threads : process[u] = process[t]}

-----------------------------------------------------------------------------
(* The lines                                                                 *)

Unknown == [op |-> "unknown"]

\* What a call is about: calls that share none of it may be put in any order.
AboutFd(t, fd) ==
    {<<"fd", process[t], fd>>}
        \cup IF fd \in DOMAIN Table(t)
             THEN {<<"opening", Table(t)[fd].opening>>, <<"file", File(t, fd)>>,
                   <<"name", Opening(t, fd).name>>}
             ELSE {}
AboutName(name) ==
    {<<"name", name>>} \cup (IF name \in Names THEN {<<"file", names[name]>>} ELSE {})
AboutProcess(t) ==
    UNION {AboutFd(t, fd) : fd \in Fds} \cup {<<"thread", u>> : u \in Siblings(t)}

Begun(t) == {i \in DOMAIN lines : lines[i].tid = t /\ lines[i].call = Unknown}
Slot(t) == IF Begun(t) = {} THEN Len(lines) + 1 ELSE Min(Begun(t))

\* t's call has taken effect.  killed are the threads that it ends: strace writes
\* "<unfinished ...>" of what they have begun, which is no line to the reader.
Done(t, call, about, killed) ==
    LET mine == [tid |-> t, call |-> [call EXCEPT !.excused = @ \/ t \in forgotten],
                 about |-> about \cup {<<"thread", t>>}]
        all == [lines EXCEPT ![Slot(t)] = mine]
        added == IF Begun(t) = {} THEN Append(lines, mine) ELSE all
        there == SelectSeq(added, LAMBDA l : ~(l.tid \in killed /\ l.call = Unknown))
        open == {i \in DOMAIN there : there[i].call = Unknown}
        known == IF open = {} THEN Len(there) ELSE Min(open) - 1
    IN  /\ calls' = calls + 1
        /\ lines' = SubSeq(there, known + 1, Len(there))
        /\ conv' = FoldLeft(Converted, conv, SubSeq(there, 1, known))
        /\ late' = (late \/ \E i \in DOMAIN lines :
                              /\ i > Slot(t) /\ lines[i].call # Unknown
                              /\ lines[i].about \cap mine.about # {})
        /\ UNCHANGED program

-----------------------------------------------------------------------------
(* What conv can know                                                        *)

View(t, fd) == <<process[t], Table(t)[fd].opening>>
Views(o) == {<<process[u], o>> : u \in {u \in Threads :
                process[u] > 0 /\ \E fd \in DOMAIN Table(u) : Table(u)[fd].opening = o}}

\* conv does not know that the end of the file has moved.
AppendViews(i) ==
    UNION {Views(o) : o \in {o \in DOMAIN openings : /\ openings[o].inode = i
                                                   /\ "O_APPEND" \in openings[o].flags}}

\* The file is still the one at the name it was opened by.
Named(t, fd) == names[Opening(t, fd).name] = File(t, fd)
Followed(t, fd) == Named(t, fd) /\ process[t] \notin lost
Confused(t, fd) == {File(t, fd), names[Opening(t, fd).name]} \ {Missing}

-----------------------------------------------------------------------------
(* The calls                                                                 *)

Running(t, op) ==
    /\ calls < program.calls /\ op \in program.ops
    /\ ~conv.raised /\ ~late

\* A name and an opening of it, a descriptor for it, and perhaps a new file.
FreeOpening == Min((1..(Cardinality(DOMAIN openings) + 1))
                       \ {o \in DOMAIN openings : Views(o) # {}})

Open(t) ==
    \E name \in Names \cup {Outside}, flags \in program.flags :
        LET created == name \in Names /\ names[name] = Missing
            inode == IF name = Outside THEN Missing
                     ELSE IF created THEN NewInode ELSE names[name]
            emptied == ~created /\ name \in Names /\ "O_TRUNC" \in flags
            fd == Fd(t)
            o == FreeOpening
            call == [op |-> "open", name |-> name, flags |-> flags, ret |-> fd, inode |-> inode,
                     excused |-> \/ process[t] \in lost
                                 \/ created /\ \E f \in DOMAIN Table(t) : Opening(t, f).name = name]
        IN  /\ Running(t, "open") /\ FreeFds(t) # {}
            /\ created => Inodes # DOMAIN files
            /\ names' = IF created THEN [names EXCEPT ![name] = inode] ELSE names
            /\ files' = IF created THEN With(files, inode, Empty)
                        ELSE IF emptied THEN [files EXCEPT ![inode] = Truncate(@, 0)] ELSE files
            /\ openings' = With(openings, o, [inode |-> inode, pos |-> 0, name |-> name,
                                              flags |-> flags \cap {"O_APPEND", "O_SYNC"}])
            /\ fdtable' = [fdtable EXCEPT ![process[t]] =
                              With(@, fd, [opening |-> o, cloexec |-> "O_CLOEXEC" \in flags])]
            /\ stale' = {v \in stale \cup (IF emptied THEN AppendViews(inode) ELSE {}) : v[2] # o}
            /\ mixed' = {v \in mixed : v[2] # o}
            /\ UNCHANGED <<process, lost, unsure, forgotten>>
            /\ Done(t, call, AboutFd(t, fd) \cup AboutName(name) \cup {<<"file", inode>>}, {})

\* The bytes of the n-th call.
Data(count) == [k \in 1..count |-> 8 * (calls + 1) + k]

KernelWrite(o, at, data) ==
    LET f == files[o.inode]
        there == IF at > Len(f.bytes) THEN Truncate(f, at) ELSE f
        after == Write(there, at, data)
    IN  IF data = << >> THEN f
        ELSE IF "O_SYNC" \in o.flags THEN SyncSpan(after, at, Len(data)) ELSE after

\* What a write of count bytes may return: it may fail, or write a part.
Results(count) == {count} \cup (IF program.fails THEN {-1} \cup 1..(count - 1) ELSE {})

\* Both write and pwrite of a file that is open for O_APPEND write at its end.
WriteAt(t, fd, op, offset, at, asked, ret) ==
    LET o == Opening(t, fd)
        i == o.inode
        data == SubSeq(asked, 1, ret)
        sure == /\ Followed(t, fd) /\ fd \notin StdFds
                /\ IF op = "write" THEN View(t, fd) \notin stale ELSE at = offset
                /\ data = << >> => at <= Len(files[i].bytes)
        call == [op |-> op, fd |-> fd, offset |-> offset, data |-> asked, ret |-> ret,
                 excused |-> \/ process[t] \in lost \/ names[o.name] = Missing
                             \/ ret # Len(asked)
                             \/ /\ data = << >>
                                /\ \/ ~sure \/ i \in unsure
                                   \/ at < Len(files[i].bytes)]
        grown == at + Len(data) > Len(files[i].bytes) /\ data # << >>
    IN  /\ files' = [files EXCEPT ![i] = KernelWrite(o, at, data)]
        /\ openings' = IF op = "write" /\ data # << >>
                       THEN [openings EXCEPT ![Table(t)[fd].opening].pos = at + Len(data)]
                       ELSE openings
        /\ stale' = stale
              \cup (IF op = "write" /\ data # << >>
                    THEN Views(Table(t)[fd].opening)
                             \ (IF fd \in StdFds THEN {} ELSE {View(t, fd)}) ELSE {})
              \cup (IF ~grown THEN {}
                    ELSE AppendViews(i) \ (IF op = "write" THEN {View(t, fd)} ELSE {}))
        /\ unsure' = IF sure THEN unsure ELSE unsure \cup Confused(t, fd)
        /\ UNCHANGED <<names, fdtable, process, mixed, lost, forgotten>>
        /\ Done(t, call, AboutFd(t, fd), {})

WriteCall(t) ==
    \E fd \in DOMAIN Table(t), count \in 0..MaxCounts :
        LET o == Opening(t, fd)
            at == IF "O_APPEND" \in o.flags THEN Len(files[o.inode].bytes) ELSE o.pos
        IN  /\ Running(t, "write") /\ Interesting(t, fd) /\ at + count <= MaxSize
            /\ \E ret \in Results(count) : WriteAt(t, fd, "write", at, at, Data(count), ret)

PwriteCall(t) ==
    \E fd \in DOMAIN Table(t), count \in 0..MaxCounts, offset \in 0..MaxSize :
        LET o == Opening(t, fd)
            at == IF "O_APPEND" \in o.flags THEN Len(files[o.inode].bytes) ELSE offset
        IN  /\ Running(t, "pwrite") /\ Interesting(t, fd) /\ at + count <= MaxSize
            /\ \E ret \in Results(count) :
                  WriteAt(t, fd, "pwrite", offset, at, Data(count), ret)

\* Of one byte.  conv_micro ignores it.
Read(t) ==
    \E fd \in DOMAIN Table(t) :
        LET o == Table(t)[fd].opening
        IN  /\ Running(t, "read") /\ Interesting(t, fd)
            /\ openings[o].pos < Len(files[File(t, fd)].bytes)
            /\ openings' = [openings EXCEPT ![o].pos = @ + 1]
            /\ stale' = stale \cup (IF "O_APPEND" \in openings[o].flags THEN {} ELSE Views(o))
            /\ UNCHANGED <<names, files, fdtable, process, mixed, lost, unsure, forgotten>>
            /\ Done(t, [op |-> "read", excused |-> FALSE], AboutFd(t, fd), {})

Lseek(t) ==
    \E fd \in DOMAIN Table(t), pos \in 0..MaxSize :
        LET o == Table(t)[fd].opening
            appends == "O_APPEND" \in openings[o].flags
        IN  /\ Running(t, "lseek") /\ Interesting(t, fd)
            /\ openings' = [openings EXCEPT ![o].pos = pos]
            /\ stale' = IF appends
                        THEN IF pos = Len(files[File(t, fd)].bytes) THEN stale \ {View(t, fd)}
                             ELSE stale \cup {View(t, fd)}
                        ELSE (stale \cup Views(o)) \ {View(t, fd)}
            /\ UNCHANGED <<names, files, fdtable, process, mixed, lost, unsure, forgotten>>
            /\ Done(t, [op |-> "lseek", fd |-> fd, ret |-> pos, excused |-> FALSE],
                    AboutFd(t, fd), {})

Ftruncate(t) ==
    \E fd \in DOMAIN Table(t), size \in 0..MaxSize :
        LET i == File(t, fd)
        IN  /\ Running(t, "ftruncate") /\ Interesting(t, fd)
            /\ files' = [files EXCEPT ![i] = Truncate(@, size)]
            /\ stale' = IF size = Len(files[i].bytes) THEN stale ELSE stale \cup AppendViews(i)
            /\ unsure' = IF Followed(t, fd) THEN unsure ELSE unsure \cup Confused(t, fd)
            /\ UNCHANGED <<names, openings, fdtable, process, mixed, lost, forgotten>>
            /\ Done(t, [op |-> "ftruncate", fd |-> fd, size |-> size, ret |-> 0,
                        excused |-> process[t] \in lost \/ names[Opening(t, fd).name] = Missing],
                    AboutFd(t, fd), {})

Fsync(t) ==
    \E fd \in DOMAIN Table(t) :
        LET i == File(t, fd)
        IN  /\ Running(t, "fsync") /\ Interesting(t, fd)
            /\ files' = [files EXCEPT ![i].unsynced = {}]
            /\ unsure' = IF process[t] \in lost THEN unsure \cup {i} ELSE unsure
            /\ UNCHANGED <<names, openings, fdtable, process, stale, mixed, lost, forgotten>>
            /\ Done(t, [op |-> "fsync", fd |-> fd, ret |-> 0, excused |-> FALSE],
                    AboutFd(t, fd), {})

\* ftruncate or fsync of any descriptor, open or not, fails.
TruncateOrSyncFails(t) ==
    \E fd \in Fds, op \in {"ftruncate", "fsync"} :
        /\ Running(t, op) /\ program.fails
        /\ UNCHANGED <<names, files, openings, fdtable, process,
                       stale, mixed, lost, unsure, forgotten>>
        /\ Done(t, [op |-> op, fd |-> fd, size |-> 0, ret |-> -1, excused |-> TRUE],
                AboutFd(t, fd), {})

Close(t) ==
    \E fd \in DOMAIN Table(t) :
        /\ Running(t, "close")
        /\ fdtable' = [fdtable EXCEPT ![process[t]] = Without(@, {fd})]
        /\ UNCHANGED <<names, files, openings, process, stale, mixed, lost, unsure, forgotten>>
        /\ Done(t, [op |-> "close", fd |-> fd, excused |-> FALSE], AboutFd(t, fd), {})

\* dup and F_DUPFD take the lowest descriptor, dup2 the one it is given.  The new
\* one is not close-on-exec.
Dup(t) ==
    \E fd \in DOMAIN Table(t), op \in {"dup", "dup2"}, new \in Fds :
        LET d == Table(t)[fd]
        IN  /\ Running(t, op)
            /\ op = "dup" => FreeFds(t) # {} /\ new = Fd(t)
            /\ fdtable' = [fdtable EXCEPT ![process[t]] =
                               IF new = fd THEN @
                               ELSE With(@, new, [opening |-> d.opening, cloexec |-> FALSE])]
            /\ mixed' = IF d.cloexec THEN mixed \cup {View(t, fd)} ELSE mixed
            /\ lost' = IF new = fd THEN lost \cup {process[t]} ELSE lost
            /\ UNCHANGED <<names, files, openings, process, stale, unsure, forgotten>>
            /\ Done(t, [op |-> op, fd |-> fd, ret |-> new, excused |-> process[t] \in lost],
                    AboutFd(t, fd) \cup AboutFd(t, new), {})

Setfd(t) ==
    \E fd \in DOMAIN Table(t), flag \in BOOLEAN :
        LET o == Table(t)[fd].opening
            alone == {f \in DOMAIN Table(t) : Table(t)[f].opening = o} = {fd}
        IN  /\ Running(t, "setfd")
            /\ fdtable' = [fdtable EXCEPT ![process[t]][fd].cloexec = flag]
            /\ mixed' = IF alone THEN mixed \ {View(t, fd)} ELSE mixed \cup {View(t, fd)}
            /\ UNCHANGED <<names, files, openings, process, stale, lost, unsure, forgotten>>
            /\ Done(t, [op |-> "setfd", fd |-> fd, cloexec |-> flag, excused |-> FALSE],
                    AboutFd(t, fd), {})

Rename(t) ==
    \E source, dest \in Names :
        LET open == \E fd \in DOMAIN Table(t) : File(t, fd) = names[dest]
        IN  /\ Running(t, "rename") /\ names[source] # Missing
            /\ names' = IF source = dest THEN names
                        ELSE [names EXCEPT ![dest] = names[source], ![source] = Missing]
            /\ UNCHANGED <<files, openings, fdtable, process,
                           stale, mixed, lost, unsure, forgotten>>
            /\ Done(t, [op |-> "rename", source |-> source, dest |-> dest,
                        excused |-> \/ process[t] \in lost \/ source = dest
                                    \/ names[dest] # Missing /\ open],
                    AboutName(source) \cup AboutName(dest), {})

Unlink(t) ==
    \E name \in Names :
        /\ Running(t, "unlink") /\ names[name] # Missing
        /\ names' = [names EXCEPT ![name] = Missing]
        /\ UNCHANGED <<files, openings, fdtable, process, stale, mixed, lost, unsure, forgotten>>
        /\ Done(t, [op |-> "unlink", name |-> name, excused |-> FALSE], AboutName(name), {})

\* A process with a copy of the descriptors, of the same openings; or a thread.
NewThread == Min({u \in Threads : process[u] = Missing})
Fork(t) ==
    /\ Running(t, "fork") /\ \E u \in Threads : process[u] = Missing
    /\ process' = [process EXCEPT ![NewThread] = NewThread]
    /\ fdtable' = [fdtable EXCEPT ![NewThread] = Table(t)]
    /\ LET inherited(views) == {<<NewThread, v[2]>> : v \in {v \in views : v[1] = process[t]}}
       IN  /\ stale' = stale \cup inherited(stale)
           /\ mixed' = mixed \cup inherited(mixed)
    /\ lost' = IF process[t] \in lost THEN lost \cup {NewThread} ELSE lost
    /\ UNCHANGED <<names, files, openings, unsure, forgotten>>
    /\ Done(t, [op |-> "fork", ret |-> NewThread, excused |-> FALSE], AboutProcess(t), {})

Clone(t) ==
    /\ Running(t, "clone") /\ \E u \in Threads : process[u] = Missing
    /\ process' = [process EXCEPT ![NewThread] = process[t]]
    /\ UNCHANGED <<names, files, openings, fdtable, stale, mixed, lost, unsure, forgotten>>
    /\ Done(t, [op |-> "clone", ret |-> NewThread, excused |-> FALSE], AboutProcess(t), {})

\* In the leader; the other threads end.
Execve(t) ==
    LET g == process[t]
        others == Siblings(t) \ {t}
    IN  /\ Running(t, "execve") /\ g = t
        /\ fdtable' = [fdtable EXCEPT ![g] = Without(@, {fd \in DOMAIN @ : @[fd].cloexec})]
        /\ process' = [u \in Threads |-> IF u \in others THEN Gone ELSE process[u]]
        /\ lost' = IF \E v \in mixed : v[1] = g THEN lost \cup {g} ELSE lost
        /\ UNCHANGED <<names, files, openings, stale, mixed, unsure, forgotten>>
        /\ Done(t, [op |-> "execve", ret |-> 0, excused |-> FALSE], AboutProcess(t), others)

\* In any thread, and nothing has happened: but conv closes what is close-on-exec
\* and ends all threads but the leader.
ExecveFails(t) ==
    LET g == process[t]
        closes == \/ \E fd \in DOMAIN Table(t) : Table(t)[fd].cloexec
                  \/ \E v \in mixed : v[1] = g
    IN  /\ Running(t, "execve") /\ program.fails
        /\ lost' = IF closes THEN lost \cup {g} ELSE lost
        /\ forgotten' = forgotten \cup (Siblings(t) \ {g})
        /\ UNCHANGED <<names, files, openings, fdtable, process, stale, mixed, unsure>>
        /\ Done(t, [op |-> "execve", ret |-> -1, excused |-> FALSE], AboutProcess(t), {})

\* A call whose line is put here begins, but does not take effect yet.
Begins(t) ==
    /\ program.begins /\ calls < program.calls /\ ~conv.raised /\ ~late
    /\ Begun(t) = {}
    /\ lines' = Append(lines, [tid |-> t, call |-> Unknown, about |-> {}])
    /\ UNCHANGED <<program, calls, kernelVars, conv, ghostVars>>

-----------------------------------------------------------------------------
Start == [bytes |-> <<1, 2>>, unsynced |-> {}]

\* The workload starts with one file and the terminal as its descriptor 1.
Init ==
    /\ program \in Programs /\ calls = 0
    /\ \E first \in Names :
           /\ names = [n \in Names |-> IF n = first THEN 1 ELSE Missing]
           /\ files = [i \in {1} |-> Start]
           /\ conv = [trackers |-> [t \in Threads |-> Missing],
                      proc |-> NoFds, names |-> names,
                      size |-> [i \in {1} |-> 2], files |-> files,
                      raised |-> FALSE, row |-> Unknown]
    /\ openings = [o \in {1} |-> Terminal]
    /\ process = [t \in Threads |-> IF t = 1 THEN 1 ELSE Missing]
    /\ fdtable = [t \in Threads |-> IF t = 1 THEN [fd \in {1} |-> [opening |-> 1, cloexec |-> FALSE]]
                                    ELSE NoFds]
    /\ lines = << >>
    /\ stale = {} /\ mixed = {} /\ lost = {} /\ unsure = {}
    /\ forgotten = {} /\ late = FALSE

Next ==
    \E t \in {t \in Threads : process[t] > 0} :
        \/ Open(t) \/ WriteCall(t) \/ PwriteCall(t) \/ Read(t) \/ Lseek(t)
        \/ Ftruncate(t) \/ Fsync(t) \/ Close(t) \/ Dup(t) \/ Setfd(t)
        \/ Rename(t) \/ Unlink(t) \/ Fork(t) \/ Clone(t) \/ Execve(t)
        \/ TruncateOrSyncFails(t) \/ ExecveFails(t)
        \/ Begins(t)

Spec == Init /\ [][Next]_vars

-----------------------------------------------------------------------------
\* Every line is known and converted, and their order was that of the calls.
UpToDate == lines = << >> /\ ~conv.raised /\ ~late

\* The bytes and the size of every file are those that the micro operations make,
\* whoever wrote them, by which descriptor, at which position, and what they sync
\* is what was synced: but for files that were written where conv_micro cannot
\* know (unsure, see the README).
FilesRebuilt ==
    UpToDate =>
        /\ conv.names = names
        /\ \A i \in DOMAIN files \ unsure :
               /\ conv.files[i] = files[i]
               /\ conv.size[i] = Len(files[i].bytes)

\* The trackers have the descriptors of every process, of the right files, at the
\* right positions: through dup, fork, clone, execve, close and reuse.
DescriptorsAgree ==
    UpToDate =>
        \A t \in {t \in Threads : process[t] = t /\ t \in DOMAIN conv.proc} \ lost :
            LET p == conv.proc[t]
                watched == {fd \in DOMAIN Table(t) : Interesting(t, fd)}
            IN  /\ DOMAIN p.fds = watched
                /\ DOMAIN p.unwatched \subseteq DOMAIN Table(t) \ watched
                /\ \A fd \in watched :
                       /\ Struct(p, fd).inode = File(t, fd)
                       /\ \/ View(t, fd) \in stale \/ File(t, fd) \in unsure
                          \/ Struct(p, fd).pos =
                                IF "O_APPEND" \in Opening(t, fd).flags
                                THEN Len(files[File(t, fd)].bytes) ELSE Opening(t, fd).pos

\* The conversion ends with an exception only where that is known: at the results that
\* conv_micro asserts not to see, and where its trackers have lost track.
Converts == conv.raised /\ ~late => conv.row.excused
=============================================================================
