------------------------------- MODULE FdTracker -------------------------------
(***************************************************************************)
(* What src/conv_micro.py makes of the system calls on descriptors: the    *)
(* classes FileDescriptorTracker and ProcessTracker, and the branches of   *)
(* __get_micro_op that use them.                                           *)
(*                                                                         *)
(* s is the state of the conversion: the trackers, the replayed snapshot   *)
(* (names and sizes; it has no data), and what replay_micro_ops makes of   *)
(* the micro operations so far (bytes, and the places written since they   *)
(* were last synced).  Every branch is an operator from such a state, the  *)
(* thread and the arguments to the next state.                             *)
(*                                                                         *)
(* A byte is 0 or what a call wrote there.  Files are inodes; the inode of *)
(* a file that the replay creates stands for that of the traced one.       *)
(***************************************************************************)
EXTENDS Integers, Sequences, FiniteSets, SequencesExt, FiniteSetsExt

CONSTANTS
    Names,     \* interesting names: below base_path
    Inodes,    \* of interesting files
    Threads,
    Fds,       \* descriptors
    StdFds     \* 1 and 2 of them

Missing == 0   \* no inode, no tracker
Gone == -1     \* the tracker of a thread that an execve has ended

ASSUME TrackersAssumption ==
    /\ Inodes \subseteq Nat \ {0} /\ Threads \subseteq Nat \ {0}
    /\ Fds \subseteq Nat \ {0} /\ StdFds \subseteq Fds

\* fds and unwatched give the Struct of a descriptor in details: descriptors that
\* set_equivalent has made equivalent have one Struct.
NoFds == [fd \in {} |-> 0]
NewProcess == [fds |-> NoFds, unwatched |-> NoFds,
               details |-> [d \in {} |-> 0], child_tids |-> {}]

With(f, x, v) == [y \in DOMAIN f \cup {x} |-> IF y = x THEN v ELSE f[y]]
Without(f, S) == Restrict(f, DOMAIN f \ S)

\* get_proctracker: a thread nobody has created comes from the workload itself.
Tracked(s, tid) ==
    IF s.trackers[tid] # Missing THEN s
    ELSE [s EXCEPT !.trackers[tid] = tid, !.proc = With(@, tid, NewProcess)]
Pid(s, tid) == s.trackers[tid]
Proc(s, tid) == s.proc[Pid(s, tid)]
ProcFound(s, tid) ==
    Pid(s, tid) # Gone /\ (Pid(s, tid) = tid \/ tid \in Proc(s, tid).child_tids)

Watched(p, fd) == fd \in DOMAIN p.fds
Unwatched(p, fd) == fd \in DOMAIN p.unwatched
Struct(p, fd) == IF Watched(p, fd) THEN p.details[p.fds[fd]] ELSE p.details[p.unwatched[fd]]

Raised(s) == [s EXCEPT !.raised = TRUE]

\* A Struct that no descriptor refers to is gone.
Referred(p) == {p.fds[fd] : fd \in DOMAIN p.fds}
                   \cup {p.unwatched[fd] : fd \in DOMAIN p.unwatched}
Collected(p) == [p EXCEPT !.details = Restrict(@, Referred(p))]
NewKey(p) == Min((1..(Cardinality(Referred(p)) + 1)) \ Referred(p))

\* new_fd_mapping, of fdtracker or of fdtracker_unwatched
new_fd_mapping(s, tid, tracker, fd, struct) ==
    LET p == Proc(s, tid)
        q == [p EXCEPT !.details = With(@, NewKey(p), struct),
                       !.fds = IF tracker = "fds" THEN With(@, fd, NewKey(p)) ELSE @,
                       !.unwatched = IF tracker = "unwatched" THEN With(@, fd, NewKey(p)) ELSE @]
    IN  IF fd \in DOMAIN p[tracker] THEN Raised(s)
        ELSE [s EXCEPT !.proc[Pid(s, tid)] = q]

remove_fd_mappingWatchedOnly(p, fd) ==
    IF Watched(p, fd) THEN Collected([p EXCEPT !.fds = Without(@, {fd})]) ELSE p

\* close, and dup2 on a descriptor that is open
remove_fd_mapping(p, fd) ==
    Collected(IF Watched(p, fd) THEN [p EXCEPT !.fds = Without(@, {fd})]
              ELSE [p EXCEPT !.unwatched = Without(@, {fd})])

set_equivalentCopied(p, old, new) ==
    LET q == [p EXCEPT !.details = With(@, NewKey(p), Struct(p, old))]
    IN  IF Watched(p, old) THEN [q EXCEPT !.fds = With(@, new, NewKey(p))]
        ELSE [q EXCEPT !.unwatched = With(@, new, NewKey(p))]

set_equivalent(p, old, new) ==
    IF Watched(p, old) THEN [p EXCEPT !.fds = With(@, new, p.fds[old])]
    ELSE [p EXCEPT !.unwatched = With(@, new, p.unwatched[old])]

\* Are the assertions of set_equivalent true?
EquivalentAllowed(p, old, new) ==
    IF Watched(p, old) THEN ~Watched(p, new) ELSE ~Unwatched(p, new)

-----------------------------------------------------------------------------
(* The replayed snapshot and the micro operations                            *)

Size(s, name) == s.size[s.names[name]]
Exists(s, name) == s.names[name] # Missing

\* __replayed_truncate
Resized(s, name, size) == [s EXCEPT !.size[s.names[name]] = size]

Cut(bytes, size) == [b \in 1..size |-> IF b <= Len(bytes) THEN bytes[b] ELSE 0]
Bigger(m, n) == IF m >= n THEN m ELSE n
Overwrite(bytes, offset, data) ==
    [b \in 1..Bigger(Len(bytes), offset + Len(data)) |->
        IF b \in (offset + 1)..(offset + Len(data)) THEN data[b - offset]
        ELSE IF b <= Len(bytes) THEN bytes[b] ELSE 0]
Span(offset, count) == offset..(offset + count - 1)

Empty == [bytes |-> << >>, unsynced |-> {}]

\* A file is its bytes and the places not synced since they were written.
Write(f, offset, data) ==
    [bytes |-> Overwrite(f.bytes, offset, data),
     unsynced |-> f.unsynced \cup Span(offset, Len(data))]
Truncate(f, size) ==
    [bytes |-> Cut(f.bytes, size),
     unsynced |-> {b \in f.unsynced : b < size} \cup (Len(f.bytes)..(size - 1))]
SyncSpan(f, offset, count) == [f EXCEPT !.unsynced = @ \ Span(offset, count)]

OverlapOfUncut(pos, count, size) == IF pos >= size THEN 0 ELSE count

\* write and pwrite by a descriptor that is watched: its Struct d, at pos.  ret is
\* what the call has returned, and is asserted to be all that it was asked for.
OverlapOf(pos, count, size) ==
    IF pos >= size THEN 0 ELSE IF pos + count < size THEN count ELSE size - pos

Written(s, d, pos, data, ret) ==
    LET size == Size(s, d.name)
        over == OverlapOf(pos, Len(data), size)
        rest == SubSeq(data, over + 1, Len(data))
        sync(f, offset, count) ==
            IF "O_SYNC" \in d.attribs /\ count > 0 THEN SyncSpan(f, offset, count) ELSE f
        f0 == s.files[d.inode]
        f1 == IF over = 0 THEN f0
              ELSE sync(Write(f0, pos, SubSeq(data, 1, over)), pos, over)
        f2 == IF pos > size THEN Truncate(f1, pos) ELSE f1
        f3 == IF rest = << >> THEN f2
              ELSE sync(Write(f2, pos + over, rest), pos + over, Len(rest))
        grown == [s EXCEPT !.files[d.inode] = f3]
    IN  IF ret # Len(data) \/ ~Exists(s, d.name) \/ (pos < size /\ over = 0)
        THEN Raised(s)
        ELSE IF rest = << >> THEN grown
        ELSE Resized(grown, d.name, pos + Len(data))

-----------------------------------------------------------------------------
(* The branches of __get_micro_op                                            *)

\* O_APPEND starts at the end of the file, and goes on like any other.
ConvOpen(s, tid, c) ==
    LET p == Proc(s, tid)
        created == ~Exists(s, c.name)
        inode == IF created THEN c.inode ELSE s.names[c.name]
        there == IF created
                 THEN [s EXCEPT !.names[c.name] = inode, !.size = With(@, inode, 0),
                                !.files = With(@, inode, Empty)]
                 ELSE IF "O_TRUNC" \in c.flags
                 THEN Resized([s EXCEPT !.files[inode] = Truncate(@, 0)], c.name, 0)
                 ELSE s
    IN  IF c.name \notin Names
        THEN new_fd_mapping(s, tid, "unwatched", c.ret,
                            [name |-> c.name, pos |-> 0, inode |-> Missing,
                             attribs |-> c.flags \cap {"O_CLOEXEC"}])
        ELSE IF created /\ \E fd \in DOMAIN p.fds : Struct(p, fd).name = c.name
        THEN Raised(s)
        ELSE new_fd_mapping(there, tid, "fds", c.ret,
                 [name |-> c.name, inode |-> inode,
                  pos |-> IF "O_APPEND" \in c.flags THEN Size(there, c.name) ELSE 0,
                  attribs |-> c.flags \cap {"O_CLOEXEC", "O_SYNC"}])

SetPos(s, tid, fd, pos) ==
    LET p == Proc(s, tid)
    IN  [s EXCEPT !.proc[Pid(s, tid)].details[p.fds[fd]].pos = pos]

\* Standard output goes to the terminal, wherever descriptor 1 is.
ConvWrite(s, tid, c) ==
    LET d == Struct(Proc(s, tid), c.fd)
        after == Written(s, d, d.pos, c.data, c.ret)
    IN  IF ~Watched(Proc(s, tid), c.fd) \/ c.fd \in StdFds THEN s
        ELSE IF after.raised THEN after
        ELSE SetPos(after, tid, c.fd, d.pos + Len(c.data))

ConvPwrite(s, tid, c) ==
    IF ~Watched(Proc(s, tid), c.fd) \/ c.fd \in StdFds THEN s
    ELSE Written(s, Struct(Proc(s, tid), c.fd), c.offset, c.data, c.ret)

ConvLseek(s, tid, c) ==
    IF Watched(Proc(s, tid), c.fd) THEN SetPos(s, tid, c.fd, c.ret) ELSE s

\* The sizes are of the file with the inode, the truncation is by name.  That the
\* call has not failed is asserted of every descriptor, watched or not.
ConvFtruncate(s, tid, c) ==
    LET d == Struct(Proc(s, tid), c.fd)
    IN  IF c.ret = -1 THEN Raised(s)
        ELSE IF ~Watched(Proc(s, tid), c.fd) THEN s
        ELSE IF ~Exists(s, d.name) THEN Raised(s)
        ELSE Resized([s EXCEPT !.files[d.inode] = Truncate(@, c.size)], d.name, c.size)

ConvFsync(s, tid, c) ==
    LET d == Struct(Proc(s, tid), c.fd)
    IN  IF c.ret # 0 THEN Raised(s)
        ELSE IF ~Watched(Proc(s, tid), c.fd) THEN s
        ELSE [s EXCEPT !.files[d.inode] = SyncSpan(@, 0, s.size[d.inode])]

ConvClose(s, tid, c) ==
    [s EXCEPT !.proc[Pid(s, tid)] = remove_fd_mapping(@, c.fd)]

ConvDup(s, tid, c) ==
    LET p == IF c.op = "dup2" THEN remove_fd_mapping(Proc(s, tid), c.ret)
             ELSE Proc(s, tid)
    IN  IF ~Watched(p, c.fd) /\ ~Unwatched(p, c.fd)
        THEN [s EXCEPT !.proc[Pid(s, tid)] = p]
        ELSE IF ~EquivalentAllowed(p, c.fd, c.ret) THEN Raised(s)
        ELSE [s EXCEPT !.proc[Pid(s, tid)] = set_equivalent(p, c.fd, c.ret)]

\* F_SETFD
ConvSetfd(s, tid, c) ==
    LET p == Proc(s, tid)
        key == IF Watched(p, c.fd) THEN p.fds[c.fd] ELSE p.unwatched[c.fd]
    IN  IF ~Watched(p, c.fd) /\ ~Unwatched(p, c.fd) THEN s
        ELSE [s EXCEPT !.proc[Pid(s, tid)].details[key].attribs =
                  IF c.cloexec THEN @ \cup {"O_CLOEXEC"} ELSE @ \ {"O_CLOEXEC"}]

\* A file that is replaced is renamed aside, unless this process has it open.
ConvRename(s, tid, c) ==
    LET p == Proc(s, tid)
        replaced == s.names[c.dest]
    IN  IF \/ ~Exists(s, c.source) \/ c.source = c.dest
           \/ /\ replaced # Missing
              /\ \E fd \in DOMAIN p.fds : Struct(p, fd).inode = replaced
        THEN Raised(s)
        ELSE [s EXCEPT !.names[c.dest] = s.names[c.source], !.names[c.source] = Missing]

ConvUnlink(s, tid, c) ==
    IF Exists(s, c.name) THEN [s EXCEPT !.names[c.name] = Missing] ELSE Raised(s)

\* fork is a deep copy, clone shares the tracker.
record_fork(s, tid, new) ==
    IF s.trackers[new] # Missing THEN Raised(s)
    ELSE [s EXCEPT !.trackers[new] = new,
                   !.proc = With(@, new, [Proc(s, tid) EXCEPT !.child_tids = {}])]

record_clone(s, tid, new) ==
    IF s.trackers[new] # Missing THEN Raised(s)
    ELSE [s EXCEPT !.trackers[new] = Pid(s, tid),
                   !.proc[Pid(s, tid)].child_tids = @ \cup {new}]

\* Whatever execve has returned.
record_execve(s, tid) ==
    LET p == Proc(s, tid)
        closed == {fd \in DOMAIN p.fds : "O_CLOEXEC" \in p.details[p.fds[fd]].attribs}
        unwatched == {fd \in DOMAIN p.unwatched :
                         "O_CLOEXEC" \in p.details[p.unwatched[fd]].attribs}
    IN  [s EXCEPT !.proc[Pid(s, tid)] =
                      Collected([p EXCEPT !.fds = Without(@, closed), !.child_tids = {},
                                          !.unwatched = Without(@, unwatched)]),
                  !.trackers = [t \in Threads |-> IF t \in p.child_tids THEN Gone ELSE @[t]]]

\* __get_micro_op for the line of call c, and the loop of get_micro_ops, which
\* exits at the first exception.
Handled(s, tid, c) ==
    CASE c.op = "open" -> ConvOpen(s, tid, c)
      [] c.op = "write" -> ConvWrite(s, tid, c)
      [] c.op = "pwrite" -> ConvPwrite(s, tid, c)
      [] c.op = "lseek" -> ConvLseek(s, tid, c)
      [] c.op = "ftruncate" -> ConvFtruncate(s, tid, c)
      [] c.op = "fsync" -> ConvFsync(s, tid, c)
      [] c.op = "close" -> ConvClose(s, tid, c)
      [] c.op \in {"dup", "dup2"} -> ConvDup(s, tid, c)
      [] c.op = "setfd" -> ConvSetfd(s, tid, c)
      [] c.op = "rename" -> ConvRename(s, tid, c)
      [] c.op = "unlink" -> ConvUnlink(s, tid, c)
      [] c.op = "fork" -> record_fork(s, tid, c.ret)
      [] c.op = "clone" -> record_clone(s, tid, c.ret)
      [] c.op = "execve" -> record_execve(s, tid)
      [] c.op = "read" -> s

Converted(s, line) ==
    LET known == Tracked(s, line.tid)
        after == IF ProcFound(known, line.tid) THEN Handled(known, line.tid, line.call)
                 ELSE Raised(known)
    IN  IF s.raised THEN s ELSE [after EXCEPT !.row = line.call]
=============================================================================
