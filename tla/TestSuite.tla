----------------------------- MODULE TestSuite -----------------------------
(***************************************************************************)
(* The dependency calculus of src/auto_test.py: the construction of an     *)
(* ALCTestSuite.  The constructor walks the traced disk operations in      *)
(* order and makes an Operation of each one; an Operation records the set  *)
(* `deps' of the earlier operations that must have reached the disk if it  *)
(* has.  A set of operations that contains the deps of each member is a    *)
(* "valid combo": a crash state the file system could leave behind.        *)
(*                                                                         *)
(* Operations are named by their position, micro_op_id + 1.  What the      *)
(* calculus looks at in an operation is its kind, the inode whose dirty    *)
(* set it enters (its own for write, truncate and sync, the parent         *)
(* directory's for a directory entry) and a byte range:                    *)
(*   write, sync    [offset, offset + count]                               *)
(*   truncate       [final_size, final_size]                               *)
(*   entries        irrelevant                                             *)
(*                                                                         *)
(* Here and in the other modules, an operator named after the one that     *)
(* follows it with a suffix that says what is wrong is a faulty variant of *)
(* it; it shows that some property can tell the two apart.                 *)
(***************************************************************************)
EXTENDS Integers, Sequences

CONSTANTS
    Files,      \* inodes of files
    Dirs,       \* inodes of directories
    MaxOffset,  \* bound: largest file offset
    MaxOps      \* bound: length of the trace

ASSUME MaxOffsetAssumption == MaxOffset \in Nat
ASSUME MaxOpsAssumption == MaxOps \in Nat

VARIABLES
    op_list,                  \* the operations constructed so far
    deps,                     \* deps[i]: what operation i depends on
    dirty_write_ops_inode,    \* per inode, operations no sync has covered
    latest_fsync_on_any_file  \* the last sync, NoSync before the first

vars == <<op_list, deps, dirty_write_ops_inode, latest_fsync_on_any_file>>

Inodes == Files \cup Dirs
Offset == 0..MaxOffset
NoSync == 0

metadata_calls == {"create_dir_entry", "delete_dir_entry"}
calls_of_interest == {"write", "truncate", "sync"} \cup metadata_calls

Operation == [syscall: calls_of_interest, inode: Inodes,
              start: Offset, end: Offset]

Ids == DOMAIN op_list
NextId == Len(op_list) + 1
IsSync(i) == op_list[i].syscall = "sync"

-----------------------------------------------------------------------------
(* Operation.__init__: update_dirty_write_collection,                      *)
(* calculate_dependencies, clear_dirty_write_collection, in this order.    *)

\* Does the sync of the range [start, end] flush op, if op is dirty on the
\* inode that is synced?
is_included_in_sync_range(op, start, end) ==
    \/ op.syscall \in {"write", "truncate"} /\ start <= op.start /\ op.end <= end
    \/ op.syscall \in metadata_calls

FlushedWholeInode(op) == dirty_write_ops_inode[op.inode]

Flushed(op) ==
    {j \in dirty_write_ops_inode[op.inode] :
        is_included_in_sync_range(op_list[j], op.start, op.end)}

FsyncDepsDirectOnly ==
    IF latest_fsync_on_any_file = NoSync THEN {} ELSE {latest_fsync_on_any_file}

\* What the latest fsync hands on to every later operation.
FsyncDeps ==
    IF latest_fsync_on_any_file = NoSync THEN {}
    ELSE deps[latest_fsync_on_any_file] \cup {latest_fsync_on_any_file}

\* An operation that stays in the buffer cache until something flushes it.
Buffered(op) ==
    /\ Len(op_list) < MaxOps
    /\ op_list' = Append(op_list, op)
    /\ deps' = Append(deps, FsyncDeps)
    /\ dirty_write_ops_inode' =
          [dirty_write_ops_inode EXCEPT ![op.inode] = @ \cup {NextId}]
    /\ UNCHANGED latest_fsync_on_any_file

Write(n, from, to) ==
    Buffered([syscall |-> "write", inode |-> n, start |-> from, end |-> to])

Truncate(n, final_size) ==
    Buffered([syscall |-> "truncate", inode |-> n,
              start |-> final_size, end |-> final_size])

DirEntry(call, parent) ==
    Buffered([syscall |-> call, inode |-> parent, start |-> 0, end |-> 0])

SyncOpNotRemembered(op) ==
    /\ Len(op_list) < MaxOps
    /\ op_list' = Append(op_list, op)
    /\ deps' = Append(deps, FsyncDeps \cup Flushed(op)
                              \cup UNION {deps[j] : j \in Flushed(op)})
    /\ dirty_write_ops_inode' =
          [dirty_write_ops_inode EXCEPT ![op.inode] = @ \ Flushed(op)]
    /\ UNCHANGED latest_fsync_on_any_file

SyncOp(op) ==
    /\ Len(op_list) < MaxOps
    /\ op_list' = Append(op_list, op)
    /\ deps' = Append(deps, FsyncDeps \cup Flushed(op)
                              \cup UNION {deps[j] : j \in Flushed(op)})
    /\ dirty_write_ops_inode' =
          [dirty_write_ops_inode EXCEPT ![op.inode] = @ \ Flushed(op)]
    /\ latest_fsync_on_any_file' = NextId

Sync(n, from, to) ==
    SyncOp([syscall |-> "sync", inode |-> n, start |-> from, end |-> to])

\* ALCTestSuite.__init__ resets the module's globals and then constructs one
\* Operation after the other.
Init ==
    /\ op_list = << >>
    /\ deps = << >>
    /\ dirty_write_ops_inode = [n \in Inodes |-> {}]
    /\ latest_fsync_on_any_file = NoSync

Next ==
    \/ \E n \in Files, from \in Offset, to \in Offset :
          from <= to /\ Write(n, from, to)
    \/ \E n \in Files, size \in Offset : Truncate(n, size)
    \/ \E call \in metadata_calls, parent \in Dirs : DirEntry(call, parent)
    \/ \E n \in Inodes, from \in Offset, to \in Offset :
          from <= to /\ Sync(n, from, to)

Spec == Init /\ [][Next]_vars

-----------------------------------------------------------------------------
(* The queries of a constructed suite.                                     *)

test_validity(combo) == \A i \in combo : deps[i] \subseteq combo

ValidCombos == {c \in SUBSET Ids : test_validity(c)}

DropPassForgets(drop_set) == {i \in Ids : deps[i] \cap drop_set # {}}

KeepListAsGiven(op_ids) == op_ids

\* drop_list_of_ops: one pass of its while loop, and the loop.  A pass that
\* adds nothing is the last one, so as many passes as operations are enough.
DropPass(drop_set) ==
    drop_set \cup {i \in Ids : deps[i] \cap drop_set # {}}

drop_list_of_ops(op_ids) ==
    LET drop[pass \in 0..Len(op_list)] ==
            IF pass = 0 THEN op_ids ELSE DropPass(drop[pass - 1])
    IN  Ids \ drop[Len(op_list)]

keep_list_of_ops(op_ids) == op_ids \cup UNION {deps[i] : i \in op_ids}

-----------------------------------------------------------------------------
(* Properties                                                              *)

\* Type invariant: every operation is one of the five calls on a known inode,
\* ids are ids, and latest_fsync_on_any_file names an operation.
TypeOK ==
    /\ op_list \in Seq(Operation)
    /\ deps \in Seq(SUBSET Nat)
    /\ Len(deps) = Len(op_list)
    /\ dirty_write_ops_inode \in [Inodes -> SUBSET Ids]
    /\ latest_fsync_on_any_file \in Ids \cup {NoSync}

\* Sync t flushes operation j whenever j came before it on the same inode.
Covers(t, j) ==
    /\ IsSync(t)
    /\ j < t
    /\ op_list[j].inode = op_list[t].inode
    /\ is_included_in_sync_range(op_list[j], op_list[t].start, op_list[t].end)

\* What deps means, without the dirty sets and the running latest fsync:
\* operation i needs every earlier sync, and every operation that a sync no
\* later than i flushes.
MeaningOfDeps(i) ==
    {j \in 1..(i - 1) : IsSync(j) \/ \E t \in 1..i : Covers(t, j)}

\* The incremental computation (dirty sets emptied by syncs, deps inherited
\* from the latest sync only) yields exactly the declared meaning: nothing a
\* sync made durable is lost when the dirty sets are emptied, and nothing is
\* required that no sync forced (auto_test.py:145-173, 205-224).
DepsExact == \A i \in Ids : deps[i] = MeaningOfDeps(i)

\* deps is transitively closed although each operation looks only one level
\* deep (auto_test.py:212, 223); test_validity and keep_list_of_ops rely on it.
DepsClosed == \A i \in Ids : \A j \in deps[i] : j \in Ids /\ deps[j] \subseteq deps[i]

\* Once dropping operations blocks i, it blocks everything after i: whatever
\* i depends on, each later operation depends on too.  generate_combos
\* (auto_test.py:360-365) leaves blocked operations out of its drop set and
\* would otherwise emit invalid combos.
BlockingIsMonotone ==
    \A i, k \in Ids : i < k =>
        /\ deps[i] \subseteq deps[k]
        /\ IsSync(i) => i \in deps[k]

\* drop_list_of_ops returns the largest valid combo without the given
\* operations: it is valid (the assertion commented out at auto_test.py:448)
\* and it contains every valid combo that avoids them.  What it drops on its own
\* account is a suffix of the trace: simulate_crashes.py:400-401 asserts it, and
\* the crash states the specifiers build by a cut and a few omissions depend on it.
DropListIsLargest ==
    \A dropped \in SUBSET Ids :
        LET rest == drop_list_of_ops(dropped)
        IN  /\ test_validity(rest)
            /\ rest \cap dropped = {}
            /\ \A c \in ValidCombos : c \cap dropped = {} => c \subseteq rest
            /\ \A last \in rest : 1..last \subseteq dropped \cup rest

\* keep_list_of_ops returns the smallest valid combo with the given
\* operations (the assertion at auto_test.py:470).
KeepListIsSmallest ==
    \A kept \in SUBSET Ids :
        LET all == keep_list_of_ops(kept)
        IN  /\ test_validity(all)
            /\ \A c \in ValidCombos : kept \subseteq c => all \subseteq c

-----------------------------------------------------------------------------
(* The strengthening of DepsExact that is inductive.                       *)

LatestIsLastSync ==
    /\ latest_fsync_on_any_file # NoSync => IsSync(latest_fsync_on_any_file)
    /\ \A i \in Ids : IsSync(i) => i <= latest_fsync_on_any_file

\* The dirty set of an inode: its operations that no sync has flushed.
DirtyIsUnflushed ==
    \A n \in Inodes : \A j \in Ids :
        j \in dirty_write_ops_inode[n] <=>
            /\ ~IsSync(j)
            /\ op_list[j].inode = n
            /\ \A t \in Ids : ~Covers(t, j)

IInv == TypeOK /\ LatestIsLastSync /\ DirtyIsUnflushed /\ DepsExact
=============================================================================
