------------------------------ MODULE LegalCombos ------------------------------
(***************************************************************************)
(* The test suite of a list of disk operations: what dops_set_legal of     *)
(* src/simulate_crashes.py hands to ALCTestSuite, and the dependencies it  *)
(* gets.  TestSuite_proofs shows that the constructor computes             *)
(* MeaningOfDeps for every list, so it is used here in its place.          *)
(***************************************************************************)
EXTENDS DiskOps

CONSTANTS
    StdoutInode  \* the inode that stands for the terminal, -1 in the code

\* What Operation.__init__ takes from a row.  An output becomes a write to a
\* file that is never synced.
AsOperationEntryOnInode(row) ==
    CASE row.op \in {"write", "sync"} ->
            [syscall |-> row.op, inode |-> row.inode,
             start |-> row.offset, end |-> row.offset + row.count]
      [] row.op = "truncate" ->
            [syscall |-> row.op, inode |-> row.inode,
             start |-> row.final_size, end |-> row.final_size]
      [] row.op \in {"create_dir_entry", "delete_dir_entry"} ->
            [syscall |-> row.op, inode |-> row.inode, start |-> 0, end |-> 0]
      [] row.op = "stdout" ->
            [syscall |-> "write", inode |-> StdoutInode, start |-> 0, end |-> 1]

AsOperation(row) ==
    CASE row.op \in {"write", "sync"} ->
            [syscall |-> row.op, inode |-> row.inode,
             start |-> row.offset, end |-> row.offset + row.count]
      [] row.op = "truncate" ->
            [syscall |-> row.op, inode |-> row.inode,
             start |-> row.final_size, end |-> row.final_size]
      [] row.op \in {"create_dir_entry", "delete_dir_entry"} ->
            [syscall |-> row.op, inode |-> Parent(row.path), start |-> 0, end |-> 0]
      [] row.op = "stdout" ->
            [syscall |-> "write", inode |-> StdoutInode, start |-> 0, end |-> 1]

\* An ALCTestSuite with the given operations and dependencies.
Suite(ops, dependencies) ==
    INSTANCE TestSuite WITH
        op_list <- ops, deps <- dependencies,
        Files <- Files \cup {StdoutInode},
        MaxOffset <- 0, MaxOps <- 0,
        dirty_write_ops_inode <- 0, latest_fsync_on_any_file <- 0

Operations(rows) == [i \in DOMAIN rows |-> AsOperation(rows[i])]

\* deps of ALCTestSuite(rows).
DepsOf(rows) ==
    [i \in DOMAIN rows |-> Suite(Operations(rows), << >>)!MeaningOfDeps(i)]
=============================================================================
