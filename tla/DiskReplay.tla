------------------------------ MODULE DiskReplay ------------------------------
(***************************************************************************)
(* The loop of replay_disk_ops (src/diskops.py): what the rows do to a     *)
(* replayed snapshot.  Files are reached by inode, through hard links in   *)
(* the directory .inodes, whether or not an entry leads to them; a         *)
(* directory lies in its parent, or in .inodes while nothing links it.     *)
(*                                                                         *)
(* A snapshot is a record                                                  *)
(*   entries   per path: the inode it leads to, or NoInode                 *)
(*   content   per file: its bytes                                         *)
(*   place     per directory: where dirinode_map takes it to be, "unknown" *)
(*             when it is not in the map, "inodes" or "linked"             *)
(*   raised    has the replay raised an exception?                         *)
(* No row uses a directory after the row that deletes it (inodes are not   *)
(* used again), so where dirinode_map takes that one to be does not matter.*)
(***************************************************************************)
EXTENDS DiskOps

CONSTANTS
    Root,     \* the directory that is replayed
    Names,    \* names of directory entries
    NoInode   \* where a path leads that does not exist

ASSUME RootAssumption == Root \in Dirs
ASSUME InodesAssumption == NoInode \notin Files \cup Dirs /\ Files \cap Dirs = {}

Paths == Dirs \X Names

-----------------------------------------------------------------------------
(* System calls                                                            *)

Larger(m, n) == IF m >= n THEN m ELSE n

\* ftruncate
Resized(bytes, size) ==
    [p \in 1..size |-> IF p \in DOMAIN bytes THEN bytes[p] ELSE 0]

\* lseek and write of data
Overwritten(bytes, offset, data) ==
    [p \in 1..Larger(Len(bytes), offset + Len(data)) |->
        IF p - offset \in DOMAIN data THEN data[p - offset]
        ELSE IF p \in DOMAIN bytes THEN bytes[p] ELSE 0]

IsEmptyDir(entries, dir) == \A name \in Names : entries[<<dir, name>>] = NoInode

-----------------------------------------------------------------------------
(* One row                                                                 *)

Raised(fs) == [fs EXCEPT !.raised = TRUE]

\* get_inode_directory: a directory that nothing has linked lies in .inodes.
WithDirectory(fs, dir) ==
    IF fs.place[dir] = "unknown" THEN [fs EXCEPT !.place[dir] = "inodes"] ELSE fs

CreateFileEntry(fs, row) ==
    IF fs.entries[row.path] \in Dirs THEN Raised(fs)
    ELSE [WithDirectory(fs, Parent(row.path)) EXCEPT !.entries[row.path] = row.inode]

\* The assertion that the directory is not linked, and a rename, which replaces
\* an empty directory only.
CreateDirEntry(fs, row) ==
    LET there == fs.entries[row.path] IN
    IF \/ fs.place[row.inode] = "linked"
       \/ there \in Files
       \/ there \in Dirs /\ ~IsEmptyDir(fs.entries, there)
    THEN Raised(fs)
    ELSE [WithDirectory(fs, Parent(row.path)) EXCEPT
            !.entries[row.path] = row.inode, !.place[row.inode] = "linked"]

\* A path that does not exist is not deleted.
DeleteFileEntry(fs, row) ==
    IF fs.entries[row.path] \in Dirs THEN Raised(fs)
    ELSE [WithDirectory(fs, Parent(row.path)) EXCEPT !.entries[row.path] = NoInode]

\* Whatever the path leads to is renamed to the inode's place in .inodes, where
\* the directory itself may lie if it was never linked.
DeleteDirEntry(fs, row) ==
    LET there == fs.entries[row.path] IN
    IF /\ there # NoInode /\ fs.place[row.inode] = "inodes"
       /\ there \in Files \/ ~IsEmptyDir(fs.entries, row.inode)
    THEN Raised(fs)
    ELSE [WithDirectory(fs, Parent(row.path)) EXCEPT !.entries[row.path] = NoInode]

Truncate(fs, row) ==
    [fs EXCEPT !.content[row.inode] = Resized(@, row.final_size)]

Write(fs, row) ==
    LET data == [k \in 1..row.count |->
                    CASE row.special_write = "ZEROS"   -> 0
                      [] row.special_write = "GARBAGE" -> Garbage
                      [] row.special_write = "None"    -> row.dump_offset + k - 1]
    IN  [fs EXCEPT !.content[row.inode] = Overwritten(@, row.offset, data)]

ReplayRow(fs, row) ==
    IF fs.raised THEN fs
    ELSE CASE row.op = "create_dir_entry" /\ row.entry_type = "file" -> CreateFileEntry(fs, row)
           [] row.op = "create_dir_entry" /\ row.entry_type = "dir"  -> CreateDirEntry(fs, row)
           [] row.op = "delete_dir_entry" /\ row.entry_type = "file" -> DeleteFileEntry(fs, row)
           [] row.op = "delete_dir_entry" /\ row.entry_type = "dir"  -> DeleteDirEntry(fs, row)
           [] row.op = "truncate" -> Truncate(fs, row)
           [] row.op = "write"    -> Write(fs, row)
           [] row.op \in {"sync", "stdout"} -> fs

\* The rows, one after the other.
ReplayRows(fs, rows) == FoldLeft(ReplayRow, fs, rows)

\* initialize_inode_links on an initial snapshot without files.
EmptySnapshot ==
    [entries |-> [p \in Paths |-> NoInode],
     content |-> [f \in Files |-> << >>],
     place   |-> [d \in Dirs |-> IF d = Root THEN "linked" ELSE "unknown"],
     raised  |-> FALSE]
=============================================================================
