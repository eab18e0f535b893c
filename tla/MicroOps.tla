------------------------------- MODULE MicroOps -------------------------------
(***************************************************************************)
(* A traced program and its micro operations.  The program's calls change  *)
(* a directory tree; src/conv_micro.py follows the tree and records each   *)
(* call as a line with the inodes, sizes and link counts it finds there.   *)
(* The tree is also what replay_micro_ops (src/simulate_crashes.py) makes  *)
(* of the lines with the system calls of the same names.                   *)
(*                                                                         *)
(* Conversion never reuses an inode, so inodes are allocated once.         *)
(***************************************************************************)
EXTENDS DiskReplay, FiniteSets

CONSTANTS
    MaxSize,      \* bound: largest file size
    MaxLines,     \* bound: number of calls
    DumpOffsets,  \* where the data of a call may start in the dump
    Truncs,       \* how the program truncates: "grow", "shrink"
    Renames,      \* what the program renames: "file", "dir", "hard link"
    Syncs         \* what the program syncs: "file", "dir", "range"

ASSUME MaxSizeAssumption == MaxSize \in Nat
ASSUME DumpOffsetsAssumption == DumpOffsets \subseteq Nat \ {0}

VARIABLES
    tree,    \* [entries, content], as in a snapshot
    used,    \* inodes allocated so far
    line,    \* the last call, as recorded; NoLine if it is not
    lines    \* number of calls so far

microVars == <<tree, used, line, lines>>

InodeOf(path) == tree.entries[path]
Exists(path) == InodeOf(path) # NoInode
IsFile(path) == InodeOf(path) \in Files
IsDir(path) == InodeOf(path) \in Dirs
Size(path) == IF IsFile(path) THEN Len(tree.content[InodeOf(path)]) ELSE 0

\* st_nlink; a directory without subdirectories has two.
Hardlinks(path) ==
    IF ~Exists(path) THEN 0
    ELSE IF IsDir(path) THEN 2
    ELSE Cardinality({p \in Paths : InodeOf(p) = InodeOf(path)})

\* The paths in directories that exist.
LivePaths == {p \in Paths : Parent(p) = Root \/ \E q \in Paths : InodeOf(q) = Parent(p)}

Linked(path, inode) == [tree EXCEPT !.entries[path] = inode]
Unlinked(path) == Linked(path, NoInode)
WithContent(inode, bytes) == [tree EXCEPT !.content[inode] = bytes]

-----------------------------------------------------------------------------
(* The calls                                                               *)

Creat ==
    \E path \in LivePaths, inode \in Files \ used :
        /\ ~Exists(path)
        /\ line' = [op |-> "creat", name |-> path, inode |-> inode]
        /\ tree' = Linked(path, inode)
        /\ used' = used \cup {inode}

Unlink ==
    \E path \in LivePaths :
        /\ IsFile(path)
        /\ line' = [op |-> "unlink", name |-> path, inode |-> InodeOf(path),
                   size |-> Size(path), hardlinks |-> Hardlinks(path)]
        /\ tree' = Unlinked(path)
        /\ UNCHANGED used

Link ==
    \E source, dest \in LivePaths :
        /\ IsFile(source) /\ ~Exists(dest)
        /\ line' = [op |-> "link", dest |-> dest, source_inode |-> InodeOf(source)]
        /\ tree' = Linked(dest, InodeOf(source))
        /\ UNCHANGED used

\* rename succeeds when both are files or both are directories, and a directory
\* that it replaces is empty; for two hard links of a file it does nothing.
CanRename(source, dest) ==
    /\ source # dest /\ Exists(source)
    /\ IF InodeOf(source) = InodeOf(dest) THEN "hard link" \in Renames
       ELSE \/ "file" \in Renames /\ IsFile(source) /\ ~IsDir(dest)
            \/ /\ "dir" \in Renames /\ IsDir(source) /\ ~IsFile(dest)
               /\ Parent(dest) # InodeOf(source)
               /\ Exists(dest) => IsEmptyDir(tree.entries, InodeOf(dest))

RenameLine(source, dest) ==
    [op |-> "rename", source |-> source, dest |-> dest,
     source_inode |-> InodeOf(source), source_size |-> Size(source),
     dest_inode |-> InodeOf(dest), dest_size |-> Size(dest),
     dest_hardlinks |-> Hardlinks(dest)]

Rename ==
    \E source, dest \in LivePaths :
        /\ CanRename(source, dest)
        /\ line' = RenameLine(source, dest)
        /\ tree' = IF InodeOf(source) = InodeOf(dest) THEN tree
                   ELSE [tree EXCEPT !.entries[dest] = InodeOf(source),
                                     !.entries[source] = NoInode]
        /\ UNCHANGED used

\* truncate, ftruncate, and open with O_TRUNC.
Trunc ==
    \E path \in LivePaths, size \in 0..MaxSize :
        /\ IsFile(path)
        /\ (IF size > Size(path) THEN "grow" ELSE "shrink") \in Truncs
        /\ line' = [op |-> "trunc", inode |-> InodeOf(path),
                   initial_size |-> Size(path), final_size |-> size]
        /\ tree' = WithContent(InodeOf(path), Resized(tree.content[InodeOf(path)], size))
        /\ UNCHANGED used

\* A write that stays in the file is a write, one at its end an append; one
\* that does both is recorded as one after the other.
WriteOrAppend ==
    \E path \in LivePaths, offset \in 0..MaxSize, count \in 1..MaxSize, dump \in DumpOffsets :
        LET data == [k \in 1..count |-> dump + k - 1] IN
        /\ IsFile(path) /\ offset + count <= MaxSize
        /\ \/ offset + count <= Size(path) \/ offset = Size(path)
        /\ line' = [op |-> IF offset = Size(path) THEN "append" ELSE "write",
                   inode |-> InodeOf(path), offset |-> offset, count |-> count,
                   dump_offset |-> dump]
        /\ tree' = WithContent(InodeOf(path),
                        Overwritten(tree.content[InodeOf(path)], offset, data))
        /\ UNCHANGED used

Mkdir ==
    \E path \in LivePaths, inode \in Dirs \ used :
        /\ ~Exists(path)
        /\ line' = [op |-> "mkdir", name |-> path, inode |-> inode]
        /\ tree' = Linked(path, inode)
        /\ used' = used \cup {inode}

Rmdir ==
    \E path \in LivePaths :
        /\ IsDir(path) /\ IsEmptyDir(tree.entries, InodeOf(path))
        /\ line' = [op |-> "rmdir", name |-> path, inode |-> InodeOf(path)]
        /\ tree' = Unlinked(path)
        /\ UNCHANGED used

\* fsync and fdatasync of a file or a directory by a descriptor that is watched;
\* see Unrecorded for the other ones.  st_size of a directory plays no role, a
\* sync of a directory flushes all its entries.
Fsync ==
    /\ \/ \E path \in LivePaths :
             /\ IsFile(path) /\ "file" \in Syncs
             /\ line' = [op |-> "fsync", inode |-> InodeOf(path), size |-> Size(path)]
       \/ \E dir \in {Root} \cup {InodeOf(p) : p \in LivePaths} :
             /\ dir \in Dirs /\ "dir" \in Syncs
             /\ line' = [op |-> "fsync", inode |-> dir, size |-> 0]
    /\ UNCHANGED <<tree, used>>

\* A write to a file opened with O_SYNC is followed by one of these.
FileSyncRange ==
    /\ \E path \in LivePaths, offset \in 0..MaxSize, count \in 1..MaxSize :
          /\ IsFile(path) /\ "range" \in Syncs /\ offset + count <= Size(path)
          /\ line' = [op |-> "file_sync_range", inode |-> InodeOf(path),
                     offset |-> offset, count |-> count]
    /\ UNCHANGED <<tree, used>>

Stdout == line' = [op |-> "stdout"] /\ UNCHANGED <<tree, used>>

NoLine == [op |-> "none"]

MicroInit ==
    /\ tree = [entries |-> EmptySnapshot.entries, content |-> EmptySnapshot.content]
    /\ used = {Root}
    /\ line = NoLine
    /\ lines = 0

\* fsync of a directory that was opened with O_DIRECTORY: conv_micro watches no
\* such descriptor, and makes no micro operation of the call.
Unrecorded ==
    /\ lines < MaxLines /\ lines' = lines + 1
    /\ "dir" \in Syncs
    /\ line' = NoLine
    /\ UNCHANGED <<tree, used>>

MicroOp ==
    /\ lines < MaxLines /\ lines' = lines + 1
    /\ \/ Creat \/ Unlink \/ Link \/ Rename \/ Trunc \/ WriteOrAppend
       \/ Mkdir \/ Rmdir \/ Fsync \/ FileSyncRange \/ Stdout
=============================================================================
