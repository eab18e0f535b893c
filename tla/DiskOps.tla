------------------------------- MODULE DiskOps -------------------------------
(***************************************************************************)
(* get_disk_ops of src/diskops.py: the disk operations (rows) that a micro *)
(* operation (line) becomes.  A crash can separate the rows of one line,   *)
(* so how a line is split says how atomic the file system is taken to be.  *)
(*                                                                         *)
(* A byte of a file is 0 (a zero), Garbage, or the position of a byte in   *)
(* the dump of the data that the program wrote; a path is a pair of the    *)
(* inode of a directory and a name.                                        *)
(***************************************************************************)
EXTENDS Integers, Sequences, SequencesExt

CONSTANTS
    Files,    \* inodes of files
    Dirs,     \* inodes of directories
    Splits    \* how lines are split into disk operations

ASSUME SplitsAssumption ==
    Splits \subseteq [split_mode: {"count", "aligned"}, splits: Nat \ {0},
                      expanded_atomicity: BOOLEAN]

Garbage == -1

Parent(path) == path[1]

\* How to split a line: into slices of equal size ("count": splits is their
\* number), or at the multiples of splits ("aligned").
Smaller(m, n) == IF m <= n THEN m ELSE n

SliceSize(how, start, remaining, total) ==
    IF how.split_mode = "aligned"
    THEN Smaller(how.splits - (start % how.splits), remaining)
    ELSE Smaller((total + how.splits - 1) \div how.splits, remaining)

\* The slices of total bytes from position first.
Slices(how, first, total) ==
    LET from[done \in 0..total] ==
            IF done = total THEN << >>
            ELSE LET count == SliceSize(how, first + done, total - done, total)
                 IN  <<[start |-> first + done, count |-> count]>> \o from[done + count]
    IN  from[0]

-----------------------------------------------------------------------------
SpecialWriteTooLong(inode, slice, special) ==
    [op |-> "write", inode |-> inode, offset |-> slice.start, count |-> slice.count + 1,
     special_write |-> special, dump_offset |-> 0]

SpecialWrite(inode, slice, special) ==
    [op |-> "write", inode |-> inode, offset |-> slice.start, count |-> slice.count,
     special_write |-> special, dump_offset |-> 0]

\* A slice of the data that line writes.
DataWrite(line, slice) ==
    [op |-> "write", inode |-> line.inode, offset |-> slice.start, count |-> slice.count,
     special_write |-> "None",
     dump_offset |-> line.dump_offset + (slice.start - line.offset)]

TruncateRow(inode, size) == [op |-> "truncate", inode |-> inode, final_size |-> size]

\* Making a file smaller: slice by slice, from its end.
ShrinkRows(inode, slices) ==
    Reverse([k \in DOMAIN slices |-> TruncateRow(inode, slices[k].start)])

\* Making a file larger: garbage and then zeros, slice by slice.
GrowRows(inode, slices) ==
    FlattenSeq([k \in DOMAIN slices |->
        <<SpecialWrite(inode, slices[k], "GARBAGE"), SpecialWrite(inode, slices[k], "ZEROS")>>])

trunc_disk_ops(inode, initial_size, final_size, how) ==
    IF final_size <= initial_size
    THEN ShrinkRows(inode, Slices(how, final_size, initial_size - final_size))
    ELSE GrowRows(inode, Slices(how, initial_size, final_size - initial_size))

\* trunc_disk_ops with append_micro_op.
append_disk_ops(line, how) ==
    LET slices == Slices(how, line.offset, line.count) IN
    FlattenSeq([k \in DOMAIN slices |->
        <<SpecialWrite(line.inode, slices[k], "ZEROS"),
          SpecialWrite(line.inode, slices[k], "GARBAGE"),
          DataWrite(line, slices[k])>>])

DirEntryRow(op, path, inode, entry_type) ==
    [op |-> op, path |-> path, inode |-> inode, entry_type |-> entry_type]

unlink_disk_opsAlwaysTruncates(path, inode, size, hardlinks, entry_type, how) ==
    trunc_disk_ops(inode, size, 0, how)
    \o <<DirEntryRow("delete_dir_entry", path, inode, entry_type)>>

\* The data of a file goes with its last link.
unlink_disk_ops(path, inode, size, hardlinks, entry_type, how) ==
    (IF hardlinks = 1 THEN trunc_disk_ops(inode, size, 0, how) ELSE << >>)
    \o <<DirEntryRow("delete_dir_entry", path, inode, entry_type)>>

link_disk_ops(path, inode, entry_type) ==
    <<DirEntryRow("create_dir_entry", path, inode, entry_type)>>

rename_disk_opsNeverExpanded(line, how) ==
    (IF line.dest_hardlinks >= 1
     THEN unlink_disk_ops(line.dest, line.dest_inode, line.dest_size,
                          line.dest_hardlinks, "file", how)
     ELSE << >>)
    \o unlink_disk_ops(line.source, line.source_inode, line.source_size, 2, "file", how)
    \o link_disk_ops(line.dest, line.source_inode, "file")

\* A rename takes its source for a file, and with expanded_atomicity passes
\* through all combinations of the presence of the old source, the old dest
\* and the new dest.  The hardlinks of 2 say: unlink the source without
\* truncating it.
rename_disk_ops(line, how) ==
    LET unlink_source == unlink_disk_ops(line.source, line.source_inode,
                             line.source_size, 2, "file", how)
        link_source   == link_disk_ops(line.source, line.source_inode, "file")
        unlink_dest   == IF line.dest_hardlinks >= 1
                         THEN unlink_disk_ops(line.dest, line.dest_inode,
                                  line.dest_size, line.dest_hardlinks, "file", how)
                         ELSE << >>
        link_dest     == link_disk_ops(line.dest, line.source_inode, "file")
        expanded(rows) == IF how.expanded_atomicity THEN rows ELSE << >>
    IN  expanded(unlink_source) \o unlink_dest \o expanded(link_source)
        \o unlink_source \o link_dest
        \o expanded(link_source) \o expanded(unlink_source)

SyncRowShort(inode, offset, count) ==
    [op |-> "sync", inode |-> inode, offset |-> offset, count |-> count - 1]

\* What a sync flushes: count bytes from offset.
SyncRow(inode, offset, count) ==
    [op |-> "sync", inode |-> inode, offset |-> offset, count |-> count]

get_disk_ops(line, how) ==
    CASE line.op = "creat"  -> link_disk_ops(line.name, line.inode, "file")
      [] line.op = "unlink" -> unlink_disk_ops(line.name, line.inode, line.size,
                                               line.hardlinks, "file", how)
      [] line.op = "link"   -> link_disk_ops(line.dest, line.source_inode, "file")
      [] line.op = "rename" -> rename_disk_ops(line, how)
      [] line.op = "trunc"  -> trunc_disk_ops(line.inode, line.initial_size,
                                              line.final_size, how)
      [] line.op = "append" -> append_disk_ops(line, how)
                               \o (IF how.expanded_atomicity
                                   THEN append_disk_ops(line, how) ELSE << >>)
      [] line.op = "write"  -> LET slices == Slices(how, line.offset, line.count)
                               IN  [k \in DOMAIN slices |-> DataWrite(line, slices[k])]
      [] line.op = "mkdir"  -> link_disk_ops(line.name, line.inode, "dir")
      [] line.op = "rmdir"  -> unlink_disk_ops(line.name, line.inode, 0, 0, "dir", how)
      [] line.op = "fsync"  -> <<SyncRow(line.inode, 0, line.size)>>
      [] line.op = "file_sync_range" ->
                               <<SyncRow(line.inode, line.offset, line.count)>>
      [] line.op = "stdout" -> <<[op |-> "stdout"]>>
=============================================================================
