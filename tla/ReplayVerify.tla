----------------------------- MODULE ReplayVerify -----------------------------
(***************************************************************************)
(* _dops_verify_replayer of src/simulate_crashes.py: after each micro      *)
(* operation, the tree that the disk operations make is compared with the  *)
(* tree that the micro operations make.  The call at line 445 lacks the    *)
(* replay_dir that replay_disk_ops has taken since; the comparison is      *)
(* modelled as made with the snapshot directory, as at line 195.           *)
(***************************************************************************)
EXTENDS MicroOps

VARIABLES
    disk  \* the snapshot that the disk operations make

verifyVars == <<microVars, disk>>

VerifyInit == MicroInit /\ disk = EmptySnapshot

VerifyNext ==
    \/ \E how \in Splits :
          /\ MicroOp
          /\ disk' = ReplayRows(disk, get_disk_ops(line', how))
    \/ Unrecorded /\ UNCHANGED disk

VerifySpec == VerifyInit /\ [][VerifyNext]_verifyVars

-----------------------------------------------------------------------------
(* Properties                                                              *)

Byte == {0, Garbage} \cup {b + k : b \in DumpOffsets, k \in 0..(MaxSize - 1)}

\* Type invariant.
VerifyTypeOK ==
    /\ tree.entries \in [Paths -> Files \cup Dirs \cup {NoInode}]
    /\ disk.entries \in [Paths -> Files \cup Dirs \cup {NoInode}]
    /\ \A f \in Files :
          /\ tree.content[f] \in Seq(Byte) /\ Len(tree.content[f]) <= MaxSize
          /\ disk.content[f] \in Seq(Byte) /\ Len(disk.content[f]) <= MaxSize
    /\ disk.place \in [Dirs -> {"unknown", "inodes", "linked"}]

HasLink(f) == \E p \in Paths : tree.entries[p] = f

\* However its lines are split, the disk operations of a trace can be replayed
\* and make the tree that the micro operations make: the same entries, and the
\* same bytes in every file that an entry leads to
\* (simulate_crashes.py:435-454; diskops.py:16-184, 270-383).
ReplaysAgree ==
    /\ ~disk.raised
    /\ disk.entries = tree.entries
    /\ \A f \in Files : HasLink(f) => disk.content[f] = tree.content[f]

\* A crash in the middle of a rename finds every combination of the old
\* source, the old dest and the new dest that the comments beside the rows
\* declare, when the rename is expanded (diskops.py:111-132).
RenamePassesThrough ==
    line.op = "rename" /\ line.source_inode # line.dest_inode =>
        \A how \in Splits :
            LET rows == get_disk_ops(line, how)
                before == [disk EXCEPT !.entries[line.source] = line.source_inode,
                                       !.entries[line.dest] = line.dest_inode]
                at(k) == LET entries == ReplayRows(before, SubSeq(rows, 1, k)).entries
                         IN  <<entries[line.source], entries[line.dest]>>
            IN  how.expanded_atomicity =>
                    {at(k) : k \in 0..Len(rows)} =
                        {line.source_inode, NoInode}
                            \X {line.source_inode, line.dest_inode, NoInode}
=============================================================================
