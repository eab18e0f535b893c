------------------------------ MODULE MC_Replayer ------------------------------
(* Instance of Replayer: two traces of conv_micro lines.                      *)
EXTENDS Replayer

CONSTANTS
    f1, f2,     \* two files
    root, a, b  \* a directory and two names

\* Write to a file, make it durable, write on, and say so.
CommitTrace ==
    <<[op |-> "write", inode |-> f1, offset |-> 0, count |-> 2, dump_offset |-> 1],
      [op |-> "fsync", inode |-> f1, size |-> 2],
      [op |-> "append", inode |-> f1, offset |-> 2, count |-> 1, dump_offset |-> 3],
      [op |-> "stdout"]>>

\* A truncate that changes nothing has no disk operations; a rename has several.
RenameTrace ==
    <<[op |-> "trunc", inode |-> f1, initial_size |-> 1, final_size |-> 1],
      [op |-> "rename", source |-> <<root, a>>, dest |-> <<root, b>>,
       source_inode |-> f1, source_size |-> 1, dest_inode |-> f2, dest_size |-> 0,
       dest_hardlinks |-> 0],
      [op |-> "fsync", inode |-> root, size |-> 0],
      [op |-> "unlink", name |-> <<root, b>>, inode |-> f1, size |-> 1, hardlinks |-> 1]>>

MCTraces == {CommitTrace, RenameTrace}

MCSplits ==
    {[split_mode |-> "count", splits |-> 1, expanded_atomicity |-> FALSE],
     [split_mode |-> "aligned", splits |-> 1, expanded_atomicity |-> TRUE]}
=============================================================================
