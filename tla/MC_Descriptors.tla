---------------------------- MODULE MC_Descriptors ----------------------------
(***************************************************************************)
(* Instance of Descriptors: one process that uses descriptors in every     *)
(* way, processes and threads that share openings, and calls that overlap. *)
(***************************************************************************)
EXTENDS Descriptors, TLC

Plain == {{}}
Positions == [calls |-> 4, ops |-> {"open", "write", "pwrite", "read", "lseek", "ftruncate", "dup"},
              flags |-> {{}, {"O_APPEND"}, {"O_APPEND", "O_TRUNC"}},
              begins |-> FALSE, fails |-> FALSE]
Syncs == [calls |-> 4, ops |-> {"open", "write", "lseek", "ftruncate", "fsync", "rename", "unlink"},
          flags |-> {{}, {"O_SYNC"}, {"O_TRUNC"}}, begins |-> FALSE, fails |-> FALSE]
Tables == [calls |-> 5, ops |-> {"open", "close", "dup", "dup2", "execve", "fork"},
           flags |-> {{}, {"O_CLOEXEC"}}, begins |-> FALSE, fails |-> FALSE]
Closing == [calls |-> 4, ops |-> {"open", "dup", "dup2", "setfd", "execve", "fork", "clone"},
            flags |-> {{}, {"O_CLOEXEC"}}, begins |-> FALSE, fails |-> FALSE]
Replaced == [calls |-> 4, ops |-> {"open", "write", "fsync", "dup2"},
             flags |-> Plain, begins |-> FALSE, fails |-> FALSE]
Sharing == [calls |-> 5, ops |-> {"open", "write", "lseek", "fork", "clone", "close"},
            flags |-> Plain, begins |-> FALSE, fails |-> FALSE]
Overlapping == [calls |-> 4, ops |-> {"open", "write", "close", "fork", "clone", "execve"},
                flags |-> Plain, begins |-> TRUE, fails |-> FALSE]

Failing == [calls |-> 4, ops |-> {"open", "write", "pwrite", "ftruncate", "fsync"},
            flags |-> {{}, {"O_APPEND"}}, begins |-> FALSE, fails |-> TRUE]
Retrying == [calls |-> 5, ops |-> {"open", "write", "close", "dup", "clone", "fork", "execve"},
             flags |-> {{}, {"O_CLOEXEC"}}, begins |-> FALSE, fails |-> TRUE]

AllPrograms == {Positions, Syncs, Tables, Closing, Replaced, Sharing, Overlapping,
                Failing, Retrying}

\* The two names are alike.
Alike == Permutations(Names)
=============================================================================
