--------------------------- MODULE MC_CrashStates ---------------------------
(* DiskRun, ComboBuilder and AddedDeps on one file and one directory, for    *)
(* TLC: each behaviour runs a program, builds a combo, or adds dependencies, *)
(* the last to traces of three operations on one byte of the file.           *)
EXTENDS DiskRun, ComboBuilder, AddedDeps, TLC

VARIABLE side

CrashStatesInit ==
    /\ side \in {"run", "build", "add"}
    /\ RunInit /\ combo = {} /\ batches = << >>

CrashStatesNext ==
    /\ \/ side = "run" /\ RunNext /\ UNCHANGED <<combo, batches>>
       \/ side = "build" /\ BuilderNext /\ UNCHANGED <<persisted, batches>>
       \/ /\ side = "add" /\ AddedNext /\ UNCHANGED <<persisted, combo>>
          /\ Len(op_list') <= 3
          /\ \A i \in DOMAIN op_list' : op_list'[i].inode \in Files /\ op_list'[i].end = 0
    /\ UNCHANGED side

CrashStatesSpec ==
    CrashStatesInit /\ [][CrashStatesNext]_<<side, vars, persisted, combo, batches>>
=============================================================================
