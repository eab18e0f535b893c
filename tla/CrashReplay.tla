------------------------------ MODULE CrashReplay ------------------------------
(***************************************************************************)
(* From the program to the crash state: a program runs (MicroOps), its     *)
(* calls become disk operations (DiskOps), the disk operations get their   *)
(* dependencies (LegalCombos), and every valid combo is replayed           *)
(* (DiskReplay).  What the program has synced, by a call that conv_micro   *)
(* records, must be in each of them.                                       *)
(***************************************************************************)
EXTENDS MicroOps, LegalCombos

VARIABLES
    rows  \* the disk operations of the trace

crashVars == <<microVars, rows>>

CrashInit == MicroInit /\ rows = << >>

CrashNext ==
    \/ \E how \in Splits :
          /\ MicroOp
          /\ rows' = rows \o get_disk_ops(line', how)
    \/ Unrecorded /\ UNCHANGED rows

CrashSpec == CrashInit /\ [][CrashNext]_crashVars

-----------------------------------------------------------------------------

\* The valid combos with the last row, which include what it depends on.
LastRow == Len(rows)
LastRowCombos ==
    LET deps == DepsOf(rows)
        with == deps[LastRow] \cup {LastRow}
    IN  {c \in {with \cup rest : rest \in SUBSET (1..LastRow \ with)} :
            \A i \in c : deps[i] \subseteq c}

\* The snapshot after a crash that leaves the rows of combo.
Replayed(combo) ==
    LET replay(fs, i) == IF i \in combo THEN ReplayRow(fs, rows[i]) ELSE fs
    IN  FoldLeftDomain(replay, EmptySnapshot, rows)

\* The crash states after the last call, a sync, has returned.
SyncedStates == {Replayed(c) : c \in LastRowCombos}

-----------------------------------------------------------------------------
(* Properties                                                              *)

\* When fsync of a file has returned, the file has its bytes in every crash
\* state, whatever else is lost: no split, no ordering and no sync range
\* leaves a row out that the bytes depend on (auto_test.py:126-143;
\* conv_micro.py:633-642; diskops.py:163-172).
SyncedFileSurvives ==
    line.op = "fsync" /\ line.inode \in Files =>
        \A fs \in SyncedStates :
            ~fs.raised => fs.content[line.inode] = tree.content[line.inode]

\* When fsync of a directory has returned and conv_micro has recorded it, the
\* directory has its entries in every crash state (auto_test.py:90-97, 118-124,
\* 140-141).  By a descriptor that was opened with O_DIRECTORY it is not recorded
\* (conv_micro.py:389, 636), and its entries may be lost.
SyncedDirectorySurvives ==
    line.op = "fsync" /\ line.inode \in Dirs =>
        \A fs \in SyncedStates : \A name \in Names :
            ~fs.raised => fs.entries[<<line.inode, name>>] = tree.entries[<<line.inode, name>>]
=============================================================================
