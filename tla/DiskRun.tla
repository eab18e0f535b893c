------------------------------ MODULE DiskRun ------------------------------
(***************************************************************************)
(* A program running on the file system of CrashDisk while the calculus of *)
(* TestSuite follows its trace: whatever a crash leaves behind is a valid  *)
(* combo.                                                                  *)
(***************************************************************************)
EXTENDS TestSuite

VARIABLE persisted

Disk == INSTANCE CrashDisk WITH issued <- op_list, Operations <- Operation

runVars == <<vars, persisted>>

RunInit == Init /\ persisted = {}

RunNext ==
    \/ Next /\ Disk!Issue
    \/ \E i \in Ids : (Disk!WriteBack(i) \/ Disk!Return(i)) /\ UNCHANGED vars

RunSpec == RunInit /\ [][RunNext]_runVars

\* Soundness of the calculus: a real crash never leaves a state that
\* test_validity (auto_test.py:238-245) rejects, so every crash state is among
\* the enumerated combos.
CrashStatesAreValid == test_validity(persisted)
=============================================================================
