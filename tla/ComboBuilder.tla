---------------------------- MODULE ComboBuilder ----------------------------
(***************************************************************************)
(* Valid combos built along a trace: each operation is appended, and then  *)
(* may be included if its deps are.  As deps point backwards, every valid  *)
(* combo is built this way.  The builder implements CrashDisk, so every    *)
(* valid combo is a crash state the file system allows.                    *)
(***************************************************************************)
EXTENDS TestSuite

VARIABLE combo

builderVars == <<vars, combo>>

BuilderInit == Init /\ combo = {}

\* Include the operation constructed last, as test_validity demands.
Include ==
    /\ op_list # << >>
    /\ deps[Len(op_list)] \subseteq combo
    /\ combo' = combo \cup {Len(op_list)}
    /\ UNCHANGED vars

BuilderNext == (Next /\ UNCHANGED combo) \/ Include

BuilderSpec == BuilderInit /\ [][BuilderNext]_builderVars

-----------------------------------------------------------------------------
(* The refinement mapping: on the disk, the program got as far as the first *)
(* sync that is not in the combo, and is still waiting for it.              *)

Reached(k) == \A t \in 1..(k - 1) : IsSync(t) => t \in combo

Issued == [k \in {k \in Ids : Reached(k)} |-> op_list[k]]

BuiltDisk == INSTANCE CrashDisk
            WITH issued <- Issued, persisted <- combo, Operations <- Operation

\* Completeness of the calculus: every combo that test_validity accepts is a
\* state some crash can leave behind, so no enumerated combo is spurious.
ImplementsDisk == BuiltDisk!DiskSpec
=============================================================================
