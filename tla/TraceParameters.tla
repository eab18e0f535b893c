--------------------------- MODULE TraceParameters ---------------------------
(***************************************************************************)
(* What the models of the loop of strace have in common: the pids of the   *)
(* threads it traces, and the size of its first table of tcbs.             *)
(***************************************************************************)
EXTENDS Integers, FiniteSets

CONSTANTS
    Pids,       \* the pids of threads
    FirstSize   \* size of the first table, argc of strace

ASSUME PidsAssumption == Pids \subseteq Nat \ {0} /\ IsFiniteSet(Pids)
ASSUME FirstSizeAssumption == FirstSize \in Nat \ {0}
=============================================================================
