----------------------------- MODULE MC_Combos -----------------------------
(* Combos on one file and one directory, for TLC.                          *)
EXTENDS Combos, TLC
=============================================================================
