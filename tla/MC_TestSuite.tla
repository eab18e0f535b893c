---------------------------- MODULE MC_TestSuite ----------------------------
(* TestSuite on two files and one directory, for TLC.                      *)
EXTENDS TestSuite, TLC

Symmetry == Permutations(Files)
=============================================================================
