---------------------------- MODULE MC_CrashReplay ----------------------------
(* Instance of CrashReplay.                                                   *)
EXTENDS CrashReplay

MCSplits ==
    {[split_mode |-> "count", splits |-> n, expanded_atomicity |-> FALSE] : n \in {1, 2}}
=============================================================================
