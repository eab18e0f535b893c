---------------------------- MODULE MC_ReplayVerify ----------------------------
(* Instance of ReplayVerify: five ways to split lines.                        *)
EXTENDS ReplayVerify

MCSplits ==
    {[split_mode |-> "count", splits |-> n, expanded_atomicity |-> e] :
        n \in {1, 3}, e \in BOOLEAN}
    \cup {[split_mode |-> "aligned", splits |-> 2, expanded_atomicity |-> FALSE]}
=============================================================================
