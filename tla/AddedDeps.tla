----------------------------- MODULE AddedDeps -----------------------------
(***************************************************************************)
(* add_deps_to_ops (src/auto_test.py): the client of a constructed suite   *)
(* adds dependencies of its own to the computed ones.                      *)
(***************************************************************************)
EXTENDS TestSuite, FiniteSets

CONSTANTS
    MaxPairs,  \* bound: dependencies added by one call
    MaxCalls   \* bound: calls of add_deps_to_ops

VARIABLE
    batches    \* the dep_lists added so far, sets of pairs <<X, Y>>

addedVars == <<vars, batches>>

\* One pass over the operations in order: i takes over the operations in
\* more[i] and their deps, as they are when the pass is at i.
Pass(d, more) ==
    LET new[i \in Ids] ==
            d[i] \cup more[i]
                 \cup UNION {IF j < i THEN new[j] ELSE d[j] : j \in more[i]}
    IN  new

add_deps_to_opsNoRecompute(dep_list) ==
    deps' = Pass(deps, [x \in Ids |-> {y \in Ids : <<x, y>> \in dep_list}])

\* add_deps_to_ops: add_dep for each pair, sorted, and then one pass over all
\* the operations that takes over the deps of their deps.
add_deps_to_ops(dep_list) ==
    LET added == Pass(deps, [x \in Ids |-> {y \in Ids : <<x, y>> \in dep_list}])
    IN  deps' = Pass(added, added)

AddDeps ==
    /\ Len(batches) < MaxCalls
    /\ \E dep_list \in SUBSET (Ids \X Ids) :
          /\ dep_list # {} /\ Cardinality(dep_list) <= MaxPairs
          /\ add_deps_to_ops(dep_list)
          /\ batches' = Append(batches, dep_list)
    /\ UNCHANGED <<op_list, dirty_write_ops_inode, latest_fsync_on_any_file>>

AddedInit == Init /\ batches = << >>

\* Dependencies are added when the constructor is through with the trace.
AddedNext ==
    \/ Next /\ batches = << >> /\ UNCHANGED batches
    \/ AddDeps

AddedSpec == AddedInit /\ [][AddedNext]_addedVars

-----------------------------------------------------------------------------
(* Properties                                                              *)

Required == UNION {batches[n] : n \in DOMAIN batches}

Backward == \A p \in Required : p[2] < p[1]
OneAtATime == \A n \in DOMAIN batches : Cardinality(batches[n]) = 1

\* A combo that has what its operations need: by the trace, and by what the
\* client added.
Honours(combo) ==
    /\ \A i \in combo : MeaningOfDeps(i) \subseteq combo
    /\ \A p \in Required : p[1] \in combo => p[2] \in combo

\* Whatever a client adds, in any number of calls, forwards or backwards,
\* test_validity accepts exactly the combos that honour the computed and all
\* the added dependencies: a pass never makes an operation depend on what
\* nothing asked for, and the next call loses nothing.  The dependencies asked
\* for are in deps.  And deps is transitively closed again, which
\* keep_list_of_ops asserts (auto_test.py:470), when every dependency points
\* backwards or each call adds one: several that point forwards in one call
\* are beyond its one pass over the operations (auto_test.py:485-506).
AddedDepsExact ==
    /\ \A combo \in SUBSET Ids : test_validity(combo) <=> Honours(combo)
    /\ \A p \in Required : p[2] \in deps[p[1]]
    /\ Backward \/ OneAtATime =>
          \A i \in Ids : \A j \in deps[i] : deps[j] \subseteq deps[i]
=============================================================================
