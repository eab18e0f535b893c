------------------------------- MODULE Combos -------------------------------
(***************************************************************************)
(* The enumeration of the valid combos of a constructed ALCTestSuite       *)
(* (src/auto_test.py): get_combos, whose depth-first search generate_combos *)
(* prunes every branch that a dropped operation blocks, and                *)
(* count_all_combos, the same search without collecting the combos.  The   *)
(* recursion is unrolled: the stack holds the active calls, its head is    *)
(* the innermost.                                                          *)
(***************************************************************************)
EXTENDS TestSuite, FiniteSets

CONSTANTS
    Limits,      \* values of get_combos' limit; 0 stands for None
    CallBudgets  \* values of get_combos' limit_tested

ASSUME LimitsAssumption == Limits \subseteq Nat
ASSUME CallBudgetsAssumption == CallBudgets \subseteq Nat

VARIABLES
    mode,                 \* what the suite is doing
    stack,                \* active calls of the search
    generated_combos,     \* combos collected since the suite was constructed
    max_combo_limit, max_combos_tested, num_recursive_calls,
    total_num_combos      \* what count_combos has counted

searchVars == <<stack, generated_combos, max_combo_limit, max_combos_tested,
                num_recursive_calls, total_num_combos>>
comboVars == <<vars, mode, searchVars>>

\* "answered" and "counted": get_combos or count_all_combos has just returned.
Idle == {"ready", "answered", "counted"}
Modes == {"loading", "generating", "counting"} \cup Idle

\* An active call, in its loop: i is the candidate it looks at next.
Frame == [i: Nat, local_drop_set: SUBSET Nat]
Caller == Head(stack)
Candidate == Caller.i

-----------------------------------------------------------------------------
LimitReached ==
    /\ max_combo_limit # 0
    /\ Cardinality(generated_combos) >= max_combo_limit

GenerateCallStopsEarly(end, drop_set, below) ==
    /\ num_recursive_calls < max_combos_tested
    /\ num_recursive_calls' = num_recursive_calls + 1
    /\ generated_combos' = IF LimitReached THEN generated_combos
                           ELSE generated_combos \cup ({(1..end) \ drop_set} \ {{}})
    /\ stack' = IF LimitReached \/ end >= Len(op_list) - 1 THEN below
                ELSE <<[i |-> end + 1, local_drop_set |-> drop_set]>> \o below
    /\ UNCHANGED <<max_combo_limit, max_combos_tested, total_num_combos>>

\* The call generate_combos(0, end, drop_set), made from the calls in below.
\* It returns at once when there are enough combos or no candidates left.
GenerateCall(end, drop_set, below) ==
    /\ num_recursive_calls < max_combos_tested
    /\ num_recursive_calls' = num_recursive_calls + 1
    /\ generated_combos' = IF LimitReached THEN generated_combos
                           ELSE generated_combos \cup ({(1..end) \ drop_set} \ {{}})
    /\ stack' = IF LimitReached \/ end = Len(op_list) THEN below
                ELSE <<[i |-> end + 1, local_drop_set |-> drop_set]>> \o below
    /\ UNCHANGED <<max_combo_limit, max_combos_tested, total_num_combos>>

CountCallLeavesOnly(end, drop_set, below) ==
    /\ total_num_combos' =
          IF end = Len(op_list) THEN total_num_combos + 1 ELSE total_num_combos
    /\ stack' = IF end = Len(op_list) THEN below
                ELSE <<[i |-> end + 1, local_drop_set |-> drop_set]>> \o below
    /\ UNCHANGED <<generated_combos, max_combo_limit, max_combos_tested,
                   num_recursive_calls>>

\* The call count_combos(0, end, drop_vector).
CountCall(end, drop_set, below) ==
    /\ total_num_combos' = IF end >= 1 THEN total_num_combos + 1 ELSE total_num_combos
    /\ stack' = IF end = Len(op_list) THEN below
                ELSE <<[i |-> end + 1, local_drop_set |-> drop_set]>> \o below
    /\ UNCHANGED <<generated_combos, max_combo_limit, max_combos_tested,
                   num_recursive_calls>>

\* The caller goes on to the next candidate, having dropped this one or not.
Advanced(dropped) ==
    <<[i |-> Candidate + 1,
       local_drop_set |-> Caller.local_drop_set \cup dropped]>> \o Tail(stack)

CandidateAllowedUnchecked == stack # << >> /\ Candidate <= Len(op_list)

CandidateAllowed ==
    /\ stack # << >> /\ Candidate <= Len(op_list)
    /\ deps[Candidate] \cap Caller.local_drop_set = {}

SkipCandidate ==
    /\ stack # << >> /\ Candidate <= Len(op_list)
    /\ deps[Candidate] \cap Caller.local_drop_set # {}
    /\ stack' = Advanced({})
    /\ UNCHANGED <<generated_combos, max_combo_limit, max_combos_tested,
                   num_recursive_calls, total_num_combos>>

ReturnToCallerTooLate ==
    /\ stack # << >> /\ Candidate > Len(op_list) + 1
    /\ stack' = Tail(stack)
    /\ UNCHANGED <<generated_combos, max_combo_limit, max_combos_tested,
                   num_recursive_calls, total_num_combos>>

ReturnToCaller ==
    /\ stack # << >> /\ Candidate > Len(op_list)
    /\ stack' = Tail(stack)
    /\ UNCHANGED <<generated_combos, max_combo_limit, max_combos_tested,
                   num_recursive_calls, total_num_combos>>

-----------------------------------------------------------------------------
Construct == mode = "loading" /\ Next /\ UNCHANGED <<mode, searchVars>>

Constructed == mode = "loading" /\ mode' = "ready" /\ UNCHANGED <<vars, searchVars>>

\* get_combos resets its limits, but not the combos it has collected.  The
\* root call generate_combos(0, -1, Set()) collects nothing; limit_tested is
\* at least 1 here, or the root call fails.
get_combos(limit, limit_tested) ==
    /\ mode \in Idle
    /\ mode' = "generating"
    /\ max_combo_limit' = limit
    /\ max_combos_tested' = limit_tested
    /\ num_recursive_calls' = 1
    /\ stack' = IF \/ limit # 0 /\ Cardinality(generated_combos) >= limit
                   \/ op_list = << >>
                THEN << >> ELSE <<[i |-> 1, local_drop_set |-> {}]>>
    /\ UNCHANGED <<vars, generated_combos, total_num_combos>>

count_all_combos ==
    /\ mode \in Idle
    /\ mode' = "counting"
    /\ total_num_combos' = 0
    /\ stack' = IF op_list = << >> THEN << >> ELSE <<[i |-> 1, local_drop_set |-> {}]>>
    /\ UNCHANGED <<vars, generated_combos, max_combo_limit, max_combos_tested,
                   num_recursive_calls>>

Generate ==
    /\ mode = "generating"
    /\ \/ /\ CandidateAllowed
          /\ GenerateCall(Candidate, Caller.local_drop_set, Advanced({Candidate}))
       \/ SkipCandidate
       \/ ReturnToCaller
    /\ UNCHANGED <<vars, mode>>

Count ==
    /\ mode = "counting"
    /\ \/ /\ CandidateAllowed
          /\ CountCall(Candidate, Caller.local_drop_set, Advanced({Candidate}))
       \/ SkipCandidate
       \/ ReturnToCaller
    /\ UNCHANGED <<vars, mode>>

Return ==
    /\ stack = << >>
    /\ \/ mode = "generating" /\ mode' = "answered"
       \/ mode = "counting" /\ mode' = "counted"
    /\ UNCHANGED <<vars, searchVars>>

\* The assertion on num_recursive_calls fails: the exception unwinds all the
\* calls and leaves the combos collected so far.
AssertionFails ==
    /\ mode = "generating"
    /\ CandidateAllowed
    /\ num_recursive_calls >= max_combos_tested
    /\ mode' = "ready"
    /\ stack' = << >>
    /\ num_recursive_calls' = num_recursive_calls + 1
    /\ UNCHANGED <<vars, generated_combos, max_combo_limit, max_combos_tested,
                   total_num_combos>>

CombosInit ==
    /\ Init
    /\ mode = "loading"
    /\ stack = << >>
    /\ generated_combos = {}
    /\ max_combo_limit = 0 /\ max_combos_tested = 10000000
    /\ num_recursive_calls = 0
    /\ total_num_combos = 0

CombosNext ==
    \/ Construct \/ Constructed
    \/ \E limit \in Limits, limit_tested \in CallBudgets : get_combos(limit, limit_tested)
    \/ count_all_combos
    \/ Generate \/ Count \/ Return \/ AssertionFails

CombosSpec == CombosInit /\ [][CombosNext]_comboVars

\* The search is a plain function call: once started it runs.
CombosFairSpec == CombosSpec /\ WF_comboVars(Generate \/ Count \/ Return \/ AssertionFails)

-----------------------------------------------------------------------------
(* Properties                                                              *)

\* Type invariant of the enumeration.
CombosTypeOK ==
    /\ TypeOK
    /\ mode \in Modes
    /\ stack \in Seq(Frame)
    /\ generated_combos \subseteq SUBSET Nat
    /\ max_combo_limit \in Nat /\ max_combos_tested \in Nat
    /\ num_recursive_calls \in Nat /\ total_num_combos \in Nat

\* Nothing but valid combos is ever collected, although the search leaves
\* blocked candidates out of its drop set (auto_test.py:360-365).
CombosValid == generated_combos \subseteq ValidCombos

\* When get_combos returns without a limit, no valid combo is missing: the
\* pruned search finds what the brute force of try_all_combos
\* (auto_test.py:255-274) finds, whatever was collected or aborted before.
CombosComplete ==
    mode = "answered" /\ max_combo_limit = 0 =>
        generated_combos = ValidCombos \ {{}}

\* count_all_combos counts each combo exactly once, without collecting them
\* to tell duplicates apart (auto_test.py:371-388, 411-422).
CountExact ==
    mode = "counted" => total_num_combos = Cardinality(ValidCombos \ {{}})

\* Every call of get_combos and count_all_combos ends.
SearchEnds == (mode \in {"generating", "counting"}) ~> (mode \in Idle)
=============================================================================
