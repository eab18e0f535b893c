------------------------------- MODULE Replayer -------------------------------
(***************************************************************************)
(* The Replayer of src/simulate_crashes.py: the crash specification API.   *)
(* A specification (a script) calls its methods to choose a crash state:   *)
(* it cuts the trace at an end, omits disk operations, or edits the list   *)
(* of micro operations; dops_replay then replays what is left.             *)
(*                                                                         *)
(* Positions count from 1, so an end before the first operation is 0.      *)
(***************************************************************************)
EXTENDS LegalCombos

CONSTANTS
    Traces,    \* the traces to look at: sequences of lines
    Slots,     \* slots of save and load; 0 is filled by the constructor
    MaxMicro,  \* bound: micro operations a split may lead to
    MaxCalls   \* bound: calls of a specification

\* What conv_micro writes into a line.
WriteLine ==
    [op: {"write", "append"}, inode: Files, offset: Nat, count: Nat, dump_offset: Nat]

IsLine(line) ==
    \/ line \in WriteLine
    \/ line.op = "trunc" /\ line.initial_size \in Nat /\ line.final_size \in Nat
    \/ line.op = "unlink" /\ line.size \in Nat
    \/ line.op = "rename" /\ line.source_size \in Nat /\ line.dest_size \in Nat
    \/ line.op \in {"creat", "link", "mkdir", "rmdir", "fsync", "file_sync_range", "stdout"}

ASSUME TracesAssumption ==
    \A trace \in Traces :
        /\ trace # << >> /\ trace \in Seq(Range(trace))
        /\ \A i \in DOMAIN trace : IsLine(trace[i])
ASSUME SlotsAssumption == 0 \in Slots
ASSUME CallsAssumption == MaxCalls \in Nat /\ MaxMicro \in Nat

VARIABLES
    micro_ops,               \* lines with their disk operations
    micro_end, disk_end,     \* the cut: the last disk operation to replay
    test_suite,              \* the rows the test suite was built from
    test_suite_initialized,
    saved,                   \* per slot: a copy of all the above
    calls                    \* number of calls so far

suiteVars == <<test_suite, test_suite_initialized>>
cutVars == <<micro_end, disk_end>>
vars == <<micro_ops, cutVars, suiteVars, saved, calls>>

NotSaved == << >>
State == [micro_ops |-> micro_ops, micro_end |-> micro_end, disk_end |-> disk_end,
          test_suite |-> test_suite, test_suite_initialized |-> test_suite_initialized]

Micro == DOMAIN micro_ops
DiskOpsOf(i) == micro_ops[i].disk_ops

\* Pairs (i, j) of the API: the j-th disk operation of the i-th micro operation.
Doubles == UNION {{i} \X DOMAIN DiskOpsOf(i) : i \in Micro}
Omitted(d) == DiskOpsOf(d[1])[d[2]].hidden_omitted

\* The disk operations of a line, none of them omitted.
Generated(line, how) ==
    LET rows == get_disk_ops(line, how)
    IN  [j \in DOMAIN rows |-> [row |-> rows[j], hidden_omitted |-> FALSE]]

RowsOf(ops) ==
    FlattenSeq([i \in DOMAIN ops |->
        [j \in DOMAIN ops[i].disk_ops |-> ops[i].disk_ops[j].row]])

dops_single(d) == Len(RowsOf(SubSeq(micro_ops, 1, d[1] - 1))) + d[2]

\* What dops_replay replays.
ToReplay ==
    {d \in Doubles : /\ d[1] <= micro_end
                     /\ d[1] = micro_end => d[2] <= disk_end
                     /\ ~Omitted(d)}

-----------------------------------------------------------------------------
(* The methods.  Those that change what there is to replay clear           *)
(* test_suite_initialized, and dops_independent_till asserts it.           *)

Call == calls < MaxCalls /\ calls' = calls + 1

end_at(i) ==
    /\ micro_end' = i
    /\ disk_end' = Len(DiskOpsOf(i))
    /\ UNCHANGED <<micro_ops, suiteVars, saved>>

dops_end_at(d) ==
    /\ micro_end' = d[1]
    /\ disk_end' = d[2]
    /\ UNCHANGED <<micro_ops, suiteVars, saved>>

dops_generateKeepsSuite(ids, how) ==
    /\ micro_ops' = [i \in Micro |->
          IF i \in ids THEN [micro_ops[i] EXCEPT !.disk_ops = Generated(micro_ops[i].line, how)]
          ELSE micro_ops[i]]
    /\ disk_end' = IF micro_end \in ids
                   THEN Len(Generated(micro_ops[micro_end].line, how)) ELSE disk_end
    /\ UNCHANGED <<micro_end, suiteVars, saved>>

\* An end in one of the lines that are split anew moves to the end of the line.
dops_generate(ids, how) ==
    /\ micro_ops' = [i \in Micro |->
          IF i \in ids THEN [micro_ops[i] EXCEPT !.disk_ops = Generated(micro_ops[i].line, how)]
          ELSE micro_ops[i]]
    /\ disk_end' = IF micro_end \in ids
                   THEN Len(Generated(micro_ops[micro_end].line, how)) ELSE disk_end
    /\ test_suite_initialized' = FALSE
    /\ UNCHANGED <<micro_end, test_suite, saved>>

dops_set_legal ==
    /\ test_suite' = RowsOf(micro_ops)
    /\ test_suite_initialized' = TRUE
    /\ UNCHANGED <<micro_ops, cutVars, saved>>

\* An output is not omitted.
dops_omit(d) ==
    /\ micro_ops[d[1]].line.op # "stdout"
    /\ micro_ops' = [micro_ops EXCEPT ![d[1]].disk_ops[d[2]].hidden_omitted = TRUE]
    /\ UNCHANGED <<cutVars, suiteVars, saved>>

dops_include(d) ==
    /\ micro_ops' = [micro_ops EXCEPT ![d[1]].disk_ops[d[2]].hidden_omitted = FALSE]
    /\ UNCHANGED <<cutVars, suiteVars, saved>>

dops_removeKeepsSuite(d) ==
    /\ micro_ops' = [micro_ops EXCEPT ![d[1]].disk_ops = RemoveAt(@, d[2])]
    /\ disk_end' = IF d[1] = micro_end THEN disk_end - 1 ELSE disk_end
    /\ UNCHANGED <<micro_end, suiteVars, saved>>

\* The end moves whether the operation was before or behind it.
dops_remove(d) ==
    /\ micro_ops' = [micro_ops EXCEPT ![d[1]].disk_ops = RemoveAt(@, d[2])]
    /\ disk_end' = IF d[1] = micro_end THEN disk_end - 1 ELSE disk_end
    /\ test_suite_initialized' = FALSE
    /\ UNCHANGED <<micro_end, test_suite, saved>>

\* Here, too, and disk_end stays.
remove(i) ==
    /\ micro_ops' = RemoveAt(micro_ops, i)
    /\ micro_end' = micro_end - 1
    /\ test_suite_initialized' = FALSE
    /\ UNCHANGED <<disk_end, test_suite, saved>>

IsWrite(i) == micro_ops[i].line.op \in {"write", "append"}

\* set_data, set_garbage and set_zeros change the data of a line, not its disk
\* operations.
set_data(i) ==
    /\ IsWrite(i)
    /\ test_suite_initialized' = FALSE
    /\ UNCHANGED <<micro_ops, cutVars, test_suite, saved>>

\* The slices of a line take copies of its disk operations along.
split(i, count) ==
    LET line == micro_ops[i].line
        slices == Slices([split_mode |-> "count", splits |-> count], line.offset, line.count)
        parts == [k \in DOMAIN slices |->
                    [micro_ops[i] EXCEPT !.line = [line EXCEPT
                        !.offset = slices[k].start, !.count = slices[k].count,
                        !.dump_offset = @ + (slices[k].start - line.offset)]]]
    IN  /\ IsWrite(i)
        /\ Len(micro_ops) + Len(slices) - 1 <= MaxMicro
        /\ micro_ops' = SubSeq(micro_ops, 1, i - 1) \o parts
                        \o SubSeq(micro_ops, i + 1, Len(micro_ops))
        /\ micro_end' = micro_end - 1 + Len(slices)
        /\ test_suite_initialized' = FALSE
        /\ UNCHANGED <<disk_end, test_suite, saved>>

save(slot) ==
    /\ saved' = [saved EXCEPT ![slot] = State]
    /\ UNCHANGED <<micro_ops, cutVars, suiteVars>>

load(slot) ==
    /\ saved[slot] # NotSaved
    /\ micro_ops' = saved[slot].micro_ops
    /\ micro_end' = saved[slot].micro_end
    /\ disk_end' = saved[slot].disk_end
    /\ test_suite' = saved[slot].test_suite
    /\ test_suite_initialized' = saved[slot].test_suite_initialized
    /\ UNCHANGED saved

-----------------------------------------------------------------------------
DefaultSplit == [split_mode |-> "count", splits |-> 3, expanded_atomicity |-> FALSE]

Constructed(trace) ==
    [i \in DOMAIN trace |-> [line |-> trace[i], disk_ops |-> Generated(trace[i], DefaultSplit)]]

\* The constructor: the whole trace, split in the default way.
Init ==
    \E trace \in Traces :
        /\ micro_ops = Constructed(trace)
        /\ micro_end = Len(trace)
        /\ disk_end = Len(Constructed(trace)[Len(trace)].disk_ops)
        /\ test_suite = RowsOf(Constructed(trace))
        /\ test_suite_initialized = TRUE
        /\ saved = [slot \in Slots |-> IF slot = 0 THEN State ELSE NotSaved]
        /\ calls = 0

Edit ==
    \/ \E how \in Splits : dops_generate(Micro, how)
    \/ \E how \in Splits, i \in Micro : dops_generate({i}, how)
    \/ \E d \in Doubles : dops_remove(d)
    \/ \E i \in Micro : remove(i)
    \/ \E i \in Micro : set_data(i)
    \/ \E i \in Micro, count \in {2, 3} : split(i, count)

Next ==
    /\ Call
    /\ \/ \E i \in Micro : end_at(i)
       \/ \E d \in Doubles : dops_end_at(d)
       \/ \E d \in Doubles : dops_omit(d)
       \/ \E d \in Doubles : dops_include(d)
       \/ Edit
       \/ dops_set_legal
       \/ \E slot \in Slots : save(slot)
       \/ \E slot \in Slots : load(slot)

Spec == Init /\ [][Next]_vars

-----------------------------------------------------------------------------
(* Properties                                                              *)

\* Type invariant: no disk operation is empty.
ReplayerTypeOK ==
    /\ \A d \in Doubles :
          LET row == DiskOpsOf(d[1])[d[2]].row IN
          /\ Omitted(d) \in BOOLEAN
          /\ row.op = "write" => row.count > 0
    /\ micro_end \in Int /\ disk_end \in Int
    /\ test_suite_initialized \in BOOLEAN
    /\ DOMAIN saved = Slots /\ saved[0] # NotSaved

\* A test suite that may be asked is the suite of the operations there are,
\* through all edits, saves and loads (simulate_crashes.py:157-170, 246-383).
SuiteIsCurrent == test_suite_initialized => test_suite = RowsOf(micro_ops)

\* dops_independent_till of the omitted operations: 0 stands for None.
independent_till ==
    LET omitted == {dops_single(d) : d \in {e \in Doubles : Omitted(e)}}
        answers == Suite(Operations(test_suite), DepsOf(test_suite))
                        !drop_list_of_ops(omitted)
    IN  IF answers = {} THEN 0 ELSE CHOOSE last \in answers : \A i \in answers : i <= last

\* The crash states that the specifications build are legal: what is replayed
\* up to any end within dops_independent_till of the omitted operations is a
\* valid combo of the operations there are now, "till which execution can
\* continue legally" (test/crash_specifier.py:28-30).
LegalReplay ==
    LET replayed == {dops_single(d) : d \in ToReplay}
        rows == RowsOf(micro_ops)
        till == independent_till
    IN
    test_suite_initialized /\ (\A i \in replayed : i <= till) =>
        Suite(Operations(rows), DepsOf(rows))!test_validity(replayed)
=============================================================================
