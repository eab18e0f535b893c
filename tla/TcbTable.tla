------------------------------ MODULE TcbTable ------------------------------
(***************************************************************************)
(* The table of traced threads of src/strace-4.8/strace.c: tcbtab, with    *)
(* one control block per thread, and nprocs, the number of blocks in use,  *)
(* which ends the trace when it is 0.  Here a block is only the pid it is  *)
(* for; Tracer has the rest of it and implements this module.              *)
(*                                                                         *)
(* A block that is not in use is zeroed: its pid is 0.                     *)
(***************************************************************************)
EXTENDS TraceParameters, Sequences

VARIABLES tcbtab, nprocs

tableVars == <<tcbtab, nprocs>>

Used == {i \in DOMAIN tcbtab : tcbtab[i] # 0}

\* expand_tcbtab
Expanded(tab) == [i \in 1..(2 * Len(tab)) |-> IF i <= Len(tab) THEN tab[i] ELSE 0]

\* The table in which alloctcb looks for a free block.
Roomy == IF nprocs = Len(tcbtab) THEN Expanded(tcbtab) ELSE tcbtab

\* Its loop takes the first free block.
FirstFree(tab) ==
    {i \in DOMAIN tab : tab[i] = 0 /\ \A j \in 1..(i - 1) : tab[j] # 0}

-----------------------------------------------------------------------------
\* startup_attach and startup_child take a block for each thread at hand.
TableInit ==
    /\ tcbtab = [i \in 1..FirstSize |-> 0]
    /\ nprocs = 0

\* alloctcb, called for a pid that pid2tcb does not find.
Alloc(pid) ==
    /\ \A i \in Used : tcbtab[i] # pid
    /\ \E i \in FirstFree(Roomy) : tcbtab' = [Roomy EXCEPT ![i] = pid]
    /\ nprocs' = nprocs + 1

\* droptcb
Drop(i) ==
    /\ tcbtab[i] # 0
    /\ tcbtab' = [tcbtab EXCEPT ![i] = 0]
    /\ nprocs' = nprocs - 1

\* execve in a thread that is not the leader: the block of the leader is
\* dropped and that of the thread is for the pid of the leader.
Switch(leader, thread) ==
    /\ leader # thread /\ tcbtab[leader] # 0 /\ tcbtab[thread] # 0
    /\ tcbtab' = [tcbtab EXCEPT ![leader] = 0, ![thread] = tcbtab[leader]]
    /\ nprocs' = nprocs - 1

TableNext ==
    \/ \E pid \in Pids : Alloc(pid)
    \/ \E i \in DOMAIN tcbtab : Drop(i)
    \/ \E i, j \in DOMAIN tcbtab : Switch(i, j)

TableSpec == TableInit /\ [][TableNext]_tableVars

-----------------------------------------------------------------------------
TableTypeOK ==
    /\ tcbtab \in Seq({0} \cup Pids) /\ Len(tcbtab) >= FirstSize
    /\ nprocs \in Nat

\* nprocs counts the blocks in use.  trace() stops when it is 0, so a thread
\* that is not counted is abandoned and one counted twice is waited for forever.
CountExact == nprocs = Cardinality(Used)

\* A pid has one block, the one pid2tcb finds.
PidsDistinct ==
    \A i, j \in Used : tcbtab[i] = tcbtab[j] => i = j

\* alloctcb finds a block: it never ends with "bug in alloctcb".
AllocFinds == FirstFree(Roomy) # {}
=============================================================================
