----------------------------- MODULE TraceOutput -----------------------------
(***************************************************************************)
(* What src/strace-4.8/strace.c remembers and writes: the table of tcbs,   *)
(* whose line is being printed, and the output files.  An operator here is *)
(* a function of strace; it takes the state s before the call and gives    *)
(* the state after it.  Tracer puts the functions together.                *)
(*                                                                         *)
(* With -ff every thread has a log, a stack file and a dump file of its    *)
(* own, named by its pid; otherwise all share one of each, named Shared.   *)
(* A line of a log is what it begins with, how it ends, and the call it is *)
(* about; the text of arguments and results is left out.  A stack file and *)
(* a dump file are the calls they have a line or bytes of.                 *)
(***************************************************************************)
EXTENDS TracedThreads, Sequences

Shared == 0
NoFile == -1
Files == Pids \cup {Shared}

\* The line being written: nothing, a call, or a resumed call.
NoLine == [begins |-> "nothing", call |-> NoCall]

\* A block of the table: the fields of struct tcb that matter.  The flags are
\* without the prefix TCB_, outf stands for outf, out_stack_f and out_dump_f, which
\* are always set together, and call is the last call, for s_ent and u_arg.
FreeTcb == [pid |-> 0, flags |-> {}, curcol |-> FALSE, outf |-> NoFile, call |-> NoCall]

\* printing and current are indexes of printing_tcp and current_tcp, or 0.
EmptyOutput ==
    [tcbtab |-> [i \in 1..FirstSize |-> FreeTcb], nprocs |-> 0,
     printing |-> 0, current |-> 0,
     line |-> [f \in Files |-> NoLine],
     log |-> [f \in Files |-> << >>],
     stack |-> [f \in Files |-> << >>],
     dump |-> [f \in Files |-> << >>]]

SetFlags(s, i, flags) == [s EXCEPT !.tcbtab[i].flags = @ \cup flags]
ClearFlags(s, i, flags) == [s EXCEPT !.tcbtab[i].flags = @ \ flags]
InUse(s, i) == "INUSE" \in s.tcbtab[i].flags

-----------------------------------------------------------------------------
(* Lines                                                                   *)

\* The text ends the line of the log of tcb i.
Ends(s, i, text) ==
    LET f == s.tcbtab[i].outf IN
    [s EXCEPT !.log[f] = Append(@, [begins |-> s.line[f].begins, ends |-> text,
                                    call |-> s.line[f].call]),
              !.line[f] = NoLine]

Begins(s, i, what) ==
    [s EXCEPT !.line[s.tcbtab[i].outf] = [begins |-> what, call |-> s.tcbtab[i].call]]

\* current_tcp and printing_tcp are at the start of a line, nobody prints.
line_ended(s) ==
    [s EXCEPT !.printing = 0,
              !.tcbtab = [i \in DOMAIN @ |->
                             IF i \in {s.current, s.printing}
                             THEN [@[i] EXCEPT !.curcol = FALSE] ELSE @[i]]]

\* The unfinished line, of whoever prints, is ended, and the new one has its
\* pid or time.
printleader(ff, s, i) ==
    LET printing == IF ff THEN i ELSE s.printing
        ended == IF printing # 0 /\ s.tcbtab[printing].curcol
                 THEN [Ends(s, printing, "unfinished") EXCEPT !.tcbtab[printing].curcol = FALSE]
                 ELSE s
    IN  [ended EXCEPT !.printing = i, !.current = i, !.tcbtab[i].curcol = TRUE]

\* A line that is not about a call.
Note(ff, s, i, text) == line_ended(Ends(printleader(ff, s, i), i, text))

\* The result is printed after the call, when the log still ends with it, or
\* after "<... resumed>".
ResumedNever(ff, s, i) == [s EXCEPT !.printing = i]

Resumed(ff, s, i) ==
    [(IF (~ff /\ s.printing # i) \/ "REPRINT" \in s.tcbtab[i].flags
      THEN Begins(printleader(ff, ClearFlags(s, i, {"REPRINT"}), i), i, "resumed")
      ELSE s)
     EXCEPT !.printing = i]

-----------------------------------------------------------------------------
(* The table                                                               *)

pid2tcb(s, pid) == {i \in DOMAIN s.tcbtab : s.tcbtab[i].pid = pid /\ InUse(s, i)}

expand_tcbtab(s) ==
    [s EXCEPT !.tcbtab = [i \in 1..(2 * Len(@)) |-> IF i <= Len(@) THEN @[i] ELSE FreeTcb]]

FirstFree(s) ==
    CHOOSE i \in DOMAIN s.tcbtab : ~InUse(s, i) /\ \A j \in 1..(i - 1) : InUse(s, j)

AttachedUncounted(ff, s, pid, flags) ==
    LET room == IF s.nprocs = Len(s.tcbtab) THEN expand_tcbtab(s) ELSE s
    IN  [room EXCEPT
            !.tcbtab[FirstFree(room)] =
                [FreeTcb EXCEPT !.pid = pid, !.outf = IF ff THEN pid ELSE Shared,
                                !.flags = {"INUSE", "ATTACHED", "STARTUP"} \cup flags]]

\* alloctcb and newoutf, with the flags the callers give the new tcb.
Attached(ff, s, pid, flags) ==
    LET room == IF s.nprocs = Len(s.tcbtab) THEN expand_tcbtab(s) ELSE s
    IN  [room EXCEPT
            !.nprocs = @ + 1,
            !.tcbtab[FirstFree(room)] =
                [FreeTcb EXCEPT !.pid = pid, !.outf = IF ff THEN pid ELSE Shared,
                                !.flags = {"INUSE", "ATTACHED", "STARTUP"} \cup flags]]

\* A line of the tcb that is open is ended before its file is closed.
droptcb(ff, s, i) ==
    LET ended == IF s.tcbtab[i].curcol /\ (ff \/ s.printing = i)
                 THEN Ends(s, i, "detached") ELSE s
    IN  IF s.tcbtab[i].pid = 0 THEN s
        ELSE [ended EXCEPT !.nprocs = @ - 1,
                           !.printing = IF @ = i THEN 0 ELSE @,
                           !.current = IF @ = i THEN 0 ELSE @,
                           !.tcbtab[i] = FreeTcb]

\* execve in thread i has replaced the leader, whose tcb is j: i takes over the
\* files, the column and the pid of j, which is dropped.
SupersededKeepsPid(ff, s, i, j) ==
    LET told == IF s.tcbtab[i].curcol THEN Ends(s, i, "pid changed") ELSE s
        thread == told.tcbtab[i]
        leader == told.tcbtab[j]
        swapped == [told EXCEPT
            !.tcbtab[i] = [thread EXCEPT !.outf = leader.outf, !.curcol = leader.curcol],
            !.tcbtab[j] = [leader EXCEPT !.outf = thread.outf, !.curcol = FALSE]]
    IN  SetFlags(Note(ff, droptcb(ff, swapped, j), i, "superseded"), i, {"REPRINT"})

Superseded(ff, s, i, j) ==
    LET told == IF s.tcbtab[i].curcol THEN Ends(s, i, "pid changed") ELSE s
        thread == told.tcbtab[i]
        leader == told.tcbtab[j]
        swapped == [told EXCEPT
            !.tcbtab[i] = [thread EXCEPT !.outf = leader.outf, !.curcol = leader.curcol],
            !.tcbtab[j] = [leader EXCEPT !.outf = thread.outf, !.curcol = FALSE]]
        renamed == [droptcb(ff, swapped, j) EXCEPT !.tcbtab[i].pid = leader.pid]
    IN  SetFlags(Note(ff, renamed, i, "superseded"), i, {"REPRINT"})
=============================================================================
