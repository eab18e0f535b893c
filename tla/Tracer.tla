-------------------------------- MODULE Tracer --------------------------------
(***************************************************************************)
(* strace at work: trace() of src/strace-4.8/strace.c with the functions   *)
(* of syscall.c, io.c and process.c that it calls for a system call.  The  *)
(* loop waits for the report of a traced thread, writes what it says to    *)
(* the files, and restarts the thread.  Between any two steps the threads  *)
(* go on: the one at hand is stopped, but may be killed.                   *)
(*                                                                         *)
(* strace either starts the first thread itself, or attaches to threads    *)
(* that run; it writes one log for all (-f) or one for each thread (-ff);  *)
(* it may be told to detach on execve (-b execve); and an interrupt makes  *)
(* it detach from all threads and exit.                                    *)
(***************************************************************************)
EXTENDS TraceOutput

CONSTANT Scenarios  \* bound: the options strace is tried with, and on what

\* ff: -ff; b: -b execve; child: strace starts the thread, else it attaches;
\* threads: how many run when it attaches; seize: the kernel has PTRACE_SEIZE;
\* interactive: interrupts are not ignored; left: what the threads may do.
ASSUME ScenariosAssumption ==
    Scenarios \subseteq
        [ff: BOOLEAN, b: BOOLEAN, child: BOOLEAN, threads: Nat, seize: BOOLEAN,
         interactive: BOOLEAN,
         left: [calls: Nat, signals: Nat, kills: Nat, kinds: SUBSET AllKinds]]

VARIABLES
    opt,          \* the options
    out,          \* the table of tcbs and the files, see TraceOutput
    pc,           \* where strace is
    tcp,          \* the index of the tcb it is at
    status,       \* what wait4 returned
    hide,         \* hide_log_until_execve
    skip,         \* skip_one_b_execve
    interrupted,  \* has there been an interrupt?
    detaching     \* detach() is called by trace() or by cleanup()

straceVars == <<opt, out, pc, tcp, status, hide, skip, interrupted, detaching>>
tracerVars == <<straceVars, kernelVars>>

NoStatus == [pid |-> 0, report |-> Nothing, oldpid |-> 0]

Tcb == out.tcbtab[tcp]
At(i) == i \in DOMAIN out.tcbtab /\ InUse(out, i)

\* get_regs, PTRACE_PEEKDATA and process_vm_readv of the thread at hand work.
Readable == Stopped(status.pid)

Running == [FreeTask EXCEPT !.state = "run", !.leader = 1, !.launch = opt.child]

\* post_attach_sigstop
PostAttach == IF opt.seize THEN {} ELSE {"IGNORE_ONE_SIGSTOP"}

-----------------------------------------------------------------------------
Init ==
    /\ opt \in Scenarios
    /\ seize = opt.seize
    /\ task = [p \in Pids |-> IF p <= opt.threads THEN Running ELSE FreeTask]
    /\ left = opt.left
    /\ out = EmptyOutput
    /\ pc = "startup" /\ tcp = 0 /\ status = NoStatus
    /\ hide = opt.child /\ skip = opt.child
    /\ interrupted = FALSE /\ detaching = Nothing

(* startup_child and startup_attach                                        *)

\* PTRACE_SEIZE with PTRACE_INTERRUPT, or PTRACE_ATTACH: the first stop is at hand.
StartTracing(p) ==
    task' = [task EXCEPT ![p] = [@ EXCEPT !.traced = TRUE, !.syscalls = TRUE,
                                    !.state = IF seize THEN "stop" ELSE "run",
                                    !.report = IF seize THEN "start" ELSE Nothing,
                                    !.pending = IF seize THEN {} ELSE {"sigstop"}]]

\* The child of startup_child has stopped itself; it goes on to execve.  The
\* threads of startup_attach are those of /proc/PID/task; while it reads them
\* they make no calls here.
Startup(p) ==
    /\ pc = "startup" /\ task[p].state = "run" /\ ~task[p].traced
    /\ StartTracing(p)
    /\ out' = Attached(opt.ff, out, p,
                       PostAttach \cup (IF opt.child THEN {"STRACE_CHILD"} ELSE {}))
    /\ UNCHANGED <<opt, pc, tcp, status, hide, skip, interrupted, detaching, seize, left>>

StartupEnds ==
    /\ pc = "startup"
    /\ \A p \in Pids : task[p].state = "run" => task[p].traced
    /\ pc' = "wait"
    /\ UNCHANGED <<opt, out, tcp, status, hide, skip, interrupted, detaching, kernelVars>>

-----------------------------------------------------------------------------
(* The loop of trace()                                                     *)

Interrupt ==
    /\ opt.interactive /\ ~interrupted /\ pc \in {"wait", "handle"}
    /\ interrupted' = TRUE
    /\ UNCHANGED <<opt, out, pc, tcp, status, hide, skip, detaching, kernelVars>>

\* The loop ends when no tcb is in use, or for an interrupt.
LoopEnds ==
    /\ pc = "wait" /\ (out.nprocs = 0 \/ interrupted)
    /\ pc' = "cleanup" /\ tcp' = 1
    /\ UNCHANGED <<opt, out, status, hide, skip, interrupted, detaching, kernelVars>>

\* wait4 finds no thread: ECHILD.
WaitFindsNone ==
    /\ pc = "wait" /\ out.nprocs # 0 /\ ~interrupted
    /\ \A p \in Pids : task[p].traced => task[p].state = "gone"
    /\ pc' = "cleanup" /\ tcp' = 1
    /\ UNCHANGED <<opt, out, status, hide, skip, interrupted, detaching, kernelVars>>

\* wait4, with the tcb of the pid, or a new one.
Wait(p) ==
    /\ pc = "wait" /\ out.nprocs # 0 /\ ~interrupted
    /\ Waitable(p)
    /\ pc' = "handle"
    /\ status' = [pid |-> p, report |-> task[p].report, oldpid |-> task[p].oldpid]
    /\ task' = Reaped(p)
    /\ LET known == pid2tcb(out, p)
           o == IF known # {} THEN out ELSE Attached(opt.ff, out, p, PostAttach)
       IN  /\ out' = o
           /\ tcp' \in pid2tcb(o, p)
    /\ UNCHANGED <<opt, hide, skip, interrupted, detaching, seize, left>>

Handling(reports) == pc = "handle" /\ status.report \in reports

\* Where strace goes on with the thread, or does not.
Goes(where) ==
    /\ pc' = where
    /\ UNCHANGED <<opt, tcp, status, interrupted, detaching, kernelVars>>

\* WIFSIGNALED and WIFEXITED.
HandleEnd ==
    /\ Handling(Ended)
    /\ out' = droptcb(opt.ff, Note(opt.ff, out, tcp, status.report), tcp)
    /\ Goes("wait") /\ UNCHANGED <<hide, skip>>

Started(o) == [ClearFlags(o, tcp, {"STARTUP"}) EXCEPT !.current = tcp]

HandleEventNoRestart ==
    /\ Handling({"start", "clone"})
    /\ out' = Started(out)
    /\ Goes(IF status.report = "clone" THEN "wait" ELSE "restart")
    /\ UNCHANGED <<hide, skip>>

\* The first stop with PTRACE_SEIZE, and PTRACE_EVENT_CLONE.
HandleEvent ==
    /\ Handling({"start", "clone"})
    /\ out' = Started(out)
    /\ Goes("restart") /\ UNCHANGED <<hide, skip>>

\* PTRACE_EVENT_EXEC: the tcb of the thread that called execve replaces that of
\* the leader, and -b execve detaches.
HandleExecve ==
    LET thread == pid2tcb(out, status.oldpid)
        switch == status.oldpid # status.pid /\ thread # {}
        i == IF switch THEN CHOOSE j \in thread : TRUE ELSE tcp
        o == IF switch THEN Superseded(opt.ff, out, i, tcp) ELSE out
        detach == opt.b /\ ~skip
    IN  /\ Handling({"execve"})
        /\ out' = [ClearFlags(o, i, {"STARTUP"}) EXCEPT !.current = IF detach THEN @ ELSE i]
        /\ skip' = FALSE
        /\ tcp' = i
        /\ pc' = IF detach THEN "detach" ELSE "restart"
        /\ detaching' = IF detach THEN "trace" ELSE Nothing
        /\ UNCHANGED <<opt, status, hide, interrupted, kernelVars>>

\* A signal, or the SIGSTOP of PTRACE_ATTACH.
HandleSignal ==
    /\ Handling({"signal", "sigstop", "fatal"})
    /\ LET o == Started(out)
           ignored == status.report = "sigstop" /\ "IGNORE_ONE_SIGSTOP" \in Tcb.flags
       IN  out' = IF ignored THEN ClearFlags(o, tcp, {"IGNORE_ONE_SIGSTOP"})
                  ELSE IF hide THEN o ELSE Note(opt.ff, o, tcp, "signal")
    /\ Goes("restart") /\ UNCHANGED <<hide, skip>>

\* A stop at a system call, after an interrupt.
HandleInterrupted ==
    /\ Handling({"syscall"}) /\ interrupted
    /\ out' = Started(out)
    /\ pc' = "cleanup" /\ tcp' = 1
    /\ UNCHANGED <<opt, status, hide, skip, interrupted, detaching, kernelVars>>

-----------------------------------------------------------------------------
(* trace_syscall                                                           *)

Entering == Handling({"syscall"}) /\ ~interrupted /\ "INSYSCALL" \notin Tcb.flags
Exiting == Handling({"syscall"}) /\ ~interrupted /\ "INSYSCALL" \in Tcb.flags

\* The thread is gone: "????(" and no restart.
EnterUnreadable ==
    /\ Entering /\ ~Readable
    /\ out' = SetFlags(Begins(printleader(opt.ff, Started(out), tcp), tcp, "unknown"),
                       tcp, {"INSYSCALL"})
    /\ Goes("wait") /\ UNCHANGED <<hide, skip>>

\* The tcb has the call of the thread.
Read(o) == [o EXCEPT !.tcbtab[tcp].call = task[status.pid].call]

EnterSilentlyWithStack ==
    /\ Entering /\ Readable
    /\ hide' = (hide /\ task[status.pid].kind # "execve")
    /\ hide' \/ task[status.pid].kind = "filtered"
    /\ out' = LET o == SetFlags(Read(Started(out)), tcp, {"INSYSCALL", "FILTERED"})
              IN  [o EXCEPT !.stack[Tcb.outf] = Append(@, o.tcbtab[tcp].call)]
    /\ Goes("restart") /\ UNCHANGED skip

\* Not traced by -e trace=, or before the execve of the child.
EnterSilently ==
    /\ Entering /\ Readable
    /\ hide' = (hide /\ task[status.pid].kind # "execve")
    /\ \/ /\ task[status.pid].kind = "filtered"
          /\ out' = SetFlags(Read(Started(out)), tcp, {"INSYSCALL", "FILTERED"})
       \/ /\ task[status.pid].kind # "filtered" /\ hide'
          /\ out' = SetFlags(ClearFlags(Read(Started(out)), tcp, {"FILTERED"}),
                             tcp, {"INSYSCALL"})
    /\ Goes("restart") /\ UNCHANGED skip

\* The call begins a line, and has a line in the stack file.
Printed(o) ==
    LET begun == Begins(printleader(opt.ff, ClearFlags(Read(o), tcp, {"FILTERED"}), tcp),
                        tcp, "call")
    IN  [begun EXCEPT !.stack[begun.tcbtab[tcp].outf] =
                          Append(@, begun.tcbtab[tcp].call)]

\* The line of sys_exit is complete at once: there is no exit stop.  The bytes
\* of a write are read in a step of its own.
Enter ==
    LET kind == task[status.pid].kind
        o == Printed(Started(out))
    IN  /\ Entering /\ Readable
        /\ hide' = (hide /\ kind # "execve")
        /\ ~hide' /\ kind # "filtered"
        /\ out' = IF kind = "write" THEN o
                  ELSE IF kind \in {"exit", "exit_group"}
                  THEN SetFlags(line_ended(Ends(o, tcp, "result")), tcp, {"INSYSCALL"})
                  ELSE SetFlags(o, tcp, {"INSYSCALL"})
        /\ Goes(IF kind = "write" THEN "dump" ELSE "restart") /\ UNCHANGED skip

\* sys_write and the like: dump_bytes copies the bytes to the dump file ...
Dump ==
    /\ pc = "dump" /\ Readable
    /\ out' = [SetFlags(out, tcp, {"INSYSCALL"})
               EXCEPT !.dump[Tcb.outf] = Append(@, Tcb.call)]
    /\ Goes("restart") /\ UNCHANGED <<hide, skip>>

\* ... and asserts that it can read them.  The logs are flushed by lines and the
\* dump files are not buffered, but of the stack files, as they are in out, the
\* last lines may never get to the disk (see ConvAligned).
DumpAborts ==
    /\ pc = "dump" /\ ~Readable
    /\ Goes("aborted") /\ UNCHANGED <<out, hide, skip>>

LeftInSyscall(o) == o

Left(o) == ClearFlags(o, tcp, {"INSYSCALL"})

\* The thread is gone: the result is unavailable, whatever the call, and there
\* is no restart.
ExitUnreadable ==
    /\ Exiting /\ ~Readable
    /\ out' = Left(line_ended(Ends(Resumed(opt.ff, Started(out), tcp), tcp, "unavailable")))
    /\ Goes("wait") /\ UNCHANGED <<hide, skip>>

Leave ==
    LET o == Started(out)
        silent == "FILTERED" \in Tcb.flags \/ hide
    IN  /\ Exiting /\ Readable
        /\ out' = Left(IF silent THEN o
                       ELSE line_ended(Ends(Resumed(opt.ff, o, tcp), tcp, "result")))
        /\ Goes("restart") /\ UNCHANGED <<hide, skip>>

-----------------------------------------------------------------------------
(* ptrace_restart and detach                                               *)

\* A ptrace call has failed with ESRCH: it is in the log if a line is open.
Failed(o, text) ==
    IF o.current # 0 /\ o.tcbtab[o.current].curcol
    THEN line_ended(Ends(o, o.current, text)) ELSE o

RestartTracee ==
    LET p == Tcb.pid IN
    /\ pc = "restart"
    /\ IF p # 0 /\ Stopped(p) /\ task[p].traced
       THEN task' = Restarted(p, TRUE) /\ UNCHANGED out
       ELSE out' = Failed(out, "no such process") /\ UNCHANGED task
    /\ pc' = "wait" /\ status' = NoStatus /\ tcp' = 0
    /\ UNCHANGED <<opt, hide, skip, interrupted, detaching, seize, left>>

\* cleanup: the tcbs in the order of the table.  The child gets SIGCONT and a
\* signal that kills it unless it has a handler.
Cleanup ==
    /\ pc = "cleanup" /\ tcp <= Len(out.tcbtab)
    /\ IF InUse(out, tcp)
       THEN /\ pc' = "detach" /\ detaching' = "cleanup" /\ UNCHANGED tcp
            /\ task' = IF "STRACE_CHILD" \in Tcb.flags /\ Alive(Tcb.pid)
                       THEN [task EXCEPT ![Tcb.pid].pending = (@ \ {"sigstop"}) \cup {"fatal"}]
                       ELSE task
       ELSE /\ tcp' = tcp + 1
            /\ UNCHANGED <<task, pc, detaching>>
    /\ UNCHANGED <<opt, out, status, hide, skip, interrupted, seize, left>>

CleanupEnds ==
    /\ pc = "cleanup" /\ tcp > Len(out.tcbtab)
    /\ pc' = "done"
    /\ UNCHANGED <<opt, out, tcp, status, hide, skip, interrupted, detaching, kernelVars>>

\* The end of detach(): the tcb is dropped.
DetachEnds(o) ==
    /\ out' = LET dropped == droptcb(opt.ff, o, tcp)
              IN  IF detaching = "trace" THEN [dropped EXCEPT !.current = tcp] ELSE dropped
    /\ pc' = IF detaching = "trace" THEN "restart" ELSE "cleanup"
    /\ tcp' = IF detaching = "trace" THEN tcp ELSE tcp + 1
    /\ detaching' = Nothing
    /\ UNCHANGED <<opt, status, hide, skip, interrupted, seize, left>>

\* PTRACE_DETACH works on a stopped thread.  If a SIGSTOP is expected detach then
\* waits for a thread that is no longer traced, which fails at once.
DetachStopped ==
    LET p == Tcb.pid IN
    /\ pc = "detach" /\ Stopped(p)
    /\ task' = Detached(p)
    /\ DetachEnds(out)

DetachRunningNoWait ==
    LET p == Tcb.pid IN
    /\ pc = "detach" /\ task[p].state \in {"run", "dead"}
    /\ task' = IF "IGNORE_ONE_SIGSTOP" \in Tcb.flags THEN task
               ELSE [task EXCEPT ![p].pending = @ \cup {"sigstop"}]
    /\ DetachEnds(out)

\* It is not stopped: unless a SIGSTOP is expected it gets one.
DetachRunning ==
    LET p == Tcb.pid IN
    /\ pc = "detach" /\ task[p].state \in {"run", "dead"}
    /\ task' = IF "IGNORE_ONE_SIGSTOP" \in Tcb.flags THEN task
               ELSE [task EXCEPT ![p].pending = @ \cup {"sigstop"}]
    /\ pc' = "detach_wait"
    /\ UNCHANGED <<opt, out, tcp, status, hide, skip, interrupted, detaching, seize, left>>

\* It is gone, replaced by an execve that is not yet reported.
DetachGone ==
    /\ pc = "detach" /\ task[Tcb.pid].state = "gone"
    /\ DetachEnds(out) /\ UNCHANGED task

\* waitpid for the thread until it stops with SIGSTOP or ends; at other stops
\* it goes on, with the signal.
DetachWait ==
    LET p == Tcb.pid
        report == task[p].report
    IN  /\ pc = "detach_wait" /\ Waitable(p)
        /\ \/ /\ report \in Ended
              /\ task' = Reaped(p) /\ DetachEnds(out)
           \/ /\ report = "sigstop"
              /\ task' = Detached(p) /\ DetachEnds(out)
           \/ /\ report \notin Ended \cup {"sigstop"}
              /\ task' = IF report = "fatal" THEN EndGroup(p, "killed")
                         ELSE Restarted(p, FALSE)
              /\ UNCHANGED <<opt, out, pc, tcp, status, hide, skip, interrupted,
                             detaching, seize, left>>

\* There is no such thread any more: an execve has replaced it.
DetachNoChild ==
    /\ pc = "detach_wait" /\ task[Tcb.pid].state = "gone"
    /\ DetachEnds(out) /\ UNCHANGED task

-----------------------------------------------------------------------------
Handle ==
    \/ HandleEnd \/ HandleEvent \/ HandleExecve \/ HandleSignal \/ HandleInterrupted
    \/ EnterUnreadable \/ EnterSilently \/ Enter \/ Dump \/ DumpAborts
    \/ ExitUnreadable \/ Leave

Detach ==
    DetachStopped \/ DetachRunning \/ DetachGone \/ DetachWait \/ DetachNoChild

StraceStep ==
    \/ \E p \in Pids : Startup(p)
    \/ StartupEnds \/ LoopEnds
    \/ WaitFindsNone \/ \E p \in Pids : Wait(p)
    \/ Handle \/ RestartTracee \/ Cleanup \/ CleanupEnds \/ Detach

\* Threads make no steps that matter before they are traced and after strace is gone.
Threads == pc \notin {"startup", "done", "aborted"} /\ KernelStep /\ UNCHANGED straceVars

Next == StraceStep \/ Interrupt \/ Threads

\* strace goes on when it can; so does a thread that is not stopped.  Signals,
\* kills and interrupts may never come.
Spec ==
    /\ Init /\ [][Next]_tracerVars
    /\ WF_tracerVars(StraceStep)
    /\ \A p \in Pids : WF_tracerVars(pc # "startup" /\ ThreadStep(p) /\ UNCHANGED straceVars)

-----------------------------------------------------------------------------
TracerTypeOK ==
    /\ opt \in Scenarios /\ status.pid \in Pids \cup {0}
    /\ pc \in {"startup", "wait", "handle", "dump", "restart", "cleanup", "detach",
              "detach_wait", "aborted", "done"}
    /\ out.nprocs = Cardinality({i \in DOMAIN out.tcbtab : InUse(out, i)})
    /\ tcp \in 0..(Len(out.tcbtab) + 1)

\* An execve of another thread has ended the leader p while strace was handling
\* a stop of the leader, and has stopped under the same pid: what strace reads and
\* restarts is the new program, and it will not see the stop for execve.
Overtaken(p) == task[p].unseen \/ (status.pid = p /\ task[p].report = "execve")
NoneOvertaken == \A p \in Pids : ~Overtaken(p)

\* At a stop for a system call the thread and its tcb agree on whether it is
\* the entry or the exit of a call, and on which call.  (The comment on
\* TCB_INSYSCALL in defs.h: the contrary "is never observed in trace_syscall()".)
InSync ==
    Handling({"syscall"}) /\ Readable /\ ~Overtaken(status.pid) =>
        LET t == task[status.pid] IN
        /\ ("INSYSCALL" \in Tcb.flags) = ~t.incall
        /\ ~t.incall => Tcb.call = t.call

\* An execve has replaced thread p by the leader, and strace has not taken, or never
\* takes, the report of it.
TakenOver(p) ==
    LET l == task[p].leader IN
    /\ l # p /\ task[p].state = "gone"
    /\ \/ task[l].oldpid = p /\ (task[l].report = "execve" \/ ~Alive(l))
       \/ task[l].unseen

\* When strace waits, every tcb is that of a thread it traces or of one that an
\* execve has replaced, and every thread whose reports are all taken has a tcb.
TableIsCurrent ==
    pc = "wait" =>
        /\ \A i \in DOMAIN out.tcbtab : InUse(out, i) =>
              LET p == out.tcbtab[i].pid IN
              (task[p].traced /\ task[p].state # "gone") \/ TakenOver(p)
        /\ \A p \in Pids :
              task[p].traced /\ Alive(p) /\ task[p].report = Nothing /\ ~task[p].unseen
                  => pid2tcb(out, p) # {}

AllLines == UNION {{<<f, k>> : k \in DOMAIN out.log[f]} : f \in Files}
LineAt(l) == out.log[l[1]][l[2]]

\* A result ends the line of its call, or a line that resumes it after the line
\* of the call was left unfinished; and no call has two results.
ResultsPaired == NoneOvertaken =>
    /\ \A l \in AllLines : LineAt(l).ends = "result" =>
        \/ LineAt(l).begins = "call"
        \/ /\ LineAt(l).begins = "resumed"
           /\ \/ \E m \in AllLines :
                    /\ LineAt(m).begins = "call" /\ LineAt(m).call = LineAt(l).call
                    /\ LineAt(m).ends \in {"unfinished", "pid changed"}
                    /\ m[1] = l[1] => m[2] < l[2]
              \/ \E f \in Files \ {l[1]} :
                    out.line[f] = [begins |-> "call", call |-> LineAt(l).call]
    /\ \A l, m \in AllLines :
        LineAt(l).ends = "result" /\ LineAt(m).ends = "result"
        /\ LineAt(l).call = LineAt(m).call => l = m

(* conv_micro.py reads the files of -ff: parse_line takes a complete call, skips
   a line with one of a few texts, and raises for any other. *)
Parsed(line) == line.begins = "call" /\ line.ends = "result"
Skipped(line) == line.ends \in {"exited", "signal", "unfinished", "unavailable", "no such process"}

\* Unless it raises, the reader gives every call the line of its own in the
\* stack file, and every write the bytes of its own: it takes the next line of
\* the stack file, and of the dump file, for each line it can parse.  A stack
\* file is a FILE* that abort() does not flush (strace.c:555-564, 688): any number
\* of its lines may be left of it, and the reader raises at the first one missing.
ConvAligned ==
    opt.ff /\ NoneOvertaken => \A f \in Files :
        LET log == out.log[f]
            isDumped(line) == \E k \in DOMAIN out.dump[f] : out.dump[f][k] = line.call
            raises == \E k \in DOMAIN log : ~Parsed(log[k]) /\ ~Skipped(log[k])
            calls(k) == {j \in 1..k : Parsed(log[j])}
            writes(k) == {j \in calls(k) : isDumped(log[j])}
            size == Len(out.stack[f])
            lengths == IF pc = "aborted" THEN 0..size ELSE {size}
            missing(lines, length) == pc = "aborted" /\ ~(Cardinality(lines) <= length)
            next(file, length, lines, call) ==
                LET n == Cardinality(lines) IN n <= length /\ file[n] = call
        IN  raises \/ \A length \in lengths : \A k \in DOMAIN log : Parsed(log[k]) =>
                \/ missing(calls(k), length)
                \/ /\ next(out.stack[f], length, calls(k), log[k].call)
                   /\ isDumped(log[k]) =>
                         next(out.dump[f], Len(out.dump[f]), writes(k), log[k].call)

\* The table of tcbs is the one of TcbTable.
tcbPids == [i \in DOMAIN out.tcbtab |-> out.tcbtab[i].pid]
Table == INSTANCE TcbTable WITH tcbtab <- tcbPids, nprocs <- out.nprocs
ImplementsTable == Table!TableSpec

\* When strace has exited after an interrupt, the threads it has detached from
\* are not stopped and no SIGSTOP of its own is left to stop them (the comment in
\* detach()), if no other thread than the leader has called execve.
DetachedRun ==
    pc = "done" /\ opt.seize =>
        \A p \in Pids : Alive(p) /\ task[p].oldpid \in {0, p} =>
            "sigstop" \notin task[p].pending /\ (Stopped(p) => task[p].traced)

\* strace returns, unless it is interrupted: every traced thread is restarted or
\* has ended, and the end of each is noticed.
Finishes == <>(interrupted \/ pc \in {"done", "aborted"})

\* An interrupt ends the trace: strace detaches from all threads (strace.1).
InterruptDetaches == interrupted ~> pc = "done"

\* strace survives the death of what it traces at any time: "we can let this
\* process to report its death to us normally" (the comment in trace()).
NeverAborts == pc # "aborted"
=============================================================================
