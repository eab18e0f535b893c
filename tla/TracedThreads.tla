---------------------------- MODULE TracedThreads ----------------------------
(***************************************************************************)
(* What strace traces: threads that make system calls, and the part of the *)
(* kernel's ptrace that src/strace-4.8/strace.c relies on.  None of it is  *)
(* code of the repository.                                                 *)
(*                                                                         *)
(* A traced thread stops at the entry and at the exit of every system      *)
(* call, after clone and execve, for a signal, and once when the trace     *)
(* of it starts.  A stop, and the end of a thread, is a report that wait4  *)
(* returns once.  The end of a thread can come at any time, also between   *)
(* wait4 and the calls of strace that need the thread to be stopped; they  *)
(* then fail with ESRCH.                                                   *)
(*                                                                         *)
(* The first thread of a process is its leader.  Its end is not reported   *)
(* before all other threads of the process are gone.  When another thread  *)
(* calls execve, the others end, the leader without a report, and the      *)
(* caller goes on with the pid of the leader.                              *)
(***************************************************************************)
EXTENDS TraceParameters

\* The first thread
ASSUME ThreadsAssumption == 1 \in Pids

AllKinds == {"write", "other", "filtered", "clone", "fork", "execve",
             "exit", "exit_group"}

VARIABLES
    task,   \* per pid: the thread
    seize,  \* was it attached to with PTRACE_SEIZE?
    left    \* bound: the calls but for exits, signals and kills left, and the
            \* kinds of calls that threads make

kernelVars == <<task, seize, left>>

NoCall == [pid |-> 0, n |-> 0]
Nothing == "none"

\* state: free, run, stop, dead (a zombie), gone (also: never there again);
\* incall: between the entry and the exit of call, which is of some kind;
\* calls: how many calls so far;
\* report: what wait4 will return, and for execve the old pid;
\* pending: SIGSTOP and fatal signals sent and not delivered;
\* syscalls: does it stop at system calls, or was it restarted with PTRACE_CONT?
\* unseen: has strace let go on, at its stop, an execve wait4 has not returned?
\* launch: is it the child of strace, before it executes the program?
FreeTask == [state |-> "free", leader |-> 0, traced |-> FALSE, incall |-> FALSE,
             kind |-> Nothing, call |-> NoCall, calls |-> 0, report |-> Nothing,
             oldpid |-> 0, pending |-> {}, syscalls |-> FALSE, launch |-> FALSE,
             unseen |-> FALSE]

Group(p) == {q \in Pids : /\ task[q].leader = task[p].leader
                          /\ task[q].state \notin {"free", "gone"}}
Leader(p) == task[p].leader = p
Stopped(p) == task[p].state = "stop"
Alive(p) == task[p].state \in {"run", "stop"}
Ended == {"exited", "killed"}

\* wait4 can return the report of p.
Waitable(p) ==
    /\ task[p].traced /\ task[p].report # Nothing
    /\ task[p].state = "dead" /\ Leader(p) => Group(p) = {p}

StopWith(t, report) == [t EXCEPT !.state = "stop", !.report = report]

\* All threads of p's process that have not ended yet end.  Nobody waits for
\* an untraced thread here.
EndGroup(p, report) ==
    [q \in Pids |->
        IF q \notin Group(p) THEN task[q]
        ELSE IF ~task[q].traced THEN [task[q] EXCEPT !.state = "gone"]
        ELSE [task[q] EXCEPT
                !.state = "dead", !.incall = FALSE,
                !.report = IF task[q].state = "dead" /\ @ # Nothing THEN @ ELSE report]]

-----------------------------------------------------------------------------
(* What threads do, one action for each event they report                  *)

\* Threads that strace has detached from are of no interest here.
Working(p) == task[p].state = "run" /\ task[p].traced /\ task[p].incall

\* A traced thread that was restarted with PTRACE_SYSCALL and has no signal
\* to take first makes a system call.
EnterCall(p, kind) ==
    /\ task[p].state = "run" /\ task[p].syscalls
    /\ ~task[p].incall /\ task[p].pending = {}
    /\ task[p].launch => kind \in {"other", "execve", "exit_group"}
    /\ \/ kind \in {"exit", "exit_group"} /\ UNCHANGED left
       \/ /\ kind \notin {"exit", "exit_group"} /\ left.calls > 0
          /\ left' = [left EXCEPT !.calls = @ - 1]
    /\ task' = [task EXCEPT ![p] =
                   [StopWith(task[p], "syscall") EXCEPT
                       !.incall = TRUE, !.kind = kind, !.calls = @ + 1,
                       !.call = [pid |-> p, n |-> task[p].calls + 1]]]
    /\ UNCHANGED seize

\* The call is done: a stop, unless the thread was restarted with PTRACE_CONT.
ExitCall(p) ==
    /\ Working(p) /\ task[p].kind \in {"write", "other", "filtered"}
    /\ task' = [task EXCEPT ![p] =
                   [(IF task[p].syscalls THEN StopWith(@, "syscall") ELSE @)
                    EXCEPT !.incall = FALSE]]
    /\ UNCHANGED <<seize, left>>

\* A new thread or process, which is traced too; both of them stop, and then
\* the call goes on.  With no pid left it fails.
Clone(p) ==
    /\ Working(p) /\ task[p].kind \in {"clone", "fork"}
    /\ \E q \in Pids :
        /\ task[q].state = "free"
        /\ \A r \in Pids : task[r].state = "free" => q <= r
        /\ task' = [task EXCEPT
              ![p] = [StopWith(@, "clone") EXCEPT !.kind = "other"],
              ![q] = [StopWith(FreeTask, IF seize THEN "start" ELSE "sigstop")
                      EXCEPT !.leader = IF task[p].kind = "fork" THEN q ELSE task[p].leader,
                             !.traced = TRUE]]
    /\ UNCHANGED <<seize, left>>

CloneFails(p) ==
    /\ Working(p) /\ task[p].kind \in {"clone", "fork"}
    /\ \A q \in Pids : task[q].state # "free"
    /\ task' = [task EXCEPT ![p].kind = "other"]
    /\ UNCHANGED <<seize, left>>

Exit(p) ==
    /\ Working(p) /\ task[p].kind = "exit"
    /\ task' = [task EXCEPT ![p] =
                   [@ EXCEPT !.state = "dead", !.incall = FALSE, !.report = "exited"]]
    /\ UNCHANGED <<seize, left>>

ExitGroup(p) ==
    /\ Working(p) /\ task[p].kind = "exit_group"
    /\ task' = EndGroup(p, "exited")
    /\ UNCHANGED <<seize, left>>

\* execve ends the other threads, the leader without a report ...
ExecveKills(p) ==
    /\ Working(p) /\ task[p].kind = "execve"
    /\ \E q \in Group(p) \ {p} : Alive(q)
    /\ task' = [q \in Pids |->
           IF q = p THEN task[p]
           ELSE IF q = task[p].leader
           THEN [task[q] EXCEPT !.state = "dead", !.incall = FALSE, !.report = Nothing]
           ELSE EndGroup(p, "killed")[q]]
    /\ UNCHANGED <<seize, left>>

\* ... and when they are gone it starts the program under the leader's pid.
Execve(p) ==
    LET leader == task[p].leader
        new == [StopWith(task[p], "execve") EXCEPT
                   !.kind = "other", !.oldpid = p, !.launch = FALSE,
                   !.unseen = task[p].unseen \/ task[leader].unseen,
                   !.calls = IF leader = p THEN @ ELSE @ + task[leader].calls]
    IN  /\ Working(p) /\ task[p].kind = "execve"
        /\ Group(p) \subseteq {p, leader}
        /\ leader = p \/ task[leader].state = "dead"
        /\ task' = [task EXCEPT ![p].state = "gone", ![p].traced = FALSE,
                                ![leader] = new]
        /\ UNCHANGED <<seize, left>>

\* A signal that has a handler, or is ignored, is delivered.
Signal(p) ==
    /\ left.signals > 0
    /\ task[p].state = "run" /\ task[p].traced /\ ~task[p].incall
    /\ task[p].pending = {}
    /\ task' = [task EXCEPT ![p] = StopWith(@, "signal")]
    /\ left' = [left EXCEPT !.signals = @ - 1]
    /\ UNCHANGED seize

\* A signal strace sent is delivered; a fatal one stops the thread first, for
\* the tracer to decide.  Without a tracer the signal has its effect.
SignalOfStrace(p) ==
    /\ task[p].state = "run" /\ ~task[p].incall
    /\ \E sig \in task[p].pending :
        /\ sig = "sigstop" => task[p].pending = {"sigstop"}
        /\ task' = IF task[p].traced
                   THEN [task EXCEPT ![p] =
                           [StopWith(task[p], sig) EXCEPT !.pending = @ \ {sig}]]
                   ELSE IF sig = "sigstop"
                   THEN [task EXCEPT ![p] = [@ EXCEPT !.state = "stop", !.pending = {}]]
                   ELSE EndGroup(p, "killed")
    /\ UNCHANGED <<seize, left>>

\* SIGKILL for the process of p, in whatever state its threads are.
Kill(p) ==
    /\ left.kills > 0
    /\ \E q \in Group(p) : Alive(q)
    /\ task' = EndGroup(p, "killed")
    /\ left' = [left EXCEPT !.kills = @ - 1]
    /\ UNCHANGED seize

\* Threads go on by themselves; signals and kills are the environment's.
ThreadStep(p) ==
    \/ \E kind \in left.kinds : EnterCall(p, kind)
    \/ ExitCall(p) \/ Clone(p) \/ CloneFails(p)
    \/ Exit(p) \/ ExitGroup(p)
    \/ ExecveKills(p) \/ Execve(p)
    \/ SignalOfStrace(p)

KernelStep == \E p \in Pids : ThreadStep(p) \/ Signal(p) \/ Kill(p)

-----------------------------------------------------------------------------
(* The calls of strace                                                     *)

\* ptrace(PTRACE_SYSCALL) or ptrace(PTRACE_CONT) of a stopped thread, which may
\* have stopped again, for an execve of another thread, since wait4 returned.
Restarted(p, syscalls) ==
    [task EXCEPT ![p].state = "run", ![p].syscalls = syscalls,
                 ![p].report = Nothing,
                 ![p].unseen = @ \/ task[p].report = "execve"]

\* ptrace(PTRACE_DETACH)
Detached(p) ==
    [task EXCEPT ![p].state = "run", ![p].syscalls = FALSE,
                 ![p].traced = FALSE, ![p].report = Nothing,
                 ![p].unseen = @ \/ task[p].report = "execve"]

\* wait4 has returned the report of p; a thread that has ended is gone.
Reaped(p) ==
    [task EXCEPT ![p].report = Nothing,
                 ![p].state = IF @ = "dead" THEN "gone" ELSE @]
=============================================================================
