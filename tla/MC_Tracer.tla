------------------------------ MODULE MC_Tracer ------------------------------
(* Instance of Tracer: three pids and a few calls, signals and kills for     *)
(* each way of running strace.                                               *)
EXTENDS Tracer

\* strace -ff -o FILE PROG, which records a workload.
Record ==
    [ff |-> TRUE, b |-> FALSE, child |-> TRUE, threads |-> 1, seize |-> TRUE,
     interactive |-> FALSE,
     left |-> [calls |-> 3, signals |-> 0, kills |-> 1,
               kinds |-> {"write", "clone", "execve", "exit", "exit_group"}]]

\* The same with -b execve.
Launch ==
    [Record EXCEPT !.b = TRUE, !.left.kills = 0,
                   !.left.kinds = {"fork", "execve", "exit_group"}]

\* strace -f PROG, which can be interrupted.
Watch ==
    [Record EXCEPT !.ff = FALSE, !.interactive = TRUE,
                   !.left = [calls |-> 2, signals |-> 1, kills |-> 1,
                             kinds |-> {"other", "fork", "execve", "exit_group"}]]

\* strace -f -p PID on a process with two threads, one of which may call execve.
Attach ==
    [Watch EXCEPT !.child = FALSE, !.threads = 2, !.interactive = FALSE,
                  !.left = [calls |-> 2, signals |-> 0, kills |-> 1,
                            kinds |-> {"other", "execve", "exit"}]]

\* The same, interrupted, on a kernel with and without PTRACE_SEIZE.
Detaching ==
    {[Attach EXCEPT !.interactive = TRUE, !.seize = seizes,
                    !.left = [calls |-> 1, signals |-> 1, kills |-> 0,
                              kinds |-> {"filtered", "execve", "exit"}]]
       : seizes \in BOOLEAN}

\* -ff -p PID, and a process with three threads, when there is no pid left.
AttachFiles ==
    [Attach EXCEPT !.ff = TRUE, !.left.calls = 1,
                   !.left.kinds = {"filtered", "execve", "exit"}]
Crowded ==
    [AttachFiles EXCEPT !.threads = 3, !.left.kills = 0,
                        !.left.kinds = {"clone", "exit_group"}]

AllScenarios ==
    {Record, Launch, Watch, Attach, AttachFiles, Crowded} \cup Detaching

SmallPids == 1..3
=============================================================================
