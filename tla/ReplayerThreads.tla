--------------------------- MODULE ReplayerThreads ---------------------------
(***************************************************************************)
(* The threads of src/simulate_crashes.py.  The main thread answers        *)
(* runprint commands in listener_loop: a crash specification (a script)    *)
(* replays crash states, each into a directory named by its replay_count,  *)
(* and queues them; the worker threads of MultiThreadedReplayer run the    *)
(* checker tool on the directories.  When the script has ended the main    *)
(* thread joins the queue and writes the outputs of the checkers.          *)
(*                                                                         *)
(* A crash state is named by the run it was asked for in and its           *)
(* replay_count; what it contains is the business of other modules.        *)
(***************************************************************************)
EXTENDS Integers, Sequences, FiniteSets

CONSTANTS
    Workers,        \* the worker threads, replayer_threads + 1 of them
    MaxReplays,     \* bound: replays of a script
    MaxRuns,        \* bound: runprint commands
    CheckerMayFail  \* may the checker tool exit with an error?

ASSUME WorkersAssumption == IsFiniteSet(Workers)
ASSUME ReplaysAssumption == MaxReplays \in Nat /\ MaxRuns \in Nat
ASSUME CheckerAssumption == CheckerMayFail \in BOOLEAN

VARIABLES
    main,              \* what the main thread is doing
    auto_run,          \* command line: one run of the script, then exit
    run,               \* number of runprint commands so far
    replay_count,      \* replays of this run
    queue,             \* tasks no worker has taken
    unfinished_tasks,  \* of queue: tasks put and not yet task_done
    worker,            \* per worker: what it is doing, with which task
    snapshot,          \* per replay_count: the crash state in its directory
    short_outputs,     \* per replay_count: the output of the checker
    replay_output      \* the outputs written for the user

vars == <<main, auto_run, run, replay_count, queue, unfinished_tasks, worker,
          snapshot, short_outputs, replay_output>>

Counts == 0..(MaxReplays - 1)
Task == [run: 1..MaxRuns, replay_count: Counts]
None == [run |-> 0, replay_count |-> 0]

\* An output: the task it is about, and the crash state the checker saw.
Output == [task: Task, checked: Task \cup {None}]
NoOutput == [task |-> None, checked |-> None]

Busy == {"checking", "removing", "finishing"}
BusyWorkers == {w \in Workers : worker[w].pc # "waiting"}
Idle == [pc |-> "waiting", task |-> None]

\* Between runs: the command has been answered.
Answered == {"listening", "finished"}

-----------------------------------------------------------------------------
(* The main thread                                                         *)

\* listener_loop up to exec, with MultiThreadedReplayer.reset; the conjunct on
\* queue is reset's assertion.  short_outputs is not reset.
Runprint ==
    /\ main = "listening" /\ run < MaxRuns
    /\ queue = << >>
    /\ main' = "script"
    /\ run' = run + 1
    /\ replay_count' = 0
    /\ replay_output' = {}
    /\ snapshot' = [n \in Counts |-> None]
    /\ UNCHANGED <<auto_run, queue, unfinished_tasks, worker, short_outputs>>

\* dops_replay, first half: the crash state is replayed into its directory.
ReplayDiskOps ==
    /\ main = "script" /\ replay_count < MaxReplays
    /\ main' = "replayed"
    /\ snapshot' = [snapshot EXCEPT ![replay_count] =
                        [run |-> run, replay_count |-> replay_count]]
    /\ UNCHANGED <<auto_run, run, replay_count, queue, unfinished_tasks, worker,
                   short_outputs, replay_output>>

\* dops_replay, second half: queue.put.
Put ==
    /\ main = "replayed"
    /\ main' = "script"
    /\ queue' = Append(queue, [run |-> run, replay_count |-> replay_count])
    /\ unfinished_tasks' = unfinished_tasks + 1
    /\ replay_count' = replay_count + 1
    /\ UNCHANGED <<auto_run, run, worker, snapshot, short_outputs, replay_output>>

\* The script ends, or raises an exception that listener_loop reports.
ScriptEnds ==
    /\ main = "script"
    /\ main' = "joining"
    /\ UNCHANGED <<auto_run, run, replay_count, queue, unfinished_tasks, worker,
                   snapshot, short_outputs, replay_output>>

\* With auto_run nothing catches the exception, and the process exits.
ScriptRaises ==
    /\ main = "script" /\ auto_run
    /\ main' = "aborted"
    /\ UNCHANGED <<auto_run, run, replay_count, queue, unfinished_tasks, worker,
                   snapshot, short_outputs, replay_output>>

\* wait_and_write_outputs without queue.join().
WriteOutputsUnjoined ==
    /\ main = "joining"
    /\ main' = IF auto_run THEN "finished" ELSE "listening"
    /\ replay_output' = {short_outputs[n] : n \in Counts} \ {NoOutput}
    /\ UNCHANGED <<auto_run, run, replay_count, queue, unfinished_tasks, worker,
                   snapshot, short_outputs>>

\* wait_and_write_outputs: join waits until no task is unfinished.
WriteOutputs ==
    /\ main = "joining" /\ unfinished_tasks = 0
    /\ main' = IF auto_run THEN "finished" ELSE "listening"
    /\ replay_output' = {short_outputs[n] : n \in Counts} \ {NoOutput}
    /\ UNCHANGED <<auto_run, run, replay_count, queue, unfinished_tasks, worker,
                   snapshot, short_outputs>>

-----------------------------------------------------------------------------
(* A worker: MultiThreadedReplayer.run.  The workers are daemons, they stop *)
(* with the main thread.                                                   *)

Running == main \notin {"finished", "aborted"}

Get(w) ==
    /\ Running /\ worker[w].pc = "waiting" /\ queue # << >>
    /\ worker' = [worker EXCEPT ![w] = [pc |-> "checking", task |-> Head(queue)]]
    /\ queue' = Tail(queue)
    /\ UNCHANGED <<main, auto_run, run, replay_count, unfinished_tasks, snapshot,
                   short_outputs, replay_output>>

\* The checker tool looks at the directory of the task.
Check(w) ==
    LET task == worker[w].task IN
    /\ Running /\ worker[w].pc = "checking"
    /\ short_outputs' = [short_outputs EXCEPT ![task.replay_count] =
                            [task |-> task, checked |-> snapshot[task.replay_count]]]
    /\ worker' = [worker EXCEPT ![w].pc = "removing"]
    /\ UNCHANGED <<main, auto_run, run, replay_count, queue, unfinished_tasks,
                   snapshot, replay_output>>

\* check_output raises when the checker tool exits with an error: the thread
\* dies, and nobody calls task_done for its task.
CheckerFails(w) ==
    /\ Running /\ CheckerMayFail /\ worker[w].pc = "checking"
    /\ worker' = [worker EXCEPT ![w].pc = "dead"]
    /\ UNCHANGED <<main, auto_run, run, replay_count, queue, unfinished_tasks,
                   snapshot, short_outputs, replay_output>>

\* rm -rf of the directory named by the main thread's replay_count.
RemoveDirOfMain(w) ==
    /\ Running /\ worker[w].pc = "removing"
    /\ snapshot' = [snapshot EXCEPT ![IF replay_count \in Counts THEN replay_count
                                      ELSE worker[w].task.replay_count] = None]
    /\ worker' = [worker EXCEPT ![w].pc = "finishing"]
    /\ UNCHANGED <<main, auto_run, run, replay_count, queue, unfinished_tasks,
                   short_outputs, replay_output>>

\* rm -rf of the directory of the task.
RemoveDir(w) ==
    /\ Running /\ worker[w].pc = "removing"
    /\ snapshot' = [snapshot EXCEPT ![worker[w].task.replay_count] = None]
    /\ worker' = [worker EXCEPT ![w].pc = "finishing"]
    /\ UNCHANGED <<main, auto_run, run, replay_count, queue, unfinished_tasks,
                   short_outputs, replay_output>>

TaskDoneForgotten(w) ==
    /\ Running /\ worker[w].pc = "finishing"
    /\ worker' = [worker EXCEPT ![w] = Idle]
    /\ UNCHANGED <<main, auto_run, run, replay_count, queue, unfinished_tasks,
                   snapshot, short_outputs, replay_output>>

TaskDone(w) ==
    /\ Running /\ worker[w].pc = "finishing"
    /\ unfinished_tasks' = unfinished_tasks - 1
    /\ worker' = [worker EXCEPT ![w] = Idle]
    /\ UNCHANGED <<main, auto_run, run, replay_count, queue, snapshot,
                   short_outputs, replay_output>>
-----------------------------------------------------------------------------
Init ==
    /\ main = "listening"
    /\ auto_run \in BOOLEAN
    /\ run = 0 /\ replay_count = 0
    /\ queue = << >> /\ unfinished_tasks = 0
    /\ worker = [w \in Workers |-> Idle]
    /\ snapshot = [n \in Counts |-> None]
    /\ short_outputs = [n \in Counts |-> NoOutput]
    /\ replay_output = {}

MainStep == ReplayDiskOps \/ Put \/ ScriptEnds \/ ScriptRaises \/ WriteOutputs

WorkerStep(w) ==
    Get(w) \/ Check(w) \/ CheckerFails(w) \/ RemoveDir(w) \/ TaskDone(w)

Next == Runprint \/ MainStep \/ \E w \in Workers : WorkerStep(w)

Spec == Init /\ [][Next]_vars

\* The threads are scheduled; a specification is a script that ends.  Nobody
\* has to give a runprint command.
FairSpec == Spec /\ WF_vars(MainStep) /\ \A w \in Workers : WF_vars(WorkerStep(w))

-----------------------------------------------------------------------------
(* Properties                                                              *)

\* Type invariant.
ThreadsTypeOK ==
    /\ main \in {"script", "replayed", "joining", "aborted"} \cup Answered
    /\ auto_run \in BOOLEAN
    /\ run \in 0..MaxRuns /\ replay_count \in 0..MaxReplays
    /\ queue \in Seq(Task)
    /\ unfinished_tasks \in Nat
    /\ worker \in [Workers -> [pc: {"waiting", "dead"} \cup Busy, task: Task \cup {None}]]
    /\ snapshot \in [Counts -> Task \cup {None}]
    /\ short_outputs \in [Counts -> Output \cup {NoOutput}]
    /\ replay_output \subseteq Output

\* The counter that the join waits for counts exactly the tasks that are in
\* the queue or with a worker, also those whose worker has died
\* (simulate_crashes.py:69-73, 82, 93).
UnfinishedExact == unfinished_tasks = Len(queue) + Cardinality(BusyWorkers)

\* Every checker has looked at the crash state its output is about: nobody has
\* removed or overwritten the directory before, and no directory of another
\* run was taken for it (simulate_crashes.py:31, 57, 67, 76, 86).
ChecksOwnState ==
    \A n \in Counts : short_outputs[n].checked = short_outputs[n].task

\* When a command has been answered nothing is going on: the queue is empty, as
\* reset asserts (simulate_crashes.py:88), no live worker holds a task, and
\* all directories of live workers' tasks are gone, so that the next reset
\* removes nothing that somebody is using.
QuietBetweenRuns ==
    main \in Answered =>
        /\ queue = << >>
        /\ BusyWorkers = {}
        /\ \A n \in Counts : snapshot[n] = None

\* The answer has an output for every crash state that the script replayed
\* (simulate_crashes.py:90-96).
RunReported ==
    main \in Answered =>
        \A n \in 0..(replay_count - 1) :
            \E out \in replay_output : out.task = [run |-> run, replay_count |-> n]

\* Every runprint command is answered, unless the process exits (auto_run):
\* the first two tabs "will be filled up" (README.md:37).
RunprintAnswered == (main = "script") ~> (main \in Answered \cup {"aborted"})

\* The same, as long as every checker exits with 0: no put without task_done,
\* no task that stays in the queue, no join that misses the last task_done
\* (simulate_crashes.py:69-73, 82, 93).
AnsweredUnlessDead ==
    [](\A w \in Workers : worker[w].pc # "dead") => RunprintAnswered
=============================================================================
