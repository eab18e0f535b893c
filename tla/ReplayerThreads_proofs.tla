----------------------- MODULE ReplayerThreads_proofs -----------------------
(***************************************************************************)
(* Safety of the threads of src/simulate_crashes.py, for every number of   *)
(* workers, replays and runs, and for checkers that may fail.              *)
(***************************************************************************)
EXTENDS ReplayerThreads, FiniteSetTheorems, TLAPS

\* The tasks that have been put: in the queue, or with a worker that has not
\* removed their directory yet (or has died).
Queued(n) == \E k \in 1..Len(queue) : queue[k].replay_count = n
Holds(w) == worker[w].pc \in {"checking", "removing", "dead"}
Held(n) == \E w \in Workers : Holds(w) /\ worker[w].task.replay_count = n

\* They are tasks of this run, and have been counted.
OfThisRun(task) ==
    task \in Task /\ task.run = run /\ task.replay_count < replay_count

TasksOfThisRun ==
    /\ \A k \in 1..Len(queue) : OfThisRun(queue[k])
    /\ \A w \in BusyWorkers : OfThisRun(worker[w].task)

\* No two of them have the same directory.
Separate ==
    /\ \A j, k \in 1..Len(queue) :
          queue[j].replay_count = queue[k].replay_count => j = k
    /\ \A k \in 1..Len(queue), w \in BusyWorkers :
          queue[k].replay_count # worker[w].task.replay_count
    /\ \A v, w \in BusyWorkers :
          worker[v].task.replay_count = worker[w].task.replay_count => v = w

\* A directory holds the crash state of the task that is to be checked there,
\* and nothing is left over from other tasks.
SnapshotsKept ==
    /\ \A k \in 1..Len(queue) : snapshot[queue[k].replay_count] = queue[k]
    /\ \A w \in Workers : worker[w].pc = "checking" =>
          snapshot[worker[w].task.replay_count] = worker[w].task
    /\ \A n \in Counts : snapshot[n] # None =>
          Queued(n) \/ Held(n) \/ (main = "replayed" /\ n = replay_count)

\* A crash state has just been replayed and will be put.
JustReplayed ==
    main = "replayed" =>
        /\ replay_count < MaxReplays
        /\ snapshot[replay_count] = [run |-> run, replay_count |-> replay_count]

\* What has been put is waiting for its check or has an output.
PutOrReported ==
    \A n \in Counts : n < replay_count =>
        \/ Queued(n)
        \/ \E w \in Workers : /\ worker[w].pc \in {"checking", "dead"}
                              /\ worker[w].task.replay_count = n
        \/ short_outputs[n].task = [run |-> run, replay_count |-> n]

\* Before the first command nothing has been replayed.
RunsCounted == run > 0 \/ (main = "listening" /\ replay_count = 0)

JoinedBeforeAnswer ==
    main \in Answered =>
        /\ unfinished_tasks = 0
        /\ replay_output = {short_outputs[n] : n \in Counts} \ {NoOutput}

ThreadsInv ==
    /\ ThreadsTypeOK /\ UnfinishedExact
    /\ TasksOfThisRun /\ Separate /\ SnapshotsKept /\ JustReplayed
    /\ PutOrReported /\ RunsCounted /\ JoinedBeforeAnswer /\ ChecksOwnState

-----------------------------------------------------------------------------
(* The counter                                                             *)

LEMMA BusyFinite == IsFiniteSet(BusyWorkers) /\ Cardinality(BusyWorkers) \in Nat
  BY WorkersAssumption, FS_Subset, FS_CardinalityType DEF BusyWorkers

\* When no task is unfinished, nobody has one.
LEMMA NobodyBusy ==
    ASSUME ThreadsTypeOK, UnfinishedExact, unfinished_tasks = 0
    PROVE  queue = << >> /\ BusyWorkers = {}
  <1>1. Len(queue) = 0 /\ Cardinality(BusyWorkers) = 0
    BY BusyFinite DEF ThreadsTypeOK, UnfinishedExact
  <1>. QED BY <1>1, BusyFinite, FS_EmptySet DEF ThreadsTypeOK

LEMMA AnsweredQuiet ==
    ASSUME ThreadsInv, main \in Answered
    PROVE  queue = << >> /\ BusyWorkers = {}
  BY NobodyBusy DEF ThreadsInv, JoinedBeforeAnswer

LEMMA InitInv == Init => ThreadsInv
  <1>. SUFFICES ASSUME Init PROVE ThreadsInv
    OBVIOUS
  <1>. USE DEF Init
  <1>1. BusyWorkers = {} /\ Len(queue) = 0
    BY DEF BusyWorkers, Idle
  <1>2. UnfinishedExact
    BY <1>1, FS_EmptySet DEF UnfinishedExact
  <1>3. ThreadsTypeOK
    BY ReplaysAssumption DEF ThreadsTypeOK, Answered, Counts, Idle
  <1>4. TasksOfThisRun /\ Separate /\ JustReplayed /\ RunsCounted /\ ChecksOwnState
    BY <1>1 DEF TasksOfThisRun, Separate, JustReplayed, RunsCounted, ChecksOwnState, NoOutput
  <1>5. SnapshotsKept /\ PutOrReported
    BY <1>1, ReplaysAssumption DEF SnapshotsKept, PutOrReported, Idle, Counts
  <1>6. JoinedBeforeAnswer
    BY DEF JoinedBeforeAnswer
  <1>. QED BY <1>2, <1>3, <1>4, <1>5, <1>6 DEF ThreadsInv

-----------------------------------------------------------------------------
(* The steps of the main thread                                            *)

\* A new run: nothing is left of the last one.
LEMMA RunprintStep == ASSUME ThreadsInv, Runprint PROVE ThreadsInv'
  <1>. USE DEF Runprint
  <1>1. queue = << >> /\ BusyWorkers = {} /\ BusyWorkers' = {}
    BY AnsweredQuiet DEF Answered, BusyWorkers
  <1>2. ThreadsTypeOK'
    BY ReplaysAssumption DEF ThreadsInv, ThreadsTypeOK
  <1>3. UnfinishedExact'
    BY <1>1 DEF ThreadsInv, UnfinishedExact
  <1>4. /\ TasksOfThisRun' /\ Separate' /\ JustReplayed' /\ RunsCounted' /\ ChecksOwnState'
    BY <1>1 DEF ThreadsInv, ThreadsTypeOK, TasksOfThisRun, Separate, JustReplayed,
                RunsCounted, ChecksOwnState
  <1>5. SnapshotsKept'
    BY <1>1 DEF SnapshotsKept, BusyWorkers
  <1>6. PutOrReported' /\ JoinedBeforeAnswer'
    BY DEF PutOrReported, JoinedBeforeAnswer, Counts, Answered
  <1>. QED BY <1>2, <1>3, <1>4, <1>5, <1>6 DEF ThreadsInv

\* The next directory is that of no task.
LEMMA ReplayStep == ASSUME ThreadsInv, ReplayDiskOps PROVE ThreadsInv'
  <1>. USE DEF ReplayDiskOps
  <1>1. BusyWorkers' = BusyWorkers
    BY DEF BusyWorkers
  <1>2. replay_count \in Counts /\ [run |-> run, replay_count |-> replay_count] \in Task
    BY ReplaysAssumption DEF ThreadsInv, ThreadsTypeOK, Counts, Task, RunsCounted
  <1>3. ThreadsTypeOK'
    BY <1>2 DEF ThreadsInv, ThreadsTypeOK
  <1>4. UnfinishedExact' /\ TasksOfThisRun' /\ Separate' /\ RunsCounted' /\ ChecksOwnState'
    BY <1>1 DEF ThreadsInv, UnfinishedExact, TasksOfThisRun, Separate, OfThisRun,
                RunsCounted, ChecksOwnState
  <1>5. JustReplayed'
    BY <1>2 DEF ThreadsInv, ThreadsTypeOK, JustReplayed
  <1>6. \A n \in Counts : n # replay_count => snapshot'[n] = snapshot[n]
    BY DEF ThreadsInv, ThreadsTypeOK
  <1>7. /\ \A k \in 1..Len(queue) : queue[k].replay_count \in Counts \ {replay_count}
        /\ \A w \in BusyWorkers : worker[w].task.replay_count \in Counts \ {replay_count}
    BY <1>2 DEF ThreadsInv, TasksOfThisRun, OfThisRun, Task, Counts
  <1>8. SnapshotsKept'
    BY <1>6, <1>7 DEF ThreadsInv, SnapshotsKept, BusyWorkers, Queued, Held, Holds
  <1>9. PutOrReported'
    BY DEF ThreadsInv, PutOrReported, Queued
  <1>10. JoinedBeforeAnswer'
    BY DEF JoinedBeforeAnswer, Answered
  <1>. QED BY <1>3, <1>4, <1>5, <1>8, <1>9, <1>10 DEF ThreadsInv

LEMMA PutStep == ASSUME ThreadsInv, Put PROVE ThreadsInv'
  <1>. USE DEF Put
  <1>0. PICK task : task = [run |-> run, replay_count |-> replay_count]
    OBVIOUS
  <1>1. BusyWorkers' = BusyWorkers
    BY DEF BusyWorkers
  <1>2. replay_count \in Counts /\ task \in Task /\ snapshot[replay_count] = task
    BY <1>0, ReplaysAssumption DEF ThreadsInv, ThreadsTypeOK, Counts, Task, RunsCounted, JustReplayed
  <1>3. queue \in Seq(Task) /\ queue' = Append(queue, task) /\ unfinished_tasks \in Nat
    BY <1>0 DEF ThreadsInv, ThreadsTypeOK
  <1>4. /\ Len(queue) \in Nat /\ Len(queue') = Len(queue) + 1
        /\ \A k \in 1..Len(queue) : queue'[k] = queue[k]
        /\ queue'[Len(queue) + 1] = task
    BY <1>2, <1>3
  <1>5. ThreadsTypeOK'
    <2>1. queue' \in Seq(Task) /\ unfinished_tasks' \in Nat
      BY <1>2, <1>3
    <2>2. replay_count' \in 0..MaxReplays
      BY ReplaysAssumption DEF ThreadsInv, ThreadsTypeOK, JustReplayed
    <2>. QED BY <2>1, <2>2 DEF ThreadsInv, ThreadsTypeOK
  <1>6. UnfinishedExact'
    BY <1>1, <1>3, <1>4, BusyFinite DEF ThreadsInv, UnfinishedExact
  <1>7. task.run = run /\ task.replay_count = replay_count
    BY <1>0
  <1>8. replay_count \in Int /\ replay_count' = replay_count + 1
    BY <1>2 DEF Counts
  <1>9. TasksOfThisRun'
    BY <1>1, <1>2, <1>4, <1>7, <1>8 DEF ThreadsInv, TasksOfThisRun, OfThisRun, Task, Counts
  <1>10. /\ \A k \in 1..Len(queue) : queue[k].replay_count # replay_count
         /\ \A w \in BusyWorkers : worker[w].task.replay_count # replay_count
    BY <1>8 DEF ThreadsInv, TasksOfThisRun, OfThisRun, Task, Counts
  <1>11. Separate'
    BY <1>1, <1>4, <1>7, <1>10 DEF ThreadsInv, Separate
  <1>12. SnapshotsKept'
    BY <1>2, <1>4, <1>7 DEF ThreadsInv, SnapshotsKept, Queued, Held, Holds
  <1>13. PutOrReported'
    BY <1>4, <1>7, <1>8 DEF ThreadsInv, PutOrReported, Queued, Counts
  <1>14. JustReplayed' /\ RunsCounted' /\ ChecksOwnState' /\ JoinedBeforeAnswer'
    BY DEF ThreadsInv, JustReplayed, RunsCounted, ChecksOwnState, JoinedBeforeAnswer, Answered
  <1>. QED BY <1>5, <1>6, <1>9, <1>11, <1>12, <1>13, <1>14 DEF ThreadsInv

\* The script ends, in whatever way: no task is touched.
LEMMA ScriptStep == ASSUME ThreadsInv, ScriptEnds \/ ScriptRaises PROVE ThreadsInv'
  <1>. USE DEF ScriptEnds, ScriptRaises
  <1>1. BusyWorkers' = BusyWorkers
    BY DEF BusyWorkers
  <1>2. ThreadsTypeOK' /\ UnfinishedExact' /\ TasksOfThisRun' /\ Separate'
    <2>1. ThreadsTypeOK' /\ UnfinishedExact'
      BY <1>1 DEF ThreadsInv, ThreadsTypeOK, UnfinishedExact
    <2>2. TasksOfThisRun' /\ Separate'
      BY <1>1 DEF ThreadsInv, TasksOfThisRun, Separate, OfThisRun
    <2>. QED BY <2>1, <2>2
  <1>3. SnapshotsKept' /\ PutOrReported' /\ ChecksOwnState'
    BY DEF ThreadsInv, SnapshotsKept, PutOrReported, ChecksOwnState, Queued, Held, Holds
  <1>4. JustReplayed' /\ RunsCounted' /\ JoinedBeforeAnswer'
    BY DEF ThreadsInv, JustReplayed, RunsCounted, JoinedBeforeAnswer, Answered
  <1>. QED BY <1>2, <1>3, <1>4 DEF ThreadsInv

LEMMA WriteStep == ASSUME ThreadsInv, WriteOutputs PROVE ThreadsInv'
  <1>. USE DEF WriteOutputs
  <1>1. BusyWorkers' = BusyWorkers
    BY DEF BusyWorkers
  <1>2. ThreadsTypeOK'
    BY DEF ThreadsInv, ThreadsTypeOK, Answered
  <1>3. UnfinishedExact' /\ TasksOfThisRun' /\ Separate'
    BY <1>1 DEF ThreadsInv, UnfinishedExact, TasksOfThisRun, Separate, OfThisRun
  <1>4. SnapshotsKept' /\ PutOrReported' /\ ChecksOwnState'
    BY DEF ThreadsInv, SnapshotsKept, PutOrReported, ChecksOwnState, Queued, Held, Holds
  <1>5. JustReplayed' /\ RunsCounted' /\ JoinedBeforeAnswer'
    BY DEF ThreadsInv, JustReplayed, RunsCounted, JoinedBeforeAnswer, Answered
  <1>. QED BY <1>2, <1>3, <1>4, <1>5 DEF ThreadsInv

-----------------------------------------------------------------------------
(* The steps of a worker: the command has not been answered yet, because   *)
(* there is a task.                                                        *)

LEMMA NotAnswered ==
    ASSUME ThreadsInv, NEW w \in Workers,
           Get(w) \/ Check(w) \/ CheckerFails(w) \/ RemoveDir(w) \/ TaskDone(w)
    PROVE  main \notin Answered /\ main' = main
  <1>1. queue # << >> \/ w \in BusyWorkers
    BY DEF BusyWorkers, Get, Check, CheckerFails, RemoveDir, TaskDone
  <1>. QED BY <1>1, AnsweredQuiet DEF Get, Check, CheckerFails, RemoveDir, TaskDone

LEMMA GetStep ==
    ASSUME ThreadsInv, NEW w \in Workers, Get(w) PROVE ThreadsInv'
  <1>. USE DEF Get
  <1>1. PICK task : task = queue[1]
    OBVIOUS
  <1>2. /\ queue \in Seq(Task) /\ Len(queue) \in Nat \ {0} /\ queue' \in Seq(Task)
        /\ Len(queue') = Len(queue) - 1
        /\ \A k \in 1..Len(queue') : k + 1 \in 1..Len(queue) /\ queue'[k] = queue[k + 1]
        /\ task \in Task
    BY <1>1 DEF ThreadsInv, ThreadsTypeOK
  <1>3. /\ worker' = [worker EXCEPT ![w] = [pc |-> "checking", task |-> task]]
        /\ worker'[w] = [pc |-> "checking", task |-> task]
        /\ \A v \in Workers \ {w} : worker'[v] = worker[v]
    BY <1>1 DEF ThreadsInv, ThreadsTypeOK
  <1>4. w \notin BusyWorkers /\ BusyWorkers' = BusyWorkers \cup {w}
    BY <1>3 DEF BusyWorkers
  <1>5. ThreadsTypeOK'
    BY <1>2, <1>3 DEF ThreadsInv, ThreadsTypeOK, Busy
  <1>6. UnfinishedExact'
    <2>1. Cardinality(BusyWorkers') = Cardinality(BusyWorkers) + 1
      BY <1>4, BusyFinite, FS_AddElement
    <2>. QED BY <1>2, <2>1, BusyFinite DEF ThreadsInv, UnfinishedExact
  <1>7. TasksOfThisRun'
    BY <1>1, <1>2, <1>3, <1>4 DEF ThreadsInv, TasksOfThisRun, OfThisRun, BusyWorkers
  <1>8. Separate'
    <2>1. \A j, k \in 1..Len(queue') :
              queue'[j].replay_count = queue'[k].replay_count => j = k
      BY <1>2 DEF ThreadsInv, Separate
    <2>2. \A k \in 1..Len(queue') : queue'[k].replay_count # task.replay_count
      BY <1>1, <1>2 DEF ThreadsInv, Separate
    <2>3. \A v \in BusyWorkers : task.replay_count # worker[v].task.replay_count
      BY <1>1, <1>2 DEF ThreadsInv, Separate
    <2>4. \A k \in 1..Len(queue'), v \in BusyWorkers :
              queue'[k].replay_count # worker[v].task.replay_count
      BY <1>2 DEF ThreadsInv, Separate
    <2>. QED BY <1>3, <1>4, <2>1, <2>2, <2>3, <2>4 DEF ThreadsInv, Separate, BusyWorkers
  <1>9. \A n : Queued(n) => Queued(n)' \/ n = task.replay_count
    <2>. SUFFICES ASSUME NEW n, NEW k \in 1..Len(queue), queue[k].replay_count = n,
                         n # task.replay_count
                  PROVE  \E j \in 1..Len(queue') : queue'[j].replay_count = n
      BY DEF Queued
    <2>1. k # 1 /\ k - 1 \in 1..Len(queue') /\ (k - 1) + 1 = k
      BY <1>1, <1>2
    <2>. QED BY <1>2, <2>1
  <1>10. SnapshotsKept'
    <2>1. \A k \in 1..Len(queue') : snapshot[queue'[k].replay_count] = queue'[k]
      BY <1>2 DEF ThreadsInv, SnapshotsKept
    <2>2. \A v \in Workers : worker'[v].pc = "checking" =>
              snapshot[worker'[v].task.replay_count] = worker'[v].task
      BY <1>1, <1>2, <1>3 DEF ThreadsInv, SnapshotsKept
    <2>3. \A n : Held(n) => Held(n)'
      BY <1>3 DEF Held, Holds
    <2>4. Held(task.replay_count)'
      BY <1>3 DEF Held, Holds
    <2>. QED BY <1>9, <2>1, <2>2, <2>3, <2>4 DEF ThreadsInv, SnapshotsKept
  <1>11. PutOrReported'
    BY <1>3, <1>9 DEF ThreadsInv, PutOrReported
  <1>12. JustReplayed' /\ RunsCounted' /\ ChecksOwnState' /\ JoinedBeforeAnswer'
    BY NotAnswered DEF ThreadsInv, JustReplayed, RunsCounted, ChecksOwnState, JoinedBeforeAnswer
  <1>. QED BY <1>5, <1>6, <1>7, <1>8, <1>10, <1>11, <1>12 DEF ThreadsInv

\* What the steps of a worker with a task have in common: it goes on to pc.
LEMMA WorkerGoesOn ==
    ASSUME ThreadsTypeOK, NEW w \in Workers, NEW pc \in {"dead"} \cup Busy,
           worker[w].pc # "waiting", worker' = [worker EXCEPT ![w].pc = pc],
           queue' = queue, run' = run, replay_count' = replay_count
    PROVE  /\ worker' \in [Workers -> [pc: {"waiting", "dead"} \cup Busy,
                                        task: Task \cup {None}]]
           /\ worker'[w].pc = pc
           /\ \A v \in Workers : worker'[v].task = worker[v].task
           /\ \A v \in Workers \ {w} : worker'[v].pc = worker[v].pc
           /\ BusyWorkers' = BusyWorkers
           /\ TasksOfThisRun => TasksOfThisRun'
           /\ Separate => Separate'
           /\ \A n : Queued(n)' <=> Queued(n)
  <1>1. /\ worker' \in [Workers -> [pc: {"waiting", "dead"} \cup Busy, task: Task \cup {None}]]
        /\ worker'[w].pc = pc
        /\ \A v \in Workers : worker'[v].task = worker[v].task
        /\ \A v \in Workers \ {w} : worker'[v].pc = worker[v].pc
    BY DEF ThreadsTypeOK
  <1>2. BusyWorkers' = BusyWorkers /\ BusyWorkers \subseteq Workers
    BY <1>1 DEF BusyWorkers, Busy
  <1>3. TasksOfThisRun => TasksOfThisRun'
    BY <1>1, <1>2 DEF TasksOfThisRun, OfThisRun
  <1>4. Separate => Separate'
    BY <1>1, <1>2 DEF Separate
  <1>. QED BY <1>1, <1>2, <1>3, <1>4 DEF Queued

LEMMA CheckStep ==
    ASSUME ThreadsInv, NEW w \in Workers, Check(w) PROVE ThreadsInv'
  <1>. USE DEF Check
  <1>1. PICK task : task = worker[w].task
    OBVIOUS
  <1>2. PICK n : n = task.replay_count
    OBVIOUS
  <1>3. /\ w \in BusyWorkers /\ task \in Task /\ n \in Counts
        /\ task = [run |-> run, replay_count |-> n]
        /\ snapshot[n] = task
    BY <1>1, <1>2 DEF ThreadsInv, TasksOfThisRun, OfThisRun, SnapshotsKept, BusyWorkers, Task
  <1>4. short_outputs' = [short_outputs EXCEPT ![n] = [task |-> task, checked |-> task]]
    BY <1>1, <1>2, <1>3
  <1>5. /\ worker' \in [Workers -> [pc: {"waiting", "dead"} \cup Busy, task: Task \cup {None}]]
        /\ worker'[w].pc = "removing"
        /\ \A v \in Workers : worker'[v].task = worker[v].task
        /\ \A v \in Workers \ {w} : worker'[v].pc = worker[v].pc
        /\ BusyWorkers' = BusyWorkers
        /\ TasksOfThisRun' /\ Separate'
        /\ \A i : Queued(i)' <=> Queued(i)
    BY WorkerGoesOn DEF ThreadsInv, Busy
  <1>6. ThreadsTypeOK'
    <2>1. [task |-> task, checked |-> task] \in Output
      BY <1>3 DEF Output
    <2>2. short_outputs' \in [Counts -> Output \cup {NoOutput}]
      BY <1>4, <2>1 DEF ThreadsInv, ThreadsTypeOK
    <2>. QED BY <1>5, <2>2 DEF ThreadsInv, ThreadsTypeOK
  <1>7. UnfinishedExact'
    BY <1>5 DEF ThreadsInv, UnfinishedExact
  <1>8. SnapshotsKept'
    BY <1>5 DEF ThreadsInv, SnapshotsKept, Held, Holds
  <1>9. PutOrReported'
    <2>. SUFFICES ASSUME NEW i \in Counts, i < replay_count PROVE
              \/ Queued(i)'
              \/ \E v \in Workers : /\ worker'[v].pc \in {"checking", "dead"}
                                    /\ worker'[v].task.replay_count = i
              \/ short_outputs'[i].task = [run |-> run, replay_count |-> i]
      BY DEF PutOrReported
    <2>1. CASE i = n
      BY <1>3, <1>4, <2>1 DEF ThreadsInv, ThreadsTypeOK
    <2>2. CASE i # n
      BY <1>1, <1>2, <1>4, <1>5, <2>2 DEF ThreadsInv, ThreadsTypeOK, PutOrReported
    <2>. QED BY <2>1, <2>2
  <1>10. ChecksOwnState'
    BY <1>3, <1>4 DEF ThreadsInv, ThreadsTypeOK, ChecksOwnState
  <1>11. JustReplayed' /\ RunsCounted' /\ JoinedBeforeAnswer'
    BY NotAnswered DEF ThreadsInv, JustReplayed, RunsCounted, JoinedBeforeAnswer
  <1>. QED BY <1>5, <1>6, <1>7, <1>8, <1>9, <1>10, <1>11 DEF ThreadsInv

LEMMA CheckerFailsStep ==
    ASSUME ThreadsInv, NEW w \in Workers, CheckerFails(w) PROVE ThreadsInv'
  <1>. USE DEF CheckerFails
  <1>1. /\ worker' \in [Workers -> [pc: {"waiting", "dead"} \cup Busy, task: Task \cup {None}]]
        /\ worker'[w].pc = "dead"
        /\ \A v \in Workers : worker'[v].task = worker[v].task
        /\ \A v \in Workers \ {w} : worker'[v].pc = worker[v].pc
        /\ BusyWorkers' = BusyWorkers
        /\ TasksOfThisRun' /\ Separate'
        /\ \A i : Queued(i)' <=> Queued(i)
    BY WorkerGoesOn DEF ThreadsInv
  <1>2. ThreadsTypeOK' /\ UnfinishedExact'
    BY <1>1 DEF ThreadsInv, ThreadsTypeOK, UnfinishedExact
  <1>3. SnapshotsKept' /\ PutOrReported'
    BY <1>1 DEF ThreadsInv, SnapshotsKept, PutOrReported, Held, Holds
  <1>4. JustReplayed' /\ RunsCounted' /\ JoinedBeforeAnswer' /\ ChecksOwnState'
    BY NotAnswered DEF ThreadsInv, JustReplayed, RunsCounted, JoinedBeforeAnswer, ChecksOwnState
  <1>. QED BY <1>1, <1>2, <1>3, <1>4 DEF ThreadsInv

\* The directory that goes is that of no other task.
LEMMA RemoveDirStep ==
    ASSUME ThreadsInv, NEW w \in Workers, RemoveDir(w) PROVE ThreadsInv'
  <1>. USE DEF RemoveDir
  <1>1. PICK n : n = worker[w].task.replay_count
    OBVIOUS
  <1>2. w \in BusyWorkers /\ n \in Counts /\ n < replay_count
    BY <1>1 DEF ThreadsInv, TasksOfThisRun, OfThisRun, BusyWorkers, Task
  <1>3. snapshot' = [snapshot EXCEPT ![n] = None]
    BY <1>1
  <1>4. /\ worker' \in [Workers -> [pc: {"waiting", "dead"} \cup Busy, task: Task \cup {None}]]
        /\ worker'[w].pc = "finishing"
        /\ \A v \in Workers : worker'[v].task = worker[v].task
        /\ \A v \in Workers \ {w} : worker'[v].pc = worker[v].pc
        /\ BusyWorkers' = BusyWorkers
        /\ TasksOfThisRun' /\ Separate'
        /\ \A i : Queued(i)' <=> Queued(i)
    BY WorkerGoesOn DEF ThreadsInv, Busy
  <1>5. ThreadsTypeOK' /\ UnfinishedExact'
    BY <1>2, <1>3, <1>4 DEF ThreadsInv, ThreadsTypeOK, UnfinishedExact
  <1>6. SnapshotsKept'
    <2>1. /\ \A k \in 1..Len(queue) : queue[k].replay_count \in Counts \ {n}
          /\ \A v \in BusyWorkers \ {w} : worker[v].task.replay_count \in Counts \ {n}
      BY <1>1, <1>2 DEF ThreadsInv, Separate, TasksOfThisRun, OfThisRun, Task
    <2>2. snapshot'[n] = None /\ \A i \in Counts \ {n} : snapshot'[i] = snapshot[i]
      BY <1>2, <1>3 DEF ThreadsInv, ThreadsTypeOK
    <2>3. \A i : i # n /\ Held(i) => Held(i)'
      BY <1>1, <1>4 DEF Held, Holds
    <2>. QED BY <1>4, <2>1, <2>2, <2>3 DEF ThreadsInv, SnapshotsKept, BusyWorkers
  <1>7. PutOrReported'
    BY <1>4 DEF ThreadsInv, PutOrReported
  <1>8. JustReplayed'
    BY <1>2, <1>3 DEF ThreadsInv, JustReplayed, ThreadsTypeOK, Counts
  <1>9. RunsCounted' /\ JoinedBeforeAnswer' /\ ChecksOwnState'
    BY NotAnswered DEF ThreadsInv, RunsCounted, JoinedBeforeAnswer, ChecksOwnState
  <1>. QED BY <1>4, <1>5, <1>6, <1>7, <1>8, <1>9 DEF ThreadsInv

LEMMA TaskDoneStep ==
    ASSUME ThreadsInv, NEW w \in Workers, TaskDone(w) PROVE ThreadsInv'
  <1>. USE DEF TaskDone
  <1>1. /\ worker'[w] = Idle
        /\ \A v \in Workers \ {w} : worker'[v] = worker[v]
    BY DEF ThreadsInv, ThreadsTypeOK
  <1>2. w \in BusyWorkers /\ BusyWorkers' = BusyWorkers \ {w}
    BY <1>1 DEF BusyWorkers, Idle
  <1>3. /\ Cardinality(BusyWorkers') = Cardinality(BusyWorkers) - 1
        /\ Cardinality(BusyWorkers') \in Nat
    BY <1>2, BusyFinite, FS_RemoveElement, FS_CardinalityType
  <1>4. UnfinishedExact'
    BY <1>3, BusyFinite DEF ThreadsInv, ThreadsTypeOK, UnfinishedExact
  <1>5. ThreadsTypeOK'
    <2>1. unfinished_tasks' \in Nat
      BY <1>3, <1>4, BusyFinite DEF ThreadsInv, ThreadsTypeOK, UnfinishedExact
    <2>. QED BY <2>1 DEF ThreadsInv, ThreadsTypeOK, Idle
  <1>6. TasksOfThisRun' /\ Separate'
    BY <1>1, <1>2 DEF ThreadsInv, TasksOfThisRun, Separate, OfThisRun, BusyWorkers
  <1>7. SnapshotsKept' /\ PutOrReported'
    <2>1. \A v \in Workers : worker'[v].pc \in {"checking", "removing", "dead"} => v # w
      BY <1>1 DEF Idle
    <2>2. \A n : (Held(n) <=> Held(n)') /\ (Queued(n) <=> Queued(n)')
      BY <1>1, <2>1 DEF Held, Holds, Queued
    <2>. QED BY <1>1, <2>1, <2>2 DEF ThreadsInv, SnapshotsKept, PutOrReported
  <1>8. JustReplayed' /\ RunsCounted' /\ JoinedBeforeAnswer' /\ ChecksOwnState'
    BY NotAnswered DEF ThreadsInv, JustReplayed, RunsCounted, JoinedBeforeAnswer, ChecksOwnState
  <1>. QED BY <1>4, <1>5, <1>6, <1>7, <1>8 DEF ThreadsInv

-----------------------------------------------------------------------------
(* Theorems                                                                *)

LEMMA StepInv == ThreadsInv /\ [Next]_vars => ThreadsInv'
  <1>. SUFFICES ASSUME ThreadsInv, [Next]_vars PROVE ThreadsInv'
    OBVIOUS
  <1>1. CASE Runprint
    BY <1>1, RunprintStep
  <1>2. CASE ReplayDiskOps
    BY <1>2, ReplayStep
  <1>3. CASE Put
    BY <1>3, PutStep
  <1>4. CASE ScriptEnds \/ ScriptRaises
    BY <1>4, ScriptStep
  <1>5. CASE WriteOutputs
    BY <1>5, WriteStep
  <1>6. ASSUME NEW w \in Workers, WorkerStep(w) PROVE ThreadsInv'
    BY <1>6, GetStep, CheckStep, CheckerFailsStep, RemoveDirStep, TaskDoneStep DEF WorkerStep
  <1>7. CASE UNCHANGED vars
    BY <1>7 DEF vars, ThreadsInv, ThreadsTypeOK, UnfinishedExact, TasksOfThisRun, Separate,
                SnapshotsKept, JustReplayed, PutOrReported, RunsCounted, JoinedBeforeAnswer,
                ChecksOwnState, BusyWorkers, OfThisRun, Queued, Held, Holds
  <1>. QED BY <1>1, <1>2, <1>3, <1>4, <1>5, <1>6, <1>7 DEF Next, MainStep

LEMMA AlwaysThreadsInv == Spec => []ThreadsInv
  BY InitInv, StepInv, PTL DEF Spec

\* Type correctness; in particular, unfinished_tasks never becomes negative,
\* which would make task_done raise.
THEOREM ThreadsTypeCorrect == Spec => []ThreadsTypeOK
  <1>1. ThreadsInv => ThreadsTypeOK
    BY DEF ThreadsInv
  <1>. QED BY <1>1, AlwaysThreadsInv, PTL

\* The join waits for exactly the tasks that nobody has finished
\* (simulate_crashes.py:69-73, 82, 93).
THEOREM JoinCountsTasks == Spec => []UnfinishedExact
  <1>1. ThreadsInv => UnfinishedExact
    BY DEF ThreadsInv
  <1>. QED BY <1>1, AlwaysThreadsInv, PTL

\* No checker ever looks at a directory that another task's steps have removed
\* or overwritten (simulate_crashes.py:35, 57, 67, 77, 86).
THEOREM CheckersAreIsolated == Spec => []ChecksOwnState
  <1>1. ThreadsInv => ChecksOwnState
    BY DEF ThreadsInv
  <1>. QED BY <1>1, AlwaysThreadsInv, PTL

\* Nothing of a run survives its answer: the assertion in reset
\* (simulate_crashes.py:88) never fails.
THEOREM NothingLeftOver == Spec => []QuietBetweenRuns
  <1>1. ThreadsInv => QuietBetweenRuns
    <2>. SUFFICES ASSUME ThreadsInv, main \in Answered PROVE
            queue = << >> /\ BusyWorkers = {} /\ \A n \in Counts : snapshot[n] = None
      BY DEF QuietBetweenRuns
    <2>1. queue = << >> /\ BusyWorkers = {}
      BY AnsweredQuiet
    <2>2. \A n : ~Queued(n) /\ ~Held(n)
      BY <2>1 DEF Queued, Held, Holds, BusyWorkers
    <2>. QED BY <2>1, <2>2 DEF ThreadsInv, SnapshotsKept, Answered
  <1>. QED BY <1>1, AlwaysThreadsInv, PTL

\* Every crash state that a script replayed is in the answer
\* (simulate_crashes.py:90-96).
THEOREM EveryReplayReported == Spec => []RunReported
  <1>1. ThreadsInv => RunReported
    <2>. SUFFICES ASSUME ThreadsInv, main \in Answered, NEW n \in 0..(replay_count - 1)
                  PROVE  \E out \in replay_output :
                            out.task = [run |-> run, replay_count |-> n]
      BY DEF RunReported
    <2>1. n \in Counts /\ n < replay_count
      BY ReplaysAssumption DEF ThreadsInv, ThreadsTypeOK, Counts
    <2>2. queue = << >> /\ BusyWorkers = {}
      BY AnsweredQuiet
    <2>3. short_outputs[n].task = [run |-> run, replay_count |-> n]
      BY <2>1, <2>2 DEF ThreadsInv, PutOrReported, Queued, BusyWorkers
    <2>4. short_outputs[n] # NoOutput
      <3>1. run > 0
        BY <2>1 DEF ThreadsInv, RunsCounted, Counts
      <3>. QED BY <2>3, <3>1 DEF NoOutput, None
    <2>. QED BY <2>1, <2>3, <2>4 DEF ThreadsInv, JoinedBeforeAnswer
  <1>. QED BY <1>1, AlwaysThreadsInv, PTL
=============================================================================
