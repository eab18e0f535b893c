# A verification of ALICE's crash explorer

The repository finds crash vulnerabilities of applications. It traces the
system calls of a workload with a modified strace, and its stores to mapped
files with mtrace; turns them into *micro operations* on a replayed directory
tree; splits those into *disk operations*; computes which disk operations a crash
may lose; replays crash states into directories and runs a checker tool on each.
The specifications here are about the parts that decide *which* crash states are
looked at and *what is in them*: a mistake there does not crash the tool, it
silently explores the wrong states.

## 1. The system

| Part | State | Operations | Interacts with |
|---|---|---|---|
| `auto_test.py`, `ALCTestSuite`/`Operation` | list of operations with `deps`; module globals: dirty operations per inode, latest fsync; collected combos, limits | constructor, `test_validity`, `get_combos`, `count_all_combos`, `drop_list_of_ops`, `keep_list_of_ops`, `add_deps_to_ops` | fed with disk operations by `dops_set_legal`; asked by crash specifications |
| `diskops.py`, `get_disk_ops` | none | micro operation to disk operations, by split mode and atomicity | `dops_generate` |
| `diskops.py`, `replay_disk_ops` | the snapshot directory, `.inodes`, `dirinode_map`, a cache | replay of rows | both replayers |
| `simulate_crashes.py`, `Replayer` | micro operations with their disk operations, the end, the suite and whether it is current, saved states | the API of crash specifications | all of the above |
| `simulate_crashes.py`, `MultiThreadedReplayer`, `listener_loop` | task queue, outputs, replay count, directories | `runprint`, replay, check, join | worker threads, the checker tool |
| `simulate_crashes.py`, `replay_micro_ops`, `_dops_verify_replayer` | a second snapshot | replay of micro operations, comparison | |
| `conv_micro.py` | replayed tree; per process the descriptors, close-on-exec flags, positions and memory regions | one branch per system call, over the lines of all threads sorted by the time their call began | reads what strace and mtrace wrote |
| `mtrace/mtrace.cpp` | memory regions, the call each thread is in, a merged write per thread | hooks of system calls and of stores | `conv_micro.py` |
| `strace-4.8/strace.c`, the loop | `tcbtab` and `nprocs`, flags of each tcb, `interrupted` | `startup_*`, `trace`, `detach`, `cleanup` | `ptrace`, `wait4`, the traced threads |
| `strace-4.8/strace.c`, `syscall.c`, `util.c`: the files | whose line is open (`printing_tcp`, `curcol`), logs, stack files, dump files | `trace_syscall_entering`, `trace_syscall_exiting`, `printleader`, `line_ended` | the loop; read by `conv_micro.py` |
| `strace-4.8/syscall.c`, `mem.c`, `process.c`: stack traces | `mmap_cache` of each tcb | `alloc_mmap_cache`, `delete_mmap_cache`, the search, two walks of the stack | `/proc/PID/maps`, the address space of the process |
| `strace-4.8/util.c`: reads | none that lasts | `umoven`, `umovestr`, `string_quote`, `printstr`, `printpathn` | memory of the tracee |
| `error_reporter/`, `visualizer/` | none that lasts | classify and show outputs | read the outputs |

What is hard in it:

* **Ordering and staleness in the dependency calculus.** `deps` are computed
  incrementally from globals that every constructor call changes. They must
  mean the same as a declarative reading of the trace, and the file system that
  they presume must have exactly the crash states they allow.
* **A pruned recursion.** The enumeration never builds invalid combos, by a drop
  set that is copied and grown in a particular order.
* **Boundaries.** Slices, sync ranges, truncations into a write.
* **Two replayers that must agree**, one of them through hard links in
  `.inodes`.
* **Long legal call sequences** of the specification API, with a suite that goes
  stale.
* **Threads**: put, get, check, remove, `task_done`, join, reset, and checkers
  that fail.
* **Two trackers of the same address space** (mtrace and `conv_micro`), and
  syscalls of several threads sorted by start time.
* **Descriptors**: positions that processes share and `conv_micro` copies; dup,
  close and reuse; names that have moved on while the file is open.
* **A tracer that races with what it traces**: a stopped thread may be killed
  between any two `ptrace` calls, the first stop of a thread may come before its
  creation is known, and an `execve` replaces the leader by another thread.
* **Three files that are matched line by line**: a line too many in one of log,
  stack file and dump file shifts everything after it.

`PROJECT.json` lists these hazards line by line, with the properties that cover
them, and the reason where none does.

## 2. The modules

Constants are small sets of model values; positions count from 1 where Python's
count from 0. An operator whose name is another's with a suffix
(`FlushedWholeInode`, `RemoveDirOfMain`) is a faulty variant, kept to show that a
property tells the two apart.

```
 recording    TraceParameters --- TcbTable (abstract table)
                    |                  ^ INSTANCE
              TracedThreads --- TraceOutput --- Tracer
              TraceeReads   StackTraces   Memregions --- MappedWrites
 converting   FdTracker --- Descriptors

 crash states CrashDisk (abstract file system)
                ^ INSTANCE            ^ INSTANCE
              DiskRun             ComboBuilder         AddedDeps
                 \___________ TestSuite ___/____________/
                              /     \
                      LegalCombos    Combos
                       /      \
                Replayer   CrashReplay --- MicroOps --- ReplayVerify
                       \      |               |
                        DiskOps <-------- DiskReplay      ReplayerThreads
```

The `MC_` modules give the constants their values. Two of them put models that do
not interact into one run: `MC_CrashStates` (DiskRun, ComboBuilder, AddedDeps) and
`MC_TraceeReads` (TraceeReads, StackTraces); `side` says which of them a behaviour is
of.

### TestSuite: operations and dependencies
State: `op_list`, `deps`, `dirty_write_ops_inode`, `latest_fsync_on_any_file`,
named as in the code. One action per kind of operation: `Write`, `Truncate`,
`DirEntry` stay in the buffer cache (`Buffered`), `Sync` flushes what
`is_included_in_sync_range` covers. Each action is a whole `Operation.__init__`
(update of the dirty set, calculation of deps, clearing), in this order. Init is
the constructor's reset of the globals. The queries are operators:
`test_validity`, `drop_list_of_ops` (its while loop as a recursive function over
passes), `keep_list_of_ops`.

### CrashDisk, DiskRun, ComboBuilder: what the dependencies mean
`CrashDisk` is the abstract specification, and models no code: a program issues
operations, the file system writes them back in any order, a sync returns when
what it promises is on disk, a crash leaves `persisted`. `DiskRun` runs a program
on it next to the calculus, and states soundness (`CrashStatesAreValid`).
`ComboBuilder` builds a valid combo along a trace and states completeness as a
refinement (`ImplementsDisk`): `issued` is mapped to the trace as far as the
first sync that is not in the combo, where the program is still waiting.

### Combos: enumeration
`generate_combos` and `count_combos` with their recursion unrolled: `stack` holds
the frames of the active calls, each with its loop variable and its drop set.
`GenerateCall` is the entry of a call, up to the loop; `SkipCandidate` and
`ReturnToCaller` are the loop. `get_combos` and `count_all_combos` may follow each
other in any order, with limits and call budgets; `AssertionFails` is the
exception that unwinds the recursion. Collected combos survive queries, as in
the code.

### AddedDeps
`add_deps_to_ops` as its two passes over a constructed suite, called any number of
times with any pairs of operations. `Honours` says of a combo, without `deps`, that it
has what the computed meaning and all the added pairs require.

### DiskOps, DiskReplay: rows, and their replay
`get_disk_ops` as an operator from a line and a way to split it to a sequence of
rows (`Slices` are the shared slicing loops, `rename_disk_ops` the seven groups of
an expanded rename). A snapshot is a record of entries, contents and places of
directories; `ReplayRow` is one iteration of the replay loop, with `raised` for
its exceptions. A byte is 0, garbage, or its place in the dump file, so a wrong
dump offset is a wrong byte.

### MicroOps, ReplayVerify, CrashReplay
`MicroOps` is a traced program with the line `conv_micro` records for each call and
the tree it makes; `replay_micro_ops` makes the same tree by the same calls. `Fsync` is
by a descriptor that `conv_micro` watches; `Unrecorded` is the fsync of a directory that
was opened with O_DIRECTORY, which it does not watch (conv_micro.py:389), and of which
there is no line (conv_micro.py:636).
`ReplayVerify` replays the disk operations of every line next to it, for several
splits (`_dops_verify_replayer`). `CrashReplay` goes the whole way: call, line,
rows, dependencies, valid combo, replayed crash state. `LegalCombos` is the
hand-over `dops_set_legal` from rows to a suite; it uses `MeaningOfDeps` for the
constructor's result, which `DepsAreExact` proves equal.

`Truncs`, `Renames` and `Syncs` say what kind of programs are looked at. The
verify run renames files only, and not between two names of one file; see
section 6 for why.

### Replayer: the API of crash specifications
One action per method that changes state, in any sequence. `split`'s copies of
disk operations, the shared save slots and the moves of the end are the code's.

### ReplayerThreads
`Runprint` is a command up to the script, `ReplayDiskOps` and `Put` the halves of
a replay (the state is in the directory before the task is in the queue),
`ScriptEnds`, `ScriptRaises`, `WriteOutputs` the rest of the main thread. A worker
is `Get`, `Check`, `CheckerFails`, `RemoveDir`, `TaskDone`. A crash state is the run
and the replay count it has, so a directory that another task has reused or
removed is visible in an output. The queue's lock makes put, get and task_done
atomic; the checker's look at its directory is one step, as nobody but it writes
there.

### TcbTable, TracedThreads, TraceOutput, Tracer: strace at work
`TcbTable` is the abstract table: blocks, each for a pid or free, and a count, with
`Alloc`, `Drop` and `Switch` (of the pids of two blocks, at `execve`). `TracedThreads`
is the kernel's side and models no code: `task[p]` is a thread, where it is in a
call, the report it has for `wait4`, its pending signals. `TraceOutput` has the
functions that write and that keep the table, as operators on the state `out`.
`Tracer` is `trace()` with its callees, one action per kind of report (`HandleEvent`,
`HandleEnd`, `HandleExecve`, `Enter`, `Leave`, ...); threads go on between its
steps, and the one at hand may be killed, so every `ptrace` call that the code makes
has its failing branch. `ImplementsTable` is the refinement to `TcbTable`: the abstract
table is the pids of the blocks (`tcbPids`), its count `nprocs`.
A line of a log is how it begins, which call it is about and how it ends.

### StackTraces
`mmap_cache[t]` is the cache of a tcb: `NULL`, or the mappings of files and one entry
more, which `alloc_mmap_cache` allocates and does not set. `Deleting` are the calls
whose print functions delete it. `print_normalized_addr` is the search, as a loop
over lower and upper. `missed[t]` is what has changed the address space without
the cache being deleted; it is there for the properties.

### TraceeReads
`umoven` and `umovestr` by chunks and by words, `string_quote`, `printstr` and
`printpathn`, each as one operator of the memory and the arguments, and a reader of
the quoted text (`Literal`). A step prints one thing and compares.

### Memregions, MappedWrites
`Memregions` has both trackers as operators on sets of regions. In `MappedWrites` a call
takes three steps (entry, kernel, exit with the hook of mtrace) and a store two
(instruction, hook). `Converted` is `conv_micro` on the lines so far, sorted by the time
of entry. `met` collects five situations that the code does not handle: `"cut"`
(munmap or a fixed mapping of a part of a mapping), `"reuse"` (an address given to
one thread before the hook of another has forgotten it), `"late"` (a store merged into
one before another thread's call), `"race"` (of the program's own stores) and `"failed"`
(an mmap that returned -1, at which the conversion ends: `ConvFailed`).

### FdTracker, Descriptors
`FdTracker` has one operator for each branch of `__get_micro_op` that goes through a
descriptor, from the state of the conversion to the next. `raised` is an exception, at
which the program exits. `Descriptors` is the kernel (one position per opening, however
many descriptors of however many processes refer to it), the lines of calls that
overlap, and the conversion of those whose lines are all known. What `conv_micro`
cannot know is recorded when it happens:

* `stale`: positions moved by `read`, by another process, or by another writer of a
  file with O_APPEND;
* `mixed`: close-on-exec flags of duplicated descriptors (get_micro_ops says so,
  conv_micro.py:878), and then `lost`: the descriptors of a process after `execve`, or
  after `dup2` of a descriptor onto itself;
* `unsure`: files that were written by such a position, or by descriptor 1 or 2
  (which always counts as output), or by pwrite with O_APPEND, or whose name has
  moved on (the size is looked up by name, conv_micro.py:484);
* `forgotten`: threads that `conv_micro` takes for ended because another thread of the
  process has called `execve`, which failed; a failed `execve` also makes the process
  `lost` if one of its descriptors may have been close-on-exec;
* `late`: a call that began earlier and took effect later than another about the
  same thing.

Calls may fail (`fails`): a write may write a part or nothing, `ftruncate` and `fsync` of
any descriptor may fail (`TruncateOrSyncFails`), and so may `execve` (`ExecveFails`). A
line has the result of its call, and `Written`, `ConvFtruncate` and `ConvFsync` raise as
the assertions on it do. That other failed calls are skipped is the guard of each branch,
and they are not modelled.

The properties speak of everything else, and `excused` names the exceptions that may
be raised. Leaving out any one of these lets TLC find a divergence.

## 3. The runs

| Run | Question | Bounds | Properties |
|---|---|---|---|
| suite | Are deps what they are declared to be, and the lists extremal? | traces of 4 operations, 2 files, 1 directory, offsets 0..1 | `DepsExact`, `DropListIsLargest`, `KeepListIsSmallest` |
| crash_states | Are the crash states exactly the valid combos? After dependencies are added, are the valid combos those that honour them? | 4 operations, 1 file, 1 directory; 3 operations, 2 calls of up to 2 pairs | `CrashStatesAreValid`, `ImplementsDisk`, `AddedDepsExact` |
| combos | Does the search find exactly the valid combos, and end? | 4 operations, limits none and 2, budgets 4 and 100, any number of queries | `CombosValid`, `CombosComplete`, `CountExact`, `SearchEnds` |
| verify | Do the two replayers agree, and does an expanded rename pass through what it says? | 5 calls, 2 files, 2 directories, 2 names, sizes to 3, 5 splits | `ReplaysAgree`, `RenamePassesThrough` |
| crash | Is what has been synced, by a call that is recorded, in every crash state? | 4 calls, 2 files, sizes to 2, 2 splits, truncates upwards | `SyncedFileSurvives`, `SyncedDirectorySurvives` |
| replayer | Is the suite current and what is replayed legal, after any calls? | 4 calls on 2 traces | `SuiteIsCurrent`, `LegalReplay` |
| threads | Are tasks counted, checked on their own state and all reported? | 2 workers, 3 replays, 2 commands, failing checkers | `UnfinishedExact`, `ChecksOwnState`, `RunReported`, `AnsweredUnlessDead` |
| threads_fail | Is every command answered when checkers may fail? | the same | `RunprintAnswered`, **violated** |
| tracer | Does strace stay in step with its threads, write what can be read, and end? | 3 pids, up to 3 calls, a signal and a kill, in 8 ways of running strace | `InSync`, `TableIsCurrent`, `ResultsPaired`, `ConvAligned`, `DetachedRun`, `ImplementsTable`, `Finishes` |
| tracee_reads | Is what strace shows of memory what is there? Are stacks right, and do they end? | 3 pages of 2 chunks of 2 words; texts of 3 bytes; 2 threads, 3 calls, 5 workloads | `StringsFound`, `StringsShown`, `CachesCurrent`, `AddressesRight`, `StacksEnd` |
| mapped_writes | Do stores to mapped files reach the right bytes, in time? | 1 and 2 threads, up to 3 calls and 3 stores, 2 pages of 2, a file of 3 | `AssertionsHold`, `TrackersAgree`, `FilesAgree`, `WrittenThere`, `SyncedInTime` |
| descriptors | Are descriptors followed, and files rebuilt? | 2 threads, 4 or 5 calls, 3 descriptors, 2 names, 2 files, sizes to 3, in 9 programs, names symmetric | `FilesRebuilt`, `DescriptorsAgree`, `Converts` |

The type invariants (`TypeOK`, `ThreadsTypeOK`, `TracerTypeOK`, ...) are stated in the
modules and hold at these bounds; where there is a proof they are theorems.
`DepsClosed`, `BlockingIsMonotone` and `QuietBetweenRuns` follow from properties of the
table or are steps towards them, and are proved.

Why the bounds are enough. The interactions of the calculus are between a write,
the sync that covers it, a later sync that inherits from it and an operation
after that: four operations on two inodes have all of them, and the theorems
lift the bound. Ranges over offsets 0 and 1 contain, touch and miss one another.
In the search four operations give a recursion with siblings on three levels,
and the smaller budget runs out in the middle of it. Two files, two names and
two directories give hard links, a rename over a file with another name, and a
rename between directories; size 3 with aligned slices of 2 has an incomplete
slice at either end. Two workers and three replays let one worker check while
the other removes and the main thread replays; two commands let a run meet what
the one before has left. Three pids are a parent, its thread and one
more, or a leader, a thread that calls execve, and one in between; a table of one
block grows twice. The eight scenarios of `MC_Tracer` differ in what cannot be
combined: -f or -ff, started or attached, with or without PTRACE_SEIZE, interrupts,
-b execve. Words, chunks and pages keep their order of sizes and the residues
that matter, scaled down from 8, 256 and 4096. Two mappings of two units, the last of
which the file does not fill, have every clipped range. Larger sizes of `Descriptors`
(12 calls, 3 threads, 4 descriptors) were searched by random simulation, without a
violation. Positions in a trace, sizes and numbers of calls are
bounded in the guards by the constants `Max...`, which the code does not have;
deadlock checking is off where the traces, the scripts or the process end.

### Fairness
* `CombosFairSpec`: a query is a function call, it runs once it is called (weak
  fairness of its steps as a whole). Nobody has to make queries.
* `FairSpec` of `ReplayerThreads`: the main thread's steps after a command, and
  the steps of each worker, are weakly fair: threads are scheduled, a blocked
  join or get is not enabled, and a script ends. A step that can fail is a choice
  of the checker inside a fair action, so no checker is obliged to succeed. No
  fairness is assumed of `Runprint`.
* `Spec` of `Tracer`: strace's own steps, and the steps of each thread that runs, are
  weakly fair; a stopped thread has none. Signals, kills and interrupts are not
  fair, so the trace must end without their help.
* `StackTraces`: the steps of a walk are weakly fair, as they are a loop of strace; no
  thread has to make a call.

## 4. What the runs found

* **A failing checker hangs runprint** (`threads_fail`, simulate_crashes.py:57).
  The worker dies before `task_done`, and the join waits for ever.

Everything else that does not hold is in section 6: it was met while modelling, and
the properties name the case and speak of the rest.

## 5. What is proved

TLAPS proves the following for every value of the constants; the assumptions are
the named `ASSUME`s of the modules (bounds are naturals, `Workers` is finite,
limits are naturals), which TLC evaluates in the runs.

**TestSuite_proofs.** `DepsExact` is not inductive: it says nothing of the sets the
next operation is computed from. `IInv` adds `LatestIsLastSync` (the running
latest fsync is the last sync of the trace) and `DirtyIsUnflushed` (a dirty set
has exactly the operations of the inode that no sync covers). A buffered
operation changes no meaning before it; the new one inherits from the last sync,
whose deps are the meaning of everything before. A sync adds what it flushes with
its deps, and everything covered by an earlier sync is already inherited.
Results: `TypeCorrect`, `DepsAreExact`, `BlockingMonotone`, `DepsTransitive`,
`KeepListCorrect`, `DropListCorrect`. For the last, one pass over
the trace removes exactly the operations with a dropped one among their deps
(`DropListIsOnePass`, by induction on how far the pass is), because deps are closed;
that they are blocked as a suffix is `BlockingIsMonotone`. Induction over the naturals
(`NatSetInduction`) is derived from the existence of a least element in a set of them,
because the library's induction theorems take an operator.

**CrashStates_proofs.** The three modules over a suite's `IInv` that say what crash
states are. `CrashSound`: the promise of `CrashDisk` is `Covers`, and what is issued
after a sync is issued after its return. `CombosAreCrashStates`, the refinement of
`CrashDisk` by `ComboBuilder`: initial states map to initial states, an appended
operation is an `Issue` or a stutter, an inclusion a `WriteBack`, a `Return` or a
stutter. `AddedDepsAreExact`: for any calls of `add_deps_to_ops`, the combos that
`test_validity` accepts are exactly those that honour the computed dependencies and the
added ones. That such a combo is accepted is because a pass does not lead out of a set
that has the deps of its operations (`PassStays`); the converse because deps only grow.
What clients asked for stays in `deps`, and deps stay
closed when the new dependencies go backward (one pass in the order of the trace then
meets every set after those it is made of, `BackwardPasses`) or come one per call
(`SinglePasses`). One of these conditions is needed for that: a call with several
forward dependencies may leave deps that are not closed, and the validity of combos is
right all the same.

The searches for combos, in the same module: `SearchSound`, `SearchComplete` and
`CountIsExact`. The invariant `CInv` says of every frame that its drop set holds operations before its candidate only
(`FrameOK`), that what has been collected is valid, and, without a limit
(`NoneForgotten`), that every valid combo is collected or is still to come from
some active call (`ToCome`: it agrees with what the frame kept and dropped before
its candidate, and has an operation at or after it). A blocked candidate can be
skipped because it blocks all later ones, which is `BlockingIsMonotone`. When the
stack is empty, none is left to come. For the count, `CountInv` says that
no valid combo is still to come from two active calls, and that the total is the
cardinality of those that are to come from none.

**Replayer_proofs.** `ReplayerTypeCorrect`, `SuiteStaysCurrent`, `ReplaysAreLegal`, for
every set of traces and every sequence of calls of the API. The invariant `GoodState`
speaks of what there is and of every copy that `save` has made: the lines and their disk
operations are of the form the code makes, no write among them is empty, and a suite that
is initialized is that of the rows there are. Every method keeps it, as the ones that
change rows clear the flag. The
numbering of rows by `dops_single` is an order-preserving bijection onto the rows, so an
end within `dops_independent_till` of what is omitted is a combo of the suite, and the
theorems of `TestSuite_proofs` (instantiated for the suite of the rows) make it
valid. `TracesAssumption` says that a trace is a non-empty sequence of lines with the
fields that `get_disk_ops` reads, `SplitsAssumption` that a split is in at least one part.

`ReplaysAlwaysAgree` (also in Replayer_proofs): `ReplaysAgree`, for files and traces of any
size and every split into at least one part, for programs that rename files only (the other
renames are the divergences of section 6). Three layers:

* Rows. A replay is a fold over rows; that it takes them one by one (`ReplayOne`,
  `ReplayBoth`) is by induction over their number. The slices of a range, cut by count or
  aligned, are the pieces between points that only grow, the first and last of which are the
  ends of the range (`SlicesAreCuts`). So writes slice by slice write the
  whole (`WriteReplays`), a truncation slice by slice, in either direction, leaves the prefix,
  and growing by garbage and then by zeros leaves zeros. Overwriting twice is overwriting
  once (`OverwrittenTwice`), which is why an append may be written twice.
* Directories. A row that deletes, creates or links a name changes one entry of the snapshot.
  The seven groups of an expanded rename end as the atomic one does, whether or not the
  destination exists and whether or not its file has another name.
* The invariant `InvWith(fs)`, for a snapshot `fs`: the tree is one that a program makes
  (`TreeOK`: every entry is an inode in use, every content a sequence), it has finitely
  many entries (`FinitelyMany`: links are counted), and the snapshot has the same entries
  and, for the files that a path leads to and those yet to be made, the same bytes
  (`SnapshotOK`). The last part is more than `ReplaysAgree`: a creat finds the bytes of an
  inode that no path leads to yet, and a mkdir one that has not been linked before. Of
  `ReplayVerify`, `VerifyInv` states it for `disk`; of `CrashReplay`, `CrashInv` states it for
  the replay of the whole trace.

`RenamesPassThrough`: `RenamePassesThrough`, under the same assumptions. `Ways` is the set
of what the two paths lead to after each prefix of the rows. A prefix of two groups is one
of the first, or the first with one of the second (`WaysBoth`), and the truncations within
a group leave the entries alone (`WaysCuts`); so each of the seven groups of an expanded
rename adds what it finds and what it leaves, and together they are the six combinations
of the comments (`RenameWays`). The line of the rename has the entries and the number of
links that there were before it (`RenameLineOK`, from `FinitelyMany`).

`SyncedDirectoriesSurvive` and `SyncedFilesSurvive`: when fsync of a directory or a file has
returned, and `conv_micro` has recorded it, every crash state of the trace has its entries or its bytes, for any files, any
trace and every split. Assumed is that only files are renamed, and for files that
truncates only make them longer: a write that a truncate cuts reaches behind the range of
every later sync, which then leaves it dirty (section 6). Four steps:

* The whole trace (`CrashInv`): its rows can be replayed and make the tree, every row fits it
  (`Fit`: a write lies within its file unless no path leads to the file any more, an entry
  is between inodes in use), and an fsync's line has the size of its file (`SyncsWhole`). Per
  call there is a lemma that it keeps this (`Onward`).
* A row sets what it is about and nothing else, unless it raises (`HasShape`, `RowChanges`);
  and what it sets depends on no more than that (`SameStep`). So a combo that has every row
  about some paths and files, and can be replayed, leaves them as the whole trace does
  (`ComboAgrees`).
* The deps of the last sync name every earlier row about the directory, or about the
  file and within its size (`LastDependsOn`, from `MeaningOfDeps`). As every write fits the
  file, that is every row about it.
* A valid combo with the sync has its deps, so it agrees with the whole trace, and the
  whole trace with the tree.

The first attempt failed for a good reason: the cases of `ReplayRow` overlapped once a replay
had raised, and TLC's choice of the first one is not what `CASE` means. The
definition now asks for `raised` first, as the code does by not going on.

**ReplayerThreads_proofs.** `ThreadsTypeCorrect`, `JoinCountsTasks`,
`CheckersAreIsolated`, `NothingLeftOver`, `EveryReplayReported`, for any number of
workers and with failing checkers. `ThreadsInv` adds to the properties that all
tasks are of this run and counted (`TasksOfThisRun`), no two have one directory
(`Separate`), the directory of a task has its crash state until it is checked and
no directory is without a task (`SnapshotsKept`, `JustReplayed`), and that what was
put is queued, being checked or reported (`PutOrReported`). The counter then is
zero only when nobody has a task, and the join's return implies all the rest.

**Tracer_proofs.** `RefinesTable`: every behaviour of the whole tracing loop is one of
`TcbTable`, for any number of pids, any first size of the table and any scenarios. Then,
of the tracer itself, `ThreadsCounted` (`nprocs` is the number of blocks in use),
`OneBlockPerPid`, `AllocAlwaysFinds` (the table that is doubled when it is full has a free
block, as its second half is free, so "bug in alloctcb", strace.c:743, cannot happen),
`TracerTypeCorrect`, and `RightBlockHandled` (while a report is handled `tcp` is the one
block of its pid). Three layers: `TableInv` is inductive for `TcbTable`; of every function
of `TraceOutput` a lemma says what it does to the blocks (`Keeps` their pids, `Drops` one,
`Switches` two, `Attaches` a new one); and for every action of `Tracer` a lemma says
that it is a step of the table or leaves it alone, and keeps `TracerInv`. That invariant
adds to `TableInv` where `tcp` points at each place of the loop (`PlaceOK`): between
`wait4` and the restart to a block in use, in `cleanup` perhaps one behind the last.

`CallsInSync`: `InSync` for any number of threads that call, clone, execve, exit and are
killed in any order, and any options. `InSync` is not inductive, as it speaks of one stop
only. `SyncInv` relates every block to its thread in the kernel, at all times until strace
exits (`Leaving`): between the stop that strace has seen and the next one the block says
which call the thread is in (`SyncOK`, where `Due` is the report that strace has still to
act on), a thread without an open report has a block (`KnownOK`), the thread at hand stays
where it is but for an execve of another one (`HandOK`), and an execve is reported
by the leader, while the thread that called it is gone and its block still says what it
called (`ExecveOK`). Excepted is what `Overtaken` names, per thread (`Followed`). A step of
strace is about one thread (`OnlyAbout`, `Bystander`), a step of the kernel moves threads in
one of seven ways (`Moves`, `KernelMoves`), none of which disturbs a block.

`TableStaysCurrent`: `TableIsCurrent`, at every size. Its invariant `BlocksInv` says at all
times until strace exits why a block is there: its thread is traced and not gone, or strace
is at the report of its end, or the block is `Stale`: an execve has replaced the thread by
its leader, and strace has still to take the report, or is at it, or has missed it
(`unseen`), or the whole process has ended first. It is the last of these that is not
obvious: it rests on no other thread of the process running (`NoneRuns`), as an execve of
another one would overwrite the old pid in the report of the leader. That every thread
without an open report has a block is `KnownOK` of `SyncInv`.

`DetachLeavesRunning`: `DetachedRun`, at every size. `SettledInv` is about every thread at
all times, also while strace exits, where the invariants above say nothing. A SIGSTOP is
pending, or a thread that is not traced is stopped, only while strace waits for just that
thread (`Awaited`), or when an execve has brought both from another thread. The second case
stays what it is because a thread takes its signals before its next call: it
cannot call execve again, and become its own successor, with the SIGSTOP pending. The wait
ends with the SIGSTOP taken (a thread that stops for it has none pending) or with the
thread gone.

**TracerFiles_proofs.** `LinesStayAligned`: `ConvAligned`, for any number of threads, all options and every run, to
its end, after an abort also for whatever part of the stack files has got to the disk.
`LinesInv` is about the files of one thread: its log, the line that is open in it,
the lines of its stack file and the calls in its dump file. What has been parsed is
`Aligned`. Besides, before strace exits, a call that the log does not yet show as
complete may be ahead in the two other files, and only in three ways: none is, so that the
next call is the next line of each (`Exact`); the open line is that of a call whose stack,
and bytes if it writes, are the last ones (`Open`), and its block is in that call and not
filtered (`Shown`), or strace is writing its bytes; or no line of the thread can be parsed
any more (`Over`): it has ended, it is not traced, or an execve has replaced it. `Open` needs that
no call comes twice, so the calls of a thread are numbered, and those in its files are
among the ones it has made (`Within`), without the one whose entry is due (`EntryDue`).
An execve makes the block of the thread that called it take the leader's file. There the
invariant says nothing of lines: its first line is "superseded", for which the
reader raises (`SupersededFiles`). The proof uses `SyncInv` and `BlocksInv`: a
line ends as a result only at the exit of the call which its block says it is in.

**TraceeReads_proofs.** `StringsAreFound`: `StringsFound`, for any memory, any strings and
any sizes of words, chunks and pages (`ReadSpec`, the memory side of the run). Assumed is that
memory is mapped by whole pages and that words and chunks divide a page, as 256 does 4096.
Every word of a string is then in one page with a byte of it (`MappedByWords`), so peeking
gets to the end (`PeekStringRight`), perhaps behind `len`. For the loop over chunks the proof
needs a set of offsets that the loop does not leave before it has read the end, and from each
of which it reads something (`ReadsOn`, `ChunksFind`); one lemma gives the set for each
condition of `ReadableFor`: a kernel that reads up to the hole, a string within the first
chunk and page, an aligned address, and a mapped page behind the string. What is
answered is about bytes that were read (`ChunksTold`), under no condition. Both inductions
are over the bytes left.

`StringsAreShown`: `StringsShown`, for the same sizes, any bytes in memory, and any lengths,
limits and `xflag`. Assumed besides is that memory holds bytes and that the arguments
have their types. `EscapedRead` says that the text which `string_quote` makes of one byte
is read as that byte wherever it stands, unless a digit follows that `Escaped` did not know
of: an octal escape is then not of three digits. By `Flattened` the texts of a string's bytes
stand one after another, so that the reader goes from each to the next (`Decoded`), and
`StringQuoted` concludes that what is quoted is read back, up to the NUL. That this is what
is in memory is `BufferShown` and `StringShown`, from the lemmas about `umovestr`; the
latter also says when dots follow. Inductions over the bytes of one fixed text are
within proofs, on a set of numbers.

`StacksTypeCorrect`, `CachesStayCurrent` (of `StackTraces`), for every number of
threads and pages and any workload. `CurrentInv` weakens the property where it is not
inductive: between the return of a call that changes the address space and the
function that deletes the cache (`Deletes`).

**Memregions_proofs.** For every set of regions and every range: `FixedMappingExact`
(after a mapping at a fixed address mtrace takes exactly the addresses outside of it for
mapped that were so before), `ConvForgetsOnlyAfter` (`conv_micro` differs only in what is
behind the new mapping within a region that began before its end: the case "cut"),
`ConvFixedMappingRight` and `ClippingKeepsBytes` (an address keeps its byte of its file
in what both operations leave of a region). `RegionsNeverOverlap`: for any threads,
programs, pages and sizes, no two regions of mtrace overlap. Its invariant `TraceInv`
adds the types of memory, lines and threads, and that a thread in a call has its line;
`DisjointAround` shows that the parts which `remove_overlaps` leaves stay apart.

Only model-checked: liveness (`SearchEnds`, `AnsweredUnlessDead`, `Finishes`, `StacksEnd`),
which is out of the proof system's reach; `ResultsPaired` of `Tracer`, which relates the
lines of one call in the log that all threads share, or in two logs, where `LinesInv` is
about one thread and its file; and the properties of `MappedWrites` and `Descriptors`,
which need an invariant over all the lines that are still to be read.

## 6. Known divergences without a run

Met while modelling, confirmed on the models unless said otherwise, and left out of
the runs: the properties exclude them by name.

Enumeration and replay:

* Added dependencies are not honoured by combos (auto_test.py:361, 489). A blocked
  operation is not added to the drop set. Computed deps block monotonically
  (`BlockingIsMonotone`), so nothing comes of it; with a dep from `add_deps_to_ops`
  a later, unblocked candidate takes the blocked one along.
* A write that a truncate cuts is never synced (auto_test.py:133). Write two bytes,
  truncate to one, fsync: the write reaches beyond the synced range, stays dirty,
  and may be lost with its first byte. The crash run truncates upwards only.
* `get_combos` does not clear `generated_combos` (auto_test.py:395): a query with a
  lower limit returns what earlier ones collected.
* `add_deps_to_ops` closes deps in one pass (auto_test.py:503). Forward
  dependencies in one call, (0,1), (1,2), (2,3), are not closed, and the assertion
  of `keep_list_of_ops` (auto_test.py:470) fails. Which combos are valid is right
  nevertheless (`AddedDepsExact`).
* The fsync of a directory that was opened with O_DIRECTORY is not recorded
  (conv_micro.py:389, 636): crash states may lose entries that are on disk. As nothing
  is known of the descriptor, `fchdir` by it raises (conv_micro.py:667). In the runs
  `Unrecorded` is that call, and the properties are about the other fsyncs.
* `short_outputs` is not cleared between commands (simulate_crashes.py:94).
* A rename of a directory becomes rows of `TYPE_FILE` (diskops.py:123), whose
  replay calls `os.unlink` on a directory (diskops.py:296).
* A rename between two names of one file does nothing on Linux; its rows delete
  the source (diskops.py:123).
* A valid combo with a `mkdir` in the place of a file whose deletion is lost cannot
  be replayed (diskops.py:290).
* `_dops_verify_replayer` calls `replay_disk_ops` without its third parameter,
  `replay_dir` (simulate_crashes.py:445, diskops.py:190), so it raises today.
  `ReplayVerify` models the comparison it is there to make, with the directory that
  the single-threaded replay passes (simulate_crashes.py:195).
* `dops_remove` and `remove` move the end also for operations behind it
  (simulate_crashes.py:342, 249).

strace (scenarios as in `MC_Tracer`):

* An `execve` by another thread while strace handles a stop of the leader: what strace
  restarts is the new program, whose PTRACE_EVENT_EXEC it never sees, and from then on
  entries and exits of that thread are swapped (`Overtaken`, per thread; defs.h:476-492 says that this is never
  observed). When the new program is killed first, a stale tcb is left, which only
  ECHILD of `wait4` ends (`TakenOver`).
* With -f, an `execve` while the leader's line is open: `droptcb` clears `printing_tcp`,
  and "+++ superseded" goes onto the open line. With -ff, a failed restart clears
  `curcol` of a tcb that has another file.
* A call that is filtered and whose registers cannot be read at its exit prints a
  result without an entry.
* Without PTRACE_SEIZE, a thread that is stopped by another signal when strace detaches
  keeps its SIGSTOP pending and stays stopped. `DetachedRun` is about PTRACE_SEIZE; also
  there a SIGSTOP may follow a thread into its `execve`.
* After an interrupt strace may wait for ever in `detach` (strace.c:849; strace.1:508-512
  says that it detaches): `InterruptDetaches` is stated and not satisfied.
* `dump_bytes` aborts strace when a thread is killed at the entry of a write
  (util.c:638-640): `NeverAborts` is stated and not satisfied. The stack files are
  buffered and not flushed by lines as the logs are (strace.c:588-599), so the abort may
  lose the last lines of them, and the conversion raises at the first that is missing
  (conv_micro.py:331).
* `umovestr` cuts the first chunk at the end of a page and the later ones at the same
  length (util.c:981; the comment at 976 says otherwise): a string that ends before an
  unmapped page is not found. Without `process_vm_readv` a path that is longer by less
  than a word is shown without "...".
* An address after the last mapping is compared with an entry that was never set
  (syscall.c:2983). Caches are stale after a change by another thread, after mremap,
  after mmap2 of 32-bit programs, and after calls that are not traced.
* Without libunwind, frame pointers in a cycle are followed for ever (syscall.c:2010). The
  death of a thread before its registers are read ends strace (syscall.c:1987, and with
  libunwind 1965 and 1967); with libunwind so does an execve by another thread than the
  leader, as the tcb still looks up the leader that is gone.

Mapped files (the cases of `met`):

* munmap or a fixed mapping of a part: both trackers, or only `conv_micro`, forget the
  rest (mtrace.cpp:503, conv_micro.py:138), and its stores are lost.
* An address that is reused before the hook has run: mtrace's assertion ends the program
  (mtrace.cpp:138), and `conv_micro` raises (conv_micro.py:121, 931).
* Merged stores are ordered before a call of another thread that came between
  (mtrace.cpp:319).
* An mmap that fails, of whatever kind, ends the conversion: `__get_micro_op` returns
  None, which is added to a list (conv_micro.py:722, 949).
* Read in the code, not modelled: lengths that are no multiple of a page, mprotect and
  mremap are not tracked; a shared mapping that ends before its file does raises
  (conv_micro.py:738), and so does one of a thread without a trace of mtrace
  (conv_micro.py:739) or with MAP_GROWSDOWN; an `execve`, also one that fails, clears the
  regions of `conv_micro`; a failing `execve` leaves a stale entry in mtrace (mtrace.cpp:415);
  `Image` starts `strace -p` without waiting for it (mtrace.cpp:390).

Descriptors (the ghosts of `Descriptors`):

* Positions: `read` does not move them, fork copies them, O_APPEND starts at the end and
  then counts on as if nobody else wrote; `pwrite` with O_APPEND uses its offset.
* Descriptors 1 and 2 are output also when they are files; `dup2(fd, fd)` loses the
  descriptor; close-on-exec is shared by duplicates.
* After a rename or unlink of an open file its size is that of another file, or the
  conversion raises; so it does for a zero-length write inside a file, a rename over a
  file that the process has open or onto itself, and the creation of a name that is
  still open. A call that began before another but took effect after it is converted
  first.
* An `execve` that fails, as in a search along PATH, is recorded like one that succeeds
  (conv_micro.py:824): the close-on-exec descriptors of the process are forgotten, and
  what it writes by them is missing; the lines of its other threads raise.
* A write by a watched descriptor that fails or writes a part, and an `ftruncate` or
  `fsync` of any descriptor that fails, raise (conv_micro.py:481, 593, 634).
* Read in the code, not modelled: a `truncate` by name that fails raises
  (conv_micro.py:593); so do an open that creates a file, or has O_TRUNC, without write
  access, or has O_ASYNC or O_DIRECTORY with it (conv_micro.py:387-411), F_SETFL of a
  watched descriptor, a clone with flags in other combinations than those of threads
  and processes, and an ioctl on a watched descriptor.
* Read in the code, not modelled: `fallocate` on a tracked descriptor always raises
  (conv_micro.py:624, names that are not set); `set_data` and fallocate leave
  `dump_file` empty, and such rows are dropped by `get_disk_ops` (diskops.py:368).

## 7. What is not modelled

Parsing of lines and options; the working directory, symbolic and hard links in
`conv_micro` beyond `MicroOps`; the cached replay; `set_data`'s bytes; file modes.
Of strace: group stops, -c, -z, -D, threads that are created while it attaches,
reuse of pids, and the decoders of the several hundred calls, which are text. Those
decoders and their tables of numbers and names are most of the repository's lines; but
for the few that delete a cached memory map (`StackTraces`), they decide nothing here. Of
mtrace: fork, writes of several bytes by one instruction. `error_reporter` and
`visualizer`, which are batch jobs on finished outputs; recorded results. The bits of
`BitVector`, by which `count_combos` keeps sets of operations: in `Combos` they are sets.
Inodes are never reused: conversion renames deleted files aside, so that theirs stay
allocated.

## 8. Plan

Done, in this order: TestSuite with its proofs, CrashDisk, DiskRun, ComboBuilder,
Combos, AddedDeps, ReplayerThreads, DiskOps and DiskReplay, MicroOps with its two
compositions, Replayer; the loop of strace with its table and files, stack traces,
reads; Memregions with MappedWrites, FdTracker with Descriptors. To come:

1. `CachedReplay`: the cached replay against a fresh one, with rows that raise.
2. The working directory, hard links and mappings of descriptors in `Descriptors`, so
   that `MappedWrites` starts from open files.
3. `Reports`: the classification of `error_reporter` as pure operators against a
   reference.
4. Group stops, and the attach to threads that are created meanwhile, in `Tracer`.
5. Proofs: `ResultsPaired` of `Tracer`; `FilesRebuilt` of `Descriptors`.
