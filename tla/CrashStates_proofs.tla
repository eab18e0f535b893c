------------------------- MODULE CrashStates_proofs -------------------------
(***************************************************************************)
(* What the dependency calculus means.  Soundness (DiskRun): for every     *)
(* trace, whatever a crash of the file system of CrashDisk leaves behind   *)
(* is a valid combo.  Completeness (ComboBuilder): building a valid combo  *)
(* along any trace is a behaviour of that file system.  With what a client *)
(* adds (AddedDeps), the valid combos honour it and nothing else.  And the *)
(* searches of Combos: generate_combos collects valid combos only, and all *)
(* of them; count_combos meets each of them exactly once.                  *)
(***************************************************************************)
EXTENDS DiskRun, ComboBuilder, AddedDeps, Combos, TestSuite_proofs, FiniteSetTheorems

-----------------------------------------------------------------------------
(* Soundness: what the file system leaves behind                             *)

\* Every sync but the last operation has returned, and a sync that has
\* returned has kept its promise.
SyncsReturned ==
    \A t \in Ids : IsSync(t) /\ t \notin persisted => t = Len(op_list)

PromisesKept ==
    \A t \in persisted : \A i \in Ids : Covers(t, i) => i \in persisted

RunInv == IInv /\ persisted \subseteq Ids /\ SyncsReturned /\ PromisesKept

\* The file system's promise is the range test of the calculus.
LEMMA PromiseIsCover ==
    ASSUME IInv, NEW t \in Ids, NEW i \in Ids
    PROVE  Covers(t, i) <=> Disk!Promises(t, i)
  <1>1. op_list[i] \in Operation
    BY DEF IInv, TypeOK, Ids
  <1>. QED BY <1>1 DEF Covers, Disk!Promises, Disk!IsFsync, IsSync,
              is_included_in_sync_range, Operation, calls_of_interest, metadata_calls

LEMMA RunInit_RunInv == RunInit => RunInv
  <1>. SUFFICES ASSUME RunInit PROVE RunInv
    OBVIOUS
  <1>1. IInv /\ Ids = {} /\ persisted = {}
    BY InitIInv DEF RunInit, Init, Ids
  <1>. QED BY <1>1 DEF RunInv, SyncsReturned, PromisesKept

\* The program issues an operation: all the syncs before it have returned.
LEMMA IssueStep ==
    ASSUME RunInv, Next, Disk!Issue
    PROVE  RunInv'
  <1>1. PICK op \in Operation : op_list' = Append(op_list, op)
    BY NextAppends DEF Buffered, SyncOp
  <1>2. IInv'
    BY StepIInv DEF RunInv
  <1>. DEFINE id == NextId
  <1>3. /\ Len(op_list') = id /\ Ids' = Ids \cup {id}
        /\ Ids = 1..Len(op_list) /\ Len(op_list) \in Nat /\ id = Len(op_list) + 1
    BY <1>1, AppendKeeps DEF RunInv, IInv, TypeOK, NextId
  <1>4. /\ \A i \in Ids : IsSync(i)' <=> IsSync(i)
        /\ \A t, j \in Ids : Covers(t, j)' <=> Covers(t, j)
        /\ \A i : i = id => \A t \in Ids : ~ Covers(t, i)'
    BY <1>1, AppendKeepsMeaning DEF RunInv, IInv, TypeOK
  <1>. HIDE DEF id
  <1>5. persisted' = persisted /\ \A t \in Ids : IsSync(t) => t \in persisted
    BY DEF Disk!Issue, Disk!IsFsync, IsSync, Ids
  <1>6. SyncsReturned'
    BY <1>3, <1>4, <1>5 DEF SyncsReturned
  <1>7. PromisesKept'
    BY <1>3, <1>4, <1>5 DEF PromisesKept, RunInv
  <1>. QED BY <1>2, <1>3, <1>5, <1>6, <1>7 DEF RunInv

\* The file system works in the background; the trace stays as it is.
LEMMA DiskStep ==
    ASSUME RunInv, UNCHANGED vars,
           NEW i \in Ids, Disk!WriteBack(i) \/ Disk!Return(i)
    PROVE  RunInv'
  <1>1. IInv'
    BY StepIInv DEF RunInv
  <1>2. persisted' = persisted \cup {i} /\ op_list' = op_list /\ Ids' = Ids
    BY DEF Disk!WriteBack, Disk!Return, vars, Ids
  <1>3. /\ \A j : IsSync(j)' <=> IsSync(j)
        /\ \A t, j : Covers(t, j)' <=> Covers(t, j)
    BY <1>2 DEF IsSync, Covers
  <1>4. SyncsReturned'
    BY <1>2, <1>3 DEF SyncsReturned, RunInv
  <1>5. \A j \in Ids : Covers(i, j) => j \in persisted
    <2>1. CASE Disk!WriteBack(i)
      BY <2>1 DEF Disk!WriteBack, Disk!IsFsync, Covers, IsSync
    <2>2. CASE Disk!Return(i)
      BY <2>2, PromiseIsCover DEF Disk!Return, RunInv, Ids
    <2>. QED BY <2>1, <2>2
  <1>6. PromisesKept'
    BY <1>2, <1>3, <1>5 DEF PromisesKept, RunInv
  <1>. QED BY <1>1, <1>2, <1>4, <1>6 DEF RunInv

LEMMA RunStep == RunInv /\ [RunNext]_runVars => RunInv'
  <1>1. ASSUME RunInv, RunNext PROVE RunInv'
    BY <1>1, IssueStep, DiskStep DEF RunNext
  <1>2. ASSUME RunInv, UNCHANGED runVars PROVE RunInv'
    <2>1. IInv'
      BY <1>2, StepIInv DEF RunInv, runVars
    <2>. QED BY <1>2, <2>1 DEF RunInv, runVars, vars, SyncsReturned, PromisesKept,
                               Ids, IsSync, Covers
  <1>. QED BY <1>1, <1>2

\* An operation on disk has its deps on disk: a sync it depends on returned
\* before it was issued, and that sync's promises were kept.
LEMMA RunInvValid == RunInv => CrashStatesAreValid
  <1>. SUFFICES ASSUME RunInv, NEW i \in persisted, NEW j \in deps[i]
                PROVE  j \in persisted
    BY DEF CrashStatesAreValid, test_validity
  <1>1. i \in Ids /\ deps[i] = MeaningOfDeps(i) /\ deps[i] \subseteq 1..(i - 1)
        /\ 1..i \subseteq Ids /\ i \in Nat
    BY DepsBound DEF RunInv
  <1>2. \A t \in 1..i : IsSync(t) => t \in persisted
    BY <1>1 DEF RunInv, SyncsReturned, IInv, TypeOK, Ids
  <1>3. j \in Ids
    BY <1>1
  <1>. QED BY <1>1, <1>2, <1>3 DEF MeaningOfDeps, PromisesKept, RunInv, Covers

\* For every trace and every crash, the state left behind is a valid combo.
THEOREM CrashSound == RunSpec => []CrashStatesAreValid
  <1>1. RunSpec => []RunInv
    BY RunInit_RunInv, RunStep, PTL DEF RunSpec
  <1>. QED BY <1>1, RunInvValid, PTL

-----------------------------------------------------------------------------
(* Completeness: every valid combo is left behind by some crash             *)

BuilderInv == IInv /\ combo \subseteq Ids

LEMMA BuilderInit_Inv == BuilderInit => BuilderInv
  BY InitIInv DEF BuilderInit, BuilderInv

LEMMA BuilderStep_Inv == BuilderInv /\ [BuilderNext]_builderVars => BuilderInv'
  <1>. SUFFICES ASSUME BuilderInv, [BuilderNext]_builderVars PROVE BuilderInv'
    OBVIOUS
  <1>1. IInv' /\ Ids \subseteq Ids'
    <2>1. CASE Next
      <3>1. PICK op \in Operation : op_list' = Append(op_list, op)
        BY <2>1, NextAppends DEF Buffered, SyncOp
      <3>. QED BY <2>1, <3>1, StepIInv, AppendKeeps DEF BuilderInv, IInv, TypeOK
    <2>2. CASE UNCHANGED vars
      BY <2>2, StepIInv DEF BuilderInv, vars, Ids
    <2>. QED BY <2>1, <2>2 DEF BuilderNext, builderVars, Include
  <1>2. combo' \subseteq Ids \cup combo
    BY DEF BuilderNext, builderVars, Include, BuilderInv, IInv, TypeOK, Ids
  <1>. QED BY <1>1, <1>2 DEF BuilderInv

\* While no sync is missing from the combo, the program has issued all of the
\* trace.
LEMMA AllIssued ==
    ASSUME IInv, \A k \in Ids : Reached(k)
    PROVE  Issued = op_list
  BY DEF Issued, IInv, TypeOK, Ids

\* Appending to the trace issues the operation, or changes nothing on the disk
\* when the program still waits for a sync.
LEMMA AppendRefines ==
    ASSUME BuilderInv, Next, UNCHANGED combo
    PROVE  [BuiltDisk!DiskNext]_(BuiltDisk!diskVars)
  <1>1. PICK op \in Operation : op_list' = Append(op_list, op)
    BY NextAppends DEF Buffered, SyncOp
  <1>. DEFINE id == NextId
  <1>2. /\ Ids' = Ids \cup {id} /\ id \notin Ids
        /\ Ids = 1..Len(op_list) /\ Len(op_list) \in Nat /\ id = Len(op_list) + 1
        /\ op_list'[id] = op
        /\ \A i \in Ids : op_list'[i] = op_list[i]
    BY <1>1, AppendKeeps DEF BuilderInv, IInv, TypeOK, NextId
  <1>. HIDE DEF id
  <1>3. /\ \A k \in Ids : Reached(k)' <=> Reached(k)
        /\ \A k : k = id => (Reached(k)' <=> \A t \in Ids : IsSync(t) => t \in combo)
    <2>1. \A t \in Ids : IsSync(t)' <=> IsSync(t)
      BY <1>2 DEF IsSync
    <2>2. \A k \in Ids : 1..(k - 1) \subseteq Ids
      BY <1>2
    <2>3. 1..(id - 1) = Ids
      BY <1>2
    <2>4. combo' = combo
      OBVIOUS
    <2>. QED BY <2>1, <2>2, <2>3, <2>4 DEF Reached
  <1>4. CASE \A t \in Ids : IsSync(t) => t \in combo
    <2>1. Issued = op_list
      BY <1>2, <1>4, AllIssued DEF Reached, BuilderInv
    <2>2. \A k \in Ids' : Reached(k)'
      BY <1>2, <1>3, <1>4 DEF Reached
    <2>3. IInv'
      BY StepIInv DEF BuilderInv
    <2>4. Issued' = op_list'
      BY <2>2, <2>3 DEF Issued, IInv, TypeOK, Ids
    <2>5. \A t \in DOMAIN Issued : BuiltDisk!IsFsync(t) => t \in combo
      BY <1>4, <2>1 DEF BuiltDisk!IsFsync, IsSync, Ids
    <2>6. BuiltDisk!Issue
      BY <1>1, <2>1, <2>4, <2>5 DEF BuiltDisk!Issue
    <2>. QED BY <2>6 DEF BuiltDisk!DiskNext
  <1>5. CASE ~ \A t \in Ids : IsSync(t) => t \in combo
    <2>1. {k \in Ids' : Reached(k)'} = {k \in Ids : Reached(k)}
      BY <1>2, <1>3, <1>5
    <2>2. Issued' = Issued
      BY <1>2, <2>1 DEF Issued
    <2>. QED BY <2>2 DEF BuiltDisk!diskVars
  <1>. QED BY <1>4, <1>5

\* Including an operation writes it back or, if it is a sync, lets it return:
\* its deps are in the combo, so all it waited for is on disk.
LEMMA IncludeRefines ==
    ASSUME BuilderInv, Include
    PROVE  [BuiltDisk!DiskNext]_(BuiltDisk!diskVars)
  <1>. DEFINE last == Len(op_list)
  <1>1. /\ last \in Ids /\ Ids = 1..last /\ last \in Nat /\ 1 <= last
        /\ combo' = combo \cup {last} /\ op_list' = op_list
        /\ deps[last] \subseteq combo /\ deps[last] = MeaningOfDeps(last)
    BY DepsBound DEF Include, vars, BuilderInv, IInv, TypeOK, Ids
  <1>2. \A t \in 1..(last - 1) : IsSync(t) => t \in combo
    BY <1>1 DEF MeaningOfDeps
  <1>3. (\A k \in Ids : Reached(k)) /\ (\A k \in Ids : Reached(k)')
    BY <1>1, <1>2 DEF Reached, IsSync
  <1>4. Issued = op_list /\ Issued' = op_list
    <2>1. IInv'
      BY StepIInv DEF BuilderInv, Include
    <2>. QED BY <1>1, <1>3, <2>1, AllIssued DEF Issued, BuilderInv, IInv, TypeOK, Ids
  <1>5. CASE IsSync(last)
    <2>1. ASSUME NEW i \in Ids, BuiltDisk!Promises(last, i) PROVE i \in combo
      <3>1. op_list[i] \in Operation
        BY DEF BuilderInv, IInv, TypeOK, Ids
      <3>. HIDE DEF last
      <3>2. Covers(last, i)
        BY <1>4, <2>1, <3>1 DEF BuiltDisk!Promises, BuiltDisk!IsFsync, Covers, IsSync,
              is_included_in_sync_range, Operation, calls_of_interest, metadata_calls
      <3>. QED BY <1>1, <3>2 DEF MeaningOfDeps, Covers
    <2>2. BuiltDisk!Return(last)
      BY <1>1, <1>4, <1>5, <2>1 DEF BuiltDisk!Return, BuiltDisk!IsFsync, IsSync, Ids
    <2>. QED BY <1>1, <1>4, <2>2 DEF BuiltDisk!DiskNext, Ids
  <1>6. CASE ~ IsSync(last)
    <2>1. BuiltDisk!WriteBack(last)
      BY <1>1, <1>4, <1>6 DEF BuiltDisk!WriteBack, BuiltDisk!IsFsync, IsSync
    <2>. QED BY <1>1, <1>4, <2>1 DEF BuiltDisk!DiskNext, Ids
  <1>. QED BY <1>5, <1>6

\* For every trace, every valid combo is a crash state of the file system.
THEOREM CombosAreCrashStates == BuilderSpec => ImplementsDisk
  <1>1. BuilderInit => BuiltDisk!DiskInit
    <2>. SUFFICES ASSUME BuilderInit PROVE Issued = << >> /\ combo = {}
      BY DEF BuiltDisk!DiskInit
    <2>1. Ids = {} /\ op_list = << >> /\ combo = {}
      BY DEF BuilderInit, Init, Ids
    <2>2. IInv
      BY InitIInv DEF BuilderInit
    <2>. QED BY <2>1, <2>2, AllIssued
  <1>2. BuilderInv /\ [BuilderNext]_builderVars => [BuiltDisk!DiskNext]_(BuiltDisk!diskVars)
    <2>1. ASSUME UNCHANGED builderVars PROVE UNCHANGED BuiltDisk!diskVars
      BY <2>1 DEF builderVars, vars, BuiltDisk!diskVars, Issued, Ids, Reached, IsSync
    <2>. QED BY <2>1, AppendRefines, IncludeRefines DEF BuilderNext
  <1>. QED BY <1>1, <1>2, BuilderInit_Inv, BuilderStep_Inv, PTL
           DEF BuilderSpec, ImplementsDisk, BuiltDisk!DiskSpec

-----------------------------------------------------------------------------
(* add_deps_to_ops                                                           *)

\* What one pass does to the deps of operation i, given the deps g of the
\* operations before it.
PassAt(d, more, g, i) ==
    d[i] \cup more[i] \cup UNION {IF j < i THEN g[j] ELSE d[j] : j \in more[i]}

\* PassAt reads g only below i.
LEMMA PassAtLocal ==
    ASSUME NEW N \in Nat, NEW d, NEW more \in [1..N -> SUBSET (1..N)],
           NEW g, NEW h, NEW i \in 1..N, \A j \in 1..N : j < i => g[j] = h[j]
    PROVE  PassAt(d, more, g, i) = PassAt(d, more, h, i)
  <1>1. \A j \in more[i] : (IF j < i THEN g[j] ELSE d[j]) = (IF j < i THEN h[j] ELSE d[j])
    OBVIOUS
  <1>. QED BY <1>1 DEF PassAt

\* The pass is well defined: the loop that computes it builds the function.
LEMMA PassExists ==
    ASSUME NEW N \in Nat, NEW d, NEW more \in [1..N -> SUBSET (1..N)]
    PROVE  \E g : g = [i \in 1..N |-> PassAt(d, more, g, i)]
  <1>. DEFINE T == {n \in Nat : n <= N => \E g : g = [i \in 1..n |-> PassAt(d, more, g, i)]}
  <1>1. 0 \in T
    <2>1. \A i : i \notin 1..0
      OBVIOUS
    <2>. DEFINE e == [i \in 1..0 |-> 0]
    <2>2. e = [i \in 1..0 |-> PassAt(d, more, e, i)]
      BY <2>1
    <2>. QED BY <2>2
  <1>2. ASSUME NEW n \in Nat, n \in T PROVE n + 1 \in T
    <2>1. SUFFICES ASSUME n + 1 <= N
                   PROVE  \E g : g = [i \in 1..(n + 1) |-> PassAt(d, more, g, i)]
      OBVIOUS
    <2>2. PICK g : g = [i \in 1..n |-> PassAt(d, more, g, i)]
      BY <1>2, <2>1
    <2>. DEFINE h == [i \in 1..(n + 1) |->
                         IF i = n + 1 THEN PassAt(d, more, g, n + 1) ELSE g[i]]
    <2>3. ASSUME NEW i \in 1..(n + 1) PROVE h[i] = PassAt(d, more, h, i)
      <3>1. i \in 1..N /\ \A j \in 1..N : j < i => g[j] = h[j]
        BY <2>1
      <3>2. PassAt(d, more, g, i) = PassAt(d, more, h, i)
        <4>. HIDE DEF h
        <4>. QED BY <3>1, PassAtLocal
      <3>3. h[i] = PassAt(d, more, g, i)
        BY <2>2, SMTT(20)
      <3>. QED BY <3>2, <3>3
    <2>4. h = [i \in 1..(n + 1) |-> h[i]]
      OBVIOUS
    <2>. HIDE DEF h
    <2>5. h = [i \in 1..(n + 1) |-> PassAt(d, more, h, i)]
      BY <2>3, <2>4
    <2>. QED BY <2>5
  <1>3. N \in T
    <2>. HIDE DEF T
    <2>. QED BY <1>1, <1>2, NatSetInduction
  <1>. QED BY <1>3

\* So Pass satisfies the equation it is defined by.
LEMMA PassUnfolds ==
    ASSUME NEW N \in Nat, Ids = 1..N,
           NEW d, NEW more \in [1..N -> SUBSET (1..N)], NEW f, f = Pass(d, more)
    PROVE  f = [i \in 1..N |-> PassAt(d, more, f, i)]
  <1>. DEFINE Good(g) == g = [i \in 1..N |-> PassAt(d, more, g, i)]
  <1>1. f = CHOOSE g : Good(g)
    BY DEF Pass, PassAt
  <1>2. \E g : Good(g)
    BY PassExists
  <1>. QED BY <1>1, <1>2

\* What a pass yields: for each operation the three sources of its deps.
LEMMA PassYields ==
    ASSUME NEW N \in Nat, Ids = 1..N,
           NEW d \in [1..N -> SUBSET (1..N)], NEW more \in [1..N -> SUBSET (1..N)],
           NEW f, f = Pass(d, more)
    PROVE  /\ f \in [1..N -> SUBSET (1..N)]
           /\ \A i \in 1..N : \A k : k \in f[i] <=>
                 \/ k \in d[i] \/ k \in more[i]
                 \/ \E j \in more[i] : IF j < i THEN k \in f[j] ELSE k \in d[j]
  <1>1. f = [i \in 1..N |-> PassAt(d, more, f, i)]
    BY PassUnfolds
  <1>2. \A i \in 1..N : \A k : k \in f[i] <=>
           \/ k \in d[i] \/ k \in more[i]
           \/ \E j \in more[i] : IF j < i THEN k \in f[j] ELSE k \in d[j]
    BY <1>1, SMTT(20) DEF PassAt
  <1>. DEFINE T == {n \in Nat : \A i \in 1..N : i <= n => f[i] \subseteq 1..N}
  <1>3. 0 \in T
    OBVIOUS
  <1>4. ASSUME NEW n \in Nat, n \in T PROVE n + 1 \in T
    <2>1. SUFFICES ASSUME NEW i \in 1..N, i <= n + 1, NEW k \in f[i] PROVE k \in 1..N
      OBVIOUS
    <2>2. \A j \in more[i] : j \in 1..N /\ (j < i => f[j] \subseteq 1..N)
      BY <1>4, <2>1
    <2>. QED BY <1>2, <2>1, <2>2
  <1>5. N \in T
    <2>. HIDE DEF T
    <2>. QED BY <1>3, <1>4, NatSetInduction
  <1>6. f \in [1..N -> SUBSET (1..N)]
    BY <1>1, <1>5
  <1>. QED BY <1>2, <1>6

\* A pass does not lead out of a set that has the deps of its operations.
LEMMA PassStays ==
    ASSUME NEW N \in Nat, Ids = 1..N,
           NEW d \in [1..N -> SUBSET (1..N)], NEW more \in [1..N -> SUBSET (1..N)],
           NEW S \in SUBSET (1..N), \A i \in S : d[i] \subseteq S /\ more[i] \subseteq S,
           NEW f, f = Pass(d, more)
    PROVE  \A i \in S : f[i] \subseteq S
  <1>1. /\ f \in [1..N -> SUBSET (1..N)]
        /\ \A i \in 1..N : \A k : k \in f[i] <=>
              \/ k \in d[i] \/ k \in more[i]
              \/ \E j \in more[i] : IF j < i THEN k \in f[j] ELSE k \in d[j]
    BY PassYields
  <1>. DEFINE T == {n \in Nat : \A i \in S : i <= n => f[i] \subseteq S}
  <1>2. 0 \in T
    OBVIOUS
  <1>3. ASSUME NEW n \in Nat, n \in T PROVE n + 1 \in T
    <2>1. SUFFICES ASSUME NEW i \in S, i <= n + 1, NEW k \in f[i] PROVE k \in S
      OBVIOUS
    <2>2. \A j \in more[i] : j \in S /\ d[j] \subseteq S /\ (j < i => f[j] \subseteq S)
      BY <1>3, <2>1
    <2>. QED BY <1>1, <2>1, <2>2
  <1>4. N \in T
    <2>. HIDE DEF T
    <2>. QED BY <1>2, <1>3, NatSetInduction
  <1>. QED BY <1>4

\* When everything points backwards, the second pass meets the deps of each
\* dep in their final form, and closes them.
LEMMA BackwardPasses ==
    ASSUME NEW N \in Nat, Ids = 1..N,
           NEW d \in [1..N -> SUBSET (1..N)], NEW more \in [1..N -> SUBSET (1..N)],
           \A i \in 1..N : \A j \in d[i] \cup more[i] : j < i,
           NEW a, a = Pass(d, more), NEW f, f = Pass(a, a)
    PROVE  /\ \A i \in 1..N : \A j \in f[i] : j < i
           /\ \A i \in 1..N : \A j \in f[i] : f[j] \subseteq f[i]
  <1>1. /\ a \in [1..N -> SUBSET (1..N)]
        /\ \A i \in 1..N : \A k : k \in a[i] <=>
              \/ k \in d[i] \/ k \in more[i]
              \/ \E j \in more[i] : IF j < i THEN k \in a[j] ELSE k \in d[j]
    BY PassYields
  <1>2. \A i \in 1..N : \A j \in a[i] : j < i
    <2>. DEFINE T == {n \in Nat : \A i \in 1..N : i <= n => \A j \in a[i] : j < i}
    <2>1. 0 \in T
      OBVIOUS
    <2>2. ASSUME NEW n \in Nat, n \in T PROVE n + 1 \in T
      <3>1. SUFFICES ASSUME NEW i \in 1..N, i <= n + 1, NEW k \in a[i] PROVE k < i
        OBVIOUS
      <3>2. k \in 1..N
        BY <1>1, <3>1
      <3>3. \A j \in more[i] : j \in 1..N /\ j < i /\ \A m \in a[j] : m < j
        BY <2>2, <3>1
      <3>4. CASE k \in d[i] \/ k \in more[i]
        BY <3>4
      <3>5. CASE \E j \in more[i] : k \in a[j]
        BY <3>2, <3>3, <3>5
      <3>. QED BY <1>1, <3>1, <3>3, <3>4, <3>5
    <2>3. N \in T
      <3>. HIDE DEF T
      <3>. QED BY <2>1, <2>2, NatSetInduction
    <2>. QED BY <2>3
  <1>3. /\ f \in [1..N -> SUBSET (1..N)]
        /\ \A i \in 1..N : \A k : k \in f[i] <=>
              \/ k \in a[i] \/ k \in a[i]
              \/ \E j \in a[i] : IF j < i THEN k \in f[j] ELSE k \in a[j]
    BY <1>1, PassYields
  <1>4. \A i \in 1..N : \A k : k \in f[i] <=> k \in a[i] \/ \E j \in a[i] : k \in f[j]
    BY <1>2, <1>3
  <1>. DEFINE T == {n \in Nat : \A i \in 1..N : i <= n =>
                       \A j \in f[i] : j < i /\ f[j] \subseteq f[i]}
  <1>5. 0 \in T
    OBVIOUS
  <1>6. ASSUME NEW n \in Nat, n \in T PROVE n + 1 \in T
    <2>1. SUFFICES ASSUME NEW i \in 1..N, i <= n + 1, NEW k \in f[i]
                   PROVE  k < i /\ f[k] \subseteq f[i]
      OBVIOUS
    <2>2. k \in 1..N
      BY <1>3, <2>1
    <2>3. CASE k \in a[i]
      BY <1>2, <1>4, <2>1, <2>2, <2>3
    <2>4. CASE \E j \in a[i] : k \in f[j]
      <3>1. PICK j \in a[i] : k \in f[j]
        BY <2>4
      <3>2. j \in 1..N /\ j < i /\ j <= n
        BY <1>1, <1>2, <2>1, <3>1
      <3>3. k < j /\ f[k] \subseteq f[j]
        BY <1>6, <3>1, <3>2
      <3>4. f[j] \subseteq f[i]
        BY <1>4, <2>1, <3>1
      <3>. QED BY <2>1, <2>2, <3>2, <3>3, <3>4
    <2>. QED BY <1>4, <2>1, <2>3, <2>4
  <1>7. N \in T
    <2>. HIDE DEF T
    <2>. QED BY <1>5, <1>6, NatSetInduction
  <1>. QED BY <1>7

Closed(N, d) == \A i \in 1..N : \A j \in d[i] : d[j] \subseteq d[i]

AddsOne(N, more) ==
    \E x, y \in 1..N : more[x] = {y} /\ \A i \in 1..N : i # x => more[i] = {}

\* When one dependency <<x, y>> is added to deps that are closed, each
\* operation that depends on x gets y and its deps, and no other changes.
LEMMA SinglePasses ==
    ASSUME NEW N \in Nat, Ids = 1..N,
           NEW d \in [1..N -> SUBSET (1..N)], Closed(N, d),
           NEW more \in [1..N -> SUBSET (1..N)], AddsOne(N, more),
           NEW a, a = Pass(d, more), NEW f, f = Pass(a, a)
    PROVE  Closed(N, f)
  <1>0. PICK x \in 1..N, y \in 1..N :
            more[x] = {y} /\ \A i \in 1..N : i # x => more[i] = {}
    BY DEF AddsOne
  <1>a. \A i \in 1..N : \A j \in d[i] : d[j] \subseteq d[i]
    BY DEF Closed
  <1>. DEFINE Gain == {y} \cup d[y]
              Gains(i) == i = x \/ x \in d[i]
  <1>1. /\ a \in [1..N -> SUBSET (1..N)]
        /\ \A i \in 1..N : \A k : k \in a[i] <=>
              \/ k \in d[i] \/ k \in more[i]
              \/ \E j \in more[i] : IF j < i THEN k \in a[j] ELSE k \in d[j]
    BY PassYields
  <1>2. \A i \in 1..N : i # x => a[i] = d[i]
    <2>1. \A i \in 1..N : i # x => \A k : k \in a[i] <=> k \in d[i]
      BY <1>0, <1>1
    <2>2. ASSUME NEW i \in 1..N, i # x PROVE a[i] = d[i]
      <3>1. \A k : k \in a[i] <=> k \in d[i]
        BY <2>1, <2>2
      <3>2. a[i] \subseteq 1..N /\ d[i] \subseteq 1..N
        BY <1>1
      <3>. QED BY <3>1, <3>2
    <2>. QED BY <2>2
  <1>3. a[x] = d[x] \cup Gain
    <2>1. \A k : k \in a[x] <=> k \in d[x] \/ k = y \/ (IF y < x THEN k \in a[y] ELSE k \in d[y])
      BY <1>0, <1>1
    <2>2. y < x => a[y] = d[y]
      BY <1>2
    <2>3. \A k : k \in a[x] <=> k \in d[x] \/ k = y \/ k \in d[y]
      BY <2>1, <2>2
    <2>. QED BY <2>3
  <1>4. /\ f \in [1..N -> SUBSET (1..N)]
        /\ \A i \in 1..N : \A k : k \in f[i] <=>
              \/ k \in a[i] \/ k \in a[i]
              \/ \E j \in a[i] : IF j < i THEN k \in f[j] ELSE k \in a[j]
    BY <1>1, PassYields
  <1>5. /\ Gain \subseteq 1..N
        /\ \A j \in Gain : d[j] \subseteq Gain
        /\ \A i \in 1..N : \A j \in d[i] : j \in 1..N /\ (Gains(j) => Gains(i))
    BY DEF Closed
  <1>. DEFINE Final(i) == IF Gains(i) THEN d[i] \cup Gain ELSE d[i]
              T == {n \in Nat : \A i \in 1..N : i <= n => f[i] = Final(i)}
  <1>. HIDE DEF Final
  <1>6. 0 \in T
    OBVIOUS
  <1>7. ASSUME NEW n \in Nat, n \in T PROVE n + 1 \in T
    <2>1. SUFFICES ASSUME NEW i \in 1..N, i <= n + 1 PROVE f[i] = Final(i)
      OBVIOUS
    <2>. DEFINE Seen(j) == IF j < i THEN f[j] ELSE a[j]
    <2>2. \A k : k \in f[i] <=> k \in a[i] \/ \E j \in a[i] : k \in Seen(j)
      BY <1>4, <2>1
    <2>3. \A j \in 1..N : j < i => f[j] = Final(j)
      BY <1>7, <2>1
    <2>4. \A j \in 1..N : d[j] \subseteq Seen(j) /\ Seen(j) \subseteq d[j] \cup Gain
      <3>1. \A j \in 1..N : d[j] \subseteq Final(j) /\ Final(j) \subseteq d[j] \cup Gain
        BY DEF Final
      <3>2. \A j \in 1..N : d[j] \subseteq a[j] /\ a[j] \subseteq d[j] \cup Gain
        BY <1>2, <1>3
      <3>3. \A j \in 1..N : (Seen(j) = f[j] /\ j < i) \/ Seen(j) = a[j]
        OBVIOUS
      <3>. HIDE DEF Gain, Seen
      <3>. QED BY <2>3, <3>1, <3>2, <3>3
    <2>5. CASE i = x
      <3>1. \A j \in a[i] : j \in 1..N /\ Seen(j) \subseteq d[x] \cup Gain
        <4>1. SUFFICES ASSUME NEW j \in a[i] PROVE j \in 1..N /\ d[j] \subseteq d[x] \cup Gain
          BY <2>4
        <4>. HIDE DEF Gain
        <4>. QED BY <1>a, <1>3, <1>5, <2>5, <4>1
      <3>. HIDE DEF Seen, Gain
      <3>2. f[i] = d[x] \cup Gain
        <4>1. \A k : k \in f[i] <=> k \in d[x] \cup Gain
          BY <1>3, <2>2, <2>5, <3>1
        <4>. QED BY <4>1
      <3>. QED BY <2>5, <3>2 DEF Final
    <2>6. CASE i # x /\ x \in d[i]
      <3>1. a[i] = d[i] /\ x \in 1..N
        BY <1>2, <2>6
      <3>2. Gain \subseteq Seen(x)
        <4>1. x < i => f[x] = d[x] \cup Gain
          BY <2>3 DEF Final
        <4>. QED BY <1>3, <4>1
      <3>3. \A j \in d[i] : Seen(j) \subseteq d[i] \cup Gain
        BY <1>a, <1>5, <2>4
      <3>. HIDE DEF Seen, Gain
      <3>4. f[i] = d[i] \cup Gain
        <4>1. \A j \in d[i] : d[j] \subseteq d[i]
          BY DEF Closed
        <4>2. \A k : k \in f[i] <=> k \in d[i] \cup Gain
          BY <2>2, <2>6, <3>1, <3>2, <3>3, <4>1
        <4>. QED BY <4>2
      <3>. QED BY <2>6, <3>4 DEF Final
    <2>7. CASE i # x /\ x \notin d[i]
      <3>1. a[i] = d[i]
        BY <1>2, <2>7
      <3>2. \A j \in d[i] : Seen(j) = d[j]
        <4>1. \A j \in d[i] : j \in 1..N /\ ~ Gains(j)
          BY <1>5, <2>7
        <4>. QED BY <1>2, <2>3, <4>1 DEF Final
      <3>. HIDE DEF Seen, Gain
      <3>3. \A k : k \in f[i] <=> k \in d[i]
        BY <1>a, <2>2, <3>1, <3>2
      <3>4. f[i] = d[i]
        BY <3>3
      <3>. QED BY <2>7, <3>4 DEF Final
    <2>. QED BY <2>5, <2>6, <2>7
  <1>8. N \in T
    <2>. HIDE DEF T
    <2>. QED BY <1>6, <1>7, NatSetInduction
  <1>9. \A i \in 1..N : f[i] = Final(i)
    BY <1>8
  <1>. HIDE DEF T
  <1>10. ASSUME NEW i \in 1..N, NEW j \in f[i] PROVE f[j] \subseteq f[i]
    <2>1. j \in 1..N /\ f[j] \subseteq d[j] \cup Gain
      <3>1. j \in 1..N
        BY <1>4
      <3>. QED BY <1>9, <3>1 DEF Final
    <2>2. CASE j \in d[i]
      <3>1. d[j] \subseteq d[i] /\ (Gains(j) => Gains(i))
        BY <1>a, <1>5, <2>2
      <3>2. f[i] = Final(i) /\ f[j] = Final(j)
        BY <1>9, <2>1
      <3>3. CASE Gains(j)
        <4>1. f[i] = d[i] \cup Gain /\ f[j] = d[j] \cup Gain
          BY <3>1, <3>2, <3>3 DEF Final
        <4>. QED BY <3>1, <4>1
      <3>4. CASE ~ Gains(j)
        <4>1. f[j] = d[j] /\ d[i] \subseteq f[i]
          BY <3>2, <3>4 DEF Final
        <4>. QED BY <3>1, <4>1
      <3>. HIDE DEF Gains
      <3>. QED BY <3>3, <3>4
    <2>3. CASE j \in Gain /\ Gains(i)
      <3>1. f[i] = d[i] \cup Gain /\ d[j] \subseteq Gain
        BY <1>5, <1>9, <2>3 DEF Final
      <3>. QED BY <2>1, <3>1
    <2>. QED BY <1>9, <2>2, <2>3 DEF Final
  <1>. QED BY <1>10 DEF Closed

\* The invariant of a suite with added dependencies.  That deps are closed when
\* all dependencies point backwards needs that no dep points forwards.
AddedInv ==
    /\ op_list \in Seq(Operation)
    /\ deps \in [Ids -> SUBSET Ids]
    /\ batches \in Seq(SUBSET (Ids \X Ids))
    /\ batches = << >> => IInv
    /\ \A i \in Ids : MeaningOfDeps(i) \subseteq deps[i]
    /\ \A c \in SUBSET Ids : Honours(c) => test_validity(c)
    /\ \A p \in Required : p[2] \in deps[p[1]]
    /\ Backward => \A i \in Ids : \A j \in deps[i] : j < i
    /\ Backward \/ OneAtATime => \A i \in Ids : \A j \in deps[i] : deps[j] \subseteq deps[i]

\* The computed deps of a suite to which nothing was added.
LEMMA ComputedInv == IInv /\ batches = << >> => AddedInv
  <1>. SUFFICES ASSUME IInv, batches = << >> PROVE AddedInv
    OBVIOUS
  <1>1. op_list \in Seq(Operation) /\ Ids = 1..Len(op_list) /\ Ids = DOMAIN deps
    BY DEF IInv, TypeOK, Ids
  <1>2. \A i \in Ids : \A j \in deps[i] : j \in Ids /\ j < i
    BY <1>1, DepsBound
  <1>3. deps \in [Ids -> SUBSET Ids]
    <2>1. deps = [i \in Ids |-> deps[i]]
      BY <1>1 DEF IInv, TypeOK
    <2>. QED BY <1>2, <2>1
  <1>4. Required = {} /\ batches \in Seq(SUBSET (Ids \X Ids))
    BY DEF Required
  <1>5. \A i \in Ids : \A j \in deps[i] : deps[j] \subseteq deps[i]
    BY IInvClosed DEF DepsClosed
  <1>6. \A i \in Ids : deps[i] = MeaningOfDeps(i)
    BY DEF IInv, DepsExact
  <1>7. \A c \in SUBSET Ids : Honours(c) => test_validity(c)
    BY <1>6 DEF Honours, test_validity
  <1>. QED BY <1>1, <1>2, <1>3, <1>4, <1>5, <1>6, <1>7 DEF AddedInv

\* One call adds what is required, and keeps what was.
LEMMA AddDepsStep ==
    ASSUME AddedInv, AddDeps
    PROVE  AddedInv'
  <1>. PICK dep_list \in SUBSET (Ids \X Ids) :
          /\ dep_list # {} /\ Cardinality(dep_list) <= MaxPairs
          /\ add_deps_to_ops(dep_list)
          /\ batches' = Append(batches, dep_list)
    BY DEF AddDeps
  <1>1. PICK N \in Nat : Ids = 1..N
    BY DEF AddedInv, Ids
  <1>2. PICK more : more = [x \in Ids |-> {y \in Ids : <<x, y>> \in dep_list}]
    OBVIOUS
  <1>3. PICK a : a = Pass(deps, more)
    OBVIOUS
  <1>4. PICK f : f = Pass(a, a)
    OBVIOUS
  <1>5. /\ deps' = f /\ op_list' = op_list /\ Ids' = Ids
        /\ batches' = Append(batches, dep_list)
    BY <1>2, <1>3, <1>4 DEF add_deps_to_ops, AddDeps, Ids
  <1>6. /\ more \in [1..N -> SUBSET (1..N)] /\ deps \in [1..N -> SUBSET (1..N)]
        /\ \A x, y \in 1..N : y \in more[x] <=> <<x, y>> \in dep_list
    BY <1>1, <1>2 DEF AddedInv
  <1>7. /\ a \in [1..N -> SUBSET (1..N)]
        /\ \A i \in 1..N : deps[i] \subseteq a[i] /\ more[i] \subseteq a[i]
    BY <1>1, <1>3, <1>6, PassYields
  <1>8. /\ f \in [1..N -> SUBSET (1..N)]
        /\ \A i \in 1..N : a[i] \subseteq f[i]
    BY <1>1, <1>4, <1>7, PassYields
  <1>9. batches' \in Seq(SUBSET (Ids \X Ids))' /\ batches' # << >>
        /\ Required' = Required \cup dep_list
    <2>1. batches \in Seq(SUBSET (Ids \X Ids))
      BY DEF AddedInv
    <2>2. /\ batches' \in Seq(SUBSET (Ids \X Ids)) /\ batches' # << >>
          /\ DOMAIN batches' = DOMAIN batches \cup {Len(batches) + 1}
          /\ batches'[Len(batches) + 1] = dep_list
          /\ \A n \in DOMAIN batches : batches'[n] = batches[n]
      BY <1>5, <2>1
    <2>. QED BY <1>5, <2>2 DEF Required
  <1>10. Required \subseteq Ids \X Ids
    BY DEF AddedInv, Required
  <1>11. \A p \in Required' : p[2] \in deps'[p[1]]
    <2>1. SUFFICES ASSUME NEW x \in 1..N, NEW y \in 1..N, <<x, y>> \in Required \cup dep_list
                   PROVE  y \in f[x]
      BY <1>1, <1>5, <1>9, <1>10
    <2>2. CASE <<x, y>> \in Required
      <3>1. y \in deps[x]
        BY <2>2 DEF AddedInv
      <3>. QED BY <1>7, <1>8, <3>1
    <2>3. CASE <<x, y>> \in dep_list
      BY <1>6, <1>7, <1>8, <2>3
    <2>. QED BY <2>1, <2>2, <2>3
  <1>12. ASSUME Backward'
         PROVE  /\ \A i \in Ids : \A j \in f[i] : j < i
                /\ \A i \in Ids : \A j \in f[i] : f[j] \subseteq f[i]
    <2>1. \A p \in Required \cup dep_list : p[2] < p[1]
      BY <1>9, <1>12 DEF Backward
    <2>2. \A i \in 1..N : \A j \in deps[i] \cup more[i] : j < i
      <3>1. \A i \in 1..N : \A j \in deps[i] : j < i
        BY <1>1, <2>1 DEF Backward, AddedInv
      <3>2. ASSUME NEW i \in 1..N, NEW j \in more[i] PROVE j < i
        <4>1. <<i, j>> \in dep_list
          BY <1>6
        <4>2. <<i, j>>[2] < <<i, j>>[1]
          BY <2>1, <4>1, Zenon
        <4>. QED BY <4>2
      <3>. QED BY <3>1, <3>2
    <2>. HIDE DEF Ids
    <2>. QED BY <1>1, <1>3, <1>4, <1>6, <2>2, BackwardPasses, ZenonT(40)
  <1>13. ASSUME OneAtATime'
         PROVE  \A i \in Ids : \A j \in f[i] : f[j] \subseteq f[i]
    <2>1. Cardinality(dep_list) = 1 /\ OneAtATime
      <3>1. batches \in Seq(SUBSET (Ids \X Ids))
        BY DEF AddedInv
      <3>2. /\ DOMAIN batches' = DOMAIN batches \cup {Len(batches) + 1}
            /\ batches'[Len(batches) + 1] = dep_list
            /\ \A n \in DOMAIN batches : batches'[n] = batches[n]
        BY <1>5, <3>1
      <3>. QED BY <1>13, <3>2 DEF OneAtATime
    <2>2. PICK x \in 1..N, y \in 1..N : dep_list = {<<x, y>>}
      <3>1. IsFiniteSet(dep_list)
        <4>1. IsFiniteSet(1..N)
          BY FS_Interval
        <4>2. IsFiniteSet((1..N) \X (1..N))
          BY <4>1, FS_Product
        <4>. QED BY <1>1, <4>2, FS_Subset
      <3>2. PICK p : dep_list = {p}
        BY <2>1, <3>1, FS_Singleton
      <3>3. PICK x \in 1..N, y \in 1..N : p = <<x, y>>
        <4>1. p \in (1..N) \X (1..N)
          BY <1>1, <3>2
        <4>. QED BY <4>1
      <3>. QED BY <3>2, <3>3
    <2>3. AddsOne(N, more)
      BY <1>6, <2>2 DEF AddsOne
    <2>4. Closed(N, deps)
      BY <1>1, <2>1 DEF AddedInv, Closed
    <2>. HIDE DEF Ids
    <2>5. Closed(N, f)
      BY <1>1, <1>3, <1>4, <1>6, <2>3, <2>4, SinglePasses
    <2>. QED BY <1>1, <2>5 DEF Closed
  <1>14. op_list' \in Seq(Operation)
    BY <1>5 DEF AddedInv
  <1>15. deps' \in [Ids' -> SUBSET Ids']
    BY <1>1, <1>5, <1>8
  <1>16. \A i \in Ids : MeaningOfDeps(i)' = MeaningOfDeps(i)
    BY <1>5 DEF MeaningOfDeps, Covers, IsSync
  <1>17. \A i \in Ids : MeaningOfDeps(i) \subseteq f[i]
    BY <1>1, <1>7, <1>8 DEF AddedInv
  <1>18. ASSUME NEW S \in SUBSET (1..N), Honours(S)'
         PROVE  \A i \in S : f[i] \subseteq S
    <2>1. Honours(S)
      BY <1>1, <1>9, <1>16, <1>18 DEF Honours
    <2>2. \A i \in S : deps[i] \subseteq S
      BY <1>1, <2>1 DEF AddedInv, test_validity
    <2>3. \A i \in S : more[i] \subseteq S
      <3>1. SUFFICES ASSUME NEW i \in S, NEW j \in more[i] PROVE j \in S
        OBVIOUS
      <3>2. <<i, j>> \in Required'
        BY <1>6, <1>9, <3>1
      <3>. QED BY <1>18, <3>2 DEF Honours
    <2>4. \A i \in S : deps[i] \subseteq S /\ more[i] \subseteq S
      BY <2>2, <2>3
    <2>. HIDE DEF Ids
    <2>5. \A i \in S : a[i] \subseteq S
      <3>. DEFINE d == deps
      <3>1. d \in [1..N -> SUBSET (1..N)] /\ more \in [1..N -> SUBSET (1..N)]
        BY <1>6
      <3>2. \A i \in S : d[i] \subseteq S /\ more[i] \subseteq S
        BY <2>4
      <3>3. a = Pass(d, more)
        BY <1>3
      <3>. HIDE DEF d
      <3>. QED BY <1>1, <3>1, <3>2, <3>3, PassStays, ZenonT(30)
    <2>6. \A i \in S : a[i] \subseteq S /\ a[i] \subseteq S
      BY <2>5
    <2>. QED BY <1>1, <1>4, <1>7, <2>6, PassStays, ZenonT(30)
  <1>19. \A c \in SUBSET Ids' : Honours(c)' => test_validity(c)'
    BY <1>1, <1>5, <1>18 DEF test_validity
  <1>. QED BY <1>5, <1>9, <1>11, <1>12, <1>13, <1>14, <1>15, <1>16, <1>17, <1>19 DEF AddedInv

LEMMA AddedStep == AddedInv /\ [AddedNext]_addedVars => AddedInv'
  <1>0. (IInv /\ batches = << >>)' => AddedInv'
    BY ComputedInv, PTL
  <1>. SUFFICES ASSUME AddedInv, [AddedNext]_addedVars PROVE AddedInv'
    OBVIOUS
  <1>1. CASE Next /\ batches = << >> /\ UNCHANGED batches
    <2>1. IInv' /\ batches' = << >>
      BY <1>1, StepIInv DEF AddedInv
    <2>. QED BY <1>0, <2>1
  <1>2. CASE AddDeps
    BY <1>2, AddDepsStep
  <1>3. CASE UNCHANGED addedVars
    <2>1. IInv => IInv'
      BY <1>3, StepIInv DEF addedVars
    <2>2. UNCHANGED <<op_list, deps, batches>>
      BY <1>3 DEF addedVars, vars
    <2>3. Ids' = Ids /\ Required' = Required
      BY <2>2 DEF Ids, Required
    <2>4. Backward' = Backward /\ OneAtATime' = OneAtATime
      BY <2>2, <2>3 DEF Backward, OneAtATime
    <2>5. \A i : MeaningOfDeps(i)' = MeaningOfDeps(i)
      BY <2>2 DEF MeaningOfDeps, Covers, IsSync
    <2>6. \A c \in SUBSET Ids' : Honours(c)' => test_validity(c)'
      <3>1. SUFFICES ASSUME NEW c \in SUBSET Ids, Honours(c)' PROVE test_validity(c)'
        BY <2>3
      <3>2. Honours(c)
        BY <2>3, <2>5, <3>1 DEF Honours
      <3>. QED BY <2>2, <3>2 DEF AddedInv, test_validity
    <2>. QED BY <2>1, <2>2, <2>3, <2>4, <2>5, <2>6 DEF AddedInv
  <1>. QED BY <1>1, <1>2, <1>3 DEF AddedNext

\* For every trace and whatever a client adds in any number of calls, the valid
\* combos are those that honour the computed and all the added dependencies, and
\* what was asked for is in deps; deps are transitively closed if all the
\* dependencies point backwards or each call adds one (auto_test.py:485-506).
THEOREM AddedDepsAreExact == AddedSpec => []AddedDepsExact
  <1>1. AddedInit => AddedInv
    BY InitIInv, ComputedInv DEF AddedInit
  <1>2. AddedInv => AddedDepsExact
    <2>. SUFFICES ASSUME AddedInv PROVE AddedDepsExact
      OBVIOUS
    <2>1. ASSUME NEW c \in SUBSET Ids, test_validity(c) PROVE Honours(c)
      <3>1. \A i \in c : MeaningOfDeps(i) \subseteq c
        BY <2>1 DEF AddedInv, test_validity
      <3>2. \A p \in Required : p[1] \in c => p[2] \in c
        BY <2>1 DEF AddedInv, test_validity
      <3>. QED BY <3>1, <3>2 DEF Honours
    <2>. QED BY <2>1 DEF AddedInv, AddedDepsExact
  <1>. QED BY <1>1, <1>2, AddedStep, PTL DEF AddedSpec

-----------------------------------------------------------------------------
(* The searches for combos                                                   *)

\* The combos that an active call has yet to collect, in its own loop or in
\* the calls it makes: they keep what the call kept of the operations before
\* its next candidate, and go on from that candidate.
ToCome(f, c) ==
    /\ c \cap (1..(f.i - 1)) = (1..(f.i - 1)) \ f.local_drop_set
    /\ \E k \in c : k >= f.i

FrameOK(f) ==
    f \in Frame /\ 1 <= f.i /\ f.local_drop_set \subseteq 1..(f.i - 1)

StackOK == stack \in Seq(Frame) /\ \A n \in DOMAIN stack : FrameOK(stack[n])

\* While an unlimited search runs, a combo not collected yet is still to come.
NoneForgotten ==
    mode = "generating" /\ max_combo_limit = 0 =>
        \A c \in ValidCombos \ {{}} :
            c \in generated_combos \/ \E n \in DOMAIN stack : ToCome(stack[n], c)

Fresh ==
    /\ mode = "loading" => generated_combos = {}
    /\ {} \notin generated_combos

SearchInv ==
    /\ mode \in Modes /\ StackOK /\ Fresh
    /\ CombosValid /\ NoneForgotten /\ CombosComplete

CInv == IInv /\ SearchInv

-----------------------------------------------------------------------------
(* The stack                                                               *)

LEMMA PopFacts ==
    ASSUME NEW s \in Seq(Frame), s # << >>
    PROVE  /\ Head(s) = s[1] /\ 1 \in DOMAIN s
           /\ Tail(s) \in Seq(Frame) /\ Len(Tail(s)) = Len(s) - 1
           /\ \A n \in DOMAIN Tail(s) : Tail(s)[n] = s[n + 1] /\ n + 1 \in DOMAIN s
           /\ \A n \in DOMAIN s : n # 1 => n - 1 \in DOMAIN Tail(s) /\ s[n] = Tail(s)[n - 1]
  OBVIOUS

LEMMA PushFacts ==
    ASSUME NEW s \in Seq(Frame), NEW f \in Frame
    PROVE  /\ <<f>> \o s \in Seq(Frame)
           /\ 1 \in DOMAIN (<<f>> \o s) /\ (<<f>> \o s)[1] = f
           /\ \A n \in DOMAIN s : n + 1 \in DOMAIN (<<f>> \o s) /\ (<<f>> \o s)[n + 1] = s[n]
           /\ \A n \in DOMAIN (<<f>> \o s) : n # 1 =>
                 n - 1 \in DOMAIN s /\ (<<f>> \o s)[n] = s[n - 1]
  OBVIOUS

-----------------------------------------------------------------------------
(* What the deps say about the candidates                                  *)

\* A candidate that is not blocked makes a valid combo, since no operation
\* before it can be blocked either.
LEMMA AllowedIsValid ==
    ASSUME IInv, NEW i \in Ids, NEW drop, deps[i] \cap drop = {}
    PROVE  (1..i) \ drop \in ValidCombos
  <1>1. 1..i \subseteq Ids /\ i \in Nat
    BY DepsBound
  <1>2. ASSUME NEW k \in (1..i) \ drop PROVE deps[k] \subseteq (1..i) \ drop
    <2>1. k \in Ids /\ k \in Nat /\ deps[k] \subseteq 1..(k - 1) /\ k <= i
      BY <1>1, DepsBound
    <2>2. deps[k] \subseteq deps[i]
      <3>1. CASE k = i
        BY <3>1
      <3>2. CASE k # i
        BY <1>1, <2>1, <3>2, IInvBlocking DEF BlockingIsMonotone
      <3>. QED BY <3>1, <3>2
    <2>3. deps[k] \subseteq 1..i
      BY <1>1, <2>1
    <2>. QED BY <2>2, <2>3
  <1>. QED BY <1>1, <1>2 DEF ValidCombos, test_validity

\* Including an allowed candidate and going on, with it dropped, loses nothing.
LEMMA IncludeLosesNothing ==
    ASSUME NEW f, FrameOK(f), NEW c \in SUBSET (Nat \ {0}), ToCome(f, c)
    PROVE  \/ c = (1..f.i) \ f.local_drop_set
           \/ ToCome([i |-> f.i + 1, local_drop_set |-> f.local_drop_set], c)
           \/ ToCome([i |-> f.i + 1, local_drop_set |-> f.local_drop_set \cup {f.i}], c)
  <1>. DEFINE i == f.i
              drop == f.local_drop_set
  <1>1. i \in Nat /\ 1 <= i /\ drop \subseteq 1..(i - 1)
    BY DEF FrameOK, Frame
  <1>2. c \cap (1..(i - 1)) = (1..(i - 1)) \ drop /\ \E k \in c : k >= i
    BY DEF ToCome
  <1>. HIDE DEF i, drop
  <1>3. 1..((i + 1) - 1) = (1..(i - 1)) \cup {i} /\ 1..i = (1..(i - 1)) \cup {i}
        /\ i \notin 1..(i - 1)
    BY <1>1
  <1>4. CASE i \in c /\ \E k \in c : k >= i + 1
    <2>1. c \cap (1..((i + 1) - 1)) = (1..((i + 1) - 1)) \ drop
      BY <1>1, <1>2, <1>3, <1>4
    <2>. QED BY <1>4, <2>1 DEF ToCome, i, drop
  <1>5. CASE i \in c /\ ~ \E k \in c : k >= i + 1
    <2>1. c \subseteq 1..i
      <3>. SUFFICES ASSUME NEW k \in c PROVE k \in 1..i
        OBVIOUS
      <3>. QED BY <1>1, <1>5
    <2>. QED BY <1>1, <1>2, <1>3, <1>5, <2>1 DEF i, drop
  <1>6. CASE i \notin c
    <2>1. c \cap (1..((i + 1) - 1)) = (1..((i + 1) - 1)) \ (drop \cup {i})
      BY <1>1, <1>2, <1>3, <1>6
    <2>2. \E k \in c : k >= i + 1
      BY <1>1, <1>2, <1>6
    <2>. QED BY <2>1, <2>2 DEF ToCome, i, drop
  <1>. QED BY <1>4, <1>5, <1>6

\* Once a candidate is blocked, so is every later one: the call has nothing
\* more to collect.
LEMMA BlockedIsOver ==
    ASSUME IInv, NEW f, FrameOK(f), f.i \in Ids,
           deps[f.i] \cap f.local_drop_set # {},
           NEW c \in ValidCombos
    PROVE  ~ ToCome(f, c)
  <1>. SUFFICES ASSUME ToCome(f, c) PROVE FALSE
    OBVIOUS
  <1>1. f.i \in Nat /\ f.local_drop_set \subseteq 1..(f.i - 1)
    BY DEF FrameOK, Frame
  <1>2. PICK k \in c : k >= f.i
    BY DEF ToCome
  <1>3. PICK j \in deps[f.i] : j \in f.local_drop_set
    OBVIOUS
  <1>4. k \in Ids /\ deps[k] \subseteq c /\ k \in Nat
    BY DepsBound DEF ValidCombos, test_validity
  <1>5. j \in c
    <2>1. deps[f.i] \subseteq deps[k]
      <3>1. CASE k = f.i
        BY <3>1
      <3>2. CASE k # f.i
        BY <1>1, <1>2, <1>4, <3>2, IInvBlocking DEF BlockingIsMonotone
      <3>. QED BY <3>1, <3>2
    <2>. QED BY <1>3, <1>4, <2>1
  <1>. QED BY <1>1, <1>3, <1>5 DEF ToCome

LEMMA EndIsOver ==
    ASSUME IInv, NEW f, FrameOK(f), f.i > Len(op_list), NEW c \in ValidCombos
    PROVE  ~ ToCome(f, c)
  BY DEF FrameOK, Frame, IInv, TypeOK, ToCome, ValidCombos, Ids

LEMMA CombosArePositive ==
    ASSUME IInv PROVE ValidCombos \subseteq SUBSET (Nat \ {0})
  BY DEF ValidCombos, Ids, IInv, TypeOK

-----------------------------------------------------------------------------
(* The steps of the search                                                 *)

\* The innermost call and its successor, when it goes on to the next candidate.
LEMMA CallerFacts ==
    ASSUME StackOK, stack # << >>
    PROVE  /\ Caller = stack[1] /\ FrameOK(Caller) /\ 1 \in DOMAIN stack
           /\ Candidate = Caller.i
           /\ \A d \in {{}, {Candidate}} :
                 FrameOK([i |-> Candidate + 1,
                          local_drop_set |-> Caller.local_drop_set \cup d])
  <1>1. Caller = stack[1] /\ FrameOK(Caller) /\ 1 \in DOMAIN stack
    BY PopFacts DEF StackOK, Caller
  <1>2. ASSUME NEW d \in {{}, {Candidate}}
        PROVE  FrameOK([i |-> Candidate + 1,
                        local_drop_set |-> Caller.local_drop_set \cup d])
    BY <1>1 DEF FrameOK, Frame, Candidate
  <1>. QED BY <1>1, <1>2 DEF Candidate

LEMMA AdvancedFacts ==
    ASSUME StackOK, stack # << >>, NEW d \in {{}, {Candidate}}
    PROVE  /\ Advanced(d) \in Seq(Frame)
           /\ \A n \in DOMAIN Advanced(d) : FrameOK(Advanced(d)[n])
           /\ 1 \in DOMAIN Advanced(d)
           /\ Advanced(d)[1] = [i |-> Candidate + 1,
                                local_drop_set |-> Caller.local_drop_set \cup d]
           /\ \A n \in DOMAIN stack : n # 1 =>
                 n \in DOMAIN Advanced(d) /\ Advanced(d)[n] = stack[n]
  <1>. DEFINE f == [i |-> Candidate + 1,
                    local_drop_set |-> Caller.local_drop_set \cup d]
  <1>1. FrameOK(f) /\ f \in Frame
    BY CallerFacts DEF FrameOK
  <1>2. /\ Tail(stack) \in Seq(Frame)
        /\ \A n \in DOMAIN Tail(stack) : Tail(stack)[n] = stack[n + 1] /\ n + 1 \in DOMAIN stack
        /\ \A n \in DOMAIN stack : n # 1 =>
              n - 1 \in DOMAIN Tail(stack) /\ stack[n] = Tail(stack)[n - 1]
    BY PopFacts DEF StackOK
  <1>. HIDE DEF f
  <1>3. /\ <<f>> \o Tail(stack) \in Seq(Frame)
        /\ 1 \in DOMAIN (<<f>> \o Tail(stack)) /\ (<<f>> \o Tail(stack))[1] = f
        /\ \A n \in DOMAIN Tail(stack) : n + 1 \in DOMAIN (<<f>> \o Tail(stack))
                 /\ (<<f>> \o Tail(stack))[n + 1] = Tail(stack)[n]
        /\ \A n \in DOMAIN (<<f>> \o Tail(stack)) : n # 1 =>
                 n - 1 \in DOMAIN Tail(stack) /\ (<<f>> \o Tail(stack))[n] = Tail(stack)[n - 1]
    BY <1>1, <1>2, PushFacts
  <1>4. Advanced(d) = <<f>> \o Tail(stack)
    BY DEF Advanced, f
  <1>5. \A n \in DOMAIN stack : n \in Nat /\ (n - 1) + 1 = n
    BY DEF StackOK
  <1>6. \A n \in DOMAIN Advanced(d) : FrameOK(Advanced(d)[n])
    BY <1>1, <1>2, <1>3, <1>4 DEF StackOK
  <1>7. \A n \in DOMAIN stack : n # 1 =>
                 n \in DOMAIN Advanced(d) /\ Advanced(d)[n] = stack[n]
    BY <1>2, <1>3, <1>4, <1>5
  <1>. QED BY <1>3, <1>4, <1>6, <1>7 DEF f

\* The stack after a call: the callee may sit on top of the advanced caller.
LEMMA CallFacts ==
    ASSUME StackOK, stack # << >>, Candidate <= Len(op_list)
    PROVE  LET callee == [i |-> Candidate + 1, local_drop_set |-> Caller.local_drop_set]
               below == Advanced({Candidate})
           IN  /\ <<callee>> \o below \in Seq(Frame)
               /\ \A n \in DOMAIN (<<callee>> \o below) : FrameOK((<<callee>> \o below)[n])
               /\ 1 \in DOMAIN (<<callee>> \o below) /\ (<<callee>> \o below)[1] = callee
               /\ \A n \in DOMAIN below : n + 1 \in DOMAIN (<<callee>> \o below)
                                         /\ (<<callee>> \o below)[n + 1] = below[n]
  <1>. DEFINE callee == [i |-> Candidate + 1, local_drop_set |-> Caller.local_drop_set]
              below == Advanced({Candidate})
  <1>1. FrameOK(callee) /\ callee \in Frame
    BY CallerFacts DEF FrameOK, Frame
  <1>2. below \in Seq(Frame) /\ \A n \in DOMAIN below : FrameOK(below[n])
    BY AdvancedFacts
  <1>. HIDE DEF callee, below
  <1>3. /\ <<callee>> \o below \in Seq(Frame)
        /\ 1 \in DOMAIN (<<callee>> \o below) /\ (<<callee>> \o below)[1] = callee
        /\ \A n \in DOMAIN below : n + 1 \in DOMAIN (<<callee>> \o below)
                                  /\ (<<callee>> \o below)[n + 1] = below[n]
        /\ \A n \in DOMAIN (<<callee>> \o below) : n # 1 =>
                 n - 1 \in DOMAIN below /\ (<<callee>> \o below)[n] = below[n - 1]
    BY <1>1, <1>2, PushFacts
  <1>4. \A n \in DOMAIN (<<callee>> \o below) : FrameOK((<<callee>> \o below)[n])
    BY <1>1, <1>2, <1>3
  <1>. QED BY <1>3, <1>4 DEF callee, below

LEMMA UnchangedSuite ==
    ASSUME IInv, UNCHANGED vars
    PROVE  IInv' /\ Ids' = Ids /\ ValidCombos' = ValidCombos
  <1>1. IInv'
    BY StepIInv
  <1>. QED BY <1>1 DEF vars, Ids, ValidCombos, test_validity

LEMMA GenerateIncludeStep ==
    ASSUME CInv, mode = "generating", CandidateAllowed,
           GenerateCall(Candidate, Caller.local_drop_set, Advanced({Candidate})),
           UNCHANGED <<vars, mode>>
    PROVE  SearchInv'
  <1>. DEFINE i == Candidate
              drop == Caller.local_drop_set
              callee == [i |-> i + 1, local_drop_set |-> drop]
              below == Advanced({i})
              included == (1..i) \ drop
  <1>1. StackOK /\ stack # << >> /\ i <= Len(op_list) /\ FrameOK(Caller) /\ i = Caller.i
    BY CallerFacts DEF CandidateAllowed, CInv, SearchInv
  <1>2. i \in Ids /\ i \in Nat /\ deps[i] \cap drop = {}
    BY <1>1 DEF CandidateAllowed, FrameOK, Frame, CInv, IInv, TypeOK, Ids
  <1>3. ValidCombos' = ValidCombos /\ IInv /\ Ids' = Ids
    BY UnchangedSuite DEF CInv
  <1>4. included \in ValidCombos
    BY <1>2, <1>3, AllowedIsValid
  <1>5. generated_combos' \subseteq ValidCombos /\ generated_combos \subseteq generated_combos'
    BY <1>4 DEF GenerateCall, CInv, SearchInv, CombosValid
  <1>6. /\ below \in Seq(Frame) /\ \A n \in DOMAIN below : FrameOK(below[n])
        /\ 1 \in DOMAIN below
        /\ below[1] = [i |-> i + 1, local_drop_set |-> drop \cup {i}]
        /\ \A n \in DOMAIN stack : n # 1 => n \in DOMAIN below /\ below[n] = stack[n]
    BY <1>1, AdvancedFacts
  <1>7. /\ <<callee>> \o below \in Seq(Frame)
        /\ \A n \in DOMAIN (<<callee>> \o below) : FrameOK((<<callee>> \o below)[n])
        /\ 1 \in DOMAIN (<<callee>> \o below) /\ (<<callee>> \o below)[1] = callee
        /\ \A n \in DOMAIN below : n + 1 \in DOMAIN (<<callee>> \o below)
                                  /\ (<<callee>> \o below)[n + 1] = below[n]
    BY <1>1, CallFacts
  <1>8. stack' = IF LimitReached \/ i = Len(op_list) THEN below ELSE <<callee>> \o below
    BY DEF GenerateCall
  <1>9. StackOK'
    BY <1>6, <1>7, <1>8 DEF StackOK, FrameOK
  <1>10. ASSUME max_combo_limit = 0, NEW c \in ValidCombos \ {{}}
         PROVE  c \in generated_combos' \/ \E n \in DOMAIN stack' : ToCome(stack'[n], c)
    <2>1. ~ LimitReached
      BY <1>10 DEF LimitReached
    <2>2. included \in generated_combos' \/ included = {}
      BY <2>1 DEF GenerateCall
    <2>3. CASE c \in generated_combos
      BY <1>5, <2>3
    <2>4. ASSUME NEW n \in DOMAIN below, ToCome(below[n], c)
          PROVE  \E m \in DOMAIN stack' : ToCome(stack'[m], c)
      <3>. HIDE DEF callee, below
      <3>. QED BY <1>7, <1>8, <2>4
    <2>5. ASSUME ToCome(callee, c)
          PROVE  \E m \in DOMAIN stack' : ToCome(stack'[m], c)
      <3>1. FrameOK(callee)
        BY <1>7
      <3>2. i # Len(op_list)
        <4>. SUFFICES ASSUME i = Len(op_list) PROVE FALSE
          OBVIOUS
        <4>1. callee.i > Len(op_list)
          BY <1>2
        <4>. QED BY <1>3, <2>5, <3>1, <4>1, EndIsOver
      <3>. HIDE DEF callee, below
      <3>. QED BY <1>7, <1>8, <2>1, <2>5, <3>2
    <2>6. ASSUME NEW n \in DOMAIN stack, ToCome(stack[n], c)
          PROVE  c = included \/ \E m \in DOMAIN stack' : ToCome(stack'[m], c)
      <3>1. CASE n # 1
        <4>1. n \in DOMAIN below /\ ToCome(below[n], c)
          BY <1>6, <2>6, <3>1
        <4>. QED BY <2>4, <4>1
      <3>2. CASE n = 1
        <4>1. ToCome(Caller, c) /\ c \in SUBSET (Nat \ {0})
          BY <1>1, <1>3, <2>6, <3>2, CallerFacts, CombosArePositive
        <4>2. \/ c = included \/ ToCome(callee, c) \/ ToCome(below[1], c)
          BY <1>1, <1>6, <4>1, IncludeLosesNothing
        <4>. QED BY <1>6, <2>4, <2>5, <4>2
      <3>. QED BY <3>1, <3>2
    <2>7. c \in generated_combos \/ \E n \in DOMAIN stack : ToCome(stack[n], c)
      BY <1>10 DEF CInv, SearchInv, NoneForgotten
    <2>. QED BY <2>2, <2>3, <2>6, <2>7, <1>10
  <1>11. NoneForgotten'
    <2>1. max_combo_limit' = max_combo_limit
      BY DEF GenerateCall
    <2>. QED BY <1>3, <1>10, <2>1 DEF NoneForgotten, ToCome
  <1>12. CombosValid' /\ CombosComplete' /\ Fresh' /\ mode' \in Modes
    BY <1>3, <1>5 DEF CombosValid, CombosComplete, Fresh, Modes, GenerateCall,
                      CInv, SearchInv
  <1>. QED BY <1>9, <1>11, <1>12 DEF SearchInv

\* Skipping a blocked candidate, or returning when there are none left.
LEMMA GenerateDropStep ==
    ASSUME CInv, mode = "generating", SkipCandidate \/ ReturnToCaller,
           UNCHANGED <<vars, mode>>
    PROVE  SearchInv'
  <1>1. StackOK /\ stack # << >> /\ FrameOK(Caller) /\ Candidate = Caller.i /\ Caller = stack[1]
    BY CallerFacts DEF SkipCandidate, ReturnToCaller, CInv, SearchInv
  <1>2. ValidCombos' = ValidCombos /\ IInv /\ Ids' = Ids
    BY UnchangedSuite DEF CInv
  <1>3. UNCHANGED <<generated_combos, max_combo_limit>>
    BY DEF SkipCandidate, ReturnToCaller
  <1>4. \A c \in ValidCombos : ~ ToCome(stack[1], c)
    <2>1. CASE SkipCandidate
      <3>1. Candidate \in Ids
        BY <1>1, <2>1 DEF SkipCandidate, FrameOK, Frame, CInv, IInv, TypeOK, Ids
      <3>. QED BY <1>1, <1>2, <2>1, <3>1, BlockedIsOver DEF SkipCandidate
    <2>2. CASE ReturnToCaller
      BY <1>1, <1>2, <2>2, EndIsOver DEF ReturnToCaller
    <2>. QED BY <2>1, <2>2
  <1>5. /\ StackOK'
        /\ \A n \in DOMAIN stack : n # 1 => \E m \in DOMAIN stack' : stack'[m] = stack[n]
    <2>1. CASE SkipCandidate
      <3>1. stack' = Advanced({})
        BY <2>1 DEF SkipCandidate
      <3>. QED BY <1>1, <3>1, AdvancedFacts DEF StackOK, FrameOK
    <2>2. CASE ReturnToCaller
      <3>1. stack' = Tail(stack)
        BY <2>2 DEF ReturnToCaller
      <3>2. /\ Tail(stack) \in Seq(Frame)
            /\ \A n \in DOMAIN Tail(stack) :
                  Tail(stack)[n] = stack[n + 1] /\ n + 1 \in DOMAIN stack
            /\ \A n \in DOMAIN stack : n # 1 =>
                  n - 1 \in DOMAIN Tail(stack) /\ stack[n] = Tail(stack)[n - 1]
        BY <1>1, PopFacts DEF StackOK
      <3>. QED BY <1>1, <3>1, <3>2 DEF StackOK, FrameOK
    <2>. QED BY <2>1, <2>2
  <1>6. NoneForgotten'
    <2>. SUFFICES ASSUME max_combo_limit = 0, NEW c \in ValidCombos \ {{}},
                         c \notin generated_combos
                  PROVE  \E n \in DOMAIN stack' : ToCome(stack'[n], c)
      BY <1>2, <1>3 DEF NoneForgotten, ToCome
    <2>1. PICK n \in DOMAIN stack : ToCome(stack[n], c)
      BY DEF CInv, SearchInv, NoneForgotten
    <2>2. n # 1
      BY <1>4, <2>1
    <2>. QED BY <1>5, <2>1, <2>2
  <1>7. CombosValid' /\ CombosComplete' /\ Fresh' /\ mode' \in Modes
    BY <1>2, <1>3 DEF CombosValid, CombosComplete, Fresh, Modes, CInv, SearchInv
  <1>. QED BY <1>5, <1>6, <1>7 DEF SearchInv

\* Counting walks the same stack and leaves the collected combos alone.
LEMMA CountStep ==
    ASSUME CInv, Count
    PROVE  SearchInv'
  <1>1. UNCHANGED <<vars, mode, generated_combos, max_combo_limit>> /\ mode = "counting"
    BY DEF Count, CountCall, SkipCandidate, ReturnToCaller
  <1>2. ValidCombos' = ValidCombos
    BY <1>1, UnchangedSuite DEF CInv
  <1>3. StackOK'
    <2>1. CASE SkipCandidate
      <3>1. StackOK /\ stack # << >> /\ stack' = Advanced({})
        BY <2>1 DEF SkipCandidate, CInv, SearchInv
      <3>. QED BY <3>1, AdvancedFacts DEF StackOK, FrameOK
    <2>2. CASE ReturnToCaller
      <3>1. StackOK /\ stack # << >> /\ stack' = Tail(stack)
        BY <2>2 DEF ReturnToCaller, CInv, SearchInv
      <3>. QED BY <3>1, PopFacts DEF StackOK, FrameOK
    <2>3. ASSUME CandidateAllowed,
                 CountCall(Candidate, Caller.local_drop_set, Advanced({Candidate}))
          PROVE  StackOK'
      <3>1. StackOK /\ stack # << >> /\ Candidate <= Len(op_list)
        BY <2>3 DEF CandidateAllowed, CInv, SearchInv
      <3>. DEFINE callee == [i |-> Candidate + 1, local_drop_set |-> Caller.local_drop_set]
                  below == Advanced({Candidate})
      <3>2. /\ <<callee>> \o below \in Seq(Frame)
            /\ \A n \in DOMAIN (<<callee>> \o below) : FrameOK((<<callee>> \o below)[n])
        BY <3>1, CallFacts
      <3>3. below \in Seq(Frame) /\ \A n \in DOMAIN below : FrameOK(below[n])
        BY <3>1, AdvancedFacts
      <3>4. stack' = below \/ stack' = <<callee>> \o below
        BY <2>3 DEF CountCall
      <3>. HIDE DEF callee, below
      <3>. QED BY <3>2, <3>3, <3>4 DEF StackOK, FrameOK
    <2>. QED BY <2>1, <2>2, <2>3 DEF Count
  <1>. QED BY <1>1, <1>2, <1>3 DEF SearchInv, CombosValid, CombosComplete, Fresh,
              NoneForgotten, Modes, CInv

\* A search starts with all the combos still to come.
LEMMA StartStep ==
    ASSUME CInv,
           NEW limit, NEW limit_tested,
           get_combos(limit, limit_tested) \/ count_all_combos
    PROVE  SearchInv'
  <1>. DEFINE root == [i |-> 1, local_drop_set |-> {}]
  <1>1. UNCHANGED <<vars, generated_combos>> /\ mode \in Idle
        /\ mode' \in {"generating", "counting"}
    BY DEF get_combos, count_all_combos
  <1>2. ValidCombos' = ValidCombos /\ IInv
    BY <1>1, UnchangedSuite DEF CInv
  <1>3. FrameOK(root) /\ root \in Frame
    BY DEF FrameOK, Frame
  <1>4. stack' = << >> \/ stack' = <<root>>
    BY DEF get_combos, count_all_combos
  <1>5. StackOK'
    <2>. HIDE DEF root
    <2>1. CASE stack' = << >>
      BY <2>1 DEF StackOK
    <2>2. CASE stack' = <<root>>
      <3>1. <<root>> \in Seq(Frame) /\ DOMAIN <<root>> = {1} /\ <<root>>[1] = root
        BY <1>3
      <3>. QED BY <1>3, <2>2, <3>1 DEF StackOK, FrameOK
    <2>. QED BY <1>4, <2>1, <2>2
  <1>6. ASSUME mode' = "generating", max_combo_limit' = 0, NEW c \in ValidCombos \ {{}}
        PROVE  \E n \in DOMAIN stack' : ToCome(stack'[n], c)
    <2>1. c \subseteq Nat \ {0} /\ c # {} /\ c \subseteq Ids
      BY <1>2, CombosArePositive DEF ValidCombos
    <2>2. stack' = <<root>>
      <3>1. op_list # << >>
        BY <2>1 DEF Ids
      <3>. QED BY <1>6, <3>1 DEF get_combos, count_all_combos
    <2>3. ToCome(root, c)
      <3>1. 1..(root.i - 1) = {} /\ root.i = 1
        OBVIOUS
      <3>2. PICK k \in c : k \in Nat \ {0}
        BY <2>1
      <3>. HIDE DEF root
      <3>3. \E j \in c : j >= root.i
        BY <3>1, <3>2
      <3>. QED BY <3>1, <3>3 DEF ToCome
    <2>. HIDE DEF root
    <2>. QED BY <2>2, <2>3
  <1>7. NoneForgotten'
    BY <1>2, <1>6 DEF NoneForgotten, ToCome
  <1>. QED BY <1>1, <1>2, <1>5, <1>7 DEF SearchInv, CombosValid, CombosComplete,
              Fresh, Modes, CInv

\* The search returns: nothing is to come any more.
LEMMA ReturnStep ==
    ASSUME CInv, Return
    PROVE  SearchInv'
  <1>1. UNCHANGED <<vars, searchVars>> /\ stack = << >>
        /\ \/ mode = "generating" /\ mode' = "answered"
           \/ mode = "counting" /\ mode' = "counted"
    BY DEF Return
  <1>2. ValidCombos' = ValidCombos /\ IInv
    BY <1>1, UnchangedSuite DEF CInv
  <1>3. CombosComplete'
    <2>. SUFFICES ASSUME mode' = "answered", max_combo_limit' = 0
                  PROVE  generated_combos' = ValidCombos \ {{}}
      BY <1>2 DEF CombosComplete
    <2>1. ValidCombos \ {{}} \subseteq generated_combos
      BY <1>1 DEF searchVars, CInv, SearchInv, NoneForgotten
    <2>2. generated_combos \subseteq ValidCombos \ {{}}
      BY DEF CInv, SearchInv, CombosValid, Fresh
    <2>. QED BY <1>1, <2>1, <2>2 DEF searchVars
  <1>. QED BY <1>1, <1>2, <1>3 DEF SearchInv, CombosValid, Fresh, NoneForgotten, Modes,
              Idle, CInv, searchVars, StackOK, FrameOK

\* The assertion on the number of calls throws the search away.
LEMMA AssertionStep ==
    ASSUME CInv, AssertionFails
    PROVE  SearchInv'
  <1>1. UNCHANGED <<vars, generated_combos>> /\ mode' = "ready" /\ stack' = << >>
    BY DEF AssertionFails
  <1>2. ValidCombos' = ValidCombos
    BY <1>1, UnchangedSuite DEF CInv
  <1>. QED BY <1>1, <1>2 DEF SearchInv, CombosValid, CombosComplete, Fresh,
              NoneForgotten, Modes, Idle, CInv, StackOK

\* While the suite is being constructed nothing has been collected.
LEMMA LoadingStep ==
    ASSUME CInv, Construct \/ Constructed
    PROVE  SearchInv'
  <1>1. mode = "loading" /\ mode' \in {"loading", "ready"} /\ UNCHANGED searchVars
    BY DEF Construct, Constructed
  <1>. QED BY <1>1 DEF SearchInv, CombosValid, CombosComplete, Fresh, NoneForgotten,
              Modes, Idle, CInv, StackOK, FrameOK, searchVars

-----------------------------------------------------------------------------
(* The theorems                                                            *)

LEMMA CombosInit_CInv == CombosInit => CInv
  <1>. SUFFICES ASSUME CombosInit PROVE CInv
    OBVIOUS
  <1>1. IInv
    BY InitIInv DEF CombosInit
  <1>. QED BY <1>1 DEF CombosInit, CInv, SearchInv, CombosValid, CombosComplete,
              Fresh, NoneForgotten, Modes, StackOK

LEMMA CombosNext_SearchInv == CInv /\ [CombosNext]_comboVars => SearchInv'
  <1>. SUFFICES ASSUME CInv, [CombosNext]_comboVars PROVE SearchInv'
    OBVIOUS
  <1>2. CASE Construct \/ Constructed
    BY <1>2, LoadingStep
  <1>3. ASSUME NEW limit \in Limits, NEW limit_tested \in CallBudgets,
               get_combos(limit, limit_tested)
        PROVE  SearchInv'
    BY <1>3, StartStep
  <1>4. CASE count_all_combos
    BY <1>4, StartStep
  <1>5. CASE Generate
    BY <1>5, GenerateIncludeStep, GenerateDropStep DEF Generate
  <1>6. CASE Count
    BY <1>6, CountStep
  <1>7. CASE Return
    BY <1>7, ReturnStep
  <1>8. CASE AssertionFails
    BY <1>8, AssertionStep
  <1>9. CASE UNCHANGED comboVars
    <2>1. ValidCombos' = ValidCombos
      BY <1>9, UnchangedSuite DEF comboVars, CInv
    <2>. QED BY <1>9, <2>1 DEF comboVars, searchVars, SearchInv, CombosValid,
                CombosComplete, Fresh, NoneForgotten, CInv, StackOK, FrameOK, ToCome
  <1>. QED BY <1>2, <1>3, <1>4, <1>5, <1>6, <1>7, <1>8, <1>9 DEF CombosNext

LEMMA CombosNext_CInv == CInv /\ [CombosNext]_comboVars => CInv'
  <1>. SUFFICES ASSUME CInv, [CombosNext]_comboVars PROVE CInv'
    OBVIOUS
  <1>1. IInv'
    <2>1. [Next]_vars
      BY DEF CombosNext, comboVars, Construct, Constructed, get_combos,
             count_all_combos, Generate, Count, Return, AssertionFails
    <2>. QED BY <2>1, StepIInv DEF CInv
  <1>. QED BY <1>1, CombosNext_SearchInv DEF CInv

LEMMA CombosInvariance == CombosSpec => []CInv
  BY CombosInit_CInv, CombosNext_CInv, PTL DEF CombosSpec

\* Soundness of the pruned search: for every trace, limit and number of calls
\* of the suite, it never collects a set that is not a valid combo.
THEOREM SearchSound == CombosSpec => []CombosValid
  <1>1. CInv => CombosValid
    BY DEF CInv, SearchInv
  <1>. QED BY <1>1, CombosInvariance, PTL

\* Completeness of the pruned search: for every trace, when get_combos returns
\* without a limit it has collected every valid combo.
THEOREM SearchComplete == CombosSpec => []CombosComplete
  <1>1. CInv => CombosComplete
    BY DEF CInv, SearchInv
  <1>. QED BY <1>1, CombosInvariance, PTL

-----------------------------------------------------------------------------
(* Counting                                                                  *)

\* A combo that some active call has yet to count, and one that no two have.
Pending(s, c) == \E n \in DOMAIN s : ToCome(s[n], c)

Once(s, c) ==
    \A m, n \in DOMAIN s : ToCome(s[m], c) /\ ToCome(s[n], c) => m = n

Counted == {c \in ValidCombos \ {{}} : ~ Pending(stack, c)}

\* While the search runs, what it has counted is what is not pending, and
\* nothing is pending twice.
CountInv ==
    /\ mode = "counting" =>
          /\ \A c \in ValidCombos \ {{}} : Once(stack, c)
          /\ total_num_combos = Cardinality(Counted)
    /\ CountExact

LEMMA PendingPop ==
    ASSUME NEW s \in Seq(Frame), s # << >>, NEW c
    PROVE  /\ Pending(s, c) <=> ToCome(s[1], c) \/ Pending(Tail(s), c)
           /\ Once(s, c) => /\ Once(Tail(s), c)
                            /\ ~ (ToCome(s[1], c) /\ Pending(Tail(s), c))
  <1>1. /\ 1 \in DOMAIN s
        /\ \A n \in DOMAIN Tail(s) : Tail(s)[n] = s[n + 1] /\ n + 1 \in DOMAIN s
        /\ \A n \in DOMAIN s : n # 1 => n - 1 \in DOMAIN Tail(s) /\ s[n] = Tail(s)[n - 1]
    BY PopFacts
  <1>2. \A n \in DOMAIN Tail(s) : n \in Nat /\ n + 1 # 1
    BY PopFacts
  <1>3. Pending(s, c) <=> ToCome(s[1], c) \/ Pending(Tail(s), c)
    BY <1>1 DEF Pending
  <1>4. Once(s, c) => Once(Tail(s), c)
    BY <1>1, <1>2 DEF Once
  <1>5. Once(s, c) => ~ (ToCome(s[1], c) /\ Pending(Tail(s), c))
    BY <1>1, <1>2 DEF Once, Pending
  <1>. QED BY <1>3, <1>4, <1>5

LEMMA PendingPush ==
    ASSUME NEW s \in Seq(Frame), NEW f \in Frame, NEW c
    PROVE  /\ Pending(<<f>> \o s, c) <=> ToCome(f, c) \/ Pending(s, c)
           /\ Once(s, c) /\ ~ (ToCome(f, c) /\ Pending(s, c)) => Once(<<f>> \o s, c)
  <1>. PICK t : t = <<f>> \o s
    OBVIOUS
  <1>1. /\ t \in Seq(Frame) /\ 1 \in DOMAIN t /\ t[1] = f
        /\ \A n \in DOMAIN s : n + 1 \in DOMAIN t /\ t[n + 1] = s[n]
        /\ \A n \in DOMAIN t : n # 1 => n - 1 \in DOMAIN s /\ t[n] = s[n - 1]
    BY PushFacts
  <1>2. \A n \in DOMAIN t : n \in Nat
    BY <1>1
  <1>3. Pending(t, c) <=> ToCome(f, c) \/ Pending(s, c)
    BY <1>1 DEF Pending
  <1>4. ASSUME Once(s, c), ~ (ToCome(f, c) /\ Pending(s, c)) PROVE Once(t, c)
    <2>. SUFFICES ASSUME NEW m \in DOMAIN t, NEW n \in DOMAIN t,
                         ToCome(t[m], c), ToCome(t[n], c)
                  PROVE  m = n
      BY DEF Once
    <2>1. \A k \in DOMAIN t : k # 1 /\ ToCome(t[k], c) => Pending(s, c)
      BY <1>1 DEF Pending
    <2>2. CASE m = 1 \/ n = 1
      BY <1>1, <1>4, <2>1, <2>2
    <2>3. CASE m # 1 /\ n # 1
      <3>1. m - 1 = n - 1
        BY <1>1, <1>4, <2>3 DEF Once
      <3>. QED BY <1>2, <3>1
    <2>. QED BY <2>2, <2>3
  <1>. QED BY <1>3, <1>4

\* The call goes on with its candidate kept, or dropped, or ends with it.
Kept(f) == [i |-> f.i + 1, local_drop_set |-> f.local_drop_set]
Dropped(f) == [i |-> f.i + 1, local_drop_set |-> f.local_drop_set \cup {f.i}]
Included(f) == (1..f.i) \ f.local_drop_set

\* The three ways to go on from a candidate that may be included are exactly
\* what is to come, and exclude each other.
LEMMA IncludeIsExact ==
    ASSUME NEW f, FrameOK(f), NEW c \in SUBSET (Nat \ {0})
    PROVE  /\ ToCome(f, c) <=> c = Included(f) \/ ToCome(Kept(f), c) \/ ToCome(Dropped(f), c)
           /\ c = Included(f) => ~ ToCome(Kept(f), c) /\ ~ ToCome(Dropped(f), c)
           /\ ~ (ToCome(Kept(f), c) /\ ToCome(Dropped(f), c))
  <1>. PICK keep, drop, included :
          keep = Kept(f) /\ drop = Dropped(f) /\ included = Included(f)
    OBVIOUS
  <1>0. /\ keep = [i |-> f.i + 1, local_drop_set |-> f.local_drop_set]
        /\ drop = [i |-> f.i + 1, local_drop_set |-> f.local_drop_set \cup {f.i}]
        /\ included = (1..f.i) \ f.local_drop_set
    BY DEF Kept, Dropped, Included
  <1>. PICK i, dropped : i = f.i /\ dropped = f.local_drop_set
    OBVIOUS
  <1>1. i \in Nat /\ 1 <= i /\ dropped \subseteq 1..(i - 1)
    BY DEF FrameOK, Frame
  <1>2. /\ 1..((i + 1) - 1) = (1..(i - 1)) \cup {i} /\ 1..i = (1..(i - 1)) \cup {i}
        /\ i \notin 1..(i - 1) /\ i \notin dropped
    BY <1>1
  <1>3. /\ ToCome(f, c) <=> /\ c \cap (1..(i - 1)) = (1..(i - 1)) \ dropped
                            /\ \E k \in c : k >= i
        /\ ToCome(keep, c) <=> /\ c \cap (1..((i + 1) - 1)) = (1..((i + 1) - 1)) \ dropped
                               /\ \E k \in c : k >= i + 1
        /\ ToCome(drop, c) <=> /\ c \cap (1..((i + 1) - 1)) =
                                        (1..((i + 1) - 1)) \ (dropped \cup {i})
                               /\ \E k \in c : k >= i + 1
    BY <1>0 DEF ToCome
  <1>4. ToCome(f, c) => c = included \/ ToCome(keep, c) \/ ToCome(drop, c)
    BY <1>0, IncludeLosesNothing
  <1>5. ToCome(keep, c) => i \in c /\ ToCome(f, c)
    BY <1>1, <1>2, <1>3
  <1>6. ToCome(drop, c) => i \notin c /\ ToCome(f, c)
    BY <1>1, <1>2, <1>3
  <1>7. included = ((1..(i - 1)) \ dropped) \cup {i}
    BY <1>0, <1>2
  <1>8. c = included => ToCome(f, c)
    BY <1>1, <1>2, <1>3, <1>7
  <1>9. c = included => \A k \in c : ~ (k >= i + 1)
    BY <1>1, <1>7
  <1>. QED BY <1>3, <1>4, <1>5, <1>6, <1>8, <1>9

LEMMA FinitelyMany ==
    ASSUME IInv PROVE IsFiniteSet(ValidCombos)
  <1>1. IsFiniteSet(Ids)
    <2>1. Ids = 1..Len(op_list) /\ Len(op_list) \in Nat
      BY DEF IInv, TypeOK, Ids
    <2>. QED BY <2>1, FS_Interval
  <1>2. IsFiniteSet(SUBSET Ids)
    BY <1>1, FS_SUBSET
  <1>. QED BY <1>2, FS_Subset DEF ValidCombos

\* A candidate that may be included: its combo is counted, and the others it
\* stands for are now pending in the call that is made or in the caller.
LEMMA CountIncludeStep ==
    ASSUME CInv, CountInv, mode = "counting", CandidateAllowed,
           CountCall(Candidate, Caller.local_drop_set, Advanced({Candidate})),
           UNCHANGED <<vars, mode>>
    PROVE  CountInv'
  <1>. PICK i, rest, keep, drop, included :
          /\ i = Candidate /\ rest = Tail(stack)
          /\ keep = [i |-> i + 1, local_drop_set |-> Caller.local_drop_set]
          /\ drop = [i |-> i + 1, local_drop_set |-> Caller.local_drop_set \cup {i}]
          /\ included = (1..i) \ Caller.local_drop_set
    OBVIOUS
  <1>1. /\ StackOK /\ stack # << >> /\ i <= Len(op_list)
        /\ FrameOK(Caller) /\ i = Caller.i /\ Caller = stack[1]
        /\ i \in Ids /\ i \in Nat /\ 1 <= i /\ i \notin Caller.local_drop_set
        /\ deps[i] \cap Caller.local_drop_set = {}
        /\ IInv /\ Len(op_list) \in Nat
    BY CallerFacts DEF CandidateAllowed, CInv, SearchInv, FrameOK, Frame, IInv, TypeOK, Ids
  <1>2. /\ stack \in Seq(Frame) /\ rest \in Seq(Frame)
        /\ FrameOK(keep) /\ FrameOK(drop) /\ keep \in Frame /\ drop \in Frame
        /\ keep.i = i + 1
    <2>1. stack \in Seq(Frame) /\ rest \in Seq(Frame)
      BY <1>1, PopFacts DEF StackOK
    <2>2. FrameOK(keep) /\ FrameOK(drop)
      BY <1>1 DEF FrameOK, Frame
    <2>. QED BY <2>1, <2>2 DEF FrameOK
  <1>. PICK below : below = <<drop>> \o rest
    OBVIOUS
  <1>3. below = Advanced({Candidate}) /\ below \in Seq(Frame)
    BY <1>2, PushFacts DEF Advanced
  <1>4. stack' = IF i = Len(op_list) THEN below ELSE <<keep>> \o below
    BY <1>3 DEF CountCall
  <1>5. total_num_combos' = total_num_combos + 1
    BY <1>1 DEF CountCall
  <1>6. ValidCombos' = ValidCombos
    BY UnchangedSuite DEF CInv
  <1>7. included \in ValidCombos \ {{}}
    <2>1. i \in included
      BY <1>1
    <2>2. (1..i) \ Caller.local_drop_set \in ValidCombos
      BY <1>1, AllowedIsValid
    <2>. QED BY <2>1, <2>2
  <1>8. ASSUME NEW c \in ValidCombos \ {{}}
        PROVE  /\ Pending(stack, c) <=> c = included \/ Pending(stack', c)
               /\ c = included => ~ Pending(stack', c)
               /\ Once(stack', c)
    <2>1. /\ Pending(stack, c) <=> ToCome(Caller, c) \/ Pending(rest, c)
          /\ Once(rest, c) /\ ~ (ToCome(Caller, c) /\ Pending(rest, c))
      BY <1>1, <1>2, PendingPop DEF CountInv
    <2>2. /\ ToCome(Caller, c) <=> c = included \/ ToCome(keep, c) \/ ToCome(drop, c)
          /\ c = included => ~ ToCome(keep, c) /\ ~ ToCome(drop, c)
          /\ ~ (ToCome(keep, c) /\ ToCome(drop, c))
      <3>1. c \in SUBSET (Nat \ {0})
        BY <1>1, CombosArePositive
      <3>2. keep = Kept(Caller) /\ drop = Dropped(Caller) /\ included = Included(Caller)
        BY <1>1 DEF Kept, Dropped, Included
      <3>3. /\ ToCome(Caller, c) <=> \/ c = Included(Caller)
                                    \/ ToCome(Kept(Caller), c) \/ ToCome(Dropped(Caller), c)
            /\ c = Included(Caller) => ~ ToCome(Kept(Caller), c) /\ ~ ToCome(Dropped(Caller), c)
            /\ ~ (ToCome(Kept(Caller), c) /\ ToCome(Dropped(Caller), c))
        <4>1. FrameOK(Caller)
          BY <1>1
        <4>. QED BY <3>1, <4>1, IncludeIsExact, Zenon
      <3>. QED BY <3>2, <3>3, Zenon
    <2>3. /\ Pending(below, c) <=> ToCome(drop, c) \/ Pending(rest, c)
          /\ Once(rest, c) /\ ~ (ToCome(drop, c) /\ Pending(rest, c)) => Once(below, c)
      BY <1>2, PendingPush
    <2>4. CASE i = Len(op_list)
      <3>1. ~ ToCome(keep, c)
        BY <1>1, <1>2, <2>4, EndIsOver
      <3>2. stack' = below
        BY <1>4, <2>4
      <3>. QED BY <2>1, <2>2, <2>3, <3>1, <3>2
    <2>5. CASE i # Len(op_list)
      <3>1. stack' = <<keep>> \o below
        BY <1>4, <2>5
      <3>2. /\ Pending(stack', c) <=> ToCome(keep, c) \/ Pending(below, c)
            /\ Once(below, c) /\ ~ (ToCome(keep, c) /\ Pending(below, c)) => Once(stack', c)
        BY <1>2, <1>3, <3>1, PendingPush
      <3>. QED BY <2>1, <2>2, <2>3, <3>2
    <2>. QED BY <2>4, <2>5
  <1>9. Counted' = Counted \cup {included} /\ included \notin Counted
    BY <1>6, <1>7, <1>8 DEF Counted
  <1>10. IsFiniteSet(Counted)
    BY <1>1, FinitelyMany, FS_Subset DEF Counted
  <1>11. total_num_combos' = Cardinality(Counted')
    BY <1>5, <1>9, <1>10, FS_AddElement DEF CountInv
  <1>. QED BY <1>6, <1>8, <1>11 DEF CountInv, CountExact

\* A blocked candidate, or none left: nothing was to come in the call.
LEMMA CountDropStep ==
    ASSUME CInv, CountInv, mode = "counting", SkipCandidate \/ ReturnToCaller,
           UNCHANGED <<vars, mode>>
    PROVE  CountInv'
  <1>. PICK rest, keep :
          /\ rest = Tail(stack)
          /\ keep = [i |-> Candidate + 1, local_drop_set |-> Caller.local_drop_set]
    OBVIOUS
  <1>1. /\ StackOK /\ stack # << >> /\ FrameOK(Caller)
        /\ Candidate = Caller.i /\ Caller = stack[1] /\ IInv
    BY CallerFacts DEF SkipCandidate, ReturnToCaller, CInv, SearchInv
  <1>2. stack \in Seq(Frame) /\ rest \in Seq(Frame) /\ keep \in Frame
    <2>1. stack \in Seq(Frame) /\ rest \in Seq(Frame)
      BY <1>1, PopFacts DEF StackOK
    <2>. QED BY <1>1, <2>1 DEF FrameOK, Frame
  <1>3. ValidCombos' = ValidCombos /\ total_num_combos' = total_num_combos
    BY UnchangedSuite DEF CInv, SkipCandidate, ReturnToCaller
  <1>4. ASSUME NEW c \in ValidCombos \ {{}}
        PROVE  (Pending(stack, c) <=> Pending(stack', c)) /\ Once(stack', c)
    <2>1. /\ Pending(stack, c) <=> ToCome(Caller, c) \/ Pending(rest, c)
          /\ Once(rest, c)
      BY <1>1, <1>2, PendingPop DEF CountInv
    <2>2. CASE ReturnToCaller
      <3>1. ~ ToCome(Caller, c)
        BY <1>1, <2>2, EndIsOver DEF ReturnToCaller
      <3>. QED BY <2>1, <2>2, <3>1 DEF ReturnToCaller
    <2>3. CASE SkipCandidate
      <3>1. ~ ToCome(Caller, c)
        <4>1. Candidate \in Ids
          BY <1>1, <2>3 DEF SkipCandidate, FrameOK, Frame, CInv, IInv, TypeOK, Ids
        <4>. QED BY <1>1, <2>3, <4>1, BlockedIsOver DEF SkipCandidate
      <3>2. ~ ToCome(keep, c)
        <4>1. c \in SUBSET (Nat \ {0})
          BY <1>1, CombosArePositive
        <4>2. keep = Kept(Caller)
          BY <1>1 DEF Kept
        <4>. QED BY <1>1, <3>1, <4>1, <4>2, IncludeIsExact
      <3>3. stack' = <<keep>> \o rest
        BY <2>3 DEF SkipCandidate, Advanced
      <3>4. /\ Pending(stack', c) <=> ToCome(keep, c) \/ Pending(rest, c)
            /\ Once(rest, c) /\ ~ (ToCome(keep, c) /\ Pending(rest, c)) => Once(stack', c)
        BY <1>2, <3>3, PendingPush
      <3>. QED BY <2>1, <3>1, <3>2, <3>4
    <2>. QED BY <2>2, <2>3
  <1>5. Counted' = Counted
    BY <1>3, <1>4 DEF Counted
  <1>. QED BY <1>3, <1>4, <1>5 DEF CountInv, CountExact

\* The root call: every combo is pending, in that call only.
LEMMA CountStartStep ==
    ASSUME CInv, count_all_combos
    PROVE  CountInv'
  <1>. PICK root : root = [i |-> 1, local_drop_set |-> {}]
    OBVIOUS
  <1>1. mode' = "counting" /\ total_num_combos' = 0 /\ ValidCombos' = ValidCombos /\ IInv
        /\ stack' = IF op_list = << >> THEN << >> ELSE <<root>>
    BY UnchangedSuite DEF CInv, count_all_combos
  <1>2. ASSUME NEW c \in ValidCombos \ {{}}
        PROVE  Pending(stack', c) /\ Once(stack', c)
    <2>1. c \subseteq Nat \ {0} /\ c # {} /\ c \subseteq Ids
      BY <1>1, CombosArePositive DEF ValidCombos
    <2>2. stack' = <<root>>
      <3>1. op_list # << >>
        BY <2>1 DEF Ids
      <3>. QED BY <1>1, <3>1
    <2>3. ToCome(root, c)
      <3>1. 1..(root.i - 1) = {} /\ root.i = 1
        OBVIOUS
      <3>2. PICK k \in c : k \in Nat \ {0}
        BY <2>1
      <3>3. \E j \in c : j >= root.i
        BY <3>1, <3>2
      <3>. QED BY <3>1, <3>3 DEF ToCome
    <2>4. DOMAIN <<root>> = {1} /\ <<root>>[1] = root
      OBVIOUS
    <2>. QED BY <2>2, <2>3, <2>4 DEF Pending, Once
  <1>3. Counted' = {}
    BY <1>1, <1>2 DEF Counted
  <1>. QED BY <1>1, <1>2, <1>3, FS_EmptySet DEF CountInv, CountExact

\* When the search returns nothing is pending: everything was counted.
LEMMA CountReturnStep ==
    ASSUME CInv, CountInv, Return
    PROVE  CountInv'
  <1>1. UNCHANGED <<vars, searchVars>> /\ stack = << >>
        /\ \/ mode = "generating" /\ mode' = "answered"
           \/ mode = "counting" /\ mode' = "counted"
    BY DEF Return
  <1>2. ValidCombos' = ValidCombos
    BY <1>1, UnchangedSuite DEF CInv
  <1>3. Counted = ValidCombos \ {{}}
    BY <1>1 DEF Counted, Pending
  <1>. QED BY <1>1, <1>2, <1>3 DEF CountInv, CountExact, searchVars

LEMMA CombosNext_CountInv == CInv /\ CountInv /\ [CombosNext]_comboVars => CountInv'
  <1>. SUFFICES ASSUME CInv, CountInv, [CombosNext]_comboVars PROVE CountInv'
    OBVIOUS
  <1>1. CASE mode' \notin {"counting", "counted"}
    BY <1>1 DEF CountInv, CountExact
  <1>2. CASE count_all_combos
    BY <1>2, CountStartStep
  <1>3. CASE Count
    BY <1>3, CountIncludeStep, CountDropStep DEF Count
  <1>4. CASE Return
    BY <1>4, CountReturnStep
  <1>5. CASE UNCHANGED comboVars
    <2>1. ValidCombos' = ValidCombos
      BY <1>5, UnchangedSuite DEF comboVars, CInv
    <2>. QED BY <1>5, <2>1 DEF comboVars, searchVars, CountInv, CountExact, Counted,
                Pending, Once, ToCome
  <1>6. CASE Construct \/ Constructed \/ Generate \/ AssertionFails
    BY <1>1, <1>6 DEF Construct, Constructed, Generate, AssertionFails
  <1>7. ASSUME NEW limit \in Limits, NEW limit_tested \in CallBudgets,
               get_combos(limit, limit_tested)
        PROVE  CountInv'
    BY <1>1, <1>7 DEF get_combos
  <1>. QED BY <1>2, <1>3, <1>4, <1>5, <1>6, <1>7 DEF CombosNext

\* count_all_combos counts every valid combo exactly once, for every trace.
THEOREM CountIsExact == CombosSpec => []CountExact
  <1>1. CombosInit => CountInv
    BY DEF CombosInit, CountInv, CountExact
  <1>2. CountInv => CountExact
    BY DEF CountInv
  <1>. QED BY <1>1, <1>2, CombosNext_CountInv, CombosInvariance, PTL DEF CombosSpec
=============================================================================
