-------------------------- MODULE TestSuite_proofs --------------------------
(***************************************************************************)
(* Proofs about the construction of an ALCTestSuite (module TestSuite).    *)
(***************************************************************************)
EXTENDS TestSuite, WellFoundedInduction, TLAPS

-----------------------------------------------------------------------------
(* Induction over the naturals, for a set in place of a predicate            *)

LEMMA LessIsWellFounded ==
    IsWellFoundedOn({ss \in Nat \X Nat : ss[1] < ss[2]}, Nat)
  <1>. DEFINE Less == {ss \in Nat \X Nat : ss[1] < ss[2]}
  <1>1. Less = OpToRel(<, Nat)
    BY Zenon DEF OpToRel
  <1>. QED BY <1>1, NatLessThanWellFounded, Zenon

\* A set of naturals that has 0 and, with a number, the next one has them all.
LEMMA NatSetInduction ==
    ASSUME NEW T, 0 \in T, \A n \in Nat : n \in T => n + 1 \in T
    PROVE  Nat \subseteq T
  <1>. DEFINE Less == {ss \in Nat \X Nat : ss[1] < ss[2]}
              Rest == Nat \ T
  <1>. SUFFICES ASSUME Rest # {} PROVE FALSE
    OBVIOUS
  <1>1. PICK x \in Rest : \A y \in Rest : ~ (<<y, x>> \in Less)
    <2>. HIDE DEF Rest
    <2>1. Rest \subseteq Nat
      BY DEF Rest
    <2>. QED BY <2>1, LessIsWellFounded, WFMin, Zenon
  <1>2. x # 0 /\ x - 1 \in Nat /\ x - 1 < x /\ (x - 1) + 1 = x
    BY <1>1
  <1>3. x - 1 \in T
    <2>1. <<x - 1, x>> \in Less
      BY <1>2
    <2>. QED BY <1>1, <1>2, <2>1
  <1>. QED BY <1>1, <1>2, <1>3

-----------------------------------------------------------------------------
(* The constructor                                                           *)

\* The fields of a traced operation after one more was appended.
LEMMA AppendKeeps ==
    ASSUME NEW op \in Operation, op_list \in Seq(Operation),
           op_list' = Append(op_list, op)
    PROVE  /\ op_list' \in Seq(Operation)
           /\ Len(op_list') = NextId
           /\ NextId \in Nat
           /\ Ids = 1..Len(op_list)
           /\ Ids' = Ids \cup {NextId}
           /\ op_list'[NextId] = op
           /\ \A i \in Ids : op_list'[i] = op_list[i]
  BY DEF Ids, NextId

\* Type correctness of a step that appends op, whatever it flushes.
LEMMA AppendTypeOK ==
    ASSUME TypeOK, NEW op \in Operation, op_list' = Append(op_list, op),
           NEW d \in SUBSET Nat, deps' = Append(deps, d),
           dirty_write_ops_inode' \in [Inodes -> SUBSET (Ids \cup {NextId})],
           latest_fsync_on_any_file' \in {latest_fsync_on_any_file, NextId}
    PROVE  TypeOK'
  <1>1. op_list \in Seq(Operation) BY DEF TypeOK
  <1>2. /\ op_list' \in Seq(Operation) /\ Len(op_list') = NextId
        /\ Ids' = Ids \cup {NextId}
    BY <1>1, AppendKeeps
  <1>3. deps' \in Seq(SUBSET Nat) /\ Len(deps') = Len(op_list')
    BY <1>2 DEF TypeOK, NextId
  <1>. QED BY <1>2, <1>3 DEF TypeOK

\* What every later operation inherits: the latest fsync stands for all the
\* syncs there were and all they flushed.
LEMMA FsyncDepsMeaning ==
    ASSUME IInv
    PROVE  FsyncDeps = {j \in Ids : IsSync(j) \/ \E t \in Ids : Covers(t, j)}
  <1>. DEFINE L == latest_fsync_on_any_file
  <1>1. Ids = 1..Len(op_list) /\ Len(op_list) \in Nat /\ L \in Ids \cup {NoSync}
    BY DEF IInv, TypeOK, Ids
  <1>2. \A i \in Ids : IsSync(i) => i <= L
    BY DEF IInv, LatestIsLastSync
  <1>3. \A t, j \in Ids : Covers(t, j) => IsSync(t) /\ j < t
    BY DEF Covers
  <1>4. CASE L = NoSync
    BY <1>1, <1>2, <1>3, <1>4 DEF FsyncDeps, NoSync
  <1>5. CASE L # NoSync
    <2>1. L \in Ids /\ IsSync(L)
      BY <1>1, <1>5 DEF IInv, LatestIsLastSync
    <2>2. deps[L] = {j \in 1..(L - 1) : IsSync(j) \/ \E t \in 1..L : Covers(t, j)}
      BY <2>1 DEF IInv, DepsExact, MeaningOfDeps
    <2>3. FsyncDeps = deps[L] \cup {L}
      BY <1>5 DEF FsyncDeps
    <2>4. \A j \in Ids : j \in FsyncDeps <=> IsSync(j) \/ \E t \in Ids : Covers(t, j)
      BY <1>1, <1>2, <1>3, <2>1, <2>2, <2>3
    <2>. QED BY <1>1, <2>1, <2>2, <2>3, <2>4
  <1>. QED BY <1>4, <1>5

\* Old operations keep their kind, range and covers relation when one is
\* appended, and so their deps keep their meaning.
LEMMA AppendKeepsMeaning ==
    ASSUME NEW op \in Operation, NEW id, id = NextId, op_list \in Seq(Operation),
           op_list' = Append(op_list, op)
    PROVE  /\ \A i \in Ids : IsSync(i)' <=> IsSync(i)
           /\ IsSync(id)' <=> op.syscall = "sync"
           /\ \A t, j \in Ids : Covers(t, j)' <=> Covers(t, j)
           /\ \A t \in Ids : ~ Covers(t, id)'
           /\ \A i \in Ids : MeaningOfDeps(i)' = MeaningOfDeps(i)
  <1>1. /\ Len(op_list) \in Nat /\ id = Len(op_list) + 1
        /\ Ids = 1..Len(op_list)
        /\ op_list'[id] = op
        /\ \A i \in Ids : op_list'[i] = op_list[i]
    BY AppendKeeps DEF NextId
  <1>2. /\ \A i \in Ids : IsSync(i)' <=> IsSync(i)
        /\ IsSync(id)' <=> op.syscall = "sync"
    BY <1>1 DEF IsSync
  <1>3. /\ \A t, j \in Ids : Covers(t, j)' <=> Covers(t, j)
        /\ \A t \in Ids : ~ Covers(t, id)'
    BY <1>1, <1>2 DEF Covers, is_included_in_sync_range
  <1>4. ASSUME NEW i \in Ids PROVE MeaningOfDeps(i)' = MeaningOfDeps(i)
    <2>1. 1..i \subseteq Ids /\ 1..(i - 1) \subseteq Ids
      BY <1>1
    <2>. QED BY <1>2, <1>3, <2>1 DEF MeaningOfDeps
  <1>. QED BY <1>2, <1>3, <1>4

\* A step that appends op keeps DepsExact when the new deps have the declared
\* meaning.
LEMMA AppendDepsExact ==
    ASSUME IInv, NEW op \in Operation, NEW id, id = NextId, op_list' = Append(op_list, op),
           NEW d, deps' = Append(deps, d), d = MeaningOfDeps(id)'
    PROVE  DepsExact'
  <1>1. op_list \in Seq(Operation) /\ deps \in Seq(SUBSET Nat) /\ Len(deps) = Len(op_list)
    BY DEF IInv, TypeOK
  <1>2. Ids' = Ids \cup {id} /\ Ids = 1..Len(op_list)
    BY <1>1, AppendKeeps
  <1>3. \A i \in Ids : MeaningOfDeps(i)' = MeaningOfDeps(i)
    BY <1>1, AppendKeepsMeaning
  <1>4. deps'[id] = d /\ \A i \in Ids : deps'[i] = deps[i]
    BY <1>1, <1>2 DEF NextId
  <1>. QED BY <1>2, <1>3, <1>4 DEF IInv, DepsExact

\* The declared meaning of the deps of the operation that is appended.
LEMMA MeaningOfNewDeps ==
    ASSUME IInv, NEW op \in Operation, NEW id, id = NextId, op_list' = Append(op_list, op)
    PROVE  MeaningOfDeps(id)' =
              FsyncDeps \cup {j \in Ids : Covers(id, j)'}
  <1>1. /\ op_list \in Seq(Operation)
        /\ Len(op_list) \in Nat /\ id = Len(op_list) + 1
        /\ Ids = 1..Len(op_list)
    BY AppendKeeps DEF IInv, TypeOK, NextId
  <1>2. /\ \A i \in Ids : IsSync(i)' <=> IsSync(i)
        /\ \A t, j \in Ids : Covers(t, j)' <=> Covers(t, j)
    BY <1>1, AppendKeepsMeaning
  <1>3. 1..(id - 1) = Ids /\ 1..id = Ids \cup {id}
    BY <1>1
  <1>4. MeaningOfDeps(id)' =
            {j \in Ids : IsSync(j)' \/ \E t \in Ids \cup {id} : Covers(t, j)'}
    BY <1>3 DEF MeaningOfDeps
  <1>. QED BY <1>2, <1>4, FsyncDepsMeaning

\* Appending a buffered operation: it inherits from the latest fsync and it is
\* dirty, since no sync comes after it yet.
LEMMA BufferedStep ==
    ASSUME IInv, NEW op \in Operation, op.syscall # "sync", Buffered(op)
    PROVE  IInv'
  <1>. DEFINE id == NextId
  <1>1. /\ op_list \in Seq(Operation) /\ op_list' = Append(op_list, op)
        /\ op.inode \in Inodes
    BY DEF IInv, TypeOK, Buffered, Operation
  <1>2. /\ Len(op_list) \in Nat /\ id = Len(op_list) + 1
        /\ Ids = 1..Len(op_list) /\ Ids' = Ids \cup {id}
        /\ op_list'[id] = op
        /\ \A i \in Ids : op_list'[i] = op_list[i]
    BY <1>1, AppendKeeps DEF NextId
  <1>. HIDE DEF id
  <1>3. /\ \A i \in Ids : IsSync(i)' <=> IsSync(i)
        /\ \A i : i = id => ~ IsSync(i)'
        /\ \A t, j \in Ids : Covers(t, j)' <=> Covers(t, j)
        /\ \A i : i = id => \A t \in Ids : ~ Covers(t, i)'
    BY <1>1, AppendKeepsMeaning DEF id
  <1>4. \A i : i = id => \A j : ~ Covers(i, j)'
    BY <1>3 DEF Covers
  <1>5. TypeOK'
    <2>1. FsyncDeps \in SUBSET Nat
      BY <1>2, FsyncDepsMeaning
    <2>2. dirty_write_ops_inode' \in [Inodes -> SUBSET (Ids \cup {NextId})]
      BY DEF Buffered, IInv, TypeOK
    <2>. QED BY <1>1, <2>1, <2>2, AppendTypeOK DEF Buffered, IInv
  <1>6. LatestIsLastSync'
    <2>1. latest_fsync_on_any_file' = latest_fsync_on_any_file
      BY DEF Buffered
    <2>2. latest_fsync_on_any_file \in Ids \cup {NoSync}
      BY DEF IInv, TypeOK
    <2>. QED BY <1>2, <1>3, <2>1, <2>2 DEF IInv, LatestIsLastSync, IsSync
  <1>7. DirtyIsUnflushed'
    <2>. SUFFICES ASSUME NEW n \in Inodes, NEW j \in Ids'
                  PROVE  j \in dirty_write_ops_inode'[n] <=>
                           /\ ~ IsSync(j)'
                           /\ op_list'[j].inode = n
                           /\ \A t \in Ids' : ~ Covers(t, j)'
      BY DEF DirtyIsUnflushed, Inodes
    <2>1. dirty_write_ops_inode'[n] =
             IF n = op.inode THEN dirty_write_ops_inode[n] \cup {id}
                             ELSE dirty_write_ops_inode[n]
      BY <1>1 DEF Buffered, IInv, TypeOK, id
    <2>2. CASE j = id
      <3>1. id \notin dirty_write_ops_inode[n]
        BY <1>2 DEF IInv, TypeOK
      <3>. QED BY <1>2, <1>3, <1>4, <2>1, <2>2, <3>1
    <2>3. CASE j \in Ids
      <3>1. j # id
        BY <1>2, <2>3
      <3>2. (\A t \in Ids' : ~ Covers(t, j)') <=> (\A t \in Ids : ~ Covers(t, j))
        BY <1>2, <1>3, <1>4, <2>3
      <3>. QED BY <1>2, <1>3, <2>1, <2>3, <3>1, <3>2 DEF IInv, DirtyIsUnflushed
    <2>. QED BY <1>2, <2>1, <2>2, <2>3
  <1>8. DepsExact'
    <2>1. \A i : i = id => MeaningOfDeps(i)' = FsyncDeps
      <3>. SUFFICES ASSUME NEW i, i = id PROVE MeaningOfDeps(i)' = FsyncDeps
        OBVIOUS
      <3>1. MeaningOfDeps(i)' = FsyncDeps \cup {j \in Ids : Covers(i, j)'}
        BY <1>1, MeaningOfNewDeps DEF id
      <3>. QED BY <1>4, <3>1
    <2>. QED BY <1>1, <2>1, AppendDepsExact DEF Buffered, id
  <1>. QED BY <1>5, <1>6, <1>7, <1>8 DEF IInv

\* Appending a sync: it takes over what is dirty in its range, and what is not
\* dirty any more was flushed by a sync the latest fsync stands for.
LEMMA SyncStep ==
    ASSUME IInv, NEW op \in Operation, op.syscall = "sync", SyncOp(op)
    PROVE  IInv'
  <1>. DEFINE id == NextId
  <1>1. /\ op_list \in Seq(Operation) /\ op_list' = Append(op_list, op)
        /\ op.inode \in Inodes
    BY DEF IInv, TypeOK, SyncOp, Operation
  <1>2. /\ Len(op_list) \in Nat /\ id = Len(op_list) + 1
        /\ Ids = 1..Len(op_list) /\ Ids' = Ids \cup {id}
        /\ op_list'[id] = op
        /\ \A i \in Ids : op_list'[i] = op_list[i]
    BY <1>1, AppendKeeps DEF NextId
  <1>. HIDE DEF id
  <1>3. /\ \A i \in Ids : IsSync(i)' <=> IsSync(i)
        /\ \A i : i = id => IsSync(i)'
        /\ \A t, j \in Ids : Covers(t, j)' <=> Covers(t, j)
        /\ \A i : i = id => \A t \in Ids : ~ Covers(t, i)'
    BY <1>1, AppendKeepsMeaning DEF id
  <1>4. \A i : i = id => \A j \in Ids :
            Covers(i, j)' <=>
               /\ op_list[j].inode = op.inode
               /\ is_included_in_sync_range(op_list[j], op.start, op.end)
    <2>. SUFFICES ASSUME NEW i, i = id, NEW j \in Ids
                  PROVE Covers(i, j)' <=>
                           /\ op_list[j].inode = op.inode
                           /\ is_included_in_sync_range(op_list[j], op.start, op.end)
      OBVIOUS
    <2>. QED BY <1>2, <1>3 DEF Covers, is_included_in_sync_range
  <1>5. Flushed(op) = {j \in Ids : j \in dirty_write_ops_inode[op.inode] /\
                            \A i : i = id => Covers(i, j)'}
    <2>1. dirty_write_ops_inode[op.inode] \subseteq Ids
      BY <1>1 DEF IInv, TypeOK
    <2>2. \A j \in dirty_write_ops_inode[op.inode] : op_list[j].inode = op.inode
      BY <1>1, <2>1 DEF IInv, DirtyIsUnflushed
    <2>. QED BY <1>4, <2>1, <2>2 DEF Flushed
  <1>. DEFINE d == FsyncDeps \cup Flushed(op) \cup UNION {deps[j] : j \in Flushed(op)}
  <1>6. \A i : i = id => d = MeaningOfDeps(i)'
    <2>. SUFFICES ASSUME NEW i, i = id PROVE d = MeaningOfDeps(i)'
      OBVIOUS
    <2>1. MeaningOfDeps(i)' = FsyncDeps \cup {j \in Ids : Covers(i, j)'}
      BY <1>1, MeaningOfNewDeps DEF id
    <2>2. FsyncDeps = {j \in Ids : IsSync(j) \/ \E t \in Ids : Covers(t, j)}
      BY FsyncDepsMeaning
    <2>3. UNION {deps[j] : j \in Flushed(op)} \subseteq FsyncDeps
      <3>. SUFFICES ASSUME NEW j \in Flushed(op), NEW k \in deps[j]
                    PROVE  k \in FsyncDeps
        OBVIOUS
      <3>1. j \in Ids /\ deps[j] = MeaningOfDeps(j)
        BY <1>5 DEF IInv, DepsExact
      <3>2. 1..(j - 1) \subseteq Ids /\ 1..j \subseteq Ids
        BY <1>2, <3>1
      <3>. QED BY <2>2, <3>1, <3>2 DEF MeaningOfDeps
    <2>4. ASSUME NEW j \in Ids, Covers(i, j)', j \notin Flushed(op)
          PROVE  j \in FsyncDeps
      <3>1. j \notin dirty_write_ops_inode[op.inode] /\ op_list[j].inode = op.inode
        BY <1>4, <1>5, <2>4
      <3>2. IsSync(j) \/ \E t \in Ids : Covers(t, j)
        BY <1>1, <3>1 DEF IInv, DirtyIsUnflushed
      <3>. QED BY <2>2, <3>2
    <2>5. Flushed(op) \subseteq {j \in Ids : Covers(i, j)'}
      BY <1>5
    <2>6. d = FsyncDeps \cup {j \in Ids : Covers(i, j)'}
      BY <2>3, <2>4, <2>5
    <2>. QED BY <2>1, <2>6
  <1>7. dirty_write_ops_inode' =
            [dirty_write_ops_inode EXCEPT ![op.inode] = @ \ Flushed(op)]
    BY DEF SyncOp
  <1>8. TypeOK'
    <2>1. d \in SUBSET Nat
      <3>1. \A i : i = id => d \subseteq Ids
        <4>1. FsyncDeps \subseteq Ids
          BY FsyncDepsMeaning
        <4>2. Flushed(op) \subseteq Ids
          BY <1>5
        <4>3. ASSUME NEW j \in Flushed(op) PROVE deps[j] \subseteq Ids
          <5>1. j \in Ids /\ deps[j] = MeaningOfDeps(j)
            BY <1>5 DEF IInv, DepsExact
          <5>. QED BY <1>2, <5>1 DEF MeaningOfDeps
        <4>. QED BY <4>1, <4>2, <4>3
      <3>. QED BY <1>2, <3>1
    <2>2. dirty_write_ops_inode' \in [Inodes -> SUBSET (Ids \cup {NextId})]
      BY <1>7 DEF IInv, TypeOK
    <2>. HIDE DEF d
    <2>3. deps' = Append(deps, d) /\ latest_fsync_on_any_file' = NextId
      BY DEF SyncOp, d
    <2>. QED BY <1>1, <2>1, <2>2, <2>3, AppendTypeOK DEF IInv
  <1>9. LatestIsLastSync'
    <2>1. latest_fsync_on_any_file' = id
      BY DEF SyncOp, id
    <2>2. IsSync(latest_fsync_on_any_file)' <=> op_list'[id].syscall = "sync"
      BY <2>1 DEF IsSync
    <2>3. \A i \in Ids' : i <= id
      BY <1>2
    <2>. QED BY <1>2, <2>1, <2>2, <2>3 DEF LatestIsLastSync
  <1>10. DirtyIsUnflushed'
    <2>. SUFFICES ASSUME NEW n \in Inodes, NEW j \in Ids'
                  PROVE  j \in dirty_write_ops_inode'[n] <=>
                           /\ ~ IsSync(j)'
                           /\ op_list'[j].inode = n
                           /\ \A t \in Ids' : ~ Covers(t, j)'
      BY DEF DirtyIsUnflushed, Inodes
    <2>1. dirty_write_ops_inode'[n] =
             IF n = op.inode THEN dirty_write_ops_inode[n] \ Flushed(op)
                             ELSE dirty_write_ops_inode[n]
      BY <1>1, <1>7 DEF IInv, TypeOK
    <2>2. CASE j = id
      <3>1. id \notin dirty_write_ops_inode[n]
        BY <1>2 DEF IInv, TypeOK
      <3>2. IsSync(j)'
        BY <1>3, <2>2
      <3>. QED BY <2>1, <2>2, <3>1, <3>2
    <2>3. CASE j \in Ids
      <3>. PICK i : i = id
        OBVIOUS
      <3>1. (\A t \in Ids' : ~ Covers(t, j)') <=>
               (\A t \in Ids : ~ Covers(t, j)) /\ ~ Covers(i, j)'
        BY <1>2, <1>3, <2>3
      <3>2. j \in Flushed(op) <=>
               j \in dirty_write_ops_inode[op.inode] /\ Covers(i, j)'
        BY <1>5, <2>3
      <3>3. Covers(i, j)' => op_list[j].inode = op.inode
        BY <1>4, <2>3
      <3>4. IsSync(j)' <=> IsSync(j)
        BY <1>3, <2>3
      <3>5. j \in dirty_write_ops_inode[n] <=>
               ~ IsSync(j) /\ op_list[j].inode = n /\ \A t \in Ids : ~ Covers(t, j)
        BY <2>3 DEF IInv, DirtyIsUnflushed
      <3>6. op_list'[j] = op_list[j]
        BY <1>2, <2>3
      <3>. QED BY <2>1, <3>1, <3>2, <3>3, <3>4, <3>5, <3>6
    <2>. QED BY <1>2, <2>1, <2>2, <2>3
  <1>11. DepsExact'
    <2>1. deps' = Append(deps, d)
      BY DEF SyncOp
    <2>. HIDE DEF d
    <2>. QED BY <1>1, <1>6, <2>1, AppendDepsExact DEF id
  <1>. QED BY <1>8, <1>9, <1>10, <1>11 DEF IInv

-----------------------------------------------------------------------------
(* The invariant and what follows from it.                                 *)

LEMMA InitIInv == Init => IInv
  <1>. SUFFICES ASSUME Init PROVE IInv
    OBVIOUS
  <1>1. Ids = {} /\ op_list = << >> /\ deps = << >>
    BY DEF Init, Ids
  <1>2. TypeOK
    BY <1>1 DEF Init, TypeOK
  <1>. QED BY <1>1, <1>2 DEF Init, IInv, LatestIsLastSync, DirtyIsUnflushed, DepsExact

\* Every operation of the trace is appended as a buffered one or as a sync.
LEMMA NextAppends ==
    ASSUME Next
    PROVE  \E op \in Operation :
              \/ op.syscall # "sync" /\ Buffered(op)
              \/ op.syscall = "sync" /\ SyncOp(op)
  <1>1. ASSUME NEW n \in Files, NEW from \in Offset, NEW to \in Offset,
               Write(n, from, to)
        PROVE  \E op \in Operation : op.syscall # "sync" /\ Buffered(op)
    BY <1>1 DEF Write, Operation, calls_of_interest, Inodes
  <1>2. ASSUME NEW n \in Files, NEW size \in Offset, Truncate(n, size)
        PROVE  \E op \in Operation : op.syscall # "sync" /\ Buffered(op)
    BY <1>2 DEF Truncate, Operation, calls_of_interest, Inodes
  <1>3. ASSUME NEW call \in metadata_calls, NEW parent \in Dirs, DirEntry(call, parent)
        PROVE  \E op \in Operation : op.syscall # "sync" /\ Buffered(op)
    <2>. DEFINE op == [syscall |-> call, inode |-> parent, start |-> 0, end |-> 0]
    <2>1. op \in Operation
      BY MaxOffsetAssumption DEF Operation, calls_of_interest, Inodes, Offset
    <2>2. op.syscall # "sync" /\ Buffered(op)
      BY <1>3 DEF DirEntry, metadata_calls
    <2>. QED BY <2>1, <2>2
  <1>4. ASSUME NEW n \in Inodes, NEW from \in Offset, NEW to \in Offset,
               Sync(n, from, to)
        PROVE  \E op \in Operation : op.syscall = "sync" /\ SyncOp(op)
    BY <1>4 DEF Sync, Operation, calls_of_interest
  <1>. QED BY <1>1, <1>2, <1>3, <1>4 DEF Next

LEMMA StepIInv == IInv /\ [Next]_vars => IInv'
  <1>1. ASSUME IInv, Next PROVE IInv'
    BY <1>1, NextAppends, BufferedStep, SyncStep
  <1>2. ASSUME IInv, UNCHANGED vars PROVE IInv'
    BY <1>2 DEF vars, IInv, TypeOK, LatestIsLastSync, DirtyIsUnflushed, DepsExact,
                MeaningOfDeps, Covers, IsSync, Ids
  <1>. QED BY <1>1, <1>2

\* Every reachable suite is well typed, its dirty sets are what no sync has
\* flushed, and its deps have the declared meaning.
THEOREM Invariance == Spec => []IInv
  BY InitIInv, StepIInv, PTL DEF Spec

\* Type correctness of the construction.
THEOREM TypeCorrect == Spec => []TypeOK
  <1>1. IInv => TypeOK
    BY DEF IInv
  <1>. QED BY <1>1, Invariance, PTL

\* The incremental dependency computation of auto_test.py yields, for every
\* trace, exactly the operations forced by the syncs.
THEOREM DepsAreExact == Spec => []DepsExact
  <1>1. IInv => DepsExact
    BY DEF IInv
  <1>. QED BY <1>1, Invariance, PTL

-----------------------------------------------------------------------------
(* What exact deps imply, for any list of operations: also for the lists of  *)
(* the Replayer, which take MeaningOfDeps for what the constructor computes. *)

ExactDeps == Len(op_list) \in Nat /\ Ids = 1..Len(op_list) /\ DepsExact

LEMMA IInvExact == IInv => ExactDeps
  BY DEF IInv, TypeOK, ExactDeps, Ids

LEMMA ExactBound ==
    ASSUME ExactDeps, NEW i \in Ids
    PROVE  /\ i \in Nat /\ 1 <= i /\ 1..i \subseteq Ids
           /\ deps[i] = MeaningOfDeps(i)
           /\ deps[i] \subseteq 1..(i - 1)
  <1>1. Ids = 1..Len(op_list) /\ Len(op_list) \in Nat
    BY DEF ExactDeps
  <1>2. deps[i] = MeaningOfDeps(i)
    BY DEF ExactDeps, DepsExact
  <1>. QED BY <1>1, <1>2 DEF MeaningOfDeps

LEMMA ExactBlocking == ExactDeps => BlockingIsMonotone
  <1>. SUFFICES ASSUME ExactDeps, NEW i \in Ids, NEW k \in Ids, i < k
                PROVE  deps[i] \subseteq deps[k] /\ (IsSync(i) => i \in deps[k])
    BY DEF BlockingIsMonotone
  <1>1. /\ i \in Nat /\ 1 <= i /\ k \in Nat
        /\ deps[i] = MeaningOfDeps(i) /\ deps[k] = MeaningOfDeps(k)
    BY ExactBound
  <1>2. 1..(i - 1) \subseteq 1..(k - 1) /\ 1..i \subseteq 1..k /\ i \in 1..(k - 1)
    BY <1>1, ExactBound
  <1>. QED BY <1>1, <1>2 DEF MeaningOfDeps

LEMMA ExactClosed == ExactDeps => DepsClosed
  <1>. SUFFICES ASSUME ExactDeps, NEW i \in Ids, NEW j \in deps[i]
                PROVE  j \in Ids /\ deps[j] \subseteq deps[i]
    BY DEF DepsClosed
  <1>1. i \in Nat /\ 1..i \subseteq Ids /\ j \in 1..(i - 1)
    BY ExactBound
  <1>2. j \in Ids /\ j < i
    BY <1>1
  <1>. QED BY <1>2, ExactBlocking DEF BlockingIsMonotone

LEMMA DepsBound ==
    ASSUME IInv, NEW i \in Ids
    PROVE  /\ i \in Nat /\ 1 <= i /\ 1..i \subseteq Ids
           /\ deps[i] = MeaningOfDeps(i)
           /\ deps[i] \subseteq 1..(i - 1)
  BY IInvExact, ExactBound

LEMMA IInvBlocking == IInv => BlockingIsMonotone
  BY IInvExact, ExactBlocking

LEMMA IInvClosed == IInv => DepsClosed
  BY IInvExact, ExactClosed

\* A dropped operation that blocks one operation blocks everything after it,
\* for every trace; generate_combos is correct only because of this.
THEOREM BlockingMonotone == Spec => []BlockingIsMonotone
  BY IInvBlocking, Invariance, PTL

\* deps is transitively closed for every trace.
THEOREM DepsTransitive == Spec => []DepsClosed
  BY IInvClosed, Invariance, PTL

\* keep_list_of_ops yields the smallest valid combo that keeps the given
\* operations, for every trace: the assertion of auto_test.py:470 never fails.
THEOREM KeepListCorrect == Spec => []KeepListIsSmallest
  <1>1. DepsClosed => KeepListIsSmallest
    BY DEF DepsClosed, KeepListIsSmallest, keep_list_of_ops, test_validity, ValidCombos
  <1>. QED BY <1>1, DepsTransitive, PTL

-----------------------------------------------------------------------------
(* drop_list_of_ops                                                          *)

\* As deps is transitively closed, the second pass of the loop finds nothing.
LEMMA OnePassIsEnough ==
    ASSUME DepsClosed, NEW dropped \in SUBSET Ids
    PROVE  DropPass(DropPass(dropped)) = DropPass(dropped)
  BY DEF DepsClosed, DropPass

\* The loop ends with what its first pass has dropped, however many follow.
LEMMA DropListIsOnePass ==
    ASSUME DepsClosed, Len(op_list) \in Nat, Ids = 1..Len(op_list),
           NEW dropped \in SUBSET Ids
    PROVE  drop_list_of_ops(dropped) = Ids \ DropPass(dropped)
  <1>. DEFINE N == Len(op_list)
              drop[pass \in 0..N] ==
                 IF pass = 0 THEN dropped ELSE DropPass(drop[pass - 1])
              once == [pass \in 0..N |-> IF pass = 0 THEN dropped ELSE DropPass(dropped)]
  <1>. HIDE DEF N
  <1>0. N \in Nat /\ N = Len(op_list)
    BY DEF N
  <1>1. once = [pass \in 0..N |-> IF pass = 0 THEN dropped ELSE DropPass(once[pass - 1])]
    <2>1. ASSUME NEW pass \in 0..N, pass # 0
          PROVE  DropPass(once[pass - 1]) = DropPass(dropped)
      <3>1. pass - 1 \in 0..N
        BY <1>0, <2>1
      <3>2. once[pass - 1] \in {dropped, DropPass(dropped)}
        BY <3>1
      <3>. QED BY <3>2, OnePassIsEnough
    <2>. QED BY <2>1
  <1>2. drop = [pass \in 0..N |-> IF pass = 0 THEN dropped ELSE DropPass(drop[pass - 1])]
    BY <1>1
  <1>. HIDE DEF drop, once
  <1>3. DEFINE T == {n \in Nat : n \in 1..N => drop[n] = DropPass(dropped)}
  <1>4. 0 \in T
    OBVIOUS
  <1>5. ASSUME NEW n \in Nat, n \in T PROVE n + 1 \in T
    <2>1. SUFFICES ASSUME n + 1 \in 1..N PROVE drop[n + 1] = DropPass(dropped)
      OBVIOUS
    <2>2. drop[n + 1] = DropPass(drop[n]) /\ n \in 0..N
      BY <1>0, <1>2, <2>1
    <2>3. CASE n = 0
      BY <1>2, <2>2, <2>3
    <2>4. CASE n # 0
      BY <1>5, <2>2, <2>4, OnePassIsEnough
    <2>. QED BY <2>3, <2>4
  <1>6. N \in T
    <2>. HIDE DEF T
    <2>. QED BY <1>0, <1>4, <1>5, NatSetInduction
  <1>7. drop_list_of_ops(dropped) = Ids \ drop[N]
    BY DEF drop_list_of_ops, drop, N
  <1>8. CASE N = 0
    <2>1. Ids = 1..Len(op_list)
      OBVIOUS
    <2>2. Len(op_list) = 0
      BY <1>0, <1>8
    <2>3. Ids = 1..0
      BY <2>1, <2>2
    <2>4. \A i : i \notin 1..0
      OBVIOUS
    <2>5. Ids = {}
      BY <2>3, <2>4
    <2>. QED BY <1>7, <2>5
  <1>9. CASE N # 0
    BY <1>0, <1>6, <1>7, <1>9
  <1>. QED BY <1>8, <1>9

LEMMA ExactDropList == ExactDeps => DropListIsLargest
  <1>. SUFFICES ASSUME ExactDeps,
                       NEW dropped \in SUBSET Ids,
                       NEW rest, rest = drop_list_of_ops(dropped)
                PROVE  /\ test_validity(rest)
                       /\ rest \cap dropped = {}
                       /\ \A c \in ValidCombos : c \cap dropped = {} => c \subseteq rest
                       /\ \A last \in rest : 1..last \subseteq dropped \cup rest
    BY DEF DropListIsLargest
  <1>1. DepsClosed /\ BlockingIsMonotone
    BY ExactClosed, ExactBlocking
  <1>2. \A i \in Ids : i \in rest <=> i \notin dropped /\ deps[i] \cap dropped = {}
    BY <1>1, DropListIsOnePass DEF DropPass, ExactDeps
  <1>3. rest \subseteq Ids
    BY DEF drop_list_of_ops
  <1>4. test_validity(rest)
    BY <1>1, <1>2, <1>3 DEF DepsClosed, test_validity
  <1>5. \A c \in ValidCombos : c \cap dropped = {} => c \subseteq rest
    BY <1>2 DEF ValidCombos, test_validity
  <1>6. ASSUME NEW last \in rest, NEW k \in 1..last PROVE k \in dropped \cup rest
    <2>1. last \in Ids /\ last \in Nat /\ 1..last \subseteq Ids
      BY <1>3, ExactBound
    <2>2. k \in Ids /\ (k < last \/ k = last)
      BY <2>1
    <2>3. deps[k] \subseteq deps[last]
      BY <1>1, <2>1, <2>2 DEF BlockingIsMonotone
    <2>. QED BY <1>2, <2>1, <2>2, <2>3
  <1>. QED BY <1>2, <1>4, <1>5, <1>6

\* drop_list_of_ops returns the largest valid combo without the given operations,
\* and drops a suffix of the trace on its own account, for every trace (the
\* assertions of auto_test.py:448 and simulate_crashes.py:400-401).
THEOREM DropListCorrect == Spec => []DropListIsLargest
  BY IInvExact, ExactDropList, Invariance, PTL
=============================================================================
