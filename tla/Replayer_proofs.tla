--------------------------- MODULE Replayer_proofs ---------------------------
(***************************************************************************)
(* Proofs about the Replayer.  The first part is about its API (module     *)
(* Replayer): for every trace and every sequence of calls a test suite     *)
(* that may be asked is current, and what a specification replays within   *)
(* dops_independent_till is legal.  The second is about replay_disk_ops,   *)
(* for files and traces of any size and every way to split the lines:      *)
(* replaying the disk operations makes the tree that the micro operations  *)
(* make (module ReplayVerify, _dops_verify_replayer), and what a program   *)
(* has synced is in every crash state (CrashReplay).                       *)
(***************************************************************************)
EXTENDS Replayer, ReplayVerify, CrashReplay, FiniteSetTheorems, TLAPS

Rows == RowsOf(micro_ops)

\* The test suite of the operations there are now, with the facts that
\* TestSuite_proofs establishes about every suite.
Current ==
    INSTANCE TestSuite_proofs WITH
        op_list <- Operations(Rows), deps <- DepsOf(Rows),
        Files <- Files \cup {StdoutInode},
        MaxOffset <- 0, MaxOps <- 0,
        dirty_write_ops_inode <- 0, latest_fsync_on_any_file <- 0

-----------------------------------------------------------------------------
(* Sequences of whatever elements                                            *)

IsSequence(s) == Len(s) \in Nat /\ s = [i \in 1..Len(s) |-> s[i]]

Elements(s) == {s[i] : i \in 1..Len(s)}

LEMMA InSeq ==
    ASSUME NEW s, IsSequence(s)
    PROVE  s \in Seq(Elements(s)) /\ DOMAIN s = 1..Len(s) /\ Len(s) \in Nat
  BY DEF IsSequence, Elements

LEMMA OfSeq ==
    ASSUME NEW S, NEW s \in Seq(S)
    PROVE  IsSequence(s) /\ \A i \in 1..Len(s) : s[i] \in S
  BY DEF IsSequence

LEMMA OnInterval ==
    ASSUME NEW n \in Nat, NEW f, f = [i \in 1..n |-> f[i]]
    PROVE  IsSequence(f) /\ Len(f) = n
  <1>. DEFINE S == {f[i] : i \in 1..n}
  <1>1. f \in Seq(S) /\ Len(f) = n
    OBVIOUS
  <1>. QED BY <1>1 DEF IsSequence

LEMMA Concatenated ==
    ASSUME NEW s, NEW t, IsSequence(s), IsSequence(t)
    PROVE  /\ IsSequence(s \o t)
           /\ Len(s \o t) = Len(s) + Len(t)
           /\ \A i \in 1..Len(s \o t) :
                 (s \o t)[i] = IF i <= Len(s) THEN s[i] ELSE t[i - Len(s)]
  <1>. DEFINE S == Elements(s) \cup Elements(t)
  <1>1. s \in Seq(S) /\ t \in Seq(S)
    BY InSeq, Elements(s) \subseteq S, Elements(t) \subseteq S
  <1>. HIDE DEF S
  <1>2. IsSequence(s \o t)
    <2>. s \o t \in Seq(S)
      BY <1>1
    <2>. QED BY OfSeq
  <1>3. Len(s \o t) = Len(s) + Len(t)
    BY <1>1
  <1>4. ASSUME NEW i \in 1..Len(s \o t)
        PROVE  (s \o t)[i] = IF i <= Len(s) THEN s[i] ELSE t[i - Len(s)]
    BY <1>1, <1>3
  <1>. QED BY <1>2, <1>3, <1>4

LEMMA Subsequence ==
    ASSUME NEW s, IsSequence(s), NEW m \in Int, NEW n \in Int, 1 <= m, n <= Len(s)
    PROVE  /\ IsSequence(SubSeq(s, m, n))
           /\ Len(SubSeq(s, m, n)) = IF m <= n THEN n - m + 1 ELSE 0
           /\ \A i \in 1..Len(SubSeq(s, m, n)) :
                 SubSeq(s, m, n)[i] = s[m + i - 1] /\ m + i - 1 \in 1..Len(s)
  <1>. DEFINE S == Elements(s)
  <1>1. s \in Seq(S) /\ Len(s) \in Nat
    BY InSeq
  <1>. HIDE DEF S
  <1>2. IsSequence(SubSeq(s, m, n))
    <2>. SubSeq(s, m, n) \in Seq(S)
      BY <1>1
    <2>. QED BY OfSeq
  <1>3. Len(SubSeq(s, m, n)) = IF m <= n THEN n - m + 1 ELSE 0
    BY <1>1
  <1>4. ASSUME NEW i \in 1..Len(SubSeq(s, m, n))
        PROVE  SubSeq(s, m, n)[i] = s[m + i - 1] /\ m + i - 1 \in 1..Len(s)
    BY <1>1, <1>3
  <1>. QED BY <1>2, <1>3, <1>4

LEMMA SameSequence ==
    ASSUME NEW s, NEW t, IsSequence(s), IsSequence(t), Len(s) = Len(t),
           \A i \in 1..Len(s) : s[i] = t[i]
    PROVE  s = t
  BY DEF IsSequence

-----------------------------------------------------------------------------
(* FlattenSeq, by the recursion it is defined with                           *)

\* sums is what FlattenSeq makes of ever more sequences of seqs.
Flattened(seqs, sums) ==
    /\ sums = [k \in 0..Len(seqs) |-> sums[k]]
    /\ sums[0] = << >>
    /\ \A k \in 1..Len(seqs) : sums[k] = sums[k - 1] \o seqs[k]

AllSequences(seqs) == IsSequence(seqs) /\ \A k \in 1..Len(seqs) : IsSequence(seqs[k])

LEMMA FlattenedExists ==
    ASSUME NEW seqs, IsSequence(seqs)
    PROVE  \E sums : Flattened(seqs, sums)
  <1>. DEFINE N == Len(seqs)
              Upto(n, sums) ==
                 /\ sums = [k \in 0..n |-> sums[k]]
                 /\ sums[0] = << >>
                 /\ \A k \in 1..n : sums[k] = sums[k - 1] \o seqs[k]
              T == {n \in Nat : \E sums : Upto(n, sums)}
  <1>1. N \in Nat
    BY InSeq
  <1>2. 0 \in T
    <2>. DEFINE none == [k \in 0..0 |-> << >>]
    <2>1. Upto(0, none)
      OBVIOUS
    <2>. QED BY <2>1
  <1>3. ASSUME NEW n \in Nat, n \in T PROVE n + 1 \in T
    <2>1. PICK sums : Upto(n, sums)
      BY <1>3
    <2>. DEFINE more == [k \in 0..(n + 1) |->
                           IF k = n + 1 THEN sums[n] \o seqs[k] ELSE sums[k]]
    <2>2. ASSUME NEW k \in 1..(n + 1) PROVE more[k] = more[k - 1] \o seqs[k]
      <3>1. k \in 0..(n + 1) /\ k - 1 \in 0..(n + 1) /\ k - 1 # n + 1
        OBVIOUS
      <3>2. more[k - 1] = sums[k - 1] /\ (k # n + 1 => more[k] = sums[k])
        BY <3>1
      <3>3. CASE k = n + 1
        <4>1. k - 1 = n
          BY <3>3
        <4>2. more[k] = sums[n] \o seqs[k]
          <5>. HIDE DEF N
          <5>. QED BY <3>1, <3>3, Zenon
        <4>. QED BY <3>2, <4>1, <4>2
      <3>4. CASE k # n + 1
        <4>1. k \in 1..n
          BY <3>4
        <4>. QED BY <2>1, <3>2, <3>4, <4>1
      <3>. QED BY <3>3, <3>4
    <2>3. more[0] = << >> /\ more = [k \in 0..(n + 1) |-> more[k]]
      BY <2>1
    <2>4. Upto(n + 1, more)
      <3>. HIDE DEF more
      <3>. QED BY <2>2, <2>3
    <2>. HIDE DEF more
    <2>. QED BY <2>4
  <1>4. N \in T
    <2>. HIDE DEF T
    <2>. QED BY <1>1, <1>2, <1>3, Current!NatSetInduction
  <1>. QED BY <1>4 DEF Flattened

\* The elements of what is flattened are elements of its parts.
LEMMA FlattenedParts ==
    ASSUME NEW seqs, AllSequences(seqs), NEW sums, Flattened(seqs, sums)
    PROVE  \A n \in 0..Len(seqs) :
              /\ IsSequence(sums[n])
              /\ \A i \in 1..Len(sums[n]) : \E k \in 1..Len(seqs) :
                    \E j \in 1..Len(seqs[k]) : sums[n][i] = seqs[k][j]
  <1>. DEFINE N == Len(seqs)
              Part(x) == \E k \in 1..N : \E j \in 1..Len(seqs[k]) : x = seqs[k][j]
              Fine(s) == IsSequence(s) /\ \A i \in 1..Len(s) : Part(s[i])
              T == {n \in Nat : n <= N => Fine(sums[n])}
  <1>1. N \in Nat
    BY InSeq DEF AllSequences
  <1>2. 0 \in T
    BY DEF Flattened, IsSequence
  <1>3. ASSUME NEW n \in Nat, n \in T PROVE n + 1 \in T
    <2>1. SUFFICES ASSUME n + 1 <= N PROVE Fine(sums[n + 1])
      OBVIOUS
    <2>2. n + 1 \in 1..N /\ Fine(sums[n]) /\ sums[n + 1] = sums[n] \o seqs[n + 1]
      BY <1>1, <1>3, <2>1, SMTT(30) DEF Flattened
    <2>3. IsSequence(seqs[n + 1])
      BY <2>2 DEF AllSequences
    <2>. DEFINE s == sums[n]
                t == seqs[n + 1]
    <2>4. \A j \in 1..Len(t) : Part(t[j])
      BY <2>2
    <2>5. /\ Fine(s) /\ IsSequence(t) /\ sums[n + 1] = s \o t
      BY <2>2, <2>3
    <2>. HIDE DEF s, t, Part
    <2>6. Fine(s \o t)
      <3>1. /\ IsSequence(s \o t)
            /\ Len(s \o t) = Len(s) + Len(t)
            /\ Len(s) \in Nat /\ Len(t) \in Nat
            /\ \A i \in 1..Len(s \o t) :
                  (s \o t)[i] = IF i <= Len(s) THEN s[i] ELSE t[i - Len(s)]
        BY <2>5, Concatenated, InSeq
      <3>2. ASSUME NEW i \in 1..Len(s \o t) PROVE Part((s \o t)[i])
        <4>1. i <= Len(s) => i \in 1..Len(s)
          BY <3>1
        <4>2. ~ (i <= Len(s)) => i - Len(s) \in 1..Len(t)
          BY <3>1
        <4>. QED BY <2>4, <2>5, <3>1, <4>1, <4>2
      <3>. QED BY <3>1, <3>2
    <2>. QED BY <2>5, <2>6
  <1>4. \A n \in Nat : n \in T
    <2>. HIDE DEF T
    <2>. QED BY <1>2, <1>3, Current!NatSetInduction
  <1>. QED BY <1>1, <1>4

\* FlattenSeq of a prefix is one of them.
LEMMA FlattenPrefix ==
    ASSUME NEW seqs, AllSequences(seqs), NEW sums, Flattened(seqs, sums),
           NEW n \in 0..Len(seqs)
    PROVE  FlattenSeq(SubSeq(seqs, 1, n)) = sums[n]
  <1>. DEFINE s == SubSeq(seqs, 1, n)
              flatten[i \in 1..Len(s)] == IF i = 1 THEN s[i] ELSE flatten[i - 1] \o s[i]
  <1>1. /\ IsSequence(s) /\ Len(s) = n /\ n \in Nat /\ Len(seqs) \in Nat
        /\ \A i \in 1..n : s[i] = seqs[i]
    BY Subsequence, InSeq DEF AllSequences
  <1>. HIDE DEF s
  <1>2. CASE n = 0
    <2>1. s = << >>
      BY <1>1, <1>2 DEF IsSequence
    <2>. QED BY <1>1, <1>2, <2>1 DEF FlattenSeq, Flattened
  <1>3. CASE n # 0
    <2>. DEFINE Solves(f) == f = [i \in 1..Len(s) |-> IF i = 1 THEN s[i] ELSE f[i - 1] \o s[i]]
                sum == [i \in 1..n |-> sums[i]]
    <2>1. ASSUME NEW k \in 1..n
          PROVE  sums[k] = IF k = 1 THEN s[k] ELSE sums[k - 1] \o s[k]
      <3>1. k \in 1..Len(seqs) /\ s[k] = seqs[k]
        BY <1>1
      <3>2. sums[k] = sums[k - 1] \o s[k]
        BY <3>1 DEF Flattened
      <3>3. CASE k = 1
        <4>1. s[k] \in Seq(Elements(s[k])) /\ sums[k - 1] = << >>
          BY <3>1, <3>3, InSeq DEF AllSequences, Flattened
        <4>2. << >> \o s[k] = s[k]
          BY <4>1
        <4>. QED BY <3>2, <3>3, <4>1, <4>2
      <3>. QED BY <3>2, <3>3
    <2>3. Solves(sum)
      <3>1. ASSUME NEW k \in 1..n
            PROVE  sum[k] = IF k = 1 THEN s[k] ELSE sum[k - 1] \o s[k]
        <4>1. k # 1 => k - 1 \in 1..n
          OBVIOUS
        <4>. QED BY <2>1, <4>1
      <3>. HIDE DEF sum
      <3>2. sum = [k \in 1..n |-> sum[k]]
        BY DEF sum
      <3>. QED BY <1>1, <3>1, <3>2
    <2>4. flatten = CHOOSE f : Solves(f)
      BY DEF flatten
    <2>. HIDE DEF flatten
    <2>5. Solves(flatten)
      <3>. HIDE DEF Solves
      <3>. QED BY <2>3, <2>4
    <2>. DEFINE T == {k \in Nat : k \in 1..n => flatten[k] = sums[k]}
    <2>6. 0 \in T
      OBVIOUS
    <2>7. ASSUME NEW k \in Nat, k \in T PROVE k + 1 \in T
      <3>1. SUFFICES ASSUME k + 1 \in 1..n PROVE flatten[k + 1] = sums[k + 1]
        OBVIOUS
      <3>2. flatten[k + 1] = IF k + 1 = 1 THEN s[k + 1] ELSE flatten[(k + 1) - 1] \o s[k + 1]
        BY <1>1, <2>5, <3>1
      <3>3. sums[k + 1] = IF k + 1 = 1 THEN s[k + 1] ELSE sums[(k + 1) - 1] \o s[k + 1]
        BY <2>1, <3>1
      <3>4. k + 1 # 1 => k \in 1..n /\ (k + 1) - 1 = k
        BY <3>1
      <3>. QED BY <2>7, <3>2, <3>3, <3>4
    <2>8. n \in T
      <3>. HIDE DEF T
      <3>. QED BY <1>1, <2>6, <2>7, Current!NatSetInduction
    <2>9. FlattenSeq(s) = flatten[Len(s)]
      BY <1>1, <1>3 DEF FlattenSeq, flatten
    <2>. QED BY <1>1, <1>3, <2>8, <2>9 DEF s
  <1>. QED BY <1>2, <1>3
-----------------------------------------------------------------------------
(* Lists of micro operations                                                 *)

IsRow(row) == row.op = "write" => row.count \in Nat /\ row.count > 0

IsDiskOp(op) ==
    /\ op = [row |-> op.row, hidden_omitted |-> op.hidden_omitted]
    /\ op.hidden_omitted \in BOOLEAN
    /\ IsRow(op.row)

IsMicroOp(op) ==
    /\ op = [line |-> op.line, disk_ops |-> op.disk_ops]
    /\ IsLine(op.line)
    /\ IsSequence(op.disk_ops)
    /\ \A j \in 1..Len(op.disk_ops) : IsDiskOp(op.disk_ops[j])

WellFormed(ops) == IsSequence(ops) /\ \A i \in 1..Len(ops) : IsMicroOp(ops[i])

RowsOfEach(ops) ==
    [i \in DOMAIN ops |-> [j \in DOMAIN ops[i].disk_ops |-> ops[i].disk_ops[j].row]]

LEMMA EachRows ==
    ASSUME NEW ops, WellFormed(ops)
    PROVE  /\ AllSequences(RowsOfEach(ops))
           /\ Len(RowsOfEach(ops)) = Len(ops)
           /\ \A i \in 1..Len(ops) : Len(RowsOfEach(ops)[i]) = Len(ops[i].disk_ops)
  <1>. DEFINE each == RowsOfEach(ops)
  <1>1. DOMAIN ops = 1..Len(ops) /\ Len(ops) \in Nat
    BY InSeq DEF WellFormed
  <1>2. each = [i \in 1..Len(ops) |-> each[i]]
    BY <1>1 DEF RowsOfEach
  <1>3. IsSequence(each) /\ Len(each) = Len(ops)
    <2>. HIDE DEF each
    <2>. QED BY <1>1, <1>2, OnInterval
  <1>4. ASSUME NEW i \in 1..Len(ops)
        PROVE  IsSequence(each[i]) /\ Len(each[i]) = Len(ops[i].disk_ops)
    <2>1. DOMAIN ops[i].disk_ops = 1..Len(ops[i].disk_ops) /\ Len(ops[i].disk_ops) \in Nat
      BY InSeq DEF WellFormed, IsMicroOp
    <2>2. each[i] = [j \in 1..Len(ops[i].disk_ops) |-> ops[i].disk_ops[j].row]
      BY <1>1, <2>1 DEF RowsOfEach
    <2>3. each[i] = [j \in 1..Len(ops[i].disk_ops) |-> each[i][j]]
      BY <2>2
    <2>. HIDE DEF each
    <2>. QED BY <2>1, <2>3, OnInterval
  <1>. QED BY <1>3, <1>4 DEF AllSequences

\* before[k] is the number of disk operations of the first k micro operations.
Counts(ops, before) ==
    /\ before \in [0..Len(ops) -> Nat]
    /\ before[0] = 0
    /\ \A k \in 1..Len(ops) : before[k] = before[k - 1] + Len(ops[k].disk_ops)
    /\ \A k \in 0..Len(ops) : Len(RowsOf(SubSeq(ops, 1, k))) = before[k]
    /\ IsSequence(RowsOf(ops))
    /\ Len(RowsOf(ops)) = before[Len(ops)]

LEMMA CountsExist ==
    ASSUME NEW ops, WellFormed(ops)
    PROVE  \E before : Counts(ops, before)
  <1>. DEFINE each == RowsOfEach(ops)
  <1>1. /\ AllSequences(each) /\ Len(each) = Len(ops) /\ IsSequence(each)
        /\ \A i \in 1..Len(ops) : Len(each[i]) = Len(ops[i].disk_ops)
        /\ IsSequence(ops) /\ Len(ops) \in Nat
    BY EachRows, InSeq DEF AllSequences, WellFormed
  <1>2. PICK sums : Flattened(each, sums)
    BY <1>1, FlattenedExists
  <1>3. \A k \in 0..Len(ops) : IsSequence(sums[k]) /\ Len(sums[k]) \in Nat
    BY <1>1, <1>2, FlattenedParts, InSeq
  <1>4. ASSUME NEW k \in 0..Len(ops) PROVE RowsOf(SubSeq(ops, 1, k)) = sums[k]
    <2>1. RowsOfEach(SubSeq(ops, 1, k)) = SubSeq(each, 1, k)
      <3>. DEFINE some == SubSeq(ops, 1, k)
                  part == SubSeq(each, 1, k)
                  list == RowsOfEach(some)
      <3>1. /\ IsSequence(some) /\ Len(some) = k /\ \A i \in 1..k : some[i] = ops[i]
            /\ IsSequence(part) /\ Len(part) = k /\ \A i \in 1..k : part[i] = each[i]
        <4>. HIDE DEF each
        <4>. QED BY <1>1, Subsequence
      <3>. HIDE DEF some, part
      <3>2. DOMAIN some = 1..k
        BY <3>1, InSeq
      <3>3. DOMAIN ops = 1..Len(ops)
        BY <1>1, InSeq
      <3>4. ASSUME NEW i \in 1..k PROVE list[i] = part[i]
        <4>1. i \in DOMAIN some /\ i \in DOMAIN ops /\ some[i] = ops[i] /\ part[i] = each[i]
          BY <1>1, <3>1, <3>2, <3>3
        <4>2. list[i] = [j \in DOMAIN some[i].disk_ops |-> some[i].disk_ops[j].row]
          BY <4>1 DEF RowsOfEach
        <4>3. each[i] = [j \in DOMAIN ops[i].disk_ops |-> ops[i].disk_ops[j].row]
          BY <4>1 DEF RowsOfEach
        <4>. QED BY <4>1, <4>2, <4>3
      <3>5. list = [i \in 1..k |-> list[i]]
        BY <3>2 DEF RowsOfEach
      <3>. HIDE DEF list
      <3>6. IsSequence(list) /\ Len(list) = k
        BY <3>5, OnInterval
      <3>7. list = part
        BY <3>1, <3>4, <3>6, SameSequence
      <3>. QED BY <3>7 DEF list, some, part
    <2>2. FlattenSeq(SubSeq(each, 1, k)) = sums[k]
      <3>. HIDE DEF each
      <3>. QED BY <1>1, <1>2, FlattenPrefix
    <2>. QED BY <2>1, <2>2 DEF RowsOf, RowsOfEach
  <1>5. SubSeq(ops, 1, Len(ops)) = ops
    <2>1. ops \in Seq(Elements(ops))
      BY <1>1, InSeq
    <2>. QED BY <2>1
  <1>. DEFINE before == [k \in 0..Len(ops) |-> Len(sums[k])]
  <1>6. ASSUME NEW k \in 1..Len(ops) PROVE before[k] = before[k - 1] + Len(ops[k].disk_ops)
    <2>1. k \in 0..Len(ops) /\ k - 1 \in 0..Len(ops)
      BY <1>1
    <2>2. sums[k] = sums[k - 1] \o each[k]
      BY <1>1, <1>2 DEF Flattened
    <2>3. IsSequence(sums[k - 1]) /\ IsSequence(each[k])
      BY <1>1, <1>3, <2>1 DEF AllSequences
    <2>4. Len(sums[k]) = Len(sums[k - 1]) + Len(each[k])
      <3>. HIDE DEF each
      <3>. QED BY <2>2, <2>3, Concatenated
    <2>. QED BY <1>1, <2>1, <2>4
  <1>7. before \in [0..Len(ops) -> Nat]
    BY <1>3
  <1>8. before[0] = 0
    BY <1>1, <1>2 DEF Flattened
  <1>9. \A k \in 0..Len(ops) : Len(RowsOf(SubSeq(ops, 1, k))) = before[k]
    BY <1>4
  <1>10. IsSequence(RowsOf(ops)) /\ Len(RowsOf(ops)) = before[Len(ops)]
    <2>1. Len(ops) \in 0..Len(ops)
      BY <1>1
    <2>2. RowsOf(ops) = sums[Len(ops)]
      BY <1>4, <1>5, <2>1
    <2>. QED BY <1>3, <2>1, <2>2
  <1>. QED BY <1>6, <1>7, <1>8, <1>9, <1>10 DEF Counts
-----------------------------------------------------------------------------
(* The numbers of disk operations (dops_single)                              *)

LEMMA InDoubles ==
    ASSUME WellFormed(micro_ops), NEW d
    PROVE  d \in Doubles <=> /\ d = <<d[1], d[2]>>
                             /\ d[1] \in 1..Len(micro_ops)
                             /\ d[2] \in 1..Len(micro_ops[d[1]].disk_ops)
  <1>1. Micro = 1..Len(micro_ops)
    BY InSeq DEF WellFormed, Micro
  <1>2. \A i \in Micro : DOMAIN DiskOpsOf(i) = 1..Len(micro_ops[i].disk_ops)
    BY <1>1, InSeq DEF WellFormed, IsMicroOp, DiskOpsOf
  <1>. QED BY <1>1, <1>2 DEF Doubles

\* before grows along the list.
LEMMA CountsGrow ==
    ASSUME WellFormed(micro_ops), NEW before, Counts(micro_ops, before),
           NEW k \in 0..Len(micro_ops)
    PROVE  \A m \in k..Len(micro_ops) : before[k] <= before[m]
  <1>. DEFINE N == Len(micro_ops)
              T == {n \in Nat : k + n <= N => before[k] <= before[k + n]}
  <1>1. N \in Nat /\ \A m \in 1..N : Len(micro_ops[m].disk_ops) \in Nat
    BY InSeq DEF WellFormed, IsMicroOp
  <1>2. before \in [0..N -> Nat] /\ k \in Nat
    BY DEF Counts
  <1>3. 0 \in T
    BY <1>2
  <1>4. ASSUME NEW n \in Nat, n \in T PROVE n + 1 \in T
    <2>1. SUFFICES ASSUME k + (n + 1) <= N PROVE before[k] <= before[k + (n + 1)]
      OBVIOUS
    <2>. DEFINE m == k + (n + 1)
    <2>2. m \in 1..N /\ m - 1 = k + n
      BY <1>1, <1>2, <2>1
    <2>3. before[m] = before[m - 1] + Len(micro_ops[m].disk_ops)
      BY <2>2 DEF Counts
    <2>4. before[k] <= before[m - 1]
      BY <1>1, <1>2, <1>4, <2>1, <2>2
    <2>5. before[m - 1] \in Nat /\ before[k] \in Nat
      <3>1. m - 1 \in 0..N
        BY <1>1, <2>2
      <3>. HIDE DEF m
      <3>. QED BY <1>2, <3>1
    <2>. QED BY <1>1, <2>2, <2>3, <2>4, <2>5
  <1>5. \A n \in Nat : n \in T
    <2>. HIDE DEF T
    <2>. QED BY <1>3, <1>4, Current!NatSetInduction
  <1>6. ASSUME NEW m \in k..N PROVE before[k] <= before[m]
    <2>1. m - k \in Nat /\ k + (m - k) = m /\ m <= N
      BY <1>1, <1>2
    <2>2. m - k \in T
      BY <1>5, <2>1
    <2>. QED BY <2>1, <2>2
  <1>. QED BY <1>6

\* An earlier pair has a smaller number, and no two pairs have the same.
Earlier(e, d) == e[1] < d[1] \/ (e[1] = d[1] /\ e[2] < d[2])

LEMMA SingleIs ==
    ASSUME WellFormed(micro_ops), NEW before, Counts(micro_ops, before), NEW d \in Doubles
    PROVE  /\ dops_single(d) = before[d[1] - 1] + d[2]
           /\ before[d[1] - 1] < dops_single(d) /\ dops_single(d) <= before[d[1]]
           /\ dops_single(d) \in 1..Len(Rows)
           /\ d[1] - 1 \in 0..Len(micro_ops) /\ d[1] \in 0..Len(micro_ops)
           /\ before[d[1] - 1] \in Nat /\ before[d[1]] \in Nat
           /\ dops_single(d) \in Nat /\ d[1] \in Nat /\ d[2] \in Nat
  <1>. DEFINE i == d[1]
              N == Len(micro_ops)
  <1>1. /\ i \in 1..N /\ d[2] \in 1..Len(micro_ops[i].disk_ops) /\ N \in Nat
        /\ Len(micro_ops[i].disk_ops) \in Nat
    BY InDoubles, InSeq DEF WellFormed, IsMicroOp
  <1>2. i - 1 \in 0..N /\ i \in 0..N /\ N \in i..N
    BY <1>1
  <1>3. /\ before[i - 1] \in Nat /\ before[i] \in Nat /\ before[N] \in Nat
        /\ before[i] = before[i - 1] + Len(micro_ops[i].disk_ops)
        /\ Len(RowsOf(SubSeq(micro_ops, 1, i - 1))) = before[i - 1]
        /\ Len(Rows) = before[N]
    BY <1>1, <1>2 DEF Counts, Rows
  <1>4. before[i] <= before[N]
    BY <1>2, CountsGrow
  <1>5. dops_single(d) = before[i - 1] + d[2]
    BY <1>3 DEF dops_single
  <1>6. d[2] \in Nat /\ 1 <= d[2] /\ d[2] <= Len(micro_ops[i].disk_ops)
    BY <1>1
  <1>. DEFINE number == before[i - 1] + d[2]
  <1>7. number \in Nat /\ before[i - 1] < number /\ number <= before[i] /\ number <= before[N]
    <2>1. \A a, b, c, n, x \in Nat :
             b = a + n /\ b <= c /\ 1 <= x /\ x <= n
             => a + x \in Nat /\ a < a + x /\ a + x <= b /\ a + x <= c
      OBVIOUS
    <2>. HIDE DEF i, N
    <2>. QED BY <1>1, <1>3, <1>4, <1>6, <2>1
  <1>8. number \in 1..Len(Rows)
    BY <1>3, <1>6, <1>7
  <1>. HIDE DEF number
  <1>9. dops_single(d) = number
    BY <1>5 DEF number
  <1>. QED BY <1>1, <1>2, <1>3, <1>5, <1>6, <1>7, <1>8, <1>9

LEMMA SingleOrder ==
    ASSUME WellFormed(micro_ops), NEW d \in Doubles, NEW e \in Doubles
    PROVE  /\ dops_single(e) < dops_single(d) => Earlier(e, d)
           /\ dops_single(e) = dops_single(d) => e = d
  <1>1. PICK before : Counts(micro_ops, before)
    BY CountsExist
  <1>2. \A x, y \in Doubles : x[1] < y[1] => dops_single(x) < dops_single(y)
    <2>1. SUFFICES ASSUME NEW x \in Doubles, NEW y \in Doubles, x[1] < y[1]
                   PROVE  dops_single(x) < dops_single(y)
      OBVIOUS
    <2>2. /\ x[1] \in 0..Len(micro_ops) /\ y[1] - 1 \in x[1]..Len(micro_ops)
          /\ before[x[1]] \in Nat /\ before[y[1] - 1] \in Nat
          /\ dops_single(x) \in Nat /\ dops_single(x) <= before[x[1]]
          /\ dops_single(y) \in Nat /\ before[y[1] - 1] < dops_single(y)
      BY <1>1, <2>1, SingleIs
    <2>3. before[x[1]] <= before[y[1] - 1]
      BY <1>1, <2>2, CountsGrow
    <2>. QED BY <2>2, <2>3
  <1>3. /\ d[1] \in Nat /\ d[2] \in Nat /\ e[1] \in Nat /\ e[2] \in Nat
        /\ dops_single(d) \in Nat /\ dops_single(e) \in Nat
        /\ before[d[1] - 1] \in Nat
        /\ dops_single(d) = before[d[1] - 1] + d[2]
        /\ dops_single(e) = before[e[1] - 1] + e[2]
    BY <1>1, SingleIs
  <1>4. e[1] < d[1] => dops_single(e) < dops_single(d)
    BY <1>2
  <1>5. d[1] < e[1] => dops_single(d) < dops_single(e)
    BY <1>2
  <1>6. d = <<d[1], d[2]>> /\ e = <<e[1], e[2]>>
    BY InDoubles
  <1>7. dops_single(e) < dops_single(d) => Earlier(e, d)
    BY <1>3, <1>5 DEF Earlier
  <1>8. dops_single(e) = dops_single(d) => e[1] = d[1] /\ e[2] = d[2]
    BY <1>3, <1>4, <1>5
  <1>. QED BY <1>6, <1>7, <1>8

\* Every number of a row is the number of a pair.
LEMMA SingleOnto ==
    ASSUME WellFormed(micro_ops), NEW t \in 1..Len(Rows)
    PROVE  \E d \in Doubles : dops_single(d) = t
  <1>1. PICK before : Counts(micro_ops, before)
    BY CountsExist
  <1>. DEFINE N == Len(micro_ops)
              T == {n \in Nat : n <= N /\ t <= before[n] => \E d \in Doubles : dops_single(d) = t}
  <1>2. /\ N \in Nat /\ before \in [0..N -> Nat] /\ before[0] = 0 /\ before[N] = Len(Rows)
        /\ t \in Nat /\ 1 <= t /\ t <= Len(Rows)
    BY <1>1, InSeq DEF Counts, Rows, WellFormed
  <1>3. 0 \in T
    BY <1>2
  <1>4. ASSUME NEW n \in Nat, n \in T PROVE n + 1 \in T
    <2>1. SUFFICES ASSUME n + 1 <= N, t <= before[n + 1]
                   PROVE  \E d \in Doubles : dops_single(d) = t
      OBVIOUS
    <2>2. n + 1 \in 1..N /\ n \in 0..N /\ n <= N /\ (n + 1) - 1 = n
      BY <1>2, <2>1
    <2>3. CASE t <= before[n]
      BY <1>4, <2>2, <2>3
    <2>4. CASE ~ (t <= before[n])
      <3>. DEFINE j == t - before[n]
                  d == <<n + 1, j>>
      <3>1. before[n + 1] = before[n] + Len(micro_ops[n + 1].disk_ops) /\ before[n] \in Nat
        BY <1>1, <1>2, <2>2 DEF Counts
      <3>2. Len(micro_ops[n + 1].disk_ops) \in Nat
        BY <2>2, InSeq DEF WellFormed, IsMicroOp
      <3>3. j \in 1..Len(micro_ops[n + 1].disk_ops)
        BY <1>2, <2>1, <2>4, <3>1, <3>2
      <3>4. d[1] = n + 1 /\ d[2] = j
        OBVIOUS
      <3>5. d \in Doubles
        BY <2>2, <3>3, <3>4, InDoubles
      <3>6. dops_single(d) = before[n] + j
        BY <1>1, <2>2, <3>4, <3>5, SingleIs
      <3>7. before[n] + j = t
        BY <1>2, <3>1
      <3>. QED BY <3>5, <3>6, <3>7
    <2>. QED BY <2>3, <2>4
  <1>5. N \in T
    <2>. HIDE DEF T
    <2>. QED BY <1>2, <1>3, <1>4, Current!NatSetInduction
  <1>. QED BY <1>2, <1>5
-----------------------------------------------------------------------------
(* Legal crash states                                                        *)

\* The deps of the replayed operations are exact, so that the facts of
\* TestSuite_proofs hold of them.
LEMMA RowsExact ==
    ASSUME WellFormed(micro_ops)
    PROVE  /\ Current!ExactDeps
           /\ Current!Ids = 1..Len(Rows)
           /\ Len(Rows) \in Nat
  <1>1. IsSequence(Rows) /\ DOMAIN Rows = 1..Len(Rows) /\ Len(Rows) \in Nat
    BY CountsExist, InSeq DEF Counts, Rows
  <1>. DEFINE ops == Operations(Rows)
  <1>2. ops = [i \in 1..Len(Rows) |-> ops[i]]
    BY <1>1 DEF Operations
  <1>3. Len(ops) = Len(Rows) /\ DOMAIN ops = 1..Len(Rows)
    <2>. HIDE DEF ops
    <2>. QED BY <1>1, <1>2, OnInterval
  <1>4. Current!Ids = 1..Len(Rows)
    BY <1>3 DEF Current!Ids
  <1>5. Current!DepsExact
    <2>1. SUFFICES ASSUME NEW i \in 1..Len(Rows)
                   PROVE  DepsOf(Rows)[i] = Current!MeaningOfDeps(i)
      BY <1>4 DEF Current!DepsExact
    <2>2. DepsOf(Rows)[i] = Suite(ops, << >>)!MeaningOfDeps(i)
      BY <1>1, <2>1 DEF DepsOf
    <2>. QED BY <2>2 DEF Suite!MeaningOfDeps, Suite!IsSync, Suite!Covers,
                Suite!is_included_in_sync_range, Suite!metadata_calls,
                Current!MeaningOfDeps, Current!IsSync, Current!Covers,
                Current!is_included_in_sync_range, Current!metadata_calls
  <1>. QED BY <1>1, <1>3, <1>4, <1>5 DEF Current!ExactDeps

\* A set of numbers that are not above n and of which one is, has a largest one.
LEMMA LargestExists ==
    ASSUME NEW n \in Nat, NEW S, S \subseteq 1..n, S # {}
    PROVE  \E last \in S : \A i \in S : i <= last
  <1>. SUFFICES ASSUME \A last \in S : \E i \in S : last < i
                PROVE  FALSE
    OBVIOUS
  <1>. DEFINE T == {k \in Nat : \E i \in S : k <= i}
  <1>1. 0 \in T
    <2>1. PICK i \in S : TRUE
      OBVIOUS
    <2>2. i \in 1..n
      BY <2>1
    <2>. QED BY <2>1, <2>2
  <1>2. ASSUME NEW k \in Nat, k \in T PROVE k + 1 \in T
    <2>1. PICK i \in S : k <= i
      BY <1>2
    <2>2. PICK m \in S : i < m
      BY <2>1
    <2>. QED BY <2>1, <2>2
  <1>3. n + 1 \in T
    <2>. HIDE DEF T
    <2>. QED BY <1>1, <1>2, Current!NatSetInduction
  <1>. QED BY <1>3

\* The largest answer of drop_list_of_ops is one of its answers.
LEMMA TillIsLast ==
    ASSUME WellFormed(micro_ops), test_suite = Rows,
           NEW omitted, omitted = {dops_single(d) : d \in {e \in Doubles : Omitted(e)}}
    PROVE  /\ independent_till # 0 => independent_till \in Current!drop_list_of_ops(omitted)
           /\ omitted \subseteq Current!Ids
  <1>. DEFINE answers == Suite(Operations(test_suite), DepsOf(test_suite))
                             !drop_list_of_ops(omitted)
  <1>1. answers = Current!drop_list_of_ops(omitted)
    BY DEF Suite!drop_list_of_ops, Suite!DropPass, Suite!Ids,
           Current!drop_list_of_ops, Current!DropPass, Current!Ids
  <1>2. omitted \subseteq Current!Ids
    <2>1. \A d \in Doubles : dops_single(d) \in 1..Len(Rows)
      BY CountsExist, SingleIs
    <2>. QED BY <2>1, RowsExact
  <1>3. answers \subseteq 1..Len(Rows) /\ Len(Rows) \in Nat
    BY <1>1, RowsExact DEF Current!drop_list_of_ops
  <1>4. independent_till = IF answers = {} THEN 0
                           ELSE CHOOSE last \in answers : \A i \in answers : i <= last
    BY DEF independent_till
  <1>. HIDE DEF answers
  <1>5. answers # {} => independent_till \in answers
    BY <1>3, <1>4, LargestExists
  <1>. QED BY <1>1, <1>2, <1>4, <1>5

LEMMA LegalWhenCurrent ==
    ASSUME WellFormed(micro_ops), micro_end \in Int, disk_end \in Int,
           test_suite_initialized => test_suite = Rows
    PROVE  LegalReplay
  <1>. DEFINE replayed == {dops_single(d) : d \in ToReplay}
              omitted == {dops_single(d) : d \in {e \in Doubles : Omitted(e)}}
              rest == Current!drop_list_of_ops(omitted)
              till == independent_till
  <1>1. SUFFICES ASSUME test_suite_initialized, \A i \in replayed : i <= till,
                        NEW i \in replayed, NEW j \in DepsOf(Rows)[i]
                 PROVE  j \in replayed
    BY DEF LegalReplay, Suite!test_validity, Rows
  <1>2. test_suite = Rows
    BY <1>1
  <1>3. /\ Current!ExactDeps /\ Current!Ids = 1..Len(Rows) /\ Len(Rows) \in Nat
    BY RowsExact
  <1>4. PICK d \in ToReplay : i = dops_single(d)
    BY <1>1
  <1>5. d \in Doubles /\ ~ Omitted(d) /\ i \in 1..Len(Rows)
    BY <1>4, CountsExist, SingleIs DEF ToReplay
  <1>6. i \notin omitted
    BY <1>4, <1>5, SingleOrder
  <1>7. till \in rest /\ omitted \subseteq Current!Ids
    <2>1. till # 0
      BY <1>1, <1>5
    <2>. QED BY <1>2, <2>1, TillIsLast
  <1>. HIDE DEF replayed, omitted, till
  <1>8. /\ \A k \in rest : DepsOf(Rows)[k] \subseteq rest
        /\ rest \cap omitted = {}
        /\ \A last \in rest : 1..last \subseteq omitted \cup rest
    <2>1. Current!DropListIsLargest
      BY <1>3, Current!ExactDropList
    <2>. QED BY <1>7, <2>1 DEF Current!DropListIsLargest, Current!test_validity
  <1>9. rest \subseteq 1..Len(Rows)
    BY <1>3 DEF Current!drop_list_of_ops
  <1>. HIDE DEF rest
  <1>10. i \in rest
    BY <1>1, <1>5, <1>6, <1>7, <1>8, <1>9
  <1>11. j \in rest /\ j \notin omitted
    BY <1>1, <1>8, <1>10
  <1>12. j < i /\ j \in 1..Len(Rows)
    BY <1>1, <1>3, <1>5, <1>9, <1>11, Current!ExactBound
  <1>13. PICK e \in Doubles : dops_single(e) = j
    BY <1>12, SingleOnto
  <1>14. ~ Omitted(e)
    BY <1>11, <1>13 DEF omitted
  <1>15. Earlier(e, d)
    BY <1>4, <1>5, <1>12, <1>13, SingleOrder
  <1>16. d[1] \in Nat /\ d[2] \in Nat /\ e[1] \in Nat /\ e[2] \in Nat
    BY <1>5, CountsExist, SingleIs
  <1>17. e \in ToReplay
    BY <1>4, <1>14, <1>15, <1>16 DEF ToReplay, Earlier
  <1>. QED BY <1>13, <1>17 DEF replayed
-----------------------------------------------------------------------------
(* get_disk_ops                                                              *)

IsSlice(slice, first) == slice.start \in Nat /\ first <= slice.start
                         /\ slice.count \in Nat /\ slice.count > 0

LEMMA SliceSizePositive ==
    ASSUME NEW how, how.splits \in Nat \ {0}, NEW start \in Nat, NEW total \in Nat,
           NEW remaining \in Nat, 0 < remaining, remaining <= total
    PROVE  SliceSize(how, start, remaining, total) \in 1..remaining
  <1>. DEFINE s == how.splits
  <1>1. s \in Nat /\ s > 0
    OBVIOUS
  <1>. HIDE DEF s
  <1>2. s - (start % s) \in Nat /\ s - (start % s) > 0
    BY <1>1
  <1>3. (total + s - 1) \div s \in Nat /\ (total + s - 1) \div s > 0
    BY <1>1
  <1>. QED BY <1>2, <1>3 DEF SliceSize, Smaller, s

\* The slices lie between the cuts, from first up to last.
CutsOf(slices, first, last, cut) ==
    /\ cut[0] = first /\ cut[Len(slices)] = last
    /\ \A k \in 0..Len(slices) : cut[k] \in Nat /\ first <= cut[k]
    /\ \A k \in 1..Len(slices) :
          /\ cut[k - 1] < cut[k]
          /\ slices[k] = [start |-> cut[k - 1], count |-> cut[k] - cut[k - 1]]

CutUp(slices, first, last) ==
    IsSequence(slices) /\ \E cut : CutsOf(slices, first, last, cut)

LEMMA CutSlice ==
    ASSUME NEW t, NEW first \in Nat, NEW next \in Nat, NEW last, first < next,
           CutUp(t, next, last)
    PROVE  CutUp(<<[start |-> first, count |-> next - first]>> \o t, first, last)
  <1>. DEFINE slice == [start |-> first, count |-> next - first]
              one == <<slice>>
              s == one \o t
  <1>1. IsSequence(one) /\ Len(one) = 1 /\ one[1] = slice
    BY DEF IsSequence
  <1>2. IsSequence(t) /\ Len(t) \in Nat
    BY InSeq DEF CutUp
  <1>3. PICK cut : CutsOf(t, next, last, cut)
    BY DEF CutUp
  <1>. HIDE DEF slice, one
  <1>4. /\ IsSequence(s)
        /\ Len(s) = Len(one) + Len(t)
        /\ \A i \in 1..Len(s) : s[i] = IF i <= Len(one) THEN one[i] ELSE t[i - Len(one)]
    BY <1>1, <1>2, Concatenated
  <1>. HIDE DEF s
  <1>. DEFINE more == [k \in 0..Len(s) |-> IF k = 0 THEN first ELSE cut[k - 1]]
  <1>5. Len(s) = Len(t) + 1
    BY <1>1, <1>2, <1>4
  <1>6. more[0] = first /\ \A k \in 1..Len(s) : more[k] = cut[k - 1]
    BY <1>2, <1>5
  <1>. HIDE DEF more
  <1>7. more[Len(s)] = last
    BY <1>2, <1>3, <1>5, <1>6 DEF CutsOf
  <1>8. ASSUME NEW k \in 0..Len(s) PROVE more[k] \in Nat /\ first <= more[k]
    <2>1. CASE k = 0
      BY <1>6, <2>1
    <2>2. CASE k # 0
      <3>1. k \in 1..Len(s) /\ k - 1 \in 0..Len(t)
        BY <1>2, <1>5, <2>2
      <3>2. cut[k - 1] \in Nat /\ next <= cut[k - 1]
        BY <1>3, <3>1 DEF CutsOf
      <3>. QED BY <1>6, <3>1, <3>2
    <2>. QED BY <2>1, <2>2
  <1>9. ASSUME NEW k \in 1..Len(s)
        PROVE  /\ more[k - 1] < more[k]
               /\ s[k] = [start |-> more[k - 1], count |-> more[k] - more[k - 1]]
    <2>1. CASE k = 1
      <3>1. more[k] = next /\ more[k - 1] = first /\ s[k] = slice
        <4>1. s[1] = one[1]
          BY <1>1, <1>2, <1>4, <1>5
        <4>2. more[1] = cut[0]
          BY <1>2, <1>5, <1>6
        <4>. QED BY <1>1, <1>3, <1>6, <2>1, <4>1, <4>2 DEF CutsOf
      <3>. QED BY <3>1 DEF slice
    <2>2. CASE k # 1
      <3>1. k - 1 \in 1..Len(t) /\ k - 1 \in 1..Len(s) /\ ~ (k <= 1)
        BY <1>2, <1>5, <2>2
      <3>2. s[k] = t[k - 1] /\ more[k] = cut[k - 1] /\ more[k - 1] = cut[(k - 1) - 1]
        BY <1>1, <1>4, <1>6, <3>1
      <3>. QED BY <1>3, <3>1, <3>2 DEF CutsOf
    <2>. QED BY <2>1, <2>2
  <1>10. CutsOf(s, first, last, more)
    BY <1>6, <1>7, <1>8, <1>9 DEF CutsOf
  <1>. QED BY <1>4, <1>10 DEF CutUp, s, one, slice

LEMMA NoSlice == ASSUME NEW first \in Nat PROVE CutUp(<< >>, first, first)
  <1>1. CutsOf(<< >>, first, first, [k \in 0..0 |-> first])
    BY DEF CutsOf
  <1>. QED BY <1>1 DEF CutUp, IsSequence

\* A line is cut into slices that follow each other, none of them empty, from
\* its first byte to its last.
LEMMA SlicesAreCuts ==
    ASSUME NEW how, how.splits \in Nat \ {0}, NEW first \in Nat, NEW total \in Nat
    PROVE  CutUp(Slices(how, first, total), first, first + total)
  <1>. DEFINE Count(done) == SliceSize(how, first + done, total - done, total)
              Slice(done) == [start |-> first + done, count |-> Count(done)]
              from[done \in 0..total] ==
                 IF done = total THEN << >>
                 ELSE LET count == SliceSize(how, first + done, total - done, total)
                      IN  <<[start |-> first + done, count |-> count]>> \o from[done + count]
              Solves(f) ==
                 f = [done \in 0..total |->
                         IF done = total THEN << >>
                         ELSE LET count == SliceSize(how, first + done, total - done, total)
                              IN  <<[start |-> first + done, count |-> count]>>
                                  \o f[done + count]]
              \* The same for the last n bytes.
              Upto(n, f) ==
                 \A done \in (total - n)..total :
                    f[done] = IF done = total THEN << >>
                              ELSE <<Slice(done)>> \o f[done + Count(done)]
              T == {n \in Nat : n <= total => \E f : Upto(n, f)}
  <1>1. \A done \in 0..total : done # total =>
           Count(done) \in 1..(total - done) /\ IsSlice(Slice(done), first)
    <2>1. SUFFICES ASSUME NEW done \in 0..total, done # total
                   PROVE  Count(done) \in 1..(total - done) /\ IsSlice(Slice(done), first)
      OBVIOUS
    <2>2. /\ first + done \in Nat /\ total - done \in Nat
          /\ 0 < total - done /\ total - done <= total
      BY <2>1
    <2>3. Count(done) \in 1..(total - done)
      BY <2>2, SliceSizePositive, Zenon
    <2>. HIDE DEF Count
    <2>. QED BY <2>1, <2>2, <2>3 DEF IsSlice
  <1>. HIDE DEF Count, Slice
  <1>2. 0 \in T
    <2>. DEFINE none == [done \in 0..total |-> << >>]
    <2>1. Upto(0, none)
      OBVIOUS
    <2>. QED BY <2>1
  <1>3. ASSUME NEW n \in Nat, n \in T PROVE n + 1 \in T
    <2>1. SUFFICES ASSUME n + 1 <= total PROVE \E f : Upto(n + 1, f)
      OBVIOUS
    <2>2. PICK f : Upto(n, f)
      BY <1>3, <2>1
    <2>. DEFINE new == total - (n + 1)
                next == new + Count(new)
                one == <<Slice(new)>>
                more == [done \in new..total |->
                           IF done = new THEN one \o f[next] ELSE f[done]]
    <2>3. /\ new \in 0..total /\ new # total /\ next \in (new + 1)..total
          /\ new + 1 = total - n /\ IsSlice(Slice(new), first)
      BY <1>1, <2>1
    <2>4. ASSUME NEW done \in (total - (n + 1))..total
          PROVE  more[done] = IF done = total THEN << >>
                              ELSE <<Slice(done)>> \o more[done + Count(done)]
      <3>1. CASE done = new
        <4>1. more[next] = f[next]
          BY <2>3
        <4>. QED BY <2>3, <3>1, <4>1
      <3>2. CASE done # new
        <4>1. done \in (total - n)..total /\ done \in 0..total
          BY <2>3, <3>2
        <4>2. more[done] = f[done]
          BY <3>2
        <4>3. done # total => done + Count(done) \in new..total /\ done + Count(done) # new
          BY <1>1, <2>3, <4>1
        <4>4. done # total => more[done + Count(done)] = f[done + Count(done)]
          BY <4>3
        <4>. HIDE DEF more
        <4>. QED BY <2>2, <4>1, <4>2, <4>4
      <3>. QED BY <3>1, <3>2
    <2>. QED BY <2>4
  <1>4. PICK f : Upto(total, f)
    <2>1. total \in T
      <3>. HIDE DEF T
      <3>. QED BY <1>2, <1>3, Current!NatSetInduction
    <2>. HIDE DEF Upto
    <2>. QED BY <2>1
  <1>. DEFINE g == [done \in 0..total |-> f[done]]
  <1>5. Solves(g)
    <2>1. ASSUME NEW done \in 0..total
          PROVE  g[done] = IF done = total THEN << >>
                           ELSE <<Slice(done)>> \o g[done + Count(done)]
      <3>1. done # total => done + Count(done) \in 0..total
        BY <1>1
      <3>2. done \in (total - total)..total
        OBVIOUS
      <3>. QED BY <1>4, <3>1, <3>2
    <2>2. g = [done \in 0..total |-> g[done]]
      OBVIOUS
    <2>. HIDE DEF g
    <2>. QED BY <2>1, <2>2 DEF Slice, Count
  <1>6. from = CHOOSE x : Solves(x)
    BY DEF from
  <1>. HIDE DEF from
  <1>7. Solves(from)
    <2>. HIDE DEF Solves
    <2>. QED BY <1>5, <1>6
  <1>8. ASSUME NEW done \in 0..total
        PROVE  from[done] = IF done = total THEN << >>
                            ELSE <<Slice(done)>> \o from[done + Count(done)]
    BY <1>7 DEF Slice, Count
  <1>. HIDE DEF Solves
  <1>. DEFINE Fine(done) == CutUp(from[done], first + done, first + total)
              Y == {n \in Nat : n <= total =>
                      \A done \in (total - n)..total : Fine(done)}
  <1>9. 0 \in Y
    <2>1. from[total] = << >>
      <3>1. total \in 0..total
        OBVIOUS
      <3>. QED BY <1>8, <3>1, Zenon
    <2>2. \A done \in (total - 0)..total : done = total
      OBVIOUS
    <2>3. Fine(total)
      <3>1. first + total \in Nat
        OBVIOUS
      <3>. QED BY <2>1, <3>1, NoSlice
    <2>. HIDE DEF Fine
    <2>. QED BY <2>2, <2>3
  <1>10. ASSUME NEW n \in Nat, n \in Y PROVE n + 1 \in Y
    <2>1. SUFFICES ASSUME n + 1 <= total, NEW done \in (total - (n + 1))..total
                   PROVE  Fine(done)
      OBVIOUS
    <2>2. CASE done \in (total - n)..total
      <3>. HIDE DEF Fine
      <3>. QED BY <1>10, <2>1, <2>2
    <2>3. CASE done \notin (total - n)..total
      <3>. DEFINE next == done + Count(done)
      <3>1. /\ done \in 0..total /\ done # total /\ next \in (total - n)..total
            /\ Count(done) \in Nat /\ Count(done) > 0
        BY <1>1, <2>1, <2>3
      <3>2. Fine(next)
        <4>1. n <= total
          BY <2>1
        <4>. HIDE DEF Fine
        <4>. QED BY <1>10, <3>1, <4>1
      <3>3. from[done] = <<Slice(done)>> \o from[next]
        BY <1>8, <3>1
      <3>4. /\ first + done \in Nat /\ first + next \in Nat
            /\ first + done < first + next
            /\ (first + next) - (first + done) = Count(done)
        BY <3>1
      <3>5. Slice(done) = [start |-> first + done, count |-> (first + next) - (first + done)]
        BY <3>4 DEF Slice
      <3>. HIDE DEF next
      <3>6. CutUp(<<[start |-> first + done, count |-> (first + next) - (first + done)]>>
                  \o from[next], first + done, first + total)
        BY <3>2, <3>4, CutSlice
      <3>. QED BY <3>3, <3>5, <3>6
    <2>. QED BY <2>2, <2>3
  <1>11. Fine(0)
    <2>1. total \in Y
      <3>. HIDE DEF Y
      <3>. QED BY <1>9, <1>10, Current!NatSetInduction
    <2>2. 0 \in (total - total)..total /\ total <= total
      OBVIOUS
    <2>. HIDE DEF Fine
    <2>. QED BY <2>1, <2>2
  <1>12. Slices(how, first, total) = from[0]
    BY DEF Slices, from
  <1>. QED BY <1>11, <1>12

LEMMA SlicesAreProper ==
    ASSUME NEW how, how.splits \in Nat \ {0}, NEW first \in Nat, NEW total \in Nat
    PROVE  /\ IsSequence(Slices(how, first, total))
           /\ \A k \in 1..Len(Slices(how, first, total)) :
                 IsSlice(Slices(how, first, total)[k], first)
  <1>. DEFINE slices == Slices(how, first, total)
              last == first + total
  <1>1. CutUp(slices, first, last)
    BY SlicesAreCuts
  <1>. HIDE DEF slices, last
  <1>2. PICK cut : CutsOf(slices, first, last, cut)
    BY <1>1 DEF CutUp
  <1>3. IsSequence(slices) /\ Len(slices) \in Nat
    BY <1>1, InSeq DEF CutUp
  <1>4. ASSUME NEW k \in 1..Len(slices) PROVE IsSlice(slices[k], first)
    <2>1. k \in 0..Len(slices) /\ k - 1 \in 0..Len(slices)
      BY <1>3
    <2>2. /\ cut[k - 1] \in Nat /\ first <= cut[k - 1]
          /\ cut[k] \in Nat /\ cut[k - 1] < cut[k]
          /\ slices[k] = [start |-> cut[k - 1], count |-> cut[k] - cut[k - 1]]
      BY <1>2, <2>1 DEF CutsOf
    <2>3. slices[k].start = cut[k - 1] /\ slices[k].count = cut[k] - cut[k - 1]
      BY <2>2
    <2>. QED BY <2>2, <2>3 DEF IsSlice
  <1>. QED BY <1>3, <1>4 DEF slices

\* Sequences of rows.
Proper(list) == IsSequence(list) /\ \A j \in 1..Len(list) : IsRow(list[j])

LEMMA ProperConcat ==
    ASSUME NEW s, NEW t, Proper(s), Proper(t)
    PROVE  Proper(s \o t)
  <1>1. /\ IsSequence(s \o t)
        /\ Len(s \o t) = Len(s) + Len(t)
        /\ Len(s) \in Nat /\ Len(t) \in Nat
        /\ \A i \in 1..Len(s \o t) :
              (s \o t)[i] = IF i <= Len(s) THEN s[i] ELSE t[i - Len(s)]
    BY Concatenated, InSeq DEF Proper
  <1>2. ASSUME NEW i \in 1..Len(s \o t) PROVE IsRow((s \o t)[i])
    <2>1. i <= Len(s) => i \in 1..Len(s)
      BY <1>1
    <2>2. ~ (i <= Len(s)) => i - Len(s) \in 1..Len(t)
      BY <1>1
    <2>. QED BY <1>1, <2>1, <2>2 DEF Proper
  <1>. QED BY <1>1, <1>2 DEF Proper

LEMMA ProperEmpty == Proper(<< >>)
  BY DEF Proper, IsSequence

LEMMA ProperSingle == \A row : IsRow(row) => Proper(<<row>>)
  BY DEF Proper, IsSequence

LEMMA ProperFlatten ==
    ASSUME NEW seqs, IsSequence(seqs), \A k \in 1..Len(seqs) : Proper(seqs[k])
    PROVE  Proper(FlattenSeq(seqs))
  <1>1. AllSequences(seqs)
    BY DEF AllSequences, Proper
  <1>2. PICK sums : Flattened(seqs, sums)
    BY <1>1, FlattenedExists DEF AllSequences
  <1>3. Len(seqs) \in Nat /\ seqs \in Seq(Elements(seqs))
    BY InSeq
  <1>4. SubSeq(seqs, 1, Len(seqs)) = seqs /\ Len(seqs) \in 0..Len(seqs)
    BY <1>3
  <1>5. FlattenSeq(seqs) = sums[Len(seqs)]
    BY <1>1, <1>2, <1>4, FlattenPrefix
  <1>. QED BY <1>1, <1>2, <1>4, <1>5, FlattenedParts DEF Proper

LEMMA ProperTruncate ==
    ASSUME NEW how, how.splits \in Nat \ {0}, NEW inode,
           NEW initial_size \in Nat, NEW final_size \in Nat
    PROVE  Proper(trunc_disk_ops(inode, initial_size, final_size, how))
  <1>1. CASE final_size <= initial_size
    <2>. DEFINE slices == Slices(how, final_size, initial_size - final_size)
                list == [k \in DOMAIN slices |-> TruncateRow(inode, slices[k].start)]
                back == Reverse(list)
    <2>1. IsSequence(slices) /\ Len(slices) \in Nat /\ DOMAIN slices = 1..Len(slices)
      BY <1>1, SlicesAreProper, InSeq
    <2>. HIDE DEF slices
    <2>2. list = [k \in 1..Len(slices) |-> list[k]] /\ \A k \in 1..Len(slices) : IsRow(list[k])
      BY <2>1 DEF IsRow, TruncateRow
    <2>. HIDE DEF list
    <2>3. IsSequence(list) /\ Len(list) = Len(slices)
      BY <2>1, <2>2, OnInterval
    <2>4. back = [k \in 1..Len(list) |-> back[k]] /\ \A k \in 1..Len(list) : IsRow(back[k])
      <3>1. \A k \in 1..Len(list) : (Len(list) - k) + 1 \in 1..Len(list)
        BY <2>1, <2>3
      <3>. QED BY <2>2, <2>3, <3>1 DEF Reverse
    <2>. HIDE DEF back
    <2>5. Proper(back)
      BY <2>1, <2>3, <2>4, OnInterval DEF Proper
    <2>. QED BY <1>1, <2>5 DEF trunc_disk_ops, ShrinkRows, back, list, slices
  <1>2. CASE ~ (final_size <= initial_size)
    <2>. DEFINE slices == Slices(how, initial_size, final_size - initial_size)
                pair(k) == <<SpecialWrite(inode, slices[k], "GARBAGE"),
                             SpecialWrite(inode, slices[k], "ZEROS")>>
                list == [k \in DOMAIN slices |-> pair(k)]
    <2>1. /\ IsSequence(slices) /\ Len(slices) \in Nat /\ DOMAIN slices = 1..Len(slices)
          /\ \A k \in 1..Len(slices) : slices[k].count \in Nat /\ slices[k].count > 0
      BY <1>2, SlicesAreProper, InSeq DEF IsSlice
    <2>. HIDE DEF slices
    <2>2. \A k \in 1..Len(slices) : Proper(pair(k))
      BY <2>1 DEF Proper, IsSequence, IsRow, SpecialWrite
    <2>. HIDE DEF pair
    <2>3. list = [k \in 1..Len(slices) |-> list[k]] /\ \A k \in 1..Len(slices) : Proper(list[k])
      BY <2>1, <2>2
    <2>. HIDE DEF list
    <2>4. IsSequence(list) /\ Len(list) = Len(slices)
      BY <2>1, <2>3, OnInterval
    <2>5. Proper(FlattenSeq(list))
      BY <2>3, <2>4, ProperFlatten
    <2>. QED BY <1>2, <2>5 DEF trunc_disk_ops, GrowRows, list, pair, slices
  <1>. QED BY <1>1, <1>2

LEMMA ProperWrite ==
    ASSUME NEW how, how.splits \in Nat \ {0}, NEW item \in WriteLine
    PROVE  /\ Proper(append_disk_ops(item, how))
           /\ LET slices == Slices(how, item.offset, item.count)
              IN  Proper([k \in DOMAIN slices |-> DataWrite(item, slices[k])])
  <1>. DEFINE slices == Slices(how, item.offset, item.count)
              three(k) == <<SpecialWrite(item.inode, slices[k], "ZEROS"),
                            SpecialWrite(item.inode, slices[k], "GARBAGE"),
                            DataWrite(item, slices[k])>>
              each == [k \in DOMAIN slices |-> three(k)]
              data == [k \in DOMAIN slices |-> DataWrite(item, slices[k])]
  <1>1. /\ IsSequence(slices) /\ Len(slices) \in Nat /\ DOMAIN slices = 1..Len(slices)
        /\ \A k \in 1..Len(slices) : slices[k].count \in Nat /\ slices[k].count > 0
    <2>1. item.offset \in Nat /\ item.count \in Nat
      BY DEF WriteLine
    <2>. QED BY <2>1, SlicesAreProper, InSeq DEF IsSlice
  <1>. HIDE DEF slices
  <1>2. \A k \in 1..Len(slices) : Proper(three(k)) /\ IsRow(DataWrite(item, slices[k]))
    BY <1>1 DEF Proper, IsSequence, IsRow, SpecialWrite, DataWrite
  <1>. HIDE DEF three
  <1>3. /\ each = [k \in 1..Len(slices) |-> each[k]]
        /\ \A k \in 1..Len(slices) : Proper(each[k])
        /\ data = [k \in 1..Len(slices) |-> data[k]]
        /\ \A k \in 1..Len(slices) : IsRow(data[k])
    BY <1>1, <1>2
  <1>. HIDE DEF each, data
  <1>4. /\ IsSequence(each) /\ Len(each) = Len(slices)
        /\ IsSequence(data) /\ Len(data) = Len(slices)
    BY <1>1, <1>3, OnInterval
  <1>5. Proper(FlattenSeq(each)) /\ Proper(data)
    BY <1>3, <1>4, ProperFlatten DEF Proper
  <1>. QED BY <1>5 DEF append_disk_ops, each, data, three, slices
LEMMA ProperUnlink ==
    ASSUME NEW how, how.splits \in Nat \ {0}, NEW path, NEW inode, NEW size \in Nat,
           NEW hardlinks, NEW entry_type
    PROVE  Proper(unlink_disk_ops(path, inode, size, hardlinks, entry_type, how))
  <1>. DEFINE row == DirEntryRow("delete_dir_entry", path, inode, entry_type)
              cut == IF hardlinks = 1 THEN trunc_disk_ops(inode, size, 0, how) ELSE << >>
  <1>1. Proper(cut)
    BY ProperTruncate, ProperEmpty
  <1>2. Proper(<<row>>)
    BY ProperSingle DEF IsRow, DirEntryRow
  <1>. HIDE DEF row, cut
  <1>3. Proper(cut \o <<row>>)
    BY <1>1, <1>2, ProperConcat
  <1>. QED BY <1>3 DEF unlink_disk_ops, cut, row

LEMMA ProperLink ==
    ASSUME NEW path, NEW inode, NEW entry_type
    PROVE  Proper(link_disk_ops(path, inode, entry_type))
  <1>1. IsRow(DirEntryRow("create_dir_entry", path, inode, entry_type))
    BY DEF IsRow, DirEntryRow
  <1>. QED BY <1>1, ProperSingle DEF link_disk_ops

LEMMA ProperRename ==
    ASSUME NEW how, how.splits \in Nat \ {0}, NEW item,
           item.source_size \in Nat, item.dest_size \in Nat
    PROVE  Proper(rename_disk_ops(item, how))
  <1>. DEFINE unlink_source == unlink_disk_ops(item.source, item.source_inode,
                                   item.source_size, 2, "file", how)
              link_source == link_disk_ops(item.source, item.source_inode, "file")
              unlink_dest == IF item.dest_hardlinks >= 1
                             THEN unlink_disk_ops(item.dest, item.dest_inode,
                                      item.dest_size, item.dest_hardlinks, "file", how)
                             ELSE << >>
              link_dest == link_disk_ops(item.dest, item.source_inode, "file")
              more == IF how.expanded_atomicity THEN unlink_source ELSE << >>
              link == IF how.expanded_atomicity THEN link_source ELSE << >>
  <1>1. /\ Proper(unlink_source) /\ Proper(link_source) /\ Proper(link_dest)
        /\ Proper(unlink_dest) /\ Proper(more) /\ Proper(link)
    <2>1. Proper(unlink_source)
      BY ProperUnlink
    <2>2. Proper(link_source) /\ Proper(link_dest)
      BY ProperLink
    <2>3. Proper(unlink_dest)
      BY ProperUnlink, ProperEmpty
    <2>. HIDE DEF unlink_source, link_source
    <2>4. Proper(more) /\ Proper(link)
      BY <2>1, <2>2, ProperEmpty
    <2>. QED BY <2>1, <2>2, <2>3, <2>4
  <1>2. rename_disk_ops(item, how) = more \o unlink_dest \o link \o unlink_source
                                     \o link_dest \o link \o more
    BY DEF rename_disk_ops
  <1>. HIDE DEF unlink_source, link_source, unlink_dest, link_dest, more, link
  <1>3. Proper(more \o unlink_dest)
    BY <1>1, ProperConcat
  <1>4. Proper(more \o unlink_dest \o link)
    BY <1>1, <1>3, ProperConcat
  <1>5. Proper(more \o unlink_dest \o link \o unlink_source)
    BY <1>1, <1>4, ProperConcat
  <1>6. Proper(more \o unlink_dest \o link \o unlink_source \o link_dest)
    BY <1>1, <1>5, ProperConcat
  <1>7. Proper(more \o unlink_dest \o link \o unlink_source \o link_dest \o link)
    BY <1>1, <1>6, ProperConcat
  <1>8. Proper(more \o unlink_dest \o link \o unlink_source \o link_dest \o link \o more)
    BY <1>1, <1>7, ProperConcat
  <1>. QED BY <1>2, <1>8

\* No disk operation of a line is an empty write.
LEMMA ProperDiskOps ==
    ASSUME NEW how, how.splits \in Nat \ {0}, NEW item, IsLine(item)
    PROVE  Proper(get_disk_ops(item, how))
  <1>1. CASE item \in WriteLine
    <2>. DEFINE again == IF how.expanded_atomicity THEN append_disk_ops(item, how) ELSE << >>
                first == append_disk_ops(item, how)
                slices == Slices(how, item.offset, item.count)
                data == [k \in DOMAIN slices |-> DataWrite(item, slices[k])]
    <2>1. Proper(first) /\ Proper(data)
      BY <1>1, ProperWrite
    <2>2. Proper(again)
      BY <2>1, ProperEmpty
    <2>3. item.op = "append" => get_disk_ops(item, how) = first \o again
      BY DEF get_disk_ops
    <2>4. item.op = "write" => get_disk_ops(item, how) = data
      BY DEF get_disk_ops
    <2>5. item.op = "append" \/ item.op = "write"
      BY <1>1 DEF WriteLine
    <2>. HIDE DEF again, first, data
    <2>6. Proper(first \o again)
      BY <2>1, <2>2, ProperConcat
    <2>. QED BY <2>1, <2>3, <2>4, <2>5, <2>6
  <1>2. CASE item.op = "trunc" /\ item.initial_size \in Nat /\ item.final_size \in Nat
    <2>1. get_disk_ops(item, how)
             = trunc_disk_ops(item.inode, item.initial_size, item.final_size, how)
      BY <1>2 DEF get_disk_ops
    <2>. QED BY <1>2, <2>1, ProperTruncate
  <1>3. CASE item.op = "unlink" /\ item.size \in Nat
    <2>1. get_disk_ops(item, how)
             = unlink_disk_ops(item.name, item.inode, item.size, item.hardlinks, "file", how)
      BY <1>3 DEF get_disk_ops
    <2>. QED BY <1>3, <2>1, ProperUnlink
  <1>4. CASE item.op = "rename" /\ item.source_size \in Nat /\ item.dest_size \in Nat
    <2>1. get_disk_ops(item, how) = rename_disk_ops(item, how)
      BY <1>4 DEF get_disk_ops
    <2>. QED BY <1>4, <2>1, ProperRename
  <1>5. CASE item.op \in {"creat", "link", "mkdir"}
    <2>1. item.op = "creat" => get_disk_ops(item, how) = link_disk_ops(item.name, item.inode, "file")
      BY DEF get_disk_ops
    <2>2. item.op = "link" => get_disk_ops(item, how)
                                 = link_disk_ops(item.dest, item.source_inode, "file")
      BY DEF get_disk_ops
    <2>3. item.op = "mkdir" => get_disk_ops(item, how) = link_disk_ops(item.name, item.inode, "dir")
      BY DEF get_disk_ops
    <2>. QED BY <1>5, <2>1, <2>2, <2>3, ProperLink
  <1>6. CASE item.op = "rmdir"
    <2>1. get_disk_ops(item, how) = unlink_disk_ops(item.name, item.inode, 0, 0, "dir", how)
      BY <1>6 DEF get_disk_ops
    <2>. QED BY <2>1, ProperUnlink
  <1>7. CASE item.op \in {"fsync", "file_sync_range", "stdout"}
    <2>. DEFINE whole == SyncRow(item.inode, 0, item.size)
                range == SyncRow(item.inode, item.offset, item.count)
                output == [op |-> "stdout"]
    <2>1. item.op = "fsync" => get_disk_ops(item, how) = <<whole>>
      BY DEF get_disk_ops
    <2>2. item.op = "file_sync_range" => get_disk_ops(item, how) = <<range>>
      BY DEF get_disk_ops
    <2>3. item.op = "stdout" => get_disk_ops(item, how) = <<output>>
      BY DEF get_disk_ops
    <2>4. IsRow(whole) /\ IsRow(range) /\ IsRow(output)
      BY DEF IsRow, SyncRow
    <2>. HIDE DEF whole, range, output
    <2>. QED BY <1>7, <2>1, <2>2, <2>3, <2>4, ProperSingle
  <1>. QED BY <1>1, <1>2, <1>3, <1>4, <1>5, <1>6, <1>7 DEF IsLine

LEMMA GeneratedIsProper ==
    ASSUME NEW how, how.splits \in Nat \ {0}, NEW item, IsLine(item)
    PROVE  /\ IsSequence(Generated(item, how))
           /\ \A j \in 1..Len(Generated(item, how)) : IsDiskOp(Generated(item, how)[j])
  <1>. DEFINE list == get_disk_ops(item, how)
              ops == Generated(item, how)
  <1>1. /\ Len(list) \in Nat /\ DOMAIN list = 1..Len(list)
        /\ \A j \in 1..Len(list) : IsRow(list[j])
    BY ProperDiskOps, InSeq DEF Proper
  <1>2. ops = [j \in DOMAIN list |-> [row |-> list[j], hidden_omitted |-> FALSE]]
    BY DEF Generated
  <1>. HIDE DEF list, ops
  <1>3. ops = [j \in 1..Len(list) |-> ops[j]] /\ \A j \in 1..Len(list) : IsDiskOp(ops[j])
    BY <1>1, <1>2 DEF IsDiskOp
  <1>4. IsSequence(ops) /\ Len(ops) = Len(list)
    BY <1>1, <1>3, OnInterval
  <1>. QED BY <1>3, <1>4 DEF ops
-----------------------------------------------------------------------------
(* The invariant                                                             *)

\* What holds of the Replayer's state, and of every copy that it saves.
GoodState(s) ==
    /\ WellFormed(s.micro_ops)
    /\ s.micro_end \in Int /\ s.disk_end \in Int
    /\ s.test_suite_initialized \in BOOLEAN
    /\ s.test_suite_initialized => s.test_suite = RowsOf(s.micro_ops)

Saved ==
    /\ DOMAIN saved = Slots /\ saved[0] # NotSaved
    /\ \A slot \in Slots : saved[slot] # NotSaved => GoodState(saved[slot])

ReplayerInv == GoodState(State) /\ Saved

\* The same in terms of the variables.
Good ==
    /\ WellFormed(micro_ops)
    /\ micro_end \in Int /\ disk_end \in Int
    /\ test_suite_initialized \in BOOLEAN
    /\ test_suite_initialized => test_suite = RowsOf(micro_ops)

LEMMA GoodIs == GoodState(State) <=> Good
  BY DEF GoodState, State, Good

LEMMA StateIsSaved == State # NotSaved
  <1>1. "micro_end" \in DOMAIN State
    BY DEF State
  <1>2. DOMAIN NotSaved = {}
    BY DEF NotSaved
  <1>. QED BY <1>1, <1>2

LEMMA Replaced ==
    ASSUME NEW n \in Nat, NEW new, new = [i \in 1..n |-> new[i]],
           \A i \in 1..n : IsMicroOp(new[i])
    PROVE  WellFormed(new) /\ Len(new) = n
  BY OnInterval DEF WellFormed

\* The constructor.
LEMMA InitReplayer == Init => ReplayerInv
  <1>. SUFFICES ASSUME Init PROVE ReplayerInv
    OBVIOUS
  <1>1. PICK trace \in Traces :
          /\ micro_ops = Constructed(trace)
          /\ micro_end = Len(trace)
          /\ disk_end = Len(Constructed(trace)[Len(trace)].disk_ops)
          /\ test_suite = RowsOf(Constructed(trace))
          /\ test_suite_initialized = TRUE
          /\ saved = [slot \in Slots |-> IF slot = 0 THEN State ELSE NotSaved]
    BY DEF Init
  <1>2. /\ IsSequence(trace) /\ DOMAIN trace = 1..Len(trace) /\ Len(trace) \in Nat
        /\ trace # << >> /\ \A i \in 1..Len(trace) : IsLine(trace[i])
    BY TracesAssumption, OfSeq, InSeq
  <1>3. Len(trace) \in 1..Len(trace)
    <2>1. Len(trace) # 0
      BY <1>2 DEF IsSequence
    <2>. QED BY <1>2, <2>1
  <1>4. ASSUME NEW i \in 1..Len(trace) PROVE IsMicroOp(Constructed(trace)[i])
    <2>1. DefaultSplit.splits \in Nat \ {0}
      BY DEF DefaultSplit
    <2>2. IsLine(trace[i]) /\ i \in DOMAIN trace
      BY <1>2
    <2>3. Constructed(trace)[i]
             = [line |-> trace[i], disk_ops |-> Generated(trace[i], DefaultSplit)]
      BY <2>2 DEF Constructed
    <2>. QED BY <2>1, <2>2, <2>3, GeneratedIsProper DEF IsMicroOp
  <1>5. WellFormed(micro_ops)
    <2>1. Constructed(trace) = [i \in 1..Len(trace) |-> Constructed(trace)[i]]
      BY <1>2 DEF Constructed
    <2>. QED BY <1>1, <1>2, <1>4, <2>1, Replaced
  <1>6. disk_end \in Int
    BY <1>1, <1>3, <1>4, InSeq DEF IsMicroOp
  <1>7. GoodState(State)
    BY <1>1, <1>2, <1>5, <1>6, GoodIs DEF Good
  <1>8. Saved
    <2>1. saved[0] = State
      BY <1>1, SlotsAssumption
    <2>. QED BY <1>1, <1>7, <2>1, StateIsSaved DEF Saved
  <1>. QED BY <1>7, <1>8 DEF ReplayerInv

\* Splitting lines anew.
LEMMA GenerateStep ==
    ASSUME Good, NEW ids \in SUBSET Micro, NEW how \in Splits, dops_generate(ids, how)
    PROVE  Good'
  <1>1. Micro = 1..Len(micro_ops) /\ Len(micro_ops) \in Nat
    BY InSeq DEF Good, WellFormed, Micro
  <1>2. how.splits \in Nat \ {0}
    BY SplitsAssumption
  <1>3. ASSUME NEW i \in 1..Len(micro_ops) PROVE IsMicroOp(micro_ops'[i])
    <2>1. IsMicroOp(micro_ops[i])
      BY DEF Good, WellFormed
    <2>2. CASE i \in ids
      <3>. DEFINE new == Generated(micro_ops[i].line, how)
      <3>1. IsSequence(new) /\ \A j \in 1..Len(new) : IsDiskOp(new[j])
        BY <1>2, <2>1, GeneratedIsProper DEF IsMicroOp
      <3>2. micro_ops'[i] = [micro_ops[i] EXCEPT !.disk_ops = new]
        BY <1>1, <2>2 DEF dops_generate
      <3>. HIDE DEF new
      <3>3. micro_ops'[i] = [line |-> micro_ops[i].line, disk_ops |-> new]
        BY <2>1, <3>2 DEF IsMicroOp
      <3>. QED BY <2>1, <3>1, <3>3 DEF IsMicroOp
    <2>3. CASE i \notin ids
      BY <1>1, <2>1, <2>3 DEF dops_generate
    <2>. QED BY <2>2, <2>3
  <1>4. WellFormed(micro_ops')
    <2>1. micro_ops' = [i \in 1..Len(micro_ops) |-> micro_ops'[i]]
      BY <1>1 DEF dops_generate
    <2>. QED BY <1>1, <1>3, <2>1, Replaced
  <1>5. disk_end' \in Int
    <2>1. CASE micro_end \in ids
      <3>1. IsSequence(Generated(micro_ops[micro_end].line, how))
        BY <1>1, <1>2, <2>1, GeneratedIsProper DEF Good, WellFormed, IsMicroOp
      <3>2. Len(Generated(micro_ops[micro_end].line, how)) \in Nat
        BY <3>1, InSeq
      <3>. QED BY <2>1, <3>2 DEF dops_generate
    <2>2. CASE micro_end \notin ids
      BY <2>2 DEF dops_generate, Good
    <2>. QED BY <2>1, <2>2
  <1>. QED BY <1>4, <1>5 DEF Good, dops_generate

\* Omitting and including keeps all the rows.
LEMMA OmitStep ==
    ASSUME Good, NEW d \in Doubles, dops_omit(d) \/ dops_include(d)
    PROVE  Good'
  <1>1. PICK omitted \in BOOLEAN :
          /\ micro_ops' = [micro_ops EXCEPT ![d[1]].disk_ops[d[2]].hidden_omitted = omitted]
          /\ UNCHANGED <<cutVars, suiteVars>>
    BY DEF dops_omit, dops_include
  <1>. DEFINE i == d[1]
              j == d[2]
              old == micro_ops[i].disk_ops
              new == [old EXCEPT ![j].hidden_omitted = omitted]
              n == Len(micro_ops)
  <1>2. /\ i \in 1..n /\ j \in 1..Len(old) /\ n \in Nat /\ DOMAIN micro_ops = 1..n
        /\ micro_ops = [k \in 1..n |-> micro_ops[k]]
        /\ IsMicroOp(micro_ops[i])
    BY InDoubles, InSeq DEF Good, WellFormed, IsSequence
  <1>3. Len(old) \in Nat /\ DOMAIN old = 1..Len(old) /\ \A k \in 1..Len(old) : IsDiskOp(old[k])
    BY <1>2, InSeq DEF IsMicroOp
  <1>4. /\ \A k \in 1..n : k # i => micro_ops'[k] = micro_ops[k]
        /\ micro_ops'[i] = [line |-> micro_ops[i].line, disk_ops |-> new]
        /\ micro_ops' = [k \in 1..n |-> micro_ops'[k]]
    BY <1>1, <1>2 DEF IsMicroOp
  <1>5. /\ new = [k \in 1..Len(old) |-> new[k]]
        /\ \A k \in 1..Len(old) : k # j => new[k] = old[k]
        /\ new[j] = [row |-> old[j].row, hidden_omitted |-> omitted]
    <2>1. new = [k \in 1..Len(old) |-> IF k = j THEN [old[j] EXCEPT !.hidden_omitted = omitted]
                                       ELSE old[k]]
      BY <1>2, <1>3
    <2>2. [old[j] EXCEPT !.hidden_omitted = omitted] = [row |-> old[j].row, hidden_omitted |-> omitted]
      <3>1. old[j] = [row |-> old[j].row, hidden_omitted |-> old[j].hidden_omitted]
        BY <1>2, <1>3 DEF IsDiskOp
      <3>. HIDE DEF old, j
      <3>. QED BY <3>1
    <2>. HIDE DEF new, old, j
    <2>. QED BY <1>2, <2>1, <2>2
  <1>. HIDE DEF old, new, i, j
  <1>6. IsSequence(new) /\ Len(new) = Len(old)
    BY <1>3, <1>5, OnInterval
  <1>7. \A k \in 1..Len(old) : IsDiskOp(new[k]) /\ new[k].row = old[k].row
    BY <1>3, <1>5 DEF IsDiskOp
  <1>8. IsMicroOp(micro_ops'[i])
    BY <1>2, <1>4, <1>6, <1>7 DEF IsMicroOp
  <1>9. WellFormed(micro_ops') /\ Len(micro_ops') = n
    <2>1. \A k \in 1..n : IsMicroOp(micro_ops'[k])
      BY <1>4, <1>8 DEF Good, WellFormed
    <2>. QED BY <1>2, <1>4, <2>1, Replaced
  <1>10. RowsOfEach(micro_ops') = RowsOfEach(micro_ops)
    <2>1. DOMAIN micro_ops' = 1..n
      BY <1>4
    <2>2. ASSUME NEW k \in 1..n
          PROVE  RowsOfEach(micro_ops')[k] = RowsOfEach(micro_ops)[k]
      <3>1. CASE k # i
        BY <1>2, <1>4, <2>1, <3>1 DEF RowsOfEach
      <3>2. CASE k = i
        <4>1. micro_ops'[k].disk_ops = new /\ micro_ops[k].disk_ops = old
          BY <1>4, <3>2 DEF old
        <4>2. DOMAIN new = 1..Len(old)
          BY <1>5
        <4>. QED BY <1>2, <1>3, <1>7, <2>1, <4>1, <4>2 DEF RowsOfEach
      <3>. QED BY <3>1, <3>2
    <2>. QED BY <1>2, <2>1, <2>2 DEF RowsOfEach
  <1>11. RowsOf(micro_ops') = RowsOf(micro_ops)
    BY <1>10 DEF RowsOf, RowsOfEach
  <1>. QED BY <1>1, <1>9, <1>11 DEF Good, cutVars, suiteVars
LEMMA Removed ==
    ASSUME NEW s, IsSequence(s), NEW i \in 1..Len(s)
    PROVE  /\ IsSequence(RemoveAt(s, i))
           /\ \A j \in 1..Len(RemoveAt(s, i)) : \E k \in 1..Len(s) : RemoveAt(s, i)[j] = s[k]
  <1>. DEFINE a == SubSeq(s, 1, i - 1)
              b == SubSeq(s, i + 1, Len(s))
  <1>1. Len(s) \in Nat
    BY InSeq
  <1>2. IsSequence(a) /\ \A j \in 1..Len(a) : \E k \in 1..Len(s) : a[j] = s[k]
    <2>1. i - 1 \in Int /\ i - 1 <= Len(s)
      BY <1>1
    <2>2. \A j \in 1..Len(a) : a[j] = s[1 + j - 1] /\ 1 + j - 1 \in 1..Len(s)
      BY <2>1, Subsequence
    <2>3. IsSequence(a)
      BY <2>1, Subsequence
    <2>. HIDE DEF a
    <2>. QED BY <2>2, <2>3
  <1>3. IsSequence(b) /\ \A j \in 1..Len(b) : \E k \in 1..Len(s) : b[j] = s[k]
    <2>1. i + 1 \in Int /\ 1 <= i + 1
      BY <1>1
    <2>2. \A j \in 1..Len(b) : b[j] = s[(i + 1) + j - 1] /\ (i + 1) + j - 1 \in 1..Len(s)
      BY <1>1, <2>1, Subsequence
    <2>3. IsSequence(b)
      BY <1>1, <2>1, Subsequence
    <2>. HIDE DEF b
    <2>. QED BY <2>2, <2>3
  <1>. HIDE DEF a, b
  <1>4. /\ IsSequence(a \o b)
        /\ Len(a \o b) = Len(a) + Len(b) /\ Len(a) \in Nat /\ Len(b) \in Nat
        /\ \A j \in 1..Len(a \o b) : (a \o b)[j] = IF j <= Len(a) THEN a[j] ELSE b[j - Len(a)]
    BY <1>2, <1>3, Concatenated, InSeq
  <1>5. ASSUME NEW j \in 1..Len(a \o b) PROVE \E k \in 1..Len(s) : (a \o b)[j] = s[k]
    <2>1. j <= Len(a) => j \in 1..Len(a)
      BY <1>4
    <2>2. ~ (j <= Len(a)) => j - Len(a) \in 1..Len(b)
      BY <1>4
    <2>3. CASE j <= Len(a)
      <3>1. (a \o b)[j] = a[j] /\ j \in 1..Len(a)
        BY <1>4, <2>1, <2>3
      <3>. QED BY <1>2, <3>1
    <2>4. CASE ~ (j <= Len(a))
      <3>1. (a \o b)[j] = b[j - Len(a)] /\ j - Len(a) \in 1..Len(b)
        BY <1>4, <2>2, <2>4
      <3>. QED BY <1>3, <3>1
    <2>. QED BY <2>3, <2>4
  <1>. QED BY <1>4, <1>5 DEF RemoveAt, a, b

\* Removing a disk operation.
LEMMA RemoveRowStep ==
    ASSUME Good, NEW d \in Doubles, dops_remove(d)
    PROVE  Good'
  <1>. DEFINE i == d[1]
              j == d[2]
              old == micro_ops[i].disk_ops
              new == RemoveAt(old, j)
              n == Len(micro_ops)
  <1>1. /\ i \in 1..n /\ j \in 1..Len(old) /\ n \in Nat /\ DOMAIN micro_ops = 1..n
        /\ micro_ops = [k \in 1..n |-> micro_ops[k]]
        /\ IsMicroOp(micro_ops[i])
    BY InDoubles, InSeq DEF Good, WellFormed, IsSequence
  <1>2. micro_ops' = [micro_ops EXCEPT ![i].disk_ops = new]
    BY DEF dops_remove
  <1>3. /\ \A k \in 1..n : k # i => micro_ops'[k] = micro_ops[k]
        /\ micro_ops'[i] = [line |-> micro_ops[i].line, disk_ops |-> new]
        /\ micro_ops' = [k \in 1..n |-> micro_ops'[k]]
    <2>. HIDE DEF new
    <2>. QED BY <1>1, <1>2 DEF IsMicroOp
  <1>4. IsSequence(new) /\ \A k \in 1..Len(new) : IsDiskOp(new[k])
    <2>1. IsSequence(old) /\ \A k \in 1..Len(old) : IsDiskOp(old[k])
      BY <1>1 DEF IsMicroOp
    <2>2. \A k \in 1..Len(new) : \E m \in 1..Len(old) : new[k] = old[m]
      BY <1>1, <2>1, Removed
    <2>3. IsSequence(new)
      BY <1>1, <2>1, Removed
    <2>. HIDE DEF new, old
    <2>. QED BY <2>1, <2>2, <2>3
  <1>. HIDE DEF old, new, i, j
  <1>5. \A k \in 1..n : IsMicroOp(micro_ops'[k])
    BY <1>1, <1>3, <1>4 DEF IsMicroOp, Good, WellFormed
  <1>6. WellFormed(micro_ops')
    BY <1>1, <1>3, <1>5, Replaced
  <1>7. micro_end' \in Int /\ disk_end' \in Int
    BY DEF Good, dops_remove
  <1>. QED BY <1>6, <1>7, Zenon DEF Good, dops_remove

\* Removing a micro operation.
LEMMA RemoveStep ==
    ASSUME Good, NEW i \in Micro, remove(i)
    PROVE  Good'
  <1>1. IsSequence(micro_ops) /\ i \in 1..Len(micro_ops)
    BY InSeq DEF Good, WellFormed, Micro
  <1>2. \A j \in 1..Len(RemoveAt(micro_ops, i)) :
           \E k \in 1..Len(micro_ops) : RemoveAt(micro_ops, i)[j] = micro_ops[k]
    BY <1>1, Removed
  <1>3. IsSequence(RemoveAt(micro_ops, i))
    BY <1>1, Removed
  <1>4. WellFormed(micro_ops')
    BY <1>2, <1>3 DEF remove, Good, WellFormed
  <1>5. micro_end' \in Int /\ disk_end' \in Int
    BY DEF Good, remove
  <1>. QED BY <1>4, <1>5, Zenon DEF Good, remove

LEMMA WellFormedConcat ==
    ASSUME NEW s, NEW t, WellFormed(s), WellFormed(t)
    PROVE  WellFormed(s \o t)
  <1>1. /\ IsSequence(s \o t)
        /\ Len(s \o t) = Len(s) + Len(t)
        /\ Len(s) \in Nat /\ Len(t) \in Nat
        /\ \A i \in 1..Len(s \o t) :
              (s \o t)[i] = IF i <= Len(s) THEN s[i] ELSE t[i - Len(s)]
    BY Concatenated, InSeq DEF WellFormed
  <1>2. ASSUME NEW i \in 1..Len(s \o t) PROVE IsMicroOp((s \o t)[i])
    <2>1. i <= Len(s) => i \in 1..Len(s)
      BY <1>1
    <2>2. ~ (i <= Len(s)) => i - Len(s) \in 1..Len(t)
      BY <1>1
    <2>. QED BY <1>1, <2>1, <2>2 DEF WellFormed
  <1>. QED BY <1>1, <1>2 DEF WellFormed

LEMMA WellFormedPart ==
    ASSUME NEW s, WellFormed(s), NEW m \in Int, NEW n \in Int, 1 <= m, n <= Len(s)
    PROVE  WellFormed(SubSeq(s, m, n))
  BY Subsequence DEF WellFormed

\* Splitting a write into writes.
LEMMA SplitStep ==
    ASSUME Good, NEW i \in Micro, NEW count \in {2, 3}, split(i, count)
    PROVE  Good'
  <1>. DEFINE item == micro_ops[i].line
              how == [split_mode |-> "count", splits |-> count]
              slices == Slices(how, item.offset, item.count)
              cut(k) == [item EXCEPT !.offset = slices[k].start, !.count = slices[k].count,
                             !.dump_offset = @ + (slices[k].start - item.offset)]
              parts == [k \in DOMAIN slices |-> [micro_ops[i] EXCEPT !.line = cut(k)]]
              before == SubSeq(micro_ops, 1, i - 1)
              after == SubSeq(micro_ops, i + 1, Len(micro_ops))
  <1>1. /\ IsSequence(micro_ops) /\ i \in 1..Len(micro_ops) /\ Len(micro_ops) \in Nat
        /\ IsMicroOp(micro_ops[i])
    BY InSeq DEF Good, WellFormed, Micro
  <1>2. item \in WriteLine
    <2>1. item.op \in {"write", "append"}
      BY DEF split, IsWrite
    <2>. QED BY <1>1, <2>1 DEF IsMicroOp, IsLine
  <1>3. /\ IsSequence(slices) /\ DOMAIN slices = 1..Len(slices) /\ Len(slices) \in Nat
        /\ \A k \in 1..Len(slices) :
              slices[k].start \in Nat /\ item.offset <= slices[k].start /\ slices[k].count \in Nat
    <2>1. item.offset \in Nat /\ item.count \in Nat /\ how.splits \in Nat \ {0}
      BY <1>2 DEF WriteLine
    <2>. HIDE DEF item, how
    <2>2. \A k \in 1..Len(slices) : IsSlice(slices[k], item.offset)
      BY <2>1, SlicesAreProper
    <2>3. IsSequence(slices)
      BY <2>1, SlicesAreProper
    <2>. HIDE DEF slices
    <2>. QED BY <2>2, <2>3, InSeq DEF IsSlice
  <1>4. /\ micro_ops' = before \o parts \o after
        /\ micro_end' = micro_end - 1 + Len(slices)
        /\ disk_end' = disk_end /\ test_suite_initialized' = FALSE
    BY DEF split
  <1>. HIDE DEF slices, item
  <1>5. ASSUME NEW k \in 1..Len(slices) PROVE cut(k) \in WriteLine
    <2>1. item.dump_offset + (slices[k].start - item.offset) \in Nat
      BY <1>2, <1>3 DEF WriteLine
    <2>. QED BY <1>2, <1>3, <2>1 DEF WriteLine
  <1>. HIDE DEF cut
  <1>6. ASSUME NEW k \in 1..Len(slices) PROVE IsMicroOp(parts[k])
    <2>1. parts[k] = [line |-> cut(k), disk_ops |-> micro_ops[i].disk_ops]
      BY <1>1, <1>3 DEF IsMicroOp
    <2>2. IsLine(cut(k))
      BY <1>5 DEF IsLine
    <2>. HIDE DEF parts
    <2>. QED BY <1>1, <2>1, <2>2 DEF IsMicroOp
  <1>7. WellFormed(parts)
    <2>1. parts = [k \in 1..Len(slices) |-> parts[k]]
      BY <1>3
    <2>. HIDE DEF parts
    <2>. QED BY <1>3, <1>6, <2>1, Replaced
  <1>8. WellFormed(before) /\ WellFormed(after)
    <2>1. i - 1 \in Int /\ i - 1 <= Len(micro_ops) /\ i + 1 \in Int /\ 1 <= i + 1
      BY <1>1
    <2>2. WellFormed(before)
      BY <2>1, WellFormedPart DEF Good
    <2>3. WellFormed(after)
      BY <1>1, <2>1, WellFormedPart DEF Good
    <2>. QED BY <2>2, <2>3
  <1>. HIDE DEF parts, before, after
  <1>9. WellFormed(before \o parts)
    BY <1>7, <1>8, WellFormedConcat
  <1>10. WellFormed(micro_ops')
    BY <1>4, <1>8, <1>9, WellFormedConcat
  <1>11. micro_end' \in Int /\ disk_end' \in Int
    BY <1>3, <1>4 DEF Good
  <1>. QED BY <1>4, <1>10, <1>11, Zenon DEF Good

\* The other methods.
LEMMA EndStep ==
    ASSUME Good, \/ \E i \in Micro : end_at(i)
                 \/ \E d \in Doubles : dops_end_at(d)
    PROVE  Good'
  <1>1. UNCHANGED <<micro_ops, suiteVars, saved>>
    BY DEF end_at, dops_end_at
  <1>2. micro_end' \in Int /\ disk_end' \in Int
    <2>1. ASSUME NEW i \in Micro, end_at(i) PROVE micro_end' \in Int /\ disk_end' \in Int
      <3>1. i \in 1..Len(micro_ops) /\ Len(DiskOpsOf(i)) \in Nat
        BY InSeq DEF Good, WellFormed, IsMicroOp, Micro, DiskOpsOf
      <3>. QED BY <2>1, <3>1 DEF end_at
    <2>2. ASSUME NEW d \in Doubles, dops_end_at(d) PROVE micro_end' \in Int /\ disk_end' \in Int
      BY <2>2, CountsExist, SingleIs DEF dops_end_at, Good
    <2>. QED BY <2>1, <2>2
  <1>. QED BY <1>1, <1>2 DEF Good, suiteVars

LEMMA EditStep ==
    ASSUME Good, Edit
    PROVE  Good' /\ UNCHANGED saved
  <1>1. UNCHANGED saved
    BY DEF Edit, dops_generate, dops_remove, remove, set_data, split
  <1>2. ASSUME NEW i \in Micro, set_data(i) PROVE Good'
    BY <1>2 DEF set_data, Good, cutVars
  <1>. QED BY <1>1, <1>2, GenerateStep, RemoveRowStep, RemoveStep, SplitStep DEF Edit

LEMMA StepReplayer == ReplayerInv /\ [Next]_vars => ReplayerInv'
  <1>. SUFFICES ASSUME ReplayerInv, [Next]_vars PROVE ReplayerInv'
    OBVIOUS
  <1>1. Good /\ GoodState(State) /\ Saved
    BY GoodIs DEF ReplayerInv
  <1>2. GoodState(State)' <=> Good'
    BY GoodIs, PTL
  <1>3. UNCHANGED saved => Saved'
    BY <1>1 DEF Saved
  <1>4. CASE \/ \E i \in Micro : end_at(i)
             \/ \E d \in Doubles : dops_end_at(d)
    BY <1>1, <1>2, <1>3, <1>4, EndStep DEF ReplayerInv, end_at, dops_end_at
  <1>5. CASE \E d \in Doubles : dops_omit(d) \/ dops_include(d)
    BY <1>1, <1>2, <1>3, <1>5, OmitStep DEF ReplayerInv, dops_omit, dops_include
  <1>6. CASE Edit
    BY <1>1, <1>2, <1>3, <1>6, EditStep DEF ReplayerInv
  <1>7. CASE dops_set_legal
    <2>1. Good'
      BY <1>1, <1>7 DEF dops_set_legal, Good, cutVars
    <2>. QED BY <1>2, <1>3, <1>7, <2>1 DEF ReplayerInv, dops_set_legal
  <1>8. CASE \E slot \in Slots : save(slot)
    <2>1. PICK slot \in Slots : save(slot)
      BY <1>8
    <2>2. Good'
      BY <1>1, <2>1 DEF save, Good, cutVars, suiteVars
    <2>3. saved' = [saved EXCEPT ![slot] = State]
      BY <2>1 DEF save
    <2>4. Saved'
      BY <1>1, <2>3, StateIsSaved DEF Saved
    <2>. QED BY <1>2, <2>2, <2>4 DEF ReplayerInv
  <1>9. CASE \E slot \in Slots : load(slot)
    <2>1. PICK slot \in Slots : load(slot)
      BY <1>9
    <2>2. GoodState(saved[slot])
      BY <1>1, <2>1 DEF Saved, load
    <2>3. Good'
      BY <2>1, <2>2 DEF load, Good, GoodState
    <2>. QED BY <1>2, <1>3, <2>1, <2>3 DEF ReplayerInv, load
  <1>10. CASE UNCHANGED vars
    <2>1. Good'
      BY <1>1, <1>10 DEF vars, cutVars, suiteVars, Good
    <2>. QED BY <1>2, <1>3, <1>10, <2>1 DEF ReplayerInv, vars
  <1>. QED BY <1>4, <1>5, <1>6, <1>7, <1>8, <1>9, <1>10 DEF Next

LEMMA InvReplayer == Spec => []ReplayerInv
  BY InitReplayer, StepReplayer, PTL DEF Spec

\* Type correctness of the Replayer: no disk operation that it replays is empty.
THEOREM ReplayerTypeCorrect == Spec => []ReplayerTypeOK
  <1>1. ASSUME ReplayerInv PROVE ReplayerTypeOK
    <2>1. Good /\ Saved
      BY <1>1, GoodIs DEF ReplayerInv
    <2>2. ASSUME NEW d \in Doubles
          PROVE  IsDiskOp(DiskOpsOf(d[1])[d[2]])
      BY <2>1, InDoubles DEF Good, WellFormed, IsMicroOp, DiskOpsOf
    <2>. QED BY <2>1, <2>2 DEF ReplayerTypeOK, Good, Saved, IsDiskOp, IsRow, Omitted
  <1>2. ReplayerInv => ReplayerTypeOK
    BY <1>1
  <1>. QED BY <1>2, InvReplayer, PTL

\* A test suite that may be asked is the suite of the operations there are,
\* for every trace and every sequence of calls: every method that changes what
\* there is to replay clears test_suite_initialized, and what save copies and
\* load restores satisfies the same (simulate_crashes.py:157-170, 246-383).
THEOREM SuiteStaysCurrent == Spec => []SuiteIsCurrent
  <1>1. ReplayerInv => SuiteIsCurrent
    BY GoodIs DEF ReplayerInv, Good, SuiteIsCurrent
  <1>. QED BY <1>1, InvReplayer, PTL

\* What a specification replays up to an end within dops_independent_till of
\* the omitted operations is a valid combo of the operations there are now, for
\* every trace and every sequence of calls ("till which execution can continue
\* legally", test/crash_specifier.py:28-30).
THEOREM ReplaysAreLegal == Spec => []LegalReplay
  <1>1. ReplayerInv => LegalReplay
    BY GoodIs, LegalWhenCurrent DEF ReplayerInv, Good, Rows
  <1>. QED BY <1>1, InvReplayer, PTL

-----------------------------------------------------------------------------
(* Rows that are replayed one after the other                                *)

\* The largest element of a set is the one that no other one exceeds.
LEMMA MaxIs ==
    ASSUME NEW S, S \subseteq Int, NEW m \in S, \A n \in S : m >= n
    PROVE  Max(S) = m
  <1>. DEFINE Largest(x) == x \in S /\ \A y \in S : x >= y
  <1>1. Max(S) = CHOOSE x : Largest(x)
    BY DEF Max
  <1>2. Largest(m)
    OBVIOUS
  <1>3. ASSUME NEW x, Largest(x) PROVE x = m
    <2>1. x \in Int /\ m \in Int /\ x >= m /\ m >= x
      BY <1>3
    <2>. QED BY <2>1
  <1>. HIDE DEF Largest
  <1>. QED BY <1>1, <1>2, <1>3

\* The snapshots after ever more of the rows.
Replays(fs, list, after) ==
    /\ after[0] = fs
    /\ \A k \in 1..Len(list) : after[k] = ReplayRow(after[k - 1], list[k])
    /\ ReplayRows(fs, list) = after[Len(list)]

\* The recursion that FoldLeft is defined with has a solution.
FoldedUpto(fs, list, m, f) ==
    \A s \in SUBSET (1..m) :
        f[s] = IF s = {} THEN fs ELSE ReplayRow(f[s \ {Max(s)}], list[Max(s)])

LEMMA FoldExists ==
    ASSUME NEW fs, NEW list, NEW N \in Nat
    PROVE  \E f : FoldedUpto(fs, list, N, f)
  <1>. DEFINE Body(f, s) == IF s = {} THEN fs
                            ELSE ReplayRow(f[s \ {Max(s)}], list[Max(s)])
              Upto(m, f) == \A s \in SUBSET (1..m) : f[s] = Body(f, s)
              T == {m \in Nat : \E f : Upto(m, f)}
  <1>1. 0 \in T
    <2>. DEFINE f == [s \in SUBSET (1..0) |-> fs]
    <2>1. \A s \in SUBSET (1..0) : s = {}
      OBVIOUS
    <2>2. Upto(0, f)
      BY <2>1
    <2>. QED BY <2>2
  <1>2. ASSUME NEW m \in Nat, m \in T PROVE m + 1 \in T
    <2>1. PICK f : Upto(m, f)
      BY <1>2
    <2>. DEFINE g == [s \in SUBSET (1..(m + 1)) |->
                        IF m + 1 \in s THEN ReplayRow(f[s \ {m + 1}], list[m + 1]) ELSE f[s]]
    <2>2. ASSUME NEW s \in SUBSET (1..(m + 1)) PROVE g[s] = Body(g, s)
      <3>1. CASE m + 1 \in s
        <4>1. Max(s) = m + 1
          <5>1. s \subseteq Int /\ \A n \in s : m + 1 >= n
            OBVIOUS
          <5>. QED BY <3>1, <5>1, MaxIs
        <4>2. s \ {m + 1} \in SUBSET (1..(m + 1)) /\ m + 1 \notin s \ {m + 1}
          OBVIOUS
        <4>3. g[s \ {m + 1}] = f[s \ {m + 1}]
          BY <4>2
        <4>4. g[s] = ReplayRow(f[s \ {m + 1}], list[m + 1])
          BY <3>1, Zenon
        <4>. HIDE DEF g
        <4>. QED BY <3>1, <4>1, <4>3, <4>4
      <3>2. CASE m + 1 \notin s
        <4>1. s \in SUBSET (1..m)
          BY <3>2
        <4>2. /\ s \ {Max(s)} \in SUBSET (1..(m + 1))
              /\ m + 1 \notin s \ {Max(s)}
          BY <3>2
        <4>3. g[s \ {Max(s)}] = f[s \ {Max(s)}] /\ g[s] = f[s]
          BY <3>2, <4>2
        <4>4. f[s] = Body(f, s)
          BY <2>1, <4>1
        <4>. HIDE DEF g
        <4>. QED BY <4>3, <4>4
      <3>. QED BY <3>1, <3>2
    <2>3. Upto(m + 1, g)
      <3>. HIDE DEF g, Body
      <3>. QED BY <2>2
    <2>. HIDE DEF Upto
    <2>. QED BY <2>3
  <1>3. N \in T
    <2>. HIDE DEF T
    <2>. QED BY <1>1, <1>2, Current!NatSetInduction
  <1>4. PICK f : Upto(N, f)
    <2>. HIDE DEF Upto
    <2>. QED BY <1>3
  <1>5. FoldedUpto(fs, list, N, f)
    BY <1>4 DEF FoldedUpto
  <1>. QED BY <1>5

\* FoldLeft takes the rows one by one.
LEMMA ReplaysExist ==
    ASSUME NEW fs, NEW list, IsSequence(list)
    PROVE  \E after : Replays(fs, list, after)
  <1>. DEFINE N == Len(list)
  <1>1. N \in Nat /\ DOMAIN list = 1..N
    BY DEF IsSequence
  <1>2. PICK f : FoldedUpto(fs, list, N, f)
    BY <1>1, FoldExists
  <1>. DEFINE iter[s \in SUBSET (DOMAIN list)] ==
                 IF s = {} THEN fs
                 ELSE LET x == Max(s) IN ReplayRow(iter[s \ {x}], list[x])
              Solves(h) == h = [s \in SUBSET (DOMAIN list) |->
                 IF s = {} THEN fs
                 ELSE LET x == Max(s) IN ReplayRow(h[s \ {x}], list[x])]
              g == [s \in SUBSET (DOMAIN list) |-> f[s]]
  <1>5. Solves(g)
    <2>1. ASSUME NEW s \in SUBSET (DOMAIN list)
          PROVE  g[s] = IF s = {} THEN fs ELSE ReplayRow(g[s \ {Max(s)}], list[Max(s)])
      <3>1. s \ {Max(s)} \in SUBSET (DOMAIN list)
        OBVIOUS
      <3>2. f[s] = IF s = {} THEN fs ELSE ReplayRow(f[s \ {Max(s)}], list[Max(s)])
        BY <1>1, <1>2 DEF FoldedUpto
      <3>. QED BY <3>1, <3>2
    <2>2. g = [s \in SUBSET (DOMAIN list) |-> g[s]]
      OBVIOUS
    <2>. HIDE DEF g
    <2>. QED BY <2>1, <2>2
  <1>6. iter = CHOOSE h : Solves(h)
    BY DEF iter
  <1>7. ReplayRows(fs, list) = iter[DOMAIN list]
    BY DEF ReplayRows, FoldLeft, MapThenFoldSet, iter
  <1>. HIDE DEF iter
  <1>8. Solves(iter)
    <2>. HIDE DEF Solves
    <2>. QED BY <1>5, <1>6
  <1>. DEFINE after == [k \in 0..N |-> iter[1..k]]
  <1>9. ASSUME NEW k \in 1..N PROVE after[k] = ReplayRow(after[k - 1], list[k])
    <2>1. Max(1..k) = k
      <3>1. 1..k \subseteq Int /\ k \in 1..k /\ \A n \in 1..k : k >= n
        OBVIOUS
      <3>. QED BY <3>1, MaxIs
    <2>2. (1..k) \ {k} = 1..(k - 1) /\ 1..k # {}
      <3>1. \A i : i \in (1..k) \ {k} <=> i \in 1..(k - 1)
        OBVIOUS
      <3>2. k \in 1..k
        OBVIOUS
      <3>. QED BY <3>1, <3>2, Zenon
    <2>3. 1..k \in SUBSET (DOMAIN list)
      BY <1>1
    <2>4. iter[1..k] = ReplayRow(iter[(1..k) \ {k}], list[k])
      BY <1>8, <2>1, <2>2, <2>3
    <2>5. after[k] = iter[1..k] /\ after[k - 1] = iter[1..(k - 1)]
      OBVIOUS
    <2>. HIDE DEF after
    <2>. QED BY <2>2, <2>4, <2>5
  <1>10. after[0] = fs
    <2>1. 1..0 = {} /\ {} \in SUBSET (DOMAIN list)
      OBVIOUS
    <2>2. iter[{}] = fs
      BY <1>8, <2>1
    <2>. QED BY <1>1, <2>1, <2>2
  <1>11. after[N] = ReplayRows(fs, list)
    BY <1>1, <1>7
  <1>12. Replays(fs, list, after)
    <2>. HIDE DEF after
    <2>. QED BY <1>9, <1>10, <1>11 DEF Replays
  <1>. QED BY <1>12

LEMMA ReplayNone == ASSUME NEW fs PROVE ReplayRows(fs, << >>) = fs
  <1>1. IsSequence(<< >>) /\ Len(<< >>) = 0
    BY DEF IsSequence
  <1>. QED BY <1>1, ReplaysExist DEF Replays

\* Snapshots that follow each other row by row are those of the replay.
LEMMA ReplayAlong ==
    ASSUME NEW list, IsSequence(list), NEW at,
           \A k \in 1..Len(list) : ReplayRow(at[k - 1], list[k]) = at[k]
    PROVE  ReplayRows(at[0], list) = at[Len(list)]
  <1>1. PICK after : Replays(at[0], list, after)
    BY ReplaysExist
  <1>. DEFINE T == {k \in Nat : k <= Len(list) => after[k] = at[k]}
  <1>2. Len(list) \in Nat
    BY InSeq
  <1>3. 0 \in T
    BY <1>1 DEF Replays
  <1>4. ASSUME NEW k \in Nat, k \in T PROVE k + 1 \in T
    <2>1. SUFFICES ASSUME k + 1 <= Len(list) PROVE after[k + 1] = at[k + 1]
      OBVIOUS
    <2>2. k + 1 \in 1..Len(list) /\ (k + 1) - 1 = k /\ k <= Len(list)
      BY <1>2, <2>1
    <2>3. after[k] = at[k]
      BY <1>4, <2>2
    <2>4. after[k + 1] = ReplayRow(after[k], list[k + 1])
      BY <1>1, <2>2 DEF Replays
    <2>. QED BY <2>2, <2>3, <2>4
  <1>5. Len(list) \in T
    <2>. HIDE DEF T
    <2>. QED BY <1>2, <1>3, <1>4, Current!NatSetInduction
  <1>. QED BY <1>1, <1>2, <1>5 DEF Replays

LEMMA ReplayOne == ASSUME NEW fs, NEW row PROVE ReplayRows(fs, <<row>>) = ReplayRow(fs, row)
  <1>. DEFINE at == [k \in 0..1 |-> IF k = 0 THEN fs ELSE ReplayRow(fs, row)]
  <1>1. IsSequence(<<row>>) /\ Len(<<row>>) = 1 /\ <<row>>[1] = row
    BY DEF IsSequence
  <1>2. at[0] = fs /\ at[1] = ReplayRow(fs, row)
    OBVIOUS
  <1>. HIDE DEF at
  <1>3. \A k \in 1..Len(<<row>>) : ReplayRow(at[k - 1], <<row>>[k]) = at[k]
    BY <1>1, <1>2
  <1>. QED BY <1>1, <1>2, <1>3, ReplayAlong

LEMMA ReplayBoth ==
    ASSUME NEW fs, NEW s, NEW t, IsSequence(s), IsSequence(t)
    PROVE  ReplayRows(fs, s \o t) = ReplayRows(ReplayRows(fs, s), t)
  <1>1. PICK first : Replays(fs, s, first)
    BY ReplaysExist
  <1>2. PICK second : Replays(ReplayRows(fs, s), t, second)
    BY ReplaysExist
  <1>3. Len(s) \in Nat /\ Len(t) \in Nat
    BY InSeq
  <1>4. /\ IsSequence(s \o t)
        /\ Len(s \o t) = Len(s) + Len(t)
        /\ \A i \in 1..Len(s \o t) :
              (s \o t)[i] = IF i <= Len(s) THEN s[i] ELSE t[i - Len(s)]
    BY Concatenated
  <1>. DEFINE st == s \o t
              at == [k \in 0..Len(st) |->
                       IF k <= Len(s) THEN first[k] ELSE second[k - Len(s)]]
  <1>5. first[Len(s)] = second[0] /\ first[0] = fs
    BY <1>1, <1>2 DEF Replays
  <1>. HIDE DEF st
  <1>6. ASSUME NEW k \in 1..Len(st) PROVE ReplayRow(at[k - 1], st[k]) = at[k]
    <2>1. CASE k <= Len(s)
      <3>1. at[k - 1] = first[k - 1] /\ at[k] = first[k] /\ st[k] = s[k] /\ k \in 1..Len(s)
        BY <1>3, <1>4, <2>1 DEF st
      <3>. QED BY <1>1, <3>1 DEF Replays
    <2>2. CASE ~ (k <= Len(s))
      <3>. DEFINE j == k - Len(s)
      <3>1. j \in 1..Len(t) /\ st[k] = t[j]
        BY <1>3, <1>4, <2>2 DEF st
      <3>2. at[k] = second[j]
        BY <1>3, <2>2
      <3>3. at[k - 1] = second[j - 1]
        <4>1. CASE j = 1
          <5>1. k - 1 = Len(s) /\ k - 1 \in 0..Len(st)
            BY <1>3, <4>1
          <5>. QED BY <1>3, <1>5, <4>1, <5>1
        <4>2. CASE j # 1
          <5>1. ~ (k - 1 <= Len(s)) /\ k - 1 \in 0..Len(st) /\ (k - 1) - Len(s) = j - 1
            BY <1>3, <2>2, <4>2
          <5>. HIDE DEF j
          <5>. QED BY <5>1
        <4>. QED BY <4>1, <4>2
      <3>. HIDE DEF j, at
      <3>. QED BY <1>2, <3>1, <3>2, <3>3 DEF Replays
    <2>. QED BY <2>1, <2>2
  <1>7. at[0] = fs
    BY <1>3, <1>4, <1>5 DEF st
  <1>8. at[Len(st)] = second[Len(t)]
    <2>1. CASE Len(t) = 0
      BY <1>3, <1>4, <1>5, <2>1 DEF st
    <2>2. CASE Len(t) # 0
      BY <1>3, <1>4, <2>2 DEF st
    <2>. QED BY <2>1, <2>2
  <1>. HIDE DEF at
  <1>9. ReplayRows(at[0], st) = at[Len(st)]
    BY <1>4, <1>6, ReplayAlong DEF st
  <1>. QED BY <1>2, <1>7, <1>8, <1>9 DEF Replays, st

\* The same for groups of rows.
LEMMA ReplayGroups ==
    ASSUME NEW seqs, AllSequences(seqs), NEW at,
           \A k \in 1..Len(seqs) : ReplayRows(at[k - 1], seqs[k]) = at[k]
    PROVE  ReplayRows(at[0], FlattenSeq(seqs)) = at[Len(seqs)]
  <1>1. PICK sums : Flattened(seqs, sums)
    BY FlattenedExists DEF AllSequences
  <1>2. Len(seqs) \in Nat /\ seqs \in Seq(Elements(seqs))
    BY InSeq DEF AllSequences
  <1>3. FlattenSeq(seqs) = sums[Len(seqs)]
    <2>1. SubSeq(seqs, 1, Len(seqs)) = seqs /\ Len(seqs) \in 0..Len(seqs)
      BY <1>2
    <2>. QED BY <1>1, <2>1, FlattenPrefix
  <1>. DEFINE T == {k \in Nat : k <= Len(seqs) =>
                       IsSequence(sums[k]) /\ ReplayRows(at[0], sums[k]) = at[k]}
  <1>4. 0 \in T
    <2>1. sums[0] = << >>
      BY <1>1 DEF Flattened
    <2>. QED BY <2>1, ReplayNone DEF IsSequence
  <1>5. ASSUME NEW k \in Nat, k \in T PROVE k + 1 \in T
    <2>1. SUFFICES ASSUME k + 1 <= Len(seqs)
                   PROVE  IsSequence(sums[k + 1]) /\ ReplayRows(at[0], sums[k + 1]) = at[k + 1]
      OBVIOUS
    <2>2. k + 1 \in 1..Len(seqs) /\ (k + 1) - 1 = k /\ k <= Len(seqs)
      BY <1>2, <2>1
    <2>3. IsSequence(sums[k]) /\ ReplayRows(at[0], sums[k]) = at[k]
      BY <1>5, <2>2
    <2>4. sums[k + 1] = sums[k] \o seqs[k + 1] /\ IsSequence(seqs[k + 1])
      BY <1>1, <2>2 DEF Flattened, AllSequences
    <2>5. ReplayRows(at[k], seqs[k + 1]) = at[k + 1]
      BY <2>2
    <2>6. IsSequence(sums[k] \o seqs[k + 1])
      BY <2>3, <2>4, Concatenated
    <2>7. ReplayRows(at[0], sums[k] \o seqs[k + 1])
              = ReplayRows(ReplayRows(at[0], sums[k]), seqs[k + 1])
      BY <2>3, <2>4, ReplayBoth
    <2>. QED BY <2>3, <2>4, <2>5, <2>6, <2>7
  <1>6. Len(seqs) \in T
    <2>. HIDE DEF T
    <2>. QED BY <1>2, <1>4, <1>5, Current!NatSetInduction
  <1>. QED BY <1>2, <1>3, <1>6

-----------------------------------------------------------------------------
(* Bytes                                                                     *)

LEMMA ResizedIs ==
    ASSUME NEW c, IsSequence(c), NEW n \in Nat
    PROVE  /\ IsSequence(Resized(c, n))
           /\ Len(Resized(c, n)) = n
           /\ \A p \in 1..n : Resized(c, n)[p] = IF p <= Len(c) THEN c[p] ELSE 0
  <1>1. DOMAIN c = 1..Len(c) /\ Len(c) \in Nat
    BY InSeq
  <1>. DEFINE r == Resized(c, n)
  <1>2. r = [p \in 1..n |-> IF p \in 1..Len(c) THEN c[p] ELSE 0]
    BY <1>1 DEF Resized
  <1>3. r = [p \in 1..n |-> r[p]]
    BY <1>2
  <1>4. \A p \in 1..n : r[p] = IF p <= Len(c) THEN c[p] ELSE 0
    BY <1>1, <1>2
  <1>. HIDE DEF r
  <1>5. IsSequence(r) /\ Len(r) = n
    BY <1>3, OnInterval
  <1>. QED BY <1>4, <1>5 DEF r

LEMMA OverwrittenIs ==
    ASSUME NEW c, IsSequence(c), NEW d, IsSequence(d), NEW o \in Nat
    PROVE  /\ IsSequence(Overwritten(c, o, d))
           /\ Len(Overwritten(c, o, d)) = Larger(Len(c), o + Len(d))
           /\ \A p \in 1..Larger(Len(c), o + Len(d)) :
                 Overwritten(c, o, d)[p] = IF o < p /\ p <= o + Len(d) THEN d[p - o]
                                           ELSE IF p <= Len(c) THEN c[p] ELSE 0
  <1>1. /\ DOMAIN c = 1..Len(c) /\ Len(c) \in Nat
        /\ DOMAIN d = 1..Len(d) /\ Len(d) \in Nat
    BY InSeq
  <1>. DEFINE r == Overwritten(c, o, d)
              n == Larger(Len(c), o + Len(d))
  <1>2. r = [p \in 1..n |-> IF p - o \in 1..Len(d) THEN d[p - o]
                            ELSE IF p \in 1..Len(c) THEN c[p] ELSE 0]
    BY <1>1 DEF Overwritten
  <1>3. r = [p \in 1..n |-> r[p]] /\ n \in Nat
    BY <1>1, <1>2 DEF Larger
  <1>. HIDE DEF n
  <1>4. \A p \in 1..n : r[p] = IF o < p /\ p <= o + Len(d) THEN d[p - o]
                               ELSE IF p <= Len(c) THEN c[p] ELSE 0
    <2>1. ASSUME NEW p \in 1..n
          PROVE  /\ p - o \in 1..Len(d) <=> o < p /\ p <= o + Len(d)
                 /\ p \in 1..Len(c) <=> p <= Len(c)
      BY <1>1, <1>3
    <2>. HIDE DEF r
    <2>. QED BY <1>2, <2>1
  <1>. HIDE DEF r
  <1>5. IsSequence(r) /\ Len(r) = n
    BY <1>3, OnInterval
  <1>. QED BY <1>4, <1>5 DEF r, n

LEMMA OverwrittenBy ==
    ASSUME NEW c, IsSequence(c), NEW o \in Nat,
           NEW l \in Nat, NEW d, IsSequence(d), Len(d) = l,
           NEW n \in Nat, Larger(Len(c), o + l) = n,
           NEW r, r = Overwritten(c, o, d)
    PROVE  /\ IsSequence(r) /\ Len(r) = n
           /\ \A p \in 1..n : r[p] = IF o < p /\ p <= o + l THEN d[p - o]
                                     ELSE IF p <= Len(c) THEN c[p] ELSE 0
  BY OverwrittenIs, ZenonT(60)

LEMMA ResizedTwice ==
    ASSUME NEW c, IsSequence(c), NEW m \in Nat, NEW n \in Nat, n <= m
    PROVE  Resized(Resized(c, m), n) = Resized(c, n)
  <1>1. /\ IsSequence(Resized(c, m)) /\ Len(Resized(c, m)) = m
        /\ \A p \in 1..m : Resized(c, m)[p] = IF p <= Len(c) THEN c[p] ELSE 0
    BY ResizedIs
  <1>2. /\ IsSequence(Resized(c, n)) /\ Len(Resized(c, n)) = n
        /\ \A p \in 1..n : Resized(c, n)[p] = IF p <= Len(c) THEN c[p] ELSE 0
    BY ResizedIs
  <1>. DEFINE r == Resized(c, m)
  <1>. HIDE DEF r
  <1>3. /\ IsSequence(Resized(r, n)) /\ Len(Resized(r, n)) = n
        /\ \A p \in 1..n : Resized(r, n)[p] = IF p <= m THEN r[p] ELSE 0
    BY <1>1, ResizedIs, ZenonT(60) DEF r
  <1>4. \A p \in 1..n : p <= m /\ p \in 1..m
    OBVIOUS
  <1>5. \A p \in 1..n : Resized(r, n)[p] = Resized(c, n)[p]
    BY <1>1, <1>2, <1>3, <1>4 DEF r
  <1>. QED BY <1>2, <1>3, <1>5, SameSequence DEF r

LEMMA ResizedSame == ASSUME NEW c, IsSequence(c) PROVE Resized(c, Len(c)) = c
  <1>1. Len(c) \in Nat
    BY InSeq
  <1>2. /\ IsSequence(Resized(c, Len(c))) /\ Len(Resized(c, Len(c))) = Len(c)
        /\ \A p \in 1..Len(c) :
              Resized(c, Len(c))[p] = IF p <= Len(c) THEN c[p] ELSE 0
    BY <1>1, ResizedIs
  <1>3. \A p \in 1..Len(c) : p <= Len(c)
    BY <1>1
  <1>. QED BY <1>2, <1>3, SameSequence

\* What is written last is what counts.
LEMMA OverwrittenTwice ==
    ASSUME NEW c, IsSequence(c), NEW d, IsSequence(d), NEW e, IsSequence(e),
           Len(d) = Len(e), NEW o \in Nat
    PROVE  Overwritten(Overwritten(c, o, d), o, e) = Overwritten(c, o, e)
  <1>. DEFINE n == Larger(Len(c), o + Len(d))
              r == Overwritten(c, o, d)
              q == Overwritten(c, o, e)
  <1>1. Len(c) \in Nat /\ Len(d) \in Nat /\ n \in Nat /\ Len(c) <= n /\ o + Len(d) <= n
    BY InSeq DEF Larger
  <1>0. r = Overwritten(c, o, d) /\ q = Overwritten(c, o, e) /\ Larger(Len(c), o + Len(d)) = n
    OBVIOUS
  <1>4. Larger(n, o + Len(d)) = n
    BY <1>1 DEF Larger
  <1>. HIDE DEF n, r, q
  <1>2. /\ IsSequence(r) /\ Len(r) = n
        /\ \A p \in 1..n : r[p] = IF o < p /\ p <= o + Len(d) THEN d[p - o]
                                  ELSE IF p <= Len(c) THEN c[p] ELSE 0
    BY <1>0, <1>1, OverwrittenBy, SMTT(30)
  <1>3. /\ IsSequence(q) /\ Len(q) = n
        /\ \A p \in 1..n : q[p] = IF o < p /\ p <= o + Len(d) THEN e[p - o]
                                  ELSE IF p <= Len(c) THEN c[p] ELSE 0
    BY <1>0, <1>1, OverwrittenBy
  <1>5. /\ IsSequence(Overwritten(r, o, e)) /\ Len(Overwritten(r, o, e)) = n
        /\ \A p \in 1..n : Overwritten(r, o, e)[p] =
              IF o < p /\ p <= o + Len(d) THEN e[p - o] ELSE IF p <= n THEN r[p] ELSE 0
    BY <1>2, <1>4, OverwrittenIs, ZenonT(60)
  <1>6. ASSUME NEW p \in 1..n PROVE Overwritten(r, o, e)[p] = q[p]
    <2>1. p <= n
      BY <1>1
    <2>2. CASE o < p /\ p <= o + Len(d)
      BY <1>3, <1>5, <2>2
    <2>3. CASE ~ (o < p /\ p <= o + Len(d))
      BY <1>2, <1>3, <1>5, <2>1, <2>3
    <2>. QED BY <2>2, <2>3
  <1>7. Overwritten(r, o, e) = q
    BY <1>3, <1>5, <1>6, SameSequence
  <1>. QED BY <1>7 DEF r, q

\* The first n bytes of the dump from b.
Dumped(b, n) == [k \in 1..n |-> b + k - 1]

LEMMA DumpedIs ==
    ASSUME NEW b, NEW n \in Nat
    PROVE  /\ IsSequence(Dumped(b, n)) /\ Len(Dumped(b, n)) = n
           /\ \A k \in 1..n : Dumped(b, n)[k] = b + k - 1
  <1>1. Dumped(b, n) = [k \in 1..n |-> Dumped(b, n)[k]]
    BY DEF Dumped
  <1>2. \A k \in 1..n : Dumped(b, n)[k] = b + k - 1
    BY DEF Dumped
  <1>. QED BY <1>1, <1>2, OnInterval

\* A write goes on where the write before it ended.
LEMMA OverwrittenNext ==
    ASSUME NEW c, IsSequence(c), NEW o \in Nat, NEW b \in Int, NEW m \in Nat, NEW n \in Nat
    PROVE  Overwritten(Overwritten(c, o, Dumped(b, m)), o + m, Dumped(b + m, n))
               = Overwritten(c, o, Dumped(b, m + n))
  <1>. DEFINE d == Dumped(b, m)
              e == Dumped(b + m, n)
              a == Dumped(b, m + n)
              l == Larger(Len(c), o + m)
              t == Larger(Len(c), o + (m + n))
              r == Overwritten(c, o, d)
              q == Overwritten(c, o, a)
              z == Overwritten(r, o + m, e)
  <1>1. /\ IsSequence(d) /\ Len(d) = m /\ \A k \in 1..m : d[k] = b + k - 1
        /\ IsSequence(e) /\ Len(e) = n /\ \A k \in 1..n : e[k] = (b + m) + k - 1
        /\ IsSequence(a) /\ Len(a) = m + n /\ \A k \in 1..(m + n) : a[k] = b + k - 1
    <2>1. m + n \in Nat
      OBVIOUS
    <2>. HIDE DEF d, e, a
    <2>. QED BY <2>1, DumpedIs DEF d, e, a
  <1>. HIDE DEF d, e, a
  <1>2. /\ Len(c) \in Nat /\ l \in Nat /\ t \in Nat /\ o + m \in Nat /\ m + n \in Nat
        /\ Larger(l, (o + m) + n) = t /\ o + m <= l /\ Len(c) <= l /\ l <= t
        /\ l = Len(c) \/ l = o + m
        /\ t = Len(c) \/ t = o + m + n
    BY InSeq DEF Larger
  <1>0. /\ r = Overwritten(c, o, d) /\ q = Overwritten(c, o, a)
        /\ z = Overwritten(r, o + m, e)
        /\ Larger(Len(c), o + m) = l /\ Larger(Len(c), o + (m + n)) = t
    OBVIOUS
  <1>. HIDE DEF l, t, r, q, z
  <1>3. /\ IsSequence(r) /\ Len(r) = l
        /\ \A p \in 1..l : r[p] = IF o < p /\ p <= o + m THEN d[p - o]
                                  ELSE IF p <= Len(c) THEN c[p] ELSE 0
    <2>1. /\ r = Overwritten(c, o, d) /\ Larger(Len(c), o + m) = l /\ l \in Nat
          /\ IsSequence(d) /\ Len(d) = m
      BY <1>0, <1>1, <1>2
    <2>. QED BY <2>1, OverwrittenBy
  <1>4. /\ IsSequence(q) /\ Len(q) = t
        /\ \A p \in 1..t : q[p] = IF o < p /\ p <= o + (m + n) THEN a[p - o]
                                  ELSE IF p <= Len(c) THEN c[p] ELSE 0
    BY <1>0, <1>1, <1>2, OverwrittenBy, SMTT(30)
  <1>5. /\ IsSequence(z) /\ Len(z) = t
        /\ \A p \in 1..t : z[p] = IF o + m < p /\ p <= (o + m) + n THEN e[p - (o + m)]
                                  ELSE IF p <= l THEN r[p] ELSE 0
    BY <1>0, <1>1, <1>2, <1>3, OverwrittenBy, SMTT(30)
  <1>6. ASSUME NEW p \in 1..t PROVE z[p] = q[p]
    <2>1. CASE o + m < p /\ p <= (o + m) + n
      <3>1. /\ p - (o + m) \in 1..n /\ p - o \in 1..(m + n)
            /\ o < p /\ p <= o + (m + n)
            /\ (b + m) + (p - (o + m)) - 1 = b + (p - o) - 1
        BY <2>1
      <3>2. z[p] = e[p - (o + m)] /\ q[p] = a[p - o]
        BY <1>4, <1>5, <2>1, <3>1
      <3>3. e[p - (o + m)] = (b + m) + (p - (o + m)) - 1 /\ a[p - o] = b + (p - o) - 1
        BY <1>1, <3>1
      <3>. QED BY <3>1, <3>2, <3>3
    <2>2. CASE o < p /\ p <= o + m
      <3>1. /\ p - o \in 1..m /\ p - o \in 1..(m + n) /\ p <= o + (m + n)
            /\ p <= l /\ p \in 1..l /\ ~ (o + m < p)
        BY <1>2, <2>2
      <3>2. z[p] = r[p] /\ r[p] = d[p - o] /\ q[p] = a[p - o]
        BY <1>3, <1>4, <1>5, <2>2, <3>1
      <3>3. d[p - o] = b + (p - o) - 1 /\ a[p - o] = b + (p - o) - 1
        BY <1>1, <3>1
      <3>. QED BY <3>2, <3>3
    <2>3. CASE ~ (o < p /\ p <= o + (m + n))
      <3>1. /\ ~ (o + m < p /\ p <= (o + m) + n) /\ ~ (o < p /\ p <= o + m)
            /\ p <= l <=> p \in 1..l
            /\ p <= Len(c) => p <= l
        BY <1>2, <2>3
      <3>2. q[p] = IF p <= Len(c) THEN c[p] ELSE 0
        BY <1>4, <2>3
      <3>3. z[p] = IF p <= l THEN r[p] ELSE 0
        BY <1>5, <3>1
      <3>4. p <= l => r[p] = IF p <= Len(c) THEN c[p] ELSE 0
        BY <1>3, <3>1
      <3>. QED BY <3>1, <3>2, <3>3, <3>4
    <2>4. (o < p /\ p <= o + (m + n)) => (o + m < p /\ p <= (o + m) + n) \/ (o < p /\ p <= o + m)
      OBVIOUS
    <2>. QED BY <2>1, <2>2, <2>3, <2>4
  <1>7. z = q
    BY <1>4, <1>5, <1>6, SameSequence
  <1>. QED BY <1>7 DEF z, q, r, d, e, a

LEMMA OverwrittenByNone ==
    ASSUME NEW c, IsSequence(c), NEW o \in Nat, o <= Len(c), NEW b
    PROVE  Overwritten(c, o, Dumped(b, 0)) = c
  <1>. DEFINE d == Dumped(b, 0)
              r == Overwritten(c, o, d)
  <1>1. IsSequence(d) /\ Len(d) = 0
    BY DumpedIs
  <1>2. Len(c) \in Nat /\ Larger(Len(c), o + 0) = Len(c)
    BY InSeq DEF Larger
  <1>. HIDE DEF d
  <1>3. /\ IsSequence(r) /\ Len(r) = Len(c)
        /\ \A p \in 1..Len(c) : r[p] = IF o < p /\ p <= o + 0 THEN d[p - o]
                                       ELSE IF p <= Len(c) THEN c[p] ELSE 0
    BY <1>1, <1>2, OverwrittenIs
  <1>4. \A p \in 1..Len(c) : ~ (o < p /\ p <= o + 0) /\ p <= Len(c)
    BY <1>2
  <1>. HIDE DEF r
  <1>5. r = c
    BY <1>3, <1>4, SameSequence
  <1>. QED BY <1>5 DEF r, d

\* Zeros behind the last byte make a file larger.
LEMMA ZerosBehind ==
    ASSUME NEW c, IsSequence(c), NEW m \in Nat, Len(c) <= m, NEW n \in Nat
    PROVE  Overwritten(Resized(c, m), m, [k \in 1..n |-> 0]) = Resized(c, m + n)
  <1>. DEFINE d == [k \in 1..n |-> 0]
              r == Resized(c, m)
              q == Resized(c, m + n)
              z == Overwritten(r, m, d)
  <1>1. IsSequence(d) /\ Len(d) = n /\ \A k \in 1..n : d[k] = 0
    <2>1. d = [k \in 1..n |-> d[k]] /\ \A k \in 1..n : d[k] = 0
      OBVIOUS
    <2>. HIDE DEF d
    <2>. QED BY <2>1, OnInterval
  <1>2. Len(c) \in Nat /\ m + n \in Nat /\ Larger(m, m + n) = m + n
    BY InSeq DEF Larger
  <1>. HIDE DEF d
  <1>3. /\ IsSequence(r) /\ Len(r) = m
        /\ \A p \in 1..m : r[p] = IF p <= Len(c) THEN c[p] ELSE 0
    BY ResizedIs
  <1>4. /\ IsSequence(q) /\ Len(q) = m + n
        /\ \A p \in 1..(m + n) : q[p] = IF p <= Len(c) THEN c[p] ELSE 0
    BY <1>2, ResizedIs
  <1>0. z = Overwritten(r, m, d)
    OBVIOUS
  <1>. HIDE DEF r, q, z
  <1>5. /\ IsSequence(z) /\ Len(z) = m + n
        /\ \A p \in 1..(m + n) : z[p] = IF m < p /\ p <= m + n THEN d[p - m]
                                        ELSE IF p <= m THEN r[p] ELSE 0
    BY <1>0, <1>1, <1>2, <1>3, OverwrittenBy
  <1>6. ASSUME NEW p \in 1..(m + n) PROVE z[p] = q[p]
    <2>1. CASE p <= m
      <3>1. p \in 1..m /\ ~ (m < p)
        BY <2>1
      <3>. QED BY <1>3, <1>4, <1>5, <2>1, <3>1
    <2>2. CASE ~ (p <= m)
      <3>1. p - m \in 1..n /\ m < p /\ p <= m + n /\ ~ (p <= Len(c))
        BY <1>2, <2>2
      <3>. QED BY <1>1, <1>4, <1>5, <3>1
    <2>. QED BY <2>1, <2>2
  <1>7. z = q
    BY <1>4, <1>5, <1>6, SameSequence
  <1>. QED BY <1>7 DEF z, q, r, d

-----------------------------------------------------------------------------
(* Rows that write and truncate                                              *)

Inode == Files \cup Dirs \cup {NoInode}

IsSnapshot(fs) ==
    /\ fs = [entries |-> fs.entries, content |-> fs.content,
             place |-> fs.place, raised |-> fs.raised]
    /\ fs.entries \in [Paths -> Inode]
    /\ fs.content = [f \in Files |-> fs.content[f]]
    /\ \A f \in Files : IsSequence(fs.content[f])
    /\ fs.place \in [Dirs -> {"unknown", "inodes", "linked"}]
    /\ fs.raised = FALSE

\* The snapshot with other bytes in one file.
With(fs, f, bytes) ==
    [entries |-> fs.entries, content |-> [fs.content EXCEPT ![f] = bytes],
     place |-> fs.place, raised |-> fs.raised]

LEMMA WithIs ==
    ASSUME NEW fs, IsSnapshot(fs), NEW f \in Files, NEW a, IsSequence(a)
    PROVE  /\ IsSnapshot(With(fs, f, a))
           /\ With(fs, f, a).entries = fs.entries
           /\ With(fs, f, a).place = fs.place
           /\ With(fs, f, a).content[f] = a
           /\ \A g \in Files : g # f => With(fs, f, a).content[g] = fs.content[g]
           /\ \A b : With(With(fs, f, a), f, b) = With(fs, f, b)
  <1>. DEFINE w == With(fs, f, a)
  <1>1. /\ w.entries = fs.entries /\ w.place = fs.place /\ w.raised = fs.raised
        /\ w.content = [fs.content EXCEPT ![f] = a]
        /\ w = [entries |-> w.entries, content |-> w.content,
                place |-> w.place, raised |-> w.raised]
    BY DEF With
  <1>. HIDE DEF w
  <1>2. w.content[f] = a /\ \A g \in Files : g # f => w.content[g] = fs.content[g]
    BY <1>1 DEF IsSnapshot
  <1>3. w.content = [g \in Files |-> w.content[g]]
    BY <1>1 DEF IsSnapshot
  <1>4. IsSnapshot(w)
    BY <1>1, <1>2, <1>3 DEF IsSnapshot
  <1>5. ASSUME NEW b PROVE With(w, f, b) = With(fs, f, b)
    <2>1. [w.content EXCEPT ![f] = b] = [fs.content EXCEPT ![f] = b]
      BY <1>1 DEF IsSnapshot
    <2>. QED BY <1>1, <2>1 DEF With
  <1>. QED BY <1>1, <1>2, <1>4, <1>5 DEF w

LEMMA WithSame ==
    ASSUME NEW fs, IsSnapshot(fs), NEW f \in Files
    PROVE  With(fs, f, fs.content[f]) = fs
  <1>1. [fs.content EXCEPT ![f] = fs.content[f]] = fs.content
    BY DEF IsSnapshot
  <1>. QED BY <1>1 DEF With, IsSnapshot

LEMMA TruncateIs ==
    ASSUME NEW fs, IsSnapshot(fs), NEW f \in Files, NEW n
    PROVE  ReplayRow(fs, TruncateRow(f, n)) = With(fs, f, Resized(fs.content[f], n))
  <1>. DEFINE row == TruncateRow(f, n)
  <1>1. row.op = "truncate" /\ row.inode = f /\ row.final_size = n
    BY DEF TruncateRow
  <1>. HIDE DEF row
  <1>2. ReplayRow(fs, row) = Truncate(fs, row)
    BY <1>1 DEF ReplayRow, IsSnapshot
  <1>3. Truncate(fs, row) = With(fs, f, Resized(fs.content[f], n))
    BY <1>1 DEF Truncate, With, IsSnapshot
  <1>. QED BY <1>2, <1>3 DEF row

\* What a row writes.
DataOf(row) ==
    [k \in 1..row.count |->
        CASE row.special_write = "ZEROS"   -> 0
          [] row.special_write = "GARBAGE" -> Garbage
          [] row.special_write = "None"    -> row.dump_offset + k - 1]

LEMMA WriteIs ==
    ASSUME NEW fs, IsSnapshot(fs), NEW row, row.op = "write", row.inode \in Files
    PROVE  ReplayRow(fs, row)
               = With(fs, row.inode, Overwritten(fs.content[row.inode], row.offset, DataOf(row)))
  <1>1. ReplayRow(fs, row) = Write(fs, row)
    BY DEF ReplayRow, IsSnapshot
  <1>2. Write(fs, row) = [fs EXCEPT !.content[row.inode]
                             = Overwritten(@, row.offset, DataOf(row))]
    BY DEF Write, DataOf
  <1>3. @ = With(fs, row.inode, Overwritten(fs.content[row.inode], row.offset, DataOf(row)))
    BY DEF With, IsSnapshot
  <1>. QED BY <1>1, <1>2, <1>3

\* The three kinds of rows that write.
LEMMA SpecialIs ==
    ASSUME NEW fs, IsSnapshot(fs), NEW f \in Files,
           NEW start \in Nat, NEW count \in Nat, NEW special \in {"ZEROS", "GARBAGE"}
    PROVE  \E d : /\ IsSequence(d) /\ Len(d) = count
                  /\ special = "ZEROS" => d = [k \in 1..count |-> 0]
                  /\ ReplayRow(fs, SpecialWrite(f, [start |-> start, count |-> count], special))
                         = With(fs, f, Overwritten(fs.content[f], start, d))
  <1>. DEFINE row == SpecialWrite(f, [start |-> start, count |-> count], special)
              d == DataOf(row)
  <1>1. /\ row.op = "write" /\ row.inode = f /\ row.offset = start /\ row.count = count
        /\ row.special_write = special
    BY DEF SpecialWrite
  <1>. HIDE DEF row
  <1>2. d = [k \in 1..count |-> d[k]]
    BY <1>1 DEF DataOf
  <1>3. special = "ZEROS" => d = [k \in 1..count |-> 0]
    BY <1>1 DEF DataOf
  <1>4. ReplayRow(fs, row) = With(fs, f, Overwritten(fs.content[f], start, d))
    BY <1>1, WriteIs
  <1>. HIDE DEF d
  <1>5. IsSequence(d) /\ Len(d) = count
    BY <1>2, OnInterval
  <1>. QED BY <1>3, <1>4, <1>5 DEF row

LEMMA DataWriteIs ==
    ASSUME NEW fs, IsSnapshot(fs), NEW call, call.inode \in Files,
           NEW start \in Nat, NEW count \in Nat
    PROVE  ReplayRow(fs, DataWrite(call, [start |-> start, count |-> count]))
               = With(fs, call.inode,
                      Overwritten(fs.content[call.inode], start,
                                  Dumped(call.dump_offset + (start - call.offset), count)))
  <1>. DEFINE row == DataWrite(call, [start |-> start, count |-> count])
  <1>1. /\ row.op = "write" /\ row.inode = call.inode /\ row.offset = start
        /\ row.count = count /\ row.special_write = "None"
        /\ row.dump_offset = call.dump_offset + (start - call.offset)
    BY DEF DataWrite
  <1>. HIDE DEF row
  <1>2. DataOf(row) = Dumped(call.dump_offset + (start - call.offset), count)
    BY <1>1 DEF DataOf, Dumped
  <1>3. ReplayRow(fs, row) = With(fs, row.inode,
                                  Overwritten(fs.content[row.inode], row.offset, DataOf(row)))
    BY <1>1, WriteIs
  <1>. QED BY <1>1, <1>2, <1>3 DEF row

LEMMA ReplayTwo ==
    ASSUME NEW fs, NEW r, NEW s
    PROVE  ReplayRows(fs, <<r, s>>) = ReplayRow(ReplayRow(fs, r), s)
  <1>. DEFINE list == <<r, s>>
              at == [k \in 0..2 |-> IF k = 0 THEN fs
                                    ELSE IF k = 1 THEN ReplayRow(fs, r)
                                    ELSE ReplayRow(ReplayRow(fs, r), s)]
  <1>1. IsSequence(list) /\ Len(list) = 2 /\ list[1] = r /\ list[2] = s
    BY DEF IsSequence
  <1>2. at[0] = fs /\ at[1] = ReplayRow(fs, r) /\ at[2] = ReplayRow(at[1], s)
    OBVIOUS
  <1>. HIDE DEF at, list
  <1>3. \A k \in 1..Len(list) : ReplayRow(at[k - 1], list[k]) = at[k]
    <2>1. \A k \in 1..Len(list) : (k = 1 /\ k - 1 = 0) \/ (k = 2 /\ k - 1 = 1)
      BY <1>1
    <2>. QED BY <1>1, <1>2, <2>1
  <1>4. ReplayRows(at[0], list) = at[Len(list)]
    BY <1>1, <1>3, ReplayAlong
  <1>. QED BY <1>1, <1>2, <1>4 DEF list

LEMMA ReplayThree ==
    ASSUME NEW fs, NEW r, NEW s, NEW t
    PROVE  ReplayRows(fs, <<r, s, t>>) = ReplayRow(ReplayRow(ReplayRow(fs, r), s), t)
  <1>1. <<r, s, t>> = <<r, s>> \o <<t>>
    OBVIOUS
  <1>2. IsSequence(<<r, s>>) /\ IsSequence(<<t>>)
    BY DEF IsSequence
  <1>3. ReplayRows(fs, <<r, s>> \o <<t>>) = ReplayRows(ReplayRows(fs, <<r, s>>), <<t>>)
    BY <1>2, ReplayBoth
  <1>. DEFINE two == ReplayRows(fs, <<r, s>>)
  <1>4. two = ReplayRow(ReplayRow(fs, r), s)
    BY ReplayTwo
  <1>5. ReplayRows(two, <<t>>) = ReplayRow(two, t)
    <2>. HIDE DEF two
    <2>. QED BY ReplayOne
  <1>. QED BY <1>1, <1>3, <1>4, <1>5

\* Garbage and then zeros over the same bytes.
LEMMA GrowGroup ==
    ASSUME NEW fs, IsSnapshot(fs), NEW f \in Files, NEW start \in Nat, NEW count \in Nat,
           NEW slice, slice = [start |-> start, count |-> count]
    PROVE  ReplayRows(fs, <<SpecialWrite(f, slice, "GARBAGE"), SpecialWrite(f, slice, "ZEROS")>>)
               = With(fs, f, Overwritten(fs.content[f], start, [k \in 1..count |-> 0]))
  <1>. DEFINE r == SpecialWrite(f, slice, "GARBAGE")
              s == SpecialWrite(f, slice, "ZEROS")
              c == fs.content[f]
  <1>1. PICK d : /\ IsSequence(d) /\ Len(d) = count
                 /\ ReplayRow(fs, r) = With(fs, f, Overwritten(c, start, d))
    BY SpecialIs
  <1>. DEFINE c1 == Overwritten(c, start, d)
              fs1 == With(fs, f, c1)
  <1>2. IsSequence(c) /\ IsSequence(c1)
    BY <1>1, OverwrittenIs DEF IsSnapshot
  <1>3. /\ IsSnapshot(fs1) /\ fs1.content[f] = c1
        /\ \A b : With(fs1, f, b) = With(fs, f, b)
    <2>. HIDE DEF c1
    <2>. QED BY <1>2, WithIs
  <1>. HIDE DEF fs1
  <1>4. PICK e : /\ IsSequence(e) /\ Len(e) = count /\ e = [k \in 1..count |-> 0]
                 /\ ReplayRow(fs1, s) = With(fs1, f, Overwritten(fs1.content[f], start, e))
    <2>. HIDE DEF c1
    <2>. QED BY <1>3, SpecialIs
  <1>5. Overwritten(c1, start, e) = Overwritten(c, start, e)
    <2>. HIDE DEF c
    <2>. QED BY <1>1, <1>2, <1>4, OverwrittenTwice
  <1>6. ReplayRow(ReplayRow(fs, r), s) = With(fs, f, Overwritten(c, start, e))
    <2>. HIDE DEF r, s, c
    <2>. QED BY <1>1, <1>3, <1>4, <1>5 DEF fs1
  <1>. HIDE DEF r, s
  <1>7. ReplayRows(fs, <<r, s>>) = With(fs, f, Overwritten(c, start, e))
    BY <1>6, ReplayTwo
  <1>. QED BY <1>4, <1>7 DEF r, s

\* Zeros, garbage and then the data over the same bytes.
LEMMA AppendGroup ==
    ASSUME NEW fs, IsSnapshot(fs), NEW call, call.inode \in Files,
           NEW start \in Nat, NEW count \in Nat,
           NEW slice, slice = [start |-> start, count |-> count]
    PROVE  ReplayRows(fs, <<SpecialWrite(call.inode, slice, "ZEROS"),
                            SpecialWrite(call.inode, slice, "GARBAGE"),
                            DataWrite(call, slice)>>)
               = With(fs, call.inode,
                      Overwritten(fs.content[call.inode], start,
                                  Dumped(call.dump_offset + (start - call.offset), count)))
  <1>. DEFINE f == call.inode
              r == SpecialWrite(f, slice, "ZEROS")
              s == SpecialWrite(f, slice, "GARBAGE")
              t == DataWrite(call, slice)
              c == fs.content[f]
              data == Dumped(call.dump_offset + (start - call.offset), count)
  <1>0. f \in Files
    OBVIOUS
  <1>. HIDE DEF f
  <1>1. PICK d : /\ IsSequence(d) /\ Len(d) = count
                 /\ ReplayRow(fs, r) = With(fs, f, Overwritten(c, start, d))
    BY <1>0, SpecialIs
  <1>. DEFINE c1 == Overwritten(c, start, d)
              fs1 == With(fs, f, c1)
  <1>2. IsSequence(c) /\ IsSequence(c1)
    BY <1>0, <1>1, OverwrittenIs DEF IsSnapshot
  <1>3. /\ IsSnapshot(fs1) /\ fs1.content[f] = c1
        /\ \A b : With(fs1, f, b) = With(fs, f, b)
    <2>. HIDE DEF c1
    <2>. QED BY <1>0, <1>2, WithIs
  <1>. HIDE DEF fs1
  <1>4. PICK e : /\ IsSequence(e) /\ Len(e) = count
                 /\ ReplayRow(fs1, s) = With(fs1, f, Overwritten(fs1.content[f], start, e))
    <2>. HIDE DEF c1
    <2>. QED BY <1>0, <1>3, SpecialIs
  <1>. DEFINE c2 == Overwritten(c, start, e)
              fs2 == With(fs, f, c2)
  <1>5. Overwritten(c1, start, e) = c2 /\ IsSequence(c2)
    <2>. HIDE DEF c
    <2>1. Overwritten(Overwritten(c, start, d), start, e) = Overwritten(c, start, e)
      BY <1>1, <1>2, <1>4, OverwrittenTwice
    <2>2. IsSequence(Overwritten(c, start, e))
      BY <1>2, <1>4, OverwrittenIs
    <2>. QED BY <2>1, <2>2
  <1>6. ReplayRow(fs1, s) = fs2
    <2>. HIDE DEF c1, c2
    <2>. QED BY <1>3, <1>4, <1>5
  <1>7. /\ IsSnapshot(fs2) /\ fs2.content[f] = c2
        /\ \A b : With(fs2, f, b) = With(fs, f, b)
    <2>. HIDE DEF c2
    <2>. QED BY <1>0, <1>5, WithIs
  <1>. HIDE DEF fs2
  <1>8. ReplayRow(fs2, t) = With(fs2, f, Overwritten(fs2.content[f], start, data))
    <2>. HIDE DEF c2
    <2>. QED BY <1>0, <1>7, DataWriteIs DEF f
  <1>9. IsSequence(data) /\ Len(data) = count
    BY DumpedIs
  <1>10. Overwritten(c2, start, data) = Overwritten(c, start, data)
    <2>. HIDE DEF c, data
    <2>. QED BY <1>2, <1>4, <1>9, OverwrittenTwice
  <1>11. ReplayRow(ReplayRow(ReplayRow(fs, r), s), t) = With(fs, f, Overwritten(c, start, data))
    <2>. HIDE DEF r, s, t, c, data, c2
    <2>. QED BY <1>1, <1>6, <1>7, <1>8, <1>10 DEF fs1
  <1>. HIDE DEF r, s, t
  <1>12. ReplayRows(fs, <<r, s, t>>) = With(fs, f, Overwritten(c, start, data))
    BY <1>11, ReplayThree
  <1>. QED BY <1>12 DEF f, r, s, t

\* truncate: the rows of a line make the file as large as the line says.
LEMMA TruncReplays ==
    ASSUME NEW how, how.splits \in Nat \ {0}, NEW fs, IsSnapshot(fs),
           NEW f \in Files, NEW n \in Nat
    PROVE  ReplayRows(fs, trunc_disk_ops(f, Len(fs.content[f]), n, how))
               = With(fs, f, Resized(fs.content[f], n))
  <1>. DEFINE c == fs.content[f]
              L == Len(c)
  <1>1. IsSequence(c) /\ L \in Nat /\ Resized(c, L) = c
    <2>1. IsSequence(c)
      BY DEF IsSnapshot
    <2>. HIDE DEF c
    <2>. QED BY <2>1, InSeq, ResizedSame
  <1>2. With(fs, f, Resized(c, L)) = fs
    BY <1>1, WithSame
  <1>3. ASSUME NEW m \in Nat
        PROVE  /\ IsSequence(Resized(c, m))
               /\ IsSnapshot(With(fs, f, Resized(c, m)))
               /\ With(fs, f, Resized(c, m)).content[f] = Resized(c, m)
               /\ \A b : With(With(fs, f, Resized(c, m)), f, b) = With(fs, f, b)
    <2>1. IsSequence(Resized(c, m))
      <3>. HIDE DEF c
      <3>. QED BY <1>1, ResizedIs
    <2>. QED BY <2>1, WithIs
  <1>4. CASE n <= L
    <2>. DEFINE slices == Slices(how, n, L - n)
                N == Len(slices)
                list == [k \in DOMAIN slices |-> TruncateRow(f, slices[k].start)]
                back == Reverse(list)
    <2>1. L - n \in Nat /\ n + (L - n) = L
      BY <1>1, <1>4
    <2>2. CutUp(slices, n, L)
      <3>. HIDE DEF L
      <3>. QED BY <2>1, SlicesAreCuts
    <2>3. trunc_disk_ops(f, L, n, how) = back
      BY <1>4 DEF trunc_disk_ops, ShrinkRows
    <2>. HIDE DEF slices, L, c
    <2>4. PICK cut : CutsOf(slices, n, L, cut)
      BY <2>2 DEF CutUp
    <2>5. DOMAIN slices = 1..N /\ N \in Nat
      BY <2>2, InSeq DEF CutUp
    <2>6. list = [k \in 1..N |-> list[k]]
          /\ \A k \in 1..N : list[k] = TruncateRow(f, cut[k - 1])
      BY <2>4, <2>5 DEF CutsOf
    <2>. HIDE DEF list
    <2>7. Len(list) = N
      BY <2>5, <2>6, OnInterval
    <2>8. back = [k \in 1..N |-> back[k]]
          /\ \A k \in 1..N : back[k] = TruncateRow(f, cut[N - k])
      <3>1. \A k \in 1..N : (N - k) + 1 \in 1..N /\ ((N - k) + 1) - 1 = N - k
        BY <2>5
      <3>2. back = [k \in 1..N |-> list[(N - k) + 1]]
        BY <2>7 DEF Reverse
      <3>. HIDE DEF back
      <3>. QED BY <2>6, <3>1, <3>2
    <2>. HIDE DEF back
    <2>9. IsSequence(back) /\ Len(back) = N
      BY <2>5, <2>8, OnInterval
    <2>. DEFINE at == [k \in 0..N |-> With(fs, f, Resized(c, cut[N - k]))]
    <2>10. \A k \in 0..N : N - k \in 0..N /\ at[k] = With(fs, f, Resized(c, cut[N - k]))
      BY <2>5
    <2>11. at[0] = fs
      BY <1>2, <2>4, <2>5, <2>10 DEF CutsOf
    <2>12. at[N] = With(fs, f, Resized(c, n))
      BY <2>4, <2>5, <2>10 DEF CutsOf
    <2>. HIDE DEF at, N
    <2>13. ASSUME NEW k \in 1..Len(back) PROVE ReplayRow(at[k - 1], back[k]) = at[k]
      <3>. DEFINE m == cut[N - (k - 1)]
                  l == cut[N - k]
                  r == Resized(c, m)
      <3>1. k \in 1..N /\ k \in 0..N /\ k - 1 \in 0..N /\ N - k \in 0..N /\ N - (k - 1) \in 1..N
            /\ (N - (k - 1)) - 1 = N - k
        BY <2>5, <2>9
      <3>2. m \in Nat /\ l \in Nat /\ l <= m
        <4>. DEFINE j == N - (k - 1)
        <4>0. j \in 1..N /\ j \in 0..N /\ j - 1 \in 0..N /\ j - 1 = N - k
          BY <2>5, <3>1
        <4>2. cut[j] \in Nat /\ cut[j - 1] \in Nat /\ cut[j - 1] < cut[j]
          <5>. HIDE DEF j
          <5>. QED BY <2>4, <4>0 DEF CutsOf, N
        <4>1. m \in Nat /\ l \in Nat /\ l < m
          BY <4>0, <4>2
        <4>. HIDE DEF m, l
        <4>. QED BY <4>1
      <3>3. at[k - 1] = With(fs, f, r) /\ at[k] = With(fs, f, Resized(c, l))
            /\ back[k] = TruncateRow(f, l)
        BY <2>8, <2>10, <3>1
      <3>. HIDE DEF m, l
      <3>4. /\ IsSnapshot(With(fs, f, r)) /\ With(fs, f, r).content[f] = r
            /\ \A b : With(With(fs, f, r), f, b) = With(fs, f, b)
        BY <1>3, <3>2
      <3>5. Resized(r, l) = Resized(c, l)
        BY <1>1, <3>2, ResizedTwice
      <3>. HIDE DEF r
      <3>6. ReplayRow(With(fs, f, r), TruncateRow(f, l))
               = With(With(fs, f, r), f, Resized(r, l))
        BY <3>4, TruncateIs
      <3>. QED BY <3>3, <3>4, <3>5, <3>6
    <2>14. ReplayRows(at[0], back) = at[N]
      BY <2>9, <2>13, ReplayAlong
    <2>. QED BY <2>3, <2>11, <2>12, <2>14 DEF L, c
  <1>5. CASE ~ (n <= L)
    <2>. DEFINE slices == Slices(how, L, n - L)
                N == Len(slices)
                pair(k) == <<SpecialWrite(f, slices[k], "GARBAGE"),
                             SpecialWrite(f, slices[k], "ZEROS")>>
                list == [k \in DOMAIN slices |-> pair(k)]
    <2>1. n - L \in Nat /\ L + (n - L) = n
      BY <1>1, <1>5
    <2>2. CutUp(slices, L, n)
      <3>. HIDE DEF L
      <3>. QED BY <1>1, <2>1, SlicesAreCuts
    <2>3. trunc_disk_ops(f, L, n, how) = FlattenSeq(list)
      BY <1>5 DEF trunc_disk_ops, GrowRows
    <2>. HIDE DEF slices, L, c
    <2>4. PICK cut : CutsOf(slices, L, n, cut)
      BY <2>2 DEF CutUp
    <2>5. DOMAIN slices = 1..N /\ N \in Nat
      BY <2>2, InSeq DEF CutUp
    <2>6. \A k \in 1..N : IsSequence(pair(k))
      BY DEF IsSequence
    <2>. HIDE DEF pair
    <2>7. list = [k \in 1..N |-> list[k]] /\ \A k \in 1..N : list[k] = pair(k)
      BY <2>5
    <2>. HIDE DEF list
    <2>8. AllSequences(list) /\ Len(list) = N
      <3>1. IsSequence(list) /\ Len(list) = N
        BY <2>5, <2>7, OnInterval
      <3>. QED BY <2>6, <2>7, <3>1 DEF AllSequences
    <2>. DEFINE at == [k \in 0..N |-> With(fs, f, Resized(c, cut[k]))]
    <2>9. \A k \in 0..N : at[k] = With(fs, f, Resized(c, cut[k]))
      OBVIOUS
    <2>10. at[0] = fs
      BY <1>2, <2>4, <2>5, <2>9 DEF CutsOf
    <2>11. at[N] = With(fs, f, Resized(c, n))
      BY <2>4, <2>5, <2>9 DEF CutsOf
    <2>. HIDE DEF at, N
    <2>12. ASSUME NEW k \in 1..Len(list) PROVE ReplayRows(at[k - 1], list[k]) = at[k]
      <3>. DEFINE m == cut[k - 1]
                  l == cut[k]
                  r == Resized(c, m)
                  w == With(fs, f, r)
      <3>1. k \in 1..N /\ k \in 0..N /\ k - 1 \in 0..N
        BY <2>5, <2>8
      <3>2. m \in Nat /\ l \in Nat /\ l - m \in Nat /\ m + (l - m) = l /\ L <= m
            /\ slices[k] = [start |-> m, count |-> l - m]
        <4>1. /\ m \in Nat /\ l \in Nat /\ m < l /\ L <= m
              /\ slices[k] = [start |-> m, count |-> l - m]
          BY <2>4, <3>1 DEF CutsOf, N
        <4>. HIDE DEF m, l
        <4>. QED BY <4>1
      <3>3. at[k - 1] = w /\ at[k] = With(fs, f, Resized(c, l)) /\ list[k] = pair(k)
        BY <2>7, <2>9, <3>1
      <3>. HIDE DEF m, l
      <3>4. /\ IsSnapshot(w) /\ w.content[f] = r
            /\ \A b : With(w, f, b) = With(fs, f, b)
        BY <1>3, <3>2
      <3>5. Overwritten(r, m, [i \in 1..(l - m) |-> 0]) = Resized(c, l)
        <4>1. Overwritten(Resized(c, m), m, [i \in 1..(l - m) |-> 0]) = Resized(c, m + (l - m))
          BY <1>1, <3>2, ZerosBehind DEF L
        <4>. QED BY <3>2, <4>1
      <3>. HIDE DEF r, w
      <3>6. ReplayRows(w, pair(k))
               = With(w, f, Overwritten(w.content[f], m, [i \in 1..(l - m) |-> 0]))
        BY <3>2, <3>4, GrowGroup DEF pair
      <3>. QED BY <3>3, <3>4, <3>5, <3>6
    <2>13. ReplayRows(at[0], FlattenSeq(list)) = at[N]
      BY <2>8, <2>12, ReplayGroups
    <2>. QED BY <2>3, <2>10, <2>11, <2>13 DEF L, c
  <1>. QED BY <1>4, <1>5 DEF c, L

\* The snapshots with ever more of a line's data, slice by slice.
GrowingData(fs, call, slices, at) ==
    /\ at[0] = fs
    /\ at[Len(slices)] = With(fs, call.inode,
                             Overwritten(fs.content[call.inode], call.offset,
                                         Dumped(call.dump_offset, call.count)))
    /\ \A k \in 1..Len(slices) : \E start, count \in Nat :
          /\ slices[k] = [start |-> start, count |-> count]
          /\ IsSnapshot(at[k - 1])
          /\ With(at[k - 1], call.inode,
                  Overwritten(at[k - 1].content[call.inode], start,
                              Dumped(call.dump_offset + (start - call.offset), count)))
                = at[k]

LEMMA DataUpTo ==
    ASSUME NEW fs, IsSnapshot(fs), NEW call \in WriteLine,
           call.offset <= Len(fs.content[call.inode]),
           NEW slices, CutUp(slices, call.offset, call.offset + call.count)
    PROVE  \E at : GrowingData(fs, call, slices, at)
  <1>. DEFINE f == call.inode
              c == fs.content[f]
              o == call.offset
              b == call.dump_offset
              N == Len(slices)
  <1>1. /\ f \in Files /\ o \in Nat /\ b \in Nat /\ call.count \in Nat
        /\ IsSequence(c) /\ o <= Len(c)
    BY DEF WriteLine, IsSnapshot
  <1>2. PICK cut : CutsOf(slices, o, o + call.count, cut)
    BY DEF CutUp
  <1>3. N \in Nat
    BY InSeq DEF CutUp
  <1>. DEFINE upto(m) == Overwritten(c, o, Dumped(b, m - o))
              at == [k \in 0..N |-> With(fs, f, upto(cut[k]))]
  <1>4. With(fs, f, c) = fs
    BY <1>1, WithSame
  <1>5. With(fs, f, upto(o + call.count))
            = With(fs, f, Overwritten(c, o, Dumped(b, call.count)))
    <2>1. (o + call.count) - o = call.count
      BY <1>1
    <2>. QED BY <2>1
  <1>6. upto(o) = c
    <2>1. o - o = 0
      BY <1>1
    <2>. HIDE DEF c, b, o
    <2>2. Overwritten(c, o, Dumped(b, 0)) = c
      BY <1>1, OverwrittenByNone
    <2>. QED BY <2>1, <2>2
  <1>7. ASSUME NEW m \in Nat, o <= m
        PROVE  /\ IsSequence(upto(m))
               /\ IsSnapshot(With(fs, f, upto(m)))
               /\ With(fs, f, upto(m)).content[f] = upto(m)
               /\ \A d : With(With(fs, f, upto(m)), f, d) = With(fs, f, d)
    <2>1. m - o \in Nat
      BY <1>1, <1>7
    <2>2. IsSequence(Dumped(b, m - o))
      BY <2>1, DumpedIs
    <2>3. IsSequence(upto(m))
      <3>. HIDE DEF c, o, b
      <3>. QED BY <1>1, <2>2, OverwrittenIs
    <2>. HIDE DEF upto, f
    <2>. QED BY <1>1, <2>3, WithIs
  <1>8. ASSUME NEW m \in Nat, NEW l \in Nat, o <= m, m < l
        PROVE  Overwritten(upto(m), m, Dumped(b + (m - o), l - m)) = upto(l)
    <2>. HIDE DEF c, b, o
    <2>3. o \in Nat /\ b \in Nat
      BY <1>1
    <2>1. /\ m - o \in Nat /\ l - m \in Nat /\ b \in Int
          /\ o + (m - o) = m /\ (m - o) + (l - m) = l - o
      BY <1>8, <2>3
    <2>2. Overwritten(Overwritten(c, o, Dumped(b, m - o)), o + (m - o),
                      Dumped(b + (m - o), l - m))
             = Overwritten(c, o, Dumped(b, (m - o) + (l - m)))
      BY <1>1, <2>1, OverwrittenNext
    <2>. QED BY <2>1, <2>2
  <1>. HIDE DEF upto
  <1>9. \A k \in 0..N : at[k] = With(fs, f, upto(cut[k]))
    OBVIOUS
  <1>10. at[0] = fs /\ at[N] = With(fs, f, upto(o + call.count))
    BY <1>2, <1>3, <1>4, <1>6, <1>9 DEF CutsOf
  <1>. HIDE DEF at
  <1>11. ASSUME NEW k \in 1..N
         PROVE  \E start, count \in Nat :
                    /\ slices[k] = [start |-> start, count |-> count]
                    /\ IsSnapshot(at[k - 1])
                    /\ With(at[k - 1], f, Overwritten(at[k - 1].content[f], start,
                                                      Dumped(b + (start - o), count)))
                          = at[k]
    <2>. DEFINE m == cut[k - 1]
                l == cut[k]
    <2>1. k \in 0..N /\ k - 1 \in 0..N
      BY <1>3
    <2>2. /\ m \in Nat /\ l \in Nat /\ o <= m /\ m < l
          /\ slices[k] = [start |-> m, count |-> l - m]
      BY <1>2, <2>1 DEF CutsOf
    <2>3. at[k - 1] = With(fs, f, upto(m)) /\ at[k] = With(fs, f, upto(l))
      BY <1>9, <2>1
    <2>. HIDE DEF m, l
    <2>4. l - m \in Nat
      BY <2>2
    <2>. HIDE DEF f, o, b
    <2>5. /\ IsSnapshot(at[k - 1]) /\ at[k - 1].content[f] = upto(m)
          /\ \A d : With(at[k - 1], f, d) = With(fs, f, d)
      BY <1>7, <2>2, <2>3
    <2>6. With(at[k - 1], f, Overwritten(at[k - 1].content[f], m, Dumped(b + (m - o), l - m)))
             = at[k]
      BY <1>8, <2>2, <2>3, <2>5
    <2>. QED BY <2>2, <2>4, <2>5, <2>6
  <1>. QED BY <1>5, <1>10, <1>11 DEF GrowingData

\* write and append: however often they are made, the rows of a line put its
\* data at its offset.
LEMMA WriteReplays ==
    ASSUME NEW how, how.splits \in Nat \ {0}, NEW fs, IsSnapshot(fs),
           NEW call \in WriteLine, call.offset <= Len(fs.content[call.inode])
    PROVE  LET slices == Slices(how, call.offset, call.count)
               after == With(fs, call.inode,
                             Overwritten(fs.content[call.inode], call.offset,
                                         Dumped(call.dump_offset, call.count)))
           IN  /\ ReplayRows(fs, append_disk_ops(call, how)) = after
               /\ ReplayRows(fs, [k \in DOMAIN slices |-> DataWrite(call, slices[k])]) = after
  <1>. DEFINE slices == Slices(how, call.offset, call.count)
              after == With(fs, call.inode,
                            Overwritten(fs.content[call.inode], call.offset,
                                        Dumped(call.dump_offset, call.count)))
              three(k) == <<SpecialWrite(call.inode, slices[k], "ZEROS"),
                            SpecialWrite(call.inode, slices[k], "GARBAGE"),
                            DataWrite(call, slices[k])>>
              each == [k \in DOMAIN slices |-> three(k)]
              data == [k \in DOMAIN slices |-> DataWrite(call, slices[k])]
              N == Len(slices)
  <1>1. call.inode \in Files /\ call.offset \in Nat /\ call.count \in Nat
    BY DEF WriteLine
  <1>2. CutUp(slices, call.offset, call.offset + call.count)
    BY <1>1, SlicesAreCuts
  <1>3. append_disk_ops(call, how) = FlattenSeq(each)
    BY DEF append_disk_ops
  <1>. HIDE DEF slices
  <1>4. PICK at : GrowingData(fs, call, slices, at)
    BY <1>2, DataUpTo
  <1>0. at[0] = fs /\ at[N] = after
    BY <1>4 DEF GrowingData
  <1>. HIDE DEF after
  <1>5. DOMAIN slices = 1..N /\ N \in Nat
    BY <1>2, InSeq DEF CutUp
  <1>6. ASSUME NEW k \in 1..N
        PROVE  /\ ReplayRows(at[k - 1], three(k)) = at[k]
               /\ ReplayRow(at[k - 1], DataWrite(call, slices[k])) = at[k]
    <2>1. PICK start \in Nat, count \in Nat :
                 /\ slices[k] = [start |-> start, count |-> count]
                 /\ IsSnapshot(at[k - 1])
                 /\ With(at[k - 1], call.inode,
                         Overwritten(at[k - 1].content[call.inode], start,
                             Dumped(call.dump_offset + (start - call.offset), count)))
                       = at[k]
      BY <1>4 DEF GrowingData
    <2>2. ReplayRows(at[k - 1], three(k)) = at[k]
      BY <1>1, <2>1, AppendGroup
    <2>3. ReplayRow(at[k - 1], DataWrite(call, slices[k])) = at[k]
      BY <1>1, <2>1, DataWriteIs
    <2>. QED BY <2>2, <2>3
  <1>7. \A k \in 1..N : IsSequence(three(k))
    BY DEF IsSequence
  <1>. HIDE DEF three
  <1>8. /\ each = [k \in 1..N |-> each[k]] /\ \A k \in 1..N : each[k] = three(k)
        /\ data = [k \in 1..N |-> data[k]]
        /\ \A k \in 1..N : data[k] = DataWrite(call, slices[k])
    BY <1>5
  <1>. HIDE DEF each, data
  <1>9. AllSequences(each) /\ Len(each) = N /\ IsSequence(data) /\ Len(data) = N
    <2>1. IsSequence(each) /\ Len(each) = N /\ IsSequence(data) /\ Len(data) = N
      BY <1>5, <1>8, OnInterval
    <2>. QED BY <1>7, <1>8, <2>1 DEF AllSequences
  <1>10. ReplayRows(at[0], FlattenSeq(each)) = at[N]
    <2>1. \A k \in 1..Len(each) : ReplayRows(at[k - 1], each[k]) = at[k]
      BY <1>6, <1>8, <1>9
    <2>. QED BY <1>9, <2>1, ReplayGroups
  <1>11. ReplayRows(at[0], data) = at[N]
    <2>1. \A k \in 1..Len(data) : ReplayRow(at[k - 1], data[k]) = at[k]
      BY <1>6, <1>8, <1>9
    <2>. QED BY <1>9, <2>1, ReplayAlong
  <1>. QED BY <1>3, <1>10, <1>11, <1>0 DEF after, data, slices

-----------------------------------------------------------------------------
(* Rows that make and delete entries                                         *)

\* The second snapshot has the given entries, the same bytes in all files but
\* the lost ones, and no directory linked that was not.
Follows(fs, s, entries, lost) ==
    /\ IsSnapshot(s)
    /\ s.entries = entries
    /\ \A f \in Files \ lost : s.content[f] = fs.content[f]
    /\ \A d \in Dirs : s.place[d] = "linked" => fs.place[d] = "linked"

LEMMA FollowsOn ==
    ASSUME NEW fs, NEW s, NEW t, NEW e1, NEW e2, NEW l1, NEW l2,
           Follows(fs, s, e1, l1), Follows(s, t, e2, l2)
    PROVE  Follows(fs, t, e2, l1 \cup l2)
  <1>1. IsSnapshot(t) /\ t.entries = e2
    BY DEF Follows
  <1>2. \A f \in Files \ (l1 \cup l2) : t.content[f] = fs.content[f]
    BY DEF Follows
  <1>3. \A d \in Dirs : t.place[d] = "linked" => fs.place[d] = "linked"
    BY DEF Follows
  <1>. QED BY <1>1, <1>2, <1>3 DEF Follows

LEMMA FollowsSame ==
    ASSUME NEW fs, IsSnapshot(fs), NEW lost PROVE Follows(fs, fs, fs.entries, lost)
  BY DEF Follows

LEMMA WithDirectoryIs ==
    ASSUME NEW fs, IsSnapshot(fs), NEW d \in Dirs
    PROVE  LET w == WithDirectory(fs, d) IN
           /\ IsSnapshot(w) /\ w.entries = fs.entries /\ w.content = fs.content
           /\ \A e \in Dirs : w.place[e] = "linked" => fs.place[e] = "linked"
  <1>1. CASE fs.place[d] = "unknown"
    <2>. DEFINE w == [entries |-> fs.entries, content |-> fs.content,
                      place |-> [fs.place EXCEPT ![d] = "inodes"], raised |-> fs.raised]
    <2>1. WithDirectory(fs, d) = w
      BY <1>1 DEF WithDirectory, IsSnapshot
    <2>2. /\ w.entries = fs.entries /\ w.content = fs.content /\ w.raised = fs.raised
          /\ w.place = [fs.place EXCEPT ![d] = "inodes"]
          /\ w = [entries |-> w.entries, content |-> w.content,
                  place |-> w.place, raised |-> w.raised]
      OBVIOUS
    <2>. HIDE DEF w
    <2>3. w.place \in [Dirs -> {"unknown", "inodes", "linked"}]
          /\ \A e \in Dirs : w.place[e] = "linked" => fs.place[e] = "linked"
      BY <2>2 DEF IsSnapshot
    <2>4. IsSnapshot(w)
      BY <2>2, <2>3 DEF IsSnapshot
    <2>. QED BY <2>1, <2>2, <2>3, <2>4
  <1>2. CASE fs.place[d] # "unknown"
    BY <1>2 DEF WithDirectory
  <1>. QED BY <1>1, <1>2

\* The snapshot with another entry.
LEMMA EntryIs ==
    ASSUME NEW fs, IsSnapshot(fs), NEW path \in Paths, NEW inode \in Inode
    PROVE  LET s == [fs EXCEPT !.entries[path] = inode]
           IN  /\ IsSnapshot(s) /\ s.content = fs.content /\ s.place = fs.place
               /\ s.entries = [fs.entries EXCEPT ![path] = inode]
  <1>. DEFINE s == [entries |-> [fs.entries EXCEPT ![path] = inode],
                    content |-> fs.content, place |-> fs.place, raised |-> fs.raised]
  <1>1. [fs EXCEPT !.entries[path] = inode] = s
    BY DEF IsSnapshot
  <1>2. /\ s.content = fs.content /\ s.place = fs.place /\ s.raised = fs.raised
        /\ s.entries = [fs.entries EXCEPT ![path] = inode]
        /\ s = [entries |-> s.entries, content |-> s.content,
                place |-> s.place, raised |-> s.raised]
    OBVIOUS
  <1>. HIDE DEF s
  <1>3. s.entries \in [Paths -> Inode]
    BY <1>2 DEF IsSnapshot
  <1>4. IsSnapshot(s)
    BY <1>2, <1>3 DEF IsSnapshot
  <1>. QED BY <1>1, <1>2, <1>4

LEMMA ParentIsDir == ASSUME NEW path \in Paths PROVE Parent(path) \in Dirs
  BY DEF Paths, Parent

\* An entry of a file is made or deleted.
LEMMA FileEntryIs ==
    ASSUME NEW fs, IsSnapshot(fs), NEW path \in Paths, fs.entries[path] \notin Dirs,
           NEW inode \in Files, NEW lost
    PROVE  /\ Follows(fs, ReplayRow(fs, DirEntryRow("create_dir_entry", path, inode, "file")),
                      [fs.entries EXCEPT ![path] = inode], lost)
           /\ Follows(fs, ReplayRow(fs, DirEntryRow("delete_dir_entry", path, inode, "file")),
                      [fs.entries EXCEPT ![path] = NoInode], lost)
  <1>. DEFINE make == DirEntryRow("create_dir_entry", path, inode, "file")
              delete == DirEntryRow("delete_dir_entry", path, inode, "file")
              w == WithDirectory(fs, Parent(path))
              s == [w EXCEPT !.entries[path] = inode]
              t == [w EXCEPT !.entries[path] = NoInode]
  <1>1. /\ make.op = "create_dir_entry" /\ make.path = path /\ make.inode = inode
        /\ make.entry_type = "file"
        /\ delete.op = "delete_dir_entry" /\ delete.path = path /\ delete.entry_type = "file"
    BY DEF DirEntryRow
  <1>. HIDE DEF make, delete
  <1>2. ReplayRow(fs, make) = s
    <2>1. ReplayRow(fs, make) = CreateFileEntry(fs, make)
      BY <1>1 DEF ReplayRow, IsSnapshot
    <2>. QED BY <1>1, <2>1 DEF CreateFileEntry
  <1>3. ReplayRow(fs, delete) = t
    <2>1. ReplayRow(fs, delete) = DeleteFileEntry(fs, delete)
      BY <1>1 DEF ReplayRow, IsSnapshot
    <2>. QED BY <1>1, <2>1 DEF DeleteFileEntry
  <1>4. /\ IsSnapshot(w) /\ w.entries = fs.entries /\ w.content = fs.content
        /\ \A d \in Dirs : w.place[d] = "linked" => fs.place[d] = "linked"
    BY ParentIsDir, WithDirectoryIs
  <1>. HIDE DEF w
  <1>5. inode \in Inode /\ NoInode \in Inode
    BY DEF Inode
  <1>6. Follows(fs, s, [fs.entries EXCEPT ![path] = inode], lost)
    <2>1. /\ IsSnapshot(s) /\ s.content = w.content /\ s.place = w.place
          /\ s.entries = [w.entries EXCEPT ![path] = inode]
      BY <1>4, <1>5, EntryIs
    <2>. HIDE DEF s
    <2>. QED BY <1>4, <2>1 DEF Follows
  <1>7. Follows(fs, t, [fs.entries EXCEPT ![path] = NoInode], lost)
    <2>1. /\ IsSnapshot(t) /\ t.content = w.content /\ t.place = w.place
          /\ t.entries = [w.entries EXCEPT ![path] = NoInode]
      BY <1>4, <1>5, EntryIs
    <2>. HIDE DEF t
    <2>. QED BY <1>4, <2>1 DEF Follows
  <1>. QED BY <1>2, <1>3, <1>6, <1>7 DEF make, delete

LEMMA LinkReplays ==
    ASSUME NEW fs, IsSnapshot(fs), NEW path \in Paths, fs.entries[path] \notin Dirs,
           NEW inode \in Files, NEW lost
    PROVE  Follows(fs, ReplayRows(fs, link_disk_ops(path, inode, "file")),
                   [fs.entries EXCEPT ![path] = inode], lost)
  <1>. DEFINE row == DirEntryRow("create_dir_entry", path, inode, "file")
  <1>1. Follows(fs, ReplayRow(fs, row), [fs.entries EXCEPT ![path] = inode], lost)
    BY FileEntryIs
  <1>2. link_disk_ops(path, inode, "file") = <<row>>
    BY DEF link_disk_ops
  <1>. HIDE DEF row
  <1>. QED BY <1>1, <1>2, ReplayOne

\* The data of a file goes with its last link, and only then.
LEMMA UnlinkReplays ==
    ASSUME NEW how, how.splits \in Nat \ {0}, NEW fs, IsSnapshot(fs),
           NEW path \in Paths, fs.entries[path] \notin Dirs, NEW inode \in Files,
           NEW hardlinks, NEW size \in Nat,
           hardlinks = 1 => size = Len(fs.content[inode])
    PROVE  Follows(fs, ReplayRows(fs, unlink_disk_ops(path, inode, size, hardlinks, "file", how)),
                   [fs.entries EXCEPT ![path] = NoInode],
                   IF hardlinks = 1 THEN {inode} ELSE {})
  <1>. DEFINE row == DirEntryRow("delete_dir_entry", path, inode, "file")
              cut == IF hardlinks = 1 THEN trunc_disk_ops(inode, size, 0, how) ELSE << >>
              lost == IF hardlinks = 1 THEN {inode} ELSE {}
              s == ReplayRows(fs, cut)
              t == ReplayRow(s, row)
  <1>1. unlink_disk_ops(path, inode, size, hardlinks, "file", how) = cut \o <<row>>
    BY DEF unlink_disk_ops
  <1>2. IsSequence(cut) /\ IsSequence(<<row>>)
    <2>1. IsSequence(cut)
      BY ProperTruncate, ProperEmpty DEF Proper
    <2>. QED BY <2>1 DEF IsSequence
  <1>3. Follows(fs, s, fs.entries, lost)
    <2>1. CASE hardlinks = 1
      <3>. DEFINE c == fs.content[inode]
      <3>1. s = With(fs, inode, Resized(c, 0))
        BY <2>1, TruncReplays
      <3>2. IsSequence(Resized(c, 0))
        <4>1. IsSequence(c)
          BY DEF IsSnapshot
        <4>. HIDE DEF c
        <4>. QED BY <4>1, ResizedIs
      <3>. HIDE DEF s, c
      <3>3. /\ IsSnapshot(s) /\ s.entries = fs.entries /\ s.place = fs.place
            /\ \A g \in Files : g # inode => s.content[g] = fs.content[g]
        BY <3>1, <3>2, WithIs
      <3>. QED BY <2>1, <3>3 DEF Follows
    <2>2. CASE hardlinks # 1
      <3>1. s = fs
        BY <2>2, ReplayNone
      <3>. HIDE DEF s, lost
      <3>. QED BY <3>1, FollowsSame
    <2>. QED BY <2>1, <2>2
  <1>. HIDE DEF cut, row, s
  <1>4. ReplayRows(fs, cut \o <<row>>) = t
    <2>1. ReplayRows(fs, cut \o <<row>>) = ReplayRows(s, <<row>>)
      BY <1>2, ReplayBoth DEF s
    <2>. QED BY <2>1, ReplayOne
  <1>5. Follows(s, t, [s.entries EXCEPT ![path] = NoInode], {})
    <2>1. IsSnapshot(s) /\ s.entries[path] \notin Dirs
      BY <1>3 DEF Follows
    <2>. QED BY <2>1, FileEntryIs DEF row
  <1>. HIDE DEF t
  <1>6. s.entries = fs.entries
    BY <1>3 DEF Follows
  <1>7. Follows(fs, t, [fs.entries EXCEPT ![path] = NoInode], lost \cup {})
    BY <1>3, <1>5, <1>6, FollowsOn
  <1>. QED BY <1>1, <1>4, <1>7

\* An entry of a directory is made.
LEMMA MkdirReplays ==
    ASSUME NEW fs, IsSnapshot(fs), NEW path \in Paths, fs.entries[path] = NoInode,
           NEW inode \in Dirs, fs.place[inode] # "linked"
    PROVE  LET s == ReplayRows(fs, link_disk_ops(path, inode, "dir")) IN
           /\ IsSnapshot(s) /\ s.content = fs.content
           /\ s.entries = [fs.entries EXCEPT ![path] = inode]
           /\ \A d \in Dirs \ {inode} : s.place[d] = "linked" => fs.place[d] = "linked"
  <1>. DEFINE row == DirEntryRow("create_dir_entry", path, inode, "dir")
              w == WithDirectory(fs, Parent(path))
              s == [entries |-> [w.entries EXCEPT ![path] = inode], content |-> w.content,
                    place |-> [w.place EXCEPT ![inode] = "linked"], raised |-> w.raised]
  <1>1. row.op = "create_dir_entry" /\ row.path = path /\ row.inode = inode
        /\ row.entry_type = "dir"
    BY DEF DirEntryRow
  <1>2. link_disk_ops(path, inode, "dir") = <<row>>
    BY DEF link_disk_ops
  <1>. HIDE DEF row
  <1>3. /\ IsSnapshot(w) /\ w.entries = fs.entries /\ w.content = fs.content
        /\ \A d \in Dirs : w.place[d] = "linked" => fs.place[d] = "linked"
    BY ParentIsDir, WithDirectoryIs
  <1>4. ReplayRow(fs, row) = s
    <2>1. ReplayRow(fs, row) = CreateDirEntry(fs, row)
      BY <1>1 DEF ReplayRow, IsSnapshot
    <2>2. CreateDirEntry(fs, row)
             = [w EXCEPT !.entries[path] = inode, !.place[inode] = "linked"]
      BY <1>1, InodesAssumption DEF CreateDirEntry
    <2>. HIDE DEF w
    <2>. QED BY <1>3, <2>1, <2>2 DEF IsSnapshot
  <1>. HIDE DEF w
  <1>5. /\ s.content = w.content /\ s.raised = w.raised
        /\ s.entries = [w.entries EXCEPT ![path] = inode]
        /\ s.place = [w.place EXCEPT ![inode] = "linked"]
        /\ s = [entries |-> s.entries, content |-> s.content,
                place |-> s.place, raised |-> s.raised]
    OBVIOUS
  <1>. HIDE DEF s
  <1>6. s.entries \in [Paths -> Inode]
    BY <1>3, <1>5 DEF IsSnapshot, Inode
  <1>7. /\ s.place \in [Dirs -> {"unknown", "inodes", "linked"}]
        /\ \A d \in Dirs \ {inode} : s.place[d] = w.place[d]
    BY <1>3, <1>5 DEF IsSnapshot
  <1>8. IsSnapshot(s)
    BY <1>3, <1>5, <1>6, <1>7 DEF IsSnapshot
  <1>9. ReplayRows(fs, <<row>>) = s
    BY <1>4, ReplayOne
  <1>. QED BY <1>2, <1>3, <1>5, <1>7, <1>8, <1>9

\* An entry of an empty directory is deleted.
LEMMA RmdirReplays ==
    ASSUME NEW how, NEW fs, IsSnapshot(fs), NEW path \in Paths, NEW inode \in Dirs,
           fs.entries[path] = inode, IsEmptyDir(fs.entries, inode), NEW lost
    PROVE  Follows(fs, ReplayRows(fs, unlink_disk_ops(path, inode, 0, 0, "dir", how)),
                   [fs.entries EXCEPT ![path] = NoInode], lost)
  <1>. DEFINE row == DirEntryRow("delete_dir_entry", path, inode, "dir")
              w == WithDirectory(fs, Parent(path))
              s == [w EXCEPT !.entries[path] = NoInode]
  <1>1. row.op = "delete_dir_entry" /\ row.path = path /\ row.inode = inode
        /\ row.entry_type = "dir"
    BY DEF DirEntryRow
  <1>2. unlink_disk_ops(path, inode, 0, 0, "dir", how) = <<row>>
    <2>1. unlink_disk_ops(path, inode, 0, 0, "dir", how) = << >> \o <<row>>
      BY DEF unlink_disk_ops
    <2>. HIDE DEF row
    <2>. QED BY <2>1
  <1>. HIDE DEF row
  <1>3. /\ IsSnapshot(w) /\ w.entries = fs.entries /\ w.content = fs.content
        /\ \A d \in Dirs : w.place[d] = "linked" => fs.place[d] = "linked"
    BY ParentIsDir, WithDirectoryIs
  <1>4. ReplayRow(fs, row) = s
    <2>1. ReplayRow(fs, row) = DeleteDirEntry(fs, row)
      BY <1>1 DEF ReplayRow, IsSnapshot
    <2>2. inode \notin Files
      BY InodesAssumption
    <2>. QED BY <1>1, <2>1, <2>2 DEF DeleteDirEntry
  <1>. HIDE DEF w
  <1>5. /\ IsSnapshot(s) /\ s.content = w.content /\ s.place = w.place
        /\ s.entries = [w.entries EXCEPT ![path] = NoInode]
    BY <1>3, EntryIs DEF Inode
  <1>. HIDE DEF s
  <1>6. Follows(fs, s, [fs.entries EXCEPT ![path] = NoInode], lost)
    BY <1>3, <1>5 DEF Follows
  <1>. QED BY <1>2, <1>4, <1>6, ReplayOne

-----------------------------------------------------------------------------
(* rename                                                                    *)

\* A snapshot on the way: source leads to x and dest to y.
Between(fs, s, source, dest, x, y, lost) ==
    Follows(fs, s, [fs.entries EXCEPT ![source] = x, ![dest] = y], lost)

LEMMA BetweenSame ==
    ASSUME NEW fs, IsSnapshot(fs), NEW source, NEW dest, NEW lost
    PROVE  Between(fs, fs, source, dest, fs.entries[source], fs.entries[dest], lost)
  <1>1. [fs.entries EXCEPT ![source] = fs.entries[source], ![dest] = fs.entries[dest]]
            = fs.entries
    BY DEF IsSnapshot
  <1>. QED BY <1>1, FollowsSame DEF Between

LEMMA BetweenIs ==
    ASSUME NEW fs, IsSnapshot(fs), NEW source \in Paths, NEW dest \in Paths, source # dest,
           NEW x, NEW y, NEW lost, NEW s, Between(fs, s, source, dest, x, y, lost)
    PROVE  IsSnapshot(s) /\ s.entries[source] = x /\ s.entries[dest] = y
  <1>. DEFINE e == fs.entries
  <1>1. e \in [Paths -> Inode] /\ s.entries = [e EXCEPT ![source] = x, ![dest] = y]
        /\ IsSnapshot(s)
    BY DEF Between, Follows, IsSnapshot
  <1>. HIDE DEF e
  <1>. QED BY <1>1

\* The next rows change where one of the two leads.
LEMMA SourceChanges ==
    ASSUME NEW fs, IsSnapshot(fs), NEW source \in Paths, NEW dest \in Paths, source # dest,
           NEW x, NEW y, NEW lost, NEW s, Between(fs, s, source, dest, x, y, lost),
           NEW t, NEW z, NEW more, more \subseteq lost,
           Follows(s, t, [s.entries EXCEPT ![source] = z], more)
    PROVE  Between(fs, t, source, dest, z, y, lost)
  <1>. DEFINE e == fs.entries
  <1>1. e \in [Paths -> Inode] /\ s.entries = [e EXCEPT ![source] = x, ![dest] = y]
    BY DEF Between, Follows, IsSnapshot
  <1>. HIDE DEF e
  <1>2. [s.entries EXCEPT ![source] = z] = [e EXCEPT ![source] = z, ![dest] = y]
    BY <1>1
  <1>3. lost \cup more = lost
    OBVIOUS
  <1>4. Follows(fs, t, [s.entries EXCEPT ![source] = z], lost \cup more)
    BY FollowsOn DEF Between
  <1>. QED BY <1>2, <1>3, <1>4 DEF Between, e

LEMMA DestChanges ==
    ASSUME NEW fs, IsSnapshot(fs), NEW source \in Paths, NEW dest \in Paths, source # dest,
           NEW x, NEW y, NEW lost, NEW s, Between(fs, s, source, dest, x, y, lost),
           NEW t, NEW z, NEW more, more \subseteq lost,
           Follows(s, t, [s.entries EXCEPT ![dest] = z], more)
    PROVE  Between(fs, t, source, dest, x, z, lost)
  <1>. DEFINE e == fs.entries
  <1>1. e \in [Paths -> Inode] /\ s.entries = [e EXCEPT ![source] = x, ![dest] = y]
    BY DEF Between, Follows, IsSnapshot
  <1>. HIDE DEF e
  <1>2. [s.entries EXCEPT ![dest] = z] = [e EXCEPT ![source] = x, ![dest] = z]
    BY <1>1
  <1>3. lost \cup more = lost
    OBVIOUS
  <1>4. Follows(fs, t, [s.entries EXCEPT ![dest] = z], lost \cup more)
    BY FollowsOn DEF Between
  <1>. QED BY <1>2, <1>3, <1>4 DEF Between, e

LEMMA UnlinkKeepsData ==
    ASSUME NEW how, how.splits \in Nat \ {0}, NEW fs, IsSnapshot(fs),
           NEW path \in Paths, fs.entries[path] \notin Dirs, NEW inode \in Files,
           NEW size \in Nat, NEW hardlinks, hardlinks # 1
    PROVE  Follows(fs, ReplayRows(fs, unlink_disk_ops(path, inode, size, hardlinks, "file", how)),
                   [fs.entries EXCEPT ![path] = NoInode], {})
  <1>1. Follows(fs, ReplayRows(fs, unlink_disk_ops(path, inode, size, hardlinks, "file", how)),
                [fs.entries EXCEPT ![path] = NoInode], IF hardlinks = 1 THEN {inode} ELSE {})
    BY UnlinkReplays
  <1>. QED BY <1>1

\* rename of a file, expanded or not.
LEMMA RenameReplays ==
    ASSUME NEW how, how.splits \in Nat \ {0}, NEW fs, IsSnapshot(fs),
           NEW call, call.source \in Paths, call.dest \in Paths, call.source # call.dest,
           call.source_inode \in Files, fs.entries[call.source] = call.source_inode,
           call.source_size \in Nat, call.dest_size \in Nat,
           fs.entries[call.dest] = call.dest_inode, call.dest_inode \in Files \cup {NoInode},
           call.dest_hardlinks >= 1 => call.dest_inode \in Files,
           call.dest_hardlinks = 1 => call.dest_size = Len(fs.content[call.dest_inode])
    PROVE  Between(fs, ReplayRows(fs, rename_disk_ops(call, how)),
                   call.source, call.dest, NoInode, call.source_inode,
                   IF call.dest_hardlinks = 1 THEN {call.dest_inode} ELSE {})
  <1>. DEFINE source == call.source
              dest == call.dest
              inode == call.source_inode
              there == call.dest_inode
              links == call.dest_hardlinks
              lost == IF links = 1 THEN {there} ELSE {}
              unlink_source == unlink_disk_ops(source, inode, call.source_size, 2, "file", how)
              link_source == link_disk_ops(source, inode, "file")
              unlink_dest == IF links >= 1
                             THEN unlink_disk_ops(dest, there, call.dest_size, links, "file", how)
                             ELSE << >>
              link_dest == link_disk_ops(dest, inode, "file")
              more == IF how.expanded_atomicity THEN unlink_source ELSE << >>
              link == IF how.expanded_atomicity THEN link_source ELSE << >>
              On(s, x, y) == Between(fs, s, source, dest, x, y, lost)
  <1>1. rename_disk_ops(call, how) = more \o unlink_dest \o link \o unlink_source
                                     \o link_dest \o link \o more
    BY DEF rename_disk_ops
  <1>2. /\ IsSequence(unlink_source) /\ IsSequence(unlink_dest)
        /\ IsSequence(link_source) /\ IsSequence(link_dest)
        /\ IsSequence(more) /\ IsSequence(link)
    <2>1. IsSequence(unlink_source)
      BY ProperUnlink DEF Proper
    <2>2. IsSequence(link_source) /\ IsSequence(link_dest)
      BY ProperLink DEF Proper
    <2>3. IsSequence(unlink_dest)
      BY ProperUnlink, ProperEmpty DEF Proper
    <2>4. IsSequence(<< >>)
      BY DEF IsSequence
    <2>. HIDE DEF unlink_source, link_source
    <2>. QED BY <2>1, <2>2, <2>3, <2>4
  <1>3. /\ source \in Paths /\ dest \in Paths /\ source # dest
        /\ inode \in Files /\ inode \notin Dirs /\ NoInode \notin Dirs /\ there \notin Dirs
        /\ fs.entries[source] = inode /\ fs.entries[dest] = there
    BY InodesAssumption
  <1>. HIDE DEF source, dest, inode, there
  <1>4. ASSUME NEW s, NEW x, NEW y, On(s, x, y)
        PROVE  /\ x \notin Dirs => On(ReplayRows(s, unlink_source), NoInode, y)
               /\ x \notin Dirs => On(ReplayRows(s, link_source), inode, y)
               /\ y \notin Dirs => On(ReplayRows(s, link_dest), x, inode)
    <2>1. IsSnapshot(s) /\ s.entries[source] = x /\ s.entries[dest] = y
      <3>. HIDE DEF lost
      <3>. QED BY <1>3, <1>4, BetweenIs
    <2>2. ASSUME x \notin Dirs PROVE On(ReplayRows(s, unlink_source), NoInode, y)
      <3>1. 2 # 1 /\ call.source_size \in Nat
        OBVIOUS
      <3>2. Follows(s, ReplayRows(s, unlink_source), [s.entries EXCEPT ![source] = NoInode], {})
        BY <1>3, <2>1, <2>2, <3>1, UnlinkKeepsData
      <3>3. {} \subseteq lost
        OBVIOUS
      <3>. HIDE DEF unlink_source, lost
      <3>. QED BY <1>3, <1>4, <3>2, <3>3, SourceChanges
    <2>3. ASSUME x \notin Dirs PROVE On(ReplayRows(s, link_source), inode, y)
      <3>1. Follows(s, ReplayRows(s, link_source), [s.entries EXCEPT ![source] = inode], {})
        BY <1>3, <2>1, <2>3, LinkReplays
      <3>2. {} \subseteq lost
        OBVIOUS
      <3>. HIDE DEF link_source, lost
      <3>. QED BY <1>3, <1>4, <3>1, <3>2, SourceChanges
    <2>4. ASSUME y \notin Dirs PROVE On(ReplayRows(s, link_dest), x, inode)
      <3>1. Follows(s, ReplayRows(s, link_dest), [s.entries EXCEPT ![dest] = inode], {})
        BY <1>3, <2>1, <2>4, LinkReplays
      <3>2. {} \subseteq lost
        OBVIOUS
      <3>. HIDE DEF link_dest, lost
      <3>. QED BY <1>3, <1>4, <3>1, <3>2, DestChanges
    <2>. QED BY <2>2, <2>3, <2>4
  <1>5. ASSUME NEW s, NEW x, On(s, x, there), s.content = fs.content
        PROVE  \E y : y \notin Dirs /\ On(ReplayRows(s, unlink_dest), x, y)
    <2>1. IsSnapshot(s) /\ s.entries[dest] = there
      <3>. HIDE DEF lost
      <3>. QED BY <1>3, <1>5, BetweenIs
    <2>2. CASE links >= 1
      <3>1. there \in Files
        BY <2>2 DEF there
      <3>2. links = 1 => call.dest_size = Len(s.content[there])
        BY <1>5 DEF there
      <3>3. Follows(s, ReplayRows(s, unlink_dest), [s.entries EXCEPT ![dest] = NoInode], lost)
        BY <1>3, <2>1, <2>2, <3>1, <3>2, UnlinkReplays
      <3>. HIDE DEF unlink_dest, lost
      <3>4. On(ReplayRows(s, unlink_dest), x, NoInode)
        BY <1>3, <1>5, <3>3, DestChanges
      <3>. QED BY <1>3, <3>4
    <2>3. CASE ~ (links >= 1)
      <3>1. ReplayRows(s, unlink_dest) = s
        BY <2>3, ReplayNone
      <3>. QED BY <1>3, <1>5, <3>1
    <2>. QED BY <2>2, <2>3
  <1>. HIDE DEF On, unlink_source, unlink_dest, link_source, link_dest, lost
  <1>. DEFINE s1 == ReplayRows(fs, more)
              s2 == ReplayRows(s1, unlink_dest)
              s3 == ReplayRows(s2, link)
              s4 == ReplayRows(s3, unlink_source)
              s5 == ReplayRows(s4, link_dest)
              s6 == ReplayRows(s5, link)
              s7 == ReplayRows(s6, more)
  <1>6. On(fs, inode, there)
    BY <1>3, BetweenSame DEF On
  <1>7. \E x : x \notin Dirs /\ On(s1, x, there) /\ s1.content = fs.content
    <2>1. CASE how.expanded_atomicity
      <3>1. s1 = ReplayRows(fs, unlink_source)
        BY <2>1
      <3>2. On(s1, NoInode, there)
        BY <1>3, <1>4, <1>6, <3>1
      <3>3. s1.content = fs.content
        <4>0. 2 # 1 /\ call.source_size \in Nat
          OBVIOUS
        <4>1. Follows(fs, s1, [fs.entries EXCEPT ![source] = NoInode], {})
          BY <1>3, <3>1, <4>0, UnlinkKeepsData DEF unlink_source
        <4>. HIDE DEF s1
        <4>2. IsSnapshot(s1) /\ \A f \in Files : s1.content[f] = fs.content[f]
          BY <4>1 DEF Follows
        <4>. QED BY <4>2 DEF IsSnapshot
      <3>. HIDE DEF s1
      <3>. QED BY <1>3, <3>2, <3>3
    <2>2. CASE ~ how.expanded_atomicity
      <3>1. s1 = fs
        BY <2>2, ReplayNone
      <3>. QED BY <1>3, <1>6, <3>1
    <2>. QED BY <2>1, <2>2
  <1>. HIDE DEF s1
  <1>8. \E x, y : x \notin Dirs /\ y \notin Dirs /\ On(s2, x, y)
    BY <1>5, <1>7
  <1>. HIDE DEF s2
  <1>9. \E x, y : x \notin Dirs /\ y \notin Dirs /\ On(s3, x, y)
    <2>1. CASE how.expanded_atomicity
      <3>1. s3 = ReplayRows(s2, link_source)
        BY <2>1
      <3>. HIDE DEF s3
      <3>. QED BY <1>3, <1>4, <1>8, <3>1
    <2>2. CASE ~ how.expanded_atomicity
      <3>1. s3 = s2
        BY <2>2, ReplayNone
      <3>. QED BY <1>8, <3>1
    <2>. QED BY <2>1, <2>2
  <1>. HIDE DEF s3
  <1>10. \E y : y \notin Dirs /\ On(s4, NoInode, y)
    BY <1>4, <1>9
  <1>. HIDE DEF s4
  <1>11. On(s5, NoInode, inode)
    BY <1>4, <1>10
  <1>. HIDE DEF s5
  <1>12. On(s7, NoInode, inode)
    <2>1. CASE how.expanded_atomicity
      <3>1. s6 = ReplayRows(s5, link_source)
        BY <2>1
      <3>. HIDE DEF s6
      <3>2. s7 = ReplayRows(s6, unlink_source)
        BY <2>1
      <3>. HIDE DEF s7
      <3>3. On(s6, inode, inode)
        BY <1>3, <1>4, <1>11, <3>1
      <3>. QED BY <1>3, <1>4, <3>2, <3>3
    <2>2. CASE ~ how.expanded_atomicity
      <3>1. s6 = s5
        BY <2>2, ReplayNone
      <3>. HIDE DEF s6
      <3>2. s7 = s6
        BY <2>2, ReplayNone
      <3>. QED BY <1>11, <3>1, <3>2
    <2>. QED BY <2>1, <2>2
  <1>. HIDE DEF more, link
  <1>13. ReplayRows(fs, more \o unlink_dest \o link \o unlink_source \o link_dest \o link \o more)
             = s7
    <2>1. IsSequence(more \o unlink_dest)
      BY <1>2, Concatenated
    <2>2. IsSequence(more \o unlink_dest \o link)
      BY <1>2, <2>1, Concatenated
    <2>3. IsSequence(more \o unlink_dest \o link \o unlink_source)
      BY <1>2, <2>2, Concatenated
    <2>4. IsSequence(more \o unlink_dest \o link \o unlink_source \o link_dest)
      BY <1>2, <2>3, Concatenated
    <2>5. IsSequence(more \o unlink_dest \o link \o unlink_source \o link_dest \o link)
      BY <1>2, <2>4, Concatenated
    <2>6. ReplayRows(fs, more \o unlink_dest) = s2
      BY <1>2, ReplayBoth DEF s1, s2
    <2>7. ReplayRows(fs, more \o unlink_dest \o link) = s3
      BY <1>2, <2>1, <2>6, ReplayBoth DEF s3
    <2>8. ReplayRows(fs, more \o unlink_dest \o link \o unlink_source) = s4
      BY <1>2, <2>2, <2>7, ReplayBoth DEF s4
    <2>9. ReplayRows(fs, more \o unlink_dest \o link \o unlink_source \o link_dest) = s5
      BY <1>2, <2>3, <2>8, ReplayBoth DEF s5
    <2>10. ReplayRows(fs, more \o unlink_dest \o link \o unlink_source \o link_dest \o link) = s6
      BY <1>2, <2>4, <2>9, ReplayBoth
    <2>. QED BY <1>2, <2>5, <2>10, ReplayBoth
  <1>. QED BY <1>1, <1>12, <1>13 DEF On, source, dest, inode, lost, links, there

-----------------------------------------------------------------------------
(* The tree and its snapshot                                                 *)

TreeOK ==
    /\ tree = [entries |-> tree.entries, content |-> tree.content]
    /\ tree.entries \in [Paths -> Inode]
    /\ tree.content = [f \in Files |-> tree.content[f]]
    /\ \A f \in Files : IsSequence(tree.content[f])
    /\ used \subseteq Files \cup Dirs /\ Root \in used
    /\ \A p \in Paths : tree.entries[p] \in used \cup {NoInode}

\* Only finitely many paths exist, so the links of a file can be counted.
FinitelyMany == IsFiniteSet({p \in Paths : tree.entries[p] # NoInode})

\* The snapshot has the bytes of the files that a path leads to, and of those
\* that are yet to be made; and no directory is linked before it is made.  The
\* tree is t and u are the inodes in use.
SnapshotOK(fs, t, u) ==
    /\ IsSnapshot(fs)
    /\ fs.entries = t.entries
    /\ \A f \in Files :
          (\E p \in Paths : t.entries[p] = f) \/ f \notin u => fs.content[f] = t.content[f]
    /\ \A d \in Dirs \ u : fs.place[d] # "linked"

\* The invariant, with fs for the snapshot, and what it is after a step.
InvWith(fs) == TreeOK /\ FinitelyMany /\ SnapshotOK(fs, tree, used)
NextInvWith(gs) == TreeOK' /\ FinitelyMany' /\ SnapshotOK(gs, tree', used')

LEMMA EmptyInv == MicroInit => InvWith(EmptySnapshot)
  <1>. SUFFICES ASSUME MicroInit PROVE InvWith(EmptySnapshot)
    OBVIOUS
  <1>. DEFINE fs == EmptySnapshot
  <1>1. /\ tree = [entries |-> fs.entries, content |-> fs.content]
        /\ used = {Root}
    BY DEF MicroInit
  <1>2. /\ fs.entries = [p \in Paths |-> NoInode]
        /\ fs.content = [f \in Files |-> << >>]
        /\ fs.place = [d \in Dirs |-> IF d = Root THEN "linked" ELSE "unknown"]
        /\ fs.raised = FALSE
        /\ fs = [entries |-> fs.entries, content |-> fs.content,
                 place |-> fs.place, raised |-> fs.raised]
    BY DEF EmptySnapshot
  <1>. HIDE DEF fs
  <1>3. tree.entries = fs.entries /\ tree.content = fs.content
        /\ tree = [entries |-> tree.entries, content |-> tree.content]
    BY <1>1
  <1>4. IsSequence(<< >>)
    BY DEF IsSequence
  <1>5. IsSnapshot(fs)
    <2>1. fs.entries \in [Paths -> Inode]
      BY <1>2 DEF Inode
    <2>2. fs.content = [f \in Files |-> fs.content[f]]
          /\ \A f \in Files : IsSequence(fs.content[f])
      BY <1>2, <1>4
    <2>3. fs.place \in [Dirs -> {"unknown", "inodes", "linked"}]
      BY <1>2
    <2>. QED BY <1>2, <2>1, <2>2, <2>3 DEF IsSnapshot
  <1>6. TreeOK
    <2>1. \A p \in Paths : tree.entries[p] \in used \cup {NoInode}
      BY <1>2, <1>3
    <2>2. used \subseteq Files \cup Dirs /\ Root \in used
      BY <1>1, RootAssumption
    <2>. QED BY <1>3, <1>5, <2>1, <2>2 DEF TreeOK, IsSnapshot
  <1>7. FinitelyMany
    <2>1. {p \in Paths : tree.entries[p] # NoInode} = {}
      BY <1>2, <1>3
    <2>. QED BY <2>1, FS_EmptySet DEF FinitelyMany
  <1>8. SnapshotOK(fs, tree, used)
    <2>1. \A d \in Dirs \ used : fs.place[d] # "linked"
      BY <1>1, <1>2
    <2>. QED BY <1>3, <1>5, <2>1 DEF SnapshotOK
  <1>. QED BY <1>6, <1>7, <1>8 DEF InvWith, fs

LEMMA LivePath ==
    ASSUME NEW path \in LivePaths
    PROVE  path \in Paths
  BY DEF LivePaths

\* A file with one link has no other.
LEMMA OnlyLink ==
    ASSUME NEW fs, InvWith(fs), NEW path \in Paths, IsFile(path), Hardlinks(path) = 1,
           NEW q \in Paths, InodeOf(q) = InodeOf(path)
    PROVE  q = path
  <1>. DEFINE S == {p \in Paths : InodeOf(p) = InodeOf(path)}
  <1>1. InodeOf(path) # NoInode /\ ~ IsDir(path)
    BY InodesAssumption DEF IsFile, IsDir
  <1>2. Cardinality(S) = 1
    BY <1>1 DEF Hardlinks, Exists
  <1>3. IsFiniteSet(S)
    <2>1. S \subseteq {p \in Paths : tree.entries[p] # NoInode}
      BY <1>1 DEF InodeOf
    <2>. HIDE DEF S
    <2>. QED BY <2>1, FS_Subset DEF InvWith, FinitelyMany
  <1>. HIDE DEF S
  <1>4. PICK x : S = {x}
    BY <1>2, <1>3, FS_Singleton
  <1>5. path \in S /\ q \in S
    BY DEF S
  <1>. QED BY <1>4, <1>5

\* At most two entries change, in the tree and in the snapshot; the files whose
\* data is lost have no link any more.
LEMMA EntriesStep ==
    ASSUME NEW fs, InvWith(fs), NEW gs, NEW e \in [Paths -> Inode],
           \A p \in Paths : e[p] \in used' \cup {NoInode},
           NEW a \in Paths, NEW b \in Paths,
           \A p \in Paths \ {a, b} : e[p] = tree.entries[p],
           \A p \in {a, b} : e[p] \in Files => e[p] \notin used \/ HasLink(e[p]),
           tree' = [entries |-> e, content |-> tree.content],
           used \subseteq used', used' \subseteq Files \cup Dirs,
           IsSnapshot(gs), gs.entries = e, NEW lost,
           \A f \in Files \ lost : gs.content[f] = fs.content[f],
           \A f \in lost : f \in used /\ \A p \in Paths : e[p] # f,
           \A d \in Dirs \ used' : gs.place[d] # "linked"
    PROVE  NextInvWith(gs)
  <1>1. /\ tree'.entries = e /\ tree'.content = tree.content
        /\ tree' = [entries |-> tree'.entries, content |-> tree'.content]
    OBVIOUS
  <1>2. TreeOK'
    BY <1>1 DEF InvWith, TreeOK
  <1>3. FinitelyMany'
    <2>. DEFINE S == {p \in Paths : tree.entries[p] # NoInode}
                T == {p \in Paths : tree'.entries[p] # NoInode}
    <2>1. T \subseteq (S \cup {a}) \cup {b}
      BY <1>1
    <2>2. IsFiniteSet(S)
      BY DEF InvWith, FinitelyMany
    <2>. HIDE DEF S, T
    <2>3. IsFiniteSet((S \cup {a}) \cup {b})
      BY <2>2, FS_AddElement
    <2>4. IsFiniteSet(T)
      BY <2>1, <2>3, FS_Subset
    <2>. QED BY <2>4 DEF FinitelyMany, T
  <1>4. ASSUME NEW f \in Files, HasLink(f)' \/ f \notin used'
        PROVE  gs.content[f] = tree'.content[f]
    <2>1. f \notin lost
      BY <1>1, <1>4 DEF HasLink
    <2>2. HasLink(f) \/ f \notin used
      BY <1>1, <1>4 DEF HasLink
    <2>3. fs.content[f] = tree.content[f]
      BY <2>2 DEF InvWith, SnapshotOK, HasLink
    <2>. QED BY <1>1, <2>1, <2>3
  <1>5. SnapshotOK(gs, tree', used')
    BY <1>1, <1>4 DEF SnapshotOK, HasLink
  <1>. QED BY <1>2, <1>3, <1>5 DEF NextInvWith

\* One entry changes.
LEMMA EntryStep ==
    ASSUME NEW fs, InvWith(fs), NEW gs, NEW path \in Paths, NEW inode \in Inode,
           inode \in used' \cup {NoInode},
           inode \in Files => inode \notin used \/ HasLink(inode),
           tree' = Linked(path, inode),
           used \subseteq used', used' \subseteq Files \cup Dirs,
           NEW lost,
           Follows(fs, gs, [fs.entries EXCEPT ![path] = inode], lost),
           \A f \in lost : f \in used /\ f # inode /\ \A p \in Paths : InodeOf(p) = f => p = path
    PROVE  NextInvWith(gs)
  <1>. DEFINE e == [tree.entries EXCEPT ![path] = inode]
  <1>1. tree' = [entries |-> e, content |-> tree.content]
    BY DEF Linked, InvWith, TreeOK
  <1>2. /\ tree.entries \in [Paths -> Inode] /\ fs.entries = tree.entries
        /\ \A p \in Paths : tree.entries[p] \in used \cup {NoInode}
    BY DEF InvWith, TreeOK, SnapshotOK
  <1>3. /\ e \in [Paths -> Inode] /\ e[path] = inode
        /\ \A p \in Paths \ {path} : e[p] = tree.entries[p]
    BY <1>2
  <1>. HIDE DEF e
  <1>4. /\ \A p \in Paths : e[p] \in used' \cup {NoInode}
        /\ \A p \in Paths \ {path, path} : e[p] = tree.entries[p]
        /\ \A p \in {path, path} : e[p] \in Files => e[p] \notin used \/ HasLink(e[p])
    BY <1>2, <1>3
  <1>5. /\ IsSnapshot(gs) /\ gs.entries = e
        /\ \A f \in Files \ lost : gs.content[f] = fs.content[f]
        /\ \A d \in Dirs \ used' : gs.place[d] # "linked"
    BY <1>2 DEF Follows, InvWith, SnapshotOK, e
  <1>6. \A f \in lost : f \in used /\ \A p \in Paths : e[p] # f
    BY <1>3 DEF InodeOf
  <1>. QED BY <1>1, <1>3, <1>4, <1>5, <1>6, EntriesStep

\* The bytes of a file change.
LEMMA ContentStep ==
    ASSUME NEW fs, InvWith(fs), NEW gs, NEW inode \in Files, NEW bytes, IsSequence(bytes),
           tree' = WithContent(inode, bytes), used' = used,
           gs = With(fs, inode, bytes)
    PROVE  NextInvWith(gs)
  <1>1. /\ tree.content = [f \in Files |-> tree.content[f]]
        /\ \A f \in Files : IsSequence(tree.content[f])
        /\ tree = [entries |-> tree.entries, content |-> tree.content]
    BY DEF InvWith, TreeOK
  <1>2. tree' = [entries |-> tree.entries, content |-> [tree.content EXCEPT ![inode] = bytes]]
    BY <1>1 DEF WithContent
  <1>3. /\ tree'.entries = tree.entries
        /\ tree'.content = [tree.content EXCEPT ![inode] = bytes]
        /\ tree' = [entries |-> tree'.entries, content |-> tree'.content]
    BY <1>2
  <1>4. /\ tree'.content = [f \in Files |-> tree'.content[f]]
        /\ tree'.content[inode] = bytes
        /\ \A f \in Files : f # inode => tree'.content[f] = tree.content[f]
    BY <1>1, <1>3
  <1>5. TreeOK'
    <2>1. \A f \in Files : IsSequence(tree'.content[f])
      BY <1>1, <1>4
    <2>. QED BY <1>3, <1>4, <2>1 DEF InvWith, TreeOK
  <1>6. FinitelyMany'
    BY <1>3 DEF InvWith, FinitelyMany
  <1>7. /\ IsSnapshot(gs) /\ gs.entries = fs.entries /\ gs.place = fs.place
        /\ gs.content[inode] = bytes
        /\ \A f \in Files : f # inode => gs.content[f] = fs.content[f]
    BY WithIs DEF InvWith, SnapshotOK
  <1>8. ASSUME NEW f \in Files, HasLink(f)' \/ f \notin used'
        PROVE  gs.content[f] = tree'.content[f]
    <2>1. HasLink(f) \/ f \notin used
      BY <1>3, <1>8 DEF HasLink
    <2>. QED BY <1>4, <1>7, <2>1 DEF InvWith, SnapshotOK, HasLink
  <1>9. SnapshotOK(gs, tree', used')
    BY <1>3, <1>7, <1>8 DEF InvWith, SnapshotOK, HasLink
  <1>. QED BY <1>5, <1>6, <1>9 DEF NextInvWith

\* Nothing changes.
LEMMA SyncStep ==
    ASSUME NEW fs, InvWith(fs), NEW gs, UNCHANGED <<tree, used>>, gs = fs
    PROVE  NextInvWith(gs)
  BY DEF InvWith, NextInvWith, TreeOK, FinitelyMany, SnapshotOK

-----------------------------------------------------------------------------
(* The calls                                                                 *)

LEMMA LinkedInode ==
    ASSUME NEW fs, InvWith(fs), NEW path \in Paths
    PROVE  /\ InodeOf(path) = tree.entries[path]
           /\ fs.entries[path] = InodeOf(path)
           /\ InodeOf(path) \in used \cup {NoInode}
           /\ InodeOf(path) \in Files \cup Dirs \cup {NoInode}
           /\ IsFile(path) => /\ InodeOf(path) \in Files /\ InodeOf(path) \notin Dirs
                              /\ InodeOf(path) # NoInode
                              /\ HasLink(InodeOf(path))
                              /\ fs.content[InodeOf(path)] = tree.content[InodeOf(path)]
                              /\ IsSequence(tree.content[InodeOf(path)])
                              /\ Size(path) = Len(fs.content[InodeOf(path)])
                              /\ Size(path) \in Nat
  <1>1. /\ fs.entries = tree.entries
        /\ tree.entries[path] \in used \cup {NoInode}
        /\ tree.entries[path] \in Files \cup Dirs \cup {NoInode}
    BY DEF InvWith, TreeOK, SnapshotOK, Inode
  <1>2. ASSUME IsFile(path)
        PROVE  /\ InodeOf(path) \in Files /\ InodeOf(path) \notin Dirs
               /\ InodeOf(path) # NoInode
               /\ HasLink(InodeOf(path))
               /\ fs.content[InodeOf(path)] = tree.content[InodeOf(path)]
               /\ IsSequence(tree.content[InodeOf(path)])
               /\ Size(path) = Len(fs.content[InodeOf(path)])
               /\ Size(path) \in Nat
    <2>1. InodeOf(path) \in Files /\ HasLink(InodeOf(path))
      BY <1>2 DEF IsFile, HasLink, InodeOf
    <2>2. fs.content[InodeOf(path)] = tree.content[InodeOf(path)]
          /\ IsSequence(tree.content[InodeOf(path)])
      BY <2>1 DEF InvWith, SnapshotOK, TreeOK, HasLink
    <2>3. Size(path) = Len(tree.content[InodeOf(path)])
      BY <1>2 DEF Size
    <2>4. Len(tree.content[InodeOf(path)]) \in Nat
      BY <2>2, InSeq
    <2>. QED BY <2>1, <2>2, <2>3, <2>4, InodesAssumption
  <1>. QED BY <1>1, <1>2 DEF InodeOf


LEMMA SplitIs == ASSUME NEW how \in Splits PROVE how.splits \in Nat \ {0}
  BY SplitsAssumption

LEMMA CreatStep ==
    ASSUME NEW fs, InvWith(fs), NEW gs, NEW how \in Splits, Creat, gs = ReplayRows(fs, get_disk_ops(line', how))
    PROVE  NextInvWith(gs)
  <1>1. PICK path \in LivePaths, inode \in Files \ used :
              /\ ~ Exists(path)
              /\ line' = [op |-> "creat", name |-> path, inode |-> inode]
              /\ tree' = Linked(path, inode)
              /\ used' = used \cup {inode}
    BY DEF Creat
  <1>2. path \in Paths /\ fs.entries[path] = NoInode /\ NoInode \notin Dirs
    BY <1>1, LivePath, LinkedInode, InodesAssumption DEF Exists
  <1>3. IsSnapshot(fs) /\ used' \subseteq Files \cup Dirs
    BY <1>1 DEF InvWith, SnapshotOK, TreeOK
  <1>4. get_disk_ops(line', how) = link_disk_ops(path, inode, "file")
    BY <1>1 DEF get_disk_ops
  <1>5. Follows(fs, gs, [fs.entries EXCEPT ![path] = inode], {})
    BY <1>1, <1>2, <1>3, <1>4, LinkReplays
  <1>6. inode \in Inode
    BY DEF Inode
  <1>. QED BY <1>1, <1>2, <1>3, <1>5, <1>6, EntryStep

LEMMA LinkStep ==
    ASSUME NEW fs, InvWith(fs), NEW gs, NEW how \in Splits, Link, gs = ReplayRows(fs, get_disk_ops(line', how))
    PROVE  NextInvWith(gs)
  <1>1. PICK source \in LivePaths, dest \in LivePaths :
              /\ IsFile(source) /\ ~ Exists(dest)
              /\ line' = [op |-> "link", dest |-> dest, source_inode |-> InodeOf(source)]
              /\ tree' = Linked(dest, InodeOf(source))
              /\ UNCHANGED used
    BY DEF Link
  <1>. DEFINE inode == InodeOf(source)
  <1>2. /\ source \in Paths /\ dest \in Paths
        /\ fs.entries[dest] = NoInode /\ NoInode \notin Dirs
        /\ inode \in Files /\ inode \in used /\ HasLink(inode)
    BY <1>1, LivePath, LinkedInode, InodesAssumption DEF Exists
  <1>3. IsSnapshot(fs) /\ used' = used /\ used' \subseteq Files \cup Dirs
    BY <1>1 DEF InvWith, SnapshotOK, TreeOK
  <1>4. get_disk_ops(line', how) = link_disk_ops(dest, inode, "file")
    BY <1>1 DEF get_disk_ops
  <1>5. line' = [op |-> "link", dest |-> dest, source_inode |-> inode]
        /\ tree' = Linked(dest, inode)
    BY <1>1
  <1>. HIDE DEF inode
  <1>6. Follows(fs, gs, [fs.entries EXCEPT ![dest] = inode], {})
    BY <1>2, <1>3, <1>4, LinkReplays
  <1>7. inode \in Inode
    BY <1>2 DEF Inode
  <1>. QED BY <1>2, <1>3, <1>5, <1>6, <1>7, EntryStep

LEMMA UnlinkStep ==
    ASSUME NEW fs, InvWith(fs), NEW gs, NEW how \in Splits, Unlink, gs = ReplayRows(fs, get_disk_ops(line', how))
    PROVE  NextInvWith(gs)
  <1>1. PICK path \in LivePaths :
              /\ IsFile(path)
              /\ line' = [op |-> "unlink", name |-> path, inode |-> InodeOf(path),
                          size |-> Size(path), hardlinks |-> Hardlinks(path)]
              /\ tree' = Unlinked(path)
              /\ UNCHANGED used
    BY DEF Unlink
  <1>. DEFINE inode == InodeOf(path)
              links == Hardlinks(path)
              size == Size(path)
              lost == IF links = 1 THEN {inode} ELSE {}
  <1>2. /\ path \in Paths /\ fs.entries[path] = inode /\ NoInode # inode
        /\ inode \in Files /\ inode \in used /\ inode \notin Dirs
        /\ size = Len(fs.content[inode]) /\ size \in Nat
    BY <1>1, LivePath, LinkedInode
  <1>3. IsSnapshot(fs) /\ used' = used /\ used' \subseteq Files \cup Dirs
    BY <1>1 DEF InvWith, SnapshotOK, TreeOK
  <1>4. get_disk_ops(line', how) = unlink_disk_ops(path, inode, size, links, "file", how)
    BY <1>1 DEF get_disk_ops
  <1>5. tree' = Linked(path, NoInode)
    BY <1>1 DEF Unlinked
  <1>6. \A f \in lost : f \in used /\ f # NoInode /\ \A p \in Paths : InodeOf(p) = f => p = path
    BY <1>1, <1>2, OnlyLink
  <1>. HIDE DEF inode, links, size
  <1>7. Follows(fs, gs, [fs.entries EXCEPT ![path] = NoInode], lost)
    BY <1>2, <1>3, <1>4, SplitIs, UnlinkReplays
  <1>8. NoInode \in Inode /\ NoInode \notin Files
    BY InodesAssumption DEF Inode
  <1>. HIDE DEF lost
  <1>. QED BY <1>2, <1>3, <1>5, <1>6, <1>7, <1>8, EntryStep

LEMMA RmdirStep ==
    ASSUME NEW fs, InvWith(fs), NEW gs, NEW how \in Splits, Rmdir, gs = ReplayRows(fs, get_disk_ops(line', how))
    PROVE  NextInvWith(gs)
  <1>1. PICK path \in LivePaths :
              /\ IsDir(path) /\ IsEmptyDir(tree.entries, InodeOf(path))
              /\ line' = [op |-> "rmdir", name |-> path, inode |-> InodeOf(path)]
              /\ tree' = Unlinked(path)
              /\ UNCHANGED used
    BY DEF Rmdir
  <1>. DEFINE inode == InodeOf(path)
  <1>2. /\ path \in Paths /\ fs.entries[path] = inode /\ inode \in Dirs
        /\ IsEmptyDir(fs.entries, inode)
    BY <1>1, LivePath, LinkedInode DEF IsDir, InvWith, SnapshotOK
  <1>3. IsSnapshot(fs) /\ used' = used /\ used' \subseteq Files \cup Dirs
    BY <1>1 DEF InvWith, SnapshotOK, TreeOK
  <1>4. get_disk_ops(line', how) = unlink_disk_ops(path, inode, 0, 0, "dir", how)
    BY <1>1 DEF get_disk_ops
  <1>5. tree' = Linked(path, NoInode)
    BY <1>1 DEF Unlinked
  <1>. HIDE DEF inode
  <1>6. Follows(fs, gs, [fs.entries EXCEPT ![path] = NoInode], {})
    BY <1>2, <1>3, <1>4, RmdirReplays
  <1>7. NoInode \in Inode /\ NoInode \notin Files
    BY InodesAssumption DEF Inode
  <1>. QED BY <1>2, <1>3, <1>5, <1>6, <1>7, EntryStep

LEMMA MkdirStep ==
    ASSUME NEW fs, InvWith(fs), NEW gs, NEW how \in Splits, Mkdir, gs = ReplayRows(fs, get_disk_ops(line', how))
    PROVE  NextInvWith(gs)
  <1>1. PICK path \in LivePaths, inode \in Dirs \ used :
              /\ ~ Exists(path)
              /\ line' = [op |-> "mkdir", name |-> path, inode |-> inode]
              /\ tree' = Linked(path, inode)
              /\ used' = used \cup {inode}
    BY DEF Mkdir
  <1>2. /\ path \in Paths /\ fs.entries[path] = NoInode
        /\ fs.entries = tree.entries /\ fs.place[inode] # "linked"
        /\ \A d \in Dirs \ used : fs.place[d] # "linked"
    BY <1>1, LivePath, LinkedInode DEF Exists, InvWith, SnapshotOK
  <1>3. IsSnapshot(fs) /\ used' \subseteq Files \cup Dirs
    BY <1>1 DEF InvWith, SnapshotOK, TreeOK
  <1>4. get_disk_ops(line', how) = link_disk_ops(path, inode, "dir")
    BY <1>1 DEF get_disk_ops
  <1>. DEFINE e == [tree.entries EXCEPT ![path] = inode]
  <1>5. /\ IsSnapshot(gs) /\ gs.content = fs.content
        /\ gs.entries = e
        /\ \A d \in Dirs \ {inode} : gs.place[d] = "linked" => fs.place[d] = "linked"
    BY <1>2, <1>3, <1>4, MkdirReplays
  <1>6. \A d \in Dirs \ used' : gs.place[d] # "linked"
    BY <1>1, <1>2, <1>5
  <1>7. tree' = [entries |-> e, content |-> tree.content]
    BY <1>1 DEF Linked, InvWith, TreeOK
  <1>8. /\ e \in [Paths -> Inode] /\ e[path] = inode
        /\ \A p \in Paths \ {path} : e[p] = tree.entries[p]
        /\ \A p \in Paths : tree.entries[p] \in used \cup {NoInode}
    BY <1>2 DEF InvWith, TreeOK, Inode
  <1>. HIDE DEF e
  <1>9. /\ \A p \in Paths : e[p] \in used' \cup {NoInode}
        /\ \A p \in Paths \ {path, path} : e[p] = tree.entries[p]
        /\ \A p \in {path, path} : e[p] \in Files => e[p] \notin used \/ HasLink(e[p])
    BY <1>1, <1>8
  <1>. DEFINE lost == {}
  <1>10. /\ \A f \in Files \ lost : gs.content[f] = fs.content[f]
         /\ \A f \in lost : f \in used /\ \A p \in Paths : e[p] # f
         /\ used \subseteq used'
    BY <1>1, <1>5
  <1>. HIDE DEF lost
  <1>. QED BY <1>2, <1>3, <1>5, <1>6, <1>7, <1>8, <1>9, <1>10, EntriesStep

LEMMA RenameStep ==
    ASSUME NEW fs, InvWith(fs), NEW gs, Renames \subseteq {"file"}, NEW how \in Splits, Rename, gs = ReplayRows(fs, get_disk_ops(line', how))
    PROVE  NextInvWith(gs)
  <1>1. PICK source \in LivePaths, dest \in LivePaths :
              /\ CanRename(source, dest)
              /\ line' = RenameLine(source, dest)
              /\ tree' = IF InodeOf(source) = InodeOf(dest) THEN tree
                         ELSE [tree EXCEPT !.entries[dest] = InodeOf(source),
                                           !.entries[source] = NoInode]
              /\ UNCHANGED used
    BY DEF Rename
  <1>. DEFINE inode == InodeOf(source)
              there == InodeOf(dest)
              links == Hardlinks(dest)
              lost == IF links = 1 THEN {there} ELSE {}
              e == [tree.entries EXCEPT ![source] = NoInode, ![dest] = inode]
  <1>2. source # dest /\ inode # there /\ IsFile(source) /\ ~ IsDir(dest)
    BY <1>1 DEF CanRename
  <1>3. /\ source \in Paths /\ dest \in Paths
        /\ inode \in Files /\ inode \in used /\ inode # NoInode /\ HasLink(inode)
        /\ fs.entries[source] = inode /\ Size(source) \in Nat
    BY <1>1, <1>2, LivePath, LinkedInode
  <1>4. /\ fs.entries[dest] = there /\ there \in Files \cup {NoInode}
        /\ there \in used \cup {NoInode}
        /\ there # NoInode => there \in Files /\ IsFile(dest)
    BY <1>2, <1>3, LinkedInode DEF IsDir, IsFile
  <1>5. /\ there = NoInode => links = 0 /\ Size(dest) = 0
        /\ there # NoInode => Size(dest) = Len(fs.content[there]) /\ Size(dest) \in Nat
    <2>1. ASSUME there = NoInode PROVE links = 0 /\ Size(dest) = 0
      <3>1. ~ Exists(dest) /\ ~ IsFile(dest)
        BY <2>1, InodesAssumption DEF Exists, IsFile
      <3>. QED BY <3>1 DEF Hardlinks, Size
    <2>. QED BY <1>3, <1>4, <2>1, LinkedInode
  <1>6. \A f \in lost : f \in Files /\ f \in used /\ \A p \in Paths : InodeOf(p) = f => p = dest
    <2>1. SUFFICES ASSUME links = 1
                   PROVE  /\ there \in Files /\ there \in used
                          /\ \A p \in Paths : InodeOf(p) = there => p = dest
      OBVIOUS
    <2>2. there # NoInode
      BY <1>5, <2>1
    <2>. QED BY <1>3, <1>4, <2>1, <2>2, OnlyLink
  <1>7. tree.entries \in [Paths -> Inode] /\ fs.entries = tree.entries
        /\ \A p \in Paths : tree.entries[p] \in used \cup {NoInode}
    BY DEF InvWith, TreeOK, SnapshotOK
  <1>8. tree' = [entries |-> e, content |-> tree.content]
    <2>1. tree' = [tree EXCEPT !.entries[dest] = inode, !.entries[source] = NoInode]
      BY <1>1, <1>2
    <2>2. [[tree.entries EXCEPT ![dest] = inode] EXCEPT ![source] = NoInode] = e
      <3>. HIDE DEF inode
      <3>. QED BY <1>2, <1>3, <1>7
    <2>3. tree = [entries |-> tree.entries, content |-> tree.content]
      BY DEF InvWith, TreeOK
    <2>. HIDE DEF e, inode
    <2>. QED BY <2>1, <2>2, <2>3
  <1>9. IsSnapshot(fs) /\ used' = used /\ used' \subseteq Files \cup Dirs
    BY <1>1 DEF InvWith, SnapshotOK, TreeOK
  <1>. DEFINE call == line'
  <1>10. /\ call.op = "rename" /\ call.source = source /\ call.dest = dest
         /\ call.source_inode = inode /\ call.source_size = Size(source)
         /\ call.dest_inode = there /\ call.dest_size = Size(dest)
         /\ call.dest_hardlinks = links
    BY <1>1 DEF RenameLine
  <1>11. get_disk_ops(call, how) = rename_disk_ops(call, how)
    BY <1>10 DEF get_disk_ops
  <1>12. gs = ReplayRows(fs, rename_disk_ops(call, how))
    BY <1>11
  <1>. HIDE DEF call, inode, there, links
  <1>13. Size(dest) \in Nat /\ (links >= 1 => there \in Files)
         /\ (links = 1 => Size(dest) = Len(fs.content[there]))
    BY <1>4, <1>5
  <1>14. Between(fs, gs, source, dest, NoInode, inode, lost)
    <2>1. Between(fs, ReplayRows(fs, rename_disk_ops(call, how)),
                  call.source, call.dest, NoInode, call.source_inode,
                  IF call.dest_hardlinks = 1 THEN {call.dest_inode} ELSE {})
      BY <1>2, <1>3, <1>4, <1>9, <1>10, <1>13, SplitIs, RenameReplays
    <2>. QED BY <1>10, <1>12, <2>1
  <1>15. /\ IsSnapshot(gs) /\ gs.entries = e
         /\ \A f \in Files \ lost : gs.content[f] = fs.content[f]
         /\ \A d \in Dirs \ used' : gs.place[d] # "linked"
    BY <1>7, <1>9, <1>14 DEF Between, Follows, InvWith, SnapshotOK
  <1>16. /\ e \in [Paths -> Inode] /\ e[source] = NoInode /\ e[dest] = inode
         /\ \A p \in Paths \ {source, dest} : e[p] = tree.entries[p]
    BY <1>2, <1>3, <1>7 DEF Inode
  <1>. HIDE DEF e
  <1>17. /\ \A p \in Paths : e[p] \in used' \cup {NoInode}
         /\ \A p \in {source, dest} : e[p] \in Files => e[p] \notin used \/ HasLink(e[p])
    BY <1>3, <1>7, <1>9, <1>16, InodesAssumption
  <1>18. \A f \in lost : f \in used /\ \A p \in Paths : e[p] # f
    <2>1. \A f \in lost : f # inode /\ f # NoInode
      BY <1>2, <1>6, InodesAssumption DEF there, inode
    <2>. HIDE DEF lost
    <2>. QED BY <1>2, <1>6, <1>16, <2>1 DEF InodeOf
  <1>. HIDE DEF lost
  <1>. QED BY <1>3, <1>8, <1>9, <1>15, <1>16, <1>17, <1>18, EntriesStep

LEMMA TruncStep ==
    ASSUME NEW fs, InvWith(fs), NEW gs, NEW how \in Splits, Trunc, gs = ReplayRows(fs, get_disk_ops(line', how))
    PROVE  NextInvWith(gs)
  <1>1. PICK path \in LivePaths, size \in 0..MaxSize :
              /\ IsFile(path)
              /\ line' = [op |-> "trunc", inode |-> InodeOf(path),
                          initial_size |-> Size(path), final_size |-> size]
              /\ tree' = WithContent(InodeOf(path), Resized(tree.content[InodeOf(path)], size))
              /\ UNCHANGED used
    BY DEF Trunc
  <1>. DEFINE inode == InodeOf(path)
              c == tree.content[inode]
  <1>2. /\ inode \in Files /\ fs.content[inode] = c /\ IsSequence(c)
        /\ Size(path) = Len(fs.content[inode]) /\ size \in Nat
    BY <1>1, LivePath, LinkedInode, MaxSizeAssumption
  <1>3. IsSnapshot(fs) /\ used' = used
    BY <1>1 DEF InvWith, SnapshotOK
  <1>4. get_disk_ops(line', how) = trunc_disk_ops(inode, Size(path), size, how)
    BY <1>1 DEF get_disk_ops
  <1>5. tree' = WithContent(inode, Resized(c, size))
    BY <1>1
  <1>. HIDE DEF inode, c
  <1>6. gs = With(fs, inode, Resized(c, size))
    BY <1>2, <1>3, <1>4, SplitIs, TruncReplays
  <1>7. IsSequence(Resized(c, size))
    BY <1>2, ResizedIs
  <1>. QED BY <1>2, <1>3, <1>5, <1>6, <1>7, ContentStep

LEMMA WriteStep ==
    ASSUME NEW fs, InvWith(fs), NEW gs, NEW how \in Splits, WriteOrAppend, gs = ReplayRows(fs, get_disk_ops(line', how))
    PROVE  NextInvWith(gs)
  <1>1. PICK path \in LivePaths, offset \in 0..MaxSize, count \in 1..MaxSize,
             dump \in DumpOffsets :
              /\ IsFile(path)
              /\ offset + count <= Size(path) \/ offset = Size(path)
              /\ line' = [op |-> IF offset = Size(path) THEN "append" ELSE "write",
                          inode |-> InodeOf(path), offset |-> offset, count |-> count,
                          dump_offset |-> dump]
              /\ tree' = WithContent(InodeOf(path),
                            Overwritten(tree.content[InodeOf(path)], offset,
                                        [k \in 1..count |-> dump + k - 1]))
              /\ UNCHANGED used
    BY DEF WriteOrAppend
  <1>. DEFINE inode == InodeOf(path)
              c == tree.content[inode]
              call == line'
              data == Dumped(dump, count)
              bytes == Overwritten(c, offset, data)
              slices == Slices(how, offset, count)
              list == [k \in DOMAIN slices |-> DataWrite(call, slices[k])]
              again == IF how.expanded_atomicity THEN append_disk_ops(call, how) ELSE << >>
  <1>2. /\ inode \in Files /\ fs.content[inode] = c /\ IsSequence(c)
        /\ Size(path) = Len(c) /\ Len(c) \in Nat
        /\ offset \in Nat /\ count \in Nat /\ dump \in Nat
    BY <1>1, LivePath, LinkedInode, MaxSizeAssumption, DumpOffsetsAssumption
  <1>3. IsSnapshot(fs) /\ used' = used
    BY <1>1 DEF InvWith, SnapshotOK
  <1>4. tree' = WithContent(inode, bytes)
    BY <1>1 DEF Dumped
  <1>5. offset <= Len(c)
    BY <1>1, <1>2
  <1>6. /\ call \in WriteLine /\ call.inode = inode /\ call.offset = offset
        /\ call.count = count /\ call.dump_offset = dump
    BY <1>1, <1>2 DEF WriteLine
  <1>7. \/ call.op = "append" /\ get_disk_ops(call, how)
                                    = append_disk_ops(call, how) \o again
        \/ call.op = "write" /\ get_disk_ops(call, how) = list
    <2>1. call.op = "append" \/ call.op = "write"
      BY <1>6 DEF WriteLine
    <2>. HIDE DEF call
    <2>2. call.op = "append" => get_disk_ops(call, how) = append_disk_ops(call, how) \o again
      BY DEF get_disk_ops
    <2>3. call.op = "write" => get_disk_ops(call, how) = list
      BY <1>6 DEF get_disk_ops
    <2>. QED BY <2>1, <2>2, <2>3
  <1>8. gs = ReplayRows(fs, get_disk_ops(call, how))
    OBVIOUS
  <1>. HIDE DEF call, inode, c, data
  <1>9. IsSequence(data) /\ Len(data) = count
    BY <1>2, DumpedIs DEF data
  <1>10. IsSequence(bytes) /\ offset <= Len(bytes)
    <2>1. \A d : IsSequence(d) => /\ IsSequence(Overwritten(c, offset, d))
                                 /\ Len(Overwritten(c, offset, d))
                                      = Larger(Len(c), offset + Len(d))
      <3>. TAKE d
      <3>. HAVE IsSequence(d)
      <3>1. IsSequence(c) /\ offset \in Nat
        BY <1>2
      <3>. HIDE DEF bytes
      <3>. QED BY <3>1, OverwrittenIs, Zenon
    <2>3. IsSequence(bytes) /\ Len(bytes) = Larger(Len(c), offset + Len(data))
      BY <2>1, <1>9, Zenon
    <2>2. offset <= Larger(Len(c), offset + Len(data))
      BY <1>2, <1>5, <1>9 DEF Larger
    <2>. HIDE DEF bytes
    <2>. QED BY <2>3, <2>2
  <1>. DEFINE after == With(fs, inode, bytes)
  <1>11. /\ ReplayRows(fs, append_disk_ops(call, how)) = after
         /\ ReplayRows(fs, list) = after
    BY <1>2, <1>3, <1>5, <1>6, SplitIs, WriteReplays DEF data
  <1>12. /\ IsSnapshot(after) /\ after.content[inode] = bytes
         /\ \A b : With(after, inode, b) = With(fs, inode, b)
    <2>. HIDE DEF bytes
    <2>. QED BY <1>2, <1>3, <1>10, WithIs
  <1>13. ReplayRows(after, append_disk_ops(call, how)) = after
    <2>1. Overwritten(bytes, offset, data) = bytes
      BY <1>2, <1>9, OverwrittenTwice
    <2>. HIDE DEF after, bytes
    <2>2. ReplayRows(after, append_disk_ops(call, how))
             = With(after, inode, Overwritten(bytes, offset, data))
      BY <1>6, <1>10, <1>12, SplitIs, WriteReplays DEF data
    <2>. QED BY <1>12, <2>1, <2>2 DEF after
  <1>. HIDE DEF after, bytes, list
  <1>14. CASE call.op = "append" /\ get_disk_ops(call, how) = append_disk_ops(call, how) \o again
    <2>1. IsSequence(append_disk_ops(call, how)) /\ IsSequence(again)
      <3>1. IsSequence(append_disk_ops(call, how))
        BY <1>6, SplitIs, ProperWrite DEF Proper
      <3>2. IsSequence(<< >>)
        BY DEF IsSequence
      <3>. QED BY <3>1, <3>2
    <2>2. ReplayRows(after, again) = after
      BY <1>13, ReplayNone
    <2>. HIDE DEF again
    <2>3. gs = after
      BY <1>8, <1>11, <1>14, <2>1, <2>2, ReplayBoth
    <2>. QED BY <1>2, <1>3, <1>4, <1>10, <2>3, ContentStep DEF after
  <1>15. CASE call.op = "write" /\ get_disk_ops(call, how) = list
    <2>1. gs = after
      BY <1>8, <1>11, <1>15
    <2>. QED BY <1>2, <1>3, <1>4, <1>10, <2>1, ContentStep DEF after
  <1>. QED BY <1>7, <1>14, <1>15

LEMMA FlushStep ==
    ASSUME NEW fs, InvWith(fs), NEW gs, NEW how \in Splits, Fsync \/ FileSyncRange \/ Stdout, gs = ReplayRows(fs, get_disk_ops(line', how))
    PROVE  NextInvWith(gs)
  <1>1. UNCHANGED <<tree, used>>
    BY DEF Fsync, FileSyncRange, Stdout
  <1>2. fs.raised = FALSE
    BY DEF InvWith, SnapshotOK, IsSnapshot
  <1>. DEFINE call == line'
              whole == SyncRow(call.inode, 0, call.size)
              range == SyncRow(call.inode, call.offset, call.count)
              output == [op |-> "stdout"]
  <1>3. call.op \in {"fsync", "file_sync_range", "stdout"}
    BY DEF Fsync, FileSyncRange, Stdout
  <1>4. gs = ReplayRows(fs, get_disk_ops(call, how))
    OBVIOUS
  <1>. HIDE DEF call
  <1>5. /\ call.op = "fsync" => get_disk_ops(call, how) = <<whole>>
        /\ call.op = "file_sync_range" => get_disk_ops(call, how) = <<range>>
        /\ call.op = "stdout" => get_disk_ops(call, how) = <<output>>
    BY DEF get_disk_ops
  <1>6. whole.op = "sync" /\ range.op = "sync" /\ output.op = "stdout"
    BY DEF SyncRow
  <1>. HIDE DEF whole, range, output
  <1>7. \A row : row.op \in {"sync", "stdout"} => ReplayRow(fs, row) = fs
    BY <1>2 DEF ReplayRow
  <1>8. gs = fs
    BY <1>3, <1>4, <1>5, <1>6, <1>7, ReplayOne
  <1>. QED BY <1>1, <1>8, SyncStep

\* A call, and the replay of its rows.
LEMMA CallStep ==
    ASSUME Renames \subseteq {"file"}, NEW fs, InvWith(fs), NEW gs, NEW how \in Splits,
           MicroOp, gs = ReplayRows(fs, get_disk_ops(line', how))
    PROVE  NextInvWith(gs)
  <1>1. CASE Creat
    BY <1>1, CreatStep
  <1>2. CASE Unlink
    BY <1>2, UnlinkStep
  <1>3. CASE Link
    BY <1>3, LinkStep
  <1>4. CASE Rename
    BY <1>4, RenameStep
  <1>5. CASE Trunc
    BY <1>5, TruncStep
  <1>6. CASE WriteOrAppend
    BY <1>6, WriteStep
  <1>7. CASE Mkdir
    BY <1>7, MkdirStep
  <1>8. CASE Rmdir
    BY <1>8, RmdirStep
  <1>9. CASE Fsync \/ FileSyncRange \/ Stdout
    BY <1>9, FlushStep
  <1>. QED BY <1>1, <1>2, <1>3, <1>4, <1>5, <1>6, <1>7, <1>8, <1>9 DEF MicroOp

VerifyInv == InvWith(disk)

LEMMA NextVerifyInv == NextInvWith(disk') => VerifyInv'
  BY DEF NextInvWith, VerifyInv, InvWith

LEMMA VerifyStep ==
    ASSUME Renames \subseteq {"file"}, VerifyInv, [VerifyNext]_verifyVars
    PROVE  VerifyInv'
  <1>1. CASE UNCHANGED verifyVars
    <2>1. InvWith(disk) /\ UNCHANGED <<tree, used>> /\ disk' = disk
      BY <1>1 DEF VerifyInv, verifyVars, microVars
    <2>2. NextInvWith(disk')
      BY <2>1, SyncStep
    <2>. QED BY <2>2, NextVerifyInv
  <1>2. CASE \E how \in Splits :
                 MicroOp /\ disk' = ReplayRows(disk, get_disk_ops(line', how))
    <2>1. PICK how \in Splits :
                  MicroOp /\ disk' = ReplayRows(disk, get_disk_ops(line', how))
      BY <1>2
    <2>2. NextInvWith(disk')
      BY <2>1, CallStep DEF VerifyInv
    <2>. QED BY <2>2, NextVerifyInv
  <1>3. CASE Unrecorded /\ UNCHANGED disk
    <2>1. InvWith(disk) /\ UNCHANGED <<tree, used>> /\ disk' = disk
      BY <1>3 DEF VerifyInv, Unrecorded
    <2>2. NextInvWith(disk')
      BY <2>1, SyncStep
    <2>. QED BY <2>2, NextVerifyInv
  <1>. QED BY <1>1, <1>2, <1>3 DEF VerifyNext

\* ReplaysAgree: for files and traces of any size, and however the lines are
\* split, the disk operations can be replayed and make the tree that the micro
\* operations make, as long as only files are renamed.  (rename_disk_ops takes
\* its source for a file, and the name of another file: it makes a file of a
\* directory and loses one of two hard links; diskops.py:111-132, 270-383.)
THEOREM ReplaysAlwaysAgree ==
    ASSUME Renames \subseteq {"file"}
    PROVE  VerifySpec => []ReplaysAgree
  <1>1. VerifyInit => VerifyInv
    BY EmptyInv DEF VerifyInit, VerifyInv
  <1>2. VerifyInv /\ [VerifyNext]_verifyVars => VerifyInv'
    BY VerifyStep
  <1>3. VerifyInv => ReplaysAgree
    BY DEF VerifyInv, InvWith, SnapshotOK, ReplaysAgree, IsSnapshot, HasLink
  <1>. QED BY <1>1, <1>2, <1>3, PTL DEF VerifySpec

-----------------------------------------------------------------------------
(* What a rename passes through                                              *)

\* Where source and dest lead.
Pair(fs, source, dest) == <<fs.entries[source], fs.entries[dest]>>

\* Where they lead after ever more of the rows.
Ways(fs, list, source, dest) ==
    {Pair(ReplayRows(fs, SubSeq(list, 1, k)), source, dest) : k \in 0..Len(list)}

LEMMA PrefixOfBoth ==
    ASSUME NEW s, NEW t, IsSequence(s), IsSequence(t)
    PROVE  /\ \A k \in 0..Len(s) : SubSeq(s \o t, 1, k) = SubSeq(s, 1, k)
           /\ \A k \in 0..Len(t) : SubSeq(s \o t, 1, Len(s) + k) = s \o SubSeq(t, 1, k)
  <1>. DEFINE st == s \o t
  <1>1. /\ IsSequence(st) /\ Len(st) = Len(s) + Len(t)
        /\ \A i \in 1..Len(st) : st[i] = IF i <= Len(s) THEN s[i] ELSE t[i - Len(s)]
        /\ Len(s) \in Nat /\ Len(t) \in Nat
    BY Concatenated, InSeq
  <1>. HIDE DEF st
  <1>2. ASSUME NEW u, IsSequence(u), NEW k \in 0..Len(u)
        PROVE  /\ IsSequence(SubSeq(u, 1, k)) /\ Len(SubSeq(u, 1, k)) = k
               /\ \A i \in 1..k : SubSeq(u, 1, k)[i] = u[i]
    <2>1. Len(u) \in Nat /\ k \in Int /\ k <= Len(u) /\ 1 \in Int /\ 1 <= 1
      BY <1>2, InSeq
    <2>2. /\ IsSequence(SubSeq(u, 1, k))
          /\ Len(SubSeq(u, 1, k)) = IF 1 <= k THEN k - 1 + 1 ELSE 0
          /\ \A i \in 1..Len(SubSeq(u, 1, k)) : SubSeq(u, 1, k)[i] = u[1 + i - 1]
      BY <1>2, <2>1, Subsequence
    <2>3. Len(SubSeq(u, 1, k)) = k
      BY <1>2, <2>1, <2>2
    <2>4. \A i \in 1..k : 1 + i - 1 = i
      OBVIOUS
    <2>. QED BY <2>2, <2>3, <2>4
  <1>3. ASSUME NEW k \in 0..Len(s) PROVE SubSeq(st, 1, k) = SubSeq(s, 1, k)
    <2>1. k \in 0..Len(st) /\ \A i \in 1..k : i \in 1..Len(st) /\ i <= Len(s)
      BY <1>1
    <2>2. /\ IsSequence(SubSeq(st, 1, k)) /\ Len(SubSeq(st, 1, k)) = k
          /\ \A i \in 1..k : SubSeq(st, 1, k)[i] = st[i]
      BY <1>1, <1>2, <2>1
    <2>3. /\ IsSequence(SubSeq(s, 1, k)) /\ Len(SubSeq(s, 1, k)) = k
          /\ \A i \in 1..k : SubSeq(s, 1, k)[i] = s[i]
      BY <1>2
    <2>4. \A i \in 1..k : st[i] = s[i]
      BY <1>1, <2>1
    <2>. QED BY <2>2, <2>3, <2>4, SameSequence
  <1>4. ASSUME NEW k \in 0..Len(t) PROVE SubSeq(st, 1, Len(s) + k) = s \o SubSeq(t, 1, k)
    <2>. DEFINE m == Len(s) + k
                p == SubSeq(t, 1, k)
                q == SubSeq(st, 1, m)
    <2>1. m \in 0..Len(st) /\ m \in Nat
      BY <1>1
    <2>2. IsSequence(q) /\ Len(q) = m /\ \A i \in 1..m : q[i] = st[i]
      <3>. HIDE DEF m
      <3>. QED BY <1>1, <1>2, <2>1
    <2>3. IsSequence(p) /\ Len(p) = k /\ \A i \in 1..k : p[i] = t[i]
      BY <1>2
    <2>. HIDE DEF p, q
    <2>4. /\ IsSequence(s \o p) /\ Len(s \o p) = m
          /\ \A i \in 1..m : (s \o p)[i] = IF i <= Len(s) THEN s[i] ELSE p[i - Len(s)]
      BY <2>3, Concatenated
    <2>5. ASSUME NEW i \in 1..m PROVE (s \o p)[i] = st[i]
      <3>1. i \in 1..Len(st)
        BY <1>1
      <3>2. ~ (i <= Len(s)) => i - Len(s) \in 1..k
        BY <1>1
      <3>. QED BY <1>1, <2>3, <2>4, <3>1, <3>2
    <2>6. q = s \o p
      BY <2>2, <2>4, <2>5, SameSequence
    <2>. QED BY <2>6 DEF q, p
  <1>. QED BY <1>3, <1>4 DEF st

LEMMA WaysNone ==
    ASSUME NEW fs, NEW source, NEW dest
    PROVE  Ways(fs, << >>, source, dest) = {Pair(fs, source, dest)}
  <1>1. SubSeq(<< >>, 1, 0) = << >> /\ Len(<< >>) = 0
    OBVIOUS
  <1>2. ReplayRows(fs, SubSeq(<< >>, 1, 0)) = fs
    BY <1>1, ReplayNone
  <1>3. \A k : k \in 0..Len(<< >>) <=> k = 0
    BY <1>1
  <1>. QED BY <1>2, <1>3 DEF Ways

LEMMA WaysBoth ==
    ASSUME NEW fs, NEW s, NEW t, IsSequence(s), IsSequence(t), NEW source, NEW dest
    PROVE  Ways(fs, s \o t, source, dest)
               = Ways(fs, s, source, dest) \cup Ways(ReplayRows(fs, s), t, source, dest)
  <1>. DEFINE At(k) == Pair(ReplayRows(fs, SubSeq(s \o t, 1, k)), source, dest)
              A(k) == Pair(ReplayRows(fs, SubSeq(s, 1, k)), source, dest)
              B(k) == Pair(ReplayRows(ReplayRows(fs, s), SubSeq(t, 1, k)), source, dest)
  <1>1. Len(s) \in Nat /\ Len(t) \in Nat /\ Len(s \o t) = Len(s) + Len(t)
    BY InSeq, Concatenated
  <1>2. ASSUME NEW k \in 0..Len(s) PROVE At(k) = A(k)
    BY PrefixOfBoth
  <1>3. ASSUME NEW k \in 0..Len(t) PROVE At(Len(s) + k) = B(k)
    <2>1. SubSeq(s \o t, 1, Len(s) + k) = s \o SubSeq(t, 1, k)
      BY PrefixOfBoth
    <2>2. IsSequence(SubSeq(t, 1, k))
      BY <1>1, Subsequence
    <2>3. ReplayRows(fs, s \o SubSeq(t, 1, k)) = ReplayRows(ReplayRows(fs, s), SubSeq(t, 1, k))
      BY <2>2, ReplayBoth
    <2>. QED BY <2>1, <2>3
  <1>4. /\ Ways(fs, s \o t, source, dest) = {At(k) : k \in 0..Len(s \o t)}
        /\ Ways(fs, s, source, dest) = {A(k) : k \in 0..Len(s)}
        /\ Ways(ReplayRows(fs, s), t, source, dest) = {B(k) : k \in 0..Len(t)}
    BY DEF Ways
  <1>. HIDE DEF At, A, B
  <1>5. {At(k) : k \in 0..Len(s \o t)} \subseteq {A(k) : k \in 0..Len(s)} \cup {B(k) : k \in 0..Len(t)}
    <2>1. SUFFICES ASSUME NEW k \in 0..Len(s \o t)
                   PROVE  At(k) \in {A(i) : i \in 0..Len(s)} \cup {B(i) : i \in 0..Len(t)}
      OBVIOUS
    <2>2. CASE k <= Len(s)
      <3>1. k \in 0..Len(s)
        BY <1>1, <2>2
      <3>. QED BY <1>2, <3>1
    <2>3. CASE ~ (k <= Len(s))
      <3>1. k - Len(s) \in 0..Len(t) /\ Len(s) + (k - Len(s)) = k
        BY <1>1, <2>3
      <3>2. At(k) = B(k - Len(s))
        BY <1>3, <3>1
      <3>. QED BY <3>1, <3>2
    <2>. QED BY <2>2, <2>3
  <1>6. {A(k) : k \in 0..Len(s)} \subseteq {At(k) : k \in 0..Len(s \o t)}
    <2>1. \A k \in 0..Len(s) : k \in 0..Len(s \o t)
      BY <1>1
    <2>. QED BY <1>2, <2>1
  <1>7. {B(k) : k \in 0..Len(t)} \subseteq {At(k) : k \in 0..Len(s \o t)}
    <2>1. \A k \in 0..Len(t) : Len(s) + k \in 0..Len(s \o t)
      BY <1>1
    <2>. QED BY <1>3, <2>1
  <1>. QED BY <1>4, <1>5, <1>6, <1>7

LEMMA WaysOne ==
    ASSUME NEW fs, NEW row, NEW source, NEW dest
    PROVE  Ways(fs, <<row>>, source, dest)
               = {Pair(fs, source, dest), Pair(ReplayRow(fs, row), source, dest)}
  <1>1. Len(<<row>>) = 1 /\ SubSeq(<<row>>, 1, 0) = << >> /\ SubSeq(<<row>>, 1, 1) = <<row>>
    <2>. DEFINE one == <<row>>
    <2>1. IsSequence(one) /\ Len(one) = 1 /\ IsSequence(<< >>) /\ Len(<< >>) = 0
      BY DEF IsSequence
    <2>. HIDE DEF one
    <2>2. IsSequence(SubSeq(one, 1, 0)) /\ Len(SubSeq(one, 1, 0)) = 0
      BY <2>1, Subsequence
    <2>3. /\ IsSequence(SubSeq(one, 1, 1)) /\ Len(SubSeq(one, 1, 1)) = 1
          /\ \A i \in 1..1 : SubSeq(one, 1, 1)[i] = one[i]
      BY <2>1, Subsequence
    <2>4. SubSeq(one, 1, 0) = << >>
      BY <2>1, <2>2, SameSequence
    <2>5. SubSeq(one, 1, 1) = one
      BY <2>1, <2>3, SameSequence
    <2>. QED BY <2>1, <2>4, <2>5 DEF one
  <1>2. \A k : k \in 0..1 <=> k = 0 \/ k = 1
    OBVIOUS
  <1>3. /\ ReplayRows(fs, SubSeq(<<row>>, 1, 0)) = fs
        /\ ReplayRows(fs, SubSeq(<<row>>, 1, 1)) = ReplayRow(fs, row)
    BY <1>1, ReplayNone, ReplayOne
  <1>. QED BY <1>1, <1>2, <1>3 DEF Ways

\* Rows that make a file smaller.
Cuts(list, f) ==
    /\ IsSequence(list)
    /\ \A k \in 1..Len(list) : \E n \in Nat : list[k] = TruncateRow(f, n)

LEMMA UnlinkCuts ==
    ASSUME NEW how, how.splits \in Nat \ {0}, NEW f, NEW size \in Nat
    PROVE  Cuts(trunc_disk_ops(f, size, 0, how), f)
  <1>. DEFINE slices == Slices(how, 0, size)
              list == [k \in DOMAIN slices |-> TruncateRow(f, slices[k].start)]
              back == Reverse(list)
  <1>1. /\ IsSequence(slices) /\ Len(slices) \in Nat /\ DOMAIN slices = 1..Len(slices)
        /\ \A k \in 1..Len(slices) : slices[k].start \in Nat
    BY SlicesAreProper, InSeq DEF IsSlice
  <1>2. trunc_disk_ops(f, size, 0, how) = back
    <2>1. 0 <= size /\ size - 0 = size
      OBVIOUS
    <2>. QED BY <2>1 DEF trunc_disk_ops, ShrinkRows
  <1>. HIDE DEF slices
  <1>3. /\ list = [k \in 1..Len(slices) |-> list[k]]
        /\ \A k \in 1..Len(slices) : \E n \in Nat : list[k] = TruncateRow(f, n)
    BY <1>1
  <1>. HIDE DEF list
  <1>4. Len(list) = Len(slices)
    BY <1>1, <1>3, OnInterval
  <1>5. back = [k \in 1..Len(list) |-> back[k]]
        /\ \A k \in 1..Len(list) : \E n \in Nat : back[k] = TruncateRow(f, n)
    <2>1. \A k \in 1..Len(list) : (Len(list) - k) + 1 \in 1..Len(list)
      BY <1>1, <1>4
    <2>2. back = [k \in 1..Len(list) |-> list[(Len(list) - k) + 1]]
      BY DEF Reverse
    <2>. HIDE DEF back
    <2>. QED BY <1>3, <1>4, <2>1, <2>2
  <1>. HIDE DEF back
  <1>6. IsSequence(back) /\ Len(back) = Len(list)
    BY <1>1, <1>4, <1>5, OnInterval
  <1>. QED BY <1>2, <1>5, <1>6 DEF Cuts

\* They change no entry.
LEMMA CutsReplay ==
    ASSUME NEW f \in Files, NEW fs, IsSnapshot(fs), NEW list, Cuts(list, f)
    PROVE  LET s == ReplayRows(fs, list)
           IN  IsSnapshot(s) /\ s.entries = fs.entries /\ s.place = fs.place
  <1>1. PICK after : Replays(fs, list, after)
    BY ReplaysExist DEF Cuts
  <1>. DEFINE Same(s) == IsSnapshot(s) /\ s.entries = fs.entries /\ s.place = fs.place
              T == {k \in Nat : k <= Len(list) => Same(after[k])}
  <1>2. Len(list) \in Nat
    BY InSeq DEF Cuts
  <1>3. 0 \in T
    BY <1>1 DEF Replays
  <1>4. ASSUME NEW k \in Nat, k \in T PROVE k + 1 \in T
    <2>1. SUFFICES ASSUME k + 1 <= Len(list) PROVE Same(after[k + 1])
      OBVIOUS
    <2>2. k + 1 \in 1..Len(list) /\ (k + 1) - 1 = k /\ k <= Len(list)
      BY <1>2, <2>1
    <2>3. Same(after[k])
      BY <1>4, <2>2
    <2>. DEFINE s == after[k]
    <2>4. PICK n \in Nat : list[k + 1] = TruncateRow(f, n)
      BY <2>2 DEF Cuts
    <2>5. after[k + 1] = ReplayRow(s, TruncateRow(f, n))
      BY <1>1, <2>2, <2>4 DEF Replays
    <2>. HIDE DEF s
    <2>6. after[k + 1] = With(s, f, Resized(s.content[f], n))
      BY <2>3, <2>5, TruncateIs DEF s
    <2>7. IsSequence(Resized(s.content[f], n))
      <3>1. IsSequence(s.content[f])
        BY <2>3 DEF s, IsSnapshot
      <3>. QED BY <3>1, ResizedIs
    <2>. DEFINE bytes == Resized(s.content[f], n)
    <2>. HIDE DEF bytes
    <2>8. Same(With(s, f, bytes))
      BY <2>3, <2>7, WithIs DEF s, bytes
    <2>. QED BY <2>6, <2>8 DEF bytes
  <1>5. Len(list) \in T
    <2>. HIDE DEF T
    <2>. QED BY <1>2, <1>3, <1>4, Current!NatSetInduction
  <1>. QED BY <1>1, <1>2, <1>5 DEF Replays

LEMMA WaysCuts ==
    ASSUME NEW f \in Files, NEW fs, IsSnapshot(fs), NEW list, Cuts(list, f),
           NEW source, NEW dest
    PROVE  Ways(fs, list, source, dest) = {Pair(fs, source, dest)}
  <1>1. Len(list) \in Nat /\ IsSequence(list)
    BY InSeq DEF Cuts
  <1>2. ASSUME NEW k \in 0..Len(list)
        PROVE  Pair(ReplayRows(fs, SubSeq(list, 1, k)), source, dest) = Pair(fs, source, dest)
    <2>. DEFINE p == SubSeq(list, 1, k)
    <2>0. k \in Int /\ k <= Len(list) /\ 1 \in Int /\ 1 <= 1
      BY <1>1
    <2>1. /\ IsSequence(p) /\ Len(p) = IF 1 <= k THEN k - 1 + 1 ELSE 0
          /\ \A i \in 1..Len(p) : p[i] = list[1 + i - 1] /\ 1 + i - 1 \in 1..Len(list)
      BY <1>1, <2>0, Subsequence
    <2>. HIDE DEF p
    <2>2. Cuts(p, f)
      BY <2>1 DEF Cuts
    <2>3. ReplayRows(fs, p).entries = fs.entries
      BY <2>2, CutsReplay
    <2>. QED BY <2>3 DEF Pair, p
  <1>3. 0 \in 0..Len(list)
    BY <1>1
  <1>. QED BY <1>2, <1>3 DEF Ways

\* A file is unlinked: the path leads where it led, and then nowhere.
LEMMA UnlinkWays ==
    ASSUME NEW how, how.splits \in Nat \ {0}, NEW fs, IsSnapshot(fs),
           NEW path \in Paths, fs.entries[path] \notin Dirs, NEW inode \in Files,
           NEW hardlinks, NEW size \in Nat, NEW source, NEW dest
    PROVE  LET list == unlink_disk_ops(path, inode, size, hardlinks, "file", how)
               s == ReplayRows(fs, list)
           IN  /\ Follows(fs, s, [fs.entries EXCEPT ![path] = NoInode], Files)
               /\ Ways(fs, list, source, dest)
                     = {Pair(fs, source, dest), Pair(s, source, dest)}
  <1>. DEFINE row == DirEntryRow("delete_dir_entry", path, inode, "file")
              cut == IF hardlinks = 1 THEN trunc_disk_ops(inode, size, 0, how) ELSE << >>
              s == ReplayRows(fs, cut)
              t == ReplayRow(s, row)
  <1>1. unlink_disk_ops(path, inode, size, hardlinks, "file", how) = cut \o <<row>>
    BY DEF unlink_disk_ops
  <1>2. Cuts(cut, inode)
    <2>1. Cuts(<< >>, inode)
      BY DEF Cuts, IsSequence
    <2>. QED BY <2>1, UnlinkCuts
  <1>3. IsSequence(cut) /\ IsSequence(<<row>>)
    BY <1>2 DEF Cuts, IsSequence
  <1>. HIDE DEF cut, row
  <1>4. IsSnapshot(s) /\ s.entries = fs.entries /\ s.place = fs.place
    BY <1>2, CutsReplay
  <1>5. Ways(fs, cut, source, dest) = {Pair(fs, source, dest)}
    BY <1>2, WaysCuts
  <1>. HIDE DEF s
  <1>6. ReplayRows(fs, cut \o <<row>>) = t
    <2>1. ReplayRows(fs, cut \o <<row>>) = ReplayRows(s, <<row>>)
      BY <1>3, ReplayBoth DEF s
    <2>. QED BY <2>1, ReplayOne
  <1>7. Follows(s, t, [s.entries EXCEPT ![path] = NoInode], Files)
    BY <1>4, FileEntryIs DEF row
  <1>. HIDE DEF t
  <1>8. Follows(fs, t, [fs.entries EXCEPT ![path] = NoInode], Files)
    BY <1>4, <1>7 DEF Follows
  <1>9. Ways(fs, cut \o <<row>>, source, dest)
            = {Pair(fs, source, dest), Pair(t, source, dest)}
    <2>1. Ways(fs, cut \o <<row>>, source, dest)
            = Ways(fs, cut, source, dest) \cup Ways(s, <<row>>, source, dest)
      BY <1>3, WaysBoth DEF s
    <2>2. Ways(s, <<row>>, source, dest) = {Pair(s, source, dest), Pair(t, source, dest)}
      BY WaysOne DEF t
    <2>3. Pair(s, source, dest) = Pair(fs, source, dest)
      BY <1>4 DEF Pair
    <2>. QED BY <1>5, <2>1, <2>2, <2>3
  <1>. QED BY <1>1, <1>6, <1>8, <1>9

LEMMA LinkWays ==
    ASSUME NEW fs, IsSnapshot(fs), NEW path \in Paths, fs.entries[path] \notin Dirs,
           NEW inode \in Files, NEW source, NEW dest
    PROVE  LET list == link_disk_ops(path, inode, "file")
               s == ReplayRows(fs, list)
           IN  /\ Follows(fs, s, [fs.entries EXCEPT ![path] = inode], Files)
               /\ Ways(fs, list, source, dest)
                     = {Pair(fs, source, dest), Pair(s, source, dest)}
  <1>. DEFINE row == DirEntryRow("create_dir_entry", path, inode, "file")
  <1>1. Follows(fs, ReplayRow(fs, row), [fs.entries EXCEPT ![path] = inode], Files)
    BY FileEntryIs
  <1>2. link_disk_ops(path, inode, "file") = <<row>>
    BY DEF link_disk_ops
  <1>. HIDE DEF row
  <1>3. ReplayRows(fs, <<row>>) = ReplayRow(fs, row)
    BY ReplayOne
  <1>. QED BY <1>1, <1>2, <1>3, WaysOne

\* What the line of a rename says.
IsRename(call) ==
    /\ call.source \in Paths /\ call.dest \in Paths /\ call.source # call.dest
    /\ call.source_inode \in Files /\ call.source_size \in Nat /\ call.dest_size \in Nat
    /\ IF call.dest_hardlinks >= 1 THEN call.dest_inode \in Files
                                   ELSE call.dest_inode = NoInode

\* An expanded rename passes through all that its two paths can lead to.
LEMMA RenameWays ==
    ASSUME NEW how, how.splits \in Nat \ {0}, how.expanded_atomicity,
           NEW fs, IsSnapshot(fs),
           NEW call, IsRename(call), fs.entries[call.source] = call.source_inode,
           fs.entries[call.dest] = call.dest_inode
    PROVE  Ways(fs, rename_disk_ops(call, how), call.source, call.dest)
               = {call.source_inode, NoInode} \X {call.source_inode, call.dest_inode, NoInode}
  <1>. DEFINE source == call.source
              dest == call.dest
              inode == call.source_inode
              there == call.dest_inode
              links == call.dest_hardlinks
              unlink_source == unlink_disk_ops(source, inode, call.source_size, 2, "file", how)
              link_source == link_disk_ops(source, inode, "file")
              unlink_dest == IF links >= 1
                             THEN unlink_disk_ops(dest, there, call.dest_size, links, "file", how)
                             ELSE << >>
              link_dest == link_disk_ops(dest, inode, "file")
              On(s, x, y) == Between(fs, s, source, dest, x, y, Files)
              W(s, list) == Ways(s, list, source, dest)
  <1>1. rename_disk_ops(call, how) = unlink_source \o unlink_dest \o link_source
                                     \o unlink_source \o link_dest \o link_source \o unlink_source
    BY DEF rename_disk_ops
  <1>2. /\ IsSequence(unlink_source) /\ IsSequence(unlink_dest)
        /\ IsSequence(link_source) /\ IsSequence(link_dest)
    <2>0. call.source_size \in Nat /\ call.dest_size \in Nat
      BY DEF IsRename
    <2>1. IsSequence(unlink_source)
      BY <2>0, ProperUnlink DEF Proper
    <2>2. IsSequence(link_source) /\ IsSequence(link_dest)
      BY ProperLink DEF Proper
    <2>3. IsSequence(unlink_dest)
      BY <2>0, ProperUnlink, ProperEmpty DEF Proper
    <2>. QED BY <2>1, <2>2, <2>3
  <1>3. /\ source \in Paths /\ dest \in Paths /\ source # dest
        /\ inode \in Files /\ inode \notin Dirs /\ NoInode \notin Dirs /\ there \notin Dirs
        /\ fs.entries[source] = inode /\ fs.entries[dest] = there
        /\ IF links >= 1 THEN there \in Files ELSE there = NoInode
        /\ call.source_size \in Nat /\ call.dest_size \in Nat
    BY InodesAssumption DEF IsRename
  <1>. HIDE DEF source, dest, inode, there, links
  <1>4. ASSUME NEW s, NEW x, NEW y, On(s, x, y)
        PROVE  IsSnapshot(s) /\ Pair(s, source, dest) = <<x, y>>
               /\ s.entries[source] = x /\ s.entries[dest] = y
    BY <1>3, <1>4, BetweenIs DEF Pair
  <1>5. ASSUME NEW s, NEW x, NEW y, On(s, x, y), x \notin Dirs, NEW list, NEW z,
               (list = unlink_source /\ z = NoInode) \/ (list = link_source /\ z = inode)
        PROVE  On(ReplayRows(s, list), z, y) /\ W(s, list) = {<<x, y>>, <<z, y>>}
    <2>. DEFINE t == ReplayRows(s, list)
    <2>1. IsSnapshot(s) /\ s.entries[source] = x /\ Pair(s, source, dest) = <<x, y>>
      BY <1>4, <1>5
    <2>2. /\ Follows(s, t, [s.entries EXCEPT ![source] = z], Files)
          /\ W(s, list) = {Pair(s, source, dest), Pair(t, source, dest)}
      <3>1. CASE list = unlink_source /\ z = NoInode
        BY <1>3, <1>5, <2>1, <3>1, UnlinkWays
      <3>2. CASE list = link_source /\ z = inode
        BY <1>3, <1>5, <2>1, <3>2, LinkWays
      <3>. QED BY <1>5, <3>1, <3>2
    <2>. HIDE DEF t, unlink_source, link_source
    <2>3. On(t, z, y)
      BY <1>3, <1>5, <2>2, SourceChanges
    <2>4. Pair(t, source, dest) = <<z, y>>
      BY <1>4, <2>3
    <2>. QED BY <2>1, <2>2, <2>3, <2>4 DEF t
  <1>6. ASSUME NEW s, NEW x, NEW y, On(s, x, y), y \notin Dirs
        PROVE  On(ReplayRows(s, link_dest), x, inode)
               /\ W(s, link_dest) = {<<x, y>>, <<x, inode>>}
    <2>. DEFINE t == ReplayRows(s, link_dest)
    <2>1. IsSnapshot(s) /\ s.entries[dest] = y /\ Pair(s, source, dest) = <<x, y>>
      BY <1>4, <1>6
    <2>2. /\ Follows(s, t, [s.entries EXCEPT ![dest] = inode], Files)
          /\ W(s, link_dest) = {Pair(s, source, dest), Pair(t, source, dest)}
      BY <1>3, <1>6, <2>1, LinkWays
    <2>. HIDE DEF t, link_dest
    <2>3. On(t, x, inode)
      BY <1>3, <1>6, <2>2, DestChanges
    <2>4. Pair(t, source, dest) = <<x, inode>>
      BY <1>4, <2>3
    <2>. QED BY <2>1, <2>2, <2>3, <2>4 DEF t
  <1>7. ASSUME NEW s, NEW x, On(s, x, there)
        PROVE  On(ReplayRows(s, unlink_dest), x, NoInode)
               /\ W(s, unlink_dest) = {<<x, there>>, <<x, NoInode>>}
    <2>. DEFINE t == ReplayRows(s, unlink_dest)
    <2>1. IsSnapshot(s) /\ s.entries[dest] = there /\ Pair(s, source, dest) = <<x, there>>
      BY <1>4, <1>7
    <2>2. CASE links >= 1
      <3>1. there \in Files
        BY <1>3, <2>2
      <3>2. /\ Follows(s, t, [s.entries EXCEPT ![dest] = NoInode], Files)
            /\ W(s, unlink_dest) = {Pair(s, source, dest), Pair(t, source, dest)}
        <4>. DEFINE gone == unlink_disk_ops(dest, there, call.dest_size, links, "file", how)
        <4>1. unlink_dest = gone
          BY <2>2
        <4>. HIDE DEF unlink_dest
        <4>2. /\ Follows(s, ReplayRows(s, gone), [s.entries EXCEPT ![dest] = NoInode], Files)
              /\ Ways(s, gone, source, dest)
                    = {Pair(s, source, dest), Pair(ReplayRows(s, gone), source, dest)}
          BY <1>3, <2>1, <3>1, UnlinkWays
        <4>. HIDE DEF gone
        <4>. QED BY <4>1, <4>2
      <3>. HIDE DEF t, unlink_dest
      <3>3. On(t, x, NoInode)
        BY <1>3, <1>7, <3>2, DestChanges
      <3>4. Pair(t, source, dest) = <<x, NoInode>>
        BY <1>4, <3>3
      <3>. QED BY <2>1, <3>2, <3>3, <3>4 DEF t
    <2>3. CASE ~ (links >= 1)
      <3>1. unlink_dest = << >> /\ there = NoInode
        BY <1>3, <2>3
      <3>2. t = s
        BY <3>1, ReplayNone
      <3>3. W(s, unlink_dest) = {Pair(s, source, dest)}
        BY <3>1, WaysNone
      <3>. HIDE DEF t, unlink_dest, W
      <3>. QED BY <1>7, <2>1, <3>1, <3>2, <3>3 DEF t
    <2>. QED BY <2>2, <2>3
  <1>. HIDE DEF unlink_source, unlink_dest, link_source, link_dest, On
  <1>. DEFINE s1 == ReplayRows(fs, unlink_source)
              s2 == ReplayRows(s1, unlink_dest)
              s3 == ReplayRows(s2, link_source)
              s4 == ReplayRows(s3, unlink_source)
              s5 == ReplayRows(s4, link_dest)
              s6 == ReplayRows(s5, link_source)
              s7 == ReplayRows(s6, unlink_source)
  <1>8. On(fs, inode, there)
    BY <1>3, BetweenSame DEF On
  <1>. HIDE DEF W
  <1>9. On(s1, NoInode, there) /\ W(fs, unlink_source) = {<<inode, there>>, <<NoInode, there>>}
    BY <1>3, <1>5, <1>8
  <1>. HIDE DEF s1
  <1>10. On(s2, NoInode, NoInode)
         /\ W(s1, unlink_dest) = {<<NoInode, there>>, <<NoInode, NoInode>>}
    BY <1>7, <1>9
  <1>. HIDE DEF s2
  <1>11. On(s3, inode, NoInode)
         /\ W(s2, link_source) = {<<NoInode, NoInode>>, <<inode, NoInode>>}
    BY <1>3, <1>5, <1>10
  <1>. HIDE DEF s3
  <1>12. On(s4, NoInode, NoInode)
         /\ W(s3, unlink_source) = {<<inode, NoInode>>, <<NoInode, NoInode>>}
    BY <1>3, <1>5, <1>11
  <1>. HIDE DEF s4
  <1>13. On(s5, NoInode, inode)
         /\ W(s4, link_dest) = {<<NoInode, NoInode>>, <<NoInode, inode>>}
    BY <1>3, <1>6, <1>12
  <1>. HIDE DEF s5
  <1>14. On(s6, inode, inode)
         /\ W(s5, link_source) = {<<NoInode, inode>>, <<inode, inode>>}
    BY <1>3, <1>5, <1>13
  <1>. HIDE DEF s6
  <1>15. W(s6, unlink_source) = {<<inode, inode>>, <<NoInode, inode>>}
    BY <1>3, <1>5, <1>14
  <1>16. ASSUME NEW list, NEW s, IsSequence(list), s = ReplayRows(fs, list),
                NEW more, IsSequence(more)
         PROVE  /\ IsSequence(list \o more) /\ ReplayRows(s, more) = ReplayRows(fs, list \o more)
                /\ W(fs, list \o more) = W(fs, list) \cup W(s, more)
    BY <1>16, Concatenated, ReplayBoth, WaysBoth DEF W
  <1>. DEFINE r1 == unlink_source
              r2 == r1 \o unlink_dest
              r3 == r2 \o link_source
              r4 == r3 \o unlink_source
              r5 == r4 \o link_dest
              r6 == r5 \o link_source
              r7 == r6 \o unlink_source
  <1>17. IsSequence(r1) /\ s1 = ReplayRows(fs, r1)
    BY <1>2 DEF s1
  <1>18. W(fs, r1) = {<<inode, there>>, <<NoInode, there>>}
    BY <1>9
  <1>. HIDE DEF r1
  <1>19. /\ IsSequence(r2) /\ s2 = ReplayRows(fs, r2)
         /\ W(fs, r2) = W(fs, r1) \cup W(s1, unlink_dest)
    BY <1>2, <1>16, <1>17 DEF s2
  <1>. HIDE DEF r2
  <1>20. /\ IsSequence(r3) /\ s3 = ReplayRows(fs, r3)
         /\ W(fs, r3) = W(fs, r2) \cup W(s2, link_source)
    BY <1>2, <1>16, <1>19 DEF s3
  <1>. HIDE DEF r3
  <1>21. /\ IsSequence(r4) /\ s4 = ReplayRows(fs, r4)
         /\ W(fs, r4) = W(fs, r3) \cup W(s3, unlink_source)
    BY <1>2, <1>16, <1>20 DEF s4
  <1>. HIDE DEF r4
  <1>22. /\ IsSequence(r5) /\ s5 = ReplayRows(fs, r5)
         /\ W(fs, r5) = W(fs, r4) \cup W(s4, link_dest)
    BY <1>2, <1>16, <1>21 DEF s5
  <1>. HIDE DEF r5
  <1>23. /\ IsSequence(r6) /\ s6 = ReplayRows(fs, r6)
         /\ W(fs, r6) = W(fs, r5) \cup W(s5, link_source)
    BY <1>2, <1>16, <1>22 DEF s6
  <1>. HIDE DEF r6
  <1>24. W(fs, r7) = W(fs, r6) \cup W(s6, unlink_source)
    BY <1>2, <1>16, <1>23
  <1>25. W(fs, r7) = {<<inode, there>>, <<NoInode, there>>, <<NoInode, NoInode>>,
                      <<inode, NoInode>>, <<NoInode, inode>>, <<inode, inode>>}
    <2>. HIDE DEF r7
    <2>. QED BY <1>10, <1>11, <1>12, <1>13, <1>14, <1>15, <1>18, <1>19, <1>20, <1>21, <1>22,
                <1>23, <1>24
  <1>26. {<<inode, there>>, <<NoInode, there>>, <<NoInode, NoInode>>,
          <<inode, NoInode>>, <<NoInode, inode>>, <<inode, inode>>}
             = {inode, NoInode} \X {inode, there, NoInode}
    OBVIOUS
  <1>27. rename_disk_ops(call, how) = r7
    BY <1>1 DEF r1, r2, r3, r4, r5, r6
  <1>. HIDE DEF r7
  <1>28. W(fs, rename_disk_ops(call, how)) = {inode, NoInode} \X {inode, there, NoInode}
    BY <1>25, <1>26, <1>27
  <1>. QED BY <1>28 DEF W, inode, there, source, dest

RenameLineOK == line.op = "rename" => IsRename(line)

LEMMA LinksCounted ==
    ASSUME VerifyInv, NEW path \in Paths, IsFile(path)
    PROVE  Hardlinks(path) \in Nat /\ Hardlinks(path) >= 1
  <1>. DEFINE S == {p \in Paths : InodeOf(p) = InodeOf(path)}
  <1>1. InodeOf(path) # NoInode /\ ~ IsDir(path)
    BY InodesAssumption DEF IsFile, IsDir
  <1>2. Hardlinks(path) = Cardinality(S)
    BY <1>1 DEF Hardlinks, Exists
  <1>3. IsFiniteSet(S)
    <2>1. S \subseteq {p \in Paths : tree.entries[p] # NoInode}
      BY <1>1 DEF InodeOf
    <2>. HIDE DEF S
    <2>. QED BY <2>1, FS_Subset DEF VerifyInv, InvWith, FinitelyMany
  <1>4. path \in S
    OBVIOUS
  <1>. HIDE DEF S
  <1>5. Cardinality(S) \in Nat /\ Cardinality(S) # 0
    BY <1>3, <1>4, FS_CardinalityType, FS_EmptySet
  <1>. QED BY <1>2, <1>5

LEMMA RenameLineStep ==
    ASSUME Renames \subseteq {"file"}, VerifyInv, RenameLineOK, [VerifyNext]_verifyVars
    PROVE  RenameLineOK'
  <1>1. CASE UNCHANGED verifyVars
    BY <1>1 DEF verifyVars, microVars, RenameLineOK
  <1>2. CASE Rename
    <2>1. PICK source \in LivePaths, dest \in LivePaths :
              CanRename(source, dest) /\ line' = RenameLine(source, dest)
      BY <1>2 DEF Rename
    <2>2. source # dest /\ IsFile(source) /\ ~ IsDir(dest)
      BY <2>1 DEF CanRename
    <2>3. source \in Paths /\ dest \in Paths
      BY LivePath
    <2>4. InodeOf(source) \in Files /\ Size(source) \in Nat
      BY <2>2, <2>3, LinkedInode DEF VerifyInv
    <2>5. IF Hardlinks(dest) >= 1 THEN InodeOf(dest) \in Files ELSE InodeOf(dest) = NoInode
      <3>1. CASE IsFile(dest)
        BY <2>3, <3>1, LinksCounted, LinkedInode DEF VerifyInv
      <3>2. CASE ~ IsFile(dest)
        <4>1. InodeOf(dest) = NoInode
          BY <2>2, <2>3, <3>2, LinkedInode DEF VerifyInv, IsFile, IsDir
        <4>2. Hardlinks(dest) = 0
          BY <4>1 DEF Hardlinks, Exists
        <4>. QED BY <4>1, <4>2
      <3>. QED BY <3>1, <3>2
    <2>6. Size(dest) \in Nat
      <3>1. CASE IsFile(dest)
        BY <2>3, <3>1, LinkedInode DEF VerifyInv
      <3>2. CASE ~ IsFile(dest)
        BY <3>2 DEF Size
      <3>. QED BY <3>1, <3>2
    <2>. DEFINE call == line'
    <2>7. /\ call.source = source /\ call.dest = dest
          /\ call.source_inode = InodeOf(source) /\ call.source_size = Size(source)
          /\ call.dest_inode = InodeOf(dest) /\ call.dest_size = Size(dest)
          /\ call.dest_hardlinks = Hardlinks(dest)
      BY <2>1 DEF RenameLine
    <2>. HIDE DEF call
    <2>8. IsRename(call)
      BY <2>2, <2>3, <2>4, <2>5, <2>6, <2>7 DEF IsRename
    <2>. QED BY <2>8 DEF RenameLineOK, call
  <1>3. CASE VerifyNext /\ ~ Rename
    <2>1. /\ Creat => line'.op # "rename"
          /\ Unlink => line'.op # "rename"
          /\ Link => line'.op # "rename"
          /\ Trunc => line'.op # "rename"
      BY DEF Creat, Unlink, Link, Trunc
    <2>2. WriteOrAppend => line'.op # "rename"
      BY DEF WriteOrAppend
    <2>3. /\ Mkdir => line'.op # "rename"
          /\ Rmdir => line'.op # "rename"
      BY DEF Mkdir, Rmdir
    <2>4. /\ Fsync => line'.op # "rename"
          /\ FileSyncRange => line'.op # "rename"
          /\ Stdout => line'.op # "rename"
          /\ Unrecorded => line'.op # "rename"
      BY DEF Fsync, FileSyncRange, Stdout, Unrecorded, NoLine
    <2>5. line'.op # "rename"
      <3>1. MicroOp \/ Unrecorded
        BY <1>3 DEF VerifyNext
      <3>. QED BY <1>3, <2>1, <2>2, <2>3, <2>4, <3>1 DEF MicroOp
    <2>. QED BY <2>5 DEF RenameLineOK
  <1>. QED BY <1>1, <1>2, <1>3

LEMMA RenameLinePasses ==
    ASSUME VerifyInv, RenameLineOK PROVE RenamePassesThrough
  <1>1. SUFFICES ASSUME line.op = "rename", line.source_inode # line.dest_inode,
                        NEW how \in Splits, how.expanded_atomicity
                 PROVE  LET list == get_disk_ops(line, how)
                            before == [disk EXCEPT !.entries[line.source] = line.source_inode,
                                                   !.entries[line.dest] = line.dest_inode]
                            at(k) == LET entries == ReplayRows(before, SubSeq(list, 1, k)).entries
                                     IN  <<entries[line.source], entries[line.dest]>>
                        IN  {at(k) : k \in 0..Len(list)} =
                              {line.source_inode, NoInode}
                                  \X {line.source_inode, line.dest_inode, NoInode}
    BY DEF RenamePassesThrough
  <1>. DEFINE list == get_disk_ops(line, how)
              first == [disk EXCEPT !.entries[line.source] = line.source_inode]
              before == [disk EXCEPT !.entries[line.source] = line.source_inode,
                                     !.entries[line.dest] = line.dest_inode]
  <1>0. IsRename(line) /\ IsSnapshot(disk)
    BY <1>1 DEF RenameLineOK, VerifyInv, InvWith, SnapshotOK
  <1>2. /\ line.source \in Paths /\ line.dest \in Paths /\ line.source # line.dest
        /\ line.source_inode \in Files
        /\ line.dest_inode \in Files \/ line.dest_inode = NoInode
    BY <1>0 DEF IsRename
  <1>3. line.source_inode \in Inode /\ line.dest_inode \in Inode
    BY <1>2 DEF Inode
  <1>4. IsSnapshot(first) /\ first.entries = [disk.entries EXCEPT ![line.source] = line.source_inode]
    BY <1>0, <1>2, <1>3, EntryIs
  <1>5. before = [first EXCEPT !.entries[line.dest] = line.dest_inode]
    OBVIOUS
  <1>. HIDE DEF first, before
  <1>6. IsSnapshot(before) /\ before.entries = [first.entries EXCEPT ![line.dest] = line.dest_inode]
    BY <1>2, <1>3, <1>4, <1>5, EntryIs
  <1>7. before.entries[line.source] = line.source_inode
        /\ before.entries[line.dest] = line.dest_inode
    BY <1>0, <1>2, <1>4, <1>6 DEF IsSnapshot
  <1>8. list = rename_disk_ops(line, how)
    BY <1>1 DEF get_disk_ops
  <1>. HIDE DEF list
  <1>9. Ways(before, list, line.source, line.dest)
            = {line.source_inode, NoInode} \X {line.source_inode, line.dest_inode, NoInode}
    <2>1. ASSUME NEW call, IsRename(call), before.entries[call.source] = call.source_inode,
                 before.entries[call.dest] = call.dest_inode
          PROVE  Ways(before, rename_disk_ops(call, how), call.source, call.dest)
                    = {call.source_inode, NoInode}
                          \X {call.source_inode, call.dest_inode, NoInode}
      <3>1. how.splits \in Nat \ {0} /\ how.expanded_atomicity /\ IsSnapshot(before)
        BY <1>1, <1>6, SplitIs
      <3>. QED BY <2>1, <3>1, RenameWays, ZenonT(60)
    <2>. QED BY <1>0, <1>7, <1>8, <2>1, Zenon
  <1>. QED BY <1>9 DEF Ways, Pair, list, before

\* RenamePassesThrough: for every program that renames files, however a rename
\* is split, a crash in the middle of its expanded rows finds each of the six
\* combinations that the comments beside them declare, and no other
\* (diskops.py:111-132).
THEOREM RenamesPassThrough ==
    ASSUME Renames \subseteq {"file"}
    PROVE  VerifySpec => []RenamePassesThrough
  <1>1. VerifyInit => VerifyInv /\ RenameLineOK
    BY EmptyInv DEF VerifyInit, VerifyInv, MicroInit, NoLine, RenameLineOK
  <1>2. VerifyInv /\ RenameLineOK /\ [VerifyNext]_verifyVars => (VerifyInv /\ RenameLineOK)'
    BY VerifyStep, RenameLineStep
  <1>3. VerifyInv /\ RenameLineOK => RenamePassesThrough
    BY RenameLinePasses
  <1>. QED BY <1>1, <1>2, <1>3, PTL DEF VerifySpec

-----------------------------------------------------------------------------
(* The rows of a trace                                                       *)

\* The slices end where the bytes end.
LEMMA SlicesInside ==
    ASSUME NEW how, how.splits \in Nat \ {0}, NEW first \in Nat, NEW total \in Nat,
           NEW k \in 1..Len(Slices(how, first, total))
    PROVE  LET slice == Slices(how, first, total)[k]
           IN  /\ slice.start \in Nat /\ slice.count \in Nat
               /\ slice.start + slice.count <= first + total
  <1>. DEFINE slices == Slices(how, first, total)
              last == first + total
              N == Len(slices)
  <1>1. CutUp(slices, first, last) /\ last \in Nat
    BY SlicesAreCuts
  <1>. HIDE DEF slices, last
  <1>2. PICK cut : CutsOf(slices, first, last, cut)
    BY <1>1 DEF CutUp
  <1>3. N \in Nat
    BY <1>1, InSeq DEF CutUp
  <1>4. /\ cut[N] = last
        /\ \A i \in 0..N : cut[i] \in Nat
        /\ \A i \in 1..N : /\ cut[i - 1] < cut[i]
                           /\ slices[i] = [start |-> cut[i - 1], count |-> cut[i] - cut[i - 1]]
    BY <1>2 DEF CutsOf
  <1>. HIDE DEF N
  <1>. DEFINE T == {n \in Nat : n <= N => cut[N - n] <= last}
  <1>5. 0 \in T
    BY <1>1, <1>3, <1>4
  <1>6. ASSUME NEW n \in Nat, n \in T PROVE n + 1 \in T
    <2>1. SUFFICES ASSUME n + 1 <= N PROVE cut[N - (n + 1)] <= last
      OBVIOUS
    <2>2. cut[N - n] <= last
      BY <1>3, <1>6, <2>1
    <2>3. N - n \in 1..N /\ (N - n) - 1 = N - (n + 1) /\ N - n \in 0..N /\ N - (n + 1) \in 0..N
      BY <1>3, <2>1
    <2>4. cut[N - (n + 1)] < cut[N - n] /\ cut[N - n] \in Nat /\ cut[N - (n + 1)] \in Nat
      BY <1>4, <2>3
    <2>. QED BY <1>1, <2>2, <2>4
  <1>7. \A n \in Nat : n \in T
    <2>. HIDE DEF T
    <2>. QED BY <1>5, <1>6, Current!NatSetInduction
  <1>8. k \in 1..N /\ k \in 0..N /\ k - 1 \in 0..N /\ N - k \in Nat /\ N - (N - k) = k /\ N - k <= N
    BY <1>3 DEF N, slices
  <1>9. cut[k] <= last /\ cut[k] \in Nat /\ cut[k - 1] \in Nat /\ cut[k - 1] < cut[k]
    BY <1>4, <1>7, <1>8
  <1>10. slices[k] = [start |-> cut[k - 1], count |-> cut[k] - cut[k - 1]]
    BY <1>4, <1>8, Zenon
  <1>11. slices[k].start = cut[k - 1] /\ slices[k].count = cut[k] - cut[k - 1]
    BY <1>10
  <1>. QED BY <1>9, <1>11 DEF slices, last

\* Does an entry of the tree t lead to f?
Leads(t, f) == \E p \in Paths : t.entries[p] = f

\* As long as files are not truncated, a byte of a file that a path leads to is
\* not behind its end; u are the inodes in use.
Holds(f, end, t, u) ==
    Truncs \subseteq {"grow"} => f \in u /\ (Leads(t, f) => end <= Len(t.content[f]))
Gone(f, t, u) == Truncs \subseteq {"grow"} => f \in u /\ ~ Leads(t, f)

EntryRow(row) ==
    /\ row.op \in {"create_dir_entry", "delete_dir_entry"}
    /\ row.path \in Paths /\ row.entry_type \in {"file", "dir"}

WriteRow(row, t, u) ==
    /\ row.op = "write" /\ row.inode \in Files
    /\ row.offset \in Nat /\ row.count \in Nat
    /\ Holds(row.inode, row.offset + row.count, t, u)

CutRow(row, t, u) ==
    row.op = "truncate" /\ row.inode \in Files /\ Gone(row.inode, t, u)

FitRow(row, t, u) ==
    \/ EntryRow(row)
    \/ WriteRow(row, t, u)
    \/ CutRow(row, t, u)
    \/ row.op \in {"sync", "stdout"}

\* Rows of a trace that leads to the tree t.
Fit(list, t, u) == IsSequence(list) /\ \A j \in 1..Len(list) : FitRow(list[j], t, u)

LEMMA FitConcat ==
    ASSUME NEW t, NEW u, NEW r, NEW s, Fit(r, t, u), Fit(s, t, u)
    PROVE  Fit(r \o s, t, u)
  <1>1. /\ IsSequence(r \o s)
        /\ Len(r \o s) = Len(r) + Len(s)
        /\ Len(r) \in Nat /\ Len(s) \in Nat
        /\ \A i \in 1..Len(r \o s) :
              (r \o s)[i] = IF i <= Len(r) THEN r[i] ELSE s[i - Len(r)]
    BY Concatenated, InSeq DEF Fit
  <1>2. ASSUME NEW i \in 1..Len(r \o s) PROVE FitRow((r \o s)[i], t, u)
    <2>1. i <= Len(r) => i \in 1..Len(r)
      BY <1>1
    <2>2. ~ (i <= Len(r)) => i - Len(r) \in 1..Len(s)
      BY <1>1
    <2>. QED BY <1>1, <2>1, <2>2 DEF Fit
  <1>. QED BY <1>1, <1>2 DEF Fit

LEMMA FitEmpty == \A t, u : Fit(<< >>, t, u)
  BY DEF Fit, IsSequence

LEMMA FitSingle == \A t, u, row : FitRow(row, t, u) => Fit(<<row>>, t, u)
  BY DEF Fit, IsSequence

LEMMA FitFlatten ==
    ASSUME NEW t, NEW u, NEW seqs, IsSequence(seqs), \A k \in 1..Len(seqs) : Fit(seqs[k], t, u)
    PROVE  Fit(FlattenSeq(seqs), t, u)
  <1>1. AllSequences(seqs)
    BY DEF AllSequences, Fit
  <1>2. PICK sums : Flattened(seqs, sums)
    BY <1>1, FlattenedExists DEF AllSequences
  <1>3. Len(seqs) \in Nat /\ seqs \in Seq(Elements(seqs))
    BY InSeq
  <1>4. SubSeq(seqs, 1, Len(seqs)) = seqs /\ Len(seqs) \in 0..Len(seqs)
    BY <1>3
  <1>5. FlattenSeq(seqs) = sums[Len(seqs)]
    BY <1>1, <1>2, <1>4, FlattenPrefix
  <1>. QED BY <1>1, <1>2, <1>4, <1>5, FlattenedParts DEF Fit

\* The tree knows the size of each file.
Sized(t) == \A f \in Files : Len(t.content[f]) \in Nat

LEMMA WriteFit ==
    ASSUME NEW t, Sized(t), NEW u, NEW row, row.op = "write", row.inode \in Files,
           row.offset \in Nat, row.count \in Nat,
           NEW end \in Nat, row.offset + row.count <= end, Holds(row.inode, end, t, u)
    PROVE  FitRow(row, t, u)
  <1>1. Len(t.content[row.inode]) \in Nat
    BY DEF Sized
  <1>2. Holds(row.inode, row.offset + row.count, t, u)
    BY <1>1 DEF Holds
  <1>. QED BY <1>2 DEF FitRow, WriteRow

LEMMA SpecialFit ==
    ASSUME NEW t, Sized(t), NEW u, NEW f \in Files, NEW slice, NEW special,
           slice.start \in Nat, slice.count \in Nat,
           NEW end \in Nat, slice.start + slice.count <= end, Holds(f, end, t, u)
    PROVE  FitRow(SpecialWrite(f, slice, special), t, u)
  <1>. DEFINE row == SpecialWrite(f, slice, special)
  <1>1. /\ row.op = "write" /\ row.inode = f
        /\ row.offset = slice.start /\ row.count = slice.count
    BY DEF SpecialWrite
  <1>. HIDE DEF row
  <1>2. FitRow(row, t, u)
    BY <1>1, WriteFit
  <1>. QED BY <1>2 DEF row

LEMMA FitTruncate ==
    ASSUME NEW t, Sized(t), NEW u, NEW how, how.splits \in Nat \ {0}, NEW f \in Files,
           NEW initial_size \in Nat, NEW final_size \in Nat,
           Gone(f, t, u) \/ (initial_size < final_size /\ Holds(f, final_size, t, u))
    PROVE  Fit(trunc_disk_ops(f, initial_size, final_size, how), t, u)
  <1>1. CASE final_size <= initial_size
    <2>. DEFINE slices == Slices(how, final_size, initial_size - final_size)
                list == [k \in DOMAIN slices |-> TruncateRow(f, slices[k].start)]
                back == Reverse(list)
    <2>1. IsSequence(slices) /\ Len(slices) \in Nat /\ DOMAIN slices = 1..Len(slices)
      BY <1>1, SlicesAreProper, InSeq
    <2>. HIDE DEF slices
    <2>0. Gone(f, t, u)
      BY <1>1 DEF Gone
    <2>2. /\ list = [k \in 1..Len(slices) |-> list[k]]
          /\ \A k \in 1..Len(slices) : FitRow(list[k], t, u)
      BY <2>0, <2>1 DEF FitRow, CutRow, TruncateRow
    <2>. HIDE DEF list
    <2>3. IsSequence(list) /\ Len(list) = Len(slices)
      BY <2>1, <2>2, OnInterval
    <2>4. /\ back = [k \in 1..Len(list) |-> back[k]]
          /\ \A k \in 1..Len(list) : FitRow(back[k], t, u)
      <3>1. \A k \in 1..Len(list) : (Len(list) - k) + 1 \in 1..Len(list)
        BY <2>1, <2>3
      <3>. QED BY <2>2, <2>3, <3>1 DEF Reverse
    <2>. HIDE DEF back
    <2>5. Fit(back, t, u)
      BY <2>1, <2>3, <2>4, OnInterval DEF Fit
    <2>. QED BY <1>1, <2>5 DEF trunc_disk_ops, ShrinkRows, back, list, slices
  <1>2. CASE ~ (final_size <= initial_size)
    <2>. DEFINE total == final_size - initial_size
                slices == Slices(how, initial_size, total)
                pair(k) == <<SpecialWrite(f, slices[k], "GARBAGE"),
                             SpecialWrite(f, slices[k], "ZEROS")>>
                list == [k \in DOMAIN slices |-> pair(k)]
    <2>1. IsSequence(slices) /\ Len(slices) \in Nat /\ DOMAIN slices = 1..Len(slices)
      BY <1>2, SlicesAreProper, InSeq
    <2>2. \A k \in 1..Len(slices) :
              /\ slices[k].start \in Nat /\ slices[k].count \in Nat
              /\ slices[k].start + slices[k].count <= final_size
      <3>1. total \in Nat /\ initial_size + total = final_size
        BY <1>2
      <3>. HIDE DEF total
      <3>. QED BY <3>1, SlicesInside
    <2>. HIDE DEF slices
    <2>3. Holds(f, final_size, t, u)
      BY DEF Gone, Holds
    <2>4. ASSUME NEW k \in 1..Len(slices), NEW special
          PROVE  FitRow(SpecialWrite(f, slices[k], special), t, u)
      BY <2>2, <2>3, SpecialFit
    <2>5. \A k \in 1..Len(slices) : Fit(pair(k), t, u)
      BY <2>4 DEF Fit, IsSequence
    <2>. HIDE DEF pair
    <2>6. /\ list = [k \in 1..Len(slices) |-> list[k]]
          /\ \A k \in 1..Len(slices) : Fit(list[k], t, u)
      BY <2>1, <2>5
    <2>. HIDE DEF list
    <2>7. IsSequence(list) /\ Len(list) = Len(slices)
      BY <2>1, <2>6, OnInterval
    <2>8. Fit(FlattenSeq(list), t, u)
      BY <2>6, <2>7, FitFlatten
    <2>. QED BY <1>2, <2>8 DEF trunc_disk_ops, GrowRows, list, pair, slices
  <1>. QED BY <1>1, <1>2

LEMMA FitWrite ==
    ASSUME NEW t, Sized(t), NEW u, NEW how, how.splits \in Nat \ {0}, NEW call,
           call.inode \in Files, call.offset \in Nat, call.count \in Nat,
           Holds(call.inode, call.offset + call.count, t, u)
    PROVE  /\ Fit(append_disk_ops(call, how), t, u)
           /\ LET slices == Slices(how, call.offset, call.count)
              IN  Fit([k \in DOMAIN slices |-> DataWrite(call, slices[k])], t, u)
  <1>. DEFINE f == call.inode
              end == call.offset + call.count
              slices == Slices(how, call.offset, call.count)
              three(k) == <<SpecialWrite(f, slices[k], "ZEROS"),
                            SpecialWrite(f, slices[k], "GARBAGE"),
                            DataWrite(call, slices[k])>>
              each == [k \in DOMAIN slices |-> three(k)]
              data == [k \in DOMAIN slices |-> DataWrite(call, slices[k])]
  <1>1. IsSequence(slices) /\ Len(slices) \in Nat /\ DOMAIN slices = 1..Len(slices)
    BY SlicesAreProper, InSeq
  <1>2. \A k \in 1..Len(slices) :
            /\ slices[k].start \in Nat /\ slices[k].count \in Nat
            /\ slices[k].start + slices[k].count <= end
    BY SlicesInside
  <1>3. f \in Files /\ end \in Nat /\ Holds(f, end, t, u)
    OBVIOUS
  <1>. HIDE DEF slices, end
  <1>4. ASSUME NEW k \in 1..Len(slices)
        PROVE  /\ FitRow(SpecialWrite(f, slices[k], "ZEROS"), t, u)
               /\ FitRow(SpecialWrite(f, slices[k], "GARBAGE"), t, u)
               /\ FitRow(DataWrite(call, slices[k]), t, u)
    <2>. HIDE DEF f
    <2>1. \A special : FitRow(SpecialWrite(f, slices[k], special), t, u)
      BY <1>2, <1>3, SpecialFit
    <2>. DEFINE row == DataWrite(call, slices[k])
    <2>2. /\ row.op = "write" /\ row.inode = f
          /\ row.offset = slices[k].start /\ row.count = slices[k].count
      BY DEF DataWrite, f
    <2>. HIDE DEF row
    <2>3. FitRow(row, t, u)
      BY <1>2, <1>3, <2>2, WriteFit
    <2>. QED BY <2>1, <2>3 DEF row
  <1>5. \A k \in 1..Len(slices) : Fit(three(k), t, u)
    BY <1>4 DEF Fit, IsSequence
  <1>. HIDE DEF three
  <1>6. /\ each = [k \in 1..Len(slices) |-> each[k]]
        /\ \A k \in 1..Len(slices) : Fit(each[k], t, u)
        /\ data = [k \in 1..Len(slices) |-> data[k]]
        /\ \A k \in 1..Len(slices) : FitRow(data[k], t, u)
    BY <1>1, <1>4, <1>5
  <1>. HIDE DEF each, data
  <1>7. /\ IsSequence(each) /\ Len(each) = Len(slices)
        /\ IsSequence(data) /\ Len(data) = Len(slices)
    BY <1>1, <1>6, OnInterval
  <1>8. Fit(FlattenSeq(each), t, u) /\ Fit(data, t, u)
    BY <1>6, <1>7, FitFlatten DEF Fit
  <1>. QED BY <1>8 DEF append_disk_ops, each, data, three, slices, f

LEMMA FitUnlink ==
    ASSUME NEW t, Sized(t), NEW u, NEW how, how.splits \in Nat \ {0}, NEW path \in Paths,
           NEW inode, NEW size \in Nat, NEW hardlinks, NEW entry_type \in {"file", "dir"},
           hardlinks = 1 => inode \in Files /\ Gone(inode, t, u)
    PROVE  Fit(unlink_disk_ops(path, inode, size, hardlinks, entry_type, how), t, u)
  <1>. DEFINE row == DirEntryRow("delete_dir_entry", path, inode, entry_type)
              cut == IF hardlinks = 1 THEN trunc_disk_ops(inode, size, 0, how) ELSE << >>
  <1>1. Fit(cut, t, u)
    <2>1. CASE hardlinks = 1
      <3>1. Fit(trunc_disk_ops(inode, size, 0, how), t, u)
        BY <2>1, FitTruncate
      <3>. QED BY <2>1, <3>1
    <2>2. CASE hardlinks # 1
      BY <2>2, FitEmpty
    <2>. QED BY <2>1, <2>2
  <1>2. FitRow(row, t, u)
    BY DEF FitRow, EntryRow, DirEntryRow
  <1>. HIDE DEF row, cut
  <1>3. Fit(<<row>>, t, u)
    BY <1>2, FitSingle
  <1>4. Fit(cut \o <<row>>, t, u)
    BY <1>1, <1>3, FitConcat
  <1>. QED BY <1>4 DEF unlink_disk_ops, cut, row

LEMMA FitLink ==
    ASSUME NEW t, NEW u, NEW path \in Paths, NEW inode, NEW entry_type \in {"file", "dir"}
    PROVE  Fit(link_disk_ops(path, inode, entry_type), t, u)
  <1>1. FitRow(DirEntryRow("create_dir_entry", path, inode, entry_type), t, u)
    BY DEF FitRow, EntryRow, DirEntryRow
  <1>. QED BY <1>1, FitSingle DEF link_disk_ops

LEMMA FitRename ==
    ASSUME NEW t, Sized(t), NEW u, NEW how, how.splits \in Nat \ {0}, NEW call,
           call.source \in Paths, call.dest \in Paths,
           call.source_size \in Nat, call.dest_size \in Nat,
           call.dest_hardlinks = 1 => call.dest_inode \in Files /\ Gone(call.dest_inode, t, u)
    PROVE  Fit(rename_disk_ops(call, how), t, u)
  <1>. DEFINE unlink_source == unlink_disk_ops(call.source, call.source_inode,
                                   call.source_size, 2, "file", how)
              link_source == link_disk_ops(call.source, call.source_inode, "file")
              unlink_dest == IF call.dest_hardlinks >= 1
                             THEN unlink_disk_ops(call.dest, call.dest_inode,
                                      call.dest_size, call.dest_hardlinks, "file", how)
                             ELSE << >>
              link_dest == link_disk_ops(call.dest, call.source_inode, "file")
              more == IF how.expanded_atomicity THEN unlink_source ELSE << >>
              link == IF how.expanded_atomicity THEN link_source ELSE << >>
  <1>1. /\ Fit(unlink_source, t, u) /\ Fit(link_source, t, u) /\ Fit(link_dest, t, u)
        /\ Fit(unlink_dest, t, u) /\ Fit(more, t, u) /\ Fit(link, t, u)
    <2>1. Fit(unlink_source, t, u)
      BY FitUnlink
    <2>2. Fit(link_source, t, u) /\ Fit(link_dest, t, u)
      BY FitLink
    <2>3. Fit(unlink_dest, t, u)
      BY FitUnlink, FitEmpty
    <2>. HIDE DEF unlink_source, link_source
    <2>4. Fit(more, t, u) /\ Fit(link, t, u)
      BY <2>1, <2>2, FitEmpty
    <2>. QED BY <2>1, <2>2, <2>3, <2>4
  <1>2. rename_disk_ops(call, how) = more \o unlink_dest \o link \o unlink_source
                                     \o link_dest \o link \o more
    BY DEF rename_disk_ops
  <1>. HIDE DEF unlink_source, link_source, unlink_dest, link_dest, more, link
  <1>3. Fit(more \o unlink_dest, t, u)
    BY <1>1, FitConcat
  <1>4. Fit(more \o unlink_dest \o link, t, u)
    BY <1>1, <1>3, FitConcat
  <1>5. Fit(more \o unlink_dest \o link \o unlink_source, t, u)
    BY <1>1, <1>4, FitConcat
  <1>6. Fit(more \o unlink_dest \o link \o unlink_source \o link_dest, t, u)
    BY <1>1, <1>5, FitConcat
  <1>7. Fit(more \o unlink_dest \o link \o unlink_source \o link_dest \o link, t, u)
    BY <1>1, <1>6, FitConcat
  <1>8. Fit(more \o unlink_dest \o link \o unlink_source \o link_dest \o link \o more, t, u)
    BY <1>1, <1>7, FitConcat
  <1>. QED BY <1>2, <1>8

-----------------------------------------------------------------------------
(* The rows that a call adds                                                 *)

\* No file that had no entry gets one again, and as long as files are not
\* truncated none gets smaller while an entry leads to it.
Grown ==
    /\ used \subseteq used'
    /\ \A f \in Files \cap used :
          Leads(tree', f) =>
              /\ Leads(tree, f)
              /\ Truncs \subseteq {"grow"} => Len(tree.content[f]) <= Len(tree'.content[f])

\* An fsync of a file flushes up to the end of the file.
SyncsWhole(call, t) ==
    call.op = "fsync" =>
        /\ call.inode \in Files \cup Dirs
        /\ call.inode \in Files => Leads(t, call.inode) /\ call.size = Len(t.content[call.inode])

Onward(how) ==
    Grown /\ Fit(get_disk_ops(line', how), tree', used') /\ SyncsWhole(line', tree')

LEMMA EntriesGrown ==
    ASSUME Sized(tree), used \subseteq used', tree'.content = tree.content,
           \A p \in Paths : tree'.entries[p] \in Files \cap used => Leads(tree, tree'.entries[p])
    PROVE  Grown
  <1>1. ASSUME NEW f \in Files \cap used, Leads(tree', f)
        PROVE  Leads(tree, f) /\ Len(tree.content[f]) <= Len(tree'.content[f])
    <2>1. Leads(tree, f)
      BY <1>1 DEF Leads
    <2>2. Len(tree.content[f]) \in Nat
      BY DEF Sized
    <2>. QED BY <2>1, <2>2
  <1>. QED BY <1>1 DEF Grown

\* One entry changes.
LEMMA EntryGrown ==
    ASSUME NEW fs, InvWith(fs), Sized(tree), NEW path \in Paths, NEW inode,
           tree' = Linked(path, inode), used \subseteq used',
           inode \in Files \cap used => HasLink(inode)
    PROVE  Grown /\ tree'.entries = [tree.entries EXCEPT ![path] = inode]
  <1>. DEFINE e == [tree.entries EXCEPT ![path] = inode]
  <1>1. tree' = [entries |-> e, content |-> tree.content]
    BY DEF Linked, InvWith, TreeOK
  <1>2. tree'.entries = e /\ tree'.content = tree.content
    BY <1>1
  <1>3. tree.entries \in [Paths -> Inode]
    BY DEF InvWith, TreeOK
  <1>4. \A p \in Paths : e[p] = inode \/ e[p] = tree.entries[p]
    BY <1>3
  <1>. HIDE DEF e
  <1>5. \A p \in Paths : tree'.entries[p] \in Files \cap used => Leads(tree, tree'.entries[p])
    BY <1>2, <1>4 DEF Leads, HasLink
  <1>6. Grown
    BY <1>2, <1>5, EntriesGrown
  <1>. QED BY <1>2, <1>6 DEF e

\* The bytes of a file change.
LEMMA ContentGrown ==
    ASSUME NEW fs, InvWith(fs), Sized(tree), NEW inode \in Files, NEW bytes,
           tree' = WithContent(inode, bytes), used' = used, Len(bytes) \in Nat,
           Truncs \subseteq {"grow"} => Len(tree.content[inode]) <= Len(bytes)
    PROVE  Grown /\ tree'.entries = tree.entries /\ tree'.content[inode] = bytes
  <1>1. /\ tree.content = [f \in Files |-> tree.content[f]]
        /\ tree = [entries |-> tree.entries, content |-> tree.content]
    BY DEF InvWith, TreeOK
  <1>2. tree' = [entries |-> tree.entries, content |-> [tree.content EXCEPT ![inode] = bytes]]
    BY <1>1 DEF WithContent
  <1>3. /\ tree'.entries = tree.entries
        /\ tree'.content = [tree.content EXCEPT ![inode] = bytes]
    BY <1>2
  <1>4. /\ tree'.content[inode] = bytes
        /\ \A f \in Files : f # inode => tree'.content[f] = tree.content[f]
    BY <1>1, <1>3
  <1>5. ASSUME NEW f \in Files \cap used, Leads(tree', f)
        PROVE  /\ Leads(tree, f)
               /\ Truncs \subseteq {"grow"} => Len(tree.content[f]) <= Len(tree'.content[f])
    <2>1. Leads(tree, f)
      BY <1>3, <1>5 DEF Leads
    <2>2. Len(tree.content[f]) \in Nat
      BY DEF Sized
    <2>. QED BY <1>4, <2>1, <2>2
  <1>. QED BY <1>3, <1>4, <1>5 DEF Grown

LEMMA CreatOn ==
    ASSUME NEW fs, InvWith(fs), Sized(tree), Sized(tree'), NEW how \in Splits, Creat
    PROVE  Onward(how)
  <1>1. PICK path \in LivePaths, inode \in Files \ used :
              /\ line' = [op |-> "creat", name |-> path, inode |-> inode]
              /\ tree' = Linked(path, inode)
              /\ used' = used \cup {inode}
    BY DEF Creat
  <1>2. path \in Paths
    BY LivePath
  <1>3. Grown
    BY <1>1, <1>2, EntryGrown
  <1>4. get_disk_ops(line', how) = link_disk_ops(path, inode, "file") /\ line'.op # "fsync"
    BY <1>1 DEF get_disk_ops
  <1>. QED BY <1>2, <1>3, <1>4, FitLink DEF Onward, SyncsWhole

LEMMA LinkOn ==
    ASSUME NEW fs, InvWith(fs), Sized(tree), Sized(tree'), NEW how \in Splits, Link
    PROVE  Onward(how)
  <1>1. PICK source \in LivePaths, dest \in LivePaths :
              /\ IsFile(source)
              /\ line' = [op |-> "link", dest |-> dest, source_inode |-> InodeOf(source)]
              /\ tree' = Linked(dest, InodeOf(source))
              /\ UNCHANGED used
    BY DEF Link
  <1>2. source \in Paths /\ dest \in Paths
    BY LivePath
  <1>3. HasLink(InodeOf(source))
    BY <1>1, <1>2, LinkedInode
  <1>4. Grown
    BY <1>1, <1>2, <1>3, EntryGrown
  <1>5. get_disk_ops(line', how) = link_disk_ops(dest, InodeOf(source), "file")
        /\ line'.op # "fsync"
    BY <1>1 DEF get_disk_ops
  <1>. QED BY <1>2, <1>4, <1>5, FitLink DEF Onward, SyncsWhole

LEMMA UnlinkOn ==
    ASSUME NEW fs, InvWith(fs), Sized(tree), Sized(tree'), NEW how \in Splits, Unlink
    PROVE  Onward(how)
  <1>1. PICK path \in LivePaths :
              /\ IsFile(path)
              /\ line' = [op |-> "unlink", name |-> path, inode |-> InodeOf(path),
                          size |-> Size(path), hardlinks |-> Hardlinks(path)]
              /\ tree' = Unlinked(path)
              /\ UNCHANGED used
    BY DEF Unlink
  <1>. DEFINE inode == InodeOf(path)
              links == Hardlinks(path)
              size == Size(path)
  <1>2. /\ path \in Paths /\ NoInode # inode
        /\ inode \in Files /\ inode \in used /\ size \in Nat
    BY <1>1, LivePath, LinkedInode
  <1>3. tree' = Linked(path, NoInode) /\ NoInode \notin Files
    BY <1>1, InodesAssumption DEF Unlinked
  <1>4. Grown /\ tree'.entries = [tree.entries EXCEPT ![path] = NoInode]
    BY <1>1, <1>2, <1>3, EntryGrown
  <1>5. links = 1 => Gone(inode, tree', used')
    <2>1. SUFFICES ASSUME links = 1, NEW p \in Paths PROVE tree'.entries[p] # inode
      BY <1>1, <1>2 DEF Gone, Leads
    <2>2. InodeOf(p) = inode => p = path
      BY <1>1, <1>2, <2>1, OnlyLink
    <2>3. tree.entries \in [Paths -> Inode]
      BY DEF InvWith, TreeOK
    <2>. HIDE DEF inode
    <2>. QED BY <1>2, <1>4, <2>2, <2>3 DEF InodeOf
  <1>6. get_disk_ops(line', how) = unlink_disk_ops(path, inode, size, links, "file", how)
        /\ line'.op # "fsync"
    BY <1>1 DEF get_disk_ops
  <1>. HIDE DEF inode, links, size
  <1>7. Fit(unlink_disk_ops(path, inode, size, links, "file", how), tree', used')
    BY <1>2, <1>5, SplitIs, FitUnlink
  <1>. QED BY <1>4, <1>6, <1>7 DEF Onward, SyncsWhole

LEMMA MkdirOn ==
    ASSUME NEW fs, InvWith(fs), Sized(tree), Sized(tree'), NEW how \in Splits, Mkdir
    PROVE  Onward(how)
  <1>1. PICK path \in LivePaths, inode \in Dirs \ used :
              /\ line' = [op |-> "mkdir", name |-> path, inode |-> inode]
              /\ tree' = Linked(path, inode)
              /\ used' = used \cup {inode}
    BY DEF Mkdir
  <1>2. path \in Paths
    BY LivePath
  <1>3. Grown
    BY <1>1, <1>2, EntryGrown
  <1>4. get_disk_ops(line', how) = link_disk_ops(path, inode, "dir") /\ line'.op # "fsync"
    BY <1>1 DEF get_disk_ops
  <1>. QED BY <1>2, <1>3, <1>4, FitLink DEF Onward, SyncsWhole

LEMMA RmdirOn ==
    ASSUME NEW fs, InvWith(fs), Sized(tree), Sized(tree'), NEW how \in Splits, Rmdir
    PROVE  Onward(how)
  <1>1. PICK path \in LivePaths :
              /\ line' = [op |-> "rmdir", name |-> path, inode |-> InodeOf(path)]
              /\ tree' = Unlinked(path)
              /\ UNCHANGED used
    BY DEF Rmdir
  <1>2. path \in Paths /\ tree' = Linked(path, NoInode) /\ NoInode \notin Files
    BY <1>1, LivePath, InodesAssumption DEF Unlinked
  <1>3. Grown
    BY <1>1, <1>2, EntryGrown
  <1>4. get_disk_ops(line', how) = unlink_disk_ops(path, InodeOf(path), 0, 0, "dir", how)
        /\ line'.op # "fsync"
    BY <1>1 DEF get_disk_ops
  <1>. QED BY <1>2, <1>3, <1>4, SplitIs, FitUnlink DEF Onward, SyncsWhole

LEMMA RenameOn ==
    ASSUME Renames \subseteq {"file"}, NEW fs, InvWith(fs), Sized(tree), Sized(tree'),
           NEW how \in Splits, Rename
    PROVE  Onward(how)
  <1>1. PICK source \in LivePaths, dest \in LivePaths :
              /\ CanRename(source, dest)
              /\ line' = RenameLine(source, dest)
              /\ tree' = IF InodeOf(source) = InodeOf(dest) THEN tree
                         ELSE [tree EXCEPT !.entries[dest] = InodeOf(source),
                                           !.entries[source] = NoInode]
              /\ UNCHANGED used
    BY DEF Rename
  <1>. DEFINE inode == InodeOf(source)
              there == InodeOf(dest)
              links == Hardlinks(dest)
              e == [[tree.entries EXCEPT ![dest] = inode] EXCEPT ![source] = NoInode]
  <1>2. source # dest /\ inode # there /\ IsFile(source) /\ ~ IsDir(dest)
    BY <1>1 DEF CanRename
  <1>3. /\ source \in Paths /\ dest \in Paths
        /\ inode \in Files /\ HasLink(inode) /\ NoInode \notin Files /\ NoInode \notin Dirs
        /\ Size(source) \in Nat
    BY <1>1, <1>2, LivePath, LinkedInode, InodesAssumption
  <1>4. /\ there \in Files \cup {NoInode} /\ there \in used \cup {NoInode}
        /\ there # NoInode => there \in Files /\ IsFile(dest)
    BY <1>2, <1>3, LinkedInode DEF IsDir, IsFile
  <1>5. /\ there = NoInode => links = 0 /\ Size(dest) = 0
        /\ there # NoInode => Size(dest) \in Nat
    <2>1. ASSUME there = NoInode PROVE links = 0 /\ Size(dest) = 0
      <3>1. ~ Exists(dest) /\ ~ IsFile(dest)
        BY <1>3, <2>1 DEF Exists, IsFile
      <3>. QED BY <3>1 DEF Hardlinks, Size
    <2>. QED BY <1>3, <1>4, <2>1, LinkedInode
  <1>6. tree.entries \in [Paths -> Inode]
    BY DEF InvWith, TreeOK
  <1>7. tree'.entries = e /\ tree'.content = tree.content
    <2>1. tree' = [tree EXCEPT !.entries[dest] = inode, !.entries[source] = NoInode]
      BY <1>1, <1>2
    <2>2. tree = [entries |-> tree.entries, content |-> tree.content]
      BY DEF InvWith, TreeOK
    <2>3. tree' = [entries |-> e, content |-> tree.content]
      <3>. HIDE DEF inode
      <3>. QED BY <2>1, <2>2
    <2>. HIDE DEF e
    <2>. QED BY <2>3
  <1>8. /\ e[source] = NoInode /\ e[dest] = inode
        /\ \A p \in Paths \ {source, dest} : e[p] = tree.entries[p]
    <2>. HIDE DEF inode
    <2>. QED BY <1>2, <1>3, <1>6
  <1>9. links = 1 => there \in Files /\ Gone(there, tree', used')
    <2>1. SUFFICES ASSUME links = 1 PROVE there \in Files /\ Gone(there, tree', used')
      OBVIOUS
    <2>2. there \in Files /\ there \in used /\ IsFile(dest)
      BY <1>4, <1>5, <2>1
    <2>3. \A p \in Paths : InodeOf(p) = there => p = dest
      BY <1>3, <2>1, <2>2, OnlyLink
    <2>4. there \in used'
      BY <1>1, <2>2
    <2>. HIDE DEF inode, there, e
    <2>5. \A p \in Paths : e[p] # there
      BY <1>2, <1>3, <1>8, <2>2, <2>3 DEF InodeOf
    <2>. QED BY <1>7, <2>2, <2>4, <2>5 DEF Gone, Leads
  <1>10. Grown
    <2>. HIDE DEF e, inode
    <2>1. \A p \in Paths : tree'.entries[p] \in Files \cap used => Leads(tree, tree'.entries[p])
      BY <1>3, <1>7, <1>8 DEF Leads, HasLink
    <2>. QED BY <1>1, <1>7, <2>1, EntriesGrown
  <1>. DEFINE call == line'
  <1>11. /\ call.op = "rename" /\ call.source = source /\ call.dest = dest
         /\ call.source_size = Size(source)
         /\ call.dest_inode = there /\ call.dest_size = Size(dest)
         /\ call.dest_hardlinks = links
    BY <1>1 DEF RenameLine
  <1>12. get_disk_ops(call, how) = rename_disk_ops(call, how) /\ call.op # "fsync"
    BY <1>11 DEF get_disk_ops
  <1>. HIDE DEF call, inode, there, links
  <1>13. Fit(rename_disk_ops(call, how), tree', used')
    <2>1. Size(dest) \in Nat
      BY <1>4, <1>5
    <2>. QED BY <1>3, <1>9, <1>11, <2>1, SplitIs, FitRename
  <1>. QED BY <1>10, <1>12, <1>13 DEF Onward, SyncsWhole, call

LEMMA TruncOn ==
    ASSUME NEW fs, InvWith(fs), Sized(tree), Sized(tree'), NEW how \in Splits, Trunc
    PROVE  Onward(how)
  <1>1. PICK path \in LivePaths, size \in 0..MaxSize :
              /\ IsFile(path)
              /\ (IF size > Size(path) THEN "grow" ELSE "shrink") \in Truncs
              /\ line' = [op |-> "trunc", inode |-> InodeOf(path),
                          initial_size |-> Size(path), final_size |-> size]
              /\ tree' = WithContent(InodeOf(path), Resized(tree.content[InodeOf(path)], size))
              /\ UNCHANGED used
    BY DEF Trunc
  <1>. DEFINE inode == InodeOf(path)
              c == tree.content[inode]
              bytes == Resized(c, size)
              start == Size(path)
  <1>2. /\ inode \in Files /\ IsSequence(c) /\ inode \in used
        /\ start = Len(c) /\ start \in Nat /\ size \in Nat
    <2>1. path \in Paths /\ size \in Nat /\ NoInode \notin Files
      BY <1>1, LivePath, MaxSizeAssumption, InodesAssumption
    <2>2. inode \in Files /\ IsSequence(c) /\ inode \in used \cup {NoInode} /\ start \in Nat
      BY <1>1, <2>1, LinkedInode
    <2>3. start = Len(c)
      BY <1>1 DEF Size
    <2>. QED BY <2>1, <2>2, <2>3
  <1>3. Truncs \subseteq {"grow"} => start < size
    BY <1>1, <1>2
  <1>4. tree' = WithContent(inode, bytes)
    BY <1>1
  <1>5. get_disk_ops(line', how) = trunc_disk_ops(inode, start, size, how) /\ line'.op # "fsync"
    BY <1>1 DEF get_disk_ops
  <1>. HIDE DEF inode, c, start
  <1>6. Len(bytes) = size
    BY <1>2, ResizedIs
  <1>. HIDE DEF bytes
  <1>7. Grown /\ tree'.content[inode] = bytes
    BY <1>1, <1>2, <1>3, <1>4, <1>6, ContentGrown DEF c
  <1>8. Gone(inode, tree', used') \/ (start < size /\ Holds(inode, size, tree', used'))
    <2>1. inode \in used'
      BY <1>1, <1>2
    <2>. QED BY <1>2, <1>3, <1>6, <1>7, <2>1 DEF Gone, Holds
  <1>9. Fit(trunc_disk_ops(inode, start, size, how), tree', used')
    BY <1>2, <1>8, SplitIs, FitTruncate
  <1>. QED BY <1>5, <1>7, <1>9 DEF Onward, SyncsWhole

LEMMA WriteOn ==
    ASSUME NEW fs, InvWith(fs), Sized(tree), Sized(tree'), NEW how \in Splits, WriteOrAppend
    PROVE  Onward(how)
  <1>1. PICK path \in LivePaths, offset \in 0..MaxSize, count \in 1..MaxSize,
             dump \in DumpOffsets :
              /\ IsFile(path)
              /\ line' = [op |-> IF offset = Size(path) THEN "append" ELSE "write",
                          inode |-> InodeOf(path), offset |-> offset, count |-> count,
                          dump_offset |-> dump]
              /\ tree' = WithContent(InodeOf(path),
                            Overwritten(tree.content[InodeOf(path)], offset,
                                        [k \in 1..count |-> dump + k - 1]))
              /\ UNCHANGED used
    BY DEF WriteOrAppend
  <1>. DEFINE inode == InodeOf(path)
              c == tree.content[inode]
              call == line'
              data == Dumped(dump, count)
              bytes == Overwritten(c, offset, data)
              slices == Slices(how, offset, count)
              list == [k \in DOMAIN slices |-> DataWrite(call, slices[k])]
              again == IF how.expanded_atomicity THEN append_disk_ops(call, how) ELSE << >>
  <1>2. /\ inode \in Files /\ IsSequence(c) /\ inode \in used
        /\ Len(c) \in Nat /\ offset \in Nat /\ count \in Nat
    <2>1. path \in Paths /\ NoInode \notin Files
      BY <1>1, LivePath, InodesAssumption
    <2>2. inode \in Files /\ IsSequence(c) /\ inode \in used \cup {NoInode}
      BY <1>1, <2>1, LinkedInode
    <2>. QED BY <2>1, <2>2, InSeq, MaxSizeAssumption
  <1>3. tree' = WithContent(inode, bytes)
    BY <1>1 DEF Dumped
  <1>4. /\ call.op = "append" \/ call.op = "write"
        /\ call.inode = inode /\ call.offset = offset /\ call.count = count
    BY <1>1
  <1>. HIDE DEF call, inode, c, data
  <1>5. IsSequence(data) /\ Len(data) = count
    BY <1>2, DumpedIs DEF data
  <1>6. Len(bytes) = Larger(Len(c), offset + count)
    <2>. HIDE DEF bytes
    <2>1. \A d : IsSequence(d) => Len(Overwritten(c, offset, d)) = Larger(Len(c), offset + Len(d))
      BY <1>2, OverwrittenIs
    <2>. QED BY <1>5, <2>1 DEF bytes
  <1>7. Len(bytes) \in Nat /\ Len(c) <= Len(bytes) /\ offset + count <= Len(bytes)
    <2>1. /\ Larger(Len(c), offset + count) \in Nat
          /\ Len(c) <= Larger(Len(c), offset + count)
          /\ offset + count <= Larger(Len(c), offset + count)
      BY <1>2 DEF Larger
    <2>. HIDE DEF bytes
    <2>. QED BY <1>6, <2>1
  <1>. HIDE DEF bytes
  <1>8. Grown /\ tree'.content[inode] = bytes
    BY <1>1, <1>2, <1>3, <1>7, ContentGrown DEF c
  <1>9. Holds(inode, offset + count, tree', used')
    BY <1>1, <1>2, <1>7, <1>8 DEF Holds
  <1>10. Fit(append_disk_ops(call, how), tree', used') /\ Fit(list, tree', used')
    BY <1>2, <1>4, <1>9, SplitIs, FitWrite
  <1>11. Fit(again, tree', used')
    BY <1>10, FitEmpty
  <1>. HIDE DEF list, again
  <1>12. Fit(append_disk_ops(call, how) \o again, tree', used')
    BY <1>10, <1>11, FitConcat
  <1>13. /\ call.op = "append" => get_disk_ops(call, how) = append_disk_ops(call, how) \o again
         /\ call.op = "write" => get_disk_ops(call, how) = list
    BY <1>4 DEF get_disk_ops, again, list, slices
  <1>14. Fit(get_disk_ops(call, how), tree', used') /\ call.op # "fsync"
    BY <1>4, <1>10, <1>12, <1>13
  <1>. QED BY <1>8, <1>14 DEF Onward, SyncsWhole, call

LEMMA FlushOn ==
    ASSUME NEW fs, InvWith(fs), Sized(tree), NEW how \in Splits,
           Fsync \/ FileSyncRange \/ Stdout
    PROVE  Onward(how)
  <1>1. tree' = tree /\ used' = used
    BY DEF Fsync, FileSyncRange, Stdout
  <1>2. Grown
    BY <1>1, EntriesGrown DEF Leads
  <1>3. line'.op \in {"fsync", "file_sync_range", "stdout"}
    BY DEF Fsync, FileSyncRange, Stdout
  <1>4. SyncsWhole(line', tree')
    <2>1. CASE Fsync
      <3>1. CASE \E path \in LivePaths :
                    /\ IsFile(path)
                    /\ line' = [op |-> "fsync", inode |-> InodeOf(path), size |-> Size(path)]
        <4>1. PICK path \in LivePaths :
                    /\ IsFile(path)
                    /\ line' = [op |-> "fsync", inode |-> InodeOf(path), size |-> Size(path)]
          BY <3>1
        <4>2. InodeOf(path) \in Files /\ HasLink(InodeOf(path))
              /\ Size(path) = Len(tree.content[InodeOf(path)])
          BY <4>1, LivePath, LinkedInode DEF Size
        <4>3. line'.inode = InodeOf(path) /\ line'.size = Size(path)
          BY <4>1
        <4>. QED BY <1>1, <4>2, <4>3 DEF SyncsWhole, HasLink, Leads
      <3>2. CASE \E dir \in Dirs : line' = [op |-> "fsync", inode |-> dir, size |-> 0]
        <4>1. line'.inode \in Dirs /\ line'.inode \notin Files
          BY <3>2, InodesAssumption
        <4>. QED BY <4>1 DEF SyncsWhole
      <3>. QED BY <2>1, <3>1, <3>2 DEF Fsync
    <2>2. CASE FileSyncRange \/ Stdout
      <3>1. line'.op # "fsync"
        BY <2>2 DEF FileSyncRange, Stdout
      <3>. QED BY <3>1 DEF SyncsWhole
    <2>. QED BY <2>1, <2>2
  <1>. DEFINE call == line'
              whole == SyncRow(call.inode, 0, call.size)
              range == SyncRow(call.inode, call.offset, call.count)
              output == [op |-> "stdout"]
  <1>5. call.op \in {"fsync", "file_sync_range", "stdout"}
    BY <1>3
  <1>. HIDE DEF call
  <1>6. /\ call.op = "fsync" => get_disk_ops(call, how) = <<whole>>
        /\ call.op = "file_sync_range" => get_disk_ops(call, how) = <<range>>
        /\ call.op = "stdout" => get_disk_ops(call, how) = <<output>>
    BY DEF get_disk_ops
  <1>7. /\ FitRow(whole, tree', used') /\ FitRow(range, tree', used')
        /\ FitRow(output, tree', used')
    BY DEF FitRow, SyncRow
  <1>. HIDE DEF whole, range, output
  <1>8. Fit(get_disk_ops(call, how), tree', used')
    BY <1>5, <1>6, <1>7, FitSingle
  <1>. QED BY <1>2, <1>4, <1>8 DEF Onward, call

\* What a call adds to the trace fits the tree it leaves.
LEMMA CallOn ==
    ASSUME Renames \subseteq {"file"}, NEW fs, InvWith(fs), Sized(tree), Sized(tree'),
           NEW how \in Splits, MicroOp
    PROVE  Onward(how)
  <1>1. CASE Creat
    BY <1>1, CreatOn
  <1>2. CASE Unlink
    BY <1>2, UnlinkOn
  <1>3. CASE Link
    BY <1>3, LinkOn
  <1>4. CASE Rename
    BY <1>4, RenameOn
  <1>5. CASE Trunc
    BY <1>5, TruncOn
  <1>6. CASE WriteOrAppend
    BY <1>6, WriteOn
  <1>7. CASE Mkdir
    BY <1>7, MkdirOn
  <1>8. CASE Rmdir
    BY <1>8, RmdirOn
  <1>9. CASE Fsync \/ FileSyncRange \/ Stdout
    BY <1>9, FlushOn
  <1>. QED BY <1>1, <1>2, <1>3, <1>4, <1>5, <1>6, <1>7, <1>8, <1>9 DEF MicroOp

\* The rows that were there still fit.
LEMMA FitLater ==
    ASSUME Sized(tree), Sized(tree'), Grown, NEW list, Fit(list, tree, used)
    PROVE  Fit(list, tree', used')
  <1>1. SUFFICES ASSUME NEW row, FitRow(row, tree, used) PROVE FitRow(row, tree', used')
    BY DEF Fit
  <1>2. CASE WriteRow(row, tree, used)
    <2>1. /\ row.op = "write" /\ row.inode \in Files /\ row.offset \in Nat /\ row.count \in Nat
          /\ Holds(row.inode, row.offset + row.count, tree, used)
      BY <1>2 DEF WriteRow
    <2>2. SUFFICES ASSUME Truncs \subseteq {"grow"}
                   PROVE  /\ row.inode \in used'
                          /\ Leads(tree', row.inode) =>
                                 row.offset + row.count <= Len(tree'.content[row.inode])
      BY <2>1 DEF Holds, FitRow, WriteRow
    <2>3. row.inode \in used /\ row.inode \in used'
          /\ (Leads(tree, row.inode) => row.offset + row.count <= Len(tree.content[row.inode]))
      BY <2>1, <2>2 DEF Holds, Grown
    <2>4. SUFFICES ASSUME Leads(tree', row.inode)
                   PROVE  row.offset + row.count <= Len(tree'.content[row.inode])
      BY <2>3
    <2>5. Leads(tree, row.inode) /\ Len(tree.content[row.inode]) <= Len(tree'.content[row.inode])
      BY <2>1, <2>2, <2>3, <2>4 DEF Grown
    <2>6. Len(tree.content[row.inode]) \in Nat /\ Len(tree'.content[row.inode]) \in Nat
      BY <2>1 DEF Sized
    <2>. QED BY <2>1, <2>3, <2>5, <2>6, SMTT(30)
  <1>3. CASE CutRow(row, tree, used)
    BY <1>3 DEF FitRow, CutRow, Gone, Grown
  <1>. QED BY <1>1, <1>2, <1>3 DEF FitRow

-----------------------------------------------------------------------------
(* The invariant of a trace                                                  *)

\* The last row after an fsync.
SyncedLast ==
    line.op = "fsync" =>
        Len(rows) >= 1 /\ rows[Len(rows)] = SyncRow(line.inode, 0, line.size)

\* The rows make the tree, and a write to a file that an entry leads to is not
\* behind the end of the file.
TraceOK ==
    /\ InvWith(ReplayRows(EmptySnapshot, rows))
    /\ Fit(rows, tree, used)

CrashInv == TraceOK /\ SyncsWhole(line, tree) /\ SyncedLast

LEMMA TreeIsSized == TreeOK => Sized(tree)
  BY InSeq DEF TreeOK, Sized

LEMMA CrashStart == CrashInit => CrashInv
  <1>. SUFFICES ASSUME CrashInit PROVE CrashInv
    OBVIOUS
  <1>1. rows = << >> /\ MicroInit
    BY DEF CrashInit
  <1>2. ReplayRows(EmptySnapshot, rows) = EmptySnapshot
    BY <1>1, ReplayNone
  <1>3. line.op # "fsync"
    BY <1>1 DEF MicroInit, NoLine
  <1>. QED BY <1>1, <1>2, <1>3, EmptyInv, FitEmpty DEF CrashInv, TraceOK, SyncsWhole, SyncedLast

LEMMA CrashStep ==
    ASSUME Renames \subseteq {"file"}, CrashInv, [CrashNext]_crashVars
    PROVE  CrashInv'
  <1>1. CASE UNCHANGED crashVars
    <2>1. UNCHANGED <<tree, used, line, rows>>
      BY <1>1 DEF crashVars, microVars
    <2>. QED BY <2>1 DEF CrashInv, TraceOK, SyncsWhole, SyncedLast, InvWith, TreeOK,
                FinitelyMany
  <1>2. CASE Unrecorded /\ UNCHANGED rows
    <2>1. UNCHANGED <<tree, used, rows>> /\ line'.op = "none"
      BY <1>2 DEF Unrecorded, NoLine
    <2>. QED BY <2>1 DEF CrashInv, TraceOK, SyncsWhole, SyncedLast, InvWith, TreeOK,
                FinitelyMany
  <1>3. CASE \E how \in Splits : MicroOp /\ rows' = rows \o get_disk_ops(line', how)
    <2>1. PICK how \in Splits : MicroOp /\ rows' = rows \o get_disk_ops(line', how)
      BY <1>3
    <2>. DEFINE fs == ReplayRows(EmptySnapshot, rows)
                new == get_disk_ops(line', how)
                gs == ReplayRows(fs, new)
    <2>2. InvWith(fs) /\ Fit(rows, tree, used)
      BY DEF CrashInv, TraceOK
    <2>3. gs = ReplayRows(fs, get_disk_ops(line', how))
      OBVIOUS
    <2>. HIDE DEF fs, gs
    <2>4. NextInvWith(gs)
      BY <2>1, <2>2, <2>3, CallStep
    <2>5. Sized(tree) /\ Sized(tree')
      <3>1. TreeOK => Sized(tree)
        BY TreeIsSized
      <3>2. (TreeOK => Sized(tree))'
        BY TreeIsSized, PTL
      <3>. QED BY <2>2, <2>4, <3>1, <3>2 DEF InvWith, NextInvWith
    <2>6. Onward(how)
      BY <2>1, <2>2, <2>5, CallOn
    <2>7. Fit(new, tree', used') /\ Grown /\ SyncsWhole(line', tree')
      BY <2>6 DEF Onward
    <2>8. Fit(rows, tree', used')
      BY <2>2, <2>5, <2>7, FitLater
    <2>9. line'.op = "fsync" => new = <<SyncRow(line'.inode, 0, line'.size)>>
      BY DEF get_disk_ops
    <2>10. rows' = rows \o new
      BY <2>1
    <2>. HIDE DEF new
    <2>11. Fit(rows', tree', used')
      BY <2>7, <2>8, <2>10, FitConcat
    <2>12. /\ IsSequence(rows) /\ IsSequence(new)
           /\ Len(rows) \in Nat /\ Len(rows') = Len(rows) + Len(new)
           /\ \A i \in 1..Len(rows') :
                 rows'[i] = IF i <= Len(rows) THEN rows[i] ELSE new[i - Len(rows)]
      BY <2>7, <2>8, <2>10, Concatenated, InSeq DEF Fit
    <2>13. ReplayRows(EmptySnapshot, rows') = gs
      BY <2>3, <2>10, <2>12, ReplayBoth DEF fs, new
    <2>14. SyncedLast'
      <3>1. SUFFICES ASSUME line'.op = "fsync"
                     PROVE  /\ Len(rows') >= 1
                            /\ rows'[Len(rows')] = SyncRow(line'.inode, 0, line'.size)
        BY DEF SyncedLast
      <3>. DEFINE row == SyncRow(line'.inode, 0, line'.size)
      <3>. HIDE DEF row
      <3>2. new = <<row>>
        BY <2>9, <3>1 DEF row
      <3>3. Len(new) = 1 /\ new[1] = row
        BY <3>2
      <3>. QED BY <2>12, <3>3 DEF row
    <2>15. TraceOK'
      BY <2>4, <2>11, <2>13 DEF TraceOK, InvWith, NextInvWith
    <2>. QED BY <2>7, <2>14, <2>15 DEF CrashInv
  <1>. QED BY <1>1, <1>2, <1>3 DEF CrashNext

-----------------------------------------------------------------------------
(* The replay of a combo                                                     *)

\* A row that the combo leaves out changes nothing.
Step(fs, i, combo) == IF i \in combo THEN ReplayRow(fs, rows[i]) ELSE fs

\* The snapshots after ever more of the rows.
ComboReplays(combo, at) ==
    /\ at[0] = EmptySnapshot
    /\ \A k \in 1..Len(rows) : at[k] = Step(at[k - 1], k, combo)
    /\ Replayed(combo) = at[Len(rows)]

LEMMA ComboReplaysExist ==
    ASSUME IsSequence(rows), NEW combo
    PROVE  \E at : ComboReplays(combo, at)
  <1>. DEFINE N == Len(rows)
              output == [op |-> "stdout"]
              list == [i \in 1..N |-> IF i \in combo THEN rows[i] ELSE output]
  <1>1. N \in Nat /\ DOMAIN rows = 1..N
    BY DEF IsSequence
  <1>2. PICK f : FoldedUpto(EmptySnapshot, list, N, f)
    BY <1>1, FoldExists
  <1>3. ASSUME NEW fs, NEW i \in 1..N PROVE ReplayRow(fs, list[i]) = Step(fs, i, combo)
    <2>1. output.op = "stdout"
      OBVIOUS
    <2>2. list[i] = IF i \in combo THEN rows[i] ELSE output
      OBVIOUS
    <2>. HIDE DEF output, list
    <2>3. ReplayRow(fs, output) = fs
      BY <2>1 DEF ReplayRow
    <2>4. CASE i \in combo
      BY <2>2, <2>4 DEF Step
    <2>5. CASE i \notin combo
      BY <2>2, <2>3, <2>5 DEF Step
    <2>. QED BY <2>4, <2>5
  <1>. HIDE DEF list
  <1>. DEFINE ids == [i \in DOMAIN rows |-> i]
              iter[s \in SUBSET (DOMAIN ids)] ==
                 IF s = {} THEN EmptySnapshot
                 ELSE LET x == Max(s) IN IF ids[x] \in combo
                                         THEN ReplayRow(iter[s \ {x}], rows[ids[x]])
                                         ELSE iter[s \ {x}]
              Solves(h) == h = [s \in SUBSET (DOMAIN ids) |->
                 IF s = {} THEN EmptySnapshot
                 ELSE LET x == Max(s) IN IF ids[x] \in combo
                                         THEN ReplayRow(h[s \ {x}], rows[ids[x]])
                                         ELSE h[s \ {x}]]
              g == [s \in SUBSET (DOMAIN ids) |-> f[s]]
  <1>4. DOMAIN ids = 1..N /\ \A i \in 1..N : ids[i] = i
    BY <1>1
  <1>5. iter = CHOOSE h : Solves(h)
    BY DEF iter
  <1>6. Replayed(combo) = iter[DOMAIN ids]
    BY DEF Replayed, FoldLeftDomain, FoldLeft, MapThenFoldSet, iter
  <1>. HIDE DEF iter, ids
  <1>7. ASSUME NEW s \in SUBSET (1..N), s # {} PROVE Max(s) \in s /\ Max(s) \in 1..N
    <2>1. PICK last \in s : \A i \in s : i <= last
      BY <1>1, <1>7, LargestExists
    <2>2. s \subseteq Int /\ \A i \in s : last >= i
      BY <1>1, <2>1
    <2>3. Max(s) = last
      BY <2>1, <2>2, MaxIs
    <2>. QED BY <2>1, <2>3
  <1>8. Solves(g)
    <2>1. ASSUME NEW s \in SUBSET (DOMAIN ids)
          PROVE  g[s] = IF s = {} THEN EmptySnapshot
                        ELSE LET x == Max(s) IN IF ids[x] \in combo
                                                THEN ReplayRow(g[s \ {x}], rows[ids[x]])
                                                ELSE g[s \ {x}]
      <3>1. g[s] = f[s] /\ s \ {Max(s)} \in SUBSET (DOMAIN ids)
        OBVIOUS
      <3>2. g[s \ {Max(s)}] = f[s \ {Max(s)}]
        BY <3>1
      <3>3. f[s] = IF s = {} THEN EmptySnapshot ELSE ReplayRow(f[s \ {Max(s)}], list[Max(s)])
        BY <1>2, <1>4 DEF FoldedUpto
      <3>. HIDE DEF g
      <3>4. CASE s = {}
        BY <3>1, <3>3, <3>4
      <3>5. CASE s # {}
        <4>1. Max(s) \in 1..N
          BY <1>4, <1>7, <3>5
        <4>2. g[s] = Step(g[s \ {Max(s)}], Max(s), combo)
          BY <1>3, <3>1, <3>2, <3>3, <3>5, <4>1
        <4>3. ids[Max(s)] = Max(s)
          BY <1>4, <4>1
        <4>. QED BY <3>5, <4>2, <4>3 DEF Step
      <3>. QED BY <3>4, <3>5
    <2>2. g = [s \in SUBSET (DOMAIN ids) |-> g[s]]
      OBVIOUS
    <2>. HIDE DEF g
    <2>. QED BY <2>1, <2>2
  <1>9. Solves(iter)
    <2>. HIDE DEF Solves
    <2>. QED BY <1>5, <1>8
  <1>. DEFINE at == [k \in 0..N |-> iter[1..k]]
  <1>10. ASSUME NEW k \in 1..N PROVE at[k] = Step(at[k - 1], k, combo)
    <2>1. Max(1..k) = k
      <3>1. 1..k \subseteq Int /\ k \in 1..k /\ \A n \in 1..k : k >= n
        OBVIOUS
      <3>. QED BY <3>1, MaxIs
    <2>2. (1..k) \ {k} = 1..(k - 1) /\ 1..k # {}
      <3>1. \A i : i \in (1..k) \ {k} <=> i \in 1..(k - 1)
        OBVIOUS
      <3>2. k \in 1..k
        OBVIOUS
      <3>. QED BY <3>1, <3>2, Zenon
    <2>3. 1..k \in SUBSET (DOMAIN ids) /\ ids[k] = k
      BY <1>1, <1>4
    <2>4. iter[1..k] = IF ids[k] \in combo
                       THEN ReplayRow(iter[(1..k) \ {k}], rows[ids[k]])
                       ELSE iter[(1..k) \ {k}]
      BY <1>9, <2>1, <2>2, <2>3
    <2>5. at[k] = iter[1..k] /\ at[k - 1] = iter[1..(k - 1)]
      OBVIOUS
    <2>. HIDE DEF at
    <2>. QED BY <2>2, <2>3, <2>4, <2>5 DEF Step
  <1>11. at[0] = EmptySnapshot
    <2>1. 1..0 = {} /\ {} \in SUBSET (DOMAIN ids)
      OBVIOUS
    <2>2. iter[{}] = EmptySnapshot
      BY <1>9, <2>1
    <2>. QED BY <1>1, <2>1, <2>2
  <1>12. Replayed(combo) = at[N]
    BY <1>1, <1>4, <1>6
  <1>13. ComboReplays(combo, at)
    <2>. HIDE DEF at
    <2>. QED BY <1>10, <1>11, <1>12 DEF ComboReplays
  <1>. QED BY <1>13

-----------------------------------------------------------------------------
(* What a row changes, in whatever snapshot                                  *)

HasShape(fs) ==
    /\ fs = [entries |-> fs.entries, content |-> fs.content,
             place |-> fs.place, raised |-> fs.raised]
    /\ fs.entries = [p \in Paths |-> fs.entries[p]]
    /\ fs.content = [f \in Files |-> fs.content[f]]
    /\ fs.raised \in BOOLEAN

IsEntry(row, path) ==
    row.op \in {"create_dir_entry", "delete_dir_entry"} /\ row.path = path
EntryAfter(row) == IF row.op = "create_dir_entry" THEN row.inode ELSE NoInode

IsData(row, f) == row.op \in {"write", "truncate"} /\ row.inode = f
BytesAfter(row, bytes) ==
    IF row.op = "truncate" THEN Resized(bytes, row.final_size)
    ELSE Overwritten(bytes, row.offset, DataOf(row))

\* As long as it does not raise, a row sets the entry or the bytes that it is
\* about, and leaves the others alone.
Changes(fs, row, gs) ==
    ~ gs.raised =>
        /\ ~ fs.raised
        /\ \A p \in Paths : gs.entries[p] = IF IsEntry(row, p) THEN EntryAfter(row)
                                            ELSE fs.entries[p]
        /\ \A f \in Files : gs.content[f] = IF IsData(row, f)
                                            THEN BytesAfter(row, fs.content[f])
                                            ELSE fs.content[f]

\* A new entry, in a directory that may have to be placed first.
LEMMA EntrySet ==
    ASSUME NEW fs, HasShape(fs), NEW path \in Paths, NEW inode, NEW gs,
           \E place : gs = [entries |-> [fs.entries EXCEPT ![path] = inode],
                            content |-> fs.content, place |-> place, raised |-> fs.raised]
    PROVE  /\ HasShape(gs) /\ gs.raised = fs.raised /\ gs.content = fs.content
           /\ \A p \in Paths : gs.entries[p] = IF p = path THEN inode ELSE fs.entries[p]
  <1>. DEFINE e == [fs.entries EXCEPT ![path] = inode]
  <1>1. PICK place : gs = [entries |-> e, content |-> fs.content,
                           place |-> place, raised |-> fs.raised]
    OBVIOUS
  <1>2. e = [p \in Paths |-> e[p]]
    BY DEF HasShape
  <1>3. \A p \in Paths : e[p] = IF p = path THEN inode ELSE fs.entries[p]
    BY DEF HasShape
  <1>. HIDE DEF e
  <1>4. /\ gs.entries = e /\ gs.content = fs.content /\ gs.place = place
        /\ gs.raised = fs.raised
    BY <1>1
  <1>. QED BY <1>1, <1>2, <1>3, <1>4 DEF HasShape

LEMMA EntryChanges ==
    ASSUME NEW fs, HasShape(fs), fs.raised = FALSE, NEW row, EntryRow(row),
           NEW gs, gs = ReplayRow(fs, row)
    PROVE  HasShape(gs) /\ Changes(fs, row, gs)
  <1>. DEFINE path == row.path
              ws == WithDirectory(fs, Parent(path))
              inode == EntryAfter(row)
              Sets == \E place : gs = [entries |-> [fs.entries EXCEPT ![path] = inode],
                                       content |-> fs.content, place |-> place,
                                       raised |-> fs.raised]
  <1>0. path \in Paths
    BY DEF EntryRow
  <1>1. \E place : ws = [entries |-> fs.entries, content |-> fs.content,
                         place |-> place, raised |-> fs.raised]
    BY DEF WithDirectory, HasShape
  <1>2. PICK place : ws = [entries |-> fs.entries, content |-> fs.content,
                           place |-> place, raised |-> fs.raised]
    BY <1>1
  <1>. HIDE DEF ws
  <1>3. \A n : [ws EXCEPT !.entries[path] = n]
                  = [entries |-> [fs.entries EXCEPT ![path] = n], content |-> fs.content,
                     place |-> place, raised |-> fs.raised]
    BY <1>2
  <1>4. \A n, d : [ws EXCEPT !.entries[path] = n, !.place[d] = "linked"]
                  = [entries |-> [fs.entries EXCEPT ![path] = n], content |-> fs.content,
                     place |-> [place EXCEPT ![d] = "linked"], raised |-> fs.raised]
    <2>. TAKE n, d
    <2>. DEFINE e == [fs.entries EXCEPT ![path] = n]
                x == [ws EXCEPT !.entries[path] = n]
    <2>1. x = [entries |-> e, content |-> fs.content, place |-> place, raised |-> fs.raised]
      BY <1>3
    <2>. HIDE DEF e, x
    <2>2. [x EXCEPT !.place[d] = "linked"]
              = [entries |-> e, content |-> fs.content,
                 place |-> [place EXCEPT ![d] = "linked"], raised |-> fs.raised]
      BY <2>1
    <2>. QED BY <2>2 DEF e, x
  <1>5. gs = Raised(fs) \/ Sets
    <2>1. CASE row.op = "create_dir_entry" /\ row.entry_type = "file"
      <3>1. gs = CreateFileEntry(fs, row) /\ inode = row.inode
        BY <2>1 DEF ReplayRow, EntryAfter
      <3>2. gs = Raised(fs) \/ gs = [ws EXCEPT !.entries[path] = inode]
        BY <3>1 DEF CreateFileEntry, ws
      <3>. QED BY <1>3, <3>2
    <2>2. CASE row.op = "create_dir_entry" /\ row.entry_type = "dir"
      <3>1. gs = CreateDirEntry(fs, row) /\ inode = row.inode
        BY <2>2 DEF ReplayRow, EntryAfter
      <3>2. gs = Raised(fs)
            \/ gs = [ws EXCEPT !.entries[path] = inode, !.place[inode] = "linked"]
        BY <3>1 DEF CreateDirEntry, ws
      <3>. QED BY <1>4, <3>2
    <2>3. CASE row.op = "delete_dir_entry" /\ row.entry_type = "file"
      <3>1. gs = DeleteFileEntry(fs, row) /\ inode = NoInode
        BY <2>3 DEF ReplayRow, EntryAfter
      <3>2. gs = Raised(fs) \/ gs = [ws EXCEPT !.entries[path] = inode]
        BY <3>1 DEF DeleteFileEntry, ws
      <3>. QED BY <1>3, <3>2
    <2>4. CASE row.op = "delete_dir_entry" /\ row.entry_type = "dir"
      <3>1. gs = DeleteDirEntry(fs, row) /\ inode = NoInode
        BY <2>4 DEF ReplayRow, EntryAfter
      <3>2. gs = Raised(fs) \/ gs = [ws EXCEPT !.entries[path] = inode]
        BY <3>1 DEF DeleteDirEntry, ws
      <3>. QED BY <1>3, <3>2
    <2>. QED BY <2>1, <2>2, <2>3, <2>4 DEF EntryRow
  <1>6. CASE gs = Raised(fs)
    <2>1. gs = [entries |-> fs.entries, content |-> fs.content,
                place |-> fs.place, raised |-> TRUE]
      BY <1>6 DEF Raised, HasShape
    <2>2. /\ gs.entries = fs.entries /\ gs.content = fs.content /\ gs.place = fs.place
          /\ gs.raised = TRUE
      BY <2>1
    <2>. QED BY <2>1, <2>2 DEF HasShape, Changes
  <1>7. CASE Sets
    <2>1. /\ HasShape(gs) /\ gs.raised = fs.raised /\ gs.content = fs.content
          /\ \A p \in Paths : gs.entries[p] = IF p = path THEN inode ELSE fs.entries[p]
      <3>. HIDE DEF inode, path
      <3>. QED BY <1>0, <1>7, EntrySet
    <2>2. \A p \in Paths : IsEntry(row, p) <=> p = path
      BY DEF IsEntry, EntryRow
    <2>3. \A f \in Files : ~ IsData(row, f)
      BY DEF IsData, EntryRow
    <2>. QED BY <2>1, <2>2, <2>3 DEF Changes
  <1>. QED BY <1>5, <1>6, <1>7

DataRow(row) == row.op \in {"write", "truncate"} /\ row.inode \in Files

LEMMA DataChanges ==
    ASSUME NEW fs, HasShape(fs), fs.raised = FALSE, NEW row, DataRow(row),
           NEW gs, gs = ReplayRow(fs, row)
    PROVE  HasShape(gs) /\ Changes(fs, row, gs)
  <1>0. row.op \in {"write", "truncate"} /\ row.inode \in Files
    BY DEF DataRow
  <1>. DEFINE f == row.inode
              bytes == BytesAfter(row, fs.content[f])
              c == [fs.content EXCEPT ![f] = bytes]
  <1>1. gs = [fs EXCEPT !.content[f] = bytes]
    <2>1. CASE row.op = "truncate"
      <3>1. gs = Truncate(fs, row)
        BY <2>1 DEF ReplayRow
      <3>. QED BY <2>1, <3>1 DEF Truncate, BytesAfter
    <2>2. CASE row.op = "write"
      <3>1. gs = Write(fs, row)
        BY <2>2 DEF ReplayRow
      <3>2. Write(fs, row) = [fs EXCEPT !.content[row.inode]
                                 = Overwritten(@, row.offset, DataOf(row))]
        BY DEF Write, DataOf
      <3>3. bytes = Overwritten(fs.content[f], row.offset, DataOf(row))
        BY <2>2 DEF BytesAfter
      <3>. QED BY <3>1, <3>2, <3>3
    <2>. QED BY <1>0, <2>1, <2>2
  <1>. HIDE DEF bytes
  <1>2. gs = [entries |-> fs.entries, content |-> c, place |-> fs.place, raised |-> fs.raised]
    BY <1>1 DEF HasShape
  <1>3. /\ c = [g \in Files |-> c[g]]
        /\ \A g \in Files : c[g] = IF g = f THEN bytes ELSE fs.content[g]
    BY <1>0 DEF HasShape
  <1>. HIDE DEF c
  <1>4. /\ gs.entries = fs.entries /\ gs.content = c /\ gs.place = fs.place
        /\ gs.raised = fs.raised
    BY <1>2
  <1>5. HasShape(gs)
    BY <1>2, <1>3, <1>4 DEF HasShape
  <1>6. \A g \in Files : IsData(row, g) <=> g = f
    BY <1>0 DEF IsData
  <1>7. \A p \in Paths : ~ IsEntry(row, p)
    BY <1>0 DEF IsEntry
  <1>8. \A g \in Files : gs.content[g] = IF IsData(row, g)
                                         THEN BytesAfter(row, fs.content[g])
                                         ELSE fs.content[g]
    BY <1>3, <1>4, <1>6 DEF bytes
  <1>. QED BY <1>4, <1>5, <1>7, <1>8 DEF Changes

LEMMA RowChanges ==
    ASSUME NEW fs, HasShape(fs), NEW row, NEW t, NEW u, FitRow(row, t, u),
           NEW gs, gs = ReplayRow(fs, row)
    PROVE  HasShape(gs) /\ Changes(fs, row, gs)
  <1>1. CASE fs.raised = TRUE
    <2>1. gs = fs
      BY <1>1 DEF ReplayRow
    <2>. QED BY <1>1, <2>1 DEF Changes
  <1>2. CASE fs.raised = FALSE
    <2>1. CASE EntryRow(row)
      BY <1>2, <2>1, EntryChanges
    <2>2. CASE WriteRow(row, t, u) \/ CutRow(row, t, u)
      <3>1. DataRow(row)
        BY <2>2 DEF WriteRow, CutRow, DataRow
      <3>. QED BY <1>2, <3>1, DataChanges
    <2>3. CASE row.op \in {"sync", "stdout"}
      <3>1. gs = fs
        BY <1>2, <2>3 DEF ReplayRow
      <3>2. /\ \A p \in Paths : ~ IsEntry(row, p)
            /\ \A f \in Files : ~ IsData(row, f)
        BY <2>3 DEF IsEntry, IsData
      <3>. QED BY <3>1, <3>2 DEF Changes
    <2>. QED BY <2>1, <2>2, <2>3 DEF FitRow
  <1>3. fs.raised \in BOOLEAN
    BY DEF HasShape
  <1>. QED BY <1>1, <1>2, <1>3

LEMMA EmptyShape == HasShape(EmptySnapshot)
  <1>. DEFINE fs == EmptySnapshot
  <1>1. /\ fs.entries = [p \in Paths |-> NoInode]
        /\ fs.content = [f \in Files |-> << >>]
        /\ fs.raised = FALSE
        /\ fs = [entries |-> fs.entries, content |-> fs.content,
                 place |-> fs.place, raised |-> fs.raised]
    BY DEF EmptySnapshot
  <1>. HIDE DEF fs
  <1>2. fs.entries = [p \in Paths |-> fs.entries[p]] /\ fs.content = [f \in Files |-> fs.content[f]]
    BY <1>1
  <1>. QED BY <1>1, <1>2 DEF HasShape, fs

-----------------------------------------------------------------------------
(* Combos that have all the rows about an entry or a file                    *)

SameParts(fs, gs, P, F) ==
    /\ \A p \in P : gs.entries[p] = fs.entries[p]
    /\ \A f \in F : gs.content[f] = fs.content[f]

\* One row, which the combo may leave out.
LEMMA SameStep ==
    ASSUME NEW fs, HasShape(fs), NEW gs, HasShape(gs), NEW combo, NEW i, NEW t, NEW u,
           FitRow(rows[i], t, u), NEW P, P \subseteq Paths, NEW F, F \subseteq Files,
           ~ fs.raised /\ ~ gs.raised => SameParts(fs, gs, P, F),
           (\E p \in P : IsEntry(rows[i], p)) \/ (\E f \in F : IsData(rows[i], f)) => i \in combo,
           NEW fn, fn = ReplayRow(fs, rows[i]), NEW gn, gn = Step(gs, i, combo)
    PROVE  /\ HasShape(fn) /\ HasShape(gn)
           /\ ~ fn.raised /\ ~ gn.raised => SameParts(fn, gn, P, F)
  <1>1. HasShape(fn) /\ Changes(fs, rows[i], fn)
    BY RowChanges
  <1>2. CASE i \in combo
    <2>1. gn = ReplayRow(gs, rows[i])
      BY <1>2 DEF Step
    <2>2. HasShape(gn) /\ Changes(gs, rows[i], gn)
      BY <2>1, RowChanges
    <2>3. ASSUME ~ fn.raised, ~ gn.raised PROVE SameParts(fn, gn, P, F)
      <3>1. SameParts(fs, gs, P, F)
        BY <1>1, <2>2, <2>3 DEF Changes
      <3>2. ASSUME NEW p \in P PROVE gn.entries[p] = fn.entries[p]
        BY <1>1, <2>2, <2>3, <3>1, <3>2 DEF Changes, SameParts
      <3>3. ASSUME NEW f \in F PROVE gn.content[f] = fn.content[f]
        BY <1>1, <2>2, <2>3, <3>1, <3>3 DEF Changes, SameParts
      <3>. QED BY <3>2, <3>3 DEF SameParts
    <2>. QED BY <1>1, <2>2, <2>3
  <1>3. CASE i \notin combo
    <2>1. gn = gs
      BY <1>3 DEF Step
    <2>2. (\A p \in P : ~ IsEntry(rows[i], p)) /\ (\A f \in F : ~ IsData(rows[i], f))
      BY <1>3
    <2>3. ASSUME ~ fn.raised, ~ gn.raised PROVE SameParts(fn, gn, P, F)
      <3>1. SameParts(fs, gs, P, F)
        BY <1>1, <2>1, <2>3 DEF Changes
      <3>2. ASSUME NEW p \in P PROVE gn.entries[p] = fn.entries[p]
        BY <1>1, <2>1, <2>2, <2>3, <3>1, <3>2 DEF Changes, SameParts
      <3>3. ASSUME NEW f \in F PROVE gn.content[f] = fn.content[f]
        BY <1>1, <2>1, <2>2, <2>3, <3>1, <3>3 DEF Changes, SameParts
      <3>. QED BY <3>2, <3>3 DEF SameParts
    <2>. QED BY <1>1, <2>1, <2>3
  <1>. QED BY <1>2, <1>3

\* The replay of a combo that has all the rows about the paths of P and the
\* files of F makes of these what the replay of all rows makes.
LEMMA ComboAgrees ==
    ASSUME NEW t, NEW u, Fit(rows, t, u), NEW P, P \subseteq Paths, NEW F, F \subseteq Files,
           NEW combo,
           \A i \in 1..Len(rows) :
               (\E p \in P : IsEntry(rows[i], p)) \/ (\E f \in F : IsData(rows[i], f))
                   => i \in combo,
           NEW fs, fs = ReplayRows(EmptySnapshot, rows), ~ fs.raised,
           NEW gs, gs = Replayed(combo), ~ gs.raised
    PROVE  SameParts(fs, gs, P, F)
  <1>. DEFINE N == Len(rows)
  <1>1. IsSequence(rows) /\ N \in Nat
    BY InSeq DEF Fit
  <1>2. PICK after : Replays(EmptySnapshot, rows, after)
    BY <1>1, ReplaysExist
  <1>3. PICK at : ComboReplays(combo, at)
    BY <1>1, ComboReplaysExist
  <1>. DEFINE Same(k) == /\ HasShape(after[k]) /\ HasShape(at[k])
                         /\ ~ after[k].raised /\ ~ at[k].raised => SameParts(after[k], at[k], P, F)
              T == {k \in Nat : k <= N => Same(k)}
  <1>4. 0 \in T
    <2>1. after[0] = EmptySnapshot /\ at[0] = EmptySnapshot
      BY <1>2, <1>3 DEF Replays, ComboReplays
    <2>2. SameParts(EmptySnapshot, EmptySnapshot, P, F)
      BY DEF SameParts
    <2>. QED BY <2>1, <2>2, EmptyShape
  <1>5. ASSUME NEW k \in Nat, k \in T PROVE k + 1 \in T
    <2>1. SUFFICES ASSUME k + 1 <= N PROVE Same(k + 1)
      OBVIOUS
    <2>2. k + 1 \in 1..N /\ (k + 1) - 1 = k /\ k <= N
      BY <1>1, <2>1
    <2>3. Same(k)
      BY <1>5, <2>2
    <2>4. /\ after[k + 1] = ReplayRow(after[k], rows[k + 1])
          /\ at[k + 1] = Step(at[k], k + 1, combo)
      BY <1>2, <1>3, <2>2 DEF Replays, ComboReplays
    <2>5. /\ FitRow(rows[k + 1], t, u)
          /\ (\E p \in P : IsEntry(rows[k + 1], p)) \/ (\E f \in F : IsData(rows[k + 1], f))
                 => k + 1 \in combo
      BY <2>2 DEF Fit
    <2>. QED BY <2>3, <2>4, <2>5, SameStep
  <1>6. N \in T
    <2>. HIDE DEF T
    <2>. QED BY <1>1, <1>4, <1>5, Current!NatSetInduction
  <1>7. fs = after[N] /\ gs = at[N]
    BY <1>2, <1>3 DEF Replays, ComboReplays
  <1>8. N <= N
    BY <1>1
  <1>. QED BY <1>6, <1>7, <1>8

-----------------------------------------------------------------------------
(* What the last sync depends on                                             *)

LEMMA LastDependsOn ==
    ASSUME IsSequence(rows), Len(rows) >= 1, NEW inode, NEW size,
           rows[Len(rows)] = SyncRow(inode, 0, size),
           NEW j \in 1..(Len(rows) - 1), NEW op, op = AsOperation(rows[j]), op.inode = inode,
           \/ op.syscall \in {"write", "truncate"} /\ 0 <= op.start /\ op.end <= 0 + size
           \/ op.syscall \in {"create_dir_entry", "delete_dir_entry"}
    PROVE  j \in DepsOf(rows)[Len(rows)]
  <1>. DEFINE N == Len(rows)
              ops == Operations(rows)
              last == AsOperation(rows[N])
  <1>1. N \in Nat /\ DOMAIN rows = 1..N /\ N \in 1..N /\ j \in 1..N /\ j < N
    BY InSeq
  <1>2. ops[N] = last /\ ops[j] = op
    BY <1>1 DEF Operations
  <1>3. /\ last.syscall = "sync" /\ last.inode = inode
        /\ last.start = 0 /\ last.end = 0 + size
    <2>. DEFINE row == rows[N]
    <2>1. /\ row.op = "sync" /\ row.inode = inode /\ row.offset = 0 /\ row.count = size
      BY DEF SyncRow
    <2>. HIDE DEF row
    <2>2. AsOperation(row) = [syscall |-> row.op, inode |-> row.inode,
                              start |-> row.offset, end |-> row.offset + row.count]
      BY <2>1 DEF AsOperation
    <2>. QED BY <2>1, <2>2 DEF row
  <1>4. DepsOf(rows)[N] = Suite(ops, << >>)!MeaningOfDeps(N)
    BY <1>1 DEF DepsOf
  <1>. HIDE DEF ops, last, N
  <1>5. Suite(ops, << >>)!Covers(N, j)
    BY <1>1, <1>2, <1>3 DEF Suite!Covers, Suite!IsSync, Suite!is_included_in_sync_range,
                            Suite!metadata_calls
  <1>6. j \in Suite(ops, << >>)!MeaningOfDeps(N)
    <2>1. j \in 1..(N - 1)
      BY DEF N
    <2>. QED BY <1>1, <1>5, <2>1 DEF Suite!MeaningOfDeps
  <1>. QED BY <1>4, <1>6 DEF N

\* The trace after an fsync of inode, and one of its crash states that was
\* replayed without an exception.
LEMMA Synced ==
    ASSUME CrashInv, line.op = "fsync", NEW gs \in SyncedStates, ~ gs.raised
    PROVE  \E combo, fs :
              /\ gs = Replayed(combo)
              /\ \A j \in DepsOf(rows)[Len(rows)] : j \in combo
              /\ fs = ReplayRows(EmptySnapshot, rows) /\ ~ fs.raised
              /\ InvWith(fs) /\ Fit(rows, tree, used)
              /\ IsSequence(rows) /\ Len(rows) >= 1
              /\ rows[Len(rows)] = SyncRow(line.inode, 0, line.size)
  <1>1. PICK combo \in LastRowCombos : gs = Replayed(combo)
    BY DEF SyncedStates
  <1>2. \A j \in DepsOf(rows)[Len(rows)] : j \in combo
    BY DEF LastRowCombos, LastRow
  <1>. DEFINE fs == ReplayRows(EmptySnapshot, rows)
  <1>3. InvWith(fs) /\ Fit(rows, tree, used)
    BY DEF CrashInv, TraceOK
  <1>. HIDE DEF fs
  <1>4. ~ fs.raised
    BY <1>3 DEF InvWith, SnapshotOK, IsSnapshot
  <1>5. /\ IsSequence(rows) /\ Len(rows) >= 1
        /\ rows[Len(rows)] = SyncRow(line.inode, 0, line.size)
    BY <1>3 DEF Fit, CrashInv, SyncedLast
  <1>. QED BY <1>1, <1>2, <1>3, <1>4, <1>5 DEF fs

LEMMA DirectorySurvives == CrashInv => SyncedDirectorySurvives
  <1>. SUFFICES ASSUME CrashInv, line.op = "fsync", line.inode \in Dirs,
                       NEW gs \in SyncedStates, NEW name \in Names, ~ gs.raised
                PROVE  gs.entries[<<line.inode, name>>] = tree.entries[<<line.inode, name>>]
    BY DEF SyncedDirectorySurvives
  <1>. DEFINE dir == line.inode
              N == Len(rows)
              P == {dir} \X Names
  <1>1. PICK combo, fs :
              /\ gs = Replayed(combo)
              /\ \A j \in DepsOf(rows)[N] : j \in combo
              /\ fs = ReplayRows(EmptySnapshot, rows) /\ ~ fs.raised
              /\ InvWith(fs) /\ Fit(rows, tree, used)
              /\ IsSequence(rows) /\ N >= 1
              /\ rows[N] = SyncRow(dir, 0, line.size)
    BY Synced
  <1>2. N \in Nat
    BY <1>1, InSeq
  <1>3. ASSUME NEW i \in 1..N, \E p \in P : IsEntry(rows[i], p) PROVE i \in combo
    <2>. DEFINE row == rows[i]
                op == AsOperation(row)
    <2>1. row.op \in {"create_dir_entry", "delete_dir_entry"} /\ Parent(row.path) = dir
      BY <1>3 DEF IsEntry, Parent
    <2>2. i # N
      BY <1>1, <2>1 DEF SyncRow
    <2>3. i \in 1..(N - 1)
      BY <1>2, <2>2
    <2>. HIDE DEF row
    <2>4. op = [syscall |-> row.op, inode |-> Parent(row.path), start |-> 0, end |-> 0]
      BY <2>1 DEF AsOperation
    <2>5. op.syscall \in {"create_dir_entry", "delete_dir_entry"} /\ op.inode = dir
      BY <2>1, <2>4
    <2>6. op = AsOperation(rows[i])
      BY DEF row
    <2>. HIDE DEF op, dir, N
    <2>7. i \in DepsOf(rows)[Len(rows)]
      BY <1>1, <2>3, <2>5, <2>6, LastDependsOn DEF N
    <2>. QED BY <1>1, <2>7 DEF N
  <1>4. P \subseteq Paths /\ <<dir, name>> \in P
    BY DEF Paths
  <1>. HIDE DEF dir, P
  <1>5. SameParts(fs, gs, P, {})
    BY <1>1, <1>3, <1>4, ComboAgrees DEF N
  <1>6. fs.entries = tree.entries
    BY <1>1 DEF InvWith, SnapshotOK
  <1>. QED BY <1>4, <1>5, <1>6 DEF SameParts, dir

LEMMA FileSurvives ==
    ASSUME Truncs \subseteq {"grow"}
    PROVE  CrashInv => SyncedFileSurvives
  <1>. SUFFICES ASSUME CrashInv, line.op = "fsync", line.inode \in Files,
                       NEW gs \in SyncedStates, ~ gs.raised
                PROVE  gs.content[line.inode] = tree.content[line.inode]
    BY DEF SyncedFileSurvives
  <1>. DEFINE f == line.inode
              size == line.size
              N == Len(rows)
  <1>1. PICK combo, fs :
              /\ gs = Replayed(combo)
              /\ \A j \in DepsOf(rows)[N] : j \in combo
              /\ fs = ReplayRows(EmptySnapshot, rows) /\ ~ fs.raised
              /\ InvWith(fs) /\ Fit(rows, tree, used)
              /\ IsSequence(rows) /\ N >= 1
              /\ rows[N] = SyncRow(f, 0, size)
    BY Synced
  <1>2. N \in Nat
    BY <1>1, InSeq
  <1>3. Leads(tree, f) /\ size = Len(tree.content[f])
    BY DEF CrashInv, SyncsWhole
  <1>4. ASSUME NEW i \in 1..N, IsData(rows[i], f) PROVE i \in combo
    <2>. DEFINE row == rows[i]
                op == AsOperation(row)
    <2>1. row.op \in {"write", "truncate"} /\ row.inode = f /\ FitRow(row, tree, used)
      BY <1>1, <1>4 DEF IsData, Fit
    <2>2. i # N
      BY <1>1, <2>1 DEF SyncRow
    <2>3. i \in 1..(N - 1)
      BY <1>2, <2>2
    <2>. HIDE DEF row, f, size
    <2>4. row.op = "write" /\ row.offset \in Nat /\ row.offset + row.count <= 0 + size
      <3>1. WriteRow(row, tree, used) \/ CutRow(row, tree, used)
        BY <2>1 DEF FitRow, EntryRow
      <3>2. ~ CutRow(row, tree, used)
        BY <1>3, <2>1 DEF CutRow, Gone
      <3>3. /\ row.op = "write" /\ row.offset \in Nat /\ row.count \in Nat
            /\ row.offset + row.count <= Len(tree.content[f])
        BY <1>3, <2>1, <3>1, <3>2 DEF WriteRow, Holds
      <3>4. Len(tree.content[f]) \in Nat
        BY <1>1, TreeIsSized DEF InvWith, Sized, f
      <3>. QED BY <1>3, <3>3, <3>4
    <2>5. op = [syscall |-> row.op, inode |-> row.inode,
                start |-> row.offset, end |-> row.offset + row.count]
      BY <2>4 DEF AsOperation
    <2>6. /\ op.syscall \in {"write", "truncate"} /\ op.inode = f
          /\ 0 <= op.start /\ op.end <= 0 + size
      BY <2>1, <2>4, <2>5
    <2>7. op = AsOperation(rows[i])
      BY DEF row
    <2>. HIDE DEF op, N
    <2>8. i \in DepsOf(rows)[Len(rows)]
      BY <1>1, <2>3, <2>6, <2>7, LastDependsOn DEF N
    <2>. QED BY <1>1, <2>8 DEF N
  <1>5. f \in Files
    OBVIOUS
  <1>. HIDE DEF f
  <1>6. SameParts(fs, gs, {}, {f})
    BY <1>1, <1>4, <1>5, ComboAgrees DEF N
  <1>7. fs.content[f] = tree.content[f]
    BY <1>1, <1>3, <1>5 DEF InvWith, SnapshotOK, Leads
  <1>. QED BY <1>6, <1>7 DEF SameParts, f

LEMMA TracesStayGood ==
    ASSUME Renames \subseteq {"file"}
    PROVE  CrashSpec => []CrashInv
  <1>1. CrashInit => CrashInv
    BY CrashStart
  <1>2. CrashInv /\ [CrashNext]_crashVars => CrashInv'
    BY CrashStep
  <1>. QED BY <1>1, <1>2, PTL DEF CrashSpec

\* SyncedDirectorySurvives: once an fsync of a directory that conv_micro records
\* has returned, every valid crash state of every trace has the entries of that
\* directory, whatever the splits and whatever else the crash loses, as long as
\* only files are renamed.  (None is recorded by a descriptor that was opened with
\* O_DIRECTORY, conv_micro.py:389, 636.  The rows of a rename of a directory make
\* a file of it; diskops.py:111-132.)
THEOREM SyncedDirectoriesSurvive ==
    ASSUME Renames \subseteq {"file"}
    PROVE  CrashSpec => []SyncedDirectorySurvives
  BY TracesStayGood, DirectorySurvives, PTL

\* SyncedFileSurvives: once fsync of a file has returned, every valid crash state
\* of every trace has the bytes of that file, as long as only files are renamed
\* and no file is made smaller while it has a name.  (A write that a truncation
\* has cut off is behind the range of every later sync, so no sync makes it
\* durable; auto_test.py:126-143, diskops.py:163-172.)
THEOREM SyncedFilesSurvive ==
    ASSUME Renames \subseteq {"file"}, Truncs \subseteq {"grow"}
    PROVE  CrashSpec => []SyncedFileSurvives
  BY TracesStayGood, FileSurvives, PTL
=============================================================================
