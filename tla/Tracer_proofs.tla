---------------------------- MODULE Tracer_proofs ----------------------------
(***************************************************************************)
(* For any number of pids, any size of the first table and any scenarios:  *)
(* strace counts its threads, has one block for each, alloctcb always      *)
(* finds a free block, strace never takes the entry of a call for its      *)
(* exit, its table is that of the threads there are, and when it detaches  *)
(* it leaves no thread stopped.                                            *)
(*                                                                         *)
(* The first part proves an invariant of TcbTable, TableInv, for the table *)
(* of Tracer.  The second shows what each function of TraceOutput does to  *)
(* the blocks, and the third that every step of Tracer, in its invariant,  *)
(* is a step of TcbTable or leaves the table alone.  The fourth relates    *)
(* what a block says to the thread it is for, the fifth which blocks there *)
(* are to which threads there are, and the last follows SIGSTOP.           *)
(***************************************************************************)
EXTENDS Tracer, FiniteSetTheorems, SequenceTheorems, WellFoundedInduction, TLAPS

\* The two are the same operator of FiniteSets.
LEMMA SameCardinality == \A S : Table!Cardinality(S) = Cardinality(S)
  BY DEF Cardinality, Table!Cardinality

LEMMA CountIs == Table!CountExact <=> out.nprocs = Cardinality(Table!Used)
  BY SameCardinality DEF Table!CountExact

TableInv == Table!TableTypeOK /\ Table!CountExact /\ Table!PidsDistinct

-----------------------------------------------------------------------------
(* Tables as functions                                                     *)

TabOf(n) == [1..n -> {0} \cup Pids]

LEMMA TableIsFunction ==
  ASSUME Table!TableTypeOK
  PROVE  /\ tcbPids \in TabOf(Len(tcbPids)) /\ Len(tcbPids) \in Nat \ {0}
         /\ DOMAIN tcbPids = 1..Len(tcbPids)
  BY FirstSizeAssumption DEF Table!TableTypeOK, TabOf

LEMMA FunctionIsTable ==
  ASSUME NEW n \in Nat, n >= FirstSize, NEW tab \in TabOf(n)
  PROVE  tab \in Seq({0} \cup Pids) /\ Len(tab) = n /\ DOMAIN tab = 1..n
<1>1. tab \in Seq({0} \cup Pids)
  BY IsASeq DEF TabOf
<1>2. DOMAIN tab = 1..n
  BY DEF TabOf
<1>3. Len(tab) = n
  BY <1>1, <1>2, LenProperties
<1>. QED  BY <1>1, <1>2, <1>3

UsedIn(tab) == {i \in DOMAIN tab : tab[i] # 0}

LEMMA UsedIsFinite ==
  ASSUME NEW n \in Nat, NEW tab \in TabOf(n)
  PROVE  IsFiniteSet(UsedIn(tab)) /\ UsedIn(tab) \subseteq 1..n
<1>1. UsedIn(tab) \subseteq 1..n
  BY DEF UsedIn, TabOf
<1>2. IsFiniteSet(1..n)
  BY FS_Interval
<1>. QED  BY <1>1, <1>2, FS_Subset

-----------------------------------------------------------------------------
(* alloctcb                                                                *)

\* A table with a free block has a first one.
LEMMA FirstFreeExists ==
  ASSUME NEW n \in Nat, NEW tab \in TabOf(n), NEW k \in 1..n, tab[k] = 0
  PROVE  Table!FirstFree(tab) # {}
<1>. DEFINE Free == {i \in 1..n : tab[i] = 0}
<1>. DEFINE Upto == {1..i : i \in Free}
<1>1. Upto \subseteq FiniteSubsetsOf(Nat) /\ Upto # {}
  <2>1. \A i \in Free : 1..i \in SUBSET Nat /\ IsFiniteSet(1..i)
    BY FS_Interval
  <2>2. k \in Free
    OBVIOUS
  <2>. QED  BY <2>1, <2>2 DEF FiniteSubsetsOf
<1>2. PICK U \in Upto : \A V \in Upto : <<V, U>> \notin StrictSubsetOrdering(Nat)
  BY <1>1, FS_StrictSubsetOrderingWellFounded, WFMin
<1>3. PICK i \in Free : U = 1..i
  OBVIOUS
<1>4. \A j \in 1..(i - 1) : tab[j] # 0
  <2>1. SUFFICES ASSUME NEW j \in 1..(i - 1), tab[j] = 0 PROVE FALSE
    OBVIOUS
  <2>2. j \in Free /\ 1..j \in Upto
    BY <2>1
  <2>3. 1..j \subseteq 1..i /\ i \in 1..i /\ i \notin 1..j
    BY <2>1
  <2>4. <<1..j, U>> \in StrictSubsetOrdering(Nat)
    BY <1>3, <2>3 DEF StrictSubsetOrdering
  <2>. QED  BY <1>2, <2>2, <2>4
<1>5. i \in Table!FirstFree(tab)
  BY <1>3, <1>4 DEF Table!FirstFree, TabOf
<1>. QED  BY <1>5

\* The table alloctcb looks into: it has the blocks of tcbPids, and a free one.
LEMMA RoomyHasRoom ==
  ASSUME TableInv
  PROVE  \E n \in Nat :
            /\ n >= FirstSize /\ Table!Roomy \in TabOf(n)
            /\ UsedIn(Table!Roomy) = Table!Used
            /\ \A i \in Table!Used : Table!Roomy[i] = tcbPids[i]
            /\ \E k \in 1..n : Table!Roomy[k] = 0
<1>. DEFINE m == Len(tcbPids)
<1>0. m \in Nat \ {0} /\ m >= FirstSize /\ tcbPids \in TabOf(m) /\ DOMAIN tcbPids = 1..m
  BY TableIsFunction DEF TableInv, Table!TableTypeOK
<1>1. CASE out.nprocs = m
  <2>1. Table!Roomy = [i \in 1..(2 * m) |-> IF i <= m THEN tcbPids[i] ELSE 0]
    BY <1>1 DEF Table!Roomy, Table!Expanded
  <2>2. Table!Roomy \in TabOf(2 * m)
    BY <1>0, <2>1 DEF TabOf
  <2>3. UsedIn(Table!Roomy) = Table!Used /\ \A i \in Table!Used : Table!Roomy[i] = tcbPids[i]
    BY <1>0, <2>1 DEF UsedIn, Table!Used
  <2>4. Table!Roomy[m + 1] = 0 /\ m + 1 \in 1..(2 * m)
    BY <1>0, <2>1
  <2>5. 2 * m \in Nat /\ 2 * m >= FirstSize
    BY <1>0, FirstSizeAssumption
  <2>. QED  BY <2>2, <2>3, <2>4, <2>5
<1>2. CASE out.nprocs # m
  <2>1. Table!Roomy = tcbPids
    BY <1>2 DEF Table!Roomy
  <2>2. \E k \in 1..m : tcbPids[k] = 0
    <3>1. SUFFICES ASSUME \A k \in 1..m : tcbPids[k] # 0 PROVE FALSE
      OBVIOUS
    <3>2. Table!Used = 1..m
      BY <1>0, <3>1 DEF Table!Used
    <3>3. Cardinality(1..m) = m
      BY <1>0, FS_Interval
    <3>. QED  BY SameCardinality, <1>2, <3>2, <3>3 DEF TableInv, Table!CountExact
  <2>. QED  BY <1>0, <2>1, <2>2 DEF UsedIn, Table!Used
<1>. QED  BY <1>1, <1>2

-----------------------------------------------------------------------------
(* The invariant                                                           *)

LEMMA InvInit == Table!TableInit => TableInv
<1>. SUFFICES ASSUME Table!TableInit PROVE TableInv
  OBVIOUS
<1>1. tcbPids \in TabOf(FirstSize)
  BY FirstSizeAssumption DEF Table!TableInit, TabOf
<1>2. Table!TableTypeOK
  BY <1>1, FirstSizeAssumption, FunctionIsTable DEF Table!TableInit, Table!TableTypeOK
<1>3. Table!Used = {}
  BY DEF Table!TableInit, Table!Used
<1>. QED  BY SameCardinality, <1>2, <1>3, FS_EmptySet
   DEF TableInv, Table!CountExact, Table!PidsDistinct, Table!TableInit

LEMMA AllocKeepsInv ==
  ASSUME TableInv, NEW pid \in Pids, Table!Alloc(pid)
  PROVE  TableInv'
<1>1. PICK n \in Nat :
        /\ n >= FirstSize /\ Table!Roomy \in TabOf(n)
        /\ UsedIn(Table!Roomy) = Table!Used
        /\ \A i \in Table!Used : Table!Roomy[i] = tcbPids[i]
  BY RoomyHasRoom
<1>2. PICK i \in Table!FirstFree(Table!Roomy) : tcbPids' = [Table!Roomy EXCEPT ![i] = pid]
  BY DEF Table!Alloc
<1>3. i \in 1..n /\ Table!Roomy[i] = 0 /\ i \notin Table!Used
  BY <1>1 DEF Table!FirstFree, TabOf, UsedIn
<1>4. pid # 0 /\ pid \in Nat
  BY PidsAssumption
<1>5. tcbPids' \in TabOf(n)
  BY <1>1, <1>2 DEF TabOf
<1>6. Table!Used' = Table!Used \cup {i}
  BY <1>1, <1>2, <1>3, <1>4 DEF Table!Used, UsedIn, TabOf
<1>7. Table!TableTypeOK'
  <2>1. tcbPids' \in Seq({0} \cup Pids) /\ Len(tcbPids') >= FirstSize
    BY <1>1, <1>5, FunctionIsTable
  <2>2. out.nprocs' \in Nat
    BY DEF Table!Alloc, Table!TableTypeOK, TableInv
  <2>. QED  BY <2>1, <2>2 DEF Table!TableTypeOK
<1>8. Table!CountExact'
  <2>1. IsFiniteSet(Table!Used)
    BY <1>1, UsedIsFinite
  <2>2. Cardinality(Table!Used \cup {i}) = Cardinality(Table!Used) + 1
    BY <1>3, <2>1, FS_AddElement
  <2>. QED  BY SameCardinality, <1>6, <2>2 DEF Table!CountExact, Table!Alloc, TableInv
<1>9. Table!PidsDistinct'
  <2>1. \A j \in Table!Used : tcbPids'[j] = tcbPids[j] /\ tcbPids[j] # pid
    BY <1>1, <1>2, <1>3 DEF Table!Alloc, TabOf
  <2>2. tcbPids'[i] = pid
    BY <1>1, <1>2, <1>3 DEF TabOf
  <2>. QED  BY <1>6, <2>1, <2>2 DEF Table!PidsDistinct, TableInv
<1>. QED  BY <1>7, <1>8, <1>9 DEF TableInv

LEMMA DropKeepsInv ==
  ASSUME TableInv, NEW i \in DOMAIN tcbPids, Table!Drop(i)
  PROVE  TableInv'
<1>. DEFINE m == Len(tcbPids)
<1>0. m \in Nat /\ m >= FirstSize /\ tcbPids \in TabOf(m) /\ DOMAIN tcbPids = 1..m
  BY TableIsFunction DEF TableInv, Table!TableTypeOK
<1>1. tcbPids' \in TabOf(m)
  BY <1>0 DEF Table!Drop, TabOf
<1>2. Table!Used' = Table!Used \ {i} /\ i \in Table!Used
  BY <1>0 DEF Table!Drop, Table!Used, TabOf
<1>3. IsFiniteSet(Table!Used)
  BY <1>0, UsedIsFinite DEF Table!Used, UsedIn
<1>4. /\ Cardinality(Table!Used') = Cardinality(Table!Used) - 1
      /\ Cardinality(Table!Used') \in Nat
  BY <1>2, <1>3, FS_RemoveElement, FS_CardinalityType
<1>5. Table!TableTypeOK' /\ Table!CountExact'
  BY SameCardinality, <1>0, <1>1, <1>4, FunctionIsTable
     DEF Table!TableTypeOK, Table!CountExact, Table!Drop, TableInv
<1>6. Table!PidsDistinct'
  BY <1>0, <1>2 DEF Table!PidsDistinct, TableInv, Table!Drop, TabOf
<1>. QED  BY <1>5, <1>6 DEF TableInv

LEMMA SwitchKeepsInv ==
  ASSUME TableInv, NEW i \in DOMAIN tcbPids, NEW j \in DOMAIN tcbPids, Table!Switch(i, j)
  PROVE  TableInv'
<1>. DEFINE m == Len(tcbPids)
<1>0. m \in Nat /\ m >= FirstSize /\ tcbPids \in TabOf(m) /\ DOMAIN tcbPids = 1..m
  BY TableIsFunction DEF TableInv, Table!TableTypeOK
<1>1. tcbPids' \in TabOf(m)
  BY <1>0 DEF Table!Switch, TabOf
<1>2. Table!Used' = Table!Used \ {i} /\ i \in Table!Used
  BY <1>0 DEF Table!Switch, Table!Used, TabOf
<1>3. IsFiniteSet(Table!Used)
  BY <1>0, UsedIsFinite DEF Table!Used, UsedIn
<1>4. /\ Cardinality(Table!Used') = Cardinality(Table!Used) - 1
      /\ Cardinality(Table!Used') \in Nat
  BY <1>2, <1>3, FS_RemoveElement, FS_CardinalityType
<1>5. Table!TableTypeOK' /\ Table!CountExact'
  BY SameCardinality, <1>0, <1>1, <1>4, FunctionIsTable
     DEF Table!TableTypeOK, Table!CountExact, Table!Switch, TableInv
<1>6. Table!PidsDistinct'
  <2>1. tcbPids'[j] = tcbPids[i] /\ \A k \in Table!Used \ {i, j} : tcbPids'[k] = tcbPids[k]
    BY <1>0 DEF Table!Switch, Table!Used, TabOf
  <2>. QED  BY <1>2, <2>1 DEF Table!PidsDistinct, TableInv
<1>. QED  BY <1>5, <1>6 DEF TableInv

LEMMA InvNext == TableInv /\ [Table!TableNext]_(Table!tableVars) => TableInv'
<1>. SUFFICES ASSUME TableInv, [Table!TableNext]_(Table!tableVars) PROVE TableInv'
  OBVIOUS
<1>1. CASE \E pid \in Pids : Table!Alloc(pid)
  BY <1>1, AllocKeepsInv
<1>2. CASE \E i \in DOMAIN tcbPids : Table!Drop(i)
  BY <1>2, DropKeepsInv
<1>3. CASE \E i, j \in DOMAIN tcbPids : Table!Switch(i, j)
  BY <1>3, SwitchKeepsInv
<1>4. CASE UNCHANGED Table!tableVars
  BY SameCardinality, <1>4
     DEF Table!tableVars, TableInv, Table!TableTypeOK, Table!CountExact,
         Table!PidsDistinct, Table!Used
<1>. QED  BY <1>1, <1>2, <1>3, <1>4 DEF Table!TableNext

-----------------------------------------------------------------------------
(* What the functions of TraceOutput do to the table                       *)

IsTcb(b) ==
    /\ b = [pid |-> b.pid, flags |-> b.flags, curcol |-> b.curcol, outf |-> b.outf,
            call |-> b.call]
    /\ b.pid \in {0} \cup Pids
    /\ "INUSE" \in b.flags <=> b.pid # 0

IsBlocks(tab, n) ==
    /\ tab = [i \in 1..n |-> tab[i]]
    /\ \A i \in 1..n : IsTcb(tab[i])

Fields(s) ==
    s = [tcbtab |-> s.tcbtab, nprocs |-> s.nprocs, printing |-> s.printing,
         current |-> s.current, line |-> s.line, log |-> s.log, stack |-> s.stack,
         dump |-> s.dump]

IsOutput(s) ==
    /\ Fields(s)
    /\ \E n \in Nat : n >= FirstSize /\ IsBlocks(s.tcbtab, n)

\* From s to t the table has the same threads in the same blocks.
Places(s, t) ==
    /\ IsOutput(t)
    /\ t.nprocs = s.nprocs
    /\ DOMAIN t.tcbtab = DOMAIN s.tcbtab
    /\ \A i \in DOMAIN s.tcbtab : t.tcbtab[i].pid = s.tcbtab[i].pid

\* The blocks a and b are in the same call, or both in none.
SameCall(a, b) ==
    b.call = a.call /\ ("INSYSCALL" \in b.flags <=> "INSYSCALL" \in a.flags)

\* ... and the threads are in the same calls.
Keeps(s, t) ==
    /\ Places(s, t)
    /\ \A i \in DOMAIN s.tcbtab : SameCall(s.tcbtab[i], t.tcbtab[i])

\* Block i has call c and is in it, or out of it; the others are as they were.
Turns(s, t, i, in, c) ==
    /\ Places(s, t)
    /\ \A k \in DOMAIN s.tcbtab \ {i} : SameCall(s.tcbtab[k], t.tcbtab[k])
    /\ t.tcbtab[i].call = c /\ ("INSYSCALL" \in t.tcbtab[i].flags <=> in)

LEMMA KeepsItself ==
  ASSUME NEW s, IsOutput(s)
  PROVE  Keeps(s, s)
  BY DEF Keeps, Places, SameCall

LEMMA KeepsThrough ==
  ASSUME NEW s, NEW t, NEW u, Keeps(s, t), Keeps(t, u)
  PROVE  Keeps(s, u)
  BY DEF Keeps, Places, SameCall

LEMMA TurnsThrough ==
  ASSUME NEW s, NEW t, NEW u, NEW i \in DOMAIN s.tcbtab, NEW in, NEW c,
         \/ Keeps(s, t) /\ Turns(t, u, i, in, c)
         \/ Turns(s, t, i, in, c) /\ Keeps(t, u)
  PROVE  Turns(s, u, i, in, c)
  BY DEF Keeps, Places, Turns, SameCall

LEMMA KeepsPlaces ==
  ASSUME NEW s, NEW t, Keeps(s, t)
  PROVE  IsOutput(t) /\ Places(s, t) /\ DOMAIN t.tcbtab = DOMAIN s.tcbtab
  BY DEF Keeps, Places

\* The blocks are left alone.
LEMMA BlocksAlone ==
  ASSUME NEW s, NEW t, IsOutput(s), Fields(t), t.tcbtab = s.tcbtab, t.nprocs = s.nprocs
  PROVE  Keeps(s, t)
  BY DEF Keeps, Places, SameCall, IsOutput

\* A block is changed, but not its thread.
LEMMA BlockPlaced ==
  ASSUME NEW s, NEW i, NEW b, IsOutput(s),
         i \in DOMAIN s.tcbtab => IsTcb(b) /\ b.pid = s.tcbtab[i].pid,
         NEW t, t = [s EXCEPT !.tcbtab[i] = b]
  PROVE  /\ Places(s, t)
         /\ \A k \in DOMAIN s.tcbtab : t.tcbtab[k] = IF k = i THEN b ELSE s.tcbtab[k]
<1>1. PICK n \in Nat : n >= FirstSize /\ IsBlocks(s.tcbtab, n)
  BY DEF IsOutput
<1>2. DOMAIN s.tcbtab = 1..n
  BY <1>1 DEF IsBlocks
<1>3. t.tcbtab = [s.tcbtab EXCEPT ![i] = b] /\ t.nprocs = s.nprocs /\ Fields(t)
  BY DEF IsOutput, Fields
<1>4. \A j \in 1..n : t.tcbtab[j] = IF j = i THEN b ELSE s.tcbtab[j]
  BY <1>2, <1>3
<1>5. t.tcbtab = [j \in 1..n |-> t.tcbtab[j]]
  BY <1>2, <1>3
<1>6. IsBlocks(t.tcbtab, n)
  BY <1>1, <1>2, <1>4, <1>5 DEF IsBlocks
<1>7. DOMAIN t.tcbtab = DOMAIN s.tcbtab
  BY <1>3
<1>8. IsOutput(t)
  BY <1>1, <1>3, <1>6 DEF IsOutput
<1>9. \A j \in DOMAIN s.tcbtab : t.tcbtab[j].pid = s.tcbtab[j].pid
  BY <1>2, <1>4
<1>10. Places(s, t)
  BY <1>3, <1>7, <1>8, <1>9 DEF Places
<1>. QED  BY <1>2, <1>4, <1>10

LEMMA BlockChanged ==
  ASSUME NEW s, NEW i, NEW b, IsOutput(s),
         i \in DOMAIN s.tcbtab =>
            IsTcb(b) /\ b.pid = s.tcbtab[i].pid /\ SameCall(s.tcbtab[i], b)
  PROVE  Keeps(s, [s EXCEPT !.tcbtab[i] = b])
<1>1. SUFFICES ASSUME NEW t, t = [s EXCEPT !.tcbtab[i] = b] PROVE Keeps(s, t)
  OBVIOUS
<1>2. /\ Places(s, t)
      /\ \A k \in DOMAIN s.tcbtab : t.tcbtab[k] = IF k = i THEN b ELSE s.tcbtab[k]
  <2>1. CASE i \in DOMAIN s.tcbtab
    <3>1. IsTcb(b) /\ b.pid = s.tcbtab[i].pid
      BY <2>1
    <3>. QED  BY <1>1, <3>1, BlockPlaced
  <2>2. CASE i \notin DOMAIN s.tcbtab
    BY <1>1, <2>2, BlockPlaced
  <2>. QED  BY <2>1, <2>2
<1>. QED  BY <1>2 DEF Keeps, SameCall

LEMMA TcbChanged ==
  ASSUME NEW b, IsTcb(b), NEW c, NEW F, "INUSE" \in F <=> "INUSE" \in b.flags
  PROVE  /\ IsTcb([b EXCEPT !.curcol = c]) /\ [b EXCEPT !.curcol = c].pid = b.pid
         /\ SameCall(b, [b EXCEPT !.curcol = c])
         /\ IsTcb([b EXCEPT !.flags = F]) /\ [b EXCEPT !.flags = F].pid = b.pid
         /\ [b EXCEPT !.flags = F].call = b.call /\ [b EXCEPT !.flags = F].flags = F
<1>. DEFINE Shape(t) == t = [pid |-> t.pid, flags |-> t.flags, curcol |-> t.curcol,
                             outf |-> t.outf, call |-> t.call]
<1>0. Shape(b)
  BY DEF IsTcb
<1>1. ASSUME NEW t, t = [b EXCEPT !.curcol = c]
      PROVE  Shape(t) /\ t.pid = b.pid /\ t.flags = b.flags /\ t.call = b.call
  BY <1>0, <1>1
<1>2. ASSUME NEW t, t = [b EXCEPT !.flags = F]
      PROVE  Shape(t) /\ t.pid = b.pid /\ t.flags = F /\ t.call = b.call
  BY <1>0, <1>2
<1>3. ASSUME NEW t, Shape(t), t.pid = b.pid, "INUSE" \in t.flags <=> "INUSE" \in b.flags
      PROVE  IsTcb(t)
  BY <1>3 DEF IsTcb
<1>4. ASSUME NEW t, t.flags = b.flags, t.call = b.call PROVE SameCall(b, t)
  BY <1>4 DEF SameCall
<1>. HIDE DEF Shape
<1>5. IsTcb([b EXCEPT !.curcol = c]) /\ [b EXCEPT !.curcol = c].pid = b.pid
      /\ SameCall(b, [b EXCEPT !.curcol = c])
  BY <1>1, <1>3, <1>4
<1>6. IsTcb([b EXCEPT !.flags = F]) /\ [b EXCEPT !.flags = F].pid = b.pid
      /\ [b EXCEPT !.flags = F].call = b.call /\ [b EXCEPT !.flags = F].flags = F
  BY <1>2, <1>3
<1>. QED  BY <1>5, <1>6

LEMMA BlockOf ==
  ASSUME NEW s, IsOutput(s), NEW i \in DOMAIN s.tcbtab
  PROVE  IsTcb(s.tcbtab[i])
  BY DEF IsOutput, IsBlocks

\* The flags of a block change, but not that it is in use.
LEMMA FlagsPlaced ==
  ASSUME NEW s, NEW i \in DOMAIN s.tcbtab, IsOutput(s), NEW F,
         "INUSE" \in F <=> "INUSE" \in s.tcbtab[i].flags
  PROVE  \A t : t = [s EXCEPT !.tcbtab[i].flags = F] =>
            /\ Places(s, t)
            /\ t.tcbtab[i].call = s.tcbtab[i].call /\ t.tcbtab[i].flags = F
            /\ \A k \in DOMAIN s.tcbtab \ {i} : t.tcbtab[k] = s.tcbtab[k]
<1>1. PICK b : b = [s.tcbtab[i] EXCEPT !.flags = F]
  OBVIOUS
<1>2. /\ IsTcb(b) /\ b.pid = s.tcbtab[i].pid
      /\ b.call = s.tcbtab[i].call /\ b.flags = F
  BY <1>1, BlockOf, TcbChanged
<1>3. \A t : t = [s EXCEPT !.tcbtab[i] = b] =>
         /\ Places(s, t)
         /\ \A k \in DOMAIN s.tcbtab : t.tcbtab[k] = IF k = i THEN b ELSE s.tcbtab[k]
  BY <1>2, BlockPlaced
<1>4. [s EXCEPT !.tcbtab[i].flags = F] = [s EXCEPT !.tcbtab[i] = b]
  BY <1>1
<1>. QED  BY <1>2, <1>3, <1>4

LEMMA FlagsKeep ==
  ASSUME NEW s, NEW i, NEW flags, IsOutput(s), "INUSE" \notin flags,
         "INSYSCALL" \notin flags
  PROVE  Keeps(s, SetFlags(s, i, flags)) /\ Keeps(s, ClearFlags(s, i, flags))
<1>. DEFINE more == [s.tcbtab[i] EXCEPT !.flags = @ \cup flags]
<1>. DEFINE less == [s.tcbtab[i] EXCEPT !.flags = @ \ flags]
<1>1. ASSUME i \in DOMAIN s.tcbtab
      PROVE  /\ IsTcb(more) /\ more.pid = s.tcbtab[i].pid /\ SameCall(s.tcbtab[i], more)
             /\ IsTcb(less) /\ less.pid = s.tcbtab[i].pid /\ SameCall(s.tcbtab[i], less)
  <2>1. IsTcb(s.tcbtab[i])
    BY <1>1, BlockOf
  <2>. DEFINE F == s.tcbtab[i].flags
  <2>2. /\ "INUSE" \in F \cup flags <=> "INUSE" \in F
        /\ "INUSE" \in F \ flags <=> "INUSE" \in F
        /\ "INSYSCALL" \in F \cup flags <=> "INSYSCALL" \in F
        /\ "INSYSCALL" \in F \ flags <=> "INSYSCALL" \in F
    OBVIOUS
  <2>3. /\ IsTcb(more) /\ more.pid = s.tcbtab[i].pid
        /\ more.call = s.tcbtab[i].call /\ more.flags = F \cup flags
    BY <2>1, <2>2, TcbChanged
  <2>4. /\ IsTcb(less) /\ less.pid = s.tcbtab[i].pid
        /\ less.call = s.tcbtab[i].call /\ less.flags = F \ flags
    BY <2>1, <2>2, TcbChanged
  <2>. HIDE DEF more, less
  <2>. QED  BY <2>2, <2>3, <2>4 DEF SameCall
<1>2. /\ SetFlags(s, i, flags) = [s EXCEPT !.tcbtab[i] = more]
      /\ ClearFlags(s, i, flags) = [s EXCEPT !.tcbtab[i] = less]
  BY DEF SetFlags, ClearFlags
<1>. HIDE DEF more, less
<1>3. Keeps(s, [s EXCEPT !.tcbtab[i] = more]) /\ Keeps(s, [s EXCEPT !.tcbtab[i] = less])
  BY <1>1, BlockChanged
<1>. QED  BY <1>2, <1>3

\* strace marks that the thread is in a call, or is out of it.
LEMMA FlagsTurn ==
  ASSUME NEW s, NEW i \in DOMAIN s.tcbtab, NEW flags, IsOutput(s), "INUSE" \notin flags,
         "INSYSCALL" \in flags
  PROVE  /\ Turns(s, SetFlags(s, i, flags), i, TRUE, s.tcbtab[i].call)
         /\ Turns(s, ClearFlags(s, i, flags), i, FALSE, s.tcbtab[i].call)
<1>. DEFINE F == s.tcbtab[i].flags
<1>1. ASSUME NEW G, NEW in, "INUSE" \in G <=> "INUSE" \in F, "INSYSCALL" \in G <=> in
      PROVE  Turns(s, [s EXCEPT !.tcbtab[i].flags = G], i, in, s.tcbtab[i].call)
  <2>1. PICK t : t = [s EXCEPT !.tcbtab[i].flags = G]
    OBVIOUS
  <2>2. /\ Places(s, t)
        /\ t.tcbtab[i].call = s.tcbtab[i].call /\ t.tcbtab[i].flags = G
        /\ \A k \in DOMAIN s.tcbtab \ {i} : t.tcbtab[k] = s.tcbtab[k]
    BY <1>1, <2>1, FlagsPlaced
  <2>3. Turns(s, t, i, in, s.tcbtab[i].call)
    BY <1>1, <2>2 DEF Turns, SameCall
  <2>. QED  BY <2>1, <2>3
<1>2. Turns(s, [s EXCEPT !.tcbtab[i].flags = F \cup flags], i, TRUE, s.tcbtab[i].call)
  BY <1>1
<1>3. Turns(s, [s EXCEPT !.tcbtab[i].flags = F \ flags], i, FALSE, s.tcbtab[i].call)
  BY <1>1
<1>4. /\ SetFlags(s, i, flags) = [s EXCEPT !.tcbtab[i].flags = F \cup flags]
      /\ ClearFlags(s, i, flags) = [s EXCEPT !.tcbtab[i].flags = F \ flags]
  BY DEF SetFlags, ClearFlags
<1>. QED  BY <1>2, <1>3, <1>4

LEMMA CurcolKeeps ==
  ASSUME NEW s, NEW i, NEW c, IsOutput(s)
  PROVE  Keeps(s, [s EXCEPT !.tcbtab[i].curcol = c])
<1>. DEFINE b == [s.tcbtab[i] EXCEPT !.curcol = c]
<1>1. ASSUME i \in DOMAIN s.tcbtab
      PROVE  IsTcb(b) /\ b.pid = s.tcbtab[i].pid /\ SameCall(s.tcbtab[i], b)
  BY <1>1, BlockOf, TcbChanged
<1>. HIDE DEF b
<1>2. Keeps(s, [s EXCEPT !.tcbtab[i] = b])
  BY <1>1, BlockChanged
<1>. QED  BY <1>2 DEF b

LEMMA EndsKeeps ==
  ASSUME NEW s, NEW i, NEW text, IsOutput(s)
  PROVE  Keeps(s, Ends(s, i, text)) /\ Ends(s, i, text).tcbtab = s.tcbtab
<1>1. /\ Fields(Ends(s, i, text))
      /\ Ends(s, i, text).tcbtab = s.tcbtab /\ Ends(s, i, text).nprocs = s.nprocs
  <2>1. Fields(s)
    BY DEF IsOutput
  <2>2. PICK x, y : Ends(s, i, text) = [s EXCEPT !.log = x, !.line = y]
    BY DEF Ends
  <2>3. PICK t : t = Ends(s, i, text)
    OBVIOUS
  <2>4. t = [s EXCEPT !.log = x, !.line = y]
    BY <2>2, <2>3
  <2>5. Fields(t) /\ t.tcbtab = s.tcbtab /\ t.nprocs = s.nprocs
    BY <2>1, <2>4 DEF Fields
  <2>. QED  BY <2>3, <2>5
<1>. QED  BY <1>1, BlocksAlone

LEMMA BeginsKeeps ==
  ASSUME NEW s, NEW i, NEW what, IsOutput(s)
  PROVE  Keeps(s, Begins(s, i, what))
<1>1. /\ Fields(Begins(s, i, what))
      /\ Begins(s, i, what).tcbtab = s.tcbtab /\ Begins(s, i, what).nprocs = s.nprocs
  <2>1. Fields(s)
    BY DEF IsOutput
  <2>2. PICK t : t = Begins(s, i, what)
    OBVIOUS
  <2>3. Fields(t) /\ t.tcbtab = s.tcbtab /\ t.nprocs = s.nprocs
    BY <2>1, <2>2 DEF Begins, Fields
  <2>. QED  BY <2>2, <2>3
<1>. QED  BY <1>1, BlocksAlone

LEMMA LineEndedKeeps ==
  ASSUME NEW s, IsOutput(s)
  PROVE  Keeps(s, line_ended(s))
<1>. DEFINE t == line_ended(s)
<1>1. PICK n \in Nat : n >= FirstSize /\ IsBlocks(s.tcbtab, n)
  BY DEF IsOutput
<1>2. DOMAIN s.tcbtab = 1..n
  BY <1>1 DEF IsBlocks
<1>3. /\ Fields(t) /\ t.nprocs = s.nprocs
      /\ t.tcbtab = [i \in DOMAIN s.tcbtab |->
                        IF i \in {s.current, s.printing}
                        THEN [s.tcbtab[i] EXCEPT !.curcol = FALSE] ELSE s.tcbtab[i]]
  <2>1. Fields(s)
    BY DEF IsOutput
  <2>. DEFINE blocks == [i \in DOMAIN s.tcbtab |->
                            IF i \in {s.current, s.printing}
                            THEN [s.tcbtab[i] EXCEPT !.curcol = FALSE] ELSE s.tcbtab[i]]
  <2>2. t = [s EXCEPT !.printing = 0, !.tcbtab = blocks]
    BY DEF line_ended
  <2>. HIDE DEF t, blocks
  <2>3. Fields(t) /\ t.nprocs = s.nprocs /\ t.tcbtab = blocks
    BY <2>1, <2>2 DEF Fields
  <2>. QED  BY <2>3 DEF blocks
<1>. HIDE DEF t
<1>4. ASSUME NEW j \in 1..n
      PROVE  IsTcb(t.tcbtab[j]) /\ t.tcbtab[j].pid = s.tcbtab[j].pid
             /\ SameCall(s.tcbtab[j], t.tcbtab[j])
  <2>1. IsTcb(s.tcbtab[j])
    BY <1>2, BlockOf
  <2>2. IsTcb([s.tcbtab[j] EXCEPT !.curcol = FALSE])
    BY <2>1, TcbChanged
  <2>3. /\ [s.tcbtab[j] EXCEPT !.curcol = FALSE].pid = s.tcbtab[j].pid
        /\ SameCall(s.tcbtab[j], [s.tcbtab[j] EXCEPT !.curcol = FALSE])
        /\ SameCall(s.tcbtab[j], s.tcbtab[j])
    BY <2>1, TcbChanged DEF SameCall
  <2>4. \/ t.tcbtab[j] = s.tcbtab[j]
        \/ t.tcbtab[j] = [s.tcbtab[j] EXCEPT !.curcol = FALSE]
    BY <1>2, <1>3
  <2>. QED  BY <2>1, <2>2, <2>3, <2>4
<1>5. t.tcbtab = [j \in 1..n |-> t.tcbtab[j]] /\ DOMAIN t.tcbtab = 1..n
  BY <1>2, <1>3
<1>6. IsOutput(t)
  BY <1>1, <1>3, <1>4, <1>5 DEF IsOutput, IsBlocks
<1>7. Keeps(s, t)
  BY <1>2, <1>3, <1>4, <1>5, <1>6 DEF Keeps, Places
<1>. QED  BY <1>7 DEF t

LEMMA PrintleaderKeeps ==
  ASSUME NEW ff, NEW s, NEW i, IsOutput(s)
  PROVE  Keeps(s, printleader(ff, s, i))
<1>. DEFINE p == IF ff THEN i ELSE s.printing
<1>. DEFINE ended == IF p # 0 /\ s.tcbtab[p].curcol
                     THEN [Ends(s, p, "unfinished") EXCEPT !.tcbtab[p].curcol = FALSE]
                     ELSE s
<1>. DEFINE named == [ended EXCEPT !.printing = i, !.current = i]
<1>1. Keeps(s, ended)
  <2>1. Keeps(s, Ends(s, p, "unfinished"))
    BY EndsKeeps
  <2>. DEFINE e == Ends(s, p, "unfinished")
  <2>. HIDE DEF e
  <2>2. IsOutput(e) /\ Keeps(s, e)
    BY <2>1 DEF Keeps, Places, e
  <2>3. Keeps(e, [e EXCEPT !.tcbtab[p].curcol = FALSE])
    BY <2>2, CurcolKeeps
  <2>4. Keeps(s, [e EXCEPT !.tcbtab[p].curcol = FALSE])
    BY <2>2, <2>3, KeepsThrough
  <2>. QED  BY <2>4, KeepsItself DEF e
<1>. HIDE DEF ended
<1>2. Keeps(ended, named)
  <2>1. IsOutput(ended)
    BY <1>1 DEF Keeps, Places
  <2>2. Fields(named) /\ named.tcbtab = ended.tcbtab /\ named.nprocs = ended.nprocs
    <3>1. Fields(ended)
      BY <2>1 DEF IsOutput
    <3>2. PICK t : t = named
      OBVIOUS
    <3>3. Fields(t) /\ t.tcbtab = ended.tcbtab /\ t.nprocs = ended.nprocs
      BY <3>1, <3>2 DEF Fields
    <3>. QED  BY <3>2, <3>3
  <2>. HIDE DEF named
  <2>. QED  BY <2>1, <2>2, BlocksAlone
<1>3. Keeps(named, [named EXCEPT !.tcbtab[i].curcol = TRUE])
  <2>1. IsOutput(named)
    BY <1>2 DEF Keeps, Places
  <2>. HIDE DEF named
  <2>. QED  BY <2>1, CurcolKeeps
<1>4. printleader(ff, s, i) = [named EXCEPT !.tcbtab[i].curcol = TRUE]
  BY DEF printleader, ended
<1>. HIDE DEF named
<1>. QED  BY <1>1, <1>2, <1>3, <1>4, KeepsThrough

LEMMA NoteKeeps ==
  ASSUME NEW ff, NEW s, NEW i, NEW text, IsOutput(s)
  PROVE  Keeps(s, Note(ff, s, i, text))
<1>. DEFINE led == printleader(ff, s, i)
<1>. DEFINE ended == Ends(led, i, text)
<1>1. Keeps(s, led) /\ IsOutput(led)
  BY PrintleaderKeeps DEF Keeps, Places
<1>. HIDE DEF led
<1>2. Keeps(led, ended) /\ IsOutput(ended)
  BY <1>1, EndsKeeps DEF Keeps, Places
<1>. HIDE DEF ended
<1>3. Keeps(ended, line_ended(ended))
  BY <1>2, LineEndedKeeps
<1>. QED  BY <1>1, <1>2, <1>3, KeepsThrough DEF Note, ended, led

LEMMA PrintingKeeps ==
  ASSUME NEW s, NEW i, IsOutput(s)
  PROVE  Keeps(s, [s EXCEPT !.printing = i]) /\ Keeps(s, [s EXCEPT !.current = i])
<1>1. ASSUME NEW t, t = [s EXCEPT !.printing = i] \/ t = [s EXCEPT !.current = i]
      PROVE  Keeps(s, t)
  <2>1. Fields(t) /\ t.tcbtab = s.tcbtab /\ t.nprocs = s.nprocs
    BY <1>1 DEF IsOutput, Fields
  <2>. QED  BY <2>1, BlocksAlone
<1>. QED  BY <1>1

LEMMA ResumedKeeps ==
  ASSUME NEW ff, NEW s, NEW i, IsOutput(s)
  PROVE  Keeps(s, Resumed(ff, s, i))
<1>. DEFINE cleared == ClearFlags(s, i, {"REPRINT"})
<1>. DEFINE led == printleader(ff, cleared, i)
<1>. DEFINE begun == Begins(led, i, "resumed")
<1>1. Keeps(s, cleared) /\ IsOutput(cleared)
  BY FlagsKeep DEF Keeps, Places
<1>. HIDE DEF cleared
<1>2. Keeps(cleared, led) /\ IsOutput(led)
  BY <1>1, PrintleaderKeeps DEF Keeps, Places
<1>. HIDE DEF led
<1>3. Keeps(led, begun) /\ IsOutput(begun)
  BY <1>2, BeginsKeeps DEF Keeps, Places
<1>. HIDE DEF begun
<1>4. Keeps(s, begun)
  BY <1>1, <1>2, <1>3, KeepsThrough
<1>5. Keeps(begun, [begun EXCEPT !.printing = i]) /\ Keeps(s, [s EXCEPT !.printing = i])
  BY <1>3, PrintingKeeps
<1>6. Resumed(ff, s, i) \in {[begun EXCEPT !.printing = i], [s EXCEPT !.printing = i]}
  BY DEF Resumed, begun, led, cleared
<1>. QED  BY <1>4, <1>5, <1>6, KeepsThrough

-----------------------------------------------------------------------------
(* alloctcb, droptcb and the switch of pids, on the blocks                 *)

LEMMA BlocksSet ==
  ASSUME NEW n \in Nat, NEW tab, IsBlocks(tab, n), NEW i \in 1..n, NEW b, IsTcb(b)
  PROVE  /\ IsBlocks([tab EXCEPT ![i] = b], n)
         /\ \A k \in 1..n : [tab EXCEPT ![i] = b][k] = IF k = i THEN b ELSE tab[k]
<1>. DEFINE new == [tab EXCEPT ![i] = b]
<1>1. DOMAIN tab = 1..n
  BY DEF IsBlocks
<1>2. new = [k \in 1..n |-> new[k]] /\ \A k \in 1..n : new[k] = IF k = i THEN b ELSE tab[k]
  BY <1>1
<1>. HIDE DEF new
<1>3. IsBlocks(new, n)
  BY <1>2 DEF IsBlocks
<1>. QED  BY <1>2, <1>3 DEF new

\* From s to t the thread of block i is dropped.
Drops(s, t, i) ==
    /\ IsOutput(t)
    /\ t.nprocs = s.nprocs - 1
    /\ DOMAIN t.tcbtab = DOMAIN s.tcbtab
    /\ \A k \in DOMAIN s.tcbtab : t.tcbtab[k].pid = IF k = i THEN 0 ELSE s.tcbtab[k].pid
    /\ \A k \in DOMAIN s.tcbtab \ {i} : SameCall(s.tcbtab[k], t.tcbtab[k])

LEMMA FreeIsTcb == IsTcb(FreeTcb) /\ FreeTcb.pid = 0
  BY DEF IsTcb, FreeTcb

LEMMA DroptcbDrops ==
  ASSUME NEW ff, NEW s, IsOutput(s), NEW i \in DOMAIN s.tcbtab, s.tcbtab[i].pid # 0
  PROVE  /\ Drops(s, droptcb(ff, s, i), i)
         /\ \A k \in DOMAIN s.tcbtab \ {i} : droptcb(ff, s, i).tcbtab[k] = s.tcbtab[k]
<1>. DEFINE ended == IF s.tcbtab[i].curcol /\ (ff \/ s.printing = i)
                     THEN Ends(s, i, "detached") ELSE s
<1>1. IsOutput(ended) /\ ended.tcbtab = s.tcbtab /\ ended.nprocs = s.nprocs
  <2>1. /\ IsOutput(Ends(s, i, "detached")) /\ Ends(s, i, "detached").tcbtab = s.tcbtab
        /\ Ends(s, i, "detached").nprocs = s.nprocs
    BY EndsKeeps DEF Keeps, Places
  <2>. QED  BY <2>1
<1>2. PICK p, c : droptcb(ff, s, i) =
          [ended EXCEPT !.nprocs = ended.nprocs - 1, !.printing = p, !.current = c,
                        !.tcbtab[i] = FreeTcb]
  BY DEF droptcb
<1>3. PICK t : t = droptcb(ff, s, i)
  OBVIOUS
<1>. HIDE DEF ended
<1>4. Fields(ended)
  BY <1>1 DEF IsOutput
<1>5. t = [ended EXCEPT !.nprocs = ended.nprocs - 1, !.printing = p, !.current = c,
                        !.tcbtab[i] = FreeTcb]
  BY <1>2, <1>3
<1>6. /\ Fields(t) /\ t.nprocs = ended.nprocs - 1
      /\ t.tcbtab = [ended.tcbtab EXCEPT ![i] = FreeTcb]
  BY <1>4, <1>5 DEF Fields
<1>7. PICK n \in Nat : n >= FirstSize /\ IsBlocks(s.tcbtab, n)
  BY DEF IsOutput
<1>8. DOMAIN s.tcbtab = 1..n
  BY <1>7 DEF IsBlocks
<1>9. /\ IsBlocks(t.tcbtab, n)
      /\ \A k \in 1..n : t.tcbtab[k] = IF k = i THEN FreeTcb ELSE s.tcbtab[k]
  BY <1>1, <1>6, <1>7, <1>8, BlocksSet, FreeIsTcb
<1>10. DOMAIN t.tcbtab = 1..n
  BY <1>9 DEF IsBlocks
<1>11. IsOutput(t)
  BY <1>6, <1>7, <1>9 DEF IsOutput
<1>12. \A k \in 1..n : t.tcbtab[k].pid = IF k = i THEN 0 ELSE s.tcbtab[k].pid
  BY <1>9, FreeIsTcb
<1>13. \A k \in (1..n) \ {i} : t.tcbtab[k] = s.tcbtab[k]
  BY <1>9
<1>14. Drops(s, t, i)
  BY <1>1, <1>6, <1>8, <1>10, <1>11, <1>12, <1>13 DEF Drops, SameCall
<1>. QED  BY <1>3, <1>8, <1>13, <1>14

LEMMA DroptcbOfFree ==
  ASSUME NEW ff, NEW s, NEW i, s.tcbtab[i].pid = 0
  PROVE  droptcb(ff, s, i) = s
  BY DEF droptcb

\* Block i of the thread has the pid of block j of the leader, which is dropped.
Switches(s, t, j, i) ==
    /\ IsOutput(t)
    /\ t.nprocs = s.nprocs - 1
    /\ DOMAIN t.tcbtab = DOMAIN s.tcbtab
    /\ \A k \in DOMAIN s.tcbtab :
          t.tcbtab[k].pid = IF k = j THEN 0
                            ELSE s.tcbtab[IF k = i THEN j ELSE k].pid
    /\ \A k \in DOMAIN s.tcbtab \ {j} : SameCall(s.tcbtab[k], t.tcbtab[k])

LEMMA SupersededSwitches ==
  ASSUME NEW ff, NEW s, IsOutput(s),
         NEW i \in DOMAIN s.tcbtab, NEW j \in DOMAIN s.tcbtab, i # j,
         s.tcbtab[i].pid # 0, s.tcbtab[j].pid # 0
  PROVE  Switches(s, Superseded(ff, s, i, j), j, i)
<1>. DEFINE told == IF s.tcbtab[i].curcol THEN Ends(s, i, "pid changed") ELSE s
            thread == told.tcbtab[i]
            leader == told.tcbtab[j]
            filed == [thread EXCEPT !.outf = leader.outf, !.curcol = leader.curcol]
            vacated == [leader EXCEPT !.outf = thread.outf, !.curcol = FALSE]
            swapped == [told EXCEPT !.tcbtab[i] = filed, !.tcbtab[j] = vacated]
            dropped == droptcb(ff, swapped, j)
            renamed == [dropped EXCEPT !.tcbtab[i].pid = leader.pid]
            noted == Note(ff, renamed, i, "superseded")
<1>1. PICK n \in Nat : n >= FirstSize /\ IsBlocks(s.tcbtab, n)
  BY DEF IsOutput
<1>2. DOMAIN s.tcbtab = 1..n /\ i \in 1..n /\ j \in 1..n
  BY <1>1 DEF IsBlocks
<1>3. IsOutput(told) /\ told.tcbtab = s.tcbtab /\ told.nprocs = s.nprocs
  <2>1. /\ IsOutput(Ends(s, i, "pid changed")) /\ Ends(s, i, "pid changed").tcbtab = s.tcbtab
        /\ Ends(s, i, "pid changed").nprocs = s.nprocs
    BY EndsKeeps, ZenonT(40) DEF Keeps, Places
  <2>. QED  BY <2>1
<1>4. Superseded(ff, s, i, j) = SetFlags(noted, i, {"REPRINT"})
  BY DEF Superseded
<1>. HIDE DEF told
<1>5. IsTcb(thread) /\ IsTcb(leader) /\ thread.pid # 0 /\ leader.pid # 0
  BY <1>2, <1>3, BlockOf
<1>6. /\ IsTcb(filed) /\ filed.pid = thread.pid /\ SameCall(thread, filed)
      /\ IsTcb(vacated) /\ vacated.pid = leader.pid /\ SameCall(leader, vacated)
  <2>. DEFINE Record(t) == t = [pid |-> t.pid, flags |-> t.flags, curcol |-> t.curcol,
                                outf |-> t.outf, call |-> t.call]
  <2>. HIDE DEF thread, leader
  <2>1. Record(thread) /\ Record(leader)
    BY <1>5 DEF IsTcb
  <2>2. PICK t : t = filed
    OBVIOUS
  <2>3. Record(t) /\ t.pid = thread.pid /\ t.flags = thread.flags /\ t.call = thread.call
    BY <2>1, <2>2
  <2>4. IsTcb(t) /\ SameCall(thread, t)
    BY <1>5, <2>3 DEF IsTcb, SameCall
  <2>5. PICK u : u = vacated
    OBVIOUS
  <2>6. Record(u) /\ u.pid = leader.pid /\ u.flags = leader.flags /\ u.call = leader.call
    BY <2>1, <2>5
  <2>7. IsTcb(u) /\ SameCall(leader, u)
    BY <1>5, <2>6 DEF IsTcb, SameCall
  <2>. HIDE DEF filed, vacated
  <2>. QED  BY <2>2, <2>3, <2>4, <2>5, <2>6, <2>7
<1>. HIDE DEF thread, leader, filed, vacated
<1>7. /\ Keeps(told, swapped)
      /\ swapped.tcbtab[i] = filed
  <2>1. PICK t : t = [told EXCEPT !.tcbtab[i] = filed]
    OBVIOUS
  <2>2. Keeps(told, t)
    BY <1>3, <1>6, <2>1, BlockChanged DEF thread
  <2>3. t.tcbtab = [told.tcbtab EXCEPT ![i] = filed]
    <3>1. Fields(told)
      BY <1>3 DEF IsOutput
    <3>. QED  BY <2>1, <3>1 DEF Fields
  <2>4. t.tcbtab[j] = leader /\ t.tcbtab[i] = filed /\ DOMAIN t.tcbtab = 1..n
    BY <1>2, <1>3, <2>3 DEF leader
  <2>5. IsOutput(t)
    BY <2>2 DEF Keeps, Places
  <2>6. PICK u : u = [t EXCEPT !.tcbtab[j] = vacated]
    OBVIOUS
  <2>7. Keeps(t, u)
    BY <1>6, <2>4, <2>5, <2>6, BlockChanged
  <2>8. u.tcbtab = [t.tcbtab EXCEPT ![j] = vacated]
    <3>1. Fields(t)
      BY <2>5 DEF IsOutput
    <3>. QED  BY <2>6, <3>1 DEF Fields
  <2>9. u.tcbtab[i] = filed
    BY <1>2, <2>4, <2>8
  <2>10. swapped = u
    <3>1. Fields(told)
      BY <1>3 DEF IsOutput
    <3>. QED  BY <2>1, <2>6, <3>1 DEF Fields
  <2>. HIDE DEF swapped
  <2>. QED  BY <2>2, <2>7, <2>9, <2>10, KeepsThrough
<1>. HIDE DEF swapped
<1>8. /\ Drops(swapped, dropped, j)
      /\ \A k \in DOMAIN swapped.tcbtab \ {j} : dropped.tcbtab[k] = swapped.tcbtab[k]
  <2>1. IsOutput(swapped) /\ DOMAIN swapped.tcbtab = 1..n /\ swapped.tcbtab[j].pid # 0
    BY <1>2, <1>3, <1>5, <1>7 DEF Keeps, Places, leader
  <2>. QED  BY <1>2, <2>1, DroptcbDrops
<1>. HIDE DEF dropped
<1>9. /\ IsOutput(dropped) /\ dropped.nprocs = s.nprocs - 1
      /\ DOMAIN dropped.tcbtab = 1..n
      /\ \A k \in 1..n : dropped.tcbtab[k].pid = IF k = j THEN 0 ELSE s.tcbtab[k].pid
      /\ dropped.tcbtab[i] = filed
      /\ \A k \in (1..n) \ {j} : SameCall(s.tcbtab[k], dropped.tcbtab[k])
  BY <1>2, <1>3, <1>7, <1>8 DEF Drops, Keeps, Places, SameCall
<1>10. Switches(s, renamed, j, i)
  <2>1. PICK b : b = [filed EXCEPT !.pid = leader.pid]
    OBVIOUS
  <2>2. IsTcb(b) /\ b.pid = leader.pid /\ SameCall(filed, b)
    <3>1. filed = [pid |-> filed.pid, flags |-> filed.flags, curcol |-> filed.curcol,
                   outf |-> filed.outf, call |-> filed.call]
      BY <1>6 DEF IsTcb
    <3>2. /\ b = [pid |-> b.pid, flags |-> b.flags, curcol |-> b.curcol, outf |-> b.outf,
                  call |-> b.call]
          /\ b.pid = leader.pid /\ b.flags = filed.flags /\ b.call = filed.call
      BY <2>1, <3>1
    <3>3. leader.pid \in {0} \cup Pids /\ leader.pid # 0 /\ "INUSE" \in filed.flags
      BY <1>5, <1>6 DEF IsTcb
    <3>. QED  BY <3>2, <3>3 DEF IsTcb, SameCall
  <2>3. PICK t : t = renamed
    OBVIOUS
  <2>4. Fields(dropped)
    BY <1>9 DEF IsOutput
  <2>5. /\ Fields(t) /\ t.nprocs = dropped.nprocs
        /\ t.tcbtab = [dropped.tcbtab EXCEPT
                          ![i] = [dropped.tcbtab[i] EXCEPT !.pid = leader.pid]]
    BY <2>3, <2>4 DEF Fields
  <2>6. t.tcbtab = [dropped.tcbtab EXCEPT ![i] = b]
    BY <1>9, <2>1, <2>5
  <2>7. PICK m \in Nat : m >= FirstSize /\ IsBlocks(dropped.tcbtab, m)
    BY <1>9 DEF IsOutput
  <2>8. DOMAIN dropped.tcbtab = 1..m
    BY <2>7 DEF IsBlocks
  <2>9. i \in 1..m
    BY <1>2, <1>9, <2>8
  <2>10. /\ IsBlocks(t.tcbtab, m)
         /\ \A k \in 1..m : t.tcbtab[k] = IF k = i THEN b ELSE dropped.tcbtab[k]
    BY <2>2, <2>6, <2>7, <2>9, BlocksSet
  <2>11. DOMAIN t.tcbtab = 1..m
    BY <2>10 DEF IsBlocks
  <2>12. IsOutput(t)
    BY <2>5, <2>7, <2>10 DEF IsOutput
  <2>13. \A k \in 1..n : t.tcbtab[k].pid = IF k = j THEN 0
                                           ELSE s.tcbtab[IF k = i THEN j ELSE k].pid
    <3>1. leader.pid = s.tcbtab[j].pid
      BY <1>3 DEF leader
    <3>. QED  BY <1>9, <2>2, <2>8, <2>10, <3>1
  <2>14. \A k \in (1..n) \ {j} : SameCall(s.tcbtab[k], t.tcbtab[k])
    BY <1>2, <1>9, <2>2, <2>8, <2>10 DEF SameCall
  <2>15. Switches(s, t, j, i)
    BY <1>2, <1>9, <2>5, <2>8, <2>11, <2>12, <2>13, <2>14 DEF Switches
  <2>. QED  BY <2>3, <2>15
<1>. HIDE DEF renamed
<1>11. Keeps(renamed, noted)
  BY <1>10, NoteKeeps DEF Switches
<1>. HIDE DEF noted
<1>12. Keeps(noted, SetFlags(noted, i, {"REPRINT"}))
  BY <1>11, FlagsKeep DEF Keeps, Places
<1>13. Keeps(renamed, Superseded(ff, s, i, j))
  BY <1>4, <1>11, <1>12, KeepsThrough
<1>. QED  BY <1>10, <1>13 DEF Switches, Keeps, Places, SameCall

-----------------------------------------------------------------------------
(* The table of the tracer is that of TcbTable                             *)

LEMMA BlocksAreSeq ==
  ASSUME NEW n \in Nat, NEW tab, IsBlocks(tab, n)
  PROVE  DOMAIN tab = 1..n /\ Len(tab) = n
<1>1. DOMAIN tab = 1..n
  BY DEF IsBlocks
<1>2. tab \in [1..n -> {tab[i] : i \in 1..n}]
  BY DEF IsBlocks
<1>3. tab \in Seq({tab[i] : i \in 1..n})
  BY <1>2, IsASeq
<1>. QED  BY <1>1, <1>3, LenProperties

LEMMA PidsOfBlocks ==
  ASSUME IsOutput(out)
  PROVE  /\ DOMAIN tcbPids = DOMAIN out.tcbtab
         /\ \A i \in DOMAIN out.tcbtab :
               /\ tcbPids[i] = out.tcbtab[i].pid /\ tcbPids[i] \in {0} \cup Pids
               /\ InUse(out, i) <=> tcbPids[i] # 0
         /\ Table!Used = {i \in DOMAIN out.tcbtab : InUse(out, i)}
<1>1. /\ DOMAIN tcbPids = DOMAIN out.tcbtab
      /\ \A i \in DOMAIN out.tcbtab : tcbPids[i] = out.tcbtab[i].pid
  BY DEF tcbPids
<1>2. \A i \in DOMAIN out.tcbtab : IsTcb(out.tcbtab[i])
  BY BlockOf
<1>3. \A i \in DOMAIN out.tcbtab :
         tcbPids[i] \in {0} \cup Pids /\ (InUse(out, i) <=> tcbPids[i] # 0)
  BY <1>1, <1>2 DEF IsTcb, InUse
<1>. QED  BY <1>1, <1>3 DEF Table!Used

\* What a step may do to the table.
Attaches(p) ==
    /\ pid2tcb(out, p) = {}
    /\ \E flags : "INSYSCALL" \notin flags /\ out' = Attached(opt.ff, out, p, flags)

TableMoves ==
    \/ Places(out, out')
    \/ \E i \in DOMAIN out.tcbtab : out.tcbtab[i].pid # 0 /\ Drops(out, out', i)
    \/ \E i, j \in DOMAIN out.tcbtab :
          /\ i # j /\ out.tcbtab[i].pid # 0 /\ out.tcbtab[j].pid # 0
          /\ Switches(out, out', j, i)
    \/ \E p \in Pids : Attaches(p)

LEMMA PlacesIsStutter ==
  ASSUME Places(out, out')
  PROVE  UNCHANGED Table!tableVars
<1>1. tcbPids' = [i \in DOMAIN out'.tcbtab |-> out'.tcbtab[i].pid]
  BY DEF tcbPids
<1>2. tcbPids' = tcbPids
  BY <1>1 DEF Places, tcbPids
<1>. QED  BY <1>2 DEF Places, Table!tableVars

LEMMA DropsIsDrop ==
  ASSUME IsOutput(out), NEW i \in DOMAIN out.tcbtab, out.tcbtab[i].pid # 0,
         Drops(out, out', i)
  PROVE  i \in DOMAIN tcbPids /\ Table!Drop(i)
<1>1. tcbPids' = [k \in DOMAIN out'.tcbtab |-> out'.tcbtab[k].pid]
  BY DEF tcbPids
<1>2. tcbPids' = [tcbPids EXCEPT ![i] = 0]
  BY <1>1 DEF Drops, tcbPids
<1>3. i \in DOMAIN tcbPids /\ tcbPids[i] # 0
  BY DEF tcbPids
<1>4. out'.nprocs = out.nprocs - 1
  BY DEF Drops
<1>. QED  BY <1>2, <1>3, <1>4 DEF Table!Drop

LEMMA SwitchesIsSwitch ==
  ASSUME IsOutput(out), NEW i \in DOMAIN out.tcbtab, NEW j \in DOMAIN out.tcbtab, i # j,
         out.tcbtab[i].pid # 0, out.tcbtab[j].pid # 0, Switches(out, out', j, i)
  PROVE  i \in DOMAIN tcbPids /\ j \in DOMAIN tcbPids /\ Table!Switch(j, i)
<1>1. tcbPids' = [k \in DOMAIN out'.tcbtab |-> out'.tcbtab[k].pid]
  BY DEF tcbPids
<1>2. tcbPids' = [tcbPids EXCEPT ![j] = 0, ![i] = tcbPids[j]]
  BY <1>1 DEF Switches, tcbPids
<1>3. i \in DOMAIN tcbPids /\ tcbPids[i] # 0 /\ j \in DOMAIN tcbPids /\ tcbPids[j] # 0
  BY DEF tcbPids
<1>4. out'.nprocs = out.nprocs - 1
  BY DEF Switches
<1>. QED  BY <1>2, <1>3, <1>4 DEF Table!Switch

\* Attached grows the table as Roomy does, and CHOOSEs the first free block.
LEMMA AttachesIsAlloc ==
  ASSUME IsOutput(out), TableInv, NEW p \in Pids, Attaches(p)
  PROVE  /\ IsOutput(out') /\ Table!Alloc(p)
         /\ DOMAIN out.tcbtab \subseteq DOMAIN out'.tcbtab
         /\ \E f \in DOMAIN out'.tcbtab :
               /\ out'.tcbtab[f].pid = p /\ "INSYSCALL" \notin out'.tcbtab[f].flags
               /\ f \in DOMAIN out.tcbtab => out.tcbtab[f].pid = 0
               /\ \A k \in DOMAIN out'.tcbtab \ {f} :
                     IF k \in DOMAIN out.tcbtab THEN out'.tcbtab[k] = out.tcbtab[k]
                     ELSE out'.tcbtab[k].pid = 0
<1>. DEFINE room == IF out.nprocs = Len(out.tcbtab) THEN expand_tcbtab(out) ELSE out
            f == FirstFree(room)
<1>1. PICK flags : "INSYSCALL" \notin flags /\ out' = Attached(opt.ff, out, p, flags)
  BY DEF Attaches
<1>. DEFINE b == [FreeTcb EXCEPT !.pid = p, !.outf = IF opt.ff THEN p ELSE Shared,
                                 !.flags = {"INUSE", "ATTACHED", "STARTUP"} \cup flags]
<1>2. out' = [room EXCEPT !.nprocs = @ + 1, !.tcbtab[f] = b]
  BY <1>1 DEF Attached
<1>3. IsTcb(b) /\ b.pid = p /\ p # 0 /\ "INSYSCALL" \notin b.flags
  <2>1. b.pid = p /\ "INUSE" \in b.flags /\ "INSYSCALL" \notin b.flags
    BY <1>1 DEF FreeTcb
  <2>2. b = [pid |-> b.pid, flags |-> b.flags, curcol |-> b.curcol, outf |-> b.outf,
             call |-> b.call]
    <3>1. PICK free : free = FreeTcb
      OBVIOUS
    <3>2. free = [pid |-> free.pid, flags |-> free.flags, curcol |-> free.curcol,
                  outf |-> free.outf, call |-> free.call]
      BY <3>1, FreeIsTcb DEF IsTcb
    <3>3. PICK o, F : b = [free EXCEPT !.pid = p, !.outf = o, !.flags = F]
      BY <3>1
    <3>4. PICK t : t = b
      OBVIOUS
    <3>5. t = [free EXCEPT !.pid = p, !.outf = o, !.flags = F]
      BY <3>3, <3>4
    <3>6. t = [pid |-> t.pid, flags |-> t.flags, curcol |-> t.curcol, outf |-> t.outf,
               call |-> t.call]
      BY <3>2, <3>5
    <3>. QED  BY <3>4, <3>6
  <2>3. p # 0
    BY PidsAssumption
  <2>. HIDE DEF b
  <2>. QED  BY <2>1, <2>2, <2>3 DEF IsTcb
<1>. HIDE DEF b
<1>4. PICK n \in Nat : n >= FirstSize /\ IsBlocks(out.tcbtab, n)
  BY DEF IsOutput
<1>5. DOMAIN out.tcbtab = 1..n /\ Len(out.tcbtab) = n
  BY <1>4, BlocksAreSeq
<1>6. Len(tcbPids) = n
  <2>1. tcbPids \in [1..n -> {0} \cup Pids]
    BY <1>5, PidsOfBlocks DEF tcbPids
  <2>. QED  BY <1>4, <2>1, FunctionIsTable DEF TabOf
<1>7. \E m \in Nat :
         /\ m >= n /\ Fields(room) /\ IsBlocks(room.tcbtab, m) /\ room.nprocs = out.nprocs
         /\ Table!Roomy = [k \in 1..m |-> room.tcbtab[k].pid]
         /\ \A k \in 1..m : IF k <= n THEN room.tcbtab[k] = out.tcbtab[k]
                                      ELSE room.tcbtab[k] = FreeTcb
  <2>1. CASE out.nprocs = n
    <3>1. PICK r : r = expand_tcbtab(out)
      OBVIOUS
    <3>2. Fields(out)
      BY DEF IsOutput
    <3>3. /\ Fields(r) /\ r.nprocs = out.nprocs
          /\ r.tcbtab = [k \in 1..(2 * n) |-> IF k <= n THEN out.tcbtab[k] ELSE FreeTcb]
      BY <1>5, <3>1, <3>2 DEF expand_tcbtab, Fields
    <3>4. \A k \in 1..(2 * n) : k <= n => k \in 1..n
      OBVIOUS
    <3>5. IsBlocks(r.tcbtab, 2 * n)
      BY <1>4, <3>3, <3>4, FreeIsTcb DEF IsBlocks
    <3>6. Table!Roomy = [k \in 1..(2 * n) |-> IF k <= n THEN tcbPids[k] ELSE 0]
      BY <1>6, <2>1 DEF Table!Roomy, Table!Expanded
    <3>7. \A k \in 1..(2 * n) : r.tcbtab[k].pid = IF k <= n THEN tcbPids[k] ELSE 0
      BY <1>5, <3>3, <3>4, FreeIsTcb DEF tcbPids
    <3>8. room = r
      BY <1>5, <2>1, <3>1
    <3>. HIDE DEF room
    <3>9. Table!Roomy = [k \in 1..(2 * n) |-> r.tcbtab[k].pid]
      BY <3>6, <3>7
    <3>10. 2 * n \in Nat /\ 2 * n >= n
      OBVIOUS
    <3>. QED  BY <3>3, <3>5, <3>8, <3>9, <3>10
  <2>2. CASE out.nprocs # n
    <3>1. room = out
      BY <1>5, <2>2
    <3>2. Table!Roomy = tcbPids
      BY <1>6, <2>2 DEF Table!Roomy
    <3>. HIDE DEF room
    <3>3. Fields(out)
      BY DEF IsOutput
    <3>4. tcbPids = [k \in 1..n |-> out.tcbtab[k].pid]
      BY <1>5 DEF tcbPids
    <3>. QED  BY <1>4, <3>1, <3>2, <3>3, <3>4
  <2>. QED  BY <2>1, <2>2
<1>. HIDE DEF room
<1>8. PICK m \in Nat :
         /\ m >= n /\ Fields(room) /\ IsBlocks(room.tcbtab, m) /\ room.nprocs = out.nprocs
         /\ Table!Roomy = [k \in 1..m |-> room.tcbtab[k].pid]
         /\ \A k \in 1..m : IF k <= n THEN room.tcbtab[k] = out.tcbtab[k]
                                      ELSE room.tcbtab[k] = FreeTcb
  BY <1>7
<1>9. f \in Table!FirstFree(Table!Roomy) /\ f \in 1..m
  <2>1. DOMAIN room.tcbtab = 1..m
    BY <1>8, BlocksAreSeq
  <2>2. \A k \in 1..m : IsTcb(room.tcbtab[k])
    BY <1>8 DEF IsBlocks
  <2>3. \A k \in 1..m : InUse(room, k) <=> Table!Roomy[k] # 0
    BY <1>8, <2>2 DEF InUse, IsTcb
  <2>4. Table!FirstFree(Table!Roomy) # {}
    BY RoomyHasRoom, FirstFreeExists
  <2>5. DOMAIN Table!Roomy = 1..m
    BY <1>8
  <2>6. \A i \in 1..m : \A j \in 1..(i - 1) : j \in 1..m
    OBVIOUS
  <2>7. Table!FirstFree(Table!Roomy) =
          {i \in DOMAIN room.tcbtab : ~InUse(room, i) /\ \A j \in 1..(i - 1) : InUse(room, j)}
    BY <2>1, <2>3, <2>5, <2>6 DEF Table!FirstFree
  <2>8. f \in Table!FirstFree(Table!Roomy)
    BY <2>4, <2>7 DEF FirstFree
  <2>. QED  BY <2>1, <2>7, <2>8
<1>. HIDE DEF f
<1>10. /\ Fields(out') /\ out'.nprocs = out.nprocs + 1
       /\ out'.tcbtab = [room.tcbtab EXCEPT ![f] = b]
  <2>1. PICK t : t = out'
    OBVIOUS
  <2>2. Fields(room) /\ t = [room EXCEPT !.nprocs = @ + 1, !.tcbtab[f] = b]
    BY <1>2, <1>8, <2>1
  <2>3. /\ Fields(t) /\ t.nprocs = room.nprocs + 1
        /\ t.tcbtab = [room.tcbtab EXCEPT ![f] = b]
    BY <2>2 DEF Fields
  <2>. QED  BY <1>8, <2>1, <2>3
<1>11. /\ IsBlocks(out'.tcbtab, m)
       /\ \A k \in 1..m : out'.tcbtab[k] = IF k = f THEN b ELSE room.tcbtab[k]
  <2>1. IsBlocks(room.tcbtab, m) /\ f \in 1..m /\ IsTcb(b)
    BY <1>3, <1>8, <1>9
  <2>2. out'.tcbtab = [room.tcbtab EXCEPT ![f] = b]
    BY <1>10
  <2>3. /\ IsBlocks([room.tcbtab EXCEPT ![f] = b], m)
        /\ \A k \in 1..m :
              [room.tcbtab EXCEPT ![f] = b][k] = IF k = f THEN b ELSE room.tcbtab[k]
    BY <2>1, BlocksSet
  <2>. QED  BY <2>2, <2>3
<1>12. DOMAIN out'.tcbtab = 1..m
  BY <1>11, BlocksAreSeq
<1>13. m >= FirstSize
  BY <1>4, <1>8, FirstSizeAssumption
<1>14. IsOutput(out')
  BY <1>10, <1>11, <1>13 DEF IsOutput
<1>15. DOMAIN out.tcbtab \subseteq DOMAIN out'.tcbtab
  BY <1>5, <1>8, <1>12
<1>16. /\ f \in DOMAIN out'.tcbtab
       /\ out'.tcbtab[f].pid = p /\ "INSYSCALL" \notin out'.tcbtab[f].flags
  BY <1>3, <1>9, <1>11, <1>12
<1>17. Table!Alloc(p)
  <2>1. tcbPids' = [k \in DOMAIN out'.tcbtab |-> out'.tcbtab[k].pid]
    BY DEF tcbPids
  <2>2. tcbPids' = [Table!Roomy EXCEPT ![f] = p]
    BY <1>3, <1>8, <1>9, <1>11, <1>12, <2>1
  <2>3. \A k \in Table!Used : tcbPids[k] # p
    BY PidsOfBlocks DEF Attaches, pid2tcb
  <2>. QED  BY <1>9, <1>10, <2>2, <2>3 DEF Table!Alloc
<1>18. f \in DOMAIN out.tcbtab => out.tcbtab[f].pid = 0
  <2>1. SUFFICES ASSUME f \in 1..n PROVE out.tcbtab[f].pid = 0
    BY <1>5
  <2>2. f <= n /\ Table!Roomy[f] = 0
    BY <1>9, <2>1 DEF Table!FirstFree
  <2>3. room.tcbtab[f] = out.tcbtab[f] /\ room.tcbtab[f].pid = 0
    BY <1>8, <1>9, <2>2
  <2>. QED  BY <2>3
<1>19. ASSUME NEW k \in DOMAIN out'.tcbtab \ {f}
       PROVE  IF k \in DOMAIN out.tcbtab THEN out'.tcbtab[k] = out.tcbtab[k]
              ELSE out'.tcbtab[k].pid = 0
  <2>1. k \in 1..m /\ out'.tcbtab[k] = room.tcbtab[k]
    BY <1>11, <1>12
  <2>2. k <= n <=> k \in 1..n
    BY <2>1
  <2>. QED  BY <1>5, <1>8, <2>1, <2>2, FreeIsTcb
<1>. QED  BY <1>14, <1>15, <1>16, <1>17, <1>18, <1>19

LEMMA MovesAreTableSteps ==
  ASSUME IsOutput(out), TableInv, TableMoves
  PROVE  /\ [Table!TableNext]_(Table!tableVars)
         /\ IsOutput(out') /\ DOMAIN out.tcbtab \subseteq DOMAIN out'.tcbtab
<1>1. CASE Places(out, out')
  BY <1>1, PlacesIsStutter DEF Places
<1>2. ASSUME NEW i \in DOMAIN out.tcbtab, out.tcbtab[i].pid # 0, Drops(out, out', i)
      PROVE  /\ Table!TableNext
             /\ IsOutput(out') /\ DOMAIN out.tcbtab \subseteq DOMAIN out'.tcbtab
  <2>1. Table!TableNext
    BY <1>2, DropsIsDrop DEF Table!TableNext
  <2>. QED  BY <1>2, <2>1 DEF Drops
<1>3. ASSUME NEW i \in DOMAIN out.tcbtab, NEW j \in DOMAIN out.tcbtab, i # j,
             out.tcbtab[i].pid # 0, out.tcbtab[j].pid # 0, Switches(out, out', j, i)
      PROVE  /\ Table!TableNext
             /\ IsOutput(out') /\ DOMAIN out.tcbtab \subseteq DOMAIN out'.tcbtab
  <2>1. Table!TableNext
    BY <1>3, SwitchesIsSwitch DEF Table!TableNext
  <2>. QED  BY <1>3, <2>1 DEF Switches
<1>4. ASSUME NEW p \in Pids, Attaches(p)
      PROVE  /\ Table!TableNext
             /\ IsOutput(out') /\ DOMAIN out.tcbtab \subseteq DOMAIN out'.tcbtab
  BY <1>4, AttachesIsAlloc DEF Table!TableNext
<1>. QED  BY <1>1, <1>2, <1>3, <1>4 DEF TableMoves

-----------------------------------------------------------------------------
(* The invariant                                                           *)

IsTask(t) ==
    t = [state |-> t.state, leader |-> t.leader, traced |-> t.traced, incall |-> t.incall,
         kind |-> t.kind, call |-> t.call, calls |-> t.calls, report |-> t.report,
         oldpid |-> t.oldpid, pending |-> t.pending, syscalls |-> t.syscalls,
         launch |-> t.launch, unseen |-> t.unseen]

\* While strace starts, only the threads it has begun to trace have a block.
OnlyTraced ==
    /\ DOMAIN task = Pids /\ \A p \in Pids : IsTask(task[p])
    /\ \A i \in DOMAIN out.tcbtab : InUse(out, i) => task[out.tcbtab[i].pid].traced

PCs == {"startup", "wait", "handle", "dump", "restart", "cleanup", "detach",
        "detach_wait", "aborted", "done"}

\* A block of the table, 0, or the one after a block of the table.
TcpOK ==
    \/ tcp = 0 \/ tcp \in DOMAIN out.tcbtab
    \/ tcp \in Nat /\ tcp - 1 \in DOMAIN out.tcbtab

PlaceOK ==
    /\ opt \in Scenarios /\ status.pid \in Pids \cup {0} /\ pc \in PCs
    /\ TcpOK
    /\ pc = "startup" => OnlyTraced
    /\ pc \in {"handle", "dump"} => tcp \in pid2tcb(out, status.pid)
    /\ pc = "restart" => /\ tcp \in DOMAIN out.tcbtab
                         /\ tcp \in pid2tcb(out, status.pid) \/ Tcb.pid = 0
    /\ pc = "cleanup" => tcp # 0
    /\ pc \in {"detach", "detach_wait"} => tcp \in DOMAIN out.tcbtab /\ Tcb.pid # 0

TracerInv == IsOutput(out) /\ TableInv /\ PlaceOK

\* The blocks there are stay there.
LEMMA BlocksStay ==
  ASSUME IsOutput(out), TableInv, TableMoves
  PROVE  DOMAIN out.tcbtab \subseteq DOMAIN out'.tcbtab
  BY MovesAreTableSteps

LEMMA FirstBlock ==
  ASSUME IsOutput(out)
  PROVE  1 \in DOMAIN out.tcbtab
<1>1. PICK n \in Nat : n >= FirstSize /\ IsBlocks(out.tcbtab, n)
  BY DEF IsOutput
<1>2. DOMAIN out.tcbtab = 1..n
  BY <1>1 DEF IsBlocks
<1>. QED  BY <1>1, <1>2, FirstSizeAssumption

\* A block that is not for pid 0 is in use.
LEMMA BlocksOfPid ==
  ASSUME NEW s, IsOutput(s), NEW p, p # 0
  PROVE  pid2tcb(s, p) = {i \in DOMAIN s.tcbtab : s.tcbtab[i].pid = p}
  BY BlockOf DEF pid2tcb, InUse, IsTcb

LEMMA PlacesFind ==
  ASSUME NEW s, NEW t, IsOutput(s), Places(s, t), NEW p, NEW i \in pid2tcb(s, p)
  PROVE  p # 0 /\ i \in pid2tcb(t, p)
<1>1. i \in DOMAIN s.tcbtab /\ s.tcbtab[i].pid = p /\ p # 0
  BY BlockOf DEF pid2tcb, InUse, IsTcb
<1>2. IsOutput(t) /\ i \in DOMAIN t.tcbtab /\ t.tcbtab[i].pid = p
  BY <1>1 DEF Places
<1>. QED  BY <1>1, <1>2, BlocksOfPid

\* The steps that go from one place of the loop to another.
LEMMA GoesKeepsPlace ==
  ASSUME TracerInv, TableMoves, Goes("wait")
  PROVE  PlaceOK'
<1>1. DOMAIN out.tcbtab \subseteq DOMAIN out'.tcbtab
  BY BlocksStay DEF TracerInv
<1>. QED  BY <1>1 DEF TracerInv, PlaceOK, TcpOK, Goes, PCs

\* ... and keep the thread at hand.
LEMMA KeepingStep ==
  ASSUME TracerInv, Places(out, out'), NEW where \in {"wait", "restart", "dump", "aborted"},
         Goes(where), pc \in {"handle", "dump"}
  PROVE  TableMoves /\ PlaceOK'
<1>1. TableMoves
  BY DEF TableMoves
<1>2. DOMAIN out.tcbtab = DOMAIN out'.tcbtab
  BY DEF Places
<1>3. tcp \in pid2tcb(out', status.pid)
  BY PlacesFind DEF TracerInv, PlaceOK
<1>4. tcp \in DOMAIN out'.tcbtab
  BY <1>3 DEF pid2tcb
<1>5. PlaceOK'
  BY <1>2, <1>3, <1>4 DEF TracerInv, PlaceOK, TcpOK, Goes, PCs
<1>. QED  BY <1>1, <1>5

-----------------------------------------------------------------------------
(* startup and wait                                                        *)

LEMMA TraceOne ==
  ASSUME NEW p \in Pids, IsTask(task[p]), DOMAIN task = Pids, StartTracing(p)
  PROVE  /\ DOMAIN task' = Pids /\ IsTask(task'[p]) /\ task'[p].traced
         /\ \A q \in Pids \ {p} : task'[q] = task[q]
<1>1. PICK a, b, c : task' = [task EXCEPT ![p] =
                        [@ EXCEPT !.traced = TRUE, !.syscalls = TRUE, !.state = a,
                                  !.report = b, !.pending = c]]
  BY DEF StartTracing
<1>2. PICK t : t = [task[p] EXCEPT !.traced = TRUE, !.syscalls = TRUE, !.state = a,
                                   !.report = b, !.pending = c]
  OBVIOUS
<1>3. IsTask(t) /\ t.traced = TRUE
  BY <1>2 DEF IsTask
<1>4. task' = [task EXCEPT ![p] = t]
  BY <1>1, <1>2
<1>. QED  BY <1>3, <1>4

LEMMA StartupAttaches ==
  ASSUME TracerInv, NEW p \in Pids, Startup(p)
  PROVE  Attaches(p)
<1>1. pid2tcb(out, p) = {}
  <2>1. \A i \in DOMAIN out.tcbtab : InUse(out, i) => task[out.tcbtab[i].pid].traced
    BY DEF TracerInv, PlaceOK, Startup, OnlyTraced
  <2>. QED  BY <2>1 DEF pid2tcb, Startup
<1>. DEFINE F == PostAttach \cup (IF opt.child THEN {"STRACE_CHILD"} ELSE {})
<1>2. "INSYSCALL" \notin F
  BY DEF PostAttach
<1>3. out' = Attached(opt.ff, out, p, F)
  BY DEF Startup
<1>. QED  BY <1>1, <1>2, <1>3 DEF Attaches

LEMMA StartupStep ==
  ASSUME TracerInv, NEW p \in Pids, Startup(p)
  PROVE  TableMoves /\ PlaceOK'
<1>1. Attaches(p)
  BY StartupAttaches
<1>2. TableMoves
  BY <1>1 DEF TableMoves
<1>3. /\ IsOutput(out') /\ DOMAIN out.tcbtab \subseteq DOMAIN out'.tcbtab
      /\ \A k \in DOMAIN out'.tcbtab :
               \/ out'.tcbtab[k].pid \in {0, p}
               \/ k \in DOMAIN out.tcbtab /\ out'.tcbtab[k] = out.tcbtab[k]
  <2>1. PICK f \in DOMAIN out'.tcbtab :
              /\ out'.tcbtab[f].pid = p
              /\ \A k \in DOMAIN out'.tcbtab \ {f} :
                    IF k \in DOMAIN out.tcbtab THEN out'.tcbtab[k] = out.tcbtab[k]
                    ELSE out'.tcbtab[k].pid = 0
    BY <1>1, AttachesIsAlloc DEF TracerInv
  <2>2. IsOutput(out') /\ DOMAIN out.tcbtab \subseteq DOMAIN out'.tcbtab
    BY <1>1, AttachesIsAlloc DEF TracerInv
  <2>. QED  BY <2>1, <2>2
<1>4. OnlyTraced
  BY DEF TracerInv, PlaceOK, Startup
<1>5. /\ DOMAIN task' = Pids /\ IsTask(task'[p]) /\ task'[p].traced
      /\ \A q \in Pids \ {p} : task'[q] = task[q]
  BY <1>4, TraceOne DEF OnlyTraced, Startup
<1>6. ASSUME NEW k \in DOMAIN out'.tcbtab, InUse(out', k)
      PROVE  task'[out'.tcbtab[k].pid].traced
  <2>1. IsTcb(out'.tcbtab[k]) /\ out'.tcbtab[k].pid # 0 /\ out'.tcbtab[k].pid \in Pids
    BY <1>3, <1>6, BlockOf DEF IsTcb, InUse
  <2>2. CASE out'.tcbtab[k].pid = p
    BY <1>5, <2>2
  <2>3. CASE out'.tcbtab[k].pid # p
    <3>1. k \in DOMAIN out.tcbtab /\ out'.tcbtab[k] = out.tcbtab[k]
      BY <1>3, <2>1, <2>3
    <3>2. InUse(out, k)
      BY <1>6, <3>1 DEF InUse
    <3>3. task[out.tcbtab[k].pid].traced
      BY <1>4, <3>1, <3>2 DEF OnlyTraced
    <3>. QED  BY <1>5, <2>1, <2>3, <3>1, <3>3
  <2>. QED  BY <2>2, <2>3
<1>7. OnlyTraced'
  <2>1. \A q \in Pids : IsTask(task'[q])
    BY <1>4, <1>5 DEF OnlyTraced
  <2>2. \A k \in DOMAIN out'.tcbtab : InUse(out', k) => task'[out'.tcbtab[k].pid].traced
    BY <1>6
  <2>. QED  BY <1>5, <2>1, <2>2 DEF OnlyTraced
<1>8. PlaceOK'
  BY <1>3, <1>7 DEF TracerInv, PlaceOK, TcpOK, Startup
<1>. QED  BY <1>2, <1>8

LEMMA StutterStep ==
  ASSUME TracerInv, UNCHANGED out
  PROVE  TableMoves /\ Keeps(out, out')
<1>1. Keeps(out, out')
  BY KeepsItself DEF TracerInv
<1>. QED  BY <1>1, KeepsPlaces DEF TableMoves

\* The steps that go from one place of the loop to another.
LEMMA LoopStep ==
  ASSUME TracerInv,
         StartupEnds \/ Interrupt \/ LoopEnds \/ WaitFindsNone \/ CleanupEnds
  PROVE  TableMoves /\ PlaceOK'
<1>1. UNCHANGED out
  BY DEF StartupEnds, Interrupt, LoopEnds, WaitFindsNone, CleanupEnds
<1>2. 1 \in DOMAIN out.tcbtab
  BY FirstBlock DEF TracerInv
<1>. SUFFICES PlaceOK'
  BY <1>1, StutterStep
<1>3. CASE StartupEnds
  BY <1>3 DEF TracerInv, PlaceOK, TcpOK, StartupEnds, PCs
<1>4. CASE Interrupt
  BY <1>4 DEF TracerInv, PlaceOK, TcpOK, Interrupt, PCs
<1>5. CASE LoopEnds
  BY <1>2, <1>5 DEF TracerInv, PlaceOK, TcpOK, LoopEnds, PCs
<1>6. CASE WaitFindsNone
  BY <1>2, <1>6 DEF TracerInv, PlaceOK, TcpOK, WaitFindsNone, PCs
<1>7. CASE CleanupEnds
  BY <1>7 DEF TracerInv, PlaceOK, TcpOK, CleanupEnds, PCs
<1>. QED  BY <1>3, <1>4, <1>5, <1>6, <1>7

LEMMA WaitStep ==
  ASSUME TracerInv, NEW p \in Pids, Wait(p)
  PROVE  TableMoves /\ PlaceOK'
<1>1. TableMoves
  <2>1. CASE pid2tcb(out, p) # {}
    BY <2>1, StutterStep DEF Wait
  <2>2. CASE pid2tcb(out, p) = {}
    <3>1. Attaches(p)
      BY <2>2 DEF Attaches, Wait, PostAttach
    <3>. QED  BY <3>1 DEF TableMoves
  <2>. QED  BY <2>1, <2>2
<1>2. tcp' \in pid2tcb(out', p) /\ status'.pid = p /\ pc' = "handle"
  BY DEF Wait
<1>3. tcp' \in DOMAIN out'.tcbtab
  BY <1>2 DEF pid2tcb
<1>4. PlaceOK'
  BY <1>2, <1>3 DEF TracerInv, PlaceOK, TcpOK, Wait, PCs
<1>. QED  BY <1>1, <1>4

-----------------------------------------------------------------------------
(* handle                                                                  *)

LEMMA StartedKeeps ==
  ASSUME IsOutput(out)
  PROVE  Keeps(out, Started(out)) /\ IsOutput(Started(out))
<1>. DEFINE cleared == ClearFlags(out, tcp, {"STARTUP"})
<1>1. Keeps(out, cleared) /\ IsOutput(cleared)
  BY FlagsKeep DEF Keeps, Places
<1>2. Started(out) = [cleared EXCEPT !.current = tcp]
  BY DEF Started
<1>. HIDE DEF cleared
<1>3. Keeps(cleared, Started(out))
  BY <1>1, <1>2, PrintingKeeps, ZenonT(40)
<1>. QED  BY <1>1, <1>3, KeepsThrough DEF Keeps, Places

LEMMA SetFlagsKeeps ==
  ASSUME NEW s, NEW i, NEW flags, NEW u, Keeps(u, s), "INUSE" \notin flags,
         "INSYSCALL" \notin flags
  PROVE  Keeps(u, SetFlags(s, i, flags)) /\ Keeps(u, ClearFlags(s, i, flags))
<1>1. IsOutput(s)
  BY KeepsPlaces
<1>. QED  BY <1>1, FlagsKeep, KeepsThrough

LEMMA StackKeeps ==
  ASSUME NEW s, IsOutput(s), NEW f, NEW x
  PROVE  Keeps(s, [s EXCEPT !.stack[f] = x]) /\ Keeps(s, [s EXCEPT !.dump[f] = x])
<1>1. ASSUME NEW t, t = [s EXCEPT !.stack[f] = x] \/ t = [s EXCEPT !.dump[f] = x]
      PROVE  Keeps(s, t)
  <2>1. Fields(s)
    BY DEF IsOutput
  <2>2. Fields(t) /\ t.tcbtab = s.tcbtab /\ t.nprocs = s.nprocs
    BY <1>1, <2>1 DEF Fields
  <2>. QED  BY <2>2, BlocksAlone
<1>. QED  BY <1>1

LEMMA HandledKnown ==
  ASSUME TracerInv, pc = "handle"
  PROVE  tcp \in DOMAIN out.tcbtab /\ Tcb.pid = status.pid /\ Tcb.pid # 0
<1>1. tcp \in pid2tcb(out, status.pid)
  BY DEF TracerInv, PlaceOK
<1>2. tcp \in DOMAIN out.tcbtab /\ Tcb.pid = status.pid /\ InUse(out, tcp)
  BY <1>1 DEF pid2tcb, Tcb
<1>. QED  BY <1>2, BlockOf DEF TracerInv, IsTcb, InUse, Tcb

LEMMA HandleEndStep ==
  ASSUME TracerInv, HandleEnd
  PROVE  /\ TableMoves /\ PlaceOK'
         /\ tcp \in DOMAIN out.tcbtab /\ Drops(out, out', tcp)
<1>. DEFINE noted == Note(opt.ff, out, tcp, status.report)
<1>1. tcp \in DOMAIN out.tcbtab /\ out.tcbtab[tcp].pid # 0
  BY HandledKnown DEF HandleEnd, Handling, Tcb
<1>2. Keeps(out, noted)
  BY NoteKeeps DEF TracerInv
<1>3. out' = droptcb(opt.ff, noted, tcp)
  BY DEF HandleEnd
<1>. HIDE DEF noted
<1>4. Drops(noted, out', tcp)
  BY <1>1, <1>2, <1>3, DroptcbDrops DEF Keeps, Places
<1>5. DOMAIN noted.tcbtab = DOMAIN out.tcbtab
  BY <1>2 DEF Keeps, Places
<1>6. Drops(out, out', tcp)
  BY <1>2, <1>4, <1>5 DEF Keeps, Places, Drops, SameCall
<1>7. TableMoves
  BY <1>1, <1>6 DEF TableMoves
<1>. QED  BY <1>1, <1>6, <1>7, GoesKeepsPlace DEF HandleEnd

LEMMA HandleEventStep ==
  ASSUME TracerInv, HandleEvent
  PROVE  TableMoves /\ PlaceOK' /\ Keeps(out, out')
<1>1. Keeps(out, out')
  BY StartedKeeps DEF TracerInv, HandleEvent
<1>. QED  BY <1>1, KeepsPlaces, KeepingStep DEF HandleEvent, Handling

LEMMA HandleExecveStep ==
  ASSUME TracerInv, HandleExecve
  PROVE  /\ TableMoves /\ PlaceOK'
         /\ tcp' \in pid2tcb(out', status.pid)
         /\ IF status.oldpid # status.pid /\ pid2tcb(out, status.oldpid) # {}
            THEN \E i \in pid2tcb(out, status.oldpid) :
                    i # tcp /\ Switches(out, out', tcp, i)
            ELSE Keeps(out, out')
<1>. DEFINE thread == pid2tcb(out, status.oldpid)
            switch == status.oldpid # status.pid /\ thread # {}
            i == IF switch THEN CHOOSE j \in thread : TRUE ELSE tcp
            o == IF switch THEN Superseded(opt.ff, out, i, tcp) ELSE out
            cleared == ClearFlags(o, i, {"STARTUP"})
            c == IF opt.b /\ ~skip THEN cleared.current ELSE i
<1>1. IsOutput(out) /\ tcp \in DOMAIN out.tcbtab /\ out.tcbtab[tcp].pid = status.pid
      /\ out.tcbtab[tcp].pid # 0
  BY HandledKnown DEF TracerInv, HandleExecve, Handling, Tcb
<1>2. /\ out' = [cleared EXCEPT !.current = c]
      /\ tcp' = i /\ pc' \in {"detach", "restart"} /\ UNCHANGED <<opt, status>>
  BY DEF HandleExecve
<1>3. switch => /\ i \in DOMAIN out.tcbtab /\ out.tcbtab[i].pid = status.oldpid
                /\ out.tcbtab[i].pid # 0 /\ i # tcp
  <2>1. SUFFICES ASSUME switch
                 PROVE  /\ i \in DOMAIN out.tcbtab /\ out.tcbtab[i].pid = status.oldpid
                        /\ out.tcbtab[i].pid # 0 /\ i # tcp
    OBVIOUS
  <2>2. i \in thread
    BY <2>1
  <2>. HIDE DEF i
  <2>3. i \in DOMAIN out.tcbtab /\ out.tcbtab[i].pid = status.oldpid /\ InUse(out, i)
    BY <2>2 DEF pid2tcb
  <2>. QED  BY <1>1, <2>1, <2>3, BlockOf DEF IsTcb, InUse
<1>4. i \in DOMAIN out.tcbtab
  BY <1>1, <1>3
<1>5. IF switch THEN Switches(out, o, tcp, i) ELSE o = out
  <2>1. CASE switch
    <3>1. o = Superseded(opt.ff, out, i, tcp)
      BY <2>1
    <3>. HIDE DEF o, i
    <3>. QED  BY <1>1, <1>3, <2>1, <3>1, SupersededSwitches
  <2>2. CASE ~switch
    BY <2>2
  <2>. QED  BY <2>1, <2>2
<1>. HIDE DEF i, o, switch
<1>6. IsOutput(o)
  BY <1>1, <1>5 DEF Switches
<1>7. Keeps(o, out')
  <2>1. Keeps(o, cleared) /\ IsOutput(cleared)
    BY <1>6, FlagsKeep DEF Keeps, Places
  <2>. HIDE DEF cleared, c
  <2>2. Keeps(cleared, [cleared EXCEPT !.current = c])
    BY <2>1, PrintingKeeps
  <2>. QED  BY <1>2, <2>1, <2>2, KeepsThrough
<1>. HIDE DEF cleared, c
<1>8. IF switch THEN Switches(out, out', tcp, i) ELSE Keeps(out, out')
  <2>1. CASE switch
    BY <1>5, <1>7, <2>1 DEF Switches, Keeps, Places, SameCall
  <2>2. CASE ~switch
    BY <1>5, <1>7, <2>2
  <2>. QED  BY <2>1, <2>2
<1>9. TableMoves
  <2>1. CASE switch
    BY <1>1, <1>3, <1>8, <2>1 DEF TableMoves
  <2>2. CASE ~switch
    BY <1>8, <2>2, KeepsPlaces DEF TableMoves
  <2>. QED  BY <2>1, <2>2
<1>10. tcp' \in pid2tcb(out', status.pid)
  <2>1. IsOutput(out') /\ i \in DOMAIN out'.tcbtab
    BY <1>4, <1>8 DEF Switches, Keeps, Places
  <2>2. out'.tcbtab[i].pid = status.pid
    <3>1. CASE switch
      BY <1>1, <1>3, <1>8, <3>1 DEF Switches
    <3>2. CASE ~switch
      <4>1. i = tcp
        BY <3>2 DEF i, switch
      <4>. QED  BY <1>1, <1>8, <3>2, <4>1 DEF Keeps, Places
    <3>. QED  BY <3>1, <3>2
  <2>3. i \in pid2tcb(out', status.pid)
    BY <1>1, <2>1, <2>2, BlocksOfPid
  <2>. QED  BY <1>2, <2>3
<1>11. tcp' \in DOMAIN out'.tcbtab /\ Tcb'.pid # 0
  <2>1. tcp' \in DOMAIN out'.tcbtab /\ out'.tcbtab[tcp'].pid = status.pid
    BY <1>10 DEF pid2tcb
  <2>. QED  BY <1>1, <2>1 DEF Tcb
<1>12. PlaceOK'
  BY <1>2, <1>10, <1>11 DEF TracerInv, PlaceOK, TcpOK, PCs
<1>13. switch => i \in thread
  BY DEF i, switch
<1>. QED  BY <1>3, <1>8, <1>9, <1>10, <1>12, <1>13 DEF switch

LEMMA HandleSignalStep ==
  ASSUME TracerInv, HandleSignal
  PROVE  TableMoves /\ PlaceOK' /\ Keeps(out, out')
<1>. DEFINE o == Started(out)
<1>1. Keeps(out, o) /\ IsOutput(o)
  BY StartedKeeps DEF TracerInv
<1>2. out' \in {ClearFlags(o, tcp, {"IGNORE_ONE_SIGSTOP"}), o, Note(opt.ff, o, tcp, "signal")}
  BY DEF HandleSignal
<1>. HIDE DEF o
<1>3. Keeps(o, Note(opt.ff, o, tcp, "signal")) /\ Keeps(out, Note(opt.ff, o, tcp, "signal"))
  BY <1>1, NoteKeeps, KeepsThrough
<1>4. Keeps(out, ClearFlags(o, tcp, {"IGNORE_ONE_SIGSTOP"}))
  BY <1>1, SetFlagsKeeps
<1>5. Keeps(out, out')
  BY <1>1, <1>2, <1>3, <1>4
<1>. QED  BY <1>5, KeepsPlaces, KeepingStep DEF HandleSignal, Handling

LEMMA HandleInterruptedStep ==
  ASSUME TracerInv, HandleInterrupted
  PROVE  TableMoves /\ PlaceOK'
<1>1. Keeps(out, out')
  BY StartedKeeps DEF TracerInv, HandleInterrupted
<1>2. TableMoves
  BY <1>1, KeepsPlaces DEF TableMoves
<1>3. IsOutput(out')
  BY <1>1 DEF Keeps, Places
<1>4. 1 \in DOMAIN out'.tcbtab
  <2>1. 1 \in DOMAIN out.tcbtab
    BY FirstBlock DEF TracerInv
  <2>. QED  BY <1>1, <2>1 DEF Keeps, Places
<1>5. PlaceOK'
  BY <1>4 DEF TracerInv, PlaceOK, TcpOK, HandleInterrupted, PCs
<1>. QED  BY <1>2, <1>5

-----------------------------------------------------------------------------
(* trace_syscall                                                           *)

LEMMA TurnsPlaces ==
  ASSUME NEW s, NEW t, NEW i, NEW in, NEW c, Turns(s, t, i, in, c)
  PROVE  IsOutput(t) /\ Places(s, t)
  BY DEF Turns, Places

LEMMA KeepsIsTurn ==
  ASSUME NEW s, NEW t, Keeps(s, t), NEW i \in DOMAIN s.tcbtab
  PROVE  Turns(s, t, i, "INSYSCALL" \in s.tcbtab[i].flags, s.tcbtab[i].call)
  BY DEF Keeps, Turns, SameCall

\* The mark may be set after the call is known.
LEMMA TurnsFlags ==
  ASSUME NEW s, NEW t, NEW i \in DOMAIN s.tcbtab, NEW in, NEW c, Turns(s, t, i, in, c),
         NEW flags, "INUSE" \notin flags, "INSYSCALL" \in flags
  PROVE  /\ Turns(s, SetFlags(t, i, flags), i, TRUE, c)
         /\ Turns(s, ClearFlags(t, i, flags), i, FALSE, c)
<1>1. IsOutput(t) /\ i \in DOMAIN t.tcbtab /\ t.tcbtab[i].call = c
  BY DEF Turns, Places
<1>2. /\ Turns(t, SetFlags(t, i, flags), i, TRUE, c)
      /\ Turns(t, ClearFlags(t, i, flags), i, FALSE, c)
  BY <1>1, FlagsTurn
<1>3. ASSUME NEW u, NEW out_of, Turns(t, u, i, out_of, c) PROVE Turns(s, u, i, out_of, c)
  BY <1>3 DEF Turns, Places, SameCall
<1>. QED  BY <1>2, <1>3

\* The call of the thread is read into the tcb.
LEMMA ReadTurns ==
  ASSUME NEW s, IsOutput(s), tcp \in DOMAIN s.tcbtab
  PROVE  Turns(s, Read(s), tcp, "INSYSCALL" \in s.tcbtab[tcp].flags, task[status.pid].call)
<1>1. PICK c : c = task[status.pid].call
  OBVIOUS
<1>2. PICK u : u = s.tcbtab[tcp]
  OBVIOUS
<1>3. PICK b : b = [u EXCEPT !.call = c]
  OBVIOUS
<1>4. IsTcb(b) /\ b.pid = u.pid /\ b.flags = u.flags /\ b.call = c
  <2>1. IsTcb(u)
    BY <1>2, BlockOf
  <2>2. u = [pid |-> u.pid, flags |-> u.flags, curcol |-> u.curcol, outf |-> u.outf,
             call |-> u.call]
    BY <2>1 DEF IsTcb
  <2>3. /\ b = [pid |-> b.pid, flags |-> b.flags, curcol |-> b.curcol, outf |-> b.outf,
                call |-> b.call]
        /\ b.pid = u.pid /\ b.flags = u.flags /\ b.call = c
    BY <1>3, <2>2
  <2>. QED  BY <2>1, <2>3 DEF IsTcb
<1>5. PICK t : t = Read(s)
  OBVIOUS
<1>6. t = [s EXCEPT !.tcbtab[tcp] = b]
  BY <1>1, <1>2, <1>3, <1>5 DEF Read
<1>7. Places(s, t) /\ \A k \in DOMAIN s.tcbtab :
                          t.tcbtab[k] = IF k = tcp THEN b ELSE s.tcbtab[k]
  BY <1>2, <1>4, <1>6, BlockPlaced
<1>8. Turns(s, t, tcp, "INSYSCALL" \in s.tcbtab[tcp].flags, c)
  BY <1>2, <1>4, <1>7 DEF Turns, SameCall
<1>. QED  BY <1>1, <1>5, <1>8

LEMMA PrintedTurns ==
  ASSUME NEW s, IsOutput(s), tcp \in DOMAIN s.tcbtab
  PROVE  Turns(s, Printed(s), tcp, "INSYSCALL" \in s.tcbtab[tcp].flags,
               task[status.pid].call)
<1>. DEFINE read == Read(s)
            cleared == ClearFlags(read, tcp, {"FILTERED"})
            led == printleader(opt.ff, cleared, tcp)
            begun == Begins(led, tcp, "call")
<1>1. /\ Turns(s, read, tcp, "INSYSCALL" \in s.tcbtab[tcp].flags, task[status.pid].call)
      /\ IsOutput(read)
  BY ReadTurns DEF Turns, Places
<1>2. PICK f, x : Printed(s) = [begun EXCEPT !.stack[f] = x]
  BY DEF Printed
<1>. HIDE DEF read
<1>3. Keeps(read, cleared) /\ IsOutput(cleared)
  BY <1>1, FlagsKeep, KeepsPlaces
<1>. HIDE DEF cleared
<1>4. Keeps(cleared, led) /\ IsOutput(led)
  BY <1>3, PrintleaderKeeps, KeepsPlaces
<1>. HIDE DEF led
<1>5. Keeps(led, begun) /\ IsOutput(begun)
  BY <1>4, BeginsKeeps, KeepsPlaces
<1>. HIDE DEF begun
<1>6. Keeps(begun, Printed(s))
  <2>1. Keeps(begun, [begun EXCEPT !.stack[f] = x])
    BY <1>5, StackKeeps
  <2>. QED  BY <1>2, <2>1
<1>7. Keeps(read, Printed(s))
  BY <1>3, <1>4, <1>5, <1>6, KeepsThrough
<1>. QED  BY <1>1, <1>7, TurnsThrough

\* A line is ended, and nobody prints.
LEMMA LineOutKeeps ==
  ASSUME NEW s, NEW i, NEW text, IsOutput(s)
  PROVE  Keeps(s, line_ended(Ends(s, i, text)))
<1>. DEFINE e == Ends(s, i, text)
<1>1. Keeps(s, e) /\ IsOutput(e)
  BY EndsKeeps, KeepsPlaces
<1>. HIDE DEF e
<1>2. Keeps(e, line_ended(e))
  BY <1>1, LineEndedKeeps
<1>3. Keeps(s, line_ended(e))
  BY <1>1, <1>2, KeepsThrough
<1>. QED  BY <1>3 DEF e

\* The call begins, or ends: the mark is set, or cleared, in the block at hand.
LEMMA TurningStep ==
  ASSUME TracerInv, pc \in {"handle", "dump"}, NEW in, NEW c,
         Turns(out, out', tcp, in, c),
         NEW where \in {"wait", "restart", "dump", "aborted"}, Goes(where)
  PROVE  TableMoves /\ PlaceOK'
  BY KeepingStep DEF Turns

LEMMA EnterUnreadableStep ==
  ASSUME TracerInv, EnterUnreadable
  PROVE  TableMoves /\ PlaceOK' /\ Turns(out, out', tcp, TRUE, Tcb.call)
<1>. DEFINE o == Started(out)
            led == printleader(opt.ff, o, tcp)
            begun == Begins(led, tcp, "unknown")
<1>1. out' = SetFlags(begun, tcp, {"INSYSCALL"}) /\ pc = "handle" /\ Goes("wait")
  BY DEF EnterUnreadable, Entering, Handling
<1>2. Keeps(out, o) /\ IsOutput(o)
  BY StartedKeeps DEF TracerInv
<1>. HIDE DEF o
<1>3. Keeps(out, led) /\ IsOutput(led)
  <2>1. Keeps(o, led)
    BY <1>2, PrintleaderKeeps
  <2>. QED  BY <1>2, <2>1, KeepsThrough, KeepsPlaces
<1>. HIDE DEF led
<1>4. Keeps(out, begun)
  BY <1>3, BeginsKeeps, KeepsThrough
<1>. HIDE DEF begun
<1>5. tcp \in DOMAIN out.tcbtab
  BY <1>1, HandledKnown
<1>6. Turns(out, out', tcp, TRUE, Tcb.call)
  BY <1>1, <1>4, <1>5, KeepsIsTurn, TurnsFlags DEF Tcb
<1>. QED  BY <1>1, <1>6, TurningStep

LEMMA EnterSilentlyStep ==
  ASSUME TracerInv, EnterSilently
  PROVE  TableMoves /\ PlaceOK' /\ Turns(out, out', tcp, TRUE, task[status.pid].call)
<1>. DEFINE c == task[status.pid].call
            o == Started(out)
            read == Read(o)
            cleared == ClearFlags(read, tcp, {"FILTERED"})
<1>1. /\ pc = "handle" /\ Goes("restart")
      /\ \/ out' = SetFlags(read, tcp, {"INSYSCALL", "FILTERED"})
         \/ out' = SetFlags(cleared, tcp, {"INSYSCALL"})
  BY DEF EnterSilently, Entering, Handling
<1>2. tcp \in DOMAIN out.tcbtab
  BY <1>1, HandledKnown
<1>3. Keeps(out, o) /\ IsOutput(o) /\ tcp \in DOMAIN o.tcbtab
  BY <1>2, StartedKeeps, KeepsPlaces DEF TracerInv
<1>. HIDE DEF o
<1>4. PICK in : Turns(o, read, tcp, in, c)
  BY <1>3, ReadTurns
<1>5. Turns(out, read, tcp, in, c) /\ IsOutput(read)
  <2>1. Turns(out, read, tcp, in, c)
    BY <1>2, <1>3, <1>4, TurnsThrough
  <2>. QED  BY <2>1, TurnsPlaces
<1>. HIDE DEF read
<1>6. Keeps(read, cleared)
  BY <1>5, FlagsKeep
<1>7. Turns(out, cleared, tcp, in, c)
  BY <1>2, <1>5, <1>6, TurnsThrough
<1>. HIDE DEF cleared
<1>8. Turns(out, SetFlags(cleared, tcp, {"INSYSCALL"}), tcp, TRUE, c)
  BY <1>2, <1>7, TurnsFlags
<1>9. Turns(out, SetFlags(read, tcp, {"INSYSCALL", "FILTERED"}), tcp, TRUE, c)
  BY <1>2, <1>5, TurnsFlags
<1>10. Turns(out, out', tcp, TRUE, c)
  BY <1>1, <1>8, <1>9
<1>. QED  BY <1>1, <1>10, TurningStep

LEMMA EnterStep ==
  ASSUME TracerInv, Enter
  PROVE  /\ TableMoves /\ PlaceOK' /\ pc' \in {"dump", "restart"}
         /\ Turns(out, out', tcp, pc' = "restart", task[status.pid].call)
<1>. DEFINE c == task[status.pid].call
            started == Started(out)
            o == Printed(started)
            ended == line_ended(Ends(o, tcp, "result"))
<1>1. /\ pc = "handle" /\ "INSYSCALL" \notin Tcb.flags
      /\ \/ Goes("dump") /\ out' = o
         \/ Goes("restart") /\ out' \in {SetFlags(ended, tcp, {"INSYSCALL"}),
                                         SetFlags(o, tcp, {"INSYSCALL"})}
  BY DEF Enter, Entering, Handling
<1>2. tcp \in DOMAIN out.tcbtab
  BY <1>1, HandledKnown
<1>3. /\ Keeps(out, started) /\ IsOutput(started) /\ tcp \in DOMAIN started.tcbtab
      /\ "INSYSCALL" \notin started.tcbtab[tcp].flags
  <2>1. Keeps(out, started)
    BY StartedKeeps DEF TracerInv
  <2>. HIDE DEF started
  <2>. QED  BY <1>1, <1>2, <2>1 DEF Keeps, Places, SameCall, Tcb
<1>. HIDE DEF started
<1>4. Turns(started, o, tcp, FALSE, c)
  <2>1. Turns(started, o, tcp, "INSYSCALL" \in started.tcbtab[tcp].flags, c)
    BY <1>3, PrintedTurns
  <2>. HIDE DEF o
  <2>. QED  BY <1>3, <2>1 DEF Turns
<1>5. Turns(out, o, tcp, FALSE, c) /\ IsOutput(o)
  <2>1. Turns(out, o, tcp, FALSE, c)
    BY <1>2, <1>3, <1>4, TurnsThrough
  <2>. QED  BY <2>1, TurnsPlaces
<1>. HIDE DEF o
<1>6. Keeps(o, ended)
  BY <1>5, LineOutKeeps
<1>7. Turns(out, ended, tcp, FALSE, c)
  BY <1>2, <1>5, <1>6, TurnsThrough
<1>. HIDE DEF ended
<1>8. /\ Turns(out, SetFlags(ended, tcp, {"INSYSCALL"}), tcp, TRUE, c)
      /\ Turns(out, SetFlags(o, tcp, {"INSYSCALL"}), tcp, TRUE, c)
  BY <1>2, <1>5, <1>7, TurnsFlags
<1>9. CASE Goes("dump") /\ out' = o
  <2>1. pc' = "dump"
    BY <1>9 DEF Goes
  <2>2. Turns(out, out', tcp, FALSE, c)
    BY <1>5, <1>9
  <2>3. Turns(out, out', tcp, pc' = "restart", c)
    BY <2>1, <2>2 DEF Turns
  <2>. QED  BY <1>1, <1>9, <2>1, <2>3, TurningStep
<1>10. CASE Goes("restart") /\ out' \in {SetFlags(ended, tcp, {"INSYSCALL"}),
                                          SetFlags(o, tcp, {"INSYSCALL"})}
  <2>1. pc' = "restart"
    BY <1>10 DEF Goes
  <2>2. Turns(out, out', tcp, TRUE, c)
    BY <1>8, <1>10
  <2>3. Turns(out, out', tcp, pc' = "restart", c)
    BY <2>1, <2>2 DEF Turns
  <2>. QED  BY <1>1, <1>10, <2>1, <2>3, TurningStep
<1>. QED  BY <1>1, <1>9, <1>10

LEMMA DumpStep ==
  ASSUME TracerInv, Dump
  PROVE  TableMoves /\ PlaceOK' /\ Turns(out, out', tcp, TRUE, Tcb.call)
<1>. DEFINE o == SetFlags(out, tcp, {"INSYSCALL"})
<1>1. PICK f, x : out' = [o EXCEPT !.dump[f] = x]
  BY DEF Dump
<1>2. tcp \in DOMAIN out.tcbtab
  BY DEF TracerInv, PlaceOK, Dump, pid2tcb
<1>3. Turns(out, o, tcp, TRUE, Tcb.call) /\ IsOutput(o)
  BY <1>2, FlagsTurn DEF TracerInv, Turns, Places, Tcb
<1>. HIDE DEF o
<1>4. Keeps(o, out')
  BY <1>1, <1>3, StackKeeps
<1>5. Turns(out, out', tcp, TRUE, Tcb.call)
  BY <1>2, <1>3, <1>4, TurnsThrough
<1>. QED  BY <1>5, TurningStep DEF Dump

LEMMA DumpAbortsStep ==
  ASSUME TracerInv, DumpAborts
  PROVE  TableMoves /\ PlaceOK'
<1>1. Keeps(out, out')
  BY KeepsItself DEF TracerInv, DumpAborts
<1>. QED  BY <1>1, KeepsPlaces, KeepingStep DEF DumpAborts

LEMMA ExitUnreadableStep ==
  ASSUME TracerInv, ExitUnreadable
  PROVE  TableMoves /\ PlaceOK' /\ Turns(out, out', tcp, FALSE, Tcb.call)
<1>. DEFINE o == Started(out)
            resumed == Resumed(opt.ff, o, tcp)
            ended == line_ended(Ends(resumed, tcp, "unavailable"))
<1>1. out' = ClearFlags(ended, tcp, {"INSYSCALL"}) /\ pc = "handle" /\ Goes("wait")
  BY DEF ExitUnreadable, Left, Exiting, Handling
<1>2. Keeps(out, o) /\ IsOutput(o)
  BY StartedKeeps DEF TracerInv
<1>. HIDE DEF o
<1>3. Keeps(o, resumed) /\ IsOutput(resumed)
  BY <1>2, ResumedKeeps, KeepsPlaces
<1>. HIDE DEF resumed
<1>4. Keeps(resumed, ended)
  BY <1>3, LineOutKeeps
<1>. HIDE DEF ended
<1>5. Keeps(out, ended)
  BY <1>2, <1>3, <1>4, KeepsThrough
<1>6. tcp \in DOMAIN out.tcbtab
  BY <1>1, HandledKnown
<1>7. Turns(out, out', tcp, FALSE, Tcb.call)
  BY <1>1, <1>5, <1>6, KeepsIsTurn, TurnsFlags DEF Tcb
<1>. QED  BY <1>1, <1>7, TurningStep

LEMMA LeaveStep ==
  ASSUME TracerInv, Leave
  PROVE  TableMoves /\ PlaceOK' /\ Turns(out, out', tcp, FALSE, Tcb.call)
<1>. DEFINE o == Started(out)
            resumed == Resumed(opt.ff, o, tcp)
            ended == line_ended(Ends(resumed, tcp, "result"))
<1>1. /\ out' \in {ClearFlags(o, tcp, {"INSYSCALL"}), ClearFlags(ended, tcp, {"INSYSCALL"})}
      /\ pc = "handle" /\ Goes("restart")
  BY DEF Leave, Left, Exiting, Handling
<1>2. Keeps(out, o) /\ IsOutput(o)
  BY StartedKeeps DEF TracerInv
<1>. HIDE DEF o
<1>3. Keeps(o, resumed) /\ IsOutput(resumed)
  BY <1>2, ResumedKeeps, KeepsPlaces
<1>. HIDE DEF resumed
<1>4. Keeps(resumed, ended)
  BY <1>3, LineOutKeeps
<1>. HIDE DEF ended
<1>5. Keeps(out, ended)
  BY <1>2, <1>3, <1>4, KeepsThrough
<1>6. tcp \in DOMAIN out.tcbtab
  BY <1>1, HandledKnown
<1>7. /\ Turns(out, ClearFlags(o, tcp, {"INSYSCALL"}), tcp, FALSE, Tcb.call)
      /\ Turns(out, ClearFlags(ended, tcp, {"INSYSCALL"}), tcp, FALSE, Tcb.call)
  BY <1>2, <1>5, <1>6, KeepsIsTurn, TurnsFlags DEF Tcb
<1>8. Turns(out, out', tcp, FALSE, Tcb.call)
  BY <1>1, <1>7
<1>. QED  BY <1>1, <1>8, TurningStep

-----------------------------------------------------------------------------
(* ptrace_restart, cleanup and detach                                      *)

LEMMA RestartStep ==
  ASSUME TracerInv, RestartTracee
  PROVE  TableMoves /\ PlaceOK' /\ Keeps(out, out')
<1>1. out' \in {out, line_ended(Ends(out, out.current, "no such process"))}
  BY DEF RestartTracee, Failed
<1>2. Keeps(out, out')
  BY <1>1, KeepsItself, LineOutKeeps DEF TracerInv
<1>3. TableMoves
  BY <1>2, KeepsPlaces DEF TableMoves
<1>4. PlaceOK'
  BY DEF TracerInv, PlaceOK, TcpOK, RestartTracee, PCs, NoStatus
<1>. QED  BY <1>2, <1>3, <1>4

LEMMA CleanupStep ==
  ASSUME TracerInv, Cleanup
  PROVE  TableMoves /\ PlaceOK'
<1>1. TableMoves
  BY StutterStep DEF Cleanup
<1>2. PICK n \in Nat : n >= FirstSize /\ IsBlocks(out.tcbtab, n)
  BY DEF TracerInv, IsOutput
<1>3. DOMAIN out.tcbtab = 1..n /\ Len(out.tcbtab) = n
  BY <1>2, BlocksAreSeq
<1>4. tcp \in 1..n
  <2>1. tcp # 0 /\ TcpOK /\ tcp <= n
    BY <1>3 DEF TracerInv, PlaceOK, Cleanup
  <2>2. \A a \in Nat : a # 0 /\ a <= n => a \in 1..n
    OBVIOUS
  <2>. QED  BY <1>3, <2>1, <2>2 DEF TcpOK
<1>5. tcp + 1 \in Nat /\ tcp + 1 # 0 /\ (tcp + 1) - 1 = tcp
  BY <1>4
<1>6. InUse(out, tcp) => Tcb.pid # 0
  BY <1>3, <1>4, BlockOf DEF TracerInv, InUse, IsTcb, Tcb
<1>7. PlaceOK'
  BY <1>3, <1>4, <1>5, <1>6 DEF TracerInv, PlaceOK, TcpOK, Cleanup, PCs, Tcb
<1>. QED  BY <1>1, <1>7

LEMMA DetachEndsStep ==
  ASSUME TracerInv, pc \in {"detach", "detach_wait"}, DetachEnds(out)
  PROVE  TableMoves /\ PlaceOK' /\ Drops(out, out', tcp)
<1>. DEFINE dropped == droptcb(opt.ff, out, tcp)
<1>1. out' \in {dropped, [dropped EXCEPT !.current = tcp]}
  BY DEF DetachEnds
<1>2. tcp \in DOMAIN out.tcbtab /\ out.tcbtab[tcp].pid # 0
  BY DEF TracerInv, PlaceOK, Tcb
<1>3. Drops(out, dropped, tcp)
  BY <1>2, DroptcbDrops DEF TracerInv
<1>. HIDE DEF dropped
<1>4. Keeps(dropped, out')
  <2>1. IsOutput(dropped)
    BY <1>3 DEF Drops
  <2>2. Keeps(dropped, dropped) /\ Keeps(dropped, [dropped EXCEPT !.current = tcp])
    BY <2>1, KeepsItself, PrintingKeeps
  <2>. QED  BY <1>1, <2>2
<1>5. Drops(out, out', tcp)
  BY <1>3, <1>4 DEF Drops, Keeps, Places, SameCall
<1>6. TableMoves
  BY <1>2, <1>5 DEF TableMoves
<1>7. tcp \in DOMAIN out'.tcbtab /\ out'.tcbtab[tcp].pid = 0
  BY <1>2, <1>5 DEF Drops
<1>8. tcp \in Nat
  <2>1. PICK n \in Nat : n >= FirstSize /\ IsBlocks(out.tcbtab, n)
    BY DEF TracerInv, IsOutput
  <2>2. DOMAIN out.tcbtab = 1..n
    BY <2>1 DEF IsBlocks
  <2>. QED  BY <1>2, <2>2
<1>9. tcp + 1 \in Nat /\ tcp + 1 # 0 /\ (tcp + 1) - 1 = tcp
  BY <1>8
<1>10. PlaceOK'
  BY <1>7, <1>9 DEF TracerInv, PlaceOK, TcpOK, DetachEnds, PCs, Tcb
<1>. QED  BY <1>5, <1>6, <1>10

LEMMA DetachStep ==
  ASSUME TracerInv, Detach
  PROVE  TableMoves /\ PlaceOK'
<1>1. pc \in {"detach", "detach_wait"}
  BY DEF Detach, DetachStopped, DetachRunning, DetachGone, DetachWait, DetachNoChild
<1>2. CASE DetachEnds(out)
  BY <1>1, <1>2, DetachEndsStep
<1>3. CASE /\ UNCHANGED <<opt, out, tcp, status>>
           /\ pc' \in {"detach_wait", pc}
  <2>1. tcp \in DOMAIN out.tcbtab /\ Tcb.pid # 0
    BY <1>1 DEF TracerInv, PlaceOK
  <2>2. Tcb' = Tcb
    BY <1>3 DEF Tcb
  <2>3. PlaceOK'
    BY <1>1, <1>3, <2>1, <2>2 DEF TracerInv, PlaceOK, TcpOK, PCs
  <2>. QED  BY <1>3, <2>3, StutterStep
<1>4. DetachEnds(out) \/ /\ UNCHANGED <<opt, out, tcp, status>>
                         /\ pc' \in {"detach_wait", pc}
  BY DEF Detach, DetachStopped, DetachRunning, DetachGone, DetachWait, DetachNoChild
<1>. QED  BY <1>2, <1>3, <1>4

-----------------------------------------------------------------------------
LEMMA InitTracer == Init => Table!TableInit /\ TracerInv
<1>. SUFFICES ASSUME Init PROVE Table!TableInit /\ TracerInv
  OBVIOUS
<1>1. IsOutput(out)
  <2>1. PICK t : t = out
    OBVIOUS
  <2>2. t = EmptyOutput
    BY <2>1 DEF Init
  <2>3. Fields(t) /\ t.tcbtab = [i \in 1..FirstSize |-> FreeTcb]
    BY <2>2 DEF EmptyOutput, Fields
  <2>4. IsBlocks(t.tcbtab, FirstSize)
    BY <2>3, FreeIsTcb DEF IsBlocks
  <2>5. FirstSize \in Nat /\ FirstSize >= FirstSize
    BY FirstSizeAssumption
  <2>. QED  BY <2>1, <2>3, <2>4, <2>5 DEF IsOutput
<1>2. out.tcbtab = [i \in 1..FirstSize |-> FreeTcb] /\ out.nprocs = 0
  BY DEF Init, EmptyOutput
<1>3. tcbPids = [i \in 1..FirstSize |-> 0]
  BY <1>2, FreeIsTcb DEF tcbPids
<1>4. Table!TableInit
  BY <1>2, <1>3 DEF Table!TableInit
<1>5. TableInv
  BY <1>4, InvInit
<1>6. OnlyTraced
  <2>1. \A i \in DOMAIN out.tcbtab : ~InUse(out, i)
    BY <1>2 DEF InUse, FreeTcb
  <2>2. DOMAIN task = Pids /\ \A p \in Pids : task[p] \in {Running, FreeTask}
    BY DEF Init
  <2>3. IsTask(FreeTask)
    BY DEF IsTask, FreeTask
  <2>4. IsTask(Running)
    <3>1. PICK a, t :
            /\ a = FreeTask
            /\ t = [a EXCEPT !.state = "run", !.leader = 1, !.launch = opt.child]
      OBVIOUS
    <3>2. IsTask(a)
      BY <2>3, <3>1
    <3>3. IsTask(t)
      BY <3>1, <3>2 DEF IsTask
    <3>. QED  BY <3>1, <3>3 DEF Running
  <2>. QED  BY <2>1, <2>2, <2>3, <2>4 DEF OnlyTraced
<1>7. PlaceOK
  BY <1>6 DEF PlaceOK, TcpOK, Init, NoStatus, PCs
<1>. QED  BY <1>1, <1>4, <1>5, <1>7 DEF TracerInv

LEMMA TracerStep ==
  ASSUME TracerInv, [Next]_tracerVars
  PROVE  TableMoves /\ PlaceOK'
<1>1. CASE UNCHANGED straceVars /\ (pc # "startup" \/ UNCHANGED task)
  <2>1. PlaceOK'
    BY <1>1 DEF TracerInv, PlaceOK, TcpOK, straceVars, OnlyTraced, Tcb
  <2>2. UNCHANGED out
    BY <1>1 DEF straceVars
  <2>. QED  BY <2>1, <2>2, StutterStep
<1>2. CASE StraceStep
  <2>1. CASE \E p \in Pids : Startup(p)
    BY <2>1, StartupStep
  <2>2. CASE StartupEnds \/ LoopEnds \/ WaitFindsNone \/ CleanupEnds
    BY <2>2, LoopStep
  <2>3. CASE \E p \in Pids : Wait(p)
    BY <2>3, WaitStep
  <2>4. CASE Handle
    BY <2>4, HandleEndStep, HandleEventStep, HandleExecveStep, HandleSignalStep,
       HandleInterruptedStep, EnterUnreadableStep, EnterSilentlyStep, EnterStep, DumpStep,
       DumpAbortsStep, ExitUnreadableStep, LeaveStep DEF Handle
  <2>5. CASE RestartTracee
    BY <2>5, RestartStep
  <2>6. CASE Cleanup
    BY <2>6, CleanupStep
  <2>7. CASE Detach
    BY <2>7, DetachStep
  <2>. QED  BY <1>2, <2>1, <2>2, <2>3, <2>4, <2>5, <2>6, <2>7 DEF StraceStep
<1>3. CASE Interrupt
  BY <1>3, LoopStep
<1>4. CASE Threads
  BY <1>1, <1>4 DEF Threads
<1>5. CASE UNCHANGED tracerVars
  BY <1>1, <1>5 DEF tracerVars, kernelVars, straceVars
<1>. QED  BY <1>2, <1>3, <1>4, <1>5 DEF Next

LEMMA TracerInductive ==
  TracerInv /\ [Next]_tracerVars => TracerInv' /\ [Table!TableNext]_(Table!tableVars)
<1>. SUFFICES ASSUME TracerInv, [Next]_tracerVars
              PROVE  TracerInv' /\ [Table!TableNext]_(Table!tableVars)
  OBVIOUS
<1>1. TableMoves /\ PlaceOK'
  BY TracerStep
<1>2. IsOutput(out') /\ [Table!TableNext]_(Table!tableVars)
  BY <1>1, MovesAreTableSteps DEF TracerInv
<1>3. TableInv'
  BY <1>2, InvNext DEF TracerInv
<1>. QED  BY <1>1, <1>2, <1>3 DEF TracerInv

LEMMA TracerInvariant == Spec => []TracerInv
  BY InitTracer, TracerInductive, PTL DEF Spec

-----------------------------------------------------------------------------
\* The tracer implements the table: whatever strace is doing, its steps add a
\* block, drop one, switch two, or leave the table alone (strace.c:711-781,
\* 2124-2171).
THEOREM RefinesTable == Spec => ImplementsTable
<1>1. Init => Table!TableInit
  BY InitTracer
<1>2. TracerInv /\ [Next]_tracerVars => [Table!TableNext]_(Table!tableVars)
  BY TracerInductive
<1>3. Spec => Table!TableSpec
  BY <1>1, <1>2, TracerInvariant, PTL DEF Spec, Table!TableSpec
<1>. QED  BY <1>3 DEF ImplementsTable

\* The tracer keeps its type: tcp is a block of the table, 0, or, for cleanup,
\* the one after the last.
THEOREM TracerTypeCorrect == Spec => []TracerTypeOK
<1>1. TracerInv => TracerTypeOK
  <2>. SUFFICES ASSUME TracerInv PROVE TracerTypeOK
    OBVIOUS
  <2>1. PICK n \in Nat : n >= FirstSize /\ IsBlocks(out.tcbtab, n)
    BY DEF TracerInv, IsOutput
  <2>2. DOMAIN out.tcbtab = 1..n /\ Len(out.tcbtab) = n
    BY <2>1, BlocksAreSeq
  <2>3. out.nprocs = Cardinality({i \in DOMAIN out.tcbtab : InUse(out, i)})
    BY PidsOfBlocks, CountIs DEF TracerInv, TableInv
  <2>4. tcp \in 0..(n + 1)
    BY <2>2 DEF TracerInv, PlaceOK, TcpOK
  <2>. QED  BY <2>2, <2>3, <2>4 DEF TracerInv, PlaceOK, PCs, TracerTypeOK
<1>. QED  BY <1>1, TracerInvariant, PTL

\* nprocs counts the blocks in use, so trace() stops exactly when strace has
\* dropped every thread (strace.c:1984, 711-781).
THEOREM ThreadsCounted == Spec => []Table!CountExact
  BY TracerInvariant, PTL DEF TracerInv, TableInv

\* No pid has two blocks, whatever order of clone, exit and execve.
THEOREM OneBlockPerPid == Spec => []Table!PidsDistinct
  BY TracerInvariant, PTL DEF TracerInv, TableInv

\* alloctcb finds a free block, after growing the table when it is full: "bug
\* in alloctcb" is unreachable (strace.c:741-744).
THEOREM AllocAlwaysFinds == Spec => []Table!AllocFinds
<1>1. TableInv => Table!AllocFinds
  BY RoomyHasRoom, FirstFreeExists DEF Table!AllocFinds
<1>. QED  BY <1>1, TracerInvariant, PTL DEF TracerInv

\* While trace() handles a report, tcp is the one block of the pid that wait4
\* has returned, also when an interrupt comes in between (strace.c:2087-2103).
TcpOfStatus == pc = "handle" => pid2tcb(out, status.pid) = {tcp}

THEOREM RightBlockHandled == Spec => []TcpOfStatus
<1>1. TracerInv => TcpOfStatus
  <2>1. SUFFICES ASSUME TracerInv, pc = "handle", NEW i \in pid2tcb(out, status.pid)
                 PROVE  tcp \in pid2tcb(out, status.pid) /\ i = tcp
    BY DEF TcpOfStatus, TracerInv, PlaceOK
  <2>2. tcp \in pid2tcb(out, status.pid)
    BY <2>1 DEF TracerInv, PlaceOK
  <2>3. /\ i \in Table!Used /\ tcp \in Table!Used /\ tcbPids[i] = tcbPids[tcp]
    BY <2>1, <2>2, PidsOfBlocks DEF TracerInv, pid2tcb
  <2>. QED  BY <2>1, <2>2, <2>3 DEF TracerInv, TableInv, Table!PidsDistinct
<1>. QED  BY <1>1, TracerInvariant, PTL

-----------------------------------------------------------------------------
(* A thread and its block: which call the thread is in, and what the block *)
(* says of it, from the stop of the thread until strace restarts it        *)

Says(s, p, c) ==
    \E i \in pid2tcb(s, p) : "INSYSCALL" \in s.tcbtab[i].flags /\ s.tcbtab[i].call = c

Silent(s, p) == \A i \in pid2tcb(s, p) : "INSYSCALL" \notin s.tcbtab[i].flags

\* strace exits, and what threads do is of no interest any more.
Leaving ==
    \/ pc \in {"cleanup", "done", "aborted"}
    \/ pc \in {"detach", "detach_wait"} /\ detaching = "cleanup"

\* strace has the report of p; it is going to restart p; it is detaching from p.
Handled(p) == pc \in {"handle", "dump"} /\ status.pid = p
AtHand(p) ==
    \/ Handled(p) /\ (status.report \notin Ended \/ pc = "dump")
    \/ pc = "restart" /\ Tcb.pid = p
Going(p) == pc \in {"detach", "detach_wait"} /\ Tcb.pid = p
Elsewhere(p) == ~Handled(p) /\ ~AtHand(p) /\ ~Going(p)

\* The report of p that strace has still to act on.
Due(p) ==
    IF task[p].report # Nothing THEN task[p].report
    ELSE IF pc = "handle" /\ status.pid = p THEN status.report
    ELSE IF pc = "dump" /\ status.pid = p THEN "syscall" ELSE Nothing

\* Not so while an execve has overtaken the stop at hand, nor after that.
Followed(p) ==
    /\ task[p].traced /\ Alive(p) /\ ~task[p].unseen /\ ~Going(p)
    /\ ~(AtHand(p) /\ task[p].report # Nothing)

\* The block says that p is in its call from the entry to the exit, as strace has
\* seen them.  Before it sees an execve of a thread that is not the leader,
\* the block of that thread says so.
SyncOK(p) == Followed(p) =>
    IF Due(p) = "execve" /\ task[p].oldpid # p
    THEN task[p].incall /\ Says(out, task[p].oldpid, task[p].call)
    ELSE IF Due(p) = "syscall" <=> ~task[p].incall THEN Says(out, p, task[p].call)
    ELSE Silent(out, p)

KnownOK(p) == Followed(p) /\ task[p].report = Nothing => pid2tcb(out, p) # {}

\* A thread whose stop is at hand stays there, but for an execve of another one.
Held(p) ==
    /\ task[p].state \in {"stop", "dead", "gone"}
    /\ Stopped(p) => /\ task[p].traced
                     /\ \/ task[p].report = Nothing
                        \/ task[p].report = "execve" /\ task[p].oldpid # p

HandOK(p) ==
    /\ AtHand(p) \/ Handled(p) => Held(p)
    /\ Handled(p) /\ ~AtHand(p) /\ Stopped(p) => task[p].report # Nothing
    /\ pc = "dump" /\ status.pid = p /\ Followed(p) =>
          Tcb.call = task[p].call /\ task[p].incall

StateOK(p) ==
    /\ IsTask(task[p])
    /\ task[p].state \in {"free", "run", "stop", "dead", "gone"}
    /\ task[p].pending \subseteq {"sigstop", "fatal"}
    /\ task[p].state \in {"free", "run"} => task[p].report = Nothing
    /\ task[p].report \in Ended => task[p].state \in {"dead", "gone"}
    /\ task[p].state = "free" => ~task[p].traced /\ pid2tcb(out, p) = {}
    /\ task[p].state = "run" /\ task[p].traced /\ ~Going(p) => task[p].syscalls

\* The leader of a thread is one.
LeaderOK(p) == task[p].state # "free" =>
    LET l == task[p].leader IN
    l \in Pids /\ task[l].leader = l /\ task[l].state # "free"

\* An execve has ended thread q, and its leader goes on.
Replaced(q, l) ==
    task[q].state = "gone" /\ ~task[q].traced /\ task[q].leader = l /\ ~Handled(q)

ByExecve(old, l) == Leader(l) /\ old \in Pids /\ (old # l => Replaced(old, l))

ExecveOK(p) ==
    /\ task[p].report = "execve" => ByExecve(task[p].oldpid, p)
    /\ pc = "handle" /\ status.pid = p /\ status.report = "execve" =>
          /\ ByExecve(status.oldpid, p)
          /\ Stopped(p) /\ task[p].report = Nothing => task[p].oldpid = status.oldpid
    /\ Going(p) => Leader(p)

\* Threads make no calls while strace starts.
StartOK(p) == pc = "startup" => ~task[p].incall /\ task[p].report \in {Nothing, "start"}

ThreadOK(p) ==
    /\ SyncOK(p) /\ KnownOK(p) /\ HandOK(p) /\ StateOK(p) /\ LeaderOK(p)
    /\ ExecveOK(p) /\ StartOK(p)

AllOK == DOMAIN task = Pids /\ \A p \in Pids : ThreadOK(p)

SyncInv == Leaving \/ AllOK

-----------------------------------------------------------------------------
(* A block that is left alone says the same                                *)

\* From s to t the block of p, if it has one, is in the same call.
SameFor(s, t, p) ==
    /\ pid2tcb(t, p) = pid2tcb(s, p)
    /\ \A i \in pid2tcb(s, p) : SameCall(s.tcbtab[i], t.tcbtab[i])

LEMMA SameSays ==
  ASSUME NEW s, NEW t, NEW p, SameFor(s, t, p)
  PROVE  /\ \A c : Says(t, p, c) <=> Says(s, p, c)
         /\ Silent(t, p) <=> Silent(s, p)
  BY DEF SameFor, SameCall, Says, Silent

LEMMA KeepsSame ==
  ASSUME NEW s, NEW t, IsOutput(s), Keeps(s, t), NEW p, p # 0
  PROVE  SameFor(s, t, p)
<1>1. pid2tcb(s, p) = {i \in DOMAIN s.tcbtab : s.tcbtab[i].pid = p}
  BY BlocksOfPid
<1>2. IsOutput(t) /\ DOMAIN t.tcbtab = DOMAIN s.tcbtab
  BY KeepsPlaces
<1>3. pid2tcb(t, p) = {i \in DOMAIN t.tcbtab : t.tcbtab[i].pid = p}
  BY <1>2, BlocksOfPid
<1>. QED  BY <1>1, <1>2, <1>3 DEF SameFor, Keeps, Places

LEMMA TurnsSame ==
  ASSUME NEW s, NEW t, IsOutput(s), NEW i, NEW in, NEW c, Turns(s, t, i, in, c),
         NEW p, p # 0, s.tcbtab[i].pid # p
  PROVE  SameFor(s, t, p)
<1>1. pid2tcb(s, p) = {k \in DOMAIN s.tcbtab : s.tcbtab[k].pid = p}
  BY BlocksOfPid
<1>2. IsOutput(t)
  BY TurnsPlaces
<1>3. pid2tcb(t, p) = {k \in DOMAIN t.tcbtab : t.tcbtab[k].pid = p}
  BY <1>2, BlocksOfPid
<1>. QED  BY <1>1, <1>3 DEF SameFor, Turns, Places

LEMMA DropsSame ==
  ASSUME NEW s, NEW t, IsOutput(s), NEW i, Drops(s, t, i), NEW p, p # 0,
         s.tcbtab[i].pid # p
  PROVE  SameFor(s, t, p)
<1>1. pid2tcb(s, p) = {k \in DOMAIN s.tcbtab : s.tcbtab[k].pid = p}
  BY BlocksOfPid
<1>2. IsOutput(t)
  BY DEF Drops
<1>3. pid2tcb(t, p) = {k \in DOMAIN t.tcbtab : t.tcbtab[k].pid = p}
  BY <1>2, BlocksOfPid
<1>. QED  BY <1>1, <1>3 DEF SameFor, Drops

LEMMA SwitchesSame ==
  ASSUME NEW s, NEW t, IsOutput(s), NEW i \in DOMAIN s.tcbtab, NEW j \in DOMAIN s.tcbtab,
         Switches(s, t, j, i), NEW p, p # 0,
         s.tcbtab[i].pid # p, s.tcbtab[j].pid # p
  PROVE  SameFor(s, t, p)
<1>1. pid2tcb(s, p) = {k \in DOMAIN s.tcbtab : s.tcbtab[k].pid = p}
  BY BlocksOfPid
<1>2. IsOutput(t)
  BY DEF Switches
<1>3. pid2tcb(t, p) = {k \in DOMAIN t.tcbtab : t.tcbtab[k].pid = p}
  BY <1>2, BlocksOfPid
<1>. QED  BY <1>1, <1>3 DEF SameFor, Switches

\* A new block is silent, and leaves the others alone.
LEMMA AttachesSame ==
  ASSUME IsOutput(out), TableInv, NEW p \in Pids, Attaches(p)
  PROVE  /\ pid2tcb(out', p) # {} /\ Silent(out', p)
         /\ \A q \in Pids \ {p} : SameFor(out, out', q)
<1>1. PICK f \in DOMAIN out'.tcbtab :
          /\ out'.tcbtab[f].pid = p /\ "INSYSCALL" \notin out'.tcbtab[f].flags
          /\ f \in DOMAIN out.tcbtab => out.tcbtab[f].pid = 0
          /\ \A k \in DOMAIN out'.tcbtab \ {f} :
                IF k \in DOMAIN out.tcbtab THEN out'.tcbtab[k] = out.tcbtab[k]
                ELSE out'.tcbtab[k].pid = 0
  BY AttachesIsAlloc
<1>2. IsOutput(out') /\ DOMAIN out.tcbtab \subseteq DOMAIN out'.tcbtab
  BY AttachesIsAlloc
<1>3. \A q \in Pids : /\ q # 0
                      /\ pid2tcb(out, q) = {k \in DOMAIN out.tcbtab : out.tcbtab[k].pid = q}
                      /\ pid2tcb(out', q) = {k \in DOMAIN out'.tcbtab : out'.tcbtab[k].pid = q}
  BY <1>2, BlocksOfPid, PidsAssumption
<1>4. pid2tcb(out, p) = {}
  BY DEF Attaches
<1>5. pid2tcb(out', p) = {f}
  BY <1>1, <1>3, <1>4
<1>6. Silent(out', p)
  BY <1>1, <1>5 DEF Silent
<1>7. ASSUME NEW q \in Pids \ {p} PROVE SameFor(out, out', q)
  <2>1. \A k \in pid2tcb(out, q) : out'.tcbtab[k] = out.tcbtab[k] /\ k \in pid2tcb(out', q)
    BY <1>1, <1>2, <1>3
  <2>2. \A k \in pid2tcb(out', q) : k \in pid2tcb(out, q)
    BY <1>1, <1>3
  <2>. QED  BY <2>1, <2>2 DEF SameFor, SameCall
<1>. QED  BY <1>5, <1>6, <1>7

\* There is one block for a pid.
LEMMA TheBlock ==
  ASSUME TracerInv, NEW p, NEW i \in pid2tcb(out, p), NEW j \in pid2tcb(out, p)
  PROVE  i = j
<1>1. i \in Table!Used /\ j \in Table!Used /\ tcbPids[i] = tcbPids[j]
  BY PidsOfBlocks DEF TracerInv, pid2tcb
<1>. QED  BY <1>1 DEF TracerInv, TableInv, Table!PidsDistinct

-----------------------------------------------------------------------------
(* Threads that a step of strace is not about                              *)

\* Thread p is the only one the step is about.
OnlyAbout(p) ==
    /\ DOMAIN task' = Pids /\ (pc' = "startup" => pc = "startup")
    /\ \A q \in Pids \ {p} :
        /\ task'[q] = task[q] /\ Elsewhere(q) /\ Elsewhere(q)'
        /\ SameFor(out, out', q) \/ (task[q].state = "gone" /\ task[q].leader = p)
    /\ p \in Pids =>
        /\ task[p].state # "free" /\ task'[p].state # "free"
        /\ task'[p].leader = task[p].leader
        \* no execve that is not handled has replaced p, or p is left alone too
        /\ \/ \A l \in Pids \ {p} : task[l].report = "execve" => task[l].oldpid # p
           \/ task'[p] = task[p] /\ SameFor(out, out', p) /\ ~Handled(p)'

LEMMA Bystander ==
  ASSUME AllOK, NEW p, OnlyAbout(p), NEW q \in Pids \ {p}
  PROVE  ThreadOK(q)'
<1>1. /\ task'[q] = task[q] /\ Elsewhere(q) /\ Elsewhere(q)' /\ ThreadOK(q)
      /\ SameFor(out, out', q) \/ (task[q].state = "gone" /\ task[q].leader = p)
  BY DEF OnlyAbout, AllOK
<1>2. \A l \in Pids : task[l].state # "free" =>
          task'[l].state # "free" /\ task'[l].leader = task[l].leader
  BY DEF OnlyAbout
<1>3. SyncOK(q)'
  <2>1. SUFFICES ASSUME Followed(q)' PROVE SyncOK(q)'
    BY DEF SyncOK
  <2>2. Followed(q) /\ SameFor(out, out', q)
    BY <1>1, <2>1 DEF Followed, Elsewhere, Alive
  <2>3. Due(q) = task[q].report /\ Due(q)' = task[q].report
    BY <1>1 DEF Due, Elsewhere, Handled
  <2>4. SyncOK(q)
    BY <1>1 DEF ThreadOK
  <2>5. CASE task[q].report = "execve" /\ task[q].oldpid # q
    <3>1. PICK old : old = task[q].oldpid
      OBVIOUS
    <3>2. old \in Pids /\ task[old].leader = q
      BY <1>1, <2>5, <3>1 DEF ThreadOK, ExecveOK, ByExecve, Replaced
    <3>3. old # p \/ SameFor(out, out', p)
      BY <1>1, <2>5, <3>1, <3>2 DEF OnlyAbout
    <3>4. SameFor(out, out', old)
      BY <3>2, <3>3 DEF OnlyAbout
    <3>5. task[q].incall /\ Says(out, old, task[q].call)
      BY <2>2, <2>3, <2>4, <2>5, <3>1 DEF SyncOK
    <3>6. task'[q].incall /\ Says(out', task'[q].oldpid, task'[q].call)
      BY <1>1, <3>1, <3>4, <3>5, SameSays
    <3>. QED  BY <1>1, <2>3, <2>5, <3>6 DEF SyncOK
  <2>6. CASE ~(task[q].report = "execve" /\ task[q].oldpid # q)
    <3>1. IF task[q].report = "syscall" <=> ~task[q].incall
          THEN Says(out, q, task[q].call) ELSE Silent(out, q)
      BY <2>2, <2>3, <2>4, <2>6 DEF SyncOK
    <3>2. IF task[q].report = "syscall" <=> ~task[q].incall
          THEN Says(out', q, task[q].call) ELSE Silent(out', q)
      BY <2>2, <3>1, SameSays
    <3>. QED  BY <1>1, <2>3, <2>6, <3>2 DEF SyncOK
  <2>. QED  BY <2>5, <2>6
<1>4. KnownOK(q)'
  BY <1>1 DEF ThreadOK, KnownOK, Followed, Elsewhere, Alive, SameFor
<1>5. HandOK(q)'
  BY <1>1 DEF HandOK, Elsewhere, Handled
<1>6. StateOK(q)'
  BY <1>1 DEF ThreadOK, StateOK, Elsewhere, SameFor
<1>7. LeaderOK(q)'
  BY <1>1, <1>2 DEF ThreadOK, LeaderOK
<1>8. ExecveOK(q)'
  <2>1. task[q].report = "execve" => ByExecve(task[q].oldpid, q)
    BY <1>1 DEF ThreadOK, ExecveOK
  <2>2. ASSUME task[q].report = "execve" PROVE ByExecve(task[q].oldpid, q)'
    <3>1. PICK old : old = task[q].oldpid
      OBVIOUS
    <3>2. Leader(q) /\ old \in Pids /\ (old # q => Replaced(old, q))
      BY <2>1, <2>2, <3>1 DEF ByExecve
    <3>3. task'[old] = task[old] /\ ~Handled(old)'
      <4>1. CASE old # p
        BY <3>2, <4>1 DEF OnlyAbout, Elsewhere
      <4>2. CASE old = p
        BY <2>2, <3>1, <3>2, <4>2 DEF OnlyAbout
      <4>. QED  BY <4>1, <4>2
    <3>. QED  BY <1>1, <3>1, <3>2, <3>3 DEF ByExecve, Replaced, Leader
  <2>. QED  BY <1>1, <2>2 DEF ExecveOK, Elsewhere, Handled
<1>9. StartOK(q)'
  BY <1>1 DEF ThreadOK, StartOK, OnlyAbout
<1>. QED  BY <1>3, <1>4, <1>5, <1>6, <1>7, <1>8, <1>9 DEF ThreadOK

LEMMA AboutOne ==
  ASSUME AllOK, NEW p \in Pids, OnlyAbout(p), ThreadOK(p)'
  PROVE  AllOK'
  BY Bystander DEF AllOK, OnlyAbout

-----------------------------------------------------------------------------
(* The steps that handle a report                                          *)

LEMMA HandledTcb ==
  ASSUME TracerInv, pc \in {"handle", "dump"}
  PROVE  /\ status.pid \in Pids /\ status.pid # 0
         /\ tcp \in DOMAIN out.tcbtab /\ Tcb.pid = status.pid
         /\ pid2tcb(out, status.pid) = {tcp}
<1>1. tcp \in pid2tcb(out, status.pid)
  BY DEF TracerInv, PlaceOK
<1>2. tcp \in DOMAIN out.tcbtab /\ Tcb.pid = status.pid /\ InUse(out, tcp)
  BY <1>1 DEF pid2tcb, Tcb
<1>3. Tcb.pid # 0
  BY <1>2, BlockOf DEF TracerInv, IsTcb, InUse, Tcb
<1>4. status.pid \in Pids
  BY <1>2, <1>3 DEF TracerInv, PlaceOK
<1>. QED  BY <1>1, <1>2, <1>3, <1>4, TheBlock

LEMMA HandledStep ==
  ASSUME TracerInv, AllOK, pc \in {"handle", "dump"}, UNCHANGED <<task, status>>,
         pc' \in {"wait", "dump", "restart", "detach"},
         pc' \in {"restart", "detach"} => Tcb'.pid = status.pid,
         pc' = "detach" => Leader(status.pid),
         \A q \in Pids \ {status.pid} :
            \/ SameFor(out, out', q)
            \/ task[q].state = "gone" /\ task[q].leader = status.pid,
         SyncOK(status.pid)', KnownOK(status.pid)',
         pc' = "dump" /\ Followed(status.pid)' =>
            Tcb'.call = task[status.pid].call /\ task[status.pid].incall
  PROVE  AllOK'
<1>1. PICK p : p = status.pid
  OBVIOUS
<1>2. p \in Pids /\ ThreadOK(p) /\ Handled(p) /\ Held(p)
  BY <1>1, HandledTcb DEF AllOK, ThreadOK, HandOK, Handled
<1>3. task' = task /\ status'.pid = p /\ DOMAIN task = Pids
  BY <1>1 DEF AllOK
<1>4. OnlyAbout(p)
  <2>1. \A q \in Pids \ {p} : Elsewhere(q) /\ Elsewhere(q)'
    BY <1>1, <1>3 DEF Elsewhere, Handled, AtHand, Going
  <2>2. task[p].state # "free"
    BY <1>2 DEF Held
  <2>3. ASSUME NEW l \in Pids \ {p}, task[l].report = "execve"
        PROVE  task[l].oldpid # p
    BY <1>2, <2>3 DEF AllOK, ThreadOK, ExecveOK, ByExecve, Replaced
  <2>. QED  BY <1>1, <1>3, <2>1, <2>2, <2>3 DEF OnlyAbout
<1>5. HandOK(p)'
  <2>1. Held(p)'
    BY <1>2, <1>3 DEF Held, Stopped
  <2>2. Handled(p)' => AtHand(p)'
    BY DEF Handled, AtHand
  <2>. QED  BY <1>1, <1>3, <2>1, <2>2 DEF HandOK
<1>6. StateOK(p)'
  BY <1>2, <1>3 DEF ThreadOK, StateOK, Held
<1>7. LeaderOK(p)'
  BY <1>2, <1>3 DEF ThreadOK, LeaderOK
<1>8. ExecveOK(p)'
  <2>1. task[p].report = "execve" => ByExecve(task[p].oldpid, p)
    BY <1>2 DEF ThreadOK, ExecveOK
  <2>2. ASSUME NEW old, ByExecve(old, p) PROVE ByExecve(old, p)'
    BY <1>2, <1>3, <2>2 DEF ByExecve, Replaced, Leader, Handled
  <2>3. Going(p)' => Leader(p)'
    BY <1>1, <1>3 DEF Going, Leader
  <2>4. PICK old : old = task[p].oldpid
    OBVIOUS
  <2>5. task[p].report = "execve" => ByExecve(old, p)'
    BY <2>1, <2>2, <2>4
  <2>. QED  BY <1>3, <2>3, <2>4, <2>5 DEF ExecveOK, ByExecve, Replaced, Leader
<1>9. StartOK(p)'
  BY DEF StartOK
<1>10. ThreadOK(p)'
  BY <1>1, <1>5, <1>6, <1>7, <1>8, <1>9 DEF ThreadOK
<1>. QED  BY <1>2, <1>4, <1>10, AboutOne

\* The facts about the thread whose report is handled.
LEMMA AllOthers ==
  ASSUME TracerInv, pc \in {"handle", "dump"},
         \/ Keeps(out, out') \/ Drops(out, out', tcp)
         \/ \E in, c : Turns(out, out', tcp, in, c)
  PROVE  \A q \in Pids \ {status.pid} : SameFor(out, out', q)
<1>1. IsOutput(out) /\ out.tcbtab[tcp].pid = status.pid
  BY HandledTcb DEF TracerInv, Tcb
<1>2. \A q \in Pids : q # 0
  BY PidsAssumption
<1>. QED  BY <1>1, <1>2, KeepsSame, DropsSame, TurnsSame

LEMMA SameKnown ==
  ASSUME TracerInv, pc \in {"handle", "dump"}, Places(out, out')
  PROVE  /\ pid2tcb(out', status.pid) = {tcp}
         /\ tcp' = tcp => Tcb'.pid = status.pid
<1>1. /\ status.pid # 0 /\ tcp \in DOMAIN out.tcbtab
      /\ pid2tcb(out, status.pid) = {tcp} /\ IsOutput(out) /\ IsOutput(out')
      /\ Tcb.pid = status.pid
  BY HandledTcb DEF TracerInv, Places
<1>2. pid2tcb(out, status.pid) = {i \in DOMAIN out.tcbtab : out.tcbtab[i].pid = status.pid}
  BY <1>1, BlocksOfPid
<1>3. pid2tcb(out', status.pid) =
         {i \in DOMAIN out'.tcbtab : out'.tcbtab[i].pid = status.pid}
  BY <1>1, BlocksOfPid
<1>4. pid2tcb(out', status.pid) = {tcp}
  BY <1>1, <1>2, <1>3 DEF Places
<1>5. Tcb' = out'.tcbtab[tcp']
  BY DEF Tcb
<1>. QED  BY <1>1, <1>4, <1>5 DEF Places, Tcb

LEMMA KeepsSays ==
  ASSUME TracerInv, Keeps(out, out'), NEW p \in Pids
  PROVE  /\ \A c : Says(out', p, c) <=> Says(out, p, c)
         /\ Silent(out', p) <=> Silent(out, p)
  BY KeepsSame, SameSays, PidsAssumption DEF TracerInv

LEMMA HandleEndSync ==
  ASSUME TracerInv, AllOK, HandleEnd
  PROVE  AllOK'
<1>1. /\ pc = "handle" /\ pc' = "wait" /\ UNCHANGED <<tcp, status, task>>
      /\ status.report \in Ended
  BY DEF HandleEnd, Handling, Goes, kernelVars
<1>2. PICK p : p = status.pid
  OBVIOUS
<1>3. \A q \in Pids \ {p} : SameFor(out, out', q)
  BY <1>1, <1>2, HandleEndStep, AllOthers
<1>4. ThreadOK(p) /\ p \in Pids
  BY <1>1, <1>2, HandledTcb DEF AllOK
\* If p is not dead it has gone on as the execve of another thread.
<1>5. ASSUME Followed(p)'
      PROVE  /\ Followed(p) /\ task[p].report = "execve" /\ task[p].oldpid # p
  <2>1. Handled(p) /\ ~AtHand(p) /\ Held(p) /\ Stopped(p) /\ task[p].report # Nothing
    BY <1>1, <1>2, <1>4, <1>5 DEF ThreadOK, HandOK, Handled, AtHand, Followed, Alive, Held,
       Stopped
  <2>. QED  BY <1>1, <1>5, <2>1 DEF Held, Followed, Going, Alive
<1>6. SyncOK(p)'
  <2>. SUFFICES ASSUME Followed(p)' PROVE SyncOK(p)'
    BY DEF SyncOK
  <2>1. Followed(p) /\ task[p].report = "execve" /\ task[p].oldpid # p
    BY <1>5
  <2>2. PICK old : old = task[p].oldpid
    OBVIOUS
  <2>3. task[p].incall /\ Says(out, old, task[p].call)
    BY <1>4, <2>1, <2>2 DEF ThreadOK, SyncOK, Due, Nothing
  <2>4. old \in Pids \ {p}
    BY <1>4, <2>1, <2>2 DEF ThreadOK, ExecveOK, ByExecve
  <2>5. Says(out', old, task[p].call)
    BY <1>3, <2>3, <2>4, SameSays
  <2>6. Due(p)' = "execve"
    BY <1>1, <2>1 DEF Due, Nothing
  <2>. QED  BY <1>1, <2>1, <2>2, <2>3, <2>5, <2>6 DEF SyncOK
<1>7. KnownOK(p)'
  BY <1>1, <1>5 DEF KnownOK, Nothing
<1>. QED  BY <1>1, <1>2, <1>3, <1>6, <1>7, HandledStep

\* What a step leaves that goes on with the thread, of which it keeps the call.
LEMMA GoesOnSync ==
  ASSUME TracerInv, AllOK, pc = "handle", Goes("restart"), Keeps(out, out'),
         status.report \notin Ended \cup {"syscall", "execve"}
  PROVE  AllOK'
<1>1. pc' = "restart" /\ UNCHANGED <<tcp, status, task>>
  BY DEF Goes, kernelVars
<1>2. PICK p : p = status.pid
  OBVIOUS
<1>3. /\ \A q \in Pids \ {p} : SameFor(out, out', q)
      /\ pid2tcb(out', p) = {tcp} /\ Tcb'.pid = p
  BY <1>1, <1>2, AllOthers, SameKnown, KeepsPlaces
<1>4. ThreadOK(p) /\ p \in Pids /\ AtHand(p) /\ AtHand(p)'
  BY <1>1, <1>2, <1>3, HandledTcb DEF AllOK, Handled, AtHand
<1>5. SyncOK(p)'
  <2>. SUFFICES ASSUME Followed(p)' PROVE SyncOK(p)'
    BY DEF SyncOK
  <2>1. Followed(p) /\ task[p].report = Nothing
    BY <1>1, <1>4 DEF Followed, Going, Alive
  <2>2. Due(p) = status.report /\ Due(p)' = Nothing
    BY <1>1, <1>2, <2>1 DEF Due
  <2>3. IF ~task[p].incall THEN Silent(out, p) ELSE Says(out, p, task[p].call)
    BY <1>4, <2>1, <2>2 DEF ThreadOK, SyncOK
  <2>4. IF ~task[p].incall THEN Silent(out', p) ELSE Says(out', p, task[p].call)
    BY <1>4, <2>3, KeepsSays
  <2>. QED  BY <1>1, <2>2, <2>4 DEF SyncOK, Nothing
<1>6. KnownOK(p)'
  BY <1>1, <1>3 DEF KnownOK
<1>. QED  BY <1>1, <1>2, <1>3, <1>5, <1>6, HandledStep

\* The thread has ended: there is no more to be said of it.
LEMMA UnreadableSync ==
  ASSUME TracerInv, AllOK, pc = "handle", ~Readable, Goes("wait"),
         NEW in, NEW c, Turns(out, out', tcp, in, c)
  PROVE  AllOK'
<1>1. pc' = "wait" /\ UNCHANGED <<tcp, status, task>>
  BY DEF Goes, kernelVars
<1>2. PICK p : p = status.pid
  OBVIOUS
<1>3. \A q \in Pids \ {p} : SameFor(out, out', q)
  BY <1>1, <1>2, AllOthers
<1>4. ThreadOK(p) /\ Handled(p) /\ ~Stopped(p)
  BY <1>1, <1>2, HandledTcb DEF AllOK, Handled, Readable
<1>5. ~Followed(p)'
  BY <1>1, <1>4 DEF ThreadOK, HandOK, Held, Followed, Alive, Stopped
<1>6. SyncOK(p)' /\ KnownOK(p)'
  BY <1>5 DEF SyncOK, KnownOK
<1>. QED  BY <1>1, <1>2, <1>3, <1>6, HandledStep

\* At a stop for a system call that nothing has overtaken, the block is right.
LEMMA SyscallStop ==
  ASSUME TracerInv, AllOK, pc = "handle", status.report = "syscall", Followed(status.pid)
  PROVE  /\ task[status.pid].report = Nothing
         /\ "INSYSCALL" \in Tcb.flags <=> ~task[status.pid].incall
         /\ ~task[status.pid].incall => Tcb.call = task[status.pid].call
<1>1. PICK p : p = status.pid
  OBVIOUS
<1>2. /\ p \in Pids /\ pid2tcb(out, p) = {tcp} /\ ThreadOK(p)
  BY <1>1, HandledTcb DEF AllOK
<1>3. task[p].report = Nothing
  BY <1>1 DEF Followed, AtHand, Handled, Ended
<1>4. Due(p) = "syscall"
  BY <1>1, <1>3 DEF Due
<1>5. IF ~task[p].incall THEN Says(out, p, task[p].call) ELSE Silent(out, p)
  BY <1>1, <1>2, <1>4 DEF ThreadOK, SyncOK
<1>. QED  BY <1>1, <1>2, <1>3, <1>5 DEF Says, Silent, Tcb

\* The call begins, or its bytes are read: the block says so.
LEMMA BegunSync ==
  ASSUME TracerInv, AllOK, pc \in {"handle", "dump"}, Goes("restart"),
         Turns(out, out', tcp, TRUE, task[status.pid].call),
         Followed(status.pid) =>
            task[status.pid].incall /\ task[status.pid].report = Nothing,
         pc = "dump" \/ status.report \notin Ended
  PROVE  AllOK'
<1>1. pc' = "restart" /\ UNCHANGED <<tcp, status, task>>
  BY DEF Goes, kernelVars
<1>2. PICK p : p = status.pid
  OBVIOUS
<1>3. /\ \A q \in Pids \ {p} : SameFor(out, out', q)
      /\ pid2tcb(out', p) = {tcp} /\ Tcb'.pid = p
  BY <1>1, <1>2, AllOthers, SameKnown, TurnsPlaces
<1>4. p \in Pids /\ AtHand(p) /\ AtHand(p)'
  BY <1>1, <1>2, <1>3, HandledTcb DEF Handled, AtHand
<1>5. SyncOK(p)'
  <2>. SUFFICES ASSUME Followed(p)' PROVE SyncOK(p)'
    BY DEF SyncOK
  <2>1. Followed(p)
    BY <1>1, <1>4 DEF Followed, Going, Alive
  <2>2. Due(p)' = Nothing
    BY <1>1, <1>2, <2>1 DEF Due
  <2>3. Says(out', p, task[p].call)
    BY <1>2, <1>3 DEF Says, Turns
  <2>. QED  BY <1>1, <1>2, <2>1, <2>2, <2>3 DEF SyncOK, Nothing
<1>6. KnownOK(p)'
  BY <1>3 DEF KnownOK
<1>. QED  BY <1>1, <1>2, <1>3, <1>5, <1>6, HandledStep

\* The bytes of a write are still to be read.
LEMMA BeginsToDumpSync ==
  ASSUME TracerInv, AllOK, pc = "handle", status.report = "syscall", Goes("dump"),
         "INSYSCALL" \notin Tcb.flags,
         Turns(out, out', tcp, FALSE, task[status.pid].call)
  PROVE  AllOK'
<1>1. pc' = "dump" /\ UNCHANGED <<tcp, status, task>>
  BY DEF Goes, kernelVars
<1>2. PICK p : p = status.pid
  OBVIOUS
<1>3. /\ \A q \in Pids \ {p} : SameFor(out, out', q)
      /\ pid2tcb(out', p) = {tcp}
  BY <1>1, <1>2, AllOthers, SameKnown, TurnsPlaces
<1>4. p \in Pids /\ AtHand(p) /\ AtHand(p)'
  BY <1>1, <1>2, <1>3, HandledTcb DEF Handled, AtHand, Ended
<1>5. ASSUME Followed(p)' PROVE task[p].incall /\ task[p].report = Nothing
  <2>1. Followed(p)
    BY <1>1, <1>4, <1>5 DEF Followed, Going, Alive
  <2>. QED  BY <1>2, <2>1, SyscallStop
<1>6. SyncOK(p)'
  <2>. SUFFICES ASSUME Followed(p)' PROVE SyncOK(p)'
    BY DEF SyncOK
  <2>1. Due(p)' = "syscall"
    BY <1>1, <1>2, <1>5 DEF Due
  <2>2. Silent(out', p)
    BY <1>2, <1>3 DEF Silent, Turns
  <2>. QED  BY <1>1, <1>5, <2>1, <2>2 DEF SyncOK
<1>7. KnownOK(p)'
  BY <1>3 DEF KnownOK
<1>8. Tcb'.call = task[p].call
  BY <1>1, <1>2 DEF Turns, Tcb
<1>. QED  BY <1>1, <1>2, <1>3, <1>5, <1>6, <1>7, <1>8, HandledStep

LEMMA EnterSync ==
  ASSUME TracerInv, AllOK, EnterSilently \/ Enter
  PROVE  AllOK'
<1>1. /\ pc = "handle" /\ status.report = "syscall" /\ "INSYSCALL" \notin Tcb.flags
  BY DEF EnterSilently, Enter, Entering, Handling
<1>2. /\ pc' \in {"dump", "restart"} /\ Goes(pc')
      /\ Turns(out, out', tcp, pc' = "restart", task[status.pid].call)
  <2>1. CASE Enter
    <3>1. Goes(pc')
      BY <2>1 DEF Enter, Goes
    <3>. QED  BY <2>1, <3>1, EnterStep
  <2>2. CASE EnterSilently
    <3>1. Goes("restart") /\ pc' = "restart"
      BY <2>2 DEF EnterSilently, Goes
    <3>2. Turns(out, out', tcp, TRUE, task[status.pid].call)
      BY <2>2, EnterSilentlyStep
    <3>3. Turns(out, out', tcp, pc' = "restart", task[status.pid].call)
      BY <3>1, <3>2 DEF Turns
    <3>. QED  BY <3>1, <3>3
  <2>. QED  BY <2>1, <2>2
<1>3. Followed(status.pid) => task[status.pid].incall /\ task[status.pid].report = Nothing
  BY <1>1, SyscallStop
<1>4. CASE pc' = "restart"
  <2>1. Turns(out, out', tcp, TRUE, task[status.pid].call) /\ Goes("restart")
    BY <1>2, <1>4 DEF Turns
  <2>. QED  BY <1>1, <1>3, <2>1, BegunSync DEF Ended
<1>5. CASE pc' = "dump"
  <2>1. Turns(out, out', tcp, FALSE, task[status.pid].call) /\ Goes("dump")
    BY <1>2, <1>5 DEF Turns
  <2>. QED  BY <1>1, <2>1, BeginsToDumpSync
<1>. QED  BY <1>2, <1>4, <1>5

LEMMA DumpSync ==
  ASSUME TracerInv, AllOK, Dump
  PROVE  AllOK'
<1>1. pc = "dump" /\ Goes("restart") /\ Stopped(status.pid)
  BY DEF Dump, Readable
<1>2. PICK p : p = status.pid
  OBVIOUS
<1>3. ThreadOK(p) /\ p \in Pids /\ AtHand(p)
  BY <1>1, <1>2, HandledTcb DEF AllOK, AtHand, Handled
<1>4. CASE Followed(p)
  <2>1. Tcb.call = task[p].call /\ task[p].incall /\ task[p].report = Nothing
    BY <1>1, <1>2, <1>3, <1>4 DEF ThreadOK, HandOK, Followed
  <2>2. Turns(out, out', tcp, TRUE, task[p].call)
    BY <2>1, DumpStep
  <2>. QED  BY <1>1, <1>2, <2>1, <2>2, BegunSync
<1>5. CASE ~Followed(p)
  <2>1. pc' = "restart" /\ UNCHANGED <<tcp, status, task>>
    BY <1>1 DEF Goes, kernelVars
  <2>2. Turns(out, out', tcp, TRUE, Tcb.call)
    BY DumpStep
  <2>3. /\ \A q \in Pids \ {p} : SameFor(out, out', q)
        /\ pid2tcb(out', p) = {tcp} /\ Tcb'.pid = p
    BY <1>1, <1>2, <2>1, <2>2, AllOthers, SameKnown, TurnsPlaces
  <2>4. ~Followed(p)'
    BY <1>1, <1>3, <1>5, <2>1, <2>3 DEF Followed, Going, Alive, AtHand
  <2>5. SyncOK(p)' /\ KnownOK(p)'
    BY <2>4 DEF SyncOK, KnownOK
  <2>. QED  BY <1>1, <1>2, <2>1, <2>3, <2>5, HandledStep
<1>. QED  BY <1>4, <1>5

\* The call ends: the block says so.
LEMMA LeaveSync ==
  ASSUME TracerInv, AllOK, Leave
  PROVE  AllOK'
<1>1. /\ pc = "handle" /\ status.report = "syscall" /\ "INSYSCALL" \in Tcb.flags
      /\ pc' = "restart" /\ UNCHANGED <<tcp, status, task>>
  BY DEF Leave, Exiting, Handling, Goes, kernelVars
<1>2. PICK p : p = status.pid
  OBVIOUS
<1>3. Turns(out, out', tcp, FALSE, Tcb.call)
  BY LeaveStep
<1>4. /\ \A q \in Pids \ {p} : SameFor(out, out', q)
      /\ pid2tcb(out', p) = {tcp} /\ Tcb'.pid = p
  BY <1>1, <1>2, <1>3, AllOthers, SameKnown, TurnsPlaces
<1>5. p \in Pids /\ AtHand(p) /\ AtHand(p)'
  BY <1>1, <1>2, <1>4, HandledTcb DEF Handled, AtHand, Ended
<1>6. SyncOK(p)'
  <2>. SUFFICES ASSUME Followed(p)' PROVE SyncOK(p)'
    BY DEF SyncOK
  <2>1. Followed(p)
    BY <1>1, <1>5 DEF Followed, Going, Alive
  <2>2. ~task[p].incall /\ task[p].report = Nothing
    BY <1>1, <1>2, <2>1, SyscallStop
  <2>3. Due(p)' = Nothing
    BY <1>1, <1>2, <2>2 DEF Due
  <2>4. Silent(out', p)
    BY <1>3, <1>4 DEF Silent, Turns
  <2>. QED  BY <1>1, <2>2, <2>3, <2>4 DEF SyncOK, Nothing
<1>7. KnownOK(p)'
  BY <1>4 DEF KnownOK
<1>. QED  BY <1>1, <1>2, <1>4, <1>6, <1>7, HandledStep

\* The block of the thread that called execve is the leader's from now on.
LEMMA SwitchSays ==
  ASSUME TracerInv, pc = "handle", status.oldpid # status.pid,
         NEW i \in pid2tcb(out, status.oldpid), i # tcp, Switches(out, out', tcp, i)
  PROVE  /\ \A c : Says(out, status.oldpid, c) => Says(out', status.pid, c)
         /\ \A q \in Pids \ {status.pid, status.oldpid} : SameFor(out, out', q)
<1>1. /\ IsOutput(out) /\ IsOutput(out') /\ tcp \in DOMAIN out.tcbtab
      /\ out.tcbtab[tcp].pid = status.pid /\ status.pid # 0
  BY HandledTcb DEF TracerInv, Switches, Tcb
<1>2. i \in DOMAIN out.tcbtab /\ out.tcbtab[i].pid = status.oldpid
  BY DEF pid2tcb
<1>3. i \in pid2tcb(out', status.pid) /\ SameCall(out.tcbtab[i], out'.tcbtab[i])
  <2>1. i \in DOMAIN out'.tcbtab /\ out'.tcbtab[i].pid = status.pid
    BY <1>1, <1>2 DEF Switches
  <2>2. pid2tcb(out', status.pid) =
           {k \in DOMAIN out'.tcbtab : out'.tcbtab[k].pid = status.pid}
    BY <1>1, BlocksOfPid
  <2>3. SameCall(out.tcbtab[i], out'.tcbtab[i])
    BY <1>2 DEF Switches
  <2>. QED  BY <2>1, <2>2, <2>3
<1>4. ASSUME NEW c, Says(out, status.oldpid, c) PROVE Says(out', status.pid, c)
  <2>1. PICK j \in pid2tcb(out, status.oldpid) :
            "INSYSCALL" \in out.tcbtab[j].flags /\ out.tcbtab[j].call = c
    BY <1>4 DEF Says
  <2>2. j = i
    BY <2>1, TheBlock
  <2>. QED  BY <1>3, <2>1, <2>2 DEF Says, SameCall
<1>5. ASSUME NEW q \in Pids \ {status.pid, status.oldpid} PROVE SameFor(out, out', q)
  <2>1. q # 0 /\ out.tcbtab[i].pid # q /\ out.tcbtab[tcp].pid # q
    BY <1>1, <1>2, PidsAssumption
  <2>. QED  BY <1>1, <1>2, <2>1, SwitchesSame
<1>. QED  BY <1>4, <1>5

LEMMA HandleExecveSync ==
  ASSUME TracerInv, AllOK, HandleExecve
  PROVE  AllOK'
<1>1. /\ pc = "handle" /\ status.report = "execve" /\ pc' \in {"restart", "detach"}
      /\ UNCHANGED <<status, task>>
  BY DEF HandleExecve, Handling, kernelVars
<1>2. PICK p, old : p = status.pid /\ old = status.oldpid
  OBVIOUS
<1>3. p \in Pids /\ ThreadOK(p) /\ AtHand(p) /\ ByExecve(old, p)
  BY <1>1, <1>2, HandledTcb DEF AllOK, AtHand, Handled, Ended, ThreadOK, ExecveOK
<1>4. /\ tcp' \in pid2tcb(out', p)
      /\ IF old # p /\ pid2tcb(out, old) # {}
         THEN \E i \in pid2tcb(out, old) : i # tcp /\ Switches(out, out', tcp, i)
         ELSE Keeps(out, out')
  BY <1>2, HandleExecveStep
<1>5. Tcb'.pid = p
  BY <1>4 DEF pid2tcb, Tcb
<1>6. old # p => task[old].state = "gone" /\ task[old].leader = p
  BY <1>3 DEF ByExecve, Replaced
<1>7. ASSUME NEW q \in Pids \ {p}
      PROVE  SameFor(out, out', q) \/ (task[q].state = "gone" /\ task[q].leader = p)
  <2>1. CASE Keeps(out, out')
    BY <1>1, <1>2, <2>1, AllOthers
  <2>2. CASE old # p /\ \E i \in pid2tcb(out, old) : i # tcp /\ Switches(out, out', tcp, i)
    BY <1>1, <1>2, <1>6, <2>2, SwitchSays
  <2>. QED  BY <1>4, <2>1, <2>2
<1>8. SyncOK(p)'
  <2>. SUFFICES ASSUME Followed(p)' PROVE SyncOK(p)'
    BY DEF SyncOK
  <2>1. pc' = "restart" /\ AtHand(p)'
    BY <1>1, <1>5 DEF Followed, Going, AtHand
  <2>2. Followed(p) /\ task[p].report = Nothing
    BY <1>1, <1>3, <2>1 DEF Followed, Going, Alive
  <2>3. Due(p) = "execve" /\ Due(p)' = Nothing
    BY <1>1, <1>2, <2>1, <2>2 DEF Due
  <2>4. Stopped(p) /\ task[p].oldpid = old
    <3>1. Stopped(p)
      BY <1>3, <2>2 DEF ThreadOK, HandOK, Held, Followed, Alive, Stopped
    <3>. QED  BY <1>1, <1>2, <1>3, <2>2, <3>1 DEF ThreadOK, ExecveOK
  <2>5. CASE old # p
    <3>1. task[p].incall /\ Says(out, old, task[p].call)
      BY <1>3, <2>2, <2>3, <2>4, <2>5 DEF ThreadOK, SyncOK
    <3>2. pid2tcb(out, old) # {}
      BY <3>1 DEF Says
    <3>3. Says(out', p, task[p].call)
      BY <1>1, <1>2, <1>4, <2>5, <3>1, <3>2, SwitchSays
    <3>. QED  BY <1>1, <2>3, <3>1, <3>3 DEF SyncOK, Nothing
  <2>6. CASE old = p
    <3>1. IF ~task[p].incall THEN Silent(out, p) ELSE Says(out, p, task[p].call)
      BY <1>3, <2>2, <2>3, <2>4, <2>6 DEF ThreadOK, SyncOK
    <3>2. IF ~task[p].incall THEN Silent(out', p) ELSE Says(out', p, task[p].call)
      BY <1>3, <1>4, <2>6, <3>1, KeepsSays
    <3>. QED  BY <1>1, <2>3, <3>2 DEF SyncOK, Nothing
  <2>. QED  BY <2>5, <2>6
<1>9. KnownOK(p)'
  BY <1>4 DEF KnownOK
<1>10. Leader(p)
  BY <1>3 DEF ByExecve
<1>. QED  BY <1>1, <1>2, <1>5, <1>7, <1>8, <1>9, <1>10, HandledStep

\* All steps that handle a report and do not end the trace.
LEMMA HandleSync ==
  ASSUME TracerInv, AllOK, Handle, ~Leaving'
  PROVE  AllOK'
<1>1. CASE HandleEnd
  BY <1>1, HandleEndSync
<1>2. CASE HandleEvent \/ HandleSignal
  <2>1. /\ pc = "handle"
        /\ status.report \notin Ended \cup {"syscall", "execve"}
    BY <1>2 DEF HandleEvent, HandleSignal, Handling, Ended
  <2>2. Goes("restart")
    BY <1>2 DEF HandleEvent, HandleSignal
  <2>. QED  BY <1>2, <2>1, <2>2, HandleEventStep, HandleSignalStep, GoesOnSync
<1>3. CASE HandleExecve
  BY <1>3, HandleExecveSync
<1>4. CASE HandleInterrupted \/ DumpAborts
  BY <1>4 DEF Leaving, HandleInterrupted, DumpAborts, Goes
<1>5. CASE EnterUnreadable \/ ExitUnreadable
  <2>1. pc = "handle" /\ ~Readable /\ Goes("wait")
    BY <1>5 DEF EnterUnreadable, ExitUnreadable, Entering, Exiting, Handling
  <2>2. \E in, c : Turns(out, out', tcp, in, c)
    BY <1>5, EnterUnreadableStep, ExitUnreadableStep
  <2>. QED  BY <2>1, <2>2, UnreadableSync
<1>6. CASE EnterSilently \/ Enter
  BY <1>6, EnterSync
<1>7. CASE Dump
  BY <1>7, DumpSync
<1>8. CASE Leave
  BY <1>8, LeaveSync
<1>. QED  BY <1>1, <1>2, <1>3, <1>4, <1>5, <1>6, <1>7, <1>8 DEF Handle

-----------------------------------------------------------------------------
(* wait4, and the restart                                                  *)

LEMMA WaitSync ==
  ASSUME TracerInv, AllOK, NEW p \in Pids, Wait(p)
  PROVE  AllOK'
<1>1. /\ pc = "wait" /\ pc' = "handle" /\ status'.pid = p
      /\ status'.report = task[p].report /\ status'.oldpid = task[p].oldpid
      /\ task[p].traced /\ task[p].report # Nothing /\ task' = Reaped(p)
      /\ tcp' \in pid2tcb(out', p)
  BY DEF Wait, Waitable
<1>2. DOMAIN task = Pids /\ ThreadOK(p) /\ IsTask(task[p])
  BY DEF AllOK, ThreadOK, StateOK
<1>3. PICK u : u = [task[p] EXCEPT !.report = Nothing,
                                   !.state = IF task[p].state = "dead" THEN "gone"
                                             ELSE task[p].state]
  OBVIOUS
<1>4. DOMAIN task' = Pids /\ task'[p] = u /\ \A q \in Pids \ {p} : task'[q] = task[q]
  BY <1>1, <1>2, <1>3 DEF Reaped
<1>5. /\ IsTask(u) /\ u.report = Nothing
      /\ u.state = IF task[p].state = "dead" THEN "gone" ELSE task[p].state
      /\ u.leader = task[p].leader /\ u.traced = task[p].traced /\ u.call = task[p].call
      /\ u.incall = task[p].incall /\ u.unseen = task[p].unseen
      /\ u.oldpid = task[p].oldpid /\ u.pending = task[p].pending
  BY <1>2, <1>3 DEF IsTask
<1>6. task[p].state \in {"stop", "dead", "gone"}
  BY <1>1, <1>2 DEF ThreadOK, StateOK
<1>7. /\ \A q \in Pids \ {p} : SameFor(out, out', q)
      /\ out' = out \/ (pid2tcb(out, p) = {} /\ Silent(out', p))
  <2>1. CASE pid2tcb(out, p) # {}
    <3>1. out' = out
      BY <2>1 DEF Wait
    <3>. QED  BY <3>1 DEF SameFor, SameCall
  <2>2. CASE pid2tcb(out, p) = {}
    <3>1. Attaches(p)
      BY <2>2 DEF Attaches, Wait, PostAttach
    <3>. QED  BY <2>2, <3>1, AttachesSame DEF TracerInv
  <2>. QED  BY <2>1, <2>2
<1>8. \A l \in Pids : task[l].report = "execve" => task[l].oldpid # p \/ l = p
  BY <1>1 DEF AllOK, ThreadOK, ExecveOK, ByExecve, Replaced
<1>9. OnlyAbout(p)
  <2>1. \A q \in Pids \ {p} : Elsewhere(q) /\ Elsewhere(q)'
    BY <1>1 DEF Elsewhere, Handled, AtHand, Going
  <2>. QED  BY <1>1, <1>4, <1>5, <1>6, <1>7, <1>8, <2>1 DEF OnlyAbout
<1>10. ASSUME Followed(p)' PROVE Followed(p) /\ Due(p) = task[p].report /\ Due(p)' = Due(p)
  BY <1>1, <1>4, <1>5, <1>6, <1>10 DEF Followed, Going, AtHand, Handled, Alive, Due
<1>11. SyncOK(p)'
  <2>. SUFFICES ASSUME Followed(p)' PROVE SyncOK(p)'
    BY DEF SyncOK
  <2>1. CASE Due(p) = "execve" /\ task[p].oldpid # p
    <3>1. PICK old : old = task[p].oldpid
      OBVIOUS
    <3>2. old \in Pids \ {p}
      BY <1>2, <1>10, <2>1, <3>1 DEF ThreadOK, ExecveOK, ByExecve
    <3>3. task[p].incall /\ Says(out, old, task[p].call)
      BY <1>2, <1>10, <2>1, <3>1 DEF ThreadOK, SyncOK
    <3>4. Says(out', old, task[p].call)
      BY <1>7, <3>2, <3>3, SameSays
    <3>. QED  BY <1>4, <1>5, <1>10, <2>1, <3>1, <3>3, <3>4 DEF SyncOK
  <2>2. CASE ~(Due(p) = "execve" /\ task[p].oldpid # p)
    <3>1. IF Due(p) = "syscall" <=> ~task[p].incall THEN Says(out, p, task[p].call)
          ELSE Silent(out, p)
      BY <1>2, <1>10, <2>2 DEF ThreadOK, SyncOK
    <3>2. IF Due(p) = "syscall" <=> ~task[p].incall THEN Says(out', p, task[p].call)
          ELSE Silent(out', p)
      BY <1>7, <3>1 DEF Says
    <3>. QED  BY <1>4, <1>5, <1>10, <2>2, <3>2 DEF SyncOK
  <2>. QED  BY <2>1, <2>2
<1>12. KnownOK(p)'
  BY <1>1 DEF KnownOK
<1>13. HandOK(p)'
  <2>1. Held(p)'
    BY <1>1, <1>4, <1>5, <1>6 DEF Held, Stopped
  <2>2. task[p].report \in Ended => ~Stopped(p)'
    BY <1>2, <1>4, <1>5 DEF ThreadOK, StateOK, Stopped
  <2>. QED  BY <1>1, <2>1, <2>2 DEF HandOK, AtHand, Handled
<1>14. StateOK(p)'
  BY <1>2, <1>4, <1>5, <1>6 DEF ThreadOK, StateOK, Nothing, Ended
<1>15. LeaderOK(p)'
  BY <1>2, <1>4, <1>5, <1>6 DEF ThreadOK, LeaderOK
<1>16. ExecveOK(p)'
  <2>1. PICK old : old = task[p].oldpid
    OBVIOUS
  <2>2. task[p].report = "execve" => ByExecve(old, p)
    BY <1>2, <2>1 DEF ThreadOK, ExecveOK
  <2>3. ASSUME task[p].report = "execve" PROVE ByExecve(old, p)'
    BY <1>1, <1>4, <1>5, <2>2, <2>3 DEF ByExecve, Replaced, Leader, Handled
  <2>4. task'[p].report # "execve" /\ ~Going(p)'
    BY <1>1, <1>4, <1>5 DEF Going, Nothing
  <2>5. status'.report = "execve" => ByExecve(status.oldpid, p)'
    BY <1>1, <2>1, <2>3 DEF ByExecve, Replaced, Leader
  <2>. QED  BY <1>1, <1>4, <1>5, <2>4, <2>5 DEF ExecveOK
<1>17. StartOK(p)'
  BY <1>1 DEF StartOK
<1>18. ThreadOK(p)'
  BY <1>11, <1>12, <1>13, <1>14, <1>15, <1>16, <1>17 DEF ThreadOK
<1>. QED  BY <1>9, <1>18, AboutOne

\* The thread at hand goes on, or it has ended.
LEMMA RestartedSync ==
  ASSUME TracerInv, AllOK, RestartTracee, Tcb.pid # 0, Stopped(Tcb.pid), task[Tcb.pid].traced
  PROVE  AllOK'
<1>1. PICK p : p = Tcb.pid
  OBVIOUS
<1>2. /\ pc = "restart" /\ pc' = "wait" /\ task' = Restarted(p, TRUE) /\ out' = out
  BY <1>1 DEF RestartTracee
<1>3. p \in Pids /\ AtHand(p)
  <2>1. tcp \in DOMAIN out.tcbtab
    BY <1>2 DEF TracerInv, PlaceOK
  <2>. QED  BY <1>1, <1>2, <2>1, BlockOf DEF TracerInv, IsTcb, Tcb, AtHand
<1>4. DOMAIN task = Pids /\ ThreadOK(p) /\ IsTask(task[p]) /\ Stopped(p) /\ task[p].traced
  BY <1>1, <1>3 DEF AllOK, ThreadOK, StateOK
<1>5. PICK u : u = [task[p] EXCEPT !.state = "run", !.syscalls = TRUE, !.report = Nothing,
                                   !.unseen = task[p].unseen \/ task[p].report = "execve"]
  OBVIOUS
<1>6. DOMAIN task' = Pids /\ task'[p] = u /\ \A q \in Pids \ {p} : task'[q] = task[q]
  BY <1>2, <1>3, <1>4, <1>5 DEF Restarted
<1>7. /\ IsTask(u) /\ u.report = Nothing /\ u.state = "run" /\ u.syscalls = TRUE
      /\ u.leader = task[p].leader /\ u.traced = task[p].traced /\ u.call = task[p].call
      /\ u.incall = task[p].incall /\ u.pending = task[p].pending
      /\ u.unseen = (task[p].unseen \/ task[p].report = "execve")
      /\ task[p].report \in {Nothing, "execve"}
  BY <1>3, <1>4, <1>5 DEF IsTask, ThreadOK, HandOK, Held
<1>8. \A q : SameFor(out, out', q)
  BY <1>2 DEF SameFor, SameCall
<1>9. OnlyAbout(p)
  <2>1. \A q \in Pids \ {p} : Elsewhere(q) /\ Elsewhere(q)'
    BY <1>1, <1>2 DEF Elsewhere, Handled, AtHand, Going
  <2>2. \A l \in Pids \ {p} : task[l].report = "execve" => task[l].oldpid # p
    BY <1>4 DEF AllOK, ThreadOK, ExecveOK, ByExecve, Replaced
  <2>. QED  BY <1>2, <1>4, <1>6, <1>7, <1>8, <2>1, <2>2 DEF OnlyAbout, Stopped
<1>10. ASSUME Followed(p)'
       PROVE  Followed(p) /\ task[p].report = Nothing /\ Due(p) = Nothing /\ Due(p)' = Nothing
  BY <1>2, <1>4, <1>6, <1>7, <1>10 DEF Followed, Going, AtHand, Handled, Alive, Stopped, Due
<1>11. SyncOK(p)'
  <2>. SUFFICES ASSUME Followed(p)' PROVE SyncOK(p)'
    BY DEF SyncOK
  <2>1. IF ~task[p].incall THEN Silent(out, p) ELSE Says(out, p, task[p].call)
    BY <1>4, <1>10 DEF ThreadOK, SyncOK, Nothing
  <2>. QED  BY <1>2, <1>6, <1>7, <1>10, <2>1 DEF SyncOK, Nothing
<1>12. KnownOK(p)'
  BY <1>2, <1>4, <1>10 DEF ThreadOK, KnownOK
<1>13. HandOK(p)'
  BY <1>2 DEF HandOK, AtHand, Handled
<1>14. StateOK(p)'
  BY <1>2, <1>4, <1>6, <1>7 DEF ThreadOK, StateOK, Nothing, Ended
<1>15. LeaderOK(p)'
  BY <1>4, <1>6, <1>7, <1>9 DEF ThreadOK, LeaderOK, OnlyAbout, Stopped
<1>16. ExecveOK(p)'
  BY <1>2, <1>6, <1>7 DEF ExecveOK, Going, Nothing
<1>17. StartOK(p)'
  BY <1>2 DEF StartOK
<1>18. ThreadOK(p)'
  BY <1>11, <1>12, <1>13, <1>14, <1>15, <1>16, <1>17 DEF ThreadOK
<1>. QED  BY <1>3, <1>9, <1>18, AboutOne

LEMMA NotRestartedSync ==
  ASSUME TracerInv, AllOK, RestartTracee,
         ~(Tcb.pid # 0 /\ Stopped(Tcb.pid) /\ task[Tcb.pid].traced)
  PROVE  AllOK'
<1>1. PICK p : p = Tcb.pid
  OBVIOUS
<1>2. pc = "restart" /\ pc' = "wait" /\ task' = task /\ Keeps(out, out')
  BY RestartStep DEF RestartTracee
<1>3. \A q \in Pids : SameFor(out, out', q)
  BY <1>2, KeepsSame, PidsAssumption DEF TracerInv
<1>4. p = 0 \/ p \in Pids
  <2>1. tcp \in DOMAIN out.tcbtab
    BY <1>2 DEF TracerInv, PlaceOK
  <2>. QED  BY <1>1, <2>1, BlockOf DEF TracerInv, IsTcb, Tcb
<1>5. p \in Pids => Held(p) /\ ~Alive(p) /\ ThreadOK(p)
  <2>1. SUFFICES ASSUME p \in Pids PROVE Held(p) /\ ~Alive(p) /\ ThreadOK(p)
    OBVIOUS
  <2>2. p # 0 /\ AtHand(p) /\ ThreadOK(p)
    BY <1>1, <1>2, <2>1, PidsAssumption DEF AtHand, AllOK
  <2>3. Held(p)
    BY <2>2 DEF ThreadOK, HandOK
  <2>. QED  BY <1>1, <2>2, <2>3 DEF Held, Alive, Stopped
<1>6. OnlyAbout(p)
  <2>1. \A q \in Pids \ {p} : Elsewhere(q) /\ Elsewhere(q)'
    BY <1>1, <1>2 DEF Elsewhere, Handled, AtHand, Going
  <2>. QED  BY <1>2, <1>3, <1>5, <2>1 DEF OnlyAbout, Held, Handled, AllOK
<1>7. ASSUME p \in Pids PROVE ThreadOK(p)'
  <2>1. SyncOK(p)' /\ KnownOK(p)'
    BY <1>2, <1>5, <1>7 DEF SyncOK, KnownOK, Followed, Alive
  <2>2. HandOK(p)'
    BY <1>2 DEF HandOK, AtHand, Handled
  <2>3. StateOK(p)'
    BY <1>2, <1>5, <1>7 DEF ThreadOK, StateOK, Held, Alive
  <2>4. LeaderOK(p)'
    BY <1>2, <1>5, <1>7 DEF ThreadOK, LeaderOK
  <2>5. ExecveOK(p)'
    BY <1>2, <1>5, <1>7 DEF ThreadOK, ExecveOK, ByExecve, Replaced, Leader, Handled, Going
  <2>6. StartOK(p)'
    BY <1>2 DEF StartOK
  <2>. QED  BY <2>1, <2>2, <2>3, <2>4, <2>5, <2>6 DEF ThreadOK
<1>. QED  BY <1>2, <1>6, <1>7, Bystander DEF AllOK

-----------------------------------------------------------------------------
(* What threads do by themselves                                           *)

\* From t to u the thread of pid q ...
SameTask(t, u) ==
    /\ u.leader = t.leader /\ u.traced = t.traced /\ (u.unseen <=> t.unseen)
    /\ u.pending \subseteq t.pending

\* ... goes on in the same place,
Stays(t, u) ==
    /\ SameTask(t, u)
    /\ u.state = t.state /\ u.report = t.report /\ u.oldpid = t.oldpid
    /\ u.incall = t.incall /\ u.call = t.call /\ u.syscalls = t.syscalls

\* ends,
Dies(q, t, u) ==
    /\ t.state # "free" /\ (t.state = "gone" => t.leader = q)
    /\ SameTask(t, u) /\ u.oldpid = t.oldpid
    /\ u.state \in {"dead", "gone"}
    /\ t.traced /\ u.state = "gone" => t.state = "gone"
    /\ \/ u.report \in {Nothing} \cup Ended
       \/ u.report = t.report /\ (t.traced => t.state \in {"dead", "gone"})

\* comes to a stop,
Stops(q, t, u) ==
    /\ t.state = "run" /\ u.state = "stop" /\ SameTask(t, u)
    /\ \/ ~t.traced /\ u.report \in {Nothing, "syscall"}
       \/ ~t.incall /\ u.incall /\ u.report = "syscall"
       \/ t.incall /\ ~u.incall /\ u.call = t.call /\ u.report = "syscall"
       \/ /\ (u.incall <=> t.incall) /\ u.call = t.call
          /\ \/ u.report \in {"clone", "signal", "sigstop", "fatal"}
             \/ u.report = "execve" /\ u.oldpid = q /\ t.leader = q

\* passes the end of a call without one,
Passes(t, u) ==
    /\ t.state = "run" /\ u.state = "run" /\ t.traced /\ ~t.syscalls
    /\ SameTask(t, u) /\ u.report = t.report /\ u.oldpid = t.oldpid

\* replaces thread p, that has called execve,
Takes(q, u, p) ==
    /\ task[q].state = "dead" /\ task[q].leader = q
    /\ task[p].state = "run" /\ task[p].traced /\ task[p].incall /\ task[p].leader = q
    /\ u.state = "stop" /\ u.report = "execve" /\ u.oldpid = p /\ u.incall
    /\ u.leader = q /\ u.traced /\ u.pending \subseteq task[p].pending
    /\ u.call = task[p].call /\ (u.unseen <=> task[p].unseen \/ task[q].unseen)
    /\ task'[p].state = "gone" /\ ~task'[p].traced /\ task'[p].leader = q
    /\ \A r \in Pids \ {q} : task'[r].leader = q => task'[r].state \notin {"run", "stop"}

\* is replaced by its leader, when it calls execve,
Leaves(q, t, u) ==
    /\ t.state = "run" /\ t.leader # q /\ u.state = "gone" /\ ~u.traced
    /\ u.leader = t.leader /\ u.report = t.report /\ u.oldpid = t.oldpid
    /\ u.pending = t.pending
    /\ Takes(t.leader, task'[t.leader], q)

\* or is new.
Born(q, t, u) ==
    /\ t.state = "free" /\ u.state = "stop" /\ ~u.incall /\ ~u.unseen /\ u.pending = {}
    /\ u.report \in {"start", "sigstop"}
    /\ \/ u.leader = q
       \/ \E p \in Pids : task[p].state = "run" /\ u.leader = task[p].leader

Moves(q) ==
    LET t == task[q]
        u == task'[q]
    IN  /\ IsTask(u)
        /\ \/ Stays(t, u) \/ Dies(q, t, u) \/ Stops(q, t, u) \/ Passes(t, u)
           \/ Leaves(q, t, u) \/ Born(q, t, u)
           \/ \E p \in Pids \ {q} : Takes(q, u, p)

\* The thread that strace detaches from has a block.
LEMMA GoingKnown ==
  ASSUME TracerInv, NEW q, Going(q)
  PROVE  q # 0 /\ q \in Pids /\ pid2tcb(out, q) # {}
<1>1. tcp \in DOMAIN out.tcbtab /\ out.tcbtab[tcp].pid = q /\ q # 0
  BY DEF TracerInv, PlaceOK, Going, Tcb
<1>2. tcp \in pid2tcb(out, q)
  BY <1>1, BlocksOfPid DEF TracerInv
<1>3. q \in Pids
  BY <1>1, BlockOf DEF TracerInv, IsTcb
<1>. QED  BY <1>1, <1>2, <1>3

LEMMA MovesKeep ==
  ASSUME TracerInv, AllOK, UNCHANGED straceVars, pc # "startup",
         DOMAIN task' = Pids, \A r \in Pids : Moves(r)
  PROVE  AllOK'
<1>1. SUFFICES ASSUME NEW q \in Pids PROVE ThreadOK(q)'
  BY DEF AllOK
<1>2. UNCHANGED <<out, pc, tcp, status, Tcb>>
  BY DEF straceVars, Tcb
<1>3. PICK t, u : t = task[q] /\ u = task'[q]
  OBVIOUS
<1>4. ThreadOK(q) /\ Moves(q)
  BY <1>3 DEF AllOK
<1>5. ASSUME NEW l \in Pids, task[l].state # "free"
      PROVE  task'[l].state # "free" /\ task'[l].leader = task[l].leader
  BY <1>5 DEF Moves, Stays, Dies, Stops, Passes, Leaves, Born, Takes, SameTask
<1>6. ASSUME NEW old, NEW l \in Pids, task[l].state # "free", ByExecve(old, l)
      PROVE  ByExecve(old, l)'
  <2>1. Leader(l)'
    BY <1>5, <1>6 DEF ByExecve, Leader
  <2>2. ASSUME old # l PROVE Replaced(old, l)'
    <3>1. Replaced(old, l) /\ old \in Pids
      BY <1>6, <2>2 DEF ByExecve
    <3>2. Stays(task[old], task'[old])
      BY <2>2, <3>1 DEF Replaced, Moves, Dies, Stops, Passes, Leaves, Born, Takes
    <3>. QED  BY <1>2, <3>1, <3>2 DEF Replaced, Stays, SameTask, Handled
  <2>. QED  BY <1>6, <2>1, <2>2 DEF ByExecve
<1>7. LeaderOK(q)'
  <2>1. ASSUME NEW p \in Pids, task[p].state # "free", u.leader = task[p].leader
        PROVE  LeaderOK(q)'
    BY <1>3, <1>5, <2>1 DEF AllOK, ThreadOK, LeaderOK
  <2>2. CASE u.leader = q \/ u.state = "free"
    BY <1>3, <1>4, <2>2 DEF LeaderOK
  <2>3. \/ u.leader = q \/ u.state = "free"
        \/ \E p \in Pids : task[p].state # "free" /\ u.leader = task[p].leader
    <3>1. CASE t.state # "free" /\ u.leader = t.leader
      BY <1>3, <3>1
    <3>2. CASE u.state = "free" \/ Born(q, t, u)
      BY <3>2 DEF Born
    <3>3. CASE \E p \in Pids \ {q} : Takes(q, u, p)
      BY <1>3, <3>3 DEF Takes, SameTask
    <3>. QED  BY <1>3, <1>4, <3>1, <3>2, <3>3
              DEF Moves, Stays, Dies, Stops, Passes, Leaves, SameTask
  <2>. QED  BY <2>1, <2>2, <2>3
<1>8. (AtHand(q)' <=> AtHand(q)) /\ (Going(q)' <=> Going(q)) /\ (Handled(q)' <=> Handled(q))
  BY <1>2 DEF AtHand, Going, Handled
<1>9. StartOK(q)'
  BY <1>2 DEF StartOK
<1>10. AtHand(q) \/ Handled(q) => t.state \notin {"free", "run"}
  BY <1>3, <1>4 DEF ThreadOK, HandOK, Held
<1>11. ExecveOK(q)'
  <2>1. PICK old : old = task[q].oldpid
    OBVIOUS
  <2>2. task[q].report = "execve" => ByExecve(old, q)'
    BY <1>4, <1>6, <2>1 DEF ThreadOK, ExecveOK, StateOK, Nothing
  <2>3. u.report = "execve" => \/ t.report = "execve" /\ u.oldpid = old
                               \/ u.oldpid = q /\ u.leader = q
                               \/ \E p \in Pids \ {q} : Takes(q, u, p)
    BY <1>3, <1>4, <2>1 DEF Moves, Stays, Dies, Stops, Passes, Leaves, Born, SameTask,
       Nothing, Ended, ThreadOK, StateOK
  <2>4. u.report = "execve" => ByExecve(u.oldpid, q)'
    <3>1. ASSUME NEW p \in Pids \ {q}, Takes(q, u, p) PROVE ByExecve(p, q)' /\ u.oldpid = p
      <4>1. ~Handled(p)
        BY <3>1 DEF AllOK, ThreadOK, HandOK, Held, Takes
      <4>2. task'[q].leader = q
        BY <1>3, <3>1 DEF Takes, SameTask
      <4>. QED  BY <1>2, <3>1, <4>1, <4>2 DEF Takes, ByExecve, Replaced, Leader, Handled,
                straceVars
    <3>. QED  BY <1>3, <2>2, <2>3, <3>1 DEF ByExecve, Leader
  <2>5. CASE pc = "handle" /\ status.pid = q /\ status.report = "execve"
    <3>1. AtHand(q) /\ Handled(q)
      BY <2>5 DEF AtHand, Handled, Ended
    <3>2. /\ ByExecve(status.oldpid, q)
          /\ Stopped(q) /\ task[q].report = Nothing => task[q].oldpid = status.oldpid
      BY <1>4, <2>5 DEF ThreadOK, ExecveOK
    <3>3. ByExecve(status.oldpid, q)'
      BY <1>2, <1>3, <1>6, <1>10, <3>1, <3>2 DEF straceVars, ByExecve, Replaced, Leader
    <3>4. Stopped(q)' /\ u.report = Nothing => Stays(t, u)
      BY <1>3, <1>4, <1>10, <3>1
         DEF Moves, Dies, Stops, Passes, Leaves, Born, Takes, Stopped, Nothing
    <3>5. Stopped(q)' /\ u.report = Nothing => u.oldpid = status.oldpid
      BY <1>3, <3>2, <3>4 DEF Stays, Stopped
    <3>. QED  BY <1>2, <1>3, <2>4, <3>1, <3>3, <3>5
           DEF ExecveOK, Going, ByExecve, Replaced, Leader
  <2>6. Going(q)' => Leader(q)'
    <3>1. Going(q) => Leader(q)
      BY <1>4 DEF ThreadOK, ExecveOK
    <3>2. Going(q) => t.state # "free"
      BY <1>3, <1>4, GoingKnown DEF ThreadOK, StateOK
    <3>. QED  BY <1>3, <1>5, <1>8, <3>1, <3>2 DEF Leader
  <2>. QED  BY <1>2, <1>3, <2>4, <2>5, <2>6 DEF ExecveOK, ByExecve, Replaced, Leader
<1>12. CASE Stays(t, u)
  <2>1. Followed(q)' => Followed(q)
    BY <1>3, <1>8, <1>12 DEF Stays, SameTask, Followed, Alive
  <2>2. Due(q)' = Due(q)
    BY <1>2, <1>3, <1>12 DEF Stays, Due, straceVars
  <2>3. SyncOK(q)'
    BY <1>2, <1>3, <1>4, <1>12, <2>1, <2>2 DEF Stays, ThreadOK, SyncOK
  <2>4. KnownOK(q)'
    BY <1>2, <1>3, <1>4, <1>12, <2>1 DEF Stays, ThreadOK, KnownOK
  <2>5. HandOK(q)'
    BY <1>2, <1>3, <1>4, <1>8, <1>12, <2>1
       DEF Stays, SameTask, ThreadOK, HandOK, Held, Stopped, straceVars
  <2>6. StateOK(q)'
    BY <1>2, <1>3, <1>4, <1>8, <1>12 DEF Stays, SameTask, ThreadOK, StateOK, Moves
  <2>. QED  BY <1>7, <1>9, <1>11, <2>3, <2>4, <2>5, <2>6 DEF ThreadOK
<1>13. CASE Dies(q, t, u) \/ Leaves(q, t, u)
  <2>1. ~Followed(q)' /\ ~Stopped(q)'
    BY <1>3, <1>13 DEF Dies, Leaves, Followed, Alive, Stopped
  <2>2. SyncOK(q)' /\ KnownOK(q)'
    BY <2>1 DEF SyncOK, KnownOK
  <2>3. HandOK(q)'
    BY <1>3, <1>13, <2>1 DEF Dies, Leaves, HandOK, Held
  <2>4. StateOK(q)'
    BY <1>3, <1>4, <1>13 DEF Dies, Leaves, SameTask, ThreadOK, StateOK, Moves
  <2>. QED  BY <1>7, <1>9, <1>11, <2>2, <2>3, <2>4 DEF ThreadOK
<1>14. CASE Stops(q, t, u)
  <2>1. ~AtHand(q) /\ ~Handled(q) /\ t.report = Nothing /\ Alive(q)
    BY <1>3, <1>4, <1>10, <1>14 DEF Stops, ThreadOK, StateOK, Alive
  <2>2. Due(q) = Nothing /\ Due(q)' = u.report
    BY <1>2, <1>3, <2>1 DEF Due, Handled
  <2>3. Followed(q)' => /\ Followed(q)
                        /\ IF ~t.incall THEN Silent(out, q) ELSE Says(out, q, t.call)
    BY <1>3, <1>4, <1>8, <1>14, <2>1, <2>2
       DEF Stops, SameTask, Followed, ThreadOK, SyncOK, Nothing
  <2>4. Followed(q)' => t.traced
    BY <1>3, <1>14 DEF Stops, SameTask, Followed
  <2>5. SyncOK(q)'
    BY <1>2, <1>3, <1>14, <2>2, <2>3, <2>4 DEF Stops, SyncOK
  <2>6. KnownOK(q)'
    BY <1>3, <1>14, <2>4 DEF Stops, KnownOK, Nothing
  <2>7. HandOK(q)'
    BY <1>8, <2>1 DEF HandOK, AtHand, Handled
  <2>8. StateOK(q)'
    BY <1>3, <1>4, <1>14 DEF Stops, SameTask, ThreadOK, StateOK, Moves, Nothing, Ended
  <2>. QED  BY <1>7, <1>9, <1>11, <2>5, <2>6, <2>7, <2>8 DEF ThreadOK
<1>15. CASE Passes(t, u)
  <2>1. Going(q) /\ ~AtHand(q) /\ ~Handled(q)
    BY <1>3, <1>4, <1>10, <1>15 DEF Passes, ThreadOK, StateOK
  <2>2. SyncOK(q)' /\ KnownOK(q)'
    BY <1>8, <2>1 DEF SyncOK, KnownOK, Followed
  <2>3. HandOK(q)'
    BY <1>8, <2>1 DEF HandOK, AtHand, Handled
  <2>4. StateOK(q)'
    BY <1>3, <1>4, <1>8, <1>15, <2>1 DEF Passes, SameTask, ThreadOK, StateOK, Moves, Ended
  <2>. QED  BY <1>7, <1>9, <1>11, <2>2, <2>3, <2>4 DEF ThreadOK
<1>16. CASE Born(q, t, u)
  <2>1. ~AtHand(q) /\ ~Handled(q) /\ pid2tcb(out, q) = {}
    BY <1>3, <1>4, <1>10, <1>16 DEF Born, ThreadOK, StateOK
  <2>2. Silent(out, q)
    BY <2>1 DEF Silent
  <2>3. Due(q)' = u.report
    BY <1>3, <1>16 DEF Due, Born, Nothing
  <2>4. SyncOK(q)'
    BY <1>2, <1>3, <1>16, <2>2, <2>3 DEF Born, SyncOK
  <2>5. KnownOK(q)'
    BY <1>3, <1>16 DEF Born, KnownOK, Nothing
  <2>6. HandOK(q)'
    BY <1>8, <2>1 DEF HandOK, AtHand, Handled
  <2>7. StateOK(q)'
    BY <1>3, <1>4, <1>16 DEF Born, StateOK, Moves, Ended
  <2>. QED  BY <1>7, <1>9, <1>11, <2>4, <2>5, <2>6, <2>7 DEF ThreadOK
<1>17. ASSUME NEW p \in Pids \ {q}, Takes(q, u, p) PROVE ThreadOK(q)'
  <2>1. /\ u.state = "stop" /\ u.report = "execve" /\ u.oldpid = p /\ u.incall
        /\ u.leader = q /\ (task[p].unseen => u.unseen) /\ u.call = task[p].call
        /\ u.pending \subseteq task[p].pending /\ u.traced /\ ThreadOK(p)
        /\ task[p].state = "run" /\ task[p].traced /\ task[p].incall
    BY <1>17 DEF Takes, SameTask, AllOK
  <2>2. ~AtHand(p) /\ ~Handled(p) /\ task[p].report = Nothing
    BY <2>1 DEF ThreadOK, HandOK, Held, StateOK
  <2>3. ~Going(p)
    BY <1>17, <2>1 DEF ThreadOK, ExecveOK, Leader, Takes
  <2>4. Due(p) = Nothing
    BY <2>2 DEF Due, Handled
  <2>5. ~u.unseen => Says(out, p, u.call)
    BY <2>1, <2>2, <2>3, <2>4 DEF Followed, Alive, ThreadOK, SyncOK, Nothing
  <2>6. Due(q)' = "execve"
    BY <1>3, <2>1 DEF Due, Nothing
  <2>7. SyncOK(q)'
    BY <1>2, <1>3, <1>17, <2>1, <2>5, <2>6 DEF SyncOK, Followed
  <2>8. KnownOK(q)'
    BY <1>3, <2>1 DEF KnownOK, Nothing
  <2>9. HandOK(q)'
    <3>1. Held(q)'
      BY <1>3, <1>17, <2>1 DEF Held, Stopped
    <3>2. ~(pc = "dump" /\ status.pid = q /\ Followed(q))'
      BY <1>3, <2>1 DEF Followed, AtHand, Handled, Nothing
    <3>. QED  BY <1>3, <2>1, <3>1, <3>2 DEF HandOK, Nothing
  <2>10. StateOK(q)'
    BY <1>3, <1>4, <2>1 DEF StateOK, Moves, ThreadOK, Ended
  <2>. QED  BY <1>7, <1>9, <1>11, <2>7, <2>8, <2>9, <2>10 DEF ThreadOK
<1>. QED  BY <1>3, <1>4, <1>12, <1>13, <1>14, <1>15, <1>16, <1>17 DEF Moves

LEMMA OthersMove ==
  ASSUME AllOK, NEW q \in Pids, task'[q] = task[q]
  PROVE  Moves(q)
  BY DEF AllOK, ThreadOK, StateOK, Moves, Stays, SameTask

LEMMA EndGroupMoves ==
  ASSUME AllOK, NEW p \in Pids, NEW report \in Ended,
         NEW q \in Pids, task'[q] = EndGroup(p, report)[q]
  PROVE  Moves(q)
<1>1. PICK t, u : t = task[q] /\ u = task'[q]
  OBVIOUS
<1>2. IsTask(t)
  BY <1>1 DEF AllOK, ThreadOK, StateOK
<1>3. CASE q \notin Group(p)
  BY <1>3, OthersMove DEF EndGroup
<1>4. CASE q \in Group(p)
  <2>1. t.state \notin {"free", "gone"}
    BY <1>1, <1>4 DEF Group
  <2>2. CASE ~t.traced
    <3>1. u = [t EXCEPT !.state = "gone"]
      BY <1>1, <1>4, <2>2 DEF EndGroup
    <3>2. IsTask(u) /\ Dies(q, t, u)
      BY <1>2, <2>1, <2>2, <3>1 DEF IsTask, Dies, SameTask
    <3>. QED  BY <1>1, <3>2 DEF Moves
  <2>3. CASE t.traced
    <3>1. PICK r : /\ u = [t EXCEPT !.state = "dead", !.incall = FALSE, !.report = r]
                   /\ r = report \/ (r = t.report /\ t.state = "dead")
      <4>1. u = [t EXCEPT !.state = "dead", !.incall = FALSE,
                          !.report = IF t.state = "dead" /\ t.report # Nothing THEN t.report
                                     ELSE report]
        BY <1>1, <1>4, <2>3 DEF EndGroup
      <4>. QED  BY <4>1
    <3>2. IsTask(u) /\ Dies(q, t, u)
      BY <1>2, <2>1, <3>1 DEF IsTask, Dies, SameTask
    <3>. QED  BY <1>1, <3>2 DEF Moves
  <2>. QED  BY <2>2, <2>3
<1>. QED  BY <1>3, <1>4

LEMMA EnterCallMoves ==
  ASSUME AllOK, NEW p \in Pids, NEW kind, EnterCall(p, kind)
  PROVE  DOMAIN task' = Pids /\ \A q \in Pids : Moves(q)
<1>1. PICK t : t = task[p]
  OBVIOUS
<1>2. IsTask(t) /\ DOMAIN task = Pids /\ t.state = "run" /\ ~t.incall
  BY <1>1 DEF AllOK, ThreadOK, StateOK, EnterCall
<1>3. PICK n, c : task' = [task EXCEPT ![p] =
             [t EXCEPT !.state = "stop", !.report = "syscall", !.incall = TRUE, !.kind = kind,
                       !.calls = n, !.call = c]]
  BY <1>1 DEF EnterCall, StopWith
<1>4. PICK u : u = [t EXCEPT !.state = "stop", !.report = "syscall", !.incall = TRUE,
                             !.kind = kind, !.calls = n, !.call = c]
  OBVIOUS
<1>5. IsTask(u) /\ Stops(p, t, u)
  BY <1>2, <1>4 DEF IsTask, Stops, SameTask
<1>6. DOMAIN task' = Pids /\ task'[p] = u /\ \A q \in Pids \ {p} : task'[q] = task[q]
  BY <1>2, <1>3, <1>4
<1>. QED  BY <1>1, <1>5, <1>6, OthersMove DEF Moves

LEMMA ExitCallMoves ==
  ASSUME AllOK, NEW p \in Pids, ExitCall(p)
  PROVE  DOMAIN task' = Pids /\ \A q \in Pids : Moves(q)
<1>1. PICK t : t = task[p]
  OBVIOUS
<1>2. /\ IsTask(t) /\ DOMAIN task = Pids
      /\ t.state = "run" /\ t.incall /\ t.traced
  BY <1>1 DEF AllOK, ThreadOK, StateOK, ExitCall, Working
<1>3. PICK s : s = IF t.syscalls THEN [t EXCEPT !.state = "stop", !.report = "syscall"] ELSE t
  OBVIOUS
<1>4. PICK u : u = [s EXCEPT !.incall = FALSE]
  OBVIOUS
<1>5. task' = [task EXCEPT ![p] = u]
  BY <1>1, <1>3, <1>4 DEF ExitCall, StopWith
<1>6. IsTask(s) /\ s.incall = t.incall /\ s.call = t.call /\ SameTask(t, s)
      /\ s.oldpid = t.oldpid
      /\ IF t.syscalls THEN s.state = "stop" /\ s.report = "syscall"
         ELSE s.state = t.state /\ s.report = t.report
  BY <1>2, <1>3 DEF IsTask, SameTask
<1>7. IsTask(u) /\ (Stops(p, t, u) \/ Passes(t, u))
  BY <1>2, <1>4, <1>6 DEF IsTask, Stops, Passes, SameTask
<1>8. DOMAIN task' = Pids /\ task'[p] = u /\ \A q \in Pids \ {p} : task'[q] = task[q]
  BY <1>2, <1>5
<1>. QED  BY <1>1, <1>7, <1>8, OthersMove DEF Moves

LEMMA CloneMoves ==
  ASSUME AllOK, NEW p \in Pids, Clone(p)
  PROVE  DOMAIN task' = Pids /\ \A q \in Pids : Moves(q)
<1>1. PICK t : t = task[p]
  OBVIOUS
<1>2. /\ IsTask(t) /\ DOMAIN task = Pids
      /\ t.state = "run" /\ t.incall /\ t.traced
  BY <1>1 DEF AllOK, ThreadOK, StateOK, Clone, Working
<1>3. PICK f : f = FreeTask
  OBVIOUS
<1>4. /\ IsTask(f) /\ ~f.incall /\ ~f.unseen /\ f.pending = {}
  BY <1>3 DEF FreeTask, IsTask
<1>5. PICK q : /\ q \in Pids /\ task[q].state = "free"
               /\ task' = [task EXCEPT
                    ![p] = [[t EXCEPT !.state = "stop", !.report = "clone"]
                            EXCEPT !.kind = "other"],
                    ![q] = [[f EXCEPT !.state = "stop",
                                      !.report = IF seize THEN "start" ELSE "sigstop"]
                            EXCEPT !.leader = IF t.kind = "fork" THEN q ELSE t.leader,
                                   !.traced = TRUE]]
  BY <1>1, <1>3 DEF Clone, StopWith
<1>6. PICK u : u = [[t EXCEPT !.state = "stop", !.report = "clone"] EXCEPT !.kind = "other"]
  OBVIOUS
<1>7. PICK v : v = [[f EXCEPT !.state = "stop",
                              !.report = IF seize THEN "start" ELSE "sigstop"]
                    EXCEPT !.leader = IF t.kind = "fork" THEN q ELSE t.leader,
                           !.traced = TRUE]
  OBVIOUS
<1>8. IsTask(u) /\ Stops(p, t, u)
  BY <1>2, <1>6 DEF IsTask, Stops, SameTask
<1>9. IsTask(v) /\ Born(q, task[q], v)
  BY <1>1, <1>2, <1>4, <1>5, <1>7 DEF IsTask, Born
<1>10. p # q
  BY <1>1, <1>2, <1>5
<1>11. /\ DOMAIN task' = Pids /\ task'[p] = u /\ task'[q] = v
       /\ \A x \in Pids \ {p, q} : task'[x] = task[x]
  BY <1>2, <1>5, <1>6, <1>7, <1>10
<1>. QED  BY <1>1, <1>8, <1>9, <1>11, OthersMove DEF Moves

LEMMA CloneFailsMoves ==
  ASSUME AllOK, NEW p \in Pids, CloneFails(p)
  PROVE  DOMAIN task' = Pids /\ \A q \in Pids : Moves(q)
<1>1. PICK t : t = task[p]
  OBVIOUS
<1>2. IsTask(t) /\ DOMAIN task = Pids
  BY <1>1 DEF AllOK, ThreadOK, StateOK
<1>3. PICK u : u = [t EXCEPT !.kind = "other"]
  OBVIOUS
<1>4. IsTask(u) /\ Stays(t, u)
  BY <1>2, <1>3 DEF IsTask, Stays, SameTask
<1>5. task' = [task EXCEPT ![p] = u]
  BY <1>1, <1>3 DEF CloneFails
<1>6. DOMAIN task' = Pids /\ task'[p] = u /\ \A q \in Pids \ {p} : task'[q] = task[q]
  BY <1>2, <1>5
<1>. QED  BY <1>1, <1>4, <1>6, OthersMove DEF Moves

LEMMA ExitMoves ==
  ASSUME AllOK, NEW p \in Pids, Exit(p)
  PROVE  DOMAIN task' = Pids /\ \A q \in Pids : Moves(q)
<1>1. PICK t : t = task[p]
  OBVIOUS
<1>2. IsTask(t) /\ DOMAIN task = Pids /\ t.state = "run"
  BY <1>1 DEF AllOK, ThreadOK, StateOK, Exit, Working
<1>3. PICK u : u = [t EXCEPT !.state = "dead", !.incall = FALSE, !.report = "exited"]
  OBVIOUS
<1>4. IsTask(u) /\ Dies(p, t, u)
  BY <1>2, <1>3 DEF IsTask, Dies, SameTask, Ended
<1>5. task' = [task EXCEPT ![p] = u]
  BY <1>1, <1>3 DEF Exit
<1>6. DOMAIN task' = Pids /\ task'[p] = u /\ \A q \in Pids \ {p} : task'[q] = task[q]
  BY <1>2, <1>5
<1>. QED  BY <1>1, <1>4, <1>6, OthersMove DEF Moves

LEMMA ExecveKillsMoves ==
  ASSUME AllOK, NEW p \in Pids, ExecveKills(p)
  PROVE  DOMAIN task' = Pids /\ \A q \in Pids : Moves(q)
<1>1. DOMAIN task' = Pids
  BY DEF ExecveKills
<1>2. ASSUME NEW q \in Pids PROVE Moves(q)
  <2>1. CASE q = p
    BY <2>1, OthersMove DEF ExecveKills
  <2>2. CASE q # p /\ q = task[p].leader
    <3>1. PICK t, u : t = task[q] /\ u = task'[q]
      OBVIOUS
    <3>2. u = [t EXCEPT !.state = "dead", !.incall = FALSE, !.report = Nothing]
      BY <2>2, <3>1 DEF ExecveKills
    <3>3. IsTask(t)
      BY <3>1 DEF AllOK, ThreadOK, StateOK
    <3>4. t.leader = q /\ t.state # "free"
      BY <2>2, <3>1 DEF AllOK, ThreadOK, LeaderOK, ExecveKills, Working
    <3>5. IsTask(u) /\ Dies(q, t, u)
      BY <3>2, <3>3, <3>4 DEF IsTask, Dies, SameTask
    <3>. QED  BY <3>1, <3>5 DEF Moves
  <2>3. CASE q # p /\ q # task[p].leader
    <3>1. task'[q] = EndGroup(p, "killed")[q]
      BY <2>3 DEF ExecveKills
    <3>. QED  BY <3>1, EndGroupMoves DEF Ended
  <2>. QED  BY <2>1, <2>2, <2>3
<1>. QED  BY <1>1, <1>2

LEMMA ExecveMoves ==
  ASSUME AllOK, NEW p \in Pids, Execve(p)
  PROVE  DOMAIN task' = Pids /\ \A q \in Pids : Moves(q)
<1>1. PICK t, l : t = task[p] /\ l = task[p].leader
  OBVIOUS
<1>2. /\ IsTask(t) /\ DOMAIN task = Pids /\ l \in Pids /\ t.leader = l
      /\ t.state = "run" /\ t.traced /\ t.incall /\ t.report = Nothing
      /\ task[l].leader = l
  BY <1>1 DEF AllOK, ThreadOK, StateOK, LeaderOK, Execve, Working
<1>3. PICK n : task' =
         [task EXCEPT ![p].state = "gone", ![p].traced = FALSE,
                      ![l] = [[t EXCEPT !.state = "stop", !.report = "execve"]
                              EXCEPT !.kind = "other", !.oldpid = p, !.launch = FALSE,
                                     !.unseen = t.unseen \/ task[l].unseen,
                                     !.calls = n]]
  BY <1>1 DEF Execve, StopWith
<1>4. PICK u : u = [[t EXCEPT !.state = "stop", !.report = "execve"]
                    EXCEPT !.kind = "other", !.oldpid = p, !.launch = FALSE,
                           !.unseen = t.unseen \/ task[l].unseen, !.calls = n]
  OBVIOUS
<1>5. PICK v : v = [[t EXCEPT !.state = "gone"] EXCEPT !.traced = FALSE]
  OBVIOUS
<1>6. /\ DOMAIN task' = Pids /\ task'[l] = u /\ (p # l => task'[p] = v)
      /\ \A q \in Pids \ {p, l} : task'[q] = task[q]
  BY <1>1, <1>2, <1>3, <1>4, <1>5
<1>7. /\ IsTask(u) /\ u.state = "stop" /\ u.report = "execve" /\ u.oldpid = p
      /\ u.incall = t.incall /\ u.call = t.call /\ u.leader = t.leader /\ u.traced = t.traced
      /\ u.pending = t.pending /\ (u.unseen <=> t.unseen \/ task[l].unseen)
  BY <1>2, <1>4 DEF IsTask
<1>8. /\ IsTask(v) /\ v.state = "gone" /\ v.traced = FALSE /\ v.report = t.report
      /\ v.leader = t.leader /\ v.oldpid = t.oldpid /\ v.pending = t.pending
  BY <1>2, <1>5 DEF IsTask
<1>9. CASE p = l
  <2>1. Stops(p, t, u)
    BY <1>1, <1>2, <1>7, <1>9 DEF Stops, SameTask
  <2>. QED  BY <1>1, <1>6, <1>7, <1>9, <2>1, OthersMove DEF Moves
<1>10. CASE p # l
  <2>1. \A r \in Pids \ {l} : task'[r].leader = l => task'[r].state \notin {"run", "stop"}
    <3>1. Group(p) \subseteq {p, l}
      BY <1>1 DEF Execve
    <3>. QED  BY <1>1, <1>6, <1>8, <1>10, <3>1 DEF Group
  <2>2. Takes(l, u, p)
    BY <1>1, <1>2, <1>6, <1>7, <1>8, <1>10, <2>1 DEF Takes, Execve
  <2>3. Leaves(p, t, v)
    BY <1>2, <1>6, <1>8, <1>10, <2>2 DEF Leaves
  <2>. QED  BY <1>1, <1>2, <1>6, <1>7, <1>8, <1>10, <2>2, <2>3, OthersMove DEF Moves
<1>. QED  BY <1>9, <1>10

LEMMA SignalMoves ==
  ASSUME AllOK, NEW p \in Pids, Signal(p)
  PROVE  DOMAIN task' = Pids /\ \A q \in Pids : Moves(q)
<1>1. PICK t : t = task[p]
  OBVIOUS
<1>2. IsTask(t) /\ DOMAIN task = Pids /\ t.state = "run"
  BY <1>1 DEF AllOK, ThreadOK, StateOK, Signal
<1>3. PICK u : u = [t EXCEPT !.state = "stop", !.report = "signal"]
  OBVIOUS
<1>4. IsTask(u) /\ Stops(p, t, u)
  BY <1>2, <1>3 DEF IsTask, Stops, SameTask
<1>5. task' = [task EXCEPT ![p] = u]
  BY <1>1, <1>3 DEF Signal, StopWith
<1>6. DOMAIN task' = Pids /\ task'[p] = u /\ \A q \in Pids \ {p} : task'[q] = task[q]
  BY <1>2, <1>5
<1>. QED  BY <1>1, <1>4, <1>6, OthersMove DEF Moves

LEMMA SignalOfStraceMoves ==
  ASSUME AllOK, NEW p \in Pids, SignalOfStrace(p)
  PROVE  DOMAIN task' = Pids /\ \A q \in Pids : Moves(q)
<1>1. PICK t : t = task[p]
  OBVIOUS
<1>2. /\ IsTask(t) /\ DOMAIN task = Pids /\ t.state = "run" /\ t.report = Nothing
      /\ t.pending \subseteq {"sigstop", "fatal"}
  BY <1>1 DEF AllOK, ThreadOK, StateOK, SignalOfStrace
<1>3. PICK sig : sig \in t.pending
          /\ task' = IF t.traced
                     THEN [task EXCEPT ![p] = [[t EXCEPT !.state = "stop", !.report = sig]
                                               EXCEPT !.pending = @ \ {sig}]]
                     ELSE IF sig = "sigstop"
                     THEN [task EXCEPT ![p] = [t EXCEPT !.state = "stop", !.pending = {}]]
                     ELSE EndGroup(p, "killed")
  BY <1>1 DEF SignalOfStrace, StopWith
<1>4. CASE t.traced
  <2>1. PICK u : u = [[t EXCEPT !.state = "stop", !.report = sig]
                      EXCEPT !.pending = @ \ {sig}]
    OBVIOUS
  <2>2. IsTask(u) /\ Stops(p, t, u)
    BY <1>2, <1>3, <2>1 DEF IsTask, Stops, SameTask
  <2>3. DOMAIN task' = Pids /\ task'[p] = u /\ \A q \in Pids \ {p} : task'[q] = task[q]
    BY <1>2, <1>3, <1>4, <2>1
  <2>. QED  BY <1>1, <2>2, <2>3, OthersMove DEF Moves
<1>5. CASE ~t.traced /\ sig = "sigstop"
  <2>1. PICK u : u = [t EXCEPT !.state = "stop", !.pending = {}]
    OBVIOUS
  <2>2. IsTask(u) /\ Stops(p, t, u)
    BY <1>2, <1>5, <2>1 DEF IsTask, Stops, SameTask
  <2>3. DOMAIN task' = Pids /\ task'[p] = u /\ \A q \in Pids \ {p} : task'[q] = task[q]
    BY <1>2, <1>3, <1>5, <2>1
  <2>. QED  BY <1>1, <2>2, <2>3, OthersMove DEF Moves
<1>6. CASE ~t.traced /\ sig # "sigstop"
  <2>1. task' = EndGroup(p, "killed")
    BY <1>3, <1>6
  <2>. QED  BY <2>1, EndGroupMoves DEF Ended, EndGroup
<1>. QED  BY <1>4, <1>5, <1>6

LEMMA KernelMoves ==
  ASSUME AllOK, KernelStep
  PROVE  DOMAIN task' = Pids /\ \A q \in Pids : Moves(q)
<1>1. ASSUME NEW p \in Pids, NEW report \in Ended, task' = EndGroup(p, report)
      PROVE  DOMAIN task' = Pids /\ \A q \in Pids : Moves(q)
  BY <1>1, EndGroupMoves DEF EndGroup
<1>2. PICK p \in Pids : ThreadStep(p) \/ Signal(p) \/ Kill(p)
  BY DEF KernelStep
<1>3. CASE Kill(p) \/ ExitGroup(p)
  BY <1>1, <1>3 DEF Kill, ExitGroup, Ended
<1>. QED  BY <1>2, <1>3, EnterCallMoves, ExitCallMoves, CloneMoves, CloneFailsMoves, ExitMoves,
          ExecveKillsMoves, ExecveMoves, SignalMoves, SignalOfStraceMoves DEF ThreadStep

LEMMA ThreadsSync ==
  ASSUME TracerInv, AllOK, Threads
  PROVE  AllOK'
<1>1. UNCHANGED straceVars /\ pc # "startup" /\ KernelStep
  BY DEF Threads
<1>. QED  BY <1>1, KernelMoves, MovesKeep

-----------------------------------------------------------------------------
(* -b execve: strace detaches from the leader, which is at hand            *)

LEMMA GoingFacts ==
  ASSUME TracerInv, AllOK, pc \in {"detach", "detach_wait"}, NEW p, p = Tcb.pid
  PROVE  /\ p \in Pids /\ Going(p) /\ task[p].leader = p /\ task[p].state # "free"
         /\ DOMAIN task = Pids /\ ThreadOK(p) /\ IsTask(task[p])
         /\ \A q \in Pids \ {p} : Elsewhere(q)
         /\ \A l \in Pids \ {p} : task[l].report = "execve" => task[l].oldpid # p
<1>1. Going(p)
  BY DEF Going
<1>2. p \in Pids /\ pid2tcb(out, p) # {}
  BY <1>1, GoingKnown
<1>3. ThreadOK(p) /\ DOMAIN task = Pids
  BY <1>2 DEF AllOK
<1>4. task[p].leader = p /\ task[p].state # "free" /\ IsTask(task[p])
  BY <1>1, <1>2, <1>3 DEF ThreadOK, ExecveOK, StateOK, Leader
<1>5. \A q \in Pids \ {p} : Elsewhere(q)
  BY DEF Elsewhere, Handled, AtHand, Going
<1>6. \A l \in Pids \ {p} : task[l].report = "execve" => task[l].oldpid # p
  BY <1>4 DEF AllOK, ThreadOK, ExecveOK, ByExecve, Replaced
<1>. QED  BY <1>1, <1>2, <1>3, <1>4, <1>5, <1>6

\* detach() has ended: the thread is not traced any more, or it has ended.
LEMMA DetachEndsSync ==
  ASSUME TracerInv, AllOK, pc \in {"detach", "detach_wait"}, DetachEnds(out), ~Leaving',
         NEW p, p = Tcb.pid,
         DOMAIN task' = Pids, \A q \in Pids \ {p} : task'[q] = task[q],
         NEW u, u = task'[p], IsTask(u),
         u.leader = task[p].leader, u.pending = task[p].pending,
         u.state = "gone" \/ (u.state = "run" /\ ~u.traced),
         u = task[p] \/ u.report = Nothing
  PROVE  AllOK'
<1>1. /\ p \in Pids /\ Going(p) /\ task[p].leader = p /\ task[p].state # "free"
      /\ DOMAIN task = Pids /\ ThreadOK(p)
      /\ \A q \in Pids \ {p} : Elsewhere(q)
      /\ \A l \in Pids \ {p} : task[l].report = "execve" => task[l].oldpid # p
  BY GoingFacts
<1>2. pc' = "restart" /\ tcp' = tcp
  BY DEF DetachEnds, Leaving
<1>3. /\ Drops(out, out', tcp) /\ IsOutput(out) /\ out.tcbtab[tcp].pid = p
      /\ tcp \in DOMAIN out.tcbtab
  BY DetachEndsStep DEF TracerInv, PlaceOK, Tcb
<1>4. Tcb'.pid = 0
  BY <1>2, <1>3 DEF Drops, Tcb
<1>5. \A q \in Pids : q # 0
  BY PidsAssumption
<1>6. \A q \in Pids \ {p} : SameFor(out, out', q)
  BY <1>3, <1>5, DropsSame
<1>7. \A q \in Pids : Elsewhere(q)'
  BY <1>2, <1>4, <1>5 DEF Elsewhere, Handled, AtHand, Going
<1>8. OnlyAbout(p)
  BY <1>1, <1>2, <1>6, <1>7 DEF OnlyAbout
<1>9. SyncOK(p)' /\ KnownOK(p)'
  BY DEF SyncOK, KnownOK, Followed, Alive
<1>10. HandOK(p)'
  BY <1>1, <1>2, <1>7 DEF HandOK, Elsewhere
<1>11. StateOK(p)'
  BY <1>1 DEF ThreadOK, StateOK, Ended, Nothing
<1>12. LeaderOK(p)'
  BY <1>1 DEF LeaderOK
<1>13. ExecveOK(p)'
  <2>1. SUFFICES ASSUME u.report = "execve" PROVE ByExecve(u.oldpid, p)'
    BY <1>1, <1>2, <1>7 DEF ExecveOK, Elsewhere, ByExecve, Replaced, Leader
  <2>2. u = task[p]
    BY <2>1 DEF Nothing
  <2>3. ByExecve(u.oldpid, p)
    BY <1>1, <2>1, <2>2 DEF ThreadOK, ExecveOK
  <2>. QED  BY <1>1, <1>7, <2>3 DEF ByExecve, Replaced, Leader, Elsewhere
<1>14. StartOK(p)'
  BY <1>2 DEF StartOK
<1>15. ThreadOK(p)'
  BY <1>9, <1>10, <1>11, <1>12, <1>13, <1>14 DEF ThreadOK
<1>. QED  BY <1>1, <1>8, <1>15, AboutOne

\* detach() waits for the thread.
LEMMA StillGoingSync ==
  ASSUME TracerInv, AllOK, pc \in {"detach", "detach_wait"}, pc' = "detach_wait",
         UNCHANGED <<out, tcp, status>>, NEW p, p = Tcb.pid,
         DOMAIN task' = Pids, \A q \in Pids \ {p} : task'[q] = task[q],
         NEW u, u = task'[p], IsTask(u),
         u.leader = task[p].leader, u.oldpid = task[p].oldpid,
         u.pending \subseteq {"sigstop", "fatal"},
         \/ u.state = task[p].state /\ u.report = task[p].report
         \/ u.state = "run" /\ u.report = Nothing
  PROVE  AllOK'
<1>1. /\ p \in Pids /\ Going(p) /\ task[p].leader = p /\ task[p].state # "free"
      /\ DOMAIN task = Pids /\ ThreadOK(p)
      /\ \A q \in Pids \ {p} : Elsewhere(q)
      /\ \A l \in Pids \ {p} : task[l].report = "execve" => task[l].oldpid # p
  BY GoingFacts
<1>2. Tcb' = Tcb
  BY DEF Tcb
<1>3. Going(p)' /\ ~AtHand(p)' /\ ~Handled(p)' /\ \A q \in Pids \ {p} : Elsewhere(q)'
  BY <1>2 DEF Elsewhere, Handled, AtHand, Going
<1>4. \A q \in Pids : SameFor(out, out', q)
  BY DEF SameFor, SameCall
<1>5. OnlyAbout(p)
  BY <1>1, <1>3, <1>4 DEF OnlyAbout
<1>6. SyncOK(p)' /\ KnownOK(p)'
  BY <1>3 DEF SyncOK, KnownOK, Followed
<1>7. HandOK(p)'
  BY <1>3 DEF HandOK, AtHand, Handled
<1>8. StateOK(p)'
  BY <1>1, <1>3 DEF ThreadOK, StateOK, Ended, Nothing
<1>9. LeaderOK(p)'
  BY <1>1 DEF LeaderOK
<1>10. ExecveOK(p)'
  <2>1. ASSUME u.report = "execve" PROVE ByExecve(u.oldpid, p)'
    <3>1. task[p].report = "execve"
      BY <2>1 DEF Nothing
    <3>2. ByExecve(u.oldpid, p)
      BY <1>1, <3>1 DEF ThreadOK, ExecveOK
    <3>. QED  BY <1>1, <1>3, <3>2 DEF ByExecve, Replaced, Leader, Elsewhere
  <2>. QED  BY <1>1, <2>1 DEF ExecveOK, ByExecve, Replaced, Leader
<1>11. StartOK(p)'
  BY DEF StartOK
<1>12. ThreadOK(p)'
  BY <1>6, <1>7, <1>8, <1>9, <1>10, <1>11 DEF ThreadOK
<1>. QED  BY <1>1, <1>5, <1>12, AboutOne

LEMMA DetachSync ==
  ASSUME TracerInv, AllOK, Detach, ~Leaving'
  PROVE  AllOK'
<1>1. PICK p : p = Tcb.pid
  OBVIOUS
<1>2. PICK t : t = task[p]
  OBVIOUS
<1>3. pc \in {"detach", "detach_wait"}
  BY DEF Detach, DetachStopped, DetachRunning, DetachGone, DetachWait, DetachNoChild
<1>4. p \in Pids /\ DOMAIN task = Pids /\ IsTask(t) /\ ThreadOK(p)
  BY <1>1, <1>2, <1>3, GoingFacts
<1>5. t.pending \subseteq {"sigstop", "fatal"}
  BY <1>2, <1>4 DEF ThreadOK, StateOK
<1>6. ASSUME task' = Detached(p), DetachEnds(out) PROVE AllOK'
  <2>1. PICK u : u = [t EXCEPT !.state = "run", !.syscalls = FALSE, !.traced = FALSE,
                               !.report = Nothing,
                               !.unseen = t.unseen \/ t.report = "execve"]
    OBVIOUS
  <2>2. DOMAIN task' = Pids /\ task'[p] = u /\ \A q \in Pids \ {p} : task'[q] = task[q]
    BY <1>2, <1>4, <1>6, <2>1 DEF Detached
  <2>3. /\ IsTask(u) /\ u.leader = t.leader /\ u.pending = t.pending
        /\ u.state = "run" /\ ~u.traced /\ u.report = Nothing
    BY <1>4, <2>1 DEF IsTask
  <2>. QED  BY <1>1, <1>2, <1>3, <1>6, <2>2, <2>3, DetachEndsSync
<1>7. ASSUME task' = task, t.state = "gone", DetachEnds(out) PROVE AllOK'
  BY <1>1, <1>2, <1>3, <1>4, <1>7, DetachEndsSync
<1>8. CASE DetachStopped
  BY <1>1, <1>6, <1>8 DEF DetachStopped
<1>9. CASE DetachGone \/ DetachNoChild
  BY <1>1, <1>2, <1>7, <1>9 DEF DetachGone, DetachNoChild
<1>10. CASE DetachRunning
  <2>1. PICK u : u = IF "IGNORE_ONE_SIGSTOP" \in Tcb.flags THEN t
                     ELSE [t EXCEPT !.pending = @ \cup {"sigstop"}]
    OBVIOUS
  <2>2. DOMAIN task' = Pids /\ task'[p] = u /\ \A q \in Pids \ {p} : task'[q] = task[q]
    BY <1>1, <1>2, <1>4, <1>10, <2>1 DEF DetachRunning
  <2>3. /\ IsTask(u) /\ u.leader = t.leader /\ u.oldpid = t.oldpid
        /\ u.pending \subseteq {"sigstop", "fatal"}
        /\ u.state = t.state /\ u.report = t.report
    BY <1>4, <1>5, <2>1 DEF IsTask
  <2>4. pc' = "detach_wait" /\ UNCHANGED <<out, tcp, status>>
    BY <1>10 DEF DetachRunning
  <2>. QED  BY <1>1, <1>2, <1>3, <2>2, <2>3, <2>4, StillGoingSync
<1>11. CASE DetachWait
  <2>1. CASE t.report \in Ended
    <3>1. t.state \in {"dead", "gone"}
      BY <1>2, <1>4, <2>1 DEF ThreadOK, StateOK
    <3>2. PICK u : u = [t EXCEPT !.report = Nothing,
                                 !.state = IF t.state = "dead" THEN "gone" ELSE t.state]
      OBVIOUS
    <3>3. task' = Reaped(p) /\ DetachEnds(out)
      BY <1>1, <1>2, <1>11, <2>1 DEF DetachWait, Ended
    <3>4. DOMAIN task' = Pids /\ task'[p] = u /\ \A q \in Pids \ {p} : task'[q] = task[q]
      BY <1>2, <1>4, <3>2, <3>3 DEF Reaped
    <3>5. /\ IsTask(u) /\ u.leader = t.leader /\ u.pending = t.pending
          /\ u.state = "gone" /\ u.report = Nothing
      BY <1>4, <3>1, <3>2 DEF IsTask
    <3>. QED  BY <1>1, <1>2, <1>3, <3>3, <3>4, <3>5, DetachEndsSync
  <2>2. CASE t.report = "sigstop"
    BY <1>1, <1>2, <1>6, <1>11, <2>2 DEF DetachWait, Ended
  <2>3. CASE t.report = "fatal"
    <3>1. task' = EndGroup(p, "killed") /\ UNCHANGED straceVars /\ pc # "startup"
      BY <1>1, <1>2, <1>11, <2>3 DEF DetachWait, Ended, straceVars
    <3>2. DOMAIN task' = Pids /\ \A q \in Pids : Moves(q)
      BY <1>4, <3>1, EndGroupMoves DEF EndGroup, Ended
    <3>. QED  BY <3>1, <3>2, MovesKeep
  <2>4. CASE t.report \notin Ended \cup {"sigstop", "fatal"}
    <3>1. /\ task' = Restarted(p, FALSE)
          /\ pc = "detach_wait" /\ pc' = pc /\ UNCHANGED <<out, tcp, status>>
      BY <1>1, <1>2, <1>11, <2>4 DEF DetachWait
    <3>2. PICK u : u = [t EXCEPT !.state = "run", !.syscalls = FALSE, !.report = Nothing,
                                 !.unseen = t.unseen \/ t.report = "execve"]
      OBVIOUS
    <3>3. DOMAIN task' = Pids /\ task'[p] = u /\ \A q \in Pids \ {p} : task'[q] = task[q]
      BY <1>2, <1>4, <3>1, <3>2 DEF Restarted
    <3>4. /\ IsTask(u) /\ u.leader = t.leader /\ u.oldpid = t.oldpid /\ u.pending = t.pending
          /\ u.state = "run" /\ u.report = Nothing
      BY <1>4, <3>2 DEF IsTask
    <3>5. /\ IsTask(u) /\ u.leader = task[p].leader /\ u.oldpid = task[p].oldpid
          /\ u.pending \subseteq {"sigstop", "fatal"}
          /\ u.state = "run" /\ u.report = Nothing
      BY <1>2, <1>5, <3>4
    <3>6. pc' = "detach_wait" /\ UNCHANGED <<out, tcp, status>>
      BY <3>1
    <3>. QED  BY <1>1, <1>3, <3>3, <3>5, <3>6, StillGoingSync
  <2>. QED  BY <2>1, <2>2, <2>3, <2>4
<1>. QED  BY <1>8, <1>9, <1>10, <1>11 DEF Detach

-----------------------------------------------------------------------------
(* strace starts, and the rest                                             *)

LEMMA StartupSync ==
  ASSUME TracerInv, AllOK, NEW p \in Pids, Startup(p)
  PROVE  AllOK'
<1>1. PICK t : t = task[p]
  OBVIOUS
<1>2. /\ pc = "startup" /\ pc' = "startup" /\ t.state = "run" /\ ~t.traced
      /\ UNCHANGED <<tcp, status>> /\ StartTracing(p)
  BY <1>1 DEF Startup
<1>3. /\ DOMAIN task = Pids /\ IsTask(t) /\ ThreadOK(p) /\ ~t.incall
      /\ \A q \in Pids : task[q].report # "execve"
  BY <1>1, <1>2 DEF AllOK, ThreadOK, StateOK, StartOK, Nothing
<1>4. PICK u : u = [t EXCEPT !.traced = TRUE, !.syscalls = TRUE,
                             !.state = IF seize THEN "stop" ELSE "run",
                             !.report = IF seize THEN "start" ELSE Nothing,
                             !.pending = IF seize THEN {} ELSE {"sigstop"}]
  OBVIOUS
<1>5. DOMAIN task' = Pids /\ task'[p] = u /\ \A q \in Pids \ {p} : task'[q] = task[q]
  BY <1>1, <1>2, <1>3, <1>4 DEF StartTracing
<1>6. /\ IsTask(u) /\ u.traced /\ u.syscalls /\ u.leader = t.leader /\ u.incall = t.incall
      /\ u.pending \subseteq {"sigstop"} /\ u.state \in {"run", "stop"}
      /\ u.report \in {"start", Nothing} /\ (u.state = "run" => u.report = Nothing)
  BY <1>3, <1>4 DEF IsTask
<1>7. /\ pid2tcb(out', p) # {} /\ Silent(out', p)
      /\ \A q \in Pids \ {p} : SameFor(out, out', q)
  BY StartupAttaches, AttachesSame DEF TracerInv
<1>8. \A q \in Pids : ~Handled(q) /\ ~AtHand(q) /\ ~Going(q)
                      /\ ~Handled(q)' /\ ~AtHand(q)' /\ ~Going(q)'
  BY <1>2 DEF Handled, AtHand, Going
<1>9. OnlyAbout(p)
  BY <1>1, <1>2, <1>3, <1>5, <1>6, <1>7, <1>8 DEF OnlyAbout, Elsewhere
<1>10. SyncOK(p)'
  <2>1. Due(p)' = u.report
    BY <1>2, <1>5 DEF Due
  <2>. QED  BY <1>3, <1>5, <1>6, <1>7, <2>1 DEF SyncOK, Nothing
<1>11. KnownOK(p)'
  BY <1>7 DEF KnownOK
<1>12. HandOK(p)'
  BY <1>2, <1>8 DEF HandOK
<1>13. StateOK(p)'
  BY <1>5, <1>6 DEF StateOK, Ended, Nothing
<1>14. LeaderOK(p)'
  BY <1>1, <1>2, <1>3, <1>5, <1>6, <1>9 DEF ThreadOK, LeaderOK, OnlyAbout
<1>15. ExecveOK(p)'
  BY <1>2, <1>5, <1>6, <1>8 DEF ExecveOK, Nothing
<1>16. StartOK(p)'
  BY <1>3, <1>5, <1>6 DEF StartOK
<1>17. ThreadOK(p)'
  BY <1>10, <1>11, <1>12, <1>13, <1>14, <1>15, <1>16 DEF ThreadOK
<1>. QED  BY <1>9, <1>17, AboutOne

LEMMA StartupEndsSync ==
  ASSUME AllOK, StartupEnds
  PROVE  AllOK'
<1>1. /\ pc = "startup" /\ pc' = "wait" /\ UNCHANGED <<out, tcp, status, task>>
      /\ DOMAIN task' = Pids
  BY DEF StartupEnds, kernelVars, AllOK
<1>2. SUFFICES ASSUME NEW p \in Pids PROVE ThreadOK(p)'
  BY <1>1 DEF AllOK
<1>3. ThreadOK(p)
  BY DEF AllOK
<1>4. /\ ~Handled(p) /\ ~AtHand(p) /\ ~Going(p)
      /\ ~Handled(p)' /\ ~AtHand(p)' /\ ~Going(p)'
  BY <1>1 DEF Handled, AtHand, Going
<1>5. (Followed(p)' <=> Followed(p)) /\ Due(p)' = Due(p)
  BY <1>1, <1>4 DEF Followed, Alive, Due
<1>6. SyncOK(p)' /\ KnownOK(p)'
  BY <1>1, <1>3, <1>5 DEF ThreadOK, SyncOK, KnownOK, Says, Silent
<1>7. HandOK(p)'
  BY <1>1, <1>4 DEF HandOK
<1>8. StateOK(p)'
  BY <1>1, <1>3, <1>4 DEF ThreadOK, StateOK
<1>9. LeaderOK(p)'
  BY <1>1, <1>3 DEF ThreadOK, LeaderOK
<1>10. ExecveOK(p)'
  BY <1>1, <1>3, <1>4 DEF ThreadOK, ExecveOK, StartOK, Nothing
<1>11. StartOK(p)'
  BY <1>1 DEF StartOK
<1>. QED  BY <1>6, <1>7, <1>8, <1>9, <1>10, <1>11 DEF ThreadOK

LEMMA SameSync ==
  ASSUME AllOK, UNCHANGED <<out, pc, tcp, status, task>>
  PROVE  AllOK'
  BY DEF AllOK, ThreadOK, SyncOK, KnownOK, HandOK, StateOK, LeaderOK, ExecveOK, StartOK,
     Followed, Due, AtHand, Handled, Going, Tcb, Alive, Stopped, Held, Says, Silent,
     ByExecve, Replaced, Leader

\* strace that exits goes on to do so.
LEMMA StillLeaving ==
  ASSUME TracerInv, Leaving, [Next]_tracerVars
  PROVE  Leaving'
<1>1. CASE Threads \/ Interrupt \/ UNCHANGED tracerVars
  BY <1>1 DEF Leaving, Threads, Interrupt, straceVars, tracerVars
<1>2. CASE Cleanup \/ CleanupEnds \/ Detach
  BY <1>2 DEF Leaving, Cleanup, CleanupEnds, Detach, DetachStopped, DetachRunning,
     DetachGone, DetachWait, DetachNoChild, DetachEnds
<1>3. ~Handle
  BY DEF Leaving, Handle, HandleEnd, HandleEvent, HandleExecve, HandleSignal,
     HandleInterrupted, EnterUnreadable, EnterSilently, Enter, Dump, DumpAborts,
     ExitUnreadable, Leave, Entering, Exiting, Handling
<1>4. ~RestartTracee /\ ~StartupEnds /\ ~LoopEnds /\ ~WaitFindsNone
      /\ \A p \in Pids : ~Startup(p) /\ ~Wait(p)
  BY DEF Leaving, RestartTracee, StartupEnds, LoopEnds, WaitFindsNone, Startup, Wait
<1>. QED  BY <1>1, <1>2, <1>3, <1>4 DEF Next, StraceStep

LEMMA SyncStep ==
  ASSUME TracerInv, SyncInv, [Next]_tracerVars
  PROVE  SyncInv'
<1>1. CASE Leaving
  BY <1>1, StillLeaving DEF SyncInv
<1>2. SUFFICES ASSUME AllOK, ~Leaving, ~Leaving' PROVE AllOK'
  BY <1>1 DEF SyncInv
<1>3. CASE \E p \in Pids : Startup(p)
  BY <1>2, <1>3, StartupSync
<1>4. CASE \E p \in Pids : Wait(p)
  BY <1>2, <1>4, WaitSync
<1>5. CASE Handle
  BY <1>2, <1>5, HandleSync
<1>6. CASE RestartTracee
  BY <1>2, <1>6, RestartedSync, NotRestartedSync
<1>7. CASE Detach
  BY <1>2, <1>7, DetachSync
<1>8. CASE StartupEnds
  BY <1>2, <1>8, StartupEndsSync
<1>9. CASE Threads
  BY <1>2, <1>9, ThreadsSync
<1>10. CASE Interrupt \/ UNCHANGED tracerVars
  <2>1. UNCHANGED <<out, pc, tcp, status, task>>
    BY <1>10 DEF Interrupt, tracerVars, straceVars, kernelVars
  <2>. QED  BY <1>2, <2>1, SameSync
<1>11. ~LoopEnds /\ ~WaitFindsNone /\ ~Cleanup /\ ~CleanupEnds
  BY <1>2 DEF Leaving, LoopEnds, WaitFindsNone, Cleanup, CleanupEnds
<1>. QED  BY <1>3, <1>4, <1>5, <1>6, <1>7, <1>8, <1>9, <1>10, <1>11 DEF Next, StraceStep

LEMMA SyncInit == Init => SyncInv
<1>. SUFFICES ASSUME Init PROVE AllOK
  BY DEF SyncInv
<1>1. /\ pc = "startup" /\ DOMAIN task = Pids /\ opt.threads \in Nat
      /\ \A p \in Pids : task[p] = IF p <= opt.threads THEN Running ELSE FreeTask
  BY ScenariosAssumption DEF Init
<1>2. \A p \in Pids : pid2tcb(out, p) = {}
  BY FreeIsTcb DEF Init, EmptyOutput, pid2tcb, InUse, FreeTcb
<1>3. PICK r, f : r = Running /\ f = FreeTask
  OBVIOUS
<1>4. /\ IsTask(f) /\ f.state = "free" /\ ~f.traced /\ ~f.incall /\ f.report = Nothing
      /\ f.pending = {}
  BY <1>3 DEF FreeTask, IsTask
<1>5. /\ IsTask(r) /\ r.state = "run" /\ ~r.traced /\ ~r.incall /\ r.report = Nothing
      /\ r.pending = {} /\ r.leader = 1
  <2>1. r = [f EXCEPT !.state = "run", !.leader = 1, !.launch = opt.child]
    BY <1>3 DEF Running
  <2>. QED  BY <1>4, <2>1 DEF IsTask
<1>6. SUFFICES ASSUME NEW p \in Pids PROVE ThreadOK(p)
  BY <1>1 DEF AllOK
<1>7. task[p] \in {r, f} /\ ~task[p].traced
  BY <1>1, <1>3, <1>4, <1>5
<1>8. SyncOK(p) /\ KnownOK(p)
  BY <1>7 DEF SyncOK, KnownOK, Followed
<1>9. HandOK(p)
  BY <1>1 DEF HandOK, AtHand, Handled
<1>10. StateOK(p)
  BY <1>2, <1>4, <1>5, <1>7 DEF StateOK, Ended, Nothing
<1>11. LeaderOK(p)
  <2>1. SUFFICES ASSUME task[p].state # "free" PROVE 1 \in Pids /\ task[1] = r
    BY <1>5, <1>7, <1>4, <2>1 DEF LeaderOK
  <2>2. p <= opt.threads
    BY <1>1, <1>3, <1>4, <2>1
  <2>3. 1 \in Pids /\ 1 <= opt.threads
    BY <1>1, <2>2, ThreadsAssumption, PidsAssumption
  <2>. QED  BY <1>1, <1>3, <2>3
<1>12. ExecveOK(p)
  BY <1>1, <1>4, <1>5, <1>7 DEF ExecveOK, Going, Nothing
<1>13. StartOK(p)
  BY <1>4, <1>5, <1>7 DEF StartOK
<1>. QED  BY <1>8, <1>9, <1>10, <1>11, <1>12, <1>13 DEF ThreadOK

LEMMA SyncSays == TracerInv /\ SyncInv => InSync
<1>. SUFFICES ASSUME TracerInv, SyncInv, Handling({"syscall"}), Readable, ~Overtaken(status.pid),
                     NEW p, p = status.pid
              PROVE  /\ ("INSYSCALL" \in Tcb.flags) = ~task[p].incall
                     /\ ~task[p].incall => Tcb.call = task[p].call
  BY DEF InSync
<1>1. pc = "handle" /\ status.report = "syscall" /\ AllOK
  BY DEF Handling, SyncInv, Leaving
<1>2. p \in Pids /\ ThreadOK(p) /\ IsTask(task[p])
  BY <1>1, HandledTcb DEF AllOK, ThreadOK, StateOK
<1>3. AtHand(p) /\ ~Going(p)
  BY <1>1 DEF AtHand, Handled, Ended, Going
<1>4. task[p].traced /\ task[p].report = Nothing
  BY <1>2, <1>3 DEF ThreadOK, HandOK, Held, Readable, Overtaken
<1>5. Followed(p)
  BY <1>2, <1>3, <1>4 DEF Followed, Alive, Stopped, Readable, Overtaken
<1>6. /\ "INSYSCALL" \in Tcb.flags <=> ~task[p].incall
      /\ ~task[p].incall => Tcb.call = task[p].call
  BY <1>1, <1>5, SyscallStop
<1>. QED  BY <1>6

\* At every stop for a system call that strace reads, the block and the thread
\* agree on whether it is the entry or the exit, and of which call, whatever the
\* threads, the options and the sizes: trace_syscall never takes one for the other.
THEOREM CallsInSync == Spec => []InSync
<1>1. Init => SyncInv
  BY SyncInit
<1>2. TracerInv /\ SyncInv /\ [Next]_tracerVars => SyncInv'
  BY SyncStep
<1>3. TracerInv /\ SyncInv => InSync
  BY SyncSays
<1>. QED  BY <1>1, <1>2, <1>3, TracerInvariant, PTL DEF Spec

-----------------------------------------------------------------------------
(* The table of blocks and the threads there are                           *)

\* No thread of the process of l runs but perhaps l.
NoneRuns(l) == \A r \in Pids \ {l} : task[r].leader = l => ~Alive(r)

\* An execve has replaced thread p by its leader.  strace has missed the report, or
\* has still to take it unless the process has ended before that, or is at it.
Stale(p) ==
    LET l == task[p].leader IN
    /\ l # p /\ task[p].state = "gone"
    /\ \/ task[l].unseen
       \/ /\ task[l].oldpid = p /\ NoneRuns(l)
          /\ (task[l].report = "execve" \/ ~Alive(l))
       \/ /\ pc = "handle" /\ status.report = "execve"
          /\ status.pid = l /\ status.oldpid = p

\* A block is that of a thread which strace traces and which is not gone, or whose
\* end strace is at, or is stale.
BlockOK(p) == pid2tcb(out, p) # {} =>
    \/ task[p].traced /\ task[p].state # "gone"
    \/ pc = "handle" /\ status.pid = p /\ status.report \in Ended
    \/ Stale(p)

\* Of a thread that has ended, there is nothing else to report.
DeadOK(p) ==
    task[p].traced /\ task[p].state \in {"dead", "gone"} =>
        task[p].report \in Ended \cup {Nothing}

TableOK(p) == BlockOK(p) /\ DeadOK(p)

BlocksInv == Leaving \/ \A p \in Pids : TableOK(p)

\* The report at hand is why there is still a block for q.
Reporting(q) ==
    /\ pc = "handle"
    /\ \/ status.pid = q /\ status.report \in Ended
       \/ status.report = "execve" /\ status.oldpid = q /\ status.pid # q

\* Thread p is the only one that changes, and does not begin to run.
StepOn(p) ==
    /\ \A q \in Pids \ {p} : task'[q] = task[q]
    /\ task'[p].leader = task[p].leader /\ task'[p].oldpid = task[p].oldpid
    /\ task[p].unseen => task'[p].unseen
    /\ Alive(p)' => Alive(p)
    /\ task[p].report = "execve" =>
          \/ task'[p].report = "execve" \/ task'[p].unseen \/ ~Alive(p)'
          \/ /\ pc' = "handle" /\ status'.report = "execve"
             /\ status'.pid = p /\ status'.oldpid = task[p].oldpid

LEMMA BlockStays ==
  ASSUME AllOK, NEW p \in Pids, StepOn(p), NEW q \in Pids, TableOK(q),
         task'[q] = task[q],
         pid2tcb(out', q) # {} => pid2tcb(out, q) # {} /\ ~Reporting(q)
  PROVE  TableOK(q)'
<1>1. DeadOK(q)'
  BY DEF TableOK, DeadOK
<1>2. SUFFICES ASSUME pid2tcb(out, q) # {}, ~Reporting(q) PROVE BlockOK(q)'
  BY <1>1 DEF TableOK, BlockOK
<1>3. (task[q].traced /\ task[q].state # "gone") \/ Stale(q)
  BY <1>2 DEF TableOK, BlockOK, Reporting
<1>4. ASSUME Stale(q) PROVE Stale(q)'
  <2>1. PICK l : l = task[q].leader
    OBVIOUS
  <2>2. l \in Pids /\ l # q /\ task[q].state = "gone" /\ task[l].leader = l
    BY <1>4, <2>1 DEF Stale, AllOK, ThreadOK, LeaderOK
  <2>3. \/ task[l].unseen
        \/ task[l].oldpid = q /\ NoneRuns(l) /\ (task[l].report = "execve" \/ ~Alive(l))
    BY <1>2, <1>4, <2>1 DEF Stale, Reporting
  <2>4. ASSUME NoneRuns(l) PROVE NoneRuns(l)'
    BY <2>4 DEF NoneRuns, StepOn, Alive
  <2>5. \/ task'[l].unseen
        \/ task'[l].oldpid = q /\ NoneRuns(l)' /\ (task'[l].report = "execve" \/ ~Alive(l)')
        \/ /\ pc' = "handle" /\ status'.report = "execve"
           /\ status'.pid = l /\ status'.oldpid = q
    <3>1. CASE l = p
      BY <2>3, <2>4, <3>1 DEF StepOn
    <3>2. CASE l # p
      BY <2>2, <2>3, <2>4, <3>2 DEF StepOn, Alive
    <3>. QED  BY <3>1, <3>2
  <2>. QED  BY <2>1, <2>2, <2>5 DEF Stale
<1>. QED  BY <1>3, <1>4 DEF BlockOK

\* Most steps of strace leave the threads alone.
LEMMA ThreadsAlone ==
  ASSUME AllOK, \A q \in Pids : TableOK(q), task' = task,
         \A q \in Pids :
            pid2tcb(out', q) # {} => pid2tcb(out, q) # {} /\ ~Reporting(q)
  PROVE  \A q \in Pids : TableOK(q)'
<1>1. StepOn(1)
  BY DEF StepOn, Alive
<1>. QED  BY <1>1, BlockStays, ThreadsAssumption

\* Thread p runs on, is not traced any more, or has no block.
LEMMA OneChanges ==
  ASSUME AllOK, \A q \in Pids : TableOK(q), NEW p \in Pids, StepOn(p),
         \A q \in Pids \ {p} :
            pid2tcb(out', q) # {} => pid2tcb(out, q) # {} /\ ~Reporting(q),
         TableOK(p)'
  PROVE  \A q \in Pids : TableOK(q)'
<1>1. ASSUME NEW q \in Pids \ {p} PROVE TableOK(q)'
  BY <1>1, BlockStays DEF StepOn
<1>. QED  BY <1>1

-----------------------------------------------------------------------------
(* The steps of strace                                                     *)

LEMMA NoBlockAfterDrop ==
  ASSUME TracerInv, NEW i \in DOMAIN out.tcbtab, Drops(out, out', i),
         NEW p \in Pids, out.tcbtab[i].pid = p
  PROVE  pid2tcb(out', p) = {}
<1>1. p # 0 /\ IsOutput(out) /\ IsOutput(out')
  BY PidsAssumption DEF TracerInv, Drops
<1>2. pid2tcb(out', p) = {k \in DOMAIN out'.tcbtab : out'.tcbtab[k].pid = p}
  BY <1>1, BlocksOfPid
<1>3. pid2tcb(out, p) = {k \in DOMAIN out.tcbtab : out.tcbtab[k].pid = p}
  BY <1>1, BlocksOfPid
<1>4. ASSUME NEW k \in pid2tcb(out', p) PROVE FALSE
  <2>1. k \in DOMAIN out.tcbtab /\ k # i /\ out.tcbtab[k].pid = p
    BY <1>1, <1>2, <1>4 DEF Drops
  <2>2. k \in pid2tcb(out, p) /\ i \in pid2tcb(out, p)
    BY <1>3, <2>1
  <2>. QED  BY <2>1, <2>2, TheBlock
<1>. QED  BY <1>4

LEMMA NoBlockAfterSwitch ==
  ASSUME TracerInv, NEW j \in DOMAIN out.tcbtab, NEW p \in Pids,
         out.tcbtab[j].pid # p,
         NEW i \in pid2tcb(out, p), i # j, Switches(out, out', j, i)
  PROVE  pid2tcb(out', p) = {}
<1>1. p # 0 /\ IsOutput(out) /\ IsOutput(out')
  BY PidsAssumption DEF TracerInv, Switches
<1>2. pid2tcb(out', p) = {k \in DOMAIN out'.tcbtab : out'.tcbtab[k].pid = p}
  BY <1>1, BlocksOfPid
<1>3. pid2tcb(out, p) = {k \in DOMAIN out.tcbtab : out.tcbtab[k].pid = p}
  BY <1>1, BlocksOfPid
<1>4. ASSUME NEW k \in pid2tcb(out', p) PROVE FALSE
  <2>1. k \in DOMAIN out.tcbtab /\ k # i /\ out.tcbtab[k].pid = p
    BY <1>1, <1>2, <1>4 DEF Switches
  <2>2. k \in pid2tcb(out, p)
    BY <1>3, <2>1
  <2>. QED  BY <2>1, <2>2, TheBlock
<1>. QED  BY <1>4

LEMMA HandleEndBlocks ==
  ASSUME TracerInv, AllOK, \A q \in Pids : TableOK(q), HandleEnd
  PROVE  \A q \in Pids : TableOK(q)'
<1>1. /\ pc = "handle" /\ task' = task /\ status.report \in Ended
  BY DEF HandleEnd, Handling, Goes, kernelVars
<1>2. /\ tcp \in DOMAIN out.tcbtab /\ Drops(out, out', tcp)
  BY HandleEndStep
<1>3. status.pid \in Pids /\ out.tcbtab[tcp].pid = status.pid
  BY <1>1, HandledTcb DEF Tcb
<1>4. pid2tcb(out', status.pid) = {}
  BY <1>2, <1>3, NoBlockAfterDrop
<1>5. \A q \in Pids \ {status.pid} : SameFor(out, out', q)
  BY <1>1, <1>2, AllOthers
<1>6. ASSUME NEW q \in Pids, pid2tcb(out', q) # {}
      PROVE  pid2tcb(out, q) # {} /\ ~Reporting(q)
  BY <1>1, <1>4, <1>5, <1>6 DEF SameFor, Reporting, Ended
<1>. QED  BY <1>1, <1>6, ThreadsAlone

LEMMA HandleExecveBlocks ==
  ASSUME TracerInv, AllOK, \A q \in Pids : TableOK(q), HandleExecve
  PROVE  \A q \in Pids : TableOK(q)'
<1>1. /\ pc = "handle" /\ status.report = "execve" /\ task' = task
  BY DEF HandleExecve, Handling, kernelVars
<1>2. PICK p, old : p = status.pid /\ old = status.oldpid
  OBVIOUS
<1>3. /\ p \in Pids /\ p # 0 /\ tcp \in DOMAIN out.tcbtab /\ out.tcbtab[tcp].pid = p
      /\ pid2tcb(out, p) = {tcp}
  BY <1>1, <1>2, HandledTcb DEF Tcb
<1>4. IF old # p /\ pid2tcb(out, old) # {}
      THEN \E i \in pid2tcb(out, old) : i # tcp /\ Switches(out, out', tcp, i)
      ELSE Keeps(out, out')
  BY <1>2, HandleExecveStep
<1>5. old \in Pids
  BY <1>1, <1>2, <1>3 DEF AllOK, ThreadOK, ExecveOK, ByExecve
<1>6. ASSUME NEW q \in Pids, pid2tcb(out', q) # {}
      PROVE  pid2tcb(out, q) # {} /\ ~Reporting(q)
  <2>1. CASE q = p
    BY <1>1, <1>2, <1>3, <2>1 DEF Reporting, Ended
  <2>2. CASE q = old /\ q # p
    <3>1. CASE pid2tcb(out, old) # {}
      BY <1>2, <1>3, <1>4, <1>5, <1>6, <2>2, <3>1, NoBlockAfterSwitch
    <3>2. CASE pid2tcb(out, old) = {}
      <4>1. SameFor(out, out', q)
        BY <1>1, <1>2, <1>4, <2>2, <3>2, AllOthers
      <4>. QED  BY <1>6, <2>2, <3>2, <4>1 DEF SameFor
    <3>. QED  BY <3>1, <3>2
  <2>3. CASE q \notin {p, old}
    <3>1. SameFor(out, out', q)
      <4>1. CASE Keeps(out, out')
        BY <1>1, <1>2, <2>3, <4>1, AllOthers
      <4>2. CASE old # p /\ \E i \in pid2tcb(out, old) :
                               i # tcp /\ Switches(out, out', tcp, i)
        BY <1>1, <1>2, <2>3, <4>2, SwitchSays
      <4>. QED  BY <1>4, <4>1, <4>2
    <3>. QED  BY <1>1, <1>2, <1>6, <2>3, <3>1 DEF SameFor, Reporting, Ended
  <2>. QED  BY <2>1, <2>2, <2>3
<1>. QED  BY <1>1, <1>6, ThreadsAlone

\* The other reports leave every block where it is.
LEMMA HandleBlocks ==
  ASSUME TracerInv, AllOK, \A q \in Pids : TableOK(q), Handle, ~Leaving'
  PROVE  \A q \in Pids : TableOK(q)'
<1>1. CASE HandleEnd
  BY <1>1, HandleEndBlocks
<1>2. CASE HandleExecve
  BY <1>2, HandleExecveBlocks
<1>3. CASE HandleInterrupted \/ DumpAborts
  BY <1>3 DEF Leaving, HandleInterrupted, DumpAborts, Goes
<1>4. CASE \/ HandleEvent \/ HandleSignal \/ EnterUnreadable \/ EnterSilently \/ Enter
           \/ Dump \/ ExitUnreadable \/ Leave
  <2>1. /\ task' = task /\ pc \in {"handle", "dump"}
        /\ pc = "handle" => status.report \notin Ended \cup {"execve"}
    BY <1>4 DEF HandleEvent, HandleSignal, EnterUnreadable, EnterSilently, Enter, Dump,
       ExitUnreadable, Leave, Entering, Exiting, Handling, Goes, kernelVars, Ended
  <2>2. Keeps(out, out') \/ \E in, c : Turns(out, out', tcp, in, c)
    BY <1>4, HandleEventStep, HandleSignalStep, EnterUnreadableStep, EnterSilentlyStep,
       EnterStep, DumpStep, ExitUnreadableStep, LeaveStep
  <2>3. \A q \in Pids \ {status.pid} : SameFor(out, out', q)
    BY <2>1, <2>2, AllOthers
  <2>4. pid2tcb(out, status.pid) = {tcp}
    BY <2>1, HandledTcb
  <2>5. ASSUME NEW q \in Pids, pid2tcb(out', q) # {}
        PROVE  pid2tcb(out, q) # {} /\ ~Reporting(q)
    BY <2>1, <2>3, <2>4, <2>5 DEF SameFor, Reporting
  <2>. QED  BY <2>1, <2>5, ThreadsAlone
<1>. QED  BY <1>1, <1>2, <1>3, <1>4 DEF Handle

LEMMA WaitBlocks ==
  ASSUME TracerInv, AllOK, \A q \in Pids : TableOK(q), NEW p \in Pids, Wait(p)
  PROVE  \A q \in Pids : TableOK(q)'
<1>1. /\ pc = "wait" /\ pc' = "handle" /\ status'.pid = p
      /\ status'.report = task[p].report /\ status'.oldpid = task[p].oldpid
      /\ task[p].traced /\ task[p].report # Nothing /\ task' = Reaped(p)
  BY DEF Wait, Waitable
<1>2. DOMAIN task = Pids /\ IsTask(task[p])
  BY DEF AllOK, ThreadOK, StateOK
<1>3. PICK u : u = [task[p] EXCEPT !.report = Nothing,
                                   !.state = IF task[p].state = "dead" THEN "gone"
                                             ELSE task[p].state]
  OBVIOUS
<1>4. task'[p] = u /\ \A q \in Pids \ {p} : task'[q] = task[q]
  BY <1>1, <1>2, <1>3 DEF Reaped
<1>5. /\ u.report = Nothing /\ u.leader = task[p].leader /\ u.traced = task[p].traced
      /\ u.state = IF task[p].state = "dead" THEN "gone" ELSE task[p].state
      /\ u.unseen = task[p].unseen /\ u.oldpid = task[p].oldpid
  BY <1>2, <1>3 DEF IsTask
<1>6. StepOn(p)
  BY <1>1, <1>4, <1>5 DEF StepOn, Alive
<1>7. \A q \in Pids \ {p} : SameFor(out, out', q)
  <2>1. CASE pid2tcb(out, p) # {}
    BY <2>1 DEF Wait, SameFor, SameCall
  <2>2. CASE pid2tcb(out, p) = {}
    <3>1. Attaches(p)
      BY <2>2 DEF Attaches, Wait, PostAttach
    <3>. QED  BY <3>1, AttachesSame DEF TracerInv
  <2>. QED  BY <2>1, <2>2
<1>8. TableOK(p)'
  <2>1. u.state = "gone" => task[p].report \in Ended
    BY <1>1, <1>5 DEF TableOK, DeadOK
  <2>2. BlockOK(p)'
    BY <1>1, <1>4, <1>5, <2>1 DEF BlockOK
  <2>3. DeadOK(p)'
    BY <1>4, <1>5 DEF DeadOK
  <2>. QED  BY <2>2, <2>3 DEF TableOK
<1>. QED  BY <1>1, <1>6, <1>7, <1>8, OneChanges DEF SameFor, Reporting

LEMMA RestartBlocks ==
  ASSUME TracerInv, AllOK, \A q \in Pids : TableOK(q), RestartTracee
  PROVE  \A q \in Pids : TableOK(q)'
<1>1. PICK p : p = Tcb.pid
  OBVIOUS
<1>2. pc = "restart"
  BY DEF RestartTracee
<1>3. CASE ~(p # 0 /\ Stopped(p) /\ task[p].traced)
  <2>1. task' = task /\ Keeps(out, out')
    BY <1>1, <1>3, RestartStep DEF RestartTracee
  <2>2. \A q \in Pids : SameFor(out, out', q)
    BY <2>1, KeepsSame, PidsAssumption DEF TracerInv
  <2>. QED  BY <1>2, <2>1, <2>2, ThreadsAlone DEF SameFor, Reporting
<1>4. CASE p # 0 /\ Stopped(p) /\ task[p].traced
  <2>1. p \in Pids
    <3>1. tcp \in DOMAIN out.tcbtab
      BY <1>2 DEF TracerInv, PlaceOK
    <3>. QED  BY <1>1, <1>4, <3>1, BlockOf DEF TracerInv, IsTcb, Tcb
  <2>2. task' = Restarted(p, TRUE) /\ out' = out
    BY <1>1, <1>4 DEF RestartTracee
  <2>3. DOMAIN task = Pids /\ IsTask(task[p])
    BY <2>1 DEF AllOK, ThreadOK, StateOK
  <2>4. PICK u : u = [task[p] EXCEPT !.state = "run", !.syscalls = TRUE, !.report = Nothing,
                                     !.unseen = task[p].unseen \/ task[p].report = "execve"]
    OBVIOUS
  <2>5. task'[p] = u /\ \A q \in Pids \ {p} : task'[q] = task[q]
    BY <2>1, <2>2, <2>3, <2>4 DEF Restarted
  <2>6. /\ u.report = Nothing /\ u.state = "run" /\ u.traced = task[p].traced
        /\ u.leader = task[p].leader /\ u.oldpid = task[p].oldpid
        /\ u.unseen = (task[p].unseen \/ task[p].report = "execve")
    BY <2>3, <2>4 DEF IsTask
  <2>7. StepOn(p)
    BY <1>4, <2>5, <2>6 DEF StepOn, Alive, Stopped
  <2>8. TableOK(p)'
    BY <1>4, <2>5, <2>6 DEF TableOK, BlockOK, DeadOK
  <2>. QED  BY <1>2, <2>1, <2>2, <2>7, <2>8, OneChanges DEF Reporting
<1>. QED  BY <1>3, <1>4

LEMMA StartupBlocks ==
  ASSUME TracerInv, AllOK, \A q \in Pids : TableOK(q), NEW p \in Pids, Startup(p)
  PROVE  \A q \in Pids : TableOK(q)'
<1>1. PICK t : t = task[p]
  OBVIOUS
<1>2. /\ pc = "startup" /\ t.state = "run" /\ StartTracing(p)
  BY <1>1 DEF Startup
<1>3. DOMAIN task = Pids /\ IsTask(t) /\ t.report # "execve"
  BY <1>1, <1>2 DEF AllOK, ThreadOK, StateOK, StartOK, Nothing
<1>4. PICK u : u = [t EXCEPT !.traced = TRUE, !.syscalls = TRUE,
                             !.state = IF seize THEN "stop" ELSE "run",
                             !.report = IF seize THEN "start" ELSE Nothing,
                             !.pending = IF seize THEN {} ELSE {"sigstop"}]
  OBVIOUS
<1>5. task'[p] = u /\ \A q \in Pids \ {p} : task'[q] = task[q]
  BY <1>1, <1>2, <1>3, <1>4 DEF StartTracing
<1>6. /\ u.traced /\ u.leader = t.leader /\ u.oldpid = t.oldpid /\ u.unseen = t.unseen
      /\ u.state \in {"run", "stop"}
  BY <1>3, <1>4 DEF IsTask
<1>7. StepOn(p)
  BY <1>1, <1>2, <1>3, <1>5, <1>6 DEF StepOn, Alive
<1>8. \A q \in Pids \ {p} : SameFor(out, out', q)
  BY StartupAttaches, AttachesSame DEF TracerInv
<1>9. TableOK(p)'
  BY <1>5, <1>6 DEF TableOK, BlockOK, DeadOK
<1>. QED  BY <1>2, <1>7, <1>8, <1>9, OneChanges DEF SameFor, Reporting

\* The thread that strace detaches from is the leader: its block is not stale.
LEMMA GoingTable ==
  ASSUME TracerInv, AllOK, \A q \in Pids : TableOK(q), pc \in {"detach", "detach_wait"},
         NEW p, p = Tcb.pid
  PROVE  /\ p \in Pids /\ task[p].leader = p /\ DOMAIN task = Pids /\ IsTask(task[p])
         /\ task[p].traced /\ task[p].state \in {"run", "stop", "dead"}
         /\ tcp \in DOMAIN out.tcbtab /\ out.tcbtab[tcp].pid = p
<1>1. /\ p \in Pids /\ Going(p) /\ task[p].leader = p /\ task[p].state # "free"
      /\ DOMAIN task = Pids /\ ThreadOK(p) /\ IsTask(task[p])
  BY GoingFacts
<1>2. pid2tcb(out, p) # {}
  BY <1>1, GoingKnown
<1>3. task[p].traced /\ task[p].state # "gone"
  BY <1>1, <1>2 DEF TableOK, BlockOK, Stale
<1>4. task[p].state \in {"run", "stop", "dead"}
  BY <1>1, <1>3 DEF ThreadOK, StateOK
<1>5. tcp \in DOMAIN out.tcbtab /\ out.tcbtab[tcp].pid = p
  BY <1>1 DEF TracerInv, PlaceOK, Tcb
<1>. QED  BY <1>1, <1>3, <1>4, <1>5

\* detach() has ended: its block is dropped.
LEMMA DetachEndsBlocks ==
  ASSUME TracerInv, AllOK, \A q \in Pids : TableOK(q), pc \in {"detach", "detach_wait"},
         DetachEnds(out), NEW p, p = Tcb.pid, StepOn(p), DeadOK(p)'
  PROVE  \A q \in Pids : TableOK(q)'
<1>1. /\ p \in Pids /\ tcp \in DOMAIN out.tcbtab /\ out.tcbtab[tcp].pid = p
  BY GoingTable
<1>2. Drops(out, out', tcp)
  BY DetachEndsStep DEF TracerInv, PlaceOK, Tcb
<1>3. pid2tcb(out', p) = {}
  BY <1>1, <1>2, NoBlockAfterDrop
<1>4. \A q \in Pids \ {p} : SameFor(out, out', q)
  BY <1>1, <1>2, DropsSame, PidsAssumption DEF TracerInv
<1>5. TableOK(p)'
  BY <1>3 DEF TableOK, BlockOK
<1>. QED  BY <1>1, <1>4, <1>5, OneChanges DEF SameFor, Reporting

LEMMA DetachBlocks ==
  ASSUME TracerInv, AllOK, \A q \in Pids : TableOK(q), Detach,
         task' # EndGroup(Tcb.pid, "killed") \/ ~UNCHANGED straceVars
  PROVE  \A q \in Pids : TableOK(q)'
<1>1. PICK p : p = Tcb.pid
  OBVIOUS
<1>2. PICK t : t = task[p]
  OBVIOUS
<1>3. pc \in {"detach", "detach_wait"}
  BY DEF Detach, DetachStopped, DetachRunning, DetachGone, DetachWait, DetachNoChild
<1>4. /\ p \in Pids /\ DOMAIN task = Pids /\ IsTask(t) /\ t.traced
      /\ t.state \in {"run", "stop", "dead"}
  BY <1>1, <1>2, <1>3, GoingTable
<1>5. ASSUME NEW u, task'[p] = u, \A q \in Pids \ {p} : task'[q] = task[q],
             u.leader = t.leader, u.oldpid = t.oldpid, t.unseen => u.unseen,
             u.state \in {"run", "stop"} => t.state \in {"run", "stop"},
             t.report = "execve" =>
                u.report = "execve" \/ u.unseen \/ u.state \notin {"run", "stop"}
      PROVE  StepOn(p)
  BY <1>2, <1>4, <1>5 DEF StepOn, Alive
<1>6. ASSUME task' = Detached(p), DetachEnds(out), t.state # "dead"
      PROVE  \A q \in Pids : TableOK(q)'
  <2>1. PICK u : u = [t EXCEPT !.state = "run", !.syscalls = FALSE, !.traced = FALSE,
                               !.report = Nothing,
                               !.unseen = t.unseen \/ t.report = "execve"]
    OBVIOUS
  <2>2. task'[p] = u /\ \A q \in Pids \ {p} : task'[q] = task[q]
    BY <1>2, <1>4, <1>6, <2>1 DEF Detached
  <2>3. /\ u.leader = t.leader /\ u.oldpid = t.oldpid /\ ~u.traced
        /\ (u.unseen <=> t.unseen \/ t.report = "execve")
    BY <1>4, <2>1 DEF IsTask
  <2>4. StepOn(p)
    BY <1>4, <1>5, <1>6, <2>2, <2>3
  <2>5. DeadOK(p)'
    BY <2>2, <2>3 DEF DeadOK
  <2>. QED  BY <1>1, <1>3, <1>6, <2>4, <2>5, DetachEndsBlocks
\* The block stays, and the thread is still traced.
<1>7. ASSUME UNCHANGED out, pc' = "detach_wait", StepOn(p), NEW u, u = task'[p],
             u.traced, u.state = "run" \/ (u.state = t.state /\ u.report = t.report)
      PROVE  \A q \in Pids : TableOK(q)'
  <2>1. DeadOK(p)
    BY <1>4 DEF TableOK
  <2>2. TableOK(p)'
    BY <1>2, <1>4, <1>7, <2>1 DEF TableOK, BlockOK, DeadOK
  <2>. QED  BY <1>3, <1>4, <1>7, <2>2, OneChanges DEF Reporting
<1>8. CASE DetachStopped
  BY <1>1, <1>2, <1>6, <1>8 DEF DetachStopped, Stopped
<1>9. CASE DetachGone \/ DetachNoChild
  BY <1>1, <1>2, <1>4, <1>9 DEF DetachGone, DetachNoChild
<1>10. CASE DetachRunning
  <2>1. PICK u : u = IF "IGNORE_ONE_SIGSTOP" \in Tcb.flags THEN t
                     ELSE [t EXCEPT !.pending = @ \cup {"sigstop"}]
    OBVIOUS
  <2>2. task'[p] = u /\ \A q \in Pids \ {p} : task'[q] = task[q]
    BY <1>1, <1>2, <1>4, <1>10, <2>1 DEF DetachRunning
  <2>3. /\ u.leader = t.leader /\ u.oldpid = t.oldpid /\ (t.unseen => u.unseen)
        /\ u.state = t.state /\ u.report = t.report /\ u.traced = t.traced
    BY <1>4, <2>1 DEF IsTask
  <2>4. StepOn(p)
    BY <1>5, <2>2, <2>3
  <2>5. pc' = "detach_wait" /\ UNCHANGED out
    BY <1>10 DEF DetachRunning
  <2>. QED  BY <1>4, <1>7, <2>2, <2>3, <2>4, <2>5
<1>11. CASE DetachWait
  <2>1. t.state = "dead" => t.report \in Ended
    BY <1>1, <1>2, <1>4, <1>11 DEF TableOK, DeadOK, DetachWait, Waitable
  <2>2. CASE t.report \in Ended
    <3>1. PICK u : u = [t EXCEPT !.report = Nothing,
                                 !.state = IF t.state = "dead" THEN "gone" ELSE t.state]
      OBVIOUS
    <3>2. task' = Reaped(p) /\ DetachEnds(out)
      BY <1>1, <1>2, <1>11, <2>2 DEF DetachWait, Ended
    <3>3. task'[p] = u /\ \A q \in Pids \ {p} : task'[q] = task[q]
      BY <1>2, <1>4, <3>1, <3>2 DEF Reaped
    <3>4. /\ u.leader = t.leader /\ u.oldpid = t.oldpid /\ u.unseen = t.unseen
          /\ u.report = Nothing
          /\ u.state = IF t.state = "dead" THEN "gone" ELSE t.state
      BY <1>4, <3>1 DEF IsTask
    <3>5. StepOn(p)
      BY <1>5, <2>2, <3>3, <3>4 DEF Ended
    <3>6. DeadOK(p)'
      BY <3>3, <3>4 DEF DeadOK
    <3>. QED  BY <1>1, <1>3, <3>2, <3>5, <3>6, DetachEndsBlocks
  <2>3. CASE t.report = "sigstop"
    BY <1>1, <1>2, <1>6, <1>11, <2>1, <2>3 DEF DetachWait, Ended
  <2>4. CASE t.report \notin Ended \cup {"sigstop"}
    <3>1. /\ task' = Restarted(p, FALSE)
          /\ pc = "detach_wait" /\ pc' = pc /\ UNCHANGED out
      BY <1>1, <1>2, <1>11, <2>4 DEF DetachWait, straceVars
    <3>2. PICK u : u = [t EXCEPT !.state = "run", !.syscalls = FALSE, !.report = Nothing,
                                 !.unseen = t.unseen \/ t.report = "execve"]
      OBVIOUS
    <3>3. task'[p] = u /\ \A q \in Pids \ {p} : task'[q] = task[q]
      BY <1>2, <1>4, <3>1, <3>2 DEF Restarted
    <3>4. /\ u.leader = t.leader /\ u.oldpid = t.oldpid /\ u.traced = t.traced
          /\ u.state = "run" /\ (u.unseen <=> t.unseen \/ t.report = "execve")
      BY <1>4, <3>2 DEF IsTask
    <3>5. StepOn(p)
      BY <1>4, <1>5, <2>1, <2>4, <3>3, <3>4
    <3>. QED  BY <1>4, <1>7, <3>1, <3>3, <3>4, <3>5
  <2>. QED  BY <2>2, <2>3, <2>4
<1>. QED  BY <1>8, <1>9, <1>10, <1>11 DEF Detach

-----------------------------------------------------------------------------
(* The steps of threads                                                    *)

LEMMA MovesKeepStale ==
  ASSUME AllOK, UNCHANGED <<pc, status>>, \A r \in Pids : Moves(r),
         NEW q \in Pids, Stale(q)
  PROVE  Stale(q)'
<1>1. PICK l : l = task[q].leader
  OBVIOUS
<1>2. l \in Pids /\ l # q /\ task[q].state = "gone" /\ task[l].leader = l
      /\ task[l].state # "free"
  BY <1>1 DEF Stale, AllOK, ThreadOK, LeaderOK
<1>3. task'[q].state = "gone" /\ task'[q].leader = l
  <2>1. Stays(task[q], task'[q])
    BY <1>1, <1>2 DEF Moves, Dies, Stops, Passes, Leaves, Born, Takes
  <2>. QED  BY <1>1, <1>2, <2>1 DEF Stays, SameTask
<1>4. task[l].unseen => task'[l].unseen
  BY <1>2 DEF Moves, Stays, Dies, Stops, Passes, Leaves, Born, Takes, SameTask
<1>5. ASSUME task[l].oldpid = q, NoneRuns(l), task[l].report = "execve" \/ ~Alive(l)
      PROVE  /\ task'[l].oldpid = q /\ NoneRuns(l)'
             /\ (task'[l].report = "execve" \/ ~Alive(l)')
  <2>1. task[l].state # "run"
    BY <1>2, <1>5 DEF AllOK, ThreadOK, StateOK, Alive, Nothing
  <2>2. \A r \in Pids : task[r].leader = l => task[r].state # "run"
    BY <1>5, <2>1 DEF NoneRuns, Alive
  <2>3. Stays(task[l], task'[l]) \/ Dies(l, task[l], task'[l])
    <3>1. ~\E p \in Pids \ {l} : Takes(l, task'[l], p)
      BY <2>2 DEF Takes
    <3>. QED  BY <1>2, <2>1, <3>1 DEF Moves, Stops, Passes, Leaves, Born
  <2>4. task'[l].oldpid = q /\ (task'[l].report = "execve" \/ ~Alive(l)')
    BY <1>5, <2>3 DEF Stays, Dies, Alive
  <2>5. ASSUME NEW r \in Pids \ {l}, task'[r].leader = l, Alive(r)' PROVE FALSE
    <3>1. PICK t, u : t = task[r] /\ u = task'[r]
      OBVIOUS
    <3>2. CASE Stays(t, u)
      BY <1>5, <2>5, <3>1, <3>2 DEF Stays, SameTask, NoneRuns, Alive
    <3>3. CASE Stops(r, t, u) \/ Passes(t, u)
      BY <2>2, <2>5, <3>1, <3>3 DEF Stops, Passes, SameTask
    <3>4. CASE Dies(r, t, u) \/ Leaves(r, t, u)
      BY <2>5, <3>1, <3>4 DEF Dies, Leaves, Alive
    <3>5. CASE Born(r, t, u)
      BY <2>2, <2>5, <3>1, <3>5 DEF Born
    <3>6. CASE \E p \in Pids \ {r} : Takes(r, u, p)
      BY <2>5, <3>1, <3>6 DEF Takes
    <3>. QED  BY <3>1, <3>2, <3>3, <3>4, <3>5, <3>6 DEF Moves
  <2>6. NoneRuns(l)'
    BY <2>5 DEF NoneRuns
  <2>. QED  BY <2>4, <2>6
<1>6. \/ task[l].unseen
      \/ task[l].oldpid = q /\ NoneRuns(l) /\ (task[l].report = "execve" \/ ~Alive(l))
      \/ /\ pc = "handle" /\ status.report = "execve"
         /\ status.pid = l /\ status.oldpid = q
  BY <1>1 DEF Stale
<1>7. \/ task'[l].unseen
      \/ /\ task'[l].oldpid = q /\ NoneRuns(l)'
         /\ (task'[l].report = "execve" \/ ~Alive(l)')
      \/ /\ pc' = "handle" /\ status'.report = "execve"
         /\ status'.pid = l /\ status'.oldpid = q
  BY <1>4, <1>5, <1>6
<1>. QED  BY <1>2, <1>3, <1>7 DEF Stale

LEMMA MovesKeepBlocks ==
  ASSUME AllOK, \A q \in Pids : TableOK(q), UNCHANGED straceVars,
         \A r \in Pids : Moves(r)
  PROVE  \A q \in Pids : TableOK(q)'
<1>1. UNCHANGED <<out, pc, status>>
  BY DEF straceVars
<1>2. SUFFICES ASSUME NEW q \in Pids PROVE TableOK(q)'
  OBVIOUS
<1>3. PICK t, u : t = task[q] /\ u = task'[q]
  OBVIOUS
<1>4. Moves(q) /\ TableOK(q) /\ ThreadOK(q)
  BY DEF AllOK
<1>5. DeadOK(q)'
  <2>1. CASE Dies(q, t, u) \/ Stays(t, u)
    BY <1>3, <1>4, <2>1 DEF Stays, Dies, SameTask, TableOK, DeadOK
  <2>2. CASE u.state \in {"run", "stop"} \/ ~u.traced
    BY <1>3, <2>2 DEF DeadOK
  <2>3. \/ Dies(q, t, u) \/ Stays(t, u)
        \/ u.state \in {"run", "stop"} \/ ~u.traced
    BY <1>3, <1>4 DEF Moves, Stops, Passes, Leaves, Born, Takes
  <2>. QED  BY <2>1, <2>2, <2>3
<1>6. SUFFICES ASSUME pid2tcb(out, q) # {} PROVE BlockOK(q)'
  BY <1>1, <1>5 DEF TableOK, BlockOK
<1>7. \/ t.traced /\ t.state # "gone"
      \/ pc = "handle" /\ status.pid = q /\ status.report \in Ended
      \/ Stale(q)
  BY <1>3, <1>4, <1>6 DEF TableOK, BlockOK
<1>8. CASE Stale(q)
  BY <1>1, <1>8, MovesKeepStale DEF BlockOK
<1>9. CASE pc = "handle" /\ status.pid = q /\ status.report \in Ended
  BY <1>1, <1>9 DEF BlockOK
<1>10. CASE t.traced /\ t.state # "gone"
  <2>1. CASE Leaves(q, t, u)
    <3>1. PICK l : l = t.leader
      OBVIOUS
    <3>2. Takes(l, task'[l], q) /\ l # q /\ u.state = "gone" /\ u.leader = l
      BY <2>1, <3>1 DEF Leaves
    <3>3. NoneRuns(l)'
      BY <3>2 DEF Takes, NoneRuns, Alive
    <3>4. task'[l].oldpid = q /\ task'[l].report = "execve"
      BY <3>2 DEF Takes
    <3>5. Stale(q)'
      BY <1>3, <3>2, <3>3, <3>4 DEF Stale
    <3>. QED  BY <3>5 DEF BlockOK
  <2>2. ~Born(q, t, u)
    BY <1>3, <1>10 , <1>4, <1>6 DEF Born, ThreadOK, StateOK
  <2>3. CASE Stays(t, u) \/ Dies(q, t, u) \/ Stops(q, t, u) \/ Passes(t, u)
             \/ \E p \in Pids \ {q} : Takes(q, u, p)
    <3>1. u.traced /\ u.state # "gone"
      BY <1>10, <2>3 DEF Stays, Dies, Stops, Passes, Takes, SameTask
    <3>. QED  BY <1>3, <3>1 DEF BlockOK
  <2>. QED  BY <1>3, <1>4, <2>1, <2>2, <2>3 DEF Moves
<1>. QED  BY <1>7, <1>8, <1>9, <1>10

LEMMA ThreadsBlocks ==
  ASSUME AllOK, \A q \in Pids : TableOK(q), Threads
  PROVE  \A q \in Pids : TableOK(q)'
<1>1. UNCHANGED straceVars /\ KernelStep
  BY DEF Threads
<1>. QED  BY <1>1, KernelMoves, MovesKeepBlocks

-----------------------------------------------------------------------------

LEMMA SameBlocks ==
  ASSUME \A q \in Pids : TableOK(q), UNCHANGED <<out, pc, status, task>>
  PROVE  \A q \in Pids : TableOK(q)'
  BY DEF TableOK, BlockOK, DeadOK, Stale, NoneRuns, Alive

LEMMA BlocksStep ==
  ASSUME TracerInv, SyncInv, BlocksInv, [Next]_tracerVars
  PROVE  BlocksInv'
<1>1. CASE Leaving
  BY <1>1, StillLeaving DEF BlocksInv
<1>2. SUFFICES ASSUME AllOK, \A q \in Pids : TableOK(q), ~Leaving, ~Leaving'
               PROVE  \A q \in Pids : TableOK(q)'
  BY <1>1 DEF SyncInv, BlocksInv
<1>3. CASE \E p \in Pids : Startup(p)
  BY <1>2, <1>3, StartupBlocks
<1>4. CASE \E p \in Pids : Wait(p)
  BY <1>2, <1>4, WaitBlocks
<1>5. CASE Handle
  BY <1>2, <1>5, HandleBlocks
<1>6. CASE RestartTracee
  BY <1>2, <1>6, RestartBlocks
<1>7. CASE Detach
  <2>1. PICK p : p = Tcb.pid
    OBVIOUS
  <2>2. CASE task' = EndGroup(p, "killed") /\ UNCHANGED straceVars
    <3>1. p \in Pids
      <4>1. pc \in {"detach", "detach_wait"}
        BY <1>7 DEF Detach, DetachStopped, DetachRunning, DetachGone, DetachWait,
           DetachNoChild
      <4>. QED  BY <1>2, <2>1, <4>1, GoingFacts
    <3>2. \A r \in Pids : Moves(r)
      BY <1>2, <2>2, <3>1, EndGroupMoves DEF Ended
    <3>. QED  BY <1>2, <2>2, <3>2, MovesKeepBlocks
  <2>. QED  BY <1>2, <1>7, <2>1, <2>2, DetachBlocks
<1>8. CASE StartupEnds
  <2>1. task' = task /\ out' = out /\ pc = "startup"
    BY <1>8 DEF StartupEnds, kernelVars
  <2>. QED  BY <1>2, <2>1, ThreadsAlone DEF Reporting
<1>9. CASE Threads
  BY <1>2, <1>9, ThreadsBlocks
<1>10. CASE Interrupt \/ UNCHANGED tracerVars
  <2>1. UNCHANGED <<out, pc, status, task>>
    BY <1>10 DEF Interrupt, tracerVars, straceVars, kernelVars
  <2>. QED  BY <1>2, <2>1, SameBlocks
<1>11. ~LoopEnds /\ ~WaitFindsNone /\ ~Cleanup /\ ~CleanupEnds
  BY <1>2 DEF Leaving, LoopEnds, WaitFindsNone, Cleanup, CleanupEnds
<1>. QED  BY <1>3, <1>4, <1>5, <1>6, <1>7, <1>8, <1>9, <1>10, <1>11 DEF Next, StraceStep

LEMMA BlocksInit == Init => BlocksInv
<1>. SUFFICES ASSUME Init, NEW p \in Pids PROVE TableOK(p)
  BY DEF BlocksInv
<1>1. pid2tcb(out, p) = {}
  BY FreeIsTcb DEF Init, EmptyOutput, pid2tcb, InUse, FreeTcb
<1>2. ~task[p].traced
  BY DEF Init, Running, FreeTask
<1>. QED  BY <1>1, <1>2 DEF TableOK, BlockOK, DeadOK

LEMMA BlocksSay == TracerInv /\ SyncInv /\ BlocksInv => TableIsCurrent
<1>. SUFFICES ASSUME TracerInv, SyncInv, BlocksInv, pc = "wait" PROVE
         /\ \A i \in DOMAIN out.tcbtab : InUse(out, i) =>
               LET p == out.tcbtab[i].pid IN
               (task[p].traced /\ task[p].state # "gone") \/ TakenOver(p)
         /\ \A p \in Pids :
               task[p].traced /\ Alive(p) /\ task[p].report = Nothing /\ ~task[p].unseen
                  => pid2tcb(out, p) # {}
  BY DEF TableIsCurrent
<1>1. AllOK /\ \A q \in Pids : TableOK(q)
  BY DEF SyncInv, BlocksInv, Leaving
<1>2. ASSUME NEW i \in DOMAIN out.tcbtab, InUse(out, i), NEW p, p = out.tcbtab[i].pid
      PROVE  (task[p].traced /\ task[p].state # "gone") \/ TakenOver(p)
  <2>1. p \in Pids /\ i \in pid2tcb(out, p)
    BY <1>2, BlockOf DEF TracerInv, IsTcb, InUse, pid2tcb
  <2>2. (task[p].traced /\ task[p].state # "gone") \/ Stale(p)
    BY <1>1, <2>1 DEF TableOK, BlockOK
  <2>. QED  BY <2>2 DEF Stale, TakenOver
<1>3. ASSUME NEW p \in Pids, task[p].traced, Alive(p), task[p].report = Nothing,
             ~task[p].unseen
      PROVE  pid2tcb(out, p) # {}
  BY <1>1, <1>3 DEF AllOK, ThreadOK, KnownOK, Followed, Going, AtHand, Handled
<1>. QED  BY <1>2, <1>3

\* Whenever strace waits, its table is that of the threads it traces: every block is
\* that of a thread which can still report, or of one that an execve has replaced,
\* and no thread that runs under its eyes is without one.
THEOREM TableStaysCurrent == Spec => []TableIsCurrent
<1>1. Init => SyncInv /\ BlocksInv
  BY SyncInit, BlocksInit
<1>2. TracerInv /\ SyncInv /\ BlocksInv /\ [Next]_tracerVars => SyncInv' /\ BlocksInv'
  BY SyncStep, BlocksStep
<1>3. TracerInv /\ SyncInv /\ BlocksInv => TableIsCurrent
  BY BlocksSay
<1>. QED  BY <1>1, <1>2, <1>3, TracerInvariant, PTL DEF Spec

-----------------------------------------------------------------------------
(* detach: the SIGSTOP that strace sends to a running thread is taken by   *)
(* the time strace returns, while it follows threads and while it exits    *)

\* strace waits for the stop of p.
Awaited(p) == pc = "detach_wait" /\ Tcb.pid = p

\* SIGSTOP and the stop of an untraced thread, unless strace waits for it or an
\* execve has brought it from another thread.  The thread that brings it does not
\* call execve again before it has taken it.
Settled(t, p, awaited) ==
    /\ IsTask(t) /\ t.pending \subseteq {"sigstop", "fatal"}
    /\ t.state = "run" /\ t.syscalls => t.traced
    /\ t.traced \/ t.state \in {"run", "stop"} => t.leader \in Pids
    /\ t.report # Nothing =>
          \/ t.state = "gone"
          \/ t.state = "dead" /\ t.report \in Ended
          \/ t.state = "stop" /\ t.report \notin Ended
    /\ t.report = "sigstop" => "sigstop" \notin t.pending
    /\ t.state \in {"run", "stop"} /\ "sigstop" \in t.pending =>
          awaited \/ (t.oldpid \notin {0, p} /\ ~(t.incall /\ t.kind = "execve"))
    /\ t.state = "stop" /\ ~t.traced => awaited \/ t.oldpid \notin {0, p}

SettledInv == opt.seize =>
    seize /\ DOMAIN task = Pids /\ \A p \in Pids : Settled(task[p], p, Awaited(p))

\* A thread that nobody waits for, not even after the step, is as settled as it was.
LEMMA StaysSettled ==
  ASSUME NEW t, NEW p, NEW a, NEW b, Settled(t, p, a), a => b
  PROVE  Settled(t, p, b)
  BY DEF Settled

\* A step of one thread.
LEMMA OneSettles ==
  ASSUME SettledInv, opt.seize, UNCHANGED straceVars, seize' = seize, DOMAIN task' = Pids,
         NEW p \in Pids, \A q \in Pids \ {p} : task'[q] = task[q],
         Settled(task'[p], p, Awaited(p))
  PROVE  SettledInv'
<1>1. \A q \in Pids : Awaited(q)' <=> Awaited(q)
  BY DEF Awaited, straceVars, Tcb
<1>. HIDE DEF Awaited
<1>2. \A q \in Pids : Settled(task'[q], q, Awaited(q)')
  <2>1. ASSUME NEW q \in Pids PROVE Settled(task'[q], q, Awaited(q))
    BY DEF SettledInv
  <2>. QED  BY <1>1, <2>1, StaysSettled
<1>. QED  BY <1>2 DEF SettledInv, straceVars

LEMMA DeadIsSettled ==
  ASSUME NEW t, NEW q, NEW a, NEW b, Settled(t, q, a), NEW r \in Ended \cup {Nothing},
         NEW u, u = [t EXCEPT !.state = "dead", !.incall = FALSE, !.report = r]
  PROVE  Settled(u, q, b)
<1>1. IsTask(t) /\ t.pending \subseteq {"sigstop", "fatal"}
  BY DEF Settled
<1>2. IsTask(u) /\ u.state = "dead" /\ u.report = r /\ u.pending = t.pending
  BY <1>1 DEF IsTask
<1>. QED  BY <1>1, <1>2 DEF Settled, Ended, Nothing

LEMMA GroupSettles ==
  ASSUME NEW p \in Pids, NEW report \in Ended, NEW q \in Pids, NEW a, NEW b,
         Settled(task[q], q, a)
  PROVE  Settled(EndGroup(p, report)[q], q, b) \/ EndGroup(p, report)[q] = task[q]
<1>1. PICK t, u : t = task[q] /\ u = EndGroup(p, report)[q]
  OBVIOUS
<1>2. CASE q \in Group(p) /\ ~t.traced
  <2>1. u = [t EXCEPT !.state = "gone"]
    BY <1>1, <1>2 DEF EndGroup
  <2>. QED  BY <1>1, <2>1 DEF Settled, IsTask
<1>3. CASE q \in Group(p) /\ t.traced
  <2>. DEFINE kept == IF t.state = "dead" /\ t.report # Nothing THEN t.report ELSE report
  <2>0. u = [t EXCEPT !.state = "dead", !.incall = FALSE, !.report = kept]
    BY <1>1, <1>3 DEF EndGroup
  <2>1. PICK r : /\ u = [t EXCEPT !.state = "dead", !.incall = FALSE, !.report = r]
                 /\ r = kept
    BY <2>0
  <2>2. r \in Ended
    <3>1. t.state = "dead" /\ t.report # Nothing => t.report \in Ended
      BY <1>1 DEF Settled, Ended, Nothing
    <3>. QED  BY <2>1, <3>1
  <2>3. Settled(t, q, a)
    BY <1>1
  <2>4. u = [t EXCEPT !.state = "dead", !.incall = FALSE, !.report = r]
    BY <2>1
  <2>5. Settled(u, q, b)
    BY <2>2, <2>3, <2>4, DeadIsSettled
  <2>. QED  BY <1>1, <2>5
<1>4. CASE q \notin Group(p)
  BY <1>4 DEF EndGroup
<1>. QED  BY <1>1, <1>2, <1>3, <1>4

\* A process ends.
LEMMA EndSettles ==
  ASSUME SettledInv, opt.seize, UNCHANGED straceVars, seize' = seize,
         NEW p \in Pids, NEW report \in Ended, task' = EndGroup(p, report)
  PROVE  SettledInv'
<1>1. \A q \in Pids : Awaited(q)' <=> Awaited(q)
  BY DEF Awaited, straceVars, Tcb
<1>2. DOMAIN task' = Pids
  BY DEF EndGroup
<1>. HIDE DEF Awaited
<1>3. ASSUME NEW q \in Pids PROVE Settled(task'[q], q, Awaited(q)')
  <2>1. Settled(task[q], q, Awaited(q))
    BY DEF SettledInv
  <2>2. Settled(task'[q], q, Awaited(q)) \/ task'[q] = task[q]
    BY <2>1, GroupSettles
  <2>. QED  BY <1>1, <2>1, <2>2, StaysSettled
<1>. QED  BY <1>2, <1>3 DEF SettledInv, straceVars

LEMMA EnterCallSettles ==
  ASSUME SettledInv, opt.seize, UNCHANGED straceVars, NEW p \in Pids, NEW kind,
         EnterCall(p, kind)
  PROVE  SettledInv'
<1>1. PICK t : t = task[p]
  OBVIOUS
<1>2. Settled(t, p, Awaited(p)) /\ DOMAIN task = Pids /\ t.state = "run" /\ t.pending = {}
  BY <1>1 DEF SettledInv, EnterCall
<1>3. PICK n, c : task' = [task EXCEPT ![p] =
             [t EXCEPT !.state = "stop", !.report = "syscall", !.incall = TRUE, !.kind = kind,
                       !.calls = n, !.call = c]]
  BY <1>1 DEF EnterCall, StopWith
<1>4. PICK u : u = [t EXCEPT !.state = "stop", !.report = "syscall", !.incall = TRUE,
                             !.kind = kind, !.calls = n, !.call = c]
  OBVIOUS
<1>5. t.traced
  BY <1>1, <1>2 DEF Settled, EnterCall
<1>6. Settled(u, p, Awaited(p))
  BY <1>2, <1>4, <1>5 DEF Settled, IsTask, Ended, Nothing
<1>7. DOMAIN task' = Pids /\ task'[p] = u /\ \A q \in Pids \ {p} : task'[q] = task[q]
  BY <1>2, <1>3, <1>4
<1>. QED  BY <1>6, <1>7, OneSettles DEF EnterCall

LEMMA ExitSettles ==
  ASSUME SettledInv, opt.seize, UNCHANGED straceVars, NEW p \in Pids, Exit(p)
  PROVE  SettledInv'
<1>1. PICK t : t = task[p]
  OBVIOUS
<1>2. Settled(t, p, Awaited(p)) /\ DOMAIN task = Pids /\ t.state = "run"
  BY <1>1 DEF SettledInv, Exit, Working
<1>3. PICK u : u = [t EXCEPT !.state = "dead", !.incall = FALSE, !.report = "exited"]
  OBVIOUS
<1>4. Settled(u, p, Awaited(p))
  BY <1>2, <1>3 DEF Settled, IsTask, Ended, Nothing
<1>5. task' = [task EXCEPT ![p] = u]
  BY <1>1, <1>3 DEF Exit, Working, StopWith
<1>6. DOMAIN task' = Pids /\ task'[p] = u /\ \A q \in Pids \ {p} : task'[q] = task[q]
  BY <1>2, <1>5
<1>. QED  BY <1>4, <1>6, OneSettles DEF Exit

LEMMA SignalSettles ==
  ASSUME SettledInv, opt.seize, UNCHANGED straceVars, NEW p \in Pids, Signal(p)
  PROVE  SettledInv'
<1>1. PICK t : t = task[p]
  OBVIOUS
<1>2. Settled(t, p, Awaited(p)) /\ DOMAIN task = Pids /\ t.state = "run" /\ t.traced /\ t.pending = {}
  BY <1>1 DEF SettledInv, Signal
<1>3. PICK u : u = [t EXCEPT !.state = "stop", !.report = "signal"]
  OBVIOUS
<1>4. Settled(u, p, Awaited(p))
  BY <1>2, <1>3 DEF Settled, IsTask, Ended, Nothing
<1>5. task' = [task EXCEPT ![p] = u]
  BY <1>1, <1>3 DEF Signal, StopWith
<1>6. DOMAIN task' = Pids /\ task'[p] = u /\ \A q \in Pids \ {p} : task'[q] = task[q]
  BY <1>2, <1>5
<1>. QED  BY <1>4, <1>6, OneSettles DEF Signal

LEMMA CloneFailsSettles ==
  ASSUME SettledInv, opt.seize, UNCHANGED straceVars, NEW p \in Pids, CloneFails(p)
  PROVE  SettledInv'
<1>1. PICK t : t = task[p]
  OBVIOUS
<1>2. Settled(t, p, Awaited(p)) /\ DOMAIN task = Pids 
  BY <1>1 DEF SettledInv, CloneFails
<1>3. PICK u : u = [t EXCEPT !.kind = "other"]
  OBVIOUS
<1>4. Settled(u, p, Awaited(p))
  BY <1>2, <1>3 DEF Settled, IsTask, Ended, Nothing
<1>5. task' = [task EXCEPT ![p] = u]
  BY <1>1, <1>3 DEF CloneFails, StopWith
<1>6. DOMAIN task' = Pids /\ task'[p] = u /\ \A q \in Pids \ {p} : task'[q] = task[q]
  BY <1>2, <1>5
<1>. QED  BY <1>4, <1>6, OneSettles DEF CloneFails

LEMMA ExitCallSettles ==
  ASSUME SettledInv, opt.seize, UNCHANGED straceVars, NEW p \in Pids, ExitCall(p)
  PROVE  SettledInv'
<1>1. PICK t : t = task[p]
  OBVIOUS
<1>2. Settled(t, p, Awaited(p)) /\ DOMAIN task = Pids /\ t.state = "run" /\ t.traced
  BY <1>1 DEF SettledInv, ExitCall, Working
<1>3. PICK s : s = IF t.syscalls THEN [t EXCEPT !.state = "stop", !.report = "syscall"] ELSE t
  OBVIOUS
<1>4. PICK u : u = [s EXCEPT !.incall = FALSE]
  OBVIOUS
<1>5. task' = [task EXCEPT ![p] = u]
  BY <1>1, <1>3, <1>4 DEF ExitCall, StopWith
<1>6. Settled(s, p, Awaited(p))
  BY <1>2, <1>3 DEF Settled, IsTask, Ended, Nothing
<1>7. Settled(u, p, Awaited(p))
  BY <1>4, <1>6 DEF Settled, IsTask
<1>8. DOMAIN task' = Pids /\ task'[p] = u /\ \A q \in Pids \ {p} : task'[q] = task[q]
  BY <1>2, <1>5
<1>. QED  BY <1>7, <1>8, OneSettles DEF ExitCall

\* A step of two threads.
LEMMA TwoSettle ==
  ASSUME SettledInv, opt.seize, UNCHANGED straceVars, seize' = seize, DOMAIN task' = Pids,
         NEW p \in Pids, NEW r \in Pids,
         \A q \in Pids \ {p, r} : task'[q] = task[q],
         Settled(task'[p], p, Awaited(p)), Settled(task'[r], r, Awaited(r))
  PROVE  SettledInv'
<1>1. \A q \in Pids : Awaited(q)' <=> Awaited(q)
  BY DEF Awaited, straceVars, Tcb
<1>. HIDE DEF Awaited
<1>2. \A q \in Pids : Settled(task'[q], q, Awaited(q)')
  <2>1. ASSUME NEW q \in Pids PROVE Settled(task'[q], q, Awaited(q))
    BY DEF SettledInv
  <2>. QED  BY <1>1, <2>1, StaysSettled
<1>. QED  BY <1>2 DEF SettledInv, straceVars

LEMMA CloneSettles ==
  ASSUME SettledInv, opt.seize, UNCHANGED straceVars, NEW p \in Pids, Clone(p)
  PROVE  SettledInv'
<1>1. PICK t : t = task[p]
  OBVIOUS
<1>2. /\ Settled(t, p, Awaited(p)) /\ DOMAIN task = Pids /\ seize
      /\ t.state = "run" /\ t.traced
  BY <1>1 DEF SettledInv, Clone, Working
<1>3. PICK f : f = FreeTask
  OBVIOUS
<1>4. IsTask(f) /\ f.pending = {} /\ f.syscalls = FALSE
  BY <1>3 DEF FreeTask, IsTask
<1>5. PICK q : /\ q \in Pids /\ task[q].state = "free"
               /\ task' = [task EXCEPT
                    ![p] = [[t EXCEPT !.state = "stop", !.report = "clone"]
                            EXCEPT !.kind = "other"],
                    ![q] = [[f EXCEPT !.state = "stop", !.report = "start"]
                            EXCEPT !.leader = IF t.kind = "fork" THEN q ELSE t.leader,
                                   !.traced = TRUE]]
  BY <1>1, <1>2, <1>3 DEF Clone, StopWith
<1>6. PICK u : u = [[t EXCEPT !.state = "stop", !.report = "clone"] EXCEPT !.kind = "other"]
  OBVIOUS
<1>7. PICK v : v = [[f EXCEPT !.state = "stop", !.report = "start"]
                    EXCEPT !.leader = IF t.kind = "fork" THEN q ELSE t.leader,
                           !.traced = TRUE]
  OBVIOUS
<1>8. Settled(u, p, Awaited(p))
  BY <1>2, <1>6 DEF Settled, IsTask, Ended, Nothing
<1>9. Settled(v, q, Awaited(q))
  <2>1. t.leader \in Pids
    BY <1>2 DEF Settled
  <2>2. /\ IsTask(v) /\ v.state = "stop" /\ v.report = "start" /\ v.pending = {}
        /\ v.traced = TRUE /\ v.leader \in Pids
    BY <1>4, <1>5, <1>7, <2>1 DEF IsTask
  <2>. QED  BY <2>2 DEF Settled, Ended
<1>10. p # q
  BY <1>1, <1>2, <1>5
<1>11. /\ DOMAIN task' = Pids /\ task'[p] = u /\ task'[q] = v
       /\ \A x \in Pids \ {p, q} : task'[x] = task[x]
  BY <1>2, <1>5, <1>6, <1>7, <1>10
<1>. QED  BY <1>5, <1>8, <1>9, <1>11, TwoSettle DEF Clone

LEMMA ExecveKillsSettles ==
  ASSUME SettledInv, opt.seize, UNCHANGED straceVars, NEW p \in Pids, ExecveKills(p)
  PROVE  SettledInv'
<1>1. \A q \in Pids : Awaited(q)' <=> Awaited(q)
  BY DEF Awaited, straceVars, Tcb
<1>2. DOMAIN task' = Pids
  BY DEF ExecveKills
<1>. HIDE DEF Awaited
<1>3. ASSUME NEW q \in Pids PROVE Settled(task'[q], q, Awaited(q)')
  <2>0. Settled(task[q], q, Awaited(q))
    BY DEF SettledInv
  <2>1. CASE q = p
    <3>1. task'[q] = task[q]
      BY <2>1 DEF ExecveKills
    <3>. QED  BY <1>1, <2>0, <3>1, StaysSettled
  <2>2. CASE q # p /\ q = task[p].leader
    <3>1. PICK t, u : t = task[q] /\ u = task'[q]
      OBVIOUS
    <3>2. u = [t EXCEPT !.state = "dead", !.incall = FALSE, !.report = Nothing]
      BY <2>2, <3>1 DEF ExecveKills
    <3>. QED  BY <2>0, <3>1, <3>2, DeadIsSettled
  <2>3. CASE q # p /\ q # task[p].leader
    <3>1. task'[q] = EndGroup(p, "killed")[q]
      BY <2>3 DEF ExecveKills
    <3>2. Settled(task'[q], q, Awaited(q)) \/ task'[q] = task[q]
      BY <2>0, <3>1, GroupSettles DEF Ended
    <3>. QED  BY <1>1, <2>0, <3>2, StaysSettled
  <2>. QED  BY <2>1, <2>2, <2>3
<1>. QED  BY <1>2, <1>3 DEF SettledInv, straceVars, ExecveKills

LEMMA ExecveSettles ==
  ASSUME SettledInv, opt.seize, UNCHANGED straceVars, NEW p \in Pids, Execve(p)
  PROVE  SettledInv'
<1>1. PICK t, l : t = task[p] /\ l = task[p].leader
  OBVIOUS
<1>2. /\ Settled(t, p, Awaited(p)) /\ DOMAIN task = Pids /\ l \in Pids
      /\ t.state = "run" /\ t.traced /\ t.incall /\ t.kind = "execve"
  <2>1. Settled(t, p, Awaited(p)) /\ DOMAIN task = Pids
    BY <1>1 DEF SettledInv
  <2>2. t.state = "run" /\ t.traced /\ t.incall /\ t.kind = "execve"
    BY <1>1 DEF Execve, Working
  <2>. QED  BY <1>1, <2>1, <2>2 DEF Settled
<1>3. PICK n : task' =
         [task EXCEPT ![p].state = "gone", ![p].traced = FALSE,
                      ![l] = [[t EXCEPT !.state = "stop", !.report = "execve"]
                              EXCEPT !.kind = "other", !.oldpid = p, !.launch = FALSE,
                                     !.unseen = t.unseen \/ task[l].unseen,
                                     !.calls = n]]
  BY <1>1 DEF Execve, StopWith
<1>4. PICK u : u = [[t EXCEPT !.state = "stop", !.report = "execve"]
                    EXCEPT !.kind = "other", !.oldpid = p, !.launch = FALSE,
                           !.unseen = t.unseen \/ task[l].unseen, !.calls = n]
  OBVIOUS
<1>5. PICK v : v = [[t EXCEPT !.state = "gone"] EXCEPT !.traced = FALSE]
  OBVIOUS
<1>6. /\ DOMAIN task' = Pids /\ task'[l] = u /\ (p # l => task'[p] = v)
      /\ \A q \in Pids \ {p, l} : task'[q] = task[q]
  BY <1>1, <1>2, <1>3, <1>4, <1>5
<1>7. /\ IsTask(u) /\ u.state = "stop" /\ u.report = "execve" /\ u.oldpid = p
      /\ u.kind = "other" /\ u.traced = t.traced /\ u.pending = t.pending
      /\ u.leader = l
  BY <1>1, <1>2, <1>4 DEF Settled, IsTask
<1>8. /\ IsTask(v) /\ v.state = "gone" /\ v.traced = FALSE /\ v.report = t.report /\ v.pending = t.pending
  BY <1>2, <1>5 DEF Settled, IsTask
<1>9. Settled(v, p, Awaited(p))
  BY <1>2, <1>8 DEF Settled
<1>10. p # 0
  BY PidsAssumption
<1>11. Settled(u, l, Awaited(l))
  <2>1. CASE p = l
    BY <1>2, <1>7, <2>1 DEF Settled, Ended
  <2>2. CASE p # l
    BY <1>2, <1>7, <1>10, <2>2 DEF Settled, Ended
  <2>. QED  BY <2>1, <2>2
<1>. QED  BY <1>2, <1>6, <1>9, <1>11, TwoSettle DEF Execve

LEMMA SignalOfStraceSettles ==
  ASSUME SettledInv, opt.seize, UNCHANGED straceVars, NEW p \in Pids, SignalOfStrace(p)
  PROVE  SettledInv'
<1>1. PICK t : t = task[p]
  OBVIOUS
<1>2. /\ Settled(t, p, Awaited(p)) /\ DOMAIN task = Pids /\ t.state = "run"
      /\ t.pending \subseteq {"sigstop", "fatal"}
  BY <1>1 DEF SettledInv, SignalOfStrace, Settled
<1>3. PICK sig : sig \in t.pending
          /\ task' = IF t.traced
                     THEN [task EXCEPT ![p] = [[t EXCEPT !.state = "stop", !.report = sig]
                                               EXCEPT !.pending = @ \ {sig}]]
                     ELSE IF sig = "sigstop"
                     THEN [task EXCEPT ![p] = [t EXCEPT !.state = "stop", !.pending = {}]]
                     ELSE EndGroup(p, "killed")
  BY <1>1 DEF SignalOfStrace, StopWith
<1>4. CASE t.traced
  <2>1. PICK u : u = [[t EXCEPT !.state = "stop", !.report = sig]
                      EXCEPT !.pending = @ \ {sig}]
    OBVIOUS
  <2>2. /\ IsTask(u) /\ u.state = "stop" /\ u.report = sig /\ u.pending = t.pending \ {sig}
        /\ u.traced = t.traced /\ u.oldpid = t.oldpid /\ u.incall = t.incall
        /\ u.kind = t.kind /\ u.leader = t.leader
    BY <1>2, <2>1 DEF Settled, IsTask
  <2>3. Settled(u, p, Awaited(p))
    BY <1>2, <1>3, <1>4, <2>2 DEF Settled, Ended
  <2>4. DOMAIN task' = Pids /\ task'[p] = u /\ \A q \in Pids \ {p} : task'[q] = task[q]
    BY <1>2, <1>3, <1>4, <2>1
  <2>. QED  BY <2>3, <2>4, OneSettles DEF SignalOfStrace
<1>5. CASE ~t.traced /\ sig = "sigstop"
  <2>1. PICK u : u = [t EXCEPT !.state = "stop", !.pending = {}]
    OBVIOUS
  <2>2. /\ IsTask(u) /\ u.state = "stop" /\ u.report = t.report /\ u.pending = {}
        /\ u.traced = t.traced /\ u.oldpid = t.oldpid /\ u.leader = t.leader
    BY <1>2, <2>1 DEF Settled, IsTask
  <2>3. Settled(u, p, Awaited(p))
    BY <1>2, <1>3, <1>5, <2>2 DEF Settled
  <2>4. DOMAIN task' = Pids /\ task'[p] = u /\ \A q \in Pids \ {p} : task'[q] = task[q]
    BY <1>2, <1>3, <1>5, <2>1
  <2>. QED  BY <2>3, <2>4, OneSettles DEF SignalOfStrace
<1>6. CASE ~t.traced /\ sig # "sigstop"
  <2>1. task' = EndGroup(p, "killed")
    BY <1>3, <1>6
  <2>. QED  BY <2>1, EndSettles DEF Ended, SignalOfStrace
<1>. QED  BY <1>4, <1>5, <1>6

LEMMA ThreadsSettle ==
  ASSUME SettledInv, Threads
  PROVE  SettledInv'
<1>1. CASE ~opt.seize
  BY <1>1 DEF SettledInv, Threads, straceVars
<1>2. CASE opt.seize
  <2>1. UNCHANGED straceVars
    BY DEF Threads
  <2>2. PICK p \in Pids : ThreadStep(p) \/ Signal(p) \/ Kill(p)
    BY DEF Threads, KernelStep
  <2>3. CASE ExitGroup(p) \/ Kill(p)
    BY <1>2, <2>1, <2>3, EndSettles DEF ExitGroup, Kill, Ended
  <2>. QED  BY <1>2, <2>1, <2>2, <2>3, EnterCallSettles, ExitCallSettles, CloneSettles,
            CloneFailsSettles, ExitSettles, ExecveKillsSettles, ExecveSettles,
            SignalSettles, SignalOfStraceSettles DEF ThreadStep
<1>. QED  BY <1>1, <1>2

-----------------------------------------------------------------------------
(* ... and what strace does to them                                        *)

\* A step of strace that changes at most one thread; it waits for no other
\* thread before it or after it.
LEMMA StraceSettles ==
  ASSUME SettledInv, opt.seize, opt' = opt, seize' = seize, DOMAIN task' = Pids,
         NEW p \in Pids, \A q \in Pids \ {p} : task'[q] = task[q],
         \A q \in Pids \ {p} : ~Awaited(q),
         Settled(task'[p], p, Awaited(p)')
  PROVE  SettledInv'
<1>1. ASSUME NEW q \in Pids PROVE Settled(task'[q], q, Awaited(q)')
  <2>1. CASE q # p
    <3>1. Settled(task[q], q, Awaited(q)) /\ ~Awaited(q)
      BY <2>1 DEF SettledInv
    <3>. HIDE DEF Awaited
    <3>2. Settled(task[q], q, Awaited(q)')
      BY <3>1, StaysSettled
    <3>. QED  BY <2>1, <3>2
  <2>. QED  BY <2>1
<1>. QED  BY <1>1 DEF SettledInv

\* The threads are left alone, and strace waits for none before the step.
LEMMA AloneSettles ==
  ASSUME SettledInv, pc # "detach_wait", UNCHANGED <<opt, task, seize>>
  PROVE  SettledInv'
<1>1. \A q \in Pids : ~Awaited(q)
  BY DEF Awaited
<1>. HIDE DEF Awaited
<1>2. ASSUME opt.seize, NEW q \in Pids PROVE Settled(task[q], q, Awaited(q)')
  <2>1. Settled(task[q], q, Awaited(q))
    BY <1>2 DEF SettledInv
  <2>. QED  BY <1>1, <2>1, StaysSettled
<1>. QED  BY <1>2 DEF SettledInv

LEMMA StartupSettles ==
  ASSUME SettledInv, NEW p \in Pids, Startup(p)
  PROVE  SettledInv'
<1>1. CASE ~opt.seize
  BY <1>1 DEF SettledInv, Startup
<1>2. CASE opt.seize
  <2>1. PICK t : t = task[p]
    OBVIOUS
  <2>2. /\ Settled(t, p, Awaited(p)) /\ DOMAIN task = Pids /\ seize /\ t.state = "run"
        /\ \A q \in Pids : ~Awaited(q)
    BY <1>2, <2>1 DEF SettledInv, Startup, Awaited
  <2>3. PICK u : u = [t EXCEPT !.traced = TRUE, !.syscalls = TRUE, !.state = "stop",
                               !.report = "start", !.pending = {}]
    OBVIOUS
  <2>4. task' = [task EXCEPT ![p] = u]
    BY <2>1, <2>2, <2>3 DEF Startup, StartTracing
  <2>. HIDE DEF Awaited
  <2>5. Settled(u, p, Awaited(p)')
    <3>1. IsTask(t) /\ t.leader \in Pids
      BY <2>2 DEF Settled
    <3>2. /\ IsTask(u) /\ u.traced = TRUE /\ u.state = "stop" /\ u.report = "start"
          /\ u.pending = {} /\ u.leader = t.leader
      BY <2>3, <3>1 DEF IsTask
    <3>. QED  BY <3>1, <3>2 DEF Settled, Ended
  <2>6. DOMAIN task' = Pids /\ task'[p] = u /\ \A q \in Pids \ {p} : task'[q] = task[q]
    BY <2>2, <2>4
  <2>. QED  BY <1>2, <2>2, <2>5, <2>6, StraceSettles DEF Startup
<1>. QED  BY <1>1, <1>2

\* What wait4 and the ptrace calls of strace leave of a thread.
LEMMA ReapedIsSettled ==
  ASSUME NEW t, NEW p, NEW a, NEW b, Settled(t, p, a),
         NEW u, u = [t EXCEPT !.report = Nothing,
                              !.state = IF t.state = "dead" THEN "gone" ELSE t.state],
         a => b \/ t.report \in Ended
  PROVE  Settled(u, p, b)
<1>1. /\ IsTask(t) /\ t.pending \subseteq {"sigstop", "fatal"}
      /\ t.report \in Ended => t.state \in {"dead", "gone"}
  BY DEF Settled, Ended, Nothing
<1>2. /\ IsTask(u) /\ u.report = Nothing /\ u.pending = t.pending /\ u.leader = t.leader
      /\ u.traced = t.traced /\ u.syscalls = t.syscalls /\ u.oldpid = t.oldpid
      /\ u.incall = t.incall /\ u.kind = t.kind
      /\ u.state = IF t.state = "dead" THEN "gone" ELSE t.state
  BY <1>1 DEF IsTask
<1>3. CASE t.state \in {"dead", "gone"}
  BY <1>1, <1>2, <1>3 DEF Settled, Nothing
<1>4. CASE t.state \notin {"dead", "gone"}
  <2>1. a => b
    BY <1>1, <1>4
  <2>. QED  BY <1>1, <1>2, <1>4, <2>1 DEF Settled, Nothing
<1>. QED  BY <1>3, <1>4

LEMMA WaitSettles ==
  ASSUME SettledInv, NEW p \in Pids, Wait(p)
  PROVE  SettledInv'
<1>1. CASE ~opt.seize
  BY <1>1 DEF SettledInv, Wait
<1>2. CASE opt.seize
  <2>1. PICK t : t = task[p]
    OBVIOUS
  <2>2. /\ Settled(t, p, Awaited(p)) /\ DOMAIN task = Pids
        /\ \A q \in Pids : ~Awaited(q)
    BY <1>2, <2>1 DEF SettledInv, Wait, Awaited
  <2>3. PICK u : u = [t EXCEPT !.report = Nothing,
                               !.state = IF t.state = "dead" THEN "gone" ELSE t.state]
    OBVIOUS
  <2>4. task' = [task EXCEPT ![p] = u]
    BY <2>1, <2>2, <2>3 DEF Wait, Reaped
  <2>. HIDE DEF Awaited
  <2>5. Settled(u, p, Awaited(p)')
    <3>1. Settled(t, p, Awaited(p))
      BY <2>2
    <3>2. Awaited(p) => Awaited(p)' \/ t.report \in Ended
      BY <2>2
    <3>. QED  BY <2>3, <3>1, <3>2, ReapedIsSettled
  <2>6. DOMAIN task' = Pids /\ task'[p] = u /\ \A q \in Pids \ {p} : task'[q] = task[q]
    BY <2>2, <2>4
  <2>. QED  BY <1>2, <2>2, <2>5, <2>6, StraceSettles DEF Wait
<1>. QED  BY <1>1, <1>2

\* PTRACE_SYSCALL, PTRACE_CONT and PTRACE_DETACH: the thread runs.
Runs(t, u) ==
    /\ IsTask(u) /\ u.state = "run" /\ u.report = Nothing
    /\ u.pending = t.pending /\ u.leader = t.leader /\ u.oldpid = t.oldpid
    /\ u.incall = t.incall /\ u.kind = t.kind
    /\ u.syscalls => u.traced

LEMMA RunningIsSettled ==
  ASSUME NEW t, NEW p, NEW a, NEW b, Settled(t, p, a),
         t.traced \/ t.state = "stop",
         NEW u, Runs(t, u),
         b \/ "sigstop" \notin t.pending \/ (t.state = "stop" /\ ~a)
  PROVE  Settled(u, p, b)
<1>1. /\ t.pending \subseteq {"sigstop", "fatal"} /\ t.leader \in Pids
      /\ t.state = "stop" /\ ~a /\ "sigstop" \in t.pending =>
            t.oldpid \notin {0, p} /\ ~(t.incall /\ t.kind = "execve")
  BY DEF Settled
<1>. QED  BY <1>1 DEF Settled, Runs, Nothing

LEMMA RestartSettles ==
  ASSUME TracerInv, SettledInv, RestartTracee
  PROVE  SettledInv'
<1>1. CASE ~opt.seize
  BY <1>1 DEF SettledInv, RestartTracee
<1>2. CASE UNCHANGED task
  BY <1>2, AloneSettles DEF RestartTracee
<1>3. CASE opt.seize /\ ~UNCHANGED task
  <2>1. PICK p : /\ p = Tcb.pid /\ p # 0 /\ Stopped(p) /\ task[p].traced
                 /\ task' = Restarted(p, TRUE)
    BY <1>3 DEF RestartTracee
  <2>2. p \in Pids
    <3>1. tcp \in DOMAIN out.tcbtab
      BY DEF TracerInv, PlaceOK, RestartTracee
    <3>. QED  BY <2>1, <3>1, BlockOf DEF TracerInv, IsTcb, Tcb
  <2>3. PICK t : t = task[p]
    OBVIOUS
  <2>4. DOMAIN task = Pids /\ \A q \in Pids : ~Awaited(q)
    BY <1>3 DEF SettledInv, RestartTracee, Awaited
  <2>5. PICK n : n = (t.unseen \/ t.report = "execve")
    OBVIOUS
  <2>6. PICK u : u = [t EXCEPT !.state = "run", !.syscalls = TRUE, !.report = Nothing,
                               !.unseen = n]
    OBVIOUS
  <2>7. task' = [task EXCEPT ![p] = u]
    BY <2>1, <2>2, <2>3, <2>4, <2>5, <2>6 DEF Restarted
  <2>8. Settled(t, p, Awaited(p))
    BY <1>3, <2>2, <2>3 DEF SettledInv
  <2>. HIDE DEF Awaited
  <2>9. Settled(u, p, Awaited(p)')
    <3>1. t.traced /\ t.state = "stop" /\ ~Awaited(p)
      BY <2>1, <2>2, <2>3, <2>4 DEF Stopped
    <3>2. IsTask(t)
      BY <2>8 DEF Settled
    <3>3. Runs(t, u)
      BY <2>6, <3>1, <3>2 DEF Runs, IsTask
    <3>. QED  BY <2>8, <3>1, <3>3 DEF Settled, Runs, Nothing
  <2>10. DOMAIN task' = Pids /\ task'[p] = u /\ \A q \in Pids \ {p} : task'[q] = task[q]
    BY <2>2, <2>4, <2>7
  <2>. QED  BY <1>3, <2>2, <2>4, <2>9, <2>10, StraceSettles DEF RestartTracee
<1>. QED  BY <1>1, <1>2, <1>3

LEMMA CleanupSettles ==
  ASSUME TracerInv, SettledInv, Cleanup
  PROVE  SettledInv'
<1>1. CASE ~opt.seize
  BY <1>1 DEF SettledInv, Cleanup
<1>2. CASE UNCHANGED task
  BY <1>2, AloneSettles DEF Cleanup
<1>3. CASE opt.seize /\ ~UNCHANGED task
  <2>1. PICK p : /\ p = Tcb.pid /\ InUse(out, tcp) /\ Alive(p)
                 /\ task' = [task EXCEPT ![p].pending = (@ \ {"sigstop"}) \cup {"fatal"}]
    BY <1>3 DEF Cleanup
  <2>2. p \in Pids
    <3>1. PICK n \in Nat : n >= FirstSize /\ IsBlocks(out.tcbtab, n)
      BY DEF TracerInv, IsOutput
    <3>2. DOMAIN out.tcbtab = 1..n /\ Len(out.tcbtab) = n
      BY <3>1, BlocksAreSeq
    <3>3. tcp # 0 /\ TcpOK /\ tcp <= n
      BY <3>2 DEF TracerInv, PlaceOK, Cleanup
    <3>4. \A a \in Nat : a # 0 /\ a <= n => a \in 1..n
      OBVIOUS
    <3>5. tcp \in DOMAIN out.tcbtab
      BY <3>2, <3>3, <3>4 DEF TcpOK
    <3>. QED  BY <2>1, <3>5, BlockOf DEF TracerInv, IsTcb, InUse, Tcb
  <2>3. PICK t : t = task[p]
    OBVIOUS
  <2>4. /\ Settled(t, p, Awaited(p)) /\ DOMAIN task = Pids
        /\ \A q \in Pids : ~Awaited(q)
    BY <1>3, <2>2, <2>3 DEF SettledInv, Cleanup, Awaited
  <2>5. PICK u : u = [t EXCEPT !.pending = (t.pending \ {"sigstop"}) \cup {"fatal"}]
    OBVIOUS
  <2>6. task' = [task EXCEPT ![p] = u]
    BY <2>1, <2>2, <2>3, <2>4, <2>5
  <2>. HIDE DEF Awaited
  <2>7. Settled(u, p, Awaited(p)')
    <3>1. IsTask(t) /\ ~Awaited(p)
      BY <2>2, <2>4 DEF Settled
    <3>2. /\ IsTask(u) /\ u.pending = (t.pending \ {"sigstop"}) \cup {"fatal"}
          /\ u.report = t.report /\ u.leader = t.leader /\ u.state = t.state
          /\ u.traced = t.traced /\ u.syscalls = t.syscalls /\ u.oldpid = t.oldpid
      BY <2>5, <3>1 DEF IsTask
    <3>. QED  BY <2>4, <3>1, <3>2 DEF Settled
  <2>8. DOMAIN task' = Pids /\ task'[p] = u /\ \A q \in Pids \ {p} : task'[q] = task[q]
    BY <2>2, <2>4, <2>6
  <2>. QED  BY <1>3, <2>2, <2>4, <2>7, <2>8, StraceSettles DEF Cleanup
<1>. QED  BY <1>1, <1>2, <1>3

\* PTRACE_DETACH of a thread that is stopped for SIGSTOP, or that strace does not
\* wait for.
LEMMA DetachedIsSettled ==
  ASSUME NEW t, NEW p, NEW a, NEW b, Settled(t, p, a),
         t.traced \/ t.state = "stop",
         "sigstop" \notin t.pending \/ (t.state = "stop" /\ ~a),
         NEW n, NEW u, u = [t EXCEPT !.state = "run", !.syscalls = FALSE, !.traced = FALSE,
                                     !.report = Nothing, !.unseen = n]
  PROVE  Settled(u, p, b)
<1>1. IsTask(t)
  BY DEF Settled
<1>2. Runs(t, u)
  BY <1>1 DEF Runs, IsTask
<1>. QED  BY <1>2, RunningIsSettled

LEMMA DetachSettles ==
  ASSUME TracerInv, SettledInv, Detach
  PROVE  SettledInv'
<1>1. opt' = opt /\ seize' = seize /\ pc \in {"detach", "detach_wait"}
  BY DEF Detach, DetachStopped, DetachRunning, DetachGone, DetachWait, DetachNoChild,
         DetachEnds
<1>2. CASE ~opt.seize
  BY <1>1, <1>2 DEF SettledInv
<1>3. CASE opt.seize
  <2>1. PICK p : p = Tcb.pid
    OBVIOUS
  <2>2. p \in Pids
    <3>1. tcp \in DOMAIN out.tcbtab /\ Tcb.pid # 0
      BY <1>1 DEF TracerInv, PlaceOK
    <3>. QED  BY <2>1, <3>1, BlockOf DEF TracerInv, IsTcb, Tcb
  <2>3. PICK t, n : t = task[p] /\ n = (t.unseen \/ t.report = "execve")
    OBVIOUS
  <2>4. Settled(t, p, Awaited(p)) /\ DOMAIN task = Pids
    BY <1>3, <2>2, <2>3 DEF SettledInv
  <2>5. IsTask(t)
    BY <2>4 DEF Settled
  <2>6. \A q \in Pids \ {p} : ~Awaited(q)
    BY <2>1 DEF Awaited
  <2>7. Awaited(p) <=> pc = "detach_wait"
    BY <2>1 DEF Awaited
  <2>. DEFINE detached == [t EXCEPT !.state = "run", !.syscalls = FALSE, !.traced = FALSE,
                                    !.report = Nothing, !.unseen = n]
              reaped == [t EXCEPT !.report = Nothing,
                                  !.state = IF t.state = "dead" THEN "gone" ELSE t.state]
              resumed == [t EXCEPT !.state = "run", !.syscalls = FALSE, !.report = Nothing,
                                   !.unseen = n]
  <2>8. ASSUME NEW u, task' = [task EXCEPT ![p] = u] \/ (u = t /\ task' = task),
               Settled(u, p, Awaited(p)')
        PROVE  SettledInv'
    <3>1. DOMAIN task' = Pids /\ task'[p] = u /\ \A q \in Pids \ {p} : task'[q] = task[q]
      BY <2>2, <2>3, <2>4, <2>8
    <3>. HIDE DEF Awaited
    <3>. QED  BY <1>1, <1>3, <2>2, <2>6, <2>8, <3>1, StraceSettles
  <2>9. Reaped(p) = [task EXCEPT ![p] = reaped] /\ Detached(p) = [task EXCEPT ![p] = detached]
        /\ Restarted(p, FALSE) = [task EXCEPT ![p] = resumed]
    BY <2>2, <2>3, <2>4 DEF Reaped, Detached, Restarted
  <2>10. CASE DetachStopped
    <3>1. task' = [task EXCEPT ![p] = detached] /\ t.state = "stop" /\ pc # "detach_wait"
      BY <2>1, <2>3, <2>9, <2>10 DEF DetachStopped, Stopped
    <3>2. ~Awaited(p)
      BY <2>7, <3>1
    <3>. HIDE DEF Awaited
    <3>3. Settled(detached, p, Awaited(p)')
      BY <2>4, <3>1, <3>2, DetachedIsSettled
    <3>. QED  BY <2>8, <3>1, <3>3
  <2>11. CASE DetachRunning
    <3>1. pc' = "detach_wait" /\ t.state \in {"run", "dead"} /\ Tcb' = Tcb
      BY <2>1, <2>3, <2>11 DEF DetachRunning, Tcb
    <3>2. Awaited(p)'
      BY <2>1, <3>1 DEF Awaited
    <3>. HIDE DEF Awaited
    <3>3. CASE task' = task
      <4>1. Settled(t, p, Awaited(p)')
        BY <2>4, <3>2 DEF Settled
      <4>. QED  BY <2>8, <3>3, <4>1
    <3>4. CASE task' = [task EXCEPT ![p].pending = @ \cup {"sigstop"}]
      <4>1. PICK u : u = [t EXCEPT !.pending = t.pending \cup {"sigstop"}]
        OBVIOUS
      <4>2. /\ IsTask(u) /\ u.pending = t.pending \cup {"sigstop"}
            /\ u.report = t.report /\ u.leader = t.leader
            /\ u.state = t.state /\ u.traced = t.traced /\ u.syscalls = t.syscalls
        BY <2>5, <4>1 DEF IsTask
      <4>3. Settled(u, p, Awaited(p)')
        BY <2>4, <3>1, <3>2, <4>2 DEF Settled, Ended, Nothing
      <4>4. task' = [task EXCEPT ![p] = u]
        BY <2>3, <3>4, <4>1
      <4>. QED  BY <2>8, <4>3, <4>4
    <3>. QED  BY <2>1, <2>11, <3>3, <3>4 DEF DetachRunning
  <2>12. CASE DetachGone \/ DetachNoChild
    <3>1. task' = task /\ t.state = "gone"
      BY <2>1, <2>3, <2>12 DEF DetachGone, DetachNoChild
    <3>. HIDE DEF Awaited
    <3>2. Settled(t, p, Awaited(p)')
      BY <2>4, <3>1 DEF Settled
    <3>. QED  BY <2>8, <3>1, <3>2
  <2>13. CASE DetachWait
    <3>1. t.traced /\ pc = "detach_wait"
      BY <2>1, <2>3, <2>13 DEF DetachWait, Waitable
    <3>2. CASE t.report \in Ended /\ task' = Reaped(p)
      <4>. HIDE DEF Awaited
      <4>1. Settled(reaped, p, Awaited(p)')
        BY <2>4, <3>2, ReapedIsSettled
      <4>. QED  BY <2>8, <2>9, <3>2, <4>1
    <3>3. CASE t.report = "sigstop" /\ task' = Detached(p)
      <4>1. "sigstop" \notin t.pending
        BY <2>4, <3>3 DEF Settled
      <4>. HIDE DEF Awaited
      <4>2. Settled(detached, p, Awaited(p)')
        BY <2>4, <3>1, <4>1, DetachedIsSettled
      <4>. QED  BY <2>8, <2>9, <3>3, <4>2
    <3>4. CASE /\ UNCHANGED straceVars /\ seize' = seize
               /\ task' \in {EndGroup(p, "killed"), Restarted(p, FALSE)}
      <4>1. CASE task' = EndGroup(p, "killed")
        BY <1>3, <2>2, <3>4, <4>1, EndSettles DEF Ended
      <4>2. CASE task' = Restarted(p, FALSE)
        <5>1. Awaited(p)'
          BY <2>7, <3>1, <3>4, <2>1 DEF Awaited, straceVars, Tcb
        <5>2. PICK u : u = resumed
          OBVIOUS
        <5>3. Runs(t, u)
          BY <2>5, <5>2 DEF Runs, IsTask
        <5>. HIDE DEF Awaited
        <5>4. Settled(u, p, Awaited(p)')
          BY <2>4, <3>1, <5>1, <5>3, RunningIsSettled
        <5>. QED  BY <2>8, <2>9, <4>2, <5>2, <5>4
      <4>. QED  BY <3>4, <4>1, <4>2
    <3>. QED  BY <2>1, <2>3, <2>13, <3>2, <3>3, <3>4 DEF DetachWait, straceVars
  <2>. QED  BY <2>10, <2>11, <2>12, <2>13 DEF Detach
<1>. QED  BY <1>2, <1>3

LEMMA SettledStep ==
  ASSUME TracerInv, SettledInv, [Next]_tracerVars
  PROVE  SettledInv'
<1>1. CASE \E p \in Pids : Startup(p)
  BY <1>1, StartupSettles
<1>2. CASE \E p \in Pids : Wait(p)
  BY <1>2, WaitSettles
<1>3. CASE RestartTracee
  BY <1>3, RestartSettles
<1>4. CASE Cleanup
  BY <1>4, CleanupSettles
<1>5. CASE Detach
  BY <1>5, DetachSettles
<1>6. CASE Threads
  BY <1>6, ThreadsSettle
<1>7. CASE StartupEnds \/ LoopEnds \/ WaitFindsNone \/ CleanupEnds \/ Interrupt \/ Handle
  <2>1. pc # "detach_wait" /\ UNCHANGED <<opt, task, seize>>
    BY <1>7 DEF StartupEnds, LoopEnds, WaitFindsNone, CleanupEnds, Interrupt, Handle,
       HandleEnd, HandleEvent, HandleExecve, HandleSignal, HandleInterrupted,
       EnterUnreadable, EnterSilently, Enter, Dump, DumpAborts, ExitUnreadable, Leave,
       Entering, Exiting, Handling, Goes, kernelVars
  <2>. QED  BY <2>1, AloneSettles
<1>8. CASE UNCHANGED tracerVars
  <2>1. \A q \in Pids : Awaited(q)' <=> Awaited(q)
    BY <1>8 DEF Awaited, tracerVars, straceVars, Tcb
  <2>2. UNCHANGED <<opt, task, seize>>
    BY <1>8 DEF tracerVars, straceVars, kernelVars
  <2>. HIDE DEF Awaited
  <2>3. ASSUME opt.seize, NEW q \in Pids PROVE Settled(task[q], q, Awaited(q)')
    <3>1. Settled(task[q], q, Awaited(q))
      BY <2>3 DEF SettledInv
    <3>. QED  BY <2>1, <3>1, StaysSettled
  <2>. QED  BY <2>2, <2>3 DEF SettledInv
<1>. QED  BY <1>1, <1>2, <1>3, <1>4, <1>5, <1>6, <1>7, <1>8 DEF Next, StraceStep

LEMMA SettledInit == Init => SettledInv
<1>. SUFFICES ASSUME Init, opt.seize PROVE SettledInv
  BY DEF SettledInv
<1>1. PICK f, r : f = FreeTask /\ r = Running
  OBVIOUS
<1>2. /\ IsTask(f) /\ f.state = "free" /\ f.traced = FALSE /\ f.pending = {}
      /\ f.report = Nothing
  BY <1>1 DEF FreeTask, IsTask
<1>3. f.syscalls = FALSE
  BY <1>1 DEF FreeTask
<1>4. r = [f EXCEPT !.state = "run", !.leader = 1, !.launch = opt.child]
  BY <1>1 DEF Running
<1>5. /\ IsTask(r) /\ r.state = "run" /\ r.traced = FALSE /\ r.pending = {}
      /\ r.report = Nothing /\ r.syscalls = FALSE /\ r.leader \in Pids
  BY <1>2, <1>3, <1>4, ThreadsAssumption DEF IsTask
<1>6. \A p \in Pids : Settled(f, p, Awaited(p)) /\ Settled(r, p, Awaited(p))
  BY <1>2, <1>3, <1>5 DEF Settled, Nothing
<1>7. DOMAIN task = Pids /\ \A p \in Pids : task[p] = f \/ task[p] = r
  BY <1>1 DEF Init
<1>. QED  BY <1>6, <1>7 DEF SettledInv, Init

\* A SIGSTOP that strace sends to detach from a thread never stays behind, whatever
\* ends the wait for it: with PTRACE_SEIZE, and for a thread that no execve has
\* brought into another's place, detach() in strace.c leaves no stopped thread.
THEOREM DetachLeavesRunning == Spec => []DetachedRun
<1>1. SettledInv => DetachedRun
  <2>. SUFFICES ASSUME SettledInv, pc = "done", opt.seize, NEW p \in Pids, Alive(p),
                       task[p].oldpid \in {0, p}
                PROVE  "sigstop" \notin task[p].pending /\ (Stopped(p) => task[p].traced)
    BY DEF DetachedRun
  <2>1. ~Awaited(p)
    BY DEF Awaited
  <2>2. Settled(task[p], p, Awaited(p))
    BY DEF SettledInv
  <2>. QED  BY <2>1, <2>2 DEF Settled, Alive, Stopped
<1>2. TracerInv /\ SettledInv /\ [Next]_tracerVars => SettledInv'
  BY SettledStep
<1>. QED  BY <1>1, <1>2, SettledInit, TracerInvariant, PTL DEF Spec
=============================================================================
