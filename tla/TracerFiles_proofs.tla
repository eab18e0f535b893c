------------------------- MODULE TracerFiles_proofs --------------------------
(***************************************************************************)
(* With -ff, for any number of pids and any scenarios: each line of a log  *)
(* that conv_micro parses has the lines of the stack file and of the dump  *)
(* file that are its own.                                                  *)
(*                                                                         *)
(* The first part says what the files of one name may hold between two     *)
(* steps of strace, the second what each function of TraceOutput and each  *)
(* step does to them, the third what becomes of the numbers of the calls.  *)
(* The last goes through the steps: of the threads, of strace at the       *)
(* thread at hand, of wait4, of the end and of detach.                     *)
(***************************************************************************)
EXTENDS Tracer_proofs

-----------------------------------------------------------------------------
(* The files of one name: its log, the line that is open in it, the lines of *)
(* its stack file and the calls in its dump file.  Between the lines of a    *)
(* log the three are level (Exact); from the entry of a call to its result   *)
(* the other two may be ahead by that call (Open); and no line that can be   *)
(* parsed follows the end of the thread (Over).                              *)

Call == [pid: Pids \cup {0}, n: Nat]
Line == [begins: {"nothing", "call", "resumed", "unknown"}, call: Call]
Texts == {"result", "unfinished", "pid changed", "superseded", "detached", "exited",
          "killed", "signal", "unavailable", "no such process"}
Entry == [begins: {"nothing", "call", "resumed", "unknown"}, ends: Texts, call: Call]
FileSet == [log: Seq(Entry), line: Line, stack: Seq(Call), dump: Seq(Call)]

File(s, f) == [log |-> s.log[f], line |-> s.line[f], stack |-> s.stack[f], dump |-> s.dump[f]]

Dumped(x, line) == \E k \in DOMAIN x.dump : x.dump[k] = line.call
CallsTo(x, k) == {j \in 1..k : Parsed(x.log[j])}
WritesTo(x, k) == {j \in CallsTo(x, k) : Dumped(x, x.log[j])}
NextIs(file, lines, c) == LET n == Cardinality(lines) IN n <= Len(file) /\ file[n] = c

Raises(x) == \E k \in DOMAIN x.log : ~Parsed(x.log[k]) /\ ~Skipped(x.log[k])

\* Every line that is parsed has its lines of the other files.
Aligned(x) == \A k \in DOMAIN x.log : Parsed(x.log[k]) =>
    /\ NextIs(x.stack, CallsTo(x, k), x.log[k].call)
    /\ Dumped(x, x.log[k]) => NextIs(x.dump, WritesTo(x, k), x.log[k].call)

Counted(x, stacks, dumps) ==
    /\ Cardinality(CallsTo(x, Len(x.log))) = stacks
    /\ Cardinality(WritesTo(x, Len(x.log))) = dumps

\* The next line of a call is the next one of the other files.
Exact(x) == x.line.begins # "call" /\ Counted(x, Len(x.stack), Len(x.dump))

\* That of the call which has begun a line is there.
Open(x) ==
    /\ x.line.begins = "call"
    /\ x.stack # << >> /\ x.stack[Len(x.stack)] = x.line.call
    /\ \A k \in DOMAIN x.log : Parsed(x.log[k]) => x.log[k].call # x.line.call
    /\ IF Dumped(x, x.line)
       THEN /\ x.dump # << >> /\ x.dump[Len(x.dump)] = x.line.call
            /\ Counted(x, Len(x.stack) - 1, Len(x.dump) - 1)
       ELSE Counted(x, Len(x.stack) - 1, Len(x.dump))

\* The calls are among the first n of a thread.
Within(x, n) ==
    /\ \A k \in DOMAIN x.log : Parsed(x.log[k]) => x.log[k].call.n <= n
    /\ \A k \in DOMAIN x.stack : x.stack[k].n <= n
    /\ \A k \in DOMAIN x.dump : x.dump[k].n <= n

-----------------------------------------------------------------------------
(* The invariant                                                             *)

Signals == {"signal", "sigstop", "fatal"}

\* The stop of p at an entry is due.
EntryDue(p) ==
    /\ Followed(p) /\ Due(p) = "syscall" /\ task[p].incall
    /\ ~(pc = "dump" /\ status.pid = p)

\* Nothing that p does is the next line of its log.
Over(p) ==
    /\ pc # "startup" /\ task[p].state # "free"
    /\ ~(Handled(p) /\ (pc = "dump" \/ status.report = "syscall"))
    /\ \/ ~Alive(p) \/ ~task[p].traced
       \/ task[p].report = "execve" /\ task[p].oldpid # p
       \/ Handled(p) /\ status.report = "execve" /\ status.oldpid # p

\* The block of p is in a call that is in the log.
Shown(s, p) == \E i \in pid2tcb(s, p) :
    "INSYSCALL" \in s.tcbtab[i].flags /\ "FILTERED" \notin s.tcbtab[i].flags

LinesRight(p, x) ==
    /\ Within(x, task[p].calls)
    /\ EntryDue(p) => Within(x, task[p].calls - 1)
    /\ IF pc = "dump" /\ status.pid = p
       THEN /\ Open(x) /\ x.line.call = Tcb.call /\ ~Dumped(x, x.line)
            /\ "FILTERED" \notin Tcb.flags /\ ~hide
       ELSE Exact(x) \/ (Open(x) /\ Shown(out, p) /\ ~hide) \/ Over(p)

LineOK(p) ==
    LET x == File(out, p) IN
    task[p].unseen \/ Raises(x) \/ (Aligned(x) /\ (Leaving \/ LinesRight(p, x)))

\* Of the thread itself
NumberOf(t) ==
    /\ IsTask(t) /\ t.call \in Call /\ t.calls \in Nat /\ t.call.n <= t.calls
    /\ t.pending \subseteq {"sigstop", "fatal"}
    /\ t.state = "free" => t = FreeTask
    /\ t.state = "run" => t.report = Nothing
    /\ t.report = "execve" => t.kind = "other"
    /\ t.report \in Signals => ~t.incall
    /\ t.report = "syscall" /\ t.incall => t.call.n = t.calls

\* ... and of the stop that strace has in hand.
HandNumberOK(p) ==
    pc = "handle" /\ status.pid = p /\ Stopped(p) /\ task[p].report = Nothing =>
        /\ status.report \in Signals => ~task[p].incall
        /\ status.report = "syscall" /\ task[p].incall => task[p].call.n = task[p].calls

Owned(b) == b.call \in Call /\ IF b.pid = 0 THEN ~b.curcol ELSE b.outf = b.pid

HasFiles(s) ==
    /\ DOMAIN s.log = Files /\ DOMAIN s.line = Files
    /\ DOMAIN s.stack = Files /\ DOMAIN s.dump = Files
    /\ \A f \in Files : File(s, f) \in FileSet
    /\ \A i \in DOMAIN s.tcbtab : Owned(s.tcbtab[i])

NumbersInv == DOMAIN task = Pids /\ \A p \in Pids : NumberOf(task[p])

LinesInv == opt.ff =>
    /\ NumbersInv /\ HasFiles(out) /\ out.log[Shared] = << >>
    /\ pc \in {"restart", "dump"} => out.current = tcp
    /\ \A p \in Pids : LineOK(p) /\ (Leaving \/ HandNumberOK(p))

-----------------------------------------------------------------------------
(* What becomes of the files of one name                                     *)

Grows(x, y) ==
    Len(x.log) <= Len(y.log) /\ \A k \in 1..Len(x.log) : y.log[k] = x.log[k]

SameDumped(x, y) == \A k \in 1..Len(x.log) :
    Parsed(x.log[k]) => (Dumped(y, x.log[k]) <=> Dumped(x, x.log[k]))

\* No line that can be parsed is added.
Quietly(x, y) ==
    /\ x \in FileSet /\ y \in FileSet
    /\ y.stack = x.stack /\ y.dump = x.dump /\ Grows(x, y)
    /\ \A k \in (Len(x.log) + 1)..Len(y.log) : ~Parsed(y.log[k])
    /\ y.line = x.line \/ y.line.begins # "call"

LEMMA LogOf ==
  ASSUME NEW x \in FileSet
  PROVE  /\ x.log \in Seq(Entry) /\ x.stack \in Seq(Call) /\ x.dump \in Seq(Call)
         /\ x.line \in Line
         /\ Len(x.log) \in Nat /\ DOMAIN x.log = 1..Len(x.log)
         /\ Len(x.stack) \in Nat /\ DOMAIN x.stack = 1..Len(x.stack)
         /\ Len(x.dump) \in Nat /\ DOMAIN x.dump = 1..Len(x.dump)
  BY DEF FileSet

LEMMA CountsFinite ==
  ASSUME NEW x, NEW k \in Nat
  PROVE  /\ IsFiniteSet(CallsTo(x, k)) /\ Cardinality(CallsTo(x, k)) \in Nat
         /\ IsFiniteSet(WritesTo(x, k)) /\ Cardinality(WritesTo(x, k)) \in Nat
<1>1. IsFiniteSet(1..k)
  BY FS_Interval
<1>2. CallsTo(x, k) \subseteq 1..k /\ WritesTo(x, k) \subseteq 1..k
  BY DEF CallsTo, WritesTo
<1>. QED  BY <1>1, <1>2, FS_Subset, FS_CardinalityType

LEMMA CountsKept ==
  ASSUME NEW x \in FileSet, NEW y \in FileSet, Grows(x, y), SameDumped(x, y)
  PROVE  /\ \A k \in 0..Len(x.log) :
              CallsTo(y, k) = CallsTo(x, k) /\ WritesTo(y, k) = WritesTo(x, k)
         /\ Raises(x) => Raises(y)
<1>0. /\ Len(x.log) \in Nat /\ DOMAIN x.log = 1..Len(x.log)
      /\ Len(y.log) \in Nat /\ DOMAIN y.log = 1..Len(y.log)
  BY LogOf
<1>1. ASSUME NEW k \in 0..Len(x.log)
      PROVE  CallsTo(y, k) = CallsTo(x, k) /\ WritesTo(y, k) = WritesTo(x, k)
  <2>1. \A j \in 1..k : j \in 1..Len(x.log) /\ y.log[j] = x.log[j]
    BY <1>0 DEF Grows
  <2>2. CallsTo(y, k) = CallsTo(x, k)
    BY <2>1 DEF CallsTo
  <2>3. \A j \in CallsTo(x, k) : j \in 1..k /\ Parsed(x.log[j])
    BY DEF CallsTo
  <2>. QED  BY <2>1, <2>2, <2>3 DEF WritesTo, SameDumped
<1>2. Raises(x) => Raises(y)
  BY <1>0 DEF Raises, Grows
<1>. QED  BY <1>1, <1>2

LEMMA NoneAdded ==
  ASSUME NEW x \in FileSet, NEW y \in FileSet, Grows(x, y), SameDumped(x, y),
         \A k \in (Len(x.log) + 1)..Len(y.log) : ~Parsed(y.log[k])
  PROVE  /\ CallsTo(y, Len(y.log)) = CallsTo(x, Len(x.log))
         /\ WritesTo(y, Len(y.log)) = WritesTo(x, Len(x.log))
<1>0. Len(x.log) \in Nat /\ Len(y.log) \in Nat /\ Len(x.log) <= Len(y.log)
  BY LogOf DEF Grows
<1>1. CallsTo(y, Len(y.log)) = CallsTo(y, Len(x.log))
  BY <1>0 DEF CallsTo
<1>2. WritesTo(y, Len(y.log)) = WritesTo(y, Len(x.log))
  BY <1>1 DEF WritesTo
<1>3. Len(x.log) \in 0..Len(x.log)
  BY <1>0
<1>. QED  BY <1>1, <1>2, <1>3, CountsKept

LEMMA QuietIsSame ==
  ASSUME NEW x, NEW y, Quietly(x, y)
  PROVE  x \in FileSet /\ y \in FileSet /\ Grows(x, y) /\ SameDumped(x, y)
  BY DEF Quietly, SameDumped, Dumped

LEMMA QuietKeeps ==
  ASSUME NEW x, NEW y, Quietly(x, y)
  PROVE  /\ Raises(x) => Raises(y)
         /\ Aligned(x) => Aligned(y)
         /\ Exact(x) => Exact(y)
         /\ Open(x) /\ y.line = x.line => Open(y)
         /\ \A n : Within(x, n) => Within(y, n)
<1>1. x \in FileSet /\ y \in FileSet /\ Grows(x, y) /\ SameDumped(x, y)
  BY QuietIsSame
<1>2. /\ y.stack = x.stack /\ y.dump = x.dump
      /\ \A k \in (Len(x.log) + 1)..Len(y.log) : ~Parsed(y.log[k])
      /\ y.line = x.line \/ y.line.begins # "call"
  BY DEF Quietly
<1>3. /\ Len(x.log) \in Nat /\ DOMAIN x.log = 1..Len(x.log)
      /\ Len(y.log) \in Nat /\ DOMAIN y.log = 1..Len(y.log)
  BY <1>1, LogOf
<1>4. \A k \in DOMAIN y.log : Parsed(y.log[k]) =>
          k \in DOMAIN x.log /\ k \in 0..Len(x.log) /\ y.log[k] = x.log[k]
  BY <1>1, <1>2, <1>3 DEF Grows
<1>5. \A line : Dumped(y, line) <=> Dumped(x, line)
  BY <1>2 DEF Dumped
<1>6. Aligned(x) => Aligned(y)
  BY <1>1, <1>2, <1>4, <1>5, CountsKept DEF Aligned
<1>7. \A a, b : Counted(y, a, b) <=> Counted(x, a, b)
  BY <1>1, <1>2, NoneAdded DEF Counted
<1>8. Exact(x) => Exact(y)
  BY <1>2, <1>7 DEF Exact
<1>9. ASSUME Open(x), y.line = x.line PROVE Open(y)
  BY <1>2, <1>4, <1>5, <1>7, <1>9 DEF Open
<1>10. \A n : Within(x, n) => Within(y, n)
  BY <1>2, <1>4 DEF Within
<1>. QED  BY <1>1, <1>6, <1>8, <1>9, <1>10, CountsKept

LEMMA QuietThrough ==
  ASSUME NEW x, NEW y, NEW z, Quietly(x, y), Quietly(y, z)
  PROVE  Quietly(x, z)
<1>1. /\ Len(x.log) \in Nat /\ Len(y.log) \in Nat /\ Len(z.log) \in Nat
  BY LogOf DEF Quietly
<1>. QED  BY <1>1 DEF Quietly, Grows

-----------------------------------------------------------------------------
(* The ends of lines, and their calls                                        *)

WithEnd(x, text) ==
    [log |-> Append(x.log, [begins |-> x.line.begins, ends |-> text, call |-> x.line.call]),
     line |-> NoLine, stack |-> x.stack, dump |-> x.dump]

WithCall(x, c) ==
    [log |-> x.log, line |-> [begins |-> "call", call |-> c],
     stack |-> Append(x.stack, c), dump |-> x.dump]

WithDump(x, c) ==
    [log |-> x.log, line |-> x.line, stack |-> x.stack, dump |-> Append(x.dump, c)]

LEMMA NoLineIs == NoLine \in Line /\ NoLine.begins = "nothing"
  BY DEF NoLine, Line, NoCall, Call

LEMMA EndedLine ==
  ASSUME NEW x \in FileSet, NEW text \in Texts
  PROVE  LET z == WithEnd(x, text)
             last == [begins |-> x.line.begins, ends |-> text, call |-> x.line.call]
         IN  /\ z \in FileSet /\ Len(z.log) = Len(x.log) + 1 /\ Grows(x, z)
             /\ z.log[Len(z.log)] = last
             /\ z.line = NoLine /\ z.stack = x.stack /\ z.dump = x.dump
             /\ SameDumped(x, z)
<1>. DEFINE z == WithEnd(x, text)
            last == [begins |-> x.line.begins, ends |-> text, call |-> x.line.call]
<1>0. /\ x.log \in Seq(Entry) /\ x.stack \in Seq(Call) /\ x.dump \in Seq(Call)
      /\ x.line \in Line /\ Len(x.log) \in Nat
  BY LogOf
<1>1. last \in Entry
  BY <1>0 DEF Line, Entry
<1>2. z.log = Append(x.log, last) /\ z.line = NoLine /\ z.stack = x.stack /\ z.dump = x.dump
  BY DEF WithEnd
<1>3. z \in FileSet
  BY <1>0, <1>1, NoLineIs DEF WithEnd, FileSet
<1>. HIDE DEF last, z
<1>4. Len(z.log) = Len(x.log) + 1 /\ z.log[Len(x.log) + 1] = last
  BY <1>0, <1>1, <1>2
<1>5. \A k \in 1..Len(x.log) : z.log[k] = x.log[k]
  BY <1>0, <1>1, <1>2
<1>6. Grows(x, z)
  BY <1>0, <1>4, <1>5 DEF Grows
<1>7. SameDumped(x, z)
  BY <1>2 DEF SameDumped, Dumped
<1>. QED  BY <1>2, <1>3, <1>4, <1>6, <1>7 DEF z, last

LEMMA EndIsQuiet ==
  ASSUME NEW x \in FileSet, NEW text \in Texts \ {"result"}
  PROVE  Quietly(x, WithEnd(x, text))
<1>. DEFINE z == WithEnd(x, text)
            last == [begins |-> x.line.begins, ends |-> text, call |-> x.line.call]
<1>1. /\ z \in FileSet /\ Len(z.log) = Len(x.log) + 1 /\ Grows(x, z)
      /\ z.log[Len(z.log)] = last
      /\ z.line = NoLine /\ z.stack = x.stack /\ z.dump = x.dump
  BY EndedLine
<1>2. ~Parsed(last)
  BY DEF Parsed
<1>3. Len(x.log) \in Nat
  BY LogOf
<1>. HIDE DEF z, last
<1>4. \A k \in (Len(x.log) + 1)..Len(z.log) : ~Parsed(z.log[k])
  BY <1>1, <1>2, <1>3
<1>. QED  BY <1>1, <1>4, NoLineIs DEF Quietly, z

\* The reader raises for a result that is not that of a call.
LEMMA LooseResult ==
  ASSUME NEW x \in FileSet, x.line.begins # "call"
  PROVE  Raises(WithEnd(x, "result"))
<1>. DEFINE z == WithEnd(x, "result")
            last == [begins |-> x.line.begins, ends |-> "result", call |-> x.line.call]
<1>0. "result" \in Texts
  BY DEF Texts
<1>1. /\ z \in FileSet /\ Len(z.log) = Len(x.log) + 1
      /\ z.log[Len(z.log)] = last
  BY <1>0, EndedLine
<1>2. ~Parsed(last) /\ ~Skipped(last)
  BY DEF Parsed, Skipped
<1>. HIDE DEF z, last
<1>3. Len(z.log) \in DOMAIN z.log
  BY <1>1, LogOf
<1>4. Raises(z)
  BY <1>1, <1>2, <1>3 DEF Raises
<1>. QED  BY <1>4 DEF z

LEMMA ResultIsNext ==
  ASSUME NEW x \in FileSet, Open(x)
  PROVE  LET z == WithEnd(x, "result")
         IN  /\ z \in FileSet /\ Exact(z) /\ (Aligned(x) => Aligned(z))
             /\ \A n : Within(x, n) => Within(z, n)
             /\ Raises(x) => Raises(z)
<1>. DEFINE z == WithEnd(x, "result")
            last == [begins |-> x.line.begins, ends |-> "result", call |-> x.line.call]
            m == Len(x.log)
<1>0. "result" \in Texts
  BY DEF Texts
<1>1. /\ z \in FileSet /\ Len(z.log) = m + 1 /\ Grows(x, z)
      /\ z.log[Len(z.log)] = last
      /\ z.line = NoLine /\ z.stack = x.stack /\ z.dump = x.dump /\ SameDumped(x, z)
  BY <1>0, EndedLine
<1>2. Parsed(last) /\ last.call = x.line.call
  BY DEF Parsed, Open
<1>3. /\ m \in Nat /\ DOMAIN x.log = 1..m
      /\ DOMAIN z.log = 1..Len(z.log)
      /\ Len(x.stack) \in Nat /\ Len(x.dump) \in Nat
      /\ DOMAIN x.stack = 1..Len(x.stack) /\ DOMAIN x.dump = 1..Len(x.dump)
  BY <1>1, LogOf
<1>4. \A line : Dumped(z, line) <=> Dumped(x, line)
  BY <1>1 DEF Dumped
<1>5. /\ \A k \in 0..m : CallsTo(z, k) = CallsTo(x, k) /\ WritesTo(z, k) = WritesTo(x, k)
      /\ Raises(x) => Raises(z)
  BY <1>1, CountsKept
<1>. HIDE DEF z, last, m
<1>6. z.log[m + 1] = last /\ m \in 0..m /\ m + 1 \notin 1..m
  BY <1>1, <1>3
<1>7. CallsTo(z, m + 1) = CallsTo(x, m) \cup {m + 1}
  <2>1. 1..(m + 1) = (1..m) \cup {m + 1}
    BY <1>3
  <2>2. CallsTo(z, m + 1) = CallsTo(z, m) \cup {m + 1}
    BY <1>2, <1>6, <2>1 DEF CallsTo
  <2>. QED  BY <1>5, <1>6, <2>2
<1>8. WritesTo(z, m + 1) = IF Dumped(x, x.line) THEN WritesTo(x, m) \cup {m + 1}
                           ELSE WritesTo(x, m)
  <2>1. Dumped(z, z.log[m + 1]) <=> Dumped(x, x.line)
    BY <1>2, <1>4, <1>6 DEF Dumped
  <2>2. WritesTo(z, m) = WritesTo(x, m)
    BY <1>5, <1>6
  <2>3. CallsTo(z, m + 1) = CallsTo(z, m) \cup {m + 1}
    BY <1>5, <1>6, <1>7
  <2>. QED  BY <2>1, <2>2, <2>3 DEF WritesTo
<1>9. /\ Cardinality(CallsTo(x, m)) = Len(x.stack) - 1
      /\ Cardinality(WritesTo(x, m)) =
            IF Dumped(x, x.line) THEN Len(x.dump) - 1 ELSE Len(x.dump)
  BY DEF Open, Counted, m
<1>10. m + 1 \notin CallsTo(x, m) /\ m + 1 \notin WritesTo(x, m)
  BY <1>6 DEF CallsTo, WritesTo
<1>11. Cardinality(CallsTo(z, m + 1)) = Len(x.stack)
  BY <1>3, <1>7, <1>9, <1>10, CountsFinite, FS_AddElement
<1>12. Cardinality(WritesTo(z, m + 1)) = Len(x.dump)
  BY <1>3, <1>8, <1>9, <1>10, CountsFinite, FS_AddElement
<1>13. Exact(z)
  BY <1>1, <1>11, <1>12, NoLineIs DEF Exact, Counted
<1>14. ASSUME Aligned(x) PROVE Aligned(z)
  <2>. SUFFICES ASSUME NEW k \in DOMAIN z.log, Parsed(z.log[k])
                PROVE  /\ NextIs(z.stack, CallsTo(z, k), z.log[k].call)
                       /\ Dumped(z, z.log[k]) => NextIs(z.dump, WritesTo(z, k), z.log[k].call)
    BY DEF Aligned
  <2>1. CASE k \in 1..m
    <3>1. k \in 0..m /\ z.log[k] = x.log[k]
      BY <1>1, <1>3, <2>1 DEF Grows, m
    <3>. QED  BY <1>1, <1>3, <1>4, <1>5, <1>14, <2>1, <3>1 DEF Aligned
  <2>2. CASE k = m + 1
    <3>1. z.log[k].call = x.line.call /\ x.stack[Len(x.stack)] = x.line.call
      BY <1>2, <1>6, <2>2 DEF Open
    <3>2. Dumped(z, z.log[k]) => x.dump[Len(x.dump)] = x.line.call
      BY <1>2, <1>4, <1>6, <2>2 DEF Open, Dumped
    <3>. QED  BY <1>1, <1>3, <1>11, <1>12, <2>2, <3>1, <3>2 DEF NextIs
  <2>3. k \in 1..m \/ k = m + 1
    BY <1>1, <1>3
  <2>. QED  BY <2>1, <2>2, <2>3
<1>15. ASSUME NEW n, Within(x, n) PROVE Within(z, n)
  <2>1. Len(x.stack) \in DOMAIN x.stack
    BY <1>3, EmptySeq DEF Open
  <2>2. last.call.n <= n
    BY <1>2, <1>15, <2>1 DEF Open, Within
  <2>3. \A k \in DOMAIN z.log : (k \in DOMAIN x.log /\ z.log[k] = x.log[k]) \/ z.log[k] = last
    BY <1>1, <1>3, <1>6 DEF Grows, m
  <2>. QED  BY <1>1, <1>15, <2>2, <2>3 DEF Within
<1>. QED  BY <1>1, <1>5, <1>13, <1>14, <1>15 DEF z

LEMMA CallIsNext ==
  ASSUME NEW x \in FileSet, NEW c \in Call
  PROVE  LET z == WithCall(x, c)
         IN  /\ z \in FileSet /\ (Raises(x) => Raises(z)) /\ (Aligned(x) => Aligned(z))
             /\ \A n \in Nat : Within(x, n) /\ c.n <= n => Within(z, n)
             /\ Exact(x) /\ Within(x, c.n - 1) => Open(z) /\ ~Dumped(z, z.line)
<1>. DEFINE z == WithCall(x, c)
<1>0. /\ x.log \in Seq(Entry) /\ x.stack \in Seq(Call) /\ x.dump \in Seq(Call)
      /\ Len(x.log) \in Nat /\ Len(x.stack) \in Nat /\ DOMAIN x.log = 1..Len(x.log)
      /\ DOMAIN x.stack = 1..Len(x.stack)
  BY LogOf
<1>1. /\ z.log = x.log /\ z.line = [begins |-> "call", call |-> c]
      /\ z.stack = Append(x.stack, c) /\ z.dump = x.dump
  BY DEF WithCall
<1>2. z \in FileSet
  BY <1>0 DEF WithCall, FileSet, Line
<1>. HIDE DEF z
<1>3. /\ Len(z.stack) = Len(x.stack) + 1 /\ z.stack[Len(x.stack) + 1] = c
      /\ \A k \in 1..Len(x.stack) : z.stack[k] = x.stack[k]
      /\ DOMAIN z.stack = 1..(Len(x.stack) + 1) /\ z.stack # << >>
  BY <1>0, <1>1
<1>4. \A k : CallsTo(z, k) = CallsTo(x, k) /\ WritesTo(z, k) = WritesTo(x, k)
  BY <1>1 DEF CallsTo, WritesTo, Dumped
<1>5. \A line : Dumped(z, line) <=> Dumped(x, line)
  BY <1>1 DEF Dumped
<1>6. ASSUME Aligned(x) PROVE Aligned(z)
  <2>1. ASSUME NEW k \in DOMAIN x.log, Parsed(x.log[k])
        PROVE  NextIs(z.stack, CallsTo(x, k), x.log[k].call)
    <3>0. k \in Nat /\ k \in 1..k
      BY <1>0
    <3>1. Cardinality(CallsTo(x, k)) \in Nat /\ k \in CallsTo(x, k)
      BY <2>1, <3>0, CountsFinite DEF CallsTo
    <3>2. Cardinality(CallsTo(x, k)) # 0
      BY <3>0, <3>1, CountsFinite, FS_EmptySet
    <3>3. NextIs(x.stack, CallsTo(x, k), x.log[k].call)
      BY <1>6, <2>1 DEF Aligned
    <3>. QED  BY <1>0, <1>3, <3>1, <3>2, <3>3 DEF NextIs
  <2>. QED  BY <1>1, <1>4, <1>5, <1>6, <2>1 DEF Aligned
<1>7. ASSUME NEW n \in Nat, Within(x, n), c.n <= n PROVE Within(z, n)
  <2>1. \A k \in DOMAIN z.stack : (k \in DOMAIN x.stack /\ z.stack[k] = x.stack[k])
                                  \/ z.stack[k] = c
    BY <1>0, <1>3
  <2>. QED  BY <1>1, <1>7, <2>1 DEF Within
<1>8. ASSUME Exact(x), Within(x, c.n - 1) PROVE Open(z) /\ ~Dumped(z, z.line)
  <2>0. c.n \in Nat
    BY DEF Call
  <2>1. \A k \in DOMAIN x.dump : x.dump[k] # c
    BY <1>0, <1>8, <2>0 DEF Within
  <2>2. ~Dumped(z, z.line)
    BY <1>1, <2>1 DEF Dumped
  <2>3. \A k \in DOMAIN z.log : Parsed(z.log[k]) => z.log[k].call # c
    BY <1>1, <1>8, <2>0 DEF Within
  <2>4. Counted(z, Len(z.stack) - 1, Len(z.dump))
    BY <1>0, <1>1, <1>3, <1>4, <1>8 DEF Exact, Counted
  <2>. QED  BY <1>1, <1>3, <2>2, <2>3, <2>4 DEF Open
<1>9. Raises(x) => Raises(z)
  BY <1>1 DEF Raises
<1>. QED  BY <1>2, <1>6, <1>7, <1>8, <1>9 DEF z

LEMMA DumpIsNext ==
  ASSUME NEW x \in FileSet, Open(x), ~Dumped(x, x.line)
  PROVE  LET z == WithDump(x, x.line.call)
         IN  /\ z \in FileSet /\ Open(z)
             /\ Raises(x) => Raises(z)
             /\ Aligned(x) => Aligned(z)
             /\ \A n : Within(x, n) => Within(z, n)
<1>. DEFINE c == x.line.call
            z == WithDump(x, c)
<1>0. /\ x.log \in Seq(Entry) /\ x.stack \in Seq(Call) /\ x.dump \in Seq(Call)
      /\ Len(x.log) \in Nat /\ Len(x.dump) \in Nat /\ DOMAIN x.log = 1..Len(x.log)
      /\ DOMAIN x.dump = 1..Len(x.dump) /\ x.line \in Line
      /\ Len(x.stack) \in Nat /\ DOMAIN x.stack = 1..Len(x.stack)
  BY LogOf
<1>1. /\ z.log = x.log /\ z.line = x.line /\ z.stack = x.stack
      /\ z.dump = Append(x.dump, c) /\ c \in Call
  BY <1>0 DEF WithDump, Line
<1>2. z \in FileSet
  BY <1>0, <1>1 DEF WithDump, FileSet
<1>. HIDE DEF z
<1>3. /\ Len(z.dump) = Len(x.dump) + 1 /\ z.dump[Len(x.dump) + 1] = c
      /\ \A k \in 1..Len(x.dump) : z.dump[k] = x.dump[k]
      /\ DOMAIN z.dump = 1..(Len(x.dump) + 1) /\ z.dump # << >>
  BY <1>0, <1>1
<1>4. \A k \in DOMAIN x.log : Parsed(x.log[k]) =>
          (Dumped(z, x.log[k]) <=> Dumped(x, x.log[k]))
  <2>1. \A k \in DOMAIN x.log : Parsed(x.log[k]) => x.log[k].call # c
    BY DEF Open
  <2>2. ASSUME NEW line, line.call # c PROVE Dumped(z, line) <=> Dumped(x, line)
    <3>1. \A k \in DOMAIN z.dump : (k \in DOMAIN x.dump /\ z.dump[k] = x.dump[k]) \/ z.dump[k] = c
      BY <1>0, <1>3
    <3>2. \A k \in DOMAIN x.dump : k \in DOMAIN z.dump /\ z.dump[k] = x.dump[k]
      BY <1>0, <1>3
    <3>. QED  BY <2>2, <3>1, <3>2 DEF Dumped
  <2>. QED  BY <2>1, <2>2
<1>5. Grows(x, z) /\ SameDumped(x, z)
  BY <1>0, <1>1, <1>4 DEF Grows, SameDumped
<1>6. \A k \in 0..Len(x.log) : CallsTo(z, k) = CallsTo(x, k) /\ WritesTo(z, k) = WritesTo(x, k)
  BY <1>2, <1>5, CountsKept
<1>7. ASSUME Aligned(x) PROVE Aligned(z)
  <2>1. ASSUME NEW k \in DOMAIN x.log, Parsed(x.log[k])
        PROVE  /\ NextIs(x.stack, CallsTo(z, k), x.log[k].call)
               /\ Dumped(z, x.log[k]) => NextIs(z.dump, WritesTo(z, k), x.log[k].call)
    <3>0. k \in 0..Len(x.log)
      BY <1>0
    <3>1. NextIs(x.stack, CallsTo(x, k), x.log[k].call)
      BY <1>7, <2>1 DEF Aligned
    <3>2. ASSUME Dumped(x, x.log[k]) PROVE NextIs(z.dump, WritesTo(x, k), x.log[k].call)
      <4>0. k \in Nat /\ k \in 1..k
        BY <1>0
      <4>1. Cardinality(WritesTo(x, k)) \in Nat /\ k \in WritesTo(x, k)
        BY <2>1, <3>2, <4>0, CountsFinite DEF CallsTo, WritesTo
      <4>2. Cardinality(WritesTo(x, k)) # 0
        BY <4>0, <4>1, CountsFinite, FS_EmptySet
      <4>3. NextIs(x.dump, WritesTo(x, k), x.log[k].call)
        BY <1>7, <2>1, <3>2 DEF Aligned
      <4>. QED  BY <1>0, <1>3, <4>1, <4>2, <4>3 DEF NextIs
    <3>. QED  BY <1>4, <1>6, <2>1, <3>0, <3>1, <3>2
  <2>. QED  BY <1>1, <2>1 DEF Aligned
<1>8. Open(z)
  <2>1. Counted(x, Len(x.stack) - 1, Len(x.dump))
    BY DEF Open
  <2>2. Counted(z, Len(z.stack) - 1, Len(z.dump) - 1)
    <3>1. Len(x.log) \in 0..Len(x.log) /\ Len(z.dump) - 1 = Len(x.dump)
      BY <1>0, <1>3
    <3>2. /\ CallsTo(z, Len(z.log)) = CallsTo(x, Len(x.log))
          /\ WritesTo(z, Len(z.log)) = WritesTo(x, Len(x.log))
      BY <1>1, <1>6, <3>1
    <3>. QED  BY <1>1, <2>1, <3>1, <3>2 DEF Counted
  <2>3. Dumped(z, z.line)
    <3>1. Len(x.dump) + 1 \in DOMAIN z.dump
      BY <1>0, <1>3
    <3>. QED  BY <1>1, <1>3, <3>1 DEF Dumped
  <2>. QED  BY <1>1, <1>3, <2>2, <2>3 DEF Open
<1>9. ASSUME NEW n, Within(x, n) PROVE Within(z, n)
  <2>1. c.n <= n
    <3>1. Len(x.stack) \in DOMAIN x.stack /\ x.stack[Len(x.stack)] = c
      BY <1>0, EmptySeq DEF Open
    <3>. QED  BY <1>9, <3>1 DEF Within
  <2>2. \A k \in DOMAIN z.dump : (k \in DOMAIN x.dump /\ z.dump[k] = x.dump[k])
                                 \/ z.dump[k] = c
    BY <1>0, <1>3
  <2>. QED  BY <1>1, <1>9, <2>1, <2>2 DEF Within
<1>10. Raises(x) => Raises(z)
  BY <1>1 DEF Raises
<1>. QED  BY <1>2, <1>7, <1>8, <1>9, <1>10 DEF z

-----------------------------------------------------------------------------
(* What the functions of TraceOutput do to the files, with -ff               *)

SameFiles(s, t) ==
    t.log = s.log /\ t.line = s.line /\ t.stack = s.stack /\ t.dump = s.dump

NoneFiltered(s, t) == \A k \in DOMAIN s.tcbtab :
    "FILTERED" \in t.tcbtab[k].flags => "FILTERED" \in s.tcbtab[k].flags

\* From s to t block i writes no line that can be parsed, to its own file, and the
\* blocks stay.
Quiets(s, t, i) ==
    LET p == s.tcbtab[i].pid IN
    /\ Places(s, t) /\ HasFiles(t) /\ NoneFiltered(s, t)
    /\ t.current \in {s.current, i}
    /\ \A f \in Files \ {p} : File(t, f) = File(s, f)
    /\ Quietly(File(s, p), File(t, p))

\* Block i is in use, and the files are there.
InFiles(s, i) ==
    IsOutput(s) /\ HasFiles(s) /\ i \in DOMAIN s.tcbtab /\ s.tcbtab[i].pid # 0

LEMMA QuietItself ==
  ASSUME NEW x \in FileSet
  PROVE  Quietly(x, x)
<1>1. Len(x.log) \in Nat
  BY LogOf
<1>. QED  BY <1>1 DEF Quietly, Grows

LEMMA FileIs ==
  ASSUME NEW s, NEW i, InFiles(s, i)
  PROVE  /\ s.tcbtab[i].pid \in Pids /\ s.tcbtab[i].pid \in Files
         /\ s.tcbtab[i].outf = s.tcbtab[i].pid
         /\ File(s, s.tcbtab[i].pid) \in FileSet
<1>1. IsTcb(s.tcbtab[i])
  BY BlockOf DEF InFiles
<1>2. s.tcbtab[i].pid \in Pids /\ s.tcbtab[i].pid \in Files
  BY <1>1 DEF IsTcb, InFiles, Files
<1>. QED  BY <1>2 DEF InFiles, HasFiles, Owned

LEMMA QuietsThrough ==
  ASSUME NEW s, NEW t, NEW u, NEW i, i \in DOMAIN s.tcbtab, Quiets(s, t, i), Quiets(t, u, i)
  PROVE  Quiets(s, u, i)
<1>1. Places(s, u) /\ t.tcbtab[i].pid = s.tcbtab[i].pid
  BY DEF Quiets, Places
<1>2. NoneFiltered(s, u)
  BY DEF Quiets, Places, NoneFiltered
<1>. DEFINE p == s.tcbtab[i].pid
<1>3. Quietly(File(s, p), File(u, p))
  BY <1>1, QuietThrough DEF Quiets
<1>. QED  BY <1>1, <1>2, <1>3 DEF Quiets

LEMMA QuietsIn ==
  ASSUME NEW s, NEW t, NEW i, InFiles(s, i), Quiets(s, t, i)
  PROVE  InFiles(t, i) /\ t.tcbtab[i].pid = s.tcbtab[i].pid
  BY DEF InFiles, Quiets, Places

\* The files are left alone.
LEMMA FilesAlone ==
  ASSUME NEW s, NEW t, NEW i, InFiles(s, i), Places(s, t), SameFiles(s, t),
         NoneFiltered(s, t), t.current \in {s.current, i},
         \A k \in DOMAIN s.tcbtab : Owned(t.tcbtab[k])
  PROVE  Quiets(s, t, i) /\ \A f : File(t, f) = File(s, f)
<1>1. \A f : File(t, f) = File(s, f)
  BY DEF SameFiles, File
<1>2. HasFiles(t)
  <2>1. DOMAIN t.tcbtab = DOMAIN s.tcbtab
    BY DEF Places
  <2>. QED  BY <1>1, <2>1 DEF HasFiles, InFiles, SameFiles
<1>3. File(s, s.tcbtab[i].pid) \in FileSet
  BY FileIs
<1>. QED  BY <1>1, <1>2, <1>3, QuietItself DEF Quiets

\* A block is changed, but not which thread it is for.
LEMMA BlockQuiet ==
  ASSUME NEW s, NEW i, InFiles(s, i), NEW k \in DOMAIN s.tcbtab, NEW b,
         IsTcb(b), b.pid = s.tcbtab[k].pid, Owned(b),
         "FILTERED" \in b.flags => "FILTERED" \in s.tcbtab[k].flags,
         NEW t, t = [s EXCEPT !.tcbtab[k] = b]
  PROVE  /\ Quiets(s, t, i) /\ \A f : File(t, f) = File(s, f)
         /\ t.current = s.current
         /\ \A m \in DOMAIN s.tcbtab : t.tcbtab[m] = IF m = k THEN b ELSE s.tcbtab[m]
<1>1. /\ Places(s, t)
      /\ \A m \in DOMAIN s.tcbtab : t.tcbtab[m] = IF m = k THEN b ELSE s.tcbtab[m]
  <2>1. IsOutput(s) /\ (k \in DOMAIN s.tcbtab => IsTcb(b) /\ b.pid = s.tcbtab[k].pid)
    BY DEF InFiles
  <2>2. k \in DOMAIN s.tcbtab
    OBVIOUS
  <2>3. t = [s EXCEPT !.tcbtab[k] = b]
    OBVIOUS
  <2>. QED  BY <2>1, <2>2, <2>3, BlockPlaced
<1>2. SameFiles(s, t) /\ t.current = s.current
  <2>1. Fields(s)
    BY DEF InFiles, IsOutput
  <2>. QED  BY <2>1 DEF Fields, SameFiles
<1>3. NoneFiltered(s, t)
  BY <1>1 DEF NoneFiltered
<1>4. \A m \in DOMAIN s.tcbtab : Owned(t.tcbtab[m])
  BY <1>1 DEF InFiles, HasFiles
<1>. QED  BY <1>1, <1>2, <1>3, <1>4, FilesAlone

LEMMA CurcolOfTcb ==
  ASSUME NEW b, IsTcb(b), NEW c
  PROVE  LET t == [b EXCEPT !.curcol = c] IN
         t.outf = b.outf /\ t.call = b.call /\ t.flags = b.flags /\ t.curcol = c
         /\ IsTcb(t) /\ t.pid = b.pid
<1>1. b = [pid |-> b.pid, flags |-> b.flags, curcol |-> b.curcol, outf |-> b.outf,
           call |-> b.call]
  BY DEF IsTcb
<1>2. PICK t : t = [b EXCEPT !.curcol = c]
  OBVIOUS
<1>3. /\ t = [pid |-> t.pid, flags |-> t.flags, curcol |-> t.curcol, outf |-> t.outf,
              call |-> t.call]
      /\ t.outf = b.outf /\ t.call = b.call /\ t.flags = b.flags /\ t.curcol = c
      /\ t.pid = b.pid
  BY <1>1, <1>2
<1>4. IsTcb(t)
  BY <1>3 DEF IsTcb
<1>. QED  BY <1>2, <1>3, <1>4

LEMMA FlagsOfTcb ==
  ASSUME NEW b, IsTcb(b), NEW F, "INUSE" \in F <=> "INUSE" \in b.flags
  PROVE  LET t == [b EXCEPT !.flags = F] IN
         t.outf = b.outf /\ t.call = b.call /\ t.flags = F /\ t.curcol = b.curcol
         /\ IsTcb(t) /\ t.pid = b.pid
<1>1. b = [pid |-> b.pid, flags |-> b.flags, curcol |-> b.curcol, outf |-> b.outf,
           call |-> b.call]
  BY DEF IsTcb
<1>2. PICK t : t = [b EXCEPT !.flags = F]
  OBVIOUS
<1>3. /\ t = [pid |-> t.pid, flags |-> t.flags, curcol |-> t.curcol, outf |-> t.outf,
              call |-> t.call]
      /\ t.outf = b.outf /\ t.call = b.call /\ t.flags = F /\ t.curcol = b.curcol
      /\ t.pid = b.pid
  BY <1>1, <1>2
<1>4. IsTcb(t)
  BY <1>3 DEF IsTcb
<1>. QED  BY <1>2, <1>3, <1>4

LEMMA FlagsQuiet ==
  ASSUME NEW s, NEW i, InFiles(s, i), NEW k \in DOMAIN s.tcbtab, NEW flags,
         "INUSE" \notin flags
  PROVE  /\ Quiets(s, ClearFlags(s, k, flags), i)
         /\ \A f : File(ClearFlags(s, k, flags), f) = File(s, f)
         /\ ClearFlags(s, k, flags).current = s.current
         /\ ClearFlags(s, k, flags).tcbtab[k].flags = s.tcbtab[k].flags \ flags
         /\ "FILTERED" \notin flags =>
               /\ Quiets(s, SetFlags(s, k, flags), i)
               /\ SetFlags(s, k, flags).tcbtab[k].flags = s.tcbtab[k].flags \cup flags
               /\ \A f : File(SetFlags(s, k, flags), f) = File(s, f)
               /\ SetFlags(s, k, flags).current = s.current
<1>. DEFINE b == s.tcbtab[k]
            less == [b EXCEPT !.flags = @ \ flags]
            more == [b EXCEPT !.flags = @ \cup flags]
<1>1. IsTcb(b) /\ Owned(b)
  BY BlockOf DEF InFiles, HasFiles
<1>. HIDE DEF b
<1>0. /\ "INUSE" \in b.flags \ flags <=> "INUSE" \in b.flags
      /\ "INUSE" \in b.flags \cup flags <=> "INUSE" \in b.flags
  OBVIOUS
<1>2. /\ IsTcb(less) /\ less.pid = b.pid /\ less.call = b.call /\ less.flags = b.flags \ flags
      /\ less.outf = b.outf /\ less.curcol = b.curcol
  BY <1>0, <1>1, FlagsOfTcb
<1>3. /\ IsTcb(more) /\ more.pid = b.pid /\ more.call = b.call
      /\ more.flags = b.flags \cup flags
      /\ more.outf = b.outf /\ more.curcol = b.curcol
  BY <1>0, <1>1, FlagsOfTcb
<1>. HIDE DEF less, more
<1>4. Owned(less) /\ Owned(more)
  BY <1>1, <1>2, <1>3 DEF Owned
<1>5. /\ ClearFlags(s, k, flags) = [s EXCEPT !.tcbtab[k] = less]
      /\ SetFlags(s, k, flags) = [s EXCEPT !.tcbtab[k] = more]
  BY DEF ClearFlags, SetFlags, less, more, b
<1>6. /\ Quiets(s, ClearFlags(s, k, flags), i)
      /\ \A f : File(ClearFlags(s, k, flags), f) = File(s, f)
      /\ ClearFlags(s, k, flags).current = s.current
      /\ ClearFlags(s, k, flags).tcbtab[k] = less
  <2>1. less.pid = s.tcbtab[k].pid /\ ("FILTERED" \in less.flags => "FILTERED" \in s.tcbtab[k].flags)
    BY <1>2 DEF b
  <2>2. PICK t : t = [s EXCEPT !.tcbtab[k] = less]
    OBVIOUS
  <2>. QED  BY <1>2, <1>4, <1>5, <2>1, <2>2, BlockQuiet
<1>7. ASSUME "FILTERED" \notin flags
      PROVE  /\ Quiets(s, SetFlags(s, k, flags), i)
             /\ \A f : File(SetFlags(s, k, flags), f) = File(s, f)
             /\ SetFlags(s, k, flags).current = s.current
             /\ SetFlags(s, k, flags).tcbtab[k] = more
  <2>1. more.pid = s.tcbtab[k].pid /\ ("FILTERED" \in more.flags => "FILTERED" \in s.tcbtab[k].flags)
    BY <1>3, <1>7 DEF b
  <2>2. PICK t : t = [s EXCEPT !.tcbtab[k] = more]
    OBVIOUS
  <2>. QED  BY <1>3, <1>4, <1>5, <2>1, <2>2, BlockQuiet
<1>. QED  BY <1>2, <1>3, <1>6, <1>7 DEF b

LEMMA CurcolQuiet ==
  ASSUME NEW s, NEW i, InFiles(s, i), NEW c
  PROVE  LET t == [s EXCEPT !.tcbtab[i].curcol = c] IN
         /\ Quiets(s, t, i) /\ \A f : File(t, f) = File(s, f)
         /\ t.current = s.current
<1>. DEFINE b == [s.tcbtab[i] EXCEPT !.curcol = c]
<1>1. IsTcb(s.tcbtab[i]) /\ Owned(s.tcbtab[i]) /\ i \in DOMAIN s.tcbtab /\ s.tcbtab[i].pid # 0
  BY BlockOf DEF InFiles, HasFiles
<1>2. /\ IsTcb(b) /\ b.pid = s.tcbtab[i].pid /\ b.outf = s.tcbtab[i].outf
      /\ b.call = s.tcbtab[i].call /\ b.flags = s.tcbtab[i].flags
  BY <1>1, CurcolOfTcb
<1>. HIDE DEF b
<1>3. Owned(b)
  BY <1>1, <1>2 DEF Owned
<1>4. PICK t : t = [s EXCEPT !.tcbtab[i] = b]
  OBVIOUS
<1>5. /\ Quiets(s, t, i) /\ \A f : File(t, f) = File(s, f)
      /\ t.current = s.current
  BY <1>1, <1>2, <1>3, <1>4, BlockQuiet
<1>. QED  BY <1>4, <1>5 DEF b

LEMMA PrintingQuiet ==
  ASSUME NEW s, NEW i, InFiles(s, i), NEW k,
         NEW t, t = [s EXCEPT !.printing = k] \/ t = [s EXCEPT !.current = i]
                \/ t = [s EXCEPT !.printing = k, !.current = i]
  PROVE  Quiets(s, t, i) /\ (\A f : File(t, f) = File(s, f)) /\ t.tcbtab = s.tcbtab
<1>1. Fields(s) /\ IsOutput(s)
  BY DEF InFiles, IsOutput
<1>2. /\ Fields(t) /\ t.tcbtab = s.tcbtab /\ t.nprocs = s.nprocs
      /\ SameFiles(s, t) /\ t.current \in {s.current, i}
  BY <1>1 DEF Fields, SameFiles
<1>3. Places(s, t)
  BY <1>1, <1>2, BlocksAlone DEF Keeps
<1>4. NoneFiltered(s, t) /\ \A m \in DOMAIN s.tcbtab : Owned(t.tcbtab[m])
  BY <1>2 DEF NoneFiltered, InFiles, HasFiles
<1>. QED  BY <1>2, <1>3, <1>4, FilesAlone

LEMMA PrintsQuiet ==
  ASSUME NEW s, NEW i, InFiles(s, i)
  PROVE  \A t : t = [s EXCEPT !.printing = i] =>
            Quiets(s, t, i) /\ (\A f : File(t, f) = File(s, f)) /\ t.tcbtab = s.tcbtab
<1>1. SUFFICES ASSUME NEW t, t = [s EXCEPT !.printing = i]
               PROVE  Quiets(s, t, i) /\ (\A f : File(t, f) = File(s, f)) /\ t.tcbtab = s.tcbtab
  OBVIOUS
<1>2. \/ t = [s EXCEPT !.printing = i] \/ t = [s EXCEPT !.current = i]
      \/ t = [s EXCEPT !.printing = i, !.current = i]
  BY <1>1
<1>. QED  BY <1>2, PrintingQuiet

LEMMA CurrentQuiet ==
  ASSUME NEW s, NEW i, InFiles(s, i)
  PROVE  \A t : t = [s EXCEPT !.current = i] =>
            Quiets(s, t, i) /\ (\A f : File(t, f) = File(s, f)) /\ t.tcbtab = s.tcbtab
<1>1. SUFFICES ASSUME NEW t, t = [s EXCEPT !.current = i]
               PROVE  Quiets(s, t, i) /\ (\A f : File(t, f) = File(s, f)) /\ t.tcbtab = s.tcbtab
  OBVIOUS
<1>2. \/ t = [s EXCEPT !.printing = i] \/ t = [s EXCEPT !.current = i]
      \/ t = [s EXCEPT !.printing = i, !.current = i]
  BY <1>1
<1>. QED  BY <1>2, PrintingQuiet

LEMMA LineEndedQuiet ==
  ASSUME NEW s, NEW i, InFiles(s, i)
  PROVE  /\ Quiets(s, line_ended(s), i)
         /\ \A f : File(line_ended(s), f) = File(s, f)
         /\ line_ended(s).current = s.current
         /\ \A k \in DOMAIN s.tcbtab : line_ended(s).tcbtab[k].flags = s.tcbtab[k].flags
<1>. DEFINE blocks == [k \in DOMAIN s.tcbtab |->
                         IF k \in {s.current, s.printing}
                         THEN [s.tcbtab[k] EXCEPT !.curcol = FALSE] ELSE s.tcbtab[k]]
<1>1. PICK t : t = line_ended(s)
  OBVIOUS
<1>2. t = [s EXCEPT !.printing = 0, !.tcbtab = blocks]
  BY <1>1 DEF line_ended
<1>3. Places(s, t)
  BY <1>1, LineEndedKeeps DEF InFiles, Keeps
<1>. HIDE DEF blocks
<1>4. t.tcbtab = blocks /\ SameFiles(s, t) /\ t.current = s.current
  BY <1>2 DEF InFiles, IsOutput, Fields, SameFiles
<1>5. ASSUME NEW k \in DOMAIN s.tcbtab
      PROVE  Owned(t.tcbtab[k]) /\ t.tcbtab[k].flags = s.tcbtab[k].flags
  <2>1. IsTcb(s.tcbtab[k]) /\ Owned(s.tcbtab[k])
    BY BlockOf DEF InFiles, HasFiles
  <2>2. PICK b : b = [s.tcbtab[k] EXCEPT !.curcol = FALSE]
    OBVIOUS
  <2>3. /\ b.pid = s.tcbtab[k].pid /\ b.outf = s.tcbtab[k].outf /\ b.curcol = FALSE
        /\ b.call = s.tcbtab[k].call /\ b.flags = s.tcbtab[k].flags
    BY <2>1, <2>2, CurcolOfTcb
  <2>4. Owned(b)
    BY <2>1, <2>3 DEF Owned
  <2>5. t.tcbtab[k] \in {b, s.tcbtab[k]}
    BY <1>4, <2>2 DEF blocks
  <2>. QED  BY <2>1, <2>3, <2>4, <2>5
<1>6. NoneFiltered(s, t)
  BY <1>5 DEF NoneFiltered
<1>7. Quiets(s, t, i) /\ \A f : File(t, f) = File(s, f)
  BY <1>3, <1>4, <1>5, <1>6, FilesAlone
<1>. QED  BY <1>1, <1>4, <1>5, <1>7

-----------------------------------------------------------------------------
(* Lines that begin and end                                                  *)

\* The file of block i becomes y.
Written(s, t, i, y) ==
    LET p == s.tcbtab[i].pid IN
    /\ Places(s, t) /\ HasFiles(t) /\ t.tcbtab = s.tcbtab
    /\ t.printing = s.printing /\ t.current = s.current
    /\ File(t, p) = y /\ \A f \in Files \ {p} : File(t, f) = File(s, f)

LEMMA FileWritten ==
  ASSUME NEW s, NEW i, InFiles(s, i), NEW y \in FileSet, NEW t, Fields(t),
         t.tcbtab = s.tcbtab, t.nprocs = s.nprocs,
         t.printing = s.printing, t.current = s.current,
         NEW p, p = s.tcbtab[i].pid,
         DOMAIN t.log = Files, DOMAIN t.line = Files,
         DOMAIN t.stack = Files, DOMAIN t.dump = Files,
         \A f \in Files :
            IF f = p
            THEN /\ t.log[f] = y.log /\ t.line[f] = y.line
                 /\ t.stack[f] = y.stack /\ t.dump[f] = y.dump
            ELSE /\ t.log[f] = s.log[f] /\ t.line[f] = s.line[f]
                 /\ t.stack[f] = s.stack[f] /\ t.dump[f] = s.dump[f]
  PROVE  Written(s, t, i, y)
<1>1. Places(s, t)
  BY BlocksAlone DEF InFiles, Keeps
<1>2. p \in Files
  BY FileIs
<1>3. \A f \in Files \ {p} : File(t, f) = File(s, f)
  BY <1>2 DEF File
<1>4. File(t, p) = y
  <2>1. y = [log |-> y.log, line |-> y.line, stack |-> y.stack, dump |-> y.dump]
    BY DEF FileSet
  <2>2. t.log[p] = y.log /\ t.line[p] = y.line /\ t.stack[p] = y.stack /\ t.dump[p] = y.dump
    BY <1>2
  <2>. QED  BY <2>1, <2>2 DEF File
<1>5. \A f \in Files : File(t, f) \in FileSet
  BY <1>3, <1>4 DEF InFiles, HasFiles
<1>6. HasFiles(t)
  BY <1>2, <1>5 DEF HasFiles, InFiles
<1>. QED  BY <1>1, <1>3, <1>4, <1>6 DEF Written

LEMMA WrittenIn ==
  ASSUME NEW s, NEW t, NEW i, NEW y, InFiles(s, i), Written(s, t, i, y)
  PROVE  /\ InFiles(t, i)
         /\ Quietly(File(s, s.tcbtab[i].pid), y) => Quiets(s, t, i)
<1>1. NoneFiltered(s, t)
  BY DEF Written, NoneFiltered
<1>. QED  BY <1>1 DEF Written, InFiles, Quiets, Places

LEMMA EndsWritten ==
  ASSUME NEW s, NEW i, InFiles(s, i), NEW text \in Texts
  PROVE  Written(s, Ends(s, i, text), i, WithEnd(File(s, s.tcbtab[i].pid), text))
<1>. DEFINE p == s.tcbtab[i].pid
            y == WithEnd(File(s, p), text)
<1>1. s.tcbtab[i].outf = p /\ File(s, p) \in FileSet /\ p \in Files
  BY FileIs
<1>2. y \in FileSet
  BY <1>1, EndedLine
<1>3. PICK t : t = Ends(s, i, text)
  OBVIOUS
<1>4. t = [s EXCEPT !.log = [s.log EXCEPT ![p] =
                Append(s.log[p], [begins |-> s.line[p].begins, ends |-> text,
                                  call |-> s.line[p].call])],
              !.line = [s.line EXCEPT ![p] = NoLine]]
  BY <1>1, <1>3 DEF Ends
<1>5. /\ y.log = Append(s.log[p], [begins |-> s.line[p].begins, ends |-> text,
                                   call |-> s.line[p].call])
      /\ y.line = NoLine /\ y.stack = s.stack[p] /\ y.dump = s.dump[p]
  BY DEF WithEnd, File
<1>6. /\ DOMAIN s.log = Files /\ DOMAIN s.line = Files
      /\ DOMAIN s.stack = Files /\ DOMAIN s.dump = Files
  BY DEF InFiles, HasFiles
<1>. HIDE DEF y
<1>7. Fields(s)
  BY DEF InFiles, IsOutput
<1>8. /\ Fields(t) /\ t.tcbtab = s.tcbtab /\ t.nprocs = s.nprocs
      /\ t.printing = s.printing /\ t.current = s.current
      /\ t.stack = s.stack /\ t.dump = s.dump
  BY <1>4, <1>7 DEF Fields
<1>9. t.log = [s.log EXCEPT ![p] = y.log] /\ t.line = [s.line EXCEPT ![p] = y.line]
  BY <1>4, <1>5, <1>7 DEF Fields
<1>. HIDE DEF p
<1>10. /\ DOMAIN t.log = Files /\ DOMAIN t.line = Files
       /\ DOMAIN t.stack = Files /\ DOMAIN t.dump = Files
  BY <1>6, <1>8, <1>9
<1>11. \A f \in Files :
          IF f = p
          THEN /\ t.log[f] = y.log /\ t.line[f] = y.line
               /\ t.stack[f] = y.stack /\ t.dump[f] = y.dump
          ELSE /\ t.log[f] = s.log[f] /\ t.line[f] = s.line[f]
               /\ t.stack[f] = s.stack[f] /\ t.dump[f] = s.dump[f]
  BY <1>5, <1>6, <1>8, <1>9
<1>12. p = s.tcbtab[i].pid
  BY DEF p
<1>13. Written(s, t, i, y)
  BY <1>2, <1>8, <1>10, <1>11, <1>12, FileWritten
<1>. QED  BY <1>3, <1>13 DEF p, y

WithLine(x, what, c) ==
    [log |-> x.log, line |-> [begins |-> what, call |-> c], stack |-> x.stack, dump |-> x.dump]

LEMMA BeginsWritten ==
  ASSUME NEW s, NEW i, InFiles(s, i), NEW what \in {"call", "resumed", "unknown"}
  PROVE  Written(s, Begins(s, i, what), i,
                 WithLine(File(s, s.tcbtab[i].pid), what, s.tcbtab[i].call))
<1>. DEFINE p == s.tcbtab[i].pid
            c == s.tcbtab[i].call
            y == WithLine(File(s, p), what, c)
<1>1. s.tcbtab[i].outf = p /\ File(s, p) \in FileSet /\ p \in Files /\ c \in Call
  BY FileIs DEF InFiles, HasFiles, Owned
<1>2. y \in FileSet
  BY <1>1 DEF WithLine, FileSet, Line
<1>3. PICK t : t = Begins(s, i, what)
  OBVIOUS
<1>4. t = [s EXCEPT !.line = [s.line EXCEPT ![p] = [begins |-> what, call |-> c]]]
  BY <1>1, <1>3 DEF Begins
<1>5. /\ y.log = s.log[p] /\ y.line = [begins |-> what, call |-> c]
      /\ y.stack = s.stack[p] /\ y.dump = s.dump[p]
  BY DEF WithLine, File
<1>6. /\ DOMAIN s.log = Files /\ DOMAIN s.line = Files
      /\ DOMAIN s.stack = Files /\ DOMAIN s.dump = Files
  BY DEF InFiles, HasFiles
<1>. HIDE DEF y
<1>7. Fields(s)
  BY DEF InFiles, IsOutput
<1>8. /\ Fields(t) /\ t.tcbtab = s.tcbtab /\ t.nprocs = s.nprocs
      /\ t.printing = s.printing /\ t.current = s.current
      /\ t.log = s.log /\ t.stack = s.stack /\ t.dump = s.dump
      /\ t.line = [s.line EXCEPT ![p] = [begins |-> what, call |-> c]]
  BY <1>4, <1>7 DEF Fields
<1>. HIDE DEF p, c
<1>10. /\ DOMAIN t.log = Files /\ DOMAIN t.line = Files
       /\ DOMAIN t.stack = Files /\ DOMAIN t.dump = Files
  BY <1>6, <1>8
<1>11. \A f \in Files :
          IF f = p
          THEN /\ t.log[f] = y.log /\ t.line[f] = y.line
               /\ t.stack[f] = y.stack /\ t.dump[f] = y.dump
          ELSE /\ t.log[f] = s.log[f] /\ t.line[f] = s.line[f]
               /\ t.stack[f] = s.stack[f] /\ t.dump[f] = s.dump[f]
  BY <1>5, <1>6, <1>8
<1>12. p = s.tcbtab[i].pid
  BY DEF p
<1>13. Written(s, t, i, y)
  BY <1>2, <1>8, <1>10, <1>11, <1>12, FileWritten
<1>. QED  BY <1>3, <1>13 DEF p, y, c

LEMMA EndsQuiet ==
  ASSUME NEW s, NEW i, InFiles(s, i), NEW text \in Texts \ {"result"}
  PROVE  Quiets(s, Ends(s, i, text), i)
<1>1. File(s, s.tcbtab[i].pid) \in FileSet
  BY FileIs
<1>. QED  BY <1>1, EndsWritten, EndIsQuiet, WrittenIn

LEMMA BeginsQuiet ==
  ASSUME NEW s, NEW i, InFiles(s, i), NEW what \in {"resumed", "unknown"}
  PROVE  /\ Quiets(s, Begins(s, i, what), i)
         /\ File(Begins(s, i, what), s.tcbtab[i].pid).line.begins = what
         /\ Begins(s, i, what).tcbtab = s.tcbtab
<1>. DEFINE x == File(s, s.tcbtab[i].pid)
            c == s.tcbtab[i].call
            y == WithLine(x, what, c)
<1>1. x \in FileSet /\ c \in Call
  BY FileIs DEF InFiles, HasFiles, Owned
<1>2. Written(s, Begins(s, i, what), i, y)
  BY BeginsWritten
<1>3. Quietly(x, y)
  <2>1. /\ y.log = x.log /\ y.stack = x.stack /\ y.dump = x.dump
        /\ y.line = [begins |-> what, call |-> c] /\ Len(x.log) \in Nat
    BY <1>1, LogOf DEF WithLine
  <2>2. y \in FileSet
    BY <1>1 DEF WithLine, FileSet, Line
  <2>. HIDE DEF y, x, c
  <2>. QED  BY <1>1, <2>1, <2>2 DEF Quietly, Grows
<1>4. y.line.begins = what
  BY DEF WithLine
<1>. QED  BY <1>2, <1>3, <1>4, WrittenIn DEF Written

LEMMA PrintleaderLeads ==
  ASSUME NEW s, NEW i, InFiles(s, i)
  PROVE  \A led : led = printleader(TRUE, s, i) =>
            /\ Quiets(s, led, i) /\ InFiles(led, i) /\ led.tcbtab[i].pid = s.tcbtab[i].pid
            /\ led.current = i
<1>. DEFINE e == Ends(s, i, "unfinished")
            ended == IF i # 0 /\ s.tcbtab[i].curcol
                     THEN [e EXCEPT !.tcbtab[i].curcol = FALSE] ELSE s
            named == [ended EXCEPT !.printing = i, !.current = i]
<1>0. "unfinished" \in Texts \ {"result"} /\ i \in DOMAIN s.tcbtab
  BY DEF Texts, InFiles
<1>1. Quiets(s, s, i)
  BY KeepsItself, QuietItself, FileIs DEF InFiles, Quiets, Keeps, NoneFiltered
<1>2. Quiets(s, [e EXCEPT !.tcbtab[i].curcol = FALSE], i)
  <2>1. Quiets(s, e, i) /\ InFiles(e, i)
    BY <1>0, EndsQuiet, QuietsIn
  <2>. HIDE DEF e
  <2>2. Quiets(e, [e EXCEPT !.tcbtab[i].curcol = FALSE], i)
    BY <2>1, CurcolQuiet
  <2>. QED  BY <1>0, <2>1, <2>2, QuietsThrough
<1>3. Quiets(s, ended, i)
  BY <1>1, <1>2
<1>4. printleader(TRUE, s, i) = [named EXCEPT !.tcbtab[i].curcol = TRUE]
  BY DEF printleader
<1>. HIDE DEF ended
<1>5. InFiles(ended, i)
  BY <1>3, QuietsIn
<1>6. Quiets(ended, named, i)
  BY <1>5, PrintingQuiet
<1>15. named.current = i
  <2>1. Fields(ended)
    BY <1>5 DEF InFiles, IsOutput
  <2>. QED  BY <2>1 DEF Fields
<1>. HIDE DEF named
<1>7. InFiles(named, i)
  BY <1>5, <1>6, QuietsIn
<1>8. /\ Quiets(named, [named EXCEPT !.tcbtab[i].curcol = TRUE], i)
      /\ [named EXCEPT !.tcbtab[i].curcol = TRUE].current = named.current
  BY <1>7, CurcolQuiet
<1>9. i \in DOMAIN ended.tcbtab /\ i \in DOMAIN named.tcbtab
  BY <1>5, <1>7 DEF InFiles
<1>10. Quiets(s, named, i)
  BY <1>0, <1>3, <1>6, QuietsThrough
<1>11. Quiets(s, [named EXCEPT !.tcbtab[i].curcol = TRUE], i)
  BY <1>0, <1>8, <1>10, QuietsThrough
<1>12. PICK led : led = printleader(TRUE, s, i)
  OBVIOUS
<1>13. Quiets(s, led, i)
  BY <1>4, <1>11, <1>12
<1>14. InFiles(led, i) /\ led.tcbtab[i].pid = s.tcbtab[i].pid
  BY <1>13, QuietsIn
<1>16. led.current = i
  BY <1>4, <1>8, <1>12, <1>15
<1>. QED  BY <1>12, <1>13, <1>14, <1>16

LEMMA PrintleaderQuiet ==
  ASSUME NEW s, NEW i, InFiles(s, i)
  PROVE  \A led : led = printleader(TRUE, s, i) =>
            Quiets(s, led, i) /\ InFiles(led, i) /\ led.tcbtab[i].pid = s.tcbtab[i].pid
<1>1. \A led : led = printleader(TRUE, s, i) =>
            /\ Quiets(s, led, i) /\ InFiles(led, i) /\ led.tcbtab[i].pid = s.tcbtab[i].pid
            /\ led.current = i
  BY PrintleaderLeads
<1>. QED  BY <1>1

\* line_ended after the end of a line
LEMMA LineOutQuiet ==
  ASSUME NEW s, NEW i, InFiles(s, i), NEW text \in Texts \ {"result"}
  PROVE  Quiets(s, line_ended(Ends(s, i, text)), i)
<1>. DEFINE e == Ends(s, i, text)
<1>1. Quiets(s, e, i) /\ InFiles(e, i) /\ i \in DOMAIN s.tcbtab
  BY EndsQuiet, QuietsIn DEF InFiles
<1>. HIDE DEF e
<1>2. Quiets(e, line_ended(e), i)
  BY <1>1, LineEndedQuiet
<1>. QED  BY <1>1, <1>2, QuietsThrough DEF e

LEMMA NoteQuiet ==
  ASSUME NEW s, NEW i, InFiles(s, i), NEW text \in Texts \ {"result"}
  PROVE  Quiets(s, Note(TRUE, s, i, text), i)
<1>. DEFINE led == printleader(TRUE, s, i)
<1>1. Quiets(s, led, i) /\ InFiles(led, i) /\ i \in DOMAIN s.tcbtab
  BY PrintleaderQuiet DEF InFiles
<1>. HIDE DEF led
<1>2. Quiets(led, line_ended(Ends(led, i, text)), i)
  BY <1>1, LineOutQuiet
<1>. QED  BY <1>1, <1>2, QuietsThrough DEF Note, led

\* The line of a change of pid is one that the reader raises for.
LEMMA NoteRaises ==
  ASSUME NEW s, NEW i, InFiles(s, i)
  PROVE  Raises(File(Note(TRUE, s, i, "superseded"), s.tcbtab[i].pid))
<1>. DEFINE p == s.tcbtab[i].pid
            led == printleader(TRUE, s, i)
            e == Ends(led, i, "superseded")
<1>0. "superseded" \in Texts
  BY DEF Texts
<1>1. InFiles(led, i) /\ led.tcbtab[i].pid = p
  BY PrintleaderQuiet
<1>. HIDE DEF led
<1>. DEFINE x == File(led, p)
            y == WithEnd(x, "superseded")
<1>2. Written(led, e, i, y) /\ x \in FileSet
  BY <1>0, <1>1, EndsWritten, FileIs
<1>3. InFiles(e, i) /\ File(e, p) = y
  BY <1>1, <1>2, WrittenIn DEF Written
<1>4. Raises(y)
  <2>. DEFINE last == [begins |-> x.line.begins, ends |-> "superseded", call |-> x.line.call]
  <2>1. /\ y \in FileSet /\ Len(y.log) = Len(x.log) + 1 /\ y.log[Len(y.log)] = last
    BY <1>0, <1>2, EndedLine
  <2>2. ~Parsed(last) /\ ~Skipped(last)
    BY DEF Parsed, Skipped
  <2>. HIDE DEF y, last, x
  <2>3. Len(y.log) \in DOMAIN y.log
    BY <1>2, <2>1, LogOf
  <2>. QED  BY <2>1, <2>2, <2>3 DEF Raises
<1>. HIDE DEF e, x, y
<1>5. File(line_ended(e), p) = File(e, p)
  BY <1>3, LineEndedQuiet
<1>. QED  BY <1>3, <1>4, <1>5 DEF Note, led, e

LEMMA ResumedQuiet ==
  ASSUME NEW s, NEW i, InFiles(s, i)
  PROVE  LET t == Resumed(TRUE, s, i)
             p == s.tcbtab[i].pid
         IN  /\ Quiets(s, t, i)
             /\ File(t, p) = File(s, p) \/ File(t, p).line.begins = "resumed"
<1>. DEFINE p == s.tcbtab[i].pid
            cleared == ClearFlags(s, i, {"REPRINT"})
            led == printleader(TRUE, cleared, i)
            begun == Begins(led, i, "resumed")
<1>0. i \in DOMAIN s.tcbtab
  BY DEF InFiles
<1>1. Quiets(s, cleared, i) /\ InFiles(cleared, i) /\ cleared.tcbtab[i].pid = p
  BY <1>0, FlagsQuiet, QuietsIn
<1>. HIDE DEF cleared
<1>2. Quiets(cleared, led, i) /\ InFiles(led, i) /\ led.tcbtab[i].pid = p
  BY <1>1, PrintleaderQuiet
<1>. HIDE DEF led
<1>3. /\ Quiets(led, begun, i) /\ InFiles(begun, i)
      /\ File(begun, p).line.begins = "resumed"
  BY <1>2, BeginsQuiet, QuietsIn
<1>. HIDE DEF begun
<1>4. Quiets(s, begun, i)
  BY <1>0, <1>1, <1>2, <1>3, QuietsThrough
<1>5. PICK t : t = [begun EXCEPT !.printing = i]
  OBVIOUS
<1>6. Quiets(begun, t, i) /\ File(t, p) = File(begun, p)
  <2>1. \A u : u = [begun EXCEPT !.printing = i] =>
           Quiets(begun, u, i) /\ (\A f : File(u, f) = File(begun, f))
    BY <1>3, PrintsQuiet
  <2>. QED  BY <1>5, <2>1
<1>7. Quiets(s, t, i) /\ File(t, p).line.begins = "resumed"
  BY <1>0, <1>3, <1>4, <1>6, QuietsThrough
<1>8. PICK u : u = [s EXCEPT !.printing = i]
  OBVIOUS
<1>9. Quiets(s, u, i) /\ File(u, p) = File(s, p)
  <2>1. \A v : v = [s EXCEPT !.printing = i] =>
           Quiets(s, v, i) /\ (\A f : File(v, f) = File(s, f))
    BY PrintsQuiet
  <2>. QED  BY <1>8, <2>1
<1>10. Resumed(TRUE, s, i) \in {t, u}
  BY <1>5, <1>8 DEF Resumed, begun, led, cleared
<1>. QED  BY <1>7, <1>9, <1>10

-----------------------------------------------------------------------------
(* Blocks that are dropped and added                                         *)

\* Other files are left alone, and that of p gets no line that can be parsed.
QuietFile(s, t, p) ==
    /\ HasFiles(t) /\ \A f \in Files \ {p} : File(t, f) = File(s, f)
    /\ Quietly(File(s, p), File(t, p))

LEMMA FreeIsOwned == Owned(FreeTcb) /\ FreeTcb.flags = {} /\ FreeTcb.pid = 0
  BY DEF Owned, FreeTcb, NoCall, Call

LEMMA DropQuiet ==
  ASSUME NEW s, NEW i, InFiles(s, i)
  PROVE  LET t == droptcb(TRUE, s, i) IN
         QuietFile(s, t, s.tcbtab[i].pid) /\ NoneFiltered(s, t)
<1>. DEFINE p == s.tcbtab[i].pid
            ended == IF s.tcbtab[i].curcol THEN Ends(s, i, "detached") ELSE s
<1>0. "detached" \in Texts \ {"result"} /\ i \in DOMAIN s.tcbtab /\ p # 0
  BY DEF Texts, InFiles
<1>1. Quiets(s, s, i)
  BY KeepsItself, QuietItself, FileIs DEF InFiles, Quiets, Keeps, NoneFiltered
<1>2. Quiets(s, ended, i)
  BY <1>0, <1>1, EndsQuiet
<1>3. InFiles(ended, i) /\ ended.tcbtab[i].pid = p /\ Places(s, ended)
  BY <1>2, QuietsIn DEF Quiets
<1>4. PICK n, a, c : droptcb(TRUE, s, i) =
          [ended EXCEPT !.nprocs = n, !.printing = a, !.current = c, !.tcbtab[i] = FreeTcb]
  BY <1>0 DEF droptcb
<1>5. PICK t : t = droptcb(TRUE, s, i)
  OBVIOUS
<1>. HIDE DEF ended
<1>6. t = [ended EXCEPT !.nprocs = n, !.printing = a, !.current = c, !.tcbtab[i] = FreeTcb]
  BY <1>4, <1>5
<1>7. SameFiles(ended, t) /\ t.tcbtab = [ended.tcbtab EXCEPT ![i] = FreeTcb]
  BY <1>3, <1>6 DEF InFiles, IsOutput, Fields, SameFiles
<1>8. \A f : File(t, f) = File(ended, f)
  BY <1>7 DEF SameFiles, File
<1>9. DOMAIN t.tcbtab = DOMAIN ended.tcbtab /\ \A k \in DOMAIN ended.tcbtab :
          t.tcbtab[k] = IF k = i THEN FreeTcb ELSE ended.tcbtab[k]
  BY <1>7
<1>10. HasFiles(t)
  BY <1>3, <1>7, <1>8, <1>9, FreeIsOwned DEF InFiles, HasFiles, SameFiles
<1>11. NoneFiltered(s, t)
  BY <1>2, <1>3, <1>9, FreeIsOwned DEF Quiets, NoneFiltered, Places
<1>12. QuietFile(s, t, p)
  BY <1>2, <1>8, <1>10 DEF Quiets, QuietFile
<1>. QED  BY <1>5, <1>11, <1>12

\* From s to t the files are the same.
KeepsFiles(s, t) ==
    HasFiles(t) /\ (\A f : File(t, f) = File(s, f)) /\ NoneFiltered(s, t)

LEMMA AttachFiles ==
  ASSUME NEW s, IsOutput(s), HasFiles(s), NEW p, p \in Pids, NEW flags, "FILTERED" \notin flags
  PROVE  \A t : t = Attached(TRUE, s, p, flags) => KeepsFiles(s, t)
<1>. DEFINE r == IF s.nprocs = Len(s.tcbtab) THEN expand_tcbtab(s) ELSE s
            k == FirstFree(r)
            b == [FreeTcb EXCEPT !.pid = p, !.outf = p,
                                 !.flags = {"INUSE", "ATTACHED", "STARTUP"} \cup flags]
<1>1. SUFFICES ASSUME NEW t, t = Attached(TRUE, s, p, flags) PROVE KeepsFiles(s, t)
  OBVIOUS
<1>2. t = [r EXCEPT !.nprocs = @ + 1, !.tcbtab[k] = b]
  BY <1>1 DEF Attached
<1>3. Owned(b) /\ "FILTERED" \notin b.flags
  <2>1. b.pid = p /\ b.outf = p /\ b.flags = {"INUSE", "ATTACHED", "STARTUP"} \cup flags
        /\ b.call = NoCall
    BY DEF FreeTcb
  <2>2. p # 0
    BY PidsAssumption
  <2>. HIDE DEF b
  <2>. QED  BY <2>1, <2>2 DEF Owned, NoCall, Call
<1>. HIDE DEF b, k
<1>4. PICK n \in Nat : n >= FirstSize /\ IsBlocks(s.tcbtab, n)
  BY DEF IsOutput
<1>5. DOMAIN s.tcbtab = 1..n /\ Len(s.tcbtab) = n /\ Fields(s)
  BY <1>4, BlocksAreSeq DEF IsOutput
<1>6. /\ Fields(r) /\ SameFiles(s, r)
      /\ \A m \in DOMAIN r.tcbtab : IF m \in DOMAIN s.tcbtab THEN r.tcbtab[m] = s.tcbtab[m]
                                    ELSE r.tcbtab[m] = FreeTcb
      /\ DOMAIN s.tcbtab \subseteq DOMAIN r.tcbtab
  <2>1. CASE s.nprocs = n
    <3>1. PICK e : e = expand_tcbtab(s)
      OBVIOUS
    <3>2. /\ Fields(e) /\ SameFiles(s, e)
          /\ e.tcbtab = [m \in 1..(2 * n) |-> IF m <= n THEN s.tcbtab[m] ELSE FreeTcb]
      BY <1>5, <3>1 DEF expand_tcbtab, Fields, SameFiles
    <3>3. \A m \in 1..(2 * n) : m <= n <=> m \in 1..n
      OBVIOUS
    <3>4. 1..n \subseteq 1..(2 * n)
      OBVIOUS
    <3>5. r = e
      BY <1>5, <2>1, <3>1
    <3>. QED  BY <1>5, <3>2, <3>3, <3>4, <3>5
  <2>2. CASE s.nprocs # n
    <3>1. r = s
      BY <1>5, <2>2
    <3>. QED  BY <1>5, <3>1 DEF SameFiles
  <2>. QED  BY <2>1, <2>2
<1>. HIDE DEF r
<1>7. SameFiles(s, t) /\ t.tcbtab = [r.tcbtab EXCEPT ![k] = b]
  BY <1>2, <1>6 DEF Fields, SameFiles
<1>8. DOMAIN t.tcbtab = DOMAIN r.tcbtab /\ \A m \in DOMAIN r.tcbtab :
          t.tcbtab[m] = b \/ t.tcbtab[m] = r.tcbtab[m]
  BY <1>7
<1>9. \A m \in DOMAIN t.tcbtab : Owned(t.tcbtab[m])
  BY <1>3, <1>6, <1>8, FreeIsOwned DEF HasFiles
<1>10. NoneFiltered(s, t)
  BY <1>3, <1>6, <1>8 DEF NoneFiltered
<1>11. \A f : File(t, f) = File(s, f)
  BY <1>7 DEF SameFiles, File
<1>12. HasFiles(t)
  BY <1>7, <1>9, <1>11 DEF HasFiles, SameFiles
<1>. QED  BY <1>10, <1>11, <1>12 DEF KeepsFiles

-----------------------------------------------------------------------------
(* What the steps do to the files                                            *)

\* From s to t the file of block i becomes y, and the blocks stay.
Puts(s, t, i, y) ==
    LET p == s.tcbtab[i].pid IN
    /\ Places(s, t) /\ HasFiles(t) /\ NoneFiltered(s, t)
    /\ t.current \in {s.current, i}
    /\ \A f \in Files \ {p} : File(t, f) = File(s, f)
    /\ File(t, p) = y

LEMMA QuietIsPut ==
  ASSUME NEW s, NEW t, NEW i, Quiets(s, t, i)
  PROVE  LET p == s.tcbtab[i].pid
         IN  Puts(s, t, i, File(t, p)) /\ Quietly(File(s, p), File(t, p))
  BY DEF Quiets, Puts

LEMMA WrittenIsPut ==
  ASSUME NEW s, NEW t, NEW i, NEW y, Written(s, t, i, y)
  PROVE  Puts(s, t, i, y)
<1>1. NoneFiltered(s, t)
  BY DEF Written, NoneFiltered
<1>. QED  BY <1>1 DEF Written, Puts

LEMMA PutsIn ==
  ASSUME NEW s, NEW t, NEW i, NEW y, InFiles(s, i), Puts(s, t, i, y)
  PROVE  InFiles(t, i) /\ t.tcbtab[i].pid = s.tcbtab[i].pid
  BY DEF InFiles, Puts, Places

LEMMA PutsThrough ==
  ASSUME NEW s, NEW t, NEW u, NEW i, NEW y, NEW z, i \in DOMAIN s.tcbtab,
         Puts(s, t, i, y), Puts(t, u, i, z)
  PROVE  Puts(s, u, i, z)
<1>1. Places(s, u) /\ t.tcbtab[i].pid = s.tcbtab[i].pid
  BY DEF Puts, Places
<1>2. NoneFiltered(s, u)
  BY DEF Puts, Places, NoneFiltered
<1>. QED  BY <1>1, <1>2 DEF Puts

LEMMA PutsSame ==
  ASSUME NEW s, NEW t, NEW u, NEW i, NEW y, i \in DOMAIN s.tcbtab,
         Puts(s, t, i, y), Quiets(t, u, i), \A f : File(u, f) = File(t, f)
  PROVE  Puts(s, u, i, y)
<1>1. t.tcbtab[i].pid = s.tcbtab[i].pid
  BY DEF Puts, Places
<1>2. Puts(t, u, i, y)
  BY <1>1 DEF Puts, Quiets
<1>. QED  BY <1>2, PutsThrough

LEMMA StartedQuiet ==
  ASSUME InFiles(out, tcp)
  PROVE  \A s : s = Started(out) =>
            /\ Quiets(out, s, tcp) /\ InFiles(s, tcp) /\ \A f : File(s, f) = File(out, f)
            /\ s.tcbtab[tcp].pid = Tcb.pid /\ s.tcbtab[tcp].call = Tcb.call
            /\ s.tcbtab[tcp].flags = Tcb.flags \ {"STARTUP"}
            /\ s.current = tcp
<1>1. SUFFICES ASSUME NEW s, s = Started(out)
               PROVE  /\ Quiets(out, s, tcp) /\ InFiles(s, tcp)
                      /\ \A f : File(s, f) = File(out, f)
                      /\ s.tcbtab[tcp].pid = Tcb.pid /\ s.tcbtab[tcp].call = Tcb.call
                      /\ s.tcbtab[tcp].flags = Tcb.flags \ {"STARTUP"}
                      /\ s.current = tcp
  OBVIOUS
<1>2. PICK c : c = ClearFlags(out, tcp, {"STARTUP"})
  OBVIOUS
<1>3. /\ Quiets(out, c, tcp) /\ (\A f : File(c, f) = File(out, f))
      /\ c.tcbtab[tcp].flags = Tcb.flags \ {"STARTUP"}
  <2>1. tcp \in DOMAIN out.tcbtab
    BY DEF InFiles
  <2>. QED  BY <1>2, <2>1, FlagsQuiet DEF Tcb
<1>4. InFiles(c, tcp) /\ c.tcbtab[tcp].pid = Tcb.pid
  BY <1>3, QuietsIn DEF Tcb
<1>5. Keeps(out, c) /\ tcp \in DOMAIN out.tcbtab
  BY <1>2, FlagsKeep DEF InFiles
<1>6. c.tcbtab[tcp].call = Tcb.call
  BY <1>5 DEF Keeps, SameCall, Tcb
<1>7. s = [c EXCEPT !.current = tcp]
  BY <1>1, <1>2 DEF Started
<1>8. Quiets(c, s, tcp) /\ (\A f : File(s, f) = File(c, f)) /\ s.tcbtab = c.tcbtab
  BY <1>4, <1>7, CurrentQuiet
<1>9. Quiets(out, s, tcp)
  BY <1>3, <1>5, <1>8, QuietsThrough
<1>10. InFiles(s, tcp) /\ s.current = tcp
  <2>1. Fields(c)
    BY <1>4 DEF InFiles, IsOutput
  <2>. QED  BY <1>4, <1>7, <1>8, <2>1, QuietsIn DEF Fields
<1>. QED  BY <1>3, <1>4, <1>6, <1>8, <1>9, <1>10

\* The call of the thread is read into the block at hand.
LEMMA ReadQuiet ==
  ASSUME NEW s, InFiles(s, tcp), NEW c \in Call, c = task[status.pid].call
  PROVE  \A t : t = Read(s) =>
            /\ Quiets(s, t, tcp) /\ InFiles(t, tcp) /\ \A f : File(t, f) = File(s, f)
            /\ t.current = s.current
            /\ t.tcbtab[tcp].call = c /\ t.tcbtab[tcp].flags = s.tcbtab[tcp].flags
<1>1. SUFFICES ASSUME NEW t, t = Read(s)
               PROVE  /\ Quiets(s, t, tcp) /\ \A f : File(t, f) = File(s, f)
                      /\ t.current = s.current
                      /\ t.tcbtab[tcp].call = c /\ t.tcbtab[tcp].flags = s.tcbtab[tcp].flags
  BY QuietsIn
<1>2. PICK b : b = [s.tcbtab[tcp] EXCEPT !.call = c]
  OBVIOUS
<1>3. IsTcb(s.tcbtab[tcp]) /\ Owned(s.tcbtab[tcp]) /\ tcp \in DOMAIN s.tcbtab
  BY BlockOf DEF InFiles, HasFiles
<1>4. /\ IsTcb(b) /\ b.pid = s.tcbtab[tcp].pid /\ b.outf = s.tcbtab[tcp].outf
      /\ b.flags = s.tcbtab[tcp].flags /\ b.curcol = s.tcbtab[tcp].curcol /\ b.call = c
  BY <1>2, <1>3 DEF IsTcb
<1>5. Owned(b)
  BY <1>3, <1>4 DEF Owned
<1>6. t = [s EXCEPT !.tcbtab[tcp] = b]
  BY <1>1, <1>2 DEF Read
<1>7. /\ Quiets(s, t, tcp) /\ \A f : File(t, f) = File(s, f)
      /\ t.current = s.current
      /\ \A m \in DOMAIN s.tcbtab : t.tcbtab[m] = IF m = tcp THEN b ELSE s.tcbtab[m]
  BY <1>3, <1>4, <1>5, <1>6, BlockQuiet
<1>. QED  BY <1>3, <1>4, <1>7

\* The line of a call has a line in the stack file.
LEMMA StackWritten ==
  ASSUME NEW s, NEW i, InFiles(s, i), NEW c \in Call, c = s.tcbtab[i].call
  PROVE  LET begun == Begins(s, i, "call") IN
         \A t : t = [begun EXCEPT !.stack[begun.tcbtab[i].outf] =
                                     Append(@, begun.tcbtab[i].call)] =>
            Written(s, t, i, WithCall(File(s, s.tcbtab[i].pid), c))
<1>. DEFINE p == s.tcbtab[i].pid
            begun == Begins(s, i, "call")
            x == WithLine(File(s, p), "call", c)
            y == WithCall(File(s, p), c)
<1>1. Written(s, begun, i, x)
  BY BeginsWritten
<1>2. InFiles(begun, i) /\ File(s, p) \in FileSet
  BY <1>1, WrittenIn, FileIs
<1>3. /\ begun.tcbtab = s.tcbtab /\ begun.nprocs = s.nprocs
      /\ begun.printing = s.printing /\ begun.current = s.current
      /\ s.tcbtab[i].outf = p /\ p \in Files
      /\ File(begun, p) = x /\ \A f \in Files \ {p} : File(begun, f) = File(s, f)
  BY <1>1, FileIs DEF Written, Places
<1>4. y \in FileSet
  <2>1. /\ File(s, p).log \in Seq(Entry) /\ File(s, p).stack \in Seq(Call)
        /\ File(s, p).dump \in Seq(Call)
    BY <1>2, LogOf
  <2>. QED  BY <2>1 DEF WithCall, FileSet, Line
<1>5. SUFFICES ASSUME NEW t, t = [begun EXCEPT !.stack[begun.tcbtab[i].outf] =
                                     Append(@, begun.tcbtab[i].call)]
               PROVE  Written(s, t, i, y)
  OBVIOUS
<1>6. /\ y.log = s.log[p] /\ y.line = [begins |-> "call", call |-> c]
      /\ y.stack = Append(s.stack[p], c) /\ y.dump = s.dump[p]
      /\ x.log = s.log[p] /\ x.line = [begins |-> "call", call |-> c]
      /\ x.stack = s.stack[p] /\ x.dump = s.dump[p]
  BY DEF WithCall, WithLine, File
<1>. HIDE DEF begun, x, y
<1>7. Fields(begun) /\ DOMAIN begun.log = Files /\ DOMAIN begun.line = Files
      /\ DOMAIN begun.stack = Files /\ DOMAIN begun.dump = Files
  BY <1>2 DEF InFiles, IsOutput, HasFiles
<1>8. begun.log[p] = x.log /\ begun.line[p] = x.line /\ begun.stack[p] = x.stack
      /\ begun.dump[p] = x.dump
  <2>1. File(begun, p) = x
    BY <1>3
  <2>. QED  BY <2>1 DEF File
<1>9. \A f \in Files \ {p} :
         /\ begun.log[f] = s.log[f] /\ begun.line[f] = s.line[f]
         /\ begun.stack[f] = s.stack[f] /\ begun.dump[f] = s.dump[f]
  BY <1>3 DEF File
<1>10. t = [begun EXCEPT !.stack = [begun.stack EXCEPT ![p] = Append(begun.stack[p], c)]]
  BY <1>3, <1>5
<1>11. /\ Fields(t) /\ t.tcbtab = begun.tcbtab /\ t.nprocs = begun.nprocs
       /\ t.printing = begun.printing /\ t.current = begun.current
       /\ t.log = begun.log /\ t.line = begun.line /\ t.dump = begun.dump
       /\ t.stack = [begun.stack EXCEPT ![p] = Append(begun.stack[p], c)]
  BY <1>7, <1>10 DEF Fields
<1>. HIDE DEF p
<1>12. /\ DOMAIN t.log = Files /\ DOMAIN t.line = Files
       /\ DOMAIN t.stack = Files /\ DOMAIN t.dump = Files
  BY <1>7, <1>11
<1>13. \A f \in Files :
          IF f = p
          THEN /\ t.log[f] = y.log /\ t.line[f] = y.line
               /\ t.stack[f] = y.stack /\ t.dump[f] = y.dump
          ELSE /\ t.log[f] = s.log[f] /\ t.line[f] = s.line[f]
               /\ t.stack[f] = s.stack[f] /\ t.dump[f] = s.dump[f]
  BY <1>6, <1>7, <1>8, <1>9, <1>11
<1>14. p = s.tcbtab[i].pid
  BY DEF p
<1>15. /\ t.tcbtab = s.tcbtab /\ t.nprocs = s.nprocs
       /\ t.printing = s.printing /\ t.current = s.current /\ Fields(t)
  BY <1>3, <1>11
<1>. QED  BY <1>4, <1>12, <1>13, <1>14, <1>15, FileWritten

LEMMA PrintedPuts ==
  ASSUME NEW s, InFiles(s, tcp), NEW c \in Call, c = task[status.pid].call, opt.ff = TRUE
  PROVE  \A t : t = Printed(s) =>
            /\ InFiles(t, tcp) /\ "FILTERED" \notin t.tcbtab[tcp].flags
            /\ t.current = tcp /\ t.tcbtab[tcp].call = c
            /\ \E y : /\ Quietly(File(s, s.tcbtab[tcp].pid), y)
                      /\ Puts(s, t, tcp, WithCall(y, c))
<1>1. SUFFICES ASSUME NEW t, t = Printed(s)
               PROVE  /\ InFiles(t, tcp) /\ "FILTERED" \notin t.tcbtab[tcp].flags
                      /\ t.current = tcp /\ t.tcbtab[tcp].call = c
                      /\ \E y : /\ Quietly(File(s, s.tcbtab[tcp].pid), y)
                                /\ Puts(s, t, tcp, WithCall(y, c))
  OBVIOUS
<1>. DEFINE p == s.tcbtab[tcp].pid
<1>2. PICK read : read = Read(s)
  OBVIOUS
<1>3. /\ Quiets(s, read, tcp) /\ InFiles(read, tcp)
      /\ read.tcbtab[tcp].call = c /\ tcp \in DOMAIN s.tcbtab /\ tcp \in DOMAIN read.tcbtab
  BY <1>2, ReadQuiet DEF InFiles
<1>4. PICK clear : clear = ClearFlags(read, tcp, {"FILTERED"})
  OBVIOUS
<1>5. /\ Quiets(read, clear, tcp) /\ InFiles(clear, tcp)
      /\ clear.tcbtab[tcp].flags = read.tcbtab[tcp].flags \ {"FILTERED"}
  BY <1>3, <1>4, FlagsQuiet, QuietsIn
<1>6. Keeps(read, clear) /\ clear.tcbtab[tcp].call = c
  BY <1>3, <1>4, FlagsKeep DEF InFiles, Keeps, SameCall
<1>7. PICK led : led = printleader(TRUE, clear, tcp)
  OBVIOUS
<1>8. Quiets(clear, led, tcp) /\ InFiles(led, tcp) /\ led.current = tcp
  BY <1>5, <1>7, PrintleaderLeads
<1>9. led.tcbtab[tcp].call = c /\ "FILTERED" \notin led.tcbtab[tcp].flags
  <2>1. Keeps(clear, led)
    BY <1>5, <1>7, PrintleaderKeeps DEF InFiles
  <2>2. tcp \in DOMAIN clear.tcbtab
    BY <1>5 DEF InFiles
  <2>. QED  BY <1>5, <1>6, <1>8, <2>1, <2>2 DEF Keeps, SameCall, Quiets, NoneFiltered
<1>10. Quiets(s, led, tcp)
  <2>1. tcp \in DOMAIN clear.tcbtab
    BY <1>5 DEF InFiles
  <2>. QED  BY <1>3, <1>5, <1>8, <2>1, QuietsThrough
<1>11. led.tcbtab[tcp].pid = p
  BY <1>3, <1>10 DEF Quiets, Places
<1>. DEFINE y == File(led, p)
<1>12. Quietly(File(s, p), y)
  BY <1>10 DEF Quiets
<1>13. Written(led, t, tcp, WithCall(y, c))
  <2>1. /\ opt.ff = TRUE
        /\ t = [Begins(led, tcp, "call") EXCEPT !.stack[Begins(led, tcp, "call").tcbtab[tcp].outf] =
                                     Append(@, Begins(led, tcp, "call").tcbtab[tcp].call)]
    BY <1>1, <1>2, <1>4, <1>7 DEF Printed
  <2>. QED  BY <1>8, <1>9, <1>11, <2>1, StackWritten
<1>14. Puts(s, t, tcp, WithCall(y, c))
  BY <1>3, <1>10, <1>13, QuietIsPut, WrittenIsPut, PutsThrough
<1>15. InFiles(t, tcp) /\ t.tcbtab = led.tcbtab /\ t.current = tcp
  BY <1>8, <1>13, WrittenIn DEF Written
<1>. QED  BY <1>9, <1>12, <1>14, <1>15

\* A line is ended, and nobody prints.
LEMMA EndedPuts ==
  ASSUME NEW s, NEW i, InFiles(s, i), NEW text \in Texts
  PROVE  \A t : t = line_ended(Ends(s, i, text)) =>
            /\ Puts(s, t, i, WithEnd(File(s, s.tcbtab[i].pid), text)) /\ InFiles(t, i)
            /\ t.current = s.current
            /\ t.tcbtab[i].flags = s.tcbtab[i].flags
<1>1. SUFFICES ASSUME NEW t, t = line_ended(Ends(s, i, text))
               PROVE  /\ Puts(s, t, i, WithEnd(File(s, s.tcbtab[i].pid), text))
                      /\ InFiles(t, i) /\ t.current = s.current
                      /\ t.tcbtab[i].flags = s.tcbtab[i].flags
  OBVIOUS
<1>2. PICK e : e = Ends(s, i, text)
  OBVIOUS
<1>. DEFINE y == WithEnd(File(s, s.tcbtab[i].pid), text)
<1>3. Written(s, e, i, y)
  BY <1>2, EndsWritten
<1>4. InFiles(e, i) /\ e.tcbtab = s.tcbtab /\ e.current = s.current
  BY <1>3, WrittenIn DEF Written
<1>5. /\ Quiets(e, t, i) /\ \A f : File(t, f) = File(e, f)
      /\ t.current = e.current /\ \A k \in DOMAIN e.tcbtab : t.tcbtab[k].flags = e.tcbtab[k].flags
  BY <1>1, <1>2, <1>4, LineEndedQuiet
<1>6. i \in DOMAIN s.tcbtab /\ i \in DOMAIN e.tcbtab
  BY <1>4 DEF InFiles
<1>. HIDE DEF y
<1>7. Puts(s, t, i, y)
  BY <1>3, <1>5, <1>6, WrittenIsPut, PutsSame
<1>8. InFiles(t, i)
  BY <1>4, <1>5, QuietsIn
<1>. QED  BY <1>4, <1>5, <1>6, <1>7, <1>8 DEF y

\* The mark of the block at hand
LEMMA MarkQuiet ==
  ASSUME NEW s, InFiles(s, tcp)
  PROVE  /\ \A t : t = SetFlags(s, tcp, {"INSYSCALL"}) =>
               /\ Quiets(s, t, tcp) /\ (\A f : File(t, f) = File(s, f))
               /\ t.current = s.current /\ "INSYSCALL" \in t.tcbtab[tcp].flags
         /\ \A t : t = Left(s) =>
               /\ Quiets(s, t, tcp) /\ (\A f : File(t, f) = File(s, f))
               /\ t.current = s.current
<1>1. tcp \in DOMAIN s.tcbtab /\ "FILTERED" \notin {"INSYSCALL"} /\ "INUSE" \notin {"INSYSCALL"}
  BY DEF InFiles
<1>2. PICK a : a = SetFlags(s, tcp, {"INSYSCALL"})
  OBVIOUS
<1>3. /\ Quiets(s, a, tcp) /\ (\A f : File(a, f) = File(s, f))
      /\ a.current = s.current /\ a.tcbtab[tcp].flags = s.tcbtab[tcp].flags \cup {"INSYSCALL"}
  BY <1>1, <1>2, FlagsQuiet
<1>4. PICK b : b = ClearFlags(s, tcp, {"INSYSCALL"})
  OBVIOUS
<1>5. /\ Quiets(s, b, tcp) /\ (\A f : File(b, f) = File(s, f))
      /\ b.current = s.current
  BY <1>1, <1>4, FlagsQuiet
<1>. QED  BY <1>2, <1>3, <1>4, <1>5 DEF Left

\* The texts that strace ends lines with
LEMMA TextsAre ==
  {"unavailable", "signal", "exited", "killed", "no such process", "detached"}
      \subseteq Texts \ {"result"} /\ "result" \in Texts
  BY DEF Texts

LEMMA EnterFiles ==
  ASSUME opt.ff = TRUE, InFiles(out, tcp), NEW c \in Call, c = task[status.pid].call, Enter
  PROVE  /\ \E y : /\ Quietly(File(out, Tcb.pid), y)
                   /\ Puts(out, out', tcp, IF task[status.pid].kind \in {"exit", "exit_group"}
                                           THEN WithEnd(WithCall(y, c), "result")
                                           ELSE WithCall(y, c))
         /\ "FILTERED" \notin out'.tcbtab[tcp].flags /\ out'.current = tcp
<1>. DEFINE kind == task[status.pid].kind
<1>1. PICK s : s = Started(out)
  OBVIOUS
<1>2. /\ Quiets(out, s, tcp) /\ InFiles(s, tcp) /\ \A f : File(s, f) = File(out, f)
      /\ s.tcbtab[tcp].pid = Tcb.pid /\ tcp \in DOMAIN out.tcbtab
      /\ Tcb.pid = out.tcbtab[tcp].pid
  BY <1>1, StartedQuiet DEF InFiles, Tcb
<1>3. PICK o : o = Printed(s)
  OBVIOUS
<1>4. /\ InFiles(o, tcp) /\ "FILTERED" \notin o.tcbtab[tcp].flags /\ o.current = tcp
      /\ \E y : /\ Quietly(File(s, s.tcbtab[tcp].pid), y)
                /\ Puts(s, o, tcp, WithCall(y, c))
  BY <1>2, <1>3, PrintedPuts
<1>5. PICK y : /\ Quietly(File(out, Tcb.pid), y) /\ Puts(s, o, tcp, WithCall(y, c))
  BY <1>2, <1>4
<1>6. Puts(out, o, tcp, WithCall(y, c))
  BY <1>2, <1>5, QuietIsPut, PutsThrough
<1>7. /\ out' = IF kind = "write" THEN o
                ELSE IF kind \in {"exit", "exit_group"}
                THEN SetFlags(line_ended(Ends(o, tcp, "result")), tcp, {"INSYSCALL"})
                ELSE SetFlags(o, tcp, {"INSYSCALL"})
  BY <1>1, <1>3 DEF Enter
<1>8. CASE kind = "write"
  BY <1>4, <1>5, <1>6, <1>7, <1>8
<1>9. CASE kind \in {"exit", "exit_group"}
  <2>1. PICK e : e = line_ended(Ends(o, tcp, "result"))
    OBVIOUS
  <2>2. /\ Puts(o, e, tcp, WithEnd(File(o, o.tcbtab[tcp].pid), "result")) /\ InFiles(e, tcp)
        /\ e.current = tcp /\ "FILTERED" \notin e.tcbtab[tcp].flags
    <3>1. "result" \in Texts /\ InFiles(o, tcp)
      BY <1>4, TextsAre
    <3>2. /\ Puts(o, e, tcp, WithEnd(File(o, o.tcbtab[tcp].pid), "result")) /\ InFiles(e, tcp)
          /\ e.current = o.current /\ e.tcbtab[tcp].flags = o.tcbtab[tcp].flags
      BY <2>1, <3>1, EndedPuts
    <3>. QED  BY <1>4, <3>2
  <2>3. File(o, o.tcbtab[tcp].pid) = WithCall(y, c)
    BY <1>2, <1>6 DEF Puts, Places
  <2>4. Puts(out, e, tcp, WithEnd(WithCall(y, c), "result"))
    BY <1>2, <1>6, <2>2, <2>3, PutsThrough
  <2>5. out' = SetFlags(e, tcp, {"INSYSCALL"})
    BY <1>7, <1>9, <2>1
  <2>6. /\ Quiets(e, out', tcp) /\ (\A f : File(out', f) = File(e, f))
        /\ out'.current = tcp
    BY <2>2, <2>5, MarkQuiet
  <2>7. Puts(out, out', tcp, WithEnd(WithCall(y, c), "result"))
    BY <1>2, <2>4, <2>6, PutsSame
  <2>8. "FILTERED" \notin out'.tcbtab[tcp].flags
    BY <2>2, <2>6 DEF InFiles, Quiets, NoneFiltered
  <2>. QED  BY <1>5, <1>9, <2>6, <2>7, <2>8
<1>10. CASE kind \notin {"write", "exit", "exit_group"}
  <2>1. out' = SetFlags(o, tcp, {"INSYSCALL"})
    BY <1>7, <1>10
  <2>2. /\ Quiets(o, out', tcp) /\ (\A f : File(out', f) = File(o, f))
        /\ out'.current = tcp
    BY <1>4, <2>1, MarkQuiet
  <2>3. Puts(out, out', tcp, WithCall(y, c))
    BY <1>2, <1>6, <2>2, PutsSame
  <2>4. "FILTERED" \notin out'.tcbtab[tcp].flags
    BY <1>4, <2>2 DEF InFiles, Quiets, NoneFiltered
  <2>. QED  BY <1>5, <1>10, <2>2, <2>3, <2>4
<1>. QED  BY <1>8, <1>9, <1>10

LEMMA DumpFiles ==
  ASSUME InFiles(out, tcp), Dump
  PROVE  /\ Puts(out, out', tcp, WithDump(File(out, Tcb.pid), Tcb.call))
         /\ out'.current = out.current
<1>. DEFINE p == Tcb.pid
            c == Tcb.call
            y == WithDump(File(out, p), c)
<1>1. PICK s : s = SetFlags(out, tcp, {"INSYSCALL"})
  OBVIOUS
<1>2. /\ Quiets(out, s, tcp) /\ (\A f : File(s, f) = File(out, f)) /\ s.current = out.current
  BY <1>1, MarkQuiet
<1>3. /\ InFiles(s, tcp) /\ s.tcbtab[tcp].pid = p /\ tcp \in DOMAIN out.tcbtab
  BY <1>2, QuietsIn DEF InFiles, Tcb
<1>4. /\ Tcb.outf = p /\ p \in Files /\ File(out, p) \in FileSet /\ c \in Call
  BY <1>3, FileIs DEF Tcb, InFiles, HasFiles, Owned
<1>5. out' = [s EXCEPT !.dump = [s.dump EXCEPT ![p] = Append(s.dump[p], c)]]
  BY <1>1, <1>4 DEF Dump
<1>6. y \in FileSet
  <2>1. /\ File(out, p).log \in Seq(Entry) /\ File(out, p).stack \in Seq(Call)
        /\ File(out, p).dump \in Seq(Call) /\ File(out, p).line \in Line
    BY <1>4, LogOf
  <2>. QED  BY <1>4, <2>1 DEF WithDump, FileSet
<1>7. /\ y.log = s.log[p] /\ y.line = s.line[p]
      /\ y.stack = s.stack[p] /\ y.dump = Append(s.dump[p], c)
  <2>1. File(out, p) = File(s, p)
    BY <1>2
  <2>. QED  BY <2>1 DEF WithDump, File
<1>. HIDE DEF y
<1>8. Fields(s) /\ DOMAIN s.log = Files /\ DOMAIN s.line = Files
      /\ DOMAIN s.stack = Files /\ DOMAIN s.dump = Files
  BY <1>3 DEF InFiles, IsOutput, HasFiles
<1>9. PICK t : t = out'
  OBVIOUS
<1>10. /\ Fields(t) /\ t.tcbtab = s.tcbtab /\ t.nprocs = s.nprocs
       /\ t.printing = s.printing /\ t.current = s.current
       /\ t.log = s.log /\ t.line = s.line /\ t.stack = s.stack
       /\ t.dump = [s.dump EXCEPT ![p] = Append(s.dump[p], c)]
  BY <1>5, <1>8, <1>9 DEF Fields
<1>11. p = s.tcbtab[tcp].pid
  BY <1>3
<1>. HIDE DEF p, c
<1>12. /\ DOMAIN t.log = Files /\ DOMAIN t.line = Files
       /\ DOMAIN t.stack = Files /\ DOMAIN t.dump = Files
  BY <1>8, <1>10
<1>13. \A f \in Files :
          IF f = p
          THEN /\ t.log[f] = y.log /\ t.line[f] = y.line
               /\ t.stack[f] = y.stack /\ t.dump[f] = y.dump
          ELSE /\ t.log[f] = s.log[f] /\ t.line[f] = s.line[f]
               /\ t.stack[f] = s.stack[f] /\ t.dump[f] = s.dump[f]
  BY <1>7, <1>8, <1>10
<1>14. Written(s, t, tcp, y)
  <2>1. InFiles(s, tcp)
    BY <1>3
  <2>2. /\ t.tcbtab = s.tcbtab /\ t.nprocs = s.nprocs
        /\ t.printing = s.printing /\ t.current = s.current /\ Fields(t)
    BY <1>10
  <2>. QED  BY <1>6, <1>11, <1>12, <1>13, <2>1, <2>2, FileWritten
<1>15. Puts(out, t, tcp, y)
  BY <1>2, <1>3, <1>14, QuietIsPut, WrittenIsPut, PutsThrough
<1>. QED  BY <1>2, <1>9, <1>10, <1>15 DEF y, p, c

LEMMA ResumedFlags ==
  ASSUME NEW s, NEW i, InFiles(s, i)
  PROVE  \A t : t = Resumed(TRUE, s, i) =>
             /\ Quiets(s, t, i) /\ InFiles(t, i)
             /\ \/ File(t, s.tcbtab[i].pid) = File(s, s.tcbtab[i].pid)
                \/ File(t, s.tcbtab[i].pid).line.begins = "resumed"
<1>1. PICK t : t = Resumed(TRUE, s, i)
  OBVIOUS
<1>2. /\ Quiets(s, t, i)
      /\ \/ File(t, s.tcbtab[i].pid) = File(s, s.tcbtab[i].pid)
         \/ File(t, s.tcbtab[i].pid).line.begins = "resumed"
  BY <1>1, ResumedQuiet
<1>. QED  BY <1>1, <1>2, QuietsIn

LEMMA LeaveFiles ==
  ASSUME opt.ff = TRUE, InFiles(out, tcp), Leave
  PROVE  /\ IF "FILTERED" \in Tcb.flags \/ hide
            THEN Puts(out, out', tcp, File(out, Tcb.pid))
            ELSE \E y : /\ Quietly(File(out, Tcb.pid), y)
                        /\ y = File(out, Tcb.pid) \/ y.line.begins = "resumed"
                        /\ Puts(out, out', tcp, WithEnd(y, "result"))
         /\ out'.current = tcp
<1>1. PICK s : s = Started(out)
  OBVIOUS
<1>2. /\ Quiets(out, s, tcp) /\ InFiles(s, tcp) /\ \A f : File(s, f) = File(out, f)
      /\ s.tcbtab[tcp].pid = Tcb.pid /\ tcp \in DOMAIN out.tcbtab
      /\ Tcb.pid = out.tcbtab[tcp].pid /\ s.current = tcp
  BY <1>1, StartedQuiet DEF InFiles, Tcb
<1>3. CASE "FILTERED" \in Tcb.flags \/ hide
  <2>1. out' = Left(s)
    BY <1>1, <1>3 DEF Leave
  <2>2. Quiets(s, out', tcp) /\ (\A f : File(out', f) = File(s, f)) /\ out'.current = tcp
    BY <1>2, <2>1, MarkQuiet
  <2>3. Quiets(out, out', tcp)
    BY <1>2, <2>2, QuietsThrough
  <2>4. Puts(out, out', tcp, File(out, Tcb.pid))
    BY <1>2, <2>2, <2>3 DEF Quiets, Puts
  <2>. QED  BY <1>3, <2>2, <2>4
<1>4. CASE ~("FILTERED" \in Tcb.flags \/ hide)
  <2>1. PICK r : r = Resumed(TRUE, s, tcp)
    OBVIOUS
  <2>. DEFINE y == File(r, Tcb.pid)
  <2>2. Quiets(s, r, tcp) /\ InFiles(r, tcp) /\ (y = File(out, Tcb.pid) \/ y.line.begins = "resumed")
    <3>1. /\ Quiets(s, r, tcp) /\ InFiles(r, tcp)
          /\ \/ File(r, s.tcbtab[tcp].pid) = File(s, s.tcbtab[tcp].pid)
             \/ File(r, s.tcbtab[tcp].pid).line.begins = "resumed"
      BY <1>2, <2>1, ResumedFlags
    <3>. QED  BY <1>2, <3>1
  <2>3. Quiets(out, r, tcp) /\ r.current = tcp /\ r.tcbtab[tcp].pid = Tcb.pid
    <3>1. Quiets(out, r, tcp)
      BY <1>2, <2>2, QuietsThrough
    <3>. QED  BY <1>2, <2>2, <3>1 DEF Quiets, Places
  <2>4. PICK e : e = line_ended(Ends(r, tcp, "result"))
    OBVIOUS
  <2>5. Puts(r, e, tcp, WithEnd(y, "result")) /\ InFiles(e, tcp) /\ e.current = tcp
    <3>1. "result" \in Texts /\ InFiles(r, tcp)
      BY <2>2, TextsAre
    <3>2. /\ Puts(r, e, tcp, WithEnd(File(r, r.tcbtab[tcp].pid), "result")) /\ InFiles(e, tcp)
          /\ e.current = r.current
      BY <2>4, <3>1, EndedPuts
    <3>. QED  BY <2>3, <3>2
  <2>6. out' = Left(e)
    BY <1>1, <1>4, <2>1, <2>4 DEF Leave
  <2>7. Quiets(e, out', tcp) /\ (\A f : File(out', f) = File(e, f)) /\ out'.current = tcp
    BY <2>5, <2>6, MarkQuiet
  <2>8. Puts(out, out', tcp, WithEnd(y, "result"))
    BY <1>2, <2>2, <2>3, <2>5, <2>7, QuietIsPut, PutsThrough, PutsSame DEF InFiles
  <2>9. Quietly(File(out, Tcb.pid), y)
    BY <1>2, <2>3 DEF Quiets
  <2>. QED  BY <1>4, <2>2, <2>7, <2>8, <2>9
<1>. QED  BY <1>3, <1>4

-----------------------------------------------------------------------------
(* The block of the thread that called execve takes the file of the leader   *)

LEMMA TcbIsRecord ==
  ASSUME NEW b, IsTcb(b)
  PROVE  b = [pid |-> b.pid, flags |-> b.flags, curcol |-> b.curcol, outf |-> b.outf,
              call |-> b.call]
  BY DEF IsTcb

\* Blocks i and j are those of threads p and l.
Two(s, i, j, p, l) ==
    /\ IsOutput(s) /\ HasFiles(s) /\ i \in DOMAIN s.tcbtab /\ j \in DOMAIN s.tcbtab /\ i # j
    /\ s.tcbtab[i].pid = p /\ p # 0 /\ s.tcbtab[j].pid = l /\ l # 0 /\ p # l

\* From s to t block i has changed from thread p to thread l, and taken its files.
Swapped(s, t, i, p, l) ==
    /\ InFiles(t, i) /\ NoneFiltered(s, t) /\ Raises(File(t, l))
    /\ t.tcbtab[i].pid = l
    /\ Quietly(File(s, p), File(t, p))
    /\ \A f \in Files \ {p, l} : File(t, f) = File(s, f)

LEMMA SupersededFiles ==
  ASSUME NEW s, NEW i, NEW j, NEW p, NEW l, Two(s, i, j, p, l)
  PROVE  \A t : t = Superseded(TRUE, s, i, j) => Swapped(s, t, i, p, l)
<1>1. SUFFICES ASSUME NEW t, t = Superseded(TRUE, s, i, j)
               PROVE  Swapped(s, t, i, p, l)
  OBVIOUS
<1>22. /\ IsOutput(s) /\ HasFiles(s) /\ i \in DOMAIN s.tcbtab /\ j \in DOMAIN s.tcbtab /\ i # j
       /\ s.tcbtab[i].pid = p /\ p # 0 /\ s.tcbtab[j].pid = l /\ l # 0 /\ p # l
  BY DEF Two
<1>2. PICK told : told = IF s.tcbtab[i].curcol THEN Ends(s, i, "pid changed") ELSE s
  OBVIOUS
<1>3. InFiles(s, i) /\ "pid changed" \in Texts \ {"result"}
      /\ "superseded" \in Texts \ {"result"}
  BY <1>22 DEF InFiles, Texts
<1>4. Quiets(s, told, i)
  <2>1. Quiets(s, Ends(s, i, "pid changed"), i)
    BY <1>3, EndsQuiet
  <2>2. Quiets(s, s, i)
    BY <1>3, KeepsItself, QuietItself, FileIs DEF Quiets, Keeps, NoneFiltered, InFiles
  <2>. QED  BY <1>2, <1>22, <2>1, <2>2
<1>5. /\ IsOutput(told) /\ HasFiles(told) /\ NoneFiltered(s, told)
      /\ DOMAIN told.tcbtab = DOMAIN s.tcbtab
      /\ told.tcbtab[i].pid = p /\ told.tcbtab[j].pid = l
      /\ Quietly(File(s, p), File(told, p))
      /\ \A f \in Files \ {p} : File(told, f) = File(s, f)
  BY <1>4, <1>22 DEF Quiets, Places
<1>6. PICK thread, leader : thread = told.tcbtab[i] /\ leader = told.tcbtab[j]
  OBVIOUS
<1>17. PICK filed : filed = [thread EXCEPT !.outf = leader.outf, !.curcol = leader.curcol]
  OBVIOUS
<1>21. PICK vacated : vacated = [leader EXCEPT !.outf = thread.outf, !.curcol = FALSE]
  OBVIOUS
<1>18. PICK w : w = [told EXCEPT !.tcbtab[i] = filed, !.tcbtab[j] = vacated]
  OBVIOUS
<1>19. PICK d0 : d0 = droptcb(TRUE, w, j)
  OBVIOUS
<1>20. PICK r : r = [d0 EXCEPT !.tcbtab[i].pid = leader.pid]
  OBVIOUS
<1>7. /\ InFiles(r, i) /\ r.tcbtab[i].pid = l
      /\ NoneFiltered(told, r) /\ DOMAIN r.tcbtab = DOMAIN told.tcbtab
      /\ \A f : File(r, f) = File(told, f)
  <2>1. PICK n \in Nat : n >= FirstSize /\ IsBlocks(told.tcbtab, n)
    BY <1>5 DEF IsOutput
  <2>2. DOMAIN told.tcbtab = 1..n /\ i \in 1..n /\ j \in 1..n /\ Fields(told)
    BY <1>5, <1>22, <2>1 DEF IsBlocks, IsOutput
  <2>3. /\ IsTcb(thread) /\ IsTcb(leader) /\ thread.pid = p /\ leader.pid = l
        /\ Owned(thread) /\ Owned(leader)
    BY <1>5, <1>6, <2>2, BlockOf DEF HasFiles
  <2>4. PICK b : b = [filed EXCEPT !.pid = leader.pid]
    OBVIOUS
  <2>5. /\ filed = [pid |-> filed.pid, flags |-> filed.flags, curcol |-> filed.curcol,
                    outf |-> filed.outf, call |-> filed.call]
        /\ filed.pid = thread.pid /\ filed.flags = thread.flags
        /\ filed.outf = leader.outf /\ filed.call = thread.call
    <3>1. thread = [pid |-> thread.pid, flags |-> thread.flags, curcol |-> thread.curcol,
                    outf |-> thread.outf, call |-> thread.call]
      BY <2>3 DEF IsTcb
    <3>. QED  BY <1>17, <3>1
  <2>6. /\ b = [pid |-> b.pid, flags |-> b.flags, curcol |-> b.curcol, outf |-> b.outf,
                call |-> b.call]
        /\ b.pid = leader.pid /\ b.flags = filed.flags
        /\ b.outf = filed.outf /\ b.call = filed.call
    BY <2>4, <2>5
  <2>7. IsTcb(b) /\ Owned(b) /\ b.pid = l /\ b.flags = thread.flags
    <3>1. "INUSE" \in thread.flags /\ l \in {0} \cup Pids
      BY <1>22, <2>3 DEF IsTcb
    <3>2. IsTcb(b)
      BY <1>22, <2>3, <2>5, <2>6, <3>1 DEF IsTcb
    <3>3. Owned(b)
      BY <1>22, <2>3, <2>5, <2>6 DEF Owned
    <3>. QED  BY <2>3, <2>5, <2>6, <3>2, <3>3
  <2>8. vacated.pid = l /\ vacated.curcol = FALSE
    BY <1>21, <2>3, TcbIsRecord
  <2>9. /\ Fields(w) /\ SameFiles(told, w)
        /\ w.tcbtab = [told.tcbtab EXCEPT ![i] = filed, ![j] = vacated]
    BY <1>18, <2>2 DEF Fields, SameFiles
  <2>23. i # j
    BY <1>22
  <2>10. /\ w.tcbtab[j] = vacated /\ w.tcbtab[i] = filed /\ DOMAIN w.tcbtab = 1..n
         /\ \A k \in (1..n) \ {i, j} : w.tcbtab[k] = told.tcbtab[k]
    BY <2>2, <2>9, <2>23
  <2>11. PICK m, a, c : d0 =
            [w EXCEPT !.nprocs = m, !.printing = a, !.current = c, !.tcbtab[j] = FreeTcb]
    BY <1>19, <1>22, <2>8, <2>10 DEF droptcb
  <2>12. /\ Fields(d0) /\ SameFiles(w, d0) /\ d0.tcbtab = [w.tcbtab EXCEPT ![j] = FreeTcb]
    BY <2>9, <2>11 DEF Fields, SameFiles
  <2>13. d0.tcbtab[i] = filed
    BY <2>2, <2>10, <2>12, <2>23
  <2>14. r = [d0 EXCEPT !.tcbtab = [d0.tcbtab EXCEPT ![i] = b]]
    BY <1>20, <2>4, <2>13
  <2>15. /\ Fields(r) /\ SameFiles(d0, r) /\ r.tcbtab = [d0.tcbtab EXCEPT ![i] = b]
    BY <2>12, <2>14 DEF Fields, SameFiles
  <2>16. /\ DOMAIN r.tcbtab = 1..n /\ r.tcbtab = [k \in 1..n |-> r.tcbtab[k]]
         /\ \A k \in 1..n : r.tcbtab[k] = IF k = i THEN b
                                          ELSE IF k = j THEN FreeTcb ELSE told.tcbtab[k]
    BY <2>2, <2>10, <2>12, <2>15, <2>23
  <2>17. IsOutput(r)
    <3>1. IsBlocks(r.tcbtab, n)
      BY <2>1, <2>7, <2>16, FreeIsTcb DEF IsBlocks
    <3>. QED  BY <2>1, <2>15, <3>1 DEF IsOutput
  <2>18. \A k \in 1..n : Owned(r.tcbtab[k])
    BY <1>5, <2>2, <2>7, <2>16, FreeIsOwned DEF HasFiles
  <2>19. SameFiles(told, r)
    BY <2>9, <2>12, <2>15 DEF SameFiles
  <2>20. HasFiles(r) /\ \A f : File(r, f) = File(told, f)
    <3>1. \A f : File(r, f) = File(told, f)
      BY <2>19 DEF SameFiles, File
    <3>. QED  BY <1>5, <2>16, <2>18, <2>19, <3>1 DEF HasFiles, SameFiles
  <2>21. NoneFiltered(told, r)
    <3>1. b.flags = told.tcbtab[i].flags /\ FreeTcb.flags = {}
      BY <1>6, <2>7, FreeIsOwned
    <3>. QED  BY <2>2, <2>16, <3>1 DEF NoneFiltered
  <2>. QED  BY <1>22, <2>2, <2>7, <2>16, <2>17, <2>20, <2>21 DEF InFiles
<1>8. t = SetFlags(Note(TRUE, r, i, "superseded"), i, {"REPRINT"})
  BY <1>1, <1>2, <1>6, <1>17, <1>18, <1>19, <1>20, <1>21 DEF Superseded
<1>9. PICK d : d = Note(TRUE, r, i, "superseded")
  OBVIOUS
<1>10. Quiets(r, d, i) /\ InFiles(d, i) /\ d.tcbtab[i].pid = l
  <2>1. InFiles(r, i) /\ "superseded" \in Texts \ {"result"}
    BY <1>3, <1>7
  <2>2. Quiets(r, d, i)
    BY <1>9, <2>1, NoteQuiet
  <2>. QED  BY <1>7, <2>1, <2>2, QuietsIn
<1>11. Raises(File(d, l))
  BY <1>7, <1>9, NoteRaises
<1>12. Quiets(d, t, i) /\ (\A f : File(t, f) = File(d, f))
  <2>1. i \in DOMAIN d.tcbtab /\ "INUSE" \notin {"REPRINT"} /\ "FILTERED" \notin {"REPRINT"}
    BY <1>10 DEF InFiles
  <2>2. t = SetFlags(d, i, {"REPRINT"})
    BY <1>8, <1>9
  <2>. QED  BY <1>10, <2>1, <2>2, FlagsQuiet
<1>13. InFiles(t, i) /\ t.tcbtab[i].pid = l
  BY <1>10, <1>12, QuietsIn
<1>14. \A f \in Files \ {l} : File(t, f) = File(told, f)
  BY <1>7, <1>10, <1>12 DEF Quiets
<1>15. p \in Files /\ l \in Files
  BY <1>3, <1>7, <1>22, FileIs
<1>16. NoneFiltered(s, t)
  BY <1>5, <1>7, <1>10, <1>12 DEF NoneFiltered, Quiets, Places
<1>23. Raises(File(t, l)) /\ Quietly(File(s, p), File(t, p))
       /\ \A f \in Files \ {p, l} : File(t, f) = File(s, f)
  BY <1>5, <1>22, <1>11, <1>12, <1>14, <1>15
<1>. QED  BY <1>13, <1>16, <1>23 DEF Swapped

-----------------------------------------------------------------------------
(* The numbers of the calls                                                  *)

\* From t to u the calls go up.
Counts(t, u) ==
    /\ t.unseen => u.unseen
    /\ u.calls >= t.calls /\ (t.state = "stop" => u.calls = t.calls)
    /\ ~t.incall /\ u.incall /\ u.report = "syscall" => u.calls > t.calls

Numbers(q) == NumberOf(task'[q]) /\ Counts(task[q], task'[q])

\* The thread makes no call from t to u.
Calls(t, u) ==
    /\ IsTask(u) /\ u.call = t.call /\ u.calls = t.calls /\ (t.unseen => u.unseen)
    /\ u.state # "free" /\ (u.state = "run" => u.report = Nothing)
    /\ u.pending \subseteq t.pending \cup {"sigstop", "fatal"}
    /\ u.report = "execve" => u.kind = "other"
    /\ u.report \in Signals => ~u.incall
    /\ \/ u.report = t.report /\ u.incall = t.incall
       \/ u.report # "syscall" \/ ~u.incall

LEMMA CallsNumbered ==
  ASSUME NEW t, NEW u, NumberOf(t), Calls(t, u)
  PROVE  NumberOf(u) /\ Counts(t, u)
  BY DEF NumberOf, Calls, Counts

LEMMA OneNumbered ==
  ASSUME NumbersInv, NEW p \in Pids, NEW u, task' = [task EXCEPT ![p] = u],
         \/ NumberOf(u) /\ Counts(task[p], u)
         \/ Calls(task[p], u)
  PROVE  DOMAIN task' = Pids /\ \A q \in Pids : Numbers(q)
<1>1. DOMAIN task' = Pids /\ task'[p] = u /\ \A q \in Pids \ {p} : task'[q] = task[q]
  BY DEF NumbersInv
<1>2. \A q \in Pids : NumberOf(task[q])
  BY DEF NumbersInv
<1>3. NumberOf(u) /\ Counts(task[p], u)
  BY <1>2, CallsNumbered
<1>4. ASSUME NEW q \in Pids \ {p} PROVE Numbers(q)
  BY <1>1, <1>2 DEF Numbers, Counts, NumberOf
<1>. QED  BY <1>1, <1>3, <1>4 DEF Numbers

LEMMA EndGroupNumbered ==
  ASSUME NumbersInv, NEW p \in Pids, NEW report \in Ended,
         NEW q \in Pids, task'[q] = EndGroup(p, report)[q]
  PROVE  Numbers(q)
<1>1. PICK t, u : t = task[q] /\ u = task'[q]
  OBVIOUS
<1>2. NumberOf(t) /\ IsTask(t)
  BY <1>1 DEF NumbersInv, NumberOf
<1>3. CASE q \notin Group(p)
  BY <1>1, <1>2, <1>3 DEF EndGroup, Numbers, Counts, NumberOf
<1>4. CASE q \in Group(p)
  <2>1. CASE ~t.traced
    <3>1. u = [t EXCEPT !.state = "gone"]
      BY <1>1, <1>4, <2>1 DEF EndGroup
    <3>2. Calls(t, u)
      BY <1>2, <3>1 DEF IsTask, Calls, NumberOf
    <3>. QED  BY <1>1, <1>2, <3>2, CallsNumbered DEF Numbers
  <2>2. CASE t.traced
    <3>1. PICK r : /\ u = [t EXCEPT !.state = "dead", !.incall = FALSE, !.report = r]
                   /\ r = report \/ r = t.report
      <4>1. u = [t EXCEPT !.state = "dead", !.incall = FALSE,
                          !.report = IF t.state = "dead" /\ t.report # Nothing THEN t.report
                                     ELSE report]
        BY <1>1, <1>4, <2>2 DEF EndGroup
      <4>. QED  BY <4>1
    <3>2. Calls(t, u)
      <4>1. report # "execve"
        BY DEF Ended
      <4>. QED  BY <1>2, <3>1, <4>1 DEF IsTask, Calls, NumberOf
    <3>. QED  BY <1>1, <1>2, <3>2, CallsNumbered DEF Numbers
  <2>. QED  BY <2>1, <2>2
<1>. QED  BY <1>3, <1>4

LEMMA EnterCallNumbered ==
  ASSUME NumbersInv, NEW p \in Pids, NEW kind, EnterCall(p, kind)
  PROVE  DOMAIN task' = Pids /\ \A q \in Pids : Numbers(q)
<1>1. PICK t : t = task[p]
  OBVIOUS
<1>2. NumberOf(t) /\ IsTask(t) /\ t.calls \in Nat /\ t.state = "run"
  BY <1>1 DEF NumbersInv, NumberOf, EnterCall
<1>3. PICK u : u = [t EXCEPT !.state = "stop", !.report = "syscall", !.incall = TRUE,
                             !.kind = kind, !.calls = t.calls + 1,
                             !.call = [pid |-> p, n |-> t.calls + 1]]
  OBVIOUS
<1>4. task' = [task EXCEPT ![p] = u]
  BY <1>1, <1>3 DEF EnterCall, StopWith
<1>5. /\ IsTask(u) /\ u.state = "stop" /\ u.report = "syscall" /\ u.incall = TRUE
      /\ u.calls = t.calls + 1 /\ u.call = [pid |-> p, n |-> t.calls + 1]
      /\ u.unseen = t.unseen /\ u.pending = t.pending
  BY <1>2, <1>3 DEF IsTask
<1>6. NumberOf(u)
  <2>1. u.call \in Call /\ u.call.n = u.calls /\ u.calls \in Nat
    BY <1>2, <1>5 DEF Call
  <2>2. u.pending \subseteq {"sigstop", "fatal"}
    BY <1>2, <1>5 DEF NumberOf
  <2>. QED  BY <1>5, <2>1, <2>2 DEF NumberOf, Signals, Nothing
<1>7. Counts(t, u)
  BY <1>2, <1>5 DEF Counts
<1>. QED  BY <1>1, <1>4, <1>6, <1>7, OneNumbered

LEMMA ExitCallNumbered ==
  ASSUME NumbersInv, NEW p \in Pids, ExitCall(p)
  PROVE  DOMAIN task' = Pids /\ \A q \in Pids : Numbers(q)
<1>1. PICK t : t = task[p]
  OBVIOUS
<1>2. NumberOf(t) /\ IsTask(t) /\ t.state = "run"
  BY <1>1 DEF NumbersInv, NumberOf, ExitCall, Working
<1>3. PICK s : s = IF t.syscalls THEN [t EXCEPT !.state = "stop", !.report = "syscall"] ELSE t
  OBVIOUS
<1>4. PICK u : u = [s EXCEPT !.incall = FALSE]
  OBVIOUS
<1>5. task' = [task EXCEPT ![p] = u]
  BY <1>1, <1>3, <1>4 DEF ExitCall, StopWith
<1>6. /\ IsTask(s) /\ s.call = t.call /\ s.calls = t.calls /\ s.unseen = t.unseen
      /\ s.kind = t.kind /\ s.pending = t.pending
      /\ \/ s.state = "stop" /\ s.report = "syscall"
         \/ s = t
  BY <1>2, <1>3 DEF IsTask
<1>7. Calls(t, u)
  BY <1>2, <1>4, <1>6 DEF IsTask, Calls, NumberOf, Nothing
<1>. QED  BY <1>1, <1>5, <1>7, OneNumbered

LEMMA CloneNumbered ==
  ASSUME NumbersInv, NEW p \in Pids, Clone(p)
  PROVE  DOMAIN task' = Pids /\ \A q \in Pids : Numbers(q)
<1>1. PICK t : t = task[p]
  OBVIOUS
<1>2. NumberOf(t) /\ IsTask(t) /\ t.state = "run" /\ DOMAIN task = Pids
  BY <1>1 DEF NumbersInv, NumberOf, Clone, Working
<1>3. PICK f : f = FreeTask
  OBVIOUS
<1>4. /\ IsTask(f) /\ ~f.incall /\ ~f.unseen /\ f.call = NoCall /\ f.calls = 0
  BY <1>3 DEF FreeTask, IsTask
<1>5. PICK q : /\ q \in Pids /\ task[q].state = "free"
               /\ task' = [task EXCEPT
                    ![p] = [[t EXCEPT !.state = "stop", !.report = "clone"]
                            EXCEPT !.kind = "other"],
                    ![q] = [[f EXCEPT !.state = "stop",
                                      !.report = IF seize THEN "start" ELSE "sigstop"]
                            EXCEPT !.leader = IF t.kind = "fork" THEN q ELSE t.leader,
                                   !.traced = TRUE]]
  BY <1>1, <1>3 DEF Clone, StopWith
<1>6. PICK u : u = [[t EXCEPT !.state = "stop", !.report = "clone"] EXCEPT !.kind = "other"]
  OBVIOUS
<1>7. PICK v : v = [[f EXCEPT !.state = "stop",
                              !.report = IF seize THEN "start" ELSE "sigstop"]
                    EXCEPT !.leader = IF t.kind = "fork" THEN q ELSE t.leader,
                           !.traced = TRUE]
  OBVIOUS
<1>8. Calls(t, u)
  BY <1>2, <1>6 DEF IsTask, Calls, NumberOf, Nothing, Signals
<1>9. task[q] = f /\ Calls(f, v) /\ NumberOf(f)
  <2>1. NumberOf(task[q])
    BY <1>5 DEF NumbersInv
  <2>2. task[q] = f
    BY <1>3, <1>5, <2>1 DEF NumberOf
  <2>3. Calls(f, v)
    BY <1>4, <1>7 DEF IsTask, Calls, Nothing
  <2>. QED  BY <2>1, <2>2, <2>3
<1>10. p # q
  BY <1>1, <1>2, <1>5
<1>11. /\ DOMAIN task' = Pids /\ task'[p] = u /\ task'[q] = v
       /\ \A x \in Pids \ {p, q} : task'[x] = task[x]
  BY <1>2, <1>5, <1>6, <1>7, <1>10
<1>12. Numbers(p)
  BY <1>1, <1>2, <1>8, <1>11, CallsNumbered DEF Numbers
<1>13. Numbers(q)
  BY <1>9, <1>11, CallsNumbered DEF Numbers
<1>14. ASSUME NEW x \in Pids \ {p, q} PROVE Numbers(x)
  BY <1>11 DEF Numbers, NumbersInv, NumberOf, Counts
<1>. QED  BY <1>11, <1>12, <1>13, <1>14

LEMMA AloneNumbered ==
  ASSUME NumbersInv, NEW p \in Pids, CloneFails(p) \/ Exit(p) \/ Signal(p)
  PROVE  DOMAIN task' = Pids /\ \A q \in Pids : Numbers(q)
<1>1. PICK t : t = task[p]
  OBVIOUS
<1>2. NumberOf(t) /\ IsTask(t) /\ t.state = "run"
  BY <1>1 DEF NumbersInv, NumberOf, CloneFails, Exit, Signal, Working
<1>3. CASE CloneFails(p)
  <2>1. PICK u : u = [t EXCEPT !.kind = "other"]
    OBVIOUS
  <2>2. task' = [task EXCEPT ![p] = u]
    BY <1>1, <1>3, <2>1 DEF CloneFails
  <2>3. Calls(t, u)
    BY <1>2, <2>1 DEF IsTask, Calls, NumberOf
  <2>. QED  BY <1>1, <2>2, <2>3, OneNumbered
<1>4. CASE Exit(p)
  <2>1. PICK u : u = [t EXCEPT !.state = "dead", !.incall = FALSE, !.report = "exited"]
    OBVIOUS
  <2>2. task' = [task EXCEPT ![p] = u]
    BY <1>1, <1>4, <2>1 DEF Exit
  <2>3. Calls(t, u)
    BY <1>2, <2>1 DEF IsTask, Calls, NumberOf
  <2>. QED  BY <1>1, <2>2, <2>3, OneNumbered
<1>5. CASE Signal(p)
  <2>1. PICK u : u = [t EXCEPT !.state = "stop", !.report = "signal"]
    OBVIOUS
  <2>2. task' = [task EXCEPT ![p] = u] /\ ~t.incall
    BY <1>1, <1>5, <2>1 DEF Signal, StopWith
  <2>3. Calls(t, u)
    BY <1>2, <2>1, <2>2 DEF IsTask, Calls, NumberOf, Nothing
  <2>. QED  BY <1>1, <2>2, <2>3, OneNumbered
<1>. QED  BY <1>3, <1>4, <1>5

LEMMA ExecveKillsNumbered ==
  ASSUME NumbersInv, NEW p \in Pids, ExecveKills(p)
  PROVE  DOMAIN task' = Pids /\ \A q \in Pids : Numbers(q)
<1>1. DOMAIN task' = Pids
  BY DEF ExecveKills
<1>2. ASSUME NEW q \in Pids PROVE Numbers(q)
  <2>1. CASE q = p
    <3>1. task'[q] = task[q]
      BY <2>1 DEF ExecveKills
    <3>. QED  BY <3>1 DEF Numbers, NumbersInv, NumberOf, Counts
  <2>2. CASE q # p /\ q = task[p].leader
    <3>1. PICK t, u : t = task[q] /\ u = task'[q]
      OBVIOUS
    <3>2. u = [t EXCEPT !.state = "dead", !.incall = FALSE, !.report = Nothing]
      BY <2>2, <3>1 DEF ExecveKills
    <3>3. NumberOf(t) /\ IsTask(t)
      BY <3>1 DEF NumbersInv, NumberOf
    <3>4. Calls(t, u)
      BY <3>2, <3>3 DEF IsTask, Calls, NumberOf, Nothing
    <3>. QED  BY <3>1, <3>3, <3>4, CallsNumbered DEF Numbers
  <2>3. CASE q # p /\ q # task[p].leader
    <3>1. task'[q] = EndGroup(p, "killed")[q]
      BY <2>3 DEF ExecveKills
    <3>. QED  BY <3>1, EndGroupNumbered DEF Ended
  <2>. QED  BY <2>1, <2>2, <2>3
<1>. QED  BY <1>1, <1>2

LEMMA ExecveNumbered ==
  ASSUME NumbersInv, NEW p \in Pids, Execve(p)
  PROVE  DOMAIN task' = Pids /\ \A q \in Pids : Numbers(q)
<1>1. PICK t, l : t = task[p] /\ l = task[p].leader
  OBVIOUS
<1>2. /\ NumberOf(t) /\ IsTask(t) /\ DOMAIN task = Pids /\ t.calls \in Nat
      /\ t.state = "run" /\ t.traced /\ t.incall /\ t.report = Nothing
  BY <1>1 DEF NumbersInv, NumberOf, Execve, Working
<1>3. PICK n : n = IF l = p THEN t.calls ELSE t.calls + task[l].calls
  OBVIOUS
<1>13. PICK s : s = [t EXCEPT !.state = "stop", !.report = "execve"]
  OBVIOUS
<1>14. IsTask(s) /\ s.state = "stop" /\ s.report = "execve" /\ s.call = t.call
       /\ s.calls = t.calls /\ s.unseen = t.unseen /\ s.pending = t.pending
  BY <1>2, <1>13 DEF IsTask
<1>4. PICK u : u = [s EXCEPT !.kind = "other", !.oldpid = p, !.launch = FALSE,
                           !.unseen = t.unseen \/ task[l].unseen,
                           !.calls = IF l = p THEN @ ELSE @ + task[l].calls]
  OBVIOUS
<1>5. PICK v : v = [[t EXCEPT !.state = "gone"] EXCEPT !.traced = FALSE]
  OBVIOUS
<1>6. task' = [task EXCEPT ![p].state = "gone", ![p].traced = FALSE, ![l] = u]
  BY <1>1, <1>4, <1>13 DEF Execve, StopWith
<1>7. /\ DOMAIN task' = Pids /\ (l \in Pids => task'[l] = u) /\ (p # l => task'[p] = v)
      /\ \A q \in Pids \ {p, l} : task'[q] = task[q]
  BY <1>1, <1>2, <1>5, <1>6
<1>8. /\ IsTask(u) /\ u.state = "stop" /\ u.report = "execve" /\ u.kind = "other"
      /\ u.call = t.call /\ u.calls = n /\ (u.unseen <=> t.unseen \/ task[l].unseen)
      /\ u.pending = t.pending
  BY <1>3, <1>4, <1>14 DEF IsTask
<1>9. Calls(t, v)
  BY <1>2, <1>5 DEF IsTask, Calls, NumberOf
<1>10. p # l => Numbers(p)
  BY <1>1, <1>2, <1>7, <1>9, CallsNumbered DEF Numbers
<1>11. ASSUME l \in Pids PROVE Numbers(l)
  <2>1. task[l].calls \in Nat /\ (l # p => task[l].state # "stop")
    BY <1>1, <1>11 DEF NumbersInv, NumberOf, Execve
  <2>2. n \in Nat /\ n >= t.calls /\ n >= task[l].calls
    BY <1>1, <1>2, <1>3, <2>1
  <2>3. NumberOf(u)
    <3>1. u.call \in Call /\ u.call.n <= u.calls /\ u.calls \in Nat
      <4>1. t.call \in Call /\ t.call.n \in Nat /\ t.call.n <= t.calls
        BY <1>2 DEF NumberOf, Call
      <4>. QED  BY <1>2, <1>8, <2>2, <4>1
    <3>2. u.pending \subseteq {"sigstop", "fatal"}
      BY <1>2, <1>8 DEF NumberOf
    <3>. QED  BY <1>8, <3>1, <3>2 DEF NumberOf, Signals
  <2>4. Counts(task[l], u)
    BY <1>1, <1>2, <1>8, <2>1, <2>2 DEF Counts
  <2>. QED  BY <1>7, <1>11, <2>3, <2>4 DEF Numbers
<1>12. ASSUME NEW x \in Pids \ {p, l} PROVE Numbers(x)
  BY <1>7 DEF Numbers, NumbersInv, NumberOf, Counts
<1>. QED  BY <1>7, <1>10, <1>11, <1>12

LEMMA SignalOfStraceNumbered ==
  ASSUME NumbersInv, NEW p \in Pids, SignalOfStrace(p)
  PROVE  DOMAIN task' = Pids /\ \A q \in Pids : Numbers(q)
<1>1. PICK t : t = task[p]
  OBVIOUS
<1>2. NumberOf(t) /\ IsTask(t) /\ t.state = "run" /\ ~t.incall /\ t.report = Nothing
  BY <1>1 DEF NumbersInv, NumberOf, SignalOfStrace
<1>3. PICK sig : sig \in t.pending
          /\ task' = IF t.traced
                     THEN [task EXCEPT ![p] = [[t EXCEPT !.state = "stop", !.report = sig]
                                               EXCEPT !.pending = @ \ {sig}]]
                     ELSE IF sig = "sigstop"
                     THEN [task EXCEPT ![p] = [t EXCEPT !.state = "stop", !.pending = {}]]
                     ELSE EndGroup(p, "killed")
  BY <1>1 DEF SignalOfStrace, StopWith
<1>4. CASE t.traced
  <2>1. PICK u : u = [[t EXCEPT !.state = "stop", !.report = sig]
                      EXCEPT !.pending = @ \ {sig}]
    OBVIOUS
  <2>3. sig \in {"sigstop", "fatal"}
    BY <1>2, <1>3 DEF NumberOf
  <2>4. u.call = t.call /\ u.calls = t.calls /\ u.unseen = t.unseen /\ u.state = "stop"
        /\ u.report = sig /\ u.incall = t.incall /\ u.pending \subseteq t.pending /\ IsTask(u)
    BY <1>2, <2>1 DEF IsTask
  <2>2. Calls(t, u)
    BY <1>2, <2>3, <2>4 DEF Calls
  <2>. QED  BY <1>1, <1>3, <1>4, <2>1, <2>2, OneNumbered
<1>5. CASE ~t.traced /\ sig = "sigstop"
  <2>1. PICK u : u = [t EXCEPT !.state = "stop", !.pending = {}]
    OBVIOUS
  <2>2. Calls(t, u)
    BY <1>2, <2>1 DEF IsTask, Calls, NumberOf
  <2>. QED  BY <1>1, <1>3, <1>5, <2>1, <2>2, OneNumbered
<1>6. CASE ~t.traced /\ sig # "sigstop"
  <2>1. task' = EndGroup(p, "killed")
    BY <1>3, <1>6
  <2>. QED  BY <2>1, EndGroupNumbered DEF Ended, EndGroup
<1>. QED  BY <1>4, <1>5, <1>6

LEMMA KernelNumbered ==
  ASSUME NumbersInv, KernelStep
  PROVE  DOMAIN task' = Pids /\ \A q \in Pids : Numbers(q)
<1>1. ASSUME NEW p \in Pids, NEW report \in Ended, task' = EndGroup(p, report)
      PROVE  DOMAIN task' = Pids /\ \A q \in Pids : Numbers(q)
  BY <1>1, EndGroupNumbered DEF EndGroup
<1>2. PICK p \in Pids : ThreadStep(p) \/ Signal(p) \/ Kill(p)
  BY DEF KernelStep
<1>3. CASE Kill(p) \/ ExitGroup(p)
  BY <1>1, <1>3 DEF Kill, ExitGroup, Ended
<1>. QED  BY <1>2, <1>3, EnterCallNumbered, ExitCallNumbered, CloneNumbered, AloneNumbered,
          ExecveKillsNumbered, ExecveNumbered, SignalOfStraceNumbered DEF ThreadStep

-----------------------------------------------------------------------------
(* The files of a thread at a step                                           *)

\* The step leaves the file of q as ready for the next line as it was.
LineGoes(q) ==
    /\ task'[q].calls >= task[q].calls
    /\ EntryDue(q)' => EntryDue(q) \/ task'[q].calls > task[q].calls
    /\ ~(pc = "dump" /\ status.pid = q) /\ ~(pc' = "dump" /\ status'.pid = q)
    /\ Over(q) => Over(q)'
    /\ \/ Over(q)'
       \/ ~Shown(out, q) \/ hide
       \/ File(out', q).line = File(out, q).line /\ Shown(out', q) /\ ~hide'

LEMMA WithinMore ==
  ASSUME NEW x \in FileSet, NEW m \in Int, NEW n \in Int, m <= n, Within(x, m)
  PROVE  Within(x, n)
<1>1. /\ \A k \in DOMAIN x.log : x.log[k] \in Entry
      /\ \A k \in DOMAIN x.stack : x.stack[k] \in Call
      /\ \A k \in DOMAIN x.dump : x.dump[k] \in Call
  BY LogOf
<1>2. \A k \in DOMAIN x.log : x.log[k].call.n \in Nat
  BY <1>1 DEF Entry, Call
<1>3. \A k \in DOMAIN x.stack : x.stack[k].n \in Nat
  BY <1>1 DEF Call
<1>4. \A k \in DOMAIN x.dump : x.dump[k].n \in Nat
  BY <1>1 DEF Call
<1>5. \A a \in Nat : a <= m => a <= n
  OBVIOUS
<1>. QED  BY <1>2, <1>3, <1>4, <1>5 DEF Within

LEMMA LineKept ==
  ASSUME NEW q \in Pids, LineOK(q), ~Leaving, NumberOf(task[q]), NumberOf(task'[q]),
         task[q].unseen => task'[q].unseen,
         Quietly(File(out, q), File(out', q)), Leaving' \/ LineGoes(q)
  PROVE  LineOK(q)'
<1>1. PICK x, y : x = File(out, q) /\ y = File(out', q)
  OBVIOUS
<1>2. Quietly(x, y) /\ x \in FileSet /\ y \in FileSet
  BY <1>1 DEF Quietly
<1>3. /\ Raises(x) => Raises(y)
      /\ Aligned(x) => Aligned(y)
      /\ Exact(x) => Exact(y)
      /\ Open(x) /\ y.line = x.line => Open(y)
      /\ \A n : Within(x, n) => Within(y, n)
  BY <1>2, QuietKeeps
<1>4. CASE task[q].unseen \/ Raises(x)
  BY <1>1, <1>3, <1>4 DEF LineOK
<1>5. CASE Aligned(x) /\ LinesRight(q, x)
  <2>1. CASE Leaving'
    BY <1>1, <1>3, <1>5, <2>1 DEF LineOK
  <2>2. CASE LineGoes(q)
    <3>1. task[q].calls \in Nat /\ task'[q].calls \in Nat /\ task'[q].calls >= task[q].calls
      BY <2>2 DEF NumberOf, LineGoes
    <3>2. Within(y, task'[q].calls)
      BY <1>2, <1>3, <1>5, <3>1, WithinMore DEF LinesRight
    <3>3. ASSUME EntryDue(q)' PROVE Within(y, task'[q].calls - 1)
      <4>1. CASE EntryDue(q)
        BY <1>2, <1>3, <1>5, <3>1, <4>1, WithinMore DEF LinesRight
      <4>2. CASE task'[q].calls > task[q].calls
        BY <1>2, <1>3, <1>5, <3>1, <4>2, WithinMore DEF LinesRight
      <4>. QED  BY <2>2, <3>3, <4>1, <4>2 DEF LineGoes
    <3>4. ~(pc' = "dump" /\ status'.pid = q)
      BY <2>2 DEF LineGoes
    <3>5. Exact(x) \/ (Open(x) /\ Shown(out, q) /\ ~hide) \/ Over(q)
      BY <1>5, <2>2 DEF LinesRight, LineGoes
    <3>6. Exact(y) \/ (Open(y) /\ Shown(out', q) /\ ~hide') \/ Over(q)'
      BY <1>1, <1>3, <2>2, <3>5 DEF LineGoes
    <3>. QED  BY <1>1, <1>3, <1>5, <3>2, <3>3, <3>4, <3>6 DEF LineOK, LinesRight
  <2>. QED  BY <2>1, <2>2
<1>. QED  BY <1>1, <1>4, <1>5 DEF LineOK

-----------------------------------------------------------------------------
(* ... of the threads                                                        *)

LEMMA MovesEntry ==
  ASSUME NEW q \in Pids, ThreadOK(q), UNCHANGED straceVars, Moves(q), Numbers(q)
  PROVE  EntryDue(q)' => EntryDue(q) \/ task'[q].calls > task[q].calls
<1>1. PICK t, u : t = task[q] /\ u = task'[q]
  OBVIOUS
<1>2. SUFFICES ASSUME EntryDue(q)' PROVE EntryDue(q) \/ u.calls > t.calls
  BY <1>1
<1>3. UNCHANGED <<out, pc, tcp, status, Tcb>>
  BY DEF straceVars, Tcb
<1>4. (AtHand(q)' <=> AtHand(q)) /\ (Going(q)' <=> Going(q)) /\ (Handled(q)' <=> Handled(q))
  BY <1>3 DEF AtHand, Going, Handled
<1>5. /\ u.traced /\ u.state \in {"run", "stop"} /\ ~u.unseen /\ ~Going(q)
      /\ ~(AtHand(q) /\ u.report # Nothing) /\ u.incall /\ Due(q)' = "syscall"
      /\ ~(pc = "dump" /\ status.pid = q)
  BY <1>1, <1>2, <1>3, <1>4 DEF EntryDue, Followed, Alive
<1>6. AtHand(q) \/ Handled(q) => t.state \notin {"free", "run"}
  BY <1>1 DEF ThreadOK, HandOK, Held
<1>7. CASE Stays(t, u)
  <2>1. Due(q) = "syscall"
    BY <1>1, <1>3, <1>5, <1>7 DEF Stays, Due
  <2>. QED  BY <1>1, <1>5, <1>7, <2>1 DEF Stays, SameTask, EntryDue, Followed, Alive
<1>8. CASE Stops(q, t, u)
  <2>1. ~Handled(q)
    BY <1>6, <1>8 DEF Stops
  <2>2. u.report = "syscall"
    BY <1>1, <1>3, <1>5, <2>1 DEF Due, Handled, Nothing
  <2>3. ~t.incall
    BY <1>5, <1>8, <2>2 DEF Stops, SameTask
  <2>. QED  BY <1>1, <1>5, <2>2, <2>3 DEF Numbers, Counts
<1>9. CASE Passes(t, u)
  BY <1>1, <1>5, <1>9 DEF Passes, ThreadOK, StateOK
<1>10. ~Dies(q, t, u) /\ ~Leaves(q, t, u) /\ ~Born(q, t, u)
  BY <1>5 DEF Dies, Leaves, Born
<1>11. ASSUME NEW p \in Pids \ {q}, Takes(q, u, p) PROVE FALSE
  BY <1>1, <1>5, <1>11 DEF Takes, Due, Nothing
<1>. QED  BY <1>1, <1>7, <1>8, <1>9, <1>10, <1>11 DEF Moves

LEMMA MovesOver ==
  ASSUME NEW q \in Pids, ThreadOK(q), UNCHANGED straceVars, Moves(q), Over(q)
  PROVE  Over(q)'
<1>1. PICK t, u : t = task[q] /\ u = task'[q]
  OBVIOUS
<1>2. UNCHANGED <<pc, status>> /\ (Handled(q)' <=> Handled(q))
  BY DEF straceVars, Handled
<1>3. t.state # "free"
  BY <1>1 DEF Over
<1>4. u.state # "free"
  BY <1>1, <1>3 DEF Moves, Stays, Dies, Stops, Passes, Leaves, Born, Takes
<1>5. CASE Handled(q) /\ status.report = "execve" /\ status.oldpid # q
  BY <1>1, <1>2, <1>4, <1>5 DEF Over
<1>6. SUFFICES u.state \notin {"run", "stop"} \/ ~u.traced
               \/ (u.report = "execve" /\ u.oldpid # q)
               \/ (Handled(q) /\ status.report = "execve" /\ status.oldpid # q)
  BY <1>1, <1>2, <1>4 DEF Over, Alive
<1>7. t.state = "run" => t.report = Nothing
  BY <1>1 DEF ThreadOK, StateOK
<1>8. \/ t.state \notin {"run", "stop"} \/ ~t.traced
      \/ t.report = "execve" /\ t.oldpid # q
      \/ Handled(q) /\ status.report = "execve" /\ status.oldpid # q
  BY <1>1 DEF Over, Alive
<1>9. CASE Stays(t, u) \/ Dies(q, t, u)
  BY <1>8, <1>9 DEF Stays, Dies, SameTask
<1>10. CASE Stops(q, t, u) \/ Passes(t, u)
  BY <1>7, <1>8, <1>10 DEF Stops, Passes, SameTask, Nothing
<1>11. CASE Leaves(q, t, u)
  BY <1>11 DEF Leaves
<1>12. ASSUME NEW p \in Pids \ {q}, Takes(q, u, p) PROVE u.report = "execve" /\ u.oldpid # q
  BY <1>12 DEF Takes
<1>. QED  BY <1>1, <1>3, <1>9, <1>10, <1>11, <1>12 DEF Moves, Born

LEMMA MovesHand ==
  ASSUME NEW q \in Pids, ThreadOK(q), UNCHANGED straceVars, Moves(q), Numbers(q),
         HandNumberOK(q), NumberOf(task[q])
  PROVE  HandNumberOK(q)'
<1>1. PICK t, u : t = task[q] /\ u = task'[q]
  OBVIOUS
<1>2. UNCHANGED <<pc, status>>
  BY DEF straceVars
<1>3. SUFFICES ASSUME pc = "handle", status.pid = q, u.state = "stop", u.report = Nothing
               PROVE  HandNumberOK(q)'
  BY <1>1, <1>2 DEF HandNumberOK, Stopped
<1>4. t.state \in {"stop", "dead", "gone"}
  BY <1>1, <1>3 DEF ThreadOK, HandOK, Held, Handled
<1>5. Stays(t, u)
  BY <1>1, <1>3, <1>4 DEF Moves, Dies, Stops, Passes, Leaves, Born, Takes, Nothing
<1>6. t.state = "stop" /\ t.report = Nothing /\ u.calls = t.calls
  BY <1>1, <1>3, <1>5 DEF Stays, Numbers, Counts
<1>. QED  BY <1>1, <1>2, <1>3, <1>5, <1>6 DEF HandNumberOK, Stays, Stopped

LEMMA MovesLine ==
  ASSUME NEW q \in Pids, ThreadOK(q), UNCHANGED straceVars, Moves(q), Numbers(q),
         NumberOf(task[q]), LineOK(q), HasFiles(out)
  PROVE  LineOK(q)'
<1>1. PICK t, u : t = task[q] /\ u = task'[q]
  OBVIOUS
<1>2. PICK x : x = File(out, q)
  OBVIOUS
<1>3. UNCHANGED <<out, pc, tcp, status, hide, Tcb>> /\ (Leaving' <=> Leaving)
  BY DEF straceVars, Tcb, Leaving
<1>4. File(out', q) = x /\ x \in FileSet
  BY <1>2, <1>3 DEF HasFiles, Files
<1>5. /\ t.unseen => u.unseen
      /\ t.calls \in Nat /\ u.calls \in Nat /\ u.calls >= t.calls
  BY <1>1 DEF Numbers, Counts, NumberOf
<1>6. CASE t.unseen \/ Raises(x) \/ (Aligned(x) /\ Leaving)
  BY <1>1, <1>3, <1>4, <1>5, <1>6 DEF LineOK
<1>7. CASE Aligned(x) /\ LinesRight(q, x)
  <2>1. Within(x, u.calls)
    BY <1>1, <1>4, <1>5, <1>7, WithinMore DEF LinesRight
  <2>2. ASSUME EntryDue(q)' PROVE Within(x, u.calls - 1)
    <3>1. CASE EntryDue(q)
      BY <1>1, <1>4, <1>5, <1>7, <3>1, WithinMore DEF LinesRight
    <3>2. CASE u.calls > t.calls
      BY <1>1, <1>4, <1>5, <1>7, <3>2, WithinMore DEF LinesRight
    <3>. QED  BY <1>1, <2>2, <3>1, <3>2, MovesEntry
  <2>3. CASE pc = "dump" /\ status.pid = q
    BY <1>1, <1>3, <1>4, <1>7, <2>1, <2>2, <2>3 DEF LineOK, LinesRight
  <2>4. CASE ~(pc = "dump" /\ status.pid = q)
    <3>1. Exact(x) \/ (Open(x) /\ Shown(out, q) /\ ~hide) \/ Over(q)'
      BY <1>7, <2>4, MovesOver DEF LinesRight
    <3>. QED  BY <1>1, <1>3, <1>4, <1>7, <2>1, <2>2, <2>4, <3>1 DEF LineOK, LinesRight
  <2>. QED  BY <2>3, <2>4
<1>. QED  BY <1>1, <1>2, <1>6, <1>7 DEF LineOK

-----------------------------------------------------------------------------
(* ... of a thread that the step is not about                                *)

LEMMA OtherLine ==
  ASSUME NEW q \in Pids, LineOK(q), NumberOf(task[q]), ~Leaving, task'[q] = task[q],
         Elsewhere(q), Elsewhere(q)', pc' = "startup" => pc = "startup",
         File(out, q) \in FileSet, File(out', q) = File(out, q),
         Shown(out, q) => Shown(out', q), hide' => hide
  PROVE  LineOK(q)' /\ HandNumberOK(q)'
<1>1. /\ ~(pc = "handle" /\ status.pid = q) /\ ~(pc = "dump" /\ status.pid = q)
      /\ ~(pc' = "handle" /\ status'.pid = q) /\ ~(pc' = "dump" /\ status'.pid = q)
      /\ ~AtHand(q) /\ ~AtHand(q)' /\ ~Going(q) /\ ~Going(q)'
      /\ ~Handled(q) /\ ~Handled(q)'
  BY DEF Elsewhere, Handled
<1>2. Due(q)' = Due(q)
  BY <1>1 DEF Due
<1>3. EntryDue(q)' => EntryDue(q)
  BY <1>1, <1>2 DEF EntryDue, Followed, Alive
<1>4. Over(q) => Over(q)'
  BY <1>1 DEF Over, Alive
<1>5. LineGoes(q)
  BY <1>1, <1>3, <1>4 DEF LineGoes, NumberOf
<1>6. LineOK(q)'
  BY <1>5, QuietItself, LineKept
<1>. QED  BY <1>1, <1>6 DEF HandNumberOK

LEMMA ShownKept ==
  ASSUME NEW s, NEW t, NEW q, SameFor(s, t, q),
         \A k \in pid2tcb(s, q) :
            "FILTERED" \in t.tcbtab[k].flags => "FILTERED" \in s.tcbtab[k].flags
  PROVE  Shown(s, q) => Shown(t, q)
  BY DEF SameFor, SameCall, Shown

-----------------------------------------------------------------------------
(* ... of the thread whose report is handled                                 *)

\* Nothing that p does next is in its log.
Lost(p) ==
    /\ task[p].state # "free"
    /\ \/ ~Alive(p) \/ ~task[p].traced
       \/ task[p].report = "execve" /\ task[p].oldpid # p

LEMMA LostIsOver ==
  ASSUME NEW p, Lost(p), task' = task, pc' \notin {"startup", "handle", "dump"}
  PROVE  Over(p)'
  BY DEF Lost, Over, Handled, Alive

LEMMA OverIsLost ==
  ASSUME NEW p, Over(p)
  PROVE  Lost(p) \/ (Handled(p) /\ status.report = "execve" /\ status.oldpid # p)
  BY DEF Lost, Over

LEMMA AtHandIs ==
  ASSUME NEW p \in Pids, ThreadOK(p), AtHand(p) \/ Handled(p)
  PROVE  /\ Held(p)
         /\ Lost(p) \/ (AtHand(p) /\ Stopped(p) /\ task[p].traced /\ task[p].report = Nothing)
         /\ ~Lost(p) /\ ~task[p].unseen => Followed(p)
         /\ ~Stopped(p) => Lost(p)
<1>1. /\ Held(p)
      /\ Handled(p) /\ ~AtHand(p) /\ Stopped(p) => task[p].report # Nothing
  BY DEF ThreadOK, HandOK
<1>2. ~Stopped(p) => Lost(p)
  BY <1>1 DEF Held, Lost, Alive, Stopped
<1>3. Lost(p) \/ (AtHand(p) /\ Stopped(p) /\ task[p].traced /\ task[p].report = Nothing)
  BY <1>1, <1>2 DEF Held, Lost, Stopped
<1>4. ~Going(p)
  BY DEF AtHand, Handled, Going
<1>. QED  BY <1>1, <1>2, <1>3, <1>4 DEF Followed, Alive, Stopped

\* After the stop no entry is due.
LEMMA HeldNotDue ==
  ASSUME NEW p, Held(p), task' = task, pc' # "handle"
  PROVE  ~EntryDue(p)'
<1>1. SUFFICES ASSUME EntryDue(p)' PROVE FALSE
  OBVIOUS
<1>2. Followed(p)' /\ Due(p)' = "syscall" /\ ~(pc' = "dump" /\ status'.pid = p)
  BY <1>1 DEF EntryDue
<1>3. task[p].state = "stop" /\ task[p].report \in {Nothing, "execve"}
  BY <1>2 DEF Followed, Alive, Held, Stopped
<1>. QED  BY <1>2, <1>3 DEF Due, Nothing

LEMMA OwnLine ==
  ASSUME NEW p \in Pids, LineOK(p), NumberOf(task[p]), ~Leaving, Held(p), task' = task,
         ~(pc = "dump" /\ status.pid = p), pc' \notin {"startup", "handle", "dump"},
         Quietly(File(out, p), File(out', p)),
         \/ Leaving' \/ task[p].unseen \/ Lost(p)
         \/ /\ ~Over(p)
            /\ \/ ~Shown(out, p) \/ hide
               \/ File(out', p).line = File(out, p).line /\ Shown(out', p) /\ ~hide'
  PROVE  LineOK(p)'
<1>1. CASE task[p].unseen
  BY <1>1 DEF LineOK
<1>2. CASE Leaving'
  BY <1>2, LineKept
<1>3. ~EntryDue(p)'
  BY HeldNotDue
<1>4. CASE Lost(p)
  <2>1. Over(p)'
    BY <1>4, LostIsOver
  <2>2. LineGoes(p)
    BY <1>3, <2>1 DEF LineGoes, NumberOf
  <2>. QED  BY <2>2, LineKept
<1>5. CASE /\ ~Over(p)
           /\ \/ ~Shown(out, p) \/ hide
              \/ File(out', p).line = File(out, p).line /\ Shown(out', p) /\ ~hide'
  <2>2. LineGoes(p)
    BY <1>3, <1>5 DEF LineGoes, NumberOf
  <2>. QED  BY <2>2, LineKept
<1>. QED  BY <1>1, <1>2, <1>4, <1>5

\* The rest of such a step.
LEMMA HandledLines ==
  ASSUME TracerInv, LinesInv, opt.ff = TRUE, ~Leaving, pc \in {"handle", "dump"},
         UNCHANGED <<opt, task, status>>, hide' => hide,
         pc' \notin {"startup", "handle", "detach_wait"},
         pc' \in {"restart", "detach"} => Tcb'.pid = status.pid,
         pc' \in {"restart", "dump"} => out'.current = tcp',
         HasFiles(out'), NEW p, p = status.pid,
         \A f \in Files \ {p} : File(out', f) = File(out, f),
         \A q \in Pids \ {p} : SameFor(out, out', q),
         \A q \in Pids \ {p} : \A k \in pid2tcb(out, q) :
            "FILTERED" \in out'.tcbtab[k].flags => "FILTERED" \in out.tcbtab[k].flags,
         LineOK(p)'
  PROVE  LinesInv'
<1>1. /\ NumbersInv /\ HasFiles(out) /\ out.log[Shared] = << >>
      /\ \A q \in Pids : LineOK(q) /\ NumberOf(task[q])
  BY DEF LinesInv, NumbersInv
<1>2. p \in Pids /\ p # 0 /\ Pids \subseteq Files /\ 0 \in Files
  BY HandledTcb DEF Files, Shared
<1>3. \A q \in Pids \ {p} : Elsewhere(q) /\ Elsewhere(q)'
  BY DEF Elsewhere, Handled, AtHand, Going
<1>4. ASSUME NEW q \in Pids \ {p} PROVE LineOK(q)' /\ HandNumberOK(q)'
  <2>1. Shown(out, q) => Shown(out', q)
    BY ShownKept
  <2>2. File(out, q) \in FileSet /\ File(out', q) = File(out, q)
    BY <1>1, <1>2 DEF HasFiles
  <2>. QED  BY <1>1, <1>3, <2>1, <2>2, OtherLine
<1>5. HandNumberOK(p)'
  BY DEF HandNumberOK
<1>6. NumbersInv'
  BY <1>1 DEF NumbersInv
<1>7. out'.log[Shared] = << >>
  <2>1. File(out', 0) = File(out, 0)
    BY <1>2
  <2>. QED  BY <1>1, <2>1 DEF File, Shared
<1>. QED  BY <1>4, <1>5, <1>6, <1>7 DEF LinesInv

LEMMA HandledFiles ==
  ASSUME TracerInv, LinesInv, opt.ff = TRUE, pc \in {"handle", "dump"}
  PROVE  /\ InFiles(out, tcp) /\ Tcb.pid = status.pid /\ status.pid \in Pids
         /\ pid2tcb(out, status.pid) = {tcp}
         /\ NumberOf(task[status.pid]) /\ LineOK(status.pid)
         /\ File(out, status.pid) \in FileSet
<1>1. /\ status.pid \in Pids /\ status.pid # 0
      /\ tcp \in DOMAIN out.tcbtab /\ Tcb.pid = status.pid
      /\ pid2tcb(out, status.pid) = {tcp}
  BY HandledTcb
<1>2. HasFiles(out) /\ IsOutput(out)
  BY DEF LinesInv, TracerInv
<1>3. InFiles(out, tcp)
  BY <1>1, <1>2 DEF InFiles, Tcb
<1>. QED  BY <1>1, <1>2, <1>3 DEF LinesInv, NumbersInv, HasFiles, Files

\* No line that can be parsed is written.
LEMMA QuietLines ==
  ASSUME TracerInv, AllOK, LinesInv, opt.ff = TRUE, ~Leaving, pc \in {"handle", "dump"},
         UNCHANGED <<opt, task, status>>, hide' => hide,
         pc' \notin {"startup", "handle", "detach_wait", "dump"},
         pc' \in {"restart", "detach"} => tcp' = tcp,
         pc' = "restart" => out'.current = tcp,
         Quiets(out, out', tcp), \A q \in Pids \ {status.pid} : SameFor(out, out', q),
         NEW p, p = status.pid,
         \/ Leaving'
         \/ pc = "handle" /\ (task[p].unseen \/ Lost(p))
         \/ /\ pc = "handle" /\ ~Over(p)
            /\ \/ ~Shown(out, p) \/ hide
               \/ File(out', p).line = File(out, p).line /\ Shown(out', p) /\ ~hide'
  PROVE  LinesInv'
<1>1. /\ InFiles(out, tcp) /\ out.tcbtab[tcp].pid = p /\ p \in Pids
      /\ NumberOf(task[p]) /\ LineOK(p)
  BY HandledFiles DEF Tcb
<1>2. Quietly(File(out, p), File(out', p))
  BY <1>1 DEF Quiets
<1>3. LineOK(p)'
  <2>1. CASE Leaving'
    BY <1>1, <1>2, <2>1, LineKept
  <2>2. CASE pc = "handle"
    <3>1. Held(p)
      BY <1>1, <2>2 DEF AllOK, ThreadOK, HandOK, Handled
    <3>. QED  BY <1>1, <1>2, <2>2, <3>1, OwnLine
  <2>. QED  BY <2>1, <2>2
<1>4. pc' \in {"restart", "detach"} => Tcb'.pid = p
  BY <1>1 DEF Tcb, Quiets, Places, InFiles
<1>5. \A q \in Pids \ {p} : \A k \in pid2tcb(out, q) :
          "FILTERED" \in out'.tcbtab[k].flags => "FILTERED" \in out.tcbtab[k].flags
  BY DEF Quiets, NoneFiltered, pid2tcb
<1>6. HasFiles(out') /\ \A f \in Files \ {p} : File(out', f) = File(out, f)
  BY <1>1 DEF Quiets
<1>7. pc' \in {"restart", "dump"} => out'.current = tcp'
  OBVIOUS
<1>. QED  BY <1>3, <1>4, <1>5, <1>6, <1>7, HandledLines

\* The block of the thread at hand is as visible as before.
LEMMA KeepsShown ==
  ASSUME TracerInv, NEW p \in Pids, Keeps(out, out'), NoneFiltered(out, out')
  PROVE  Shown(out, p) => Shown(out', p)
<1>1. p # 0 /\ IsOutput(out)
  BY PidsAssumption DEF TracerInv
<1>2. SameFor(out, out', p)
  BY <1>1, KeepsSame
<1>. QED  BY <1>2, ShownKept DEF NoneFiltered, pid2tcb

LEMMA HandleEventLines ==
  ASSUME TracerInv, AllOK, LinesInv, opt.ff = TRUE, ~Leaving, HandleEvent
  PROVE  LinesInv'
<1>1. /\ pc = "handle" /\ pc' = "restart" /\ UNCHANGED <<opt, task, status, tcp, hide>>
      /\ status.report # "execve" /\ out' = Started(out)
  BY DEF HandleEvent, Handling, Goes, kernelVars
<1>2. PICK p : p = status.pid
  OBVIOUS
<1>3. InFiles(out, tcp) /\ p \in Pids
  BY <1>1, <1>2, HandledFiles
<1>4. Quiets(out, out', tcp) /\ (\A f : File(out', f) = File(out, f)) /\ out'.current = tcp
  BY <1>1, <1>3, StartedQuiet
<1>5. Keeps(out, out')
  BY HandleEventStep
<1>6. \A q \in Pids \ {p} : SameFor(out, out', q)
  BY <1>1, <1>2, <1>5, AllOthers
<1>7. Shown(out, p) => Shown(out', p)
  BY <1>3, <1>4, <1>5, KeepsShown DEF Quiets
<1>8. Over(p) => Lost(p)
  BY <1>1, OverIsLost
<1>9. File(out', p).line = File(out, p).line
  BY <1>4
<1>. QED  BY <1>1, <1>2, <1>4, <1>6, <1>7, <1>8, <1>9, QuietLines

LEMMA HandleSignalLines ==
  ASSUME TracerInv, AllOK, LinesInv, opt.ff = TRUE, ~Leaving, HandleSignal
  PROVE  LinesInv'
<1>1. /\ pc = "handle" /\ pc' = "restart" /\ UNCHANGED <<opt, task, status, tcp, hide>>
      /\ status.report \in Signals
  BY DEF HandleSignal, Handling, Goes, kernelVars, Signals
<1>2. PICK p : p = status.pid
  OBVIOUS
<1>3. InFiles(out, tcp) /\ p \in Pids /\ ThreadOK(p)
  BY <1>1, <1>2, HandledFiles DEF AllOK
<1>4. Quiets(out, out', tcp) /\ out'.current = tcp
  <2>1. PICK o : o = Started(out)
    OBVIOUS
  <2>2. Quiets(out, o, tcp) /\ InFiles(o, tcp) /\ o.current = tcp
    BY <1>3, <2>1, StartedQuiet
  <2>3. out' \in {ClearFlags(o, tcp, {"IGNORE_ONE_SIGSTOP"}), o, Note(TRUE, o, tcp, "signal")}
    BY <2>1 DEF HandleSignal
  <2>4. Quiets(o, out', tcp)
    <3>1. CASE out' = ClearFlags(o, tcp, {"IGNORE_ONE_SIGSTOP"})
      <4>1. tcp \in DOMAIN o.tcbtab
        BY <2>2 DEF InFiles
      <4>. QED  BY <2>2, <3>1, <4>1, FlagsQuiet
    <3>2. CASE out' = o
      <4>1. File(o, o.tcbtab[tcp].pid) \in FileSet
        BY <2>2, FileIs
      <4>. QED  BY <2>2, <3>2, <4>1, QuietItself DEF Quiets, NoneFiltered, Places, InFiles
    <3>3. CASE out' = Note(TRUE, o, tcp, "signal")
      BY <2>2, <3>3, NoteQuiet, TextsAre
    <3>. QED  BY <2>3, <3>1, <3>2, <3>3
  <2>5. Quiets(out, out', tcp)
    BY <1>3, <2>2, <2>4, QuietsThrough DEF InFiles
  <2>. QED  BY <2>2, <2>4, <2>5 DEF Quiets
<1>5. \A q \in Pids \ {p} : SameFor(out, out', q)
  BY <1>1, <1>2, HandleSignalStep, AllOthers
<1>6. CASE task[p].unseen \/ Lost(p)
  BY <1>1, <1>2, <1>4, <1>5, <1>6, QuietLines
<1>7. CASE ~task[p].unseen /\ ~Lost(p)
  <2>1. Followed(p) /\ Stopped(p) /\ task[p].report = Nothing
    BY <1>1, <1>2, <1>3, <1>7, AtHandIs DEF Handled
  <2>2. ~task[p].incall
    BY <1>1, <1>2, <1>3, <2>1 DEF LinesInv, HandNumberOK
  <2>3. Due(p) \in Signals
    BY <1>1, <1>2, <2>1 DEF Due
  <2>4. Silent(out, p)
    BY <1>3, <2>1, <2>2, <2>3 DEF ThreadOK, SyncOK, Signals
  <2>5. ~Shown(out, p)
    BY <2>4 DEF Silent, Shown
  <2>6. ~Over(p)
    BY <1>1, <1>7, OverIsLost DEF Signals
  <2>. QED  BY <1>1, <1>2, <1>4, <1>5, <2>5, <2>6, QuietLines
<1>. QED  BY <1>6, <1>7

LEMMA UnreadableLines ==
  ASSUME TracerInv, AllOK, LinesInv, opt.ff = TRUE, ~Leaving, EnterUnreadable \/ ExitUnreadable
  PROVE  LinesInv'
<1>1. /\ pc = "handle" /\ pc' = "wait" /\ UNCHANGED <<opt, task, status, tcp, hide>>
      /\ ~Stopped(status.pid)
  BY DEF EnterUnreadable, ExitUnreadable, Entering, Exiting, Handling, Goes, kernelVars, Readable
<1>2. PICK p : p = status.pid
  OBVIOUS
<1>3. InFiles(out, tcp) /\ p \in Pids /\ ThreadOK(p)
  BY <1>1, <1>2, HandledFiles DEF AllOK
<1>4. PICK o : o = Started(out)
  OBVIOUS
<1>5. Quiets(out, o, tcp) /\ InFiles(o, tcp)
  BY <1>3, <1>4, StartedQuiet
<1>6. Quiets(o, out', tcp)
  <2>1. CASE EnterUnreadable
    <3>1. PICK led : led = printleader(TRUE, o, tcp)
      OBVIOUS
    <3>2. PICK b : b = Begins(led, tcp, "unknown")
      OBVIOUS
    <3>3. out' = SetFlags(b, tcp, {"INSYSCALL"})
      BY <1>4, <2>1, <3>1, <3>2 DEF EnterUnreadable
    <3>4. Quiets(o, led, tcp) /\ InFiles(led, tcp)
      BY <1>5, <3>1, PrintleaderQuiet
    <3>5. Quiets(led, b, tcp)
      BY <3>2, <3>4, BeginsQuiet
    <3>6. InFiles(b, tcp)
      BY <3>4, <3>5, QuietsIn
    <3>7. Quiets(b, out', tcp)
      BY <3>3, <3>6, MarkQuiet
    <3>8. Quiets(o, b, tcp)
      BY <1>5, <3>4, <3>5, QuietsThrough DEF InFiles
    <3>. QED  BY <1>5, <3>7, <3>8, QuietsThrough DEF InFiles
  <2>2. CASE ExitUnreadable
    <3>1. PICK r : r = Resumed(TRUE, o, tcp)
      OBVIOUS
    <3>2. PICK e : e = line_ended(Ends(r, tcp, "unavailable"))
      OBVIOUS
    <3>3. out' = Left(e)
      BY <1>4, <2>2, <3>1, <3>2 DEF ExitUnreadable
    <3>4. Quiets(o, r, tcp) /\ InFiles(r, tcp)
      BY <1>5, <3>1, ResumedFlags
    <3>5. Quiets(r, e, tcp)
      BY <3>2, <3>4, LineOutQuiet, TextsAre
    <3>6. InFiles(e, tcp)
      BY <3>4, <3>5, QuietsIn
    <3>7. Quiets(e, out', tcp)
      BY <3>3, <3>6, MarkQuiet
    <3>8. Quiets(o, e, tcp)
      BY <1>5, <3>4, <3>5, QuietsThrough DEF InFiles
    <3>. QED  BY <1>5, <3>7, <3>8, QuietsThrough DEF InFiles
  <2>. QED  BY <2>1, <2>2
<1>7. Quiets(out, out', tcp)
  BY <1>3, <1>5, <1>6, QuietsThrough DEF InFiles
<1>8. \A q \in Pids \ {p} : SameFor(out, out', q)
  BY <1>1, <1>2, EnterUnreadableStep, ExitUnreadableStep, AllOthers
<1>9. Lost(p)
  BY <1>1, <1>2, <1>3, AtHandIs DEF Handled
<1>. QED  BY <1>1, <1>2, <1>7, <1>8, <1>9, QuietLines

LEMMA StopsLines ==
  ASSUME TracerInv, AllOK, LinesInv, opt.ff = TRUE, ~Leaving, HandleInterrupted \/ DumpAborts
  PROVE  LinesInv'
<1>1. /\ pc \in {"handle", "dump"} /\ pc' \in {"cleanup", "aborted"}
      /\ UNCHANGED <<opt, task, status, hide>> /\ out' \in {out, Started(out)}
  BY DEF HandleInterrupted, DumpAborts, Handling, Goes, kernelVars
<1>2. PICK p : p = status.pid
  OBVIOUS
<1>3. InFiles(out, tcp) /\ p \in Pids
  BY <1>1, <1>2, HandledFiles
<1>4. Quiets(out, out', tcp)
  <2>1. CASE out' = out
    <3>1. File(out, out.tcbtab[tcp].pid) \in FileSet
      BY <1>3, FileIs
    <3>. QED  BY <1>3, <2>1, <3>1, QuietItself DEF Quiets, NoneFiltered, Places, InFiles
  <2>2. CASE out' = Started(out)
    BY <1>3, <2>2, StartedQuiet
  <2>. QED  BY <1>1, <2>1, <2>2
<1>5. Keeps(out, out')
  BY <1>1, StartedKeeps, KeepsItself DEF TracerInv
<1>6. \A q \in Pids \ {p} : SameFor(out, out', q)
  BY <1>1, <1>2, <1>5, AllOthers
<1>7. Leaving'
  BY <1>1 DEF Leaving
<1>. QED  BY <1>1, <1>2, <1>4, <1>6, <1>7, QuietLines

LEMMA FilteredFiles ==
  ASSUME NEW s, NEW i, InFiles(s, i)
  PROVE  \A t : t = SetFlags(s, i, {"INSYSCALL", "FILTERED"}) =>
            /\ HasFiles(t) /\ (\A f : File(t, f) = File(s, f)) /\ t.current = s.current
            /\ \A k \in DOMAIN s.tcbtab \ {i} : t.tcbtab[k] = s.tcbtab[k]
<1>1. SUFFICES ASSUME NEW t, t = SetFlags(s, i, {"INSYSCALL", "FILTERED"})
               PROVE  /\ HasFiles(t) /\ (\A f : File(t, f) = File(s, f))
                      /\ t.current = s.current
                      /\ \A k \in DOMAIN s.tcbtab \ {i} : t.tcbtab[k] = s.tcbtab[k]
  OBVIOUS
<1>2. PICK b, F : b = s.tcbtab[i] /\ F = s.tcbtab[i].flags \cup {"INSYSCALL", "FILTERED"}
  OBVIOUS
<1>3. IsTcb(b) /\ Owned(b) /\ i \in DOMAIN s.tcbtab /\ Fields(s)
  BY <1>2, BlockOf DEF InFiles, HasFiles, IsOutput
<1>4. PICK more : more = [b EXCEPT !.flags = F]
  OBVIOUS
<1>5. "INUSE" \in F <=> "INUSE" \in b.flags
  BY <1>2
<1>6. /\ IsTcb(more) /\ more.pid = b.pid /\ more.call = b.call
      /\ more.outf = b.outf /\ more.curcol = b.curcol
  BY <1>3, <1>4, <1>5, FlagsOfTcb
<1>7. Owned(more)
  BY <1>3, <1>6 DEF Owned
<1>8. t = [s EXCEPT !.tcbtab[i] = more]
  BY <1>1, <1>2, <1>4 DEF SetFlags
<1>9. /\ SameFiles(s, t) /\ t.current = s.current
      /\ DOMAIN t.tcbtab = DOMAIN s.tcbtab
      /\ \A k \in DOMAIN s.tcbtab : t.tcbtab[k] = IF k = i THEN more ELSE s.tcbtab[k]
  BY <1>3, <1>8 DEF Fields, SameFiles
<1>10. \A f : File(t, f) = File(s, f)
  BY <1>9 DEF SameFiles, File
<1>11. HasFiles(t)
  BY <1>7, <1>9, <1>10 DEF HasFiles, InFiles, SameFiles
<1>. QED  BY <1>9, <1>10, <1>11

LEMMA EnterSilentlyFiles ==
  ASSUME InFiles(out, tcp), NEW c \in Call, c = task[status.pid].call, EnterSilently
  PROVE  /\ HasFiles(out') /\ (\A f : File(out', f) = File(out, f)) /\ out'.current = tcp
         /\ \A k \in DOMAIN out.tcbtab \ {tcp} :
               "FILTERED" \in out'.tcbtab[k].flags => "FILTERED" \in out.tcbtab[k].flags
<1>1. PICK o : o = Started(out)
  OBVIOUS
<1>2. /\ Quiets(out, o, tcp) /\ InFiles(o, tcp) /\ (\A f : File(o, f) = File(out, f))
      /\ o.current = tcp
  BY <1>1, StartedQuiet
<1>3. PICK r : r = Read(o)
  OBVIOUS
<1>4. /\ Quiets(o, r, tcp) /\ InFiles(r, tcp) /\ (\A f : File(r, f) = File(o, f))
      /\ r.current = tcp
  BY <1>2, <1>3, ReadQuiet
<1>5. Quiets(out, r, tcp) /\ \A f : File(r, f) = File(out, f)
  BY <1>2, <1>4, QuietsThrough DEF InFiles
<1>6. \A k \in DOMAIN out.tcbtab : k \in DOMAIN r.tcbtab
        /\ ("FILTERED" \in r.tcbtab[k].flags => "FILTERED" \in out.tcbtab[k].flags)
  BY <1>5 DEF Quiets, Places, NoneFiltered
<1>7. CASE out' = SetFlags(r, tcp, {"INSYSCALL", "FILTERED"})
  <2>1. PICK t : t = out'
    OBVIOUS
  <2>2. /\ HasFiles(t) /\ (\A f : File(t, f) = File(r, f)) /\ t.current = r.current
        /\ \A k \in DOMAIN r.tcbtab \ {tcp} : t.tcbtab[k] = r.tcbtab[k]
    BY <1>4, <1>7, <2>1, FilteredFiles
  <2>. QED  BY <1>4, <1>5, <1>6, <2>1, <2>2
<1>8. CASE out' = SetFlags(ClearFlags(r, tcp, {"FILTERED"}), tcp, {"INSYSCALL"})
  <2>1. PICK d : d = ClearFlags(r, tcp, {"FILTERED"})
    OBVIOUS
  <2>2. tcp \in DOMAIN r.tcbtab
    BY <1>4 DEF InFiles
  <2>3. Quiets(r, d, tcp) /\ (\A f : File(d, f) = File(r, f)) /\ d.current = r.current
    BY <1>4, <2>1, <2>2, FlagsQuiet
  <2>4. InFiles(d, tcp) /\ Quiets(out, d, tcp)
    BY <1>4, <1>5, <2>3, QuietsIn, QuietsThrough DEF InFiles
  <2>5. PICK t : t = out'
    OBVIOUS
  <2>6. t = SetFlags(d, tcp, {"INSYSCALL"})
    BY <1>8, <2>1, <2>5
  <2>7. Quiets(d, t, tcp) /\ (\A f : File(t, f) = File(d, f)) /\ t.current = d.current
    BY <2>4, <2>6, MarkQuiet
  <2>8. Quiets(out, t, tcp)
    BY <2>4, <2>7, QuietsThrough DEF InFiles
  <2>. QED  BY <1>4, <1>5, <2>3, <2>5, <2>7, <2>8 DEF Quiets, NoneFiltered
<1>. QED  BY <1>1, <1>3, <1>7, <1>8 DEF EnterSilently

LEMMA OnlyBlock ==
  ASSUME TracerInv, pc \in {"handle", "dump"}, NEW q \in Pids \ {status.pid},
         NEW k \in pid2tcb(out, q)
  PROVE  k \in DOMAIN out.tcbtab \ {tcp}
<1>1. Tcb.pid = status.pid
  BY HandledTcb
<1>. QED  BY <1>1 DEF pid2tcb, Tcb

LEMMA EnterSilentlyLines ==
  ASSUME TracerInv, AllOK, LinesInv, opt.ff = TRUE, ~Leaving, EnterSilently
  PROVE  LinesInv'
<1>1. /\ pc = "handle" /\ pc' = "restart" /\ UNCHANGED <<opt, task, status, tcp>>
      /\ status.report = "syscall" /\ "INSYSCALL" \notin Tcb.flags /\ (hide' => hide)
  BY DEF EnterSilently, Entering, Handling, Goes, kernelVars
<1>2. PICK p : p = status.pid
  OBVIOUS
<1>3. /\ InFiles(out, tcp) /\ p \in Pids /\ ThreadOK(p) /\ NumberOf(task[p]) /\ LineOK(p)
      /\ pid2tcb(out, p) = {tcp} /\ File(out, p) \in FileSet
  BY <1>1, <1>2, HandledFiles DEF AllOK
<1>4. /\ HasFiles(out') /\ (\A f : File(out', f) = File(out, f)) /\ out'.current = tcp
      /\ \A k \in DOMAIN out.tcbtab \ {tcp} :
            "FILTERED" \in out'.tcbtab[k].flags => "FILTERED" \in out.tcbtab[k].flags
  <2>1. task[p].call \in Call
    BY <1>3 DEF NumberOf
  <2>. QED  BY <1>2, <1>3, <2>1, EnterSilentlyFiles
<1>5. Turns(out, out', tcp, TRUE, task[status.pid].call)
  BY EnterSilentlyStep
<1>6. \A q \in Pids \ {p} : SameFor(out, out', q)
  BY <1>1, <1>2, <1>5, AllOthers
<1>7. Tcb'.pid = p
  BY <1>1, <1>2, <1>5, SameKnown DEF Turns
<1>8. LineOK(p)'
  <2>1. ~Shown(out, p)
    BY <1>1, <1>3 DEF Shown, Tcb
  <2>2. ~Over(p)
    BY <1>1, <1>2 DEF Over, Handled
  <2>3. Held(p)
    BY <1>1, <1>2, <1>3 DEF ThreadOK, HandOK, Handled
  <2>4. Quietly(File(out, p), File(out', p))
    BY <1>3, <1>4, QuietItself
  <2>. QED  BY <1>1, <1>3, <2>1, <2>2, <2>3, <2>4, OwnLine
<1>9. \A q \in Pids \ {p} : \A k \in pid2tcb(out, q) :
          "FILTERED" \in out'.tcbtab[k].flags => "FILTERED" \in out.tcbtab[k].flags
  BY <1>1, <1>2, <1>4, OnlyBlock
<1>. QED  BY <1>1, <1>2, <1>4, <1>6, <1>7, <1>8, <1>9, HandledLines

LEMMA HandleEndLines ==
  ASSUME TracerInv, AllOK, LinesInv, opt.ff = TRUE, ~Leaving, HandleEnd
  PROVE  LinesInv'
<1>1. /\ pc = "handle" /\ pc' = "wait" /\ UNCHANGED <<opt, task, status, tcp, hide>>
      /\ status.report \in Ended
      /\ out' = droptcb(TRUE, Note(TRUE, out, tcp, status.report), tcp)
  BY DEF HandleEnd, Handling, Goes, kernelVars
<1>2. PICK p : p = status.pid
  OBVIOUS
<1>3. /\ InFiles(out, tcp) /\ p \in Pids /\ ThreadOK(p) /\ NumberOf(task[p]) /\ LineOK(p)
      /\ pid2tcb(out, p) = {tcp} /\ File(out, p) \in FileSet /\ out.tcbtab[tcp].pid = p
  BY <1>1, <1>2, HandledFiles DEF AllOK, Tcb
<1>4. PICK n : n = Note(TRUE, out, tcp, status.report)
  OBVIOUS
<1>5. Quiets(out, n, tcp) /\ InFiles(n, tcp) /\ n.tcbtab[tcp].pid = p
  <2>1. status.report \in Texts \ {"result"}
    BY <1>1, TextsAre DEF Ended
  <2>2. Quiets(out, n, tcp)
    BY <1>3, <1>4, <2>1, NoteQuiet
  <2>. QED  BY <1>3, <2>2, QuietsIn
<1>6. QuietFile(n, out', p) /\ NoneFiltered(n, out')
  BY <1>1, <1>4, <1>5, DropQuiet
<1>7. /\ HasFiles(out') /\ \A f \in Files \ {p} : File(out', f) = File(out, f)
      /\ Quietly(File(out, p), File(out', p))
  BY <1>3, <1>5, <1>6, QuietThrough DEF QuietFile, Quiets
<1>8. \A k \in DOMAIN out.tcbtab :
          "FILTERED" \in out'.tcbtab[k].flags => "FILTERED" \in out.tcbtab[k].flags
  BY <1>5, <1>6 DEF NoneFiltered, Quiets, Places
<1>9. \A q \in Pids \ {p} : SameFor(out, out', q)
  BY <1>1, <1>2, HandleEndStep, AllOthers
<1>10. Lost(p) /\ Held(p)
  <2>1. Handled(p) /\ ~AtHand(p)
    BY <1>1, <1>2 DEF Handled, AtHand
  <2>. QED  BY <1>3, <2>1, AtHandIs
<1>11. LineOK(p)'
  BY <1>1, <1>3, <1>7, <1>10, OwnLine
<1>12. \A q \in Pids \ {p} : \A k \in pid2tcb(out, q) :
          "FILTERED" \in out'.tcbtab[k].flags => "FILTERED" \in out.tcbtab[k].flags
  BY <1>8 DEF pid2tcb
<1>. QED  BY <1>1, <1>2, <1>7, <1>9, <1>11, <1>12, HandledLines

\* A put to the files of the thread at hand.
LEMMA PutLines ==
  ASSUME TracerInv, LinesInv, opt.ff = TRUE, ~Leaving, pc \in {"handle", "dump"},
         UNCHANGED <<opt, task, status, tcp>>, hide' => hide, pc' \in {"restart", "dump"},
         out'.current = tcp, NEW z, Puts(out, out', tcp, z),
         NEW in, NEW c, Turns(out, out', tcp, in, c),
         NEW p, p = status.pid, LineOK(p)'
  PROVE  LinesInv'
<1>1. out.tcbtab[tcp].pid = p /\ p \in Pids
  BY HandledFiles DEF Tcb
<1>2. HasFiles(out') /\ \A f \in Files \ {p} : File(out', f) = File(out, f)
  BY <1>1 DEF Puts
<1>3. \A q \in Pids \ {p} : \A k \in pid2tcb(out, q) :
          "FILTERED" \in out'.tcbtab[k].flags => "FILTERED" \in out.tcbtab[k].flags
  BY DEF Puts, NoneFiltered, pid2tcb
<1>4. \A q \in Pids \ {p} : SameFor(out, out', q)
  BY AllOthers
<1>5. Tcb'.pid = p
  BY SameKnown DEF Turns
<1>. QED  BY <1>2, <1>3, <1>4, <1>5, HandledLines

\* The line of a call, where the next line is due.
LEMMA EnterFollowed ==
  ASSUME NEW x, NEW y, NEW c \in Call, Quietly(x, y), Exact(x), Within(x, c.n - 1), Aligned(x)
  PROVE  LET z == WithCall(y, c) IN
         /\ z \in FileSet /\ Open(z) /\ ~Dumped(z, z.line) /\ z.line.call = c /\ Aligned(z)
         /\ Exact(WithEnd(z, "result")) /\ Aligned(WithEnd(z, "result"))
<1>1. y \in FileSet /\ Exact(y) /\ Aligned(y) /\ Within(y, c.n - 1)
  BY QuietKeeps DEF Quietly
<1>2. PICK z : z = WithCall(y, c)
  OBVIOUS
<1>3. z \in FileSet /\ Aligned(z) /\ Open(z) /\ ~Dumped(z, z.line)
  BY <1>1, <1>2, CallIsNext
<1>4. Exact(WithEnd(z, "result")) /\ Aligned(WithEnd(z, "result"))
  BY <1>3, ResultIsNext
<1>5. z.line.call = c
  BY <1>2 DEF WithCall
<1>. QED  BY <1>2, <1>3, <1>4, <1>5

\* ... and where it is not.
LEMMA EnterAnyway ==
  ASSUME NEW x, NEW y, NEW c \in Call, Quietly(x, y), NEW n \in Nat, c.n <= n
  PROVE  LET z == WithCall(y, c)
             r == WithEnd(z, "result") IN
         /\ z \in FileSet /\ r \in FileSet
         /\ Raises(x) => Raises(z) /\ Raises(r)
         /\ Aligned(x) => Aligned(z)
         /\ Within(x, n) => Within(z, n)
<1>1. /\ y \in FileSet /\ (Raises(x) => Raises(y)) /\ (Aligned(x) => Aligned(y))
      /\ (Within(x, n) => Within(y, n))
  BY QuietKeeps DEF Quietly
<1>2. PICK z, r : z = WithCall(y, c) /\ r = WithEnd(z, "result")
  OBVIOUS
<1>3. /\ z \in FileSet /\ (Raises(y) => Raises(z)) /\ (Aligned(y) => Aligned(z))
      /\ (Within(y, n) => Within(z, n))
  BY <1>1, <1>2, CallIsNext
<1>4. r \in FileSet /\ Grows(z, r) /\ SameDumped(z, r)
  BY <1>2, <1>3, EndedLine, TextsAre
<1>5. Raises(z) => Raises(r)
  BY <1>3, <1>4, CountsKept
<1>. QED  BY <1>1, <1>2, <1>3, <1>4, <1>5

\* What the files are to be after the step.
LEMMA NextLine ==
  ASSUME NEW p, NEW z, File(out', p) = z, task' = task,
         \/ task[p].unseen \/ Raises(z)
         \/ /\ Aligned(z) /\ Within(z, task[p].calls) /\ ~EntryDue(p)'
            /\ IF pc' = "dump" /\ status'.pid = p
               THEN /\ Open(z) /\ z.line.call = Tcb'.call /\ ~Dumped(z, z.line)
                    /\ "FILTERED" \notin Tcb'.flags /\ ~hide'
               ELSE Exact(z) \/ (Open(z) /\ Shown(out', p) /\ ~hide') \/ Over(p)'
  PROVE  LineOK(p)'
  BY DEF LineOK, LinesRight

LEMMA EnterLines ==
  ASSUME TracerInv, AllOK, LinesInv, opt.ff = TRUE, ~Leaving, Enter
  PROVE  LinesInv'
<1>. DEFINE exits == task[status.pid].kind \in {"exit", "exit_group"}
<1>1. /\ pc = "handle" /\ UNCHANGED <<opt, task, status, tcp>> /\ status.report = "syscall"
      /\ "INSYSCALL" \notin Tcb.flags /\ (hide' => hide) /\ ~hide' /\ Stopped(status.pid)
      /\ pc' = IF task[status.pid].kind = "write" THEN "dump" ELSE "restart"
  BY DEF Enter, Entering, Handling, Goes, kernelVars, Readable
<1>2. PICK p, x : p = status.pid /\ x = File(out, p)
  OBVIOUS
<1>3. /\ InFiles(out, tcp) /\ p \in Pids /\ ThreadOK(p) /\ NumberOf(task[p]) /\ LineOK(p)
      /\ pid2tcb(out, p) = {tcp} /\ x \in FileSet /\ Tcb.pid = p
      /\ out.tcbtab[tcp].pid = p /\ HandNumberOK(p)
  BY <1>1, <1>2, HandledFiles DEF AllOK, Tcb, LinesInv
<1>4. PICK c : c = task[p].call
  OBVIOUS
<1>5. c \in Call /\ task[p].calls \in Nat /\ c.n <= task[p].calls /\ c = task[status.pid].call
  BY <1>2, <1>3, <1>4 DEF NumberOf
<1>6. PICK y : /\ Quietly(x, y)
               /\ Puts(out, out', tcp, IF exits THEN WithEnd(WithCall(y, c), "result")
                                       ELSE WithCall(y, c))
               /\ "FILTERED" \notin out'.tcbtab[tcp].flags /\ out'.current = tcp
  BY <1>2, <1>3, <1>5, EnterFiles
<1>7. PICK w, r : w = WithCall(y, c) /\ r = WithEnd(w, "result")
  OBVIOUS
<1>8. PICK z : z = IF exits THEN r ELSE w
  OBVIOUS
<1>9. Puts(out, out', tcp, z) /\ File(out', p) = z
  BY <1>3, <1>6, <1>7, <1>8 DEF Puts
<1>10. Turns(out, out', tcp, pc' = "restart", c)
  BY <1>2, <1>4, EnterStep
<1>11. Tcb'.call = c /\ pid2tcb(out', p) = {tcp} /\ Tcb' = out'.tcbtab[tcp]
       /\ (pc' = "restart" => "INSYSCALL" \in out'.tcbtab[tcp].flags)
  BY <1>1, <1>2, <1>10, SameKnown DEF Turns, Tcb
<1>12. /\ z \in FileSet /\ (Raises(x) => Raises(z))
       /\ ~exits => (Aligned(x) => Aligned(z)) /\ (Within(x, task[p].calls) => Within(z, task[p].calls))
  BY <1>5, <1>6, <1>7, <1>8, EnterAnyway
<1>13. Held(p) /\ ~EntryDue(p)'
  <2>1. Held(p)
    BY <1>1, <1>2, <1>3 DEF ThreadOK, HandOK, Handled
  <2>. QED  BY <1>1, <2>1, HeldNotDue
<1>14. ASSUME task[p].unseen \/ Raises(x) PROVE LineOK(p)'
  <2>1. File(out', p) = z /\ task' = task /\ (task[p].unseen \/ Raises(z))
    BY <1>1, <1>9, <1>12, <1>14
  <2>. QED  BY <2>1, NextLine
<1>15. ASSUME ~task[p].unseen, Aligned(x), LinesRight(p, x) PROVE LineOK(p)'
  <2>1. Within(x, task[p].calls)
    BY <1>15 DEF LinesRight
  <2>2. CASE Lost(p)
    <3>1. task[p].kind = "other"
      BY <1>1, <1>2, <1>3, <1>13, <2>2 DEF Lost, Held, NumberOf, Alive, Stopped
    <3>2. ~exits /\ pc' = "restart"
      BY <1>1, <1>2, <3>1
    <3>3. Over(p)'
      BY <1>1, <2>2, <3>2, LostIsOver
    <3>4. Aligned(z) /\ Within(z, task[p].calls)
      BY <1>12, <1>15, <2>1, <3>2
    <3>. QED  BY <1>1, <1>9, <1>13, <3>2, <3>3, <3>4, NextLine
  <2>3. CASE ~Lost(p)
    <3>1. Followed(p) /\ task[p].report = Nothing
      BY <1>1, <1>2, <1>3, <1>15, <2>3, AtHandIs DEF Handled
    <3>2. task[p].incall
      BY <1>1, <1>2, <3>1, SyscallStop
    <3>3. EntryDue(p)
      BY <1>1, <1>2, <3>1, <3>2 DEF EntryDue, Due
    <3>4. c.n = task[p].calls
      BY <1>1, <1>2, <1>3, <1>4, <3>1, <3>2 DEF HandNumberOK
    <3>5. Within(x, c.n - 1)
      BY <1>15, <3>3, <3>4 DEF LinesRight
    <3>6. Exact(x)
      <4>1. ~Shown(out, p)
        BY <1>1, <1>3 DEF Shown, Tcb
      <4>2. ~Over(p)
        BY <1>1, <1>2 DEF Over, Handled
      <4>. QED  BY <1>1, <1>15, <4>1, <4>2 DEF LinesRight
    <3>7. /\ w \in FileSet /\ Open(w) /\ ~Dumped(w, w.line) /\ w.line.call = c /\ Aligned(w)
          /\ Exact(r) /\ Aligned(r)
      BY <1>5, <1>6, <1>7, <1>15, <3>5, <3>6, EnterFollowed
    <3>8. Within(w, task[p].calls)
      BY <1>5, <1>6, <1>7, <2>1, EnterAnyway
    <3>9. CASE exits
      <4>1. Within(r, task[p].calls)
        BY <1>7, <3>7, <3>8, ResultIsNext
      <4>2. pc' = "restart" /\ z = r
        BY <1>1, <1>8, <3>9
      <4>. QED  BY <1>1, <1>9, <1>13, <3>7, <4>1, <4>2, NextLine
    <3>10. CASE pc' = "dump"
      <4>1. z = w
        BY <1>1, <1>8, <3>10
      <4>2. "FILTERED" \notin Tcb'.flags /\ Tcb'.call = c /\ status'.pid = p
        BY <1>1, <1>2, <1>6, <1>11
      <4>. QED  BY <1>1, <1>9, <1>13, <3>7, <3>8, <3>10, <4>1, <4>2, NextLine
    <3>11. CASE ~exits /\ pc' = "restart"
      <4>1. z = w
        BY <1>8, <3>11
      <4>2. Shown(out', p)
        BY <1>6, <1>11, <3>11 DEF Shown
      <4>. QED  BY <1>1, <1>9, <1>13, <3>7, <3>8, <3>11, <4>1, <4>2, NextLine
    <3>. QED  BY <1>1, <3>9, <3>10, <3>11
  <2>. QED  BY <2>2, <2>3
<1>16. LineOK(p)'
  <2>1. task[p].unseen \/ Raises(x) \/ (Aligned(x) /\ LinesRight(p, x))
    BY <1>2, <1>3 DEF LineOK
  <2>. QED  BY <1>14, <1>15, <2>1
<1>. QED  BY <1>1, <1>2, <1>6, <1>9, <1>10, <1>16, PutLines

LEMMA DumpLines ==
  ASSUME TracerInv, AllOK, LinesInv, opt.ff = TRUE, ~Leaving, Dump
  PROVE  LinesInv'
<1>1. /\ pc = "dump" /\ pc' = "restart" /\ UNCHANGED <<opt, task, status, tcp, hide>>
      /\ out.current = tcp
  BY DEF Dump, Goes, kernelVars, LinesInv
<1>2. PICK p, x : p = status.pid /\ x = File(out, p)
  OBVIOUS
<1>3. /\ InFiles(out, tcp) /\ p \in Pids /\ ThreadOK(p) /\ NumberOf(task[p]) /\ LineOK(p)
      /\ pid2tcb(out, p) = {tcp} /\ x \in FileSet /\ Tcb.pid = p
      /\ out.tcbtab[tcp].pid = p
  BY <1>1, <1>2, HandledFiles DEF AllOK, Tcb
<1>4. PICK c, z : c = Tcb.call /\ z = WithDump(x, c)
  OBVIOUS
<1>5. Puts(out, out', tcp, z) /\ out'.current = tcp
  BY <1>1, <1>2, <1>3, <1>4, DumpFiles
<1>6. File(out', p) = z
  BY <1>3, <1>5 DEF Puts
<1>7. Turns(out, out', tcp, TRUE, c)
  BY <1>4, DumpStep
<1>8. ~EntryDue(p)'
  <2>1. Held(p)
    BY <1>1, <1>2, <1>3 DEF ThreadOK, HandOK, Handled
  <2>. QED  BY <1>1, <2>1, HeldNotDue
<1>9. ASSUME task[p].unseen \/ Raises(x) PROVE LineOK(p)'
  <2>1. z.log = x.log
    BY <1>4 DEF WithDump
  <2>2. task[p].unseen \/ Raises(z)
    BY <1>9, <2>1 DEF Raises
  <2>. QED  BY <1>1, <1>6, <2>2, NextLine
<1>10. ASSUME Aligned(x), LinesRight(p, x) PROVE LineOK(p)'
  <2>1. /\ Open(x) /\ x.line.call = c /\ ~Dumped(x, x.line) /\ "FILTERED" \notin Tcb.flags
        /\ ~hide /\ Within(x, task[p].calls)
    BY <1>1, <1>2, <1>4, <1>10 DEF LinesRight
  <2>2. Open(z) /\ Aligned(z) /\ Within(z, task[p].calls)
    BY <1>3, <1>4, <1>10, <2>1, DumpIsNext
  <2>3. Shown(out', p)
    <3>1. pid2tcb(out', p) = {tcp}
      BY <1>1, <1>2, <1>7, SameKnown DEF Turns
    <3>2. "INSYSCALL" \in out'.tcbtab[tcp].flags
      BY <1>7 DEF Turns
    <3>3. "FILTERED" \notin out'.tcbtab[tcp].flags
      BY <1>3, <1>5, <2>1 DEF Puts, NoneFiltered, InFiles, Tcb
    <3>. QED  BY <3>1, <3>2, <3>3 DEF Shown
  <2>. QED  BY <1>1, <1>6, <1>8, <2>1, <2>2, <2>3, NextLine
<1>11. LineOK(p)'
  BY <1>2, <1>3, <1>9, <1>10 DEF LineOK
<1>. QED  BY <1>1, <1>2, <1>5, <1>7, <1>11, PutLines

LEMMA LeaveLines ==
  ASSUME TracerInv, AllOK, LinesInv, opt.ff = TRUE, ~Leaving, Leave
  PROVE  LinesInv'
<1>1. /\ pc = "handle" /\ pc' = "restart" /\ UNCHANGED <<opt, task, status, tcp, hide>>
      /\ status.report = "syscall"
  BY DEF Leave, Exiting, Handling, Goes, kernelVars
<1>2. PICK p, x : p = status.pid /\ x = File(out, p)
  OBVIOUS
<1>3. /\ InFiles(out, tcp) /\ p \in Pids /\ ThreadOK(p) /\ NumberOf(task[p]) /\ LineOK(p)
      /\ pid2tcb(out, p) = {tcp} /\ x \in FileSet /\ Tcb.pid = p
      /\ out.tcbtab[tcp].pid = p
  BY <1>1, <1>2, HandledFiles DEF AllOK, Tcb
<1>4. PICK silent : silent = ("FILTERED" \in Tcb.flags \/ hide)
  OBVIOUS
<1>5. /\ IF silent THEN Puts(out, out', tcp, x)
         ELSE \E y : /\ Quietly(x, y)
                     /\ y = x \/ y.line.begins = "resumed"
                     /\ Puts(out, out', tcp, WithEnd(y, "result"))
      /\ out'.current = tcp
  BY <1>2, <1>3, <1>4, LeaveFiles
<1>6. Turns(out, out', tcp, FALSE, Tcb.call)
  BY LeaveStep
<1>7. Held(p) /\ ~EntryDue(p)'
  <2>1. Held(p)
    BY <1>1, <1>2, <1>3 DEF ThreadOK, HandOK, Handled
  <2>. QED  BY <1>1, <2>1, HeldNotDue
<1>8. ~Over(p)
  BY <1>1, <1>2 DEF Over, Handled
<1>9. ASSUME silent PROVE LinesInv'
  <2>1. File(out', p) = x
    BY <1>3, <1>5, <1>9 DEF Puts
  <2>2. Quietly(File(out, p), File(out', p))
    BY <1>2, <1>3, <2>1, QuietItself
  <2>3. ~Shown(out, p) \/ hide
    BY <1>3, <1>4, <1>9 DEF Shown, Tcb
  <2>4. LineOK(p)'
    BY <1>1, <1>3, <1>7, <1>8, <2>2, <2>3, OwnLine
  <2>. QED  BY <1>1, <1>2, <1>5, <1>6, <1>9, <2>4, PutLines
<1>10. ASSUME ~silent PROVE LinesInv'
  <2>1. PICK y : /\ Quietly(x, y)
                 /\ y = x \/ y.line.begins = "resumed"
                 /\ Puts(out, out', tcp, WithEnd(y, "result"))
    BY <1>5, <1>10
  <2>2. PICK z : z = WithEnd(y, "result")
    OBVIOUS
  <2>3. Puts(out, out', tcp, z) /\ File(out', p) = z
    BY <1>3, <2>1, <2>2 DEF Puts
  <2>4. y \in FileSet /\ (Raises(x) => Raises(y))
    BY <2>1, QuietKeeps DEF Quietly
  <2>5. Raises(y) => Raises(z)
    <3>1. z \in FileSet /\ Grows(y, z) /\ SameDumped(y, z)
      BY <2>2, <2>4, EndedLine, TextsAre
    <3>. QED  BY <2>4, <3>1, CountsKept
  <2>6. ASSUME task[p].unseen \/ Raises(z) PROVE LineOK(p)'
    BY <1>1, <2>3, <2>6, NextLine
  <2>7. ASSUME Aligned(x), LinesRight(p, x), y.line.begins = "call" PROVE LineOK(p)'
    <3>1. y = x /\ ~Exact(x)
      BY <2>1, <2>7 DEF Exact
    <3>2. Open(x) /\ Within(x, task[p].calls)
      BY <1>1, <1>8, <2>7, <3>1 DEF LinesRight
    <3>3. Exact(z) /\ Aligned(z) /\ Within(z, task[p].calls)
      BY <1>3, <2>2, <2>7, <3>1, <3>2, ResultIsNext
    <3>. QED  BY <1>1, <1>7, <2>3, <3>3, NextLine
  <2>8. y.line.begins # "call" => Raises(z)
    BY <2>2, <2>4, LooseResult
  <2>9. LineOK(p)'
    <3>1. task[p].unseen \/ Raises(x) \/ (Aligned(x) /\ LinesRight(p, x))
      BY <1>2, <1>3 DEF LineOK
    <3>. QED  BY <2>4, <2>5, <2>6, <2>7, <2>8, <3>1
  <2>. QED  BY <1>1, <1>2, <1>5, <1>6, <2>3, <2>9, PutLines
<1>. QED  BY <1>9, <1>10

\* From o to t block i has started, and is the current one unless strace detaches from it.
ExecveClears(o, i, where, t) ==
    LET c == ClearFlags(o, i, {"STARTUP"})
    IN  t = [c EXCEPT !.current = IF where = "restart" THEN i ELSE @]

LEMMA ExecveCleared ==
  ASSUME NEW o, NEW i, InFiles(o, i), NEW where, NEW t,
         ExecveClears(o, i, where, t)
  PROVE  /\ Quiets(o, t, i) /\ (\A f : File(t, f) = File(o, f))
         /\ where = "restart" => t.current = i
<1>1. PICK c : c = ClearFlags(o, i, {"STARTUP"})
  OBVIOUS
<1>2. t = [c EXCEPT !.current = IF where = "restart" THEN i ELSE c.current]
  BY <1>1 DEF ExecveClears
<1>3. i \in DOMAIN o.tcbtab
  BY DEF InFiles
<1>4. Quiets(o, c, i) /\ (\A f : File(c, f) = File(o, f))
  BY <1>1, <1>3, FlagsQuiet
<1>5. InFiles(c, i)
  BY <1>4, QuietsIn
<1>6. CASE where # "restart"
  <2>1. Fields(c)
    BY <1>5 DEF InFiles, IsOutput
  <2>2. t = c
    BY <1>2, <1>6, <2>1 DEF Fields
  <2>. QED  BY <1>4, <1>6, <2>2
<1>7. CASE where = "restart"
  <2>1. t = [c EXCEPT !.current = i]
    BY <1>2, <1>7
  <2>2. Quiets(c, t, i) /\ (\A f : File(t, f) = File(c, f))
    BY <1>5, <2>1, CurrentQuiet
  <2>3. t.current = i
    <3>1. Fields(c)
      BY <1>5 DEF InFiles, IsOutput
    <3>. QED  BY <2>1, <3>1 DEF Fields
  <2>4. Quiets(o, t, i)
    BY <1>3, <1>4, <2>2, QuietsThrough
  <2>. QED  BY <1>4, <2>2, <2>3, <2>4
<1>. QED  BY <1>6, <1>7

LEMMA OwnExecveLines ==
  ASSUME TracerInv, AllOK, LinesInv, opt.ff = TRUE, ~Leaving, HandleExecve,
         status.oldpid = status.pid \/ pid2tcb(out, status.oldpid) = {}
  PROVE  LinesInv'
<1>1. /\ pc = "handle" /\ status.report = "execve" /\ pc' \in {"restart", "detach"}
      /\ UNCHANGED <<opt, task, status, tcp, hide>>
  BY DEF HandleExecve, Handling, kernelVars
<1>2. PICK p, old : p = status.pid /\ old = status.oldpid
  OBVIOUS
<1>3. InFiles(out, tcp) /\ p \in Pids /\ ThreadOK(p)
  BY <1>1, <1>2, HandledFiles DEF AllOK
<1>5. /\ Quiets(out, out', tcp) /\ (\A f : File(out', f) = File(out, f))
      /\ pc' = "restart" => out'.current = tcp
  <2>1. ExecveClears(out, tcp, pc', out')
    BY DEF HandleExecve, ExecveClears
  <2>3. PICK t : t = out'
    OBVIOUS
  <2>4. /\ Quiets(out, t, tcp) /\ (\A f : File(t, f) = File(out, f))
        /\ pc' = "restart" => t.current = tcp
    BY <1>3, <2>1, <2>3, ExecveCleared
  <2>. QED  BY <2>3, <2>4
<1>6. Keeps(out, out')
  BY HandleExecveStep
<1>7. \A q \in Pids \ {p} : SameFor(out, out', q)
  BY <1>1, <1>2, <1>6, AllOthers
<1>8. CASE task[p].unseen \/ Lost(p)
  BY <1>1, <1>2, <1>5, <1>7, <1>8, QuietLines
<1>9. CASE ~task[p].unseen /\ ~Lost(p)
  <2>1. Followed(p) /\ Stopped(p) /\ task[p].report = Nothing
    BY <1>1, <1>2, <1>3, <1>9, AtHandIs DEF Handled
  <2>2. task[p].oldpid = old /\ Due(p) = "execve"
    BY <1>1, <1>2, <1>3, <2>1 DEF ThreadOK, ExecveOK, Due
  <2>3. old = p
    <3>1. SUFFICES ASSUME old # p PROVE FALSE
      OBVIOUS
    <3>2. Says(out, old, task[p].call)
      BY <1>3, <2>1, <2>2, <3>1 DEF ThreadOK, SyncOK
    <3>3. pid2tcb(out, old) # {}
      BY <3>2 DEF Says
    <3>. QED  BY <1>2, <3>1, <3>3
  <2>4. ~Over(p)
    BY <1>2, <1>9, <2>3, OverIsLost
  <2>5. Shown(out, p) => Shown(out', p)
    BY <1>3, <1>5, <1>6, KeepsShown DEF Quiets
  <2>6. File(out', p).line = File(out, p).line
    BY <1>5
  <2>. QED  BY <1>1, <1>2, <1>5, <1>7, <2>4, <2>5, <2>6, QuietLines
<1>. QED  BY <1>8, <1>9

\* The thread that called execve is gone, and its block has the files of the leader.
LEMMA SwitchFiles ==
  ASSUME TracerInv, LinesInv, opt.ff = TRUE, HandleExecve,
         NEW p, p = status.pid, NEW old, old = status.oldpid,
         old # p, pid2tcb(out, old) # {}
  PROVE  /\ HasFiles(out') /\ Raises(File(out', p))
         /\ Quietly(File(out, old), File(out', old))
         /\ \A f \in Files \ {p, old} : File(out', f) = File(out, f)
         /\ \A k \in DOMAIN out.tcbtab : k \in DOMAIN out'.tcbtab =>
               ("FILTERED" \in out'.tcbtab[k].flags => "FILTERED" \in out.tcbtab[k].flags)
         /\ pc' = "restart" => out'.current = tcp'
<1>1. InFiles(out, tcp) /\ out.tcbtab[tcp].pid = p /\ p # 0
  <2>1. pc = "handle"
    BY DEF HandleExecve, Handling
  <2>. QED  BY <2>1, HandledFiles, PidsAssumption DEF Tcb
<1>2. PICK i : i = CHOOSE j \in pid2tcb(out, old) : TRUE
  OBVIOUS
<1>3. i \in pid2tcb(out, old)
  BY <1>2
<1>4. i \in DOMAIN out.tcbtab /\ out.tcbtab[i].pid = old /\ old # 0 /\ i # tcp
  <2>1. i \in DOMAIN out.tcbtab /\ out.tcbtab[i].pid = old /\ InUse(out, i)
    BY <1>3 DEF pid2tcb
  <2>. QED  BY <1>1, <2>1, BlockOf DEF IsTcb, InUse, TracerInv
<1>6. PICK o, t : o = Superseded(TRUE, out, i, tcp) /\ t = out'
  OBVIOUS
<1>7. ExecveClears(o, i, pc', t) /\ tcp' = i
  BY <1>2, <1>6 DEF HandleExecve, ExecveClears
<1>12. Two(out, i, tcp, old, p)
  BY <1>1, <1>4 DEF InFiles, Two
<1>8. /\ InFiles(o, i) /\ NoneFiltered(out, o) /\ Raises(File(o, p))
      /\ Quietly(File(out, old), File(o, old))
      /\ \A f \in Files \ {old, p} : File(o, f) = File(out, f)
  <2>1. Swapped(out, o, i, old, p)
    BY <1>6, <1>12, SupersededFiles
  <2>. QED  BY <2>1 DEF Swapped
<1>9. /\ Quiets(o, t, i) /\ (\A f : File(t, f) = File(o, f))
      /\ pc' = "restart" => t.current = i
  BY <1>7, <1>8, ExecveCleared
<1>10. HasFiles(t) /\ \A k \in DOMAIN out.tcbtab : k \in DOMAIN t.tcbtab =>
          ("FILTERED" \in t.tcbtab[k].flags => "FILTERED" \in out.tcbtab[k].flags)
  BY <1>8, <1>9 DEF Quiets, Places, NoneFiltered
<1>. QED  BY <1>6, <1>7, <1>8, <1>9, <1>10

LEMMA SwitchLines ==
  ASSUME TracerInv, AllOK, LinesInv, opt.ff = TRUE, ~Leaving, HandleExecve,
         status.oldpid # status.pid, pid2tcb(out, status.oldpid) # {}
  PROVE  LinesInv'
<1>1. /\ pc = "handle" /\ status.report = "execve" /\ pc' \in {"restart", "detach"}
      /\ UNCHANGED <<opt, task, status, hide>>
  BY DEF HandleExecve, Handling, kernelVars
<1>2. PICK p, old : p = status.pid /\ old = status.oldpid
  OBVIOUS
<1>3. p \in Pids /\ ThreadOK(p) /\ p # 0 /\ old # p /\ pid2tcb(out, old) # {}
  BY <1>1, <1>2, HandledFiles, PidsAssumption DEF AllOK
<1>4. old \in Pids /\ task[old].state = "gone"
  BY <1>1, <1>2, <1>3 DEF ThreadOK, ExecveOK, ByExecve, Replaced
<1>5. /\ HasFiles(out') /\ Raises(File(out', p))
      /\ Quietly(File(out, old), File(out', old))
      /\ \A f \in Files \ {p, old} : File(out', f) = File(out, f)
      /\ \A k \in DOMAIN out.tcbtab : k \in DOMAIN out'.tcbtab =>
            ("FILTERED" \in out'.tcbtab[k].flags => "FILTERED" \in out.tcbtab[k].flags)
      /\ pc' = "restart" => out'.current = tcp'
  BY <1>2, <1>3, SwitchFiles
<1>6. \A q \in Pids \ {p, old} : SameFor(out, out', q)
  <2>1. PICK i \in pid2tcb(out, old) : i # tcp /\ Switches(out, out', tcp, i)
    BY <1>2, <1>3, HandleExecveStep
  <2>. QED  BY <1>1, <1>2, <1>3, <2>1, SwitchSays
<1>7. Tcb'.pid = p
  BY <1>2, HandleExecveStep DEF pid2tcb, Tcb
<1>8. /\ NumbersInv /\ HasFiles(out) /\ out.log[Shared] = << >>
      /\ \A q \in Pids : LineOK(q) /\ NumberOf(task[q])
  BY DEF LinesInv, NumbersInv
<1>9. \A q \in Pids : HandNumberOK(q)'
  BY <1>1 DEF HandNumberOK
<1>10. LineOK(p)'
  BY <1>5 DEF LineOK
<1>11. LineOK(old)'
  <2>1. ~EntryDue(old)' /\ Over(old)'
    BY <1>1, <1>4 DEF EntryDue, Followed, Over, Handled, Alive
  <2>2. LineGoes(old)
    BY <1>1, <1>4, <1>8, <2>1 DEF LineGoes, NumberOf
  <2>. QED  BY <1>1, <1>4, <1>5, <1>8, <2>2, LineKept
<1>12. ASSUME NEW q \in Pids \ {p, old} PROVE LineOK(q)'
  <2>1. Elsewhere(q) /\ Elsewhere(q)'
    BY <1>1, <1>2, <1>3, <1>7, HandledTcb DEF Elsewhere, Handled, AtHand, Going
  <2>2. \A k \in pid2tcb(out, q) :
           "FILTERED" \in out'.tcbtab[k].flags => "FILTERED" \in out.tcbtab[k].flags
    BY <1>5, <1>6 DEF SameFor, pid2tcb
  <2>3. Shown(out, q) => Shown(out', q)
    BY <1>6, <2>2, ShownKept
  <2>4. File(out, q) \in FileSet /\ File(out', q) = File(out, q)
    BY <1>5, <1>8 DEF HasFiles, Files
  <2>. QED  BY <1>1, <1>8, <2>1, <2>3, <2>4, OtherLine
<1>13. NumbersInv' /\ out'.log[Shared] = << >>
  <2>1. File(out', 0) = File(out, 0)
    BY <1>3, <1>4, <1>5, PidsAssumption DEF Files, Shared
  <2>. QED  BY <1>1, <1>8, <2>1 DEF NumbersInv, File, Shared
<1>14. \A q \in Pids : LineOK(q)'
  BY <1>10, <1>11, <1>12
<1>. QED  BY <1>1, <1>5, <1>9, <1>13, <1>14 DEF LinesInv

LEMMA HandleExecveLines ==
  ASSUME TracerInv, AllOK, LinesInv, opt.ff = TRUE, ~Leaving, HandleExecve
  PROVE  LinesInv'
  BY OwnExecveLines, SwitchLines

LEMMA HandleLines ==
  ASSUME TracerInv, AllOK, LinesInv, opt.ff = TRUE, ~Leaving, Handle
  PROVE  LinesInv'
  BY HandleEndLines, HandleEventLines, HandleExecveLines, HandleSignalLines, StopsLines,
     UnreadableLines, EnterSilentlyLines, EnterLines, DumpLines, LeaveLines DEF Handle

-----------------------------------------------------------------------------
(* wait4, the restart and the start                                          *)

\* A step in which thread p is the only one that changes, with its file.
LEMMA OneLines ==
  ASSUME LinesInv, opt.ff = TRUE, ~Leaving, UNCHANGED opt, hide' => hide,
         pc' = "startup" => pc = "startup", HasFiles(out'),
         pc' \in {"restart", "dump"} => out'.current = tcp',
         NEW p, DOMAIN task' = Pids,
         \A q \in Pids \ {p} : task'[q] = task[q] /\ Elsewhere(q) /\ Elsewhere(q)',
         \A q \in Pids \ {p} : Shown(out, q) => Shown(out', q),
         \A f \in Files \ {p} : File(out', f) = File(out, f), File(out', 0) = File(out, 0),
         p \in Pids => NumberOf(task'[p]) /\ LineOK(p)' /\ HandNumberOK(p)'
  PROVE  LinesInv'
<1>1. /\ NumbersInv /\ HasFiles(out) /\ out.log[Shared] = << >>
      /\ \A q \in Pids : LineOK(q) /\ NumberOf(task[q])
  BY DEF LinesInv, NumbersInv
<1>2. Pids \subseteq Files
  BY DEF Files
<1>3. ASSUME NEW q \in Pids \ {p} PROVE NumberOf(task'[q]) /\ LineOK(q)' /\ HandNumberOK(q)'
  <2>1. File(out, q) \in FileSet /\ File(out', q) = File(out, q)
    BY <1>1, <1>2 DEF HasFiles
  <2>. QED  BY <1>1, <2>1, OtherLine
<1>4. NumbersInv'
  BY <1>3 DEF NumbersInv
<1>5. out'.log[Shared] = << >>
  BY <1>1 DEF File, Shared
<1>. QED  BY <1>3, <1>4, <1>5 DEF LinesInv

LEMMA ReapedNumber ==
  ASSUME NEW t, NumberOf(t), t.report # Nothing,
         NEW u, u = [t EXCEPT !.report = Nothing,
                              !.state = IF t.state = "dead" THEN "gone" ELSE t.state]
  PROVE  NumberOf(u) /\ u.calls = t.calls
<1>1. /\ IsTask(u) /\ u.call = t.call /\ u.calls = t.calls /\ u.pending = t.pending
      /\ u.report = Nothing
      /\ u.state = IF t.state = "dead" THEN "gone" ELSE t.state
  BY DEF NumberOf, IsTask
<1>2. t.state # "free"
  BY DEF NumberOf, FreeTask
<1>. QED  BY <1>1, <1>2 DEF NumberOf, Nothing, Signals

LEMMA WaitLines ==
  ASSUME TracerInv, AllOK, BlocksInv, LinesInv, opt.ff = TRUE, ~Leaving,
         NEW p \in Pids, Wait(p)
  PROVE  LinesInv'
<1>1. /\ pc = "wait" /\ pc' = "handle" /\ status'.pid = p /\ UNCHANGED <<opt, hide>>
      /\ status'.report = task[p].report /\ status'.oldpid = task[p].oldpid
      /\ task[p].traced /\ task[p].report # Nothing /\ task' = Reaped(p)
  BY DEF Wait, Waitable
<1>2. /\ DOMAIN task = Pids /\ ThreadOK(p) /\ IsTask(task[p]) /\ NumberOf(task[p])
      /\ LineOK(p) /\ HasFiles(out) /\ IsOutput(out) /\ TableOK(p)
      /\ File(out, p) \in FileSet
  BY DEF AllOK, ThreadOK, StateOK, LinesInv, NumbersInv, TracerInv, BlocksInv, HasFiles, Files
<1>3. PICK u : u = [task[p] EXCEPT !.report = Nothing,
                                   !.state = IF task[p].state = "dead" THEN "gone"
                                             ELSE task[p].state]
  OBVIOUS
<1>4. DOMAIN task' = Pids /\ task'[p] = u /\ \A q \in Pids \ {p} : task'[q] = task[q]
  BY <1>1, <1>2, <1>3 DEF Reaped
<1>5. /\ IsTask(u) /\ u.report = Nothing
      /\ u.state = IF task[p].state = "dead" THEN "gone" ELSE task[p].state
      /\ u.traced = task[p].traced /\ u.call = task[p].call
      /\ u.incall = task[p].incall /\ u.unseen = task[p].unseen
      /\ u.oldpid = task[p].oldpid
  BY <1>2, <1>3 DEF IsTask
<1>6. NumberOf(u) /\ u.calls = task[p].calls
  BY <1>1, <1>2, <1>3, ReapedNumber
<1>7. task[p].state \in {"stop", "dead", "gone"}
  BY <1>1, <1>2 DEF ThreadOK, StateOK
<1>8. /\ HasFiles(out') /\ (\A f : File(out', f) = File(out, f)) /\ NoneFiltered(out, out')
      /\ \A q \in Pids \ {p} : SameFor(out, out', q)
      /\ out' = out \/ pid2tcb(out, p) = {}
  <2>1. CASE pid2tcb(out, p) # {}
    <3>1. out' = out
      BY <2>1 DEF Wait
    <3>. QED  BY <1>2, <3>1 DEF SameFor, SameCall, NoneFiltered
  <2>2. CASE pid2tcb(out, p) = {}
    <3>1. Attaches(p)
      BY <2>2 DEF Attaches, Wait, PostAttach
    <3>2. \A q \in Pids \ {p} : SameFor(out, out', q)
      BY <2>2, <3>1, AttachesSame DEF TracerInv
    <3>3. PICK F : F = PostAttach
      OBVIOUS
    <3>4. "FILTERED" \notin F
      BY <3>3 DEF PostAttach
    <3>5. out' = Attached(TRUE, out, p, F)
      BY <2>2, <3>3 DEF Wait
    <3>6. PICK t : t = Attached(TRUE, out, p, F)
      OBVIOUS
    <3>7. KeepsFiles(out, t)
      BY <1>2, <3>4, <3>6, AttachFiles
    <3>. QED  BY <2>2, <3>2, <3>5, <3>6, <3>7 DEF KeepsFiles
  <2>. QED  BY <2>1, <2>2
<1>9. \A q \in Pids \ {p} : Elsewhere(q) /\ Elsewhere(q)'
  BY <1>1 DEF Elsewhere, Handled, AtHand, Going
<1>10. \A q \in Pids \ {p} : Shown(out, q) => Shown(out', q)
  BY <1>8, ShownKept DEF NoneFiltered, pid2tcb
<1>11. EntryDue(p)' => EntryDue(p)
  <2>1. SUFFICES ASSUME Followed(p)', Due(p)' = "syscall", u.incall
                 PROVE  EntryDue(p)
    BY <1>4 DEF EntryDue
  <2>2. Followed(p) /\ Due(p) = task[p].report /\ Due(p)' = Due(p)
    BY <1>1, <1>4, <1>5, <1>7, <2>1 DEF Followed, Going, AtHand, Handled, Alive, Due
  <2>. QED  BY <1>1, <1>5, <2>1, <2>2 DEF EntryDue
<1>12. ASSUME Over(p) PROVE Over(p)'
  <2>1. \/ ~Alive(p) /\ task[p].report \in Ended
        \/ task[p].report = "execve" /\ task[p].oldpid # p
    BY <1>1, <1>2, <1>7, <1>12 DEF Over, Handled, TableOK, DeadOK, Alive
  <2>2. status'.report # "syscall"
    BY <1>1, <2>1 DEF Ended
  <2>. QED  BY <1>1, <1>4, <1>5, <1>7, <2>1, <2>2 DEF Over, Handled, Alive
<1>13. LineGoes(p)
  <2>1. Shown(out, p) => out' = out
    BY <1>8 DEF Shown
  <2>. QED  BY <1>1, <1>2, <1>4, <1>6, <1>11, <1>12, <2>1 DEF LineGoes, NumberOf
<1>14. LineOK(p)'
  BY <1>2, <1>4, <1>5, <1>6, <1>8, <1>13, QuietItself, LineKept
<1>15. HandNumberOK(p)'
  BY <1>1, <1>2, <1>4, <1>5, <1>6 DEF HandNumberOK, NumberOf
<1>16. /\ DOMAIN task' = Pids
       /\ \A q \in Pids \ {p} : task'[q] = task[q] /\ Elsewhere(q) /\ Elsewhere(q)'
       /\ \A f \in Files \ {p} : File(out', f) = File(out, f)
       /\ File(out', 0) = File(out, 0)
       /\ p \in Pids => NumberOf(task'[p]) /\ LineOK(p)' /\ HandNumberOK(p)'
  BY <1>4, <1>6, <1>8, <1>9, <1>14, <1>15
<1>17. /\ opt' = opt /\ (hide' => hide) /\ (pc' = "startup" => pc = "startup")
       /\ pc' \in {"restart", "dump"} => out'.current = tcp'
  BY <1>1
<1>. QED  BY <1>8, <1>10, <1>16, <1>17, OneLines

LEMMA RestartedLines ==
  ASSUME TracerInv, AllOK, LinesInv, opt.ff = TRUE, ~Leaving, RestartTracee,
         Tcb.pid # 0, Stopped(Tcb.pid), task[Tcb.pid].traced
  PROVE  LinesInv'
<1>1. PICK p : p = Tcb.pid
  OBVIOUS
<1>2. /\ pc = "restart" /\ pc' = "wait" /\ task' = Restarted(p, TRUE) /\ out' = out
      /\ UNCHANGED <<opt, hide>>
  BY <1>1 DEF RestartTracee
<1>3. p \in Pids /\ AtHand(p)
  <2>1. tcp \in DOMAIN out.tcbtab
    BY <1>2 DEF TracerInv, PlaceOK
  <2>. QED  BY <1>1, <1>2, <2>1, BlockOf DEF TracerInv, IsTcb, Tcb, AtHand
<1>4. /\ DOMAIN task = Pids /\ ThreadOK(p) /\ Stopped(p) /\ task[p].traced
      /\ NumberOf(task[p]) /\ LineOK(p) /\ HasFiles(out) /\ File(out, p) \in FileSet
  BY <1>1, <1>3 DEF AllOK, LinesInv, NumbersInv, HasFiles, Files
<1>5. PICK u : u = [task[p] EXCEPT !.state = "run", !.syscalls = TRUE, !.report = Nothing,
                                   !.unseen = task[p].unseen \/ task[p].report = "execve"]
  OBVIOUS
<1>6. DOMAIN task' = Pids /\ task'[p] = u /\ \A q \in Pids \ {p} : task'[q] = task[q]
  BY <1>2, <1>3, <1>4, <1>5 DEF Restarted
<1>7. /\ NumberOf(u) /\ u.calls = task[p].calls /\ u.report = Nothing
      /\ u.unseen = (task[p].unseen \/ task[p].report = "execve")
  <2>1. /\ IsTask(u) /\ u.call = task[p].call /\ u.calls = task[p].calls
        /\ u.pending = task[p].pending /\ u.report = Nothing /\ u.state = "run"
        /\ u.unseen = (task[p].unseen \/ task[p].report = "execve")
    BY <1>4, <1>5 DEF NumberOf, IsTask
  <2>. QED  BY <1>4, <2>1 DEF NumberOf, Nothing, Signals
<1>8. LineOK(p)'
  <2>1. CASE task[p].report = "execve"
    BY <1>6, <1>7, <2>1 DEF LineOK
  <2>2. CASE task[p].report # "execve"
    <3>1. ~Over(p)
      BY <1>2, <1>4, <2>2 DEF Over, Handled, Alive, Stopped
    <3>2. ~EntryDue(p)'
      BY <1>2, <1>6, <1>7 DEF EntryDue, Due, Nothing
    <3>3. File(out', p) = File(out, p) /\ (Shown(out', p) <=> Shown(out, p))
      BY <1>2
    <3>4. LineGoes(p)
      <4>1. task'[p].calls >= task[p].calls
        BY <1>4, <1>6, <1>7 DEF NumberOf
      <4>2. ~Shown(out, p) \/ hide
            \/ (File(out', p).line = File(out, p).line /\ Shown(out', p) /\ ~hide')
        BY <1>2
      <4>. QED  BY <1>2, <3>1, <3>2, <4>1, <4>2 DEF LineGoes
    <3>. QED  BY <1>3, <1>4, <1>6, <1>7, <3>3, <3>4, QuietItself, LineKept
  <2>. QED  BY <2>1, <2>2
<1>9. /\ \A q \in Pids \ {p} : task'[q] = task[q] /\ Elsewhere(q) /\ Elsewhere(q)'
      /\ \A q \in Pids \ {p} : Shown(out, q) => Shown(out', q)
      /\ \A f \in Files \ {p} : File(out', f) = File(out, f)
      /\ File(out', 0) = File(out, 0) /\ HasFiles(out')
  BY <1>1, <1>2, <1>4, <1>6 DEF Elsewhere, Handled, AtHand, Going
<1>10. p \in Pids => NumberOf(task'[p]) /\ LineOK(p)' /\ HandNumberOK(p)'
  BY <1>2, <1>6, <1>7, <1>8 DEF HandNumberOK
<1>11. /\ opt' = opt /\ (hide' => hide) /\ (pc' = "startup" => pc = "startup")
       /\ pc' \in {"restart", "dump"} => out'.current = tcp'
  BY <1>2
<1>. QED  BY <1>6, <1>9, <1>10, <1>11, OneLines

\* What ptrace_restart writes when it fails.
LEMMA FailedFiles ==
  ASSUME IsOutput(out), HasFiles(out), tcp \in DOMAIN out.tcbtab, tcp # 0, out.current = tcp,
         out' = Failed(out, "no such process")
  PROVE  /\ out' = out \/ (Tcb.pid # 0 /\ Quiets(out, out', tcp))
<1>1. CASE ~Tcb.curcol
  BY <1>1 DEF Failed, Tcb
<1>2. CASE Tcb.curcol
  <2>1. InFiles(out, tcp) /\ Tcb.pid # 0
    BY <1>2 DEF InFiles, HasFiles, Owned, Tcb
  <2>2. PICK t : t = line_ended(Ends(out, tcp, "no such process"))
    OBVIOUS
  <2>3. Quiets(out, t, tcp)
    BY <2>1, <2>2, TextsAre, LineOutQuiet
  <2>4. out' = t
    BY <1>2, <2>2 DEF Failed, Tcb
  <2>. QED  BY <2>1, <2>3, <2>4
<1>. QED  BY <1>1, <1>2

LEMMA NotRestartedLines ==
  ASSUME TracerInv, AllOK, LinesInv, opt.ff = TRUE, ~Leaving, RestartTracee,
         ~(Tcb.pid # 0 /\ Stopped(Tcb.pid) /\ task[Tcb.pid].traced)
  PROVE  LinesInv'
<1>1. PICK p : p = Tcb.pid
  OBVIOUS
<1>2. /\ pc = "restart" /\ pc' = "wait" /\ task' = task /\ Keeps(out, out')
      /\ UNCHANGED <<opt, hide>> /\ out' = Failed(out, "no such process")
  BY RestartStep DEF RestartTracee
<1>3. \A q \in Pids : SameFor(out, out', q)
  BY <1>2, KeepsSame, PidsAssumption DEF TracerInv
<1>4. /\ tcp \in DOMAIN out.tcbtab /\ tcp # 0 /\ (p = 0 \/ p \in Pids)
      /\ IsOutput(out) /\ HasFiles(out) /\ DOMAIN task = Pids
  <2>1. tcp \in DOMAIN out.tcbtab /\ IsOutput(out)
    BY <1>2 DEF TracerInv, PlaceOK
  <2>2. tcp # 0
    BY <2>1, BlocksAreSeq DEF IsOutput
  <2>. QED  BY <1>1, <2>1, <2>2, BlockOf DEF IsTcb, Tcb, LinesInv, AllOK
<1>5. out' = out \/ (p # 0 /\ Quiets(out, out', tcp))
  <2>1. out.current = tcp
    BY <1>2 DEF LinesInv
  <2>. QED  BY <1>1, <1>2, <1>4, <2>1, FailedFiles
<1>6. HasFiles(out') /\ NoneFiltered(out, out')
      /\ \A f \in Files \ {p} : File(out', f) = File(out, f)
  BY <1>1, <1>4, <1>5 DEF Quiets, NoneFiltered, Tcb
<1>7. File(out', 0) = File(out, 0)
  BY <1>5, <1>6 DEF Files, Shared
<1>8. ASSUME p \in Pids PROVE NumberOf(task'[p]) /\ LineOK(p)' /\ HandNumberOK(p)'
  <2>1. p # 0 /\ AtHand(p) /\ ThreadOK(p) /\ NumberOf(task[p]) /\ LineOK(p)
        /\ File(out, p) \in FileSet
    BY <1>1, <1>2, <1>8, PidsAssumption DEF AtHand, AllOK, LinesInv, NumbersInv, HasFiles, Files
  <2>2. Held(p) /\ ~Alive(p)
    BY <1>1, <2>1 DEF ThreadOK, HandOK, Held, Alive, Stopped
  <2>3. Over(p)' /\ ~EntryDue(p)'
    BY <1>2, <2>2 DEF Over, Held, Handled, Alive, EntryDue, Followed
  <2>4. Quietly(File(out, p), File(out', p))
    BY <1>1, <1>5, <2>1, QuietItself DEF Quiets, Tcb
  <2>5. LineGoes(p)
    <3>1. task'[p].calls >= task[p].calls
      <4>1. task[p].calls \in Nat /\ task'[p] = task[p]
        BY <1>2, <2>1 DEF NumberOf
      <4>. QED  BY <4>1
    <3>. QED  BY <1>2, <2>3, <3>1 DEF LineGoes
  <2>6. LineOK(p)'
    BY <1>2, <1>8, <2>1, <2>4, <2>5, LineKept
  <2>. QED  BY <1>2, <2>1, <2>6 DEF HandNumberOK
<1>9. \A q \in Pids \ {p} : Shown(out, q) => Shown(out', q)
  BY <1>3, <1>6, ShownKept DEF NoneFiltered, pid2tcb
<1>10. /\ DOMAIN task' = Pids
       /\ \A q \in Pids \ {p} : task'[q] = task[q] /\ Elsewhere(q) /\ Elsewhere(q)'
  BY <1>1, <1>2, <1>4 DEF Elsewhere, Handled, AtHand, Going
<1>11. /\ opt' = opt /\ (hide' => hide) /\ (pc' = "startup" => pc = "startup")
       /\ pc' \in {"restart", "dump"} => out'.current = tcp'
  BY <1>2
<1>. QED  BY <1>6, <1>7, <1>8, <1>9, <1>10, <1>11, OneLines

LEMMA SameNumbers ==
  ASSUME NumbersInv, task' = task
  PROVE  DOMAIN task' = Pids /\ \A q \in Pids : Numbers(q)
<1>1. DOMAIN task = Pids /\ \A q \in Pids : NumberOf(task[q])
  BY DEF NumbersInv
<1>2. ASSUME NEW q \in Pids PROVE Numbers(q)
  <2>1. PICK t : t = task[q] /\ task'[q] = t
    OBVIOUS
  <2>2. NumberOf(t) /\ t.calls \in Nat
    BY <1>1, <2>1 DEF NumberOf
  <2>3. Counts(t, t)
    BY <2>2 DEF Counts
  <2>. QED  BY <2>1, <2>2, <2>3 DEF Numbers
<1>. QED  BY <1>1, <1>2

LEMMA StartupLines ==
  ASSUME TracerInv, AllOK, LinesInv, opt.ff = TRUE, ~Leaving, NEW p \in Pids, Startup(p)
  PROVE  LinesInv'
<1>1. PICK t : t = task[p]
  OBVIOUS
<1>2. /\ pc = "startup" /\ pc' = "startup" /\ t.state = "run"
      /\ UNCHANGED <<opt, hide, tcp, status>> /\ StartTracing(p)
  BY <1>1 DEF Startup
<1>3. /\ DOMAIN task = Pids /\ IsTask(t) /\ NumberOf(t) /\ LineOK(p) /\ ~t.incall
      /\ HasFiles(out) /\ IsOutput(out) /\ File(out, p) \in FileSet
  BY <1>1, <1>2 DEF AllOK, ThreadOK, StateOK, StartOK, LinesInv, NumbersInv, TracerInv,
     HasFiles, Files
<1>4. PICK u : u = [t EXCEPT !.traced = TRUE, !.syscalls = TRUE,
                             !.state = IF seize THEN "stop" ELSE "run",
                             !.report = IF seize THEN "start" ELSE Nothing,
                             !.pending = IF seize THEN {} ELSE {"sigstop"}]
  OBVIOUS
<1>5. DOMAIN task' = Pids /\ task'[p] = u /\ \A q \in Pids \ {p} : task'[q] = task[q]
  BY <1>1, <1>2, <1>3, <1>4 DEF StartTracing
<1>6. /\ IsTask(u) /\ u.incall = t.incall /\ u.unseen = t.unseen /\ u.calls = t.calls
      /\ u.call = t.call
      /\ u.pending \subseteq {"sigstop"} /\ u.state \in {"run", "stop"}
      /\ u.report \in {"start", Nothing} /\ (u.state = "run" => u.report = Nothing)
  BY <1>3, <1>4 DEF IsTask
<1>7. NumberOf(u)
  BY <1>3, <1>6 DEF NumberOf, Nothing, Signals
<1>8. KeepsFiles(out, out')
  <2>1. PICK F : F = PostAttach \cup (IF opt.child THEN {"STRACE_CHILD"} ELSE {})
    OBVIOUS
  <2>2. "FILTERED" \notin F /\ out' = Attached(TRUE, out, p, F)
    BY <2>1 DEF Startup, PostAttach
  <2>3. PICK o : o = Attached(TRUE, out, p, F)
    OBVIOUS
  <2>4. KeepsFiles(out, o)
    BY <1>3, <2>2, <2>3, AttachFiles
  <2>. QED  BY <2>2, <2>3, <2>4
<1>9. Attaches(p) /\ \A q \in Pids \ {p} : SameFor(out, out', q)
  BY StartupAttaches, AttachesSame DEF TracerInv
<1>10. LineOK(p)'
  <2>1. ~Over(p) /\ ~EntryDue(p)' /\ ~Shown(out, p)
    BY <1>2, <1>3, <1>5, <1>6, <1>9 DEF Over, EntryDue, Shown, Attaches
  <2>2. task[p].calls = task'[p].calls /\ task[p].calls \in Nat
    BY <1>1, <1>3, <1>5, <1>6 DEF NumberOf
  <2>3. LineGoes(p)
    BY <1>2, <2>1, <2>2 DEF LineGoes
  <2>4. Quietly(File(out, p), File(out', p))
    BY <1>3, <1>8, QuietItself DEF KeepsFiles
  <2>. QED  BY <1>1, <1>3, <1>5, <1>6, <1>7, <2>3, <2>4, LineKept
<1>11. \A q \in Pids \ {p} : Shown(out, q) => Shown(out', q)
  BY <1>8, <1>9, ShownKept DEF KeepsFiles, NoneFiltered, pid2tcb
<1>12. /\ \A q \in Pids \ {p} : task'[q] = task[q] /\ Elsewhere(q) /\ Elsewhere(q)'
       /\ HandNumberOK(p)'
  BY <1>2, <1>5 DEF Elsewhere, Handled, AtHand, Going, HandNumberOK
<1>13. /\ HasFiles(out') /\ \A f \in Files \ {p} : File(out', f) = File(out, f)
       /\ File(out', 0) = File(out, 0)
  BY <1>8 DEF KeepsFiles
<1>14. /\ opt' = opt /\ (hide' => hide) /\ (pc' = "startup" => pc = "startup")
       /\ pc' \in {"restart", "dump"} => out'.current = tcp'
  BY <1>2
<1>15. p \in Pids => NumberOf(task'[p]) /\ LineOK(p)' /\ HandNumberOK(p)'
  BY <1>5, <1>7, <1>10, <1>12
<1>. QED  BY <1>5, <1>11, <1>12, <1>13, <1>14, <1>15, OneLines

LEMMA StartupEndsLines ==
  ASSUME TracerInv, AllOK, LinesInv, opt.ff = TRUE, ~Leaving, StartupEnds
  PROVE  LinesInv'
<1>1. /\ pc = "startup" /\ pc' = "wait" /\ UNCHANGED <<opt, out, task, hide>>
      /\ DOMAIN task' = Pids /\ HasFiles(out)
  BY DEF StartupEnds, kernelVars, AllOK, LinesInv
<1>2. \A q \in Pids \ {0} : task'[q] = task[q] /\ Elsewhere(q) /\ Elsewhere(q)'
  BY <1>1 DEF Elsewhere, Handled, AtHand, Going
<1>3. /\ HasFiles(out') /\ \A f \in Files \ {0} : File(out', f) = File(out, f)
      /\ File(out', 0) = File(out, 0)
      /\ \A q \in Pids \ {0} : Shown(out, q) => Shown(out', q)
  BY <1>1
<1>4. 0 \notin Pids
  BY PidsAssumption
<1>5. /\ opt' = opt /\ (hide' => hide) /\ (pc' = "startup" => pc = "startup")
      /\ pc' \in {"restart", "dump"} => out'.current = tcp'
  BY <1>1
<1>6. 0 \in Pids => NumberOf(task'[0]) /\ LineOK(0)' /\ HandNumberOK(0)'
  BY <1>4
<1>. QED  BY <1>1, <1>2, <1>3, <1>5, <1>6, OneLines

-----------------------------------------------------------------------------
(* strace exits                                                              *)

\* What strace does at its end leaves the files as they are, but for their last lines.
LEMMA LeavesLines ==
  ASSUME LinesInv, opt.ff = TRUE, Leaving', UNCHANGED opt,
         pc' \notin {"restart", "dump"}, HasFiles(out'), File(out', 0) = File(out, 0),
         DOMAIN task' = Pids, \A q \in Pids : Numbers(q),
         \A q \in Pids : Quietly(File(out, q), File(out', q))
  PROVE  LinesInv'
<1>1. out.log[Shared] = << >> /\ \A q \in Pids : LineOK(q)
  BY DEF LinesInv
<1>2. NumbersInv'
  BY DEF NumbersInv, Numbers
<1>3. out'.log[Shared] = << >>
  BY <1>1 DEF File, Shared
<1>4. ASSUME NEW q \in Pids PROVE LineOK(q)'
  <2>1. /\ Raises(File(out, q)) => Raises(File(out', q))
        /\ Aligned(File(out, q)) => Aligned(File(out', q))
    BY QuietKeeps
  <2>2. task[q].unseen => task'[q].unseen
    BY DEF Numbers, Counts
  <2>. QED  BY <1>1, <2>1, <2>2 DEF LineOK
<1>. QED  BY <1>2, <1>3, <1>4 DEF LinesInv

LEMMA ExitLines ==
  ASSUME LinesInv, opt.ff = TRUE, LoopEnds \/ WaitFindsNone \/ CleanupEnds
  PROVE  LinesInv'
<1>1. /\ UNCHANGED <<opt, out, task>> /\ pc' \in {"cleanup", "done"} /\ NumbersInv
      /\ HasFiles(out)
  BY DEF LoopEnds, WaitFindsNone, CleanupEnds, kernelVars, LinesInv
<1>2. DOMAIN task' = Pids /\ \A q \in Pids : Numbers(q)
  BY <1>1, SameNumbers
<1>3. \A q \in Pids : Quietly(File(out, q), File(out', q))
  BY <1>1, QuietItself DEF HasFiles, Files
<1>4. Leaving' /\ pc' \notin {"restart", "dump"}
  BY <1>1 DEF Leaving
<1>5. HasFiles(out') /\ File(out', 0) = File(out, 0)
  BY <1>1
<1>. QED  BY <1>1, <1>2, <1>3, <1>4, <1>5, LeavesLines

LEMMA CleanupNumbers ==
  ASSUME TracerInv, NumbersInv, Cleanup
  PROVE  DOMAIN task' = Pids /\ \A q \in Pids : Numbers(q)
<1>1. CASE task' = task
  BY <1>1, SameNumbers
<1>2. CASE task' # task
  <2>1. PICK p : /\ p = Tcb.pid /\ InUse(out, tcp) /\ Alive(p)
                 /\ task' = [task EXCEPT ![p].pending = (@ \ {"sigstop"}) \cup {"fatal"}]
    BY <1>2 DEF Cleanup
  <2>2. p \in Pids
    <3>1. PICK n \in Nat : n >= FirstSize /\ IsBlocks(out.tcbtab, n)
      BY DEF TracerInv, IsOutput
    <3>2. DOMAIN out.tcbtab = 1..n /\ Len(out.tcbtab) = n
      BY <3>1, BlocksAreSeq
    <3>3. tcp # 0 /\ TcpOK /\ tcp <= n
      BY <3>2 DEF TracerInv, PlaceOK, Cleanup
    <3>4. \A a \in Nat : a # 0 /\ a <= n => a \in 1..n
      OBVIOUS
    <3>5. tcp \in DOMAIN out.tcbtab
      BY <3>2, <3>3, <3>4 DEF TcpOK
    <3>. QED  BY <2>1, <3>5, BlockOf DEF TracerInv, IsTcb, InUse, Tcb
  <2>3. PICK t : t = task[p]
    OBVIOUS
  <2>4. NumberOf(t) /\ IsTask(t) /\ DOMAIN task = Pids /\ t.state \in {"run", "stop"}
    BY <2>1, <2>2, <2>3 DEF NumbersInv, NumberOf, Alive
  <2>5. PICK u : u = [t EXCEPT !.pending = (t.pending \ {"sigstop"}) \cup {"fatal"}]
    OBVIOUS
  <2>6. task' = [task EXCEPT ![p] = u]
    BY <2>1, <2>2, <2>3, <2>4, <2>5
  <2>7. /\ IsTask(u) /\ u.pending = (t.pending \ {"sigstop"}) \cup {"fatal"}
        /\ u.report = t.report /\ u.state = t.state /\ u.call = t.call /\ u.calls = t.calls
        /\ u.unseen = t.unseen /\ u.incall = t.incall /\ u.kind = t.kind
    BY <2>4, <2>5 DEF IsTask
  <2>8. Calls(t, u)
    BY <2>4, <2>7 DEF Calls, NumberOf
  <2>. QED  BY <2>2, <2>3, <2>6, <2>8, OneNumbered
<1>. QED  BY <1>1, <1>2

LEMMA CleanupLines ==
  ASSUME TracerInv, LinesInv, opt.ff = TRUE, Cleanup
  PROVE  LinesInv'
<1>1. /\ UNCHANGED <<opt, out>> /\ NumbersInv /\ HasFiles(out)
      /\ pc' = "cleanup" \/ (pc' = "detach" /\ detaching' = "cleanup")
  BY DEF Cleanup, LinesInv
<1>2. DOMAIN task' = Pids /\ \A q \in Pids : Numbers(q)
  BY <1>1, CleanupNumbers
<1>3. \A q \in Pids : Quietly(File(out, q), File(out', q))
  BY <1>1, QuietItself DEF HasFiles, Files
<1>4. Leaving' /\ pc' \notin {"restart", "dump"}
  BY <1>1 DEF Leaving
<1>5. HasFiles(out') /\ File(out', 0) = File(out, 0)
  BY <1>1
<1>. QED  BY <1>1, <1>2, <1>3, <1>4, <1>5, LeavesLines

-----------------------------------------------------------------------------
(* strace detaches                                                           *)

\* The thread runs again, and is traced no more or still is.
LEMMA RunningCalls ==
  ASSUME NEW t, NumberOf(t), NEW u, IsTask(u), u.call = t.call, u.calls = t.calls,
         u.pending = t.pending, u.state = "run", u.report = Nothing, t.unseen => u.unseen
  PROVE  Calls(t, u)
  BY DEF Calls, NumberOf, Nothing, Signals

\* What detach does to the thread: it goes on, or keeps its place, or is gone.
Off(p) ==
    /\ DOMAIN task' = Pids /\ (\A q \in Pids \ {p} : task'[q] = task[q])
    /\ \/ task'[p].state = "run" /\ ~task'[p].traced
       \/ task'[p].state = "gone"

LEMMA DetachedNumbers ==
  ASSUME NumbersInv, NEW p \in Pids, task' = Detached(p)
  PROVE  Off(p) /\ DOMAIN task' = Pids /\ \A q \in Pids : Numbers(q)
<1>1. PICK t : t = task[p]
  OBVIOUS
<1>2. NumberOf(t) /\ IsTask(t) /\ DOMAIN task = Pids
  BY <1>1 DEF NumbersInv, NumberOf
<1>3. PICK u : u = [t EXCEPT !.state = "run", !.syscalls = FALSE, !.traced = FALSE,
                             !.report = Nothing,
                             !.unseen = t.unseen \/ t.report = "execve"]
  OBVIOUS
<1>4. task' = [task EXCEPT ![p] = u]
  BY <1>1, <1>2, <1>3 DEF Detached
<1>5. /\ IsTask(u) /\ u.call = t.call /\ u.calls = t.calls /\ u.pending = t.pending
      /\ u.report = Nothing /\ u.state = "run" /\ u.traced = FALSE
      /\ u.unseen = (t.unseen \/ t.report = "execve")
  BY <1>2, <1>3 DEF IsTask
<1>6. Calls(t, u)
  BY <1>2, <1>5, RunningCalls
<1>7. DOMAIN task' = Pids /\ \A q \in Pids : Numbers(q)
  BY <1>1, <1>4, <1>6, OneNumbered
<1>8. Off(p)
  BY <1>2, <1>4, <1>5 DEF Off
<1>. QED  BY <1>7, <1>8

LEMMA RestartedNumbers ==
  ASSUME NumbersInv, NEW p \in Pids, task' = Restarted(p, FALSE)
  PROVE  /\ DOMAIN task' = Pids /\ \A q \in Pids : Numbers(q)
         /\ \A q \in Pids \ {p} : task'[q] = task[q]
         /\ task[p].report = "execve" => task'[p].unseen
<1>1. PICK t : t = task[p]
  OBVIOUS
<1>2. NumberOf(t) /\ IsTask(t) /\ DOMAIN task = Pids
  BY <1>1 DEF NumbersInv, NumberOf
<1>3. PICK u : u = [t EXCEPT !.state = "run", !.syscalls = FALSE, !.report = Nothing,
                             !.unseen = t.unseen \/ t.report = "execve"]
  OBVIOUS
<1>4. task' = [task EXCEPT ![p] = u]
  BY <1>1, <1>2, <1>3 DEF Restarted
<1>5. /\ IsTask(u) /\ u.call = t.call /\ u.calls = t.calls /\ u.pending = t.pending
      /\ u.report = Nothing /\ u.state = "run"
      /\ u.unseen = (t.unseen \/ t.report = "execve")
  BY <1>2, <1>3 DEF IsTask
<1>6. Calls(t, u)
  BY <1>2, <1>5, RunningCalls
<1>7. DOMAIN task' = Pids /\ \A q \in Pids : Numbers(q)
  BY <1>1, <1>4, <1>6, OneNumbered
<1>8. /\ \A q \in Pids \ {p} : task'[q] = task[q]
      /\ task[p].report = "execve" => task'[p].unseen
  BY <1>1, <1>2, <1>4, <1>5
<1>. QED  BY <1>7, <1>8

LEMMA ReapedNumbers ==
  ASSUME NumbersInv, NEW p \in Pids, task' = Reaped(p), task[p].report \in Ended
  PROVE  /\ DOMAIN task' = Pids /\ \A q \in Pids : Numbers(q)
         /\ task[p].state \in {"dead", "gone"} => Off(p)
<1>1. PICK t : t = task[p]
  OBVIOUS
<1>2. NumberOf(t) /\ IsTask(t) /\ DOMAIN task = Pids
  BY <1>1 DEF NumbersInv, NumberOf
<1>3. PICK u : u = [t EXCEPT !.report = Nothing,
                             !.state = IF t.state = "dead" THEN "gone" ELSE t.state]
  OBVIOUS
<1>4. task' = [task EXCEPT ![p] = u]
  BY <1>1, <1>2, <1>3 DEF Reaped
<1>5. /\ IsTask(u) /\ u.call = t.call /\ u.calls = t.calls /\ u.pending = t.pending
      /\ u.report = Nothing /\ u.unseen = t.unseen
      /\ u.state = IF t.state = "dead" THEN "gone" ELSE t.state
  BY <1>2, <1>3 DEF IsTask
<1>6. t.state # "free"
  <2>1. t.report # Nothing
    BY <1>1 DEF Ended, Nothing
  <2>. QED  BY <1>2, <2>1 DEF NumberOf, FreeTask
<1>7. Calls(t, u)
  BY <1>2, <1>5, <1>6 DEF Calls, NumberOf, Nothing, Signals
<1>8. DOMAIN task' = Pids /\ \A q \in Pids : Numbers(q)
  BY <1>1, <1>4, <1>7, OneNumbered
<1>9. task[p].state \in {"dead", "gone"} => Off(p)
  BY <1>1, <1>2, <1>4, <1>5 DEF Off
<1>. QED  BY <1>8, <1>9

\* From t to u only the signals that are pending differ.
LEMMA RunningNumbers ==
  ASSUME NumbersInv, NEW p \in Pids, p = Tcb.pid, DetachRunning
  PROVE  /\ DOMAIN task' = Pids /\ \A q \in Pids : Numbers(q)
         /\ \A q \in Pids \ {p} : task'[q] = task[q]
         /\ task'[p].state = task[p].state /\ task'[p].report = task[p].report
         /\ task'[p].traced = task[p].traced /\ task'[p].oldpid = task[p].oldpid
<1>1. PICK t : t = task[p]
  OBVIOUS
<1>2. NumberOf(t) /\ IsTask(t) /\ DOMAIN task = Pids /\ t.state \in {"run", "dead"}
  BY <1>1 DEF NumbersInv, NumberOf, DetachRunning
<1>3. CASE task' = task
  BY <1>3, SameNumbers
<1>4. CASE task' # task
  <2>1. task' = [task EXCEPT ![p].pending = @ \cup {"sigstop"}]
    BY <1>4 DEF DetachRunning
  <2>2. PICK u : u = [t EXCEPT !.pending = t.pending \cup {"sigstop"}]
    OBVIOUS
  <2>3. task' = [task EXCEPT ![p] = u]
    BY <1>1, <1>2, <2>1, <2>2
  <2>4. /\ IsTask(u) /\ u.pending = t.pending \cup {"sigstop"}
        /\ u.report = t.report /\ u.state = t.state /\ u.call = t.call /\ u.calls = t.calls
        /\ u.unseen = t.unseen /\ u.incall = t.incall /\ u.kind = t.kind
        /\ u.traced = t.traced /\ u.oldpid = t.oldpid
    BY <1>2, <2>2 DEF IsTask
  <2>5. Calls(t, u)
    BY <1>2, <2>4 DEF Calls, NumberOf
  <2>6. DOMAIN task' = Pids /\ \A q \in Pids : Numbers(q)
    BY <1>1, <2>3, <2>5, OneNumbered
  <2>. QED  BY <1>1, <1>2, <2>3, <2>4, <2>6
<1>. QED  BY <1>3, <1>4

\* The files when detach ends.
LEMMA DetachEndsFiles ==
  ASSUME TracerInv, HasFiles(out), pc \in {"detach", "detach_wait"}, DetachEnds(out),
         opt.ff = TRUE, NEW p, p = Tcb.pid
  PROVE  /\ p \in Pids /\ QuietFile(out, out', p) /\ NoneFiltered(out, out')
         /\ detaching = "trace" => out'.current = tcp
<1>1. tcp \in DOMAIN out.tcbtab /\ p # 0 /\ IsOutput(out)
  BY DEF TracerInv, PlaceOK
<1>2. InFiles(out, tcp) /\ out.tcbtab[tcp].pid = p
  BY <1>1 DEF InFiles, Tcb
<1>3. p \in Pids
  BY <1>2, FileIs
<1>4. PICK d : d = droptcb(TRUE, out, tcp)
  OBVIOUS
<1>5. QuietFile(out, d, p) /\ NoneFiltered(out, d)
  BY <1>2, <1>4, DropQuiet
<1>6. IsOutput(d)
  BY <1>1, <1>2, <1>4, DroptcbDrops DEF Drops
<1>8. /\ SameFiles(d, out') /\ out'.tcbtab = d.tcbtab
      /\ detaching = "trace" => out'.current = tcp
  BY <1>4, <1>6 DEF DetachEnds, IsOutput, Fields, SameFiles
<1>9. \A f : File(out', f) = File(d, f)
  BY <1>8 DEF SameFiles, File
<1>10. QuietFile(out, out', p) /\ NoneFiltered(out, out')
  BY <1>5, <1>8, <1>9 DEF QuietFile, HasFiles, SameFiles, NoneFiltered
<1>. QED  BY <1>3, <1>8, <1>10

LEMMA OffLines ==
  ASSUME TracerInv, AllOK, LinesInv, opt.ff = TRUE, ~Leaving, ~Leaving',
         pc \in {"detach", "detach_wait"}, DetachEnds(out), NEW p, p = Tcb.pid, Off(p),
         \A q \in Pids : Numbers(q)
  PROVE  LinesInv'
<1>1. /\ detaching = "trace" /\ pc' = "restart" /\ tcp' = tcp /\ UNCHANGED <<opt, hide>>
  BY DEF DetachEnds, Leaving
<1>2. p \in Pids /\ ThreadOK(p) /\ task[p].state # "free" /\ \A q \in Pids \ {p} : Elsewhere(q)
  BY GoingFacts
<1>3. HasFiles(out) /\ NumberOf(task[p]) /\ LineOK(p) /\ IsOutput(out)
  BY <1>2 DEF LinesInv, NumbersInv, TracerInv
<1>4. QuietFile(out, out', p) /\ NoneFiltered(out, out') /\ out'.current = tcp
  BY <1>1, <1>3, DetachEndsFiles
<1>5. Drops(out, out', tcp)
  BY DetachEndsStep
<1>6. \A q \in Pids \ {p} : SameFor(out, out', q)
  BY <1>3, <1>5, DropsSame, PidsAssumption DEF Tcb
<1>7. Tcb'.pid = 0
  <2>1. tcp \in DOMAIN out.tcbtab
    BY DEF TracerInv, PlaceOK
  <2>. QED  BY <1>1, <1>5, <2>1 DEF Drops, Tcb
<1>8. \A q \in Pids \ {p} : Elsewhere(q)'
  BY <1>1, <1>7, PidsAssumption DEF Elsewhere, Handled, AtHand, Going
<1>9. \A q \in Pids \ {p} : Shown(out, q) => Shown(out', q)
  BY <1>4, <1>6, ShownKept DEF NoneFiltered, pid2tcb
<1>10. LineOK(p)'
  <2>1. Over(p)' /\ ~EntryDue(p)'
    BY <1>1 DEF Off, Over, Handled, Alive, EntryDue, Followed
  <2>2. NumberOf(task'[p]) /\ task'[p].calls >= task[p].calls
        /\ (task[p].unseen => task'[p].unseen)
    BY <1>2 DEF Numbers, Counts
  <2>3. LineGoes(p)
    BY <1>1, <2>1, <2>2 DEF LineGoes
  <2>4. Quietly(File(out, p), File(out', p))
    BY <1>4 DEF QuietFile
  <2>. QED  BY <1>2, <1>3, <2>2, <2>3, <2>4, LineKept
<1>11. p \in Pids => NumberOf(task'[p]) /\ LineOK(p)' /\ HandNumberOK(p)'
  BY <1>1, <1>10 DEF Numbers, HandNumberOK
<1>12. /\ DOMAIN task' = Pids
       /\ \A q \in Pids \ {p} : task'[q] = task[q] /\ Elsewhere(q) /\ Elsewhere(q)'
       /\ HasFiles(out') /\ \A f \in Files \ {p} : File(out', f) = File(out, f)
       /\ File(out', 0) = File(out, 0)
  <2>1. 0 \in Files \ {p}
    BY <1>2, PidsAssumption DEF Files, Shared
  <2>. QED  BY <1>2, <1>4, <1>8, <2>1 DEF Off, QuietFile
<1>13. /\ opt' = opt /\ (hide' => hide) /\ (pc' = "startup" => pc = "startup")
       /\ pc' \in {"restart", "dump"} => out'.current = tcp'
  BY <1>1, <1>4
<1>. QED  BY <1>9, <1>11, <1>12, <1>13, OneLines

\* strace waits for the thread that it detaches from.
LEMMA StillGoingLines ==
  ASSUME TracerInv, AllOK, LinesInv, opt.ff = TRUE, ~Leaving,
         pc \in {"detach", "detach_wait"}, pc' = "detach_wait",
         UNCHANGED <<opt, out, tcp, status, hide>>, NEW p, p = Tcb.pid,
         DOMAIN task' = Pids, \A q \in Pids : Numbers(q),
         \A q \in Pids \ {p} : task'[q] = task[q],
         task'[p].unseen \/ (Over(p) => Over(p)')
  PROVE  LinesInv'
<1>1. p \in Pids /\ \A q \in Pids \ {p} : Elsewhere(q)
  BY GoingFacts
<1>2. HasFiles(out) /\ NumberOf(task[p]) /\ LineOK(p) /\ File(out, p) \in FileSet
  BY <1>1 DEF LinesInv, NumbersInv, HasFiles, Files
<1>3. \A q \in Pids \ {p} : Elsewhere(q)'
  BY <1>1 DEF Elsewhere, Handled, AtHand, Going, Tcb
<1>4. LineOK(p)'
  <2>1. CASE task'[p].unseen
    BY <2>1 DEF LineOK
  <2>2. CASE Over(p) => Over(p)'
    <3>1. ~EntryDue(p)'
      BY DEF EntryDue, Followed, Going, Tcb
    <3>2. NumberOf(task'[p]) /\ task'[p].calls >= task[p].calls
          /\ (task[p].unseen => task'[p].unseen)
      BY <1>1 DEF Numbers, Counts
    <3>3. LineGoes(p)
      BY <2>2, <3>1, <3>2 DEF LineGoes
    <3>4. Quietly(File(out, p), File(out', p))
      BY <1>2, QuietItself
    <3>. QED  BY <1>1, <1>2, <3>2, <3>3, <3>4, LineKept
  <2>. QED  BY <2>1, <2>2
<1>5. p \in Pids => NumberOf(task'[p]) /\ LineOK(p)' /\ HandNumberOK(p)'
  BY <1>4 DEF Numbers, HandNumberOK
<1>6. /\ \A q \in Pids \ {p} : task'[q] = task[q] /\ Elsewhere(q) /\ Elsewhere(q)'
      /\ HasFiles(out') /\ \A f \in Files \ {p} : File(out', f) = File(out, f)
      /\ File(out', 0) = File(out, 0)
      /\ \A q \in Pids \ {p} : Shown(out, q) => Shown(out', q)
  BY <1>1, <1>2, <1>3
<1>7. /\ opt' = opt /\ (hide' => hide) /\ (pc' = "startup" => pc = "startup")
      /\ pc' \in {"restart", "dump"} => out'.current = tcp'
  OBVIOUS
<1>. QED  BY <1>5, <1>6, <1>7, OneLines

\* Threads go on by themselves.
LEMMA MovesLines ==
  ASSUME AllOK, LinesInv, opt.ff = TRUE, ~Leaving, UNCHANGED straceVars,
         DOMAIN task' = Pids, \A q \in Pids : Moves(q) /\ Numbers(q)
  PROVE  LinesInv'
<1>1. /\ UNCHANGED <<opt, out, pc, tcp>> /\ ~Leaving'
  BY DEF straceVars, Leaving
<1>2. ASSUME NEW q \in Pids PROVE LineOK(q)' /\ HandNumberOK(q)'
  <2>1. ThreadOK(q) /\ NumberOf(task[q]) /\ LineOK(q) /\ HandNumberOK(q) /\ HasFiles(out)
    BY DEF AllOK, LinesInv, NumbersInv
  <2>. QED  BY <2>1, MovesLine, MovesHand
<1>3. NumbersInv'
  BY DEF NumbersInv, Numbers
<1>4. /\ HasFiles(out') /\ out'.log[Shared] = << >>
      /\ pc' \in {"restart", "dump"} => out'.current = tcp'
  BY <1>1 DEF LinesInv
<1>. QED  BY <1>2, <1>3, <1>4 DEF LinesInv

LEMMA DetachLines ==
  ASSUME TracerInv, AllOK, BlocksInv, LinesInv, opt.ff = TRUE, ~Leaving, ~Leaving', Detach
  PROVE  LinesInv'
<1>1. PICK p : p = Tcb.pid
  OBVIOUS
<1>2. pc \in {"detach", "detach_wait"}
  BY DEF Detach, DetachStopped, DetachRunning, DetachGone, DetachWait, DetachNoChild
<1>3. /\ p \in Pids /\ DOMAIN task = Pids /\ ThreadOK(p) /\ NumbersInv /\ TableOK(p)
  BY <1>1, <1>2, GoingFacts DEF LinesInv, BlocksInv
<1>4. ASSUME task' = Detached(p), DetachEnds(out) PROVE LinesInv'
  BY <1>1, <1>2, <1>3, <1>4, DetachedNumbers, OffLines
<1>5. ASSUME task' = task, task[p].state = "gone", DetachEnds(out) PROVE LinesInv'
  <2>1. DOMAIN task' = Pids /\ \A q \in Pids : Numbers(q)
    BY <1>3, <1>5, SameNumbers
  <2>2. Off(p)
    BY <1>3, <1>5 DEF Off
  <2>. QED  BY <1>1, <1>2, <1>5, <2>1, <2>2, OffLines
<1>6. CASE DetachStopped
  BY <1>1, <1>4, <1>6 DEF DetachStopped
<1>7. CASE DetachGone \/ DetachNoChild
  BY <1>1, <1>5, <1>7 DEF DetachGone, DetachNoChild
<1>8. CASE DetachRunning
  <2>1. /\ DOMAIN task' = Pids /\ \A q \in Pids : Numbers(q)
        /\ \A q \in Pids \ {p} : task'[q] = task[q]
        /\ task'[p].state = task[p].state /\ task'[p].report = task[p].report
        /\ task'[p].traced = task[p].traced /\ task'[p].oldpid = task[p].oldpid
    BY <1>1, <1>3, <1>8, RunningNumbers
  <2>2. pc' = "detach_wait" /\ UNCHANGED <<opt, out, tcp, status, hide>>
    BY <1>8 DEF DetachRunning
  <2>3. Over(p) => Over(p)'
    BY <1>2, <2>1, <2>2 DEF Over, Handled, Alive
  <2>. QED  BY <1>1, <1>2, <2>1, <2>2, <2>3, StillGoingLines
<1>9. CASE DetachWait
  <2>1. PICK t : t = task[p]
    OBVIOUS
  <2>2. t.traced /\ t.report # Nothing /\ pc = "detach_wait"
    BY <1>1, <1>9, <2>1 DEF DetachWait, Waitable
  <2>3. CASE t.report \in Ended
    <3>1. task' = Reaped(p) /\ DetachEnds(out)
      BY <1>1, <1>9, <2>1, <2>3 DEF DetachWait, Ended
    <3>2. t.state \in {"dead", "gone"}
      BY <1>3, <2>1, <2>3 DEF ThreadOK, StateOK
    <3>3. Off(p) /\ \A q \in Pids : Numbers(q)
      BY <1>3, <2>1, <2>3, <3>1, <3>2, ReapedNumbers
    <3>. QED  BY <1>1, <1>2, <3>1, <3>3, OffLines
  <2>4. CASE t.report = "sigstop"
    BY <1>1, <1>4, <1>9, <2>1, <2>4 DEF DetachWait, Ended
  <2>5. CASE t.report = "fatal"
    <3>1. task' = EndGroup(p, "killed") /\ UNCHANGED straceVars
      BY <1>1, <1>9, <2>1, <2>5 DEF DetachWait, Ended, straceVars
    <3>2. DOMAIN task' = Pids
      BY <1>3, <3>1 DEF EndGroup
    <3>3. \A q \in Pids : Moves(q)
      BY <1>3, <3>1, EndGroupMoves DEF Ended
    <3>4. \A q \in Pids : Numbers(q)
      BY <1>3, <3>1, EndGroupNumbered DEF Ended
    <3>. QED  BY <3>1, <3>2, <3>3, <3>4, MovesLines
  <2>6. CASE t.report \notin Ended \cup {"sigstop", "fatal"}
    <3>1. /\ task' = Restarted(p, FALSE) /\ pc' = "detach_wait"
          /\ UNCHANGED <<opt, out, tcp, status, hide>>
      BY <1>1, <1>9, <2>1, <2>2, <2>6 DEF DetachWait
    <3>2. /\ DOMAIN task' = Pids /\ \A q \in Pids : Numbers(q)
          /\ \A q \in Pids \ {p} : task'[q] = task[q]
          /\ task[p].report = "execve" => task'[p].unseen
      BY <1>3, <3>1, RestartedNumbers
    <3>3. t.report # "execve" => ~Over(p)
      BY <1>3, <2>1, <2>2, <2>6 DEF Over, Handled, Alive, TableOK, DeadOK, ThreadOK, StateOK
    <3>4. task'[p].unseen \/ (Over(p) => Over(p)')
      BY <2>1, <3>2, <3>3
    <3>. QED  BY <1>1, <1>2, <3>1, <3>2, <3>4, StillGoingLines
  <2>. QED  BY <2>3, <2>4, <2>5, <2>6
<1>. QED  BY <1>6, <1>7, <1>8, <1>9 DEF Detach

-----------------------------------------------------------------------------
(* Every step                                                                *)

LEMMA DetachLeavesLines ==
  ASSUME TracerInv, LinesInv, opt.ff = TRUE, Leaving', Detach
  PROVE  LinesInv'
<1>1. PICK p : p = Tcb.pid
  OBVIOUS
<1>2. pc \in {"detach", "detach_wait"} /\ opt' = opt /\ pc' \notin {"restart", "dump"}
  BY DEF Detach, DetachStopped, DetachRunning, DetachGone, DetachWait, DetachNoChild,
     DetachEnds, Leaving
<1>3. p \in Pids
  BY <1>1, <1>2, GoingKnown DEF Going
<1>4. NumbersInv /\ HasFiles(out)
  BY DEF LinesInv
<1>5. DOMAIN task' = Pids /\ \A q \in Pids : Numbers(q)
  <2>1. CASE DetachStopped
    BY <1>1, <1>3, <1>4, <2>1, DetachedNumbers DEF DetachStopped
  <2>2. CASE DetachRunning
    BY <1>1, <1>3, <1>4, <2>2, RunningNumbers
  <2>3. CASE DetachGone \/ DetachNoChild
    BY <1>4, <2>3, SameNumbers DEF DetachGone, DetachNoChild
  <2>4. CASE DetachWait
    <3>1. CASE task[p].report \in Ended /\ task' = Reaped(p)
      BY <1>3, <1>4, <3>1, ReapedNumbers
    <3>2. CASE task' = Detached(p)
      BY <1>3, <1>4, <3>2, DetachedNumbers
    <3>3. CASE task' = EndGroup(p, "killed")
      <4>1. DOMAIN task' = Pids
        BY <1>4, <3>3 DEF EndGroup, NumbersInv
      <4>. QED  BY <1>3, <1>4, <3>3, <4>1, EndGroupNumbered DEF Ended
    <3>4. CASE task' = Restarted(p, FALSE)
      BY <1>3, <1>4, <3>4, RestartedNumbers
    <3>. QED  BY <1>1, <2>4, <3>1, <3>2, <3>3, <3>4 DEF DetachWait
  <2>. QED  BY <2>1, <2>2, <2>3, <2>4 DEF Detach
<1>6. QuietFile(out, out', p)
  <2>1. CASE DetachEnds(out)
    BY <1>1, <1>2, <1>4, <2>1, DetachEndsFiles
  <2>2. CASE out' = out
    BY <1>3, <1>4, <2>2, QuietItself DEF QuietFile, HasFiles, Files
  <2>. QED  BY <2>1, <2>2 DEF Detach, DetachStopped, DetachRunning, DetachGone, DetachWait,
            DetachNoChild
<1>7. \A q \in Pids : Quietly(File(out, q), File(out', q))
  BY <1>4, <1>6, QuietItself DEF QuietFile, HasFiles, Files
<1>8. HasFiles(out') /\ File(out', 0) = File(out, 0)
  BY <1>3, <1>6, PidsAssumption DEF QuietFile, Files, Shared
<1>. QED  BY <1>2, <1>5, <1>7, <1>8, LeavesLines

LEMMA ThreadsLines ==
  ASSUME LinesInv, opt.ff = TRUE, Leaving \/ AllOK, Threads
  PROVE  LinesInv'
<1>1. UNCHANGED straceVars /\ KernelStep /\ NumbersInv /\ HasFiles(out)
  BY DEF Threads, LinesInv
<1>2. DOMAIN task' = Pids /\ \A q \in Pids : Numbers(q)
  BY <1>1, KernelNumbered
<1>3. CASE Leaving
  <2>1. Leaving' /\ UNCHANGED <<opt, out>> /\ pc' \notin {"restart", "dump"}
    BY <1>1, <1>3 DEF Leaving, straceVars
  <2>2. \A q \in Pids : Quietly(File(out, q), File(out', q))
    BY <1>1, <2>1, QuietItself DEF HasFiles, Files
  <2>3. HasFiles(out') /\ File(out', 0) = File(out, 0)
    BY <1>1, <2>1
  <2>. QED  BY <1>2, <2>1, <2>2, <2>3, LeavesLines
<1>4. CASE AllOK /\ ~Leaving
  <2>1. \A q \in Pids : Moves(q)
    BY <1>1, <1>4, KernelMoves
  <2>. QED  BY <1>1, <1>2, <1>4, <2>1, MovesLines
<1>. QED  BY <1>3, <1>4

LEMMA SameLines ==
  ASSUME LinesInv, UNCHANGED <<opt, out, pc, tcp, status, task, hide, detaching>>
  PROVE  LinesInv'
  BY DEF LinesInv, NumbersInv, LineOK, LinesRight, HandNumberOK, EntryDue, Over, Followed,
     Due, AtHand, Handled, Going, Tcb, Alive, Stopped, Leaving

LEMMA LinesStep ==
  ASSUME TracerInv, SyncInv, BlocksInv, LinesInv, [Next]_tracerVars
  PROVE  LinesInv'
<1>1. opt' = opt
  BY DEF Next, StraceStep, Startup, StartupEnds, LoopEnds, WaitFindsNone, Wait, Handle,
     HandleEnd, HandleEvent, HandleExecve, HandleSignal, HandleInterrupted, EnterUnreadable,
     EnterSilently, Enter, Dump, DumpAborts, ExitUnreadable, Leave, Goes, RestartTracee,
     Cleanup, CleanupEnds, Detach, DetachStopped, DetachRunning, DetachGone, DetachWait,
     DetachNoChild, DetachEnds, Interrupt, Threads, tracerVars, straceVars
<1>2. opt.ff \in BOOLEAN
  BY ScenariosAssumption DEF TracerInv, PlaceOK
<1>3. CASE opt.ff = FALSE
  BY <1>1, <1>3 DEF LinesInv
<1>4. SUFFICES ASSUME opt.ff = TRUE PROVE LinesInv'
  BY <1>2, <1>3
<1>5. CASE Cleanup
  BY <1>4, <1>5, CleanupLines
<1>6. CASE LoopEnds \/ WaitFindsNone \/ CleanupEnds
  BY <1>4, <1>6, ExitLines
<1>7. CASE Threads
  BY <1>4, <1>7, ThreadsLines DEF SyncInv
<1>8. CASE Interrupt \/ UNCHANGED tracerVars
  <2>1. UNCHANGED <<opt, out, pc, tcp, status, task, hide, detaching>>
    BY <1>8 DEF Interrupt, tracerVars, straceVars, kernelVars
  <2>. QED  BY <2>1, SameLines
<1>9. CASE Detach
  <2>1. CASE Leaving'
    BY <1>4, <1>9, <2>1, DetachLeavesLines
  <2>2. CASE ~Leaving'
    <3>1. ~Leaving /\ AllOK
      BY <2>2, StillLeaving DEF SyncInv
    <3>. QED  BY <1>4, <1>9, <2>2, <3>1, DetachLines
  <2>. QED  BY <2>1, <2>2
<1>10. CASE Handle \/ RestartTracee \/ StartupEnds \/ \E p \in Pids : Startup(p) \/ Wait(p)
  <2>1. ~Leaving
    <3>1. ~Handle \/ ~Leaving
      BY DEF Leaving, Handle, HandleEnd, HandleEvent, HandleExecve, HandleSignal,
         HandleInterrupted, EnterUnreadable, EnterSilently, Enter, Dump, DumpAborts,
         ExitUnreadable, Leave, Entering, Exiting, Handling
    <3>. QED  BY <1>10, <3>1 DEF Leaving, RestartTracee, StartupEnds, Startup, Wait
  <2>2. AllOK
    BY <2>1 DEF SyncInv
  <2>3. CASE Handle
    BY <1>4, <2>1, <2>2, <2>3, HandleLines
  <2>4. CASE RestartTracee
    BY <1>4, <2>1, <2>2, <2>4, RestartedLines, NotRestartedLines
  <2>5. CASE StartupEnds
    BY <1>4, <2>1, <2>2, <2>5, StartupEndsLines
  <2>6. ASSUME NEW p \in Pids, Startup(p) PROVE LinesInv'
    BY <1>4, <2>1, <2>2, <2>6, StartupLines
  <2>7. ASSUME NEW p \in Pids, Wait(p) PROVE LinesInv'
    BY <1>4, <2>1, <2>2, <2>7, WaitLines
  <2>. QED  BY <1>10, <2>3, <2>4, <2>5, <2>6, <2>7
<1>. QED  BY <1>5, <1>6, <1>7, <1>8, <1>9, <1>10 DEF Next, StraceStep

LEMMA EmptyFile ==
  ASSUME NEW x, x = [log |-> << >>, line |-> NoLine, stack |-> << >>, dump |-> << >>]
  PROVE  x \in FileSet /\ Aligned(x) /\ Exact(x) /\ \A n : Within(x, n)
<1>1. /\ x.log = << >> /\ x.line = NoLine /\ x.stack = << >> /\ x.dump = << >>
      /\ Len(x.log) = 0 /\ DOMAIN x.log = {} /\ DOMAIN x.stack = {} /\ DOMAIN x.dump = {}
  OBVIOUS
<1>2. x \in FileSet
  BY NoLineIs DEF FileSet
<1>3. CallsTo(x, 0) = {} /\ WritesTo(x, 0) = {}
  BY DEF CallsTo, WritesTo
<1>4. Exact(x)
  <2>1. Cardinality(CallsTo(x, Len(x.log))) = 0 /\ Cardinality(WritesTo(x, Len(x.log))) = 0
    BY <1>1, <1>3, FS_EmptySet
  <2>. QED  BY <1>1, <2>1, NoLineIs DEF Exact, Counted
<1>5. Aligned(x) /\ \A n : Within(x, n)
  BY <1>1 DEF Aligned, Within
<1>. QED  BY <1>2, <1>4, <1>5

LEMMA LinesInit == Init => LinesInv
<1>. SUFFICES ASSUME Init PROVE LinesInv
  OBVIOUS
<1>1. /\ pc = "startup" /\ DOMAIN task = Pids
      /\ \A p \in Pids : task[p] \in {Running, FreeTask}
  BY DEF Init
<1>2. NumbersInv
  <2>1. PICK f : f = FreeTask
    OBVIOUS
  <2>2. PICK r : r = [f EXCEPT !.state = "run", !.leader = 1, !.launch = opt.child]
    OBVIOUS
  <2>3. /\ IsTask(f) /\ f.call = NoCall /\ f.calls = 0 /\ f.pending = {}
        /\ f.state = "free" /\ f.report = Nothing
    BY <2>1 DEF FreeTask, IsTask
  <2>4. /\ IsTask(r) /\ r.call = NoCall /\ r.calls = 0 /\ r.pending = {}
        /\ r.state = "run" /\ r.report = Nothing
    BY <2>2, <2>3 DEF IsTask
  <2>5. NoCall \in Call /\ NoCall.n <= 0
    BY DEF NoCall, Call
  <2>6. NumberOf(f) /\ NumberOf(r)
    BY <2>1, <2>3, <2>4, <2>5 DEF NumberOf, Nothing, Signals
  <2>7. r = Running /\ f = FreeTask
    BY <2>1, <2>2 DEF Running
  <2>. QED  BY <1>1, <2>6, <2>7 DEF NumbersInv
<1>3. /\ out.tcbtab = [i \in 1..FirstSize |-> FreeTcb]
      /\ out.log = [f \in Files |-> << >>] /\ out.line = [f \in Files |-> NoLine]
      /\ out.stack = [f \in Files |-> << >>] /\ out.dump = [f \in Files |-> << >>]
  BY DEF Init, EmptyOutput
<1>4. \A f \in Files : File(out, f) =
         [log |-> << >>, line |-> NoLine, stack |-> << >>, dump |-> << >>]
  BY <1>3 DEF File
<1>5. HasFiles(out)
  <2>1. Owned(FreeTcb)
    BY FreeIsOwned
  <2>. QED  BY <1>3, <1>4, <2>1, EmptyFile DEF HasFiles
<1>6. out.log[Shared] = << >>
  BY <1>3 DEF Files
<1>7. ASSUME NEW p \in Pids PROVE LineOK(p) /\ HandNumberOK(p)
  <2>1. PICK x : x = File(out, p)
    OBVIOUS
  <2>2. Aligned(x) /\ Exact(x) /\ \A n : Within(x, n)
    BY <1>4, <2>1, EmptyFile DEF Files
  <2>. QED  BY <1>1, <2>1, <2>2 DEF LineOK, LinesRight, HandNumberOK
<1>. QED  BY <1>1, <1>2, <1>5, <1>6, <1>7 DEF LinesInv

LEMMA LinesSay == LinesInv => ConvAligned
<1>. SUFFICES ASSUME LinesInv, opt.ff, NoneOvertaken PROVE ConvAligned
  BY DEF ConvAligned
<1>1. ASSUME NEW f \in Files PROVE Raises(File(out, f)) \/ Aligned(File(out, f))
  <2>1. CASE f = Shared
    BY <2>1 DEF LinesInv, File, Aligned
  <2>2. CASE f \in Pids
    BY <2>2 DEF LinesInv, LineOK, NoneOvertaken, Overtaken
  <2>. QED  BY <2>1, <2>2 DEF Files
<1>. DEFINE log(f) == out.log[f]
            isDumped(f, line) == \E k \in DOMAIN out.dump[f] : out.dump[f][k] = line.call
            calls(f, k) == {j \in 1..k : Parsed(log(f)[j])}
            writes(f, k) == {j \in calls(f, k) : isDumped(f, log(f)[j])}
<1>2. \A f \in Files :
         \/ \E k \in DOMAIN log(f) : ~Parsed(log(f)[k]) /\ ~Skipped(log(f)[k])
         \/ \A k \in DOMAIN log(f) : Parsed(log(f)[k]) =>
               /\ NextIs(out.stack[f], calls(f, k), log(f)[k].call)
               /\ isDumped(f, log(f)[k]) => NextIs(out.dump[f], writes(f, k), log(f)[k].call)
  <2>1. SUFFICES ASSUME NEW f \in Files
                 PROVE  \/ \E k \in DOMAIN log(f) : ~Parsed(log(f)[k]) /\ ~Skipped(log(f)[k])
                        \/ \A k \in DOMAIN log(f) : Parsed(log(f)[k]) =>
                              /\ NextIs(out.stack[f], calls(f, k), log(f)[k].call)
                              /\ isDumped(f, log(f)[k]) =>
                                     NextIs(out.dump[f], writes(f, k), log(f)[k].call)
    OBVIOUS
  <2>2. PICK x : x = File(out, f)
    OBVIOUS
  <2>3. x.log = log(f) /\ x.stack = out.stack[f] /\ x.dump = out.dump[f]
    BY <2>2 DEF File
  <2>4. \A line : Dumped(x, line) <=> isDumped(f, line)
    BY <2>3 DEF Dumped
  <2>. HIDE DEF log, isDumped
  <2>5. \A k : CallsTo(x, k) = calls(f, k)
    BY <2>3 DEF CallsTo
  <2>. HIDE DEF calls
  <2>6. \A k : WritesTo(x, k) = writes(f, k)
    BY <2>3, <2>4, <2>5 DEF WritesTo
  <2>. HIDE DEF writes
  <2>7. Raises(x) \/ Aligned(x)
    BY <1>1, <2>2
  <2>. QED  BY <2>3, <2>4, <2>5, <2>6, <2>7 DEF Raises, Aligned
<1>3. ASSUME NEW f \in Files, ~Raises(File(out, f)),
             NEW length \in IF pc = "aborted" THEN 0..Len(out.stack[f]) ELSE {Len(out.stack[f])},
             NEW k \in DOMAIN log(f), Parsed(log(f)[k]),
             ~(pc = "aborted" /\ ~(Cardinality(calls(f, k)) <= length))
      PROVE  /\ Cardinality(calls(f, k)) <= length
             /\ out.stack[f][Cardinality(calls(f, k))] = log(f)[k].call
             /\ isDumped(f, log(f)[k]) =>
                   /\ Cardinality(writes(f, k)) <= Len(out.dump[f])
                   /\ out.dump[f][Cardinality(writes(f, k))] = log(f)[k].call
  <2>1. ~ \E j \in DOMAIN log(f) : ~Parsed(log(f)[j]) /\ ~Skipped(log(f)[j])
    BY <1>3 DEF Raises, File
  <2>2. /\ NextIs(out.stack[f], calls(f, k), log(f)[k].call)
        /\ isDumped(f, log(f)[k]) => NextIs(out.dump[f], writes(f, k), log(f)[k].call)
    BY <1>2, <1>3, <2>1
  <2>. HIDE DEF log, isDumped, calls, writes
  <2>3. CASE pc = "aborted"
    BY <1>3, <2>2, <2>3 DEF NextIs
  <2>4. CASE pc # "aborted"
    <3>1. length = Len(out.stack[f])
      BY <1>3, <2>4
    <3>. QED  BY <2>2, <3>1 DEF NextIs
  <2>. QED  BY <2>3, <2>4
<1>. QED  BY <1>3 DEF ConvAligned, Raises, File

\* With -ff, every call that conv_micro takes from a log has its own line of the stack
\* file, and every write its own bytes of the dump file, whatever the threads, the
\* options and the sizes, unless the reader raises or an execve has overtaken a stop.
THEOREM LinesStayAligned == Spec => []ConvAligned
<1>1. Init => SyncInv /\ BlocksInv /\ LinesInv
  BY SyncInit, BlocksInit, LinesInit
<1>2. TracerInv /\ SyncInv /\ BlocksInv /\ LinesInv /\ [Next]_tracerVars
          => SyncInv' /\ BlocksInv' /\ LinesInv'
  BY SyncStep, BlocksStep, LinesStep
<1>3. LinesInv => ConvAligned
  BY LinesSay
<1>. QED  BY <1>1, <1>2, <1>3, TracerInvariant, PTL DEF Spec
==============================================================================
