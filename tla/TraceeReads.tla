----------------------------- MODULE TraceeReads -----------------------------
(***************************************************************************)
(* How strace reads the memory of a tracee and shows a string of it:       *)
(* umoven, umovestr, string_quote, printstr and printpathn of              *)
(* strace-4.8/util.c.                                                      *)
(*                                                                         *)
(* The memory of a tracee is a function from its mapped addresses to       *)
(* bytes.  kernel says how process_vm_readv does: it is not there          *)
(* ("none"), it fails when a part of the range is unmapped ("whole"), or   *)
(* it reads up to the first unmapped page ("pages").  Without it words are *)
(* read by PTRACE_PEEKDATA.                                                *)
(***************************************************************************)
EXTENDS Integers, Sequences, SequencesExt, FiniteSetsExt

CONSTANTS WordSize, PageSize, ChunkSize,  \* sizeof(long), 4096 and 256
          MaxPath,                        \* MAXPATHLEN
          Calls                           \* what is printed of each memory

ASSUME SizesAssumption ==
    /\ {WordSize, PageSize, ChunkSize, MaxPath} \subseteq Nat \ {0}
    /\ PageSize % WordSize = 0 /\ PageSize % ChunkSize = 0

\* Memory is mapped by whole pages, and holds bytes.
ASSUME MemoryAssumption ==
    \A m \in DOMAIN Calls :
        /\ DOMAIN m \subseteq Nat
        /\ \A a \in DOMAIN m :
              LET start == PageSize * (a \div PageSize)
              IN  start..(start + PageSize - 1) \subseteq DOMAIN m
        /\ \A a \in DOMAIN m : m[a] \in 0..255

ASSUME CallsAssumption ==
    \A m \in DOMAIN Calls :
        Calls[m] \subseteq
            [op : {"umoven", "umovestr"}, addr : Nat, len : Nat]
            \cup [op : {"printstr"}, addr : Nat, len : Int, limit : Nat, xflag : Nat]
            \cup [op : {"printpathn"}, addr : Nat, limit : Nat, xflag : Nat]

VARIABLES memory, kernel, call, answer

readVars == <<memory, kernel, call, answer>>

NUL == 0

BytesAt(addr, n) == [i \in 1..n |-> memory[addr + i - 1]]

Mapped(addr, n) == addr..(addr + n - 1) \subseteq DOMAIN memory

\* -1 stands for EFAULT, which is also what a kernel with ENOSYS leads to here.
process_vm_readv(addr, n) ==
    LET mapped == Max({k \in 0..n : Mapped(addr, k)})
    IN  IF mapped = n \/ (kernel = "pages" /\ mapped > 0) THEN mapped ELSE -1

\* The words that are peeked: the one with the residue also when len = 0.
PeekedWords(addr, len) ==
    {w \in (addr - (addr % WordSize))..(addr + len) :
        w % WordSize = 0 /\ (w < addr \/ w < addr + len)}

Failed == [ret |-> -1, bytes |-> << >>]

-----------------------------------------------------------------------------

umoven(addr, len) ==
    LET complete == IF kernel = "none" THEN PeekedWords(addr, len) \subseteq DOMAIN memory
                    ELSE process_vm_readv(addr, len) = len
    IN  IF complete THEN [ret |-> 0, bytes |-> BytesAt(addr, len)] ELSE Failed

ChunkLenUncut(addr, left) == Min({left, ChunkSize})

\* A chunk is cut where the page ends, for the addr that the caller gave: addr
\* itself is not moved with the chunks.
ChunkLen(addr, left) ==
    LET chunk == Min({left, ChunkSize})
        over == (addr + chunk) % PageSize
    IN  IF chunk > over THEN chunk - over ELSE chunk

ReadChunks(addr, len) ==
    LET from[done \in 0..len] ==
            LET r == process_vm_readv(addr + done, ChunkLen(addr, len - done))
            IN  IF done = len THEN [ret |-> 0, bytes |-> BytesAt(addr, len)]
                ELSE IF r <= 0 THEN Failed
                ELSE IF NUL \in Range(BytesAt(addr + done, r))
                THEN [ret |-> 1, bytes |-> BytesAt(addr, done + r)]
                ELSE from[done + r]
    IN  from[0]

\* The test for NUL is of the whole word, also when len ends inside it.
PeekString(addr, len) ==
    LET words == PeekedWords(addr, len)
        unread == words \ DOMAIN memory
        ended == {w \in words \ unread :
                    \E a \in Max({w, addr})..(w + WordSize - 1) : memory[a] = NUL}
        first == Min(ended \cup unread)
    IN  IF ended \cup unread = {} THEN [ret |-> 0, bytes |-> BytesAt(addr, len)]
        ELSE IF first \in unread THEN Failed
        ELSE [ret |-> 1, bytes |-> BytesAt(addr, Min({len, first + WordSize - addr}))]

umovestr(addr, len) ==
    IF kernel = "none" THEN PeekString(addr, len) ELSE ReadChunks(addr, len)

-----------------------------------------------------------------------------
Quote == 34
Backslash == 92
Digits == 48..57
Letters == [c \in 9..13 |-> <<116, 110, 118, 102, 114>>[c - 8]]  \* t n v f r
HexDigit(d) == IF d < 10 THEN 48 + d ELSE 87 + d

Octal(c, digits) ==
    <<Backslash>>
        \o SubSeq(<<48 + (c \div 64), 48 + ((c \div 8) % 8), 48 + (c % 8)>>, 4 - digits, 3)

EscapedShort(c, next) ==
    CASE c \in {Quote, Backslash} -> <<Backslash, c>>
      [] c \in DOMAIN Letters -> <<Backslash, Letters[c]>>
      [] c \in (32..126) \ {Quote, Backslash} -> <<c>>
      [] OTHER -> Octal(c, IF c >= 64 THEN 3 ELSE IF c >= 8 THEN 2 ELSE 1)

\* All three digits are printed if the next byte is a digit.
Escaped(c, next) ==
    IF c \notin 32..126 \cup DOMAIN Letters /\ next \in Digits THEN Octal(c, 3)
    ELSE EscapedShort(c, next)

Hexed(c) == <<Backslash, 120, HexDigit(c \div 16), HexDigit(c % 16)>>

EndsAt(len, c) == len = -1 /\ c = NUL

QuoteRoom(len, size) == IF len = -1 THEN size - 1 ELSE size

\* len is -1 for a string that ends with NUL.  bytes holds the NUL, or size bytes.
string_quote(bytes, len, size, xflag) ==
    LET room == QuoteRoom(len, size)
        nuls == {i \in 1..Min({room, Len(bytes)}) : EndsAt(len, bytes[i])}
        shown == SubSeq(bytes, 1, IF nuls = {} THEN room ELSE Min(nuls) - 1)
        usehex == \/ xflag > 1
                  \/ xflag = 1 /\ \E c \in Range(shown) : c \notin 32..126 \cup 9..13
        next(i) == IF i < Len(shown) THEN shown[i + 1] ELSE NUL
        quoted(i) == IF usehex THEN Hexed(shown[i]) ELSE Escaped(shown[i], next(i))
    IN  [text |-> <<Quote>> \o FlattenSeq([i \in 1..Len(shown) |-> quoted(i)])
                            \o <<Quote>>,
         ret |-> IF \/ nuls # {}
                    \/ len = -1 /\ room < Len(bytes) /\ bytes[room + 1] = NUL
                 THEN 0 ELSE 1]

Shown(kind, text, dots) == [kind |-> kind, text |-> text, dots |-> dots]
Null == Shown("NULL", << >>, FALSE)
Pointer == Shown("pointer", << >>, FALSE)

\* One byte more than n is read, to find out whether the path is longer.
printpathn(addr, n, xflag) ==
    LET limit == Min({n, MaxPath})
        read == umovestr(addr, limit + 1)
        path == IF Len(read.bytes) > limit
                THEN [read.bytes EXCEPT ![limit + 1] = NUL] ELSE read.bytes
    IN  IF addr = 0 THEN Null
        ELSE IF read.ret < 0 THEN Pointer
        ELSE Shown("text", string_quote(path, -1, limit + 1, xflag).text, read.ret = 0)

printstr(addr, len, max_strlen, xflag) ==
    LET size == IF len = -1 THEN max_strlen + 1
                ELSE IF len < 0 THEN max_strlen  \* (unsigned long) len
                ELSE Min({max_strlen, len})
        read == IF len = -1 THEN umovestr(addr, size) ELSE umoven(addr, size)
        quoted == string_quote(read.bytes, len, size, xflag)
    IN  IF addr = 0 THEN Null
        ELSE IF read.ret < 0 THEN Pointer
        ELSE Shown("text", quoted.text,
                   quoted.ret = 1 /\ (len < 0 \/ len > max_strlen))

-----------------------------------------------------------------------------
NoCall == [op |-> "none"]

ReadInit ==
    /\ memory \in DOMAIN Calls /\ kernel \in {"none", "whole", "pages"}
    /\ call = NoCall /\ answer = NoCall

umovenCall ==
    /\ call = NoCall
    /\ \E c \in {c \in Calls[memory] : c.op = "umoven"} :
           /\ call' = c /\ answer' = umoven(c.addr, c.len)
    /\ UNCHANGED <<memory, kernel>>

umovestrCall ==
    /\ call = NoCall
    /\ \E c \in {c \in Calls[memory] : c.op = "umovestr"} :
           /\ call' = c /\ answer' = umovestr(c.addr, c.len)
    /\ UNCHANGED <<memory, kernel>>

printstrCall ==
    /\ call = NoCall
    /\ \E c \in {c \in Calls[memory] : c.op = "printstr"} :
           /\ call' = c /\ answer' = printstr(c.addr, c.len, c.limit, c.xflag)
    /\ UNCHANGED <<memory, kernel>>

printpathnCall ==
    /\ call = NoCall
    /\ \E c \in {c \in Calls[memory] : c.op = "printpathn"} :
           /\ call' = c /\ answer' = printpathn(c.addr, c.limit, c.xflag)
    /\ UNCHANGED <<memory, kernel>>

ReadNext == umovenCall \/ umovestrCall \/ printstrCall \/ printpathnCall

ReadSpec == ReadInit /\ [][ReadNext]_readVars

-----------------------------------------------------------------------------
PageOf(addr) == addr \div PageSize

\* Where the string at addr ends, if it ends in mapped memory.
Ends(addr) ==
    LET nuls == {a \in DOMAIN memory : a >= addr /\ memory[a] = NUL
                                        /\ Mapped(addr, a - addr)}
    IN  IF nuls = {} THEN {} ELSE {Min(nuls)}

\* The end of the first word that len ends in, or of len bytes.
Looked(addr, len) ==
    IF kernel = "none"
    THEN Max({addr + len} \cup {w + WordSize : w \in PeekedWords(addr, len)})
    ELSE addr + len

\* The chunks after the first one are not cut where their page ends: one of them can
\* reach from the page the string ends in to the next one.
ReadableFor(addr, end) ==
    \/ kernel # "whole"
    \/ PageOf(end) = PageOf(addr) /\ end < addr + ChunkSize
    \/ addr % ChunkSize = 0
    \/ Mapped(PageSize * (PageOf(end) + 1), PageSize)

\* umovestr finds the end of every string that ends within len bytes, also where
\* the page after it is not mapped; it tells of an end only when there is one
\* where it looked, and of len bytes only when none of them is NUL.
StringsFound ==
    call.op = "umovestr" =>
        LET end == Ends(call.addr)
        IN  /\ \A e \in end :
                   e < call.addr + call.len /\ ReadableFor(call.addr, e) =>
                       answer.ret = 1
            /\ answer.ret = 1 =>
                   \E e \in end : /\ e < Looked(call.addr, call.len)
                                  /\ \A i \in 1..Len(answer.bytes) :
                                         answer.bytes[i] = memory[call.addr + i - 1]
                                  /\ \/ e < call.addr + Len(answer.bytes)
                                     \/ Len(answer.bytes) = call.len
            /\ answer.ret = 0 =>
                   /\ answer.bytes = BytesAt(call.addr, call.len)
                   /\ NUL \notin Range(answer.bytes)

\* How conv_micro.py reads a string: eval of a Python literal.
OctalDigits(s, i) ==
    LET isDigit(j) == j <= Len(s) /\ s[j] \in 48..55
    IN  IF ~isDigit(i + 1) THEN 1 ELSE IF ~isDigit(i + 2) THEN 2 ELSE 3

DigitOf(c) == IF c >= 97 THEN c - 87 ELSE c - 48

\* The byte whose text begins at i, and how long the text is.
ByteAt(s, i) ==
    LET is(byte, length) == [byte |-> byte, length |-> length]
        digit(k) == DigitOf(s[i + k])
        octal == OctalDigits(s, i + 1)
    IN  IF s[i] # Backslash THEN is(s[i], 1)
        ELSE CASE s[i + 1] \in {Quote, Backslash} -> is(s[i + 1], 2)
               [] s[i + 1] \in Range(Letters) ->
                      is(CHOOSE c \in DOMAIN Letters : Letters[c] = s[i + 1], 2)
               [] s[i + 1] = 120 -> is(16 * digit(2) + digit(3), 4)
               [] OTHER -> is(IF octal = 1 THEN digit(1)
                              ELSE IF octal = 2 THEN 8 * digit(1) + digit(2)
                              ELSE 64 * digit(1) + 8 * digit(2) + digit(3), octal + 1)

Evaluated(s) ==
    LET from[i \in 1..(Len(s) + 1)] ==
            LET next == i + ByteAt(s, i).length
            IN  IF i > Len(s) THEN << >>
                ELSE <<ByteAt(s, i).byte>> \o (IF next <= Len(s) THEN from[next] ELSE << >>)
    IN  from[1]

Literal(text) == Evaluated(SubSeq(text, 2, Len(text) - 1))

IsString == \/ call.op = "printpathn"
            \/ call.op = "printstr" /\ call.len = -1

\* What is shown is what is in memory: up to the limit, what is printed of the string
\* or the buffer means the same bytes to conv_micro, and "..." follows iff there are
\* more; a negative length is one above every limit.  A path that is longer by less
\* than a word may have no "..." with PTRACE_PEEKDATA.
StringsShown ==
    call.op \in {"printstr", "printpathn"} /\ answer.kind = "text" =>
        LET limit == IF call.op = "printstr" THEN call.limit
                     ELSE Min({call.limit, MaxPath})
            end == Ends(call.addr)
            length == IF IsString /\ end # {} THEN Min(end) - call.addr
                      ELSE IF IsString \/ call.len < 0 THEN limit + 1 ELSE call.len
            whole == (end # {} \/ ~IsString) /\ length <= limit
        IN  /\ Literal(answer.text) = BytesAt(call.addr, Min({limit, length}))
            /\ whole => ~answer.dots
            /\ \/ whole \/ answer.dots
               \/ /\ call.op = "printpathn" /\ end # {}
                  /\ Min(end) < Looked(call.addr, limit + 1)
=============================================================================
