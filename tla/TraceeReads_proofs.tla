-------------------------- MODULE TraceeReads_proofs --------------------------
(***************************************************************************)
(* Proofs about what strace reads and keeps of a tracee at its stops: the  *)
(* strings of its memory (TraceeReads), and the memory maps its stack      *)
(* traces are printed with (StackTraces).                                  *)
(*                                                                         *)
(* umovestr is proved for memory that is mapped by whole pages and for any *)
(* sizes of words, chunks and pages of which the first two divide the      *)
(* last.  A word lies in one page, so every word of a string can be        *)
(* peeked.  The loop over chunks gets to the end of a string if there is a *)
(* set of offsets that it cannot leave without having read the end, and    *)
(* from each of which it reads something: ReadsOn.                         *)
(*                                                                         *)
(* What printstr and printpathn show is read back as what was in memory    *)
(* because the text that string_quote makes of one byte is read back as    *)
(* that byte wherever it stands, if an escape of fewer than three digits   *)
(* is followed by something else than a digit; because the texts of the    *)
(* bytes are laid out one after another; and because the bytes umovestr    *)
(* has read are those of the string, as far as its end or the limit.       *)
(*                                                                         *)
(* For the stack traces there are any number of threads, any programs and  *)
(* any order of their calls.  A call makes the cache of its own thread     *)
(* stale from when the kernel serves it until strace sees it return.       *)
(* CurrentInv says that this is the only time, and is inductive.           *)
(***************************************************************************)
EXTENDS TraceeReads, StackTraces, FiniteSetTheorems, WellFoundedInduction,
        SequenceTheorems, TLAPS

-----------------------------------------------------------------------------
(* Multiples                                                                 *)

\* A number and the multiple of b that it is at or behind.
LEMMA Divided ==
    ASSUME NEW a \in Int, NEW b \in Nat \ {0}
    PROVE  /\ a \div b \in Int
           /\ a = b * (a \div b) + (a % b)
           /\ a % b \in Nat /\ a % b < b
           /\ b * (a \div b) \in Int
  OBVIOUS

LEMMA DividedOnce ==
    ASSUME NEW b \in Nat \ {0}, NEW q \in Int, NEW a \in Int, b * q <= a, a < b * q + b
    PROVE  a \div b = q /\ a % b = a - b * q
  <1>. DEFINE r == a - b * q
  <1>1. b * q \in Int
    OBVIOUS
  <1>2. r \in 0..(b - 1) /\ a = b * q + r
    BY <1>1
  <1>. HIDE DEF r
  <1>3. a \div b = q /\ a % b = r
    BY <1>2
  <1>. QED BY <1>3 DEF r

LEMMA Ordered ==
    ASSUME NEW b \in Nat \ {0}, NEW i \in Int, NEW j \in Int
    PROVE  /\ b * i \in Int /\ b * j \in Int
           /\ i < j => b * i + b <= b * j
           /\ i <= j => b * i <= b * j
  <1>1. b * i \in Int /\ b * j \in Int
    OBVIOUS
  <1>2. ASSUME i < j PROVE b * i + b <= b * j
    BY <1>2
  <1>. QED BY <1>1, <1>2

\* Two numbers of one word, or of one chunk, are in one page.
LEMMA DividedTwice ==
    ASSUME NEW b \in Nat \ {0}, NEW n \in Nat \ {0}, n % b = 0,
           NEW x \in Int, NEW y \in Int, x \div b = y \div b
    PROVE  x \div n = y \div n
  <1>. DEFINE k == n \div b
              i == x \div b
              q == x \div n
  <1>1. k \in Int /\ n = b * k
    BY Divided
  <1>2. /\ i \in Int /\ b * i <= x /\ x < b * i + b
        /\ b * i <= y /\ y < b * i + b /\ b * i \in Int
    BY Divided
  <1>3. q \in Int /\ n * q \in Int /\ n * q <= x /\ x < n * q + n
    BY Divided
  <1>. HIDE DEF k, i, q
  <1>4. k * q \in Int /\ n * q = b * (k * q) /\ n * q + n = b * (k * q + k)
    BY <1>1, <1>3
  <1>5. k * q <= i
    BY <1>2, <1>3, <1>4, Ordered
  <1>6. i < k * q + k
    <2>1. k * q + k \in Int
      BY <1>1, <1>4
    <2>. SUFFICES ASSUME k * q + k <= i PROVE FALSE
      BY <1>2, <2>1
    <2>2. b * (k * q + k) <= b * i
      BY <1>2, <2>1, Ordered
    <2>. QED BY <1>2, <1>3, <1>4, <2>2
  <1>7. b * (k * q) <= b * i /\ b * i + b <= b * (k * q + k)
    <2>1. k * q + k \in Int
      BY <1>1, <1>4
    <2>. QED BY <1>2, <1>4, <1>5, <1>6, <2>1, Ordered
  <1>8. n * q <= y /\ y < n * q + n
    BY <1>2, <1>3, <1>4, <1>7
  <1>9. y \div n = q
    BY <1>3, <1>8, DividedOnce
  <1>. QED BY <1>9 DEF q

-----------------------------------------------------------------------------
(* The least and the greatest number of a set                                *)

LEMMA LeastOf ==
    ASSUME NEW S, S \subseteq Nat, S # {}
    PROVE  Min(S) \in S /\ \A y \in S : Min(S) <= y
  <1>. DEFINE Less == {ss \in Nat \X Nat : ss[1] < ss[2]}
  <1>1. IsWellFoundedOn(Less, Nat)
    <2>1. Less = OpToRel(<, Nat)
      BY Zenon DEF OpToRel
    <2>. QED BY <2>1, NatLessThanWellFounded, Zenon
  <1>2. PICK x \in S : \A y \in S : ~ (<<y, x>> \in Less)
    BY <1>1, WFMin, Zenon
  <1>3. ASSUME NEW y \in S PROVE x <= y
    <2>1. x \in Nat /\ y \in Nat /\ ~ (<<y, x>> \in Less)
      BY <1>2
    <2>. QED BY <2>1
  <1>4. \E z \in S : \A y \in S : z <= y
    BY <1>3
  <1>. HIDE DEF Less
  <1>. QED BY <1>4 DEF Min

LEMMA GreatestOf ==
    ASSUME NEW S, S \subseteq Int, S # {}, NEW bound \in Int, \A y \in S : y <= bound
    PROVE  Max(S) \in S /\ \A y \in S : y <= Max(S)
  <1>. DEFINE T == {bound - y : y \in S}
  <1>1. T \subseteq Nat /\ T # {}
    <2>1. ASSUME NEW y \in S PROVE bound - y \in Nat
      <3>1. y \in Int /\ y <= bound
        OBVIOUS
      <3>. QED BY <3>1
    <2>. QED BY <2>1
  <1>2. Min(T) \in T /\ \A t \in T : Min(T) <= t
    BY <1>1, LeastOf
  <1>3. PICK x \in S : Min(T) = bound - x
    BY <1>2
  <1>4. \A y \in S : x >= y
    <2>. TAKE y \in S
    <2>1. bound - y \in T /\ y \in Int /\ x \in Int
      OBVIOUS
    <2>. HIDE DEF T
    <2>2. bound - x <= bound - y
      BY <1>2, <1>3, <2>1
    <2>. QED BY <2>1, <2>2
  <1>5. \E z \in S : \A y \in S : z >= y
    BY <1>4
  <1>6. Max(S) \in S /\ \A y \in S : Max(S) >= y
    BY <1>5 DEF Max
  <1>. QED BY <1>6

\* A set of naturals that has 0 and, with a number, the next one has them all.
LEMMA Induction ==
    ASSUME NEW T, 0 \in T, \A n \in Nat : n \in T => n + 1 \in T
    PROVE  Nat \subseteq T
  <1>. DEFINE Rest == Nat \ T
              x == Min(Rest)
  <1>. SUFFICES ASSUME Rest # {} PROVE FALSE
    OBVIOUS
  <1>1. x \in Rest /\ \A y \in Rest : x <= y
    <2>. HIDE DEF Rest
    <2>1. Rest \subseteq Nat
      BY DEF Rest
    <2>. QED BY <2>1, LeastOf
  <1>. HIDE DEF x
  <1>2. x - 1 \in Nat /\ (x - 1) + 1 = x /\ x - 1 \notin Rest
    BY <1>1
  <1>. QED BY <1>1, <1>2

-----------------------------------------------------------------------------
(* The memory of a tracee                                                    *)

LEMMA Sizes ==
    /\ WordSize \in Nat \ {0} /\ PageSize \in Nat \ {0} /\ ChunkSize \in Nat \ {0}
    /\ MaxPath \in Nat \ {0}
    /\ PageSize % WordSize = 0 /\ PageSize % ChunkSize = 0
  BY SizesAssumption

LEMMA MappedByPages ==
    ASSUME memory \in DOMAIN Calls,
           NEW a \in DOMAIN memory, NEW b \in Int, b \div PageSize = a \div PageSize
    PROVE  b \in DOMAIN memory
  <1>. DEFINE start == PageSize * (a \div PageSize)
  <1>1. a \in Nat /\ start..(start + PageSize - 1) \subseteq DOMAIN memory
    BY MemoryAssumption
  <1>2. start \in Int /\ start <= b /\ b < start + PageSize
    <2>1. PageSize \in Nat \ {0} /\ b \in Int
      BY Sizes
    <2>2. start = PageSize * (b \div PageSize)
      OBVIOUS
    <2>. HIDE DEF start
    <2>. QED BY <2>1, <2>2, Divided
  <1>. HIDE DEF start
  <1>. QED BY <1>1, <1>2, Sizes

LEMMA MappedByWords ==
    ASSUME memory \in DOMAIN Calls,
           NEW a \in DOMAIN memory, NEW b \in Int, b \div WordSize = a \div WordSize
    PROVE  b \in DOMAIN memory
  <1>1. a \in Int
    BY MemoryAssumption
  <1>2. b \div PageSize = a \div PageSize
    <2>1. \A n \in Nat \ {0}, k \in Nat \ {0} :
             n % k = 0 => \A x, y \in Int : x \div k = y \div k => x \div n = y \div n
      BY DividedTwice
    <2>. QED BY <1>1, <2>1, Sizes, ZenonT(60)
  <1>. QED BY <1>2, MappedByPages

LEMMA BytesOf ==
    ASSUME NEW addr, NEW n \in Nat
    PROVE  /\ Len(BytesAt(addr, n)) = n
           /\ DOMAIN BytesAt(addr, n) = 1..n
           /\ \A i \in 1..n : BytesAt(addr, n)[i] = memory[addr + i - 1]
  <1>. DEFINE f == BytesAt(addr, n)
              S == {f[i] : i \in 1..n}
  <1>1. f = [i \in 1..n |-> memory[addr + i - 1]]
    BY DEF BytesAt
  <1>0. f = [i \in 1..n |-> f[i]]
    BY DEF BytesAt
  <1>2. f \in Seq(S)
    <2>. HIDE DEF f
    <2>. QED BY <1>0
  <1>3. Len(f) = n
    BY <1>1, <1>2
  <1>. QED BY <1>1, <1>3

\* The string at addr ends at e.
EndsWith(addr, e) ==
    /\ e \in Nat /\ addr <= e /\ addr..e \subseteq DOMAIN memory
    /\ memory[e] = NUL /\ \A a \in addr..(e - 1) : memory[a] # NUL

LEMMA EndsAre ==
    ASSUME memory \in DOMAIN Calls, NEW addr \in Nat
    PROVE  /\ \A e \in Ends(addr) : EndsWith(addr, e)
           /\ \A a \in Nat : addr <= a /\ addr..a \subseteq DOMAIN memory /\ memory[a] = NUL
                 => \E e \in Ends(addr) : e <= a
  <1>. DEFINE nuls == {a \in DOMAIN memory : a >= addr /\ memory[a] = NUL
                                                     /\ Mapped(addr, a - addr)}
  <1>1. Ends(addr) = IF nuls = {} THEN {} ELSE {Min(nuls)}
    BY DEF Ends
  <1>2. nuls \subseteq Nat
    BY MemoryAssumption
  <1>3. \A a \in Nat : a \in nuls <=> /\ addr <= a /\ addr..a \subseteq DOMAIN memory
                                      /\ memory[a] = NUL
    <2>. TAKE a \in Nat
    <2>1. addr + (a - addr) - 1 = a - 1
      OBVIOUS
    <2>2. Mapped(addr, a - addr) <=> addr..(a - 1) \subseteq DOMAIN memory
      BY <2>1 DEF Mapped
    <2>3. addr <= a => addr..a = (addr..(a - 1)) \cup {a}
      OBVIOUS
    <2>. QED BY <2>2, <2>3
  <1>. HIDE DEF nuls
  <1>4. ASSUME NEW e \in Ends(addr) PROVE EndsWith(addr, e)
    <2>1. e \in nuls /\ \A y \in nuls : e <= y
      BY <1>1, <1>2, LeastOf
    <2>2. e \in Nat /\ addr <= e /\ addr..e \subseteq DOMAIN memory /\ memory[e] = NUL
      BY <1>2, <1>3, <2>1
    <2>3. ASSUME NEW a \in addr..(e - 1), memory[a] = NUL PROVE FALSE
      <3>1. a \in Nat /\ addr <= a /\ a < e /\ addr..a \subseteq addr..e
        BY <2>2
      <3>2. a \in nuls
        BY <1>3, <2>2, <2>3, <3>1
      <3>. QED BY <2>1, <2>2, <3>1, <3>2
    <2>. QED BY <2>2, <2>3 DEF EndsWith
  <1>5. ASSUME NEW a \in Nat, addr <= a, addr..a \subseteq DOMAIN memory, memory[a] = NUL
        PROVE  \E e \in Ends(addr) : e <= a
    <2>1. a \in nuls
      BY <1>3, <1>5
    <2>. QED BY <1>1, <1>2, <2>1, LeastOf
  <1>. QED BY <1>4, <1>5

LEMMA NoNulIn ==
    ASSUME NEW addr, NEW n \in Nat
    PROVE  NUL \in Range(BytesAt(addr, n)) <=> \E i \in 1..n : memory[addr + i - 1] = NUL
  <1>. DEFINE f == BytesAt(addr, n)
  <1>1. DOMAIN f = 1..n /\ \A i \in 1..n : f[i] = memory[addr + i - 1]
    BY BytesOf
  <1>2. Range(f) = {f[i] : i \in DOMAIN f}
    BY DEF Range
  <1>. HIDE DEF f
  <1>3. NUL \in Range(f) <=> \E i \in 1..n : memory[addr + i - 1] = NUL
    BY <1>1, <1>2
  <1>. QED BY <1>3 DEF f

-----------------------------------------------------------------------------
(* umovestr                                                                  *)

\* What StringsFound says of an answer.
Finds(addr, len, read) ==
    \A e \in Ends(addr) : e < addr + len /\ ReadableFor(addr, e) => read.ret = 1

Tells(addr, len, read) ==
    read.ret = 1 =>
        \E e \in Ends(addr) :
            /\ e < Looked(addr, len)
            /\ \A i \in 1..Len(read.bytes) : read.bytes[i] = memory[addr + i - 1]
            /\ e < addr + Len(read.bytes) \/ Len(read.bytes) = len

HasNone(addr, len, read) ==
    read.ret = 0 => read.bytes = BytesAt(addr, len) /\ NUL \notin Range(read.bytes)

\* What it has read is there.
AreRead(addr, len, read) ==
    /\ read.ret \in {-1, 0, 1}
    /\ read.ret = 1 => \E n \in 0..len : read.bytes = BytesAt(addr, n)
    /\ read.ret = 0 => Mapped(addr, len)

\* The word of an address.
Word(b) == WordSize * (b \div WordSize)

LEMMA WordIs ==
    ASSUME NEW b \in Nat
    PROVE  /\ Word(b) \in Nat /\ Word(b) <= b /\ b < Word(b) + WordSize
           /\ Word(b) = b - (b % WordSize)
           /\ Word(b) % WordSize = 0 /\ Word(b) \div WordSize = b \div WordSize
  <1>. DEFINE W == WordSize
              q == b \div W
  <1>1. W \in Nat \ {0}
    BY Sizes
  <1>2. /\ q \in Int /\ b = W * q + (b % W) /\ b % W \in Nat /\ b % W < W
        /\ W * q \in Int
    BY <1>1, Divided
  <1>3. q >= 0
    BY <1>1, <1>2
  <1>. HIDE DEF q
  <1>4. W * q >= 0
    BY <1>1, <1>2, <1>3
  <1>5. W * q <= b /\ b < W * q + W /\ W * q = b - (b % W) /\ W * q \in Nat
    <2>. DEFINE m == W * q
                r == b % W
    <2>1. /\ m \in Int /\ r \in Nat /\ r < W /\ b = m + r /\ m >= 0 /\ W \in Nat
      BY <1>1, <1>2, <1>4
    <2>. HIDE DEF m, r, W
    <2>2. m <= b /\ b < m + W /\ m = b - r /\ m \in Nat
      BY <2>1
    <2>. QED BY <2>2 DEF m, r
  <1>6. W * q <= W * q /\ W * q < W * q + W
    BY <1>1, <1>2
  <1>7. (W * q) \div W = q /\ (W * q) % W = W * q - W * q
    BY <1>1, <1>2, <1>6, DividedOnce
  <1>8. (W * q) % W = 0
    BY <1>2, <1>7
  <1>. QED BY <1>5, <1>7, <1>8 DEF Word, q

LEMMA WordOf ==
    ASSUME NEW w \in Int, w % WordSize = 0, NEW b \in Int, w <= b, b < w + WordSize
    PROVE  w = Word(b) /\ b \div WordSize = w \div WordSize
  <1>. DEFINE q == w \div WordSize
  <1>1. WordSize \in Nat \ {0}
    BY Sizes
  <1>2. q \in Int /\ w = WordSize * q
    BY <1>1, Divided
  <1>. HIDE DEF q
  <1>3. b \div WordSize = q
    BY <1>1, <1>2, DividedOnce
  <1>. QED BY <1>2, <1>3 DEF Word, q

\* The words that are looked at are those that len bytes from addr are in, and
\* perhaps the one that addr is in.
LEMMA WordsPeeked ==
    ASSUME NEW addr \in Nat, NEW len \in Nat
    PROVE  /\ \A b \in addr..(addr + len - 1) : Word(b) \in PeekedWords(addr, len)
           /\ \A w \in PeekedWords(addr, len) :
                 /\ w \in Nat /\ w % WordSize = 0 /\ addr < w + WordSize
                 /\ w <= addr + len
                 /\ w \div WordSize = addr \div WordSize \/ (addr <= w /\ w < addr + len)
  <1>. DEFINE low == addr - (addr % WordSize)
  <1>1. low = Word(addr) /\ low \in Nat /\ low <= addr /\ addr < low + WordSize
        /\ low % WordSize = 0 /\ low \div WordSize = addr \div WordSize
    BY WordIs
  <1>2. WordSize \in Nat \ {0}
    BY Sizes
  <1>. HIDE DEF low
  <1>3. PeekedWords(addr, len) =
            {w \in low..(addr + len) : w % WordSize = 0 /\ (w < addr \/ w < addr + len)}
    BY DEF PeekedWords, low
  <1>4. ASSUME NEW b \in addr..(addr + len - 1) PROVE Word(b) \in PeekedWords(addr, len)
    <2>1. b \in Nat /\ addr <= b /\ b < addr + len
      OBVIOUS
    <2>2. /\ Word(b) \in Nat /\ Word(b) <= b /\ b < Word(b) + WordSize
          /\ Word(b) % WordSize = 0
      BY <2>1, WordIs
    <2>3. low <= Word(b)
      <3>1. addr \div WordSize <= b \div WordSize
        <4>. SUFFICES ASSUME b \div WordSize < addr \div WordSize PROVE FALSE
          BY <1>2, <2>1, Divided
        <4>1. WordSize * (b \div WordSize) + WordSize <= WordSize * (addr \div WordSize)
          BY <1>2, <2>1, Divided, Ordered
        <4>. QED BY <1>1, <1>2, <2>1, <2>2, <4>1 DEF Word
      <3>2. Word(addr) <= Word(b)
        BY <1>2, <2>1, <3>1, Divided, Ordered DEF Word
      <3>. QED BY <1>1, <3>2
    <2>. QED BY <1>1, <1>3, <2>1, <2>2, <2>3
  <1>5. ASSUME NEW w \in PeekedWords(addr, len)
        PROVE  /\ w \in Nat /\ w % WordSize = 0 /\ addr < w + WordSize
               /\ w <= addr + len
               /\ w \div WordSize = addr \div WordSize \/ (addr <= w /\ w < addr + len)
    <2>1. /\ w \in Nat /\ low <= w /\ w % WordSize = 0 /\ w <= addr + len
          /\ w < addr \/ w < addr + len
      BY <1>1, <1>3
    <2>2. addr < w + WordSize
      BY <1>1, <1>2, <2>1
    <2>3. CASE w <= addr
      BY <2>1, <2>2, <2>3, WordOf
    <2>4. CASE addr < w
      BY <2>1, <2>2, <2>4
    <2>. QED BY <2>1, <2>2, <2>3, <2>4
  <1>. QED BY <1>4, <1>5

LEMMA PeekStringRight ==
    ASSUME memory \in DOMAIN Calls, kernel = "none", NEW addr \in Nat, NEW len \in Nat
    PROVE  /\ Finds(addr, len, PeekString(addr, len))
           /\ Tells(addr, len, PeekString(addr, len))
           /\ HasNone(addr, len, PeekString(addr, len))
           /\ AreRead(addr, len, PeekString(addr, len))
  <1>. DEFINE W == WordSize
              words == PeekedWords(addr, len)
              unread == words \ DOMAIN memory
              ended == {w \in words \ unread :
                          \E a \in Max({w, addr})..(w + W - 1) : memory[a] = NUL}
              first == Min(ended \cup unread)
              read == PeekString(addr, len)
  <1>1. read = IF ended \cup unread = {} THEN [ret |-> 0, bytes |-> BytesAt(addr, len)]
               ELSE IF first \in unread THEN Failed
               ELSE [ret |-> 1, bytes |-> BytesAt(addr, Min({len, first + W - addr}))]
    BY DEF PeekString
  <1>2. W \in Nat \ {0}
    BY Sizes
  <1>3. /\ \A b \in addr..(addr + len - 1) : Word(b) \in words
        /\ \A w \in words :
              /\ w \in Nat /\ w % W = 0 /\ addr < w + W
              /\ w <= addr + len
              /\ w \div W = addr \div W \/ (addr <= w /\ w < addr + len)
    BY WordsPeeked
  <1>4. \A w \in words : Max({w, addr}) \in {w, addr} /\ Max({w, addr}) >= w
                           /\ Max({w, addr}) >= addr
    <2>. TAKE w \in words
    <2>1. {w, addr} \subseteq Int /\ \A y \in {w, addr} : y <= w + addr
      BY <1>3
    <2>2. w + addr \in Int /\ {w, addr} # {}
      BY <1>3
    <2>. QED BY <2>1, <2>2, GreatestOf
  <1>. HIDE DEF words
  <1>5. \A w \in words : w \in unread <=> w \notin DOMAIN memory
    OBVIOUS
  <1>6. ended \subseteq words /\ unread \subseteq words
        /\ \A w \in words : w \in ended <=> /\ w \in DOMAIN memory
                               /\ \E a \in Nat : /\ w <= a /\ addr <= a /\ a < w + W
                                                 /\ memory[a] = NUL
    <2>1. ASSUME NEW w \in words
          PROVE  (\E a \in Max({w, addr})..(w + W - 1) : memory[a] = NUL)
                    <=> \E a \in Nat : w <= a /\ addr <= a /\ a < w + W /\ memory[a] = NUL
      <3>. DEFINE m == Max({w, addr})
      <3>1. w \in Nat /\ m \in {w, addr} /\ m >= w /\ m >= addr
        BY <1>3, <1>4
      <3>. HIDE DEF m
      <3>2. \A a : a \in m..(w + W - 1) <=> a \in Nat /\ w <= a /\ addr <= a /\ a < w + W
        BY <1>2, <3>1
      <3>. QED BY <3>2 DEF m
    <2>. QED BY <2>1
  <1>. HIDE DEF ended, unread, read
  <1>7. ended \cup unread # {} =>
           /\ first \in ended \cup unread
           /\ \A w \in ended \cup unread : first <= w
    BY <1>3, <1>6, LeastOf
  <1>. HIDE DEF first
  <1>8. Finds(addr, len, read)
    <2>. SUFFICES ASSUME NEW e \in Ends(addr), e < addr + len PROVE read.ret = 1
      BY DEF Finds
    <2>1. /\ e \in Nat /\ addr <= e /\ addr..e \subseteq DOMAIN memory /\ memory[e] = NUL
      BY EndsAre DEF EndsWith
    <2>2. /\ Word(e) \in Nat /\ Word(e) <= e /\ e < Word(e) + W
          /\ Word(e) \div W = e \div W
      BY <2>1, WordIs
    <2>3. Word(e) \in words
      BY <1>3, <2>1
    <2>4. e \in DOMAIN memory /\ addr \in DOMAIN memory
      BY <2>1
    <2>5. Word(e) \in DOMAIN memory
      BY <2>2, <2>4, MappedByWords
    <2>6. Word(e) \in ended
      BY <1>6, <2>1, <2>2, <2>3, <2>5
    <2>7. first \in ended \cup unread /\ first <= Word(e)
      BY <1>7, <2>6
    <2>8. first \notin unread
      <3>. SUFFICES ASSUME first \in unread PROVE FALSE
        OBVIOUS
      <3>1. first \in words /\ first \notin DOMAIN memory
        BY <1>5, <1>6
      <3>2. first \in Int
        BY <1>3, <3>1
      <3>3. CASE first \div W = addr \div W
        BY <2>4, <3>1, <3>2, <3>3, MappedByWords
      <3>4. CASE addr <= first
        BY <2>1, <2>2, <2>7, <3>1, <3>2, <3>4
      <3>. QED BY <1>3, <3>1, <3>3, <3>4
    <2>. QED BY <1>1, <2>6, <2>8
  <1>9. Tells(addr, len, read)
    <2>. SUFFICES ASSUME read.ret = 1
                  PROVE  \E e \in Ends(addr) :
                            /\ e < Looked(addr, len)
                            /\ \A i \in 1..Len(read.bytes) :
                                  read.bytes[i] = memory[addr + i - 1]
                            /\ e < addr + Len(read.bytes) \/ Len(read.bytes) = len
      BY DEF Tells
    <2>. DEFINE n == Min({len, first + W - addr})
    <2>1. first \in ended /\ first \notin unread /\ read.bytes = BytesAt(addr, n)
          /\ \A w \in unread : first <= w
      BY <1>1, <1>7 DEF Failed
    <2>2. PICK a \in Nat : first <= a /\ addr <= a /\ a < first + W /\ memory[a] = NUL
      BY <1>6, <2>1
    <2>3. /\ first \in words /\ first \in DOMAIN memory
          /\ first \in Nat /\ first % W = 0 /\ addr < first + W /\ first <= addr + len
          /\ addr < first => first < addr + len
      <3>1. first \in words /\ first \in DOMAIN memory
        BY <1>6, <2>1
      <3>2. /\ first \in Nat /\ first % W = 0 /\ addr < first + W /\ first <= addr + len
            /\ first \div W = addr \div W \/ (addr <= first /\ first < addr + len)
        BY <1>3, <3>1
      <3>3. ASSUME addr < first, first \div W = addr \div W PROVE FALSE
        <4>1. Word(first) = Word(addr)
          BY <3>3 DEF Word
        <4>2. Word(addr) <= addr /\ Word(addr) \in Nat
          BY WordIs
        <4>3. first = Word(first)
          <5>1. first <= first /\ first < first + W
            BY <1>2, <3>2
          <5>. QED BY <3>2, <5>1, WordOf
        <4>. QED BY <3>2, <3>3, <4>1, <4>2, <4>3
      <3>. QED BY <3>1, <3>2, <3>3
    <2>4. ASSUME NEW b \in addr..a PROVE b \in DOMAIN memory
      <3>1. b \in Nat /\ addr <= b /\ b <= a
        BY <2>2
      <3>2. CASE first <= b
        <4>1. b < first + W
          BY <1>2, <2>2, <2>3, <3>1
        <4>2. b \div W = first \div W
          BY <2>3, <3>1, <3>2, <4>1, WordOf
        <4>. QED BY <2>3, <3>1, <4>2, MappedByWords
      <3>3. CASE b < first
        <4>1. b \in addr..(addr + len - 1)
          BY <2>3, <3>1, <3>3
        <4>2. Word(b) \in Nat /\ Word(b) <= b /\ Word(b) \div W = b \div W
          BY <3>1, WordIs
        <4>3. Word(b) \in words /\ Word(b) \notin unread
          BY <1>3, <2>1, <2>3, <3>1, <3>3, <4>1, <4>2
        <4>4. Word(b) \in DOMAIN memory
          BY <1>5, <4>3
        <4>. QED BY <3>1, <4>2, <4>4, MappedByWords
      <3>. QED BY <2>3, <3>1, <3>2, <3>3
    <2>5. PICK e \in Ends(addr) : e <= a
      <3>1. addr..a \subseteq DOMAIN memory
        BY <2>4
      <3>. QED BY <2>2, <3>1, EndsAre
    <2>6. e \in Nat
      BY EndsAre DEF EndsWith
    <2>7. e < Looked(addr, len)
      <3>. DEFINE S == {addr + len} \cup {w + W : w \in words}
      <3>1. Looked(addr, len) = Max(S)
        BY DEF Looked, words
      <3>2. S \subseteq Int /\ \A y \in S : y <= addr + len + W
        BY <1>2, <1>3
      <3>3. first + W \in S
        BY <2>3
      <3>. HIDE DEF S
      <3>4. Max(S) \in Int /\ first + W <= Max(S)
        <4>1. addr + len + W \in Int /\ S # {}
          BY <1>2, <3>3
        <4>. QED BY <3>2, <3>3, <4>1, GreatestOf
      <3>. QED BY <1>2, <2>2, <2>3, <2>5, <2>6, <3>1, <3>4
    <2>8. n \in Nat /\ (n = len \/ n = first + W - addr)
      <3>1. first + W - addr \in Nat
        BY <1>2, <2>3
      <3>. QED BY <3>1, LeastOf
    <2>. HIDE DEF n
    <2>9. /\ Len(read.bytes) = n
          /\ \A i \in 1..n : read.bytes[i] = memory[addr + i - 1]
      BY <2>1, <2>8, BytesOf
    <2>10. e < addr + n \/ n = len
      BY <1>2, <2>2, <2>3, <2>5, <2>6, <2>8
    <2>. QED BY <2>7, <2>9, <2>10
  <1>10. HasNone(addr, len, read)
    <2>. SUFFICES ASSUME read.ret = 0
                  PROVE  read.bytes = BytesAt(addr, len) /\ NUL \notin Range(read.bytes)
      BY DEF HasNone
    <2>0. ended \cup unread = {}
      BY <1>1 DEF Failed
    <2>1. ended = {} /\ unread = {} /\ read.bytes = BytesAt(addr, len)
      BY <1>1, <2>0
    <2>2. ASSUME NEW i \in 1..len, memory[addr + i - 1] = NUL PROVE FALSE
      <3>. DEFINE a == addr + i - 1
      <3>1. a \in Nat /\ a \in addr..(addr + len - 1) /\ addr <= a /\ memory[a] = NUL
        BY <2>2
      <3>. HIDE DEF a
      <3>2. Word(a) \in words /\ Word(a) <= a /\ a < Word(a) + W
        BY <1>3, <3>1, WordIs
      <3>3. Word(a) \in DOMAIN memory
        BY <1>5, <2>1, <3>2
      <3>. QED BY <1>6, <2>1, <3>1, <3>2, <3>3
    <2>3. NUL \notin Range(BytesAt(addr, len))
      BY <2>2, NoNulIn
    <2>. QED BY <2>1, <2>3
  <1>11. AreRead(addr, len, read)
    <2>1. read.ret \in {-1, 0, 1}
      BY <1>1 DEF Failed
    <2>2. ASSUME read.ret = 1 PROVE \E n \in 0..len : read.bytes = BytesAt(addr, n)
      <3>. DEFINE n == Min({len, first + W - addr})
      <3>1. first \in words /\ read.bytes = BytesAt(addr, n)
        BY <1>1, <1>6, <1>7, <2>2 DEF Failed
      <3>2. first + W - addr \in Nat
        BY <1>2, <1>3, <3>1
      <3>3. n \in 0..len
        BY <3>2, LeastOf
      <3>. HIDE DEF n
      <3>. QED BY <3>1, <3>3
    <2>3. ASSUME read.ret = 0 PROVE Mapped(addr, len)
      <3>1. ended \cup unread = {}
        BY <1>1, <2>3 DEF Failed
      <3>2. ASSUME NEW b \in addr..(addr + len - 1) PROVE b \in DOMAIN memory
        <4>1. b \in Nat
          OBVIOUS
        <4>2. Word(b) \in words /\ Word(b) \div W = b \div W
          BY <1>3, <4>1, WordIs
        <4>3. Word(b) \in DOMAIN memory
          BY <1>5, <3>1, <4>2
        <4>. QED BY <4>1, <4>2, <4>3, MappedByWords
      <3>. QED BY <3>2 DEF Mapped
    <2>. QED BY <2>1, <2>2, <2>3 DEF AreRead
  <1>. QED BY <1>8, <1>9, <1>10, <1>11 DEF read

\* Chunks are not empty and no longer than what is left.
LEMMA ChunkLenIs ==
    ASSUME NEW addr \in Nat, NEW left \in Nat \ {0}
    PROVE  /\ ChunkLen(addr, left) \in Nat \ {0}
           /\ ChunkLen(addr, left) <= left /\ ChunkLen(addr, left) <= ChunkSize
           /\ LET chunk == IF left <= ChunkSize THEN left ELSE ChunkSize
                  over == (addr + chunk) % PageSize
              IN  ChunkLen(addr, left) = IF chunk > over THEN chunk - over ELSE chunk
  <1>. DEFINE chunk == Min({left, ChunkSize})
              over == (addr + chunk) % PageSize
  <1>1. PageSize \in Nat \ {0} /\ ChunkSize \in Nat \ {0}
    BY Sizes
  <1>2. /\ chunk \in {left, ChunkSize} /\ chunk <= left /\ chunk <= ChunkSize
    BY <1>1, LeastOf
  <1>3. chunk = IF left <= ChunkSize THEN left ELSE ChunkSize
    <2>. HIDE DEF chunk
    <2>. QED BY <1>1, <1>2
  <1>4. ChunkLen(addr, left) = IF chunk > over THEN chunk - over ELSE chunk
    BY DEF ChunkLen
  <1>5. over \in Nat /\ chunk \in Nat \ {0}
    <2>1. chunk \in Nat \ {0}
      BY <1>1, <1>2
    <2>. HIDE DEF chunk
    <2>. QED BY <1>1, <2>1, Divided
  <1>6. /\ ChunkLen(addr, left) \in Nat \ {0}
        /\ ChunkLen(addr, left) <= left /\ ChunkLen(addr, left) <= ChunkSize
    <2>. HIDE DEF chunk, over
    <2>. QED BY <1>1, <1>2, <1>4, <1>5
  <1>. QED BY <1>3, <1>4, <1>6

LEMMA ReadvIs ==
    ASSUME NEW a \in Nat, NEW n \in Nat
    PROVE  LET r == process_vm_readv(a, n)
           IN  /\ r = -1 \/ (r \in 0..n /\ Mapped(a, r))
               /\ Mapped(a, n) => r = n
               /\ kernel = "pages" /\ n > 0 /\ a \in DOMAIN memory => r > 0
  <1>. DEFINE S == {k \in 0..n : Mapped(a, k)}
              m == Max(S)
              r == process_vm_readv(a, n)
  <1>1. r = IF m = n \/ (kernel = "pages" /\ m > 0) THEN m ELSE -1
    BY DEF process_vm_readv
  <1>2. Mapped(a, 0)
    BY DEF Mapped
  <1>3. m \in S /\ \A k \in S : k <= m
    <2>1. S \subseteq Int /\ S # {} /\ \A k \in S : k <= n
      BY <1>2
    <2>2. n \in Int
      OBVIOUS
    <2>. HIDE DEF S
    <2>3. Max(S) \in S /\ \A k \in S : k <= Max(S)
      BY <2>1, <2>2, GreatestOf, Zenon
    <2>. QED BY <2>3
  <1>4. m \in 0..n /\ Mapped(a, m)
    BY <1>3
  <1>5. Mapped(a, n) => n <= m
    BY <1>3
  <1>6. n > 0 /\ a \in DOMAIN memory => 1 <= m
    <2>. SUFFICES ASSUME n > 0, a \in DOMAIN memory PROVE 1 <= m
      OBVIOUS
    <2>1. a..(a + 1 - 1) = {a}
      OBVIOUS
    <2>2. 1 \in S
      BY <2>1 DEF Mapped
    <2>. QED BY <1>3, <2>2
  <1>. HIDE DEF m, r
  <1>7. /\ r = -1 \/ (r \in 0..n /\ Mapped(a, r))
        /\ Mapped(a, n) => r = n
        /\ kernel = "pages" /\ n > 0 /\ a \in DOMAIN memory => r > 0
    <2>1. Mapped(a, n) => m = n
      BY <1>4, <1>5
    <2>. HIDE DEF Mapped
    <2>. QED BY <1>1, <1>4, <1>6, <2>1
  <1>. QED BY <1>7 DEF r

\* One turn of the loop over chunks, if f is what the turns after it answer.
SizeRead(addr, len, d) == process_vm_readv(addr + d, ChunkLen(addr, len - d))

Turn(addr, len, f, d) ==
    IF d = len THEN [ret |-> 0, bytes |-> BytesAt(addr, len)]
    ELSE IF SizeRead(addr, len, d) <= 0 THEN Failed
    ELSE IF NUL \in Range(BytesAt(addr + d, SizeRead(addr, len, d)))
    THEN [ret |-> 1, bytes |-> BytesAt(addr, d + SizeRead(addr, len, d))]
    ELSE f[d + SizeRead(addr, len, d)]

LEMMA SizeReadIs ==
    ASSUME NEW addr \in Nat, NEW len \in Nat, NEW d \in 0..(len - 1)
    PROVE  LET r == SizeRead(addr, len, d)
           IN  r = -1 \/ (r \in 0..(len - d) /\ Mapped(addr + d, r))
  <1>1. addr + d \in Nat /\ len - d \in Nat \ {0}
    OBVIOUS
  <1>2. ChunkLen(addr, len - d) \in Nat /\ ChunkLen(addr, len - d) <= len - d
    BY <1>1, ChunkLenIs
  <1>. QED BY <1>1, <1>2, ReadvIs DEF SizeRead

\* A turn looks at later ones only.
LEMMA TurnsLater ==
    ASSUME NEW addr \in Nat, NEW len \in Nat, NEW d \in 0..len, NEW f, NEW g,
           \A k \in (d + 1)..len : f[k] = g[k]
    PROVE  Turn(addr, len, f, d) = Turn(addr, len, g, d)
  <1>. DEFINE r == SizeRead(addr, len, d)
  <1>1. CASE d = len
    BY <1>1 DEF Turn
  <1>2. CASE d # len
    <2>1. d \in 0..(len - 1)
      BY <1>2
    <2>2. r = -1 \/ r \in 0..(len - d)
      BY <2>1, SizeReadIs
    <2>. HIDE DEF r
    <2>3. r <= 0 \/ d + r \in (d + 1)..len
      BY <2>1, <2>2
    <2>. QED BY <2>3 DEF Turn, r
  <1>. QED BY <1>1, <1>2

LEMMA ChunksSolved ==
    ASSUME NEW addr \in Nat, NEW len \in Nat
    PROVE  \E f : f = [d \in 0..len |-> Turn(addr, len, f, d)]
  <1>. DEFINE Solves(f, k) ==
                  /\ f = [d \in 0..len |-> f[d]]
                  /\ \A d \in (len - k)..len : d >= 0 => f[d] = Turn(addr, len, f, d)
              T == {k \in Nat : \E f : Solves(f, k)}
  <1>1. 0 \in T
    <2>. DEFINE f == [d \in 0..len |-> Turn(addr, len, 0, d)]
    <2>1. Turn(addr, len, 0, len) = Turn(addr, len, f, len)
      BY DEF Turn
    <2>2. f = [d \in 0..len |-> f[d]] /\ f[len] = Turn(addr, len, 0, len)
      OBVIOUS
    <2>. HIDE DEF f
    <2>3. Solves(f, 0)
      BY <2>1, <2>2
    <2>. QED BY <2>3
  <1>2. ASSUME NEW k \in Nat, k \in T PROVE k + 1 \in T
    <2>1. PICK f : Solves(f, k)
      BY <1>2
    <2>. DEFINE e == len - (k + 1)
                g == [d \in 0..len |-> IF d = e THEN Turn(addr, len, f, d) ELSE f[d]]
    <2>2. /\ g = [d \in 0..len |-> g[d]]
          /\ \A d \in 0..len : d # e => g[d] = f[d]
          /\ e >= 0 => g[e] = Turn(addr, len, f, e)
      OBVIOUS
    <2>3. e \in Int /\ e = len - (k + 1)
      OBVIOUS
    <2>. HIDE DEF g, e
    <2>4. ASSUME NEW d \in (len - (k + 1))..len, d >= 0 PROVE g[d] = Turn(addr, len, g, d)
      <3>1. d \in 0..len /\ e <= d
        BY <2>3, <2>4
      <3>2. \A j \in (d + 1)..len : f[j] = g[j]
        BY <2>2, <2>3, <3>1
      <3>3. Turn(addr, len, f, d) = Turn(addr, len, g, d)
        BY <3>1, <3>2, TurnsLater
      <3>4. CASE d = e
        BY <2>2, <2>4, <3>3, <3>4
      <3>5. CASE d # e
        <4>1. d \in (len - k)..len
          BY <2>3, <3>1, <3>5
        <4>. QED BY <2>1, <2>2, <2>4, <3>1, <3>3, <3>5, <4>1
      <3>. QED BY <3>4, <3>5
    <2>5. Solves(g, k + 1)
      BY <2>2, <2>4
    <2>. QED BY <2>5
  <1>3. len \in T
    <2>. HIDE DEF T
    <2>. QED BY <1>1, <1>2, Induction
  <1>4. PICK f : Solves(f, len)
    BY <1>3
  <1>5. \A d \in 0..len : f[d] = Turn(addr, len, f, d)
    <2>1. len - len = 0
      OBVIOUS
    <2>. QED BY <1>4, <2>1
  <1>6. f = [d \in 0..len |-> f[d]]
    BY <1>4
  <1>7. f = [d \in 0..len |-> Turn(addr, len, f, d)]
    BY <1>5, <1>6, Zenon
  <1>. QED BY <1>7

\* The turns of the loop: f[d] is what is answered when d bytes have been read.
AllTurns(addr, len, f) == \A d \in 0..len : f[d] = Turn(addr, len, f, d)

LEMMA ReadChunksIs ==
    ASSUME NEW addr \in Nat, NEW len \in Nat
    PROVE  \E f : AllTurns(addr, len, f) /\ ReadChunks(addr, len) = f[0]
  <1>. DEFINE f == CHOOSE g : g = [done \in 0..len |-> Turn(addr, len, g, done)]
  <1>1. ReadChunks(addr, len) = f[0]
    BY DEF ReadChunks, Turn, SizeRead
  <1>2. f = [d \in 0..len |-> Turn(addr, len, f, d)]
    BY ChunksSolved
  <1>. HIDE DEF f
  <1>3. AllTurns(addr, len, f)
    <2>. DEFINE t(d) == Turn(addr, len, f, d)
    <2>1. f = [d \in 0..len |-> t(d)]
      BY <1>2
    <2>. HIDE DEF t
    <2>2. \A d \in 0..len : f[d] = t(d)
      BY <2>1
    <2>. QED BY <2>2 DEF AllTurns, t
  <1>. QED BY <1>1, <1>3

LEMMA MappedOn ==
    ASSUME NEW a \in Nat, NEW n \in Nat, NEW r \in Nat, Mapped(a, n), Mapped(a + n, r)
    PROVE  Mapped(a, n + r)
  <1>1. ASSUME NEW b \in a..(a + (n + r) - 1) PROVE b \in DOMAIN memory
    <2>1. b \in a..(a + n - 1) \/ b \in (a + n)..((a + n) + r - 1)
      OBVIOUS
    <2>. QED BY <2>1 DEF Mapped
  <1>. QED BY <1>1 DEF Mapped

NoneUpto(addr, n) == \A i \in 1..n : memory[addr + i - 1] # NUL

LEMMA NoneOn ==
    ASSUME NEW a \in Nat, NEW n \in Nat, NEW r \in Nat, NoneUpto(a, n), NoneUpto(a + n, r)
    PROVE  NoneUpto(a, n + r)
  <1>1. ASSUME NEW i \in 1..(n + r) PROVE memory[a + i - 1] # NUL
    <2>1. CASE i <= n
      <3>1. i \in 1..n
        BY <2>1
      <3>. QED BY <3>1 DEF NoneUpto
    <2>2. CASE n < i
      <3>1. i - n \in 1..r /\ (a + n) + (i - n) - 1 = a + i - 1
        BY <2>2
      <3>. QED BY <3>1 DEF NoneUpto
    <2>. QED BY <2>1, <2>2
  <1>. QED BY <1>1 DEF NoneUpto

\* What is answered is about bytes that have been read.
ToldTruly(addr, len, read) ==
    /\ read.ret \in {-1, 0, 1}
    /\ read.ret = 1 => \E n \in 0..len :
          read.bytes = BytesAt(addr, n) /\ Mapped(addr, n) /\ ~ NoneUpto(addr, n)
    /\ read.ret = 0 => /\ read.bytes = BytesAt(addr, len)
                        /\ Mapped(addr, len) /\ NoneUpto(addr, len)

LEMMA ChunksTold ==
    ASSUME NEW addr \in Nat, NEW len \in Nat, NEW f, AllTurns(addr, len, f)
    PROVE  ToldTruly(addr, len, f[0])
  <1>. DEFINE Good(d) == Mapped(addr, d) /\ NoneUpto(addr, d) => ToldTruly(addr, len, f[d])
              T == {k \in Nat : \A d \in 0..len : len - d <= k => Good(d)}
  <1>1. ASSUME NEW d \in 0..len, \A e \in (d + 1)..len : Good(e) PROVE Good(d)
    <2>. DEFINE r == SizeRead(addr, len, d)
    <2>. SUFFICES ASSUME Mapped(addr, d), NoneUpto(addr, d)
                  PROVE  ToldTruly(addr, len, f[d])
      OBVIOUS
    <2>1. f[d] = Turn(addr, len, f, d)
      BY DEF AllTurns
    <2>2. CASE d = len
      <3>1. f[d] = [ret |-> 0, bytes |-> BytesAt(addr, len)]
        BY <2>1, <2>2 DEF Turn
      <3>2. f[d].ret = 0 /\ f[d].bytes = BytesAt(addr, len)
        BY <3>1
      <3>. QED BY <2>2, <3>2 DEF ToldTruly
    <2>3. CASE d # len
      <3>1. d \in 0..(len - 1) /\ addr + d \in Nat
        BY <2>3
      <3>2. r = -1 \/ (r \in 0..(len - d) /\ Mapped(addr + d, r))
        BY <3>1, SizeReadIs
      <3>3. CASE r <= 0
        <4>1. f[d] = Failed
          BY <2>1, <2>3, <3>3 DEF Turn
        <4>2. f[d].ret = -1
          BY <4>1 DEF Failed
        <4>. QED BY <4>2 DEF ToldTruly
      <3>4. CASE ~ (r <= 0)
        <4>1. r \in Nat /\ Mapped(addr + d, r) /\ d + r \in (d + 1)..len
          BY <3>1, <3>2, <3>4
        <4>. HIDE DEF r
        <4>2. Mapped(addr, d + r)
          BY <3>1, <4>1, MappedOn
        <4>3. CASE NUL \in Range(BytesAt(addr + d, r))
          <5>1. f[d] = [ret |-> 1, bytes |-> BytesAt(addr, d + r)]
            BY <2>1, <2>3, <3>4, <4>3 DEF Turn, r
          <5>2. f[d].ret = 1 /\ f[d].bytes = BytesAt(addr, d + r)
            BY <5>1
          <5>3. PICK i \in 1..r : memory[(addr + d) + i - 1] = NUL
            BY <4>1, <4>3, NoNulIn
          <5>4. d + i \in 1..(d + r) /\ addr + (d + i) - 1 = (addr + d) + i - 1
            BY <4>1
          <5>5. ~ NoneUpto(addr, d + r) /\ d + r \in 0..len
            BY <4>1, <5>3, <5>4 DEF NoneUpto
          <5>. QED BY <4>2, <5>2, <5>5 DEF ToldTruly
        <4>4. CASE NUL \notin Range(BytesAt(addr + d, r))
          <5>1. f[d] = f[d + r]
            BY <2>1, <2>3, <3>4, <4>4 DEF Turn, r
          <5>2. NoneUpto(addr + d, r)
            BY <4>1, <4>4, NoNulIn DEF NoneUpto
          <5>3. NoneUpto(addr, d + r)
            BY <4>1, <5>2, NoneOn
          <5>. QED BY <1>1, <4>1, <4>2, <5>1, <5>3
        <4>. QED BY <4>3, <4>4
      <3>. QED BY <3>3, <3>4
    <2>. QED BY <2>2, <2>3
  <1>. HIDE DEF Good
  <1>2. 0 \in T
    <2>1. ASSUME NEW d \in 0..len, len - d <= 0 PROVE Good(d)
      <3>1. (d + 1)..len = {}
        BY <2>1
      <3>. QED BY <1>1, <3>1
    <2>. QED BY <2>1
  <1>3. ASSUME NEW k \in Nat, k \in T PROVE k + 1 \in T
    <2>1. ASSUME NEW d \in 0..len, len - d <= k + 1 PROVE Good(d)
      <3>1. \A e \in (d + 1)..len : e \in 0..len /\ len - e <= k
        BY <2>1
      <3>. QED BY <1>1, <1>3, <3>1
    <2>. QED BY <2>1
  <1>4. len \in T
    <2>. HIDE DEF T
    <2>. QED BY <1>2, <1>3, Induction
  <1>5. 0 \in 0..len /\ len - 0 <= len
    OBVIOUS
  <1>6. Good(0)
    BY <1>4, <1>5
  <1>7. Mapped(addr, 0) /\ NoneUpto(addr, 0)
    BY DEF Mapped, NoneUpto
  <1>. QED BY <1>6, <1>7 DEF Good

\* The loop gets to the end of a string if every turn that begins in the string
\* reads something, and so gets behind the end or to another such turn.
ReadsOn(addr, len, e, S) ==
    /\ S \subseteq 0..len
    /\ 0 \in S
    /\ \A d \in S : addr + d <= e =>
          LET r == SizeRead(addr, len, d)
          IN  r > 0 /\ (addr + d + r > e \/ d + r \in S)

LEMMA ChunksFind ==
    ASSUME NEW addr \in Nat, NEW len \in Nat, NEW f, AllTurns(addr, len, f),
           NEW e, EndsWith(addr, e), e < addr + len, NEW S, ReadsOn(addr, len, e, S)
    PROVE  f[0].ret = 1
  <1>. DEFINE Good(d) == d \in S /\ addr + d <= e => f[d].ret = 1
              T == {k \in Nat : \A d \in 0..len : len - d <= k => Good(d)}
  <1>0. e \in Nat /\ addr <= e /\ memory[e] = NUL
    BY DEF EndsWith
  <1>1. ASSUME NEW d \in 0..len, \A b \in (d + 1)..len : Good(b) PROVE Good(d)
    <2>. DEFINE r == SizeRead(addr, len, d)
    <2>. SUFFICES ASSUME d \in S, addr + d <= e PROVE f[d].ret = 1
      OBVIOUS
    <2>1. f[d] = Turn(addr, len, f, d)
      BY DEF AllTurns
    <2>2. d \in 0..(len - 1)
      BY <1>0
    <2>3. r > 0 /\ (addr + d + r > e \/ d + r \in S)
      BY DEF ReadsOn
    <2>4. r = -1 \/ r \in 0..(len - d)
      BY <2>2, SizeReadIs
    <2>. HIDE DEF r
    <2>5. r \in Nat /\ d + r \in (d + 1)..len /\ ~ (r <= 0) /\ d # len
      BY <2>2, <2>3, <2>4
    <2>6. CASE NUL \in Range(BytesAt(addr + d, r))
      <3>1. f[d] = [ret |-> 1, bytes |-> BytesAt(addr, d + r)]
        BY <2>1, <2>5, <2>6 DEF Turn, r
      <3>. QED BY <3>1
    <2>7. CASE NUL \notin Range(BytesAt(addr + d, r))
      <3>1. f[d] = f[d + r]
        BY <2>1, <2>5, <2>7 DEF Turn, r
      <3>2. addr + d + r <= e
        <4>. SUFFICES ASSUME addr + d + r > e PROVE FALSE
          BY <1>0, <2>5
        <4>. DEFINE i == e - (addr + d) + 1
        <4>1. i \in 1..r /\ (addr + d) + i - 1 = e
          BY <1>0, <2>5
        <4>. HIDE DEF i
        <4>2. memory[(addr + d) + i - 1] = NUL
          BY <1>0, <4>1
        <4>. QED BY <2>5, <2>7, <4>1, <4>2, NoNulIn
      <3>3. d + r \in S /\ addr + (d + r) <= e
        BY <1>0, <2>3, <2>5, <3>2
      <3>. QED BY <1>1, <2>5, <3>1, <3>3
    <2>. QED BY <2>6, <2>7
  <1>. HIDE DEF Good
  <1>2. 0 \in T
    <2>1. ASSUME NEW d \in 0..len, len - d <= 0 PROVE Good(d)
      <3>1. (d + 1)..len = {}
        BY <2>1
      <3>. QED BY <1>1, <3>1
    <2>. QED BY <2>1
  <1>3. ASSUME NEW k \in Nat, k \in T PROVE k + 1 \in T
    <2>1. ASSUME NEW d \in 0..len, len - d <= k + 1 PROVE Good(d)
      <3>1. \A b \in (d + 1)..len : b \in 0..len /\ len - b <= k
        BY <2>1
      <3>. QED BY <1>1, <1>3, <3>1
    <2>. QED BY <2>1
  <1>4. len \in T
    <2>. HIDE DEF T
    <2>. QED BY <1>2, <1>3, Induction
  <1>5. 0 \in 0..len /\ len - 0 <= len
    OBVIOUS
  <1>6. Good(0)
    BY <1>4, <1>5
  <1>. QED BY <1>0, <1>6 DEF Good, ReadsOn

LEMMA ChunksFitPages == ChunkSize <= PageSize
  <1>. DEFINE k == PageSize \div ChunkSize
  <1>1. PageSize \in Nat \ {0} /\ ChunkSize \in Nat \ {0}
    BY Sizes
  <1>2. k \in Int /\ PageSize = ChunkSize * k
    BY Sizes, Divided
  <1>. HIDE DEF k
  <1>3. k >= 1
    <2>. SUFFICES ASSUME k <= 0 PROVE FALSE
      BY <1>2
    <2>1. ChunkSize * k <= ChunkSize * 0
      BY <1>1, <1>2, Ordered
    <2>. QED BY <1>1, <1>2, <2>1
  <1>4. ChunkSize * 1 <= ChunkSize * k
    BY <1>1, <1>2, <1>3, Ordered
  <1>. QED BY <1>1, <1>2, <1>4

\* A chunk that is mapped is read as a whole.
LEMMA WholeTurn ==
    ASSUME NEW addr \in Nat, NEW len \in Nat, NEW d \in 0..(len - 1),
           Mapped(addr + d, ChunkLen(addr, len - d))
    PROVE  /\ SizeRead(addr, len, d) = ChunkLen(addr, len - d)
           /\ SizeRead(addr, len, d) > 0 /\ d + SizeRead(addr, len, d) \in 0..len
  <1>1. len - d \in Nat \ {0} /\ addr + d \in Nat
    OBVIOUS
  <1>2. ChunkLen(addr, len - d) \in Nat \ {0} /\ ChunkLen(addr, len - d) <= len - d
    BY <1>1, ChunkLenIs
  <1>3. SizeRead(addr, len, d) = ChunkLen(addr, len - d)
    BY <1>1, <1>2, ReadvIs DEF SizeRead
  <1>. QED BY <1>2, <1>3

\* The first chunk ends with its page, or before.
LEMMA FirstChunkReads ==
    ASSUME memory \in DOMAIN Calls, NEW addr \in Nat, NEW len \in Nat,
           NEW e, EndsWith(addr, e), e < addr + len,
           PageOf(e) = PageOf(addr), e < addr + ChunkSize
    PROVE  ReadsOn(addr, len, e, {0})
  <1>. DEFINE P == PageSize
              C == ChunkSize
              n == ChunkLen(addr, len)
              chunk == IF len <= C THEN len ELSE C
              over == (addr + chunk) % P
              p == addr \div P
              q == (addr + chunk) \div P
              page == P * p
              nextpage == P * q
  <1>0. P \in Nat \ {0} /\ C \in Nat \ {0} /\ C <= P
    BY Sizes, ChunksFitPages
  <1>1. e \in Nat /\ addr <= e /\ addr \in DOMAIN memory /\ len \in Nat \ {0}
    <2>1. e \in Nat /\ addr <= e /\ addr..e \subseteq DOMAIN memory
      BY DEF EndsWith
    <2>. QED BY <2>1
  <1>2. /\ n \in Nat \ {0} /\ n <= len
        /\ n = IF chunk > over THEN chunk - over ELSE chunk
    BY <1>1, ChunkLenIs
  <1>3. chunk \in Nat \ {0} /\ chunk <= C /\ e < addr + chunk
    BY <1>0, <1>1
  <1>. HIDE DEF chunk, n
  <1>4. /\ p \in Int /\ page \in Int /\ page <= addr /\ addr < page + P
        /\ e < page + P
    <2>1. p = e \div P
      BY DEF PageOf
    <2>2. /\ e \div P \in Int /\ P * (e \div P) \in Int /\ e < P * (e \div P) + P
      <3>. HIDE DEF P
      <3>. QED BY <1>0, <1>1, Divided
    <2>3. p \in Int /\ page \in Int /\ page <= addr /\ addr < page + P
      <3>. HIDE DEF P
      <3>. QED BY <1>0, Divided
    <2>. HIDE DEF p
    <2>. QED BY <2>1, <2>2, <2>3
  <1>5. /\ q \in Int /\ nextpage \in Int /\ addr + chunk = nextpage + over
        /\ over \in Nat /\ over < P
    <2>. HIDE DEF P
    <2>. QED BY <1>0, <1>3, Divided
  <1>. HIDE DEF over, P, C
  <1>6. /\ p < q => page + P <= nextpage
        /\ p + 1 < q => page + P + P <= nextpage
        /\ q <= p + 1 => nextpage <= page + P
    <2>. HIDE DEF p, q
    <2>1. P * (p + 1) = page + P
      BY <1>0, <1>4
    <2>2. p + 1 \in Int
      BY <1>4
    <2>3. p < q => page + P <= nextpage
      BY <1>0, <1>4, <1>5, Ordered
    <2>4. p + 1 < q => P * (p + 1) + P <= nextpage
      BY <1>0, <2>2, <1>5, Ordered
    <2>5. q <= p + 1 => nextpage <= P * (p + 1)
      BY <1>0, <2>2, <1>5, Ordered
    <2>. QED BY <2>1, <2>3, <2>4, <2>5
  <1>7. q <= p => nextpage <= page
    <2>. HIDE DEF p, q
    <2>. QED BY <1>0, <1>4, <1>5, Ordered
  <1>8. nextpage <= addr /\ addr < nextpage + P => nextpage = page
    <2>1. ASSUME nextpage <= addr, addr < nextpage + P PROVE p = q
      <3>1. addr \div P = q
        <4>1. P * q <= addr /\ addr < P * q + P
          BY <2>1
        <4>2. addr \in Int
          OBVIOUS
        <4>. HIDE DEF q, P
        <4>. QED BY <1>0, <1>5, <4>1, <4>2, DividedOnce, Zenon
      <3>. QED BY <3>1
    <2>. QED BY <2>1
  <1>. HIDE DEF page, nextpage, p, q
  <1>9. e < addr + n /\ addr + n <= page + P
    <2>1. CASE chunk > over
      <3>1. addr + n = nextpage /\ addr < nextpage
        BY <1>2, <1>3, <1>5, <2>1
      <3>2. p < q
        BY <1>4, <1>5, <1>7, <3>1
      <3>3. q <= p + 1
        BY <1>0, <1>3, <1>4, <1>5, <1>6
      <3>. QED BY <1>0, <1>1, <1>4, <1>5, <1>6, <3>1, <3>2, <3>3
    <2>2. CASE ~ (chunk > over)
      <3>1. nextpage <= addr /\ n = chunk /\ addr < nextpage + P
        BY <1>0, <1>2, <1>3, <1>5, <2>2
      <3>2. nextpage = page
        BY <1>8, <3>1
      <3>. QED BY <1>0, <1>3, <1>4, <1>5, <3>1, <3>2
    <2>. QED BY <2>1, <2>2
  <1>10. ASSUME NEW b \in addr..(addr + n - 1) PROVE b \in DOMAIN memory
    <2>1. b \in Int /\ page <= b /\ b < page + P
      BY <1>0, <1>2, <1>4, <1>9
    <2>2. P * p <= b /\ b < P * p + P
      BY <2>1 DEF page
    <2>3. b \div P = p
      BY <1>0, <1>4, <2>1, <2>2, DividedOnce
    <2>. QED BY <1>1, <2>1, <2>3, MappedByPages DEF p, P
  <1>11. addr + 0 = addr /\ len - 0 = len /\ 0 \in 0..(len - 1)
    BY <1>1
  <1>12. Mapped(addr + 0, ChunkLen(addr, len - 0))
    BY <1>10, <1>11 DEF Mapped, n
  <1>13. SizeRead(addr, len, 0) = n
    BY <1>11, <1>12, WholeTurn DEF n
  <1>14. n > 0 /\ addr + 0 + n > e
    BY <1>1, <1>2, <1>9
  <1>. QED BY <1>13, <1>14 DEF ReadsOn

\* Chunks from a multiple of their size on are within a page.
LEMMA AlignedChunksRead ==
    ASSUME memory \in DOMAIN Calls, NEW addr \in Nat, NEW len \in Nat,
           NEW e, EndsWith(addr, e), e < addr + len, addr % ChunkSize = 0
    PROVE  ReadsOn(addr, len, e, {d \in 0..len : d % ChunkSize = 0})
  <1>. DEFINE P == PageSize
              C == ChunkSize
              k == P \div C
              i == addr \div C
              S == {d \in 0..len : d % C = 0}
  <1>0. P \in Nat \ {0} /\ C \in Nat \ {0}
    BY Sizes
  <1>1. e \in Nat /\ addr <= e /\ addr..e \subseteq DOMAIN memory
    BY DEF EndsWith
  <1>2. k \in Int /\ P = C * k /\ i \in Int /\ addr = C * i
    BY <1>0, Sizes, Divided
  <1>3. ASSUME NEW d \in S, addr + d <= e
        PROVE  LET r == SizeRead(addr, len, d)
               IN  r > 0 /\ (addr + d + r > e \/ d + r \in S)
    <2>. DEFINE j == d \div C
                left == len - d
                n == ChunkLen(addr, left)
                chunk == IF left <= C THEN left ELSE C
                over == (addr + chunk) % P
                q == (addr + chunk) \div P
    <2>1. d \in 0..(len - 1) /\ left \in Nat \ {0} /\ addr + d \in DOMAIN memory
      BY <1>1, <1>3
    <2>2. j \in Int /\ d = C * j
      BY <1>0, Divided
    <2>3. /\ n \in Nat \ {0} /\ n <= left
          /\ n = IF chunk > over THEN chunk - over ELSE chunk
      BY <2>1, ChunkLenIs
    <2>4. chunk \in Nat \ {0} /\ chunk <= C /\ (chunk = C \/ (chunk = left /\ left < C))
      BY <1>0, <2>1
    <2>5. q \in Int /\ P * q \in Int /\ addr + chunk = P * q + over /\ over \in Nat
      BY <1>0, <2>4, Divided
    <2>6. d \in Nat
      OBVIOUS
    <2>. HIDE DEF j, n, chunk, over, q, k, i, S, P, C, left
    <2>7. n = chunk
      <3>. SUFFICES ASSUME chunk > over, over # 0 PROVE FALSE
        BY <2>3, <2>4, <2>5
      <3>. DEFINE m == i - k * q
      <3>1. m \in Int /\ C * m = C * i - P * q
        BY <1>0, <1>2, <2>5
      <3>. HIDE DEF m
      <3>2. over = C * m + chunk
        BY <1>2, <2>4, <2>5, <3>1
      <3>3. CASE m < 0
        <4>1. C * m + C <= C * 0
          BY <1>0, <3>1, <3>3, Ordered
        <4>. QED BY <1>0, <2>4, <2>5, <3>1, <3>2, <4>1
      <3>4. CASE m >= 0
        <4>1. C * 0 <= C * m
          BY <1>0, <3>1, <3>4, Ordered
        <4>. QED BY <1>0, <2>4, <2>5, <3>1, <3>2, <4>1
      <3>. QED BY <3>1, <3>3, <3>4
    <2>8. i + j \in Int /\ addr + d = C * (i + j) /\ addr + d \in Nat /\ C * (i + j) \in Int
      BY <1>0, <1>2, <2>2, <2>6
    <2>9. Mapped(addr + d, n)
      <3>1. ASSUME NEW b \in (addr + d)..(addr + d + n - 1) PROVE b \in DOMAIN memory
        <4>1. b \in Int /\ C * (i + j) <= b /\ b < C * (i + j) + C
          BY <1>0, <2>3, <2>4, <2>7, <2>8
        <4>2. b \div C = i + j
          BY <1>0, <2>8, <4>1, DividedOnce, SMTT(30)
        <4>3. (addr + d) \div C = i + j
          BY <1>0, <2>8, DividedOnce
        <4>4. b \div PageSize = (addr + d) \div PageSize
          <5>1. b \div ChunkSize = (addr + d) \div ChunkSize
            BY <4>2, <4>3 DEF C
          <5>. QED BY <2>8, <4>1, <5>1, Sizes, DividedTwice
        <4>. QED BY <2>1, <4>1, <4>4, MappedByPages
      <3>. QED BY <3>1 DEF Mapped
    <2>10. SizeRead(addr, len, d) = n /\ n > 0 /\ d + n \in 0..len
      BY <2>1, <2>9, WholeTurn DEF n, left
    <2>11. addr + d + n > e \/ d + n \in S
      <3>1. CASE chunk = C
        <4>1. j + 1 \in Int /\ d + n = C * (j + 1) /\ C * (j + 1) \in Int
          BY <1>0, <2>2, <2>7, <3>1
        <4>2. (d + n) % C = 0
          <5>. DEFINE m == C * (j + 1)
          <5>1. m \in Int /\ d + n = m /\ m <= d + n /\ d + n < m + C
            <6>1. m \in Int /\ d + n = m
              BY <4>1
            <6>. HIDE DEF m
            <6>. QED BY <1>0, <6>1
          <5>2. C * (j + 1) <= d + n /\ d + n < C * (j + 1) + C /\ d + n \in Int
            BY <5>1
          <5>3. (d + n) % C = (d + n) - m
            BY <1>0, <4>1, <5>2, DividedOnce, Zenon
          <5>. HIDE DEF m
          <5>. QED BY <5>1, <5>3
        <4>. QED BY <2>10, <4>2 DEF S
      <3>2. CASE chunk = left
        <4>1. addr + d + n = addr + len
          BY <2>6, <2>7, <3>2 DEF left
        <4>. QED BY <4>1
      <3>. QED BY <2>4, <3>1, <3>2
    <2>. QED BY <2>10, <2>11
  <1>4. S \subseteq 0..len /\ 0 \in S
    <2>1. C * 0 = 0 /\ 0 < C * 0 + C /\ C * 0 <= 0
      BY <1>0
    <2>2. 0 % C = 0 - C * 0
      BY <1>0, <2>1, DividedOnce
    <2>. QED BY <2>1, <2>2
  <1>. HIDE DEF S
  <1>5. ReadsOn(addr, len, e, S)
    BY <1>3, <1>4 DEF ReadsOn
  <1>. QED BY <1>5 DEF S

\* Chunks that reach into the next page can be read if it is mapped.
LEMMA NextPageReads ==
    ASSUME memory \in DOMAIN Calls, NEW addr \in Nat, NEW len \in Nat,
           NEW e, EndsWith(addr, e), e < addr + len,
           Mapped(PageSize * (PageOf(e) + 1), PageSize)
    PROVE  ReadsOn(addr, len, e, 0..len)
  <1>. DEFINE P == PageSize
              p == e \div P
              page == P * p
  <1>0. P \in Nat \ {0} /\ ChunkSize \in Nat \ {0} /\ ChunkSize <= P
    BY Sizes, ChunksFitPages
  <1>1. e \in Nat /\ addr <= e /\ addr..e \subseteq DOMAIN memory
    BY DEF EndsWith
  <1>2. p \in Int /\ page \in Int /\ page <= e /\ e < page + P
    <2>. HIDE DEF P
    <2>. QED BY <1>0, <1>1, Divided
  <1>3. P * (p + 1) = page + P
    <2>. HIDE DEF p, P
    <2>. QED BY <1>0, <1>2
  <1>4. \A b \in (page + P)..((page + P) + P - 1) : b \in DOMAIN memory
    BY <1>3 DEF Mapped, PageOf
  <1>5. ASSUME NEW b \in Int, page <= b, b < page + P PROVE b \in DOMAIN memory
    <2>1. b \div P = p
      <3>. HIDE DEF p, P
      <3>. QED BY <1>0, <1>2, <1>5, DividedOnce
    <2>2. e \in DOMAIN memory
      BY <1>1
    <2>. QED BY <2>1, <2>2, MappedByPages
  <1>. HIDE DEF page, P, p
  <1>6. ASSUME NEW d \in 0..len, addr + d <= e
        PROVE  LET r == SizeRead(addr, len, d)
               IN  r > 0 /\ (addr + d + r > e \/ d + r \in 0..len)
    <2>. DEFINE n == ChunkLen(addr, len - d)
    <2>1. d \in 0..(len - 1) /\ len - d \in Nat \ {0} /\ addr + d \in Nat
      BY <1>1, <1>6
    <2>2. n \in Nat \ {0} /\ n <= ChunkSize
      BY <2>1, ChunkLenIs
    <2>. HIDE DEF n
    <2>3. ASSUME NEW b \in (addr + d)..((addr + d) + n - 1) PROVE b \in DOMAIN memory
      <3>1. b \in Int /\ addr <= b /\ b < e + P
        BY <1>0, <1>1, <1>6, <2>2
      <3>2. CASE b <= e
        BY <1>1, <3>1, <3>2
      <3>3. CASE e < b /\ b < page + P
        BY <1>1, <1>2, <1>5, <3>1, <3>3
      <3>4. CASE page + P <= b
        <4>1. b \in (page + P)..((page + P) + P - 1)
          BY <1>0, <1>1, <1>2, <3>1, <3>4
        <4>. QED BY <1>4, <4>1
      <3>. QED BY <1>0, <1>1, <1>2, <3>1, <3>2, <3>3, <3>4
    <2>4. Mapped(addr + d, n)
      BY <2>3 DEF Mapped
    <2>. QED BY <2>1, <2>4, WholeTurn DEF n
  <1>. QED BY <1>6 DEF ReadsOn

\* The loop over chunks finds and tells of ends as StringsFound says.
LEMMA ReadChunksRight ==
    ASSUME memory \in DOMAIN Calls, kernel \in {"whole", "pages"},
           NEW addr \in Nat, NEW len \in Nat
    PROVE  /\ Finds(addr, len, ReadChunks(addr, len))
           /\ Tells(addr, len, ReadChunks(addr, len))
           /\ HasNone(addr, len, ReadChunks(addr, len))
           /\ AreRead(addr, len, ReadChunks(addr, len))
  <1>1. PICK f : AllTurns(addr, len, f) /\ ReadChunks(addr, len) = f[0]
    BY ReadChunksIs
  <1>. DEFINE read == f[0]
  <1>2. ToldTruly(addr, len, read)
    BY <1>1, ChunksTold
  <1>. HIDE DEF read
  <1>3. Tells(addr, len, read)
    <2>. SUFFICES ASSUME read.ret = 1
                  PROVE  \E e \in Ends(addr) :
                             /\ e < Looked(addr, len)
                             /\ \A i \in 1..Len(read.bytes) :
                                    read.bytes[i] = memory[addr + i - 1]
                             /\ e < addr + Len(read.bytes) \/ Len(read.bytes) = len
      BY DEF Tells
    <2>1. PICK n \in 0..len :
              read.bytes = BytesAt(addr, n) /\ Mapped(addr, n) /\ ~ NoneUpto(addr, n)
      BY <1>2 DEF ToldTruly
    <2>2. PICK i \in 1..n : memory[addr + i - 1] = NUL
      BY <2>1 DEF NoneUpto
    <2>. DEFINE a == addr + i - 1
    <2>3. a \in Nat /\ addr <= a /\ a < addr + n /\ addr..a \subseteq addr..(addr + n - 1)
      OBVIOUS
    <2>4. addr..a \subseteq DOMAIN memory /\ memory[a] = NUL
      BY <2>1, <2>2, <2>3 DEF Mapped
    <2>. HIDE DEF a
    <2>5. PICK e \in Ends(addr) : e <= a
      BY <2>3, <2>4, EndsAre
    <2>6. e \in Nat
      BY EndsAre DEF EndsWith
    <2>7. Looked(addr, len) = addr + len
      BY DEF Looked
    <2>8. n \in Nat
      OBVIOUS
    <2>9. Len(read.bytes) = n /\ \A k \in 1..n : read.bytes[k] = memory[addr + k - 1]
      BY <2>1, <2>8, BytesOf
    <2>10. e < addr + n /\ e < Looked(addr, len)
      BY <2>3, <2>5, <2>6, <2>7
    <2>. QED BY <2>9, <2>10
  <1>4. HasNone(addr, len, read)
    <2>. SUFFICES ASSUME read.ret = 0
                  PROVE  read.bytes = BytesAt(addr, len) /\ NUL \notin Range(read.bytes)
      BY DEF HasNone
    <2>1. read.bytes = BytesAt(addr, len) /\ NoneUpto(addr, len)
      BY <1>2 DEF ToldTruly
    <2>. QED BY <2>1, NoNulIn DEF NoneUpto
  <1>5. Finds(addr, len, read)
    <2>. SUFFICES ASSUME NEW e \in Ends(addr), e < addr + len, ReadableFor(addr, e)
                  PROVE  read.ret = 1
      BY DEF Finds
    <2>1. EndsWith(addr, e)
      BY EndsAre
    <2>2. ASSUME NEW S, ReadsOn(addr, len, e, S) PROVE read.ret = 1
      BY <1>1, <2>1, <2>2, ChunksFind DEF read
    <2>3. CASE kernel = "pages"
      <3>1. ASSUME NEW d \in 0..len, addr + d <= e
            PROVE  LET r == SizeRead(addr, len, d)
                   IN  r > 0 /\ (addr + d + r > e \/ d + r \in 0..len)
        <4>1. e \in Nat /\ addr..e \subseteq DOMAIN memory
          BY <2>1 DEF EndsWith
        <4>2. d \in 0..(len - 1) /\ len - d \in Nat \ {0}
          BY <3>1, <4>1
        <4>3. addr + d \in Nat /\ addr + d \in DOMAIN memory
          BY <3>1, <4>1
        <4>4. /\ ChunkLen(addr, len - d) \in Nat \ {0}
              /\ ChunkLen(addr, len - d) <= len - d
          BY <4>2, ChunkLenIs
        <4>5. SizeRead(addr, len, d) > 0
          BY <2>3, <4>3, <4>4, ReadvIs DEF SizeRead
        <4>6. \/ SizeRead(addr, len, d) = -1
              \/ SizeRead(addr, len, d) \in 0..ChunkLen(addr, len - d)
          BY <4>3, <4>4, ReadvIs DEF SizeRead
        <4>. QED BY <4>2, <4>4, <4>5, <4>6
      <3>2. 0 \in 0..len
        OBVIOUS
      <3>3. ReadsOn(addr, len, e, 0..len)
        BY <3>1, <3>2 DEF ReadsOn
      <3>. QED BY <2>2, <3>3
    <2>4. CASE kernel = "whole"
      <3>1. CASE PageOf(e) = PageOf(addr) /\ e < addr + ChunkSize
        BY <2>1, <2>2, <3>1, FirstChunkReads
      <3>2. CASE addr % ChunkSize = 0
        BY <2>1, <2>2, <3>2, AlignedChunksRead
      <3>3. CASE Mapped(PageSize * (PageOf(e) + 1), PageSize)
        BY <2>1, <2>2, <3>3, NextPageReads
      <3>. QED BY <2>4, <3>1, <3>2, <3>3 DEF ReadableFor
    <2>. QED BY <2>3, <2>4
  <1>6. AreRead(addr, len, read)
    BY <1>2 DEF ToldTruly, AreRead
  <1>. QED BY <1>1, <1>3, <1>4, <1>5, <1>6 DEF read

LEMMA umovestrRight ==
    ASSUME memory \in DOMAIN Calls, kernel \in {"none", "whole", "pages"},
           NEW addr \in Nat, NEW len \in Nat
    PROVE  /\ Finds(addr, len, umovestr(addr, len))
           /\ Tells(addr, len, umovestr(addr, len))
           /\ HasNone(addr, len, umovestr(addr, len))
           /\ AreRead(addr, len, umovestr(addr, len))
  <1>1. CASE kernel = "none"
    <2>1. umovestr(addr, len) = PeekString(addr, len)
      BY <1>1 DEF umovestr
    <2>. QED BY <1>1, <2>1, PeekStringRight
  <1>2. CASE kernel \in {"whole", "pages"}
    <2>1. umovestr(addr, len) = ReadChunks(addr, len)
      BY <1>2 DEF umovestr
    <2>. QED BY <1>2, <2>1, ReadChunksRight
  <1>. QED BY <1>1, <1>2

-----------------------------------------------------------------------------
(* How a byte is quoted and read again                                       *)

Byte == 0..255
OctalDigit == 48..55

LEMMA LettersAre ==
    /\ DOMAIN Letters = 9..13
    /\ Letters[9] = 116 /\ Letters[10] = 110 /\ Letters[11] = 118 /\ Letters[12] = 102
    /\ Letters[13] = 114
    /\ Range(Letters) = {116, 110, 118, 102, 114}
  <1>1. DOMAIN Letters = 9..13
    BY DEF Letters
  <1>2. /\ Letters[9] = 116 /\ Letters[10] = 110 /\ Letters[11] = 118 /\ Letters[12] = 102
        /\ Letters[13] = 114
    BY DEF Letters
  <1>3. 9..13 = {9, 10, 11, 12, 13}
    OBVIOUS
  <1>4. Range(Letters) = {Letters[c] : c \in 9..13}
    BY <1>1 DEF Range
  <1>5. Range(Letters) = {116, 110, 118, 102, 114}
    BY <1>2, <1>3, <1>4
  <1>. QED BY <1>1, <1>2, <1>5

LEMMA LettersDiffer ==
    /\ \A c \in 9..13 : Letters[c] \in {116, 110, 118, 102, 114}
    /\ \A d, e \in DOMAIN Letters : Letters[d] = Letters[e] => d = e
  <1>1. 9..13 = {9, 10, 11, 12, 13}
    OBVIOUS
  <1>2. \A c \in 9..13 : Letters[c] \in {116, 110, 118, 102, 114}
    BY <1>1, LettersAre
  <1>3. ASSUME NEW d \in 9..13, NEW e \in 9..13, Letters[d] = Letters[e] PROVE d = e
    BY <1>1, <1>3, LettersAre
  <1>. QED BY <1>2, <1>3, LettersAre

\* The text of p begins at i in s.
IsAt(p, s, i) == \A k \in 1..Len(p) : i + k - 1 <= Len(s) /\ s[i + k - 1] = p[k]

LEMMA HexedIs ==
    ASSUME NEW c \in Byte
    PROVE  /\ Hexed(c) \in Seq(Byte) /\ Len(Hexed(c)) = 4
           /\ Hexed(c)[1] = 92 /\ Hexed(c)[2] = 120
           /\ DigitOf(Hexed(c)[3]) = c \div 16 /\ DigitOf(Hexed(c)[4]) = c % 16
  <1>. DEFINE high == c \div 16
              low == c % 16
  <1>1. high \in 0..15 /\ low \in 0..15
    BY DEF Byte
  <1>. HIDE DEF high, low
  <1>2. \A d \in 0..15 : HexDigit(d) \in Byte /\ DigitOf(HexDigit(d)) = d
    BY DEF HexDigit, DigitOf, Byte
  <1>3. Hexed(c) = <<92, 120, HexDigit(high), HexDigit(low)>>
    BY DEF Hexed, Backslash, high, low
  <1>. DEFINE x == HexDigit(high)
              y == HexDigit(low)
  <1>4. 92 \in Byte /\ 120 \in Byte /\ x \in Byte /\ y \in Byte
    BY <1>1, <1>2 DEF Byte
  <1>5. DigitOf(x) = high /\ DigitOf(y) = low
    BY <1>1, <1>2
  <1>. HIDE DEF x, y
  <1>6. <<92, 120, x, y>> \in Seq(Byte) /\ Len(<<92, 120, x, y>>) = 4
    BY <1>4
  <1>7. /\ <<92, 120, x, y>>[1] = 92 /\ <<92, 120, x, y>>[2] = 120
        /\ <<92, 120, x, y>>[3] = x /\ <<92, 120, x, y>>[4] = y
    OBVIOUS
  <1>8. Hexed(c) = <<92, 120, x, y>>
    BY <1>3 DEF x, y
  <1>. QED BY <1>5, <1>6, <1>7, <1>8 DEF high, low

LEMMA HexedRead ==
    ASSUME NEW c \in Byte, NEW s \in Seq(Byte), NEW i \in 1..Len(s), IsAt(Hexed(c), s, i)
    PROVE  ByteAt(s, i) = [byte |-> c, length |-> 4]
  <1>1. s[i] = 92 /\ s[i + 1] = 120 /\ s[i + 2] = Hexed(c)[3] /\ s[i + 3] = Hexed(c)[4]
    <2>. DEFINE p == Hexed(c)
    <2>0. Len(p) = 4 /\ p[1] = 92 /\ p[2] = 120
      BY HexedIs, ZenonT(40)
    <2>1. \A k \in 1..4 : s[i + k - 1] = p[k]
      BY <2>0 DEF IsAt
    <2>2. i + 1 - 1 = i /\ i + 2 - 1 = i + 1 /\ i + 3 - 1 = i + 2 /\ i + 4 - 1 = i + 3
      OBVIOUS
    <2>3. 1 \in 1..4 /\ 2 \in 1..4 /\ 3 \in 1..4 /\ 4 \in 1..4
      OBVIOUS
    <2>. HIDE DEF p
    <2>4. s[i] = p[1] /\ s[i + 1] = p[2] /\ s[i + 2] = p[3] /\ s[i + 3] = p[4]
      BY <2>1, <2>2, <2>3
    <2>5. s[i] = 92 /\ s[i + 1] = 120 /\ s[i + 2] = p[3] /\ s[i + 3] = p[4]
      BY <2>0, <2>4
    <2>. QED BY <2>5 DEF p
  <1>2. 16 * (c \div 16) + (c % 16) = c
    BY DEF Byte
  <1>3. 16 * DigitOf(s[i + 2]) + DigitOf(s[i + 3]) = c
    BY <1>1, <1>2, HexedIs
  <1>4. 120 \notin {Quote, Backslash} /\ 120 \notin Range(Letters)
    BY LettersAre DEF Quote, Backslash
  <1>. QED BY <1>1, <1>3, <1>4 DEF ByteAt, Backslash

LEMMA DigitsOf ==
    ASSUME NEW c \in Byte
    PROVE  /\ c \div 64 \in 0..3 /\ (c \div 8) % 8 \in 0..7 /\ c % 8 \in 0..7
           /\ 64 * (c \div 64) + 8 * ((c \div 8) % 8) + (c % 8) = c
           /\ c < 64 => 8 * ((c \div 8) % 8) + (c % 8) = c
           /\ c < 8 => c % 8 = c
  <1>. DEFINE e == c \div 8
              low == c % 8
              high == e \div 8
              middle == e % 8
  <1>1. e \in Int /\ c = 8 * e + low /\ low \in 0..7 /\ c \in 0..255
    BY DEF Byte
  <1>. HIDE DEF e, low
  <1>2. high \in Int /\ e = 8 * high + middle /\ middle \in 0..7
    BY <1>1
  <1>. HIDE DEF high, middle
  <1>3. c = 64 * high + 8 * middle + low /\ 64 * high <= c /\ c < 64 * high + 64
    BY <1>1, <1>2
  <1>4. c \div 64 = high
    BY <1>1, <1>2, <1>3, DividedOnce
  <1>5. high \in 0..3 /\ (c < 64 => high = 0) /\ (c < 8 => high = 0 /\ middle = 0)
    BY <1>1, <1>2, <1>3
  <1>6. /\ high \in 0..3 /\ middle \in 0..7 /\ low \in 0..7
        /\ 64 * high + 8 * middle + low = c
        /\ c < 64 => 8 * middle + low = c
        /\ c < 8 => low = c
    BY <1>1, <1>2, <1>3, <1>5
  <1>. QED BY <1>4, <1>6 DEF middle, low, e

LEMMA OctalIs ==
    ASSUME NEW c \in Byte, NEW n \in 1..3
    PROVE  /\ Octal(c, n) \in Seq(Byte) /\ Len(Octal(c, n)) = n + 1
           /\ Octal(c, n)[1] = 92
           /\ \A k \in 2..(n + 1) : Octal(c, n)[k] \in OctalDigit
           /\ n = 1 => Octal(c, n)[2] = 48 + (c % 8)
           /\ n = 2 => /\ Octal(c, n)[2] = 48 + ((c \div 8) % 8)
                       /\ Octal(c, n)[3] = 48 + (c % 8)
           /\ n = 3 => /\ Octal(c, n)[2] = 48 + (c \div 64)
                       /\ Octal(c, n)[3] = 48 + ((c \div 8) % 8)
                       /\ Octal(c, n)[4] = 48 + (c % 8)
  <1>. DEFINE a == 48 + (c \div 64)
              b == 48 + ((c \div 8) % 8)
              d == 48 + (c % 8)
              t == <<a, b, d>>
  <1>1. a \in OctalDigit /\ b \in OctalDigit /\ d \in OctalDigit
    BY DEF Byte, OctalDigit
  <1>2. Octal(c, n) = <<92>> \o SubSeq(t, 4 - n, 3)
    BY DEF Octal, Backslash
  <1>. HIDE DEF a, b, d
  <1>3. t \in Seq(OctalDigit) /\ Len(t) = 3 /\ t[1] = a /\ t[2] = b /\ t[3] = d
    BY <1>1
  <1>. HIDE DEF t
  <1>. DEFINE u == SubSeq(t, 4 - n, 3)
  <1>4. u \in Seq(OctalDigit) /\ Len(u) = n /\ \A k \in 1..n : u[k] = t[(4 - n) + k - 1]
    BY <1>3, SMTT(30)
  <1>. HIDE DEF u
  <1>5. /\ Len(Octal(c, n)) = n + 1 /\ Octal(c, n)[1] = 92
        /\ \A k \in 2..(n + 1) : Octal(c, n)[k] = u[k - 1]
    BY <1>2, <1>4 DEF u
  <1>6. Octal(c, n) \in Seq(Byte)
    <2>1. OctalDigit \subseteq Byte /\ 92 \in Byte
      BY DEF OctalDigit, Byte
    <2>2. u \in Seq(Byte) /\ <<92>> \in Seq(Byte)
      BY <1>4, <2>1
    <2>. QED BY <1>2, <2>2 DEF u
  <1>. DEFINE p == Octal(c, n)
  <1>. HIDE DEF p
  <1>7. \A k \in 2..(n + 1) : p[k] = t[(4 - n) + k - 2]
    BY <1>4, <1>5 DEF p
  <1>8. \A k \in 2..(n + 1) : p[k] \in OctalDigit
    <2>. TAKE k \in 2..(n + 1)
    <2>1. (4 - n) + k - 2 \in 1..3
      OBVIOUS
    <2>2. \A j \in 1..3 : t[j] \in OctalDigit
      BY <1>3, SMTT(30)
    <2>. QED BY <1>7, <2>1, <2>2
  <1>9. ASSUME n = 1 PROVE p[2] = d
    <2>1. (4 - n) + 2 - 2 = 3 /\ 2 \in 2..(n + 1)
      BY <1>9
    <2>. QED BY <1>3, <1>7, <2>1
  <1>10. ASSUME n = 2 PROVE p[2] = b /\ p[3] = d
    <2>1. /\ (4 - n) + 2 - 2 = 2 /\ 2 \in 2..(n + 1)
          /\ (4 - n) + 3 - 2 = 3 /\ 3 \in 2..(n + 1)
      BY <1>10
    <2>. QED BY <1>3, <1>7, <2>1
  <1>11. ASSUME n = 3 PROVE p[2] = a /\ p[3] = b /\ p[4] = d
    <2>1. /\ (4 - n) + 2 - 2 = 1 /\ 2 \in 2..(n + 1)
          /\ (4 - n) + 3 - 2 = 2 /\ 3 \in 2..(n + 1)
          /\ (4 - n) + 4 - 2 = 3 /\ 4 \in 2..(n + 1)
      BY <1>11
    <2>. QED BY <1>3, <1>7, <2>1
  <1>. QED BY <1>5, <1>6, <1>8, <1>9, <1>10, <1>11 DEF a, b, d, p

\* What follows a number of less than three digits is not taken for one.
LEMMA OctalRead ==
    ASSUME NEW c \in Byte, NEW n \in 1..3, n = 1 => c < 8, n = 2 => c < 64,
           NEW s \in Seq(Byte), NEW i \in 1..Len(s), IsAt(Octal(c, n), s, i),
           n < 3 => i + n + 1 > Len(s) \/ s[i + n + 1] \notin OctalDigit
    PROVE  ByteAt(s, i) = [byte |-> c, length |-> n + 1]
  <1>. DEFINE p == Octal(c, n)
  <1>. HIDE DEF p
  <1>0. /\ Len(p) = n + 1 /\ p[1] = 92 /\ \A k \in 2..(n + 1) : p[k] \in OctalDigit
        /\ n = 1 => p[2] = 48 + (c % 8)
        /\ n = 2 => p[2] = 48 + ((c \div 8) % 8) /\ p[3] = 48 + (c % 8)
        /\ n = 3 => /\ p[2] = 48 + (c \div 64) /\ p[3] = 48 + ((c \div 8) % 8)
                    /\ p[4] = 48 + (c % 8)
    <2>1. Len(p) = n + 1 /\ p[1] = 92 /\ \A k \in 2..(n + 1) : p[k] \in OctalDigit
      BY OctalIs, ZenonT(40) DEF p
    <2>2. n = 1 => p[2] = 48 + (c % 8)
      BY OctalIs, ZenonT(40) DEF p
    <2>3. n = 2 => p[2] = 48 + ((c \div 8) % 8) /\ p[3] = 48 + (c % 8)
      BY OctalIs, ZenonT(40) DEF p
    <2>4. n = 3 => /\ p[2] = 48 + (c \div 64) /\ p[3] = 48 + ((c \div 8) % 8)
                   /\ p[4] = 48 + (c % 8)
      BY OctalIs, ZenonT(40) DEF p
    <2>. QED BY <2>1, <2>2, <2>3, <2>4
  <1>1. \A k \in 1..(n + 1) : i + k - 1 <= Len(s) /\ s[i + k - 1] = p[k]
    BY <1>0 DEF IsAt, p
  <1>2. s[i] = 92 /\ s[i + 1] = p[2] /\ i + 1 <= Len(s) /\ s[i + 1] \in OctalDigit
    <2>1. 1 \in 1..(n + 1) /\ 2 \in 1..(n + 1) /\ 2 \in 2..(n + 1)
      OBVIOUS
    <2>2. i + 1 - 1 = i /\ i + 2 - 1 = i + 1
      OBVIOUS
    <2>. QED BY <1>0, <1>1, <2>1, <2>2
  <1>3. n >= 2 => s[i + 2] = p[3] /\ i + 2 <= Len(s) /\ s[i + 2] \in OctalDigit
    <2>. SUFFICES ASSUME n >= 2
                  PROVE s[i + 2] = p[3] /\ i + 2 <= Len(s) /\ s[i + 2] \in OctalDigit
      OBVIOUS
    <2>1. 3 \in 1..(n + 1) /\ 3 \in 2..(n + 1) /\ i + 3 - 1 = i + 2
      OBVIOUS
    <2>. QED BY <1>0, <1>1, <2>1, SMTT(30)
  <1>4. n = 3 => s[i + 3] = p[4] /\ i + 3 <= Len(s) /\ s[i + 3] \in OctalDigit
    <2>. SUFFICES ASSUME n = 3
                  PROVE s[i + 3] = p[4] /\ i + 3 <= Len(s) /\ s[i + 3] \in OctalDigit
      OBVIOUS
    <2>1. 4 \in 1..(n + 1) /\ 4 \in 2..(n + 1) /\ i + 4 - 1 = i + 3
      OBVIOUS
    <2>. QED BY <1>0, <1>1, <2>1
  <1>5. OctalDigits(s, i + 1) = n
    <2>1. (i + 1) + 1 = i + 2 /\ (i + 1) + 2 = i + 3 /\ i + 1 + 1 = i + 2 /\ i + 2 + 1 = i + 3
      OBVIOUS
    <2>2. n \in {1, 2, 3}
      OBVIOUS
    <2>3. CASE n = 1
      BY <2>1, <2>3 DEF OctalDigits, OctalDigit
    <2>4. CASE n = 2
      BY <1>3, <2>1, <2>4 DEF OctalDigits, OctalDigit
    <2>5. CASE n = 3
      BY <1>3, <1>4, <2>1, <2>5 DEF OctalDigits, OctalDigit
    <2>. QED BY <2>2, <2>3, <2>4, <2>5
  <1>. DEFINE value == IF n = 1 THEN DigitOf(s[i + 1])
                       ELSE IF n = 2 THEN 8 * DigitOf(s[i + 1]) + DigitOf(s[i + 2])
                       ELSE 64 * DigitOf(s[i + 1]) + 8 * DigitOf(s[i + 2]) + DigitOf(s[i + 3])
  <1>6. value = c
    <2>. DEFINE high == c \div 64
                middle == (c \div 8) % 8
                low == c % 8
    <2>1. /\ high \in 0..7 /\ middle \in 0..7 /\ low \in 0..7
          /\ n = 1 => low = c
          /\ n = 2 => 8 * middle + low = c
          /\ 64 * high + 8 * middle + low = c
      BY DigitsOf
    <2>2. /\ n = 1 => s[i + 1] = 48 + low
          /\ n = 2 => s[i + 1] = 48 + middle /\ s[i + 2] = 48 + low
          /\ n = 3 => s[i + 1] = 48 + high /\ s[i + 2] = 48 + middle /\ s[i + 3] = 48 + low
      <3>. HIDE DEF high, middle, low
      <3>1. /\ n = 1 => p[2] = 48 + low
            /\ n = 2 => p[2] = 48 + middle /\ p[3] = 48 + low
            /\ n = 3 => p[2] = 48 + high /\ p[3] = 48 + middle /\ p[4] = 48 + low
        BY <1>0 DEF high, middle, low
      <3>. QED BY <1>2, <1>3, <1>4, <3>1
    <2>. HIDE DEF high, middle, low
    <2>3. /\ DigitOf(48 + high) = high /\ DigitOf(48 + middle) = middle
          /\ DigitOf(48 + low) = low
      BY <2>1 DEF DigitOf
    <2>4. n \in {1, 2, 3}
      OBVIOUS
    <2>. QED BY <2>1, <2>2, <2>3, <2>4
  <1>. HIDE DEF value
  <1>7. /\ s[i + 1] \notin {Quote, Backslash} /\ s[i + 1] \notin Range(Letters)
        /\ s[i + 1] # 120
    <2>1. \A x \in OctalDigit : x \notin {34, 92} /\ x \notin {116, 110, 118, 102, 114} /\ x # 120
      BY DEF OctalDigit
    <2>2. Range(Letters) = {116, 110, 118, 102, 114}
      BY LettersAre
    <2>. QED BY <1>2, <2>1, <2>2, ZenonT(40) DEF Quote, Backslash
  <1>8. ByteAt(s, i) = [byte |-> value, length |-> n + 1]
    BY <1>2, <1>5, <1>7 DEF ByteAt, Backslash, value
  <1>. QED BY <1>6, <1>8

LEMMA EscapedCases ==
    ASSUME NEW c \in Byte, NEW next \in Byte
    PROVE  \/ c \in {34, 92} /\ Escaped(c, next) = <<92, c>>
           \/ c \in 9..13 /\ Escaped(c, next) = <<92, Letters[c]>>
           \/ c \in (32..126) \ {34, 92} /\ Escaped(c, next) = <<c>>
           \/ \E n \in 1..3 : /\ Escaped(c, next) = Octal(c, n)
                              /\ n = 1 => c < 8
                              /\ n = 2 => c < 64
                              /\ n < 3 => next \notin Digits
  <1>1. DOMAIN Letters = 9..13
    BY LettersAre
  <1>2. CASE c \in {34, 92}
    <2>1. c \in 32..126 /\ c \notin 9..13 /\ c \notin (32..126) \ {34, 92}
      BY <1>2
    <2>. QED BY <1>1, <1>2, <2>1 DEF Escaped, EscapedShort, Quote, Backslash
  <1>3. CASE c \in 9..13
    <2>1. c \notin {34, 92}
      BY <1>3
    <2>2. c \notin 32..126
      BY <1>3
    <2>. QED BY <1>1, <1>3, <2>1, <2>2 DEF Escaped, EscapedShort, Quote, Backslash
  <1>4. CASE c \in (32..126) \ {34, 92}
    <2>1. c \notin 9..13
      BY <1>4
    <2>. QED BY <1>1, <1>4, <2>1 DEF Escaped, EscapedShort, Quote, Backslash
  <1>5. CASE c \notin 32..126 \cup 9..13
    <2>1. c \notin {34, 92}
      BY <1>5
    <2>2. CASE next \in Digits
      <3>1. Escaped(c, next) = Octal(c, 3)
        BY <1>1, <1>5, <2>2 DEF Escaped
      <3>. QED BY <3>1
    <2>3. CASE next \notin Digits
      <3>. DEFINE n == IF c >= 64 THEN 3 ELSE IF c >= 8 THEN 2 ELSE 1
      <3>1. Escaped(c, next) = Octal(c, n)
        BY <1>1, <1>5, <2>1, <2>3 DEF Escaped, EscapedShort, Quote, Backslash
      <3>2. n \in 1..3 /\ (n = 1 => c < 8) /\ (n = 2 => c < 64)
        BY DEF Byte
      <3>. HIDE DEF n
      <3>. QED BY <2>3, <3>1, <3>2
    <2>. QED BY <2>2, <2>3
  <1>. QED BY <1>2, <1>3, <1>4, <1>5

LEMMA EscapedIs ==
    ASSUME NEW c \in Byte, NEW next \in Byte
    PROVE  /\ Escaped(c, next) \in Seq(Byte) /\ Len(Escaped(c, next)) \in 1..4
           /\ Escaped(c, next)[1] \in OctalDigit => c \in Digits
  <1>. DEFINE p == Escaped(c, next)
  <1>0. 92 \in Byte /\ 92 \notin OctalDigit
    BY DEF Byte, OctalDigit
  <1>1. CASE c \in {34, 92} /\ p = <<92, c>>
    <2>1. p \in Seq(Byte) /\ Len(p) = 2 /\ p[1] = 92
      BY <1>0, <1>1
    <2>. QED BY <1>0, <2>1
  <1>2. CASE c \in 9..13 /\ p = <<92, Letters[c]>>
    <2>1. Letters[c] \in Byte
      BY <1>2, LettersDiffer DEF Byte
    <2>2. p \in Seq(Byte) /\ Len(p) = 2 /\ p[1] = 92
      BY <1>0, <1>2, <2>1
    <2>. QED BY <1>0, <2>2
  <1>3. CASE p = <<c>>
    <2>1. p \in Seq(Byte) /\ Len(p) = 1 /\ p[1] = c
      BY <1>3
    <2>. QED BY <2>1 DEF OctalDigit, Digits
  <1>4. CASE \E n \in 1..3 : p = Octal(c, n)
    <2>1. PICK n \in 1..3 : p = Octal(c, n)
      BY <1>4
    <2>. DEFINE o == Octal(c, n)
    <2>2. o \in Seq(Byte) /\ Len(o) = n + 1 /\ o[1] = 92
      BY OctalIs, ZenonT(40)
    <2>. HIDE DEF o, p
    <2>3. p = o
      BY <2>1 DEF o
    <2>. QED BY <1>0, <2>2, <2>3 DEF p
  <1>5. \/ c \in {34, 92} /\ p = <<92, c>>
        \/ c \in 9..13 /\ p = <<92, Letters[c]>>
        \/ p = <<c>>
        \/ \E n \in 1..3 : p = Octal(c, n)
    BY EscapedCases, Zenon
  <1>. QED BY <1>1, <1>2, <1>3, <1>4, <1>5, Zenon

\* A byte is read as it was escaped, if the next byte is the one it was escaped for.
LEMMA EscapedRead ==
    ASSUME NEW c \in Byte, NEW next \in Byte, NEW s \in Seq(Byte), NEW i \in 1..Len(s),
           IsAt(Escaped(c, next), s, i),
           LET after == i + Len(Escaped(c, next))
           IN  after > Len(s) \/ (s[after] \in OctalDigit => next \in Digits)
    PROVE  ByteAt(s, i) = [byte |-> c, length |-> Len(Escaped(c, next))]
  <1>. DEFINE p == Escaped(c, next)
  <1>. SUFFICES ByteAt(s, i) = [byte |-> c, length |-> Len(p)]
    OBVIOUS
  <1>0. i + 1 - 1 = i /\ i + 2 - 1 = i + 1
    OBVIOUS
  <1>5. /\ IsAt(p, s, i)
        /\ i + Len(p) > Len(s) \/ (s[i + Len(p)] \in OctalDigit => next \in Digits)
    OBVIOUS
  <1>6. \/ c \in {34, 92} /\ p = <<92, c>>
        \/ c \in 9..13 /\ p = <<92, Letters[c]>>
        \/ c \in (32..126) \ {34, 92} /\ p = <<c>>
        \/ \E n \in 1..3 : /\ p = Octal(c, n)
                           /\ n = 1 => c < 8
                           /\ n = 2 => c < 64
                           /\ n < 3 => next \notin Digits
    BY EscapedCases, Zenon
  <1>. HIDE DEF p
  <1>1. CASE c \in {34, 92} /\ p = <<92, c>>
    <2>1. Len(p) = 2 /\ p[1] = 92 /\ p[2] = c
      BY <1>1
    <2>2. s[i] = 92 /\ s[i + 1] = c
      BY <1>0, <1>5, <2>1 DEF IsAt
    <2>3. c \notin Range(Letters) /\ c # 120
      BY <1>1, LettersAre
    <2>4. ByteAt(s, i) = [byte |-> c, length |-> 2]
      BY <1>1, <2>2, <2>3 DEF ByteAt, Quote, Backslash
    <2>. QED BY <2>1, <2>4
  <1>2. CASE c \in 9..13 /\ p = <<92, Letters[c]>>
    <2>1. Len(p) = 2 /\ p[1] = 92 /\ p[2] = Letters[c]
      BY <1>2
    <2>2. s[i] = 92 /\ s[i + 1] = Letters[c]
      BY <1>0, <1>5, <2>1 DEF IsAt
    <2>3. /\ Letters[c] \in {116, 110, 118, 102, 114}
          /\ (CHOOSE d \in DOMAIN Letters : Letters[d] = s[i + 1]) = c
      <3>1. c \in DOMAIN Letters /\ s[i + 1] = Letters[c]
        BY <1>2, <2>2, LettersAre
      <3>2. (CHOOSE d \in DOMAIN Letters : Letters[d] = s[i + 1]) = c
        BY <3>1, LettersDiffer, ZenonT(40)
      <3>. QED BY <1>2, <3>2, LettersDiffer
    <2>4. Letters[c] \notin {34, 92} /\ Letters[c] \in Range(Letters) /\ Letters[c] # 120
      BY <2>3, LettersAre, SMTT(30)
    <2>5. ByteAt(s, i) = [byte |-> c, length |-> 2]
      BY <2>2, <2>3, <2>4 DEF ByteAt, Quote, Backslash
    <2>. QED BY <2>1, <2>5
  <1>3. CASE c \in (32..126) \ {34, 92} /\ p = <<c>>
    <2>1. Len(p) = 1 /\ p[1] = c
      BY <1>3
    <2>2. s[i] = c
      BY <1>0, <1>5, <2>1 DEF IsAt
    <2>3. ByteAt(s, i) = [byte |-> c, length |-> 1]
      BY <1>3, <2>2 DEF ByteAt, Backslash
    <2>. QED BY <2>1, <2>3
  <1>4. CASE \E n \in 1..3 : /\ p = Octal(c, n)
                             /\ n = 1 => c < 8
                             /\ n = 2 => c < 64
                             /\ n < 3 => next \notin Digits
    <2>1. PICK n \in 1..3 : /\ p = Octal(c, n)
                            /\ n = 1 => c < 8
                            /\ n = 2 => c < 64
                            /\ n < 3 => next \notin Digits
      BY <1>4, Zenon
    <2>2. Len(Octal(c, n)) = n + 1
      BY OctalIs, Zenon
    <2>3. Len(p) = n + 1
      BY <2>1, <2>2, Zenon
    <2>4. i + Len(p) = i + n + 1
      BY <2>3
    <2>5. n < 3 => i + n + 1 > Len(s) \/ s[i + n + 1] \notin OctalDigit
      BY <1>5, <2>1, <2>4
    <2>6. IsAt(Octal(c, n), s, i)
      BY <1>5, <2>1
    <2>7. ByteAt(s, i) = [byte |-> c, length |-> n + 1]
      BY <2>1, <2>5, <2>6, OctalRead
    <2>. QED BY <2>3, <2>7
  <1>. QED BY <1>6, <1>1, <1>2, <1>3, <1>4, Zenon

-----------------------------------------------------------------------------
(* The text of several bytes                                                 *)

\* Where the texts of the bytes are in the whole text: the k-th begins at at[k].
LaidOut(seqs, n, s, at) ==
    /\ s \in Seq(Byte)
    /\ at[1] = 1 /\ at[n + 1] = Len(s) + 1
    /\ \A k \in 1..n : at[k + 1] = at[k] + Len(seqs[k]) /\ IsAt(seqs[k], s, at[k])
    /\ \A k \in 1..(n + 1) : at[k] \in 1..(Len(s) + 1)

LEMMA FlattenSolved ==
    ASSUME NEW seqs, NEW n \in Nat
    PROVE  LET f == CHOOSE f : f = [i \in 1..n |-> IF i = 1 THEN seqs[i] ELSE f[i - 1] \o seqs[i]]
           IN  f = [i \in 1..n |-> IF i = 1 THEN seqs[i] ELSE f[i - 1] \o seqs[i]]
  <1>. DEFINE t(f, i) == IF i = 1 THEN seqs[i] ELSE f[i - 1] \o seqs[i]
              Solves(f, k) == \A i \in 1..k : f[i] = t(f, i)
              T == {k \in Nat : \E f : f = [i \in 1..n |-> f[i]] /\ (k <= n => Solves(f, k))}
  <1>1. 0 \in T
    <2>. DEFINE f == [i \in 1..n |-> 0]
    <2>1. f = [i \in 1..n |-> f[i]] /\ Solves(f, 0)
      OBVIOUS
    <2>. QED BY <2>1
  <1>2. ASSUME NEW k \in Nat, k \in T PROVE k + 1 \in T
    <2>. SUFFICES ASSUME k + 1 <= n
                  PROVE  \E f : f = [i \in 1..n |-> f[i]] /\ Solves(f, k + 1)
      BY <1>2
    <2>1. PICK f : f = [i \in 1..n |-> f[i]] /\ Solves(f, k)
      BY <1>2
    <2>. DEFINE g == [i \in 1..n |-> IF i = k + 1 THEN t(f, i) ELSE f[i]]
    <2>2. /\ g = [i \in 1..n |-> g[i]] /\ g[k + 1] = t(f, k + 1)
          /\ \A i \in 1..k : g[i] = f[i]
      <3>1. k + 1 \in 1..n /\ \A i \in 1..k : i \in 1..n /\ i # k + 1
        OBVIOUS
      <3>. HIDE DEF t
      <3>2. g = [i \in 1..n |-> g[i]]
        OBVIOUS
      <3>3. g[k + 1] = t(f, k + 1)
        BY <3>1
      <3>4. \A i \in 1..k : g[i] = f[i]
        BY <3>1
      <3>. QED BY <3>2, <3>3, <3>4
    <2>. HIDE DEF g
    <2>3. ASSUME NEW i \in 1..(k + 1) PROVE g[i] = t(g, i)
      <3>1. i = 1 \/ i - 1 \in 1..k
        OBVIOUS
      <3>2. t(g, i) = t(f, i)
        BY <2>2, <3>1
      <3>3. i = k + 1 \/ i \in 1..k
        OBVIOUS
      <3>. QED BY <2>1, <2>2, <3>2, <3>3
    <2>. QED BY <2>2, <2>3
  <1>3. n \in T
    <2>. HIDE DEF T
    <2>. QED BY <1>1, <1>2, Induction
  <1>4. PICK f : f = [i \in 1..n |-> f[i]] /\ Solves(f, n)
    BY <1>3
  <1>5. f = [i \in 1..n |-> t(f, i)]
    <2>1. \A i \in 1..n : f[i] = t(f, i)
      BY <1>4
    <2>. HIDE DEF t
    <2>. QED BY <1>4, <2>1, Zenon
  <1>6. \E g : g = [i \in 1..n |-> IF i = 1 THEN seqs[i] ELSE g[i - 1] \o seqs[i]]
    BY <1>5
  <1>. QED BY <1>6, Zenon

\* What is at a place of a text is there also when the text goes on.
LEMMA IsAtOn ==
    ASSUME NEW p \in Seq(Byte), NEW s \in Seq(Byte), NEW t \in Seq(Byte)
    PROVE  /\ \A i \in Nat \ {0} : IsAt(p, s, i) => IsAt(p, s \o t, i)
           /\ IsAt(t, s \o t, Len(s) + 1)
  <1>. DEFINE u == s \o t
  <1>1. Len(u) = Len(s) + Len(t) /\ Len(s) \in Nat /\ Len(t) \in Nat /\ Len(p) \in Nat
    OBVIOUS
  <1>2. \A i \in 1..(Len(s) + Len(t)) : u[i] = IF i <= Len(s) THEN s[i] ELSE t[i - Len(s)]
    BY ConcatProperties, Zenon
  <1>. HIDE DEF u
  <1>3. ASSUME NEW i \in Nat \ {0}, IsAt(p, s, i) PROVE IsAt(p, u, i)
    <2>. SUFFICES ASSUME NEW k \in 1..Len(p)
                  PROVE  i + k - 1 <= Len(u) /\ u[i + k - 1] = p[k]
      BY DEF IsAt
    <2>. DEFINE j == i + k - 1
    <2>1. j <= Len(s) /\ s[j] = p[k]
      BY <1>3 DEF IsAt
    <2>2. j \in Nat \ {0}
      BY <1>1
    <2>. HIDE DEF j
    <2>3. j \in 1..(Len(s) + Len(t)) /\ j <= Len(u)
      BY <1>1, <2>1, <2>2
    <2>4. u[j] = s[j]
      BY <1>2, <2>1, <2>3
    <2>5. j <= Len(u) /\ u[j] = p[k]
      BY <2>1, <2>3, <2>4
    <2>. QED BY <2>5 DEF j
  <1>4. IsAt(t, u, Len(s) + 1)
    <2>. SUFFICES ASSUME NEW k \in 1..Len(t)
                  PROVE  /\ (Len(s) + 1) + k - 1 <= Len(u)
                         /\ u[(Len(s) + 1) + k - 1] = t[k]
      BY DEF IsAt
    <2>1. (Len(s) + 1) + k - 1 = Len(s) + k /\ (Len(s) + k) - Len(s) = k
      BY <1>1
    <2>2. Len(s) + k \in 1..(Len(s) + Len(t)) /\ ~ (Len(s) + k <= Len(s))
      BY <1>1
    <2>. QED BY <1>1, <1>2, <2>1, <2>2
  <1>. QED BY <1>3, <1>4 DEF u

\* The parts of a flattened sequence are laid out one after another in it.
LEMMA Flattened ==
    ASSUME NEW seqs \in Seq(Seq(Byte))
    PROVE  \E at : LaidOut(seqs, Len(seqs), FlattenSeq(seqs), at)
  <1>. DEFINE n == Len(seqs)
              f == CHOOSE f : f = [i \in 1..n |-> IF i = 1 THEN seqs[i] ELSE f[i - 1] \o seqs[i]]
              g(k) == IF k = 0 THEN << >> ELSE f[k]
              at == [k \in 1..(n + 1) |-> Len(g(k - 1)) + 1]
  <1>1. n \in Nat /\ \A k \in 1..n : seqs[k] \in Seq(Byte)
    OBVIOUS
  <1>2. FlattenSeq(seqs) = g(n)
    <2>1. CASE n = 0
      <3>1. seqs = << >>
        BY <2>1, EmptySeq, Zenon
      <3>. QED BY <2>1, <3>1 DEF FlattenSeq
    <2>2. CASE n # 0
      BY <2>2 DEF FlattenSeq
    <2>. QED BY <2>1, <2>2
  <1>3. f = [i \in 1..n |-> IF i = 1 THEN seqs[i] ELSE f[i - 1] \o seqs[i]]
    BY <1>1, FlattenSolved, Zenon
  <1>. HIDE DEF f, n
  <1>4. ASSUME NEW k \in Nat, k < n, g(k) \in Seq(Byte) PROVE g(k + 1) = g(k) \o seqs[k + 1]
    <2>1. k + 1 \in 1..n /\ (k + 1) - 1 = k /\ k + 1 # 0
      BY <1>1, <1>4
    <2>2. f[k + 1] = IF k + 1 = 1 THEN seqs[k + 1] ELSE f[(k + 1) - 1] \o seqs[k + 1]
      <3>. DEFINE h(i) == IF i = 1 THEN seqs[i] ELSE f[i - 1] \o seqs[i]
      <3>1. f = [i \in 1..n |-> h(i)]
        BY <1>3
      <3>. HIDE DEF h
      <3>2. f[k + 1] = h(k + 1)
        BY <2>1, <3>1
      <3>. QED BY <3>2 DEF h
    <2>3. CASE k = 0
      <3>1. seqs[k + 1] \in Seq(Byte)
        BY <1>1, <2>1
      <3>2. << >> \o seqs[k + 1] = seqs[k + 1]
        BY <3>1, ConcatEmptySeq, Zenon
      <3>. QED BY <2>1, <2>2, <2>3, <3>2
    <2>4. CASE k # 0
      <3>1. k + 1 # 1
        BY <2>4
      <3>2. f[k + 1] = f[(k + 1) - 1] \o seqs[k + 1]
        BY <2>2, <3>1, Zenon
      <3>3. f[(k + 1) - 1] = f[k]
        BY <2>1, Zenon
      <3>4. g(k + 1) = f[k + 1] /\ g(k) = f[k]
        BY <2>1, <2>4, Zenon
      <3>. QED BY <3>2, <3>3, <3>4, Zenon
    <2>. QED BY <2>3, <2>4
  <1>. HIDE DEF g
  <1>5. g(0) = << >>
    BY DEF g
  <1>6. \A k \in 1..(n + 1) : at[k] = Len(g(k - 1)) + 1
    OBVIOUS
  <1>. HIDE DEF at
  <1>. DEFINE Good(k) ==
                  /\ g(k) \in Seq(Byte)
                  /\ \A j \in 1..k : at[j + 1] = at[j] + Len(seqs[j]) /\ IsAt(seqs[j], g(k), at[j])
                  /\ \A j \in 1..(k + 1) : at[j] \in 1..(Len(g(k)) + 1)
              T == {k \in Nat : k <= n => Good(k)}
  <1>7. 0 \in T
    <2>1. at[1] = 1
      BY <1>1, <1>5, <1>6
    <2>2. << >> \in Seq(Byte) /\ Len(<< >>) = 0
      OBVIOUS
    <2>3. \A j \in 1..(0 + 1) : j = 1
      OBVIOUS
    <2>4. \A j \in 1..0 : FALSE
      OBVIOUS
    <2>5. Good(0)
      BY <1>5, <2>1, <2>2, <2>3, <2>4
    <2>. QED BY <2>5
  <1>8. ASSUME NEW k \in Nat, k \in T PROVE k + 1 \in T
    <2>. SUFFICES ASSUME k + 1 <= n PROVE Good(k + 1)
      OBVIOUS
    <2>1. Good(k) /\ k < n /\ k + 1 \in 1..n
      BY <1>1, <1>8
    <2>0. k \in Nat /\ n \in Nat /\ k + 1 <= n
      BY <1>1
    <2>2. g(k + 1) = g(k) \o seqs[k + 1]
      BY <1>4, <2>1
    <2>3. seqs[k + 1] \in Seq(Byte)
      BY <1>1, <2>1
    <2>4. /\ g(k + 1) \in Seq(Byte) /\ Len(g(k + 1)) = Len(g(k)) + Len(seqs[k + 1])
          /\ Len(g(k)) \in Nat /\ Len(seqs[k + 1]) \in Nat
      <3>. DEFINE x == g(k)
                  y == seqs[k + 1]
      <3>1. x \in Seq(Byte) /\ y \in Seq(Byte) /\ g(k + 1) = x \o y
        BY <2>1, <2>2, <2>3
      <3>. HIDE DEF x, y
      <3>2. /\ x \o y \in Seq(Byte) /\ Len(x \o y) = Len(x) + Len(y)
            /\ Len(x) \in Nat /\ Len(y) \in Nat
        BY <3>1
      <3>. QED BY <3>1, <3>2 DEF x, y
    <2>5. at[k + 1] = Len(g(k)) + 1 /\ at[k + 2] = Len(g(k + 1)) + 1
      <3>1. /\ k + 1 \in 1..(n + 1) /\ k + 2 \in 1..(n + 1)
            /\ (k + 1) - 1 = k /\ (k + 2) - 1 = k + 1
        BY <1>1, <2>1
      <3>. QED BY <1>6, <3>1
    <2>6. ASSUME NEW j \in 1..(k + 1)
          PROVE  at[j + 1] = at[j] + Len(seqs[j]) /\ IsAt(seqs[j], g(k + 1), at[j])
      <3>1. CASE j = k + 1
        <4>1. IsAt(seqs[k + 1], g(k + 1), Len(g(k)) + 1)
          BY <2>1, <2>2, <2>3, IsAtOn
        <4>2. j + 1 = k + 2
          BY <3>1
        <4>3. at[k + 2] = at[k + 1] + Len(seqs[k + 1])
          <5>. DEFINE x == Len(g(k))
                      y == Len(seqs[k + 1])
                      z == Len(g(k + 1))
          <5>1. /\ x \in Nat /\ y \in Nat /\ z = x + y
                /\ at[k + 1] = x + 1 /\ at[k + 2] = z + 1
            BY <2>4, <2>5
          <5>. HIDE DEF x, y, z
          <5>2. at[k + 2] = at[k + 1] + y
            BY <5>1
          <5>. QED BY <5>2 DEF y
        <4>. QED BY <2>5, <3>1, <4>1, <4>2, <4>3
      <3>2. CASE j # k + 1
        <4>1. j \in 1..k /\ j \in 1..(k + 1) /\ j \in 1..n
          <5>. HIDE DEF Good
          <5>. QED BY <2>0, <3>2
        <4>2. at[j + 1] = at[j] + Len(seqs[j]) /\ IsAt(seqs[j], g(k), at[j])
          BY <2>1, <4>1
        <4>3. at[j] \in Nat \ {0} /\ seqs[j] \in Seq(Byte)
          <5>1. at[j] \in 1..(Len(g(k)) + 1)
            BY <2>1, <4>1
          <5>. QED BY <1>1, <4>1, <5>1
        <4>4. IsAt(seqs[j], g(k + 1), at[j])
          BY <2>1, <2>2, <2>3, <4>2, <4>3, IsAtOn
        <4>. QED BY <4>2, <4>4
      <3>. QED BY <3>1, <3>2
    <2>7. ASSUME NEW j \in 1..((k + 1) + 1) PROVE at[j] \in 1..(Len(g(k + 1)) + 1)
      <3>1. CASE j \in 1..(k + 1)
        <4>1. at[j] \in 1..(Len(g(k)) + 1)
          BY <2>1, <3>1
        <4>. QED BY <2>4, <4>1, SMTT(40)
      <3>2. CASE j = k + 2
        <4>. DEFINE z == Len(g(k + 1))
        <4>1. z \in Nat /\ at[j] = z + 1
          BY <2>4, <2>5, <3>2
        <4>. HIDE DEF z
        <4>2. at[j] \in 1..(z + 1)
          BY <4>1
        <4>. QED BY <4>2 DEF z
      <3>. QED BY <3>1, <3>2
    <2>. QED BY <2>4, <2>6, <2>7
  <1>9. Good(n)
    <2>1. n \in T
      <3>. HIDE DEF T
      <3>. QED BY <1>1, <1>7, <1>8, Induction
    <2>. HIDE DEF Good
    <2>. QED BY <1>1, <2>1
  <1>10. at[1] = 1 /\ at[n + 1] = Len(g(n)) + 1
    <2>1. /\ 1 \in 1..(n + 1) /\ n + 1 \in 1..(n + 1) /\ 1 - 1 = 0 /\ (n + 1) - 1 = n
      BY <1>1
    <2>2. Len(<< >>) + 1 = 1
      OBVIOUS
    <2>. QED BY <1>5, <1>6, <2>1, <2>2
  <1>11. LaidOut(seqs, n, g(n), at)
    BY <1>9, <1>10 DEF LaidOut
  <1>12. \E a : LaidOut(seqs, n, FlattenSeq(seqs), a)
    BY <1>2, <1>11
  <1>. QED BY <1>12 DEF n

-----------------------------------------------------------------------------
(* What conv_micro reads                                                     *)

LEMMA ByteHasText ==
    ASSUME NEW s, NEW i \in Nat
    PROVE  ByteAt(s, i).length \in Nat \ {0}
  <1>1. OctalDigits(s, i + 1) \in 1..3
    BY DEF OctalDigits
  <1>. DEFINE o == OctalDigits(s, i + 1)
  <1>. HIDE DEF o
  <1>2. ByteAt(s, i).length \in {1, 2, 4, o + 1}
    <2>1. CASE s[i] # Backslash
      BY <2>1 DEF ByteAt
    <2>2. CASE s[i] = Backslash
      <3>1. CASE s[i + 1] \in {Quote, Backslash}
        BY <2>2, <3>1 DEF ByteAt
      <3>2. CASE s[i + 1] \notin {Quote, Backslash} /\ s[i + 1] \in Range(Letters)
        BY <2>2, <3>2 DEF ByteAt
      <3>3. CASE /\ s[i + 1] \notin {Quote, Backslash} /\ s[i + 1] \notin Range(Letters)
                 /\ s[i + 1] = 120
        BY <2>2, <3>3 DEF ByteAt
      <3>4. CASE /\ s[i + 1] \notin {Quote, Backslash} /\ s[i + 1] \notin Range(Letters)
                 /\ s[i + 1] # 120
        BY <2>2, <3>4 DEF ByteAt, o
      <3>. QED BY <3>1, <3>2, <3>3, <3>4
    <2>. QED BY <2>1, <2>2
  <1>. QED BY <1>1, <1>2 DEF o

\* What is read from i on, if f[j] is what is read from every later j on.
Reading(s, f, i) ==
    LET next == i + ByteAt(s, i).length
    IN  IF i > Len(s) THEN << >>
        ELSE <<ByteAt(s, i).byte>> \o (IF next <= Len(s) THEN f[next] ELSE << >>)

LEMMA ReadingLater ==
    ASSUME NEW s, NEW n \in Nat, Len(s) = n, NEW f, NEW g, NEW i \in 1..(n + 1),
           \A j \in (i + 1)..n : f[j] = g[j]
    PROVE  Reading(s, f, i) = Reading(s, g, i)
  <1>. DEFINE next == i + ByteAt(s, i).length
  <1>1. next \in Nat /\ next > i
    <2>1. ByteAt(s, i).length \in Nat \ {0}
      BY ByteHasText
    <2>. QED BY <2>1
  <1>. HIDE DEF next
  <1>2. next <= n => f[next] = g[next]
    BY <1>1
  <1>3. \A h : Reading(s, h, i) = IF i > n THEN << >>
                                 ELSE <<ByteAt(s, i).byte>>
                                        \o (IF next <= n THEN h[next] ELSE << >>)
    BY DEF Reading, next
  <1>4. (IF next <= n THEN f[next] ELSE << >>) = (IF next <= n THEN g[next] ELSE << >>)
    BY <1>2
  <1>. QED BY <1>3, <1>4, Zenon

LEMMA ReadingSolved ==
    ASSUME NEW s, NEW n \in Nat, Len(s) = n
    PROVE  \E f : f = [i \in 1..(n + 1) |-> Reading(s, f, i)]
  <1>. DEFINE Solves(f, k) ==
                  /\ f = [i \in 1..(n + 1) |-> f[i]]
                  /\ \A i \in (n + 1 - k)..(n + 1) : i >= 1 => f[i] = Reading(s, f, i)
              T == {k \in Nat : \E f : Solves(f, k)}
  <1>1. 0 \in T
    <2>. DEFINE f == [i \in 1..(n + 1) |-> Reading(s, 0, i)]
    <2>1. n + 1 \in 1..(n + 1) /\ \A j \in ((n + 1) + 1)..n : FALSE
      OBVIOUS
    <2>2. f = [i \in 1..(n + 1) |-> f[i]] /\ f[n + 1] = Reading(s, 0, n + 1)
      BY <2>1
    <2>. HIDE DEF f
    <2>3. Reading(s, 0, n + 1) = Reading(s, f, n + 1)
      BY <2>1, ReadingLater
    <2>4. \A i \in (n + 1 - 0)..(n + 1) : i = n + 1
      OBVIOUS
    <2>5. Solves(f, 0)
      BY <2>2, <2>3, <2>4
    <2>. QED BY <2>5
  <1>2. ASSUME NEW k \in Nat, k \in T PROVE k + 1 \in T
    <2>1. PICK f : Solves(f, k)
      BY <1>2
    <2>. DEFINE e == n - k
                g == [i \in 1..(n + 1) |-> IF i = e THEN Reading(s, f, i) ELSE f[i]]
    <2>2. /\ g = [i \in 1..(n + 1) |-> g[i]]
          /\ \A i \in 1..(n + 1) : i # e => g[i] = f[i]
          /\ e >= 1 => g[e] = Reading(s, f, e)
      OBVIOUS
    <2>3. e \in Int /\ e = n - k
      OBVIOUS
    <2>. HIDE DEF g, e
    <2>4. ASSUME NEW i \in (n + 1 - (k + 1))..(n + 1), i >= 1 PROVE g[i] = Reading(s, g, i)
      <3>1. i \in 1..(n + 1) /\ e <= i
        BY <2>3, <2>4
      <3>2. \A j \in (i + 1)..n : f[j] = g[j]
        BY <2>2, <2>3, <3>1
      <3>3. Reading(s, f, i) = Reading(s, g, i)
        BY <3>1, <3>2, ReadingLater
      <3>4. CASE i = e
        BY <2>2, <2>4, <3>3, <3>4
      <3>5. CASE i # e
        <4>1. i \in (n + 1 - k)..(n + 1)
          BY <2>3, <3>1, <3>5
        <4>. QED BY <2>1, <2>2, <2>4, <3>1, <3>3, <3>5, <4>1
      <3>. QED BY <3>4, <3>5
    <2>5. Solves(g, k + 1)
      BY <2>2, <2>4
    <2>. QED BY <2>5
  <1>3. n \in T
    <2>. HIDE DEF T
    <2>. QED BY <1>1, <1>2, Induction
  <1>4. PICK f : Solves(f, n)
    BY <1>3
  <1>5. \A i \in 1..(n + 1) : f[i] = Reading(s, f, i)
    <2>1. n + 1 - n = 1
      OBVIOUS
    <2>. QED BY <1>4, <2>1
  <1>6. f = [i \in 1..(n + 1) |-> f[i]]
    BY <1>4
  <1>7. f = [i \in 1..(n + 1) |-> Reading(s, f, i)]
    BY <1>5, <1>6, Zenon
  <1>. QED BY <1>7

LEMMA EvaluatedIs ==
    ASSUME NEW s \in Seq(Byte)
    PROVE  \E f : /\ \A i \in 1..(Len(s) + 1) : f[i] = Reading(s, f, i)
                  /\ Evaluated(s) = f[1]
  <1>. DEFINE f == CHOOSE g : g = [i \in 1..(Len(s) + 1) |-> Reading(s, g, i)]
  <1>1. Evaluated(s) = f[1]
    BY DEF Evaluated, Reading
  <1>2. f = [i \in 1..(Len(s) + 1) |-> Reading(s, f, i)]
    <2>1. Len(s) \in Nat
      OBVIOUS
    <2>2. \E g : g = [i \in 1..(Len(s) + 1) |-> Reading(s, g, i)]
      BY <2>1, ReadingSolved
    <2>. QED BY <2>2, Zenon
  <1>. HIDE DEF f
  <1>3. \A i \in 1..(Len(s) + 1) : f[i] = Reading(s, f, i)
    <2>. DEFINE t(i) == Reading(s, f, i)
    <2>1. f = [i \in 1..(Len(s) + 1) |-> t(i)]
      BY <1>2
    <2>. HIDE DEF t
    <2>2. \A i \in 1..(Len(s) + 1) : f[i] = t(i)
      BY <2>1
    <2>. QED BY <2>2 DEF t
  <1>. QED BY <1>1, <1>3

\* If every piece of a text is read as one byte, the text is read as these bytes.
LEMMA Decoded ==
    ASSUME NEW n \in Nat, NEW seqs, \A k \in 1..n : Len(seqs[k]) \in Nat \ {0},
           NEW shown \in Seq(Byte), Len(shown) = n,
           NEW s, NEW at, LaidOut(seqs, n, s, at),
           \A k \in 1..n : ByteAt(s, at[k]) = [byte |-> shown[k], length |-> Len(seqs[k])]
    PROVE  Evaluated(s) = shown
  <1>1. /\ s \in Seq(Byte) /\ at[1] = 1 /\ at[n + 1] = Len(s) + 1 /\ Len(s) \in Nat
        /\ \A k \in 1..n : at[k + 1] = at[k] + Len(seqs[k])
        /\ \A k \in 1..(n + 1) : at[k] \in 1..(Len(s) + 1)
    BY DEF LaidOut
  <1>2. PICK f : /\ \A i \in 1..(Len(s) + 1) : f[i] = Reading(s, f, i)
                 /\ Evaluated(s) = f[1]
    BY <1>1, EvaluatedIs
  <1>. DEFINE Good(k, r) == /\ r \in Seq(Byte) /\ Len(r) = n + 1 - k
                            /\ \A j \in 1..(n + 1 - k) : r[j] = shown[k + j - 1]
              T == {m \in Nat : m <= n => Good(n + 1 - m, f[at[n + 1 - m]])}
  <1>3. f[Len(s) + 1] = << >>
    <2>1. Len(s) + 1 \in 1..(Len(s) + 1) /\ Len(s) + 1 > Len(s)
      BY <1>1
    <2>2. f[Len(s) + 1] = Reading(s, f, Len(s) + 1)
      BY <1>2, <2>1, Zenon
    <2>. QED BY <2>1, <2>2, Zenon DEF Reading
  <1>4. 0 \in T
    <2>1. n + 1 - 0 = n + 1 /\ n + 1 - (n + 1) = 0
      OBVIOUS
    <2>2. << >> \in Seq(Byte) /\ Len(<< >>) = 0 /\ \A j \in 1..0 : FALSE
      OBVIOUS
    <2>3. Good(n + 1, << >>)
      BY <2>1, <2>2
    <2>4. f[at[n + 1 - 0]] = << >>
      BY <1>1, <1>3, <2>1
    <2>. HIDE DEF Good
    <2>5. Good(n + 1 - 0, f[at[n + 1 - 0]])
      BY <2>1, <2>3, <2>4
    <2>. QED BY <2>5
  <1>5. ASSUME NEW m \in Nat, m \in T PROVE m + 1 \in T
    <2>. DEFINE k == n + 1 - (m + 1)
    <2>. SUFFICES ASSUME m + 1 <= n PROVE Good(k, f[at[k]])
      <3>. HIDE DEF Good
      <3>. QED OBVIOUS
    <2>1. k \in 1..n /\ k + 1 \in 1..(n + 1) /\ k \in 1..(n + 1) /\ n + 1 - m = k + 1 /\ m <= n
          /\ n + 1 - (k + 1) = n - k
      OBVIOUS
    <2>. HIDE DEF k
    <2>2. Good(k + 1, f[at[k + 1]])
      <3>. HIDE DEF Good
      <3>. QED BY <1>5, <2>1
    <2>. DEFINE a == at[k]
                b == at[k + 1]
                r == f[b]
                byte == shown[k]
    <2>3. /\ a \in Nat /\ b \in Nat /\ 1 <= a /\ a <= Len(s) /\ b <= Len(s) + 1
          /\ ByteAt(s, a) = [byte |-> byte, length |-> Len(seqs[k])]
          /\ b = a + Len(seqs[k])
      BY <1>1, <2>1
    <2>4. byte \in Byte
      BY <2>1
    <2>5. r \in Seq(Byte) /\ Len(r) = n - k /\ \A j \in 1..(n - k) : r[j] = shown[(k + 1) + j - 1]
      BY <2>1, <2>2
    <2>. HIDE DEF a, b, r, byte
    <2>6. f[a] = <<byte>> \o (IF b <= Len(s) THEN f[b] ELSE << >>)
      <3>1. f[a] = Reading(s, f, a)
        BY <1>1, <1>2, <2>3
      <3>2. a + ByteAt(s, a).length = b /\ ByteAt(s, a).byte = byte /\ ~ (a > Len(s))
        BY <1>1, <2>3
      <3>. QED BY <3>1, <3>2 DEF Reading
    <2>7. b > Len(s) => r = << >>
      <3>1. b > Len(s) => b = Len(s) + 1
        BY <1>1, <2>3
      <3>. QED BY <1>3, <3>1 DEF r
    <2>8. f[a] = <<byte>> \o r
      <3>1. b <= Len(s) \/ b > Len(s)
        BY <1>1, <2>3
      <3>2. (IF b <= Len(s) THEN f[b] ELSE << >>) = r
        BY <2>7, <3>1 DEF r
      <3>. QED BY <2>6, <3>2, Zenon
    <2>9. Good(k, <<byte>> \o r)
      <3>. DEFINE q == <<byte>> \o r
      <3>1. q \in Seq(Byte) /\ Len(q) = n + 1 - k
        BY <2>1, <2>4, <2>5
      <3>2. q[1] = byte /\ \A j \in 2..(n + 1 - k) : q[j] = r[j - 1]
        BY <2>1, <2>4, <2>5
      <3>. HIDE DEF q
      <3>3. ASSUME NEW j \in 1..(n + 1 - k) PROVE q[j] = shown[k + j - 1]
        <4>1. CASE j = 1
          <5>1. k + j - 1 = k
            BY <2>1, <4>1
          <5>. QED BY <3>2, <4>1, <5>1 DEF byte
        <4>2. CASE j # 1
          <5>1. j \in 2..(n + 1 - k) /\ j - 1 \in 1..(n - k) /\ (k + 1) + (j - 1) - 1 = k + j - 1
            BY <2>1, <4>2
          <5>. QED BY <2>5, <3>2, <5>1
        <4>. QED BY <4>1, <4>2
      <3>4. Good(k, q)
        BY <3>1, <3>3
      <3>. QED BY <3>4 DEF q
    <2>. HIDE DEF Good
    <2>. QED BY <2>8, <2>9 DEF a
  <1>6. Good(1, f[1])
    <2>1. n + 1 - n = 1 /\ n \in Nat /\ n <= n
      OBVIOUS
    <2>2. n \in T
      <3>. HIDE DEF T
      <3>. QED BY <1>4, <1>5, Induction
    <2>. HIDE DEF Good
    <2>. QED BY <1>1, <2>1, <2>2
  <1>7. f[1] = shown
    <2>1. /\ f[1] \in Seq(Byte) /\ Len(f[1]) = Len(shown)
          /\ \A j \in 1..Len(f[1]) : f[1][j] = shown[j]
      <3>1. n + 1 - 1 = n /\ \A j \in 1..n : 1 + j - 1 = j
        OBVIOUS
      <3>. QED BY <1>6, <3>1
    <2>. HIDE DEF Good
    <2>. QED BY <2>1, SeqEqual
  <1>. QED BY <1>2, <1>7

\* The reader of a literal evaluates what is between its quotes.
LEMMA Unquoted ==
    ASSUME NEW s \in Seq(Byte)
    PROVE  Literal(<<Quote>> \o s \o <<Quote>>) = Evaluated(s)
  <1>. DEFINE text == <<Quote>> \o s \o <<Quote>>
              mid == SubSeq(text, 2, Len(text) - 1)
  <1>0. Quote \in Byte
    BY DEF Quote, Byte
  <1>1. /\ text \in Seq(Byte) /\ Len(text) = Len(s) + 2
        /\ \A i \in 2..(Len(s) + 1) : text[i] = s[i - 1]
    <2>. DEFINE h == <<Quote>> \o s
    <2>1. h \in Seq(Byte) /\ Len(h) = Len(s) + 1 /\ \A i \in 2..(Len(s) + 1) : h[i] = s[i - 1]
      BY <1>0
    <2>. HIDE DEF h
    <2>2. /\ h \o <<Quote>> \in Seq(Byte) /\ Len(h \o <<Quote>>) = Len(s) + 2
          /\ \A i \in 1..(Len(s) + 1) : (h \o <<Quote>>)[i] = h[i]
      BY <1>0, <2>1
    <2>. QED BY <2>1, <2>2 DEF h
  <1>. HIDE DEF text
  <1>2. mid \in Seq(Byte) /\ Len(mid) = Len(s) /\ \A i \in 1..Len(s) : mid[i] = s[i]
    <2>1. Len(s) \in Nat
      OBVIOUS
    <2>2. \A i \in 2..(Len(s) + 1) : text[i] \in Byte
      BY <1>1
    <2>3. Len(text) - 1 = Len(s) + 1
      BY <1>1
    <2>4. /\ mid \in Seq(Byte) /\ Len(mid) = Len(s)
          /\ \A i \in 1..Len(s) : mid[i] = text[2 + i - 1]
      BY <2>1, <2>2, <2>3, SubSeqProperties
    <2>5. \A i \in 1..Len(s) : 2 + i - 1 \in 2..(Len(s) + 1) /\ (2 + i - 1) - 1 = i
      BY <2>1
    <2>. HIDE DEF mid
    <2>. QED BY <1>1, <2>4, <2>5
  <1>3. mid = s
    <2>. HIDE DEF mid
    <2>. QED BY <1>2, SeqEqual
  <1>. QED BY <1>3 DEF Literal, text

-----------------------------------------------------------------------------
(* string_quote                                                              *)

\* What is written of a byte, when it is known which byte comes next.
NextByte(shown, i) == IF i < Len(shown) THEN shown[i + 1] ELSE NUL

Piece(usehex, shown, i) ==
    IF usehex THEN Hexed(shown[i]) ELSE Escaped(shown[i], NextByte(shown, i))

LEMMA PieceIs ==
    ASSUME NEW usehex \in BOOLEAN, NEW shown \in Seq(Byte), NEW i \in 1..Len(shown)
    PROVE  /\ shown[i] \in Byte /\ NextByte(shown, i) \in Byte
           /\ Piece(usehex, shown, i) \in Seq(Byte)
           /\ Len(Piece(usehex, shown, i)) \in 1..4
  <1>1. shown[i] \in Byte /\ NextByte(shown, i) \in Byte
    <2>1. NUL \in Byte
      BY DEF NUL, Byte
    <2>. QED BY <2>1 DEF NextByte
  <1>2. Hexed(shown[i]) \in Seq(Byte) /\ Len(Hexed(shown[i])) = 4
    BY <1>1, HexedIs, ZenonT(40)
  <1>3. /\ Escaped(shown[i], NextByte(shown, i)) \in Seq(Byte)
        /\ Len(Escaped(shown[i], NextByte(shown, i))) \in 1..4
    BY <1>1, EscapedIs, Zenon
  <1>4. 4 \in 1..4
    OBVIOUS
  <1>. QED BY <1>1, <1>2, <1>3, <1>4, Zenon DEF Piece

\* The pieces of a string's bytes between quotes are read as these bytes.
LEMMA QuotedRead ==
    ASSUME NEW usehex \in BOOLEAN, NEW shown \in Seq(Byte)
    PROVE  LET text == FlattenSeq([i \in 1..Len(shown) |-> Piece(usehex, shown, i)])
           IN  Literal(<<Quote>> \o text \o <<Quote>>) = shown
  <1>. DEFINE n == Len(shown)
              seqs == [i \in 1..n |-> Piece(usehex, shown, i)]
              s == FlattenSeq(seqs)
  <1>0. n \in Nat
    OBVIOUS
  <1>1. \A k \in 1..n : /\ seqs[k] = Piece(usehex, shown, k)
                        /\ seqs[k] \in Seq(Byte) /\ Len(seqs[k]) \in 1..4
    BY PieceIs
  <1>2. seqs \in Seq(Seq(Byte)) /\ Len(seqs) = n
    <2>1. seqs = [i \in 1..n |-> seqs[i]]
      OBVIOUS
    <2>. HIDE DEF seqs
    <2>2. seqs \in [1..n -> Seq(Byte)]
      BY <1>1, <2>1
    <2>. QED BY <1>0, <2>2
  <1>. HIDE DEF seqs
  <1>3. PICK at : LaidOut(seqs, n, s, at)
    BY <1>2, Flattened
  <1>. HIDE DEF s
  <1>4. /\ s \in Seq(Byte) /\ Len(s) \in Nat
        /\ at[1] = 1 /\ at[n + 1] = Len(s) + 1
        /\ \A k \in 1..n : at[k + 1] = at[k] + Len(seqs[k]) /\ IsAt(seqs[k], s, at[k])
        /\ \A k \in 1..(n + 1) : at[k] \in 1..(Len(s) + 1)
    BY <1>3 DEF LaidOut
  <1>5. ASSUME NEW k \in 1..n
        PROVE  ByteAt(s, at[k]) = [byte |-> shown[k], length |-> Len(seqs[k])]
    <2>. DEFINE c == shown[k]
                next == NextByte(shown, k)
                a == at[k]
                p == Piece(usehex, shown, k)
    <2>1. k \in 1..(n + 1) /\ k + 1 \in 1..(n + 1) /\ k \in 1..Len(shown)
      BY <1>0
    <2>2. c \in Byte /\ next \in Byte /\ Len(p) \in 1..4 /\ seqs[k] = p
      BY <1>1, <2>1, PieceIs
    <2>3. at[k + 1] = a + Len(p) /\ IsAt(p, s, a)
      BY <1>4, <2>2
    <2>4. a \in 1..(Len(s) + 1) /\ at[k + 1] \in 1..(Len(s) + 1)
      BY <1>4, <2>1
    <2>. HIDE DEF a, c, next, p, n
    <2>5. a \in 1..Len(s)
      <3>. DEFINE b == at[k + 1]
                  length == Len(p)
                  end == Len(s)
      <3>1. /\ b = a + length /\ a \in 1..(end + 1) /\ b \in 1..(end + 1)
            /\ length \in 1..4 /\ end \in Nat
        BY <1>4, <2>2, <2>3, <2>4
      <3>. HIDE DEF b, length, end
      <3>2. a \in 1..end
        BY <3>1
      <3>. QED BY <3>2 DEF end
    <2>6. CASE usehex
      <3>1. p = Hexed(c)
        BY <2>6 DEF Piece, p, c
      <3>2. ByteAt(s, a) = [byte |-> c, length |-> 4]
        BY <1>4, <2>2, <2>3, <2>5, <3>1, HexedRead
      <3>3. Len(p) = 4
        <4>1. Len(Hexed(c)) = 4
          BY <2>2, HexedIs, Zenon
        <4>. QED BY <3>1, <4>1, Zenon
      <3>. QED BY <2>2, <3>2, <3>3 DEF a, c
    <2>7. CASE ~usehex
      <3>1. p = Escaped(c, next)
        BY <2>7 DEF Piece, p, c, next
      <3>. DEFINE after == a + Len(p)
      <3>2. after > Len(s) \/ (s[after] \in OctalDigit => next \in Digits)
        <4>1. CASE k = n
          <5>1. after = Len(s) + 1
            BY <1>4, <2>3, <4>1
          <5>. HIDE DEF after
          <5>. QED BY <1>4, <5>1
        <4>2. CASE k # n
          <5>1. k + 1 \in 1..n /\ k < n
            BY <1>0, <4>2
          <5>. DEFINE d == shown[k + 1]
                      m == NextByte(shown, k + 1)
          <5>2. d \in Byte /\ m \in Byte
            BY <5>1, PieceIs DEF n
          <5>3. next = d
            BY <5>1 DEF NextByte, next, n
          <5>4. seqs[k + 1] = Escaped(d, m)
            BY <1>1, <2>7, <5>1 DEF Piece
          <5>. HIDE DEF d, m
          <5>5. Len(Escaped(d, m)) \in 1..4 /\ (Escaped(d, m)[1] \in OctalDigit => d \in Digits)
            BY <5>2, EscapedIs, Zenon
          <5>6. IsAt(Escaped(d, m), s, at[k + 1])
            BY <1>4, <5>1, <5>4
          <5>7. s[at[k + 1]] = Escaped(d, m)[1]
            <6>. DEFINE q == Escaped(d, m)
                        b == at[k + 1]
            <6>1. 1 \in 1..Len(q)
              BY <5>5
            <6>2. b \in Nat
              BY <2>4
            <6>3. b + 1 - 1 = b
              BY <6>2
            <6>. HIDE DEF q, b
            <6>4. IsAt(q, s, b)
              BY <5>6 DEF q, b
            <6>5. s[b] = q[1]
              BY <6>1, <6>2, <6>3, <6>4 DEF IsAt
            <6>. QED BY <6>5 DEF q, b
          <5>. QED BY <2>3, <5>3, <5>5, <5>7
        <4>. QED BY <4>1, <4>2
      <3>3. ByteAt(s, a) = [byte |-> c, length |-> Len(p)]
        BY <1>4, <2>2, <2>3, <2>5, <3>1, <3>2, EscapedRead
      <3>. QED BY <2>2, <3>3 DEF a, c
    <2>. QED BY <2>6, <2>7
  <1>6. \A k \in 1..n : Len(seqs[k]) \in Nat \ {0}
    <2>. TAKE k \in 1..n
    <2>. DEFINE length == Len(seqs[k])
    <2>1. length \in 1..4
      BY <1>1
    <2>. HIDE DEF length
    <2>2. length \in Nat \ {0}
      BY <2>1
    <2>. QED BY <2>2 DEF length
  <1>7. Evaluated(s) = shown
    BY <1>0, <1>3, <1>5, <1>6, Decoded
  <1>8. Literal(<<Quote>> \o s \o <<Quote>>) = Evaluated(s)
    BY <1>4, Unquoted
  <1>. QED BY <1>7, <1>8 DEF s, seqs, n

\* m bytes are shown: all there is room for, or those before NUL.
LEMMA StringQuoted ==
    ASSUME NEW bytes, Len(bytes) \in Nat, NEW len \in Int, NEW size \in Nat, NEW xflag,
           NEW m \in 0..Len(bytes), m <= QuoteRoom(len, size),
           \A i \in 1..m : bytes[i] \in Byte /\ ~EndsAt(len, bytes[i]),
           m = QuoteRoom(len, size) \/ (m < Len(bytes) /\ EndsAt(len, bytes[m + 1]))
    PROVE  LET quoted == string_quote(bytes, len, size, xflag)
           IN  /\ Literal(quoted.text) = SubSeq(bytes, 1, m)
               /\ quoted.ret = IF len = -1 /\ m < Len(bytes) /\ bytes[m + 1] = NUL
                               THEN 0 ELSE 1
  <1>. DEFINE room == QuoteRoom(len, size)
              nuls == {i \in 1..Min({room, Len(bytes)}) : EndsAt(len, bytes[i])}
              shown == SubSeq(bytes, 1, IF nuls = {} THEN room ELSE Min(nuls) - 1)
              usehex == \/ xflag > 1
                        \/ xflag = 1 /\ \E c \in Range(shown) : c \notin 32..126 \cup 9..13
              quoted == string_quote(bytes, len, size, xflag)
  <1>1. /\ quoted.text =
              <<Quote>> \o FlattenSeq([i \in 1..Len(shown) |-> Piece(usehex, shown, i)])
                        \o <<Quote>>
        /\ quoted.ret = IF \/ nuls # {}
                           \/ len = -1 /\ room < Len(bytes) /\ bytes[room + 1] = NUL
                        THEN 0 ELSE 1
    BY DEF string_quote, Piece, NextByte
  <1>2. room \in Int /\ m <= room /\ m <= Len(bytes)
    BY DEF QuoteRoom
  <1>3. room \in Nat /\ Min({room, Len(bytes)}) \in Nat
        /\ Min({room, Len(bytes)}) \in {room, Len(bytes)}
        /\ Min({room, Len(bytes)}) <= room /\ Min({room, Len(bytes)}) <= Len(bytes)
    <2>1. room \in Nat
      BY <1>2
    <2>. HIDE DEF room
    <2>. QED BY <2>1, LeastOf
  <1>. HIDE DEF quoted
  <1>4. /\ (IF nuls = {} THEN room ELSE Min(nuls) - 1) = m
        /\ nuls # {} <=> m < room
    <2>. DEFINE bound == Min({room, Len(bytes)})
    <2>1. nuls \subseteq Nat /\ \A i \in nuls : i \in 1..bound /\ EndsAt(len, bytes[i])
      BY <1>3
    <2>2. \A i \in nuls : m < i
      <3>. SUFFICES ASSUME NEW i \in nuls, i <= m PROVE FALSE
        BY <1>3, <2>1
      <3>1. i \in 1..m
        BY <1>3, <2>1
      <3>. QED BY <2>1, <3>1
    <2>3. CASE m = room
      <3>1. nuls = {}
        <4>. SUFFICES ASSUME NEW i \in nuls PROVE FALSE
          OBVIOUS
        <4>1. m < i /\ i \in 1..bound
          BY <2>1, <2>2
        <4>. HIDE DEF room, bound, nuls
        <4>2. bound \in Nat /\ bound <= room
          BY <1>3 DEF bound
        <4>. QED BY <2>3, <4>1, <4>2
      <3>. HIDE DEF room, nuls
      <3>. QED BY <1>2, <2>3, <3>1
    <2>4. CASE m # room
      <3>1. m < Len(bytes) /\ EndsAt(len, bytes[m + 1]) /\ m < room
        BY <1>2, <2>4
      <3>2. m + 1 \in 1..bound
        <4>. HIDE DEF room, bound
        <4>. QED BY <1>2, <1>3, <3>1 DEF bound
      <3>3. m + 1 \in nuls
        BY <3>1, <3>2
      <3>4. Min(nuls) \in nuls /\ \A y \in nuls : Min(nuls) <= y
        <4>. HIDE DEF nuls
        <4>. QED BY <2>1, <3>3, LeastOf
      <3>5. Min(nuls) = m + 1
        <4>1. Min(nuls) \in Nat /\ Min(nuls) <= m + 1 /\ m < Min(nuls)
          BY <2>1, <2>2, <3>3, <3>4
        <4>. HIDE DEF nuls
        <4>. QED BY <4>1
      <3>. HIDE DEF nuls, room
      <3>. QED BY <3>1, <3>3, <3>5
    <2>. QED BY <2>3, <2>4
  <1>. HIDE DEF nuls
  <1>5. shown = SubSeq(bytes, 1, m)
    BY <1>4
  <1>6. shown \in Seq(Byte)
    <2>1. SubSeq(bytes, 1, m) \in Seq(Byte)
      BY SubSeqProperties
    <2>. QED BY <1>5, <2>1
  <1>. HIDE DEF shown
  <1>7. Literal(quoted.text) = shown
    <2>1. usehex \in BOOLEAN
      OBVIOUS
    <2>. HIDE DEF usehex
    <2>. QED BY <1>1, <1>6, <2>1, QuotedRead
  <1>8. quoted.ret = IF len = -1 /\ m < Len(bytes) /\ bytes[m + 1] = NUL THEN 0 ELSE 1
    <2>1. CASE m = room
      <3>1. nuls = {}
        BY <1>2, <1>4, <2>1
      <3>. QED BY <1>1, <2>1, <3>1
    <2>2. CASE m # room
      <3>1. m < Len(bytes) /\ len = -1 /\ bytes[m + 1] = NUL /\ nuls # {}
        BY <1>2, <1>4, <2>2 DEF EndsAt
      <3>. HIDE DEF room
      <3>. QED BY <1>1, <3>1
    <2>. QED BY <2>1, <2>2
  <1>. QED BY <1>5, <1>7, <1>8 DEF quoted

-----------------------------------------------------------------------------
(* What is shown of the memory                                               *)

LEMMA LesserIs ==
    ASSUME NEW a \in Nat, NEW b \in Nat
    PROVE  Min({a, b}) = IF a <= b THEN a ELSE b
  <1>1. Min({a, b}) \in {a, b} /\ Min({a, b}) <= a /\ Min({a, b}) <= b
    BY LeastOf
  <1>. QED BY <1>1

\* The bytes at addr with a NUL at the limit.
Cut(addr, n, limit) == [BytesAt(addr, n) EXCEPT ![limit + 1] = NUL]

LEMMA CutIs ==
    ASSUME NEW addr \in Nat, NEW n \in Nat, NEW limit \in Nat, limit < n
    PROVE  /\ Len(Cut(addr, n, limit)) = n /\ Cut(addr, n, limit)[limit + 1] = NUL
           /\ \A i \in 1..n : i # limit + 1 => Cut(addr, n, limit)[i] = memory[addr + i - 1]
  <1>. DEFINE f == BytesAt(addr, n)
              S == {f[i] : i \in 1..n} \cup {NUL}
              b == Cut(addr, n, limit)
  <1>0. b = [f EXCEPT ![limit + 1] = NUL]
    BY DEF Cut
  <1>1. /\ f = [i \in 1..n |-> f[i]]
        /\ \A i \in 1..n : f[i] = memory[addr + i - 1]
    BY DEF BytesAt
  <1>. HIDE DEF f, b
  <1>2. b = [i \in 1..n |-> IF i = limit + 1 THEN NUL ELSE f[i]]
    BY <1>0, <1>1
  <1>3. b = [i \in 1..n |-> b[i]] /\ \A i \in 1..n : b[i] \in S
    BY <1>2
  <1>. HIDE DEF S
  <1>4. b \in Seq(S)
    <2>1. b \in [1..n -> S]
      BY <1>3
    <2>. QED BY <2>1
  <1>5. Len(b) = n
    BY <1>2, <1>4
  <1>6. limit + 1 \in 1..n
    OBVIOUS
  <1>7. b[limit + 1] = NUL /\ \A i \in 1..n : i # limit + 1 => b[i] = memory[addr + i - 1]
    BY <1>1, <1>2, <1>6
  <1>. QED BY <1>5, <1>7 DEF b

\* m bytes of the string at addr come before its end or the limit.
Before(addr, limit, bytes, m) ==
    /\ Len(bytes) \in Nat /\ m \in Nat /\ m < Len(bytes) /\ m <= limit
    /\ Mapped(addr, m)
    /\ \A i \in 1..m : bytes[i] = memory[addr + i - 1] /\ bytes[i] # NUL
    /\ m = limit \/ bytes[m + 1] = NUL

LEMMA BytesShown ==
    ASSUME memory \in DOMAIN Calls, NEW addr \in Nat, NEW limit \in Nat, NEW xflag,
           NEW bytes, NEW m \in Nat, Before(addr, limit, bytes, m)
    PROVE  LET quoted == string_quote(bytes, -1, limit + 1, xflag)
           IN  /\ Literal(quoted.text) = BytesAt(addr, m)
               /\ quoted.ret = IF bytes[m + 1] = NUL THEN 0 ELSE 1
  <1>0. /\ Len(bytes) \in Nat /\ m \in Nat /\ m < Len(bytes) /\ m <= limit
        /\ Mapped(addr, m)
        /\ \A i \in 1..m : bytes[i] = memory[addr + i - 1] /\ bytes[i] # NUL
        /\ m = limit \/ bytes[m + 1] = NUL
    BY DEF Before
  <1>1. QuoteRoom(-1, limit + 1) = limit
    BY DEF QuoteRoom
  <1>2. \A i \in 1..m : bytes[i] \in Byte /\ bytes[i] = BytesAt(addr, m)[i]
    <2>. TAKE i \in 1..m
    <2>1. addr + i - 1 \in DOMAIN memory
      BY <1>0 DEF Mapped
    <2>2. memory[addr + i - 1] \in 0..255
      BY <2>1, MemoryAssumption
    <2>. QED BY <1>0, <2>2, BytesOf, ZenonT(40) DEF Byte
  <1>3. SubSeq(bytes, 1, m) = BytesAt(addr, m)
    <2>1. /\ SubSeq(bytes, 1, m) \in Seq(Byte) /\ Len(SubSeq(bytes, 1, m)) = m
          /\ \A i \in 1..m : SubSeq(bytes, 1, m)[i] = bytes[i]
      <3>1. /\ SubSeq(bytes, 1, m) \in Seq(Byte)
            /\ Len(SubSeq(bytes, 1, m)) = IF 1 <= m THEN m - 1 + 1 ELSE 0
            /\ \A i \in 1..(m - 1 + 1) : SubSeq(bytes, 1, m)[i] = bytes[1 + i - 1]
        BY <1>0, <1>2, SubSeqProperties
      <3>2. m - 1 + 1 = m /\ \A i \in 1..m : 1 + i - 1 = i
        BY <1>0
      <3>. QED BY <3>1, <3>2
    <2>. DEFINE f == BytesAt(addr, m)
    <2>2. Len(f) = m /\ f = [i \in 1..m |-> f[i]]
      BY <1>0, BytesOf DEF BytesAt
    <2>3. \A i \in 1..m : f[i] \in Byte
      BY <1>2
    <2>. HIDE DEF f
    <2>4. f \in Seq(Byte)
      <3>1. f \in [1..m -> Byte]
        BY <2>2, <2>3
      <3>. QED BY <1>0, <3>1
    <2>5. \A i \in 1..m : SubSeq(bytes, 1, m)[i] = f[i]
      BY <1>2, <2>1 DEF f
    <2>6. SubSeq(bytes, 1, m) = f
      BY <1>0, <2>1, <2>2, <2>4, <2>5, SeqEqual
    <2>. QED BY <2>6 DEF f
  <1>4. /\ m \in 0..Len(bytes) /\ limit + 1 \in Nat /\ -1 \in Int
        /\ \A i \in 1..m : bytes[i] \in Byte /\ ~EndsAt(-1, bytes[i])
        /\ m = limit \/ (m < Len(bytes) /\ EndsAt(-1, bytes[m + 1]))
    BY <1>0, <1>2 DEF EndsAt
  <1>. DEFINE quoted == string_quote(bytes, -1, limit + 1, xflag)
  <1>5. /\ Literal(quoted.text) = SubSeq(bytes, 1, m)
        /\ quoted.ret = IF -1 = -1 /\ m < Len(bytes) /\ bytes[m + 1] = NUL THEN 0 ELSE 1
    BY <1>0, <1>1, <1>4, StringQuoted
  <1>. HIDE DEF quoted
  <1>6. Literal(quoted.text) = BytesAt(addr, m) /\ quoted.ret = IF bytes[m + 1] = NUL THEN 0 ELSE 1
    BY <1>0, <1>3, <1>5
  <1>. QED BY <1>6 DEF quoted

\* A buffer is shown as it is.
LEMMA BufferShown ==
    ASSUME memory \in DOMAIN Calls, NEW addr \in Nat, NEW n \in Nat, Mapped(addr, n),
           NEW len \in Int, len # -1, NEW xflag
    PROVE  LET quoted == string_quote(BytesAt(addr, n), len, n, xflag)
           IN  Literal(quoted.text) = BytesAt(addr, n) /\ quoted.ret = 1
  <1>. DEFINE f == BytesAt(addr, n)
              quoted == string_quote(f, len, n, xflag)
  <1>1. Len(f) = n /\ f = [i \in 1..n |-> f[i]]
    BY BytesOf DEF BytesAt
  <1>2. ASSUME NEW i \in 1..n PROVE f[i] \in Byte
    <2>1. addr + i - 1 \in DOMAIN memory
      BY DEF Mapped
    <2>2. memory[addr + i - 1] \in 0..255
      BY <2>1, MemoryAssumption
    <2>. QED BY <2>2, BytesOf, ZenonT(40) DEF Byte
  <1>3. QuoteRoom(len, n) = n /\ \A b : ~EndsAt(len, b)
    BY DEF QuoteRoom, EndsAt
  <1>. HIDE DEF f, quoted
  <1>4. f \in Seq(Byte)
    BY <1>1, <1>2
  <1>5. SubSeq(f, 1, n) = f
    BY <1>1, <1>4, SubSeqFull
  <1>6. n \in 0..Len(f) /\ Len(f) \in Nat
    BY <1>1
  <1>7. /\ Literal(quoted.text) = SubSeq(f, 1, n)
        /\ quoted.ret = IF len = -1 /\ n < Len(f) /\ f[n + 1] = NUL THEN 0 ELSE 1
    <2>1. n <= QuoteRoom(len, n) /\ n = QuoteRoom(len, n)
      BY <1>3
    <2>2. \A i \in 1..n : f[i] \in Byte /\ ~EndsAt(len, f[i])
      BY <1>2, <1>3
    <2>. QED BY <1>6, <2>1, <2>2, StringQuoted DEF quoted
  <1>. QED BY <1>5, <1>7 DEF f, quoted

LEMMA OneEnd ==
    ASSUME NEW addr, NEW e \in Ends(addr)
    PROVE  Ends(addr) = {e}
  BY DEF Ends

\* The bytes that are quoted: those that were read, or a path that was cut.
Quotable(read, limit, bytes) ==
    \/ bytes = read.bytes
    \/ Len(read.bytes) > limit /\ bytes = [read.bytes EXCEPT ![limit + 1] = NUL]

\* What is read and shown of a string up to the limit.
LEMMA StringShown ==
    ASSUME memory \in DOMAIN Calls, kernel \in {"none", "whole", "pages"},
           NEW addr \in Nat, NEW limit \in Nat, NEW xflag,
           NEW read, read = umovestr(addr, limit + 1), ~ (read.ret < 0),
           NEW bytes, Quotable(read, limit, bytes)
    PROVE  LET end == Ends(addr)
               length == IF end # {} THEN Min(end) - addr ELSE limit + 1
               whole == end # {} /\ length <= limit
               quoted == string_quote(bytes, -1, limit + 1, xflag)
           IN  /\ Literal(quoted.text) = BytesAt(addr, Min({limit, length}))
               /\ bytes = read.bytes => (quoted.ret = 1 <=> ~whole)
               /\ whole => read.ret = 1
               /\ read.ret = 1 => end # {} /\ Min(end) < Looked(addr, limit + 1)
  <1>. DEFINE end == Ends(addr)
              length == IF end # {} THEN Min(end) - addr ELSE limit + 1
              whole == end # {} /\ length <= limit
              m == Min({limit, length})
              n == Len(read.bytes)
  <1>0. limit + 1 \in Nat
    OBVIOUS
  <1>1. /\ Tells(addr, limit + 1, read) /\ HasNone(addr, limit + 1, read)
        /\ AreRead(addr, limit + 1, read)
    BY <1>0, umovestrRight
  <1>2. read.ret \in {0, 1}
    BY <1>1 DEF AreRead
  <1>3. \A e \in end : /\ EndsWith(addr, e) /\ Min(end) = e /\ e \in Nat /\ addr <= e
                       /\ memory[e] = NUL /\ addr..e \subseteq DOMAIN memory
                       /\ \A a \in addr..(e - 1) : memory[a] # NUL
    <2>. TAKE e \in end
    <2>1. EndsWith(addr, e)
      BY EndsAre
    <2>2. end = {e}
      BY OneEnd
    <2>. HIDE DEF end
    <2>3. e \in Nat
      BY <2>1 DEF EndsWith
    <2>4. Min(end) \in end
      BY <2>2, <2>3, LeastOf
    <2>. QED BY <2>1, <2>2, <2>4 DEF EndsWith
  <1>. HIDE DEF end
  <1>4. length \in Nat /\ m = IF limit <= length THEN limit ELSE length
    <2>1. length \in Nat
      <3>1. CASE end = {}
        BY <3>1
      <3>2. CASE end # {}
        <4>1. PICK e \in end : TRUE
          BY <3>2
        <4>2. length = e - addr
          BY <1>3, <3>2
        <4>. HIDE DEF length
        <4>. QED BY <1>3, <4>2
      <3>. QED BY <3>1, <3>2
    <2>. HIDE DEF length
    <2>. QED BY <2>1, LesserIs
  <1>5. n \in 0..(limit + 1) /\ read.bytes = BytesAt(addr, n)
        /\ \A i \in 1..n : read.bytes[i] = memory[addr + i - 1]
    <2>1. PICK k \in 0..(limit + 1) : read.bytes = BytesAt(addr, k)
      <3>1. CASE read.ret = 0
        <4>1. read.bytes = BytesAt(addr, limit + 1) /\ limit + 1 \in 0..(limit + 1)
          BY <1>1, <3>1 DEF HasNone
        <4>. QED BY <4>1
      <3>2. CASE read.ret = 1
        BY <1>1, <3>2 DEF AreRead
      <3>. QED BY <1>2, <3>1, <3>2
    <2>2. n = k /\ \A i \in 1..k : read.bytes[i] = memory[addr + i - 1]
      BY <2>1, BytesOf
    <2>. QED BY <2>1, <2>2
  <1>. HIDE DEF n
  <1>6. /\ m \in Nat /\ m <= limit /\ m < n /\ Mapped(addr, m)
        /\ \A i \in 1..m : memory[addr + i - 1] # NUL
        /\ memory[addr + m] = NUL <=> whole
        /\ whole \/ m = limit
        /\ whole => read.ret = 1
        /\ read.ret = 1 => end # {} /\ Min(end) < Looked(addr, limit + 1)
    <2>1. CASE read.ret = 0
      <3>1. /\ read.bytes = BytesAt(addr, limit + 1) /\ NUL \notin Range(read.bytes)
            /\ Mapped(addr, limit + 1)
        BY <1>1, <2>1 DEF HasNone, AreRead
      <3>2. n = limit + 1
        BY <1>0, <3>1, BytesOf DEF n
      <3>3. \A i \in 1..(limit + 1) : memory[addr + i - 1] # NUL
        BY <1>0, <3>1, NoNulIn
      <3>4. ASSUME NEW e \in end PROVE e - addr > limit
        <4>. SUFFICES ASSUME e - addr <= limit PROVE FALSE
          BY <1>3
        <4>. DEFINE i == e - addr + 1
        <4>1. i \in 1..(limit + 1) /\ addr + i - 1 = e
          BY <1>3
        <4>. HIDE DEF i
        <4>. QED BY <1>3, <3>3, <4>1
      <3>5. length > limit
        <4>1. CASE end = {}
          BY <4>1
        <4>2. CASE end # {}
          <5>1. PICK e \in end : TRUE
            BY <4>2
          <5>2. length = e - addr
            BY <1>3, <4>2
          <5>. QED BY <3>4, <5>1, <5>2
        <4>. QED BY <4>1, <4>2
      <3>6. ~whole
        <4>1. ~ (length <= limit)
          <5>. HIDE DEF length
          <5>. QED BY <1>4, <3>5
        <4>. QED BY <4>1
      <3>. HIDE DEF whole, length
      <3>7. m = limit
        BY <1>4, <3>5
      <3>. HIDE DEF m
      <3>8. Mapped(addr, limit)
        <4>1. addr..(addr + limit - 1) \subseteq addr..(addr + (limit + 1) - 1)
          OBVIOUS
        <4>. QED BY <3>1, <4>1 DEF Mapped
      <3>9. memory[addr + limit] # NUL /\ \A i \in 1..limit : memory[addr + i - 1] # NUL
        <4>1. limit + 1 \in 1..(limit + 1) /\ addr + (limit + 1) - 1 = addr + limit
          OBVIOUS
        <4>2. memory[addr + (limit + 1) - 1] # NUL
          BY <3>3, <4>1
        <4>. QED BY <3>3, <4>1, <4>2
      <3>. QED BY <2>1, <3>2, <3>6, <3>7, <3>8, <3>9
    <2>2. CASE read.ret = 1
      <3>1. PICK e \in end : /\ e < Looked(addr, limit + 1)
                             /\ e < addr + n \/ n = limit + 1
        BY <1>1, <2>2 DEF Tells, end, n
      <3>2. /\ Min(end) = e /\ e \in Nat /\ addr <= e
            /\ memory[e] = NUL /\ addr..e \subseteq DOMAIN memory
            /\ \A a \in addr..(e - 1) : memory[a] # NUL
        BY <1>3
      <3>3. length = e - addr /\ (whole <=> length <= limit) /\ end # {}
        BY <3>2
      <3>. HIDE DEF whole, length
      <3>4. /\ m \in Nat /\ m <= limit /\ m < n /\ m <= e - addr
            /\ whole => m = e - addr
            /\ ~whole => m = limit /\ m < e - addr
        <4>. HIDE DEF m
        <4>1. CASE whole
          <5>1. m = e - addr /\ e - addr <= limit
            BY <1>4, <3>2, <3>3, <4>1
          <5>2. m < n
            BY <1>5, <3>1, <3>2, <5>1
          <5>. QED BY <3>2, <4>1, <5>1, <5>2
        <4>2. CASE ~whole
          <5>1. m = limit /\ e - addr > limit
            BY <1>4, <3>2, <3>3, <4>2
          <5>2. m < n
            BY <1>5, <3>1, <3>2, <5>1
          <5>. QED BY <3>2, <4>2, <5>1, <5>2
        <4>. QED BY <4>1, <4>2
      <3>. HIDE DEF m
      <3>5. Mapped(addr, m)
        <4>1. addr..(addr + m - 1) \subseteq addr..e
          BY <3>2, <3>4
        <4>. QED BY <3>2, <4>1 DEF Mapped
      <3>6. ASSUME NEW i \in 1..m PROVE memory[addr + i - 1] # NUL
        <4>1. addr + i - 1 \in addr..(e - 1)
          BY <3>2, <3>4
        <4>. QED BY <3>2, <4>1
      <3>7. memory[addr + m] = NUL <=> whole
        <4>1. CASE whole
          <5>1. addr + m = e
            BY <3>2, <3>4, <4>1
          <5>. QED BY <3>2, <4>1, <5>1
        <4>2. CASE ~whole
          <5>1. addr + m \in addr..(e - 1)
            BY <3>2, <3>4, <4>2
          <5>. QED BY <3>2, <4>2, <5>1
        <4>. QED BY <4>1, <4>2
      <3>. QED BY <2>2, <3>1, <3>2, <3>3, <3>4, <3>5, <3>6, <3>7
    <2>. QED BY <1>2, <2>1, <2>2
  <1>. HIDE DEF m, length, whole
  <1>7. /\ Len(bytes) = n /\ m < Len(bytes) /\ Len(bytes) \in Nat
        /\ \A i \in 1..m : bytes[i] = memory[addr + i - 1] /\ bytes[i] # NUL
        /\ m = limit \/ bytes[m + 1] = NUL
        /\ bytes = read.bytes => bytes[m + 1] = memory[addr + m]
    <2>0. n \in Nat /\ m + 1 \in 1..n /\ addr + (m + 1) - 1 = addr + m
          /\ \A i \in 1..m : i \in 1..n /\ i # limit + 1
      BY <1>5, <1>6
    <2>1. CASE bytes = read.bytes
      <3>1. bytes[m + 1] = memory[addr + (m + 1) - 1]
        BY <1>5, <2>0, <2>1
      <3>2. bytes[m + 1] = memory[addr + m]
        BY <2>0, <3>1
      <3>. QED BY <1>5, <1>6, <2>0, <2>1, <3>2 DEF n
    <2>2. CASE /\ bytes # read.bytes /\ Len(read.bytes) > limit
               /\ bytes = [read.bytes EXCEPT ![limit + 1] = NUL]
      <3>1. limit < n /\ bytes = [BytesAt(addr, n) EXCEPT ![limit + 1] = NUL]
        BY <1>5, <2>0, <2>2 DEF n
      <3>2. /\ Len(bytes) = n /\ bytes[limit + 1] = NUL
            /\ \A i \in 1..n : i # limit + 1 => bytes[i] = memory[addr + i - 1]
        <4>1. bytes = Cut(addr, n, limit)
          BY <3>1 DEF Cut
        <4>2. n \in Nat /\ limit < n
          BY <2>0, <3>1
        <4>3. /\ Len(Cut(addr, n, limit)) = n /\ Cut(addr, n, limit)[limit + 1] = NUL
              /\ \A i \in 1..n :
                     i # limit + 1 => Cut(addr, n, limit)[i] = memory[addr + i - 1]
          BY <4>2, CutIs
        <4>. QED BY <4>1, <4>3
      <3>3. m = limit \/ bytes[m + 1] = NUL
        <4>. SUFFICES ASSUME m # limit PROVE bytes[m + 1] = NUL
          OBVIOUS
        <4>1. m + 1 # limit + 1
          BY <1>6
        <4>2. bytes[m + 1] = memory[addr + (m + 1) - 1]
          BY <2>0, <3>2, <4>1
        <4>. QED BY <1>6, <2>0, <4>2
      <3>. QED BY <1>6, <2>0, <2>2, <3>2, <3>3
    <2>. QED BY <2>1, <2>2 DEF Quotable
  <1>. DEFINE quoted == string_quote(bytes, -1, limit + 1, xflag)
  <1>8. /\ Literal(quoted.text) = BytesAt(addr, m)
        /\ quoted.ret = IF bytes[m + 1] = NUL THEN 0 ELSE 1
    <2>1. Before(addr, limit, bytes, m)
      BY <1>6, <1>7 DEF Before
    <2>2. m \in Nat
      BY <1>6
    <2>. QED BY <2>1, <2>2, BytesShown
  <1>. HIDE DEF quoted
  <1>9. /\ Literal(quoted.text) = BytesAt(addr, m)
        /\ bytes = read.bytes => (quoted.ret = 1 <=> ~whole)
        /\ whole => read.ret = 1
        /\ read.ret = 1 => end # {} /\ Min(end) < Looked(addr, limit + 1)
    BY <1>6, <1>7, <1>8
  <1>. QED BY <1>9 DEF end, length, whole, m, quoted

LEMMA umovenRight ==
    ASSUME memory \in DOMAIN Calls, kernel \in {"none", "whole", "pages"},
           NEW addr \in Nat, NEW len \in Nat, ~ (umoven(addr, len).ret < 0)
    PROVE  umoven(addr, len).bytes = BytesAt(addr, len) /\ Mapped(addr, len)
  <1>. DEFINE complete == IF kernel = "none"
                          THEN PeekedWords(addr, len) \subseteq DOMAIN memory
                          ELSE process_vm_readv(addr, len) = len
  <1>1. umoven(addr, len) = IF complete THEN [ret |-> 0, bytes |-> BytesAt(addr, len)]
                            ELSE Failed
    BY DEF umoven
  <1>. HIDE DEF complete
  <1>2. complete
    BY <1>1 DEF Failed
  <1>3. Mapped(addr, len)
    <2>1. CASE kernel = "none"
      <3>1. ASSUME NEW b \in addr..(addr + len - 1) PROVE b \in DOMAIN memory
        <4>1. b \in Nat
          OBVIOUS
        <4>2. Word(b) \in DOMAIN memory /\ Word(b) \div WordSize = b \div WordSize
          BY <1>2, <2>1, <4>1, WordsPeeked, WordIs DEF complete
        <4>. QED BY <4>1, <4>2, MappedByWords
      <3>. QED BY <3>1 DEF Mapped
    <2>2. CASE kernel # "none"
      <3>1. process_vm_readv(addr, len) = len
        BY <1>2, <2>2 DEF complete
      <3>. QED BY <3>1, ReadvIs
    <2>. QED BY <2>1, <2>2
  <1>. QED BY <1>1, <1>2, <1>3

\* What StringsShown says of an answer.
LengthOf(isString, addr, limit, len) ==
    IF isString /\ Ends(addr) # {} THEN Min(Ends(addr)) - addr
    ELSE IF isString \/ len < 0 THEN limit + 1 ELSE len

IsWhole(isString, addr, limit, len) ==
    /\ Ends(addr) # {} \/ ~isString
    /\ LengthOf(isString, addr, limit, len) <= limit

ShowsBytes(isString, addr, limit, len, shown) ==
    Literal(shown.text) = BytesAt(addr, Min({limit, LengthOf(isString, addr, limit, len)}))

ShowsDots(isString, isPath, addr, limit, len, shown) ==
    /\ IsWhole(isString, addr, limit, len) => ~shown.dots
    /\ \/ IsWhole(isString, addr, limit, len)
       \/ shown.dots
       \/ isPath /\ Ends(addr) # {} /\ Min(Ends(addr)) < Looked(addr, limit + 1)

LEMMA StringLength ==
    ASSUME NEW addr, NEW limit, NEW len
    PROVE  /\ LengthOf(TRUE, addr, limit, len) =
                  IF Ends(addr) # {} THEN Min(Ends(addr)) - addr ELSE limit + 1
           /\ IsWhole(TRUE, addr, limit, len) <=>
                  /\ Ends(addr) # {}
                  /\ (IF Ends(addr) # {} THEN Min(Ends(addr)) - addr ELSE limit + 1) <= limit
  <1>1. LengthOf(TRUE, addr, limit, len) =
            IF Ends(addr) # {} THEN Min(Ends(addr)) - addr ELSE limit + 1
    BY Zenon DEF LengthOf
  <1>. QED BY <1>1, Zenon DEF IsWhole

LEMMA printstrRight ==
    ASSUME memory \in DOMAIN Calls, kernel \in {"none", "whole", "pages"},
           NEW addr \in Nat, NEW len \in Int, NEW limit \in Nat, NEW xflag,
           printstr(addr, len, limit, xflag).kind = "text"
    PROVE  /\ ShowsBytes(len = -1, addr, limit, len, printstr(addr, len, limit, xflag))
           /\ ShowsDots(len = -1, FALSE, addr, limit, len, printstr(addr, len, limit, xflag))
  <1>. DEFINE size == IF len = -1 THEN limit + 1
                      ELSE IF len < 0 THEN limit ELSE Min({limit, len})
              read == IF len = -1 THEN umovestr(addr, size) ELSE umoven(addr, size)
              quoted == string_quote(read.bytes, len, size, xflag)
              more == quoted.ret = 1 /\ (len < 0 \/ len > limit)
              shown == printstr(addr, len, limit, xflag)
              whole == IsWhole(len = -1, addr, limit, len)
              length == LengthOf(len = -1, addr, limit, len)
  <1>1. shown = IF addr = 0 THEN Null
                ELSE IF read.ret < 0 THEN Pointer
                ELSE Shown("text", quoted.text, more)
    BY DEF printstr
  <1>2. ~ (read.ret < 0) /\ shown = Shown("text", quoted.text, more)
    <2>. HIDE DEF size, read, quoted, more
    <2>1. Null.kind # "text" /\ Pointer.kind # "text"
      BY DEF Null, Pointer, Shown
    <2>. QED BY <1>1, <2>1
  <1>. HIDE DEF shown
  <1>3. shown.text = quoted.text /\ (shown.dots <=> more)
    <2>. HIDE DEF quoted, more
    <2>1. shown = [kind |-> "text", text |-> quoted.text, dots |-> more]
      BY <1>2 DEF Shown
    <2>2. shown.text = quoted.text
      BY <2>1
    <2>3. shown.dots = more
      BY <2>1, Zenon
    <2>. QED BY <2>2, <2>3, Zenon
  <1>4. /\ Literal(quoted.text) = BytesAt(addr, Min({limit, length}))
        /\ more <=> ~whole
    <2>1. CASE len = -1
      <3>1. size = limit + 1
        BY <2>1
      <3>2. read = umovestr(addr, limit + 1)
        BY <2>1, <3>1
      <3>. HIDE DEF size, read
      <3>3. quoted = string_quote(read.bytes, -1, limit + 1, xflag)
        BY <2>1, <3>1
      <3>. HIDE DEF quoted
      <3>. DEFINE end == Ends(addr)
                  l == IF end # {} THEN Min(end) - addr ELSE limit + 1
                  w == end # {} /\ l <= limit
      <3>4. /\ Literal(quoted.text) = BytesAt(addr, Min({limit, l}))
            /\ quoted.ret = 1 <=> ~w
        <4>1. Quotable(read, limit, read.bytes)
          BY DEF Quotable
        <4>. DEFINE q == string_quote(read.bytes, -1, limit + 1, xflag)
        <4>2. /\ Literal(q.text) = BytesAt(addr, Min({limit, l}))
              /\ q.ret = 1 <=> ~w
          BY <1>2, <3>2, <4>1, StringShown, ZenonT(40)
        <4>3. quoted = q
          BY <3>3
        <4>. HIDE DEF q, l, w
        <4>. QED BY <4>2, <4>3
      <3>5. length = l
        BY <2>1 DEF LengthOf
      <3>6. whole <=> w
        <4>1. whole <=> end # {} /\ length <= limit
          BY <2>1, Zenon DEF IsWhole
        <4>. HIDE DEF whole, l, length, end
        <4>. QED BY <3>5, <4>1, Zenon
      <3>7. more <=> quoted.ret = 1
        BY <2>1
      <3>. HIDE DEF more, l, w, length, whole
      <3>. QED BY <3>4, <3>5, <3>6, <3>7, Zenon
    <2>2. CASE len # -1
      <3>1. read = umoven(addr, size)
        BY <2>2
      <3>2. length = IF len < 0 THEN limit + 1 ELSE len
        BY <2>2 DEF LengthOf
      <3>3. whole <=> length <= limit
        BY <2>2 DEF IsWhole
      <3>. HIDE DEF length, whole, read
      <3>4. length \in Nat /\ Min({limit, length}) = IF limit <= length THEN limit ELSE length
        <4>1. length \in Nat
          BY <3>2
        <4>. QED BY <4>1, LesserIs
      <3>5. size \in Nat /\ size = Min({limit, length})
        <4>1. CASE len < 0
          BY <2>2, <3>2, <3>4, <4>1
        <4>2. CASE ~ (len < 0)
          <5>1. length = len /\ size = Min({limit, length})
            BY <2>2, <3>2, <4>2
          <5>. HIDE DEF size
          <5>. QED BY <3>4, <5>1
        <4>. QED BY <4>1, <4>2
      <3>. HIDE DEF size
      <3>6. read.bytes = BytesAt(addr, size) /\ Mapped(addr, size)
        BY <1>2, <3>1, <3>5, umovenRight
      <3>7. Literal(quoted.text) = BytesAt(addr, size) /\ quoted.ret = 1
        BY <2>2, <3>5, <3>6, BufferShown
      <3>. HIDE DEF quoted
      <3>8. more <=> len < 0 \/ len > limit
        BY <3>7
      <3>9. more <=> ~ (length <= limit)
        <4>. HIDE DEF more
        <4>. QED BY <3>2, <3>8
      <3>. HIDE DEF more
      <3>. QED BY <3>3, <3>5, <3>7, <3>9
    <2>. QED BY <2>1, <2>2
  <1>. HIDE DEF quoted, more, length, whole
  <1>5. ShowsBytes(len = -1, addr, limit, len, shown)
    BY <1>3, <1>4 DEF ShowsBytes, length
  <1>6. ShowsDots(len = -1, FALSE, addr, limit, len, shown)
    BY <1>3, <1>4, Zenon DEF ShowsDots, whole
  <1>. QED BY <1>5, <1>6 DEF shown

LEMMA printpathnRight ==
    ASSUME memory \in DOMAIN Calls, kernel \in {"none", "whole", "pages"},
           NEW addr \in Nat, NEW n \in Nat, NEW xflag, NEW len,
           printpathn(addr, n, xflag).kind = "text"
    PROVE  LET limit == Min({n, MaxPath})
           IN  /\ ShowsBytes(TRUE, addr, limit, len, printpathn(addr, n, xflag))
               /\ ShowsDots(TRUE, TRUE, addr, limit, len, printpathn(addr, n, xflag))
  <1>. DEFINE limit == Min({n, MaxPath})
              read == umovestr(addr, limit + 1)
              path == IF Len(read.bytes) > limit
                      THEN [read.bytes EXCEPT ![limit + 1] = NUL] ELSE read.bytes
              quoted == string_quote(path, -1, limit + 1, xflag)
              more == read.ret = 0
              shown == printpathn(addr, n, xflag)
              end == Ends(addr)
              l == IF end # {} THEN Min(end) - addr ELSE limit + 1
              w == end # {} /\ l <= limit
  <1>1. shown = IF addr = 0 THEN Null
                ELSE IF read.ret < 0 THEN Pointer
                ELSE Shown("text", quoted.text, more)
    BY DEF printpathn
  <1>2. ~ (read.ret < 0) /\ shown = Shown("text", quoted.text, more)
    <2>. HIDE DEF limit, read, path, quoted, more
    <2>1. Null.kind # "text" /\ Pointer.kind # "text"
      BY DEF Null, Pointer, Shown
    <2>. QED BY <1>1, <2>1
  <1>0. limit \in Nat
    <2>1. n \in Nat /\ MaxPath \in Nat
      BY Sizes
    <2>. QED BY <2>1, LesserIs
  <1>. HIDE DEF shown, limit
  <1>3. shown.text = quoted.text /\ (shown.dots <=> more)
    <2>. HIDE DEF quoted, more
    <2>1. shown = [kind |-> "text", text |-> quoted.text, dots |-> more]
      BY <1>2 DEF Shown
    <2>2. shown.text = quoted.text
      BY <2>1
    <2>3. shown.dots = more
      BY <2>1, Zenon
    <2>. QED BY <2>2, <2>3, Zenon
  <1>4. Quotable(read, limit, path)
    BY DEF Quotable
  <1>5. read.ret \in {-1, 0, 1}
    <2>1. limit + 1 \in Nat
      BY <1>0
    <2>. QED BY <2>1, umovestrRight DEF AreRead
  <1>. HIDE DEF path
  <1>6. /\ Literal(quoted.text) = BytesAt(addr, Min({limit, l}))
        /\ w => read.ret = 1
        /\ read.ret = 1 => end # {} /\ Min(end) < Looked(addr, limit + 1)
    <2>1. read = umovestr(addr, limit + 1)
      OBVIOUS
    <2>. HIDE DEF read
    <2>. QED BY <1>0, <1>2, <1>4, <2>1, StringShown
  <1>7. /\ w => ~more
        /\ w \/ more \/ (end # {} /\ Min(end) < Looked(addr, limit + 1))
    <2>. HIDE DEF read, w, end
    <2>. QED BY <1>2, <1>5, <1>6
  <1>8. LengthOf(TRUE, addr, limit, len) = l /\ (IsWhole(TRUE, addr, limit, len) <=> w)
    BY StringLength, Zenon
  <1>. HIDE DEF quoted, more, l, w
  <1>9. ShowsBytes(TRUE, addr, limit, len, shown)
    BY <1>3, <1>6, <1>8 DEF ShowsBytes
  <1>10. ShowsDots(TRUE, TRUE, addr, limit, len, shown)
    BY <1>3, <1>7, <1>8, Zenon DEF ShowsDots
  <1>. QED BY <1>9, <1>10 DEF shown, limit

-----------------------------------------------------------------------------
(* The specification                                                         *)

\* An answer is the one of a call that memory is asked.
ReadInv ==
    /\ memory \in DOMAIN Calls /\ kernel \in {"none", "whole", "pages"}
    /\ call = NoCall \/ call \in Calls[memory]
    /\ call.op = "umovestr" => answer = umovestr(call.addr, call.len)
    /\ call.op = "printstr" =>
           answer = printstr(call.addr, call.len, call.limit, call.xflag)
    /\ call.op = "printpathn" => answer = printpathn(call.addr, call.limit, call.xflag)

LEMMA ReadInvHolds == ReadSpec => []ReadInv
  <1>1. ReadInit => ReadInv
    BY DEF ReadInit, ReadInv, NoCall
  <1>2. ReadInv /\ [ReadNext]_readVars => ReadInv'
    <2>. SUFFICES ASSUME ReadInv, [ReadNext]_readVars PROVE ReadInv'
      OBVIOUS
    <2>1. memory' = memory /\ kernel' = kernel
      BY DEF ReadNext, umovenCall, umovestrCall, printstrCall, printpathnCall, readVars
    <2>. DEFINE read == \A addr, len : umovestr(addr, len)' = umovestr(addr, len)
                moved == \A addr, len : umoven(addr, len)' = umoven(addr, len)
                string == \A addr, len, n, x : printstr(addr, len, n, x)' = printstr(addr, len, n, x)
                path == \A addr, n, x : printpathn(addr, n, x)' = printpathn(addr, n, x)
                same == read /\ string /\ path
    <2>2. same
      <3>1. read
        BY <2>1 DEF umovestr, PeekString, ReadChunks, process_vm_readv, Mapped, BytesAt,
                    PeekedWords, ChunkLen, Failed
      <3>2. moved
        BY <2>1 DEF umoven, process_vm_readv, Mapped, BytesAt, PeekedWords, Failed
      <3>3. string
        BY <3>1, <3>2 DEF printstr
      <3>4. path
        BY <3>1, <3>2, ZenonT(40) DEF printpathn
      <3>. QED BY <3>1, <3>3, <3>4
    <2>3. CASE umovestrCall
      <3>1. PICK c \in Calls[memory] :
                c.op = "umovestr" /\ call' = c /\ answer' = umovestr(c.addr, c.len)
        BY <2>3 DEF umovestrCall
      <3>. QED BY <2>1, <2>2, <3>1 DEF ReadInv
    <2>4. CASE umovenCall
      BY <2>4 DEF umovenCall, ReadInv
    <2>5. CASE printstrCall
      <3>1. PICK c \in Calls[memory] :
                /\ c.op = "printstr" /\ call' = c
                /\ answer' = printstr(c.addr, c.len, c.limit, c.xflag)
        BY <2>5 DEF printstrCall
      <3>. QED BY <2>1, <2>2, <3>1 DEF ReadInv
    <2>6. CASE printpathnCall
      <3>1. PICK c \in Calls[memory] :
                /\ c.op = "printpathn" /\ call' = c
                /\ answer' = printpathn(c.addr, c.limit, c.xflag)
        BY <2>6 DEF printpathnCall
      <3>. QED BY <2>1, <2>2, <3>1 DEF ReadInv
    <2>7. CASE UNCHANGED readVars
      BY <2>1, <2>7, <2>2 DEF readVars, ReadInv
    <2>. QED BY <2>3, <2>4, <2>5, <2>6, <2>7 DEF ReadNext
  <1>. QED BY <1>1, <1>2, PTL DEF ReadSpec

\* umovestr finds the end of every string that ends within len bytes, whether words
\* are peeked or chunks are read, as long as the chunks of the string can be read; it
\* tells of an end only if there is one where it looked, and of len bytes only if none
\* of them is NUL.
THEOREM StringsAreFound == ReadSpec => []StringsFound
  <1>1. ReadInv => StringsFound
    <2>. SUFFICES ASSUME ReadInv, call.op = "umovestr"
                  PROVE  /\ Finds(call.addr, call.len, answer)
                         /\ Tells(call.addr, call.len, answer)
                         /\ HasNone(call.addr, call.len, answer)
      BY DEF StringsFound, Finds, Tells, HasNone
    <2>1. call \in Calls[memory]
      BY DEF ReadInv, NoCall
    <2>2. call.addr \in Nat /\ call.len \in Nat
      BY <2>1, CallsAssumption DEF ReadInv
    <2>3. answer = umovestr(call.addr, call.len)
      BY DEF ReadInv
    <2>. QED BY <2>2, <2>3, umovestrRight DEF ReadInv
  <1>. QED BY <1>1, ReadInvHolds, PTL

\* What printstr and printpathn show of a string or a buffer means, when conv_micro
\* evaluates it, the bytes that are in memory up to the limit, for any bytes, lengths
\* and xflag; and "..." follows if and only if there are more of them, except after a
\* path that ends in the last word that was peeked.
THEOREM StringsAreShown == ReadSpec => []StringsShown
  <1>1. ReadInv => StringsShown
    <2>. SUFFICES ASSUME ReadInv, call.op \in {"printstr", "printpathn"},
                         answer.kind = "text"
                  PROVE  StringsShown
      BY DEF StringsShown
    <2>. DEFINE limit == IF call.op = "printstr" THEN call.limit
                         ELSE Min({call.limit, MaxPath})
    <2>0. memory \in DOMAIN Calls /\ kernel \in {"none", "whole", "pages"}
      BY DEF ReadInv
    <2>1. call \in Calls[memory]
      BY DEF ReadInv, NoCall
    <2>2. /\ ShowsBytes(IsString, call.addr, limit, call.len, answer)
          /\ ShowsDots(IsString, call.op = "printpathn", call.addr, limit, call.len, answer)
      <3>1. CASE call.op = "printstr"
        <4>1. /\ call.addr \in Nat /\ call.len \in Int /\ call.limit \in Nat
              /\ call.xflag \in Nat
          BY <2>0, <2>1, <3>1, CallsAssumption
        <4>2. answer = printstr(call.addr, call.len, call.limit, call.xflag)
          BY <3>1 DEF ReadInv
        <4>3. /\ IsString = (call.len = -1) /\ (call.op = "printpathn") = FALSE
              /\ limit = call.limit
          BY <3>1 DEF IsString
        <4>. HIDE DEF limit
        <4>. QED BY <2>0, <4>1, <4>2, <4>3, printstrRight
      <3>2. CASE call.op = "printpathn"
        <4>1. call.addr \in Nat /\ call.limit \in Nat /\ call.xflag \in Nat
          BY <2>0, <2>1, <3>2, CallsAssumption
        <4>2. answer = printpathn(call.addr, call.limit, call.xflag)
          BY <3>2 DEF ReadInv
        <4>3. /\ IsString = TRUE /\ (call.op = "printpathn") = TRUE
              /\ limit = Min({call.limit, MaxPath})
          BY <3>2 DEF IsString
        <4>. HIDE DEF limit
        <4>. QED BY <2>0, <4>1, <4>2, <4>3, printpathnRight
      <3>. QED BY <3>1, <3>2
    <2>. QED BY <2>2, Zenon DEF StringsShown, ShowsBytes, ShowsDots, IsWhole, LengthOf
  <1>. QED BY <1>1, ReadInvHolds, PTL

-----------------------------------------------------------------------------
(* The memory maps of stack traces                                           *)

WorkloadCalls == UNION {w.calls : w \in Workloads}

Threads0 == [pc : {"user", "entry", "printing", "kernel", "exit", "gone", "dropped"},
             call : {""} \cup WorkloadCalls]

Places == [file : Programs \cup Libraries \cup {""}, offset : 0..LastPage]

ThreadsOK == workload \in Workloads /\ thread \in [Threads -> Threads0]

CachesOK ==
    /\ DOMAIN mmap_cache = Threads
    /\ \A t \in Threads :
           /\ mmap_cache[t] = NULL \/ Len(mmap_cache[t]) \in 1..(LastPage + 1)
           /\ thread[t].pc = "dropped" => mmap_cache[t] = NULL

SpaceOK ==
    /\ space \in [Pages -> Places]
    /\ DOMAIN backtrace = {"tcp", "frame", "retaddr", "depth"}
    /\ backtrace.tcp \in Threads \cup {0}
    /\ backtrace.tcp \in Threads => thread[backtrace.tcp].pc \in {"printing", "gone"}

TypeInv == ThreadsOK /\ CachesOK /\ SpaceOK

\* After its return from the kernel, until trace_syscall_exiting; or before droptcb.
Deletes(t) ==
    \/ thread[t].pc = "exit" /\ thread[t].call \in Deleting
    \/ thread[t].pc \in {"gone", "dropped"}

CurrentInv ==
    /\ DOMAIN missed = Threads
    /\ \A t \in Threads :
           mmap_cache[t] # NULL /\ missed[t] = {} /\ ~Deletes(t) =>
               Front(mmap_cache[t]) = Maps

-----------------------------------------------------------------------------
\* A function on 1..n is a sequence of its length.
LEMMA FunctionIsSeq ==
    ASSUME NEW X, NEW n \in Nat, NEW f \in [1..n -> X]
    PROVE  f \in Seq(X) /\ Len(f) = n
OBVIOUS

\* /proc/PID/maps has at most a line for each page.
LEMMA MapsLength ==
    /\ Maps \in Seq({Maps[i] : i \in DOMAIN Maps})
    /\ Len(Maps) \in 0..LastPage
  <1> DEFINE S == {p \in Pages : Starts(space, p)}
             n == Cardinality(S)
  <1>1. LastPage \in Nat
    BY StackTracesAssumption
  <1>2. IsFiniteSet(Pages) /\ Cardinality(Pages) = LastPage
    BY <1>1, FS_Interval DEF Pages
  <1>3. n \in Nat /\ n <= LastPage
    <2>1. S \subseteq Pages
      OBVIOUS
    <2> QED
      BY <1>2, <2>1, FS_Subset, FS_CardinalityType
  <1>4. DOMAIN Maps = 1..n /\ Maps = [i \in 1..n |-> Maps[i]]
    BY DEF Maps, MapsOf
  <1>5. Maps \in [1..n -> {Maps[i] : i \in DOMAIN Maps}]
    BY <1>4
  <1>6. Maps \in Seq({Maps[i] : i \in DOMAIN Maps}) /\ Len(Maps) = n
    BY <1>3, <1>5, FunctionIsSeq
  <1> QED
    BY <1>1, <1>3, <1>6

\* alloc_mmap_cache gives a cache of the lines there are now, and one entry more.
LEMMA Allocated ==
    ASSUME NEW unset
    PROVE  /\ Len(alloc_mmap_cache(unset)) \in 1..(LastPage + 1)
           /\ alloc_mmap_cache(unset) # NULL
           /\ Front(alloc_mmap_cache(unset)) = Maps
  <1> DEFINE M == Maps
             X == {M[i] : i \in DOMAIN M} \cup {unset}
  <1>1. M \in Seq(X) /\ Len(M) \in 0..LastPage /\ LastPage \in Nat
    <2>1. M \in Seq({M[i] : i \in DOMAIN M})
      BY MapsLength
    <2> QED
      BY <2>1, MapsLength, StackTracesAssumption
  <1>2. alloc_mmap_cache(unset) = Append(M, unset)
    BY DEF alloc_mmap_cache
  <1> HIDE DEF M
  <1>3. Len(Append(M, unset)) = Len(M) + 1 /\ Append(M, unset) # << >>
    BY <1>1
  <1>4. SubSeq(Append(M, unset), 1, Len(M)) = M
    BY <1>1
  <1> QED
    BY <1>1, <1>2, <1>3, <1>4 DEF Front, NULL, M

-----------------------------------------------------------------------------
LEMMA PlacesOf ==
    /\ LastPage \in Nat \ {0} /\ Pages = 1..LastPage /\ Free \in Places
    /\ \A f \in Programs \cup Libraries, o \in 0..LastPage :
           [file |-> f, offset |-> o] \in Places
  <1>1. LastPage \in Nat \ {0} /\ Pages = 1..LastPage
    BY StackTracesAssumption DEF Pages
  <1>2. 0 \in 0..LastPage
    BY <1>1
  <1>3. "" \in Programs \cup Libraries \cup {""}
    OBVIOUS
  <1>4. Free \in Places
    BY <1>2, <1>3 DEF Free, Places
  <1>5. ASSUME NEW f \in Programs \cup Libraries, NEW o \in 0..LastPage
        PROVE  [file |-> f, offset |-> o] \in Places
    <2>1. f \in Programs \cup Libraries \cup {""}
      OBVIOUS
    <2> QED
      BY <2>1, <1>5 DEF Places
  <1> QED
    BY <1>1, <1>4, <1>5

LEMMA LoadedOK == \A f \in Programs : Loaded(f) \in [Pages -> Places]
  <1>1. 0 \in 0..LastPage
    BY PlacesOf
  <1>2. \A f \in Programs : [file |-> f, offset |-> 0] \in Places
    BY <1>1, PlacesOf
  <1> QED
    BY <1>2, PlacesOf DEF Loaded

LEMMA InitTypeInv == Init => TypeInv
  <1> SUFFICES ASSUME Init PROVE TypeInv
    OBVIOUS
  <1>1. ThreadsOK
    BY DEF Init, ThreadsOK, User, Threads0
  <1>2. CachesOK
    BY DEF Init, CachesOK, User
  <1>3. SpaceOK
    <2>2. space \in [Pages -> Places]
      BY LoadedOK DEF Init
    <2>3. backtrace = NoBacktrace /\ 0 \notin Threads
      BY StackTracesAssumption DEF Init
    <2> QED
      BY <2>2, <2>3 DEF SpaceOK, NoBacktrace
  <1> QED
    BY <1>1, <1>2, <1>3 DEF TypeInv

\* What a call makes of a space is a space.
LEMMA SpaceKept ==
    ASSUME SpaceOK, NEW c, Served(c)
    PROVE  space' \in [Pages -> Places]
  <1>1. /\ Pages = 1..LastPage /\ LastPage \in Nat
        /\ space \in [Pages -> Places] /\ Free \in Places
    BY PlacesOf DEF SpaceOK
  <1>2. CASE UNCHANGED space
    BY <1>1, <1>2
  <1>3. ASSUME NEW f \in Libraries, NEW first \in Pages, NEW last \in first..LastPage,
               space' = [p \in Pages |-> IF p \in first..last
                                        THEN [file |-> f, offset |-> p - first]
                                        ELSE space[p]]
        PROVE  space' \in [Pages -> Places]
    <2>1. ASSUME NEW p \in Pages, p \in first..last
          PROVE  [file |-> f, offset |-> p - first] \in Places
      <3>1. p - first \in 0..LastPage
        BY <1>1, <2>1
      <3> QED
        BY <3>1, PlacesOf
    <2> QED
      BY <1>1, <1>3, <2>1
  <1>4. ASSUME NEW first \in Pages, NEW last \in first..LastPage,
               space' = [p \in Pages |-> IF p \in first..last THEN Free ELSE space[p]]
        PROVE  space' \in [Pages -> Places]
    BY <1>1, <1>4
  <1>5. ASSUME NEW old \in Pages, NEW new \in Pages,
               space' = [p \in Pages |-> IF p = new THEN space[old]
                                        ELSE IF p = old THEN Free ELSE space[p]]
        PROVE  space' \in [Pages -> Places]
    BY <1>1, <1>5
  <1>6. ASSUME NEW f \in Programs, space' = Loaded(f)
        PROVE  space' \in [Pages -> Places]
    BY <1>6, LoadedOK
  <1> QED
    BY <1>2, <1>3, <1>4, <1>5, <1>6 DEF Served

LEMMA StepTypeInv == TypeInv /\ [Next]_vars => TypeInv'
  <1> SUFFICES ASSUME TypeInv, [Next]_vars PROVE TypeInv'
    OBVIOUS
  <1> USE DEF TypeInv
  <1>0. ASSUME NEW u \in Threads
        PROVE  /\ Gone(u) \in Threads0 /\ Gone(u).pc \in {"gone", "dropped"}
               /\ Gone(u).pc = "dropped" <=> thread[u].pc = "dropped"
    BY DEF Gone, ThreadsOK, Threads0
  <1>1. ASSUME Kill PROVE TypeInv'
    <2>1. /\ thread' \in [Threads -> Threads0]
          /\ \A u \in Threads : thread'[u] = Gone(u)
      BY <1>0, <1>1 DEF Kill
    <2>2. ThreadsOK' /\ CachesOK'
      BY <1>0, <1>1, <2>1 DEF Kill, ThreadsOK, CachesOK
    <2>3. SpaceOK'
      BY <1>0, <1>1, <2>1 DEF Kill, SpaceOK
    <2> QED
      BY <2>2, <2>3
  <1>2. ASSUME NEW t \in Threads, Call(t) PROVE TypeInv'
    <2>1. PICK c \in WorkloadCalls : thread' = [thread EXCEPT ![t] = [pc |-> "entry", call |-> c]]
      BY <1>2 DEF Call, WorkloadCalls, ThreadsOK
    <2> QED
      BY <1>2, <2>1 DEF Call, ThreadsOK, Threads0, CachesOK, SpaceOK
  <1>3. ASSUME NEW t \in Threads, Serve(t) PROVE TypeInv'
    <2>1. space' \in [Pages -> Places]
      BY <1>3, SpaceKept DEF Serve
    <2>2. /\ thread' \in [Threads -> Threads0]
          /\ \A u \in Threads :
                 /\ thread'[u].pc = "dropped" => thread[u].pc = "dropped"
                 /\ thread[u].pc \in {"printing", "gone"} =>
                        thread'[u].pc \in {"printing", "gone"}
      <3>1. CASE thread' = [thread EXCEPT ![t].pc = "exit"]
        BY <1>3, <3>1 DEF Serve, ThreadsOK, Threads0
      <3>2. CASE thread' = [u \in Threads |->
                              IF u = t THEN [pc |-> "exit", call |-> thread[t].call]
                              ELSE Gone(u)]
        <4>1. [pc |-> "exit", call |-> thread[t].call] \in Threads0
          BY DEF ThreadsOK, Threads0
        <4>2. ASSUME NEW u \in Threads, thread[u].pc \in {"printing", "gone"}
              PROVE  Gone(u).pc = "gone" /\ u # t
          BY <1>3, <4>2 DEF Gone, Serve
        <4> QED
          BY <1>0, <3>2, <4>1, <4>2
      <3> QED
        BY <1>3, <3>1, <3>2 DEF Serve
    <2> QED
      BY <1>3, <2>1, <2>2 DEF Serve, ThreadsOK, CachesOK, SpaceOK
  <1>4. ASSUME NEW t \in Threads, Entering(t) PROVE TypeInv'
    BY <1>4, ZenonT(40) DEF Entering, Idle, ThreadsOK, Threads0, CachesOK, SpaceOK
  <1>5. ASSUME NEW t \in Threads, EnteringWithStack(t) PROVE TypeInv'
    BY <1>5, ZenonT(40) DEF EnteringWithStack, Idle, NoBacktrace, ThreadsOK, Threads0, CachesOK, SpaceOK
  <1>6. ASSUME NEW t \in Threads, OutputStack(t) PROVE TypeInv'
    <2>1. PICK unset \in Unset :
              mmap_cache' = [mmap_cache EXCEPT ![t] =
                                IF mmap_cache[t] # NULL THEN mmap_cache[t]
                                ELSE alloc_mmap_cache(unset)]
      BY <1>6 DEF OutputStack
    <2>2. Len(alloc_mmap_cache(unset)) \in 1..(LastPage + 1)
      BY Allocated
    <2>3. CachesOK'
      BY <1>6, <2>1, <2>2 DEF OutputStack, CachesOK, SpaceOK
    <2> QED
      BY <1>6, <2>3 DEF OutputStack, ThreadsOK, SpaceOK
  <1>7. ASSUME NEW t \in Threads, Exitif(t) PROVE TypeInv'
    BY <1>7 DEF Exitif, ThreadsOK, CachesOK, SpaceOK
  <1>8. ASSUME NEW t \in Threads, NextFrame(t) PROVE TypeInv'
    BY <1>8 DEF NextFrame, ThreadsOK, CachesOK, SpaceOK
  <1>9. ASSUME NEW t \in Threads, StackEnds(t) PROVE TypeInv'
    <2>1. 0 \notin Threads
      BY StackTracesAssumption
    <2>2. /\ thread' \in [Threads -> Threads0]
          /\ \A u \in Threads : thread'[u].pc = "dropped" => thread[u].pc = "dropped"
      BY <1>9, ZenonT(40) DEF StackEnds, ThreadsOK, Threads0
    <2>3. DOMAIN backtrace' = {"tcp", "frame", "retaddr", "depth"} /\ backtrace'.tcp = 0
      BY <1>9 DEF StackEnds, NoBacktrace
    <2> QED
      BY <1>9, <2>1, <2>2, <2>3 DEF StackEnds, ThreadsOK, CachesOK, SpaceOK
  <1>10. ASSUME NEW t \in Threads, Exiting(t) PROVE TypeInv'
    BY <1>10 DEF Exiting, Idle, User, ThreadsOK, Threads0, CachesOK, SpaceOK
  <1>11. ASSUME NEW t \in Threads, Dropped(t) PROVE TypeInv'
    <2>1. backtrace.tcp \notin Threads
      BY <1>11, StackTracesAssumption DEF Dropped, Idle, NoBacktrace
    <2>2. ThreadsOK'
      BY <1>11 DEF Dropped, ThreadsOK, Threads0
    <2>3. CachesOK'
      BY <1>11 DEF Dropped, ThreadsOK, CachesOK
    <2>4. SpaceOK'
      BY <1>11, <2>1 DEF Dropped, SpaceOK
    <2> QED
      BY <2>2, <2>3, <2>4
  <1>12. ASSUME UNCHANGED vars PROVE TypeInv'
    BY <1>12 DEF vars, ThreadsOK, CachesOK, SpaceOK
  <1> QED
    BY <1>1, <1>2, <1>3, <1>4, <1>5, <1>6, <1>7, <1>8, <1>9, <1>10, <1>11, <1>12
       DEF Next, PrintStep

-----------------------------------------------------------------------------
\* A served call leaves the space as it is, or deletes the cache at its return, or is
\* one of those that go unnoticed.
LEMMA ServedCalls ==
    ASSUME NEW c, Served(c)
    PROVE  \/ space' = space
           \/ c \in Deleting
           \/ c \in {"mmap2", "mremap", "filtered"}
BY DEF Served, Deleting

LEMMA SameSpace == space' = space => Maps' = Maps
BY DEF Maps

LEMMA InitCurrentInv == Init => CurrentInv
BY DEF Init, CurrentInv

LEMMA StepCurrentInv == TypeInv /\ CurrentInv /\ [Next]_vars => CurrentInv'
  <1> SUFFICES ASSUME TypeInv, CurrentInv, [Next]_vars PROVE CurrentInv'
    OBVIOUS
  <1> USE DEF TypeInv
  <1>1. ASSUME Kill PROVE CurrentInv'
    <2>1. Maps' = Maps
      BY <1>1, SameSpace DEF Kill
    <2>2. \A u \in Threads : thread'[u].pc \in {"gone", "dropped"}
      BY <1>1 DEF Kill, Gone
    <2> QED
      BY <1>1, <2>1, <2>2 DEF Kill, CurrentInv, Deletes
  <1>2. ASSUME NEW t \in Threads, Call(t) PROVE CurrentInv'
    <2>1. Maps' = Maps
      BY <1>2, SameSpace DEF Call
    <2>2. \A u \in Threads : u # t => thread'[u] = thread[u]
      BY <1>2 DEF Call, ThreadsOK
    <2>3. thread[t].pc = "user" /\ thread'[t].pc = "entry"
      BY <1>2 DEF Call, ThreadsOK
    <2> QED
      BY <1>2, <2>1, <2>2, <2>3 DEF Call, CurrentInv, Deletes
  <1>3. ASSUME NEW t \in Threads, Serve(t) PROVE CurrentInv'
    <2> DEFINE c == thread[t].call
    <2>1. thread'[t].pc = "exit" /\ thread'[t].call = c
      <3>1. CASE thread' = [thread EXCEPT ![t].pc = "exit"]
        BY <3>1 DEF ThreadsOK, Threads0
      <3>2. CASE thread' = [u \in Threads |->
                              IF u = t THEN [pc |-> "exit", call |-> c] ELSE Gone(u)]
        BY <3>2
      <3> QED
        BY <1>3, <3>1, <3>2 DEF Serve
    <2>2. Served(c) /\ thread[t].pc = "kernel" /\ mmap_cache' = mmap_cache
      BY <1>3 DEF Serve
    <2>3. CASE space' = space
      <3>1. Maps' = Maps /\ missed' = missed
        BY <1>3, <2>3, SameSpace DEF Serve
      <3>2. \A u \in Threads : u # t => thread'[u] = thread[u]
        BY <1>3, <2>3 DEF Serve, ThreadsOK
      <3> QED
        BY <2>1, <2>2, <3>1, <3>2 DEF CurrentInv, Deletes
    <2>4. CASE space' # space
      <3>1. missed' = Missing(t, c)
        BY <1>3, <2>4 DEF Serve
      <3>2. \A u \in Threads : u # t => missed'[u] # {}
        BY <3>1 DEF Missing
      <3>3. c \in {"mmap2", "mremap", "filtered"} => missed'[t] # {}
        BY <3>1 DEF Missing
      <3>4. c \in Deleting => Deletes(t)'
        BY <2>1 DEF Deletes
      <3>5. DOMAIN missed' = Threads
        BY <3>1 DEF Missing
      <3> QED
        BY <2>2, <2>4, <3>2, <3>3, <3>4, <3>5, ServedCalls DEF CurrentInv
    <2> QED
      BY <2>3, <2>4
  <1>4. ASSUME NEW t \in Threads, Entering(t) \/ EnteringWithStack(t) \/ StackEnds(t)
        PROVE  CurrentInv'
    <2>1. Maps' = Maps /\ mmap_cache' = mmap_cache /\ missed' = missed
      BY <1>4, SameSpace DEF Entering, EnteringWithStack, StackEnds
    <2>2. \A u \in Threads : u # t => thread'[u] = thread[u]
      BY <1>4 DEF Entering, EnteringWithStack, StackEnds, ThreadsOK
    <2>3. /\ thread'[t].pc # "exit" /\ thread[t].pc # "exit"
          /\ thread[t].pc \in {"gone", "dropped"} => thread'[t] = thread[t]
      <3>1. CASE Entering(t) \/ EnteringWithStack(t)
        <4>1. thread[t].pc = "entry"
          BY <3>1 DEF Entering, EnteringWithStack
        <4>2. thread'[t].pc \in {"kernel", "printing"}
          <5>1. CASE Entering(t)
            BY <5>1 DEF Entering, ThreadsOK, Threads0
          <5>2. CASE EnteringWithStack(t)
            BY <5>2 DEF EnteringWithStack, ThreadsOK, Threads0
          <5> QED
            BY <3>1, <5>1, <5>2
        <4> QED
          BY <4>1, <4>2
      <3>2. CASE StackEnds(t)
        <4>1. thread[t].pc \in {"printing", "gone"}
          BY <3>2 DEF StackEnds, SpaceOK
        <4>2. /\ thread'[t].pc = thread[t].pc \/ thread'[t].pc = "kernel"
              /\ thread[t].pc = "gone" => thread'[t] = thread[t]
          BY <3>2 DEF StackEnds, ThreadsOK, Threads0
        <4> QED
          BY <4>1, <4>2
      <3> QED
        BY <1>4, <3>1, <3>2
    <2> QED
      BY <2>1, <2>2, <2>3 DEF CurrentInv, Deletes
  <1>5. ASSUME NEW t \in Threads, OutputStack(t) PROVE CurrentInv'
    <2>1. PICK unset \in Unset :
              mmap_cache' = [mmap_cache EXCEPT ![t] =
                                IF mmap_cache[t] # NULL THEN mmap_cache[t]
                                ELSE alloc_mmap_cache(unset)]
      BY <1>5 DEF OutputStack
    <2>2. Front(alloc_mmap_cache(unset)) = Maps
      BY Allocated
    <2>3. Maps' = Maps /\ thread' = thread
      BY <1>5, SameSpace DEF OutputStack
    <2>4. missed' = IF mmap_cache[t] = NULL THEN [missed EXCEPT ![t] = {}] ELSE missed
      BY <1>5 DEF OutputStack
    <2>5. ASSUME NEW u \in Threads, mmap_cache'[u] # NULL, missed'[u] = {}, ~Deletes(u)'
          PROVE  Front(mmap_cache'[u]) = Maps'
      <3>1. CASE u = t /\ mmap_cache[t] = NULL
        BY <2>1, <2>2, <2>3, <3>1 DEF CachesOK
      <3>2. CASE ~(u = t /\ mmap_cache[t] = NULL)
        <4>1. mmap_cache'[u] = mmap_cache[u] /\ missed'[u] = missed[u]
          BY <2>1, <2>4, <3>2 DEF CachesOK, CurrentInv
        <4> QED
          BY <2>3, <2>5, <4>1 DEF CurrentInv, Deletes
      <3> QED
        BY <3>1, <3>2
    <2> QED
      BY <2>4, <2>5 DEF CurrentInv
  <1>6. ASSUME NEW t \in Threads, Exitif(t) \/ NextFrame(t) PROVE CurrentInv'
    <2>1. Maps' = Maps
      BY <1>6, SameSpace DEF Exitif, NextFrame
    <2> QED
      BY <1>6, <2>1 DEF Exitif, NextFrame, CurrentInv, Deletes
  <1>7. ASSUME NEW t \in Threads, Exiting(t) PROVE CurrentInv'
    <2>1. Maps' = Maps /\ missed' = missed
      BY <1>7, SameSpace DEF Exiting
    <2>2. \A u \in Threads : u # t =>
              thread'[u] = thread[u] /\ mmap_cache'[u] = mmap_cache[u]
      BY <1>7 DEF Exiting, ThreadsOK, CachesOK
    <2>3. IF thread[t].call \in Deleting THEN mmap_cache'[t] = NULL
          ELSE mmap_cache'[t] = mmap_cache[t] /\ ~Deletes(t)
      BY <1>7 DEF Exiting, CachesOK, Deletes
    <2> QED
      BY <2>1, <2>2, <2>3 DEF CurrentInv, Deletes
  <1>8. ASSUME NEW t \in Threads, Dropped(t) PROVE CurrentInv'
    <2>1. Maps' = Maps /\ missed' = missed
      BY <1>8, SameSpace DEF Dropped
    <2>2. /\ mmap_cache'[t] = NULL
          /\ \A u \in Threads : u # t =>
                 thread'[u] = thread[u] /\ mmap_cache'[u] = mmap_cache[u]
      BY <1>8 DEF Dropped, ThreadsOK, CachesOK
    <2> QED
      BY <2>1, <2>2 DEF CurrentInv, Deletes
  <1>9. ASSUME UNCHANGED vars PROVE CurrentInv'
    <2>1. Maps' = Maps
      BY <1>9, SameSpace DEF vars
    <2> QED
      BY <1>9, <2>1 DEF vars, CurrentInv, Deletes
  <1> QED
    BY <1>1, <1>2, <1>3, <1>4, <1>5, <1>6, <1>7, <1>8, <1>9 DEF Next, PrintStep

-----------------------------------------------------------------------------
\* The types of the state, and a tcb that is dropped has no cache: for any number of
\* threads and pages.
THEOREM StacksTypeCorrect == Spec => []StackTracesTypeOK
  <1>1. TypeInv => StackTracesTypeOK
    BY DEF TypeInv, ThreadsOK, Threads0, CachesOK, SpaceOK, Places, StackTracesTypeOK
  <1>2. Init => TypeInv
    BY InitTypeInv
  <1>3. TypeInv /\ [Next]_vars => TypeInv'
    BY StepTypeInv
  <1> QED
    BY <1>1, <1>2, <1>3, PTL DEF Spec

\* The cache of a thread that does not make a call is /proc/PID/maps, unless another
\* thread has changed the address space since, or a call after which delete_mmap_cache
\* is not called: for any number of threads, any programs and any order of calls.
THEOREM CachesStayCurrent == Spec => []CachesCurrent
  <1>1. TypeInv /\ CurrentInv => CachesCurrent
    BY DEF CurrentInv, CachesCurrent, Deletes
  <1>2. Init => TypeInv /\ CurrentInv
    BY InitTypeInv, InitCurrentInv
  <1>3. (TypeInv /\ CurrentInv) /\ [Next]_vars => (TypeInv /\ CurrentInv)'
    BY StepTypeInv, StepCurrentInv
  <1> QED
    BY <1>1, <1>2, <1>3, PTL DEF Spec
=============================================================================
