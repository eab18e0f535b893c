--------------------------- MODULE MC_TraceeReads ---------------------------
(* Instance of TraceeReads and of StackTraces: each behaviour either prints  *)
(* a part of the memory of a tracee, or the stacks of its threads.           *)
EXTENDS TraceeReads, StackTraces, TLC

VARIABLE side

TraceeReadsInit ==
    \/ side = "memory" /\ ReadInit /\ Init
       /\ use_libunwind /\ workload = (CHOOSE w \in Workloads : TRUE)
       /\ space = Loaded(CHOOSE f \in Programs : TRUE)
    \/ side = "stacks" /\ Init
       /\ memory = << >> /\ kernel = "none" /\ call = NoCall /\ answer = NoCall

TraceeReadsNext ==
    /\ \/ side = "memory" /\ ReadNext /\ UNCHANGED vars
       \/ side = "stacks" /\ Next /\ UNCHANGED readVars
    /\ UNCHANGED side

TraceeReadsSpec ==
    TraceeReadsInit /\ [][TraceeReadsNext]_<<side, readVars, vars>> /\ Fairness

-----------------------------------------------------------------------------
(* Three pages of two chunks of two words each are read, with letters in them *)
(* and at most one NUL; and short strings of every sort of byte are printed.  *)

Filled(pages, nul) ==
    [a \in {a \in 8..31 : a \div 8 \in pages} |-> IF a \in nul THEN 0 ELSE 89 + a]

Spread ==
    {Filled(pages, nul) : pages \in {{1}, {1, 2}, {1, 3}, {1, 2, 3}},
                          nul \in {{}} \cup {{a} : a \in 8..31}}

SpreadCalls ==
    [op : {"umoven", "umovestr"}, addr : 8..16, len : 0..13]
    \cup [op : {"printstr"}, addr : {0, 9, 13}, len : {-1, -2, 0, 4, 6}, limit : 4..6,
          xflag : {0}]
    \cup [op : {"printpathn"}, addr : {0, 9, 13}, limit : 4..8, xflag : {0}]

\* \1 and \33 before and after digits, letters, quotes and bytes above 0x7f.
Alphabet == {0, 1, 10, 27, 34, 49, 92, 200}

\* The page has 'a' after the string; it may not have a NUL at all.
Texts ==
    {[a \in 8..15 |-> IF a - 7 \in DOMAIN s THEN s[a - 7] ELSE IF a < 15 THEN 97 ELSE 0]
        : s \in [1..3 -> Alphabet]}

TextCalls ==
    [op : {"printstr"}, addr : {8}, len : {-1, 2, 3}, limit : 0..3, xflag : 0..2]
    \cup [op : {"printpathn"}, addr : {8}, limit : {2}, xflag : 0..2]

MCCalls == [m \in Spread \cup Texts |-> IF m \in Spread THEN SpreadCalls ELSE TextCalls]

-----------------------------------------------------------------------------
Ending == [pc |-> 1, next |-> 1 :> 2 @@ 2 :> 0, ret |-> 1 :> 2 @@ 2 :> 4]
Circle == [pc |-> 3, next |-> 1 :> 2 @@ 2 :> 1, ret |-> 1 :> 1 @@ 2 :> 3]
Unreadable == [pc |-> 2, next |-> 1 :> 7, ret |-> 1 :> 3]

MCWorkloads ==
    {[calls |-> {"open", "mmap", "munmap"}, stack |-> Unreadable],
     [calls |-> {"open", "mprotect", "mmap2"}, stack |-> Circle],
     [calls |-> {"filtered", "mremap"}, stack |-> Ending],
     [calls |-> {"open", "execve", "SIGKILL"}, stack |-> Ending],
     [calls |-> {"open", "execve", "SIGKILL"}, stack |-> Circle]}
=============================================================================
