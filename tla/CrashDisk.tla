----------------------------- MODULE CrashDisk -----------------------------
(***************************************************************************)
(* Abstract specification: the file system whose crash states the test     *)
(* suite enumerates.  A program issues operations one after the other; the *)
(* file system writes a buffered operation to disk whenever it likes, in   *)
(* any order, and lets a sync return only when the operations in its range *)
(* are on disk.  The machine may crash at any moment and leaves exactly    *)
(* the persisted operations behind, so every reachable value of            *)
(* `persisted' is a crash state.  No code is modelled here: this is what   *)
(* src/auto_test.py presumes of the file system.                           *)
(***************************************************************************)
EXTENDS Integers, Sequences

CONSTANT Operations   \* the operations a program can issue

VARIABLES
    issued,     \* the operations the program has issued
    persisted   \* positions of those on disk; a sync is "on disk" once it returned

diskVars == <<issued, persisted>>

IsFsync(i) == issued[i].syscall = "sync"

\* Sync t promises that the earlier operation i is durable when t returns.
Promises(t, i) ==
    /\ IsFsync(t) /\ ~IsFsync(i)
    /\ i < t
    /\ issued[i].inode = issued[t].inode
    /\ issued[i].syscall \in {"write", "truncate"} =>
          issued[t].start <= issued[i].start /\ issued[i].end <= issued[t].end

DiskInit == issued = << >> /\ persisted = {}

\* The program runs on only after every sync it called has returned.
Issue ==
    /\ \A t \in DOMAIN issued : IsFsync(t) => t \in persisted
    /\ \E op \in Operations : issued' = Append(issued, op)
    /\ UNCHANGED persisted

WriteBack(i) ==
    /\ ~IsFsync(i)
    /\ persisted' = persisted \cup {i}
    /\ UNCHANGED issued

Return(t) ==
    /\ IsFsync(t)
    /\ \A i \in DOMAIN issued : Promises(t, i) => i \in persisted
    /\ persisted' = persisted \cup {t}
    /\ UNCHANGED issued

DiskNext == Issue \/ \E i \in DOMAIN issued : WriteBack(i) \/ Return(i)

DiskSpec == DiskInit /\ [][DiskNext]_diskVars
=============================================================================
