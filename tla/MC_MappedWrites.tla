--------------------------- MODULE MC_MappedWrites ---------------------------
(* Instance of MappedWrites: one thread, and two threads that                *)
(* store while they map, unmap, remap and sync one file.                     *)
EXTENDS MappedWrites, TLC

CONSTANTS t1, t2

Alone == [threads |-> {t1}, calls |-> 3, stores |-> 1, kinds |-> {"mmap", "fixed", "munmap"}]
Unmapping == [threads |-> {t1, t2}, calls |-> 3, stores |-> 1, kinds |-> {"mmap", "munmap"}]
Remapping == [threads |-> {t1, t2}, calls |-> 2, stores |-> 2, kinds |-> {"mmap", "fixed"}]
Syncing == [threads |-> {t1, t2}, calls |-> 2, stores |-> 3, kinds |-> {"mmap", "msync"}]

AllPrograms == {Alone, Unmapping, Remapping, Syncing}

\* Which of the threads is alone does not matter.
Symmetry == Permutations(Threads)
=============================================================================
