--------------------------- MODULE MC_ReplayerThreads ---------------------------
(* Instance of ReplayerThreads: two workers, given in the .cfg files.        *)
EXTENDS ReplayerThreads
=============================================================================
