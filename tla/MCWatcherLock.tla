----------------------------- MODULE MCWatcherLock -----------------------------
(* Instances of WatcherLock for TLC.                                       *)
EXTENDS WatcherLock, TLC

CONSTANTS p1, p2, p3, p4

Symmetric == Permutations(Procs \ Unlocked)
=============================================================================
