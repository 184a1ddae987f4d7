--------------------------- MODULE MCWatchManager ---------------------------
(* Instances of WatchManager for TLC. *)
EXTENDS WatchManager, TLC

Interchangeable == Permutations(Watcher) \cup Permutations(Stream)

=============================================================================
