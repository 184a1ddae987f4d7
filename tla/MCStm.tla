-------------------------------- MODULE MCStm --------------------------------
(* Stm with two or three calls of transact() and two keys. *)
EXTENDS Stm, TLC

\* Calls are interchangeable, and so are keys.
Interchangeable == Permutations(Txn) \cup Permutations(Key)
=============================================================================
