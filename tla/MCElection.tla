------------------------------ MODULE MCElection ------------------------------
(* Election with interchangeable campaigns. *)
EXTENDS Election, TLC

Interchangeable == Permutations(Candidate)
=============================================================================
