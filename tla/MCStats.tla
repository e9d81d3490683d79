------------------------------ MODULE MCStats ------------------------------
(* The symmetry of the runs of Stats. *)
EXTENDS Stats, TLC

Interchangeable == Permutations(Peers)
=============================================================================
