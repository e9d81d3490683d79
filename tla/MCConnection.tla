---------------------------- MODULE MCConnection ----------------------------
(* The symmetry of the safety runs of ConnectionFSM.                       *)
EXTENDS ConnectionFSM, TLC

Interchangeable == Permutations(Conns)
=============================================================================
