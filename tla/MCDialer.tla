------------------------------ MODULE MCDialer ------------------------------
(* The kinds of request and the symmetries of the runs of Dialer.          *)
EXTENDS Dialer, TLC

ColdAndDial == {Connect, Dial}
FSMAndWarm  == {DialFSM, Warm}
OnlyDial    == {Dial}
OnlyWarm    == {Warm}

(* No attempt failed and one peer dialed us: the run about stale entries. *)
StaleEntryOnly == (\A p \in Peers : denylistCount[p] = 0) /\ Cardinality(known) <= 1

Interchangeable == Permutations(Requests) \cup Permutations(Peers)
Alike == Permutations(Requests)
=============================================================================
