----------------------------- MODULE MCSwitch -----------------------------
(* The transports of the runs of Switch. *)
EXTENDS Switch

OneTransport  == <<{"a", "b"}>>
TwoTransports == <<{"a"}, {"b"}>>
=============================================================================
