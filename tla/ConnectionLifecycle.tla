------------------------ MODULE ConnectionLifecycle ------------------------
(***************************************************************************)
(* What the dialer relies on of a connection (src/connection/index.js):    *)
(* each one goes through its phases in one direction, ends at most once,   *)
(* and the dial queue that waits for it is resumed exactly once, when the  *)
(* attempt is over.  Module Dialer moves its connections along these       *)
(* phases; module ConnectionFSM is shown to implement them.                *)
(***************************************************************************)
CONSTANT Conns

VARIABLES
  phase,    \* of each connection
  resumed   \* connections whose end of attempt the dial queue heard of

Live   == {"dialing", "securing", "muxed", "unmuxed"}
Over   == {"late", "closed"}
Phases == {"none", "closing"} \cup Live \cup Over

Init == phase = [c \in Conns |-> "none"] /\ resumed = {}

Moves(c, from, to) ==
  /\ phase[c] \in from
  /\ phase' = [phase EXCEPT ![c] = to]
  /\ UNCHANGED resumed

Dials(c)    == Moves(c, {"none"}, "dialing")
Connects(c) == Moves(c, {"dialing"}, "securing")
Muxes(c)    == Moves(c, {"securing"}, "muxed")
Unmuxes(c)  == Moves(c, {"securing"}, "unmuxed")
Closes(c)   == Moves(c, Live, "closing")
Closed(c)   == Moves(c, {"closing", "late"}, "closed")

(* It closed while its transport is still dialing. *)
ClosedEarly(c) == Moves(c, {"closing"}, "late")

(* The queue is told that the attempt is over, whichever way it ended. *)
Resumes(c) ==
  /\ phase[c] \in {"muxed", "unmuxed"} \cup Over
  /\ c \notin resumed
  /\ resumed' = resumed \cup {c}
  /\ UNCHANGED phase

Next ==
  \E c \in Conns :
    \/ Dials(c) \/ Connects(c) \/ Muxes(c) \/ Unmuxes(c)
    \/ Closes(c) \/ Closed(c) \/ ClosedEarly(c) \/ Resumes(c)

Spec == Init /\ [][Next]_<<phase, resumed>>
=============================================================================
