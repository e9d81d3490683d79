--------------------------- MODULE MCLimitDialer ---------------------------
(* The addresses of the runs of LimitDialer: we listen at host h1 on port   *)
(* 40 and through relay r.  A peer has addresses of its own, ours learnt    *)
(* from elsewhere, ours behind a relay, or port 4001 at our host, whose     *)
(* text begins like that of ours.  An address we had before, with our id,   *)
(* is dialed.                                                               *)
EXTENDS LimitDialer

MyId    == "/ipfs/me"
Ids     == {"/ipfs/me", "/ipfs/r", "/ipfs/p"}
RelayOf == {"/p2p-circuit"}
Mine    == << <<"/h1", "/tcp/40">>, <<"/r1", "/ipfs/r", "/p2p-circuit", "/ipfs/me">> >>

Moved   == <<"/h3", "/tcp/40", "/ipfs/me">>
WithId  == <<"/h2", "/tcp/40", "/ipfs/p">>
Relayed == <<"/r1", "/ipfs/r", "/p2p-circuit", "/h2", "/ipfs/p">>
SelfAt  == <<"/h1", "/tcp/40">>
SelfBy  == <<"/r2", "/ipfs/r", "/p2p-circuit", "/h1", "/tcp/40", "/ipfs/me">>
Beside  == <<"/h1", "/tcp/40", "01">>
Socket  == <<"/h2", "/ws">>

Lists    == {<<SelfAt, Relayed, SelfBy, Moved>>, <<WithId, Beside>>, <<Beside, Socket>>}
Filtered == {WithId, Relayed, Moved, SelfAt, SelfBy, Beside}
=============================================================================
