------------------------------ MODULE Inbound ------------------------------
(***************************************************************************)
(* The connections a remote peer opens to us: the handler of the listeners *)
(* (src/connection/handler.js), IncomingConnectionFSM (incoming.js,        *)
(* base.js), the handler of the stream muxer and the tracking of what      *)
(* comes out of it (manager.js), as ConnectionFSM in its state MUXED.      *)
(*                                                                         *)
(* Module Switch says when connections are accepted and stopped, and hears *)
(* the 'close' of those that are tracked.                                  *)
(***************************************************************************)
EXTENDS Naturals, Sequences, FiniteSets

CONSTANTS
  Conns,      \* the base connections the peer may open
  Protected,  \* switch.protector is set
  Known       \* those whose transport tells the peer's identity

ASSUME InboundAssumption == Protected \in BOOLEAN /\ Known \subseteq Conns

VARIABLES
  incoming,  \* state of each IncomingConnectionFSM
  muxer,     \* "none", "open" or "closed"
  identify,  \* "none", "running" or "resolved"
  conn,      \* state of the ConnectionFSM made of it
  tracked,   \* ConnectionManager.connections[peer]
  peerUp,    \* PeerInfo.isConnected() of the peer in the book
  muxHeard,  \* the last of 'peer-mux-established' and 'peer-mux-closed'
  agenda     \* what is left of the current turn

inVars    == <<incoming, muxer, identify>>
trackVars == <<tracked, peerUp, muxHeard>>
inboundVars == <<inVars, conn, trackVars>>

Quiet == agenda = <<>>
Rest  == Tail(agenda)
Top(f) == agenda # <<>> /\ Head(agenda) = f

CloseEventF(c) == [op |-> "emit close", arg |-> c]

InboundInit ==
  /\ incoming = [c \in Conns |-> "none"]
  /\ muxer = [c \in Conns |-> "none"]
  /\ identify = [c \in Conns |-> "none"]
  /\ conn = [c \in Conns |-> "none"]
  /\ tracked = {} /\ peerUp = FALSE /\ muxHeard = "none"

-----------------------------------------------------------------------------
(* The connection manager. *)

PeerCloses == peerUp' = FALSE /\ muxHeard' = "closed"

(* Mutant: the peer is disconnected with any of its connections. *)
RemoveAndDisconnect(c) == tracked' = tracked \ {c} /\ PeerCloses

(* Without a record of the peer, or with its last connection, the peer is   *)
(* disconnected.                                                            *)
Remove(c) ==
  /\ tracked' = tracked \ {c}
  /\ \/ tracked' = {} /\ PeerCloses
     \/ tracked' # {} /\ UNCHANGED <<peerUp, muxHeard>>

(* add, for a connection that is muxed already. *)
Add(c) ==
  /\ tracked' = tracked \cup {c}
  /\ muxHeard' = "established"

-----------------------------------------------------------------------------
(* IncomingConnectionFSM.  The states DIALED, PRIVATIZED, ENCRYPTED,        *)
(* UPGRADING and DISCONNECTING last for part of a turn only.                *)

Accept(c) ==
  /\ incoming[c] = "none"
  /\ incoming' = [incoming EXCEPT ![c] =
                    IF Protected THEN "PRIVATIZING" ELSE "ENCRYPTING"]
  /\ UNCHANGED <<muxer, identify, conn, trackVars, agenda>>

(* Mutant: nothing goes on to encrypt what is protected. *)
ProtectsAndWaits(c) ==
  /\ Quiet /\ incoming[c] = "PRIVATIZING"
  /\ incoming' = [incoming EXCEPT ![c] = "PRIVATIZED"]
  /\ UNCHANGED <<muxer, identify, conn, trackVars, agenda>>

Protects(c) ==
  /\ Quiet /\ incoming[c] = "PRIVATIZING"
  /\ incoming' = [incoming EXCEPT ![c] = "ENCRYPTING"]
  /\ UNCHANGED <<muxer, identify, conn, trackVars, agenda>>

(* The crypto is done and the protocol muxer takes over. *)
Encrypts(c) ==
  /\ Quiet /\ incoming[c] = "ENCRYPTING"
  /\ incoming' = [incoming EXCEPT ![c] = "MUXED"]
  /\ UNCHANGED <<muxer, identify, conn, trackVars, agenda>>

(* close(err) from the protector or the crypto.  It is not tracked, but     *)
(* remove() disconnects a peer it has no record of, when it is known.       *)
IncomingFails(c) ==
  /\ Quiet /\ incoming[c] \in {"PRIVATIZING", "ENCRYPTING"}
  /\ incoming' = [incoming EXCEPT ![c] = "DISCONNECTED"]
  /\ \/ c \in Known /\ Remove(c)
     \/ c \notin Known /\ UNCHANGED trackVars
  /\ UNCHANGED <<muxer, identify, conn, agenda>>

-----------------------------------------------------------------------------
(* The handler of the stream muxer, with identify enabled. *)

MuxerSelected(c) ==
  /\ Quiet /\ incoming[c] = "MUXED" /\ muxer[c] = "none"
  /\ muxer' = [muxer EXCEPT ![c] = "open"]
  /\ identify' = [identify EXCEPT ![c] = "running"]
  /\ UNCHANGED <<incoming, conn, trackVars, agenda>>

(* The last message of identify came: its callback is due.  Only an open    *)
(* muxer delivers it.                                                       *)
IdentifyResolves(c) ==
  /\ Quiet /\ identify[c] = "running" /\ muxer[c] = "open"
  /\ identify' = [identify EXCEPT ![c] = "resolved"]
  /\ UNCHANGED <<incoming, muxer, conn, trackVars, agenda>>

(* The muxer is ended and the connection never tracked. *)
IdentifyFails(c) ==
  /\ Quiet /\ identify[c] = "running"
  /\ identify' = [identify EXCEPT ![c] = "none"]
  /\ muxer' = [muxer EXCEPT ![c] = "closed"]
  /\ UNCHANGED <<incoming, conn, trackVars, agenda>>

(* The callback: the connection is tracked, the peer connected and the      *)
(* muxer listened to from now on, be it open or not.                        *)
Identified(c) ==
  /\ Quiet /\ identify[c] = "resolved"
  /\ identify' = [identify EXCEPT ![c] = "none"]
  /\ conn' = [conn EXCEPT ![c] = "MUXED"]
  /\ Add(c) /\ peerUp' = TRUE
  /\ UNCHANGED <<incoming, muxer, agenda>>

-----------------------------------------------------------------------------
(* The end of a tracked connection. *)

(* BaseConnection.close: what is muxed disconnects, which ends its muxer;   *)
(* what is disconnected already is removed again.                           *)
Closed(c) ==
  \/ /\ conn[c] = "MUXED"
     /\ conn' = [conn EXCEPT ![c] = "DISCONNECTING"]
     /\ UNCHANGED trackVars
  \/ /\ conn[c] = "DISCONNECTED"
     /\ Remove(c)
     /\ UNCHANGED conn
  \/ /\ conn[c] \in {"none", "DISCONNECTING"}
     /\ UNCHANGED <<conn, trackVars>>

(* The peer, a fault or our own end closes the muxer. *)
MuxerCloses(c) ==
  /\ Quiet /\ muxer[c] = "open"
  /\ muxer' = [muxer EXCEPT ![c] = "closed"]
  /\ Closed(c)
  /\ UNCHANGED <<incoming, identify, agenda>>

(* Mutant: the disconnected connection stays tracked. *)
MuxerEndsUntold(c) ==
  /\ Quiet /\ conn[c] = "DISCONNECTING"
  /\ conn' = [conn EXCEPT ![c] = "DISCONNECTED"]
  /\ Remove(c)
  /\ UNCHANGED <<inVars, agenda>>

(* muxer.end calls back: DISCONNECTED is entered and 'close' emitted. *)
MuxerEnds(c) ==
  /\ Quiet /\ conn[c] = "DISCONNECTING"
  /\ conn' = [conn EXCEPT ![c] = "DISCONNECTED"]
  /\ Remove(c)
  /\ agenda' = <<CloseEventF(c)>>
  /\ UNCHANGED inVars

(* close() of some tracked connections in one turn, for hangUp and stop. *)
ClosesAll(cs) ==
  conn' = [c \in Conns |-> IF c \in cs /\ conn[c] = "MUXED"
                           THEN "DISCONNECTING" ELSE conn[c]]

HangUp ==
  /\ Quiet /\ \E c \in tracked : conn[c] = "MUXED"
  /\ ClosesAll(tracked)
  /\ UNCHANGED <<inVars, trackVars, agenda>>

InboundStep(c) ==
  \/ Protects(c) \/ Encrypts(c) \/ IncomingFails(c)
  \/ MuxerSelected(c) \/ IdentifyResolves(c) \/ IdentifyFails(c) \/ Identified(c)
  \/ MuxerCloses(c) \/ MuxerEnds(c)

-----------------------------------------------------------------------------
(* Properties. *)

InboundTypeOK ==
  /\ incoming \in [Conns -> {"none", "PRIVATIZING", "ENCRYPTING", "MUXED", "DISCONNECTED"}]
  /\ muxer \in [Conns -> {"none", "open", "closed"}]
  /\ identify \in [Conns -> {"none", "running", "resolved"}]
  /\ conn \in [Conns -> {"none", "MUXED", "DISCONNECTING", "DISCONNECTED"}]
  /\ tracked \subseteq Conns
  /\ peerUp \in BOOLEAN
  /\ muxHeard \in {"none", "established", "closed"}

(* A connection is tracked from its identification until it is              *)
(* disconnected, and what the world knows of the peer agrees: it is         *)
(* connected, and was last reported established, exactly while one of its   *)
(* connections is tracked, whatever else of the peer fails or ends late.    *)
PeerFollowsConnections ==
  /\ tracked = {c \in Conns : conn[c] \in {"MUXED", "DISCONNECTING"}}
  /\ peerUp = (tracked # {})
  /\ (muxHeard = "established") = (tracked # {})

(* A muxed connection has an open muxer: "muxedConn.once('close', ...)      *)
(* connection.close()" (src/connection/manager.js:228).  The code breaks it *)
(* when the muxer closes before the callback of identify sets the listener. *)
MuxedIsOpen == \A c \in Conns : conn[c] = "MUXED" => muxer[c] = "open"
=============================================================================
