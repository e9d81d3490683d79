--------------------------- MODULE ConnectionFSM ---------------------------
(***************************************************************************)
(* The outgoing connections to one peer: the state machine of each         *)
(* (src/connection/index.js, src/connection/base.js), the listeners the    *)
(* dial queue puts on it (src/dialer/queue.js) and the tracking of the     *)
(* ConnectionManager (src/connection/manager.js).                          *)
(*                                                                         *)
(* An asynchronous operation calls back once, whatever became of the       *)
(* connection meanwhile.  As in module Dialer, agenda is what is left of   *)
(* the current turn: transitions, events and their listeners are           *)
(* synchronous and nest, callbacks start a turn when it is empty.          *)
(***************************************************************************)
EXTENDS Arrays, FiniteSets

CONSTANTS
  Conns,           \* the connections that may be created to the peer
  TransportCounts, \* how many transports a dial may find for the peer
  Protected,       \* switch.protector is set
  HasMuxers,       \* switch.muxers is not empty
  Identify,        \* switch.identify
  NestedCalls,     \* what listeners may call: "dial", "hangUp"
  NoConn           \* no connection

ASSUME ConnectionAssumption ==
  /\ TransportCounts \subseteq Nat
  /\ {Protected, HasMuxers, Identify} \subseteq BOOLEAN
  /\ NestedCalls \subseteq {"dial", "hangUp"}
  /\ NoConn \notin Conns

VARIABLES
  state,        \* _state of each connection
  created,      \* connections constructed and added so far
  listeners,    \* events somebody still listens for, once each
  op,           \* the asynchronous operation of the attempt in flight
  left,         \* transports still to try, the current one included
  base,         \* this.conn: never set, set, or dropped
  hasMuxer,     \* connections whose this.muxer is set
  muxerOpen,    \* connections whose muxer may still emit 'close'
  ending,       \* calls of muxer.end that have not called back
  identifying,  \* connections running identify
  tracked,      \* ConnectionManager.connections[peer]
  held,         \* switch.conns[peer]
  peerUp,       \* PeerInfo.isConnected() of the peer
  resumed,      \* connections whose end of attempt the dial queue heard of
  ends,         \* how often the switch emitted 'connection:end'
  muxHeard,     \* the last of 'peer-mux-established' and 'peer-mux-closed'
  agenda

fsmVars   == <<state, created, listeners>>
opVars    == <<op, left, base>>
muxVars   == <<hasMuxer, muxerOpen, ending, identifying>>
trackVars == <<tracked, peerUp, ends, muxHeard>>
queueVars == <<held, resumed>>
vars == <<fsmVars, opVars, muxVars, trackVars, queueVars, agenda>>

(* Mutant: a closed connection disconnects again. *)
ClosedRowReopens ==
  [dial |-> "DIALING", disconnect |-> "DISCONNECTING", done |-> "DISCONNECTED"]

(* The table of the state machine.  ABORTED and ERRORED are left out: no    *)
(* code fires 'abort' or 'error', the only events that lead there.          *)
ClosedRow ==
  [dial |-> "DIALING", disconnect |-> "DISCONNECTED", done |-> "DISCONNECTED"]

Table == [
  DISCONNECTED  |-> ClosedRow,
  DIALING       |-> [done |-> "DIALED", disconnect |-> "DISCONNECTING"],
  DIALED        |-> [encrypt |-> "ENCRYPTING", privatize |-> "PRIVATIZING"],
  PRIVATIZING   |-> [done |-> "PRIVATIZED", disconnect |-> "DISCONNECTING"],
  PRIVATIZED    |-> [encrypt |-> "ENCRYPTING"],
  ENCRYPTING    |-> [done |-> "ENCRYPTED", disconnect |-> "DISCONNECTING"],
  ENCRYPTED     |-> [upgrade |-> "UPGRADING", disconnect |-> "DISCONNECTING"],
  UPGRADING     |-> [stop |-> "CONNECTED", done |-> "MUXED", disconnect |-> "DISCONNECTING"],
  MUXED         |-> [disconnect |-> "DISCONNECTING"],
  CONNECTED     |-> [disconnect |-> "DISCONNECTING"],
  DISCONNECTING |-> [done |-> "DISCONNECTED", disconnect |-> "DISCONNECTING"]]

States == DOMAIN Table
Ops    == {"none", "transport", "protect", "encrypt", "upgrade"}
Heard  == {"connected", "private", "encrypted", "muxed", "unmuxed", "error", "close"}

StateF(c, ev)  == [op |-> "_state", conn |-> c, arg |-> ev]
EmitF(c, name) == [op |-> "emit", conn |-> c, arg |-> name]
CloseF(c, err) == [op |-> "close", conn |-> c, arg |-> err]
IdentifyF(c)   == [op |-> "_identify", conn |-> c]
RemoveAllF(c)  == [op |-> "removeAllListeners", conn |-> c]
ListenerF      == [op |-> "listener"]

Quiet      == agenda = <<>>
Top(f)     == agenda # <<>> /\ Head(agenda) = f
Rest       == Tail(agenda)
Then(todo) == agenda' = todo \o Rest

Init ==
  /\ state = [c \in Conns |-> "DISCONNECTED"]
  /\ created = {}
  /\ listeners = [c \in Conns |-> {}]
  /\ op = [c \in Conns |-> "none"]
  /\ left = [c \in Conns |-> 0]
  /\ base = [c \in Conns |-> "none"]
  /\ hasMuxer = {} /\ muxerOpen = {} /\ identifying = {}
  /\ ending = [c \in Conns |-> 0]
  /\ tracked = <<>> /\ held = NoConn /\ peerUp = FALSE /\ resumed = {}
  /\ ends = 0 /\ muxHeard = "none"
  /\ agenda = <<>>

-----------------------------------------------------------------------------
(* What the dial queue and the user start, in a turn of their own or from a *)
(* listener: the callback of a dial, the next dial of the queue.            *)

MayCall(name) == Quiet \/ (Top(ListenerF) /\ name \in NestedCalls)

Muxed == {c \in Conns : state[c] = "MUXED"}

(* _getOrCreateConnection without a muxed connection to reuse, and dial(). *)
Creates(c) ==
  /\ MayCall("dial") /\ c \notin created
  /\ Muxed = {}
  /\ created' = created \cup {c}
  /\ tracked' = Append(tracked, c)
  /\ listeners' = [listeners EXCEPT ![c] = Heard]
  /\ agenda' = <<StateF(c, "dial")>> \o agenda
  /\ UNCHANGED <<state, opVars, muxVars, peerUp, ends, muxHeard, queueVars>>

(* Switch.hangUp, and the stop of the switch: every tracked connection. *)
HangUp ==
  /\ MayCall("hangUp")
  /\ \E c \in created : state[c] \notin {"DISCONNECTED", "DISCONNECTING"}
  /\ agenda' = [i \in DOMAIN tracked |-> CloseF(tracked[i], FALSE)] \o agenda
  /\ UNCHANGED <<fsmVars, opVars, muxVars, trackVars, queueVars>>

ListenerReturns ==
  /\ Top(ListenerF) /\ Then(<<>>)
  /\ UNCHANGED <<fsmVars, opVars, muxVars, trackVars, queueVars>>

-----------------------------------------------------------------------------
(* Transitions: the state changes, then the handler of the new state runs.  *)

Fires(c, ev) == Top(StateF(c, ev))
Enters(c, s) ==
  /\ \E ev \in DOMAIN Table[state[c]] : Fires(c, ev) /\ Table[state[c]][ev] = s
  /\ state' = [state EXCEPT ![c] = s]
  /\ UNCHANGED <<created, listeners>>

(* An event the state does not have: the error handler of the machine. *)
Refuses(c) ==
  /\ \E ev \in {"done", "stop", "disconnect", "dial", "privatize", "encrypt", "upgrade"} :
       Fires(c, ev) /\ ev \notin DOMAIN Table[state[c]]
  /\ Then(<<EmitF(c, "error")>>)
  /\ UNCHANGED <<fsmVars, opVars, muxVars, trackVars, queueVars>>

(* Without a transport the connection closes at once. *)
EntersDialing(c) ==
  /\ Enters(c, "DIALING")
  /\ \E n \in TransportCounts :
       /\ left' = [left EXCEPT ![c] = n]
       /\ op' = [op EXCEPT ![c] = IF n = 0 THEN "none" ELSE "transport"]
       /\ Then(IF n = 0 THEN <<CloseF(c, TRUE)>> ELSE <<>>)
  /\ UNCHANGED <<base, muxVars, trackVars, queueVars>>

(* The states whose handler only emits. *)
Emitting == [DIALED |-> "connected", PRIVATIZED |-> "private",
             ENCRYPTED |-> "encrypted", CONNECTED |-> "unmuxed"]
EntersAndEmits(c) ==
  /\ \E s \in DOMAIN Emitting : Enters(c, s) /\ Then(<<EmitF(c, Emitting[s])>>)
  /\ UNCHANGED <<opVars, muxVars, trackVars, queueVars>>

(* The states whose handler starts an operation, or skips it. *)
Begins(c, s, name, needed, skip) ==
  /\ Enters(c, s)
  /\ op' = [op EXCEPT ![c] = IF needed THEN name ELSE @]
  /\ Then(IF needed THEN <<>> ELSE <<StateF(c, skip)>>)
  /\ UNCHANGED <<left, base, muxVars, trackVars, queueVars>>

EntersPrivatizing(c) == Begins(c, "PRIVATIZING", "protect", Protected, "done")
EntersEncrypting(c)  == Begins(c, "ENCRYPTING", "encrypt", TRUE, "done")
EntersUpgrading(c)   == Begins(c, "UPGRADING", "upgrade", HasMuxers, "stop")

EntersMuxed(c) ==
  /\ Enters(c, "MUXED")
  /\ held' = NoConn
  /\ Then(<<EmitF(c, "muxed")>>)
  /\ UNCHANGED <<opVars, muxVars, trackVars, resumed>>

(* Mutant: the machine is never told that disconnecting is done. *)
DisconnectedAtLastNever(c) == <<>>

DisconnectedAtLast(c) == <<StateF(c, "done")>>

(* The base connection is dropped.  Without a muxer, or when muxer.end      *)
(* calls back at once, the connection is disconnected in the same turn.     *)
EntersDisconnecting(c) ==
  /\ Enters(c, "DISCONNECTING")
  /\ held' = NoConn
  /\ base' = [base EXCEPT ![c] = IF @ = "set" THEN "dropped" ELSE @]
  /\ \/ /\ hasMuxer' = hasMuxer \ {c}
        /\ Then(DisconnectedAtLast(c))
        /\ UNCHANGED ending
     \/ /\ c \in hasMuxer
        /\ ending' = [ending EXCEPT ![c] = @ + 1]
        /\ Then(<<>>)
        /\ UNCHANGED hasMuxer
  /\ UNCHANGED <<op, left, muxerOpen, identifying, trackVars, resumed>>

(* Mutant: the peer is disconnected with any of its connections. *)
RemoveDisconnectsPeer(c) ==
  /\ tracked' = Filter(tracked, Conns \ {c})
  /\ peerUp' = FALSE
  /\ muxHeard' = "closed"
  /\ ends' = IF tracked = <<>> THEN ends ELSE ends + 1

(* Mutant: nothing is announced once the peer has no connection left. *)
RemoveLastSilently(c) ==
  /\ tracked' = Filter(tracked, Conns \ {c})
  /\ peerUp' = (peerUp /\ tracked' # <<>>)
  /\ ends' = IF tracked' = <<>> THEN ends ELSE ends + 1
  /\ UNCHANGED muxHeard

(* Mutant: the connection stays in the list. *)
RemoveNothing(c) ==
  /\ ends' = ends + 1
  /\ UNCHANGED <<tracked, peerUp, muxHeard>>

(* ConnectionManager.remove: with no record of the peer, or when the last   *)
(* of its connections goes, the peer is disconnected; whenever there was a  *)
(* record 'connection:end' is emitted, found in it or not.                  *)
Remove(c) ==
  LET others == Filter(tracked, Conns \ {c})
  IN  /\ tracked' = others
      /\ peerUp' = (peerUp /\ others # <<>>)
      /\ muxHeard' = IF others = <<>> THEN "closed" ELSE muxHeard
      /\ ends' = IF tracked = <<>> THEN ends ELSE ends + 1

(* Mutant: the listeners go before 'close' is emitted. *)
LastWordsUnheard(c) == <<RemoveAllF(c), EmitF(c, "close")>>

LastWords(c) == <<EmitF(c, "close"), RemoveAllF(c)>>

EntersDisconnected(c) ==
  /\ Enters(c, "DISCONNECTED")
  /\ Remove(c)
  /\ Then(LastWords(c))
  /\ UNCHANGED <<opVars, muxVars, queueVars>>

-----------------------------------------------------------------------------
(* Events and their listeners.                                              *)

Hears(c, name) ==
  /\ Top(EmitF(c, name)) /\ name \in listeners[c]
  /\ listeners' = [listeners EXCEPT ![c] = @ \ {name}]
  /\ UNCHANGED <<state, created>>

Unheard(c) ==
  /\ \E name \in Heard : Top(EmitF(c, name)) /\ name \notin listeners[c]
  /\ Then(<<>>)
  /\ UNCHANGED <<fsmVars, opVars, muxVars, trackVars, queueVars>>

(* What the dial does when the connection is dialed, private, encrypted. *)
NextStage == [connected |-> "privatize", private |-> "encrypt", encrypted |-> "upgrade"]

HearsProgress(c) ==
  /\ \E name \in DOMAIN NextStage :
       Hears(c, name) /\ Then(<<StateF(c, NextStage[name])>>)
  /\ UNCHANGED <<opVars, muxVars, trackVars, queueVars>>

Listener == IF NestedCalls = {} THEN <<>> ELSE <<ListenerF>>

HearsError(c) ==
  /\ Hears(c, "error") /\ Then(Listener)
  /\ UNCHANGED <<opVars, muxVars, trackVars, queueVars>>

(* The manager announces the muxed peer, then the dial is called back and   *)
(* its queue resumed.                                                       *)
HearsMuxed(c) ==
  /\ Hears(c, "muxed") /\ Then(Listener)
  /\ muxHeard' = "established"
  /\ resumed' = resumed \cup {c}
  /\ UNCHANGED <<opVars, muxVars, tracked, peerUp, ends, held>>

HearsUnmuxedOrClose(c) ==
  /\ Hears(c, "unmuxed") \/ Hears(c, "close")
  /\ Then(Listener)
  /\ resumed' = resumed \cup {c}
  /\ UNCHANGED <<opVars, muxVars, trackVars, held>>

RemovesListeners(c) ==
  /\ Top(RemoveAllF(c)) /\ Then(<<>>)
  /\ listeners' = [listeners EXCEPT ![c] = {}]
  /\ UNCHANGED <<state, created, opVars, muxVars, trackVars, queueVars>>

(* BaseConnection.close(err) *)
Close(c) ==
  /\ \E err \in BOOLEAN :
       /\ Top(CloseF(c, err))
       /\ Then(IF state[c] = "DISCONNECTING" THEN <<>>
               ELSE IF err /\ "error" \in listeners[c]
                    THEN <<EmitF(c, "error"), StateF(c, "disconnect")>>
                    ELSE <<StateF(c, "disconnect")>>)
  /\ UNCHANGED <<fsmVars, opVars, muxVars, trackVars, queueVars>>

(* _identify; the error of a muxer already gone comes in the next tick. *)
StartsIdentify(c) ==
  /\ Top(IdentifyF(c))
  /\ IF c \in hasMuxer
     THEN identifying' = identifying \cup {c} /\ Then(<<>>)
     ELSE agenda' = Append(Rest, CloseF(c, TRUE)) /\ UNCHANGED identifying
  /\ UNCHANGED <<fsmVars, opVars, hasMuxer, muxerOpen, ending, trackVars, queueVars>>

-----------------------------------------------------------------------------
(* Callbacks: each starts a turn, in whatever state the connection is now.  *)

CallsBack(c, name) ==
  /\ Quiet /\ op[c] = name
  /\ op' = [op EXCEPT ![c] = "none"]

(* TransportManager.dial succeeded: the peer counts as connected. *)
TransportConnects(c) ==
  /\ CallsBack(c, "transport")
  /\ peerUp' = TRUE
  /\ base' = [base EXCEPT ![c] = "set"]
  /\ agenda' = <<StateF(c, "done")>>
  /\ UNCHANGED <<fsmVars, left, muxVars, tracked, ends, muxHeard, queueVars>>

(* Mutant: one transport too many is tried. *)
TransportsLeftOff(c) == left[c] >= 0

TransportsLeft(c) == left[c] > 1

(* It failed: the next transport is tried, also when the connection is      *)
(* closed already; after the last one the connection closes.                *)
TransportFails(c) ==
  /\ Quiet /\ op[c] = "transport"
  /\ IF TransportsLeft(c)
     THEN left' = [left EXCEPT ![c] = @ - 1] /\ UNCHANGED <<op, agenda>>
     ELSE /\ op' = [op EXCEPT ![c] = "none"]
          /\ agenda' = <<CloseF(c, TRUE)>>
          /\ UNCHANGED left
  /\ UNCHANGED <<fsmVars, base, muxVars, trackVars, queueVars>>

(* The protector is done.  When the connection was closed meanwhile its     *)
(* base is gone: setPeerInfo throws and the callback goes no further.       *)
Protects(c) ==
  /\ CallsBack(c, "protect")
  /\ agenda' = IF base[c] = "set" THEN <<StateF(c, "done")>> ELSE <<>>
  /\ UNCHANGED <<fsmVars, left, base, muxVars, trackVars, queueVars>>

Encrypts(c) ==
  /\ CallsBack(c, "encrypt")
  /\ base' = [base EXCEPT ![c] = "set"]
  /\ agenda' = <<StateF(c, "done")>>
  /\ UNCHANGED <<fsmVars, left, muxVars, trackVars, queueVars>>

HandshakeFails(c) ==
  /\ CallsBack(c, "protect") \/ CallsBack(c, "encrypt")
  /\ agenda' = <<CloseF(c, TRUE)>>
  /\ UNCHANGED <<fsmVars, left, base, muxVars, trackVars, queueVars>>

(* A muxer was agreed on. *)
Upgrades(c) ==
  /\ CallsBack(c, "upgrade")
  /\ hasMuxer' = hasMuxer \cup {c}
  /\ muxerOpen' = muxerOpen \cup {c}
  /\ agenda' = <<StateF(c, "done")>> \o (IF Identify THEN <<IdentifyF(c)>> ELSE <<>>)
  /\ UNCHANGED <<fsmVars, left, base, ending, identifying, trackVars, queueVars>>

(* None was: the connection is held, unmuxed. *)
UpgradeFails(c) ==
  /\ CallsBack(c, "upgrade")
  /\ held' = c
  /\ agenda' = <<StateF(c, "stop")>>
  /\ UNCHANGED <<fsmVars, left, base, muxVars, trackVars, resumed>>

IdentifyEnds(c) ==
  /\ Quiet /\ c \in identifying
  /\ identifying' = identifying \ {c}
  /\ agenda' \in {<<>>, <<CloseF(c, TRUE)>>}
  /\ UNCHANGED <<fsmVars, opVars, hasMuxer, muxerOpen, ending, trackVars, queueVars>>

(* The muxer emits 'close', listened for once. *)
MuxerCloses(c) ==
  /\ Quiet /\ c \in muxerOpen
  /\ muxerOpen' = muxerOpen \ {c}
  /\ agenda' = <<CloseF(c, FALSE)>>
  /\ UNCHANGED <<fsmVars, opVars, hasMuxer, ending, identifying, trackVars, queueVars>>

MuxerEnds(c) ==
  /\ Quiet /\ ending[c] > 0
  /\ ending' = [ending EXCEPT ![c] = @ - 1]
  /\ hasMuxer' = hasMuxer \ {c}
  /\ agenda' = DisconnectedAtLast(c)
  /\ UNCHANGED <<fsmVars, opVars, muxerOpen, identifying, trackVars, queueVars>>

-----------------------------------------------------------------------------
Transitions(c) ==
  \/ EntersDialing(c) \/ EntersAndEmits(c) \/ EntersPrivatizing(c)
  \/ EntersEncrypting(c) \/ EntersUpgrading(c) \/ EntersMuxed(c)
  \/ EntersDisconnecting(c) \/ EntersDisconnected(c) \/ Refuses(c)

Listeners(c) ==
  \/ HearsProgress(c) \/ HearsError(c) \/ HearsMuxed(c) \/ HearsUnmuxedOrClose(c)
  \/ Unheard(c) \/ RemovesListeners(c)

Turn ==
  \/ ListenerReturns
  \/ \E c \in Conns : Transitions(c) \/ Listeners(c) \/ Close(c) \/ StartsIdentify(c)

AttemptSettles(c) ==
  \/ TransportConnects(c) \/ TransportFails(c) \/ Protects(c) \/ Encrypts(c)
  \/ HandshakeFails(c) \/ Upgrades(c) \/ UpgradeFails(c)

Next ==
  \/ Turn
  \/ HangUp
  \/ \E c \in Conns :
       Creates(c) \/ AttemptSettles(c) \/ IdentifyEnds(c) \/ MuxerCloses(c) \/ MuxerEnds(c)

Spec == Init /\ [][Next]_vars

(* A turn runs on, and every operation started calls back in the end: the   *)
(* transports are timed, the handshakes and muxer.end are trusted to.       *)
Fairness ==
  /\ WF_vars(Turn)
  /\ \A c \in Conns : WF_vars(AttemptSettles(c)) /\ WF_vars(MuxerEnds(c))

LiveSpec == Spec /\ Fairness

-----------------------------------------------------------------------------
(* Properties.                                                              *)

Frames ==
  {StateF(c, ev) : c \in Conns, ev \in {"dial", "done", "stop", "disconnect",
                                        "privatize", "encrypt", "upgrade"}}
  \cup {EmitF(c, name) : c \in Conns, name \in Heard}
  \cup {CloseF(c, err) : c \in Conns, err \in BOOLEAN}
  \cup {IdentifyF(c) : c \in Conns} \cup {RemoveAllF(c) : c \in Conns}
  \cup {ListenerF}

(* Every variable keeps its type, the numbers included: no transport is     *)
(* tried below the last, no muxer.end calls back more often than called.    *)
TypeOK ==
  /\ state \in [Conns -> States]
  /\ created \subseteq Conns
  /\ listeners \in [Conns -> SUBSET Heard]
  /\ op \in [Conns -> Ops]
  /\ left \in [Conns -> Nat] /\ ending \in [Conns -> Nat]
  /\ base \in [Conns -> {"none", "set", "dropped"}]
  /\ hasMuxer \subseteq Conns /\ muxerOpen \subseteq Conns
  /\ identifying \subseteq Conns /\ resumed \subseteq Conns
  /\ tracked \in Seq(Conns)
  /\ held \in Conns \cup {NoConn}
  /\ peerUp \in BOOLEAN /\ ends \in Nat
  /\ muxHeard \in {"none", "established", "closed"}
  /\ agenda \in Seq(Frames)

IsTracked(c) == \E i \in DOMAIN tracked : tracked[i] = c
Over(c)      == c \in created /\ state[c] = "DISCONNECTED"
Securing     == {"DIALED", "PRIVATIZING", "PRIVATIZED", "ENCRYPTING", "ENCRYPTED", "UPGRADING"}
InFlight     == Securing \cup {"DIALING"}

(* Between turns the ConnectionManager tracks exactly the connections that  *)
(* are not over, each once, whatever order closes and late callbacks take.  *)
TrackedUntilDisconnected ==
  Quiet => /\ Len(tracked) = Cardinality({c \in Conns : IsTracked(c)})
           /\ \A c \in created : IsTracked(c) <=> ~Over(c)

(* Between turns the dial queue was resumed for a connection exactly when   *)
(* its attempt is over: never early (two dials would race), never not at    *)
(* all (the queue would hang).                                              *)
QueueIsResumed ==
  Quiet => \A c \in created : c \in resumed <=> state[c] \notin InFlight

(* Between turns an application that follows the two peer-mux events knows  *)
(* of every muxed connection, and is told when the last connection goes.    *)
MuxEventsTell ==
  Quiet => /\ Muxed # {} => muxHeard = "established"
           /\ muxHeard = "established" => tracked # <<>>

(* Between turns the peer counts as connected while a connection to it is   *)
(* past its transport dial, and never when none is tracked; a late answer   *)
(* of a closed connection does not disconnect the peer of another one.      *)
PeerIsConnected ==
  Quiet => /\ \A c \in created :
                state[c] \notin {"DIALING", "DISCONNECTED"} => peerUp
           /\ tracked = <<>> => ~peerUp

(* Every attempt ends: a created connection lets its dial queue go on. *)
EveryAttemptEnds == \A c \in Conns : c \in created ~> c \in resumed

(* A connection that began to disconnect is disconnected in the end. *)
EveryCloseEnds ==
  \A c \in Conns : state[c] = "DISCONNECTING" ~> state[c] = "DISCONNECTED"

(* The phases of module Dialer, read off the connections. *)
Phase(c) ==
  CASE c \notin created \/ (state[c] = "DISCONNECTED" /\ IsTracked(c)) -> "none"
    [] Over(c) /\ ~IsTracked(c) -> IF op[c] = "transport" THEN "late" ELSE "closed"
    [] state[c] = "DIALING"       -> "dialing"
    [] state[c] \in Securing      -> "securing"
    [] state[c] = "MUXED"         -> "muxed"
    [] state[c] = "CONNECTED"     -> "unmuxed"
    [] state[c] = "DISCONNECTING" -> "closing"

Lifecycle == INSTANCE ConnectionLifecycle
               WITH phase <- [c \in Conns |-> Phase(c)], resumed <- resumed

(* The connections keep the life cycle that module Dialer gives them: one   *)
(* direction, one end, the queue resumed once and only when it is over.     *)
KeepsLifecycle == Lifecycle!Spec

(* README.md:209 "triggered anytime an existing connection [...] is removed *)
(* from the switch's internal connection tracking": each end removes one.   *)
EndsAreRemovals == ends + Len(tracked) <= Cardinality(created)

(* README.md:202 "the peer we have just closed a muxed connection with":    *)
(* 'peer-mux-closed' follows a 'peer-mux-established'.                      *)
MuxClosedFollowsMuxed ==
  [][muxHeard' = "closed" => muxHeard # "none"]_vars

(* src/connection/index.js:286 "If we have the base connection, abort it":  *)
(* a connection that is over keeps no base connection.                      *)
BaseIsReleased == Quiet => \A c \in created : Over(c) => base[c] # "set"
=============================================================================
