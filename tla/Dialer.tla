------------------------------- MODULE Dialer -------------------------------
(***************************************************************************)
(* The dialer of libp2p-switch: the per-peer dial queues                   *)
(* (src/dialer/queue.js), the DialQueueManager that shares a bounded       *)
(* number of dialing slots among them (src/dialer/queueManager.js), and    *)
(* the part of the connection bookkeeping they read and write              *)
(* (src/connection/manager.js).                                            *)
(*                                                                         *)
(* JavaScript runs one turn to completion, but inside a turn the code      *)
(* calls back: a queue that stops calls the manager, which starts another  *)
(* queue, which may fail at once and call the user's callback, which may   *)
(* dial again.  The variable agenda is what is left of the current turn:   *)
(* its head is the innermost call, a synchronous call puts frames in front *)
(* and nextTick puts a frame at the end.  Timers, the network and fresh    *)
(* user code act only when it is empty.                                    *)
(***************************************************************************)
EXTENDS Naturals, Sequences, FiniteSets

CONSTANTS
  Peers,             \* the peers that can be dialed
  Self,              \* our own id: a member of Peers when self-dials are tried
  Requests,          \* dial requests; each is issued at most once
  Kinds,             \* the argument shapes used: connect, dial, dialFSM
  MaxParallelDials,  \* switch.dialer.MAX_PARALLEL_DIALS
  MaxColdCalls,      \* switch.dialer.MAX_COLD_CALLS
  DenyAttempts,      \* switch.dialer.DENY_ATTEMPTS
  Events,            \* what may happen besides dials and their outcomes
  NestedCalls,       \* what a user's callback may itself call
  MaxStops,          \* bound: stops of the switch under way at once
  None               \* a request not issued yet

Connect == [cold |-> TRUE, useFSM |-> FALSE, protocol |-> FALSE]
Dial    == [cold |-> FALSE, useFSM |-> FALSE, protocol |-> TRUE]
DialFSM == [cold |-> FALSE, useFSM |-> TRUE, protocol |-> TRUE]
Warm    == [cold |-> FALSE, useFSM |-> FALSE, protocol |-> FALSE]

Calls == {[peer |-> p, kind |-> k] : p \in Peers, k \in Kinds}

ASSUME DialerAssumption ==
  /\ Kinds \subseteq {Connect, Dial, DialFSM, Warm}
  /\ MaxParallelDials \in Nat
  /\ MaxColdCalls \in Nat
  /\ DenyAttempts \in Nat
  /\ MaxStops \in Nat
  /\ NestedCalls \subseteq {"dial", "hangUp", "closeErr", "clearDenylist"}
  /\ None \notin Calls

VARIABLES
  (* requests *)
  call,           \* what each request asks for, or None
  answer,         \* what its callback was told, "none" until then
  shaking,        \* requests whose protocol handshake is under way
  abandoned,      \* observed: requests whose connection was hung up or stopped
  (* Queue objects *)
  queue,          \* Queue._queue of each peer
  running,        \* peers whose Queue.isRunning holds
  denylisted,     \* Queue.denylisted: null, a time to come, a time past, Infinity
  denylistCount,  \* Queue.denylistCount
  (* DialQueueManager *)
  queues,         \* peers with an entry in _queues
  normal,         \* _queue, a Set in insertion order
  cold,           \* _coldCallQueue, a Set in insertion order
  dialing,        \* _dialingQueues
  mgrRunning,     \* DialQueueManager.isRunning
  cleanArmed,     \* _cleanInterval is scheduled
  closesDue,      \* stops of the switch that have not closed its connections yet
  (* connections *)
  conn,           \* the connection each request's dial created
  attached,       \* dials whose Queue object is still the one in _queues
  inbound,        \* a muxed connection the peer opened to us
  connected,      \* peers whose PeerInfo.isConnected()
  known,          \* peers whose PeerInfo lists protocols
  (* the current turn *)
  agenda

requestVars == <<call, answer, shaking, abandoned>>
queueVars   == <<queue, running, denylisted, denylistCount>>
mgrVars     == <<queues, normal, cold, dialing, mgrRunning, cleanArmed, closesDue>>
connVars    == <<conn, attached, inbound, connected, known>>
vars == <<requestVars, queueVars, mgrVars, connVars, agenda>>

Answers   == {"none", "fsm", "ok", "error", "aborted", "denied"}
ConnState == {"none",      \* no connection was created for the request
              "idle",      \* created and tracked, never dialed (DIAL_SELF)
              "dialing",   \* DIALING
              "securing",  \* DIALED .. UPGRADING
              "muxed",     \* MUXED
              "unmuxed",   \* CONNECTED
              "closing",   \* DISCONNECTING, waiting for muxer.end
              "late",      \* DISCONNECTED while the transport is still dialing
              "closed"}    \* DISCONNECTED
InState   == {"none", "muxed", "closing"}
DenyState == {"null", "until", "expired", "Infinity"}

(* The frames of a turn: the function to run and its arguments. *)
RunF              == [op |-> "run"]
QueueRunF(p)      == [op |-> "_run", peer |-> p]
AbortF(p)         == [op |-> "abort", peer |-> p]
DeleteF(p)        == [op |-> "delete", peer |-> p]
CallbackF(r, a)   == [op |-> "callback", req |-> r, answer |-> a]
OnErrorF(r)       == [op |-> "onError", req |-> r]
DisconnectF(r, f) == [op |-> "disconnect", req |-> r, failed |-> f]
CloseAllF(R)      == [op |-> "closeAll", todo |-> R]
StopF(P)          == [op |-> "stop", left |-> P]
CleanF(P)         == [op |-> "_clean", left |-> P]
UserF(nested)     == [op |-> "user", nested |-> nested]

Frames ==
  {RunF} \cup {UserF(b) : b \in BOOLEAN}
  \cup {QueueRunF(p) : p \in Peers} \cup {AbortF(p) : p \in Peers}
  \cup {DeleteF(p) : p \in Peers}
  \cup {CallbackF(r, a) : r \in Requests, a \in Answers}
  \cup {OnErrorF(r) : r \in Requests}
  \cup {DisconnectF(r, b) : r \in Requests, b \in BOOLEAN}
  \cup {CloseAllF(R) : R \in SUBSET Requests}
  \cup {StopF(P) : P \in SUBSET Peers} \cup {CleanF(P) : P \in SUBSET Peers}

Elems(s) == {s[i] : i \in DOMAIN s}

(* Set.add and Set.delete of a JavaScript Set, kept in insertion order. *)
SetAdd(s, x) == IF x \in Elems(s) THEN s ELSE Append(s, x)
SetDelete(s, x) ==
  IF x \notin Elems(s) THEN s
  ELSE LET k == CHOOSE i \in DOMAIN s : s[i] = x
       IN  [i \in 1 .. Len(s) - 1 |-> IF i < k THEN s[i] ELSE s[i + 1]]

Quiet    == agenda = <<>>
Top(f)   == agenda # <<>> /\ Head(agenda) = f
Rest     == Tail(agenda)
InUser   == Top(UserF(TRUE)) \/ Top(UserF(FALSE))
PeerOf(r) == call[r].peer
Of(p)     == {r \in Requests : call[r] # None /\ PeerOf(r) = p}

(* ConnectionManager.connections: what is tracked for a peer. *)
Tracked(p) == {r \in Of(p) : conn[r] \notin {"none", "late", "closed"}}
(* ConnectionManager.getOne: only a muxed connection is handed out. *)
HasMuxed(p) == inbound[p] = "muxed" \/ \E r \in Of(p) : conn[r] = "muxed"
Unfinished(r) == conn[r] \in {"dialing", "securing"}

Init ==
  /\ call = [r \in Requests |-> None]
  /\ answer = [r \in Requests |-> "none"]
  /\ shaking = {} /\ abandoned = {}
  /\ queue = [p \in Peers |-> <<>>]
  /\ running = {}
  /\ denylisted = [p \in Peers |-> "null"]
  /\ denylistCount = [p \in Peers |-> 0]
  /\ queues = {} /\ normal = <<>> /\ cold = <<>> /\ dialing = {}
  /\ mgrRunning = TRUE /\ cleanArmed = TRUE /\ closesDue = 0
  /\ conn = [r \in Requests |-> "none"]
  /\ attached = {}
  /\ inbound = [p \in Peers |-> "none"]
  /\ connected = {} /\ known = {}
  /\ agenda = <<>>

-----------------------------------------------------------------------------
(* Queue.start and Queue.stop, each the tail of the step that calls it;     *)
(* rest is what the turn has left after them.                               *)

QueueStart(p, rest) ==
  /\ running' = running \cup {p}
  /\ agenda' = IF p \in running THEN rest ELSE <<QueueRunF(p)>> \o rest

(* Mutant: a queue that stops keeps its slot. *)
QueueStopKeepsSlot(p, rest) ==
  IF p \in running
  THEN running' = running \ {p} /\ agenda' = <<RunF>> \o rest /\ UNCHANGED dialing
  ELSE agenda' = rest /\ UNCHANGED <<running, dialing>>

(* Mutant: a queue that stops does not make the manager run. *)
QueueStopNoRun(p, rest) ==
  running' = running \ {p} /\ dialing' = dialing \ {p} /\ agenda' = rest

QueueStop(p, rest) ==
  IF p \in running
  THEN /\ running' = running \ {p}
       /\ dialing' = dialing \ {p}
       /\ agenda' = <<RunF>> \o rest
  ELSE /\ UNCHANGED <<running, dialing>>
       /\ agenda' = rest

-----------------------------------------------------------------------------
(* User code.  A fresh turn of the application, or its callback, runs on    *)
(* top of the agenda and makes any number of calls before it returns.       *)

UserTurn ==
  /\ Quiet
  /\ \E r \in Requests : call[r] = None
  /\ agenda' = <<UserF(FALSE)>>
  /\ UNCHANGED <<requestVars, queueVars, mgrVars, connVars>>

UserReturn ==
  /\ InUser
  /\ agenda' = Rest
  /\ UNCHANGED <<requestVars, queueVars, mgrVars, connVars>>

MayCall(name) == Top(UserF(FALSE)) \/ (Top(UserF(TRUE)) /\ name \in NestedCalls)

(* DialQueueManager.add refuses a cold call: the cold queue is full, or the *)
(* peer already waits in the normal queue.                                  *)
ColdRefused(p) == Len(cold) >= MaxColdCalls \/ p \in Elems(normal)

DialRefused(r) ==
  /\ MayCall("dial") /\ call[r] = None
  /\ \E c \in Calls :
       /\ c.kind.cold /\ ColdRefused(c.peer)
       /\ call' = [call EXCEPT ![r] = c]
       /\ queues' = queues \cup {c.peer}
       /\ agenda' = Append(agenda, CallbackF(r, "aborted"))
  /\ UNCHANGED <<answer, shaking, abandoned, queueVars, connVars, normal, cold, dialing,
                 mgrRunning, cleanArmed, closesDue>>

DialAllowed(p) == denylisted[p] \in {"null", "expired"}

(* A dial to a peer on the denylist is answered with ERR_DENIED; the queue  *)
(* of a connected peer is started all the same.                             *)
DialDenied(r) ==
  /\ MayCall("dial") /\ call[r] = None
  /\ \E c \in Calls :
       /\ ~(c.kind.cold /\ ColdRefused(c.peer))
       /\ ~DialAllowed(c.peer)
       /\ call' = [call EXCEPT ![r] = c]
       /\ queues' = queues \cup {c.peer}
       /\ IF c.peer \in connected
          THEN QueueStart(c.peer, Append(agenda, CallbackF(r, "denied")))
          ELSE /\ agenda' = Append(agenda, CallbackF(r, "denied"))
               /\ UNCHANGED running
  /\ UNCHANGED <<answer, shaking, abandoned, queue, denylisted, denylistCount, connVars,
                 normal, cold, dialing, mgrRunning, cleanArmed, closesDue>>

(* Mutant: a normal call leaves the peer in the cold queue. *)
EnlistTwice(p, isCold) ==
  IF isCold THEN cold' = SetAdd(cold, p) /\ UNCHANGED normal
            ELSE normal' = SetAdd(normal, p) /\ UNCHANGED cold

(* The sets a peer waits in once a dial to it is queued and not running. *)
Enlist(p, isCold) ==
  IF isCold
  THEN cold' = SetAdd(cold, p) /\ UNCHANGED normal
  ELSE normal' = SetAdd(normal, p) /\ cold' = SetDelete(cold, p)

DialQueued(r) ==
  /\ MayCall("dial") /\ call[r] = None
  /\ \E c \in Calls :
       /\ ~(c.kind.cold /\ ColdRefused(c.peer))
       /\ DialAllowed(c.peer)
       /\ call' = [call EXCEPT ![r] = c]
       /\ queues' = queues \cup {c.peer}
       /\ denylisted' = [denylisted EXCEPT ![c.peer] = "null"]
       /\ queue' = [queue EXCEPT ![c.peer] = Append(@, r)]
       /\ IF c.peer \in connected
          THEN QueueStart(c.peer, agenda) /\ UNCHANGED <<normal, cold>>
          ELSE /\ IF c.peer \in running
                  THEN UNCHANGED <<normal, cold>>
                  ELSE Enlist(c.peer, c.kind.cold)
               /\ agenda' = <<RunF>> \o agenda
               /\ UNCHANGED running
  /\ UNCHANGED <<answer, shaking, abandoned, denylistCount, connVars, dialing, mgrRunning,
                 cleanArmed, closesDue>>

(* Switch.hangUp: closes a snapshot of the connections to the peer.  The    *)
(* muxed connection the peer opened has no synchronous listeners of ours.   *)
HangUp(p) ==
  /\ "hangUp" \in Events /\ MayCall("hangUp")
  /\ Tracked(p) # {} \/ inbound[p] = "muxed"
  /\ inbound' = [inbound EXCEPT ![p] = IF @ = "muxed" THEN "closing" ELSE @]
  /\ abandoned' = abandoned \cup Tracked(p)
  /\ agenda' = <<CloseAllF(Tracked(p))>> \o agenda
  /\ UNCHANGED <<call, answer, shaking, queueVars, mgrVars, conn, attached, connected, known>>

CloseAll ==
  /\ \E R \in SUBSET Requests :
       /\ Top(CloseAllF(R))
       /\ \/ R = {} /\ agenda' = Rest
          \/ \E r \in R :
               agenda' = <<DisconnectF(r, FALSE), CloseAllF(R \ {r})>> \o Rest
  /\ UNCHANGED <<requestVars, queueVars, mgrVars, connVars>>

(* ConnectionFSM.close(err) from a user who holds the FSM. *)
UserCloses(r) ==
  /\ "closeErr" \in Events /\ MayCall("closeErr")
  /\ answer[r] = "fsm" /\ conn[r] \in {"dialing", "securing", "muxed", "unmuxed"}
  /\ agenda' = <<OnErrorF(r), DisconnectF(r, FALSE)>> \o agenda
  /\ UNCHANGED <<requestVars, queueVars, mgrVars, connVars>>

(* DialQueueManager.clearDenylist *)
ClearDenylist(p) ==
  /\ "clearDenylist" \in Events /\ MayCall("clearDenylist")
  /\ denylisted[p] # "null"
  /\ queues' = queues \cup {p}
  /\ denylisted' = [denylisted EXCEPT ![p] = "null"]
  /\ denylistCount' = [denylistCount EXCEPT ![p] = 0]
  /\ UNCHANGED <<requestVars, queue, running, normal, cold, dialing, mgrRunning,
                 cleanArmed, closesDue, connVars, agenda>>

-----------------------------------------------------------------------------
(* The steps of a turn.                                                     *)

(* Mutant: off by one. *)
SlotFreeOrFull == Cardinality(dialing) <= MaxParallelDials

SlotFree == Cardinality(dialing) < MaxParallelDials

(* DialQueueManager.run gives the free slot, if there is one, to the peer   *)
(* that has waited longest, cold calls last.                                *)
NextWaiting == IF normal # <<>> THEN Head(normal) ELSE Head(cold)

Run ==
  /\ Top(RunF)
  /\ IF mgrRunning /\ SlotFree /\ (normal # <<>> \/ cold # <<>>)
     THEN /\ IF normal # <<>>
             THEN normal' = Tail(normal) /\ UNCHANGED cold
             ELSE cold' = Tail(cold) /\ UNCHANGED normal
          /\ IF NextWaiting \in queues
             THEN /\ dialing' = dialing \cup {NextWaiting}
                  /\ QueueStart(NextWaiting, Rest)
             ELSE /\ agenda' = Rest
                  /\ UNCHANGED <<dialing, running>>
     ELSE /\ agenda' = Rest
          /\ UNCHANGED <<normal, cold, dialing, running>>
  /\ UNCHANGED <<requestVars, queue, denylisted, denylistCount, queues,
                 mgrRunning, cleanArmed, closesDue, connVars>>

(* Queue._run, nothing to do or no longer running. *)
QueueRunStops(p) ==
  /\ Top(QueueRunF(p))
  /\ queue[p] = <<>> \/ p \notin running
  /\ QueueStop(p, Rest)
  /\ UNCHANGED <<requestVars, queue, denylisted, denylistCount, queues, normal,
                 cold, mgrRunning, cleanArmed, closesDue, connVars>>

FSMTick(r) == IF call[r].kind.useFSM THEN <<CallbackF(r, "fsm")>> ELSE <<>>

(* Mutant: a dial without a protocol is never called back. *)
ProtocolCallbackNever(r) == <<>>

(* createConnectionWithProtocol: without a protocol the callback runs now,  *)
(* otherwise a handshake starts.                                            *)
ProtocolCallback(r) ==
  IF call[r].kind.protocol THEN <<>> ELSE <<CallbackF(r, "ok")>>
StartShake(r) == IF call[r].kind.protocol THEN shaking \cup {r} ELSE shaking

(* Queue._run over a connection that is already muxed. *)
QueueRunReuses(p) ==
  /\ Top(QueueRunF(p)) /\ queue[p] # <<>> /\ p \in running
  /\ HasMuxed(p)
  /\ LET r == Head(queue[p]) IN
       /\ queue' = [queue EXCEPT ![p] = Tail(@)]
       /\ shaking' = StartShake(r)
       /\ agenda' = ProtocolCallback(r) \o <<QueueRunF(p)>> \o Rest \o FSMTick(r)
  /\ UNCHANGED <<call, answer, abandoned, running, denylisted, denylistCount, mgrVars,
                 connVars>>

(* Queue._run with a new connection.  The dial of our own id fails at once  *)
(* and leaves the connection tracked; any other may fail at once (no        *)
(* transports, no addresses) or wait for the network.                       *)
QueueRunCreates(p) ==
  /\ Top(QueueRunF(p)) /\ queue[p] # <<>> /\ p \in running
  /\ ~HasMuxed(p)
  /\ LET r == Head(queue[p]) IN
       /\ queue' = [queue EXCEPT ![p] = Tail(@)]
       /\ conn' = [conn EXCEPT ![r] = IF p = Self THEN "idle" ELSE "dialing"]
       /\ attached' = attached \cup {r}
       /\ \E now \in IF p = Self THEN {<<CallbackF(r, "error"), OnErrorF(r)>>}
                     ELSE {<<>>, <<CallbackF(r, "error"), OnErrorF(r), DisconnectF(r, TRUE)>>} :
            agenda' = now \o Rest \o FSMTick(r)
  /\ UNCHANGED <<requestVars, running, denylisted, denylistCount, mgrVars,
                 inbound, connected, known>>

(* A request's callback, wrapped in once().  User code runs inside it. *)
Callback ==
  /\ \E r \in Requests, a \in Answers :
       /\ Top(CallbackF(r, a))
       /\ IF answer[r] = "none"
          THEN /\ answer' = [answer EXCEPT ![r] = a]
               /\ agenda' = IF NestedCalls = {} THEN Rest ELSE <<UserF(TRUE)>> \o Rest
          ELSE /\ agenda' = Rest
               /\ UNCHANGED answer
  /\ UNCHANGED <<call, shaking, abandoned, queueVars, mgrVars, connVars>>

(* Mutant: a time to live is kept instead of a time to come. *)
DenylistKeepsTTL(p) ==
  /\ denylistCount' = [denylistCount EXCEPT ![p] = @ + 1]
  /\ denylisted' = [denylisted EXCEPT ![p] = "ttl"]
  /\ agenda' = <<AbortF(p)>> \o Rest

(* Mutant: the queue of a denied peer is never aborted. *)
DenylistNoAbort(p) ==
  /\ denylistCount' = [denylistCount EXCEPT ![p] = @ + 1]
  /\ denylisted' = [denylisted EXCEPT ![p] = "until"]
  /\ agenda' = Rest

(* Queue.denylist: count the failure, deny the peer, and abort the queue    *)
(* unless this was the last attempt allowed.                                *)
Denylist(p) ==
  /\ denylistCount' = [denylistCount EXCEPT ![p] = @ + 1]
  /\ IF denylistCount[p] + 1 >= DenyAttempts
     THEN /\ denylisted' = [denylisted EXCEPT ![p] = "Infinity"]
          /\ agenda' = Rest
     ELSE /\ denylisted' = [denylisted EXCEPT ![p] = "until"]
          /\ agenda' = <<AbortF(p)>> \o Rest

(* The 'error' listener of the dial, after it called the callback.  A peer  *)
(* that we identified and are connected to is not denylisted; a Queue       *)
(* object dropped from _queues denylists only itself.                       *)
OnError(r) ==
  /\ Top(OnErrorF(r))
  /\ IF r \in attached /\ ~(PeerOf(r) \in known /\ PeerOf(r) \in connected)
     THEN Denylist(PeerOf(r))
     ELSE agenda' = Rest /\ UNCHANGED <<denylisted, denylistCount>>
  /\ UNCHANGED <<requestVars, queue, running, mgrVars, connVars>>

(* Mutant: requests are dropped without an answer. *)
AbortNextSilently(p) ==
  /\ Top(AbortF(p)) /\ queue[p] # <<>>
  /\ queue' = [queue EXCEPT ![p] = Tail(@)]
  /\ UNCHANGED <<requestVars, running, denylisted, denylistCount, mgrVars, connVars,
                 agenda>>

(* Queue.abort: the next queued request is answered, then the queue stops. *)
AbortNext(p) ==
  /\ Top(AbortF(p)) /\ queue[p] # <<>>
  /\ queue' = [queue EXCEPT ![p] = Tail(@)]
  /\ agenda' = <<CallbackF(Head(queue[p]), "aborted")>> \o agenda
  /\ UNCHANGED <<requestVars, running, denylisted, denylistCount, mgrVars, connVars>>

(* Mutant: an aborted queue is drained but not stopped. *)
AbortEndsRunning(p) ==
  /\ Top(AbortF(p)) /\ queue[p] = <<>>
  /\ agenda' = Rest
  /\ UNCHANGED <<requestVars, queueVars, mgrVars, connVars>>

AbortEnds(p) ==
  /\ Top(AbortF(p)) /\ queue[p] = <<>>
  /\ QueueStop(p, Rest)
  /\ UNCHANGED <<requestVars, queue, denylisted, denylistCount, queues, normal,
                 cold, mgrRunning, cleanArmed, closesDue, connVars>>

(* ConnectionManager.remove: the peer is disconnected with its last         *)
(* tracked connection.                                                      *)
Untrack(r) ==
  IF Tracked(PeerOf(r)) \ {r} = {} /\ inbound[PeerOf(r)] = "none"
  THEN connected \ {PeerOf(r)} ELSE connected

(* Mutant: a dial that ends does not start the next. *)
ResumeNever(r) == <<>>

(* The once() listener that a dial leaves for the end of its attempt. *)
Resume(r) == IF r \in attached THEN <<QueueRunF(PeerOf(r))>> ELSE <<>>

(* The transition to DISCONNECTING, and straight on to DISCONNECTED when    *)
(* there is no muxer to end.  A transport dial that was not over when the   *)
(* connection closed may still answer ("late").                             *)
DisconnectMuxed(r) ==
  /\ \E f \in BOOLEAN : Top(DisconnectF(r, f))
  /\ conn[r] \in {"muxed", "closing"}
  /\ conn' = [conn EXCEPT ![r] = "closing"]
  /\ agenda' = Rest
  /\ UNCHANGED <<requestVars, queueVars, mgrVars, attached, inbound, connected, known>>

DisconnectNow(r) ==
  /\ \E f \in BOOLEAN :
       /\ Top(DisconnectF(r, f))
       /\ conn' = [conn EXCEPT ![r] = IF ~f /\ @ \in {"dialing", "late"}
                                      THEN "late" ELSE "closed"]
  /\ conn[r] \notin {"muxed", "closing"}
  /\ connected' = Untrack(r)
  /\ agenda' = IF conn[r] \in {"idle", "dialing", "securing"}
               THEN Resume(r) \o Rest ELSE Rest
  /\ UNCHANGED <<requestVars, queueVars, mgrVars, attached, inbound, known>>

(* delete this._queues[id]: the Queue object is dropped, with its denylist; *)
(* the dials it started keep listening on an object nobody looks up.        *)
Delete(p) ==
  /\ Top(DeleteF(p))
  /\ queues' = queues \ {p}
  /\ denylisted' = [denylisted EXCEPT ![p] = "null"]
  /\ denylistCount' = [denylistCount EXCEPT ![p] = 0]
  /\ attached' = attached \ Of(p)
  /\ agenda' = Rest
  /\ UNCHANGED <<requestVars, queue, running, normal, cold, dialing, mgrRunning,
                 cleanArmed, closesDue, conn, inbound, connected, known>>

(* The rest of DialQueueManager.stop: abort and drop each queue. *)
StopNext ==
  /\ \E P \in SUBSET Peers :
       /\ Top(StopF(P))
       /\ \/ P = {} /\ agenda' = Rest
          \/ \E p \in P : agenda' = <<AbortF(p), DeleteF(p), StopF(P \ {p})>> \o Rest
  /\ UNCHANGED <<requestVars, queueVars, mgrVars, connVars>>

(* Mutant: a queue with nothing queued counts as idle. *)
CleanableIfEmpty(p) ==
  \/ denylisted[p] = "Infinity"
  \/ denylisted[p] = "null" /\ queue[p] = <<>> /\ p \notin connected

(* What DialQueueManager._clean drops: a queue denied for ever, or one that *)
(* is idle, not denied, and whose peer is not connected.                    *)
Cleanable(p) ==
  \/ denylisted[p] = "Infinity"
  \/ /\ denylisted[p] = "null" /\ p \notin running /\ queue[p] = <<>>
     /\ p \notin connected

CleanNext ==
  /\ \E P \in SUBSET Peers :
       /\ Top(CleanF(P))
       /\ \/ P = {} /\ agenda' = Rest
          \/ \E p \in P :
               agenda' = IF Cleanable(p)
                         THEN <<AbortF(p), DeleteF(p), CleanF(P \ {p})>> \o Rest
                         ELSE <<CleanF(P \ {p})>> \o Rest
  /\ UNCHANGED <<requestVars, queueVars, mgrVars, connVars>>

-----------------------------------------------------------------------------
(* What starts a turn: the network, the timers, the switch.                 *)

(* TransportManager.dial succeeded: the peer counts as connected from here. *)
TransportConnects(r) ==
  /\ Quiet /\ conn[r] = "dialing"
  /\ conn' = [conn EXCEPT ![r] = "securing"]
  /\ connected' = connected \cup {PeerOf(r)}
  /\ UNCHANGED <<requestVars, queueVars, mgrVars, attached, inbound, known, agenda>>

(* All transports failed, or the protector or the crypto handshake did:     *)
(* close(err) emits 'error', then disconnects.                              *)
AttemptFails(r) ==
  /\ Quiet /\ Unfinished(r)
  /\ agenda' = <<CallbackF(r, "error"), OnErrorF(r), DisconnectF(r, TRUE)>>
  /\ UNCHANGED <<requestVars, queueVars, mgrVars, connVars>>

(* The upgrade succeeded: the manager's 'muxed' listener clears the         *)
(* denylist, the queue's creates the stream and resumes the queue.          *)
Muxes(r) ==
  /\ Quiet /\ conn[r] = "securing"
  /\ conn' = [conn EXCEPT ![r] = "muxed"]
  /\ queues' = queues \cup {PeerOf(r)}
  /\ denylisted' = [denylisted EXCEPT ![PeerOf(r)] = "null"]
  /\ denylistCount' = [denylistCount EXCEPT ![PeerOf(r)] = 0]
  /\ shaking' = StartShake(r)
  /\ agenda' = ProtocolCallback(r) \o Resume(r)
  /\ UNCHANGED <<call, answer, abandoned, queue, running, normal, cold, dialing, mgrRunning,
                 cleanArmed, closesDue, attached, inbound, connected, known>>

(* No muxer could be agreed on: only the count of the queue is reset. *)
Unmuxes(r) ==
  /\ "unmuxed" \in Events
  /\ Quiet /\ conn[r] = "securing"
  /\ conn' = [conn EXCEPT ![r] = "unmuxed"]
  /\ denylistCount' = [denylistCount EXCEPT
                         ![PeerOf(r)] = IF r \in attached THEN 0 ELSE @]
  /\ shaking' = StartShake(r)
  /\ agenda' = ProtocolCallback(r) \o Resume(r)
  /\ UNCHANGED <<call, answer, abandoned, queue, running, denylisted, mgrVars, attached,
                 inbound, connected, known>>

(* The protocol handshake of a request ends, one way or the other. *)
ShakeEnds(r) ==
  /\ Quiet /\ r \in shaking
  /\ shaking' = shaking \ {r}
  /\ \E a \in {"ok", "error"} : agenda' = <<CallbackF(r, a)>>
  /\ UNCHANGED <<call, answer, abandoned, queueVars, mgrVars, connVars>>

(* identify over the new muxed connection: on failure close(err). *)
Identified(r) ==
  /\ Quiet /\ conn[r] = "muxed" /\ PeerOf(r) \notin known
  /\ known' = known \cup {PeerOf(r)}
  /\ UNCHANGED <<requestVars, queueVars, mgrVars, conn, attached, inbound,
                 connected, agenda>>

IdentifyFails(r) ==
  /\ "identify" \in Events
  /\ Quiet /\ conn[r] = "muxed"
  /\ agenda' = <<CallbackF(r, "error"), OnErrorF(r), DisconnectF(r, TRUE)>>
  /\ UNCHANGED <<requestVars, queueVars, mgrVars, connVars>>

(* The muxer reports that the remote side closed. *)
MuxerCloses(r) ==
  /\ Quiet /\ conn[r] = "muxed"
  /\ agenda' = <<DisconnectF(r, TRUE)>>
  /\ UNCHANGED <<requestVars, queueVars, mgrVars, connVars>>

(* muxer.end called back: DISCONNECTING to DISCONNECTED. *)
MuxerEnds(r) ==
  /\ Quiet /\ conn[r] = "closing"
  /\ conn' = [conn EXCEPT ![r] = "closed"]
  /\ connected' = Untrack(r)
  /\ UNCHANGED <<requestVars, queueVars, mgrVars, attached, inbound, known, agenda>>

(* A transport answers a dial whose connection was closed meanwhile: the    *)
(* peer is marked connected, and DISCONNECTED is entered once more.         *)
LateConnect(r) ==
  /\ Quiet /\ conn[r] = "late"
  /\ conn' = [conn EXCEPT ![r] = "closed"]
  /\ connected' = IF Tracked(PeerOf(r)) = {} /\ inbound[PeerOf(r)] = "none"
                  THEN connected \ {PeerOf(r)} ELSE connected \cup {PeerOf(r)}
  /\ UNCHANGED <<requestVars, queueVars, mgrVars, attached, inbound, known, agenda>>

(* The peer dialed us, muxed the connection and identified itself. *)
InboundMuxes(p) ==
  /\ "inbound" \in Events
  /\ Quiet /\ inbound[p] = "none" /\ p # Self
  /\ inbound' = [inbound EXCEPT ![p] = "muxed"]
  /\ connected' = connected \cup {p}
  /\ known' = known \cup {p}
  /\ queues' = queues \cup {p}
  /\ denylisted' = [denylisted EXCEPT ![p] = "null"]
  /\ denylistCount' = [denylistCount EXCEPT ![p] = 0]
  /\ UNCHANGED <<requestVars, queue, running, normal, cold, dialing, mgrRunning,
                 cleanArmed, closesDue, conn, attached, agenda>>

InboundCloses(p) ==
  /\ Quiet /\ inbound[p] = "muxed"
  /\ inbound' = [inbound EXCEPT ![p] = "closing"]
  /\ UNCHANGED <<requestVars, queueVars, mgrVars, conn, attached, connected, known,
                 agenda>>

InboundEnds(p) ==
  /\ Quiet /\ inbound[p] = "closing"
  /\ inbound' = [inbound EXCEPT ![p] = "none"]
  /\ connected' = IF Tracked(p) = {} THEN connected \ {p} ELSE connected
  /\ UNCHANGED <<requestVars, queueVars, mgrVars, conn, attached, known, agenda>>

(* The time a peer is denied for passes. *)
DenyExpires(p) ==
  /\ Quiet /\ denylisted[p] = "until"
  /\ denylisted' = [denylisted EXCEPT ![p] = "expired"]
  /\ UNCHANGED <<requestVars, queue, running, denylistCount, mgrVars, connVars, agenda>>

(* The quarter-hour timer; stop() disarms it and nothing arms it again. *)
Clean ==
  /\ "clean" \in Events
  /\ Quiet /\ cleanArmed /\ queues # {}
  /\ agenda' = <<CleanF(queues)>>
  /\ UNCHANGED <<requestVars, queueVars, mgrVars, connVars>>

(* A stop of the switch begins (STOPPING:enter): DialQueueManager.stop now, *)
(* and the connections when its listeners are closed.  Stops may overlap.   *)
ManagerStop ==
  /\ "restart" \in Events
  /\ Quiet /\ closesDue < MaxStops
  /\ closesDue' = closesDue + 1
  /\ mgrRunning' = FALSE /\ cleanArmed' = FALSE
  /\ normal' = <<>> /\ cold' = <<>>
  /\ agenda' = <<StopF(queues)>>
  /\ UNCHANGED <<requestVars, queueVars, queues, dialing, connVars>>

(* ConnectionManager.getAll, but for what the peers opened to us. *)
AllTracked == {r \in Requests : conn[r] \notin {"none", "late", "closed"}}

(* Switch._onStopping, once its listeners are closed: it closes every       *)
(* connection there is by then, dials in flight included, with no error.    *)
(* The series of an earlier stop may do so when the switch runs again.      *)
CloseConnections ==
  /\ "restart" \in Events
  /\ Quiet /\ closesDue > 0
  /\ closesDue' = closesDue - 1
  /\ inbound' = [p \in Peers |-> IF inbound[p] = "muxed" THEN "closing" ELSE inbound[p]]
  /\ abandoned' = abandoned \cup AllTracked
  /\ agenda' = <<CloseAllF(AllTracked)>>
  /\ UNCHANGED <<call, answer, shaking, queueVars, queues, normal, cold, dialing,
                 mgrRunning, cleanArmed, conn, attached, connected, known>>

(* DialQueueManager.start, on STARTED:enter of the switch. *)
ManagerStart ==
  /\ Quiet /\ ~mgrRunning
  /\ mgrRunning' = TRUE
  /\ UNCHANGED <<requestVars, queueVars, queues, normal, cold, dialing,
                 cleanArmed, closesDue, connVars, agenda>>

-----------------------------------------------------------------------------
PeerStep(p) ==
  \/ QueueRunStops(p) \/ QueueRunReuses(p) \/ QueueRunCreates(p)
  \/ AbortNext(p) \/ AbortEnds(p) \/ Delete(p)
RequestStep(r) == OnError(r) \/ DisconnectMuxed(r) \/ DisconnectNow(r)

(* The turn goes on: what is on the agenda is run, user code returns. *)
TurnStep ==
  \/ Run \/ Callback \/ CloseAll \/ StopNext \/ CleanNext \/ UserReturn
  \/ \E p \in Peers : PeerStep(p)
  \/ \E r \in Requests : RequestStep(r)

UserStep ==
  \/ UserTurn
  \/ \E r \in Requests : DialRefused(r) \/ DialDenied(r) \/ DialQueued(r) \/ UserCloses(r)
  \/ \E p \in Peers : HangUp(p) \/ ClearDenylist(p)

(* How the attempt of a request ends: muxed, unmuxed or failed. *)
AttemptStep(r) == TransportConnects(r) \/ AttemptFails(r) \/ Muxes(r) \/ Unmuxes(r)

EnvStep ==
  \/ \E r \in Requests :
       \/ AttemptStep(r) \/ ShakeEnds(r) \/ Identified(r) \/ IdentifyFails(r)
       \/ MuxerCloses(r) \/ MuxerEnds(r) \/ LateConnect(r)
  \/ \E p \in Peers : InboundMuxes(p) \/ InboundCloses(p) \/ InboundEnds(p) \/ DenyExpires(p)
  \/ Clean \/ ManagerStop \/ CloseConnections \/ ManagerStart

Next == TurnStep \/ UserStep \/ EnvStep

Spec == Init /\ [][Next]_vars

(* Synchronous code runs on.  Every transport dial is timed (dialTimeout)    *)
(* and every handshake is assumed to settle one way or the other; the event  *)
(* loop delivers what settled however many turns come before it, hence SF.   *)
(* The user, the peers, the muxers' ends and the timers owe nothing.         *)
Settles(r) == AttemptStep(r) \/ ShakeEnds(r)

Fairness == WF_vars(TurnStep) /\ \A r \in Requests : SF_vars(Settles(r))

LiveSpec == Spec /\ Fairness

-----------------------------------------------------------------------------
(* Properties.                                                              *)

(* Every variable keeps its type: the sets hold peers, the queues requests, *)
(* and the rest of a turn only the functions the dialer calls.              *)
TypeOK ==
  /\ call \in [Requests -> Calls \cup {None}]
  /\ answer \in [Requests -> Answers]
  /\ shaking \subseteq Requests /\ abandoned \subseteq Requests
  /\ queue \in [Peers -> Seq(Requests)]
  /\ running \subseteq Peers
  /\ denylisted \in [Peers -> DenyState]
  /\ denylistCount \in [Peers -> Nat]
  /\ queues \subseteq Peers /\ dialing \subseteq Peers
  /\ normal \in Seq(Peers) /\ cold \in Seq(Peers)
  /\ mgrRunning \in BOOLEAN /\ cleanArmed \in BOOLEAN
  /\ closesDue \in 0 .. MaxStops
  /\ conn \in [Requests -> ConnState]
  /\ attached \subseteq Requests
  /\ inbound \in [Peers -> InState]
  /\ connected \subseteq Peers /\ known \subseteq Peers
  /\ agenda \in Seq(Frames)

(* However stops, failures and nested dials interleave inside a turn, no    *)
(* more than MAX_PARALLEL_DIALS queues hold a dialing slot.                 *)
DialLimit == Cardinality(dialing) <= MaxParallelDials

(* No slot leaks: a peer in _dialingQueues has a running queue, whose stop  *)
(* will free the slot, at every step of every turn.                         *)
SlotsAreHeld == dialing \subseteq running

Attempts(p) == {r \in Of(p) \cap attached : Unfinished(r)}

(* Between turns a queue runs exactly when one attempt of its peer is under *)
(* way: two dials to a peer never race, and no queue runs with nothing to   *)
(* wake it up.                                                              *)
OneAttempt ==
  Quiet => \A p \in Peers \ {Self} :
             Cardinality(Attempts(p)) = IF p \in running THEN 1 ELSE 0

Queued(r) == r \in Elems(queue[PeerOf(r)])
HungUp(r) == conn[r] \in {"late", "closed"}

(* Between turns, a request that was never answered is in exactly one place *)
(* from which an answer can come: queued at a peer that runs or waits for a *)
(* slot, being attempted, or shaking hands.  Only a hang-up, or a stop of   *)
(* the switch, that found its connection tracked loses one.                 *)
AnswerIsOwed ==
  Quiet => \A r \in Requests :
    call[r] # None /\ answer[r] = "none" =>
      LET p == PeerOf(r)
      IN \/ /\ Queued(r) /\ conn[r] = "none" /\ r \notin shaking
            /\ p \in running \cup Elems(normal) \cup Elems(cold)
         \/ ~Queued(r) /\ Unfinished(r) /\ r \notin shaking
         \/ ~Queued(r) /\ r \in shaking
         \/ ~Queued(r) /\ HungUp(r) /\ r \in abandoned

(* A peer denied for a while has no dial queued or running, and none starts *)
(* until it may be dialed again.                                            *)
DeniedQueuesAreDrained ==
  Quiet => \A p \in Peers :
    denylisted[p] \in {"until", "expired"} => queue[p] = <<>> /\ p \notin running

(* The two waiting sets: a peer is in at most one of them, and the cold     *)
(* calls never exceed their limit.                                          *)
ColdCallsAreBounded ==
  /\ Elems(normal) \cap Elems(cold) = {}
  /\ Len(cold) <= MaxColdCalls

(* Between turns no peer waits while a slot is free.                        *)
WorkConserving ==
  Quiet /\ mgrRunning /\ (normal # <<>> \/ cold # <<>>) => ~SlotFree

(* When the manager drops a Queue object nothing is left in it: the abort   *)
(* before it drained and stopped the queue, whatever the callbacks did, but *)
(* for one that resets a denylist (a queue denied for ever may fill again). *)
DroppedQueuesAreIdle ==
  \A p \in Peers : Top(DeleteF(p)) => queue[p] = <<>> /\ p \notin running

(* _clean never takes the Queue object away from a dial under way, but for  *)
(* a peer denied for ever; only stopping the switch does.                   *)
CleanSparesAttempts ==
  [][\A r \in attached \ attached' :
       Unfinished(r) => ~mgrRunning \/ denylisted[PeerOf(r)] = "Infinity"]_vars

(* Every request is answered, though any attempt may fail, any peer may be  *)
(* denied and any callback may dial again (no hang-up, no stop).            *)
EveryRequestAnswered ==
  \A r \in Requests : call[r] # None ~> answer[r] # "none"

(* Every dialing slot that is taken is given back.                          *)
SlotsAreReturned == \A p \in Peers : p \in dialing ~> p \notin dialing

(* src/dialer/queue.js:150 "Marks the queue as denylisted. The queue will   *)
(* be immediately aborted": no dial to a denied peer goes on.               *)
DenyingAborts ==
  Quiet => \A p \in Peers :
    denylisted[p] = "Infinity" => queue[p] = <<>> /\ p \notin running

(* README.md:69 "number of times a peer can be denied before they are       *)
(* permanently denied": the denial outlives everything but a connection.    *)
DenialIsPermanent ==
  [][\A p \in Peers : denylisted[p] = "Infinity" /\ denylisted'[p] # "Infinity"
                        => HasMuxed(p)']_vars

(* src/dialer/queueManager.js:197 "This will trigger run() in order to keep *)
(* the queue processing": a free slot is used, also after a _clean.         *)
QueueKeepsProcessing == WorkConserving

=============================================================================
