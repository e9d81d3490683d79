---------------------------- MODULE LimitDialer ----------------------------
(***************************************************************************)
(* Dialing the addresses of a peer on a transport: TransportManager.dial   *)
(* (src/transport.js), LimitDialer (src/limit-dialer/index.js) and its     *)
(* per-peer queue of workers with their timeout (limit-dialer/queue.js).   *)
(*                                                                         *)
(* A call dials its addresses one after the other.  Each dial is a task of *)
(* the peer's queue, which runs at most PerPeerLimit of them.  A dial that *)
(* times out is given up but goes on in the transport.                     *)
(***************************************************************************)
EXTENDS Addresses, FiniteSets

CONSTANTS
  Calls,         \* the calls of TransportManager.dial
  Peers,
  PerPeerLimit,  \* defaultPerPeerRateLimit
  Handled,       \* the addresses that pass transport.filter
  AddressLists,  \* the lists of addresses a peer may have
  None

Addrs == UNION {ToSet(list) : list \in AddressLists}

ASSUME LimitAssumption ==
  /\ PerPeerLimit \in Nat \ {0}
  /\ None \notin Peers
  /\ AddressLists \subseteq Seq(Addrs)
  /\ \A a \in Addrs : a \in Seq(ToSet(a))

VARIABLES
  peer,      \* the peer of each call, None before it
  addrs,     \* the addresses it has to dial
  todo,      \* those not given up yet, the one being dialed first
  errors,    \* the addresses whose errors were collected
  token,     \* token.cancel
  answer,    \* "none", "conn" or "errors"
  waiting,   \* tasks waiting in the queue of each peer, by call
  working,   \* calls whose task a worker runs
  late,      \* dials given up on a timeout that the transport goes on with
  open,      \* dials whose socket opened
  connected  \* PeerInfo.isConnected of each peer

callVars  == <<peer, addrs, todo, errors, token, answer>>
queueVars == <<waiting, working>>
wireVars  == <<late, open, connected>>
vars == <<callVars, queueVars, wireVars>>

Attempt(c) == [call |-> c, addr |-> Head(todo[c])]

Init ==
  /\ peer = [c \in Calls |-> None]
  /\ addrs = [c \in Calls |-> <<>>] /\ todo = addrs /\ errors = addrs
  /\ token = {}
  /\ answer = [c \in Calls |-> "none"]
  /\ waiting = [p \in Peers |-> <<>>]
  /\ working = [p \in Peers |-> {}]
  /\ late = {} /\ open = {} /\ connected = {}

-----------------------------------------------------------------------------
(* The queue of a peer, an async.queue: pushing schedules its processing,   *)
(* and a worker that is done processes it at once.                          *)

(* The first tasks waiting, as many as workers are idle. *)
Taken(p, tasks, busy) ==
  LET idle == PerPeerLimit - Cardinality(busy)
  IN SubSeq(tasks, 1, IF idle < Len(tasks) THEN idle ELSE Len(tasks))

Processes(p, tasks, busy) ==
  LET taken == Taken(p, tasks, busy)
  IN /\ waiting' = [waiting EXCEPT ![p] = SubSeq(tasks, Len(taken) + 1, Len(tasks))]
     /\ working' = [working EXCEPT ![p] = busy \cup ToSet(taken)]

Work(p) ==
  /\ Taken(p, waiting[p], working[p]) # <<>>
  /\ Processes(p, waiting[p], working[p])
  /\ UNCHANGED <<callVars, wireVars>>

-----------------------------------------------------------------------------
(* The calls. *)

Dial(c, p, list) ==
  /\ peer[c] = None
  /\ LET dialables == Dialables(Handled, list)
     IN /\ peer' = [peer EXCEPT ![c] = p]
        /\ addrs' = [addrs EXCEPT ![c] = dialables]
        /\ todo' = [todo EXCEPT ![c] = dialables]
        /\ \/ /\ dialables = <<>>
              /\ answer' = [answer EXCEPT ![c] = "errors"]
              /\ UNCHANGED waiting
           \/ /\ dialables # <<>>
              /\ waiting' = [waiting EXCEPT ![p] = Append(@, c)]
              /\ UNCHANGED answer
  /\ UNCHANGED <<errors, token, working, wireVars>>

(* Mutant: the next address is tried without collecting the error. *)
GivesUpSilently(c) ==
  /\ errors' = errors
  /\ todo' = [todo EXCEPT ![c] = Tail(@)]
  /\ answer' = [answer EXCEPT ![c] = IF todo'[c] = <<>> THEN "errors" ELSE @]

(* An address failed: its error is collected, the next one is tried, or the *)
(* call ends with the errors.                                               *)
GivesUp(c) ==
  /\ errors' = [errors EXCEPT ![c] = Append(@, Head(todo[c]))]
  /\ todo' = [todo EXCEPT ![c] = Tail(@)]
  /\ answer' = [answer EXCEPT ![c] = IF todo'[c] = <<>> THEN "errors" ELSE @]

(* Mutant: the call goes on although it has a connection. *)
PushesOn(c) == Append(waiting[peer[c]], c)

(* The queue as the callback of the task leaves it. *)
PushesNext(c) ==
  IF todo'[c] = <<>> THEN waiting[peer[c]] ELSE Append(waiting[peer[c]], c)

Releases(c) ==
  Processes(peer[c], PushesNext(c), working[peer[c]] \ {c})

Running(c) == peer[c] # None /\ c \in working[peer[c]]

Fails(c) ==
  /\ Running(c)
  /\ GivesUp(c) /\ Releases(c)
  /\ UNCHANGED <<peer, addrs, token, wireVars>>

(* Mutant: a dial that timed out is not followed by the next one. *)
TimesOutForGood(c) ==
  /\ Running(c)
  /\ late' = late \cup {Attempt(c)}
  /\ Processes(peer[c], waiting[peer[c]], working[peer[c]] \ {c})
  /\ UNCHANGED <<callVars, open, connected>>

TimesOut(c) ==
  /\ Running(c)
  /\ late' = late \cup {Attempt(c)}
  /\ GivesUp(c) /\ Releases(c)
  /\ UNCHANGED <<peer, addrs, token, open, connected>>

(* Mutant: the address is marked connected, not its peer. *)
MarksAddress(c) == connected' = connected \cup {Head(todo[c])}

(* peerInfo.connect *)
MarksConnected(c) == connected' = connected \cup {peer[c]}

(* The transport connects in time.  The branch for a cancelled token is     *)
(* left out: OneTaskEach shows that no task runs once its token is set.     *)
Connects(c) ==
  /\ Running(c)
  /\ token' = token \cup {c}
  /\ open' = open \cup {Attempt(c)}
  /\ todo' = [todo EXCEPT ![c] = <<>>]
  /\ answer' = [answer EXCEPT ![c] = "conn"]
  /\ MarksConnected(c)
  /\ Releases(c)
  /\ UNCHANGED <<peer, addrs, errors, late>>

(* Mutant: the transport's answer counts after the timeout too. *)
LateConnectsPeer(d) ==
  /\ d \in late
  /\ late' = late \ {d} /\ open' = open \cup {d}
  /\ connected' = connected \cup {peer[d.call]}
  /\ UNCHANGED <<callVars, queueVars>>

(* async.timeout ignores what the transport says after the timeout. *)
LateConnects(d) ==
  /\ d \in late
  /\ late' = late \ {d} /\ open' = open \cup {d}
  /\ UNCHANGED <<callVars, queueVars, connected>>

LateFails(d) ==
  /\ d \in late
  /\ late' = late \ {d}
  /\ UNCHANGED <<callVars, queueVars, open, connected>>

Settles(c) == Connects(c) \/ Fails(c) \/ TimesOut(c)

Next ==
  \/ \E c \in Calls, p \in Peers, list \in AddressLists : Dial(c, p, list)
  \/ \E p \in Peers : Work(p)
  \/ \E c \in Calls : Settles(c)
  \/ \E d \in late : LateConnects(d) \/ LateFails(d)

Spec == Init /\ [][Next]_vars

(* The queue is processed and every dial settles: dialTimeout sees to it.   *)
(* Nothing makes the transport answer after the timeout.                    *)
Fairness ==
  /\ \A p \in Peers : WF_vars(Work(p))
  /\ \A c \in Calls : WF_vars(Settles(c))

LiveSpec == Spec /\ Fairness

-----------------------------------------------------------------------------
Dials == [call : Calls, addr : Addrs]

TypeOK ==
  /\ peer \in [Calls -> Peers \cup {None}]
  /\ \A f \in {addrs, todo, errors} : f \in [Calls -> Seq(Addrs)]
  /\ token \subseteq Calls
  /\ answer \in [Calls -> {"none", "conn", "errors"}]
  /\ waiting \in [Peers -> Seq(Calls)]
  /\ working \in [Peers -> SUBSET Calls]
  /\ late \subseteq Dials /\ open \subseteq Dials
  /\ connected \subseteq Peers

(* A call that has no answer yet has exactly one task, waiting or running,  *)
(* and an answered one has none: calls never dial two addresses at once, so *)
(* no dial is started once one succeeded and the token is never needed.     *)
OneTaskEach ==
  \A c \in Calls : peer[c] # None =>
    LET tasks == {i \in DOMAIN waiting[peer[c]] : waiting[peer[c]][i] = c}
    IN Cardinality(tasks) + Cardinality(working[peer[c]] \cap {c})
         = IF answer[c] = "none" /\ c \notin token THEN 1 ELSE 0

(* The answer accounts for every address: each was tried in order and its   *)
(* error collected, up to the one that connected or to the last.            *)
AnswersTell ==
  \A c \in Calls :
    CASE answer[c] = "none"   -> errors[c] \o todo[c] = addrs[c]
      [] answer[c] = "errors" -> errors[c] = addrs[c]
      [] answer[c] = "conn"   ->
           /\ IsStrictPrefix(errors[c], addrs[c])
           /\ [call |-> c, addr |-> addrs[c][Len(errors[c]) + 1]] \in open

(* A peer is marked connected by a dial that is answered with a connection, *)
(* and by no socket that opens after its dial timed out.                    *)
ConnectedByAnAnswer ==
  connected = {peer[c] : c \in {x \in Calls : answer[x] = "conn"}}

(* Behind its last relay, the address is one of ours, with our id or not,   *)
(* or is our id.                                                            *)
LeadsToUs(addr) ==
  \E i \in 0 .. Len(addr) :
    LET to == SubSeq(addr, i + 1, Len(addr))
    IN /\ i = 0 \/ addr[i] \in Relays
       /\ ToSet(to) \cap Relays = {}
       /\ to \in {<<OurId>>} \cup ToSet(Ours) \cup {Append(o, OurId) : o \in ToSet(Ours)}

(* No address that leads to this very node is dialed, whatever relays are   *)
(* in front of it.                                                          *)
SelfIsNeverDialed ==
  \A d \in late \cup open \cup {Attempt(c) : c \in {x \in Calls : Running(x)}} :
    ~LeadsToUs(d.addr)

(* What the transport is asked to dial, given up or not. *)
Outstanding(p) ==
  {d \in late : peer[d.call] = p} \cup {Attempt(c) : c \in working[p]}

(* The transport never has more than PerPeerLimit dials to a peer going:    *)
(* "number of concurrent outbound dials to make per peer", transport.js:17. *)
(* The code breaks it, since a dial given up on a timeout is not cancelled. *)
DialsArePerPeerLimited ==
  \A p \in Peers : Cardinality(Outstanding(p)) <= PerPeerLimit

(* Every call is answered, though calls share the workers of their peer and *)
(* transports may never answer.                                             *)
EveryDialIsAnswered ==
  \A c \in Calls : peer[c] # None ~> answer[c] # "none"
=============================================================================
