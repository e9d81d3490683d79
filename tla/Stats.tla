------------------------------- MODULE Stats -------------------------------
(***************************************************************************)
(* The statistics of a switch (src/stats/index.js) and the observer that   *)
(* feeds them (src/observer.js, src/observe-connection.js): a global stat, *)
(* one per transport and protocol, and one per peer that is kept for a     *)
(* while in a least-recently-used cache once the peer is closed.           *)
(*                                                                         *)
(* A message reaches the stats when the promise of its peer's identity     *)
(* resolves, which may be after the peer was closed or the stats stopped.  *)
(***************************************************************************)
EXTENDS Stat, FiniteSets, Functions

CONSTANTS
  Peers,
  Transports,   \* transport tags
  Protocols,    \* protocol tags
  MaxMessages   \* bound on the messages of a behaviour

ASSUME StatsAssumption ==
  /\ MaxMessages \in Nat
  /\ Transports \cap Protocols = {}
  /\ IsFiniteSet(Peers) /\ IsFiniteSet(Transports) /\ IsFiniteSet(Protocols)

VARIABLES
  observing,   \* onMessage listens to the observer
  global,      \* globalStats
  tagged,      \* transportStats and protocolStats; absent is Fresh
  peerStat,    \* the Stat of each peer
  place,       \* where it is: "none", "current" (peerStats) or "old" (oldPeers)
  sent,        \* messages observed so far
  inflight,    \* those whose promise has not resolved, by peer and tag
  forgotten    \* history: operations of the stats the cache dropped

statVars    == <<global, tagged, peerStat, place>>
messageVars == <<sent, inflight>>
vars == <<observing, statVars, messageVars, forgotten>>

Tags    == Transports \cup Protocols
Placed(where) == {p \in Peers : place[p] = where}

Init ==
  /\ observing = FALSE
  /\ global = Fresh
  /\ tagged = [t \in Tags |-> Fresh]
  /\ peerStat = [p \in Peers |-> Fresh]
  /\ place = [p \in Peers |-> "none"]
  /\ sent = 0
  /\ inflight = [m \in Peers \X Tags |-> 0]
  /\ forgotten = 0

-----------------------------------------------------------------------------
(* The cache of old peers, hashlru: looking a peer up or adding one may     *)
(* drop others, however many there are.                                     *)

(* What each peer counts. *)
Counted(stats) == [p \in Peers |-> Total(stats[p])]

Forgets(stats, places, gone) ==
  /\ peerStat' = [p \in Peers |-> IF p \in gone THEN Fresh ELSE stats[p]]
  /\ place' = [p \in Peers |-> IF p \in gone THEN "none" ELSE places[p]]
  /\ forgotten' = forgotten + SumFunctionOnSet(Counted(stats), gone)

(* forPeer, which looks in the cache. *)
ForPeer(p) ==
  /\ place[p] = "old"
  /\ \E gone \in SUBSET (Placed("old") \ {p}) : Forgets(peerStat, place, gone)
  /\ UNCHANGED <<observing, global, tagged, messageVars>>

(* Mutant: a closed peer's stat is kept with its timer running. *)
PeerClosedRunning(p) ==
  /\ place[p] = "current"
  /\ \E gone \in SUBSET Placed("old") :
       Forgets(peerStat, [place EXCEPT ![p] = "old"], gone)
  /\ UNCHANGED <<observing, global, tagged, messageVars>>

(* 'peer:closed', which the observer emits on 'peer-mux-closed'. *)
PeerClosed(p) ==
  /\ place[p] = "current"
  /\ \E gone \in SUBSET Placed("old") :
       Forgets([peerStat EXCEPT ![p] = Stop(@)], [place EXCEPT ![p] = "old"], gone)
  /\ UNCHANGED <<observing, global, tagged, messageVars>>

-----------------------------------------------------------------------------
(* Messages. *)

Observe(p, tag) ==
  /\ sent < MaxMessages
  /\ sent' = sent + 1
  /\ inflight' = [inflight EXCEPT ![<<p, tag>>] = @ + 1]
  /\ UNCHANGED <<observing, statVars, forgotten>>

(* Mutant: a peer that comes back starts from nothing. *)
ReturnedAnew(p) == Start(Fresh)

(* The stat a peer goes on with: current, old or new. *)
Returned(p) == IF place[p] = "current" THEN peerStat[p] ELSE Start(peerStat[p])

(* A message at the level of the transport counts for the node, the peer    *)
(* and the transport.                                                       *)
OnTransportMessage(p, tag) ==
  /\ global' = Push(global)
  /\ tagged' = [tagged EXCEPT ![tag] = Push(@)]
  /\ \E gone \in SUBSET (IF place[p] = "old" THEN Placed("old") \ {p} ELSE {}) :
       Forgets([peerStat EXCEPT ![p] = Push(Returned(p))],
               [place EXCEPT ![p] = "current"], gone)

OnProtocolMessage(tag) ==
  /\ tagged' = [tagged EXCEPT ![tag] = Push(@)]
  /\ UNCHANGED <<global, peerStat, place, forgotten>>

(* The promise resolves, 'message' is emitted and onMessage, if it listens, *)
(* counts it.                                                               *)
Deliver(p, tag) ==
  /\ inflight[p, tag] > 0
  /\ inflight' = [inflight EXCEPT ![<<p, tag>>] = @ - 1]
  /\ \/ observing /\ tag \in Transports /\ OnTransportMessage(p, tag)
     \/ observing /\ tag \in Protocols /\ OnProtocolMessage(tag)
     \/ ~observing /\ UNCHANGED <<statVars, forgotten>>
  /\ UNCHANGED <<observing, sent>>

-----------------------------------------------------------------------------
(* Starting and stopping, as the switch does: the protocols are left alone, *)
(* and so are the old peers.                                                *)

AppliedToAll(Op(_)) ==
  /\ global' = Op(global)
  /\ tagged' = [t \in Tags |-> IF t \in Transports THEN Op(tagged[t]) ELSE tagged[t]]
  /\ peerStat' = [p \in Peers |->
                    IF place[p] = "current" THEN Op(peerStat[p]) ELSE peerStat[p]]
  /\ UNCHANGED <<place, messageVars, forgotten>>

StartStats == ~observing /\ observing' = TRUE /\ AppliedToAll(Start)
StopStats  == observing /\ observing' = FALSE /\ AppliedToAll(Stop)

-----------------------------------------------------------------------------
(* Time: it does not pass a timer that is due. *)

Updates ==
  \/ /\ IsDue(global) /\ global' = Update(global)
     /\ UNCHANGED <<tagged, peerStat>>
  \/ \E t \in Tags : /\ IsDue(tagged[t])
                     /\ tagged' = [tagged EXCEPT ![t] = Update(@)]
                     /\ UNCHANGED <<global, peerStat>>
  \/ \E p \in Peers : /\ IsDue(peerStat[p])
                      /\ peerStat' = [peerStat EXCEPT ![p] = Update(@)]
                      /\ UNCHANGED <<global, tagged>>

TimerFires ==
  /\ Updates
  /\ UNCHANGED <<observing, place, messageVars, forgotten>>

AllStats == {global} \cup Range(tagged) \cup Range(peerStat)

Tick ==
  /\ \E s \in AllStats : s.armed
  /\ \A s \in AllStats : ~IsDue(s)
  /\ global' = Ticked(global)
  /\ tagged' = [t \in Tags |-> Ticked(tagged[t])]
  /\ peerStat' = [p \in Peers |-> Ticked(peerStat[p])]
  /\ UNCHANGED <<observing, place, messageVars, forgotten>>

Next ==
  \/ \E p \in Peers : ForPeer(p) \/ PeerClosed(p)
  \/ \E p \in Peers, tag \in Tags : Observe(p, tag) \/ Deliver(p, tag)
  \/ StartStats \/ StopStats \/ TimerFires \/ Tick

Spec == Init /\ [][Next]_vars

-----------------------------------------------------------------------------
StatType == [queued : 0 .. MaxMessages, applied : 0 .. MaxMessages,
             armed : BOOLEAN, due : 0 .. Timeout, age : Nat]

TypeOK ==
  /\ observing \in BOOLEAN
  /\ AllStats \subseteq StatType
  /\ DOMAIN tagged = Tags
  /\ place \in [Peers -> {"none", "current", "old"}]
  /\ sent \in 0 .. MaxMessages
  /\ inflight \in [Peers \X Tags -> 0 .. MaxMessages]
  /\ forgotten \in Nat

(* What the node counts is what its peers and what its transports count:    *)
(* nothing is lost or counted twice when a peer is closed, comes back, late *)
(* messages arrive or the switch restarts.  Only a peer the cache dropped   *)
(* takes its share along.                                                   *)
CountsAgree ==
  /\ Total(global) = SumFunction(Counted(peerStat)) + forgotten
  /\ Total(global) = SumFunction([t \in Transports |-> Total(tagged[t])])

(* A stat that is processed has its timer running as long as operations     *)
(* wait, and no other timer runs: no wakeup is lost over stops, starts,     *)
(* closed and returning peers, and a stopped switch and a closed peer keep  *)
(* no timer.  The stats of protocols are processed all the time.            *)
TimersFollowQueues ==
  LET Follows(s, processed) == s.armed = (s.queued > 0 /\ processed)
  IN /\ Follows(global, observing)
     /\ \A t \in Transports : Follows(tagged[t], observing)
     /\ \A t \in Protocols : Follows(tagged[t], TRUE)
     /\ \A p \in Peers : Follows(peerStat[p], observing /\ place[p] = "current")

(* Each push puts the timer off, yet no operation waits longer than         *)
(* LongestDelay for the next update.                                        *)
StalenessIsBounded == \A s \in AllStats : s.age <= LongestDelay

(* "Stats are updated at an interval.  The maximum interval can be defined  *)
(* through the option computeThrottleTimeout" (README.md:334).  The code    *)
(* breaks it, since every push puts the timer off.                          *)
UpdatedWithinTimeout == \A s \in AllStats : s.age <= Timeout
=============================================================================
