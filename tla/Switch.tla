------------------------------ MODULE Switch ------------------------------
(***************************************************************************)
(* The life cycle of a switch (src/index.js): its state machine, the       *)
(* series of operations that start and stop it, its listeners              *)
(* (src/transport.js) and the inbound connections of module Inbound.       *)
(*                                                                         *)
(* Entering STARTING or STOPPING begins a series of asynchronous steps     *)
(* that ends in the event 'done'.  Nothing cancels a series: the events of *)
(* an older one meet whatever state the machine is in by then.             *)
(***************************************************************************)
EXTENDS Inbound

CONSTANTS
  Listening,  \* the listeners of each available transport, in order, one
              \* for an address it can listen on
  MaxStarts,  \* bound on the calls of start
  MaxStops,   \* bound on the calls of stop
  Patient     \* the user calls start and stop in STOPPED and STARTED only

Addrs   == UNION {Listening[t] : t \in DOMAIN Listening}
Starts  == 1 .. MaxStarts
Stops   == 1 .. (MaxStops + MaxStarts)

ASSUME SwitchAssumption ==
  /\ MaxStarts \in Nat /\ MaxStops \in Nat /\ Patient \in BOOLEAN
  /\ Listening # <<>> /\ Listening \in Seq((SUBSET Addrs) \ {{}})
  /\ \A t, u \in DOMAIN Listening : t # u => Listening[t] \cap Listening[u] = {}

VARIABLES
  state,         \* state of the switch
  starts,        \* calls of start so far
  stops,         \* calls of stop so far
  starting,      \* each series of starting: "none", "running", "failed", or
                 \* the state its 'done' met
  progress,      \* the transport it listens on
  listener,      \* the listener of each start and address
  stopping,      \* each series of stopping: "none", "listeners",
                 \* "connections" or "done"
  awaited,       \* the connections whose 'close' it waits for
  observing,     \* how often stats listens to messages
  dialing,       \* dialQueueManager.isRunning
  startWaits,    \* somebody waits for 'start'
  stopWaits      \* somebody waits for 'stop'

callVars    == <<starts, stops>>
startVars   == <<starting, progress, listener>>
stopVars    == <<stopping, awaited>>
serviceVars == <<observing, dialing>>
waitVars    == <<startWaits, stopWaits>>
switchVars  == <<state, callVars, startVars, stopVars, serviceVars, waitVars>>
vars == <<inboundVars, switchVars, agenda>>

StateF(ev)      == [op |-> "state", arg |-> ev]
ListenF(n)      == [op |-> "listen", arg |-> n]
ListenersF(m)   == [op |-> "close listeners", arg |-> m]
ConnectionsF(m) == [op |-> "close connections", arg |-> m]

(* Mutant: starting a started switch starts it again. *)
StartedRowRestarts == [stop |-> "STOPPING", start |-> "STARTING"]

StartedRow == [stop |-> "STOPPING", start |-> "STARTED"]

Table == [
  STOPPED  |-> [start |-> "STARTING", stop |-> "STOPPING"],
  STARTING |-> [done |-> "STARTED", stop |-> "STOPPING"],
  STARTED  |-> StartedRow,
  STOPPING |-> [stop |-> "STOPPING", done |-> "STOPPED"]]

Init ==
  /\ InboundInit
  /\ state = "STOPPED"
  /\ starts = 0 /\ stops = 0
  /\ starting = [n \in Starts |-> "none"]
  /\ progress = [n \in Starts |-> 0]
  /\ listener = [i \in Starts \X Addrs |-> "none"]
  /\ stopping = [m \in Stops |-> "none"]
  /\ awaited = [m \in Stops |-> {}]
  /\ observing = 0 /\ dialing = FALSE
  /\ startWaits = FALSE /\ stopWaits = FALSE
  /\ agenda = <<>>

-----------------------------------------------------------------------------
(* The calls of the user. *)

Start ==
  /\ Quiet /\ starts < MaxStarts
  /\ Patient => state \in {"STOPPED", "STARTED"}
  /\ starts' = starts + 1
  /\ startWaits' = TRUE
  /\ agenda' = <<StateF("start")>>
  /\ UNCHANGED <<inboundVars, state, stops, startVars, stopVars, serviceVars, stopWaits>>

Stop ==
  /\ Quiet /\ stops < MaxStops
  /\ Patient => state \in {"STOPPED", "STARTED"}
  /\ stops' = stops + 1
  /\ stopWaits' = TRUE
  /\ agenda' = <<StateF("stop")>>
  /\ UNCHANGED <<inboundVars, state, starts, startVars, stopVars, serviceVars, startWaits>>

-----------------------------------------------------------------------------
(* The state machine. *)

Enters(s) ==
  /\ agenda # <<>> /\ Head(agenda).op = "state"
  /\ Head(agenda).arg \in DOMAIN Table[state]
  /\ s = Table[state][Head(agenda).arg]
  /\ state' = s

(* 'invalid transition' becomes an 'error' of the switch. *)
Refuses ==
  /\ agenda # <<>> /\ Head(agenda).op = "state"
  /\ Head(agenda).arg \notin DOMAIN Table[state]
  /\ agenda' = Rest
  /\ UNCHANGED <<inboundVars, switchVars>>

IsNext(series, i) == series[i] = "none" /\ \A j \in 1 .. i - 1 : series[j] # "none"

(* _onStarting *)
EntersStarting ==
  /\ Enters("STARTING")
  /\ observing' = observing + 1
  /\ \E n \in Starts :
       /\ IsNext(starting, n)
       /\ starting' = [starting EXCEPT ![n] = "running"]
       /\ agenda' = <<ListenF(n)>> \o Rest
  /\ UNCHANGED <<inboundVars, callVars, progress, listener, stopVars, dialing, waitVars>>

EntersStarted ==
  /\ Enters("STARTED")
  /\ dialing' = TRUE
  /\ startWaits' = FALSE
  /\ agenda' = Rest
  /\ UNCHANGED <<inboundVars, callVars, startVars, stopVars, observing, stopWaits>>

(* _onStopping *)
EntersStopping ==
  /\ Enters("STOPPING")
  /\ dialing' = FALSE
  /\ observing' = IF observing = 0 THEN 0 ELSE observing - 1
  /\ \E m \in Stops :
       /\ IsNext(stopping, m)
       /\ stopping' = [stopping EXCEPT ![m] = "listeners"]
       /\ agenda' = <<ListenersF(m)>> \o Rest
  /\ UNCHANGED <<inboundVars, callVars, startVars, awaited, waitVars>>

EntersStopped ==
  /\ Enters("STOPPED")
  /\ stopWaits' = FALSE
  /\ agenda' = Rest
  /\ UNCHANGED <<inboundVars, callVars, startVars, stopVars, serviceVars, startWaits>>

-----------------------------------------------------------------------------
(* Starting: the listeners of one transport after the other, those of a     *)
(* transport in parallel.                                                   *)

Begins(n, t) ==
  listener' = [i \in Starts \X Addrs |->
                 IF i[1] = n /\ i[2] \in Listening[t] THEN "opening" ELSE listener[i]]

Listen(n) ==
  /\ Top(ListenF(n))
  /\ \/ /\ progress[n] < Len(Listening)
        /\ progress' = [progress EXCEPT ![n] = @ + 1]
        /\ Begins(n, progress'[n])
        /\ agenda' = Rest
        /\ UNCHANGED starting
     \/ /\ progress[n] = Len(Listening)
        /\ starting' = [starting EXCEPT ![n] = state]
        /\ agenda' = <<StateF("done")>> \o Rest
        /\ UNCHANGED <<progress, listener>>
  /\ UNCHANGED <<inboundVars, state, callVars, stopVars, serviceVars, waitVars>>

(* A listener opens and is pushed onto transport.listeners, whether its     *)
(* start goes on or not.  One that a stop has closed already is done.       *)
ListenerOpens(n, a) ==
  /\ Quiet /\ listener[n, a] = "opening"
  /\ listener' = [listener EXCEPT ![<<n, a>>] = "open"]
  /\ agenda' = IF /\ starting[n] = "running"
                  /\ \A b \in Listening[progress[n]] \ {a} : listener[n, b] \in {"open", "closed"}
               THEN <<ListenF(n)>> ELSE <<>>
  /\ UNCHANGED <<inboundVars, state, callVars, starting, progress, stopVars, serviceVars, waitVars>>

(* The first failure of a start stops the switch; the other listeners of    *)
(* the transport go on opening.                                             *)
ListenerFails(n, a) ==
  /\ Quiet /\ listener[n, a] = "opening"
  /\ listener' = [listener EXCEPT ![<<n, a>>] = "failed"]
  /\ \/ /\ starting[n] = "running"
        /\ starting' = [starting EXCEPT ![n] = "failed"]
        /\ agenda' = <<StateF("stop")>>
     \/ starting[n] # "running" /\ UNCHANGED <<starting, agenda>>
  /\ UNCHANGED <<inboundVars, state, callVars, progress, stopVars, serviceVars, waitVars>>

-----------------------------------------------------------------------------
(* Stopping: all the listeners pushed so far, then all the connections      *)
(* tracked by then.  Closing a listener twice is an error that is logged.   *)

Pushed == {i \in Starts \X Addrs : listener[i] \in {"open", "closed"}}

(* Mutant: only the listeners of the last start are closed. *)
ClosesLastListeners ==
  listener' = [i \in Starts \X Addrs |->
                 IF listener[i] = "open" /\ starting[i[1]] = "STARTED"
                 THEN "closed" ELSE listener[i]]

ClosesListeners ==
  listener' = [i \in Starts \X Addrs |->
                 IF listener[i] = "open" THEN "closed" ELSE listener[i]]

CloseListeners(m) ==
  /\ Top(ListenersF(m))
  /\ ClosesListeners
  /\ agenda' = IF Pushed = {} THEN <<ConnectionsF(m)>> \o Rest ELSE Rest
  /\ UNCHANGED <<inboundVars, state, callVars, starting, progress, stopVars, serviceVars,
                 waitVars>>

(* The last listener calls back. *)
ListenersClosed(m) ==
  /\ Quiet /\ stopping[m] = "listeners"
  /\ agenda' = <<ConnectionsF(m)>>
  /\ UNCHANGED <<inboundVars, switchVars>>

(* Mutant: connections that are disconnected are waited for. *)
GetEver == {c \in Conns : conn[c] # "none"}

(* getAll of the connection manager *)
GetAll == tracked

CloseConnections(m) ==
  /\ Top(ConnectionsF(m))
  /\ awaited' = [awaited EXCEPT ![m] = GetAll]
  /\ ClosesAll(GetAll)
  /\ \/ /\ GetAll = {}
        /\ stopping' = [stopping EXCEPT ![m] = "done"]
        /\ agenda' = <<StateF("done")>> \o Rest
     \/ /\ GetAll # {}
        /\ stopping' = [stopping EXCEPT ![m] = "connections"]
        /\ agenda' = Rest
  /\ UNCHANGED <<inVars, trackVars, state, callVars, startVars, serviceVars, waitVars>>

Hearing(c) == {m \in Stops : c \in awaited[m]}

(* 'close' of a connection, for every stop that waits for it. *)
HearsClose(c) ==
  /\ Top(CloseEventF(c))
  /\ awaited' = [m \in Stops |-> IF m \in Hearing(c) THEN awaited[m] \ {c} ELSE awaited[m]]
  /\ LET ended == {m \in Hearing(c) : awaited[m] = {c}}
     IN /\ stopping' = [m \in Stops |-> IF m \in ended THEN "done" ELSE stopping[m]]
        /\ agenda' = [i \in 1 .. Cardinality(ended) |-> StateF("done")] \o Rest
  /\ UNCHANGED <<inboundVars, state, callVars, startVars, serviceVars, waitVars>>

(* An open listener accepts a connection. *)
Accepts(c) ==
  /\ Quiet
  /\ \E n \in Starts, a \in Addrs : listener[n, a] = "open"
  /\ Accept(c)
  /\ UNCHANGED switchVars

-----------------------------------------------------------------------------
Turn ==
  \/ EntersStarting \/ EntersStarted \/ EntersStopping \/ EntersStopped \/ Refuses
  \/ \E n \in Starts : Listen(n)
  \/ \E m \in Stops : CloseListeners(m) \/ CloseConnections(m)
  \/ \E c \in Conns : HearsClose(c)

ListenerSettles(n, a) == ListenerOpens(n, a) \/ ListenerFails(n, a)

Next ==
  \/ Turn
  \/ Start \/ Stop
  \/ \E n \in Starts, a \in Addrs : ListenerSettles(n, a)
  \/ \E m \in Stops : ListenersClosed(m)
  \/ \E c \in Conns : Accepts(c)
  \/ (HangUp \/ \E c \in Conns : InboundStep(c)) /\ UNCHANGED switchVars

Spec == Init /\ [][Next]_vars

(* A turn runs on; opening and closing a listener, and ending a muxer, call *)
(* back in the end.  Nothing else is assumed of users and peers.            *)
Fairness ==
  /\ WF_vars(Turn)
  /\ \A n \in Starts, a \in Addrs : WF_vars(ListenerSettles(n, a))
  /\ \A m \in Stops : WF_vars(ListenersClosed(m))
  /\ \A c \in Conns : WF_vars(MuxerEnds(c) /\ UNCHANGED switchVars)

LiveSpec == Spec /\ Fairness

-----------------------------------------------------------------------------
Events == {"start", "stop", "done"}

TypeOK ==
  /\ InboundTypeOK
  /\ state \in DOMAIN Table
  /\ starts \in 0 .. MaxStarts /\ stops \in 0 .. MaxStops
  /\ starting \in [Starts -> {"none", "running", "failed"} \cup DOMAIN Table]
  /\ progress \in [Starts -> 0 .. Len(Listening)]
  /\ listener \in [Starts \X Addrs -> {"none", "opening", "open", "closed", "failed"}]
  /\ stopping \in [Stops -> {"none", "listeners", "connections", "done"}]
  /\ awaited \in [Stops -> SUBSET Conns]
  /\ observing \in Nat /\ dialing \in BOOLEAN
  /\ startWaits \in BOOLEAN /\ stopWaits \in BOOLEAN
  /\ \A i \in DOMAIN agenda : agenda[i] \in
       {StateF(ev) : ev \in Events} \cup {ListenF(n) : n \in Starts}
         \cup {ListenersF(m) : m \in Stops} \cup {ConnectionsF(m) : m \in Stops}
         \cup {CloseEventF(c) : c \in Conns}

(* The services follow the switch over any sequence of starts, stops,       *)
(* failures and late events: the stats listen to messages once while it is  *)
(* starting or started and never otherwise, and the dialer runs while it is *)
(* started.  Listening twice would count every message twice.               *)
ServicesFollowState ==
  Quiet => /\ observing = (IF state \in {"STARTING", "STARTED"} THEN 1 ELSE 0)
           /\ dialing = (state = "STARTED")

(* A start that completed before the switch began to stop is undone: once   *)
(* the switch is stopped no listener of it is open, whatever other starts   *)
(* and stops ran into it.                                                   *)
StopUndoesStarts ==
  Quiet /\ state = "STOPPED" =>
    \A n \in Starts, a \in Addrs :
      starting[n] \in {"STARTING", "STARTED"} => listener[n, a] # "open"

(* A stop waits for connections only that are being closed: none of them is *)
(* left to keep it waiting for ever.                                        *)
AwaitedAreClosing ==
  Quiet => \A m \in Stops :
    /\ \A c \in awaited[m] : conn[c] = "DISCONNECTING"
    /\ (awaited[m] # {}) = (stopping[m] = "connections")

(* "Close all the listeners and muxers" (README.md:228): a stopped switch   *)
(* has no listener open and no connection tracked.  The code breaks it: a   *)
(* listener may open, and a connection be identified, after they were to be *)
(* closed.                                                                  *)
StoppedIsClosed ==
  Quiet /\ state = "STOPPED" =>
    /\ \A n \in Starts, a \in Addrs : listener[n, a] # "open"
    /\ tracked = {}

(* Every call of stop sees the switch stopped, and a starting switch is     *)
(* started or stopped in the end, whatever series and failures meet.        *)
EveryCallSettles ==
  /\ stopWaits ~> ~stopWaits
  /\ state = "STARTING" ~> state \in {"STARTED", "STOPPED"}
=============================================================================
