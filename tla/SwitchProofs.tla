---------------------------- MODULE SwitchProofs ----------------------------
(***************************************************************************)
(* Proofs about the life cycle of the switch and its inbound connections,  *)
(* for any number of connections, starts, stops, transports and addresses: *)
(* types, services, listeners that are closed, stops that are not stuck,   *)
(* and what the world knows of the peer.                                   *)
(***************************************************************************)
EXTENDS Switch, SequenceTheorems, FiniteSetTheorems, TLAPS

(* What a turn of the switch may have left to do.                           *)
Frames ==
  {StateF(ev) : ev \in Events} \cup {ListenF(n) : n \in Starts}
    \cup {ListenersF(m) : m \in Stops} \cup {ConnectionsF(m) : m \in Stops}
    \cup {CloseEventF(c) : c \in Conns}

(* Whatever comes after the head of a turn only tells of a series that is    *)
(* done.                                                                     *)
AgendaInv ==
  /\ agenda \in Seq(Frames)
  /\ \A i \in DOMAIN agenda : i > 1 => agenda[i] = StateF("done")

(* The services follow the state within turns, too.                         *)
ServicesInv ==
  /\ state \in DOMAIN Table
  /\ observing = (IF state \in {"STARTING", "STARTED"} THEN 1 ELSE 0)
  /\ dialing \in BOOLEAN
  /\ dialing <=> state = "STARTED"

(* An inbound connection goes through its stages in order: without a muxer   *)
(* there is nothing to identify, and what is identified is not tracked yet.  *)
StagesInv ==
  /\ InboundTypeOK
  /\ \A c \in Conns :
       /\ incoming[c] # "MUXED" => muxer[c] = "none"
       /\ muxer[c] = "none" => identify[c] = "none" /\ conn[c] = "none"
       /\ identify[c] # "none" => conn[c] = "none"

PeerInv == StagesInv /\ PeerFollowsConnections

(* A stop works on its listeners first, and waits for connections that are   *)
(* being closed or whose 'close' is heard next.                              *)
AwaitedInv ==
  /\ stopping \in [Stops -> {"none", "listeners", "connections", "done"}]
  /\ awaited \in [Stops -> SUBSET Conns]
  /\ \A m \in Stops :
       /\ (awaited[m] # {}) = (stopping[m] = "connections")
       /\ \A c \in awaited[m] : conn[c] = "DISCONNECTING" \/ Top(CloseEventF(c))
       /\ Top(ListenersF(m)) \/ Top(ConnectionsF(m)) => stopping[m] = "listeners"

Completed(n) == starting[n] \in {"STARTING", "STARTED"}

(* The switch is started, or about to be, or closes its listeners next.     *)
Settled ==
  \/ state = "STARTED"
  \/ state = "STARTING" /\ Top(StateF("done"))
  \/ \E m \in Stops : Top(ListenersF(m))

(* What is opening belongs to the transport its start has come to, and a     *)
(* start goes on, or completes, with nothing opening.  An open listener of a *)
(* completed start is about to be closed, unless the switch is, or is about  *)
(* to be, started.                                                           *)
ListenersInv ==
  /\ starting \in [Starts -> {"none", "running", "failed"} \cup DOMAIN Table]
  /\ progress \in [Starts -> 0 .. Len(Listening)]
  /\ listener \in [Starts \X Addrs -> {"none", "opening", "open", "closed", "failed"}]
  /\ \A n \in Starts, a \in Addrs :
       /\ starting[n] = "running" /\ listener[n, a] = "opening" =>
            progress[n] > 0 /\ a \in Listening[progress[n]]
       /\ starting[n] = "none" \/ Completed(n) \/ Top(ListenF(n)) =>
            listener[n, a] # "opening"
       /\ Completed(n) /\ listener[n, a] = "open" => Settled
  /\ \A n \in Starts : Top(ListenF(n)) => starting[n] = "running"

-----------------------------------------------------------------------------
(* Turns.                                                                   *)

Shape(s) ==
  /\ s \in Seq(Frames)
  /\ \A i \in DOMAIN s : i > 1 => s[i] = StateF("done")

(* The functions of a turn are frames. *)
LEMMA FrameTypes ==
  /\ \A ev \in Events : StateF(ev) \in Frames
  /\ \A n \in Starts : ListenF(n) \in Frames
  /\ \A m \in Stops : ListenersF(m) \in Frames /\ ConnectionsF(m) \in Frames
  /\ \A c \in Conns : CloseEventF(c) \in Frames
  BY DEF Frames

(* What is left of a turn only tells of series that are done, and a step put *)
(* in front of it runs next.                                                 *)
LEMMA Turns ==
  ASSUME AgendaInv
  PROVE  /\ Shape(<<>>)
         /\ \A f \in Frames : Shape(<<f>>) /\ Head(<<f>>) = f
         /\ agenda # <<>> =>
              /\ Shape(Rest)
              /\ Rest # <<>> => Head(Rest) = StateF("done")
              /\ \A f \in Frames : /\ Shape(<<f>> \o Rest)
                                   /\ <<f>> \o Rest # <<>> /\ Head(<<f>> \o Rest) = f
<1>1. Shape(<<>>) /\ \A f \in Frames : Shape(<<f>>) /\ Head(<<f>>) = f
  BY DEF Shape
<1>2. ASSUME agenda # <<>>
      PROVE  /\ Rest \in Seq(Frames)
             /\ \A i \in DOMAIN Rest : Rest[i] = StateF("done")
  BY <1>2 DEF AgendaInv, Rest
<1>3. ASSUME agenda # <<>>, NEW f \in Frames
      PROVE  /\ Shape(<<f>> \o Rest)
             /\ <<f>> \o Rest # <<>> /\ Head(<<f>> \o Rest) = f
  BY <1>2, <1>3 DEF Shape
<1>4. ASSUME agenda # <<>>
      PROVE  Shape(Rest) /\ (Rest # <<>> => Head(Rest) = StateF("done"))
  BY <1>2, <1>4 DEF Shape
<1> QED
  BY <1>1, <1>3, <1>4

(* Closing a connection ends finitely many stops. *)
LEMMA EndedStops ==
  ASSUME AgendaInv, agenda # <<>>, NEW ended \in SUBSET Stops, NEW dones,
         dones = [i \in 1 .. Cardinality(ended) |-> StateF("done")] \o Rest
  PROVE  Shape(dones) /\ (dones # <<>> => Head(dones) = StateF("done"))
<1>1. Cardinality(ended) \in Nat
  <2>1. 0 \in Int /\ 1 \in Int /\ MaxStops + MaxStarts \in Int
    BY SwitchAssumption
  <2>2. IsFiniteSet(Stops)
    BY <2>1, FS_Interval DEF Stops
  <2> QED
    BY <2>2, FS_Subset, FS_CardinalityType
<1>2. /\ Rest \in Seq(Frames)
      /\ \A i \in DOMAIN Rest : Rest[i] = StateF("done")
  BY DEF AgendaInv, Rest
<1>3. [i \in 1 .. Cardinality(ended) |-> StateF("done")] \in Seq(Frames)
  BY <1>1, FrameTypes DEF Events
<1> QED
  BY <1>1, <1>2, <1>3 DEF Shape

(* Every step leaves a turn of that shape.                                  *)
LEMMA AgendaStep == AgendaInv /\ Next => AgendaInv'
<1> SUFFICES ASSUME AgendaInv, Next PROVE Shape(agenda')
  BY DEF AgendaInv, Shape
<1> USE FrameTypes, Turns
<1>1. CASE EntersStarting \/ EntersStarted \/ EntersStopping \/ EntersStopped \/ Refuses
  BY <1>1 DEF EntersStarting, EntersStarted, EntersStopping, EntersStopped, Refuses, Enters
<1>2. ASSUME NEW n \in Starts, Listen(n) PROVE Shape(agenda')
  BY <1>2 DEF Listen, Top, Events
<1>3. ASSUME NEW m \in Stops, CloseListeners(m) \/ CloseConnections(m) \/ ListenersClosed(m)
      PROVE  Shape(agenda')
  BY <1>3 DEF CloseListeners, CloseConnections, ListenersClosed, Top, Events
<1>4. ASSUME NEW c \in Conns, HearsClose(c) PROVE Shape(agenda')
  <2>1. \E ended \in SUBSET Stops :
          agenda' = [i \in 1 .. Cardinality(ended) |-> StateF("done")] \o Rest
    BY <1>4 DEF HearsClose, Hearing
  <2> QED
    BY <1>4, <2>1, EndedStops DEF HearsClose, Top
<1>5. CASE Start \/ Stop
  BY <1>5 DEF Start, Stop, Events
<1>6. ASSUME NEW n \in Starts, NEW a \in Addrs, ListenerSettles(n, a) PROVE Shape(agenda')
  BY <1>6 DEF ListenerSettles, ListenerOpens, ListenerFails, Events, Quiet
<1>7. ASSUME NEW c \in Conns, Accepts(c) \/ InboundStep(c) PROVE Shape(agenda')
  BY <1>7 DEF Accepts, Accept, InboundStep, Protects, Encrypts, IncomingFails, MuxerSelected,
     IdentifyResolves, IdentifyFails, Identified, MuxerCloses, MuxerEnds, Quiet
<1>8. CASE HangUp
  BY <1>8 DEF HangUp, Quiet
<1> QED
  BY <1>1, <1>2, <1>3, <1>4, <1>5, <1>6, <1>7, <1>8 DEF Next, Turn

(* After its head a turn only tells of series of steps that are done.       *)
THEOREM AgendaInvariant == Spec => []AgendaInv
<1>1. Init => AgendaInv
  BY DEF Init, AgendaInv
<1>2. AgendaInv /\ [Next]_vars => AgendaInv'
  BY AgendaStep DEF AgendaInv, vars
<1> QED
  BY <1>1, <1>2, PTL DEF Spec

(* No two functions of a turn are the same. *)
LEMMA FramesDiffer ==
  /\ \A ev, n : StateF(ev) # ListenF(n) /\ StateF(ev) # ListenersF(n)
  /\ \A ev, n : StateF(ev) # ConnectionsF(n) /\ StateF(ev) # CloseEventF(n)
  /\ \A m, n : ListenF(n) # ListenersF(m) /\ ListenF(n) # ConnectionsF(m)
  /\ \A m, n : ListenF(n) # CloseEventF(m) /\ ListenersF(n) # ConnectionsF(m)
  /\ \A m, n : ListenersF(n) # CloseEventF(m) /\ ConnectionsF(n) # CloseEventF(m)
  /\ \A m, n : m # n => /\ ListenF(m) # ListenF(n) /\ ListenersF(m) # ListenersF(n)
                        /\ ConnectionsF(m) # ConnectionsF(n) /\ CloseEventF(m) # CloseEventF(n)
                        /\ StateF(m) # StateF(n)
  BY DEF StateF, ListenF, ListenersF, ConnectionsF, CloseEventF

(* What runs next after the steps of a turn. *)
LEMMA NextHeads ==
  ASSUME AgendaInv, agenda # <<>>, NEW g
  PROVE  /\ agenda' = Rest /\ Top(g)' => g = StateF("done")
         /\ \A f \in Frames : agenda' = <<f>> \o Rest => Top(f)' /\ (Top(g)' => g = f)
  BY Turns DEF Top

(* The one frame of a turn that begins is its head. *)
LEMMA FirstHeads ==
  ASSUME NEW f, NEW g, agenda' = <<f>>
  PROVE  Top(f)' /\ (Top(g)' => g = f)
  BY DEF Top

-----------------------------------------------------------------------------
(* The state machine.                                                       *)

(* The states each state is entered from. *)
LEMMA Entries ==
  ASSUME state \in DOMAIN Table
  PROVE  /\ EntersStarting => state = "STOPPED"
         /\ EntersStarted => state \in {"STARTING", "STARTED"}
         /\ EntersStopped => state = "STOPPING"
         /\ state = "STARTING" /\ Top(StateF("done")) => ~Refuses /\ ~EntersStopping
<1>1. /\ DOMAIN Table = {"STOPPED", "STARTING", "STARTED", "STOPPING"}
      /\ Table["STOPPED"] = [start |-> "STARTING", stop |-> "STOPPING"]
      /\ Table["STARTING"] = [done |-> "STARTED", stop |-> "STOPPING"]
      /\ Table["STARTED"] = [stop |-> "STOPPING", start |-> "STARTED"]
      /\ Table["STOPPING"] = [stop |-> "STOPPING", done |-> "STOPPED"]
  BY DEF Table, StartedRow
<1>2. ASSUME NEW s, Enters(s)
      PROVE  \E ev \in DOMAIN Table[state] : s = Table[state][ev]
  BY <1>2 DEF Enters
<1>3. EntersStarting => state = "STOPPED"
  <2>1. EntersStarting => Enters("STARTING")
    BY DEF EntersStarting
  <2> QED
    BY <1>1, <1>2, <2>1
<1>4. EntersStarted => state \in {"STARTING", "STARTED"}
  BY <1>1, <1>2 DEF EntersStarted
<1>5. EntersStopped => state = "STOPPING"
  BY <1>1, <1>2 DEF EntersStopped
<1>6. ASSUME state = "STARTING", Top(StateF("done"))
      PROVE  ~Refuses /\ ~EntersStopping
  BY <1>1, <1>6 DEF Refuses, EntersStopping, Enters, Top, StateF
<1> QED
  BY <1>3, <1>4, <1>5, <1>6

-----------------------------------------------------------------------------
(* The services.                                                            *)

(* Only the state machine touches the state and the services. *)
LEMMA ServiceSteps ==
  Next => \/ EntersStarting \/ EntersStarted \/ EntersStopping \/ EntersStopped
          \/ UNCHANGED <<state, serviceVars>>
<1> DEFINE Same == UNCHANGED <<state, serviceVars>>
<1>1. Refuses \/ Start \/ Stop => Same
  BY DEF Refuses, Start, Stop, switchVars
<1>2. \A n \in Starts : Listen(n) => Same
  BY DEF Listen
<1>3. \A m \in Stops : CloseListeners(m) \/ CloseConnections(m) \/ ListenersClosed(m) => Same
  BY DEF CloseListeners, CloseConnections, ListenersClosed, switchVars
<1>4. \A c \in Conns : HearsClose(c) \/ Accepts(c) => Same
  BY DEF HearsClose, Accepts, switchVars
<1>5. \A n \in Starts, a \in Addrs : ListenerSettles(n, a) => Same
  BY DEF ListenerSettles, ListenerOpens, ListenerFails
<1>6. UNCHANGED switchVars => Same
  BY DEF switchVars
<1>7. Turn => \/ EntersStarting \/ EntersStarted \/ EntersStopping \/ EntersStopped
              \/ Same
  BY <1>1, <1>2, <1>3, <1>4 DEF Turn
<1> QED
  BY <1>1, <1>3, <1>4, <1>5, <1>6, <1>7 DEF Next

(* The stats listen to messages once in STARTING and STARTED, and the dialer *)
(* runs in STARTED, within turns and between them.                           *)
THEOREM ServicesInvariant == Spec => []ServicesInv
<1>1. Init => ServicesInv
  <2>1. DOMAIN Table = {"STOPPED", "STARTING", "STARTED", "STOPPING"}
    BY DEF Table
  <2>2. Init => state = "STOPPED" /\ observing = 0 /\ dialing = FALSE
    BY DEF Init
  <2> QED
    BY <2>1, <2>2 DEF ServicesInv
<1>2. ServicesInv /\ [Next]_vars => ServicesInv'
  <2> SUFFICES ASSUME ServicesInv, [Next]_vars PROVE ServicesInv'
    OBVIOUS
  <2> USE Entries DEF ServicesInv
  <2>0. DOMAIN Table = {"STOPPED", "STARTING", "STARTED", "STOPPING"}
    BY DEF Table
  <2>1. CASE EntersStarting
    <3>1. state' = "STARTING" /\ observing' = observing + 1 /\ UNCHANGED dialing
         /\ observing = 0 /\ dialing = FALSE
      BY <2>1 DEF EntersStarting, Enters, serviceVars
    <3> QED
      BY <2>0, <3>1
  <2>2. CASE EntersStarted
    BY <2>2, <2>0 DEF EntersStarted, Enters
  <2>3. CASE EntersStopping
    <3>1. state' = "STOPPING" /\ observing' = 0 /\ dialing' = FALSE
      BY <2>3 DEF EntersStopping, Enters, serviceVars
    <3> QED
      BY <2>0, <3>1
  <2>4. CASE EntersStopped
    <3>1. state' = "STOPPED" /\ UNCHANGED <<observing, dialing>>
         /\ observing = 0 /\ dialing = FALSE
      BY <2>4 DEF EntersStopped, Enters, serviceVars
    <3> QED
      BY <2>0, <3>1
  <2>5. CASE UNCHANGED <<state, serviceVars>>
    BY <2>5 DEF serviceVars
  <2>6. CASE UNCHANGED vars
    BY <2>6 DEF vars, switchVars, serviceVars
  <2> QED
    BY <2>1, <2>2, <2>3, <2>4, <2>5, <2>6, ServiceSteps
<1> QED
  BY <1>1, <1>2, PTL DEF Spec

(* ServicesFollowState: over any sequence of starts, stops, failures and     *)
(* late events, messages are counted once and the dialer runs while the      *)
(* switch is started.                                                        *)
THEOREM ServicesFollowStateHolds == Spec => []ServicesFollowState
<1>1. ServicesInv => ServicesFollowState
  BY DEF ServicesInv, ServicesFollowState
<1> QED
  BY <1>1, ServicesInvariant, PTL

-----------------------------------------------------------------------------
(* The inbound connections.                                                 *)

(* A step is one of a connection, closes all that is tracked, or leaves the  *)
(* connections alone.                                                        *)
LEMMA ConnectionSteps ==
  Next => \/ \E c \in Conns : Accept(c) \/ InboundStep(c)
          \/ ClosesAll(tracked) /\ UNCHANGED <<inVars, trackVars>>
          \/ UNCHANGED inboundVars
<1> DEFINE Same == UNCHANGED inboundVars
<1>1. Turn => Same \/ \E m \in Stops : CloseConnections(m)
  BY DEF Turn, EntersStarting, EntersStarted, EntersStopping, EntersStopped, Refuses, Listen,
         CloseListeners, HearsClose
<1>2. \A m \in Stops : /\ CloseConnections(m) => ClosesAll(tracked) /\ UNCHANGED <<inVars, trackVars>>
                       /\ ListenersClosed(m) => Same
  BY DEF CloseConnections, ListenersClosed, GetAll
<1>3. Start \/ Stop => Same
  BY DEF Start, Stop
<1>4. \A n \in Starts, a \in Addrs : ListenerSettles(n, a) => Same
  BY DEF ListenerSettles, ListenerOpens, ListenerFails
<1>5. \A c \in Conns : Accepts(c) => Accept(c)
  BY DEF Accepts
<1>6. HangUp => ClosesAll(tracked) /\ UNCHANGED <<inVars, trackVars>>
  BY DEF HangUp
<1> QED
  BY <1>1, <1>2, <1>3, <1>4, <1>5, <1>6 DEF Next

(* A stage of a connection follows the one before it. *)
LEMMA StagesStep ==
  ASSUME StagesInv, NEW c \in Conns, Accept(c) \/ InboundStep(c)
  PROVE  StagesInv'
<1> USE DEF StagesInv, InboundTypeOK, inVars, trackVars
<1>1. CASE Accept(c)
  BY <1>1, InboundAssumption DEF Accept
<1>2. CASE Protects(c) \/ Encrypts(c)
  BY <1>2 DEF Protects, Encrypts
<1>3. CASE IncomingFails(c)
  BY <1>3 DEF IncomingFails, Remove, PeerCloses
<1>4. CASE MuxerSelected(c)
  BY <1>4 DEF MuxerSelected
<1>5. CASE IdentifyResolves(c) \/ IdentifyFails(c)
  BY <1>5 DEF IdentifyResolves, IdentifyFails
<1>6. CASE Identified(c)
  BY <1>6 DEF Identified, Add
<1>7. CASE MuxerCloses(c)
  <2>1. conn' \in [Conns -> {"none", "MUXED", "DISCONNECTING", "DISCONNECTED"}]
        /\ \A d \in Conns : conn[d] = "none" => conn'[d] = "none"
    BY <1>7 DEF MuxerCloses, Closed
  <2>2. tracked' \subseteq Conns /\ peerUp' \in BOOLEAN
        /\ muxHeard' \in {"none", "established", "closed"}
    BY <1>7 DEF MuxerCloses, Closed, Remove, PeerCloses
  <2> QED
    BY <1>7, <2>1, <2>2 DEF MuxerCloses
<1>8. CASE MuxerEnds(c)
  BY <1>8 DEF MuxerEnds, Remove, PeerCloses
<1> QED
  BY <1>1, <1>2, <1>3, <1>4, <1>5, <1>6, <1>7, <1>8 DEF InboundStep

(* What a step of a connection tells the world follows what is tracked.      *)
LEMMA PeerStep ==
  ASSUME PeerInv, NEW c \in Conns, Accept(c) \/ InboundStep(c)
  PROVE  PeerFollowsConnections'
<1> USE DEF PeerInv, StagesInv, InboundTypeOK, PeerFollowsConnections, inVars, trackVars
<1>1. CASE Accept(c) \/ Protects(c) \/ Encrypts(c) \/ MuxerSelected(c)
           \/ IdentifyResolves(c) \/ IdentifyFails(c)
  BY <1>1 DEF Accept, Protects, Encrypts, MuxerSelected, IdentifyResolves, IdentifyFails
<1>2. CASE IncomingFails(c)
  BY <1>2, ZenonT(30) DEF IncomingFails, Remove, PeerCloses
<1>3. CASE Identified(c)
  <2>1. tracked' = {d \in Conns : conn'[d] \in {"MUXED", "DISCONNECTING"}}
    BY <1>3 DEF Identified, Add
  <2>2. tracked' # {} /\ peerUp' = TRUE /\ muxHeard' = "established"
    BY <1>3 DEF Identified, Add
  <2> QED
    BY <2>1, <2>2
<1>4. CASE MuxerCloses(c)
  BY <1>4, ZenonT(30) DEF MuxerCloses, Closed, Remove, PeerCloses
<1>5. CASE MuxerEnds(c)
  BY <1>5 DEF MuxerEnds, Remove, PeerCloses
<1> QED
  BY <1>1, <1>2, <1>3, <1>4, <1>5 DEF InboundStep

(* hangUp and stop leave tracked what they begin to close. *)
LEMMA ClosesAllStep ==
  ASSUME PeerInv, ClosesAll(tracked), UNCHANGED <<inVars, trackVars>>
  PROVE  PeerInv'
  BY DEF PeerInv, StagesInv, InboundTypeOK, PeerFollowsConnections, ClosesAll, inVars, trackVars

(* Stages follow each other, and what the world knows of the peer follows   *)
(* what is tracked.                                                         *)
THEOREM PeerInvariant == Spec => []PeerInv
<1>1. Init => PeerInv
  <2>1. Init => InboundInit
    BY DEF Init
  <2>2. InboundInit => StagesInv
    BY DEF InboundInit, StagesInv, InboundTypeOK
  <2>3. InboundInit => PeerFollowsConnections
    BY DEF InboundInit, PeerFollowsConnections
  <2> QED
    BY <2>1, <2>2, <2>3 DEF PeerInv
<1>2. PeerInv /\ [Next]_vars => PeerInv'
  <2> SUFFICES ASSUME PeerInv, [Next]_vars PROVE PeerInv'
    OBVIOUS
  <2>1. CASE UNCHANGED inboundVars
    BY <2>1 DEF PeerInv, StagesInv, InboundTypeOK, PeerFollowsConnections, inboundVars, inVars,
                trackVars
  <2>2. CASE UNCHANGED vars
    BY <2>1, <2>2 DEF vars
  <2> QED
    BY <2>1, <2>2, ConnectionSteps, StagesStep, PeerStep, ClosesAllStep DEF PeerInv
<1> QED
  BY <1>1, <1>2, PTL DEF Spec

(* PeerFollowsConnections: the peer is connected, and was last reported      *)
(* established, exactly while one of its connections is tracked.             *)
THEOREM PeerFollowsConnectionsHolds == Spec => []PeerFollowsConnections
<1>1. PeerInv => PeerFollowsConnections
  BY DEF PeerInv
<1> QED
  BY <1>1, PeerInvariant, PTL

-----------------------------------------------------------------------------
(* What a stop waits for.                                                   *)

(* A step that lets the stops be: what they wait for goes on being closed,   *)
(* and the next step of one that works on its listeners may be to come.      *)
LEMMA StopsUntouched ==
  ASSUME AwaitedInv, UNCHANGED stopVars,
         \A c \in Conns : ~Top(CloseEventF(c)),
         \A c \in Conns : conn[c] = "DISCONNECTING" =>
                             conn'[c] = "DISCONNECTING" \/ Top(CloseEventF(c))',
         \A m \in Stops : Top(ListenersF(m))' \/ Top(ConnectionsF(m))' => stopping[m] = "listeners"
  PROVE  AwaitedInv'
<1>1. stopping' = stopping /\ awaited' = awaited
  BY DEF stopVars
<1>2. \A m \in Stops : \A c \in awaited[m] : conn'[c] = "DISCONNECTING" \/ Top(CloseEventF(c))'
  BY DEF AwaitedInv
<1> QED
  BY <1>1, <1>2 DEF AwaitedInv

(* The state machine begins a stop. *)
LEMMA StopBegins ==
  ASSUME AgendaInv, AwaitedInv, EntersStopping
  PROVE  AwaitedInv'
<1>1. PICK m \in Stops : /\ stopping[m] = "none"
                         /\ stopping' = [stopping EXCEPT ![m] = "listeners"]
                         /\ agenda' = <<ListenersF(m)>> \o Rest
  BY DEF EntersStopping, IsNext
<1>2. /\ agenda # <<>> /\ awaited' = awaited /\ conn' = conn
      /\ \A c \in Conns : ~Top(CloseEventF(c))
  <2>1. /\ agenda # <<>> /\ Head(agenda).op = "state"
        /\ awaited' = awaited /\ conn' = conn
    BY DEF EntersStopping, Enters, inboundVars
  <2>2. \A c \in Conns : CloseEventF(c).op = "emit close"
    BY DEF CloseEventF
  <2> QED
    BY <2>1, <2>2 DEF Top
<1>3. \A k \in Stops : /\ Top(ListenersF(k))' => k = m
                       /\ ~Top(ConnectionsF(k))'
  <2>1. \A g : Top(g)' => g = ListenersF(m)
    BY <1>1, <1>2, NextHeads, FrameTypes
  <2> QED
    BY <2>1, FramesDiffer
<1>4. /\ stopping' \in [Stops -> {"none", "listeners", "connections", "done"}]
      /\ \A k \in Stops : (awaited[k] # {}) = (stopping'[k] = "connections")
      /\ stopping'[m] = "listeners"
  BY <1>1 DEF AwaitedInv
<1>5. \A k \in Stops : \A c \in awaited'[k] : conn'[c] = "DISCONNECTING"
  BY <1>2 DEF AwaitedInv
<1>6. awaited' \in [Stops -> SUBSET Conns]
  BY <1>2 DEF AwaitedInv
<1>7. ASSUME NEW k \in Stops, Top(ListenersF(k))' \/ Top(ConnectionsF(k))'
      PROVE  stopping'[k] = "listeners"
  <2>1. k = m
    BY <1>3, <1>7
  <2> QED
    BY <1>4, <2>1
<1> QED
  BY <1>2, <1>4, <1>5, <1>6, <1>7 DEF AwaitedInv

(* A stop waits for all that is tracked, which is being closed then. *)
LEMMA StopWaits ==
  ASSUME AgendaInv, PeerInv, AwaitedInv, NEW m \in Stops, CloseConnections(m)
  PROVE  AwaitedInv'
<1>1. /\ Top(ConnectionsF(m)) /\ agenda # <<>> /\ stopping[m] = "listeners"
      /\ \A c \in Conns : ~Top(CloseEventF(c))
  BY FramesDiffer DEF CloseConnections, Top, AwaitedInv
<1>2. /\ awaited' = [awaited EXCEPT ![m] = tracked]
      /\ tracked = {} => stopping' = [stopping EXCEPT ![m] = "done"]
      /\ tracked # {} => stopping' = [stopping EXCEPT ![m] = "connections"]
  BY DEF CloseConnections, GetAll
<1>3. \A k \in Stops : ~Top(ListenersF(k))' /\ ~Top(ConnectionsF(k))'
  BY <1>1, NextHeads, FrameTypes, FramesDiffer DEF CloseConnections, Events
<1>4. /\ \A c \in Conns : conn[c] = "DISCONNECTING" => conn'[c] = "DISCONNECTING"
      /\ \A c \in tracked : conn'[c] = "DISCONNECTING"
      /\ tracked \subseteq Conns
  BY DEF CloseConnections, ClosesAll, GetAll, PeerInv, PeerFollowsConnections
<1>5. /\ stopping' \in [Stops -> {"none", "listeners", "connections", "done"}]
      /\ awaited' \in [Stops -> SUBSET Conns]
  BY <1>2, <1>4 DEF AwaitedInv
<1>6. \A k \in Stops : (awaited'[k] # {}) = (stopping'[k] = "connections")
  <2>1. CASE tracked = {}
    BY <1>2, <2>1 DEF AwaitedInv
  <2>2. CASE tracked # {}
    BY <1>2, <2>2 DEF AwaitedInv
  <2> QED
    BY <2>1, <2>2
<1>7. \A k \in Stops : \A c \in awaited'[k] : conn'[c] = "DISCONNECTING"
  BY <1>1, <1>2, <1>4 DEF AwaitedInv
<1> QED
  BY <1>3, <1>5, <1>6, <1>7 DEF AwaitedInv

(* A 'close' ends the waiting for its connection. *)
LEMMA StopHears ==
  ASSUME AgendaInv, AwaitedInv, NEW c \in Conns, HearsClose(c)
  PROVE  AwaitedInv'
<1>1. /\ Top(CloseEventF(c)) /\ agenda # <<>> /\ conn' = conn
      /\ \A d \in Conns : Top(CloseEventF(d)) => d = c
  BY FramesDiffer DEF HearsClose, Top, inboundVars
<1>2. /\ awaited' = [m \in Stops |-> IF c \in awaited[m] THEN awaited[m] \ {c} ELSE awaited[m]]
      /\ stopping' = [m \in Stops |-> IF c \in awaited[m] /\ awaited[m] = {c} THEN "done"
                                       ELSE stopping[m]]
  BY DEF HearsClose, Hearing
<1>3. \A k \in Stops : ~Top(ListenersF(k))' /\ ~Top(ConnectionsF(k))'
  <2>1. \E ended \in SUBSET Stops :
          agenda' = [i \in 1 .. Cardinality(ended) |-> StateF("done")] \o Rest
    BY DEF HearsClose, Hearing
  <2>2. agenda' # <<>> => Head(agenda') = StateF("done")
    BY <1>1, <2>1, EndedStops
  <2> QED
    BY <2>2, FramesDiffer DEF Top
<1>4. /\ stopping' \in [Stops -> {"none", "listeners", "connections", "done"}]
      /\ awaited' \in [Stops -> SUBSET Conns]
  BY <1>2 DEF AwaitedInv
<1>5. \A m \in Stops : (awaited'[m] # {}) = (stopping'[m] = "connections")
  BY <1>2 DEF AwaitedInv
<1>6. \A m \in Stops : \A d \in awaited'[m] : conn'[d] = "DISCONNECTING"
  BY <1>1, <1>2 DEF AwaitedInv
<1> QED
  BY <1>3, <1>4, <1>5, <1>6 DEF AwaitedInv

(* The other steps of a turn let the stops be. *)
LEMMA OtherTurns ==
  ASSUME AgendaInv, AwaitedInv,
         \/ EntersStarting \/ EntersStarted \/ EntersStopped \/ Refuses
         \/ \E n \in Starts : Listen(n)
         \/ \E m \in Stops : CloseListeners(m)
  PROVE  AwaitedInv'
<1>1. agenda # <<>> /\ UNCHANGED <<conn, stopVars>>
  BY DEF EntersStarting, EntersStarted, EntersStopped, Refuses, Enters, Listen, CloseListeners,
         Top, inboundVars, switchVars
<1>2. \A c \in Conns : ~Top(CloseEventF(c))
  <2>1. CASE EntersStarting \/ EntersStarted \/ EntersStopped \/ Refuses
    <3>1. Head(agenda).op = "state"
      BY <2>1 DEF EntersStarting, EntersStarted, EntersStopped, Refuses, Enters
    <3>2. \A c \in Conns : CloseEventF(c).op = "emit close"
      BY DEF CloseEventF
    <3> QED
      BY <3>1, <3>2 DEF Top
  <2>2. CASE \E n \in Starts : Listen(n)
    BY <2>2, FramesDiffer DEF Listen, Top
  <2>3. CASE \E m \in Stops : CloseListeners(m)
    BY <2>3, FramesDiffer DEF CloseListeners, Top
  <2> QED
    BY <2>1, <2>2, <2>3
<1>3. \A m \in Stops : Top(ListenersF(m))' \/ Top(ConnectionsF(m))' => stopping[m] = "listeners"
  <2> USE <1>1, NextHeads, FrameTypes, FramesDiffer
  <2>1. CASE EntersStarting
    BY <2>1 DEF EntersStarting
  <2>2. CASE EntersStarted \/ EntersStopped \/ Refuses
    BY <2>2 DEF EntersStarted, EntersStopped, Refuses
  <2>3. CASE \E n \in Starts : Listen(n)
    BY <2>3 DEF Listen, Events
  <2>4. ASSUME NEW k \in Stops, CloseListeners(k)
        PROVE  \A m \in Stops : Top(ListenersF(m))' \/ Top(ConnectionsF(m))' => stopping[m] = "listeners"
    <3>1. stopping[k] = "listeners"
      BY <2>4 DEF CloseListeners, AwaitedInv
    <3>2. agenda' = Rest \/ agenda' = <<ConnectionsF(k)>> \o Rest
      BY <2>4 DEF CloseListeners
    <3> QED
      BY <3>1, <3>2
  <2> QED
    BY <2>1, <2>2, <2>3, <2>4
<1> QED
  BY <1>1, <1>2, <1>3, StopsUntouched

(* Between turns a connection that is being closed stays so until its        *)
(* 'close' is heard, and only the last listener of a stop goes on with it.   *)
LEMMA QuietStops ==
  ASSUME AgendaInv, PeerInv, AwaitedInv, Quiet, Next
  PROVE  AwaitedInv'
<1>1. \A f : ~Top(f)
  BY DEF Quiet, Top
<1>2. ASSUME UNCHANGED <<agenda, stopVars>>,
             \A c \in Conns : conn[c] = "DISCONNECTING" => conn'[c] = "DISCONNECTING"
      PROVE  AwaitedInv'
  <2>1. \A f : ~Top(f)'
    BY <1>2 DEF Quiet, Top
  <2> QED
    BY <1>1, <1>2, <2>1, StopsUntouched
<1>3. CASE Turn
  <2>1. agenda # <<>>
    BY <1>3 DEF Turn, EntersStarting, EntersStarted, EntersStopping, EntersStopped, Refuses,
       Enters, Listen, CloseListeners, CloseConnections, HearsClose, Top
  <2> QED
    BY <2>1 DEF Quiet
<1>4. CASE Start \/ Stop
  <2>1. \E ev : agenda' = <<StateF(ev)>>
    BY <1>4 DEF Start, Stop
  <2>2. \A m \in Stops : ~Top(ListenersF(m))' /\ ~Top(ConnectionsF(m))'
    BY <2>1, FirstHeads, FramesDiffer
  <2>3. UNCHANGED <<conn, stopVars>>
    BY <1>4 DEF Start, Stop, inboundVars
  <2> QED
    BY <1>1, <2>2, <2>3, StopsUntouched
<1>5. ASSUME NEW n \in Starts, NEW a \in Addrs, ListenerSettles(n, a)
      PROVE  AwaitedInv'
  <2>1. agenda' = <<>> \/ agenda' = <<ListenF(n)>> \/ agenda' = <<StateF("stop")>>
    BY <1>5 DEF ListenerSettles, ListenerOpens, ListenerFails, Quiet
  <2>2. \A m \in Stops : ~Top(ListenersF(m))' /\ ~Top(ConnectionsF(m))'
    <3>1. CASE agenda' = <<>>
      BY <3>1 DEF Top
    <3>2. CASE agenda' # <<>>
      BY <2>1, <3>2, FirstHeads, FramesDiffer
    <3> QED
      BY <3>1, <3>2
  <2>3. UNCHANGED <<conn, stopVars>>
    BY <1>5 DEF ListenerSettles, ListenerOpens, ListenerFails, inboundVars
  <2> QED
    BY <1>1, <2>2, <2>3, StopsUntouched
<1>6. ASSUME NEW m \in Stops, ListenersClosed(m)
      PROVE  AwaitedInv'
  <2>1. \A k \in Stops : Top(ListenersF(k))' \/ Top(ConnectionsF(k))' => stopping[k] = "listeners"
    BY <1>6, FirstHeads, FramesDiffer DEF ListenersClosed
  <2>2. UNCHANGED <<conn, stopVars>>
    BY <1>6 DEF ListenersClosed, inboundVars, switchVars
  <2> QED
    BY <1>1, <2>1, <2>2, StopsUntouched
<1>7. ASSUME NEW c \in Conns, Accepts(c)
      PROVE  AwaitedInv'
  BY <1>2, <1>7 DEF Accepts, Accept, switchVars
<1>8. CASE HangUp /\ UNCHANGED switchVars
  BY <1>2, <1>8 DEF HangUp, ClosesAll, switchVars
<1>9. ASSUME NEW c \in Conns, InboundStep(c), UNCHANGED switchVars
      PROVE  AwaitedInv'
  <2>1. UNCHANGED stopVars
    BY <1>9 DEF switchVars
  <2>2. CASE MuxerEnds(c)
    <3>1. agenda' = <<CloseEventF(c)>> /\ conn' = [conn EXCEPT ![c] = "DISCONNECTED"]
      BY <2>2 DEF MuxerEnds
    <3>2. /\ \A d \in Conns : conn[d] = "DISCONNECTING" =>
               conn'[d] = "DISCONNECTING" \/ Top(CloseEventF(d))'
          /\ \A m \in Stops : ~Top(ListenersF(m))' /\ ~Top(ConnectionsF(m))'
      BY <3>1, FirstHeads, FramesDiffer DEF PeerInv, StagesInv, InboundTypeOK
    <3> QED
      BY <1>1, <2>1, <3>2, StopsUntouched
  <2>3. CASE Identified(c)
    <3>1. UNCHANGED agenda /\ conn' = [conn EXCEPT ![c] = "MUXED"] /\ conn[c] = "none"
      BY <2>3 DEF Identified, PeerInv, StagesInv
    <3>2. \A d \in Conns : conn[d] = "DISCONNECTING" => conn'[d] = "DISCONNECTING"
      BY <3>1
    <3> QED
      BY <1>2, <2>1, <3>1, <3>2
  <2>4. CASE MuxerCloses(c)
    <3>1. \A d \in Conns : conn[d] = "DISCONNECTING" => conn'[d] = "DISCONNECTING"
      <4>1. conn' = conn \/ conn' = [conn EXCEPT ![c] = "DISCONNECTING"]
        BY <2>4 DEF MuxerCloses, Closed
      <4> QED
        BY <4>1 DEF PeerInv, StagesInv, InboundTypeOK
    <3> QED
      BY <1>2, <2>1, <2>4, <3>1 DEF MuxerCloses
  <2>5. CASE ~MuxerEnds(c) /\ ~Identified(c) /\ ~MuxerCloses(c)
    <3>1. UNCHANGED <<agenda, conn>>
      BY <1>9, <2>5 DEF InboundStep, Protects, Encrypts, IncomingFails, MuxerSelected,
         IdentifyResolves, IdentifyFails
    <3> QED
      BY <1>2, <2>1, <3>1
  <2> QED
    BY <2>2, <2>3, <2>4, <2>5
<1> QED
  BY <1>3, <1>4, <1>5, <1>6, <1>7, <1>8, <1>9 DEF Next

(* Nothing but a turn happens within a turn. *)
LEMMA Busy == ~Quiet /\ Next => Turn
<1>1. \A c \in Conns : InboundStep(c) => Quiet
  BY DEF InboundStep, Protects, Encrypts, IncomingFails, MuxerSelected, IdentifyResolves,
         IdentifyFails, Identified, MuxerCloses, MuxerEnds
<1>2. /\ Start \/ Stop => Quiet
      /\ \A n \in Starts, a \in Addrs : ListenerSettles(n, a) => Quiet
      /\ \A m \in Stops : ListenersClosed(m) => Quiet
      /\ \A c \in Conns : Accepts(c) => Quiet
      /\ HangUp => Quiet
  BY DEF Start, Stop, ListenerSettles, ListenerOpens, ListenerFails, ListenersClosed, Accepts, HangUp
<1> QED
  BY <1>1, <1>2 DEF Next

(* What a stop waits for is being closed, or its 'close' is heard next.     *)
THEOREM AwaitedInvariant == Spec => []AwaitedInv
<1>1. Init => AwaitedInv
  <2>1. Init => /\ stopping = [m \in Stops |-> "none"]
                /\ awaited = [m \in Stops |-> {}]
                /\ agenda = <<>>
    BY DEF Init
  <2> QED
    BY <2>1 DEF AwaitedInv, Top
<1>2. AgendaInv /\ PeerInv /\ AwaitedInv /\ [Next]_vars => AwaitedInv'
  <2> SUFFICES ASSUME AgendaInv, PeerInv, AwaitedInv, [Next]_vars PROVE AwaitedInv'
    OBVIOUS
  <2>1. CASE UNCHANGED vars
    BY <2>1 DEF AwaitedInv, Top, vars, inboundVars, switchVars, stopVars
  <2>2. CASE Quiet /\ Next
    BY <2>2, QuietStops
  <2>3. CASE Turn
    BY <2>3, StopBegins, StopWaits, StopHears, OtherTurns DEF Turn
  <2> QED
    BY <2>1, <2>2, <2>3, Busy
<1> QED
  BY <1>1, <1>2, AgendaInvariant, PeerInvariant, PTL DEF Spec

(* AwaitedAreClosing: a stop waits only for connections that are being       *)
(* closed, and none of them keeps it waiting for ever.                       *)
THEOREM AwaitedAreClosingHolds == Spec => []AwaitedAreClosing
<1>1. AwaitedInv => AwaitedAreClosing
  BY DEF AwaitedInv, AwaitedAreClosing, Quiet, Top
<1> QED
  BY <1>1, AwaitedInvariant, PTL

-----------------------------------------------------------------------------
(* What a stop closes.                                                      *)

(* A step that lets the starts be, and leaves the switch settled. *)
LEMMA StartsUntouched ==
  ASSUME ListenersInv, UNCHANGED startVars,
         \A n \in Starts : ~Top(ListenF(n))', Settled => Settled'
  PROVE  ListenersInv'
<1>1. starting' = starting /\ progress' = progress /\ listener' = listener
  BY DEF startVars
<1> QED
  BY <1>1 DEF ListenersInv, Completed

(* The state machine: what is about to be started is, and what stops closes  *)
(* its listeners next.                                                       *)
LEMMA TurnSettles ==
  ASSUME AgendaInv, ServicesInv, ListenersInv,
         EntersStarted \/ EntersStopping \/ EntersStopped \/ Refuses
  PROVE  ListenersInv'
<1>1. agenda # <<>> /\ Head(agenda).op = "state" /\ UNCHANGED startVars
  BY DEF EntersStarted, EntersStopping, EntersStopped, Refuses, Enters, switchVars
<1>2. \A m \in Stops : ListenersF(m).op = "close listeners"
  BY DEF ListenersF
<1>3. \A m \in Stops : ~Top(ListenersF(m))
  BY <1>1, <1>2 DEF Top
<1> USE <1>1, NextHeads, FrameTypes, FramesDiffer
<1>4. CASE EntersStarted
  <2>1. state' = "STARTED" /\ agenda' = Rest
    BY <1>4 DEF EntersStarted, Enters
  <2> QED
    BY <2>1, StartsUntouched DEF Settled
<1>5. CASE EntersStopping
  <2>1. PICK m \in Stops : agenda' = <<ListenersF(m)>> \o Rest
    BY <1>5 DEF EntersStopping
  <2>2. Top(ListenersF(m))' /\ \A g : Top(g)' => g = ListenersF(m)
    BY <2>1
  <2> QED
    BY <2>2, StartsUntouched DEF Settled
<1>6. CASE EntersStopped
  <2>1. ~Settled /\ agenda' = Rest
    BY <1>3, <1>6, Entries DEF EntersStopped, ServicesInv, Settled
  <2> QED
    BY <2>1, StartsUntouched
<1>7. CASE Refuses
  <2>1. Settled => state = "STARTED"
    BY <1>3, <1>7, Entries DEF ServicesInv, Settled
  <2>2. state' = state /\ agenda' = Rest
    BY <1>7 DEF Refuses, switchVars
  <2> QED
    BY <2>1, <2>2, StartsUntouched DEF Settled
<1> QED
  BY <1>4, <1>5, <1>6, <1>7

(* A switch that begins to start has no completed start to undo. *)
LEMMA StartBegins ==
  ASSUME AgendaInv, ServicesInv, ListenersInv, EntersStarting
  PROVE  ListenersInv'
<1>1. agenda # <<>> /\ Head(agenda).op = "state" /\ state = "STOPPED"
  BY Entries DEF EntersStarting, Enters, ServicesInv
<1>2. \A m \in Stops : ListenersF(m).op = "close listeners"
  BY DEF ListenersF
<1>3. ~Settled
  BY <1>1, <1>2 DEF Settled, Top
<1>4. PICK n \in Starts : /\ starting[n] = "none"
                          /\ starting' = [starting EXCEPT ![n] = "running"]
                          /\ agenda' = <<ListenF(n)>> \o Rest
  BY DEF EntersStarting, IsNext
<1>5. progress' = progress /\ listener' = listener
  BY DEF EntersStarting
<1>6. \A k \in Starts : Top(ListenF(k))' => k = n
  <2>1. \A g : Top(g)' => g = ListenF(n)
    BY <1>1, <1>4, NextHeads, FrameTypes
  <2> QED
    BY <2>1, FramesDiffer
<1>7. /\ starting' \in [Starts -> {"none", "running", "failed"} \cup DOMAIN Table]
      /\ starting'[n] = "running"
      /\ \A k \in Starts : k # n => starting'[k] = starting[k]
  BY <1>4 DEF ListenersInv
<1>8. ASSUME NEW k \in Starts, NEW a \in Addrs
      PROVE  /\ starting'[k] = "running" /\ listener[k, a] = "opening" =>
                  progress[k] > 0 /\ a \in Listening[progress[k]]
             /\ starting'[k] = "none" \/ Completed(k)' \/ Top(ListenF(k))' =>
                  listener[k, a] # "opening"
             /\ ~(Completed(k)' /\ listener[k, a] = "open")
  BY <1>3, <1>4, <1>6, <1>7 DEF ListenersInv, Completed
<1> QED
  BY <1>5, <1>6, <1>7, <1>8 DEF ListenersInv

(* A start goes on with its next transport, or completes. *)
LEMMA StartGoesOn ==
  ASSUME AgendaInv, ServicesInv, ListenersInv, NEW n \in Starts, Listen(n)
  PROVE  ListenersInv'
<1>1. /\ Top(ListenF(n)) /\ agenda # <<>> /\ starting[n] = "running" /\ state' = state
      /\ \A a \in Addrs : listener[n, a] # "opening"
      /\ Settled => state = "STARTED"
  BY FramesDiffer DEF Listen, ListenersInv, Settled, Top
<1>2. CASE /\ progress[n] < Len(Listening)
           /\ progress' = [progress EXCEPT ![n] = @ + 1]
           /\ Begins(n, progress'[n])
           /\ agenda' = Rest
           /\ UNCHANGED starting
  <2>1. \A k \in Starts : ~Top(ListenF(k))'
    BY <1>1, <1>2, NextHeads, FramesDiffer
  <2>2. /\ progress' \in [Starts -> 0 .. Len(Listening)]
        /\ progress'[n] > 0
        /\ \A k \in Starts : k # n => progress'[k] = progress[k]
    <3>0. Len(Listening) \in Nat
      BY SwitchAssumption
    <3>1. progress[n] \in Nat /\ progress \in [Starts -> 0 .. Len(Listening)]
      <4>1. progress \in [Starts -> 0 .. Len(Listening)]
        BY DEF ListenersInv
      <4> QED
        BY <3>0, <4>1
    <3>2. progress[n] + 1 \in 0 .. Len(Listening) /\ progress[n] + 1 > 0
      BY <1>2, <3>0, <3>1
    <3> QED
      BY <1>2, <3>1, <3>2
  <2>3. /\ listener' \in [Starts \X Addrs -> {"none", "opening", "open", "closed", "failed"}]
        /\ \A a \in Addrs : listener'[n, a] = "opening" => a \in Listening[progress'[n]]
        /\ \A k \in Starts, a \in Addrs : k # n => listener'[k, a] = listener[k, a]
    BY <1>1, <1>2 DEF ListenersInv, Begins
  <2>4. Settled => Settled'
    BY <1>1 DEF Settled
  <2>5. ASSUME NEW k \in Starts, NEW a \in Addrs
        PROVE  /\ starting[k] = "running" /\ listener'[k, a] = "opening" =>
                    progress'[k] > 0 /\ a \in Listening[progress'[k]]
               /\ starting[k] = "none" \/ Completed(k) => listener'[k, a] # "opening"
               /\ Completed(k) /\ listener'[k, a] = "open" => Settled'
    BY <1>1, <2>2, <2>3, <2>4 DEF ListenersInv, Completed
  <2> QED
    BY <1>2, <2>1, <2>2, <2>3, <2>5 DEF ListenersInv, Completed
<1>3. CASE /\ progress[n] = Len(Listening)
           /\ starting' = [starting EXCEPT ![n] = state]
           /\ agenda' = <<StateF("done")>> \o Rest
           /\ UNCHANGED <<progress, listener>>
  <2>1. Top(StateF("done"))' /\ \A k \in Starts : ~Top(ListenF(k))'
    BY <1>1, <1>3, NextHeads, FrameTypes, FramesDiffer DEF Events
  <2>2. /\ starting' \in [Starts -> {"none", "running", "failed"} \cup DOMAIN Table]
        /\ starting'[n] = state /\ state \in DOMAIN Table
        /\ \A k \in Starts : k # n => starting'[k] = starting[k]
    BY <1>3 DEF ListenersInv, ServicesInv
  <2>3. DOMAIN Table = {"STOPPED", "STARTING", "STARTED", "STOPPING"}
    BY DEF Table
  <2>4. (Settled => Settled') /\ (state \in {"STARTING", "STARTED"} => Settled')
    BY <1>1, <2>1 DEF Settled
  <2>5. ASSUME NEW k \in Starts, NEW a \in Addrs
        PROVE  /\ starting'[k] = "running" /\ listener[k, a] = "opening" =>
                    progress[k] > 0 /\ a \in Listening[progress[k]]
               /\ starting'[k] = "none" \/ Completed(k)' => listener[k, a] # "opening"
               /\ Completed(k)' /\ listener[k, a] = "open" => Settled'
    BY <1>1, <2>2, <2>3, <2>4 DEF ListenersInv, Completed
  <2> QED
    BY <1>3, <2>1, <2>2, <2>5 DEF ListenersInv
<1> QED
  BY <1>2, <1>3 DEF Listen

(* A stop closes whatever is open. *)
LEMMA StopCloses ==
  ASSUME AgendaInv, ListenersInv, NEW m \in Stops, CloseListeners(m)
  PROVE  ListenersInv'
<1>1. agenda # <<>> /\ UNCHANGED <<starting, progress>>
  BY DEF CloseListeners, Top
<1>2. \A n \in Starts : ~Top(ListenF(n))'
  <2>1. agenda' = Rest \/ agenda' = <<ConnectionsF(m)>> \o Rest
    BY DEF CloseListeners
  <2> QED
    BY <1>1, <2>1, NextHeads, FrameTypes, FramesDiffer
<1>3. /\ listener' \in [Starts \X Addrs -> {"none", "opening", "open", "closed", "failed"}]
      /\ \A n \in Starts, a \in Addrs : /\ listener'[n, a] # "open"
                                        /\ listener'[n, a] = "opening" => listener[n, a] = "opening"
  BY DEF CloseListeners, ClosesListeners, ListenersInv
<1> QED
  BY <1>1, <1>2, <1>3 DEF ListenersInv, Completed

(* Listeners that open or fail are of starts that did not complete, and the  *)
(* last of a transport to open has its start go on.                          *)
LEMMA ListenersSettle ==
  ASSUME ListenersInv, NEW n \in Starts, NEW a \in Addrs, ListenerSettles(n, a)
  PROVE  ListenersInv'
<1>1. /\ Quiet /\ listener[n, a] = "opening" /\ UNCHANGED <<state, progress>>
      /\ starting[n] # "none" /\ ~Completed(n)
      /\ \A f : ~Top(f)
  BY DEF ListenerSettles, ListenerOpens, ListenerFails, ListenersInv, Quiet, Top
<1>2. Settled => Settled'
  BY <1>1 DEF Settled
<1>3. PICK s \in {"open", "failed"} : listener' = [listener EXCEPT ![<<n, a>>] = s]
  BY DEF ListenerSettles, ListenerOpens, ListenerFails
<1>4. /\ listener' \in [Starts \X Addrs -> {"none", "opening", "open", "closed", "failed"}]
      /\ listener'[n, a] = s
      /\ \A k \in Starts, b \in Addrs : k # n \/ b # a => listener'[k, b] = listener[k, b]
  BY <1>3 DEF ListenersInv
<1>5. CASE ListenerOpens(n, a)
  <2>1. UNCHANGED starting
    BY <1>5 DEF ListenerOpens
  <2>2. CASE starting[n] = "running" /\ \A b \in Listening[progress[n]] \ {a} :
                                            listener[n, b] \in {"open", "closed"}
    <3>1. agenda' = <<ListenF(n)>>
      BY <1>5, <2>2 DEF ListenerOpens
    <3>2. \A k \in Starts : Top(ListenF(k))' => k = n
      BY <3>1, FirstHeads, FramesDiffer
    <3>3. \A b \in Addrs : listener'[n, b] # "opening"
      BY <1>4, <2>2 DEF ListenersInv
    <3>4. ASSUME NEW k \in Starts, NEW b \in Addrs
          PROVE  /\ starting[k] = "running" /\ listener'[k, b] = "opening" =>
                      progress[k] > 0 /\ b \in Listening[progress[k]]
                 /\ starting[k] = "none" \/ Completed(k) \/ Top(ListenF(k))' =>
                      listener'[k, b] # "opening"
                 /\ Completed(k) /\ listener'[k, b] = "open" => Settled'
      BY <1>1, <1>2, <1>4, <3>2, <3>3 DEF ListenersInv, Completed
    <3> QED
      BY <1>1, <1>4, <2>1, <2>2, <3>2, <3>4 DEF ListenersInv, Completed
  <2>3. CASE ~(starting[n] = "running" /\ \A b \in Listening[progress[n]] \ {a} :
                                            listener[n, b] \in {"open", "closed"})
    <3>1. agenda' = <<>>
      BY <1>5, <2>3 DEF ListenerOpens
    <3>2. \A f : ~Top(f)'
      BY <3>1 DEF Top
    <3>3. ASSUME NEW k \in Starts, NEW b \in Addrs
          PROVE  /\ listener'[k, b] = "opening" => listener[k, b] = "opening"
                 /\ Completed(k) => listener'[k, b] = listener[k, b]
      BY <1>1, <1>4
    <3>4. \A k \in Starts : Completed(k)' <=> Completed(k)
      BY <2>1, <1>1 DEF Completed
    <3>5. ASSUME NEW k \in Starts, NEW b \in Addrs
          PROVE  /\ starting'[k] = "running" /\ listener'[k, b] = "opening" =>
                      progress[k] > 0 /\ b \in Listening[progress[k]]
                 /\ starting'[k] = "none" \/ Completed(k)' => listener'[k, b] # "opening"
                 /\ Completed(k)' /\ listener'[k, b] = "open" => Settled'
      BY <1>2, <2>1, <3>3, <3>4 DEF ListenersInv
    <3> QED
      BY <1>1, <1>4, <2>1, <3>2, <3>5 DEF ListenersInv
  <2> QED
    BY <2>2, <2>3
<1>6. CASE ListenerFails(n, a)
  <2>1. \A k \in Starts : ~Top(ListenF(k))'
    <3>1. agenda' = agenda \/ agenda' = <<StateF("stop")>>
      BY <1>6 DEF ListenerFails
    <3>2. CASE agenda' = agenda
      BY <1>1, <3>2 DEF Top
    <3>3. CASE agenda' = <<StateF("stop")>>
      BY <3>3, FirstHeads, FramesDiffer
    <3> QED
      BY <3>1, <3>2, <3>3
  <2>2. starting' = starting \/ starting' = [starting EXCEPT ![n] = "failed"]
    BY <1>6 DEF ListenerFails
  <2>3. starting' \in [Starts -> {"none", "running", "failed"} \cup DOMAIN Table]
        /\ \A k \in Starts : starting'[k] = starting[k] \/ (k = n /\ starting'[k] = "failed")
    BY <2>2 DEF ListenersInv
  <2>4. ASSUME NEW k \in Starts, NEW b \in Addrs
        PROVE  /\ starting'[k] = "running" /\ listener'[k, b] = "opening" =>
                    progress[k] > 0 /\ b \in Listening[progress[k]]
               /\ starting'[k] = "none" \/ Completed(k)' => listener'[k, b] # "opening"
               /\ Completed(k)' /\ listener'[k, b] = "open" => Settled'
    <3>1. /\ listener'[k, b] = "opening" => listener[k, b] = "opening"
          /\ Completed(k) => listener'[k, b] = listener[k, b]
      BY <1>1, <1>4
    <3>2. /\ starting'[k] = "running" => starting[k] = "running"
          /\ starting'[k] = "none" => starting[k] = "none"
          /\ Completed(k)' => Completed(k)
      BY <2>3 DEF Completed
    <3> QED
      BY <1>2, <3>1, <3>2 DEF ListenersInv
  <2> QED
    BY <1>1, <1>4, <2>1, <2>3, <2>4 DEF ListenersInv
<1> QED
  BY <1>5, <1>6 DEF ListenerSettles

(* The other steps let the starts be and leave the switch settled. *)
LEMMA OtherSteps ==
  ASSUME AgendaInv, ListenersInv,
         \/ \E m \in Stops : CloseConnections(m) \/ ListenersClosed(m)
         \/ \E c \in Conns : HearsClose(c) \/ Accepts(c)
         \/ Start \/ Stop
         \/ (HangUp \/ \E c \in Conns : InboundStep(c)) /\ UNCHANGED switchVars
  PROVE  ListenersInv'
<1>1. UNCHANGED <<state, startVars>>
  BY DEF CloseConnections, ListenersClosed, HearsClose, Accepts, Start, Stop, switchVars
<1>2. ASSUME NEW m \in Stops, CloseConnections(m)
      PROVE  ListenersInv'
  <2>1. agenda # <<>> /\ (Settled => state = "STARTED")
    BY <1>2, FramesDiffer DEF CloseConnections, Settled, Top
  <2>2. agenda' = Rest \/ agenda' = <<StateF("done")>> \o Rest
    BY <1>2 DEF CloseConnections
  <2>3. \A n \in Starts : ~Top(ListenF(n))'
    BY <2>1, <2>2, NextHeads, FrameTypes, FramesDiffer DEF Events
  <2> QED
    BY <1>1, <2>1, <2>3, StartsUntouched DEF Settled
<1>3. ASSUME NEW c \in Conns, HearsClose(c)
      PROVE  ListenersInv'
  <2>1. agenda # <<>> /\ (Settled => state = "STARTED")
    BY <1>3, FramesDiffer DEF HearsClose, Settled, Top
  <2>2. \E ended \in SUBSET Stops :
          agenda' = [i \in 1 .. Cardinality(ended) |-> StateF("done")] \o Rest
    BY <1>3 DEF HearsClose, Hearing
  <2>3. agenda' # <<>> => Head(agenda') = StateF("done")
    BY <2>1, <2>2, EndedStops
  <2>4. \A n \in Starts : ~Top(ListenF(n))'
    BY <2>3, FramesDiffer DEF Top
  <2> QED
    BY <1>1, <2>1, <2>4, StartsUntouched DEF Settled
<1>4. CASE Quiet
  <2>1. Settled => state = "STARTED"
    BY <1>4 DEF Settled, Quiet, Top
  <2>2. Settled => Settled'
    BY <1>1, <2>1 DEF Settled
  <2>3. ASSUME agenda' # <<>>
        PROVE  \/ \E ev : agenda' = <<StateF(ev)>>
               \/ \E c \in Conns : agenda' = <<CloseEventF(c)>>
               \/ \E m \in Stops : agenda' = <<ConnectionsF(m)>>
    <3>1. Start \/ Stop => \E ev : agenda' = <<StateF(ev)>>
      BY DEF Start, Stop
    <3>2. \A m \in Stops : ListenersClosed(m) => agenda' = <<ConnectionsF(m)>>
      BY DEF ListenersClosed
    <3>3. HangUp \/ (\E c \in Conns : Accepts(c)) => agenda' = <<>>
      BY <1>4 DEF Accepts, Accept, HangUp, Quiet
    <3>4. \A c \in Conns : InboundStep(c) => agenda' = <<>> \/ agenda' = <<CloseEventF(c)>>
      BY <1>4 DEF InboundStep, Protects, Encrypts, IncomingFails, MuxerSelected,
         IdentifyResolves, IdentifyFails, Identified, MuxerCloses, MuxerEnds, Quiet
    <3> QED
      BY <1>2, <1>3, <1>4, <2>3, <3>1, <3>2, <3>3, <3>4 DEF CloseConnections, HearsClose, Top, Quiet
  <2>4. \A n \in Starts : ~Top(ListenF(n))'
    <3>1. CASE agenda' = <<>>
      BY <3>1 DEF Top
    <3>2. CASE agenda' # <<>>
      BY <2>3, <3>2, FirstHeads, FramesDiffer
    <3> QED
      BY <3>1, <3>2
  <2> QED
    BY <1>1, <2>2, <2>4, StartsUntouched
<1>5. CASE ~Quiet
  <2>1. ~Start /\ ~Stop /\ ~HangUp
        /\ (\A c \in Conns : ~Accepts(c) /\ ~InboundStep(c))
        /\ (\A m \in Stops : ~ListenersClosed(m))
    BY <1>5 DEF Start, Stop, HangUp, Accepts, ListenersClosed, InboundStep, Protects, Encrypts,
       IncomingFails, MuxerSelected, IdentifyResolves, IdentifyFails, Identified, MuxerCloses,
       MuxerEnds
  <2> QED
    BY <1>2, <1>3, <2>1
<1> QED
  BY <1>4, <1>5

(* The listeners follow the starts they are of, and an open one of a        *)
(* completed start belongs to a settled switch.                             *)
THEOREM ListenersInvariant == Spec => []ListenersInv
<1>1. Init => ListenersInv
  <2>1. Init => /\ starting = [n \in Starts |-> "none"]
                /\ progress = [n \in Starts |-> 0]
                /\ listener = [i \in Starts \X Addrs |-> "none"]
                /\ agenda = <<>>
    BY DEF Init
  <2>2. Len(Listening) \in Nat
    BY SwitchAssumption
  <2>3. Init => \A n \in Starts, a \in Addrs : listener[n, a] = "none"
    BY <2>1
  <2>4. Init => /\ starting \in [Starts -> {"none", "running", "failed"} \cup DOMAIN Table]
                /\ listener \in [Starts \X Addrs -> {"none", "opening", "open", "closed", "failed"}]
                /\ progress \in [Starts -> 0 .. Len(Listening)]
    BY <2>1, <2>2
  <2> QED
    BY <2>1, <2>3, <2>4 DEF ListenersInv, Completed, Top
<1>2. AgendaInv /\ ServicesInv /\ ListenersInv /\ [Next]_vars => ListenersInv'
  <2> SUFFICES ASSUME AgendaInv, ServicesInv, ListenersInv, [Next]_vars PROVE ListenersInv'
    OBVIOUS
  <2>1. CASE UNCHANGED vars
    <3>1. UNCHANGED <<state, agenda, startVars>>
      BY <2>1 DEF vars, switchVars
    <3>2. \A f : Top(f)' = Top(f)
      BY <3>1 DEF Top
    <3> QED
      BY <3>1, <3>2 DEF ListenersInv, Completed, Settled, startVars
  <2>2. CASE Turn
    BY <2>2, StartBegins, TurnSettles, StartGoesOn, StopCloses, OtherSteps DEF Turn
  <2>3. CASE Next /\ ~Turn
    BY <2>3, ListenersSettle, OtherSteps DEF Next
  <2> QED
    BY <2>1, <2>2, <2>3
<1> QED
  BY <1>1, <1>2, AgendaInvariant, ServicesInvariant, PTL DEF Spec

(* StopUndoesStarts: once the switch is stopped, no listener of a start that *)
(* completed before the stop is open.                                        *)
THEOREM StopUndoesStartsHolds == Spec => []StopUndoesStarts
<1>1. ListenersInv => StopUndoesStarts
  BY DEF ListenersInv, StopUndoesStarts, Completed, Settled, Quiet, Top
<1> QED
  BY <1>1, ListenersInvariant, PTL

-----------------------------------------------------------------------------
(* Types.                                                                   *)

(* The calls are counted up to their bounds. *)
CallsInv ==
  /\ starts \in 0 .. MaxStarts /\ stops \in 0 .. MaxStops
  /\ startWaits \in BOOLEAN /\ stopWaits \in BOOLEAN

(* No call goes beyond the bounds. *)
LEMMA CallsInvariant == Spec => []CallsInv
<1>1. Init => CallsInv
  <2>1. Init => starts = 0 /\ stops = 0 /\ startWaits = FALSE /\ stopWaits = FALSE
    BY DEF Init
  <2>2. MaxStarts \in Nat /\ MaxStops \in Nat
    BY SwitchAssumption
  <2>3. 0 \in 0 .. MaxStarts /\ 0 \in 0 .. MaxStops
    BY <2>2
  <2> QED
    BY <2>1, <2>3 DEF CallsInv
<1>2. CallsInv /\ [Next]_vars => CallsInv'
  <2> SUFFICES ASSUME CallsInv, [Next]_vars PROVE CallsInv'
    OBVIOUS
  <2>0. MaxStarts \in Nat /\ MaxStops \in Nat
    BY SwitchAssumption
  <2> USE DEF CallsInv, callVars, waitVars
  <2>1. CASE Start \/ Stop
    <3>1. starts' \in 0 .. MaxStarts /\ stops' \in 0 .. MaxStops
      BY <2>0, <2>1 DEF Start, Stop
    <3>2. startWaits' \in BOOLEAN /\ stopWaits' \in BOOLEAN
      BY <2>1 DEF Start, Stop
    <3> QED
      BY <3>1, <3>2
  <2>2. CASE EntersStarted \/ EntersStopped
    BY <2>2 DEF EntersStarted, EntersStopped
  <2>3. CASE EntersStarting \/ EntersStopping
    BY <2>3 DEF EntersStarting, EntersStopping
  <2>4. CASE UNCHANGED switchVars
    BY <2>4 DEF switchVars
  <2>5. ASSUME NEW n \in Starts, Listen(n) \/ \E a \in Addrs : ListenerSettles(n, a)
        PROVE  CallsInv'
    BY <2>5 DEF Listen, ListenerSettles, ListenerOpens, ListenerFails
  <2>6. ASSUME NEW m \in Stops, CloseListeners(m) \/ CloseConnections(m)
        PROVE  CallsInv'
    BY <2>6 DEF CloseListeners, CloseConnections
  <2>7. ASSUME NEW c \in Conns, HearsClose(c)
        PROVE  CallsInv'
    BY <2>7 DEF HearsClose
  <2>8. CASE UNCHANGED vars
    BY <2>4, <2>8 DEF vars
  <2> QED
    BY <2>1, <2>2, <2>3, <2>4, <2>5, <2>6, <2>7, <2>8
       DEF Next, Turn, Refuses, ListenersClosed, Accepts
<1> QED
  BY <1>1, <1>2, PTL DEF Spec

(* TypeOK: the variables of the switch and of its connections keep their     *)
(* types, and a turn is made of the functions of the code.                   *)
THEOREM TypeCorrect == Spec => []TypeOK
<1>1. AgendaInv /\ ServicesInv /\ PeerInv /\ AwaitedInv /\ ListenersInv /\ CallsInv => TypeOK
  <2> SUFFICES ASSUME AgendaInv, ServicesInv, PeerInv, AwaitedInv, ListenersInv, CallsInv
               PROVE  TypeOK
    OBVIOUS
  <2>1. InboundTypeOK /\ state \in DOMAIN Table /\ observing \in Nat /\ dialing \in BOOLEAN
    BY DEF PeerInv, StagesInv, ServicesInv
  <2>2. \A i \in DOMAIN agenda : agenda[i] \in Frames
    BY DEF AgendaInv
  <2> QED
    BY <2>1, <2>2 DEF AwaitedInv, ListenersInv, CallsInv, Frames, TypeOK
<1> QED
  BY <1>1, AgendaInvariant, ServicesInvariant, PeerInvariant, AwaitedInvariant,
     ListenersInvariant, CallsInvariant, PTL
=============================================================================
