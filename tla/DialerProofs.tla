---------------------------- MODULE DialerProofs ----------------------------
(***************************************************************************)
(* Proofs about the dialer, for any number of peers, requests and slots:   *)
(* types, the limit on parallel dials, that no slot leaks, the bound on    *)
(* cold calls, and that a dropped queue has nothing left to do.            *)
(***************************************************************************)
EXTENDS Dialer, SequenceTheorems, FiniteSetTheorems, TLAPS

-----------------------------------------------------------------------------
(* Sequences and frames.                                                    *)

(* A frame put in front of a turn, or a piece of a turn in front of another, *)
(* is a turn; so is what is left of one.                                     *)
LEMMA Pushing ==
  ASSUME NEW S, NEW s \in Seq(S)
  PROVE  /\ \A a \in S : <<a>> \o s \in Seq(S)
         /\ \A a, b \in S : <<a, b>> \o s \in Seq(S)
         /\ \A a, b, c \in S : <<a, b, c>> \o s \in Seq(S)
         /\ \A a \in S : Append(s, a) \in Seq(S)
         /\ \A t \in Seq(S) : t \o s \in Seq(S)
         /\ s # <<>> => Tail(s) \in Seq(S) /\ Head(s) \in S
  OBVIOUS

(* A turn of a few frames. *)
LEMMA ShortTurns ==
  ASSUME NEW S
  PROVE  /\ <<>> \in Seq(S)
         /\ \A a \in S : <<a>> \in Seq(S)
         /\ \A a, b \in S : <<a, b>> \in Seq(S)
         /\ \A a, b, c \in S : <<a, b, c>> \in Seq(S)
  OBVIOUS

(* The functions a turn may have to run are frames. *)
LEMMA FrameTypes ==
  /\ RunF \in Frames
  /\ \A b \in BOOLEAN : UserF(b) \in Frames
  /\ \A p \in Peers : QueueRunF(p) \in Frames /\ AbortF(p) \in Frames /\ DeleteF(p) \in Frames
  /\ \A r \in Requests, a \in Answers : CallbackF(r, a) \in Frames
  /\ \A r \in Requests : OnErrorF(r) \in Frames
  /\ \A r \in Requests, b \in BOOLEAN : DisconnectF(r, b) \in Frames
  /\ \A R \in SUBSET Requests : CloseAllF(R) \in Frames
  /\ \A P \in SUBSET Peers : StopF(P) \in Frames /\ CleanF(P) \in Frames
  BY DEF Frames

(* A JavaScript Set of elements of S stays one. *)
LEMMA SetTypes ==
  ASSUME NEW S, NEW s \in Seq(S), NEW x \in S
  PROVE  SetAdd(s, x) \in Seq(S) /\ SetDelete(s, x) \in Seq(S)
<1>1. SetAdd(s, x) \in Seq(S)
  BY DEF SetAdd
<1>2. CASE x \notin Elems(s)
  BY <1>1, <1>2 DEF SetDelete
<1>3. CASE x \in Elems(s)
  <2>1. PICK j \in DOMAIN s : s[j] = x
    BY <1>3 DEF Elems
  <2>2. Len(s) \in Nat /\ Len(s) - 1 \in Nat /\ DOMAIN s = 1 .. Len(s)
    BY <2>1
  <2>3. \A k : [i \in 1 .. Len(s) - 1 |-> IF i < k THEN s[i] ELSE s[i + 1]] \in Seq(S)
    BY <2>2
  <2> QED
    BY <1>1, <1>3, <2>3 DEF SetDelete
<1> QED
  BY <1>2, <1>3

-----------------------------------------------------------------------------
(* No slot leaks.                                                           *)

(* The peers that hold a slot: finitely many, all of them running, and no    *)
(* more than there are slots.                                                *)
SlotInv == IsFiniteSet(dialing) /\ SlotsAreHeld /\ DialLimit

(* Queue.stop gives the slot back with the queue. *)
LEMMA StopKeepsSlots ==
  ASSUME SlotInv, NEW p, NEW rest, QueueStop(p, rest)
  PROVE  SlotInv'
<1>1. CASE p \in running
  <2>1. dialing' = dialing \ {p} /\ running' = running \ {p}
    BY <1>1 DEF QueueStop
  <2>2. IsFiniteSet(dialing') /\ Cardinality(dialing') <= Cardinality(dialing)
    BY <2>1, FS_RemoveElement, FS_CardinalityType DEF SlotInv
  <2> QED
    BY <2>1, <2>2, FS_CardinalityType, DialerAssumption DEF SlotInv, SlotsAreHeld, DialLimit
<1>2. CASE p \notin running
  BY <1>2 DEF QueueStop, SlotInv, SlotsAreHeld, DialLimit
<1> QED
  BY <1>1, <1>2

(* Queue.start only adds to the running queues. *)
LEMMA StartKeepsSlots ==
  ASSUME SlotInv, NEW p, NEW rest, QueueStart(p, rest), UNCHANGED dialing
  PROVE  SlotInv'
  BY DEF QueueStart, SlotInv, SlotsAreHeld, DialLimit

(* The manager starts the queue it gives a free slot to. *)
LEMMA RunKeepsSlots ==
  ASSUME SlotInv, Run
  PROVE  SlotInv'
<1>1. CASE UNCHANGED <<dialing, running>>
  BY <1>1 DEF SlotInv, SlotsAreHeld, DialLimit
<1>2. CASE ~UNCHANGED <<dialing, running>>
  <2>1. SlotFree /\ dialing' = dialing \cup {NextWaiting} /\ running' = running \cup {NextWaiting}
    BY <1>2 DEF Run, QueueStart
  <2>2. IsFiniteSet(dialing') /\ Cardinality(dialing') <= Cardinality(dialing) + 1
    BY <2>1, FS_AddElement, FS_CardinalityType DEF SlotInv
  <2> QED
    BY <2>1, <2>2, FS_CardinalityType, DialerAssumption
       DEF SlotInv, SlotsAreHeld, DialLimit, SlotFree
<1> QED
  BY <1>1, <1>2

(* A dial may start the queue of a connected peer. *)
LEMMA DialKeepsSlots ==
  ASSUME SlotInv, NEW r \in Requests, DialRefused(r) \/ DialDenied(r) \/ DialQueued(r)
  PROVE  SlotInv'
<1>1. UNCHANGED dialing
  BY DEF DialRefused, DialDenied, DialQueued
<1>2. UNCHANGED running \/ \E p, rest : QueueStart(p, rest)
  BY DEF DialRefused, DialDenied, DialQueued, queueVars
<1> QED
  BY <1>1, <1>2, StartKeepsSlots DEF SlotInv, SlotsAreHeld, DialLimit

(* A step that touches neither the slots nor the running queues. *)
NoSlot == UNCHANGED <<dialing, running>>

(* A step of a turn runs the manager, stops a queue, or leaves the slots.    *)
LEMMA TurnSlots == TurnStep => Run \/ NoSlot \/ \E p, rest : QueueStop(p, rest)
<1>1. \A p : PeerStep(p) => NoSlot \/ \E rest : QueueStop(p, rest)
  BY DEF PeerStep, QueueRunStops, QueueRunReuses, QueueRunCreates, AbortNext, AbortEnds,
         Delete, mgrVars, NoSlot
<1>2. \A r : RequestStep(r) => NoSlot
  BY DEF RequestStep, OnError, DisconnectMuxed, DisconnectNow, mgrVars, queueVars, NoSlot
<1>3. Callback \/ CloseAll \/ StopNext \/ CleanNext \/ UserReturn => NoSlot
  BY DEF Callback, CloseAll, StopNext, CleanNext, UserReturn, mgrVars, queueVars, NoSlot
<1> QED
  BY <1>1, <1>2, <1>3 DEF TurnStep

(* No callback, timer or restart takes a slot or starts a queue by itself.   *)
LEMMA EnvSlots == EnvStep => NoSlot
<1>1. \A r : AttemptStep(r) => NoSlot
  BY DEF AttemptStep, TransportConnects, AttemptFails, Muxes, Unmuxes, mgrVars, queueVars,
         NoSlot
<1>2. \A r : ShakeEnds(r) \/ Identified(r) \/ IdentifyFails(r) \/ MuxerCloses(r)
               \/ MuxerEnds(r) \/ LateConnect(r) => NoSlot
  BY DEF ShakeEnds, Identified, IdentifyFails, MuxerCloses, MuxerEnds, LateConnect,
         mgrVars, queueVars, NoSlot
<1>3. \A p : InboundMuxes(p) \/ InboundCloses(p) \/ InboundEnds(p) \/ DenyExpires(p) => NoSlot
  BY DEF InboundMuxes, InboundCloses, InboundEnds, DenyExpires, mgrVars, queueVars, NoSlot
<1>4. Clean \/ ManagerStop \/ CloseConnections \/ ManagerStart => NoSlot
  BY DEF Clean, ManagerStop, CloseConnections, ManagerStart, mgrVars, queueVars, NoSlot
<1> QED
  BY <1>1, <1>2, <1>3, <1>4 DEF EnvStep

(* User code reaches the slots only through the three ways to dial.          *)
LEMMA UserSlots ==
  UserStep => NoSlot \/ \E r \in Requests : DialRefused(r) \/ DialDenied(r) \/ DialQueued(r)
  BY DEF UserStep, UserTurn, UserCloses, HangUp, ClearDenylist, mgrVars, queueVars, NoSlot

(* At every step of every turn the peers that hold a slot are running and no *)
(* more than the limit: run() takes a slot for a queue it starts, stop()     *)
(* gives it back, a dial to a connected peer starts a queue without one.     *)
THEOREM SlotsInvariant == Spec => []SlotInv
<1>1. Init => SlotInv
  BY FS_EmptySet, DialerAssumption DEF Init, SlotInv, SlotsAreHeld, DialLimit
<1>2. SlotInv /\ [Next]_vars => SlotInv'
  <2> SUFFICES ASSUME SlotInv, [Next]_vars PROVE SlotInv'
    OBVIOUS
  <2>1. CASE NoSlot
    BY <2>1 DEF NoSlot, SlotInv, SlotsAreHeld, DialLimit
  <2>2. CASE TurnStep
    BY <2>1, <2>2, TurnSlots, RunKeepsSlots, StopKeepsSlots
  <2>3. CASE UserStep
    BY <2>1, <2>3, UserSlots, DialKeepsSlots
  <2>4. CASE EnvStep
    BY <2>1, <2>4, EnvSlots
  <2>5. CASE UNCHANGED vars
    BY <2>1, <2>5 DEF vars, mgrVars, queueVars, NoSlot
  <2> QED
    BY <2>2, <2>3, <2>4, <2>5 DEF Next
<1> QED
  BY <1>1, <1>2, PTL DEF Spec

(* No more than MAX_PARALLEL_DIALS queues ever hold a dialing slot. *)
THEOREM DialLimitHolds == Spec => []DialLimit
<1>1. SlotInv => DialLimit
  BY DEF SlotInv
<1> QED
  BY <1>1, SlotsInvariant, PTL

(* A slot is only held by a running queue, so that its stop frees it. *)
THEOREM SlotsAreHeldHolds == Spec => []SlotsAreHeld
<1>1. SlotInv => SlotsAreHeld
  BY DEF SlotInv
<1> QED
  BY <1>1, SlotsInvariant, PTL

-----------------------------------------------------------------------------
(* Types.                                                                   *)

(* The requests whose arguments are known. *)
Issued == {r \in Requests : call[r] \in Calls}

(* Why PeerOf is a peer wherever it is used: only an issued request is      *)
(* queued, is attempted or has an open connection.                          *)
OnlyIssued ==
  /\ attached \subseteq Issued
  /\ \A p \in Peers : queue[p] \in Seq(Issued)
  /\ \A r \in Requests : conn[r] \notin {"none", "closed"} => r \in Issued

TypeInv == TypeOK /\ OnlyIssued

(* A request that was issued is for a peer.                                  *)
LEMMA PeerTypes ==
  /\ \A r \in Issued : r \in Requests /\ PeerOf(r) \in Peers
  /\ \A c \in Calls : c.peer \in Peers
  BY DEF Issued, Calls, PeerOf

(* Queue.start and Queue.stop keep what they assign of its type. *)
LEMMA StartStopTypes ==
  ASSUME TypeOK, NEW p \in Peers, NEW rest \in Seq(Frames)
  PROVE  /\ QueueStart(p, rest) => running' \subseteq Peers /\ agenda' \in Seq(Frames)
         /\ QueueStop(p, rest) => /\ running' \subseteq Peers
                                  /\ dialing' \subseteq Peers
                                  /\ agenda' \in Seq(Frames)
<1>1. <<RunF>> \o rest \in Seq(Frames) /\ <<QueueRunF(p)>> \o rest \in Seq(Frames)
  BY Pushing, FrameTypes
<1>2. running \subseteq Peers /\ dialing \subseteq Peers
  BY DEF TypeOK
<1> QED
  BY <1>1, <1>2 DEF QueueStart, QueueStop

(* The rest of a turn, for each way to have one. *)
LEMMA TurnTypes ==
  ASSUME TypeOK
  PROVE  /\ agenda \in Seq(Frames)
         /\ agenda # <<>> => Rest \in Seq(Frames)
         /\ \A r \in Requests : FSMTick(r) \in Seq(Frames) /\ ProtocolCallback(r) \in Seq(Frames)
         /\ \A r \in Requests : attached \subseteq Issued => Resume(r) \in Seq(Frames)
         /\ <<>> \in Seq(Frames)
<1>1. \A r \in Requests : <<CallbackF(r, "fsm")>> \in Seq(Frames) /\ <<CallbackF(r, "ok")>> \in Seq(Frames)
  BY FrameTypes DEF Answers
<1>2. \A p \in Peers : <<QueueRunF(p)>> \in Seq(Frames)
  BY FrameTypes
<1> QED
  BY <1>1, <1>2, Pushing, PeerTypes DEF TypeOK, Rest, FSMTick, ProtocolCallback, Resume

(* User code. *)
LEMMA UserTypes ==
  ASSUME TypeInv, UserStep
  PROVE  TypeInv'
<1> USE DEF TypeInv, requestVars, queueVars, mgrVars, connVars
<1>1. CASE UserTurn
  <2>1. UserF(FALSE) \in Frames /\ agenda' = <<UserF(FALSE)>>
    BY <1>1, FrameTypes DEF UserTurn
  <2>2. agenda' \in Seq(Frames)
    BY <2>1, ShortTurns
  <2> QED
    BY <1>1, <2>2 DEF UserTurn, TypeOK, OnlyIssued, Issued
<1>2. ASSUME NEW r \in Requests, DialRefused(r) PROVE TypeInv'
  <2>1. PICK c \in Calls : /\ call[r] = None
                           /\ call' = [call EXCEPT ![r] = c]
                           /\ queues' = queues \cup {c.peer}
                           /\ agenda' = Append(agenda, CallbackF(r, "aborted"))
    BY <1>2 DEF DialRefused
  <2>2. agenda' \in Seq(Frames)
    BY <2>1, Pushing, FrameTypes DEF TypeOK, Answers
  <2>3. Issued \subseteq Issued'
    BY <2>1, DialerAssumption DEF TypeOK, Issued
  <2> QED
    BY <1>2, <2>1, <2>2, <2>3, PeerTypes DEF DialRefused, TypeOK, OnlyIssued
<1>3. ASSUME NEW r \in Requests, DialDenied(r) PROVE TypeInv'
  <2>1. PICK c \in Calls : /\ call[r] = None
                           /\ call' = [call EXCEPT ![r] = c]
                           /\ queues' = queues \cup {c.peer}
                           /\ IF c.peer \in connected
                              THEN QueueStart(c.peer, Append(agenda, CallbackF(r, "denied")))
                              ELSE /\ agenda' = Append(agenda, CallbackF(r, "denied"))
                                   /\ UNCHANGED running
    BY <1>3 DEF DialDenied
  <2>2. Append(agenda, CallbackF(r, "denied")) \in Seq(Frames)
    BY Pushing, FrameTypes DEF TypeOK, Answers
  <2>3. agenda' \in Seq(Frames) /\ running' \subseteq Peers
    BY <2>1, <2>2, StartStopTypes, PeerTypes DEF TypeOK
  <2>4. Issued \subseteq Issued'
    BY <2>1, DialerAssumption DEF TypeOK, Issued
  <2> QED
    BY <1>3, <2>1, <2>3, <2>4, PeerTypes DEF DialDenied, TypeOK, OnlyIssued
<1>4. ASSUME NEW r \in Requests, DialQueued(r) PROVE TypeInv'
  <2>1. PICK c \in Calls : /\ call[r] = None
                           /\ call' = [call EXCEPT ![r] = c]
                           /\ queues' = queues \cup {c.peer}
                           /\ denylisted' = [denylisted EXCEPT ![c.peer] = "null"]
                           /\ queue' = [queue EXCEPT ![c.peer] = Append(@, r)]
                           /\ IF c.peer \in connected
                              THEN QueueStart(c.peer, agenda) /\ UNCHANGED <<normal, cold>>
                              ELSE /\ IF c.peer \in running
                                      THEN UNCHANGED <<normal, cold>>
                                      ELSE Enlist(c.peer, c.kind.cold)
                                   /\ agenda' = <<RunF>> \o agenda
                                   /\ UNCHANGED running
    BY <1>4 DEF DialQueued
  <2>2. agenda' \in Seq(Frames) /\ running' \subseteq Peers
    <3>1. agenda \in Seq(Frames) /\ running \subseteq Peers /\ c.peer \in Peers
      BY PeerTypes DEF TypeOK
    <3>2. <<RunF>> \o agenda \in Seq(Frames)
      BY <3>1, Pushing, FrameTypes
    <3> QED
      BY <2>1, <3>1, <3>2, StartStopTypes
  <2>3. normal' \in Seq(Peers) /\ cold' \in Seq(Peers)
    <3>1. normal \in Seq(Peers) /\ cold \in Seq(Peers) /\ c.peer \in Peers
      BY PeerTypes DEF TypeOK
    <3>2. /\ SetAdd(normal, c.peer) \in Seq(Peers) /\ SetAdd(cold, c.peer) \in Seq(Peers)
          /\ SetDelete(cold, c.peer) \in Seq(Peers)
      BY <3>1, SetTypes
    <3> QED
      BY <2>1, <3>1, <3>2 DEF Enlist
  <2>4. Issued \subseteq Issued' /\ r \in Issued'
    BY <2>1, DialerAssumption DEF TypeOK, Issued
  <2>5. queue' \in [Peers -> Seq(Requests)] /\ \A p \in Peers : queue'[p] \in Seq(Issued')
    <3>1. \A p \in Peers : queue[p] \in Seq(Issued') /\ queue[p] \in Seq(Requests)
      BY <2>4 DEF TypeOK, OnlyIssued
    <3>2. \A p \in Peers : Append(queue[p], r) \in Seq(Issued') /\ Append(queue[p], r) \in Seq(Requests)
      BY <2>4, <3>1
    <3> QED
      BY <2>1, <3>1, <3>2 DEF TypeOK
  <2>6. /\ denylisted' \in [Peers -> DenyState] /\ queues' \subseteq Peers
        /\ call' \in [Requests -> Calls \cup {None}]
    BY <2>1, PeerTypes DEF TypeOK, DenyState
  <2> QED
    BY <1>4, <2>2, <2>3, <2>4, <2>5, <2>6 DEF DialQueued, TypeOK, OnlyIssued
<1>5. ASSUME NEW r \in Requests, UserCloses(r) PROVE TypeInv'
  <2>1. agenda' \in Seq(Frames)
    BY <1>5, Pushing, FrameTypes DEF UserCloses, TypeOK
  <2> QED
    BY <1>5, <2>1 DEF UserCloses, TypeOK, OnlyIssued, Issued
<1>6. ASSUME NEW p \in Peers, HangUp(p) PROVE TypeInv'
  <2>1. Tracked(p) \in SUBSET Requests
    BY DEF Tracked, Of
  <2>2. agenda' \in Seq(Frames)
    BY <1>6, <2>1, Pushing, FrameTypes DEF HangUp, TypeOK
  <2> QED
    BY <1>6, <2>1, <2>2 DEF HangUp, TypeOK, OnlyIssued, Issued, InState
<1>7. ASSUME NEW p \in Peers, ClearDenylist(p) PROVE TypeInv'
  BY <1>7 DEF ClearDenylist, TypeOK, OnlyIssued, Issued, DenyState
<1> QED
  BY <1>1, <1>2, <1>3, <1>4, <1>5, <1>6, <1>7 DEF UserStep

(* The network, the timers and the switch. *)
LEMMA AttemptTypes ==
  ASSUME TypeInv, NEW r \in Requests, AttemptStep(r)
  PROVE  TypeInv'
<1> USE DEF TypeInv, requestVars, queueVars, mgrVars, connVars
<1>1. CASE TransportConnects(r)
  BY <1>1, PeerTypes DEF TransportConnects, TypeOK, OnlyIssued, Issued, ConnState
<1>2. CASE AttemptFails(r)
  <2>1. agenda' \in Seq(Frames)
    BY <1>2, FrameTypes, ShortTurns DEF AttemptFails, Answers
  <2> QED
    BY <1>2, <2>1 DEF AttemptFails, TypeOK, OnlyIssued, Issued
<1>3. CASE Muxes(r)
  <2>1. ProtocolCallback(r) \in Seq(Frames) /\ Resume(r) \in Seq(Frames)
    BY TurnTypes DEF OnlyIssued
  <2>2. agenda' \in Seq(Frames)
    BY <1>3, <2>1, Pushing DEF Muxes
  <2>3. r \in Issued /\ PeerOf(r) \in Peers
    BY <1>3, PeerTypes DEF Muxes, OnlyIssued
  <2>4. shaking' \subseteq Requests
    BY <1>3 DEF Muxes, StartShake, TypeOK
  <2>5. /\ denylisted' \in [Peers -> DenyState] /\ denylistCount' \in [Peers -> Nat]
        /\ conn' \in [Requests -> ConnState] /\ queues' \subseteq Peers
    BY <1>3, <2>3 DEF Muxes, TypeOK, DenyState, ConnState
  <2>6. OnlyIssued'
    BY <1>3, <2>3 DEF Muxes, TypeOK, OnlyIssued, Issued
  <2> QED
    BY <1>3, <2>2, <2>4, <2>5, <2>6 DEF Muxes, TypeOK
<1>4. CASE Unmuxes(r)
  <2>1. ProtocolCallback(r) \in Seq(Frames) /\ Resume(r) \in Seq(Frames)
    BY TurnTypes DEF OnlyIssued
  <2>2. agenda' \in Seq(Frames)
    BY <1>4, <2>1, Pushing DEF Unmuxes
  <2>3. shaking' \subseteq Requests
    BY <1>4 DEF Unmuxes, StartShake, TypeOK
  <2>4. denylistCount' \in [Peers -> Nat] /\ conn' \in [Requests -> ConnState]
    BY <1>4 DEF Unmuxes, TypeOK, ConnState
  <2>5. OnlyIssued'
    BY <1>4 DEF Unmuxes, TypeOK, OnlyIssued, Issued
  <2> QED
    BY <1>4, <2>2, <2>3, <2>4, <2>5 DEF Unmuxes, TypeOK
<1> QED
  BY <1>1, <1>2, <1>3, <1>4 DEF AttemptStep

(* What the network, the timers and the switch change keeps its type.        *)
LEMMA EnvTypes ==
  ASSUME TypeInv, EnvStep
  PROVE  TypeInv'
<1> USE DEF TypeInv, requestVars, queueVars, mgrVars, connVars
<1>1. ASSUME NEW r \in Requests, ShakeEnds(r) PROVE TypeInv'
  <2>1. agenda' \in Seq(Frames)
    <3>1. \A a \in {"ok", "error"} : <<CallbackF(r, a)>> \in Seq(Frames)
      BY FrameTypes DEF Answers
    <3> QED
      BY <1>1, <3>1 DEF ShakeEnds
  <2> QED
    BY <1>1, <2>1 DEF ShakeEnds, TypeOK, OnlyIssued, Issued
<1>2. ASSUME NEW r \in Requests, Identified(r) PROVE TypeInv'
  BY <1>2, PeerTypes DEF Identified, TypeOK, OnlyIssued, Issued
<1>3. ASSUME NEW r \in Requests, IdentifyFails(r) PROVE TypeInv'
  <2>1. agenda' \in Seq(Frames)
    BY <1>3, FrameTypes, ShortTurns DEF IdentifyFails, Answers
  <2> QED
    BY <1>3, <2>1 DEF IdentifyFails, TypeOK, OnlyIssued, Issued
<1>4. ASSUME NEW r \in Requests, MuxerCloses(r) PROVE TypeInv'
  <2>1. agenda' \in Seq(Frames)
    BY <1>4, FrameTypes, ShortTurns DEF MuxerCloses
  <2> QED
    BY <1>4, <2>1 DEF MuxerCloses, TypeOK, OnlyIssued, Issued
<1>5. ASSUME NEW r \in Requests, MuxerEnds(r) PROVE TypeInv'
  BY <1>5 DEF MuxerEnds, Untrack, TypeOK, OnlyIssued, Issued, ConnState
<1>6. ASSUME NEW r \in Requests, LateConnect(r) PROVE TypeInv'
  BY <1>6, PeerTypes DEF LateConnect, TypeOK, OnlyIssued, Issued, ConnState
<1>7. ASSUME NEW p \in Peers, InboundMuxes(p) \/ InboundCloses(p) \/ InboundEnds(p) \/ DenyExpires(p)
      PROVE  TypeInv'
  <2>1. CASE InboundMuxes(p)
    BY <2>1 DEF InboundMuxes, TypeOK, OnlyIssued, Issued, DenyState, InState
  <2>2. CASE InboundCloses(p)
    BY <2>2 DEF InboundCloses, TypeOK, OnlyIssued, Issued, InState
  <2>3. CASE InboundEnds(p)
    BY <2>3 DEF InboundEnds, TypeOK, OnlyIssued, Issued, InState
  <2>4. CASE DenyExpires(p)
    BY <2>4 DEF DenyExpires, TypeOK, OnlyIssued, Issued, DenyState
  <2> QED
    BY <1>7, <2>1, <2>2, <2>3, <2>4
<1>8. CASE Clean
  <2>1. CleanF(queues) \in Frames
    BY FrameTypes DEF TypeOK
  <2>2. agenda' \in Seq(Frames)
    BY <1>8, <2>1, ShortTurns DEF Clean
  <2> QED
    BY <1>8, <2>2 DEF Clean, TypeOK, OnlyIssued, Issued
<1>9. CASE ManagerStop
  <2>1. StopF(queues) \in Frames
    BY FrameTypes DEF TypeOK
  <2>2. agenda' \in Seq(Frames) /\ normal' \in Seq(Peers) /\ cold' \in Seq(Peers)
    BY <1>9, <2>1, ShortTurns DEF ManagerStop
  <2>3. closesDue' \in 0 .. MaxStops
    BY <1>9, DialerAssumption DEF ManagerStop, TypeOK
  <2> QED
    BY <1>9, <2>2, <2>3 DEF ManagerStop, CloseConnections, TypeOK, OnlyIssued, Issued
<1>10. CASE ManagerStart
  BY <1>10 DEF ManagerStart, TypeOK, OnlyIssued, Issued
<1>11. CASE CloseConnections
  <2>1. AllTracked \in SUBSET Requests
    BY DEF AllTracked
  <2>2. CloseAllF(AllTracked) \in Frames
    BY <2>1, FrameTypes
  <2>3. agenda' \in Seq(Frames)
    BY <1>11, <2>2, ShortTurns DEF CloseConnections
  <2>4. abandoned' \subseteq Requests
    BY <1>11, <2>1 DEF CloseConnections, TypeOK
  <2>5. inbound' \in [Peers -> InState]
    BY <1>11 DEF CloseConnections, TypeOK, InState
  <2>6. closesDue' \in 0 .. MaxStops
    BY <1>11, DialerAssumption DEF CloseConnections, TypeOK
  <2> QED
    BY <1>11, <2>3, <2>4, <2>5, <2>6 DEF CloseConnections, TypeOK, OnlyIssued, Issued
<1> HIDE DEF TypeInv, requestVars, queueVars, mgrVars, connVars
<1>12. ASSUME NEW r \in Requests, AttemptStep(r) PROVE TypeInv'
  BY ONLY TypeInv, <1>12, AttemptTypes
<1> QED
  BY <1>1, <1>2, <1>3, <1>4, <1>5, <1>6, <1>7, <1>8, <1>9, <1>10, <1>11, <1>12 DEF EnvStep

(* The turn goes on: one queue. *)
LEMMA PeerTurnTypes ==
  ASSUME TypeInv, NEW p \in Peers, PeerStep(p)
  PROVE  TypeInv'
<1> USE DEF TypeInv, requestVars, queueVars, mgrVars, connVars
<1>0. agenda # <<>> => Rest \in Seq(Frames)
  BY TurnTypes
<1>1. CASE QueueRunStops(p)
  <2>1. running' \subseteq Peers /\ dialing' \subseteq Peers /\ agenda' \in Seq(Frames)
    BY <1>0, <1>1, StartStopTypes DEF QueueRunStops, Top
  <2> QED
    BY <1>1, <2>1 DEF QueueRunStops, TypeOK, OnlyIssued, Issued
<1>2. ASSUME queue[p] # <<>>
      PROVE  /\ Head(queue[p]) \in Requests
             /\ Tail(queue[p]) \in Seq(Requests)
             /\ Head(queue[p]) \in Issued
             /\ Tail(queue[p]) \in Seq(Issued)
  BY <1>2 DEF TypeOK, OnlyIssued
<1>3. CASE QueueRunReuses(p)
  <2> DEFINE r == Head(queue[p])
  <2>1. /\ agenda # <<>> /\ queue[p] # <<>>
        /\ queue' = [queue EXCEPT ![p] = Tail(@)]
        /\ shaking' = StartShake(r)
        /\ agenda' = ProtocolCallback(r) \o <<QueueRunF(p)>> \o Rest \o FSMTick(r)
    BY <1>3 DEF QueueRunReuses, Top
  <2>2. <<QueueRunF(p)>> \in Seq(Frames)
    BY FrameTypes, ShortTurns
  <2>3. /\ ProtocolCallback(r) \in Seq(Frames) /\ FSMTick(r) \in Seq(Frames)
        /\ Rest \in Seq(Frames)
    BY <1>0, <1>2, <2>1, TurnTypes
  <2> HIDE DEF r
  <2>4. agenda' \in Seq(Frames)
    BY <2>1, <2>2, <2>3, Pushing
  <2>5. shaking' \subseteq Requests
    BY <1>2, <2>1 DEF StartShake, TypeOK, r
  <2>6. queue' \in [Peers -> Seq(Requests)] /\ \A q \in Peers : queue'[q] \in Seq(Issued)
    BY <1>2, <2>1 DEF TypeOK, OnlyIssued
  <2> QED
    BY <1>3, <2>4, <2>5, <2>6 DEF QueueRunReuses, TypeOK, OnlyIssued, Issued
<1>4. CASE QueueRunCreates(p)
  <2> DEFINE r == Head(queue[p])
  <2>1. /\ agenda # <<>> /\ queue[p] # <<>>
        /\ queue' = [queue EXCEPT ![p] = Tail(@)]
        /\ conn' = [conn EXCEPT ![r] = IF p = Self THEN "idle" ELSE "dialing"]
        /\ attached' = attached \cup {r}
        /\ \E now \in {<<CallbackF(r, "error"), OnErrorF(r)>>, <<>>,
                       <<CallbackF(r, "error"), OnErrorF(r), DisconnectF(r, TRUE)>>} :
             agenda' = now \o Rest \o FSMTick(r)
    BY <1>4 DEF QueueRunCreates, Top
  <2>2. /\ <<CallbackF(r, "error"), OnErrorF(r)>> \in Seq(Frames)
        /\ <<CallbackF(r, "error"), OnErrorF(r), DisconnectF(r, TRUE)>> \in Seq(Frames)
        /\ <<>> \in Seq(Frames)
    <3>1. /\ CallbackF(r, "error") \in Frames /\ OnErrorF(r) \in Frames
          /\ DisconnectF(r, TRUE) \in Frames
      BY <1>2, <2>1, FrameTypes DEF Answers
    <3> QED
      BY <3>1, ShortTurns
  <2>3. FSMTick(r) \in Seq(Frames) /\ Rest \in Seq(Frames)
    BY <1>0, <1>2, <2>1, TurnTypes
  <2> HIDE DEF r
  <2>4. agenda' \in Seq(Frames)
    BY <2>1, <2>2, <2>3, Pushing
  <2>5. /\ queue' \in [Peers -> Seq(Requests)] /\ \A q \in Peers : queue'[q] \in Seq(Issued)
        /\ conn' \in [Requests -> ConnState] /\ attached' \subseteq Issued
        /\ \A q \in Requests : conn'[q] # conn[q] => q \in Issued
        /\ Issued \subseteq Requests
    BY <1>2, <2>1 DEF TypeOK, OnlyIssued, ConnState, r, Issued
  <2> QED
    BY <1>4, <2>4, <2>5 DEF QueueRunCreates, TypeOK, OnlyIssued, Issued
<1>5. CASE AbortNext(p)
  <2>1. agenda' \in Seq(Frames)
    BY <1>2, <1>5, FrameTypes, Pushing DEF AbortNext, Answers, TypeOK
  <2>2. queue' \in [Peers -> Seq(Requests)] /\ \A q \in Peers : queue'[q] \in Seq(Issued)
    BY <1>2, <1>5 DEF AbortNext, TypeOK, OnlyIssued
  <2> QED
    BY <1>5, <2>1, <2>2 DEF AbortNext, TypeOK, OnlyIssued, Issued
<1>6. CASE AbortEnds(p)
  <2>1. running' \subseteq Peers /\ dialing' \subseteq Peers /\ agenda' \in Seq(Frames)
    BY <1>0, <1>6, StartStopTypes DEF AbortEnds, Top
  <2> QED
    BY <1>6, <2>1 DEF AbortEnds, TypeOK, OnlyIssued, Issued
<1>7. CASE Delete(p)
  BY <1>0, <1>7 DEF Delete, Top, TypeOK, OnlyIssued, Issued, DenyState
<1> QED
  BY <1>1, <1>3, <1>4, <1>5, <1>6, <1>7 DEF PeerStep

(* The turn goes on: one connection. *)
LEMMA RequestTurnTypes ==
  ASSUME TypeInv, NEW r \in Requests, RequestStep(r)
  PROVE  TypeInv'
<1> USE DEF TypeInv, requestVars, queueVars, mgrVars, connVars
<1>0. agenda # <<>> => Rest \in Seq(Frames)
  BY TurnTypes
<1>1. CASE OnError(r)
  <2>1. CASE r \in attached /\ ~(PeerOf(r) \in known /\ PeerOf(r) \in connected)
    <3>1. Denylist(PeerOf(r)) /\ agenda # <<>> /\ PeerOf(r) \in Peers
      BY <1>1, <2>1, PeerTypes DEF OnError, Top, OnlyIssued
    <3>2. agenda' \in Seq(Frames)
      BY <1>0, <3>1, FrameTypes, Pushing, ZenonT(30) DEF Denylist
    <3>3. denylisted' \in [Peers -> DenyState]
      BY <3>1 DEF Denylist, TypeOK, DenyState
    <3>4. denylistCount' \in [Peers -> Nat]
      BY <3>1 DEF Denylist, TypeOK
    <3> QED
      BY <1>1, <3>2, <3>3, <3>4 DEF OnError, TypeOK, OnlyIssued, Issued
  <2>2. CASE ~(r \in attached /\ ~(PeerOf(r) \in known /\ PeerOf(r) \in connected))
    BY <1>0, <1>1, <2>2 DEF OnError, Top, TypeOK, OnlyIssued, Issued
  <2> QED
    BY <2>1, <2>2
<1>2. CASE DisconnectMuxed(r)
  BY <1>0, <1>2 DEF DisconnectMuxed, Top, TypeOK, OnlyIssued, Issued, ConnState
<1>3. CASE DisconnectNow(r)
  <2>1. agenda # <<>> /\ Resume(r) \in Seq(Frames)
    BY <1>3, TurnTypes DEF DisconnectNow, Top, OnlyIssued
  <2>2. agenda' \in Seq(Frames)
    BY <1>0, <1>3, <2>1, Pushing DEF DisconnectNow
  <2>3. connected' \subseteq Peers
    BY <1>3 DEF DisconnectNow, Untrack, TypeOK
  <2>4. conn' \in [Requests -> ConnState] /\ OnlyIssued'
    BY <1>3 DEF DisconnectNow, TypeOK, OnlyIssued, Issued, ConnState
  <2> QED
    BY <1>3, <2>2, <2>3, <2>4 DEF DisconnectNow, TypeOK
<1> QED
  BY <1>1, <1>2, <1>3 DEF RequestStep

(* The turn goes on: the rest of the functions. *)
LEMMA TurnStepTypes ==
  ASSUME TypeInv, TurnStep
  PROVE  TypeInv'
<1> USE DEF TypeInv, requestVars, queueVars, mgrVars, connVars
<1>0. agenda # <<>> => Rest \in Seq(Frames)
  BY TurnTypes
<1>1. CASE Run
  <2>1. CASE mgrRunning /\ SlotFree /\ (normal # <<>> \/ cold # <<>>)
    <3>1. /\ NextWaiting \in Peers /\ normal' \in Seq(Peers) /\ cold' \in Seq(Peers)
      <4>1. normal \in Seq(Peers) /\ cold \in Seq(Peers)
        BY DEF TypeOK
      <4>2. CASE normal # <<>>
        <5>1. normal' = Tail(normal) /\ cold' = cold /\ NextWaiting = Head(normal)
          BY <1>1, <2>1, <4>2 DEF Run, NextWaiting
        <5> QED
          BY <4>1, <4>2, <5>1, Pushing
      <4>3. CASE normal = <<>>
        <5>1. cold # <<>> /\ cold' = Tail(cold) /\ normal' = normal /\ NextWaiting = Head(cold)
          BY <1>1, <2>1, <4>3 DEF Run, NextWaiting
        <5> QED
          BY <4>1, <5>1, Pushing
      <4> QED
        BY <4>2, <4>3
    <3>2. /\ running' \subseteq Peers /\ dialing' \subseteq Peers /\ agenda' \in Seq(Frames)
      <4>1. Rest \in Seq(Frames)
        BY <1>0, <1>1 DEF Run, Top
      <4>2. dialing' \subseteq Peers
        BY <1>1, <2>1, <3>1 DEF Run, TypeOK
      <4>3. CASE NextWaiting \in queues
        BY <1>1, <2>1, <3>1, <4>1, <4>2, <4>3, StartStopTypes DEF Run
      <4>4. CASE NextWaiting \notin queues
        BY <1>1, <2>1, <4>1, <4>2, <4>4 DEF Run, TypeOK
      <4> QED
        BY <4>3, <4>4
    <3> QED
      BY <1>1, <3>1, <3>2 DEF Run, TypeOK, OnlyIssued, Issued
  <2>2. CASE ~(mgrRunning /\ SlotFree /\ (normal # <<>> \/ cold # <<>>))
    BY <1>0, <1>1, <2>2 DEF Run, Top, TypeOK, OnlyIssued, Issued
  <2> QED
    BY <2>1, <2>2
<1>2. CASE Callback
  <2>1. PICK r \in Requests, a \in Answers :
          /\ agenda # <<>>
          /\ IF answer[r] = "none"
             THEN /\ answer' = [answer EXCEPT ![r] = a]
                  /\ agenda' = IF NestedCalls = {} THEN Rest ELSE <<UserF(TRUE)>> \o Rest
             ELSE agenda' = Rest /\ UNCHANGED answer
    BY <1>2 DEF Callback, Top
  <2>2. agenda' \in Seq(Frames)
    BY <1>0, <2>1, FrameTypes, Pushing, ZenonT(30)
  <2>3. answer' \in [Requests -> Answers]
    BY <2>1 DEF TypeOK
  <2> QED
    BY <1>2, <2>2, <2>3 DEF Callback, TypeOK, OnlyIssued, Issued
<1>3. CASE CloseAll
  <2>1. PICK R \in SUBSET Requests :
          /\ agenda # <<>>
          /\ \/ agenda' = Rest
             \/ \E r \in R : agenda' = <<DisconnectF(r, FALSE), CloseAllF(R \ {r})>> \o Rest
    BY <1>3 DEF CloseAll, Top
  <2>2. \A r \in R : DisconnectF(r, FALSE) \in Frames /\ CloseAllF(R \ {r}) \in Frames
    BY FrameTypes
  <2>3. agenda' \in Seq(Frames)
    BY <1>0, <2>1, <2>2, Pushing
  <2> QED
    BY <1>3, <2>3 DEF CloseAll, TypeOK, OnlyIssued, Issued
<1>4. CASE StopNext
  <2>1. PICK P \in SUBSET Peers :
          /\ agenda # <<>>
          /\ \/ agenda' = Rest
             \/ \E p \in P : agenda' = <<AbortF(p), DeleteF(p), StopF(P \ {p})>> \o Rest
    BY <1>4 DEF StopNext, Top
  <2>2. \A p \in P : AbortF(p) \in Frames /\ DeleteF(p) \in Frames /\ StopF(P \ {p}) \in Frames
    BY FrameTypes
  <2>3. agenda' \in Seq(Frames)
    BY <1>0, <2>1, <2>2, Pushing
  <2> QED
    BY <1>4, <2>3 DEF StopNext, TypeOK, OnlyIssued, Issued
<1>5. CASE CleanNext
  <2>1. PICK P \in SUBSET Peers :
          /\ agenda # <<>>
          /\ \/ agenda' = Rest
             \/ \E p \in P : \/ agenda' = <<AbortF(p), DeleteF(p), CleanF(P \ {p})>> \o Rest
                             \/ agenda' = <<CleanF(P \ {p})>> \o Rest
    BY <1>5 DEF CleanNext, Top
  <2>2. \A p \in P : AbortF(p) \in Frames /\ DeleteF(p) \in Frames /\ CleanF(P \ {p}) \in Frames
    BY FrameTypes
  <2>3. agenda' \in Seq(Frames)
    BY <1>0, <2>1, <2>2, Pushing
  <2> QED
    BY <1>5, <2>3 DEF CleanNext, TypeOK, OnlyIssued, Issued
<1>6. CASE UserReturn
  BY <1>0, <1>6 DEF UserReturn, InUser, Top, TypeOK, OnlyIssued, Issued
<1> HIDE DEF TypeInv, requestVars, queueVars, mgrVars, connVars
<1> QED
  BY <1>1, <1>2, <1>3, <1>4, <1>5, <1>6, PeerTurnTypes, RequestTurnTypes DEF TurnStep

(* Only an issued request is queued, attempted or connected, besides types.  *)
THEOREM TypeInvariant == Spec => []TypeInv
<1>1. Init => TypeInv
  BY DialerAssumption DEF Init, TypeInv, TypeOK, OnlyIssued, Answers, DenyState, ConnState, InState
<1>2. TypeInv /\ [Next]_vars => TypeInv'
  <2> SUFFICES ASSUME TypeInv, [Next]_vars PROVE TypeInv'
    OBVIOUS
  <2>1. CASE UNCHANGED vars
    BY <2>1 DEF vars, requestVars, queueVars, mgrVars, connVars, TypeInv, TypeOK, OnlyIssued,
                Issued
  <2> QED
    BY <2>1, TurnStepTypes, UserTypes, EnvTypes DEF Next
<1> QED
  BY <1>1, <1>2, PTL DEF Spec

(* Every variable keeps its type, at every step of every turn, for any       *)
(* number of peers and requests.                                             *)
THEOREM TypeCorrect == Spec => []TypeOK
<1>1. TypeInv => TypeOK
  BY DEF TypeInv
<1> QED
  BY <1>1, TypeInvariant, PTL

-----------------------------------------------------------------------------
(* The waiting sets.                                                        *)

(* No element twice: what makes a sequence a JavaScript Set. *)
IsASet(s) == \A i, j \in DOMAIN s : s[i] = s[j] => i = j

(* The peers that wait are in two Sets with nothing in common, and the Set   *)
(* of the cold calls is within its limit.  That cold holds nobody twice is   *)
(* needed for delete() to take a peer out of it.                             *)
WaitingInv == IsASet(cold) /\ ColdCallsAreBounded

(* What add() does to a Set. *)
LEMMA AddFacts ==
  ASSUME NEW S, NEW s \in Seq(S), NEW x \in S, IsASet(s)
  PROVE  /\ IsASet(SetAdd(s, x)) /\ Elems(SetAdd(s, x)) = Elems(s) \cup {x}
         /\ Len(SetAdd(s, x)) <= Len(s) + 1
<1>1. CASE x \in Elems(s)
  BY <1>1 DEF SetAdd
<1>2. CASE x \notin Elems(s)
  <2> DEFINE t == Append(s, x)
  <2>1. /\ SetAdd(s, x) = t /\ DOMAIN t = 1 .. Len(s) + 1 /\ DOMAIN s = 1 .. Len(s)
        /\ Len(t) = Len(s) + 1 /\ Len(s) \in Nat
        /\ \A i \in 1 .. Len(s) : t[i] = s[i]
        /\ t[Len(s) + 1] = x
    BY <1>2 DEF SetAdd
  <2> HIDE DEF t
  <2>2. \A i \in 1 .. Len(s) : s[i] # x
    BY <1>2, <2>1 DEF Elems
  <2>3. IsASet(t)
    <3> SUFFICES ASSUME NEW i \in DOMAIN t, NEW j \in DOMAIN t, t[i] = t[j] PROVE i = j
      BY DEF IsASet
    <3>1. CASE i \in 1 .. Len(s) /\ j \in 1 .. Len(s)
      BY <2>1, <3>1 DEF IsASet
    <3>2. CASE i = Len(s) + 1 \/ j = Len(s) + 1
      BY <2>1, <2>2, <3>2
    <3> QED
      BY <2>1, <3>1, <3>2
  <2>4. Elems(t) = Elems(s) \cup {x}
    BY <2>1 DEF Elems
  <2> QED
    BY <2>1, <2>3, <2>4
<1> QED
  BY <1>1, <1>2

(* What delete() does to a Set. *)
LEMMA DeleteFacts ==
  ASSUME NEW S, NEW s \in Seq(S), NEW x \in S, IsASet(s)
  PROVE  /\ IsASet(SetDelete(s, x)) /\ Elems(SetDelete(s, x)) = Elems(s) \ {x}
         /\ Len(SetDelete(s, x)) <= Len(s)
<1>1. CASE x \notin Elems(s)
  BY <1>1 DEF SetDelete
<1>2. CASE x \in Elems(s)
  <2> DEFINE k == CHOOSE i \in DOMAIN s : s[i] = x
             t == [i \in 1 .. Len(s) - 1 |-> IF i < k THEN s[i] ELSE s[i + 1]]
  <2>1. SetDelete(s, x) = t
    BY <1>2 DEF SetDelete
  <2>2. k \in DOMAIN s /\ s[k] = x
    BY <1>2 DEF Elems
  <2>3. /\ Len(s) \in Nat /\ Len(s) - 1 \in Nat /\ DOMAIN s = 1 .. Len(s)
        /\ DOMAIN t = 1 .. Len(s) - 1
        /\ \A i \in 1 .. Len(s) - 1 : t[i] = IF i < k THEN s[i] ELSE s[i + 1]
    BY <2>2
  <2>4. Len(t) = Len(s) - 1
    BY <2>3
  <2> HIDE DEF k, t
  <2>5. IsASet(t)
    BY <2>2, <2>3, SMTT(30) DEF IsASet
  <2>6. Elems(t) \subseteq Elems(s) \ {x}
    <3> SUFFICES ASSUME NEW i \in DOMAIN t PROVE t[i] \in Elems(s) \ {x}
      BY DEF Elems
    <3>1. PICK j \in DOMAIN s : j # k /\ t[i] = s[j]
      <4>1. CASE i < k
        BY <2>2, <2>3, <4>1
      <4>2. CASE ~(i < k)
        BY <2>2, <2>3, <4>2
      <4> QED
        BY <4>1, <4>2
    <3>2. s[j] # s[k]
      BY <2>2, <3>1 DEF IsASet
    <3> QED
      BY <2>2, <3>1, <3>2 DEF Elems
  <2>7. Elems(s) \ {x} \subseteq Elems(t)
    <3> SUFFICES ASSUME NEW j \in DOMAIN s, s[j] # x PROVE \E i \in DOMAIN t : t[i] = s[j]
      BY DEF Elems
    <3>1. CASE j < k
      BY <2>2, <2>3, <3>1
    <3>2. CASE j > k
      <4>1. j - 1 \in DOMAIN t /\ t[j - 1] = s[j]
        BY <2>2, <2>3, <3>2
      <4> QED
        BY <4>1
    <3> QED
      BY <2>2, <2>3, <3>1, <3>2
  <2> QED
    BY <2>1, <2>3, <2>4, <2>5, <2>6, <2>7
<1> QED
  BY <1>1, <1>2

(* What taking the first element out of a Set does. *)
LEMMA TailFacts ==
  ASSUME NEW S, NEW s \in Seq(S), s # <<>>
  PROVE  /\ IsASet(s) => IsASet(Tail(s))
         /\ Elems(Tail(s)) \subseteq Elems(s)
         /\ Len(Tail(s)) <= Len(s)
<1> DEFINE t == Tail(s)
<1>1. /\ DOMAIN t = 1 .. Len(s) - 1 /\ DOMAIN s = 1 .. Len(s) /\ Len(s) \in Nat
      /\ Len(t) = Len(s) - 1
      /\ \A i \in 1 .. Len(s) - 1 : t[i] = s[i + 1]
  OBVIOUS
<1> HIDE DEF t
<1>2. IsASet(s) => IsASet(t)
  <2> SUFFICES ASSUME IsASet(s), NEW i \in DOMAIN t, NEW j \in DOMAIN t, t[i] = t[j]
               PROVE  i = j
    BY DEF IsASet
  <2>1. i + 1 \in DOMAIN s /\ j + 1 \in DOMAIN s /\ s[i + 1] = s[j + 1]
    BY <1>1
  <2>2. i + 1 = j + 1
    BY <2>1 DEF IsASet
  <2> QED
    BY <1>1, <2>2
<1>3. Elems(t) \subseteq Elems(s)
  BY <1>1, SMTT(30) DEF Elems
<1> QED
  BY <1>1, <1>2, <1>3 DEF t

(* A dial puts a peer in the Set its kind calls for: a cold call only while  *)
(* there is room and the peer is not in the other, any other call out of it. *)
LEMMA EnlistKeepsWaiting ==
  ASSUME TypeOK, WaitingInv, NEW p \in Peers, NEW isCold, ~(isCold /\ ColdRefused(p)),
         Enlist(p, isCold)
  PROVE  WaitingInv'
<1>1. normal \in Seq(Peers) /\ cold \in Seq(Peers) /\ MaxColdCalls \in Nat
  BY DialerAssumption DEF TypeOK
<1>2. Len(cold) \in Nat /\ Len(SetAdd(cold, p)) \in Nat /\ Len(SetDelete(cold, p)) \in Nat
  BY <1>1, SetTypes, LenProperties
<1>3. CASE isCold
  <2>1. Len(cold) < MaxColdCalls /\ p \notin Elems(normal)
    BY <1>1, <1>2, <1>3 DEF ColdRefused
  <2>2. /\ cold' = SetAdd(cold, p) /\ normal' = normal
    BY <1>3 DEF Enlist
  <2>3. IsASet(cold') /\ Elems(cold') = Elems(cold) \cup {p} /\ Len(cold') <= Len(cold) + 1
    BY <1>1, <2>2, AddFacts DEF WaitingInv
  <2> QED
    BY <1>1, <1>2, <2>1, <2>2, <2>3 DEF WaitingInv, ColdCallsAreBounded
<1>4. CASE ~isCold
  <2>1. /\ cold' = SetDelete(cold, p) /\ normal' = SetAdd(normal, p)
    BY <1>4 DEF Enlist
  <2>2. IsASet(cold') /\ Elems(cold') = Elems(cold) \ {p} /\ Len(cold') <= Len(cold)
    BY <1>1, <2>1, DeleteFacts DEF WaitingInv
  <2>3. Elems(normal') \subseteq Elems(normal) \cup {p}
    <3>1. CASE p \in Elems(normal)
      BY <2>1, <3>1 DEF SetAdd
    <3>2. CASE p \notin Elems(normal)
      BY <1>1, <2>1, <3>2 DEF SetAdd, Elems
    <3> QED
      BY <3>1, <3>2
  <2> QED
    BY <1>1, <1>2, <2>1, <2>2, <2>3 DEF WaitingInv, ColdCallsAreBounded
<1> QED
  BY <1>3, <1>4

(* A step that moves no peer into or out of a waiting set. *)
NoWait == UNCHANGED <<normal, cold>>

(* The steps that change the waiting sets: run(), a dial, and stop().        *)
LEMMA WaitingSteps ==
  Next => NoWait \/ Run \/ ManagerStop \/ \E r \in Requests : DialQueued(r)
<1>1. \A p : PeerStep(p) => NoWait
  BY DEF PeerStep, QueueRunStops, QueueRunReuses, QueueRunCreates, AbortNext, AbortEnds,
         Delete, mgrVars, NoWait
<1>2. \A r : RequestStep(r) => NoWait
  BY DEF RequestStep, OnError, DisconnectMuxed, DisconnectNow, mgrVars, NoWait
<1>3. Callback \/ CloseAll \/ StopNext \/ CleanNext \/ UserReturn => NoWait
  BY DEF Callback, CloseAll, StopNext, CleanNext, UserReturn, mgrVars, NoWait
<1>4. UserStep => NoWait \/ \E r \in Requests : DialQueued(r)
  BY DEF UserStep, UserTurn, UserCloses, HangUp, ClearDenylist, DialRefused, DialDenied,
         mgrVars, NoWait
<1>5. \A r : AttemptStep(r) => NoWait
  BY DEF AttemptStep, TransportConnects, AttemptFails, Muxes, Unmuxes, mgrVars, NoWait
<1>6. \A r : ShakeEnds(r) \/ Identified(r) \/ IdentifyFails(r) \/ MuxerCloses(r)
               \/ MuxerEnds(r) \/ LateConnect(r) => NoWait
  BY DEF ShakeEnds, Identified, IdentifyFails, MuxerCloses, MuxerEnds, LateConnect,
         mgrVars, NoWait
<1>7. \A p : InboundMuxes(p) \/ InboundCloses(p) \/ InboundEnds(p) \/ DenyExpires(p) => NoWait
  BY DEF InboundMuxes, InboundCloses, InboundEnds, DenyExpires, mgrVars, NoWait
<1>8. Clean \/ CloseConnections \/ ManagerStart => NoWait
  BY DEF Clean, CloseConnections, ManagerStart, mgrVars, NoWait
<1> QED
  BY <1>1, <1>2, <1>3, <1>4, <1>5, <1>6, <1>7, <1>8 DEF Next, TurnStep, EnvStep

(* At every step a peer waits in at most one of the two sets and the cold    *)
(* calls are within MAX_COLD_CALLS, however cold and normal calls to the     *)
(* same peer, aborted queues and restarts follow each other.                 *)
THEOREM WaitingInvariant == Spec => []WaitingInv
<1>1. Init => WaitingInv
  BY DialerAssumption DEF Init, WaitingInv, IsASet, ColdCallsAreBounded, Elems
<1>2. TypeOK /\ WaitingInv /\ [Next]_vars => WaitingInv'
  <2> SUFFICES ASSUME TypeOK, WaitingInv, [Next]_vars PROVE WaitingInv'
    OBVIOUS
  <2>1. CASE NoWait
    BY <2>1 DEF NoWait, WaitingInv, ColdCallsAreBounded
  <2>2. CASE Run
    <3>1. normal \in Seq(Peers) /\ cold \in Seq(Peers) /\ MaxColdCalls \in Nat
      BY DialerAssumption DEF TypeOK
    <3>2. CASE normal # <<>> /\ normal' = Tail(normal) /\ cold' = cold
      <4>1. Elems(normal') \subseteq Elems(normal)
        BY <3>1, <3>2, TailFacts
      <4> QED
        BY <3>2, <4>1 DEF WaitingInv, ColdCallsAreBounded
    <3>3. CASE cold # <<>> /\ cold' = Tail(cold) /\ normal' = normal
      <4>1. IsASet(cold') /\ Elems(cold') \subseteq Elems(cold) /\ Len(cold') <= Len(cold)
        BY <3>1, <3>3, TailFacts DEF WaitingInv
      <4>2. Len(cold) \in Nat /\ Len(cold') \in Nat
        BY <3>1, <3>3, Pushing, LenProperties
      <4> QED
        BY <3>1, <3>3, <4>1, <4>2 DEF WaitingInv, ColdCallsAreBounded
    <3> QED
      BY <2>1, <2>2, <3>2, <3>3 DEF Run, NoWait
  <2>3. ASSUME NEW r \in Requests, DialQueued(r) PROVE WaitingInv'
    <3>1. PICK c \in Calls :
            /\ ~(c.kind.cold /\ ColdRefused(c.peer))
            /\ NoWait \/ Enlist(c.peer, c.kind.cold)
      BY <2>3 DEF DialQueued, NoWait
    <3> QED
      BY <2>1, <3>1, EnlistKeepsWaiting, PeerTypes
  <2>4. CASE ManagerStop
    <3>1. normal' = <<>> /\ cold' = <<>>
      BY <2>4 DEF ManagerStop
    <3> QED
      BY <3>1, DialerAssumption DEF WaitingInv, IsASet, ColdCallsAreBounded, Elems
  <2> QED
    BY <2>1, <2>2, <2>3, <2>4, WaitingSteps DEF vars, mgrVars, NoWait
<1> QED
  BY <1>1, <1>2, TypeCorrect, PTL DEF Spec

(* A peer is in at most one of the two waiting sets, and the cold calls      *)
(* never exceed their limit.                                                 *)
THEOREM ColdCallsAreBoundedHolds == Spec => []ColdCallsAreBounded
<1>1. WaitingInv => ColdCallsAreBounded
  BY DEF WaitingInv
<1> QED
  BY <1>1, WaitingInvariant, PTL

-----------------------------------------------------------------------------
(* What is left of a turn: a Queue object that the manager drops is idle,   *)
(* however callbacks, nested dials and other queues ran between its abort   *)
(* and its removal.                                                         *)

(* The frames of stop() and _clean(): one that removes a Queue object, or    *)
(* the rest of the walk over the queues.                                     *)
Dropping(f) == f.op \in {"delete", "stop", "_clean"}

(* A turn removes one queue at a time: at most one removal is due, before    *)
(* the one walk that goes on after it.                                       *)
OneDrop ==
  \A i, j \in DOMAIN agenda :
    i < j /\ Dropping(agenda[i]) /\ Dropping(agenda[j])
      => agenda[i].op = "delete" /\ agenda[j].op # "delete"

(* A walk over the queues is never part of a fresh turn of the user. *)
NoFreshDrop == \A i, j \in DOMAIN agenda : agenda[i] = UserF(FALSE) => ~Dropping(agenda[j])

(* stop() stopped the manager before it walks over the queues. *)
StopIsStopped == \A i \in DOMAIN agenda : agenda[i].op = "stop" => ~mgrRunning

TurnInv == OneDrop /\ NoFreshDrop /\ StopIsStopped

Denied(p) == denylisted[p] \in {"until", "Infinity"}
Idle(p)   == queue[p] = <<>> /\ p \notin running
Woken(p, i) == \E j \in 1 .. i - 1 : agenda[j] = QueueRunF(p)

(* The queue that frame i removes is still to be aborted; when that is done  *)
(* nothing fills it again: the peer is denied, or the manager is stopped, or *)
(* the queue is idle already.                                                *)
Aborts(p, i) ==
  /\ i > 1 /\ agenda[i - 1] = AbortF(p)
  /\ Denied(p) \/ ~mgrRunning \/ (Idle(p) /\ i = 2)

(* The queue that frame i removes was aborted: it is empty, will stop before *)
(* it is removed if it was started again, and nothing fills it meanwhile.    *)
Drained(p, i) ==
  /\ queue[p] = <<>> /\ (p \in running => Woken(p, i))
  /\ \/ Denied(p) \/ i = 1
     \/ ~mgrRunning /\ i = 2 /\ agenda[1] = RunF

DropInv ==
  \A p \in Peers, i \in DOMAIN agenda :
    agenda[i] = DeleteF(p) => Aborts(p, i) \/ Drained(p, i)

-----------------------------------------------------------------------------
(* Moving the frames of a turn.                                             *)

Harmless(f) == ~Dropping(f) /\ f # UserF(FALSE)
Innocent(s) == \A i \in DOMAIN s : Harmless(s[i])

(* A step takes c frames off the turn and puts n in front of it: the others  *)
(* move, and a frame that removes, walks or is fresh is one that moved.      *)
Moved(n, c) ==
  /\ n <= Len(agenda')
  /\ \A k \in DOMAIN agenda :
       k > c => k - c + n \in DOMAIN agenda' /\ agenda'[k - c + n] = agenda[k]
  /\ \A i \in DOMAIN agenda' :
       ~Harmless(agenda'[i])
         => i > n /\ i - n + c \in DOMAIN agenda /\ agenda'[i] = agenda[i - n + c]

(* The name of every function a frame runs. *)
LEMMA FrameNames ==
  /\ RunF.op = "run"
  /\ \A p : QueueRunF(p).op = "_run" /\ AbortF(p).op = "abort" /\ DeleteF(p).op = "delete"
  /\ \A r, a : CallbackF(r, a).op = "callback" /\ DisconnectF(r, a).op = "disconnect"
  /\ \A r : OnErrorF(r).op = "onError" /\ CloseAllF(r).op = "closeAll"
  /\ \A P : StopF(P).op = "stop" /\ CleanF(P).op = "_clean"
  /\ \A b : UserF(b).op = "user"
  BY DEF RunF, QueueRunF, AbortF, DeleteF, CallbackF, DisconnectF, OnErrorF, CloseAllF, StopF,
         CleanF, UserF

(* The frames tell which peer they are for. *)
LEMMA FramePeers ==
  /\ \A p, q : QueueRunF(p) = QueueRunF(q) => p = q
  /\ \A p, q : AbortF(p) = AbortF(q) => p = q
  /\ \A p, q : DeleteF(p) = DeleteF(q) => p = q
  /\ UserF(TRUE) # UserF(FALSE)
<1>1. \A p, q : QueueRunF(p) = QueueRunF(q) => p = q
  BY DEF QueueRunF
<1>2. \A p, q : AbortF(p) = AbortF(q) => p = q
  BY DEF AbortF
<1>3. \A p, q : DeleteF(p) = DeleteF(q) => p = q
  BY DEF DeleteF
<1>4. UserF(TRUE) # UserF(FALSE)
  BY DEF UserF
<1> QED
  BY <1>1, <1>2, <1>3, <1>4

(* Every frame but the removals, the walks and the fresh turns is harmless. *)
LEMMA HarmlessFrames ==
  /\ Harmless(RunF) /\ Harmless(UserF(TRUE))
  /\ \A p : Harmless(QueueRunF(p)) /\ Harmless(AbortF(p)) /\ ~Harmless(DeleteF(p))
  /\ \A r, a : Harmless(CallbackF(r, a)) /\ Harmless(DisconnectF(r, a))
  /\ \A r : Harmless(OnErrorF(r)) /\ Harmless(CloseAllF(r))
  /\ \A P : ~Harmless(StopF(P)) /\ ~Harmless(CleanF(P))
<1>1. UserF(FALSE).op = "user"
  BY FrameNames
<1>2. \A f : f.op \notin {"delete", "stop", "_clean", "user"} => Harmless(f)
  BY <1>1 DEF Harmless, Dropping
<1>3. \A f : f.op \in {"delete", "stop", "_clean"} => ~Harmless(f)
  BY DEF Harmless, Dropping
<1>4. Harmless(UserF(TRUE))
  BY FrameNames, FramePeers DEF Harmless, Dropping
<1>5. Harmless(RunF)
  BY <1>2, FrameNames
<1>6. \A p : Harmless(QueueRunF(p)) /\ Harmless(AbortF(p)) /\ ~Harmless(DeleteF(p))
  BY <1>2, <1>3, FrameNames
<1>7. \A r, a : Harmless(CallbackF(r, a)) /\ Harmless(DisconnectF(r, a))
  BY <1>2, FrameNames
<1>8. \A r : Harmless(OnErrorF(r)) /\ Harmless(CloseAllF(r))
  BY <1>2, FrameNames
<1>9. \A P : ~Harmless(StopF(P)) /\ ~Harmless(CleanF(P))
  BY <1>3, FrameNames
<1> QED
  BY <1>4, <1>5, <1>6, <1>7, <1>8, <1>9

(* A short piece of a turn is innocent when its frames are harmless. *)
LEMMA ShortInnocent ==
  /\ Innocent(<<>>)
  /\ \A a : Harmless(a) => Innocent(<<a>>)
  /\ \A a, b : Harmless(a) /\ Harmless(b) => Innocent(<<a, b>>)
  /\ \A a, b, c : Harmless(a) /\ Harmless(b) /\ Harmless(c) => Innocent(<<a, b, c>>)
  BY DEF Innocent

(* Where the frames of two pieces are when one is put in front of the other. *)
LEMMA JoinFacts ==
  ASSUME NEW S, NEW s \in Seq(S), NEW t \in Seq(S)
  PROVE  /\ s \o t \in Seq(S) /\ Len(s \o t) = Len(s) + Len(t)
         /\ Len(s) \in Nat /\ Len(t) \in Nat
         /\ DOMAIN s = 1 .. Len(s) /\ DOMAIN t = 1 .. Len(t)
         /\ DOMAIN (s \o t) = 1 .. Len(s) + Len(t)
         /\ \A i \in 1 .. Len(s) : (s \o t)[i] = s[i]
         /\ \A i \in 1 .. Len(t) : (s \o t)[Len(s) + i] = t[i]
<1>1. /\ s \o t \in Seq(S) /\ Len(s \o t) = Len(s) + Len(t)
      /\ \A i \in 1 .. Len(s) + Len(t) :
           (s \o t)[i] = IF i <= Len(s) THEN s[i] ELSE t[i - Len(s)]
  BY ConcatProperties
<1>2. /\ Len(s) \in Nat /\ Len(t) \in Nat
      /\ DOMAIN s = 1 .. Len(s) /\ DOMAIN t = 1 .. Len(t)
      /\ DOMAIN (s \o t) = 1 .. Len(s) + Len(t)
  BY <1>1
<1> DEFINE m == Len(s)
           n == Len(t)
           u == s \o t
<1> HIDE DEF m, n, u
<1>3. ASSUME NEW i \in 1 .. m PROVE u[i] = s[i]
  <2>1. i \in 1 .. m + n /\ i <= m
    BY <1>2 DEF m, n
  <2> QED
    BY <1>1, <2>1 DEF m, n, u
<1>4. ASSUME NEW i \in 1 .. n PROVE u[m + i] = t[i]
  <2>1. m + i \in 1 .. m + n /\ ~(m + i <= m) /\ (m + i) - m = i
    BY <1>2 DEF m, n
  <2> QED
    BY <1>1, <2>1 DEF m, n, u
<1> QED
  BY <1>1, <1>2, <1>3, <1>4 DEF m, n, u

(* One innocent piece after another is innocent. *)
LEMMA InnocentJoin ==
  ASSUME NEW s \in Seq(Frames), NEW t \in Seq(Frames), Innocent(s), Innocent(t)
  PROVE  Innocent(s \o t)
<1>1. /\ DOMAIN (s \o t) = 1 .. Len(s) + Len(t) /\ Len(s) \in Nat /\ Len(t) \in Nat
      /\ DOMAIN s = 1 .. Len(s) /\ DOMAIN t = 1 .. Len(t)
      /\ \A i \in 1 .. Len(s) + Len(t) :
           (s \o t)[i] = IF i <= Len(s) THEN s[i] ELSE t[i - Len(s)]
  BY ConcatProperties, JoinFacts
<1> SUFFICES ASSUME NEW i \in 1 .. Len(s) + Len(t) PROVE Harmless((s \o t)[i])
  BY <1>1 DEF Innocent
<1>2. CASE i <= Len(s)
  BY <1>1, <1>2 DEF Innocent
<1>3. CASE ~(i <= Len(s))
  <2>1. i - Len(s) \in DOMAIN t /\ (s \o t)[i] = t[i - Len(s)]
    BY <1>1, <1>3
  <2> QED
    BY <2>1 DEF Innocent
<1> QED
  BY <1>2, <1>3

(* Turn t is turn old without its first c frames, after new and before late. *)
Spliced(old, c, new, late, t) ==
  /\ Len(new) <= Len(t)
  /\ \A k \in DOMAIN old :
       k > c => k - c + Len(new) \in DOMAIN t /\ t[k - c + Len(new)] = old[k]
  /\ \A i \in DOMAIN t :
       \/ \E k \in DOMAIN new : t[i] = new[k]
       \/ \E k \in DOMAIN late : t[i] = late[k]
       \/ i > Len(new) /\ i - Len(new) + c \in DOMAIN old /\ t[i] = old[i - Len(new) + c]

(* Where the frames of a turn go when c of them are taken off its front, a   *)
(* piece is put in front of the others and a piece at their end.             *)
LEMMA SplicedFrames ==
  ASSUME NEW old \in Seq(Frames), NEW c \in Nat,
         NEW kept \in Seq(Frames), Len(kept) + c = Len(old),
         \A k \in 1 .. Len(kept) : kept[k] = old[k + c],
         NEW new \in Seq(Frames), NEW late \in Seq(Frames),
         NEW s \in Seq(Frames), s = new \o kept, NEW t \in Seq(Frames), t = s \o late
  PROVE  Spliced(old, c, new, late, t)
<1>1. /\ Len(s) = Len(new) + Len(kept)
      /\ \A k \in 1 .. Len(new) : s[k] = new[k]
      /\ \A k \in 1 .. Len(kept) : s[Len(new) + k] = kept[k]
  <2>1. /\ Len(new \o kept) = Len(new) + Len(kept)
        /\ \A k \in 1 .. Len(new) : (new \o kept)[k] = new[k]
        /\ \A k \in 1 .. Len(kept) : (new \o kept)[Len(new) + k] = kept[k]
    BY JoinFacts
  <2> QED
    BY <2>1
<1>2. /\ Len(t) = Len(s) + Len(late) /\ DOMAIN t = 1 .. Len(s) + Len(late)
      /\ \A k \in 1 .. Len(s) : t[k] = s[k]
      /\ \A k \in 1 .. Len(late) : t[Len(s) + k] = late[k]
  <2>1. /\ Len(s \o late) = Len(s) + Len(late) /\ DOMAIN (s \o late) = 1 .. Len(s) + Len(late)
        /\ \A k \in 1 .. Len(s) : (s \o late)[k] = s[k]
        /\ \A k \in 1 .. Len(late) : (s \o late)[Len(s) + k] = late[k]
    BY JoinFacts
  <2> QED
    BY <2>1
<1>3. /\ DOMAIN old = 1 .. Len(old) /\ DOMAIN new = 1 .. Len(new)
      /\ DOMAIN late = 1 .. Len(late)
      /\ Len(new) \in Nat /\ Len(late) \in Nat /\ Len(kept) \in Nat
  OBVIOUS
<1> DEFINE l == Len(new)
           m == Len(kept)
           n == Len(late)
<1>4. /\ l \in Nat /\ m \in Nat /\ n \in Nat /\ Len(s) = l + m
      /\ DOMAIN t = 1 .. l + m + n /\ DOMAIN old = 1 .. m + c
  BY <1>1, <1>2, <1>3
<1>5. ASSUME NEW k \in 1 .. m PROVE t[l + k] = old[k + c] /\ l + k \in DOMAIN t
  <2>1. l + k \in 1 .. Len(s) /\ l + k \in 1 .. l + m + n
    BY <1>4
  <2>2. s[l + k] = kept[k] /\ kept[k] = old[k + c]
    BY <1>1
  <2> QED
    BY <1>2, <1>4, <2>1, <2>2
<1>6. ASSUME NEW k \in 1 .. l PROVE t[k] = new[k]
  BY <1>1, <1>2, <1>4
<1> HIDE DEF l, m, n
<1>7. ASSUME NEW k \in DOMAIN old, k > c
      PROVE  k - c + l \in DOMAIN t /\ t[k - c + l] = old[k]
  <2>0. l \in Nat /\ m \in Nat /\ c \in Nat /\ k \in 1 .. m + c /\ k > c
    BY <1>4, <1>7
  <2>1. k - c \in 1 .. m /\ k - c + c = k /\ k - c + l = l + (k - c)
    BY ONLY <2>0
  <2> QED
    BY <1>5, <2>1
<1>8. ASSUME NEW i \in DOMAIN t
      PROVE  \/ \E k \in DOMAIN new : t[i] = new[k]
             \/ \E k \in DOMAIN late : t[i] = late[k]
             \/ i > l /\ i - l + c \in DOMAIN old /\ t[i] = old[i - l + c]
  <2>0. l \in Nat /\ m \in Nat /\ n \in Nat /\ c \in Nat /\ i \in 1 .. l + m + n
    BY <1>4
  <2>1. CASE i <= l
    <3>1. i \in 1 .. l
      BY ONLY <2>0, <2>1
    <3> QED
      BY <1>3, <1>6, <3>1 DEF l
  <2>2. CASE i > l /\ i <= l + m
    <3>1. i - l \in 1 .. m /\ l + (i - l) = i /\ i - l + c \in 1 .. m + c
      BY ONLY <2>0, <2>2
    <3> QED
      BY <1>4, <1>5, <2>2, <3>1
  <2>3. CASE i > l + m
    <3>1. i - (l + m) \in 1 .. n /\ l + m + (i - (l + m)) = i
      BY ONLY <2>0, <2>3
    <3>2. t[Len(s) + (i - (l + m))] = late[i - (l + m)]
      BY <1>2, <3>1 DEF n
    <3> QED
      BY <1>3, <1>4, <3>1, <3>2 DEF n
  <2>4. i <= l \/ (i > l /\ i <= l + m) \/ i > l + m
    BY ONLY <2>0
  <2> QED
    BY <2>1, <2>2, <2>3, <2>4
<1>9. l <= Len(t)
  <2>1. Len(t) = l + m + n
    BY <1>2, <1>4 DEF n
  <2> QED
    BY <1>4, <2>1
<1> QED
  BY <1>7, <1>8, <1>9 DEF l, Spliced

(* Innocent frames in front of what is left of a turn, and at its end.       *)
LEMMA Splicing ==
  ASSUME agenda \in Seq(Frames), NEW c \in {0, 1}, c = 1 => agenda # <<>>,
         NEW new \in Seq(Frames), NEW late \in Seq(Frames), Innocent(new), Innocent(late),
         agenda' = (new \o (IF c = 0 THEN agenda ELSE Rest)) \o late
  PROVE  Moved(Len(new), c) /\ agenda' \in Seq(Frames)
<1>1. PICK kept : kept = IF c = 0 THEN agenda ELSE Rest
  OBVIOUS
<1>2. /\ kept \in Seq(Frames) /\ Len(kept) + c = Len(agenda) /\ c \in Nat
      /\ \A k \in 1 .. Len(kept) : kept[k] = agenda[k + c]
  BY <1>1 DEF Rest
<1>3. PICK s : s = new \o kept
  OBVIOUS
<1>4. s \in Seq(Frames) /\ agenda' = s \o late
  BY <1>1, <1>2, <1>3
<1>5. agenda' \in Seq(Frames)
  <2>1. s \o late \in Seq(Frames)
    BY <1>4
  <2> QED
    BY <1>4, <2>1
<1>6. PICK old \in Seq(Frames), t \in Seq(Frames) : old = agenda /\ t = agenda'
  BY <1>5
<1>7. Spliced(old, c, new, late, t)
  <2>1. /\ Len(kept) + c = Len(old) /\ \A k \in 1 .. Len(kept) : kept[k] = old[k + c]
        /\ t = s \o late
    BY <1>2, <1>4, <1>6
  <2> QED
    BY <1>2, <1>3, <1>4, <2>1, SplicedFrames
<1> QED
  BY <1>5, <1>6, <1>7, Zenon DEF Moved, Innocent, Spliced

(* The usual ways for a turn to go on. *)
LEMMA Moves ==
  ASSUME agenda \in Seq(Frames)
  PROVE  /\ agenda' = agenda => Moved(0, 0)
         /\ agenda # <<>> /\ agenda' = Rest => Moved(0, 1)
         /\ \A new \in Seq(Frames) : Innocent(new) /\ agenda' = new \o agenda
                                       => Moved(Len(new), 0)
         /\ \A new \in Seq(Frames) : Innocent(new) /\ agenda # <<>> /\ agenda' = new \o Rest
                                       => Moved(Len(new), 1)
<1>1. /\ <<>> \in Seq(Frames) /\ Innocent(<<>>) /\ Len(<<>>) = 0
      /\ agenda # <<>> => Rest \in Seq(Frames)
  BY ShortInnocent DEF Rest
<1>2. \A s \in Seq(Frames) : s \o <<>> = s /\ <<>> \o s = s
  OBVIOUS
<1>3. ASSUME NEW new \in Seq(Frames), Innocent(new), agenda' = new \o agenda
      PROVE  Moved(Len(new), 0)
  <2>1. new \o agenda \in Seq(Frames)
    OBVIOUS
  <2>2. agenda' = (new \o (IF 0 = 0 THEN agenda ELSE Rest)) \o <<>>
    BY <1>2, <1>3, <2>1
  <2> QED
    BY <1>1, <1>3, <2>2, Splicing, 0 \in {0, 1}, 0 # 1, Zenon
<1>4. ASSUME NEW new \in Seq(Frames), Innocent(new), agenda # <<>>, agenda' = new \o Rest
      PROVE  Moved(Len(new), 1)
  <2>1. new \o Rest \in Seq(Frames)
    BY <1>1, <1>4
  <2>2. agenda' = (new \o (IF 1 = 0 THEN agenda ELSE Rest)) \o <<>>
    BY <1>2, <1>4, <2>1
  <2> QED
    BY <1>1, <1>4, <2>2, Splicing
<1>5. agenda' = agenda => Moved(0, 0)
  BY <1>1, <1>2, <1>3
<1>6. agenda # <<>> /\ agenda' = Rest => Moved(0, 1)
  BY <1>1, <1>2, <1>4
<1> QED
  BY <1>3, <1>4, <1>5, <1>6

-----------------------------------------------------------------------------
(* The shape of a turn.                                                     *)

(* Frames that only move keep the shape of the turn. *)
LEMMA MovedKeepsTurn ==
  ASSUME agenda \in Seq(Frames), agenda' \in Seq(Frames), TurnInv, mgrRunning' = mgrRunning,
         NEW n \in Nat, NEW c \in {0, 1}, Moved(n, c)
  PROVE  TurnInv'
<1> DEFINE From(i) == i - n + c
<1>1. DOMAIN agenda = 1 .. Len(agenda) /\ DOMAIN agenda' = 1 .. Len(agenda')
      /\ Len(agenda) \in Nat /\ Len(agenda') \in Nat
  OBVIOUS
<1>2. \A i \in DOMAIN agenda' : ~Harmless(agenda'[i]) =>
        From(i) \in DOMAIN agenda /\ agenda'[i] = agenda[From(i)]
  BY DEF Moved
<1>3. \A i \in DOMAIN agenda' : Dropping(agenda'[i]) => ~Harmless(agenda'[i])
  BY DEF Harmless
<1>4. \A i, j \in DOMAIN agenda' : i < j => From(i) < From(j)
  BY <1>1
<1> HIDE DEF From
<1>5. OneDrop'
  <2> SUFFICES ASSUME NEW i \in DOMAIN agenda', NEW j \in DOMAIN agenda', i < j,
                      Dropping(agenda'[i]), Dropping(agenda'[j])
               PROVE  agenda'[i].op = "delete" /\ agenda'[j].op # "delete"
    BY DEF OneDrop, Dropping
  <2>1. /\ From(i) \in DOMAIN agenda /\ From(j) \in DOMAIN agenda /\ From(i) < From(j)
        /\ agenda'[i] = agenda[From(i)] /\ agenda'[j] = agenda[From(j)]
    BY <1>2, <1>3, <1>4
  <2> QED
    BY <2>1 DEF TurnInv, OneDrop
<1>6. NoFreshDrop'
  <2> SUFFICES ASSUME NEW i \in DOMAIN agenda', NEW j \in DOMAIN agenda',
                      agenda'[i] = UserF(FALSE), Dropping(agenda'[j])
               PROVE  FALSE
    BY DEF NoFreshDrop, Dropping
  <2>1. ~Harmless(agenda'[i])
    BY DEF Harmless
  <2>2. /\ From(i) \in DOMAIN agenda /\ From(j) \in DOMAIN agenda
        /\ agenda'[i] = agenda[From(i)] /\ agenda'[j] = agenda[From(j)]
    BY <1>2, <1>3, <2>1
  <2> QED
    BY <2>2 DEF TurnInv, NoFreshDrop
<1>7. StopIsStopped'
  <2> SUFFICES ASSUME NEW i \in DOMAIN agenda', agenda'[i].op = "stop" PROVE ~mgrRunning'
    BY DEF StopIsStopped
  <2>1. From(i) \in DOMAIN agenda /\ agenda'[i] = agenda[From(i)]
    BY <1>2, <1>3 DEF Dropping
  <2> QED
    BY <2>1 DEF TurnInv, StopIsStopped
<1> QED
  BY <1>5, <1>6, <1>7 DEF TurnInv

(* A step of a walk over the queues that goes on: it aborts and removes one  *)
(* queue next, or passes over it.                                            *)
Walks ==
  \E w \in Frames :
    /\ w.op = Head(agenda).op
    /\ \/ agenda' = <<w>> \o Rest
       \/ \E p \in Peers :
            /\ agenda' = <<AbortF(p), DeleteF(p), w>> \o Rest
            /\ w.op = "_clean" => Cleanable(p)

(* Behind a walk no frame removes, walks or is fresh. *)
LEMMA BehindWalk ==
  ASSUME agenda \in Seq(Frames), agenda # <<>>, TurnInv, Head(agenda).op \in {"stop", "_clean"}
  PROVE  Rest \in Seq(Frames) /\ Innocent(Rest)
<1>1. /\ Rest \in Seq(Frames) /\ DOMAIN Rest = 1 .. Len(agenda) - 1
      /\ DOMAIN agenda = 1 .. Len(agenda) /\ Len(agenda) \in Nat /\ 1 \in DOMAIN agenda
      /\ \A i \in 1 .. Len(agenda) - 1 : Rest[i] = agenda[i + 1]
      /\ Head(agenda) = agenda[1]
  BY DEF Rest
<1>2. Dropping(agenda[1]) /\ agenda[1].op # "delete"
  BY <1>1 DEF Dropping
<1>3. ASSUME NEW i \in 1 .. Len(agenda) - 1 PROVE Harmless(agenda[i + 1])
  <2>1. i + 1 \in DOMAIN agenda /\ 1 < i + 1
    BY <1>1
  <2>2. ~Dropping(agenda[i + 1])
    BY <1>1, <1>2, <2>1 DEF TurnInv, OneDrop
  <2>3. agenda[i + 1] # UserF(FALSE)
    BY <1>1, <1>2, <2>1 DEF TurnInv, NoFreshDrop
  <2> QED
    BY <2>2, <2>3 DEF Harmless
<1> QED
  BY <1>1, <1>3 DEF Innocent

(* A walk keeps the shape of the turn, and leaves the queue it removes next  *)
(* to be aborted.                                                            *)
LEMMA WalkKeepsTurn ==
  ASSUME agenda \in Seq(Frames), agenda # <<>>, TurnInv,
         Head(agenda).op \in {"stop", "_clean"}, Walks,
         mgrRunning' = mgrRunning, UNCHANGED <<denylisted, queue, running>>
  PROVE  TurnInv' /\ DropInv'
<1> DEFINE k == Rest
<1>0. Rest \in Seq(Frames) /\ Innocent(Rest)
  BY BehindWalk
<1>1. PICK w \in Frames :
        /\ w.op = Head(agenda).op
        /\ \/ agenda' = <<w>> \o Rest
           \/ \E p \in Peers :
                /\ agenda' = <<AbortF(p), DeleteF(p), w>> \o Rest
                /\ w.op = "_clean" => Cleanable(p)
  BY DEF Walks
<1>2. w.op \in {"stop", "_clean"} /\ w # UserF(FALSE) /\ (w.op = "stop" => ~mgrRunning)
  <2>1. 1 \in DOMAIN agenda /\ Head(agenda) = agenda[1]
    OBVIOUS
  <2> QED
    BY <1>1, <2>1, FrameNames DEF TurnInv, StopIsStopped
<1> HIDE DEF k
<1>3. PICK rest : rest = Rest
  OBVIOUS
<1>4. rest \in Seq(Frames) /\ Innocent(rest) /\ DOMAIN rest = 1 .. Len(rest) /\ Len(rest) \in Nat
  BY <1>0, <1>3
<1>5. CASE agenda' = <<w>> \o Rest
  <2>1. /\ DOMAIN agenda' = 1 .. 1 + Len(rest) /\ agenda'[1] = w
        /\ \A i \in 1 .. Len(rest) : agenda'[1 + i] = rest[i]
    BY <1>3, <1>4, <1>5
  <2>2. \A i \in DOMAIN agenda' : i = 1 \/ Harmless(agenda'[i])
    <3> SUFFICES ASSUME NEW i \in DOMAIN agenda', i # 1 PROVE Harmless(agenda'[i])
      OBVIOUS
    <3>1. i - 1 \in 1 .. Len(rest) /\ 1 + (i - 1) = i
      BY <1>4, <2>1
    <3> QED
      BY <1>4, <2>1, <3>1 DEF Innocent
  <2>3. TurnInv'
    <3>1. \A i \in DOMAIN agenda' : Dropping(agenda'[i]) \/ agenda'[i] = UserF(FALSE) => i = 1
      BY <2>2 DEF Harmless
    <3>2. OneDrop'
      <4> SUFFICES ASSUME NEW i \in DOMAIN agenda', NEW j \in DOMAIN agenda', i < j,
                          Dropping(agenda'[i]), Dropping(agenda'[j])
                   PROVE  FALSE
        BY DEF OneDrop, Dropping
      <4>1. i = 1 /\ j = 1
        BY <3>1
      <4> QED
        BY <4>1
    <3>3. NoFreshDrop'
      BY <1>2, <2>1, <3>1 DEF NoFreshDrop, Dropping
    <3>4. StopIsStopped'
      BY <1>2, <2>1, <3>1 DEF StopIsStopped, Dropping
    <3> QED
      BY <3>2, <3>3, <3>4 DEF TurnInv
  <2>4. DropInv'
    <3> SUFFICES ASSUME NEW p \in Peers, NEW i \in DOMAIN agenda', agenda'[i] = DeleteF(p)
                 PROVE  FALSE
      BY DEF DropInv
    <3>1. w = DeleteF(p)
      BY <2>1, <2>2, HarmlessFrames
    <3> QED
      BY <1>2, <3>1, FrameNames
  <2> QED
    BY <2>3, <2>4
<1>6. ASSUME NEW p \in Peers, agenda' = <<AbortF(p), DeleteF(p), w>> \o Rest,
             w.op = "_clean" => Cleanable(p)
      PROVE  TurnInv' /\ DropInv'
  <2>1. /\ DOMAIN agenda' = 1 .. 3 + Len(rest)
        /\ agenda'[1] = AbortF(p) /\ agenda'[2] = DeleteF(p) /\ agenda'[3] = w
        /\ \A i \in 1 .. Len(rest) : agenda'[3 + i] = rest[i]
    BY <1>3, <1>4, <1>6
  <2>2. \A i \in DOMAIN agenda' : i = 2 \/ i = 3 \/ Harmless(agenda'[i])
    <3> SUFFICES ASSUME NEW i \in DOMAIN agenda', i \notin {1, 2, 3} PROVE Harmless(agenda'[i])
      BY <2>1, HarmlessFrames
    <3>1. i - 3 \in 1 .. Len(rest) /\ 3 + (i - 3) = i
      BY <1>4, <2>1
    <3> QED
      BY <1>4, <2>1, <3>1 DEF Innocent
  <2>3. TurnInv'
    <3>1. \A i \in DOMAIN agenda' :
            Dropping(agenda'[i]) \/ agenda'[i] = UserF(FALSE) => i = 2 \/ i = 3
      BY <2>2 DEF Harmless
    <3>2. agenda'[2].op = "delete" /\ agenda'[2] # UserF(FALSE)
      BY <2>1, FrameNames
    <3>3. OneDrop'
      <4> SUFFICES ASSUME NEW i \in DOMAIN agenda', NEW j \in DOMAIN agenda', i < j,
                          Dropping(agenda'[i]), Dropping(agenda'[j])
                   PROVE  agenda'[i].op = "delete" /\ agenda'[j].op # "delete"
        BY DEF OneDrop, Dropping
      <4>1. i \in {2, 3} /\ j \in {2, 3}
        BY <3>1
      <4>2. i = 2 /\ j = 3
        BY <4>1
      <4> QED
        BY <1>2, <2>1, <3>2, <4>2
    <3>4. NoFreshDrop'
      BY <1>2, <2>1, <3>1, <3>2 DEF NoFreshDrop, Dropping
    <3>5. StopIsStopped'
      BY <1>2, <2>1, <3>1, <3>2 DEF StopIsStopped, Dropping
    <3> QED
      BY <3>3, <3>4, <3>5 DEF TurnInv
  <2>4. DropInv'
    <3> SUFFICES ASSUME NEW q \in Peers, NEW i \in DOMAIN agenda', agenda'[i] = DeleteF(q)
                 PROVE  Aborts(q, i)'
      BY DEF DropInv
    <3>1. i = 2 /\ q = p
      BY <1>2, <2>1, <2>2, HarmlessFrames, FrameNames, FramePeers
    <3>2. Denied(p) \/ ~mgrRunning \/ Idle(p)
      BY <1>2, <1>6 DEF Cleanable, Denied, Idle
    <3> QED
      BY <2>1, <3>1, <3>2 DEF Aborts, Denied, Idle
  <2> QED
    BY <2>3, <2>4
<1> QED
  BY <1>1, <1>5, <1>6

-----------------------------------------------------------------------------
(* What a step of a turn does to the queue of one peer.                     *)

(* A step that takes c frames off the turn and puts n in front of it, seen   *)
(* from a queue that may be about to be removed.                             *)
Leaves(p, n, c) ==
  /\ Denied(p) /\ ~Top(DeleteF(p)) => Denied(p)' /\ (queue[p] = <<>> => queue'[p] = <<>>)
  /\ p \in running' /\ p \notin running => n >= 1 /\ agenda'[1] = QueueRunF(p)
  /\ Top(QueueRunF(p)) /\ queue[p] = <<>> => p \notin running'
  /\ Top(AbortF(p)) /\ c = 1 => Idle(p)' /\ (n = 0 \/ (n = 1 /\ agenda'[1] = RunF))
  /\ Top(AbortF(p)) /\ Idle(p) => n = 0 /\ c = 1
  /\ Top(DeleteF(p)) => c = 1
  /\ Top(RunF) /\ ~mgrRunning => /\ n = 0 /\ c = 1
                                /\ running' = running /\ queue' = queue

(* What every step of a turn does, but those of a walk and a reset of the    *)
(* denylist.                                                                 *)
TurnEffect ==
  /\ mgrRunning' = mgrRunning
  /\ \E n \in Nat, c \in {0, 1} : Moved(n, c) /\ \A p \in Peers : Leaves(p, n, c)

(* Such a step keeps what is known of a queue that a frame will remove.      *)
LEMMA EffectKeepsDrop ==
  ASSUME agenda \in Seq(Frames), agenda' \in Seq(Frames), agenda # <<>>, TurnInv, DropInv,
         TurnEffect
  PROVE  DropInv'
<1> SUFFICES ASSUME NEW p \in Peers, NEW h \in DOMAIN agenda', agenda'[h] = DeleteF(p)
             PROVE  (Aborts(p, h) \/ Drained(p, h))'
  BY DEF DropInv
<1>1. PICK n \in Nat, c \in {0, 1} : Moved(n, c) /\ Leaves(p, n, c)
  BY DEF TurnEffect
<1>2. PICK i \in DOMAIN agenda : i = h - n + c
  BY <1>1, HarmlessFrames DEF Moved
<1>3. /\ agenda[i] = DeleteF(p) /\ h > n /\ h = i - c + n
      /\ DOMAIN agenda = 1 .. Len(agenda) /\ Len(agenda) \in Nat
      /\ DOMAIN agenda' = 1 .. Len(agenda') /\ Len(agenda') \in Nat
      /\ 1 \in DOMAIN agenda /\ Head(agenda) = agenda[1] /\ c \in Nat
  BY <1>1, <1>2, HarmlessFrames DEF Moved
<1>4. i > c
  BY <1>3
<1>5. ~Top(DeleteF(p))
  <2>1. SUFFICES ASSUME Top(DeleteF(p)) PROVE FALSE
    OBVIOUS
  <2>2. c = 1 /\ agenda[1] = DeleteF(p) /\ 1 < i
    BY <1>1, <1>3, <1>4, <2>1 DEF Leaves, Top
  <2>3. agenda[1].op = "delete" /\ agenda[i].op = "delete"
    BY <1>3, <2>2, FrameNames
  <2> QED
    BY <1>3, <2>2, <2>3 DEF TurnInv, OneDrop, Dropping
<1>6. \A f : agenda[1] = f <=> Top(f)
  BY <1>3 DEF Top
<1>7. i > 1
  BY <1>3, <1>5, <1>6
<1>8. \A k \in DOMAIN agenda :
        k > c => k - c + n \in DOMAIN agenda' /\ agenda'[k - c + n] = agenda[k]
  BY <1>1 DEF Moved
<1>9. Denied(p) => Denied(p)' /\ (queue[p] = <<>> => queue'[p] = <<>>)
  BY <1>1, <1>5 DEF Leaves
<1>10. mgrRunning' = mgrRunning
  BY DEF TurnEffect
<1>11. CASE Aborts(p, i)
  <2>1. CASE i - 1 > c
    <3>1. /\ i - 1 \in DOMAIN agenda /\ h - 1 = i - 1 - c + n /\ h > 1
      BY <1>3, <1>7, <2>1
    <3>2. agenda'[h - 1] = AbortF(p)
      BY <1>8, <1>11, <2>1, <3>1 DEF Aborts
    <3>3. Denied(p) \/ ~mgrRunning
      <4>1. SUFFICES ASSUME i = 2, Idle(p) PROVE FALSE
        BY <1>11 DEF Aborts
      <4>2. Top(AbortF(p))
        BY <1>6, <1>11, <4>1 DEF Aborts
      <4>3. c = 1
        BY <1>1, <4>1, <4>2 DEF Leaves
      <4> QED
        BY <2>1, <4>1, <4>3
    <3> QED
      BY <1>9, <1>10, <3>1, <3>2, <3>3 DEF Aborts
  <2>2. CASE ~(i - 1 > c)
    <3>1. i = 2 /\ c = 1 /\ h = n + 1
      BY <1>3, <1>7, <2>2
    <3>2. Top(AbortF(p))
      BY <1>6, <1>11, <3>1 DEF Aborts
    <3>3. Idle(p)' /\ (n = 0 \/ (n = 1 /\ agenda'[1] = RunF)) /\ (Idle(p) => n = 0)
      BY <1>1, <3>1, <3>2 DEF Leaves
    <3>4. Denied(p) \/ ~mgrRunning \/ Idle(p)
      BY <1>11 DEF Aborts
    <3> QED
      BY <1>9, <1>10, <3>1, <3>3, <3>4 DEF Drained, Idle
  <2> QED
    BY <2>1, <2>2
<1>12. CASE Drained(p, i)
  <2>1. CASE Denied(p)
    <3>1. queue'[p] = <<>> /\ Denied(p)'
      BY <1>9, <1>12, <2>1 DEF Drained
    <3>2. ASSUME p \in running' PROVE Woken(p, h)'
      <4>1. CASE p \notin running
        <5>1. n >= 1 /\ agenda'[1] = QueueRunF(p)
          BY <1>1, <3>2, <4>1 DEF Leaves
        <5>2. 1 \in 1 .. h - 1
          BY <1>3, <5>1
        <5> QED
          BY <5>1, <5>2 DEF Woken
      <4>2. CASE p \in running
        <5>1. PICK j \in 1 .. i - 1 : agenda[j] = QueueRunF(p)
          BY <1>12, <4>2 DEF Drained, Woken
        <5>2. ~Top(QueueRunF(p))
          BY <1>1, <1>12, <3>2 DEF Leaves, Drained
        <5>3. j # 1
          BY <1>6, <5>1, <5>2
        <5>4. j \in DOMAIN agenda /\ j > c /\ j - c + n \in 1 .. h - 1
          BY <1>3, <5>1, <5>3
        <5> QED
          BY <1>8, <5>1, <5>4 DEF Woken
      <4> QED
        BY <4>1, <4>2
    <3> QED
      BY <3>1, <3>2 DEF Drained
  <2>2. CASE ~mgrRunning /\ i = 2 /\ agenda[1] = RunF
    <3>1. n = 0 /\ c = 1 /\ running' = running /\ queue' = queue
      BY <1>1, <1>6, <2>2 DEF Leaves
    <3>2. h = 1
      BY <1>3, <2>2, <3>1
    <3>3. p \notin running
      <4>1. RunF # QueueRunF(p)
        BY FrameNames
      <4>2. \A j \in 1 .. i - 1 : j = 1
        BY <2>2
      <4> QED
        BY <1>12, <2>2, <4>1, <4>2 DEF Drained, Woken
    <3> QED
      BY <1>12, <3>1, <3>2, <3>3 DEF Drained
  <2> QED
    BY <1>7, <1>12, <2>1, <2>2 DEF Drained
<1> QED
  BY <1>3, <1>11, <1>12 DEF DropInv

(* A step whose frame is none of those of the queues and of the manager has  *)
(* only to leave a denied queue denied and empty.                            *)
LEMMA OtherFrames ==
  ASSUME agenda # <<>>, Head(agenda).op \notin {"run", "_run", "abort", "delete"},
         NEW n, NEW c, NEW p \in Peers,
         Denied(p) => Denied(p)' /\ (queue[p] = <<>> => queue'[p] = <<>>),
         p \in running' /\ p \notin running => n >= 1 /\ agenda'[1] = QueueRunF(p)
  PROVE  Leaves(p, n, c)
<1>1. /\ ~Top(QueueRunF(p)) /\ ~Top(AbortF(p)) /\ ~Top(DeleteF(p)) /\ ~Top(RunF)
  BY FrameNames DEF Top
<1> QED
  BY <1>1 DEF Leaves

-----------------------------------------------------------------------------
(* The effect of each step.                                                 *)

(* Starting and stopping a queue: what is put in front of the turn. *)
LEMMA StartStopEffects ==
  ASSUME agenda \in Seq(Frames), NEW q \in Peers
  PROVE  /\ agenda # <<>> /\ QueueStart(q, Rest) =>
              \/ q \in running /\ running' = running /\ Moved(0, 1)
              \/ /\ q \notin running /\ running' = running \cup {q}
                 /\ Moved(1, 1) /\ agenda'[1] = QueueRunF(q)
         /\ QueueStart(q, agenda) =>
              \/ q \in running /\ running' = running /\ Moved(0, 0)
              \/ /\ q \notin running /\ running' = running \cup {q}
                 /\ Moved(1, 0) /\ agenda'[1] = QueueRunF(q)
         /\ agenda # <<>> /\ QueueStop(q, Rest) =>
              /\ running' = running \ {q}
              /\ \/ Moved(0, 1)
                 \/ Moved(1, 1) /\ agenda'[1] = RunF
<1>1. /\ <<RunF>> \in Seq(Frames) /\ <<QueueRunF(q)>> \in Seq(Frames)
      /\ Innocent(<<RunF>>) /\ Innocent(<<QueueRunF(q)>>)
      /\ Len(<<RunF>>) = 1 /\ Len(<<QueueRunF(q)>>) = 1
  BY FrameTypes, HarmlessFrames, ShortInnocent
<1>2. agenda # <<>> => Rest \in Seq(Frames)
  BY DEF Rest
<1>3. \A f, s : s \in Seq(Frames) /\ f \in Frames => (<<f>> \o s)[1] = f
  OBVIOUS
<1>4. RunF \in Frames /\ QueueRunF(q) \in Frames
  BY FrameTypes
<1>5. ASSUME agenda # <<>>, QueueStart(q, Rest)
      PROVE  \/ q \in running /\ running' = running /\ Moved(0, 1)
             \/ /\ q \notin running /\ running' = running \cup {q}
                /\ Moved(1, 1) /\ agenda'[1] = QueueRunF(q)
  <2>1. CASE q \in running
    BY <1>5, <2>1, Moves DEF QueueStart
  <2>2. CASE q \notin running
    <3>1. agenda' = <<QueueRunF(q)>> \o Rest /\ running' = running \cup {q}
      BY <1>5, <2>2 DEF QueueStart
    <3>2. Moved(1, 1)
      BY <1>1, <1>5, <3>1, Moves
    <3> QED
      BY <1>2, <1>3, <1>4, <1>5, <2>2, <3>1, <3>2
  <2> QED
    BY <2>1, <2>2
<1>6. ASSUME QueueStart(q, agenda)
      PROVE  \/ q \in running /\ running' = running /\ Moved(0, 0)
             \/ /\ q \notin running /\ running' = running \cup {q}
                /\ Moved(1, 0) /\ agenda'[1] = QueueRunF(q)
  <2>1. CASE q \in running
    BY <1>6, <2>1, Moves DEF QueueStart
  <2>2. CASE q \notin running
    <3>1. agenda' = <<QueueRunF(q)>> \o agenda /\ running' = running \cup {q}
      BY <1>6, <2>2 DEF QueueStart
    <3>2. Moved(1, 0)
      BY <1>1, <3>1, Moves
    <3> QED
      BY <1>3, <1>4, <2>2, <3>1, <3>2
  <2> QED
    BY <2>1, <2>2
<1>7. ASSUME agenda # <<>>, QueueStop(q, Rest)
      PROVE  running' = running \ {q} /\ (Moved(0, 1) \/ (Moved(1, 1) /\ agenda'[1] = RunF))
  <2>1. CASE q \notin running
    BY <1>7, <2>1, Moves DEF QueueStop
  <2>2. CASE q \in running
    <3>1. agenda' = <<RunF>> \o Rest /\ running' = running \ {q}
      BY <1>7, <2>2 DEF QueueStop
    <3>2. Moved(1, 1)
      BY <1>1, <1>7, <3>1, Moves
    <3> QED
      BY <1>2, <1>3, <1>4, <1>7, <3>1, <3>2
  <2> QED
    BY <2>1, <2>2
<1> QED
  BY <1>5, <1>6, <1>7

(* run() starts at most the queue it gives a slot to; nothing of a stopped   *)
(* manager.                                                                  *)
LEMMA RunEffect ==
  ASSUME TypeOK, Run
  PROVE  TurnEffect
<1>1. /\ Top(RunF) /\ agenda # <<>> /\ agenda \in Seq(Frames)
      /\ UNCHANGED <<queue, denylisted, mgrRunning>>
  BY DEF Run, Top, TypeOK
<1>2. \A p \in Peers : ~Top(QueueRunF(p)) /\ ~Top(AbortF(p)) /\ ~Top(DeleteF(p))
  BY <1>1, FrameNames DEF Top
<1>3. CASE agenda' = Rest /\ running' = running
  <2>1. Moved(0, 1)
    BY <1>1, <1>3, Moves
  <2>2. \A p \in Peers : Leaves(p, 0, 1)
    BY <1>1, <1>2, <1>3 DEF Leaves, Denied
  <2> QED
    BY <1>1, <2>1, <2>2 DEF TurnEffect
<1>4. CASE ~(agenda' = Rest /\ running' = running)
  <2>1. mgrRunning /\ (normal # <<>> \/ cold # <<>>) /\ QueueStart(NextWaiting, Rest)
    BY <1>4 DEF Run
  <2>2. NextWaiting \in Peers
    BY <2>1, Pushing DEF NextWaiting, TypeOK
  <2>3. PICK q \in Peers : QueueStart(q, Rest)
    BY <2>1, <2>2
  <2>4. /\ q \notin running /\ running' = running \cup {q}
        /\ Moved(1, 1) /\ agenda'[1] = QueueRunF(q)
    BY <1>1, <1>4, <2>3, StartStopEffects DEF QueueStart
  <2>5. \A p \in Peers : Leaves(p, 1, 1)
    BY <1>1, <1>2, <2>1, <2>4 DEF Leaves, Denied
  <2> QED
    BY <1>1, <2>4, <2>5 DEF TurnEffect
<1> QED
  BY <1>3, <1>4

(* Queue._run empties nothing that was empty and stops what is.              *)
LEMMA QueueRunEffect ==
  ASSUME TypeInv, NEW q \in Peers, QueueRunStops(q) \/ QueueRunReuses(q) \/ QueueRunCreates(q)
  PROVE  TurnEffect
<1>1. /\ Top(QueueRunF(q)) /\ agenda # <<>> /\ agenda \in Seq(Frames)
      /\ UNCHANGED <<denylisted, mgrRunning>>
      /\ Rest \in Seq(Frames)
  BY Pushing DEF QueueRunStops, QueueRunReuses, QueueRunCreates, Top, TypeInv, TypeOK, mgrVars, Rest
<1>2. /\ \A p \in Peers : ~Top(AbortF(p)) /\ ~Top(DeleteF(p))
      /\ ~Top(RunF)
      /\ \A p \in Peers : Top(QueueRunF(p)) => p = q
  BY <1>1, FrameNames, FramePeers DEF Top
<1>3. CASE QueueRunStops(q)
  <2>1. QueueStop(q, Rest) /\ UNCHANGED queue
    BY <1>3 DEF QueueRunStops
  <2>2. running' = running \ {q} /\ (Moved(0, 1) \/ Moved(1, 1))
    BY <1>1, <2>1, StartStopEffects
  <2>3. \A n \in {0, 1}, p \in Peers : Leaves(p, n, 1)
    BY <1>1, <1>2, <2>1, <2>2 DEF Leaves, Denied
  <2> QED
    BY <1>1, <2>2, <2>3 DEF TurnEffect
<1>4. CASE QueueRunReuses(q) \/ QueueRunCreates(q)
  <2>1. /\ queue[q] # <<>> /\ q \in running /\ UNCHANGED running
        /\ \A p \in Peers : queue[p] = <<>> => queue'[p] = <<>>
    BY <1>4 DEF QueueRunReuses, QueueRunCreates, TypeInv, TypeOK
  <2>2. PICK r \in Requests : r = Head(queue[q])
    BY <2>1 DEF TypeInv, TypeOK
  <2>3. /\ FSMTick(r) \in Seq(Frames) /\ ProtocolCallback(r) \in Seq(Frames)
        /\ Innocent(FSMTick(r)) /\ Innocent(ProtocolCallback(r))
    BY TurnTypes, HarmlessFrames, ShortInnocent DEF TypeInv, FSMTick, ProtocolCallback
  <2>4. PICK new \in Seq(Frames) : Innocent(new) /\ agenda' = (new \o Rest) \o FSMTick(r)
    <3>1. CASE QueueRunReuses(q)
      <4>1. <<QueueRunF(q)>> \in Seq(Frames) /\ Innocent(<<QueueRunF(q)>>)
        BY FrameTypes, HarmlessFrames, ShortInnocent
      <4>2. PICK new : new = ProtocolCallback(r) \o <<QueueRunF(q)>>
        OBVIOUS
      <4>3. new \in Seq(Frames) /\ Innocent(new)
        BY <2>3, <4>1, <4>2, InnocentJoin, JoinFacts
      <4>4. agenda' = (new \o Rest) \o FSMTick(r)
        BY <2>2, <3>1, <4>2 DEF QueueRunReuses
      <4> QED
        BY <4>3, <4>4
    <3>2. CASE QueueRunCreates(q)
      <4>1. \E new \in {<<CallbackF(r, "error"), OnErrorF(r)>>, <<>>,
                        <<CallbackF(r, "error"), OnErrorF(r), DisconnectF(r, TRUE)>>} :
              agenda' = (new \o Rest) \o FSMTick(r)
        BY <2>2, <3>2 DEF QueueRunCreates
      <4>2. /\ <<CallbackF(r, "error"), OnErrorF(r)>> \in Seq(Frames)
            /\ <<CallbackF(r, "error"), OnErrorF(r), DisconnectF(r, TRUE)>> \in Seq(Frames)
            /\ <<>> \in Seq(Frames)
        BY FrameTypes, ShortTurns DEF Answers
      <4>3. /\ Innocent(<<CallbackF(r, "error"), OnErrorF(r)>>)
            /\ Innocent(<<CallbackF(r, "error"), OnErrorF(r), DisconnectF(r, TRUE)>>)
            /\ Innocent(<<>>)
        BY HarmlessFrames, ShortInnocent
      <4> QED
        BY <4>1, <4>2, <4>3
    <3> QED
      BY <1>4, <3>1, <3>2
  <2>5. Moved(Len(new), 1) /\ Len(new) \in Nat
    <3>1. agenda' = (new \o (IF 1 = 0 THEN agenda ELSE Rest)) \o FSMTick(r)
      BY <2>4
    <3>2. 1 \in {0, 1} /\ Len(new) \in Nat
      OBVIOUS
    <3> QED
      BY <1>1, <2>3, <2>4, <3>1, <3>2, Splicing, Zenon
  <2>6. \A p \in Peers : Leaves(p, Len(new), 1)
    BY <1>1, <1>2, <2>1 DEF Leaves, Denied
  <2> QED
    BY <1>1, <2>5, <2>6 DEF TurnEffect
<1> QED
  BY <1>3, <1>4

(* abort() answers one request more, or stops the queue. *)
LEMMA AbortEffect ==
  ASSUME TypeInv, NEW q \in Peers, AbortNext(q) \/ AbortEnds(q)
  PROVE  TurnEffect
<1>1. /\ Top(AbortF(q)) /\ agenda # <<>> /\ agenda \in Seq(Frames)
      /\ UNCHANGED <<denylisted, mgrRunning>>
  BY DEF AbortNext, AbortEnds, Top, TypeInv, TypeOK, mgrVars
<1>2. /\ \A p \in Peers : ~Top(QueueRunF(p)) /\ ~Top(DeleteF(p))
      /\ ~Top(RunF)
      /\ \A p \in Peers : Top(AbortF(p)) => p = q
  BY <1>1, FrameNames, FramePeers DEF Top
<1>3. CASE AbortNext(q)
  <2>1. PICK r \in Requests : agenda' = <<CallbackF(r, "aborted")>> \o agenda
    <3>1. Head(queue[q]) \in Requests
      BY <1>3 DEF AbortNext, TypeInv, TypeOK
    <3> QED
      BY <1>3, <3>1 DEF AbortNext
  <2>2. /\ <<CallbackF(r, "aborted")>> \in Seq(Frames) /\ Innocent(<<CallbackF(r, "aborted")>>)
        /\ Len(<<CallbackF(r, "aborted")>>) = 1
    BY FrameTypes, HarmlessFrames, ShortInnocent DEF Answers
  <2>3. Moved(1, 0)
    BY <1>1, <2>1, <2>2, Moves
  <2>4. /\ queue[q] # <<>> /\ UNCHANGED running
        /\ \A p \in Peers : queue[p] = <<>> => queue'[p] = <<>>
    BY <1>3 DEF AbortNext, TypeInv, TypeOK
  <2>5. \A p \in Peers : Leaves(p, 1, 0)
    BY <1>1, <1>2, <2>4 DEF Leaves, Denied, Idle
  <2> QED
    BY <1>1, <2>3, <2>5 DEF TurnEffect
<1>4. CASE AbortEnds(q)
  <2>1. QueueStop(q, Rest) /\ UNCHANGED queue /\ queue[q] = <<>>
    BY <1>4 DEF AbortEnds
  <2>2. running' = running \ {q} /\ (Moved(0, 1) \/ (Moved(1, 1) /\ agenda'[1] = RunF))
    BY <1>1, <2>1, StartStopEffects
  <2>3. CASE q \in running
    <3>1. \A n \in {0, 1}, p \in Peers :
            (n = 1 => agenda'[1] = RunF) => Leaves(p, n, 1)
      BY <1>1, <1>2, <2>1, <2>2, <2>3 DEF Leaves, Denied, Idle
    <3> QED
      BY <1>1, <2>2, <3>1 DEF TurnEffect
  <2>4. CASE q \notin running
    <3>1. Moved(0, 1)
      BY <1>1, <2>1, <2>4, Moves DEF QueueStop
    <3>2. \A p \in Peers : Leaves(p, 0, 1)
      BY <1>1, <1>2, <2>1, <2>2 DEF Leaves, Denied, Idle
    <3> QED
      BY <1>1, <3>1, <3>2 DEF TurnEffect
  <2> QED
    BY <2>3, <2>4
<1> QED
  BY <1>3, <1>4

(* The removal of a queue touches no other. *)
LEMMA DeleteEffect ==
  ASSUME TypeInv, NEW q \in Peers, Delete(q)
  PROVE  TurnEffect
<1>1. /\ Top(DeleteF(q)) /\ agenda # <<>> /\ agenda \in Seq(Frames) /\ agenda' = Rest
      /\ UNCHANGED <<queue, running, mgrRunning>>
      /\ \A p \in Peers : p # q => denylisted'[p] = denylisted[p]
  BY DEF Delete, Top, TypeInv, TypeOK
<1>2. /\ \A p \in Peers : ~Top(QueueRunF(p)) /\ ~Top(AbortF(p))
      /\ ~Top(RunF)
      /\ \A p \in Peers : p = q => Top(DeleteF(p))
  BY <1>1, FrameNames, FramePeers DEF Top
<1>3. Moved(0, 1)
  BY <1>1, Moves
<1>4. \A p \in Peers : Leaves(p, 0, 1)
  BY <1>1, <1>2 DEF Leaves, Denied
<1> QED
  BY <1>1, <1>3, <1>4 DEF TurnEffect

(* The rest of a turn but its walks: callbacks, closing connections, errors. *)
LEMMA OtherTurnEffect ==
  ASSUME TypeInv, Callback \/ CloseAll \/ UserReturn \/ \E r \in Requests : RequestStep(r)
  PROVE  TurnEffect
<1>0. agenda \in Seq(Frames) /\ <<>> \in Seq(Frames) /\ Innocent(<<>>)
  BY ShortInnocent DEF TypeInv, TypeOK
<1>1. ASSUME agenda # <<>>, Head(agenda).op \notin {"run", "_run", "abort", "delete"},
             mgrRunning' = mgrRunning, running' = running, queue' = queue,
             \A p \in Peers : Denied(p) => Denied(p)',
             \/ agenda' = Rest
             \/ \E new \in Seq(Frames) : Innocent(new) /\ agenda' = new \o Rest
      PROVE  TurnEffect
  <2>1. \E n \in Nat : Moved(n, 1)
    <3>1. CASE agenda' = Rest
      BY <1>0, <1>1, <3>1, Moves
    <3>2. ASSUME NEW new \in Seq(Frames), Innocent(new), agenda' = new \o Rest
          PROVE  \E n \in Nat : Moved(n, 1)
      <4>1. Moved(Len(new), 1)
        BY <1>0, <1>1, <3>2, Moves
      <4>2. Len(new) \in Nat
        OBVIOUS
      <4> QED
        BY <4>1, <4>2
    <3> QED
      BY <1>1, <3>1, <3>2
  <2>2. \A n \in Nat, p \in Peers : Leaves(p, n, 1)
    BY <1>1, OtherFrames
  <2> QED
    BY <1>1, <2>1, <2>2 DEF TurnEffect
<1>2. CASE Callback
  <2>1. /\ agenda # <<>> /\ Head(agenda).op = "callback"
        /\ UNCHANGED <<mgrRunning, running, queue, denylisted>>
        /\ agenda' = Rest \/ agenda' = <<UserF(TRUE)>> \o Rest
    BY <1>2, FrameNames DEF Callback, Top, queueVars, mgrVars
  <2>2. <<UserF(TRUE)>> \in Seq(Frames) /\ Innocent(<<UserF(TRUE)>>)
    <3>1. PICK f : f = UserF(TRUE)
      OBVIOUS
    <3>2. f \in Frames /\ Harmless(f)
      BY <3>1, FrameTypes, HarmlessFrames
    <3>3. <<f>> \in Seq(Frames) /\ Innocent(<<f>>)
      BY <3>2, ShortInnocent
    <3> QED
      BY <3>1, <3>3
  <2> QED
    BY <1>1, <2>1, <2>2 DEF Denied
<1>3. CASE CloseAll
  <2>1. PICK R \in SUBSET Requests :
          /\ Top(CloseAllF(R))
          /\ \/ agenda' = Rest
             \/ \E r \in R : agenda' = <<DisconnectF(r, FALSE), CloseAllF(R \ {r})>> \o Rest
    BY <1>3 DEF CloseAll
  <2>2. \A r \in R : /\ <<DisconnectF(r, FALSE), CloseAllF(R \ {r})>> \in Seq(Frames)
                    /\ Innocent(<<DisconnectF(r, FALSE), CloseAllF(R \ {r})>>)
    BY FrameTypes, ShortTurns, HarmlessFrames, ShortInnocent
  <2>3. agenda # <<>> /\ Head(agenda).op = "closeAll"
    BY <2>1, FrameNames DEF Top
  <2>4. UNCHANGED <<mgrRunning, running, queue, denylisted>>
    BY <1>3 DEF CloseAll, queueVars, mgrVars
  <2> QED
    BY <1>1, <2>1, <2>2, <2>3, <2>4 DEF Denied
<1>4. CASE UserReturn
  <2>1. /\ agenda # <<>> /\ Head(agenda).op = "user" /\ agenda' = Rest
        /\ UNCHANGED <<mgrRunning, running, queue, denylisted>>
    BY <1>4, FrameNames DEF UserReturn, InUser, Top, queueVars, mgrVars
  <2> QED
    BY <1>1, <2>1 DEF Denied
<1>5. ASSUME NEW r \in Requests, OnError(r) PROVE TurnEffect
  <2>1. /\ agenda # <<>> /\ Head(agenda).op = "onError"
        /\ UNCHANGED <<mgrRunning, running, queue>>
    BY <1>5, FrameNames DEF OnError, Top, mgrVars
  <2>2. CASE r \in attached /\ ~(PeerOf(r) \in known /\ PeerOf(r) \in connected)
    <3>1. Denylist(PeerOf(r)) /\ PeerOf(r) \in Peers
      BY <1>5, <2>2, PeerTypes DEF OnError, TypeInv, OnlyIssued
    <3>2. \A p \in Peers : Denied(p) => Denied(p)'
      BY <3>1 DEF Denylist, Denied, TypeInv, TypeOK
    <3>3. <<AbortF(PeerOf(r))>> \in Seq(Frames) /\ Innocent(<<AbortF(PeerOf(r))>>)
      BY <3>1, FrameTypes, HarmlessFrames, ShortInnocent
    <3>4. agenda' = Rest \/ agenda' = <<AbortF(PeerOf(r))>> \o Rest
      BY <3>1 DEF Denylist
    <3> QED
      BY <1>1, <2>1, <3>2, <3>3, <3>4
  <2>3. CASE ~(r \in attached /\ ~(PeerOf(r) \in known /\ PeerOf(r) \in connected))
    <3>1. agenda' = Rest /\ UNCHANGED denylisted
      BY <1>5, <2>3 DEF OnError
    <3> QED
      BY <1>1, <2>1, <3>1 DEF Denied
  <2> QED
    BY <2>2, <2>3
<1>6. ASSUME NEW r \in Requests, DisconnectMuxed(r) \/ DisconnectNow(r) PROVE TurnEffect
  <2>1. /\ agenda # <<>> /\ Head(agenda).op = "disconnect"
        /\ UNCHANGED <<mgrRunning, running, queue, denylisted>>
        /\ agenda' = Rest \/ agenda' = Resume(r) \o Rest
    BY <1>6, FrameNames DEF DisconnectMuxed, DisconnectNow, Top, queueVars, mgrVars
  <2>2. Resume(r) \in Seq(Frames) /\ Innocent(Resume(r))
    BY TurnTypes, HarmlessFrames, ShortInnocent DEF TypeInv, OnlyIssued, Resume
  <2> QED
    BY <1>1, <2>1, <2>2 DEF Denied
<1> QED
  BY <1>2, <1>3, <1>4, <1>5, <1>6 DEF RequestStep

(* What user code does on top of a turn, but a reset of the denylist: it     *)
(* fills no denied queue, and one it starts runs first.                      *)
LEMMA UserEffect ==
  ASSUME TypeInv,
         \/ \E r \in Requests : DialRefused(r) \/ DialDenied(r) \/ DialQueued(r) \/ UserCloses(r)
         \/ \E p \in Peers : HangUp(p)
  PROVE  TurnEffect
<1>0. agenda \in Seq(Frames) /\ <<>> \in Seq(Frames) /\ Innocent(<<>>)
  BY ShortInnocent DEF TypeInv, TypeOK
<1>1. /\ agenda # <<>> /\ Head(agenda).op \notin {"run", "_run", "abort", "delete"}
      /\ mgrRunning' = mgrRunning
  <2>1. \E name : MayCall(name)
    BY DEF DialRefused, DialDenied, DialQueued, UserCloses, HangUp
  <2> QED
    BY <2>1, FrameNames, ZenonT(30)
       DEF MayCall, Top, DialRefused, DialDenied, DialQueued, UserCloses, HangUp, mgrVars
<1>2. ASSUME running' = running, queue' = queue, denylisted' = denylisted,
             \E new \in Seq(Frames), late \in Seq(Frames) :
               Innocent(new) /\ Innocent(late) /\ agenda' = (new \o agenda) \o late
      PROVE  TurnEffect
  <2>1. PICK new \in Seq(Frames), late \in Seq(Frames) :
          Innocent(new) /\ Innocent(late) /\ agenda' = (new \o agenda) \o late
    BY <1>2
  <2>2. Len(new) \in Nat /\ 0 \in {0, 1} /\ (0 = 1 => agenda # <<>>)
        /\ agenda' = (new \o (IF 0 = 0 THEN agenda ELSE Rest)) \o late
    BY <2>1
  <2>3. Moved(Len(new), 0)
    BY <1>0, <2>1, <2>2, Splicing, Zenon
  <2>4. \A n \in Nat, p \in Peers : Leaves(p, n, 0)
    BY <1>1, <1>2, OtherFrames DEF Denied
  <2> QED
    BY <1>1, <2>2, <2>3, <2>4 DEF TurnEffect
<1>3. \A s \in Seq(Frames) : s \o <<>> = s /\ <<>> \o s = s
  OBVIOUS
<1>4. \A f \in Frames : Append(agenda, f) = (<<>> \o agenda) \o <<f>>
  BY <1>0, <1>3, AppendIsConcat
<1>5. \A r \in Requests, a \in Answers :
        /\ CallbackF(r, a) \in Frames
        /\ <<CallbackF(r, a)>> \in Seq(Frames) /\ Innocent(<<CallbackF(r, a)>>)
  BY FrameTypes, HarmlessFrames, ShortInnocent
<1>6. "aborted" \in Answers /\ "denied" \in Answers
  BY DEF Answers
<1>7. ASSUME NEW r \in Requests, DialRefused(r) PROVE TurnEffect
  <2>1. /\ agenda' = Append(agenda, CallbackF(r, "aborted"))
        /\ UNCHANGED <<running, queue, denylisted>>
    BY <1>7 DEF DialRefused, queueVars
  <2> QED
    BY <1>0, <1>2, <1>4, <1>5, <1>6, <2>1
<1>8. ASSUME NEW r \in Requests, DialDenied(r) PROVE TurnEffect
  <2>1. PICK q \in Peers :
          /\ UNCHANGED <<queue, denylisted>>
          /\ \/ QueueStart(q, Append(agenda, CallbackF(r, "denied")))
             \/ agenda' = Append(agenda, CallbackF(r, "denied")) /\ UNCHANGED running
    BY <1>8, PeerTypes DEF DialDenied
  <2>2. CASE agenda' = Append(agenda, CallbackF(r, "denied")) /\ UNCHANGED running
    BY <1>0, <1>2, <1>4, <1>5, <1>6, <2>1, <2>2
  <2>3. CASE ~(agenda' = Append(agenda, CallbackF(r, "denied")) /\ UNCHANGED running)
    <3>1. /\ running' = running \cup {q}
          /\ agenda' = <<QueueRunF(q)>> \o Append(agenda, CallbackF(r, "denied"))
      BY <2>1, <2>3 DEF QueueStart
    <3>2. PICK new \in Seq(Frames), late \in Seq(Frames) :
            /\ new = <<QueueRunF(q)>> /\ late = <<CallbackF(r, "denied")>>
            /\ Innocent(new) /\ Innocent(late) /\ Len(new) = 1
      <4>1. <<QueueRunF(q)>> \in Seq(Frames) /\ Len(<<QueueRunF(q)>>) = 1
        BY FrameTypes
      <4>2. Innocent(<<QueueRunF(q)>>)
        BY HarmlessFrames, ShortInnocent
      <4> QED
        BY <1>5, <1>6, <4>1, <4>2
    <3>3. agenda' = (new \o agenda) \o late
      <4>1. Append(agenda, CallbackF(r, "denied")) = agenda \o late
        BY <1>0, <1>5, <1>6, <3>2, AppendIsConcat
      <4>2. new \o (agenda \o late) = (new \o agenda) \o late
        BY <1>0, <3>2, ConcatAssociative
      <4> QED
        BY <3>1, <3>2, <4>1, <4>2
    <3>4. Moved(1, 0)
      <4>1. /\ 0 \in {0, 1} /\ (0 = 1 => agenda # <<>>)
            /\ agenda' = (new \o (IF 0 = 0 THEN agenda ELSE Rest)) \o late
        BY <3>3
      <4>2. Moved(Len(new), 0)
        BY <1>0, <3>2, <4>1, Splicing, Zenon
      <4> QED
        BY <3>2, <4>2
    <3>5. agenda'[1] = QueueRunF(q)
      <4>1. Append(agenda, CallbackF(r, "denied")) \in Seq(Frames) /\ QueueRunF(q) \in Frames
        BY <1>0, <1>5, <1>6, FrameTypes
      <4> QED
        BY <3>1, <4>1
    <3>6. \A p \in Peers : p \in running' /\ p \notin running => p = q
      BY <3>1
    <3>7. \A p \in Peers : Leaves(p, 1, 0)
      BY <1>1, <2>1, <3>5, <3>6, OtherFrames DEF Denied
    <3> QED
      BY <1>1, <3>4, <3>7 DEF TurnEffect
  <2> QED
    BY <2>2, <2>3
<1>9. ASSUME NEW r \in Requests, DialQueued(r) PROVE TurnEffect
  <2>1. PICK q \in Peers :
          /\ DialAllowed(q)
          /\ denylisted' = [denylisted EXCEPT ![q] = "null"]
          /\ queue' = [queue EXCEPT ![q] = Append(@, r)]
          /\ \/ QueueStart(q, agenda)
             \/ agenda' = <<RunF>> \o agenda /\ UNCHANGED running
    BY <1>9, PeerTypes DEF DialQueued
  <2>2. \A p \in Peers : Denied(p) => p # q /\ Denied(p)' /\ queue'[p] = queue[p]
    BY <2>1 DEF DialAllowed, Denied, TypeInv, TypeOK
  <2>3. CASE agenda' = <<RunF>> \o agenda /\ UNCHANGED running
    <3>1. Moved(1, 0)
      <4>1. <<RunF>> \in Seq(Frames) /\ Innocent(<<RunF>>) /\ Len(<<RunF>>) = 1
        BY FrameTypes, HarmlessFrames, ShortInnocent
      <4> QED
        BY <1>0, <2>3, <4>1, Moves
    <3>2. \A p \in Peers : Leaves(p, 1, 0)
      BY <1>1, <2>2, <2>3, OtherFrames
    <3> QED
      BY <1>1, <3>1, <3>2 DEF TurnEffect
  <2>4. CASE QueueStart(q, agenda)
    <3>1. CASE running' = running /\ Moved(0, 0)
      <4>1. \A p \in Peers : Leaves(p, 0, 0)
        BY <1>1, <2>2, <3>1, OtherFrames
      <4> QED
        BY <1>1, <3>1, <4>1 DEF TurnEffect
    <3>2. CASE running' = running \cup {q} /\ Moved(1, 0) /\ agenda'[1] = QueueRunF(q)
      <4>1. \A p \in Peers : Leaves(p, 1, 0)
        BY <1>1, <2>2, <3>2, OtherFrames
      <4> QED
        BY <1>1, <3>2, <4>1 DEF TurnEffect
    <3> QED
      BY <1>0, <2>4, <3>1, <3>2, StartStopEffects
  <2> QED
    BY <2>1, <2>3, <2>4
<1>10. ASSUME NEW r \in Requests, UserCloses(r) PROVE TurnEffect
  <2>1. /\ agenda' = <<OnErrorF(r), DisconnectF(r, FALSE)>> \o agenda
        /\ UNCHANGED <<running, queue, denylisted>>
    BY <1>10 DEF UserCloses, queueVars
  <2>2. PICK new \in Seq(Frames) :
          new = <<OnErrorF(r), DisconnectF(r, FALSE)>> /\ Innocent(new)
    BY FrameTypes, ShortTurns, HarmlessFrames, ShortInnocent
  <2>3. agenda' = (new \o agenda) \o <<>>
    BY <1>0, <1>3, <2>1, <2>2
  <2> QED
    BY <1>0, <1>2, <2>1, <2>2, <2>3
<1>11. ASSUME NEW p \in Peers, HangUp(p) PROVE TurnEffect
  <2>1. /\ agenda' = <<CloseAllF(Tracked(p))>> \o agenda
        /\ UNCHANGED <<running, queue, denylisted>>
    BY <1>11 DEF HangUp, queueVars
  <2>2. PICK new \in Seq(Frames) : new = <<CloseAllF(Tracked(p))>> /\ Innocent(new)
    <3>1. Tracked(p) \in SUBSET Requests
      BY DEF Tracked, Of
    <3>2. CloseAllF(Tracked(p)) \in Frames /\ Harmless(CloseAllF(Tracked(p)))
      BY <3>1, FrameTypes, HarmlessFrames
    <3>3. <<CloseAllF(Tracked(p))>> \in Seq(Frames)
      BY <3>2, ShortTurns
    <3>4. Innocent(<<CloseAllF(Tracked(p))>>)
      BY <3>2, ShortInnocent
    <3> QED
      BY <3>3, <3>4, Zenon
  <2>3. agenda' = (new \o agenda) \o <<>>
    BY <1>0, <1>3, <2>1, <2>2
  <2> QED
    BY <1>0, <1>2, <2>1, <2>2, <2>3
<1> QED
  BY <1>7, <1>8, <1>9, <1>10, <1>11

-----------------------------------------------------------------------------
(* The invariants.                                                          *)

(* A walk goes on: what stop() and _clean() do next. *)
LEMMA WalkSteps ==
  ASSUME TypeInv, StopNext \/ CleanNext
  PROVE  \/ agenda # <<>> /\ agenda' = Rest /\ Head(agenda).op \in {"stop", "_clean"}
         \/ agenda # <<>> /\ Walks /\ Head(agenda).op \in {"stop", "_clean"}
<1>1. CASE StopNext
  <2>1. PICK P \in SUBSET Peers :
          /\ Top(StopF(P))
          /\ \/ agenda' = Rest
             \/ \E p \in P : agenda' = <<AbortF(p), DeleteF(p), StopF(P \ {p})>> \o Rest
    BY <1>1 DEF StopNext
  <2>2. agenda # <<>> /\ Head(agenda).op = "stop"
    BY <2>1, FrameNames DEF Top
  <2>3. \A p \in P : /\ p \in Peers /\ StopF(P \ {p}) \in Frames
                    /\ StopF(P \ {p}).op = "stop"
    BY FrameTypes, FrameNames
  <2> QED
    BY <2>1, <2>2, <2>3 DEF Walks
<1>2. CASE CleanNext
  <2>1. PICK P \in SUBSET Peers :
          /\ Top(CleanF(P))
          /\ \/ agenda' = Rest
             \/ \E p \in P :
                  agenda' = IF Cleanable(p)
                            THEN <<AbortF(p), DeleteF(p), CleanF(P \ {p})>> \o Rest
                            ELSE <<CleanF(P \ {p})>> \o Rest
    BY <1>2 DEF CleanNext
  <2>2. agenda # <<>> /\ Head(agenda).op = "_clean"
    BY <2>1, FrameNames DEF Top
  <2>3. \A p \in P : /\ p \in Peers /\ CleanF(P \ {p}) \in Frames
                    /\ CleanF(P \ {p}).op = "_clean"
    BY FrameTypes, FrameNames
  <2> QED
    BY <2>1, <2>2, <2>3 DEF Walks
<1> QED
  BY <1>1, <1>2

(* A turn that starts has one frame that removes, walks or is fresh at most, *)
(* and it removes nothing yet.                                               *)
LEMMA FreshTurn ==
  ASSUME TypeInv', agenda = <<>>,
         \/ agenda' = agenda
         \/ Innocent(agenda')
         \/ \E f \in Frames : /\ agenda' = <<f>> /\ f.op # "delete"
                              /\ f.op = "stop" => ~mgrRunning'
  PROVE  TurnInv' /\ DropInv'
<1>1. CASE Innocent(agenda') \/ agenda' = agenda
  <2>1. \A i \in DOMAIN agenda' : Harmless(agenda'[i])
    BY <1>1 DEF Innocent
  <2>2. \A i \in DOMAIN agenda' : ~Dropping(agenda'[i])
    BY <2>1 DEF Harmless
  <2>3. TurnInv'
    BY <2>2 DEF TurnInv, OneDrop, NoFreshDrop, StopIsStopped, Dropping
  <2>4. DropInv'
    BY <2>1, HarmlessFrames DEF DropInv
  <2> QED
    BY <2>3, <2>4
<1>2. ASSUME NEW f \in Frames, agenda' = <<f>>, f.op # "delete", f.op = "stop" => ~mgrRunning'
      PROVE  TurnInv' /\ DropInv'
  <2>1. /\ \A i \in DOMAIN agenda' : i = 1
        /\ agenda'[1] = f
    BY <1>2
  <2>2. OneDrop'
    <3> SUFFICES ASSUME NEW i \in DOMAIN agenda', NEW j \in DOMAIN agenda', i < j PROVE FALSE
      BY DEF OneDrop, Dropping
    <3>1. i = 1 /\ j = 1
      BY <2>1
    <3> QED
      BY <3>1
  <2>3. NoFreshDrop' /\ StopIsStopped'
    <3>1. UserF(FALSE).op = "user"
      BY FrameNames
    <3>2. \A i \in DOMAIN agenda' : agenda'[i] = f
      BY <2>1
    <3>3. NoFreshDrop'
      BY <3>1, <3>2 DEF NoFreshDrop, Dropping
    <3>4. StopIsStopped'
      BY <1>2, <3>2 DEF StopIsStopped
    <3> QED
      BY <3>3, <3>4
  <2>4. DropInv'
    BY <1>2, <2>1, FrameNames DEF DropInv
  <2> QED
    BY <2>2, <2>3, <2>4 DEF TurnInv
<1> QED
  BY <1>1, <1>2

(* A turn starts with a call of the user, a walk over the queues, or frames  *)
(* that are innocent.                                                        *)
LEMMA Starts ==
  ASSUME TypeInv, UserTurn \/ EnvStep
  PROVE  /\ agenda = <<>>
         /\ UserTurn \/ Clean \/ ManagerStop \/ agenda' = agenda \/ Innocent(agenda')
<1>1. agenda = <<>>
  BY DEF UserTurn, EnvStep, AttemptStep, TransportConnects, AttemptFails, Muxes, Unmuxes,
         ShakeEnds, Identified, IdentifyFails, MuxerCloses, MuxerEnds, LateConnect,
         InboundMuxes, InboundCloses, InboundEnds, DenyExpires, Clean, ManagerStop, CloseConnections,
         ManagerStart, Quiet
<1>2. ASSUME NEW r \in Requests,
             AttemptFails(r) \/ IdentifyFails(r) \/ MuxerCloses(r) \/ ShakeEnds(r)
      PROVE  Innocent(agenda')
  <2>1. \/ agenda' = <<CallbackF(r, "error"), OnErrorF(r), DisconnectF(r, TRUE)>>
        \/ agenda' = <<DisconnectF(r, TRUE)>>
        \/ \E a \in {"ok", "error"} : agenda' = <<CallbackF(r, a)>>
    BY <1>2 DEF AttemptFails, IdentifyFails, MuxerCloses, ShakeEnds
  <2> QED
    BY <2>1, HarmlessFrames, ShortInnocent
<1>3. ASSUME NEW r \in Requests, Muxes(r) \/ Unmuxes(r)
      PROVE  Innocent(agenda')
  <2>1. agenda' = ProtocolCallback(r) \o Resume(r)
    BY <1>3 DEF Muxes, Unmuxes
  <2>2. /\ ProtocolCallback(r) \in Seq(Frames) /\ Innocent(ProtocolCallback(r))
        /\ Resume(r) \in Seq(Frames) /\ Innocent(Resume(r))
    BY TurnTypes, HarmlessFrames, ShortInnocent
       DEF TypeInv, OnlyIssued, ProtocolCallback, Resume
  <2> QED
    BY <2>1, <2>2, InnocentJoin
<1>4. ASSUME \/ \E r \in Requests :
                  TransportConnects(r) \/ Identified(r) \/ MuxerEnds(r) \/ LateConnect(r)
             \/ \E p \in Peers :
                  InboundMuxes(p) \/ InboundCloses(p) \/ InboundEnds(p) \/ DenyExpires(p)
             \/ ManagerStart
      PROVE  agenda' = agenda
  BY <1>4 DEF TransportConnects, Identified, MuxerEnds, LateConnect, InboundMuxes,
              InboundCloses, InboundEnds, DenyExpires, ManagerStart
<1>5. CASE CloseConnections
  <2>1. PICK c : c = CloseAllF(AllTracked)
    OBVIOUS
  <2>2. c \in Frames /\ Harmless(c)
    BY <2>1, FrameTypes, HarmlessFrames DEF AllTracked
  <2>3. Innocent(<<c>>)
    BY <2>2, ShortInnocent
  <2> QED
    BY <1>1, <1>5, <2>1, <2>3 DEF CloseConnections
<1>6. CASE \E r \in Requests :
             \/ AttemptStep(r) \/ ShakeEnds(r) \/ Identified(r) \/ IdentifyFails(r)
             \/ MuxerCloses(r) \/ MuxerEnds(r) \/ LateConnect(r)
  BY <1>1, <1>2, <1>3, <1>4, <1>6 DEF AttemptStep
<1>7. CASE \/ \E p \in Peers :
                InboundMuxes(p) \/ InboundCloses(p) \/ InboundEnds(p) \/ DenyExpires(p)
           \/ ManagerStart
  BY <1>1, <1>4, <1>7
<1> QED
  BY <1>1, <1>5, <1>6, <1>7 DEF EnvStep

(* What starts a turn is innocent, but for the walks of stop() and _clean(). *)
LEMMA TurnsStart ==
  ASSUME TypeInv, TypeInv', UserTurn \/ EnvStep
  PROVE  TurnInv' /\ DropInv'
<1>1. agenda = <<>>
  BY Starts
<1>2. CASE UserTurn
  <2>1. agenda' = <<UserF(FALSE)>> /\ UserF(FALSE) \in Frames /\ UserF(FALSE).op = "user"
    BY <1>2, FrameTypes, FrameNames DEF UserTurn
  <2> QED
    BY <1>1, <2>1, FreshTurn
<1>3. CASE Clean
  <2>1. CleanF(queues) \in Frames /\ agenda' = <<CleanF(queues)>>
    BY <1>3, FrameTypes DEF Clean, TypeInv, TypeOK
  <2>2. CleanF(queues).op = "_clean"
    BY FrameNames
  <2> QED
    BY <1>1, <2>1, <2>2, FreshTurn
<1>4. CASE ManagerStop
  <2>1. StopF(queues) \in Frames /\ agenda' = <<StopF(queues)>> /\ mgrRunning' = FALSE
    BY <1>4, FrameTypes DEF ManagerStop, CloseConnections, TypeInv, TypeOK
  <2>2. StopF(queues).op = "stop"
    BY FrameNames
  <2> QED
    BY <1>1, <2>1, <2>2, FreshTurn
<1> QED
  BY <1>1, <1>2, <1>3, <1>4, Starts, FreshTurn

(* A step that has an effect keeps both invariants. *)
LEMMA EffectKeepsBoth ==
  ASSUME agenda \in Seq(Frames), agenda' \in Seq(Frames), agenda # <<>>, TurnInv, TurnEffect
  PROVE  TurnInv' /\ (DropInv => DropInv')
<1>1. PICK n \in Nat, c \in {0, 1} : Moved(n, c)
  BY DEF TurnEffect
<1>2. TurnInv'
  BY <1>1, MovedKeepsTurn DEF TurnEffect
<1> QED
  BY <1>2, EffectKeepsDrop

(* A reset of the denylist is user code of its own turn, unless callbacks    *)
(* may reset it; no queue is about to be removed in such a turn.             *)
LEMMA ClearKeepsBoth ==
  ASSUME TypeInv, TurnInv, NEW p \in Peers, ClearDenylist(p)
  PROVE  /\ TurnInv'
         /\ "clearDenylist" \notin NestedCalls => DropInv'
<1>1. agenda' = agenda /\ mgrRunning' = mgrRunning /\ MayCall("clearDenylist")
  BY DEF ClearDenylist
<1>2. TurnInv'
  BY <1>1 DEF TurnInv, OneDrop, NoFreshDrop, StopIsStopped, Dropping
<1>3. ASSUME "clearDenylist" \notin NestedCalls PROVE DropInv'
  <2>1. agenda # <<>> /\ Head(agenda) = UserF(FALSE)
    BY <1>1, <1>3 DEF MayCall, Top
  <2>2. 1 \in DOMAIN agenda /\ agenda[1] = UserF(FALSE)
    <3>1. PICK f : f = Head(agenda)
      OBVIOUS
    <3>2. 1 \in DOMAIN agenda /\ agenda[1] = f
      BY <2>1, <3>1 DEF TypeInv, TypeOK
    <3> QED
      BY <2>1, <3>1, <3>2
  <2>3. \A i \in DOMAIN agenda : ~Dropping(agenda[i])
    BY <2>2 DEF TurnInv, NoFreshDrop
  <2>4. \A q : Dropping(DeleteF(q))
    BY FrameNames DEF Dropping
  <2> QED
    BY <1>1, <2>3, <2>4 DEF DropInv
<1> QED
  BY <1>2, <1>3

(* Every step of a turn but those of a walk and a reset of the denylist.     *)
LEMMA TurnEffects ==
  ASSUME TypeInv,
         \/ TurnStep /\ ~StopNext /\ ~CleanNext
         \/ UserStep /\ ~UserTurn /\ ~(\E p \in Peers : ClearDenylist(p))
  PROVE  TurnEffect /\ agenda # <<>>
<1>1. CASE TurnStep /\ ~StopNext /\ ~CleanNext
  <2>1. agenda # <<>>
    BY <1>1 DEF TurnStep, Run, Callback, CloseAll, UserReturn, InUser, PeerStep, QueueRunStops,
                QueueRunReuses, QueueRunCreates, AbortNext, AbortEnds, Delete, RequestStep,
                OnError, DisconnectMuxed, DisconnectNow, Top
  <2>2. TurnEffect
    BY <1>1, RunEffect, QueueRunEffect, AbortEffect, DeleteEffect, OtherTurnEffect
       DEF TurnStep, PeerStep, TypeInv
  <2> QED
    BY <2>1, <2>2
<1>2. CASE UserStep /\ ~UserTurn /\ ~(\E p \in Peers : ClearDenylist(p))
  <2>1. agenda # <<>>
    BY <1>2 DEF UserStep, DialRefused, DialDenied, DialQueued, UserCloses, HangUp, MayCall, Top
  <2> QED
    BY <1>2, <2>1, UserEffect DEF UserStep
<1> QED
  BY <1>1, <1>2

(* One step keeps the shape of the turn and, where no callback resets the    *)
(* denylist, what is known of the queue to be removed.                       *)
LEMMA NextKeepsBoth ==
  ASSUME TypeInv, TypeInv', TurnInv, Next
  PROVE  TurnInv' /\ (DropInv /\ "clearDenylist" \notin NestedCalls => DropInv')
<1>1. agenda \in Seq(Frames) /\ agenda' \in Seq(Frames)
  BY DEF TypeInv, TypeOK
<1>2. CASE TurnEffect /\ agenda # <<>>
  BY <1>1, <1>2, EffectKeepsBoth
<1>3. CASE UserTurn \/ EnvStep
  BY <1>3, TurnsStart
<1>4. CASE StopNext \/ CleanNext
  <2>1. UNCHANGED <<mgrRunning, denylisted, queue, running>> /\ agenda # <<>>
    BY <1>4, WalkSteps DEF StopNext, CleanNext, queueVars, mgrVars
  <2>2. CASE agenda' = Rest /\ Head(agenda).op \in {"stop", "_clean"}
    <3>1. Moved(0, 1)
      BY <1>1, <2>1, <2>2, Moves
    <3>2. \A p \in Peers : Leaves(p, 0, 1)
      BY <2>1, <2>2, OtherFrames DEF Denied
    <3>3. TurnEffect
      BY <2>1, <3>1, <3>2 DEF TurnEffect
    <3> QED
      BY <1>1, <2>1, <3>3, EffectKeepsBoth
  <2>3. CASE Walks /\ Head(agenda).op \in {"stop", "_clean"}
    BY <1>1, <2>1, <2>3, WalkKeepsTurn
  <2> QED
    BY <1>4, <2>2, <2>3, WalkSteps
<1>5. ASSUME NEW p \in Peers, ClearDenylist(p)
      PROVE  TurnInv' /\ ("clearDenylist" \notin NestedCalls => DropInv')
  BY <1>5, ClearKeepsBoth
<1>6. CASE \/ TurnStep /\ ~StopNext /\ ~CleanNext
           \/ UserStep /\ ~UserTurn /\ ~(\E p \in Peers : ClearDenylist(p))
  BY <1>2, <1>6, TurnEffects
<1> QED
  BY <1>3, <1>4, <1>5, <1>6 DEF Next

(* At every step of every turn at most one removal of a queue is due, before *)
(* the rest of the walk that asked for it, and no user code starts a turn in *)
(* the middle of one: stop() and _clean() are never interrupted by another.  *)
THEOREM TurnInvariant == Spec => []TurnInv
<1>1. Init => TurnInv
  BY DEF Init, TurnInv, OneDrop, NoFreshDrop, StopIsStopped
<1>2. TypeInv /\ TypeInv' /\ TurnInv /\ [Next]_vars => TurnInv'
  <2>1. UNCHANGED vars /\ TurnInv => TurnInv'
    <3> SUFFICES ASSUME UNCHANGED vars, TurnInv PROVE TurnInv'
      OBVIOUS
    <3>1. agenda' = agenda /\ mgrRunning' = mgrRunning
      BY DEF vars, mgrVars
    <3> QED
      BY <3>1 DEF TurnInv, OneDrop, NoFreshDrop, StopIsStopped, Dropping
  <2> QED
    BY <2>1, NextKeepsBoth
<1> QED
  BY <1>1, <1>2, TypeInvariant, PTL DEF Spec

(* When the manager drops a Queue object, in a stop or a periodic clean,     *)
(* nothing is left in it and it does not run: the abort before it drained    *)
(* it, whatever the callbacks of its requests and the queues started on the  *)
(* freed slot did meanwhile -- provided no callback resets a denylist.       *)
THEOREM DroppedQueuesAreIdleHolds ==
  ASSUME "clearDenylist" \notin NestedCalls
  PROVE  Spec => []DroppedQueuesAreIdle
<1>1. Init => DropInv
  BY DEF Init, DropInv
<1>2. /\ TypeInv /\ TypeInv' /\ TurnInv /\ DropInv /\ [Next]_vars => DropInv'
  <2>1. UNCHANGED vars /\ DropInv => DropInv'
    BY DEF vars, mgrVars, queueVars, DropInv, Aborts, Drained, Woken, Denied, Idle
  <2> QED
    BY <2>1, NextKeepsBoth
<1>3. TypeInv /\ DropInv => DroppedQueuesAreIdle
  <2> SUFFICES ASSUME TypeInv, DropInv, NEW p \in Peers, Top(DeleteF(p))
               PROVE  queue[p] = <<>> /\ p \notin running
    BY DEF DroppedQueuesAreIdle
  <2>1. 1 \in DOMAIN agenda /\ agenda[1] = DeleteF(p)
    BY DEF Top, TypeInv, TypeOK
  <2>2. Drained(p, 1)
    BY <2>1 DEF DropInv, Aborts
  <2> QED
    BY <2>2 DEF Drained, Woken
<1> QED
  BY <1>1, <1>2, <1>3, TypeInvariant, TurnInvariant, PTL DEF Spec

-----------------------------------------------------------------------------
(* Denied peers.                                                            *)

(* A peer that was denied for a while, and not dialed since. *)
Held(p) == denylisted[p] \in {"until", "expired"}

Due(f) == \E i \in DOMAIN agenda : agenda[i] = f

(* The queue of such a peer is still to be aborted, or it is empty and will  *)
(* stop before the turn is over if it was started again.                     *)
HeldIsDrained(p) == Due(AbortF(p)) \/ (queue[p] = <<>> /\ (p \in running => Due(QueueRunF(p))))

DrainInv == \A p \in Peers : Held(p) => HeldIsDrained(p)

(* What a step of a turn does to such peers: one that becomes one is to be   *)
(* aborted first, and a dial is queued only at one that is allowed again.    *)
HeldStep(p) ==
  Held(p)' => \/ Held(p) /\ (queue[p] = <<>> => queue'[p] = <<>>)
              \/ Len(agenda') > 0 /\ agenda'[1] = AbortF(p)

(* The frames due stay due, but for one that is run. *)
LEMMA MovedDue ==
  ASSUME agenda \in Seq(Frames), agenda # <<>>, NEW n \in Nat, NEW c \in {0, 1}, Moved(n, c),
         NEW f, Due(f)
  PROVE  Due(f)' \/ (c = 1 /\ Top(f))
<1>1. PICK i \in DOMAIN agenda : agenda[i] = f
  BY DEF Due
<1>2. i \in 1 .. Len(agenda) /\ Head(agenda) = agenda[1]
  OBVIOUS
<1>3. CASE i > c
  <2>1. i - c + n \in DOMAIN agenda' /\ agenda'[i - c + n] = agenda[i]
    BY <1>3 DEF Moved
  <2> QED
    BY <1>1, <2>1 DEF Due
<1>4. CASE ~(i > c)
  <2>1. i = 1 /\ c = 1
    BY <1>2, <1>4
  <2> QED
    BY <1>1, <1>2, <2>1 DEF Top
<1> QED
  BY <1>3, <1>4

(* A step of a turn keeps the queues of denied peers drained. *)
LEMMA EffectKeepsDrained ==
  ASSUME agenda \in Seq(Frames), agenda' \in Seq(Frames), agenda # <<>>, DrainInv, TurnEffect,
         \A p \in Peers : HeldStep(p)
  PROVE  DrainInv'
<1> SUFFICES ASSUME NEW p \in Peers, Held(p)' PROVE HeldIsDrained(p)'
  BY DEF DrainInv
<1>1. PICK n \in Nat, c \in {0, 1} : Moved(n, c) /\ Leaves(p, n, c)
  BY DEF TurnEffect
<1>2. \A f : Len(agenda') > 0 /\ agenda'[1] = f => Due(f)'
  BY DEF Due
<1>3. CASE Len(agenda') > 0 /\ agenda'[1] = AbortF(p)
  BY <1>2, <1>3 DEF HeldIsDrained
<1>4. CASE Held(p) /\ (queue[p] = <<>> => queue'[p] = <<>>)
  <2>1. CASE Due(AbortF(p))
    <3>1. CASE Due(AbortF(p))'
      BY <3>1 DEF HeldIsDrained
    <3>2. CASE c = 1 /\ Top(AbortF(p))
      BY <1>1, <3>2 DEF Leaves, Idle, HeldIsDrained
    <3> QED
      BY <1>1, <2>1, <3>1, <3>2, MovedDue
  <2>2. CASE queue[p] = <<>> /\ (p \in running => Due(QueueRunF(p)))
    <3>1. ASSUME p \in running' PROVE Due(QueueRunF(p))'
      <4>1. CASE p \notin running
        <5>1. n >= 1 /\ agenda'[1] = QueueRunF(p)
          BY <1>1, <3>1, <4>1 DEF Leaves
        <5>2. Len(agenda') > 0
          BY <1>1, <5>1 DEF Moved
        <5> QED
          BY <1>2, <5>1, <5>2
      <4>2. CASE p \in running
        <5>1. ~Top(QueueRunF(p))
          BY <1>1, <2>2, <3>1 DEF Leaves
        <5> QED
          BY <1>1, <2>2, <4>2, <5>1, MovedDue
      <4> QED
        BY <4>1, <4>2
    <3> QED
      BY <1>4, <2>2, <3>1 DEF HeldIsDrained
  <2> QED
    BY <1>4, <2>1, <2>2 DEF DrainInv, HeldIsDrained
<1> QED
  BY <1>3, <1>4 DEF HeldStep

(* The steps that may deny a peer, allow it again, or fill its queue. *)
LEMMA HeldSteps ==
  ASSUME TypeInv, TypeInv', TurnStep \/ UserStep, NEW p \in Peers
  PROVE  HeldStep(p)
<1>0. /\ agenda \in Seq(Frames) /\ agenda # <<>> => Rest \in Seq(Frames)
      /\ queue \in [Peers -> Seq(Requests)] /\ denylisted \in [Peers -> DenyState]
  BY DEF TypeInv, TypeOK, Rest
<1>1. CASE denylisted' = denylisted /\ (queue[p] = <<>> => queue'[p] = <<>>)
  BY <1>1 DEF HeldStep, Held
<1>2. ASSUME NEW q \in Peers, AbortNext(q) \/ QueueRunReuses(q) \/ QueueRunCreates(q)
      PROVE  HeldStep(p)
  <2>1. denylisted' = denylisted /\ queue[q] # <<>> /\ queue' = [queue EXCEPT ![q] = Tail(@)]
    BY <1>2 DEF AbortNext, QueueRunReuses, QueueRunCreates
  <2> QED
    BY <1>0, <1>1, <2>1
<1>3. ASSUME NEW q \in Peers, Delete(q) \/ ClearDenylist(q)
      PROVE  HeldStep(p)
  <2>1. denylisted' = [denylisted EXCEPT ![q] = "null"] /\ queue' = queue
    BY <1>3 DEF Delete, ClearDenylist
  <2> QED
    BY <1>0, <2>1 DEF HeldStep, Held
<1>4. ASSUME NEW r \in Requests, DialQueued(r)
      PROVE  HeldStep(p)
  <2>1. PICK q \in Peers : /\ denylisted' = [denylisted EXCEPT ![q] = "null"]
                           /\ queue' = [queue EXCEPT ![q] = Append(@, r)]
    BY <1>4, PeerTypes DEF DialQueued
  <2> QED
    BY <1>0, <2>1 DEF HeldStep, Held
<1>5. ASSUME NEW r \in Requests, OnError(r)
      PROVE  HeldStep(p)
  <2>1. UNCHANGED queue /\ agenda # <<>>
    BY <1>5 DEF OnError, Top
  <2>2. CASE UNCHANGED denylisted
    BY <1>1, <2>1, <2>2
  <2>3. CASE r \in attached /\ Denylist(PeerOf(r))
    <3>1. PICK q \in Peers : q = PeerOf(r)
      BY <2>3, PeerTypes DEF TypeInv, OnlyIssued
    <3>2. \/ denylisted' = [denylisted EXCEPT ![q] = "Infinity"]
          \/ /\ denylisted' = [denylisted EXCEPT ![q] = "until"]
             /\ agenda' = <<AbortF(q)>> \o Rest
      BY <2>3, <3>1 DEF Denylist
    <3>3. agenda' = <<AbortF(q)>> \o Rest => Len(agenda') > 0 /\ agenda'[1] = AbortF(q)
      BY <1>0, <2>1, FrameTypes
    <3> QED
      BY <1>0, <2>1, <3>2, <3>3 DEF HeldStep, Held
  <2> QED
    BY <1>5, <2>2, <2>3 DEF OnError
<1>6. CASE \/ Run \/ Callback \/ CloseAll \/ StopNext \/ CleanNext \/ UserReturn \/ UserTurn
           \/ \E q \in Peers : QueueRunStops(q) \/ AbortEnds(q) \/ HangUp(q)
           \/ \E r \in Requests :
                \/ DisconnectMuxed(r) \/ DisconnectNow(r)
                \/ DialRefused(r) \/ DialDenied(r) \/ UserCloses(r)
  <2>1. UNCHANGED <<queue, denylisted>>
    BY <1>6 DEF Run, Callback, CloseAll, StopNext, CleanNext, UserReturn, UserTurn, QueueRunStops,
                AbortEnds, HangUp, DisconnectMuxed, DisconnectNow, DialRefused, DialDenied,
                UserCloses, queueVars
  <2> QED
    BY <1>1, <2>1
<1> QED
  BY <1>2, <1>3, <1>4, <1>5, <1>6 DEF TurnStep, UserStep, PeerStep, RequestStep

(* Between turns only time makes a denial less strict, and nothing is queued *)
(* or started by what begins a turn.                                         *)
LEMMA StartsKeepDrained ==
  ASSUME TypeInv, UserTurn \/ EnvStep, DrainInv
  PROVE  DrainInv'
<1>1. agenda = <<>> /\ UNCHANGED <<queue, running>>
  BY DEF UserTurn, EnvStep, AttemptStep, TransportConnects, AttemptFails, Muxes, Unmuxes,
         ShakeEnds, Identified, IdentifyFails, MuxerCloses, MuxerEnds, LateConnect,
         InboundMuxes, InboundCloses, InboundEnds, DenyExpires, Clean, ManagerStop, CloseConnections,
         ManagerStart, Quiet, queueVars
<1>2. \A p \in Peers : Held(p)' => Held(p)
  <2>1. CASE UNCHANGED denylisted
    BY <2>1 DEF Held
  <2>2. CASE \E q \in Peers : denylisted' = [denylisted EXCEPT ![q] = "null"]
    BY <2>2 DEF Held, TypeInv, TypeOK
  <2>3. CASE \E q \in Peers : DenyExpires(q)
    BY <2>3 DEF DenyExpires, Held, TypeInv, TypeOK
  <2>4. \A r \in Requests : Muxes(r) => PeerOf(r) \in Peers
    BY PeerTypes DEF Muxes, TypeInv, OnlyIssued
  <2> QED
    BY <2>1, <2>2, <2>3, <2>4
       DEF UserTurn, EnvStep, AttemptStep, TransportConnects, AttemptFails, Muxes, Unmuxes,
           ShakeEnds, Identified, IdentifyFails, MuxerCloses, MuxerEnds, LateConnect,
           InboundMuxes, InboundCloses, InboundEnds, Clean, ManagerStop, CloseConnections,
           ManagerStart, queueVars
<1>3. \A f : ~Due(f)
  BY <1>1 DEF Due
<1> QED
  BY <1>1, <1>2, <1>3 DEF DrainInv, HeldIsDrained

(* The rest of a turn is still due when a walk over the queues goes on. *)
LEMMA WalksKeepDrained ==
  ASSUME TypeInv, StopNext \/ CleanNext, DrainInv
  PROVE  DrainInv'
<1>1. UNCHANGED <<queue, running, denylisted>>
  BY DEF StopNext, CleanNext, queueVars
<1>2. agenda # <<>> /\ Head(agenda).op \in {"stop", "_clean"}
  BY WalkSteps
<1>3. PICK new \in Seq(Frames) : agenda' = new \o Rest
  <2>1. <<>> \in Seq(Frames) /\ agenda \in Seq(Frames) /\ Rest \in Seq(Frames)
    BY <1>2 DEF TypeInv, TypeOK, Rest
  <2>2. agenda' = Rest => agenda' = <<>> \o Rest
    BY <2>1
  <2>3. \A w \in Frames : <<w>> \in Seq(Frames)
    OBVIOUS
  <2>4. \A w \in Frames, p \in Peers : <<AbortF(p), DeleteF(p), w>> \in Seq(Frames)
    BY FrameTypes, ShortTurns
  <2> QED
    BY <2>1, <2>2, <2>3, <2>4, WalkSteps DEF Walks
<1>4. \A f : Due(f) => Due(f)' \/ Top(f)
  <2>1. PICK rest : rest = Rest
    OBVIOUS
  <2>2. /\ rest \in Seq(Frames) /\ DOMAIN agenda = 1 .. Len(rest) + 1
        /\ \A i \in 1 .. Len(rest) : rest[i] = agenda[i + 1]
        /\ Len(rest) \in Nat /\ Head(agenda) = agenda[1]
    BY <1>2, <2>1 DEF TypeInv, TypeOK, Rest
  <2>3. /\ DOMAIN (new \o rest) = 1 .. Len(new) + Len(rest) /\ Len(new) \in Nat
        /\ \A i \in 1 .. Len(rest) : (new \o rest)[Len(new) + i] = rest[i]
    BY <2>2, JoinFacts
  <2> SUFFICES ASSUME NEW f, NEW i \in DOMAIN agenda, agenda[i] = f, i # 1
               PROVE  Due(f)'
    BY <1>2, <2>2 DEF Due, Top
  <2>4. PICK j \in 1 .. Len(rest) : i = j + 1
    <3>1. i \in 1 .. Len(rest) + 1 /\ i # 1 /\ Len(rest) \in Nat
      BY <2>2
    <3>2. i - 1 \in 1 .. Len(rest) /\ i = (i - 1) + 1
      BY ONLY <3>1
    <3> QED
      BY <3>2
  <2>5. (new \o rest)[Len(new) + j] = f /\ Len(new) + j \in DOMAIN (new \o rest)
    BY <2>2, <2>3, <2>4
  <2> QED
    BY <1>3, <2>1, <2>5 DEF Due
<1>5. \A p \in Peers : ~Top(AbortF(p)) /\ ~Top(QueueRunF(p))
  BY <1>2, FrameNames DEF Top
<1>6. \A p \in Peers : /\ Held(p)' => Held(p)
                       /\ Due(AbortF(p)) => Due(AbortF(p))'
                       /\ Due(QueueRunF(p)) => Due(QueueRunF(p))'
  BY <1>1, <1>4, <1>5 DEF Held
<1> QED
  BY <1>1, <1>6 DEF DrainInv, HeldIsDrained

(* Between turns, a peer that was denied for a while and not dialed since    *)
(* has no dial queued and its queue does not run: the abort that follows the *)
(* denial empties it, whatever the callbacks of the aborted dials do, and a  *)
(* dial that would fill it clears the denial first.                          *)
THEOREM DeniedQueuesAreDrainedHolds == Spec => []DeniedQueuesAreDrained
<1>1. Init => DrainInv
  BY DEF Init, DrainInv, Held
<1>2. TypeInv /\ TypeInv' /\ DrainInv /\ [Next]_vars => DrainInv'
  <2> SUFFICES ASSUME TypeInv, TypeInv', DrainInv, [Next]_vars PROVE DrainInv'
    OBVIOUS
  <2>1. CASE UNCHANGED vars
    BY <2>1 DEF vars, queueVars, DrainInv, Held, HeldIsDrained, Due
  <2>2. CASE UserTurn \/ EnvStep
    BY <2>2, StartsKeepDrained
  <2>3. CASE StopNext \/ CleanNext
    BY <2>3, WalksKeepDrained
  <2>4. ASSUME NEW p \in Peers, ClearDenylist(p) PROVE DrainInv'
    <3>1. UNCHANGED <<queue, running, agenda>> /\ \A q \in Peers : Held(q)' => Held(q)
      BY <2>4 DEF ClearDenylist, Held, TypeInv, TypeOK
    <3> QED
      BY <3>1 DEF DrainInv, HeldIsDrained, Due
  <2>5. CASE \/ TurnStep /\ ~StopNext /\ ~CleanNext
             \/ UserStep /\ ~UserTurn /\ ~(\E p \in Peers : ClearDenylist(p))
    <3>1. agenda \in Seq(Frames) /\ agenda' \in Seq(Frames)
      BY DEF TypeInv, TypeOK
    <3> QED
      BY <2>5, <3>1, TurnEffects, HeldSteps, EffectKeepsDrained
  <2> QED
    BY <2>1, <2>2, <2>3, <2>4, <2>5 DEF Next
<1>3. TypeInv /\ DrainInv => DeniedQueuesAreDrained
  BY DEF DrainInv, HeldIsDrained, Held, Due, DeniedQueuesAreDrained, Quiet
<1> QED
  BY <1>1, <1>2, <1>3, TypeInvariant, PTL DEF Spec

-----------------------------------------------------------------------------
(* Waiting peers and free slots.                                            *)

Waiting    == Elems(normal) \cup Elems(cold)
NobodyWaits == normal = <<>> /\ cold = <<>>

(* What run() leaves: no slot is free, or nobody waits.  What it finds: one  *)
(* slot was freed, or one peer was put in a waiting set, since it last ran.  *)
Served       == Cardinality(dialing) >= MaxParallelDials \/ NobodyWaits
NearlyServed == \/ Cardinality(dialing) + 1 >= MaxParallelDials
                \/ Len(normal) + Len(cold) <= 1

NothingDropped == \A i \in DOMAIN agenda : ~Dropping(agenda[i])

(* While no queue is ever dropped the waiting peers have one, and hold no    *)
(* slot; whenever a slot is freed or a peer starts to wait, run() is next.   *)
WorkInv ==
  /\ mgrRunning /\ NothingDropped
  /\ IsASet(normal) /\ Waiting \cap dialing = {} /\ Waiting \subseteq queues
  /\ NearlyServed /\ (~Top(RunF) => Served)

(* The first of a Set is not among the others. *)
LEMMA HeadLeaves ==
  ASSUME NEW S, NEW s \in Seq(S), s # <<>>, IsASet(s)
  PROVE  /\ Head(s) \in Elems(s) /\ Head(s) \notin Elems(Tail(s))
         /\ Len(s) \in Nat /\ Len(s) >= 1 /\ (Len(s) <= 1 => Tail(s) = <<>>)
<1>1. PICK t : t = Tail(s)
  OBVIOUS
<1>2. /\ DOMAIN t = 1 .. Len(s) - 1 /\ DOMAIN s = 1 .. Len(s) /\ Len(s) \in Nat
      /\ \A i \in 1 .. Len(s) - 1 : t[i] = s[i + 1]
      /\ 1 \in DOMAIN s /\ Head(s) = s[1] /\ t \in Seq(S) /\ Len(t) = Len(s) - 1
  BY <1>1
<1>3. \A i \in DOMAIN t : t[i] # s[1]
  <2> SUFFICES ASSUME NEW i \in DOMAIN t, t[i] = s[1] PROVE FALSE
    OBVIOUS
  <2>1. i + 1 \in DOMAIN s /\ s[i + 1] = s[1] /\ i + 1 # 1
    BY <1>2
  <2> QED
    BY <1>2, <2>1 DEF IsASet
<1>4. Len(s) <= 1 => t = <<>>
  BY <1>2
<1> QED
  BY <1>1, <1>2, <1>3, <1>4 DEF Elems

(* run() gives the slot to a peer that waits and holds none, and then a slot *)
(* is free only if nobody else waits.                                        *)
LEMMA RunServes ==
  ASSUME TypeInv, SlotInv, WaitingInv, WorkInv, Run
  PROVE  /\ IsASet(normal') /\ Waiting' \cap dialing' = {} /\ Waiting' \subseteq queues'
         /\ NearlyServed' /\ Served' /\ mgrRunning'
<1>1. /\ normal \in Seq(Peers) /\ cold \in Seq(Peers) /\ MaxParallelDials \in Nat
      /\ Cardinality(dialing) \in Nat /\ Len(normal) \in Nat /\ Len(cold) \in Nat
      /\ queues' = queues /\ mgrRunning' /\ mgrRunning
  BY FS_CardinalityType, DialerAssumption DEF TypeInv, TypeOK, SlotInv, WorkInv, Run
<1>2. CASE ~(SlotFree /\ (normal # <<>> \/ cold # <<>>))
  <2>1. UNCHANGED <<normal, cold, dialing>>
    BY <1>2 DEF Run
  <2>2. Served
    BY <1>1, <1>2 DEF SlotFree, Served, NobodyWaits
  <2> QED
    BY <1>1, <2>1, <2>2 DEF WorkInv, Waiting, Served, NobodyWaits, NearlyServed
<1>3. CASE SlotFree /\ (normal # <<>> \/ cold # <<>>)
  <2>1. PICK q : /\ q \in Waiting /\ q = NextWaiting
                 /\ IsASet(normal') /\ Waiting' \subseteq Waiting \ {q}
                 /\ Len(normal) + Len(cold) <= 1 => NobodyWaits'
    <3>1. CASE normal # <<>>
      <4>1. normal' = Tail(normal) /\ cold' = cold /\ NextWaiting = Head(normal)
        BY <1>1, <1>3, <3>1 DEF Run, NextWaiting
      <4>2. /\ Head(normal) \in Elems(normal) /\ Head(normal) \notin Elems(Tail(normal))
            /\ Elems(Tail(normal)) \subseteq Elems(normal) /\ IsASet(Tail(normal))
            /\ Len(normal) >= 1 /\ (Len(normal) <= 1 => Tail(normal) = <<>>)
        BY <1>1, <3>1, HeadLeaves, TailFacts DEF WorkInv
      <4>3. Len(normal) + Len(cold) <= 1 => Len(normal) <= 1 /\ Len(cold) = 0
        BY <1>1, <4>2
      <4>4. Len(cold) = 0 => cold = <<>>
        BY <1>1
      <4> QED
        BY <4>1, <4>2, <4>3, <4>4 DEF Waiting, NobodyWaits, WaitingInv, ColdCallsAreBounded
    <3>2. CASE normal = <<>>
      <4>1. normal' = normal /\ cold' = Tail(cold) /\ NextWaiting = Head(cold) /\ cold # <<>>
        BY <1>1, <1>3, <3>2 DEF Run, NextWaiting
      <4>2. /\ Head(cold) \in Elems(cold) /\ Head(cold) \notin Elems(Tail(cold))
            /\ Elems(Tail(cold)) \subseteq Elems(cold)
            /\ Len(cold) <= 1 => Tail(cold) = <<>>
        BY <1>1, <4>1, HeadLeaves, TailFacts DEF WaitingInv
      <4>3. Len(normal) + Len(cold) <= 1 => Len(cold) <= 1
        BY <1>1
      <4> QED
        BY <3>2, <4>1, <4>2, <4>3
           DEF Waiting, NobodyWaits, WaitingInv, ColdCallsAreBounded, WorkInv
    <3> QED
      BY <3>1, <3>2
  <2>2. q \in queues /\ q \notin dialing /\ dialing' = dialing \cup {q}
    BY <1>1, <1>3, <2>1 DEF Run, WorkInv
  <2>3. Cardinality(dialing') = Cardinality(dialing) + 1
    BY <2>2, FS_AddElement DEF SlotInv
  <2>4. Served'
    <3>1. CASE Cardinality(dialing) + 1 >= MaxParallelDials
      BY <2>3, <3>1 DEF Served
    <3>2. CASE Len(normal) + Len(cold) <= 1
      BY <2>1, <3>2 DEF Served
    <3> QED
      BY <3>1, <3>2 DEF WorkInv, NearlyServed
  <2>5. NearlyServed'
    <3>1. CASE Cardinality(dialing') >= MaxParallelDials
      BY <1>1, <2>3, <3>1 DEF NearlyServed
    <3>2. CASE NobodyWaits'
      BY <3>2 DEF NobodyWaits, NearlyServed
    <3> QED
      BY <2>4, <3>1, <3>2 DEF Served
  <2> QED
    BY <1>1, <2>1, <2>2, <2>4, <2>5 DEF WorkInv
<1> QED
  BY <1>2, <1>3

(* A step that neither waits, serves nor stops. *)
Steady == UNCHANGED <<normal, cold, dialing, mgrRunning>> /\ queues \subseteq queues'

(* The steps that run() has to follow: a queue stops, a peer starts to wait. *)
LEMMA WorkSteps ==
  ASSUME TypeInv, Next, mgrRunning, NothingDropped, Events \cap {"clean", "restart"} = {}
  PROVE  \/ Run
         \/ ~Top(RunF) /\ Steady
         \/ ~Top(RunF) /\ \E r \in Requests : DialQueued(r)
         \/ /\ ~Top(RunF) /\ agenda # <<>>
            /\ UNCHANGED <<normal, cold, queues, mgrRunning>>
            /\ \E p \in Peers : QueueStop(p, Rest)
<1>1. \A f : Dropping(f) => ~Top(f)
  BY DEF NothingDropped, Top, TypeInv, TypeOK
<1>2. ASSUME NEW f, Top(f), f.op # "run"
      PROVE  ~Top(RunF)
  BY <1>2, FrameNames DEF Top
<1>3. ASSUME NEW p \in Peers, PeerStep(p)
      PROVE  /\ ~Top(RunF) /\ agenda # <<>>
             /\ \/ Steady
                \/ UNCHANGED <<normal, cold, queues, mgrRunning>> /\ QueueStop(p, Rest)
  <2>1. ~Delete(p)
    <3>1. Dropping(DeleteF(p))
      BY FrameNames DEF Dropping
    <3> QED
      BY <1>1, <3>1 DEF Delete
  <2>2. Top(QueueRunF(p)) \/ Top(AbortF(p))
    BY <1>3, <2>1 DEF PeerStep, QueueRunStops, QueueRunReuses, QueueRunCreates, AbortNext, AbortEnds
  <2>3. ~Top(RunF) /\ agenda # <<>>
    BY <1>2, <2>2, FrameNames DEF Top
  <2>4. \/ UNCHANGED <<normal, cold, queues, mgrRunning>> /\ QueueStop(p, Rest)
        \/ Steady
    BY <1>3, <2>1 DEF PeerStep, QueueRunStops, QueueRunReuses, QueueRunCreates, AbortNext,
                      AbortEnds, mgrVars, Steady
  <2> QED
    BY <2>3, <2>4
<1>4. ASSUME NEW r \in Requests, RequestStep(r)
      PROVE  ~Top(RunF) /\ Steady
  <2>1. Top(OnErrorF(r)) \/ \E b \in BOOLEAN : Top(DisconnectF(r, b))
    BY <1>4 DEF RequestStep, OnError, DisconnectMuxed, DisconnectNow
  <2>2. ~Top(RunF)
    BY <1>2, <2>1, FrameNames
  <2> QED
    BY <1>4, <2>2 DEF RequestStep, OnError, DisconnectMuxed, DisconnectNow, mgrVars, Steady
<1>5. ASSUME Callback \/ CloseAll \/ UserReturn
      PROVE  ~Top(RunF) /\ Steady
  <2>1. \/ \E r, a : Top(CallbackF(r, a))
        \/ \E R : Top(CloseAllF(R))
        \/ \E b : Top(UserF(b))
    BY <1>5 DEF Callback, CloseAll, UserReturn, InUser
  <2>2. ~Top(RunF)
    BY <1>2, <2>1, FrameNames
  <2> QED
    BY <1>5, <2>2 DEF Callback, CloseAll, UserReturn, mgrVars, Steady
<1>6. ~StopNext /\ ~CleanNext
  BY <1>1, FrameNames DEF StopNext, CleanNext, Dropping
<1>7. ASSUME UserStep
      PROVE  ~Top(RunF) /\ (Steady \/ \E r \in Requests : DialQueued(r))
  <2>1. agenda = <<>> \/ \E b : Top(UserF(b))
    BY <1>7 DEF UserStep, UserTurn, Quiet, DialRefused, DialDenied, DialQueued, UserCloses, HangUp,
                ClearDenylist, MayCall
  <2>2. ~Top(RunF)
    <3>1. agenda = <<>> => ~Top(RunF)
      BY DEF Top
    <3> QED
      BY <1>2, <2>1, <3>1, FrameNames
  <2> QED
    BY <1>7, <2>2 DEF UserStep, UserTurn, DialRefused, DialDenied, UserCloses, HangUp,
                      ClearDenylist, mgrVars, Steady
<1>8. ASSUME EnvStep
      PROVE  ~Top(RunF) /\ Steady
  <2>1. agenda = <<>>
    BY <1>8, Starts
  <2>2. ~Clean /\ ~ManagerStop /\ ~CloseConnections /\ ~ManagerStart
    BY DEF Clean, ManagerStop, CloseConnections, ManagerStart
  <2> QED
    BY <1>8, <2>1, <2>2
       DEF EnvStep, AttemptStep, TransportConnects, AttemptFails, Muxes, Unmuxes, ShakeEnds,
           Identified, IdentifyFails, MuxerCloses, MuxerEnds, LateConnect, InboundMuxes,
           InboundCloses, InboundEnds, DenyExpires, mgrVars, Steady, Top
<1> QED
  BY <1>3, <1>4, <1>5, <1>6, <1>7, <1>8 DEF Next, TurnStep

(* A queue that stops frees one slot at most, and run() is next if it does.  *)
LEMMA StopNearlyServes ==
  ASSUME TypeInv, SlotInv, WorkInv, ~Top(RunF), agenda # <<>>,
         UNCHANGED <<normal, cold, queues, mgrRunning>>,
         NEW p \in Peers, QueueStop(p, Rest)
  PROVE  /\ Waiting' \cap dialing' = {} /\ Waiting' \subseteq queues'
         /\ NearlyServed' /\ (~Top(RunF)' => Served')
<1>1. /\ Cardinality(dialing) \in Nat /\ MaxParallelDials \in Nat
      /\ Len(normal) \in Nat /\ Len(cold) \in Nat
  BY FS_CardinalityType, DialerAssumption DEF SlotInv, TypeInv, TypeOK
<1>2. Waiting' \cap dialing' = {} /\ Waiting' \subseteq queues'
  BY DEF QueueStop, WorkInv, Waiting
<1>3. CASE p \in running
  <2>1. agenda' = <<RunF>> \o Rest /\ dialing' = dialing \ {p}
    BY <1>3 DEF QueueStop
  <2>2. Top(RunF)'
    <3>1. Rest \in Seq(Frames) /\ RunF \in Frames
      BY FrameTypes DEF TypeInv, TypeOK, Rest
    <3> QED
      BY <2>1, <3>1 DEF Top
  <2>3. Cardinality(dialing') \in Nat /\ Cardinality(dialing') + 1 >= Cardinality(dialing)
    <3>1. CASE p \in dialing
      <4>1. /\ Cardinality(dialing \ {p}) = Cardinality(dialing) - 1
            /\ IsFiniteSet(dialing \ {p})
        BY <3>1, FS_RemoveElement DEF SlotInv
      <4>2. Cardinality(dialing') \in Nat /\ Cardinality(dialing') = Cardinality(dialing) - 1
        BY <2>1, <4>1, FS_CardinalityType
      <4> QED
        BY <1>1, <4>2
    <3>2. CASE p \notin dialing
      <4>1. dialing' = dialing
        BY <2>1, <3>2
      <4> QED
        BY <1>1, <4>1
    <3> QED
      BY <3>1, <3>2
  <2>4. NobodyWaits => Len(normal) + Len(cold) <= 1
    BY DEF NobodyWaits
  <2>5. NearlyServed'
    BY <1>1, <2>3, <2>4 DEF WorkInv, Served, NearlyServed
  <2> QED
    BY <1>2, <2>2, <2>5
<1>4. CASE p \notin running
  <2>1. UNCHANGED dialing
    BY <1>4 DEF QueueStop
  <2> QED
    BY <1>2, <2>1 DEF WorkInv, Served, NobodyWaits, NearlyServed
<1> QED
  BY <1>3, <1>4

(* A dial makes one peer wait at most, and run() is next if it does.         *)
LEMMA DialNearlyServes ==
  ASSUME TypeInv, SlotInv, WaitingInv, WorkInv, ~Top(RunF),
         NEW r \in Requests, DialQueued(r)
  PROVE  /\ IsASet(normal') /\ Waiting' \cap dialing' = {} /\ Waiting' \subseteq queues'
         /\ NearlyServed' /\ (~Top(RunF)' => Served') /\ mgrRunning'
<1>1. /\ Cardinality(dialing) \in Nat /\ MaxParallelDials \in Nat
      /\ normal \in Seq(Peers) /\ cold \in Seq(Peers)
      /\ Len(normal) \in Nat /\ Len(cold) \in Nat
      /\ UNCHANGED <<dialing, mgrRunning>>
      /\ agenda # <<>> /\ agenda \in Seq(Frames)
  <2>1. agenda # <<>>
    BY DEF DialQueued, MayCall, Top
  <2> QED
    BY <2>1, FS_CardinalityType, DialerAssumption DEF SlotInv, TypeInv, TypeOK, DialQueued
<1>2. PICK q \in Peers :
        /\ queues' = queues \cup {q}
        /\ \/ UNCHANGED <<normal, cold>>
           \/ /\ q \notin running /\ agenda' = <<RunF>> \o agenda
              /\ \E isCold \in BOOLEAN : Enlist(q, isCold)
  <2>1. \A c \in Calls : c.peer \in Peers /\ c.kind.cold \in BOOLEAN
    <3>1. \A k \in Kinds : k.cold \in BOOLEAN
      <4>1. Connect.cold \in BOOLEAN /\ Dial.cold \in BOOLEAN
        BY DEF Connect, Dial
      <4>2. DialFSM.cold \in BOOLEAN /\ Warm.cold \in BOOLEAN
        BY DEF DialFSM, Warm
      <4> QED
        BY <4>1, <4>2, DialerAssumption
    <3>2. \A c \in Calls : c.peer \in Peers /\ c.kind \in Kinds
      BY DEF Calls
    <3> QED
      BY <3>1, <3>2
  <2> QED
    BY <2>1 DEF DialQueued
<1>3. CASE UNCHANGED <<normal, cold>>
  BY <1>1, <1>2, <1>3 DEF WorkInv, Waiting, Served, NobodyWaits, NearlyServed
<1>4. ASSUME NEW isCold \in BOOLEAN, Enlist(q, isCold), q \notin running,
             agenda' = <<RunF>> \o agenda
      PROVE  /\ IsASet(normal') /\ Waiting' \subseteq Waiting \cup {q}
             /\ NobodyWaits => Len(normal') + Len(cold') <= 1
  <2>1. CASE isCold
    <3>1. cold' = SetAdd(cold, q) /\ normal' = normal
      BY <1>4, <2>1 DEF Enlist
    <3>2. Elems(cold') = Elems(cold) \cup {q} /\ Len(cold') <= Len(cold) + 1
      BY <1>1, <3>1, AddFacts DEF WaitingInv
    <3>3. NobodyWaits => Len(normal') = 0 /\ Len(cold') <= 1 /\ Len(cold') \in Nat
      <4>1. cold' \in Seq(Peers)
        BY <1>1, <3>1, SetTypes
      <4> QED
        BY <3>1, <3>2, <4>1 DEF NobodyWaits
    <3>4. NobodyWaits => Len(normal') + Len(cold') <= 1
      BY <3>3
    <3> QED
      BY <3>1, <3>2, <3>4 DEF Waiting, WorkInv
  <2>2. CASE ~isCold
    <3>1. cold' = SetDelete(cold, q) /\ normal' = SetAdd(normal, q)
      BY <1>4, <2>2 DEF Enlist
    <3>2. /\ Elems(cold') = Elems(cold) \ {q} /\ Len(cold') <= Len(cold)
          /\ Elems(normal') = Elems(normal) \cup {q} /\ Len(normal') <= Len(normal) + 1
          /\ IsASet(normal')
      BY <1>1, <3>1, AddFacts, DeleteFacts DEF WaitingInv, WorkInv
    <3>3. cold' \in Seq(Peers) /\ normal' \in Seq(Peers)
      BY <1>1, <3>1, SetTypes
    <3>4. Len(cold') \in Nat /\ Len(normal') \in Nat
      BY <3>3
    <3>5. NobodyWaits => Len(normal') <= 1 /\ Len(cold') <= 0
      BY <3>2 DEF NobodyWaits
    <3>6. NobodyWaits => Len(normal') + Len(cold') <= 1
      BY ONLY <3>4, <3>5
    <3> QED
      BY <3>2, <3>6 DEF Waiting
  <2> QED
    BY <2>1, <2>2
<1>5. ASSUME NEW isCold \in BOOLEAN, Enlist(q, isCold), q \notin running,
             agenda' = <<RunF>> \o agenda
      PROVE  /\ IsASet(normal') /\ Waiting' \cap dialing' = {} /\ Waiting' \subseteq queues'
             /\ NearlyServed' /\ Top(RunF)'
  <2>1. q \notin dialing
    BY <1>5 DEF SlotInv, SlotsAreHeld
  <2>2. Top(RunF)'
    BY <1>1, <1>5, FrameTypes DEF Top
  <2>3. NearlyServed'
    BY <1>1, <1>4, <1>5 DEF WorkInv, Served, NearlyServed
  <2> QED
    BY <1>1, <1>2, <1>4, <1>5, <2>1, <2>2, <2>3 DEF WorkInv
<1> QED
  BY <1>1, <1>2, <1>3, <1>5 DEF WorkInv

(* Where neither stop() nor _clean() begins, no frame is ever one of theirs. *)
LEMMA NothingIsDropped ==
  ASSUME TypeInv, TypeInv', NothingDropped, Next, Events \cap {"clean", "restart"} = {}
  PROVE  NothingDropped'
<1>1. CASE UserTurn \/ EnvStep
  <2>1. agenda = <<>> /\ (UserTurn \/ agenda' = agenda \/ Innocent(agenda'))
    BY <1>1, Starts DEF Clean, ManagerStop
  <2>2. CASE UserTurn
    <3>1. agenda' = <<UserF(FALSE)>> /\ ~Dropping(UserF(FALSE))
      BY <2>2, FrameNames DEF UserTurn, Dropping
    <3>2. \A f : agenda' = <<f>> /\ ~Dropping(f) => NothingDropped'
      BY DEF NothingDropped, Dropping
    <3> QED
      BY <3>1, <3>2
  <2>3. agenda' = agenda => NothingDropped'
    BY DEF NothingDropped, Dropping
  <2>4. Innocent(agenda') => NothingDropped'
    BY DEF NothingDropped, Innocent, Harmless, Dropping
  <2> QED
    BY <2>1, <2>2, <2>3, <2>4
<1>2. ~StopNext /\ ~CleanNext
  <2>1. StopNext \/ CleanNext => agenda # <<>> /\ Dropping(Head(agenda))
    BY WalkSteps DEF Dropping
  <2>2. agenda # <<>> => 1 \in DOMAIN agenda /\ agenda[1] = Head(agenda)
    BY DEF TypeInv, TypeOK
  <2> QED
    BY <2>1, <2>2 DEF NothingDropped
<1>3. ASSUME NEW p \in Peers, ClearDenylist(p) PROVE NothingDropped'
  BY <1>3 DEF ClearDenylist, NothingDropped, Dropping
<1>4. CASE TurnEffect
  <2>1. PICK n \in Nat, c \in {0, 1} : Moved(n, c)
    BY <1>4 DEF TurnEffect
  <2> QED
    BY <2>1 DEF Moved, NothingDropped, Harmless, Dropping
<1> QED
  BY <1>1, <1>2, <1>3, <1>4, TurnEffects DEF Next

(* Between turns no peer waits while a slot is free, however many dials are  *)
(* asked for, end and fail in the turn -- where neither _clean() nor a       *)
(* restart removes the queue of a peer that waits or puts off run(); TLC     *)
(* shows that a free slot stays unused after a _clean() (Dialer_stale_entry).*)
THEOREM WorkConservingHolds ==
  ASSUME Events \cap {"clean", "restart"} = {}
  PROVE  Spec => []WorkConserving
<1>1. Init => WorkInv
  <2> SUFFICES ASSUME Init PROVE WorkInv
    OBVIOUS
  <2>1. /\ normal = <<>> /\ cold = <<>> /\ dialing = {} /\ queues = {} /\ mgrRunning
        /\ agenda = <<>>
    BY DEF Init
  <2>2. NobodyWaits /\ Waiting = {} /\ Len(normal) + Len(cold) <= 1
    BY <2>1 DEF NobodyWaits, Waiting, Elems
  <2> QED
    BY <2>1, <2>2 DEF WorkInv, NothingDropped, IsASet, NearlyServed, Served
<1>2. TypeInv /\ TypeInv' /\ SlotInv /\ WaitingInv /\ WorkInv /\ [Next]_vars => WorkInv'
  <2> SUFFICES ASSUME TypeInv, TypeInv', SlotInv, WaitingInv, WorkInv, [Next]_vars PROVE WorkInv'
    OBVIOUS
  <2>1. CASE UNCHANGED vars
    <3>1. UNCHANGED <<normal, cold, dialing, queues, mgrRunning, agenda>>
      BY <2>1 DEF vars, mgrVars
    <3> QED
      BY <3>1 DEF WorkInv, NothingDropped, Dropping, IsASet, Waiting, NearlyServed, Served,
                  NobodyWaits, Top
  <2>2. CASE Next
    <3>0. NothingDropped' /\ mgrRunning
      BY <2>2, NothingIsDropped DEF WorkInv
    <3>1. CASE Run
      BY <3>0, <3>1, RunServes DEF WorkInv
    <3>2. CASE ~Top(RunF) /\ Steady
      <4>1. UNCHANGED <<normal, cold, dialing, mgrRunning>> /\ queues \subseteq queues'
        BY <3>2 DEF Steady
      <4> QED
        BY <3>0, <3>2, <4>1 DEF WorkInv, Waiting, Served, NearlyServed, NobodyWaits
    <3>3. ASSUME ~Top(RunF), NEW r \in Requests, DialQueued(r) PROVE WorkInv'
      BY <3>0, <3>3, DialNearlyServes DEF WorkInv
    <3>4. ASSUME ~Top(RunF), agenda # <<>>, UNCHANGED <<normal, cold, queues, mgrRunning>>,
                 NEW p \in Peers, QueueStop(p, Rest)
          PROVE  WorkInv'
      <4>1. /\ Waiting' \cap dialing' = {} /\ Waiting' \subseteq queues'
            /\ NearlyServed' /\ (~Top(RunF)' => Served')
        BY <3>4, StopNearlyServes
      <4>2. mgrRunning' /\ IsASet(normal')
        BY <3>4 DEF WorkInv
      <4> QED
        BY <3>0, <4>1, <4>2 DEF WorkInv
    <3> QED
      BY <2>2, <3>0, <3>1, <3>2, <3>3, <3>4, WorkSteps DEF WorkInv
  <2> QED
    BY <2>1, <2>2
<1>3. SlotInv /\ WorkInv => WorkConserving
  <2> SUFFICES ASSUME SlotInv, WorkInv, Quiet, normal # <<>> \/ cold # <<>> PROVE ~SlotFree
    BY DEF WorkConserving
  <2>1. Cardinality(dialing) >= MaxParallelDials
    BY DEF WorkInv, Served, NobodyWaits, Quiet, Top
  <2> QED
    BY <2>1, FS_CardinalityType, DialerAssumption DEF SlotFree, SlotInv
<1> QED
  BY <1>1, <1>2, <1>3, TypeInvariant, SlotsInvariant, WaitingInvariant, PTL DEF Spec

=============================================================================
