------------------------- MODULE DialerAnswerProofs -------------------------
(***************************************************************************)
(* Proofs about the requests of the dialer: a request that was never       *)
(* answered is in exactly one place from which an answer can come, however *)
(* dials, failures, hang-ups and callbacks interleave.                     *)
(***************************************************************************)
EXTENDS DialerProofs

-----------------------------------------------------------------------------
(* What is left of the turn, as a set.                                      *)

Pending == Elems(agenda)

(* The requests whose connections a frame closes. *)
Subjects(f) ==
  IF f.op = "disconnect" THEN {f.req} ELSE IF f.op = "closeAll" THEN f.todo ELSE {}

(* A step of a turn: of what was left at most gone is done, new is added,    *)
(* and nothing else that is added closes a connection.                       *)
Turned(gone, new) ==
  /\ \A f \in Pending : f \in Pending' \/ f = gone
  /\ new \subseteq Pending'
  /\ \A f \in Pending' : f \in Pending \/ f \in new \/ Subjects(f) = {}

(* Whose connections each frame closes. *)
LEMMA FrameSubjects ==
  /\ Subjects(RunF) = {}
  /\ \A p : Subjects(QueueRunF(p)) = {} /\ Subjects(AbortF(p)) = {} /\ Subjects(DeleteF(p)) = {}
  /\ \A r, a : Subjects(CallbackF(r, a)) = {} /\ Subjects(DisconnectF(r, a)) = {r}
  /\ \A r : Subjects(OnErrorF(r)) = {} /\ Subjects(CloseAllF(r)) = r
  /\ \A P : Subjects(StopF(P)) = {} /\ Subjects(CleanF(P)) = {}
  /\ \A b : Subjects(UserF(b)) = {}
<1>1. \A f : f.op \notin {"disconnect", "closeAll"} => Subjects(f) = {}
  BY DEF Subjects
<1>2. \A r, a : Subjects(DisconnectF(r, a)) = {r}
  BY DEF Subjects, DisconnectF
<1>3. \A R : Subjects(CloseAllF(R)) = R
  BY DEF Subjects, CloseAllF
<1>4. Subjects(RunF) = {} /\ \A P : Subjects(StopF(P)) = {} /\ Subjects(CleanF(P)) = {}
  BY <1>1, FrameNames
<1>5. \A p : Subjects(QueueRunF(p)) = {} /\ Subjects(AbortF(p)) = {} /\ Subjects(DeleteF(p)) = {}
  BY <1>1, FrameNames
<1>6. /\ \A r, a : Subjects(CallbackF(r, a)) = {}
      /\ \A r : Subjects(OnErrorF(r)) = {}
      /\ \A b : Subjects(UserF(b)) = {}
  BY <1>1, FrameNames
<1> QED
  BY <1>2, <1>3, <1>4, <1>5, <1>6

(* The elements of short pieces of a turn. *)
LEMMA PieceElems ==
  /\ Elems(<<>>) = {}
  /\ \A a : Elems(<<a>>) = {a}
  /\ \A a, b : Elems(<<a, b>>) = {a, b}
  /\ \A a, b, c : Elems(<<a, b, c>>) = {a, b, c}
<1>1. Elems(<<>>) = {} /\ \A a : Elems(<<a>>) = {a}
  BY DEF Elems
<1>2. ASSUME NEW a, NEW b PROVE Elems(<<a, b>>) = {a, b}
  <2>1. DOMAIN <<a, b>> = {1, 2} /\ <<a, b>>[1] = a /\ <<a, b>>[2] = b
    OBVIOUS
  <2> QED
    BY <2>1 DEF Elems
<1>3. ASSUME NEW a, NEW b, NEW c PROVE Elems(<<a, b, c>>) = {a, b, c}
  <2>1. /\ DOMAIN <<a, b, c>> = {1, 2, 3}
        /\ <<a, b, c>>[1] = a /\ <<a, b, c>>[2] = b /\ <<a, b, c>>[3] = c
    OBVIOUS
  <2> QED
    BY <2>1 DEF Elems
<1> QED
  BY <1>1, <1>2, <1>3

(* The elements of two sequences, one after the other. *)
LEMMA JoinElems ==
  ASSUME NEW S, NEW s \in Seq(S), NEW t \in Seq(S)
  PROVE  Elems(s \o t) = Elems(s) \cup Elems(t)
<1>1. PICK u : u = s \o t
  OBVIOUS
<1>2. /\ Len(s) \in Nat /\ Len(t) \in Nat
      /\ DOMAIN s = 1 .. Len(s) /\ DOMAIN t = 1 .. Len(t)
      /\ DOMAIN u = 1 .. Len(s) + Len(t)
      /\ \A i \in 1 .. Len(s) : u[i] = s[i]
      /\ \A i \in 1 .. Len(t) : u[Len(s) + i] = t[i]
  BY <1>1, JoinFacts
<1>3. \A i \in DOMAIN u : i \in DOMAIN s \/ (i - Len(s) \in DOMAIN t /\ i = Len(s) + (i - Len(s)))
  BY ONLY <1>2
<1>4. Elems(u) \subseteq Elems(s) \cup Elems(t)
  BY <1>2, <1>3 DEF Elems
<1>5. /\ \A i \in DOMAIN s : i \in DOMAIN u
      /\ \A i \in DOMAIN t : Len(s) + i \in DOMAIN u
  BY ONLY <1>2
<1>6. Elems(s) \cup Elems(t) \subseteq Elems(u)
  BY <1>2, <1>5 DEF Elems
<1> QED
  BY <1>1, <1>4, <1>6

(* A first element and the elements of the rest. *)
LEMMA RestElems ==
  ASSUME NEW S, NEW s \in Seq(S), s # <<>>
  PROVE  Elems(s) = {Head(s)} \cup Elems(Tail(s)) /\ Tail(s) \in Seq(S)
<1>1. <<Head(s)>> \in Seq(S) /\ Tail(s) \in Seq(S) /\ s = <<Head(s)>> \o Tail(s)
  OBVIOUS
<1>2. PICK t, u : t = <<Head(s)>> /\ u = Tail(s)
  OBVIOUS
<1>3. t \in Seq(S) /\ u \in Seq(S) /\ s = t \o u
  BY <1>1, <1>2
<1>4. Elems(t \o u) = Elems(t) \cup Elems(u)
  BY ONLY <1>3, JoinElems
<1>5. Elems(t) = {Head(s)}
  BY <1>2, PieceElems
<1> QED
  BY <1>1, <1>2, <1>3, <1>4, <1>5

(* The elements of a sequence and one more at its end. *)
LEMMA AppendElems ==
  ASSUME NEW S, NEW s \in Seq(S), NEW x \in S
  PROVE  Elems(Append(s, x)) = Elems(s) \cup {x}
<1>1. <<x>> \in Seq(S) /\ Append(s, x) = s \o <<x>>
  OBVIOUS
<1>2. Elems(s \o <<x>>) = Elems(s) \cup Elems(<<x>>)
  BY <1>1, JoinElems
<1> QED
  BY <1>1, <1>2, PieceElems

(* What is left of a turn after a piece was put in front of it, or of what   *)
(* its first frame left.                                                     *)
LEMMA PendingFacts ==
  ASSUME agenda \in Seq(Frames)
  PROVE  /\ agenda = <<>> => Pending = {}
         /\ agenda # <<>> => Pending = {Head(agenda)} \cup Elems(Rest)
         /\ \A new \in Seq(Frames) :
              /\ agenda' = new \o agenda => Pending' = Elems(new) \cup Pending
              /\ agenda # <<>> /\ agenda' = new \o Rest => Pending' = Elems(new) \cup Elems(Rest)
         /\ \A new, late \in Seq(Frames) :
              agenda # <<>> /\ agenda' = (new \o Rest) \o late
                => Pending' = Elems(new) \cup Elems(Rest) \cup Elems(late)
         /\ \A f \in Frames : agenda' = Append(agenda, f) => Pending' = Pending \cup {f}
<1>1. agenda # <<>> => Pending = {Head(agenda)} \cup Elems(Rest) /\ Rest \in Seq(Frames)
  BY RestElems DEF Pending, Rest
<1>2. agenda = <<>> => Pending = {}
  BY PieceElems DEF Pending
<1>3. ASSUME NEW new \in Seq(Frames), agenda' = new \o agenda
      PROVE  Pending' = Elems(new) \cup Pending
  BY <1>3, JoinElems DEF Pending
<1>4. ASSUME NEW new \in Seq(Frames), agenda # <<>>, agenda' = new \o Rest
      PROVE  Pending' = Elems(new) \cup Elems(Rest)
  BY <1>1, <1>4, JoinElems DEF Pending
<1>5. ASSUME NEW new \in Seq(Frames), NEW late \in Seq(Frames), agenda # <<>>,
             agenda' = (new \o Rest) \o late
      PROVE  Pending' = Elems(new) \cup Elems(Rest) \cup Elems(late)
  <2>0. new \o Rest \in Seq(Frames)
    BY <1>1, <1>5, Pushing
  <2>1. PICK s \in Seq(Frames) : s = new \o Rest
    BY <2>0
  <2>2. Elems(s) = Elems(new) \cup Elems(Rest)
    BY <1>1, <1>5, <2>1, JoinElems
  <2>3. Elems(s \o late) = Elems(s) \cup Elems(late)
    BY <2>1, JoinElems
  <2> QED
    BY <1>5, <2>1, <2>2, <2>3 DEF Pending
<1>6. \A f \in Frames : agenda' = Append(agenda, f) => Pending' = Pending \cup {f}
  BY AppendElems DEF Pending
<1> QED
  BY <1>1, <1>2, <1>3, <1>4, <1>5, <1>6

(* The usual ways for a turn to go on. *)
LEMMA Turning ==
  ASSUME agenda \in Seq(Frames)
  PROVE  /\ agenda' = agenda => \A g : Turned(g, {})
         /\ agenda # <<>> /\ agenda' = Rest => Turned(Head(agenda), {})
         /\ \A new \in Seq(Frames) :
              /\ agenda' = new \o agenda => \A g : Turned(g, Elems(new))
              /\ agenda # <<>> /\ agenda' = new \o Rest => Turned(Head(agenda), Elems(new))
         /\ \A f \in Frames : agenda' = Append(agenda, f) => \A g : Turned(g, {f})
<1>1. agenda' = agenda => \A g : Turned(g, {})
  BY DEF Turned, Pending
<1>2. agenda # <<>> /\ agenda' = Rest => Turned(Head(agenda), {})
  <2>1. agenda # <<>> /\ agenda' = Rest => Pending' = Elems(Rest)
    BY DEF Pending
  <2> QED
    BY <2>1, PendingFacts DEF Turned
<1>3. ASSUME NEW new \in Seq(Frames)
      PROVE  /\ agenda' = new \o agenda => \A g : Turned(g, Elems(new))
             /\ agenda # <<>> /\ agenda' = new \o Rest => Turned(Head(agenda), Elems(new))
  BY PendingFacts DEF Turned
<1>4. \A f \in Frames : agenda' = Append(agenda, f) => \A g : Turned(g, {f})
  BY PendingFacts DEF Turned
<1> QED
  BY <1>1, <1>2, <1>3, <1>4

(* Whatever is added, frames that close no connection need not be told. *)
LEMMA TurnedLess ==
  ASSUME NEW g, NEW new, NEW less, Turned(g, new), less \subseteq new,
         \A f \in new : f \in less \/ Subjects(f) = {}
  PROVE  Turned(g, less)
  BY DEF Turned


-----------------------------------------------------------------------------
(* What each step does and adds, of a turn.                                 *)

(* The first frame of a turn is the one that is run. *)
LEMMA TopFacts ==
  ASSUME NEW f, Top(f)
  PROVE  agenda # <<>> /\ Head(agenda) = f /\ (agenda \in Seq(Frames) => f \in Pending)
<1>1. agenda # <<>> /\ Head(agenda) = f
  BY DEF Top
<1>2. agenda \in Seq(Frames) => f \in Pending
  BY <1>1, PendingFacts
<1> QED
  BY <1>1, <1>2

(* Starting and stopping a queue close nothing. *)
LEMMA StartStopTurned ==
  ASSUME agenda \in Seq(Frames), NEW p \in Peers
  PROVE  /\ agenda # <<>> /\ QueueStart(p, Rest) => Turned(Head(agenda), {})
         /\ QueueStart(p, agenda) => \A g : Turned(g, {})
         /\ agenda # <<>> /\ QueueStop(p, Rest) => Turned(Head(agenda), {})
<1>1. /\ <<RunF>> \in Seq(Frames) /\ <<QueueRunF(p)>> \in Seq(Frames)
      /\ Elems(<<RunF>>) = {RunF} /\ Elems(<<QueueRunF(p)>>) = {QueueRunF(p)}
      /\ Subjects(RunF) = {} /\ Subjects(QueueRunF(p)) = {}
  BY FrameTypes, ShortTurns, PieceElems, FrameSubjects
<1>2. ASSUME agenda # <<>>, QueueStart(p, Rest) PROVE Turned(Head(agenda), {})
  <2>1. agenda' = Rest \/ agenda' = <<QueueRunF(p)>> \o Rest
    BY <1>2 DEF QueueStart
  <2>2. Turned(Head(agenda), {}) \/ Turned(Head(agenda), {QueueRunF(p)})
    BY <1>1, <1>2, <2>1, Turning
  <2> QED
    BY <1>1, <2>2, TurnedLess
<1>3. ASSUME QueueStart(p, agenda) PROVE \A g : Turned(g, {})
  <2>1. agenda' = agenda \/ agenda' = <<QueueRunF(p)>> \o agenda
    BY <1>3 DEF QueueStart
  <2> QED
    BY <1>1, <2>1, Turning, TurnedLess
<1>4. ASSUME agenda # <<>>, QueueStop(p, Rest) PROVE Turned(Head(agenda), {})
  <2>1. agenda' = Rest \/ agenda' = <<RunF>> \o Rest
    BY <1>4 DEF QueueStop
  <2>2. Turned(Head(agenda), {}) \/ Turned(Head(agenda), {RunF})
    BY <1>1, <1>4, <2>1, Turning
  <2> QED
    BY <1>1, <2>2, TurnedLess
<1> QED
  BY <1>2, <1>3, <1>4

(* run() starts a queue at most. *)
LEMMA RunTurned ==
  ASSUME TypeInv, Run
  PROVE  Turned(RunF, {})
<1>1. agenda \in Seq(Frames) /\ agenda # <<>> /\ Head(agenda) = RunF
  BY TopFacts DEF Run, TypeInv, TypeOK
<1>2. CASE agenda' = Rest
  BY <1>1, <1>2, Turning
<1>3. CASE agenda' # Rest
  <2>1. (normal # <<>> \/ cold # <<>>) /\ QueueStart(NextWaiting, Rest)
    BY <1>3 DEF Run
  <2>2. NextWaiting \in Peers
    BY <2>1, Pushing DEF NextWaiting, TypeInv, TypeOK
  <2> QED
    BY <1>1, <2>1, <2>2, StartStopTurned
<1> QED
  BY <1>2, <1>3

(* _run() over a muxed connection calls back at once where there is no       *)
(* protocol; with a new connection an error is told before it disconnects.   *)
LEMMA QueueRunTurned ==
  ASSUME TypeInv, NEW p \in Peers
  PROVE  /\ QueueRunStops(p) => Turned(QueueRunF(p), {})
         /\ QueueRunReuses(p) =>
              Turned(QueueRunF(p), Elems(ProtocolCallback(Head(queue[p]))))
         /\ QueueRunCreates(p) =>
              \/ /\ p = Self /\ conn'[Head(queue[p])] = "idle"
                 /\ Turned(QueueRunF(p), {CallbackF(Head(queue[p]), "error")})
              \/ /\ conn'[Head(queue[p])] = "dialing"
                 /\ \/ Turned(QueueRunF(p), {})
                    \/ Turned(QueueRunF(p), {CallbackF(Head(queue[p]), "error"),
                                             DisconnectF(Head(queue[p]), TRUE)})
<1> SUFFICES ASSUME Top(QueueRunF(p))
             PROVE  /\ QueueRunStops(p) => Turned(QueueRunF(p), {})
                    /\ QueueRunReuses(p) =>
                         Turned(QueueRunF(p), Elems(ProtocolCallback(Head(queue[p]))))
                    /\ QueueRunCreates(p) =>
                         \/ /\ p = Self /\ conn'[Head(queue[p])] = "idle"
                            /\ Turned(QueueRunF(p), {CallbackF(Head(queue[p]), "error")})
                         \/ /\ conn'[Head(queue[p])] = "dialing"
                            /\ \/ Turned(QueueRunF(p), {})
                               \/ Turned(QueueRunF(p), {CallbackF(Head(queue[p]), "error"),
                                                        DisconnectF(Head(queue[p]), TRUE)})
  BY DEF QueueRunStops, QueueRunReuses, QueueRunCreates
<1>1. /\ agenda \in Seq(Frames) /\ agenda # <<>> /\ Head(agenda) = QueueRunF(p)
      /\ Pending = {QueueRunF(p)} \cup Elems(Rest)
  BY TopFacts, PendingFacts DEF TypeInv, TypeOK
<1>2. QueueRunStops(p) => Turned(QueueRunF(p), {})
  BY <1>1, StartStopTurned DEF QueueRunStops
<1>3. ASSUME NEW r \in Requests
      PROVE  /\ FSMTick(r) \in Seq(Frames) /\ ProtocolCallback(r) \in Seq(Frames)
             /\ \A f \in Elems(FSMTick(r)) : Subjects(f) = {}
             /\ \A f \in Elems(ProtocolCallback(r)) : Subjects(f) = {}
  <2>1. FSMTick(r) \in Seq(Frames) /\ ProtocolCallback(r) \in Seq(Frames)
    BY TurnTypes DEF TypeInv
  <2> QED
    BY <2>1, PieceElems, FrameSubjects DEF FSMTick, ProtocolCallback
<1>4. ASSUME queue[p] # <<>> PROVE Head(queue[p]) \in Requests
  BY <1>4 DEF TypeInv, TypeOK
<1>5. ASSUME QueueRunReuses(p), NEW r \in Requests, r = Head(queue[p])
      PROVE  Turned(QueueRunF(p), Elems(ProtocolCallback(r)))
  <2>1. PICK new : new = ProtocolCallback(r) \o <<QueueRunF(p)>>
    OBVIOUS
  <2>2. <<QueueRunF(p)>> \in Seq(Frames) /\ Elems(<<QueueRunF(p)>>) = {QueueRunF(p)}
    BY FrameTypes, ShortTurns, PieceElems
  <2>3. new \in Seq(Frames) /\ Elems(new) = Elems(ProtocolCallback(r)) \cup {QueueRunF(p)}
    <3>1. ProtocolCallback(r) \o <<QueueRunF(p)>> \in Seq(Frames)
      BY <1>3, <2>2, Pushing
    <3>2. PICK t \in Seq(Frames), u \in Seq(Frames) : t = ProtocolCallback(r) /\ u = <<QueueRunF(p)>>
      BY <1>3, <2>2
    <3>3. Elems(t \o u) = Elems(t) \cup Elems(u)
      BY ONLY t \in Seq(Frames), u \in Seq(Frames), JoinElems
    <3> QED
      BY <2>1, <2>2, <3>1, <3>2, <3>3
  <2>4. agenda' = (new \o Rest) \o FSMTick(r)
    BY <1>5, <2>1 DEF QueueRunReuses
  <2>5. Pending' = Elems(new) \cup Elems(Rest) \cup Elems(FSMTick(r))
    BY <1>1, <1>3, <2>3, <2>4, PendingFacts
  <2> QED
    BY <1>1, <1>3, <2>3, <2>5, FrameSubjects DEF Turned
<1>6. ASSUME QueueRunCreates(p), NEW r \in Requests, r = Head(queue[p])
      PROVE  \/ /\ p = Self /\ conn'[r] = "idle"
                /\ Turned(QueueRunF(p), {CallbackF(r, "error")})
             \/ /\ conn'[r] = "dialing"
                /\ \/ Turned(QueueRunF(p), {})
                   \/ Turned(QueueRunF(p), {CallbackF(r, "error"), DisconnectF(r, TRUE)})
  <2>1. conn'[r] = IF p = Self THEN "idle" ELSE "dialing"
    BY <1>6 DEF QueueRunCreates, TypeInv, TypeOK
  <2>2. PICK now : /\ now \in IF p = Self
                              THEN {<<CallbackF(r, "error"), OnErrorF(r)>>}
                              ELSE {<<>>, <<CallbackF(r, "error"), OnErrorF(r),
                                            DisconnectF(r, TRUE)>>}
                   /\ agenda' = (now \o Rest) \o FSMTick(r)
    BY <1>6 DEF QueueRunCreates
  <2>3. now \in Seq(Frames)
    <3>1. /\ <<CallbackF(r, "error"), OnErrorF(r)>> \in Seq(Frames)
          /\ <<CallbackF(r, "error"), OnErrorF(r), DisconnectF(r, TRUE)>> \in Seq(Frames)
          /\ <<>> \in Seq(Frames)
      BY FrameTypes, ShortTurns DEF Answers
    <3> QED
      BY <2>2, <3>1
  <2>4. Pending' = Elems(now) \cup Elems(Rest) \cup Elems(FSMTick(r))
    BY <1>1, <1>3, <2>2, <2>3, PendingFacts
  <2>5. /\ Subjects(CallbackF(r, "error")) = {} /\ Subjects(OnErrorF(r)) = {}
    BY FrameSubjects
  <2>6. ASSUME now = <<CallbackF(r, "error"), OnErrorF(r)>>
        PROVE  Turned(QueueRunF(p), {CallbackF(r, "error")})
    <3>1. Elems(now) = {CallbackF(r, "error"), OnErrorF(r)}
      BY <2>6, PieceElems
    <3> QED
      BY <1>1, <1>3, <2>4, <2>5, <3>1 DEF Turned
  <2>7. ASSUME now = <<>> PROVE Turned(QueueRunF(p), {})
    <3>1. Elems(now) = {}
      BY <2>7, PieceElems
    <3> QED
      BY <1>1, <1>3, <2>4, <3>1 DEF Turned
  <2>8. ASSUME now = <<CallbackF(r, "error"), OnErrorF(r), DisconnectF(r, TRUE)>>
        PROVE  Turned(QueueRunF(p), {CallbackF(r, "error"), DisconnectF(r, TRUE)})
    <3>1. Elems(now) = {CallbackF(r, "error"), OnErrorF(r), DisconnectF(r, TRUE)}
      <4>1. PICK x, y, z : x = CallbackF(r, "error") /\ y = OnErrorF(r) /\ z = DisconnectF(r, TRUE)
        OBVIOUS
      <4>2. Elems(<<x, y, z>>) = {x, y, z}
        BY PieceElems
      <4> QED
        BY <2>8, <4>1, <4>2
    <3> QED
      BY <1>1, <1>3, <2>4, <2>5, <3>1 DEF Turned
  <2> QED
    BY <2>1, <2>2, <2>6, <2>7, <2>8
<1> QED
  BY <1>2, <1>4, <1>5, <1>6 DEF QueueRunReuses, QueueRunCreates

(* abort() calls back and goes on, or stops the queue. *)
LEMMA AbortTurned ==
  ASSUME TypeInv, NEW p \in Peers
  PROVE  /\ AbortNext(p) =>
              \A g : Turned(g, {CallbackF(Head(queue[p]), "aborted")})
         /\ AbortEnds(p) => Turned(AbortF(p), {})
<1>1. agenda \in Seq(Frames)
  BY DEF TypeInv, TypeOK
<1>2. ASSUME AbortNext(p) PROVE \A g : Turned(g, {CallbackF(Head(queue[p]), "aborted")})
  <2>1. PICK r \in Requests : r = Head(queue[p])
    BY <1>2 DEF AbortNext, TypeInv, TypeOK
  <2>2. /\ <<CallbackF(r, "aborted")>> \in Seq(Frames)
        /\ Elems(<<CallbackF(r, "aborted")>>) = {CallbackF(r, "aborted")}
    BY FrameTypes, ShortTurns, PieceElems DEF Answers
  <2>3. agenda' = <<CallbackF(r, "aborted")>> \o agenda
    BY <1>2, <2>1 DEF AbortNext
  <2>4. \A g : Turned(g, Elems(<<CallbackF(r, "aborted")>>))
    BY <1>1, <2>2, <2>3, Turning
  <2> QED
    BY <2>1, <2>2, <2>4
<1>3. AbortEnds(p) => Turned(AbortF(p), {})
  BY <1>1, TopFacts, StartStopTurned DEF AbortEnds
<1> QED
  BY <1>2, <1>3

(* The other steps of a turn. *)
LEMMA OtherTurned ==
  ASSUME TypeInv
  PROVE  /\ Callback => \E r \in Requests, a \in Answers :
              Top(CallbackF(r, a)) /\ Turned(CallbackF(r, a), {})
         /\ CloseAll => \E R \in SUBSET Requests :
              /\ Top(CloseAllF(R))
              /\ \/ Turned(CloseAllF(R), {})
                 \/ \E r \in R :
                      Turned(CloseAllF(R), {DisconnectF(r, FALSE), CloseAllF(R \ {r})})
         /\ StopNext => \E P \in SUBSET Peers :
              /\ Top(StopF(P))
              /\ \/ P = {} /\ Turned(StopF(P), {})
                 \/ \E p \in P : Turned(StopF(P), {AbortF(p), StopF(P \ {p})})
         /\ CleanNext => \E P \in SUBSET Peers : Turned(CleanF(P), {})
         /\ UserReturn => \E b \in BOOLEAN : Turned(UserF(b), {})
         /\ \A p \in Peers : Delete(p) => Turned(DeleteF(p), {})
         /\ \A r \in Requests : OnError(r) => Turned(OnErrorF(r), {})
         /\ \A r \in Requests : DisconnectMuxed(r) \/ DisconnectNow(r) =>
              \E b \in BOOLEAN : Top(DisconnectF(r, b)) /\ Turned(DisconnectF(r, b), {})
<1>1. agenda \in Seq(Frames)
  BY DEF TypeInv, TypeOK
<1>2. ASSUME NEW f, Top(f), NEW new \in Seq(Frames), agenda' = new \o Rest
      PROVE  Turned(f, Elems(new))
  BY <1>1, <1>2, TopFacts, Turning
<1>3. ASSUME NEW f, Top(f), agenda' = Rest PROVE Turned(f, {})
  BY <1>1, <1>3, TopFacts, Turning
<1>4. ASSUME NEW f, Top(f), NEW g \in Frames, Subjects(g) = {}, agenda' = <<g>> \o Rest
      PROVE  Turned(f, {})
  <2>1. <<g>> \in Seq(Frames) /\ Elems(<<g>>) = {g}
    BY ShortTurns, PieceElems
  <2>2. Turned(f, {g})
    BY <1>2, <1>4, <2>1
  <2> QED
    BY <1>4, <2>2, TurnedLess
<1>5. ASSUME Callback
      PROVE  \E r \in Requests, a \in Answers : Top(CallbackF(r, a)) /\ Turned(CallbackF(r, a), {})
  <2>1. PICK r \in Requests, a \in Answers :
          Top(CallbackF(r, a)) /\ (agenda' = Rest \/ agenda' = <<UserF(TRUE)>> \o Rest)
    BY <1>5 DEF Callback
  <2>2. UserF(TRUE) \in Frames /\ Subjects(UserF(TRUE)) = {}
    BY FrameTypes, FrameSubjects
  <2> QED
    BY <1>3, <1>4, <2>1, <2>2
<1>6. ASSUME CloseAll
      PROVE  \E R \in SUBSET Requests :
               /\ Top(CloseAllF(R))
               /\ \/ Turned(CloseAllF(R), {})
                  \/ \E r \in R :
                       Turned(CloseAllF(R), {DisconnectF(r, FALSE), CloseAllF(R \ {r})})
  <2>1. PICK R \in SUBSET Requests :
          /\ Top(CloseAllF(R))
          /\ \/ agenda' = Rest
             \/ \E r \in R : agenda' = <<DisconnectF(r, FALSE), CloseAllF(R \ {r})>> \o Rest
    BY <1>6 DEF CloseAll
  <2>2. ASSUME NEW r \in R, agenda' = <<DisconnectF(r, FALSE), CloseAllF(R \ {r})>> \o Rest
        PROVE  Turned(CloseAllF(R), {DisconnectF(r, FALSE), CloseAllF(R \ {r})})
    <3>1. DisconnectF(r, FALSE) \in Frames /\ CloseAllF(R \ {r}) \in Frames
      BY FrameTypes
    <3>2. <<DisconnectF(r, FALSE), CloseAllF(R \ {r})>> \in Seq(Frames)
      BY <3>1, ShortTurns
    <3>3. Elems(<<DisconnectF(r, FALSE), CloseAllF(R \ {r})>>)
            = {DisconnectF(r, FALSE), CloseAllF(R \ {r})}
      BY PieceElems
    <3> QED
      BY <1>2, <2>1, <2>2, <3>2, <3>3
  <2> QED
    BY <1>3, <2>1, <2>2
<1>7. ASSUME StopNext
      PROVE  \E P \in SUBSET Peers :
               /\ Top(StopF(P))
               /\ \/ P = {} /\ Turned(StopF(P), {})
                  \/ \E p \in P : Turned(StopF(P), {AbortF(p), StopF(P \ {p})})
  <2>1. PICK P \in SUBSET Peers :
          /\ Top(StopF(P))
          /\ \/ P = {} /\ agenda' = Rest
             \/ \E p \in P : agenda' = <<AbortF(p), DeleteF(p), StopF(P \ {p})>> \o Rest
    BY <1>7 DEF StopNext
  <2>2. ASSUME NEW p \in P, agenda' = <<AbortF(p), DeleteF(p), StopF(P \ {p})>> \o Rest
        PROVE  Turned(StopF(P), {AbortF(p), StopF(P \ {p})})
    <3>1. AbortF(p) \in Frames /\ DeleteF(p) \in Frames /\ StopF(P \ {p}) \in Frames
      BY FrameTypes
    <3>2. <<AbortF(p), DeleteF(p), StopF(P \ {p})>> \in Seq(Frames)
      BY <3>1, ShortTurns
    <3>3. Elems(<<AbortF(p), DeleteF(p), StopF(P \ {p})>>)
            = {AbortF(p), DeleteF(p), StopF(P \ {p})}
      <4>1. PICK x, y, z : x = AbortF(p) /\ y = DeleteF(p) /\ z = StopF(P \ {p})
        OBVIOUS
      <4>2. Elems(<<x, y, z>>) = {x, y, z}
        BY PieceElems
      <4> QED
        BY <4>1, <4>2
    <3>4. Turned(StopF(P), {AbortF(p), DeleteF(p), StopF(P \ {p})})
      BY <1>2, <2>1, <2>2, <3>2, <3>3
    <3> QED
      BY <3>4, FrameSubjects, TurnedLess
  <2> QED
    BY <1>3, <2>1, <2>2
<1>8. ASSUME CleanNext PROVE \E P \in SUBSET Peers : Turned(CleanF(P), {})
  <2>1. PICK P \in SUBSET Peers :
          /\ Top(CleanF(P))
          /\ \/ agenda' = Rest
             \/ \E p \in P : \/ agenda' = <<AbortF(p), DeleteF(p), CleanF(P \ {p})>> \o Rest
                             \/ agenda' = <<CleanF(P \ {p})>> \o Rest
    BY <1>8 DEF CleanNext
  <2>2. ASSUME NEW p \in P, agenda' = <<AbortF(p), DeleteF(p), CleanF(P \ {p})>> \o Rest
        PROVE  Turned(CleanF(P), {})
    <3>1. AbortF(p) \in Frames /\ DeleteF(p) \in Frames /\ CleanF(P \ {p}) \in Frames
      BY FrameTypes
    <3>2. <<AbortF(p), DeleteF(p), CleanF(P \ {p})>> \in Seq(Frames)
      BY <3>1, ShortTurns
    <3>3. Elems(<<AbortF(p), DeleteF(p), CleanF(P \ {p})>>)
            = {AbortF(p), DeleteF(p), CleanF(P \ {p})}
      BY PieceElems
    <3>4. Turned(CleanF(P), {AbortF(p), DeleteF(p), CleanF(P \ {p})})
      BY <1>2, <2>1, <2>2, <3>2, <3>3
    <3> QED
      BY <3>4, FrameSubjects, TurnedLess
  <2>3. ASSUME NEW p \in P, agenda' = <<CleanF(P \ {p})>> \o Rest
        PROVE  Turned(CleanF(P), {})
    <3>1. CleanF(P \ {p}) \in Frames /\ Subjects(CleanF(P \ {p})) = {}
      BY FrameTypes, FrameSubjects
    <3> QED
      BY <1>4, <2>1, <2>3, <3>1
  <2> QED
    BY <1>3, <2>1, <2>2, <2>3
<1>9. ASSUME UserReturn PROVE \E b \in BOOLEAN : Turned(UserF(b), {})
  BY <1>3, <1>9 DEF UserReturn, InUser
<1>10. ASSUME NEW p \in Peers, Delete(p) PROVE Turned(DeleteF(p), {})
  BY <1>3, <1>10 DEF Delete
<1>11. ASSUME NEW r \in Requests, OnError(r) PROVE Turned(OnErrorF(r), {})
  <2>1. Top(OnErrorF(r)) /\ (agenda' = Rest \/ agenda' = <<AbortF(PeerOf(r))>> \o Rest)
    BY <1>11 DEF OnError, Denylist
  <2>2. r \in attached => AbortF(PeerOf(r)) \in Frames
    BY FrameTypes, PeerTypes DEF TypeInv, OnlyIssued
  <2>3. agenda' = Rest \/ r \in attached
    BY <1>11 DEF OnError
  <2> QED
    BY <1>3, <1>4, <2>1, <2>2, <2>3, FrameSubjects
<1>12. ASSUME NEW r \in Requests, DisconnectMuxed(r) \/ DisconnectNow(r)
       PROVE  \E b \in BOOLEAN : Top(DisconnectF(r, b)) /\ Turned(DisconnectF(r, b), {})
  <2>1. PICK b \in BOOLEAN : Top(DisconnectF(r, b))
    BY <1>12 DEF DisconnectMuxed, DisconnectNow
  <2>2. agenda' = Rest \/ (r \in attached /\ agenda' = <<QueueRunF(PeerOf(r))>> \o Rest)
    <3>1. agenda' = Rest \/ agenda' = Resume(r) \o Rest
      BY <1>12 DEF DisconnectMuxed, DisconnectNow
    <3>2. <<>> \o Rest = Rest
      BY <1>1, <2>1 DEF Rest, Top
    <3> QED
      BY <3>1, <3>2 DEF Resume
  <2>3. r \in attached => QueueRunF(PeerOf(r)) \in Frames
    BY FrameTypes, PeerTypes DEF TypeInv, OnlyIssued
  <2> QED
    BY <1>3, <1>4, <2>1, <2>2, <2>3, FrameSubjects
<1> QED
  BY <1>5, <1>6, <1>7, <1>8, <1>9, <1>10, <1>11, <1>12

(* What user code puts on the turn it runs in. *)
LEMMA UserTurned ==
  ASSUME TypeInv, NEW g
  PROVE  /\ UserTurn \/ (\E p \in Peers : ClearDenylist(p)) => Turned(g, {})
         /\ \A r \in Requests :
              /\ DialRefused(r) => Turned(g, {CallbackF(r, "aborted")})
              /\ DialDenied(r) => Turned(g, {CallbackF(r, "denied")})
              /\ DialQueued(r) => Turned(g, {})
              /\ UserCloses(r) => Turned(g, {DisconnectF(r, FALSE)})
         /\ \A p \in Peers : HangUp(p) => Turned(g, {CloseAllF(Tracked(p))})
<1>1. agenda \in Seq(Frames)
  BY DEF TypeInv, TypeOK
<1>2. ASSUME UserTurn \/ (\E p \in Peers : ClearDenylist(p)) PROVE Turned(g, {})
  <2>1. CASE UserTurn
    <3>1. agenda = <<>> /\ agenda' = <<UserF(FALSE)>>
      BY <2>1 DEF UserTurn, Quiet
    <3>2. Pending' = {UserF(FALSE)} /\ Pending = {}
      BY <3>1, PieceElems DEF Pending
    <3> QED
      BY <3>2, FrameSubjects DEF Turned
  <2>2. ASSUME NEW p \in Peers, ClearDenylist(p) PROVE Turned(g, {})
    BY <1>1, <2>2, Turning DEF ClearDenylist
  <2> QED
    BY <1>2, <2>1, <2>2
<1>3. ASSUME NEW r \in Requests, DialRefused(r) PROVE Turned(g, {CallbackF(r, "aborted")})
  <2>1. CallbackF(r, "aborted") \in Frames /\ agenda' = Append(agenda, CallbackF(r, "aborted"))
    BY <1>3, FrameTypes DEF DialRefused, Answers
  <2> QED
    BY <1>1, <2>1, Turning
<1>4. ASSUME NEW r \in Requests, DialDenied(r) PROVE Turned(g, {CallbackF(r, "denied")})
  <2>1. PICK s : s = Append(agenda, CallbackF(r, "denied"))
    OBVIOUS
  <2>2. CallbackF(r, "denied") \in Frames
    BY FrameTypes DEF Answers
  <2>3. s \in Seq(Frames) /\ Elems(s) = Pending \cup {CallbackF(r, "denied")}
    <3>1. /\ Append(agenda, CallbackF(r, "denied")) \in Seq(Frames)
          /\ Elems(Append(agenda, CallbackF(r, "denied"))) = Elems(agenda) \cup {CallbackF(r, "denied")}
      BY <1>1, <2>2, AppendElems, Pushing
    <3> QED
      BY <2>1, <3>1 DEF Pending
  <2>4. \E p \in Peers : agenda' = s \/ agenda' = <<QueueRunF(p)>> \o s
    BY <1>4, <2>1, PeerTypes DEF DialDenied, QueueStart
  <2>5. ASSUME NEW p \in Peers, agenda' = <<QueueRunF(p)>> \o s
        PROVE  Pending' = {QueueRunF(p)} \cup Elems(s)
    <3>1. <<QueueRunF(p)>> \in Seq(Frames) /\ Elems(<<QueueRunF(p)>>) = {QueueRunF(p)}
      BY FrameTypes, ShortTurns, PieceElems
    <3>2. PICK t \in Seq(Frames) : t = <<QueueRunF(p)>>
      BY <3>1
    <3>3. s \in Seq(Frames)
      BY <2>3
    <3>4. Elems(t \o s) = Elems(t) \cup Elems(s)
      BY <3>3, JoinElems
    <3>5. agenda' = t \o s
      BY <2>5, <3>2
    <3> QED
      BY <3>1, <3>2, <3>4, <3>5 DEF Pending
  <2>6. agenda' = s => Pending' = Elems(s)
    BY DEF Pending
  <2> QED
    BY <2>3, <2>4, <2>5, <2>6, FrameSubjects DEF Turned
<1>5. ASSUME NEW f \in Frames, agenda' = <<f>> \o agenda
      PROVE  Turned(g, {f})
  <2>1. <<f>> \in Seq(Frames) /\ Elems(<<f>>) = {f}
    BY ShortTurns, PieceElems
  <2> QED
    BY <1>1, <1>5, <2>1, Turning
<1>6. ASSUME NEW r \in Requests, DialQueued(r) PROVE Turned(g, {})
  <2>1. PICK p \in Peers : QueueStart(p, agenda) \/ agenda' = <<RunF>> \o agenda
    BY <1>6, PeerTypes DEF DialQueued
  <2>2. CASE QueueStart(p, agenda)
    BY <1>1, <2>2, StartStopTurned
  <2>3. CASE agenda' = <<RunF>> \o agenda
    <3>1. Turned(g, {RunF})
      BY <1>5, <2>3, FrameTypes
    <3> QED
      BY <3>1, TurnedLess, FrameSubjects
  <2> QED
    BY <2>1, <2>2, <2>3
<1>7. ASSUME NEW r \in Requests, UserCloses(r) PROVE Turned(g, {DisconnectF(r, FALSE)})
  <2>1. /\ <<OnErrorF(r), DisconnectF(r, FALSE)>> \in Seq(Frames)
        /\ Elems(<<OnErrorF(r), DisconnectF(r, FALSE)>>) = {OnErrorF(r), DisconnectF(r, FALSE)}
    BY FrameTypes, ShortTurns, PieceElems
  <2>2. agenda' = <<OnErrorF(r), DisconnectF(r, FALSE)>> \o agenda
    BY <1>7 DEF UserCloses
  <2>3. Turned(g, {OnErrorF(r), DisconnectF(r, FALSE)})
    BY <1>1, <2>1, <2>2, Turning
  <2>4. Subjects(OnErrorF(r)) = {}
    BY FrameSubjects
  <2> QED
    BY <2>3, <2>4, TurnedLess
<1>8. ASSUME NEW p \in Peers, HangUp(p) PROVE Turned(g, {CloseAllF(Tracked(p))})
  <2>1. Tracked(p) \in SUBSET Requests
    BY DEF Tracked, Of
  <2>2. CloseAllF(Tracked(p)) \in Frames /\ agenda' = <<CloseAllF(Tracked(p))>> \o agenda
    BY <1>8, <2>1, FrameTypes DEF HangUp
  <2> QED
    BY <1>5, <2>2
<1> QED
  BY <1>2, <1>3, <1>4, <1>6, <1>7, <1>8

(* What the network, the timers and the switch start a turn with. *)
LEMMA EnvTurned ==
  ASSUME TypeInv, EnvStep, NEW g
  PROVE  /\ Pending = {}
         /\ \A r \in Requests :
              /\ AttemptFails(r) \/ IdentifyFails(r) =>
                   Turned(g, {CallbackF(r, "error"), DisconnectF(r, TRUE)})
              /\ MuxerCloses(r) => Turned(g, {DisconnectF(r, TRUE)})
              /\ Muxes(r) \/ Unmuxes(r) => Turned(g, Elems(ProtocolCallback(r)))
              /\ ShakeEnds(r) => \E a \in {"ok", "error"} : Turned(g, {CallbackF(r, a)})
         /\ ManagerStop => Turned(g, {StopF(queues)})
         /\ CloseConnections => Turned(g, {CloseAllF(AllTracked)})
         /\ Clean \/ agenda' = agenda => Turned(g, {})
<1>1. agenda = <<>> /\ Pending = {}
  BY Starts, PieceElems DEF Pending
<1>2. ASSUME NEW f, agenda' = <<f>> PROVE Turned(g, {f})
  <2>1. Pending' = {f}
    BY <1>2, PieceElems DEF Pending
  <2> QED
    BY <1>1, <2>1 DEF Turned
<1>3. ASSUME NEW r \in Requests, AttemptFails(r) \/ IdentifyFails(r)
      PROVE  Turned(g, {CallbackF(r, "error"), DisconnectF(r, TRUE)})
  <2>1. agenda' = <<CallbackF(r, "error"), OnErrorF(r), DisconnectF(r, TRUE)>>
    BY <1>3 DEF AttemptFails, IdentifyFails
  <2>2. Pending' = {CallbackF(r, "error"), OnErrorF(r), DisconnectF(r, TRUE)}
    <3>1. PICK x, y, z : x = CallbackF(r, "error") /\ y = OnErrorF(r) /\ z = DisconnectF(r, TRUE)
      OBVIOUS
    <3>2. Elems(<<x, y, z>>) = {x, y, z}
      BY PieceElems
    <3> QED
      BY <2>1, <3>1, <3>2 DEF Pending
  <2> QED
    BY <1>1, <2>2, FrameSubjects DEF Turned
<1>4. ASSUME NEW r \in Requests, Muxes(r) \/ Unmuxes(r)
      PROVE  Turned(g, Elems(ProtocolCallback(r)))
  <2>1. agenda' = ProtocolCallback(r) \o Resume(r)
    BY <1>4 DEF Muxes, Unmuxes
  <2>2. /\ ProtocolCallback(r) \in Seq(Frames) /\ Resume(r) \in Seq(Frames)
    BY TurnTypes DEF TypeInv, OnlyIssued
  <2>3. Pending' = Elems(ProtocolCallback(r)) \cup Elems(Resume(r))
    BY <2>1, <2>2, JoinElems DEF Pending
  <2>4. \A f \in Elems(Resume(r)) : Subjects(f) = {}
    BY PieceElems, FrameSubjects DEF Resume
  <2> QED
    BY <1>1, <2>3, <2>4 DEF Turned
<1>5. \A r \in Requests : MuxerCloses(r) => Turned(g, {DisconnectF(r, TRUE)})
  BY <1>2 DEF MuxerCloses
<1>6. \A r \in Requests :
        ShakeEnds(r) => \E a \in {"ok", "error"} : Turned(g, {CallbackF(r, a)})
  BY <1>2 DEF ShakeEnds
<1>7. ManagerStop => Turned(g, {StopF(queues)})
  BY <1>2 DEF ManagerStop
<1>8. CloseConnections => Turned(g, {CloseAllF(AllTracked)})
  BY <1>2 DEF CloseConnections
<1>9. Clean => Turned(g, {})
  <2>1. Clean => Turned(g, {CleanF(queues)})
    BY <1>2 DEF Clean
  <2> QED
    BY <2>1, TurnedLess, FrameSubjects
<1>10. agenda' = agenda => Turned(g, {})
  BY Turning DEF TypeInv, TypeOK
<1> QED
  BY <1>1, <1>3, <1>4, <1>5, <1>6, <1>7, <1>8, <1>9, <1>10

-----------------------------------------------------------------------------
(* Where a request is.                                                      *)

(* A queue holds requests for its peer, each once, that were not taken up.   *)
QueuesHold ==
  \A p \in Peers :
    /\ IsASet(queue[p])
    /\ \A r \in Elems(queue[p]) : r \in Of(p) /\ conn[r] = "none" /\ r \notin shaking

(* A request is taken up only when it was issued, and shakes hands only once *)
(* its attempt is over.                                                      *)
PlacesHold ==
  \A r \in Requests :
    /\ call[r] = None => conn[r] = "none" /\ r \notin shaking
    /\ r \in shaking => ~Unfinished(r)

(* Only a connection that was created is closed. *)
SubjectsHold ==
  \A f \in Pending, r \in Requests : r \in Subjects(f) => conn[r] # "none"

PlaceInv == QueuesHold /\ PlacesHold /\ SubjectsHold

(* A step that adds the closing of created connections only. *)
LEMMA SubjectsStay ==
  ASSUME PlaceInv, NEW g, NEW new, Turned(g, new),
         \A r \in Requests : conn[r] # "none" => conn'[r] # "none",
         \A f \in new, r \in Requests : r \in Subjects(f) => conn'[r] # "none"
  PROVE  SubjectsHold'
<1> SUFFICES ASSUME NEW f \in Pending', NEW r \in Requests, r \in Subjects(f)
             PROVE  conn'[r] # "none"
  BY DEF SubjectsHold, Subjects
<1>1. f \in Pending \/ f \in new
  BY DEF Turned
<1> QED
  BY <1>1 DEF PlaceInv, SubjectsHold

(* A step that moves no request. *)
LEMMA StayPlaced ==
  ASSUME PlaceInv, UNCHANGED <<call, shaking, queue, conn>>, NEW g, NEW new, Turned(g, new),
         \A f \in new, r \in Requests : r \in Subjects(f) => conn[r] # "none"
  PROVE  PlaceInv'
<1>1. QueuesHold' /\ PlacesHold'
  BY DEF PlaceInv, QueuesHold, PlacesHold, Of, PeerOf, Unfinished
<1>2. SubjectsHold'
  BY SubjectsStay
<1> QED
  BY <1>1, <1>2 DEF PlaceInv

(* A connection that was created goes on: its attempt never starts again.    *)
LEMMA MovesOnPlaced ==
  ASSUME TypeInv, PlaceInv, UNCHANGED <<call, queue>>, NEW r \in Requests, conn[r] # "none",
         NEW x, x # "none", conn' = [conn EXCEPT ![r] = x],
         shaking' = shaking \/ (shaking' = shaking \cup {r} /\ x \notin {"dialing", "securing"}),
         x \in {"dialing", "securing"} => Unfinished(r),
         NEW g, NEW new, Turned(g, new), \A f \in new : Subjects(f) = {}
  PROVE  PlaceInv'
<1>1. /\ conn'[r] = x
      /\ \A s \in Requests : s # r => conn'[s] = conn[s]
      /\ \A s \in Requests : s # r => (s \in shaking' <=> s \in shaking)
  BY DEF TypeInv, TypeOK
<1>2. QueuesHold'
  <2>1. \A p \in Peers : \A s \in Elems(queue[p]) : s \in Requests /\ s # r
    BY DEF PlaceInv, QueuesHold, Of
  <2> QED
    BY <1>1, <2>1 DEF PlaceInv, QueuesHold, Of, PeerOf
<1>3. PlacesHold'
  BY <1>1 DEF PlaceInv, PlacesHold, Unfinished
<1>4. SubjectsHold'
  BY <1>1, SubjectsStay
<1> QED
  BY <1>2, <1>3, <1>4 DEF PlaceInv

(* The first request of a queue is taken off it. *)
LEMMA TakenOffPlaced ==
  ASSUME TypeInv, PlaceInv, UNCHANGED call, NEW p \in Peers, queue[p] # <<>>,
         NEW r \in Requests, r = Head(queue[p]), queue' = [queue EXCEPT ![p] = Tail(@)],
         \A s \in Requests : s # r => conn'[s] = conn[s],
         \A s \in Requests : s # r => (s \in shaking' <=> s \in shaking),
         r \in shaking' => conn'[r] = "none",
         NEW g, NEW new, Turned(g, new),
         \A f \in new, s \in Requests : s \in Subjects(f) => conn'[s] # "none"
  PROVE  PlaceInv'
<1>1. /\ queue[p] \in Seq(Requests) /\ queue'[p] = Tail(queue[p])
      /\ \A q \in Peers : q # p => queue'[q] = queue[q]
  BY DEF TypeInv, TypeOK
<1>2. /\ IsASet(queue'[p]) /\ Elems(queue'[p]) \subseteq Elems(queue[p])
      /\ r \in Elems(queue[p]) /\ r \notin Elems(queue'[p])
  BY <1>1, TailFacts, HeadLeaves DEF PlaceInv, QueuesHold
<1>3. r \in Of(p) /\ conn[r] = "none" /\ r \notin shaking
  BY <1>2 DEF PlaceInv, QueuesHold
<1>4. \A q \in Peers : q # p => r \notin Elems(queue[q])
  BY <1>3 DEF PlaceInv, QueuesHold, Of
<1>5. QueuesHold'
  <2> SUFFICES ASSUME NEW q \in Peers
               PROVE  /\ IsASet(queue'[q])
                      /\ \A s \in Elems(queue'[q]) :
                           s \in Of(q) /\ conn'[s] = "none" /\ s \notin shaking'
    BY DEF QueuesHold, Of, PeerOf
  <2>1. IsASet(queue'[q]) /\ Elems(queue'[q]) \subseteq Elems(queue[q]) /\ r \notin Elems(queue'[q])
    BY <1>1, <1>2, <1>4 DEF PlaceInv, QueuesHold
  <2>2. \A s \in Elems(queue[q]) : s \in Of(q) /\ conn[s] = "none" /\ s \notin shaking
    BY DEF PlaceInv, QueuesHold
  <2> QED
    BY <2>1, <2>2 DEF Of
<1>6. PlacesHold'
  BY <1>3 DEF PlaceInv, PlacesHold, Unfinished, Of
<1>7. SubjectsHold'
  BY <1>3, SubjectsStay
<1> QED
  BY <1>5, <1>6, <1>7 DEF PlaceInv

(* A request that is refused or denied is nowhere; one that is accepted is   *)
(* last in the queue of its peer.                                            *)
LEMMA DialPlaced ==
  ASSUME TypeInv, PlaceInv, UNCHANGED <<conn, shaking>>, NEW r \in Requests, call[r] = None,
         NEW c \in Calls, call' = [call EXCEPT ![r] = c],
         queue' = queue \/ queue' = [queue EXCEPT ![c.peer] = Append(@, r)],
         NEW g, NEW new, Turned(g, new), \A f \in new : Subjects(f) = {}
  PROVE  PlaceInv'
<1>1. /\ call'[r] = c /\ c # None /\ c.peer \in Peers
      /\ \A s \in Requests : s # r => call'[s] = call[s]
  BY PeerTypes, DialerAssumption DEF TypeInv, TypeOK
<1>2. conn[r] = "none" /\ r \notin shaking
  BY DEF PlaceInv, PlacesHold
<1>3. \A p \in Peers : \A s \in Elems(queue[p]) : s # r /\ s \in Requests /\ call[s] # None /\ call[s].peer = p
  BY DEF PlaceInv, QueuesHold, Of, PeerOf
<1>4. QueuesHold'
  <2> SUFFICES ASSUME NEW p \in Peers
               PROVE  /\ IsASet(queue'[p])
                      /\ \A s \in Elems(queue'[p]) :
                           /\ s \in Requests /\ call'[s] # None /\ call'[s].peer = p
                           /\ conn[s] = "none" /\ s \notin shaking
    BY DEF QueuesHold, Of, PeerOf
  <2>1. CASE queue'[p] = queue[p]
    BY <1>1, <1>3, <2>1 DEF PlaceInv, QueuesHold
  <2>2. CASE queue'[p] # queue[p]
    <3>1. p = c.peer /\ queue'[p] = Append(queue[p], r) /\ queue[p] \in Seq(Requests)
      BY <2>2 DEF TypeInv, TypeOK
    <3>2. Elems(queue'[p]) = Elems(queue[p]) \cup {r}
      BY <3>1, AppendElems
    <3>3. IsASet(queue'[p])
      <4>1. r \notin Elems(queue[p]) /\ IsASet(queue[p])
        BY <1>3 DEF PlaceInv, QueuesHold
      <4>2. SetAdd(queue[p], r) = queue'[p]
        BY <3>1, <4>1 DEF SetAdd
      <4>3. IsASet(SetAdd(queue[p], r))
        BY <3>1, <4>1, AddFacts
      <4> QED
        BY <4>2, <4>3
    <3> QED
      BY <1>1, <1>2, <1>3, <3>1, <3>2, <3>3 DEF PlaceInv, QueuesHold
  <2> QED
    BY <2>1, <2>2
<1>5. PlacesHold'
  BY <1>1 DEF PlaceInv, PlacesHold, Unfinished
<1>6. SubjectsHold'
  BY SubjectsStay
<1> QED
  BY <1>4, <1>5, <1>6 DEF PlaceInv

(* A step of a turn. *)
LEMMA TurnKeepsPlaces ==
  ASSUME TypeInv, PlaceInv, TurnStep
  PROVE  PlaceInv'
<1>1. ASSUME NEW g, Turned(g, {}), UNCHANGED <<call, shaking, queue, conn>> PROVE PlaceInv'
  BY <1>1, StayPlaced
<1>2. CASE Run
  BY <1>1, <1>2, RunTurned DEF Run, requestVars, connVars
<1>3. CASE Callback \/ CleanNext \/ UserReturn
  <2>1. UNCHANGED <<call, shaking, queue, conn>>
    BY <1>3 DEF Callback, CleanNext, UserReturn, requestVars, queueVars, connVars
  <2>2. \E g : Turned(g, {})
    BY <1>3, OtherTurned
  <2> QED
    BY <1>1, <2>1, <2>2
<1>4. CASE CloseAll
  <2>1. PICK R \in SUBSET Requests :
          /\ Top(CloseAllF(R))
          /\ \/ Turned(CloseAllF(R), {})
             \/ \E r \in R : Turned(CloseAllF(R), {DisconnectF(r, FALSE), CloseAllF(R \ {r})})
    BY <1>4, OtherTurned
  <2>2. UNCHANGED <<call, shaking, queue, conn>>
    BY <1>4 DEF CloseAll, requestVars, queueVars, connVars
  <2>3. \A r \in R : conn[r] # "none"
    <3>1. CloseAllF(R) \in Pending
      BY <2>1, TopFacts DEF TypeInv, TypeOK
    <3> QED
      BY <3>1, FrameSubjects DEF PlaceInv, SubjectsHold
  <2>4. ASSUME NEW r \in R, Turned(CloseAllF(R), {DisconnectF(r, FALSE), CloseAllF(R \ {r})})
        PROVE  PlaceInv'
    <3>1. /\ Subjects(DisconnectF(r, FALSE)) = {r}
          /\ Subjects(CloseAllF(R \ {r})) = R \ {r}
      BY FrameSubjects
    <3>2. \A f \in {DisconnectF(r, FALSE), CloseAllF(R \ {r})}, s \in Requests :
            s \in Subjects(f) => conn[s] # "none"
      BY <2>3, <3>1
    <3> QED
      BY <2>2, <2>4, <3>2, StayPlaced
  <2> QED
    BY <1>1, <2>1, <2>2, <2>4
<1>5. CASE StopNext
  <2>1. \E g : Turned(g, {}) \/ \E P, p : Turned(g, {AbortF(p), StopF(P)})
    BY <1>5, OtherTurned
  <2>2. ASSUME NEW g, NEW P, NEW p, Turned(g, {AbortF(p), StopF(P)}) PROVE Turned(g, {})
    <3>1. \A f \in {AbortF(p), StopF(P)} : Subjects(f) = {}
      BY FrameSubjects
    <3> QED
      BY <2>2, <3>1, TurnedLess
  <2>3. \E g : Turned(g, {})
    BY <2>1, <2>2
  <2> QED
    BY <1>1, <1>5, <2>3 DEF StopNext, requestVars, queueVars, connVars
<1>6. ASSUME NEW p \in Peers, QueueRunStops(p) \/ AbortEnds(p) \/ Delete(p) PROVE PlaceInv'
  <2>1. \E g : Turned(g, {})
    BY <1>6, QueueRunTurned, AbortTurned, OtherTurned
  <2>2. UNCHANGED <<call, shaking, queue, conn>>
    BY <1>6 DEF QueueRunStops, AbortEnds, Delete, requestVars, connVars
  <2> QED
    BY <1>1, <2>1, <2>2
<1>7. ASSUME NEW p \in Peers, QueueRunReuses(p) \/ QueueRunCreates(p) \/ AbortNext(p)
      PROVE  PlaceInv'
  <2>1. /\ queue[p] # <<>> /\ UNCHANGED call
        /\ queue' = [queue EXCEPT ![p] = Tail(@)]
    BY <1>7 DEF QueueRunReuses, QueueRunCreates, AbortNext, requestVars
  <2>2. PICK r \in Requests : r = Head(queue[p])
    BY <2>1 DEF TypeInv, TypeOK
  <2>3. /\ \A s \in Requests : s # r => conn'[s] = conn[s]
        /\ \A s \in Requests : s # r => (s \in shaking' <=> s \in shaking)
    BY <1>7, <2>2
       DEF QueueRunReuses, QueueRunCreates, AbortNext, requestVars, connVars, StartShake,
           TypeInv, TypeOK
  <2>4. r \in Elems(queue[p])
    BY <2>1, <2>2, RestElems DEF TypeInv, TypeOK
  <2>5. conn[r] = "none" /\ r \notin shaking
    BY <2>4 DEF PlaceInv, QueuesHold
  <2>6. r \in shaking' => conn'[r] = "none"
    BY <1>7, <2>5 DEF QueueRunReuses, QueueRunCreates, AbortNext, requestVars, connVars
  <2>7. PICK g, new : /\ Turned(g, new)
                      /\ \A f \in new : Subjects(f) = {} \/ (Subjects(f) = {r} /\ conn'[r] # "none")
    <3>1. CASE QueueRunReuses(p)
      <4>1. Turned(QueueRunF(p), Elems(ProtocolCallback(r)))
        BY <2>2, <3>1, QueueRunTurned
      <4>2. \A f \in Elems(ProtocolCallback(r)) : Subjects(f) = {}
        BY PieceElems, FrameSubjects DEF ProtocolCallback
      <4> QED
        BY <4>1, <4>2
    <3>2. CASE QueueRunCreates(p)
      <4>1. \/ Turned(QueueRunF(p), {CallbackF(r, "error")})
            \/ Turned(QueueRunF(p), {})
            \/ /\ Turned(QueueRunF(p), {CallbackF(r, "error"), DisconnectF(r, TRUE)})
               /\ conn'[r] = "dialing"
        BY <2>2, <3>2, QueueRunTurned
      <4>2. Subjects(CallbackF(r, "error")) = {} /\ Subjects(DisconnectF(r, TRUE)) = {r}
        BY FrameSubjects
      <4>3. CASE Turned(QueueRunF(p), {CallbackF(r, "error")})
        BY <4>2, <4>3
      <4>4. CASE Turned(QueueRunF(p), {})
        BY <4>4
      <4>5. CASE /\ Turned(QueueRunF(p), {CallbackF(r, "error"), DisconnectF(r, TRUE)})
                 /\ conn'[r] = "dialing"
        <5>1. PICK new : new = {CallbackF(r, "error"), DisconnectF(r, TRUE)}
          OBVIOUS
        <5>2. \A f \in new : Subjects(f) = {} \/ (Subjects(f) = {r} /\ conn'[r] # "none")
          BY <4>2, <4>5, <5>1
        <5>3. Turned(QueueRunF(p), new)
          BY <4>5, <5>1
        <5> QED
          BY <5>2, <5>3
      <4> QED
        BY <4>1, <4>3, <4>4, <4>5
    <3>3. CASE AbortNext(p)
      <4>1. Turned(AbortF(p), {CallbackF(r, "aborted")})
        BY <2>2, <3>3, AbortTurned
      <4>2. Subjects(CallbackF(r, "aborted")) = {}
        BY FrameSubjects
      <4> QED
        BY <4>1, <4>2
    <3> QED
      BY <1>7, <3>1, <3>2, <3>3
  <2> QED
    BY <2>1, <2>2, <2>3, <2>6, <2>7, TakenOffPlaced
<1>8. ASSUME NEW r \in Requests, OnError(r) PROVE PlaceInv'
  <2>1. UNCHANGED <<call, shaking, queue, conn>>
    BY <1>8 DEF OnError, requestVars, connVars
  <2> QED
    BY <1>1, <1>8, <2>1, OtherTurned
<1>9. ASSUME NEW r \in Requests, DisconnectMuxed(r) \/ DisconnectNow(r) PROVE PlaceInv'
  <2>1. PICK b \in BOOLEAN : Top(DisconnectF(r, b)) /\ Turned(DisconnectF(r, b), {})
    BY <1>9, OtherTurned
  <2>2. conn[r] # "none"
    <3>1. DisconnectF(r, b) \in Pending
      BY <2>1, TopFacts DEF TypeInv, TypeOK
    <3> QED
      BY <3>1, FrameSubjects DEF PlaceInv, SubjectsHold
  <2>3. PICK x \in {"closing", "late", "closed"} : conn' = [conn EXCEPT ![r] = x]
    BY <1>9 DEF DisconnectMuxed, DisconnectNow
  <2>4. UNCHANGED <<call, queue, shaking>>
    BY <1>9 DEF DisconnectMuxed, DisconnectNow, requestVars, queueVars
  <2>5. x # "none" /\ x \notin {"dialing", "securing"} /\ \A f \in {} : Subjects(f) = {}
    OBVIOUS
  <2> QED
    BY <2>1, <2>2, <2>3, <2>4, <2>5, MovesOnPlaced
<1> QED
  BY <1>2, <1>3, <1>4, <1>5, <1>6, <1>7, <1>8, <1>9 DEF TurnStep, PeerStep, RequestStep

(* A call of the user. *)
LEMMA UserKeepsPlaces ==
  ASSUME TypeInv, PlaceInv, UserStep
  PROVE  PlaceInv'
<1>1. ASSUME UserTurn \/ (\E p \in Peers : ClearDenylist(p)) PROVE PlaceInv'
  <2>1. \E g : Turned(g, {})
    BY <1>1, UserTurned
  <2>2. UNCHANGED <<call, shaking, queue, conn>>
    BY <1>1 DEF UserTurn, ClearDenylist, requestVars, queueVars, connVars
  <2> QED
    BY <2>1, <2>2, StayPlaced
<1>2. ASSUME NEW r \in Requests, DialRefused(r) \/ DialDenied(r) \/ DialQueued(r) PROVE PlaceInv'
  <2>1. \E g, new : Turned(g, new) /\ \A f \in new : Subjects(f) = {}
    <3>1. Subjects(CallbackF(r, "aborted")) = {} /\ Subjects(CallbackF(r, "denied")) = {}
      BY FrameSubjects
    <3>2. \E g : \/ Turned(g, {CallbackF(r, "aborted")})
                 \/ Turned(g, {CallbackF(r, "denied")})
                 \/ Turned(g, {})
      BY <1>2, UserTurned
    <3> QED
      BY <3>1, <3>2
  <2>2. \E c \in Calls : /\ call' = [call EXCEPT ![r] = c]
                         /\ queue' = queue \/ queue' = [queue EXCEPT ![c.peer] = Append(@, r)]
    BY <1>2 DEF DialRefused, DialDenied, DialQueued, queueVars
  <2>3. call[r] = None /\ UNCHANGED <<conn, shaking>>
    BY <1>2 DEF DialRefused, DialDenied, DialQueued, connVars
  <2> QED
    BY <2>1, <2>2, <2>3, DialPlaced
<1>3. ASSUME NEW r \in Requests, UserCloses(r) PROVE PlaceInv'
  <2>1. /\ UNCHANGED <<call, shaking, queue, conn>> /\ conn[r] # "none"
    BY <1>3 DEF UserCloses, requestVars, queueVars, connVars
  <2>2. \E g : Turned(g, {DisconnectF(r, FALSE)})
    BY <1>3, UserTurned
  <2>3. \A f \in {DisconnectF(r, FALSE)}, s \in Requests : s \in Subjects(f) => conn[s] # "none"
    <3>1. Subjects(DisconnectF(r, FALSE)) = {r}
      BY FrameSubjects
    <3> QED
      BY <2>1, <3>1
  <2> QED
    BY <2>1, <2>2, <2>3, StayPlaced
<1>4. ASSUME NEW p \in Peers, HangUp(p) PROVE PlaceInv'
  <2>1. UNCHANGED <<call, shaking, queue, conn>>
    BY <1>4 DEF HangUp, requestVars, queueVars
  <2>2. \E g : Turned(g, {CloseAllF(Tracked(p))})
    BY <1>4, UserTurned
  <2>3. \A r \in Tracked(p) : conn[r] # "none"
    BY DEF Tracked
  <2> QED
    BY <2>1, <2>2, <2>3, FrameSubjects, StayPlaced
<1> QED
  BY <1>1, <1>2, <1>3, <1>4 DEF UserStep

(* A step that starts a turn. *)
LEMMA EnvKeepsPlaces ==
  ASSUME TypeInv, PlaceInv, EnvStep
  PROVE  PlaceInv'
<1>1. ASSUME NEW r \in Requests,
             TransportConnects(r) \/ MuxerEnds(r) \/ LateConnect(r) \/ Muxes(r) \/ Unmuxes(r)
      PROVE  PlaceInv'
  <2>1. /\ conn[r] # "none" /\ UNCHANGED <<call, queue>>
        /\ \E x \in {"securing", "muxed", "unmuxed", "closed"} :
             /\ conn' = [conn EXCEPT ![r] = x]
             /\ x = "securing" => Unfinished(r) /\ shaking' = shaking
             /\ shaking' = shaking \/ shaking' = shaking \cup {r}
    BY <1>1 DEF TransportConnects, MuxerEnds, LateConnect, Muxes, Unmuxes, Unfinished, StartShake,
                requestVars, queueVars
  <2>2. \E g, new : Turned(g, new) /\ \A f \in new : Subjects(f) = {}
    <3>1. CASE agenda' = agenda
      BY <3>1, EnvTurned
    <3>2. CASE Muxes(r) \/ Unmuxes(r)
      <4>1. \A f \in Elems(ProtocolCallback(r)) : Subjects(f) = {}
        BY PieceElems, FrameSubjects DEF ProtocolCallback
      <4> QED
        BY <3>2, <4>1, EnvTurned
    <3> QED
      BY <1>1, <3>1, <3>2 DEF TransportConnects, MuxerEnds, LateConnect
  <2> QED
    BY <2>1, <2>2, MovesOnPlaced
<1>2. ASSUME NEW r \in Requests, AttemptFails(r) \/ IdentifyFails(r) \/ MuxerCloses(r) PROVE PlaceInv'
  <2>1. UNCHANGED <<call, shaking, queue, conn>> /\ conn[r] # "none"
    BY <1>2 DEF AttemptFails, IdentifyFails, MuxerCloses, Unfinished, requestVars, queueVars, connVars
  <2>2. Subjects(CallbackF(r, "error")) = {} /\ Subjects(DisconnectF(r, TRUE)) = {r}
    BY FrameSubjects
  <2>3. \E g : \/ Turned(g, {CallbackF(r, "error"), DisconnectF(r, TRUE)})
               \/ Turned(g, {DisconnectF(r, TRUE)})
    BY <1>2, EnvTurned
  <2> QED
    BY <2>1, <2>2, <2>3, StayPlaced
<1>3. ASSUME NEW r \in Requests, ShakeEnds(r) PROVE PlaceInv'
  <2>1. shaking' = shaking \ {r} /\ UNCHANGED <<call, queue, conn>>
    BY <1>3 DEF ShakeEnds, queueVars, connVars
  <2>2. PICK g, a : Turned(g, {CallbackF(r, a)})
    BY <1>3, EnvTurned
  <2>3. SubjectsHold'
    BY <2>1, <2>2, FrameSubjects, SubjectsStay
  <2> QED
    BY <2>1, <2>3 DEF PlaceInv, QueuesHold, PlacesHold, Of, PeerOf, Unfinished
<1>4. ASSUME \/ \E r \in Requests : Identified(r)
             \/ \E p \in Peers : InboundMuxes(p) \/ InboundCloses(p) \/ InboundEnds(p) \/ DenyExpires(p)
             \/ Clean \/ ManagerStop \/ ManagerStart
      PROVE  PlaceInv'
  <2>1. UNCHANGED <<call, shaking, queue, conn>>
    BY <1>4 DEF Identified, InboundMuxes, InboundCloses, InboundEnds, DenyExpires, Clean, ManagerStop,
                ManagerStart, requestVars, queueVars, connVars
  <2>2. agenda' = agenda \/ Clean \/ ManagerStop
    BY <1>4 DEF Identified, InboundMuxes, InboundCloses, InboundEnds, DenyExpires, ManagerStart
  <2>3. \E g, new : Turned(g, new) /\ \A f \in new : Subjects(f) = {}
    <3>1. \E g : Turned(g, {}) \/ Turned(g, {StopF(queues)})
      BY <2>2, EnvTurned
    <3>2. (\A f \in {} : Subjects(f) = {}) /\ \A f \in {StopF(queues)} : Subjects(f) = {}
      BY FrameSubjects
    <3> QED
      BY <3>1, <3>2
  <2> QED
    BY <2>1, <2>3, StayPlaced
<1>5. ASSUME CloseConnections PROVE PlaceInv'
  <2>1. UNCHANGED <<call, shaking, queue, conn>>
    BY <1>5 DEF CloseConnections, queueVars
  <2>2. \E g : Turned(g, {CloseAllF(AllTracked)})
    BY <1>5, EnvTurned
  <2>3. \A r \in AllTracked : conn[r] # "none"
    BY DEF AllTracked
  <2> QED
    BY <2>1, <2>2, <2>3, FrameSubjects, StayPlaced
<1> QED
  BY <1>1, <1>2, <1>3, <1>4, <1>5 DEF EnvStep, AttemptStep

(* Every request is in one place at most: queued at its peer, in a           *)
(* connection of its own, or shaking hands.                                  *)
THEOREM PlaceInvariant == Spec => []PlaceInv
<1>1. Init => PlaceInv
  BY PieceElems DEF Init, PlaceInv, QueuesHold, PlacesHold, SubjectsHold, Pending, IsASet, Unfinished
<1>2. TypeInv /\ PlaceInv /\ [Next]_vars => PlaceInv'
  <2>1. UNCHANGED vars /\ PlaceInv => PlaceInv'
    BY DEF vars, requestVars, queueVars, mgrVars, connVars, PlaceInv, QueuesHold, PlacesHold,
           SubjectsHold, Pending, Of, PeerOf, Unfinished
  <2> QED
    BY <2>1, TurnKeepsPlaces, UserKeepsPlaces, EnvKeepsPlaces DEF Next
<1> QED
  BY <1>1, <1>2, TypeInvariant, PTL DEF Spec

-----------------------------------------------------------------------------
(* What will serve or abort a queue.                                        *)

(* A peer is attended when its queue runs or waits for a slot, or is about   *)
(* to be aborted: by itself or by the walk of a stop.                        *)
Attended(p) ==
  \/ p \in running \cup Waiting
  \/ AbortF(p) \in Pending
  \/ \E P \in SUBSET Peers : p \in P /\ StopF(P) \in Pending

(* Nothing is queued but at a peer that has a queue and is attended. *)
AttendedInv == \A p \in Peers : queue[p] # <<>> => p \in queues /\ Attended(p)

(* A step that runs neither an abort nor the walk of a stop. *)
Spares(g) == (\A p : g # AbortF(p)) /\ (\A P : g # StopF(P))

(* Every frame but those two. *)
LEMMA SpareFacts ==
  /\ Spares(RunF)
  /\ \A p : Spares(QueueRunF(p)) /\ Spares(DeleteF(p))
  /\ \A r, a : Spares(CallbackF(r, a)) /\ Spares(DisconnectF(r, a))
  /\ \A r : Spares(OnErrorF(r)) /\ Spares(CloseAllF(r)) /\ Spares(CleanF(r)) /\ Spares(UserF(r))
<1>1. \A f : f.op \notin {"abort", "stop"} => Spares(f)
  BY FrameNames DEF Spares
<1>2. Spares(RunF) /\ \A p : Spares(QueueRunF(p)) /\ Spares(DeleteF(p))
  BY <1>1, FrameNames
<1>3. \A r, a : Spares(CallbackF(r, a)) /\ Spares(DisconnectF(r, a))
  BY <1>1, FrameNames
<1>4. \A r : Spares(OnErrorF(r)) /\ Spares(CloseAllF(r)) /\ Spares(CleanF(r)) /\ Spares(UserF(r))
  BY <1>1, FrameNames
<1> QED
  BY <1>2, <1>3, <1>4

(* Who was attended still is, when nobody stops running or waiting. *)
LEMMA StaysAttended ==
  ASSUME NEW p \in Peers, Attended(p), p \in running \cup Waiting => p \in running' \cup Waiting',
         NEW g, NEW new, Turned(g, new), Spares(g)
  PROVE  Attended(p)'
<1>1. CASE p \in running \cup Waiting
  BY <1>1 DEF Attended
<1>2. CASE AbortF(p) \in Pending
  BY <1>2 DEF Attended, Turned, Spares
<1>3. ASSUME NEW P \in SUBSET Peers, p \in P, StopF(P) \in Pending PROVE Attended(p)'
  BY <1>3 DEF Attended, Turned, Spares
<1> QED
  BY <1>1, <1>2, <1>3 DEF Attended

(* The same for every peer at once. *)
LEMMA AllStayAttended ==
  ASSUME AttendedInv, queues \subseteq queues', running \subseteq running', Waiting \subseteq Waiting',
         \A p \in Peers : queue'[p] # <<>> => queue[p] # <<>>,
         NEW g, NEW new, Turned(g, new), Spares(g)
  PROVE  AttendedInv'
<1> SUFFICES ASSUME NEW p \in Peers, queue'[p] # <<>> PROVE p \in queues' /\ Attended(p)'
  BY DEF AttendedInv, Attended
<1>1. p \in queues /\ Attended(p)
  BY DEF AttendedInv
<1> QED
  BY <1>1, StaysAttended

(* run() gives up only a peer that has no queue. *)
LEMMA RunKeepsAttended ==
  ASSUME TypeInv, AttendedInv, Run
  PROVE  AttendedInv'
<1> SUFFICES ASSUME NEW p \in Peers, queue[p] # <<>> PROVE p \in queues /\ Attended(p)'
  BY DEF AttendedInv, Attended, Run
<1>1. p \in queues /\ Attended(p) /\ Turned(RunF, {}) /\ Spares(RunF)
  BY RunTurned, SpareFacts DEF AttendedInv
<1>2. normal \in Seq(Peers) /\ cold \in Seq(Peers)
  BY DEF TypeInv, TypeOK
<1>3. normal # <<>> => Elems(normal) = {Head(normal)} \cup Elems(Tail(normal))
  BY <1>2, RestElems
<1>4. cold # <<>> => Elems(cold) = {Head(cold)} \cup Elems(Tail(cold))
  BY <1>2, RestElems
<1>5. CASE UNCHANGED <<normal, cold, running>>
  BY <1>1, <1>5, StaysAttended DEF Waiting
<1>6. CASE ~UNCHANGED <<normal, cold, running>>
  <2>1. /\ normal # <<>> \/ cold # <<>>
        /\ IF normal # <<>> THEN normal' = Tail(normal) /\ UNCHANGED cold
                            ELSE cold' = Tail(cold) /\ UNCHANGED normal
        /\ IF NextWaiting \in queues
           THEN running' = running \cup {NextWaiting}
           ELSE running' = running
    BY <1>6 DEF Run, QueueStart
  <2>2. Waiting \subseteq Waiting' \cup {NextWaiting}
    BY <1>3, <1>4, <2>1 DEF Waiting, NextWaiting
  <2>3. p \in running \cup Waiting => p \in running' \cup Waiting'
    BY <1>1, <2>1, <2>2
  <2> QED
    BY <1>1, <2>3, StaysAttended
<1> QED
  BY <1>1, <1>5, <1>6

(* A queue stops only when nothing is queued. *)
LEMMA StopsKeepAttended ==
  ASSUME TypeInv, AttendedInv, DroppedQueuesAreIdle, NEW q \in Peers,
         QueueRunStops(q) \/ AbortEnds(q) \/ Delete(q)
  PROVE  AttendedInv'
<1> SUFFICES ASSUME NEW p \in Peers, queue[p] # <<>> PROVE p \in queues' /\ Attended(p)'
  BY DEF AttendedInv, Attended, QueueRunStops, AbortEnds, Delete
<1>1. p \in queues /\ Attended(p)
  BY DEF AttendedInv
<1>2. CASE QueueRunStops(q)
  <2>1. Turned(QueueRunF(q), {}) /\ Spares(QueueRunF(q))
    BY <1>2, QueueRunTurned, SpareFacts
  <2>2. /\ UNCHANGED <<normal, cold, queues>> /\ (p \in running => p \in running')
    BY <1>2 DEF QueueRunStops, QueueStop
  <2> QED
    BY <1>1, <2>1, <2>2, StaysAttended DEF Waiting
<1>3. CASE AbortEnds(q)
  <2>1. Turned(AbortF(q), {}) /\ p # q
    BY <1>3, AbortTurned DEF AbortEnds
  <2>2. UNCHANGED <<normal, cold, queues>> /\ (p \in running => p \in running')
    BY <1>3, <2>1 DEF AbortEnds, QueueStop
  <2>3. /\ AbortF(p) # AbortF(q)
        /\ \A P : StopF(P) # AbortF(q)
    BY <2>1, FramePeers, FrameNames
  <2>4. AbortF(p) \in Pending => AbortF(p) \in Pending'
    BY <2>1, <2>3 DEF Turned
  <2>5. \A P : StopF(P) \in Pending => StopF(P) \in Pending'
    BY <2>1, <2>3 DEF Turned
  <2> QED
    BY <1>1, <2>2, <2>4, <2>5 DEF Attended, Waiting
<1>4. CASE Delete(q)
  <2>1. queue[q] = <<>>
    BY <1>4 DEF DroppedQueuesAreIdle, Delete
  <2>2. Turned(DeleteF(q), {}) /\ Spares(DeleteF(q))
    BY <1>4, OtherTurned, SpareFacts
  <2>3. UNCHANGED <<normal, cold, running>> /\ p \in queues'
    BY <1>1, <1>4, <2>1 DEF Delete
  <2> QED
    BY <1>1, <2>2, <2>3, StaysAttended DEF Waiting
<1> QED
  BY <1>2, <1>3, <1>4

(* The walk of a stop attends the peers it has not reached, and aborts the   *)
(* one it reaches.                                                           *)
LEMMA WalkKeepsAttended ==
  ASSUME TypeInv, AttendedInv, StopNext
  PROVE  AttendedInv'
<1> SUFFICES ASSUME NEW p \in Peers, queue[p] # <<>> PROVE p \in queues' /\ Attended(p)'
  BY DEF AttendedInv, Attended, StopNext, queueVars
<1>1. p \in queues /\ Attended(p) /\ UNCHANGED <<queues, running, normal, cold>>
  BY DEF AttendedInv, StopNext, queueVars, mgrVars
<1>2. PICK P \in SUBSET Peers :
        \/ P = {} /\ Turned(StopF(P), {})
        \/ \E q \in P : Turned(StopF(P), {AbortF(q), StopF(P \ {q})})
  BY OtherTurned
<1>3. CASE p \in running \cup Waiting
  BY <1>1, <1>3 DEF Attended, Waiting
<1>4. CASE AbortF(p) \in Pending
  <2>1. AbortF(p) # StopF(P)
    BY FrameNames
  <2> QED
    BY <1>1, <1>2, <1>4, <2>1 DEF Attended, Turned
<1>5. ASSUME NEW R \in SUBSET Peers, p \in R, StopF(R) \in Pending PROVE Attended(p)'
  <2>1. CASE StopF(R) \in Pending'
    BY <1>5, <2>1 DEF Attended
  <2>2. CASE StopF(R) \notin Pending'
    <3>1. StopF(R) = StopF(P)
      BY <1>2, <1>5, <2>2 DEF Turned
    <3>2. R = P
      BY <3>1 DEF StopF
    <3>3. PICK q \in P : AbortF(q) \in Pending' /\ StopF(P \ {q}) \in Pending'
      BY <1>2, <1>5, <3>2 DEF Turned
    <3>4. p = q \/ (p \in P \ {q} /\ P \ {q} \in SUBSET Peers)
      BY <1>5, <3>2
    <3> QED
      BY <3>3, <3>4 DEF Attended
  <2> QED
    BY <2>1, <2>2
<1> QED
  BY <1>1, <1>3, <1>4, <1>5 DEF Attended

(* A dial that is queued makes its peer run or wait. *)
LEMMA DialKeepsAttended ==
  ASSUME TypeInv, WaitingInv, AttendedInv, NEW r \in Requests, DialQueued(r)
  PROVE  AttendedInv'
<1>1. PICK c \in Calls :
        /\ queues' = queues \cup {c.peer}
        /\ queue' = [queue EXCEPT ![c.peer] = Append(@, r)]
        /\ \/ running' = running \cup {c.peer} /\ UNCHANGED <<normal, cold>>
           \/ /\ running' = running
              /\ \/ c.peer \in running /\ UNCHANGED <<normal, cold>>
                 \/ Enlist(c.peer, c.kind.cold)
  BY DEF DialQueued, QueueStart
<1>2. c.peer \in Peers /\ normal \in Seq(Peers) /\ cold \in Seq(Peers)
  BY PeerTypes DEF TypeInv, TypeOK
<1>3. running \subseteq running' /\ Waiting \subseteq Waiting' /\ c.peer \in running' \cup Waiting'
  <2>1. CASE UNCHANGED <<normal, cold>> /\ c.peer \in running' /\ running \subseteq running'
    BY <2>1 DEF Waiting
  <2>2. CASE running' = running /\ Enlist(c.peer, c.kind.cold)
    <3>1. \A s \in Seq(Peers) : Elems(SetAdd(s, c.peer)) = Elems(s) \cup {c.peer}
      BY <1>2, AppendElems DEF SetAdd
    <3>2. Elems(SetDelete(cold, c.peer)) = Elems(cold) \ {c.peer}
      BY <1>2, DeleteFacts DEF WaitingInv
    <3>3. \/ Elems(cold') = Elems(cold) \cup {c.peer} /\ normal' = normal
          \/ /\ Elems(normal') = Elems(normal) \cup {c.peer}
             /\ Elems(cold') = Elems(cold) \ {c.peer}
      BY <1>2, <2>2, <3>1, <3>2 DEF Enlist
    <3> QED
      BY <2>2, <3>3 DEF Waiting
  <2> QED
    BY <1>1, <2>1, <2>2
<1> SUFFICES ASSUME NEW p \in Peers, queue'[p] # <<>> PROVE p \in queues' /\ Attended(p)'
  BY DEF AttendedInv, Attended
<1>4. CASE p = c.peer
  BY <1>1, <1>3, <1>4 DEF Attended
<1>5. CASE p # c.peer
  <2>1. queue[p] # <<>>
    BY <1>1, <1>5 DEF TypeInv, TypeOK
  <2>2. p \in queues /\ Attended(p)
    BY <2>1 DEF AttendedInv
  <2>3. Turned(RunF, {}) /\ Spares(RunF)
    BY UserTurned, SpareFacts
  <2> QED
    BY <1>1, <1>3, <2>2, <2>3, StaysAttended
<1> QED
  BY <1>4, <1>5

(* The other steps take nothing from the peers that run or wait. *)
LEMMA OthersKeepAttended ==
  ASSUME TypeInv, AttendedInv,
         \/ Callback \/ CloseAll \/ CleanNext \/ UserReturn
         \/ \E p \in Peers : QueueRunReuses(p) \/ QueueRunCreates(p) \/ AbortNext(p)
         \/ \E r \in Requests : RequestStep(r)
         \/ UserStep /\ ~\E r \in Requests : DialQueued(r)
         \/ EnvStep /\ ~ManagerStop
  PROVE  AttendedInv'
<1>1. /\ queues \subseteq queues' /\ running \subseteq running' /\ UNCHANGED <<normal, cold>>
      /\ \A p \in Peers : queue'[p] # <<>> => queue[p] # <<>>
  <2>1. ASSUME NEW p \in Peers, QueueRunReuses(p) \/ QueueRunCreates(p) \/ AbortNext(p)
        PROVE  /\ UNCHANGED <<queues, running, normal, cold>>
               /\ \A q \in Peers : queue'[q] # <<>> => queue[q] # <<>>
    BY <2>1 DEF QueueRunReuses, QueueRunCreates, AbortNext, mgrVars, TypeInv, TypeOK
  <2>2. CASE \/ Callback \/ CloseAll \/ CleanNext \/ UserReturn
             \/ \E r \in Requests : RequestStep(r)
    BY <2>2 DEF Callback, CloseAll, CleanNext, UserReturn, RequestStep, OnError, DisconnectMuxed,
                DisconnectNow, queueVars, mgrVars
  <2>3. CASE UserStep /\ ~\E r \in Requests : DialQueued(r)
    BY <2>3 DEF UserStep, UserTurn, DialRefused, DialDenied, QueueStart, UserCloses, HangUp,
                ClearDenylist, queueVars, mgrVars
  <2>4. CASE EnvStep /\ ~ManagerStop
    BY <2>4 DEF EnvStep, AttemptStep, TransportConnects, AttemptFails, Muxes, Unmuxes, ShakeEnds,
                Identified, IdentifyFails, MuxerCloses, MuxerEnds, LateConnect, InboundMuxes,
                InboundCloses, InboundEnds, DenyExpires, Clean, CloseConnections, ManagerStart,
                queueVars, mgrVars
  <2> QED
    BY <2>1, <2>2, <2>3, <2>4
<1>2. \E g, new : Turned(g, new) /\ Spares(g)
  <2>1. ASSUME NEW p \in Peers, QueueRunReuses(p) \/ QueueRunCreates(p) \/ AbortNext(p)
        PROVE  \E new : Turned(QueueRunF(p), new)
    BY <2>1, QueueRunTurned, AbortTurned
  <2>2. CASE Callback \/ CloseAll \/ CleanNext \/ UserReturn
    BY <2>2, OtherTurned, SpareFacts
  <2>3. ASSUME NEW r \in Requests, RequestStep(r)
        PROVE  \E g, new : Turned(g, new) /\ Spares(g)
    BY <2>3, OtherTurned, SpareFacts DEF RequestStep
  <2>4. CASE UserStep /\ ~\E r \in Requests : DialQueued(r)
    <3>1. \E new : Turned(RunF, new)
      BY <2>4, UserTurned DEF UserStep
    <3> QED
      BY <3>1, SpareFacts
  <2>5. CASE EnvStep /\ ~ManagerStop
    <3>1. agenda' = agenda \/ Clean \/ CloseConnections \/ \E r \in Requests :
            \/ AttemptFails(r) \/ IdentifyFails(r) \/ MuxerCloses(r) \/ Muxes(r) \/ Unmuxes(r)
            \/ ShakeEnds(r)
      BY <2>5 DEF EnvStep, AttemptStep, TransportConnects, Identified, MuxerEnds, LateConnect,
                  InboundMuxes, InboundCloses, InboundEnds, DenyExpires, ManagerStart
    <3>2. \E new : Turned(RunF, new)
      BY <2>5, <3>1, EnvTurned
    <3> QED
      BY <3>2, SpareFacts
  <2> QED
    BY <2>1, <2>2, <2>3, <2>4, <2>5, SpareFacts
<1>3. Waiting \subseteq Waiting'
  BY <1>1 DEF Waiting
<1> QED
  BY <1>1, <1>2, <1>3, AllStayAttended

(* stop() forgets who waits, and will abort every queue. *)
LEMMA StopKeepsAttended ==
  ASSUME TypeInv, AttendedInv, ManagerStop
  PROVE  AttendedInv'
<1>1. EnvStep
  BY DEF EnvStep
<1>2. StopF(queues) \in Pending'
  BY <1>1, EnvTurned DEF Turned
<1>3. queues \in SUBSET Peers /\ UNCHANGED <<queues, queue>>
  BY DEF TypeInv, TypeOK, ManagerStop, queueVars
<1> SUFFICES ASSUME NEW p \in Peers, queue'[p] # <<>> PROVE p \in queues' /\ Attended(p)'
  BY DEF AttendedInv, Attended
<1>4. p \in queues
  BY <1>3 DEF AttendedInv
<1> QED
  BY <1>2, <1>3, <1>4 DEF Attended

(* A request that is queued is served or aborted: its peer runs, waits for a *)
(* slot or is about to be aborted -- where no callback resets a denylist, so *)
(* that no queue is dropped with a request in it.                            *)
THEOREM AttendedInvariant ==
  ASSUME "clearDenylist" \notin NestedCalls
  PROVE  Spec => []AttendedInv
<1>1. Init => AttendedInv
  BY DEF Init, AttendedInv
<1>2. TypeInv /\ WaitingInv /\ DroppedQueuesAreIdle /\ AttendedInv /\ [Next]_vars => AttendedInv'
  <2> SUFFICES ASSUME TypeInv, WaitingInv, DroppedQueuesAreIdle, AttendedInv, [Next]_vars
               PROVE  AttendedInv'
    OBVIOUS
  <2>1. CASE UNCHANGED vars
    BY <2>1 DEF vars, queueVars, mgrVars, AttendedInv, Attended, Waiting, Pending
  <2>2. CASE Run \/ StopNext \/ \E p \in Peers : QueueRunStops(p) \/ AbortEnds(p) \/ Delete(p)
    BY <2>2, RunKeepsAttended, WalkKeepsAttended, StopsKeepAttended
  <2>3. CASE ManagerStop \/ \E r \in Requests : DialQueued(r)
    BY <2>3, StopKeepsAttended, DialKeepsAttended
  <2>4. CASE Next
    BY <2>2, <2>3, <2>4, OthersKeepAttended DEF Next, TurnStep, PeerStep
  <2> QED
    BY <2>1, <2>4
<1> QED
  BY <1>1, <1>2, TypeInvariant, WaitingInvariant, DroppedQueuesAreIdleHolds, PTL DEF Spec

-----------------------------------------------------------------------------
(* What a request that was not answered is owed.                            *)

Unanswered(r) == call[r] # None /\ answer[r] = "none"

(* Its callback is to be called in this turn. *)
Told(r) == \E a \in Answers \ {"none"} : CallbackF(r, a) \in Pending

(* It is where an answer can come from, or its connection was closed under *)
(* it: by a hang-up, or by a stop of the switch.                            *)
Placed(r) ==
  Queued(r) \/ Unfinished(r) \/ r \in shaking \/ (HungUp(r) /\ r \in abandoned)

(* A request that was not answered is placed or told.  An attempt that fails *)
(* tells its request before it disconnects; any other disconnection is part  *)
(* of a hang-up or a stop, or made by the user who was given the connection. *)
OwedInv ==
  /\ \A r \in Requests : Unanswered(r) => Placed(r) \/ Told(r)
  /\ \A r \in Requests :
       DisconnectF(r, TRUE) \in Pending /\ Unfinished(r) /\ answer[r] = "none" => Told(r)
  /\ \A r \in Requests :
       DisconnectF(r, FALSE) \in Pending => r \in abandoned \/ answer[r] # "none"
  /\ \A R \in SUBSET Requests : CloseAllF(R) \in Pending => R \subseteq abandoned

(* The step is not the call of a callback. *)
Silent(g) == \A r, a : g # CallbackF(r, a)

(* Every frame but a callback. *)
LEMMA SilentFrames ==
  /\ Silent(RunF)
  /\ \A p : Silent(QueueRunF(p)) /\ Silent(AbortF(p)) /\ Silent(DeleteF(p))
  /\ \A r, a : Silent(DisconnectF(r, a))
  /\ \A r : /\ Silent(OnErrorF(r)) /\ Silent(CloseAllF(r)) /\ Silent(StopF(r))
            /\ Silent(CleanF(r)) /\ Silent(UserF(r))
<1>1. \A f : f.op # "callback" => Silent(f)
  BY FrameNames DEF Silent
<1>2. Silent(RunF) /\ \A p : Silent(QueueRunF(p)) /\ Silent(AbortF(p)) /\ Silent(DeleteF(p))
  BY <1>1, FrameNames
<1>3. \A r, a : Silent(DisconnectF(r, a))
  BY <1>1, FrameNames
<1>4. \A r : Silent(OnErrorF(r)) /\ Silent(CloseAllF(r)) /\ Silent(StopF(r))
  BY <1>1, FrameNames
<1>5. \A r : Silent(CleanF(r)) /\ Silent(UserF(r))
  BY <1>1, FrameNames
<1> QED
  BY <1>2, <1>3, <1>4, <1>5

(* What is told stays told until the callback is called. *)
LEMMA StaysTold ==
  ASSUME NEW r, Told(r), NEW g, NEW new, Turned(g, new), Silent(g)
  PROVE  Told(r)'
BY DEF Told, Turned, Silent

(* A step that answers nobody: who is not answered stays placed or is told,  *)
(* no attempt starts that is to be disconnected, and what is added to the    *)
(* turn disconnects only what may be.                                        *)
LEMMA OwedStep ==
  ASSUME OwedInv, UNCHANGED answer, abandoned \subseteq abandoned',
         NEW g, NEW new, Turned(g, new), Silent(g),
         \A r \in Requests :
           Unanswered(r)' => (Unanswered(r) /\ (Placed(r) => Placed(r)')) \/ Placed(r)' \/ Told(r)',
         \A r \in Requests : DisconnectF(r, TRUE) \in Pending /\ Unfinished(r)' => Unfinished(r),
         \A r \in Requests : DisconnectF(r, TRUE) \in new => Told(r)' \/ ~Unfinished(r)',
         \A r \in Requests :
           DisconnectF(r, FALSE) \in new => r \in abandoned' \/ answer[r] # "none",
         \A R \in SUBSET Requests : CloseAllF(R) \in new => R \subseteq abandoned'
  PROVE  OwedInv'
<1>1. ASSUME NEW r \in Requests, Unanswered(r)' PROVE Placed(r)' \/ Told(r)'
  BY <1>1, StaysTold DEF OwedInv
<1>2. ASSUME NEW r \in Requests, NEW b, DisconnectF(r, b) \in Pending'
      PROVE  DisconnectF(r, b) \in Pending \/ DisconnectF(r, b) \in new
  BY <1>2, FrameSubjects DEF Turned
<1>3. ASSUME NEW r \in Requests, DisconnectF(r, TRUE) \in Pending', Unfinished(r)', answer'[r] = "none"
      PROVE  Told(r)'
  BY <1>2, <1>3, StaysTold DEF OwedInv
<1>4. ASSUME NEW r \in Requests, DisconnectF(r, FALSE) \in Pending'
      PROVE  r \in abandoned' \/ answer'[r] # "none"
  BY <1>2, <1>4 DEF OwedInv
<1>5. ASSUME NEW R \in SUBSET Requests, CloseAllF(R) \in Pending'
      PROVE  R \subseteq abandoned'
  <2>1. CloseAllF(R) \in Pending \/ CloseAllF(R) \in new \/ R = {}
    BY <1>5, FrameSubjects DEF Turned
  <2> QED
    BY <2>1 DEF OwedInv
<1> QED
  BY <1>1, <1>3, <1>4, <1>5 DEF OwedInv

(* The same for a step that adds no disconnection. *)
LEMMA OwedPlainStep ==
  ASSUME OwedInv, UNCHANGED answer, abandoned \subseteq abandoned',
         NEW g, NEW new, Turned(g, new), Silent(g),
         \A f \in new : Subjects(f) = {},
         \A r \in Requests :
           Unanswered(r)' => (Unanswered(r) /\ (Placed(r) => Placed(r)')) \/ Placed(r)' \/ Told(r)',
         \A r \in Requests : DisconnectF(r, TRUE) \in Pending /\ Unfinished(r)' => Unfinished(r)
  PROVE  OwedInv'
<1>1. ASSUME NEW r \in Requests
      PROVE  DisconnectF(r, TRUE) \notin new /\ DisconnectF(r, FALSE) \notin new
  <2>1. Subjects(DisconnectF(r, TRUE)) = {r} /\ Subjects(DisconnectF(r, FALSE)) = {r}
    BY FrameSubjects
  <2> QED
    BY <2>1
<1>2. \A R \in SUBSET Requests : CloseAllF(R) \in new => R = {}
  BY FrameSubjects
<1> QED
  BY <1>1, <1>2, OwedStep

(* A step that moves no request. *)
LEMMA OwedStays ==
  ASSUME OwedInv, UNCHANGED <<call, answer, shaking, queue, conn>>,
         abandoned \subseteq abandoned', NEW g, NEW new, Turned(g, new), Silent(g),
         \A r \in Requests : DisconnectF(r, TRUE) \in new => Told(r)' \/ ~Unfinished(r),
         \A r \in Requests :
           DisconnectF(r, FALSE) \in new => r \in abandoned' \/ answer[r] # "none",
         \A R \in SUBSET Requests : CloseAllF(R) \in new => R \subseteq abandoned'
  PROVE  OwedInv'
<1>1. \A r \in Requests : /\ Unanswered(r)' => Unanswered(r) /\ (Placed(r) => Placed(r)')
                          /\ Unfinished(r)' <=> Unfinished(r)
  BY DEF Unanswered, Placed, Queued, PeerOf, Unfinished, HungUp
<1> QED
  BY <1>1, OwedStep

(* The same for a step that adds nothing to tell of. *)
LEMMA OwedIdles ==
  ASSUME OwedInv, UNCHANGED <<call, answer, shaking, queue, conn, abandoned>>,
         NEW g, Turned(g, {}), Silent(g)
  PROVE  OwedInv'
<1>1. PICK new : Turned(g, new) /\ new = {}
  OBVIOUS
<1>2. \A f \in new : Subjects(f) = {}
  BY <1>1
<1>3. \A r \in Requests : /\ Unanswered(r)' => Unanswered(r) /\ (Placed(r) => Placed(r)')
                          /\ Unfinished(r)' => Unfinished(r)
  BY DEF Unanswered, Placed, Queued, PeerOf, Unfinished, HungUp
<1> QED
  BY <1>1, <1>2, <1>3, OwedPlainStep

(* The call of a callback answers its request. *)
LEMMA CallbackKeepsOwed ==
  ASSUME TypeInv, OwedInv, Callback
  PROVE  OwedInv'
<1>1. PICK r \in Requests, a \in Answers :
        /\ Top(CallbackF(r, a))
        /\ IF answer[r] = "none" THEN answer' = [answer EXCEPT ![r] = a] ELSE UNCHANGED answer
  BY DEF Callback
<1>2. UNCHANGED <<call, shaking, queue, conn, abandoned>>
  BY DEF Callback, queueVars, connVars
<1>3. \A s \in Requests : /\ s # r => answer'[s] = answer[s]
                          /\ answer'[s] = "none" => answer[s] = "none"
                          /\ s = r /\ answer'[s] = "none" => a = "none"
  BY <1>1 DEF TypeInv, TypeOK
<1>4. Turned(CallbackF(r, a), {})
  <2>1. PICK s \in Requests, b \in Answers : Top(CallbackF(s, b)) /\ Turned(CallbackF(s, b), {})
    BY OtherTurned
  <2>2. CallbackF(s, b) = CallbackF(r, a)
    BY <1>1, <2>1, TopFacts
  <2> QED
    BY <2>1, <2>2
<1>5. ASSUME NEW s \in Requests, Told(s), answer'[s] = "none" PROVE Told(s)'
  <2>1. PICK b \in Answers \ {"none"} : CallbackF(s, b) \in Pending
    BY <1>5 DEF Told
  <2>2. CallbackF(s, b) # CallbackF(r, a)
    <3>1. CallbackF(s, b) = CallbackF(r, a) => s = r /\ a = b
      BY DEF CallbackF
    <3> QED
      BY <1>3, <1>5, <2>1, <3>1
  <2> QED
    BY <1>4, <2>1, <2>2 DEF Told, Turned
<1>6. \A s \in Requests : /\ Unanswered(s)' => Unanswered(s)
                          /\ Placed(s)' <=> Placed(s)
                          /\ Unfinished(s)' <=> Unfinished(s)
  BY <1>2, <1>3 DEF Unanswered, Placed, Queued, PeerOf, Unfinished, HungUp
<1>7. \A s \in Requests : Unanswered(s)' => Placed(s)' \/ Told(s)'
  BY <1>5, <1>6 DEF OwedInv, Unanswered
<1>8. \A s \in Requests, b \in BOOLEAN : DisconnectF(s, b) \in Pending' => DisconnectF(s, b) \in Pending
  BY <1>4, FrameSubjects DEF Turned
<1>9. \A R \in SUBSET Requests : CloseAllF(R) \in Pending' => CloseAllF(R) \in Pending \/ R = {}
  BY <1>4, FrameSubjects DEF Turned
<1>10. \A s \in Requests :
         DisconnectF(s, TRUE) \in Pending' /\ Unfinished(s)' /\ answer'[s] = "none" => Told(s)'
  BY <1>3, <1>5, <1>6, <1>8 DEF OwedInv
<1>11. \A s \in Requests :
         DisconnectF(s, FALSE) \in Pending' => s \in abandoned' \/ answer'[s] # "none"
  BY <1>2, <1>3, <1>8 DEF OwedInv
<1>12. \A R \in SUBSET Requests : CloseAllF(R) \in Pending' => R \subseteq abandoned'
  BY <1>2, <1>9 DEF OwedInv
<1> QED
  BY <1>7, <1>10, <1>11, <1>12 DEF OwedInv

(* A request is told when its callback is pending. *)
LEMMA ToldNow ==
  ASSUME NEW r, NEW a \in {"ok", "error", "aborted", "denied"}, NEW g, NEW new, Turned(g, new),
         CallbackF(r, a) \in new
  PROVE  Told(r)'
BY DEF Told, Turned, Answers

(* Frames that are told apart by what they are of. *)
LEMMA FrameKinds ==
  /\ \A r, s : DisconnectF(r, TRUE) = DisconnectF(s, TRUE) => r = s
  /\ \A r, s : DisconnectF(r, FALSE) = DisconnectF(s, FALSE) => r = s
  /\ \A r, s : DisconnectF(r, TRUE) # DisconnectF(s, FALSE)
  /\ \A r, s, a : CallbackF(r, a) # DisconnectF(s, TRUE) /\ CallbackF(r, a) # DisconnectF(s, FALSE)
  /\ \A r, a, R : CallbackF(r, a) # CloseAllF(R)
  /\ \A r, R : DisconnectF(r, TRUE) # CloseAllF(R) /\ DisconnectF(r, FALSE) # CloseAllF(R)
  /\ \A R, S : CloseAllF(R) = CloseAllF(S) => R = S
<1>1. \A r, s : DisconnectF(r, TRUE) = DisconnectF(s, TRUE) => r = s
  BY DEF DisconnectF
<1>2. \A r, s : DisconnectF(r, FALSE) = DisconnectF(s, FALSE) => r = s
  BY DEF DisconnectF
<1>3. \A r, s : DisconnectF(r, TRUE) # DisconnectF(s, FALSE)
  BY DEF DisconnectF
<1>4. \A r, s, a : CallbackF(r, a) # DisconnectF(s, TRUE) /\ CallbackF(r, a) # DisconnectF(s, FALSE)
  BY DEF CallbackF, DisconnectF
<1>5. \A r, a, R : CallbackF(r, a) # CloseAllF(R)
  BY FrameNames
<1>6. \A r, R : DisconnectF(r, TRUE) # CloseAllF(R) /\ DisconnectF(r, FALSE) # CloseAllF(R)
  BY DEF CloseAllF, DisconnectF
<1>7. \A R, S : CloseAllF(R) = CloseAllF(S) => R = S
  BY DEF CloseAllF
<1> QED
  BY <1>1, <1>2, <1>3, <1>4, <1>5, <1>6, <1>7

(* What the failure of an attempt adds to the turn. *)
LEMMA FailureFrames ==
  ASSUME NEW r, NEW new \in SUBSET {CallbackF(r, "error"), DisconnectF(r, TRUE)}
  PROVE  /\ \A s : DisconnectF(s, TRUE) \in new => s = r
         /\ \A s : DisconnectF(s, FALSE) \notin new
         /\ \A R : CloseAllF(R) \notin new
<1>0. PICK x, y : x = CallbackF(r, "error") /\ y = DisconnectF(r, TRUE)
  OBVIOUS
<1>1. \A f \in new : f = x \/ f = y
  BY <1>0
<1>2. \A s : DisconnectF(s, TRUE) # x /\ (DisconnectF(s, TRUE) = y => s = r)
  BY <1>0, FrameKinds
<1>3. \A s : DisconnectF(s, FALSE) # x /\ DisconnectF(s, FALSE) # y
  BY <1>0, FrameKinds
<1>4. \A R : CloseAllF(R) # x /\ CloseAllF(R) # y
  BY <1>0, FrameKinds
<1>5. \A s : DisconnectF(s, TRUE) \in new => s = r
  BY <1>1, <1>2
<1>6. \A s : DisconnectF(s, FALSE) \notin new
  BY <1>1, <1>3
<1>7. \A R : CloseAllF(R) \notin new
  BY <1>1, <1>4
<1> QED
  BY <1>5, <1>6, <1>7

(* An attempt, or an identify, that fails tells its request first; the       *)
(* connection that a muxer closes is no attempt any more.                    *)
LEMMA FailureKeepsOwed ==
  ASSUME TypeInv, OwedInv, EnvStep, NEW r \in Requests,
         AttemptFails(r) \/ IdentifyFails(r) \/ MuxerCloses(r)
  PROVE  OwedInv'
<1>1. UNCHANGED <<call, answer, shaking, queue, conn, abandoned>>
  BY DEF AttemptFails, IdentifyFails, MuxerCloses, requestVars, queueVars, connVars
<1>2. PICK new \in SUBSET {CallbackF(r, "error"), DisconnectF(r, TRUE)} :
        Turned(RunF, new) /\ (CallbackF(r, "error") \in new \/ ~Unfinished(r))
  <2>1. \/ Turned(RunF, {CallbackF(r, "error"), DisconnectF(r, TRUE)})
        \/ Turned(RunF, {DisconnectF(r, TRUE)}) /\ ~Unfinished(r)
    BY EnvTurned DEF MuxerCloses, Unfinished
  <2>2. PICK x, y : x = CallbackF(r, "error") /\ y = DisconnectF(r, TRUE)
    OBVIOUS
  <2>3. \E new \in SUBSET {x, y} : Turned(RunF, new) /\ (x \in new \/ ~Unfinished(r))
    BY <2>1, <2>2
  <2> QED
    BY <2>2, <2>3
<1>3. CallbackF(r, "error") \in new => Told(r)'
  BY <1>2, ToldNow
<1>4. \A s \in Requests : DisconnectF(s, TRUE) \in new => Told(s)' \/ ~Unfinished(s)
  BY <1>2, <1>3, FailureFrames
<1>5. /\ \A s \in Requests : DisconnectF(s, FALSE) \notin new
      /\ \A R \in SUBSET Requests : CloseAllF(R) \notin new
  BY FailureFrames
<1> QED
  BY <1>1, <1>2, <1>4, <1>5, SilentFrames, OwedStays

(* Who closes a connection that has not failed was given it, hangs up or     *)
(* stops the switch.                                                         *)
LEMMA ClosingKeepsOwed ==
  ASSUME TypeInv, OwedInv,
         \/ CloseAll
         \/ \E r \in Requests : UserCloses(r)
         \/ \E p \in Peers : HangUp(p)
         \/ EnvStep /\ CloseConnections
  PROVE  OwedInv'
<1>1. UNCHANGED <<call, answer, shaking, queue, conn>> /\ abandoned \subseteq abandoned'
  BY DEF CloseAll, UserCloses, HangUp, CloseConnections, requestVars, queueVars, connVars
<1>2. CASE CloseAll
  <2>0. UNCHANGED abandoned
    BY <1>2 DEF CloseAll, requestVars
  <2>1. PICK R \in SUBSET Requests :
          /\ Top(CloseAllF(R))
          /\ \/ Turned(CloseAllF(R), {})
             \/ \E r \in R : Turned(CloseAllF(R), {DisconnectF(r, FALSE), CloseAllF(R \ {r})})
    BY <1>2, OtherTurned
  <2>2. R \subseteq abandoned
    <3>1. CloseAllF(R) \in Pending
      BY <2>1, TopFacts DEF TypeInv, TypeOK
    <3> QED
      BY <3>1 DEF OwedInv
  <2>3. CASE Turned(CloseAllF(R), {})
    BY <1>1, <2>0, <2>3, SilentFrames, OwedIdles
  <2>4. ASSUME NEW r \in R, Turned(CloseAllF(R), {DisconnectF(r, FALSE), CloseAllF(R \ {r})})
        PROVE  OwedInv'
    <3>1. PICK x, y, new : /\ x = DisconnectF(r, FALSE) /\ y = CloseAllF(R \ {r})
                           /\ new = {x, y}
      OBVIOUS
    <3>2. \A s : DisconnectF(s, TRUE) # x /\ DisconnectF(s, TRUE) # y
      BY <3>1, FrameKinds
    <3>3. \A s \in Requests : DisconnectF(s, TRUE) \notin new
      BY <3>1, <3>2
    <3>4. Turned(CloseAllF(R), new)
      BY <2>4, <3>1
    <3>5. \A s : DisconnectF(s, FALSE) \in new => s \in abandoned
      <4>1. \A s : DisconnectF(s, FALSE) # y /\ (DisconnectF(s, FALSE) = x => s = r)
        BY <3>1, FrameKinds
      <4> QED
        BY <2>2, <3>1, <4>1
    <3>6. \A S : CloseAllF(S) \in new => S \subseteq abandoned
      <4>1. \A S : CloseAllF(S) # x /\ (CloseAllF(S) = y => S = R \ {r})
        BY <3>1, FrameKinds
      <4> QED
        BY <2>2, <3>1, <4>1
    <3> QED
      BY <1>1, <2>0, <3>3, <3>4, <3>5, <3>6, SilentFrames, OwedStays
  <2> QED
    BY <2>1, <2>3, <2>4
<1>3. ASSUME NEW r \in Requests, UserCloses(r) PROVE OwedInv'
  <2>1. answer[r] # "none"
    BY <1>3 DEF UserCloses
  <2>2. PICK new : Turned(RunF, new) /\ new = {DisconnectF(r, FALSE)}
    BY <1>3, UserTurned
  <2>3. /\ \A s \in Requests : DisconnectF(s, TRUE) \notin new
        /\ \A s \in Requests : DisconnectF(s, FALSE) \in new => s = r
        /\ \A R \in SUBSET Requests : CloseAllF(R) \notin new
    BY <2>2, FrameKinds
  <2> QED
    BY <1>1, <2>1, <2>2, <2>3, SilentFrames, OwedStays
<1>4. ASSUME NEW R, R \subseteq abandoned', Turned(RunF, {CloseAllF(R)}) PROVE OwedInv'
  <2>1. PICK x, new : x = CloseAllF(R) /\ new = {x}
    OBVIOUS
  <2>2. \A s : DisconnectF(s, TRUE) # x /\ DisconnectF(s, FALSE) # x
    BY <2>1, FrameKinds
  <2>3. \A S : CloseAllF(S) = x => S = R
    BY <2>1, FrameKinds
  <2>4. Turned(RunF, new)
    BY <1>4, <2>1
  <2>5. /\ \A s \in Requests : DisconnectF(s, TRUE) \notin new
        /\ \A s \in Requests : DisconnectF(s, FALSE) \notin new
        /\ \A S \in SUBSET Requests : CloseAllF(S) \in new => S \subseteq abandoned'
    BY <1>4, <2>1, <2>2, <2>3
  <2> QED
    BY <1>1, <2>4, <2>5, SilentFrames, OwedStays
<1>5. ASSUME NEW p \in Peers, HangUp(p) PROVE OwedInv'
  BY <1>4, <1>5, UserTurned DEF HangUp
<1>6. CASE EnvStep /\ CloseConnections
  BY <1>4, <1>6, EnvTurned DEF CloseConnections
<1> QED
  BY <1>2, <1>3, <1>5, <1>6

(* A dial that is refused or denied is told; one that is accepted is queued. *)
LEMMA DialKeepsOwed ==
  ASSUME TypeInv, PlaceInv, OwedInv, NEW r \in Requests,
         DialRefused(r) \/ DialDenied(r) \/ DialQueued(r)
  PROVE  OwedInv'
<1>1. call[r] = None /\ UNCHANGED <<answer, shaking, conn, abandoned>>
  BY DEF DialRefused, DialDenied, DialQueued, connVars
<1>2. PICK c \in Calls :
        /\ call' = [call EXCEPT ![r] = c]
        /\ \/ queue' = queue /\ ~DialQueued(r)
           \/ DialQueued(r) /\ queue' = [queue EXCEPT ![c.peer] = Append(@, r)]
  BY DEF DialRefused, DialDenied, DialQueued, queueVars
<1>3. /\ call'[r] = c /\ c.peer \in Peers
      /\ \A s \in Requests : s # r => call'[s] = call[s]
  BY <1>2, PeerTypes DEF TypeInv, TypeOK
<1>4. \A p \in Peers : Elems(queue[p]) \subseteq Elems(queue'[p])
  <2> SUFFICES ASSUME NEW p \in Peers PROVE Elems(queue[p]) \subseteq Elems(queue'[p])
    OBVIOUS
  <2>1. /\ queue'[p] = queue[p] \/ queue'[p] = Append(queue[p], r)
        /\ queue[p] \in Seq(Requests)
    BY <1>2 DEF TypeInv, TypeOK
  <2>2. Elems(Append(queue[p], r)) = Elems(queue[p]) \cup {r}
    BY <2>1, AppendElems
  <2> QED
    BY <2>1, <2>2
<1>5. DialQueued(r) => Placed(r)'
  <2> SUFFICES ASSUME DialQueued(r) PROVE Placed(r)'
    OBVIOUS
  <2>1. queue'[c.peer] = Append(queue[c.peer], r)
    BY <1>2, <1>3 DEF TypeInv, TypeOK, DialQueued
  <2>2. r \in Elems(queue'[c.peer])
    BY <1>3, <2>1, AppendElems DEF TypeInv, TypeOK
  <2> QED
    BY <1>3, <2>2 DEF Placed, Queued, PeerOf
<1>6. PICK new : /\ Turned(RunF, new) /\ \A f \in new : Subjects(f) = {}
                 /\ DialQueued(r) \/ Told(r)'
  <2>1. ASSUME NEW a \in {"aborted", "denied"}, Turned(RunF, {CallbackF(r, a)})
        PROVE  Told(r)' /\ \A f \in {CallbackF(r, a)} : Subjects(f) = {}
    BY <2>1, ToldNow, FrameSubjects
  <2>2. \/ \E a \in {"aborted", "denied"} : Turned(RunF, {CallbackF(r, a)})
        \/ DialQueued(r) /\ Turned(RunF, {})
    BY UserTurned
  <2> QED
    BY <2>1, <2>2
<1>7. ASSUME NEW s \in Requests, s # r
      PROVE  Unanswered(s)' => Unanswered(s) /\ (Placed(s) => Placed(s)')
  <2> SUFFICES ASSUME Unanswered(s)' PROVE Unanswered(s) /\ (Placed(s) => Placed(s)')
    OBVIOUS
  <2>1. call'[s] = call[s] /\ Unanswered(s) /\ PeerOf(s) \in Peers /\ PeerOf(s)' = PeerOf(s)
    BY <1>1, <1>3, <1>7, PeerTypes DEF Unanswered, Issued, PeerOf, TypeInv, TypeOK
  <2> QED
    BY <1>1, <1>4, <2>1 DEF Placed, Queued, Unfinished, HungUp
<1>8. \A s \in Requests : Unfinished(s)' <=> Unfinished(s)
  BY <1>1 DEF Unfinished
<1> QED
  BY <1>1, <1>5, <1>6, <1>7, <1>8, SilentFrames, OwedPlainStep

(* Taking the first request off a queue leaves every other one where it is. *)
LEMMA OthersStayQueued ==
  ASSUME TypeInv, NEW p \in Peers, queue[p] # <<>>, UNCHANGED call,
         queue' = [queue EXCEPT ![p] = Tail(@)], NEW s \in Requests, s # Head(queue[p]),
         call[s] # None, Queued(s)
  PROVE  Queued(s)'
<1>1. PeerOf(s) \in Peers /\ PeerOf(s)' = PeerOf(s)
  BY PeerTypes DEF Issued, PeerOf, TypeInv, TypeOK
<1>2. /\ queue'[p] = Tail(queue[p]) /\ \A q \in Peers : q # p => queue'[q] = queue[q]
      /\ Elems(queue[p]) = {Head(queue[p])} \cup Elems(Tail(queue[p]))
  BY RestElems DEF TypeInv, TypeOK
<1> QED
  BY <1>1, <1>2 DEF Queued

(* The request that is taken off a queue is told, attempted or shakes hands. *)
LEMMA TakenOffOwed ==
  ASSUME TypeInv, PlaceInv, OwedInv, UNCHANGED <<call, answer, abandoned>>,
         NEW p \in Peers, queue[p] # <<>>,
         NEW r \in Requests, r = Head(queue[p]), queue' = [queue EXCEPT ![p] = Tail(@)],
         \A s \in Requests : s # r => conn'[s] = conn[s],
         \A s \in Requests : s # r => (s \in shaking' <=> s \in shaking),
         NEW g, NEW new, Turned(g, new), Silent(g),
         Placed(r)' \/ Told(r)',
         DisconnectF(r, TRUE) \in new => Told(r)',
         \A s \in Requests : s # r => DisconnectF(s, TRUE) \notin new,
         \A s \in Requests : DisconnectF(s, FALSE) \notin new,
         \A R \in SUBSET Requests : CloseAllF(R) \in new => R = {}
  PROVE  OwedInv'
<1>1. DisconnectF(r, TRUE) \notin Pending
  <2>1. r \in Elems(queue[p])
    BY RestElems DEF TypeInv, TypeOK
  <2>2. conn[r] = "none"
    BY <2>1 DEF PlaceInv, QueuesHold
  <2>3. Subjects(DisconnectF(r, TRUE)) = {r}
    BY FrameSubjects
  <2> QED
    BY <2>2, <2>3 DEF PlaceInv, SubjectsHold
<1>2. ASSUME NEW s \in Requests, s # r, Unanswered(s)'
      PROVE  Unanswered(s) /\ (Placed(s) => Placed(s)')
  <2>1. Unanswered(s) /\ call[s] # None
    BY <1>2 DEF Unanswered
  <2>2. Queued(s) => Queued(s)'
    BY <1>2, <2>1, OthersStayQueued
  <2> QED
    BY <1>2, <2>1, <2>2 DEF Placed, Unfinished, HungUp
<1>3. \A s \in Requests :
        Unanswered(s)' => (Unanswered(s) /\ (Placed(s) => Placed(s)')) \/ Placed(s)' \/ Told(s)'
  BY <1>2
<1>4. \A s \in Requests : DisconnectF(s, TRUE) \in Pending /\ Unfinished(s)' => Unfinished(s)
  BY <1>1 DEF Unfinished
<1>5. \A s \in Requests : DisconnectF(s, TRUE) \in new => Told(s)' \/ ~Unfinished(s)'
  OBVIOUS
<1> QED
  BY <1>3, <1>4, <1>5, OwedStep

(* _run and abort take a request off its queue. *)
LEMMA QueueStepKeepsOwed ==
  ASSUME TypeInv, PlaceInv, OwedInv, NEW p \in Peers,
         QueueRunReuses(p) \/ QueueRunCreates(p) \/ AbortNext(p)
  PROVE  OwedInv'
<1>1. /\ queue[p] # <<>> /\ UNCHANGED <<call, answer, abandoned>>
      /\ queue' = [queue EXCEPT ![p] = Tail(@)]
  BY DEF QueueRunReuses, QueueRunCreates, AbortNext, requestVars
<1>2. PICK r \in Requests : r = Head(queue[p])
  BY <1>1 DEF TypeInv, TypeOK
<1>3. /\ \A s \in Requests : s # r => conn'[s] = conn[s]
      /\ \A s \in Requests : s # r => (s \in shaking' <=> s \in shaking)
  BY <1>2
     DEF QueueRunReuses, QueueRunCreates, AbortNext, requestVars, connVars, StartShake,
         TypeInv, TypeOK
<1>4. ASSUME NEW g, Silent(g), NEW new \in SUBSET {CallbackF(r, "error"), DisconnectF(r, TRUE)},
             Turned(g, new), CallbackF(r, "error") \in new \/ (new = {} /\ Placed(r)')
      PROVE  OwedInv'
  <2>1. CallbackF(r, "error") \in new => Told(r)'
    BY <1>4, ToldNow
  <2>2. /\ \A s \in Requests : s # r => DisconnectF(s, TRUE) \notin new
        /\ \A s \in Requests : DisconnectF(s, FALSE) \notin new
        /\ \A R \in SUBSET Requests : CloseAllF(R) \notin new
    BY FailureFrames
  <2>3. DisconnectF(r, TRUE) \in new => Told(r)'
    BY <1>4, <2>1
  <2>4. Placed(r)' \/ Told(r)'
    BY <1>4, <2>1
  <2> QED
    BY <1>1, <1>2, <1>3, <1>4, <2>2, <2>3, <2>4, TakenOffOwed
<1>5. ASSUME NEW g, Silent(g), NEW new, Turned(g, new), \A f \in new : Subjects(f) = {},
             Placed(r)' \/ Told(r)'
      PROVE  OwedInv'
  <2>1. \A s : /\ Subjects(DisconnectF(s, TRUE)) = {s} /\ Subjects(DisconnectF(s, FALSE)) = {s}
               /\ Subjects(CloseAllF(s)) = s
    BY FrameSubjects
  <2>2. /\ \A s : DisconnectF(s, TRUE) \notin new /\ DisconnectF(s, FALSE) \notin new
        /\ \A R \in SUBSET Requests : CloseAllF(R) \in new => R = {}
    BY <1>5, <2>1
  <2> QED
    BY <1>1, <1>2, <1>3, <1>5, <2>2, TakenOffOwed
<1>6. CASE QueueRunReuses(p)
  <2>1. Turned(QueueRunF(p), Elems(ProtocolCallback(r)))
    BY <1>2, <1>6, QueueRunTurned
  <2>2. \A f \in Elems(ProtocolCallback(r)) : Subjects(f) = {}
    BY PieceElems, FrameSubjects DEF ProtocolCallback
  <2>3. Placed(r)' \/ Told(r)'
    <3>1. CASE call[r].kind.protocol
      BY <1>2, <1>6, <3>1 DEF QueueRunReuses, StartShake, Placed
    <3>2. CASE ~call[r].kind.protocol
      <4>1. CallbackF(r, "ok") \in Elems(ProtocolCallback(r))
        BY <3>2, PieceElems DEF ProtocolCallback
      <4> QED
        BY <2>1, <4>1, ToldNow
    <3> QED
      BY <3>1, <3>2
  <2> QED
    BY <1>5, <2>1, <2>2, <2>3, SilentFrames
<1>7. CASE QueueRunCreates(p)
  <2>1. PICK x, y : x = CallbackF(r, "error") /\ y = DisconnectF(r, TRUE)
    OBVIOUS
  <2>2. \/ Turned(QueueRunF(p), {x}) \/ Turned(QueueRunF(p), {x, y})
        \/ conn'[r] = "dialing" /\ Turned(QueueRunF(p), {})
    BY <1>2, <1>7, <2>1, QueueRunTurned
  <2>3. conn'[r] = "dialing" => Placed(r)'
    BY DEF Placed, Unfinished
  <2>4. \E new \in SUBSET {x, y} : Turned(QueueRunF(p), new) /\ (x \in new \/ (new = {} /\ Placed(r)'))
    BY <2>2, <2>3
  <2> QED
    BY <1>4, <2>1, <2>4, SilentFrames
<1>8. CASE AbortNext(p)
  <2>1. Turned(RunF, {CallbackF(r, "aborted")})
    BY <1>2, <1>8, AbortTurned
  <2>2. PICK new : Turned(RunF, new) /\ CallbackF(r, "aborted") \in new /\ \A f \in new : Subjects(f) = {}
    BY <2>1, FrameSubjects
  <2>3. Told(r)'
    BY <2>2, ToldNow
  <2> QED
    BY <1>5, <2>2, <2>3, SilentFrames
<1> QED
  BY <1>6, <1>7, <1>8

(* A disconnection: of an attempt that failed, whose request is told; or of  *)
(* a connection that a hang-up, or the user who was given it, closes.        *)
LEMMA DisconnectKeepsOwed ==
  ASSUME TypeInv, OwedInv, NEW r \in Requests, DisconnectMuxed(r) \/ DisconnectNow(r)
  PROVE  OwedInv'
<1>1. PICK b \in BOOLEAN : Top(DisconnectF(r, b)) /\ Turned(DisconnectF(r, b), {})
  BY OtherTurned
<1>2. /\ UNCHANGED <<call, answer, shaking, queue, abandoned>>
      /\ conn'[r] \in {"closing", "late", "closed"}
      /\ \A s \in Requests : s # r => conn'[s] = conn[s]
  BY DEF DisconnectMuxed, DisconnectNow, requestVars, queueVars, TypeInv, TypeOK
<1>3. ASSUME NEW s \in Requests, s # r
      PROVE  /\ Unanswered(s)' <=> Unanswered(s)
             /\ Placed(s)' <=> Placed(s)
             /\ Unfinished(s)' <=> Unfinished(s)
  BY <1>2, <1>3 DEF Unanswered, Placed, Queued, PeerOf, Unfinished, HungUp
<1>4. ~Unfinished(r)' /\ (Unanswered(r)' => Unanswered(r))
  BY <1>2 DEF Unfinished, Unanswered
<1>5. Unanswered(r)' /\ Placed(r) => Placed(r)' \/ Told(r)'
  <2> SUFFICES ASSUME Unanswered(r)', Placed(r) PROVE Placed(r)' \/ Told(r)'
    OBVIOUS
  <2>1. DisconnectF(r, b) \in Pending
    BY <1>1, TopFacts DEF TypeInv, TypeOK
  <2>2. CASE Queued(r) \/ r \in shaking
    BY <1>2, <2>2 DEF Placed, Queued, PeerOf
  <2>3. CASE HungUp(r) /\ r \in abandoned
    <3>1. conn'[r] \in {"late", "closed"}
      BY <1>2, <2>3 DEF HungUp, DisconnectMuxed, DisconnectNow, TypeInv, TypeOK
    <3> QED
      BY <1>2, <2>3, <3>1 DEF Placed, HungUp
  <2>4. CASE Unfinished(r) /\ b = TRUE
    <3>1. Told(r)
      BY <1>4, <2>1, <2>4 DEF OwedInv, Unanswered
    <3> QED
      BY <1>1, <3>1, SilentFrames, StaysTold
  <2>5. CASE Unfinished(r) /\ b = FALSE
    <3>1. r \in abandoned'
      BY <1>2, <1>4, <2>1, <2>5 DEF OwedInv, Unanswered
    <3>2. conn'[r] \in {"late", "closed"}
      BY <2>5 DEF Unfinished, DisconnectMuxed, DisconnectNow, TypeInv, TypeOK
    <3> QED
      BY <3>1, <3>2 DEF Placed, HungUp
  <2> QED
    BY <2>2, <2>3, <2>4, <2>5 DEF Placed
<1>6. PICK new : Turned(DisconnectF(r, b), new) /\ new = {}
  BY <1>1
<1>7. \A f \in new : Subjects(f) = {}
  BY <1>6
<1>8. Silent(DisconnectF(r, b))
  BY SilentFrames
<1>9. Unanswered(r)' => (Unanswered(r) /\ (Placed(r) => Placed(r)')) \/ Placed(r)' \/ Told(r)'
  BY <1>4, <1>5
<1>10. /\ UNCHANGED <<answer, abandoned>>
       /\ \A s \in Requests : Unfinished(s)' => Unfinished(s)
  BY <1>2, <1>3, <1>4
<1> QED
  BY <1>3, <1>6, <1>7, <1>8, <1>9, <1>10, OwedPlainStep

(* An attempt that goes on or succeeds, a handshake that ends, a connection  *)
(* that ends late.                                                           *)
LEMMA ProgressKeepsOwed ==
  ASSUME TypeInv, OwedInv, EnvStep, NEW r \in Requests,
         \/ TransportConnects(r) \/ MuxerEnds(r) \/ LateConnect(r)
         \/ Muxes(r) \/ Unmuxes(r) \/ ShakeEnds(r)
  PROVE  OwedInv'
<1>1. /\ UNCHANGED <<call, answer, queue, abandoned>>
      /\ \A s \in Requests : s # r => conn'[s] = conn[s]
      /\ \A s \in Requests : s # r => (s \in shaking' <=> s \in shaking)
  BY DEF TransportConnects, MuxerEnds, LateConnect, Muxes, Unmuxes, ShakeEnds, StartShake,
         requestVars, queueVars, connVars, TypeInv, TypeOK
<1>2. ASSUME NEW s \in Requests, s # r, Unanswered(s)'
      PROVE  Unanswered(s) /\ (Placed(s) => Placed(s)')
  BY <1>1, <1>2 DEF Unanswered, Placed, Queued, PeerOf, Unfinished, HungUp
<1>3. \A s \in Requests : DisconnectF(s, TRUE) \notin Pending
  BY EnvTurned
<1>4. PICK new : /\ Turned(RunF, new) /\ \A f \in new : Subjects(f) = {}
                 /\ (Placed(r) => Placed(r)') \/ Told(r)'
  <2>1. CASE TransportConnects(r) \/ MuxerEnds(r) \/ LateConnect(r)
    <3>1. Turned(RunF, {})
      BY <2>1, EnvTurned DEF TransportConnects, MuxerEnds, LateConnect
    <3>2. Placed(r) => Placed(r)'
      BY <1>1, <2>1
         DEF TransportConnects, MuxerEnds, LateConnect, Placed, Queued, PeerOf, Unfinished, HungUp,
             requestVars, TypeInv, TypeOK
    <3> QED
      BY <3>1, <3>2
  <2>2. CASE Muxes(r) \/ Unmuxes(r)
    <3>1. Turned(RunF, Elems(ProtocolCallback(r)))
      BY <2>2, EnvTurned
    <3>2. \A f \in Elems(ProtocolCallback(r)) : Subjects(f) = {}
      BY PieceElems, FrameSubjects DEF ProtocolCallback
    <3>3. CASE call[r].kind.protocol
      BY <2>2, <3>1, <3>2, <3>3 DEF Muxes, Unmuxes, StartShake, Placed
    <3>4. CASE ~call[r].kind.protocol
      <4>1. CallbackF(r, "ok") \in Elems(ProtocolCallback(r))
        BY <3>4, PieceElems DEF ProtocolCallback
      <4> QED
        BY <3>1, <3>2, <4>1, ToldNow
    <3> QED
      BY <3>3, <3>4
  <2>3. CASE ShakeEnds(r)
    <3>1. PICK a \in {"ok", "error"} : Turned(RunF, {CallbackF(r, a)})
      BY <2>3, EnvTurned
    <3>2. PICK new : Turned(RunF, new) /\ CallbackF(r, a) \in new /\ \A f \in new : Subjects(f) = {}
      BY <3>1, FrameSubjects
    <3>3. Told(r)'
      BY <3>2, ToldNow
    <3> QED
      BY <3>2, <3>3
  <2> QED
    BY <2>1, <2>2, <2>3
<1>5. \A s \in Requests :
        Unanswered(s)' => (Unanswered(s) /\ (Placed(s) => Placed(s)')) \/ Placed(s)' \/ Told(s)'
  <2>1. Unanswered(r)' => Unanswered(r)
    BY <1>1 DEF Unanswered
  <2> QED
    BY <1>2, <1>4, <2>1
<1> QED
  BY <1>1, <1>3, <1>4, <1>5, SilentFrames, OwedPlainStep

(* Every other step. *)
LEMMA OthersKeepOwed ==
  ASSUME TypeInv, OwedInv,
         \/ Run \/ StopNext \/ CleanNext \/ UserReturn
         \/ \E p \in Peers : QueueRunStops(p) \/ AbortEnds(p) \/ Delete(p)
         \/ \E r \in Requests : OnError(r)
         \/ UserTurn \/ \E p \in Peers : ClearDenylist(p)
         \/ EnvStep /\ \/ \E r \in Requests : Identified(r)
                       \/ \E p \in Peers : \/ InboundMuxes(p) \/ InboundCloses(p)
                                           \/ InboundEnds(p) \/ DenyExpires(p)
                       \/ Clean \/ ManagerStop \/ ManagerStart
  PROVE  OwedInv'
<1>1. UNCHANGED <<call, answer, shaking, queue, conn, abandoned>>
  BY DEF Run, StopNext, CleanNext, UserReturn, QueueRunStops, AbortEnds, Delete, OnError, UserTurn,
         ClearDenylist, Identified, InboundMuxes, InboundCloses, InboundEnds, DenyExpires, Clean,
         ManagerStop, ManagerStart, requestVars, queueVars, connVars
<1>2. \E g : Turned(g, {}) /\ Silent(g)
  <2>1. CASE Run \/ \E p \in Peers : QueueRunStops(p) \/ AbortEnds(p)
    BY <2>1, RunTurned, QueueRunTurned, AbortTurned, SilentFrames
  <2>2. CASE CleanNext \/ UserReturn
    BY <2>2, OtherTurned, SilentFrames
  <2>3. CASE (\E p \in Peers : Delete(p)) \/ \E r \in Requests : OnError(r)
    BY <2>3, OtherTurned, SilentFrames
  <2>4. CASE StopNext
    <3>1. PICK P : \/ Turned(StopF(P), {})
                   \/ \E p \in P : Turned(StopF(P), {AbortF(p), StopF(P \ {p})})
      BY <2>4, OtherTurned
    <3>2. ASSUME NEW p, Turned(StopF(P), {AbortF(p), StopF(P \ {p})}) PROVE Turned(StopF(P), {})
      <4>1. \A f \in {AbortF(p), StopF(P \ {p})} : Subjects(f) = {}
        BY FrameSubjects
      <4> QED
        BY <3>2, <4>1, TurnedLess
    <3> QED
      BY <3>1, <3>2, SilentFrames
  <2>5. CASE UserTurn \/ \E p \in Peers : ClearDenylist(p)
    BY <2>5, UserTurned, SilentFrames
  <2>6. CASE EnvStep /\ ManagerStop
    <3>1. Turned(RunF, {StopF(queues)})
      BY <2>6, EnvTurned
    <3>2. \A f \in {StopF(queues)} : Subjects(f) = {}
      BY FrameSubjects
    <3>3. Turned(RunF, {})
      BY <3>1, <3>2, TurnedLess
    <3> QED
      BY <3>3, SilentFrames
  <2>7. CASE EnvStep /\ (Clean \/ agenda' = agenda)
    BY <2>7, EnvTurned, SilentFrames
  <2> QED
    BY <2>1, <2>2, <2>3, <2>4, <2>5, <2>6, <2>7
       DEF Identified, InboundMuxes, InboundCloses, InboundEnds, DenyExpires, ManagerStart
<1> QED
  BY <1>1, <1>2, OwedIdles

(* A request that was issued and not answered is queued, attempted, shaking  *)
(* hands, closed by a hang-up or a stop, or about to be called back: no      *)
(* step, of a queue, of the manager, of a connection or of the user, forgets *)
(* it.                                                                       *)
THEOREM OwedInvariant == Spec => []OwedInv
<1>1. Init => OwedInv
  <2> SUFFICES ASSUME Init PROVE OwedInv
    OBVIOUS
  <2>1. Pending = {} /\ \A r \in Requests : ~Unanswered(r)
    BY PieceElems DEF Init, Unanswered, Pending
  <2> QED
    BY <2>1 DEF OwedInv
<1>2. TypeInv /\ PlaceInv /\ OwedInv /\ [Next]_vars => OwedInv'
  <2> SUFFICES ASSUME TypeInv, PlaceInv, OwedInv, [Next]_vars PROVE OwedInv'
    OBVIOUS
  <2>1. CASE UNCHANGED vars
    BY <2>1 DEF vars, requestVars, queueVars, connVars, OwedInv, Unanswered, Told, Placed, Queued,
                PeerOf, Unfinished, HungUp, Pending
  <2>2. CASE TurnStep
    <3>1. CASE Callback \/ CloseAll
      BY <3>1, CallbackKeepsOwed, ClosingKeepsOwed
    <3>2. ASSUME NEW p \in Peers, QueueRunReuses(p) \/ QueueRunCreates(p) \/ AbortNext(p) PROVE OwedInv'
      BY <3>2, QueueStepKeepsOwed
    <3>3. ASSUME NEW r \in Requests, DisconnectMuxed(r) \/ DisconnectNow(r) PROVE OwedInv'
      BY <3>3, DisconnectKeepsOwed
    <3> QED
      BY <2>2, <3>1, <3>2, <3>3, OthersKeepOwed DEF TurnStep, PeerStep, RequestStep
  <2>3. CASE UserStep
    BY <2>3, DialKeepsOwed, ClosingKeepsOwed, OthersKeepOwed DEF UserStep
  <2>4. CASE EnvStep
    <3>1. ASSUME NEW r \in Requests, AttemptFails(r) \/ IdentifyFails(r) \/ MuxerCloses(r) PROVE OwedInv'
      BY <2>4, <3>1, FailureKeepsOwed
    <3>2. ASSUME NEW r \in Requests,
                 \/ TransportConnects(r) \/ MuxerEnds(r) \/ LateConnect(r)
                 \/ Muxes(r) \/ Unmuxes(r) \/ ShakeEnds(r)
          PROVE  OwedInv'
      BY <2>4, <3>2, ProgressKeepsOwed
    <3> QED
      BY <2>4, <3>1, <3>2, ClosingKeepsOwed, OthersKeepOwed DEF EnvStep, AttemptStep
  <2> QED
    BY <2>1, <2>2, <2>3, <2>4 DEF Next
<1> QED
  BY <1>1, <1>2, TypeInvariant, PlaceInvariant, PTL DEF Spec

(* Between turns a request that was never answered is in exactly one place   *)
(* from which an answer can come, at a peer that runs or waits for a slot    *)
(* when it is queued, and only a hang-up or a stop that found its connection *)
(* tracked loses one -- where no callback resets a denylist, so that no      *)
(* queue is dropped with a request in it.                                    *)
THEOREM AnswerIsOwedHolds ==
  ASSUME "clearDenylist" \notin NestedCalls
  PROVE  Spec => []AnswerIsOwed
<1>1. TypeInv /\ PlaceInv /\ AttendedInv /\ OwedInv => AnswerIsOwed
  <2> SUFFICES ASSUME TypeInv, PlaceInv, AttendedInv, OwedInv, Quiet,
                      NEW r \in Requests, call[r] # None, answer[r] = "none"
               PROVE  LET p == PeerOf(r)
                      IN \/ /\ Queued(r) /\ conn[r] = "none" /\ r \notin shaking
                            /\ p \in running \cup Elems(normal) \cup Elems(cold)
                         \/ ~Queued(r) /\ Unfinished(r) /\ r \notin shaking
                         \/ ~Queued(r) /\ r \in shaking
                         \/ ~Queued(r) /\ HungUp(r) /\ r \in abandoned
    BY DEF AnswerIsOwed
  <2>1. Pending = {} /\ PeerOf(r) \in Peers
    BY PendingFacts, PeerTypes DEF Quiet, Issued, PeerOf, TypeInv, TypeOK
  <2>2. Placed(r)
    BY <2>1 DEF OwedInv, Unanswered, Told
  <2>3. ASSUME Queued(r)
        PROVE  /\ conn[r] = "none" /\ r \notin shaking
               /\ PeerOf(r) \in running \cup Elems(normal) \cup Elems(cold)
    <3>1. queue[PeerOf(r)] # <<>>
      BY <2>3, PieceElems DEF Queued
    <3>2. Attended(PeerOf(r))
      BY <2>1, <3>1 DEF AttendedInv
    <3>3. PeerOf(r) \in running \cup Waiting
      BY <2>1, <3>2 DEF Attended
    <3> QED
      BY <2>1, <2>3, <3>3 DEF PlaceInv, QueuesHold, Queued, Waiting
  <2>4. r \in shaking => ~Unfinished(r)
    BY DEF PlaceInv, PlacesHold
  <2> QED
    BY <2>2, <2>3, <2>4 DEF Placed
<1> QED
  BY <1>1, TypeInvariant, PlaceInvariant, AttendedInvariant, OwedInvariant, PTL
=============================================================================
