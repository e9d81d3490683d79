-------------------------- MODULE ConnectionProofs --------------------------
(***************************************************************************)
(* Proofs about the outgoing connections, for any number of them, any      *)
(* transports and whatever listeners call: types, what is tracked, when    *)
(* the dial queue is resumed, what the world knows of the peer, and that   *)
(* the connections keep the life cycle module Dialer gives them.           *)
(***************************************************************************)
EXTENDS ConnectionFSM, ArrayProofs, SequenceTheorems, FiniteSetTheorems, TLAPS

(* The transitions that run as soon as they are fired. *)
Eager == {"dial", "done", "stop", "privatize", "encrypt", "upgrade"}

Closing == {"DISCONNECTING", "DISCONNECTED"}

(* Whose queue knows, or is told next, that the attempt is over. *)
Told == resumed \cup {c \in Conns : Top(EmitF(c, "close"))}

(* What a turn may put off: closes, disconnects, identify, the clean-up after *)
(* a 'close', and the rest of a listener.  All else runs as soon as it is due. *)
PutOff ==
  {StateF(c, "disconnect") : c \in created} \cup {CloseF(c, err) : c \in created, err \in BOOLEAN}
  \cup {IdentifyF(c) : c \in created} \cup {RemoveAllF(c) : c \in Told} \cup {ListenerF}

Due ==
  {StateF(c, ev) : c \in created, ev \in Eager \cup {"disconnect"}}
  \cup {EmitF(c, name) : c \in created, name \in Heard}
  \cup {CloseF(c, err) : c \in created, err \in BOOLEAN}
  \cup {IdentifyF(c) : c \in created} \cup {RemoveAllF(c) : c \in resumed} \cup {ListenerF}

AgendaInv ==
  /\ agenda \in Seq(Frames)
  /\ agenda # <<>> => Head(agenda) \in Due /\ Rest \in Seq(PutOff)

(* Nothing has happened to a connection that was not dialed yet. *)
Fresh(c) ==
  /\ state[c] = "DISCONNECTED" /\ op[c] = "none" /\ ending[c] = 0
  /\ c \notin hasMuxer \cup muxerOpen \cup identifying \cup resumed

(* How far a connection is, what of its attempt is in flight, and whether    *)
(* the dial queue heard of its end or hears of it next.                     *)
Stage(c) ==
  /\ c \notin created \/ Top(StateF(c, "dial")) => Fresh(c)
  /\ c \in resumed => state[c] \notin InFlight
  /\ c \in created \ resumed =>
       /\ {"muxed", "unmuxed", "close"} \subseteq listeners[c]
       /\ state[c] = "DISCONNECTED" => Top(StateF(c, "dial")) \/ Top(EmitF(c, "close"))
       /\ state[c] = "MUXED" => Top(EmitF(c, "muxed"))
       /\ state[c] = "CONNECTED" => Top(EmitF(c, "unmuxed"))
       /\ state[c] = "DISCONNECTING" => Top(StateF(c, "done"))
  /\ Top(EmitF(c, "muxed")) => state[c] = "MUXED"
  /\ Top(EmitF(c, "unmuxed")) => state[c] = "CONNECTED"
  /\ Top(EmitF(c, "close")) => state[c] = "DISCONNECTED"
  /\ state[c] \in InFlight =>
       /\ op[c] = "transport" => state[c] = "DIALING"
       /\ op[c] = "protect" => state[c] = "PRIVATIZING"
       /\ op[c] = "encrypt" => state[c] = "ENCRYPTING"
       /\ op[c] = "upgrade" => state[c] = "UPGRADING"
       /\ Top(StateF(c, "done")) => op[c] = "none"
       /\ c \in hasMuxer => Top(StateF(c, "done")) /\ state[c] = "UPGRADING"
  /\ ending[c] > 0 => state[c] \in Closing
  /\ state[c] = "DISCONNECTING" => c \in hasMuxer \/ Top(StateF(c, "done"))

(* The peer of a connection past its transport dial is connected, and one    *)
(* of whom nothing is tracked is not, or is disconnected again next.        *)
PeerInv ==
  /\ \A c \in created :
       /\ state[c] \notin Closing \cup {"DIALING"} => peerUp
       /\ state[c] = "DISCONNECTING" => peerUp \/ Top(StateF(c, "done"))
       /\ state[c] = "DIALING" /\ Top(StateF(c, "done")) => peerUp
  /\ tracked = <<>> /\ peerUp =>
       \E c \in created : Top(StateF(c, "done")) /\ state[c] = "DISCONNECTED"

TrackInv ==
  /\ tracked \in Seq(created) /\ IsInjective(tracked)
  /\ \A c \in created :
       IsTracked(c) <=> state[c] # "DISCONNECTED" \/ Top(StateF(c, "dial"))

(* The world knows of a muxed connection once its dial queue does.           *)
MuxInv ==
  /\ \A c \in resumed : state[c] = "MUXED" => muxHeard = "established"
  /\ muxHeard = "established" => tracked # <<>>

StageInv == \A c \in Conns : Stage(c)


-----------------------------------------------------------------------------
(* Turns.                                                                   *)

(* No two functions of a turn are the same. *)
LEMMA FramesDiffer ==
  /\ \A c, d, x, y : StateF(c, x) = StateF(d, y) => c = d /\ x = y
  /\ \A c, d, x, y : EmitF(c, x) = EmitF(d, y) => c = d /\ x = y
  /\ \A c, d, x, y : CloseF(c, x) = CloseF(d, y) => c = d /\ x = y
  /\ \A c, d : /\ RemoveAllF(c) = RemoveAllF(d) => c = d
               /\ IdentifyF(c) = IdentifyF(d) => c = d
  /\ \A c, d, x, y : /\ StateF(c, x) # EmitF(d, y) /\ StateF(c, x) # CloseF(d, y)
                     /\ EmitF(c, x) # CloseF(d, y)
  /\ \A c, d, x : /\ StateF(c, x) # IdentifyF(d) /\ StateF(c, x) # RemoveAllF(d)
                  /\ EmitF(c, x) # IdentifyF(d) /\ EmitF(c, x) # RemoveAllF(d)
                  /\ CloseF(c, x) # IdentifyF(d) /\ CloseF(c, x) # RemoveAllF(d)
                  /\ IdentifyF(c) # RemoveAllF(d)
  /\ \A c, x : /\ StateF(c, x) # ListenerF /\ EmitF(c, x) # ListenerF
               /\ CloseF(c, x) # ListenerF /\ IdentifyF(c) # ListenerF
               /\ RemoveAllF(c) # ListenerF
  BY DEF StateF, EmitF, CloseF, IdentifyF, RemoveAllF, ListenerF

(* The table of the state machine, read backwards: what was fired in which   *)
(* state when a state is entered.                                           *)
LEMMA Entering ==
  ASSUME TypeOK, NEW c \in Conns, NEW s, Enters(c, s)
  PROVE  /\ state' = [state EXCEPT ![c] = s] /\ UNCHANGED <<created, listeners>>
         /\ s \in States
         /\ \E ev \in Eager \cup {"disconnect"} : Top(StateF(c, ev))
         /\ s = "DIALING" => Top(StateF(c, "dial")) /\ state[c] = "DISCONNECTED"
         /\ s = "DIALED" => Top(StateF(c, "done")) /\ state[c] = "DIALING"
         /\ s = "PRIVATIZING" => Top(StateF(c, "privatize")) /\ state[c] = "DIALED"
         /\ s = "PRIVATIZED" => Top(StateF(c, "done")) /\ state[c] = "PRIVATIZING"
         /\ s = "ENCRYPTING" =>
              Top(StateF(c, "encrypt")) /\ state[c] \in {"DIALED", "PRIVATIZED"}
         /\ s = "ENCRYPTED" => Top(StateF(c, "done")) /\ state[c] = "ENCRYPTING"
         /\ s = "UPGRADING" => Top(StateF(c, "upgrade")) /\ state[c] = "ENCRYPTED"
         /\ s = "MUXED" => Top(StateF(c, "done")) /\ state[c] = "UPGRADING"
         /\ s = "CONNECTED" => Top(StateF(c, "stop")) /\ state[c] = "UPGRADING"
         /\ s = "DISCONNECTING" => Top(StateF(c, "disconnect")) /\ state[c] # "DISCONNECTED"
         /\ s = "DISCONNECTED" =>
              \/ Top(StateF(c, "done")) /\ state[c] \in Closing
              \/ Top(StateF(c, "disconnect")) /\ state[c] = "DISCONNECTED"
<1>1. PICK ev \in DOMAIN Table[state[c]] : Top(StateF(c, ev)) /\ Table[state[c]][ev] = s
  BY DEF Enters, Fires
<1>2. state[c] \in {"DISCONNECTED", "DIALING", "DIALED", "PRIVATIZING", "PRIVATIZED",
                    "ENCRYPTING", "ENCRYPTED", "UPGRADING", "MUXED", "CONNECTED",
                    "DISCONNECTING"}
  BY DEF TypeOK, States, Table
<1>3. state' = [state EXCEPT ![c] = s] /\ UNCHANGED <<created, listeners>>
  BY DEF Enters
<1>4. CASE state[c] \in {"DISCONNECTED", "DIALING", "DIALED", "PRIVATIZING"}
  BY <1>1, <1>3, <1>4 DEF Table, ClosedRow, States, Eager, Closing
<1>5. CASE state[c] \in {"PRIVATIZED", "ENCRYPTING", "ENCRYPTED", "UPGRADING"}
  BY <1>1, <1>3, <1>5 DEF Table, ClosedRow, States, Eager, Closing
<1>6. CASE state[c] \in {"MUXED", "CONNECTED", "DISCONNECTING"}
  BY <1>1, <1>3, <1>6 DEF Table, ClosedRow, States, Eager, Closing
<1> QED
  BY <1>2, <1>4, <1>5, <1>6

(* What the machine refuses is not what a connection waits for.             *)
LEMMA Refusing ==
  ASSUME TypeOK, NEW c \in Conns, Refuses(c)
  PROVE  \E ev \in Eager \cup {"disconnect"} :
           /\ Top(StateF(c, ev)) /\ Then(<<EmitF(c, "error")>>)
           /\ ev = "dial" => state[c] # "DISCONNECTED"
           /\ ev = "done" => state[c] \notin Closing \cup {"UPGRADING", "DIALING"}
  BY DEF Refuses, Fires, TypeOK, States, Table, ClosedRow, Eager, Closing

(* The functions a turn runs for a connection as soon as they are due.      *)
Running(c) ==
  \/ \E ev \in Eager : Top(StateF(c, ev))
  \/ \E name \in Heard : Top(EmitF(c, name))

(* A step that leaves b of the turn, and whose 'close' was heard, may go on   *)
(* with b, or put one function before it, or two of which one is put off.    *)
LEMMA Turns ==
  ASSUME TypeOK, resumed \subseteq created, NEW b \in Seq(PutOff),
         created' \subseteq Conns, created \subseteq created',
         resumed' \subseteq created', resumed \subseteq resumed',
         \A c \in Conns : Top(EmitF(c, "close")) => c \in resumed'
  PROVE  /\ agenda' = b =>
              AgendaInv' /\ \A c \in Conns : ~Running(c)'
         /\ \A f \in Due' : agenda' = <<f>> \o b =>
              AgendaInv' /\ \A g : Top(g)' <=> g = f
         /\ \A f \in Due', h \in PutOff' : agenda' = <<f, h>> \o b =>
              AgendaInv' /\ \A g : Top(g)' <=> g = f
<1>1. Told \subseteq resumed' /\ resumed' \subseteq Told'
  BY DEF Told
<1>2. PutOff \subseteq PutOff' /\ PutOff \subseteq Due'
  BY <1>1 DEF PutOff, Due
<1>3. Due' \subseteq Frames /\ PutOff' \subseteq Frames
  <2>1. Told' \subseteq Conns
    BY DEF Told
  <2> QED
    BY <2>1 DEF Due, PutOff, Frames, Eager
<1>4. \A f \in PutOff : \A c, x : f # EmitF(c, x) /\ (f = StateF(c, x) => x = "disconnect")
  BY FramesDiffer DEF PutOff
<1>5. PutOff \subseteq Frames
  BY <1>2, <1>3
<1>6. ASSUME agenda' = b PROVE AgendaInv' /\ \A c \in Conns : ~Running(c)'
  <2>1. b \in Seq(Frames) /\ (b # <<>> => Head(b) \in PutOff /\ Tail(b) \in Seq(PutOff'))
    BY <1>2, <1>5
  <2>2. AgendaInv'
    BY <1>2, <1>6, <2>1 DEF AgendaInv, Rest
  <2>3. ASSUME NEW c \in Conns PROVE ~Running(c)'
    BY <1>4, <1>6, <2>1 DEF Running, Top, Eager
  <2> QED
    BY <2>2, <2>3
<1>7. ASSUME NEW f \in Due', agenda' = <<f>> \o b
      PROVE  AgendaInv' /\ \A g : Top(g)' <=> g = f
  <2>1. /\ <<f>> \o b \in Seq(Frames) /\ <<f>> \o b # <<>>
        /\ Head(<<f>> \o b) = f /\ Tail(<<f>> \o b) = b /\ b \in Seq(PutOff')
    BY <1>2, <1>3, <1>5
  <2> QED
    BY <1>7, <2>1 DEF AgendaInv, Rest, Top
<1>8. ASSUME NEW f \in Due', NEW h \in PutOff', agenda' = <<f, h>> \o b
      PROVE  AgendaInv' /\ \A g : Top(g)' <=> g = f
  <2>1. b \in Seq(PutOff') /\ <<h>> \o b \in Seq(PutOff')
    BY <1>2
  <2>2. <<f, h>> \o b = <<f>> \o (<<h>> \o b)
    <3>0. f \in Frames /\ h \in Frames /\ b \in Seq(Frames)
      BY <1>3, <1>5
    <3>1. /\ <<f>> \in Seq(Frames) /\ <<h>> \in Seq(Frames) /\ b \in Seq(Frames)
      BY <3>0
    <3>2. <<f, h>> = <<f>> \o <<h>>
      <4>1. /\ <<f>> \o <<h>> \in Seq(Frames) /\ Len(<<f>> \o <<h>>) = 2
            /\ (<<f>> \o <<h>>)[1] = f /\ (<<f>> \o <<h>>)[2] = h
        BY <3>1, ConcatProperties
      <4>2. /\ <<f, h>> \in Seq(Frames) /\ Len(<<f, h>>) = 2
            /\ <<f, h>>[1] = f /\ <<f, h>>[2] = h
        BY <3>0
      <4>3. \A i \in 1 .. 2 : i = 1 \/ i = 2
        OBVIOUS
      <4> QED
        BY <4>1, <4>2, <4>3, SeqEqual, ZenonT(30)
    <3>3. (<<f>> \o <<h>>) \o b = <<f>> \o (<<h>> \o b)
      BY <3>1, ConcatAssociative
    <3> QED
      BY <3>2, <3>3
  <2> DEFINE t == <<h>> \o b
  <2>3. t \in Seq(PutOff') /\ t \in Seq(Frames) /\ f \in Frames
    BY <1>3, <2>1
  <2> HIDE DEF t
  <2>4. /\ <<f>> \o t \in Seq(Frames) /\ <<f>> \o t # <<>>
        /\ Head(<<f>> \o t) = f /\ Tail(<<f>> \o t) = t
    BY <2>3
  <2>5. agenda' = <<f>> \o t
    BY <1>8, <2>2 DEF t
  <2> QED
    BY <2>3, <2>4, <2>5 DEF AgendaInv, Rest, Top
<1> QED
  BY <1>6, <1>7, <1>8

(* What runs next, and what is due before: of one connection, one function. *)
Runs(f) == AgendaInv' /\ \A g : Top(g)' <=> g = f
Idles   == AgendaInv' /\ \A c \in Conns : ~Running(c)'

CoreInv == TypeOK /\ AgendaInv /\ resumed \subseteq created /\ StageInv

(* The head of the turn is one function, of a connection that was created.  *)
LEMMA Heads ==
  ASSUME AgendaInv
  PROVE  /\ \A f, g : Top(f) /\ Top(g) => f = g
         /\ \A c, x : Top(StateF(c, x)) \/ Top(EmitF(c, x)) \/ Top(CloseF(c, x)) => c \in created
         /\ \A c : /\ Top(IdentifyF(c)) => c \in created
                   /\ Top(RemoveAllF(c)) => c \in resumed
         /\ \A f : Top(f) => agenda # <<>>
         /\ <<>> \in Seq(PutOff)
         /\ agenda # <<>> => Rest \in Seq(PutOff)
         /\ Quiet \/ Top(ListenerF) => agenda \in Seq(PutOff)
<1>1. \A f : Top(f) => f \in Due
  BY DEF Top, AgendaInv
<1>2. \A c, x : StateF(c, x) \in Due \/ EmitF(c, x) \in Due \/ CloseF(c, x) \in Due => c \in created
  BY FramesDiffer DEF Due
<1>3. \A c : IdentifyF(c) \in Due => c \in created
  BY FramesDiffer DEF Due
<1>4. \A c : RemoveAllF(c) \in Due => c \in resumed
  BY FramesDiffer DEF Due
<1>5. ASSUME Quiet \/ Top(ListenerF) PROVE agenda \in Seq(PutOff)
  <2>1. CASE Quiet
    BY <2>1 DEF Quiet
  <2>2. CASE Top(ListenerF)
    <3>1. /\ agenda \in Seq(Frames) /\ agenda # <<>> /\ Head(agenda) \in PutOff
          /\ Tail(agenda) \in Seq(PutOff)
      BY <2>2 DEF Top, AgendaInv, PutOff, Rest
    <3>2. <<Head(agenda)>> \o Tail(agenda) \in Seq(PutOff)
      BY <3>1
    <3>3. agenda = <<Head(agenda)>> \o Tail(agenda)
      BY <3>1
    <3> QED
      BY <3>2, <3>3
  <2> QED
    BY <1>5, <2>1, <2>2
<1> QED
  BY <1>1, <1>2, <1>3, <1>4, <1>5 DEF Top, AgendaInv

(* A turn goes on with what is left of it.                                  *)
LEMMA TurnGoesOn ==
  ASSUME CoreInv, agenda # <<>>, UNCHANGED created,
         resumed' \subseteq created, resumed \subseteq resumed',
         \A c \in Conns : Top(EmitF(c, "close")) => c \in resumed'
  PROVE  /\ Then(<<>>) => Idles
         /\ \A f \in Due' : Then(<<f>>) => Runs(f)
         /\ \A f \in Due', h \in PutOff' : Then(<<f, h>>) => Runs(f)
<1>1. Rest \in Seq(PutOff) /\ created \subseteq Conns
  BY Heads DEF CoreInv, TypeOK
<1>2. <<>> \o Rest = Rest
  BY <1>1, ConcatEmptySeq
<1> QED
  BY <1>1, <1>2, Turns DEF CoreInv, Then, Runs, Idles

(* A turn begins with a callback or a call of the user. *)
LEMMA TurnBegins ==
  ASSUME CoreInv, Quiet, UNCHANGED <<created, resumed>>
  PROVE  /\ agenda' = <<>> => Idles
         /\ \A f \in Due' : agenda' = <<f>> => Runs(f)
         /\ \A f \in Due', h \in PutOff' : agenda' = <<f, h>> => Runs(f)
<1>1. <<>> \in Seq(PutOff) /\ created \subseteq Conns /\ \A c \in Conns : ~Top(EmitF(c, "close"))
  BY DEF CoreInv, TypeOK, Quiet, Top
<1>2. \A f \in Due' : <<f>> \o <<>> = <<f>>
  BY ConcatEmptySeq
<1>3. \A f \in Due', h \in PutOff' : <<f, h>> \o <<>> = <<f, h>>
  <2> SUFFICES ASSUME NEW f \in Due', NEW h \in PutOff' PROVE <<f, h>> \o <<>> = <<f, h>>
    OBVIOUS
  <2>1. <<f, h>> \in Seq({f, h})
    OBVIOUS
  <2> QED
    BY <2>1, ConcatEmptySeq
<1> QED
  BY <1>1, <1>2, <1>3, Turns DEF CoreInv, Runs, Idles

(* What is due of a connection when something of it, or nothing, runs next. *)
LEMMA RunningOnes ==
  ASSUME NEW c \in Conns
  PROVE  /\ \A ev : Runs(StateF(c, ev)) =>
              \A d \in Conns : /\ d # c => ~Running(d)'
                               /\ \A x : Top(StateF(d, x))' <=> d = c /\ x = ev
                               /\ \A x : ~Top(EmitF(d, x))'
         /\ \A name : Runs(EmitF(c, name)) =>
              \A d \in Conns : /\ d # c => ~Running(d)'
                               /\ \A x : Top(EmitF(d, x))' <=> d = c /\ x = name
                               /\ \A x : ~Top(StateF(d, x))'
         /\ Runs(StateF(c, "disconnect")) => Idles
         /\ \A err : Runs(CloseF(c, err)) => Idles
         /\ Runs(ListenerF) => Idles
         /\ Idles => \A d \in Conns : /\ \A x \in Eager : ~Top(StateF(d, x))'
                                      /\ \A x \in Heard : ~Top(EmitF(d, x))'
  BY FramesDiffer DEF Runs, Idles, Running, Eager

-----------------------------------------------------------------------------
(* Stages.                                                                  *)

(* A step of connection c leaves the others where they are.                 *)
Spares(c) ==
  \A d \in Conns \ {c} :
    /\ UNCHANGED <<state[d], op[d], ending[d], listeners[d]>>
    /\ d \in created' <=> d \in created
    /\ d \in hasMuxer' <=> d \in hasMuxer
    /\ d \in muxerOpen' <=> d \in muxerOpen
    /\ d \in identifying' <=> d \in identifying
    /\ d \in resumed' <=> d \in resumed
    /\ ~Running(d) /\ ~Running(d)'

(* It keeps the stage of c, dials nothing but a new connection, and tells c    *)
(* of a transport dial only with the peer connected.                        *)
Steps(c) ==
  /\ AgendaInv' /\ resumed' \subseteq created' /\ Stage(c)' /\ Spares(c)
  /\ Top(StateF(c, "dial"))' => c \notin created
  /\ Top(StateF(c, "done"))' /\ state'[c] = "DIALING" => peerUp'

(* Nothing that the stage of c depends on is to run. *)
Waits(c) ==
  /\ ~Top(StateF(c, "dial")) /\ ~Top(StateF(c, "done"))
  /\ ~Top(EmitF(c, "muxed")) /\ ~Top(EmitF(c, "unmuxed")) /\ ~Top(EmitF(c, "close"))

(* A connection that waits before and after a step that leaves it where it    *)
(* is keeps its stage, also when it lost a listener that tells nobody.       *)
LEMMA StageKept ==
  ASSUME NEW c \in Conns, Stage(c), Waits(c), Waits(c)',
         UNCHANGED <<state[c], op[c], ending[c]>>,
         c \in created' <=> c \in created,
         c \in hasMuxer' <=> c \in hasMuxer,
         c \in muxerOpen' => c \in muxerOpen \/ c \in created,
         c \in identifying' => c \in identifying \/ c \in created,
         c \in resumed' <=> c \in resumed,
         c \in resumed \/ \A name \in {"muxed", "unmuxed", "close"} :
                             name \in listeners[c] => name \in listeners'[c]
  PROVE  Stage(c)'
  BY DEF Stage, Fresh, Waits

(* If a step keeps the stage of one connection and leaves the others alone,   *)
(* all keep theirs.                                                         *)
LEMMA StagesStep ==
  ASSUME StageInv, NEW c \in Conns, Steps(c)
  PROVE  StageInv'
<1> SUFFICES ASSUME NEW d \in Conns, d # c PROVE Stage(d)'
  BY DEF StageInv, Steps
<1>1. /\ UNCHANGED <<state[d], op[d], ending[d], listeners[d]>>
      /\ d \in created' <=> d \in created
      /\ d \in hasMuxer' <=> d \in hasMuxer
      /\ d \in muxerOpen' <=> d \in muxerOpen
      /\ d \in identifying' <=> d \in identifying
      /\ d \in resumed' <=> d \in resumed
      /\ ~Running(d) /\ ~Running(d)'
  BY DEF Steps, Spares
<1>2. Waits(d) /\ Waits(d)'
  BY <1>1 DEF Waits, Running, Eager, Heard
<1> QED
  BY <1>1, <1>2, StageKept DEF StageInv

(* While a function of c runs, or between turns, none of another one does.  *)
LEMMA OneRuns ==
  ASSUME NEW c, NEW x,
         \/ Quiet \/ Top(ListenerF)
         \/ Top(StateF(c, x)) \/ Top(EmitF(c, x)) \/ Top(CloseF(c, x))
         \/ Top(IdentifyF(c)) \/ Top(RemoveAllF(c))
  PROVE  \A d \in Conns : d # c => ~Running(d)
  BY FramesDiffer DEF Running, Quiet, Top

(* What holds when a transition of c is to run: nothing else is running, and *)
(* c was created.                                                           *)
LEMMA TransitionRuns ==
  ASSUME CoreInv, NEW c \in Conns, NEW ev, Top(StateF(c, ev))
  PROVE  /\ c \in created /\ Stage(c) /\ agenda # <<>>
         /\ \A d \in Conns : d # c => ~Running(d)
         /\ \A d : \A x : ~Top(EmitF(d, x)) /\ (Top(StateF(d, x)) => d = c /\ x = ev)
<1>1. c \in created /\ agenda # <<>>
  BY Heads DEF CoreInv
<1>2. \A d \in Conns : d # c => ~Running(d)
  BY OneRuns
<1>3. \A d : \A x : ~Top(EmitF(d, x)) /\ (Top(StateF(d, x)) => d = c /\ x = ev)
  BY FramesDiffer DEF Top
<1> QED
  BY <1>1, <1>2, <1>3 DEF CoreInv, StageInv

(* What is due, and what may be put off, of a connection that was created.   *)
LEMMA DueFrames ==
  /\ \A c \in created' :
       /\ \A ev \in Eager \cup {"disconnect"} : StateF(c, ev) \in Due'
       /\ \A name \in Heard : EmitF(c, name) \in Due'
       /\ CloseF(c, TRUE) \in Due' /\ CloseF(c, FALSE) \in Due'
       /\ StateF(c, "disconnect") \in PutOff' /\ IdentifyF(c) \in PutOff'
  /\ \A c \in Told' : RemoveAllF(c) \in PutOff'
  /\ ListenerF \in Due'
<1>1. \A c \in created' :
        /\ \A ev \in Eager \cup {"disconnect"} : StateF(c, ev) \in Due'
        /\ \A name \in Heard : EmitF(c, name) \in Due'
  BY DEF Due
<1>2. ASSUME NEW c \in created' PROVE CloseF(c, TRUE) \in Due' /\ CloseF(c, FALSE) \in Due'
  <2>1. \A err \in BOOLEAN : CloseF(c, err) \in Due'
    BY DEF Due
  <2> QED
    BY <2>1
<1>3. \A c \in created' : StateF(c, "disconnect") \in PutOff' /\ IdentifyF(c) \in PutOff'
  BY DEF PutOff
<1>4. (\A c \in Told' : RemoveAllF(c) \in PutOff') /\ ListenerF \in Due'
  BY DEF PutOff, Due
<1> QED
  BY <1>1, <1>2, <1>3, <1>4

(* The transport dial starts, or there is nothing to dial. *)
LEMMA DialingSteps ==
  ASSUME CoreInv, NEW c \in Conns, EntersDialing(c)
  PROVE  Steps(c)
<1>1. /\ Top(StateF(c, "dial")) /\ state' = [state EXCEPT ![c] = "DIALING"]
      /\ UNCHANGED <<created, listeners, resumed, hasMuxer, muxerOpen, ending, identifying>>
  BY Entering DEF CoreInv, EntersDialing, muxVars, queueVars
<1>2. /\ c \in created /\ Stage(c) /\ agenda # <<>>
      /\ \A d \in Conns : d # c => ~Running(d)
      /\ \A d, x : ~Top(EmitF(d, x))
  BY <1>1, TransitionRuns
<1>3. Fresh(c) /\ {"muxed", "unmuxed", "close"} \subseteq listeners[c]
  BY <1>1, <1>2 DEF Stage, Fresh
<1>4. op' = [op EXCEPT ![c] = "none"] \/ op' = [op EXCEPT ![c] = "transport"]
  BY DEF EntersDialing
<1>5. Idles
  <2>1. CloseF(c, TRUE) \in Due'
    BY <1>1, <1>2, DueFrames
  <2>2. Then(<<>>) \/ Then(<<CloseF(c, TRUE)>>)
    BY DEF EntersDialing
  <2> QED
    BY <1>1, <1>2, <2>1, <2>2, TurnGoesOn, RunningOnes DEF CoreInv
<1>6. /\ state'[c] = "DIALING" /\ op'[c] \in {"none", "transport"}
      /\ \A d \in Conns : d # c => state'[d] = state[d] /\ op'[d] = op[d]
  BY <1>1, <1>4 DEF CoreInv, TypeOK
<1>7. Stage(c)'
  <2>1. /\ \A x \in Eager : ~Top(StateF(c, x))'
        /\ \A x \in Heard : ~Top(EmitF(c, x))'
    BY <1>5, RunningOnes
  <2> QED
    BY <1>1, <1>2, <1>3, <1>6, <2>1 DEF Stage, Fresh, Eager, Heard, InFlight, Securing, Closing
<1>8. Spares(c)
  BY <1>1, <1>2, <1>5, <1>6 DEF Spares, Idles
<1> QED
  BY <1>1, <1>5, <1>7, <1>8, RunningOnes DEF Steps, Idles, CoreInv, Eager

(* A state whose handler emits: the event runs next. *)
LEMMA EmittingSteps ==
  ASSUME CoreInv, NEW c \in Conns, EntersAndEmits(c)
  PROVE  Steps(c)
<1>1. PICK s \in {"DIALED", "PRIVATIZED", "ENCRYPTED", "CONNECTED"} :
        /\ Enters(c, s) /\ Then(<<EmitF(c, Emitting[s])>>)
        /\ UNCHANGED <<opVars, muxVars, trackVars, queueVars>>
  BY DEF EntersAndEmits, Emitting
<1>2. /\ state' = [state EXCEPT ![c] = s]
      /\ UNCHANGED <<created, listeners, op, resumed, hasMuxer, muxerOpen, ending, identifying>>
      /\ \E ev \in Eager : Top(StateF(c, ev))
      /\ s = "DIALED" => Top(StateF(c, "done")) /\ state[c] = "DIALING"
      /\ s = "PRIVATIZED" => Top(StateF(c, "done")) /\ state[c] = "PRIVATIZING"
      /\ s = "ENCRYPTED" => Top(StateF(c, "done")) /\ state[c] = "ENCRYPTING"
      /\ s = "CONNECTED" => state[c] = "UPGRADING"
  BY <1>1, Entering DEF CoreInv, opVars, muxVars, queueVars, Eager
<1>3. /\ c \in created /\ Stage(c) /\ agenda # <<>>
      /\ \A d \in Conns : d # c => ~Running(d)
      /\ \A d, x : ~Top(EmitF(d, x))
  BY <1>2, TransitionRuns
<1>4. Runs(EmitF(c, Emitting[s]))
  <2>1. Emitting[s] \in Heard
    BY DEF Emitting, Heard
  <2>2. EmitF(c, Emitting[s]) \in Due'
    BY <1>2, <1>3, <2>1, DueFrames
  <2> QED
    BY <1>1, <1>2, <1>3, <2>2, TurnGoesOn DEF CoreInv
<1>5. /\ state'[c] = s
      /\ \A d \in Conns : d # c => state'[d] = state[d]
  BY <1>2 DEF CoreInv, TypeOK
<1>6. /\ \A d \in Conns : d # c => ~Running(d)'
      /\ \A x : ~Top(StateF(c, x))'
      /\ \A x : Top(EmitF(c, x))' <=> x = Emitting[s]
  BY <1>4, RunningOnes
<1>7. Stage(c)'
  <2>1. Emitting[s] \notin {"muxed", "close"} /\ (Emitting[s] = "unmuxed" <=> s = "CONNECTED")
    BY DEF Emitting
  <2>2. op[c] \in Ops
    BY DEF CoreInv, TypeOK
  <2> QED
    BY <1>2, <1>3, <1>5, <1>6, <2>1, <2>2 DEF Stage, Fresh, InFlight, Securing, Closing, Ops
<1>8. Spares(c)
  BY <1>2, <1>3, <1>5, <1>6 DEF Spares
<1> QED
  BY <1>2, <1>4, <1>6, <1>7, <1>8 DEF Steps, Runs, CoreInv

(* A state whose handler starts an operation, or skips it at once. *)
LEMMA BeginningSteps ==
  ASSUME CoreInv, NEW c \in Conns,
         EntersPrivatizing(c) \/ EntersEncrypting(c) \/ EntersUpgrading(c)
  PROVE  Steps(c)
<1> DEFINE starts == [PRIVATIZING |-> "protect", ENCRYPTING |-> "encrypt",
                      UPGRADING |-> "upgrade"]
<1>1. PICK s \in {"PRIVATIZING", "ENCRYPTING", "UPGRADING"}, needed \in BOOLEAN :
        /\ Enters(c, s) /\ UNCHANGED <<left, base, muxVars, trackVars, queueVars>>
        /\ op' = [op EXCEPT ![c] = IF needed THEN starts[s] ELSE @]
        /\ Then(IF needed THEN <<>>
                ELSE <<StateF(c, IF s = "UPGRADING" THEN "stop" ELSE "done")>>)
  <2>1. CASE EntersPrivatizing(c)
    BY <2>1, ConnectionAssumption DEF EntersPrivatizing, Begins
  <2>2. CASE EntersEncrypting(c)
    BY <2>2 DEF EntersEncrypting, Begins
  <2>3. CASE EntersUpgrading(c)
    BY <2>3, ConnectionAssumption DEF EntersUpgrading, Begins
  <2> QED
    BY <2>1, <2>2, <2>3
<1>2. /\ state' = [state EXCEPT ![c] = s]
      /\ UNCHANGED <<created, listeners, resumed, hasMuxer, muxerOpen, ending, identifying>>
      /\ \E ev \in Eager : Top(StateF(c, ev))
      /\ ~Top(StateF(c, "done"))
      /\ state[c] \in {"DIALED", "PRIVATIZED", "ENCRYPTED"}
  BY <1>1, Entering, FramesDiffer DEF CoreInv, muxVars, queueVars, Eager, Top
<1>3. /\ c \in created /\ Stage(c) /\ agenda # <<>>
      /\ \A d \in Conns : d # c => ~Running(d)
      /\ \A d, x : ~Top(EmitF(d, x))
  BY <1>2, TransitionRuns
<1>4. /\ state'[c] = s
      /\ op'[c] = IF needed THEN starts[s] ELSE op[c]
      /\ \A d \in Conns : d # c => state'[d] = state[d] /\ op'[d] = op[d]
  BY <1>1, <1>2 DEF CoreInv, TypeOK
<1>5. op[c] = "none" /\ c \notin hasMuxer /\ c \notin resumed
  <2>1. op[c] \in Ops
    BY DEF CoreInv, TypeOK
  <2> QED
    BY <1>2, <1>3, <2>1 DEF Stage, InFlight, Securing, Ops
<1>6. /\ AgendaInv' /\ \A d \in Conns : d # c => ~Running(d)'
      /\ ~Top(StateF(c, "dial"))'
      /\ Top(StateF(c, "done"))' => ~needed
      /\ \A x \in Heard : ~Top(EmitF(c, x))'
  <2>1. CASE needed
    BY <1>1, <1>2, <1>3, <2>1, TurnGoesOn, RunningOnes DEF CoreInv, Idles, Eager
  <2>2. CASE ~needed
    <3>1. PICK ev \in {"stop", "done"} : Then(<<StateF(c, ev)>>)
      BY <1>1, <2>2
    <3>2. StateF(c, ev) \in Due'
      BY <1>2, <1>3, DueFrames DEF Eager
    <3>3. Runs(StateF(c, ev))
      BY <1>2, <1>3, <3>1, <3>2, TurnGoesOn DEF CoreInv
    <3> QED
      BY <2>2, <3>3, RunningOnes DEF Runs
  <2> QED
    BY <2>1, <2>2
<1>7. Stage(c)'
  BY <1>2, <1>3, <1>4, <1>5, <1>6 DEF Stage, Fresh, InFlight, Securing, Closing, Heard
<1>8. Spares(c)
  BY <1>2, <1>3, <1>4, <1>6 DEF Spares
<1> QED
  BY <1>2, <1>4, <1>6, <1>7, <1>8 DEF Steps, CoreInv

(* The muxed connection is announced next. *)
LEMMA MuxedSteps ==
  ASSUME CoreInv, NEW c \in Conns, EntersMuxed(c)
  PROVE  Steps(c)
<1>1. /\ Top(StateF(c, "done")) /\ state[c] = "UPGRADING"
      /\ state' = [state EXCEPT ![c] = "MUXED"]
      /\ UNCHANGED <<created, listeners, op, resumed, hasMuxer, muxerOpen, ending, identifying>>
  BY Entering DEF CoreInv, EntersMuxed, opVars, muxVars
<1>2. /\ c \in created /\ Stage(c) /\ agenda # <<>>
      /\ \A d \in Conns : d # c => ~Running(d)
      /\ \A d, x : ~Top(EmitF(d, x))
  BY <1>1, TransitionRuns
<1>3. Runs(EmitF(c, "muxed"))
  <2>1. EmitF(c, "muxed") \in Due'
    BY <1>1, <1>2, DueFrames DEF Heard
  <2> QED
    BY <1>1, <1>2, <2>1, TurnGoesOn DEF CoreInv, EntersMuxed
<1>4. /\ state'[c] = "MUXED"
      /\ \A d \in Conns : d # c => state'[d] = state[d]
  BY <1>1 DEF CoreInv, TypeOK
<1>5. /\ \A d \in Conns : d # c => ~Running(d)'
      /\ \A x : ~Top(StateF(c, x))'
      /\ \A x : Top(EmitF(c, x))' <=> x = "muxed"
  BY <1>3, RunningOnes
<1>6. Stage(c)'
  BY <1>1, <1>2, <1>4, <1>5 DEF Stage, Fresh, InFlight, Securing, Closing
<1>7. Spares(c)
  BY <1>1, <1>2, <1>4, <1>5 DEF Spares
<1> QED
  BY <1>1, <1>3, <1>5, <1>6, <1>7 DEF Steps, Runs, CoreInv

(* A connection is disconnected next, unless it has a muxer to end: then its  *)
(* attempt was over before.                                                 *)
LEMMA DisconnectingSteps ==
  ASSUME CoreInv, NEW c \in Conns, EntersDisconnecting(c)
  PROVE  Steps(c)
<1>1. /\ Top(StateF(c, "disconnect")) /\ state[c] # "DISCONNECTED"
      /\ state' = [state EXCEPT ![c] = "DISCONNECTING"]
      /\ UNCHANGED <<created, listeners, op, resumed, muxerOpen, identifying>>
  BY Entering DEF CoreInv, EntersDisconnecting
<1>2. /\ c \in created /\ Stage(c) /\ agenda # <<>>
      /\ \A d \in Conns : d # c => ~Running(d)
      /\ \A d, x : ~Top(EmitF(d, x))
      /\ \A x \in Eager : ~Top(StateF(c, x))
  BY <1>1, TransitionRuns DEF Eager
<1>3. /\ state'[c] = "DISCONNECTING"
      /\ \A d \in Conns : d # c => state'[d] = state[d]
  BY <1>1 DEF CoreInv, TypeOK
<1>4. CASE hasMuxer' = hasMuxer \ {c} /\ Then(DisconnectedAtLast(c)) /\ UNCHANGED ending
  <2>1. StateF(c, "done") \in Due'
    BY <1>1, <1>2, DueFrames DEF Eager
  <2>2. Runs(StateF(c, "done"))
    BY <1>1, <1>2, <1>4, <2>1, TurnGoesOn DEF CoreInv, DisconnectedAtLast
  <2>3. /\ \A d \in Conns : d # c => ~Running(d)'
        /\ \A x : Top(StateF(c, x))' <=> x = "done"
        /\ \A x : ~Top(EmitF(c, x))'
    BY <2>2, RunningOnes
  <2>4. Stage(c)'
    BY <1>1, <1>2, <1>3, <1>4, <2>3 DEF Stage, Fresh, InFlight, Securing, Closing
  <2>5. Spares(c)
    BY <1>1, <1>2, <1>3, <1>4, <2>3 DEF Spares
  <2> QED
    BY <1>1, <1>3, <2>2, <2>3, <2>4, <2>5 DEF Steps, Runs, CoreInv
<1>5. CASE /\ c \in hasMuxer /\ ending' = [ending EXCEPT ![c] = @ + 1]
           /\ Then(<<>>) /\ UNCHANGED hasMuxer
  <2>1. Idles
    BY <1>1, <1>2, <1>5, TurnGoesOn DEF CoreInv
  <2>2. /\ \A x \in Eager : ~Top(StateF(c, x))'
        /\ \A x \in Heard : ~Top(EmitF(c, x))'
    BY <2>1, RunningOnes
  <2>3. state[c] \notin InFlight /\ c \in resumed
    <3>1. state[c] \in {"DISCONNECTING", "MUXED", "CONNECTED"} \cup InFlight
      BY <1>1 DEF CoreInv, TypeOK, States, Table, InFlight, Securing
    <3> QED
      BY <1>2, <1>5, <3>1 DEF Stage, Eager
  <2>4. \A d \in Conns : d # c => ending'[d] = ending[d]
    BY <1>5 DEF CoreInv, TypeOK
  <2>5. Stage(c)'
    BY <1>1, <1>2, <1>3, <1>5, <2>2, <2>3
    DEF Stage, Fresh, InFlight, Securing, Closing, Eager, Heard
  <2>6. Spares(c)
    BY <1>1, <1>2, <1>3, <1>5, <2>1, <2>4 DEF Spares, Idles
  <2> QED
    BY <1>1, <2>1, <2>2, <2>5, <2>6 DEF Steps, Idles, CoreInv, Eager
<1> QED
  BY <1>4, <1>5 DEF EntersDisconnecting

(* A disconnected connection emits 'close' next; its queue listens for it if  *)
(* nothing resumed it before.                                               *)
LEMMA DisconnectedSteps ==
  ASSUME CoreInv, NEW c \in Conns, EntersDisconnected(c)
  PROVE  Steps(c)
<1>1. PICK ev \in {"done", "disconnect"} :
        /\ Top(StateF(c, ev))
        /\ state' = [state EXCEPT ![c] = "DISCONNECTED"]
        /\ UNCHANGED <<created, listeners, op, resumed, hasMuxer, muxerOpen, ending, identifying>>
  BY Entering DEF CoreInv, EntersDisconnected, opVars, muxVars, queueVars
<1>2. /\ c \in created /\ Stage(c) /\ agenda # <<>>
      /\ \A d \in Conns : d # c => ~Running(d)
      /\ \A d, x : ~Top(EmitF(d, x))
  BY <1>1, TransitionRuns
<1>3. Runs(EmitF(c, "close"))
  <2>1. EmitF(c, "close") \in Due'
    BY <1>1, <1>2, DueFrames DEF Heard
  <2>2. agenda' = <<EmitF(c, "close"), RemoveAllF(c)>> \o Rest
    BY DEF EntersDisconnected, LastWords, Then
  <2>3. Top(EmitF(c, "close"))'
    <3>1. Rest \in Seq(Frames) /\ EmitF(c, "close") \in Frames /\ RemoveAllF(c) \in Frames
      BY <1>2 DEF CoreInv, AgendaInv, Rest, Frames, Heard
    <3> QED
      BY <2>2, <3>1 DEF Top
  <2>4. RemoveAllF(c) \in PutOff'
    BY <2>3, DueFrames DEF Told
  <2> QED
    BY <1>1, <1>2, <2>1, <2>4, TurnGoesOn DEF CoreInv, EntersDisconnected, LastWords
<1>4. /\ state'[c] = "DISCONNECTED"
      /\ \A d \in Conns : d # c => state'[d] = state[d]
  BY <1>1 DEF CoreInv, TypeOK
<1>5. /\ \A d \in Conns : d # c => ~Running(d)'
      /\ \A x : ~Top(StateF(c, x))'
      /\ \A x : Top(EmitF(c, x))' <=> x = "close"
  BY <1>3, RunningOnes
<1>6. Stage(c)'
  BY <1>1, <1>2, <1>4, <1>5 DEF Stage, Fresh, InFlight, Securing, Closing
<1>7. Spares(c)
  BY <1>1, <1>2, <1>4, <1>5 DEF Spares
<1> QED
  BY <1>1, <1>3, <1>5, <1>6, <1>7 DEF Steps, Runs, CoreInv

(* A refused transition was not the one its connection waited for. *)
LEMMA RefusedSteps ==
  ASSUME CoreInv, NEW c \in Conns, Refuses(c)
  PROVE  Steps(c)
<1>1. PICK ev \in Eager \cup {"disconnect"} :
        /\ Top(StateF(c, ev)) /\ Then(<<EmitF(c, "error")>>)
        /\ ev = "dial" => state[c] # "DISCONNECTED"
        /\ ev = "done" => state[c] \notin Closing \cup {"UPGRADING", "DIALING"}
  BY Refusing DEF CoreInv
<1>2. UNCHANGED <<state, created, listeners, op, resumed, hasMuxer, muxerOpen, ending, identifying>>
  BY DEF Refuses, fsmVars, opVars, muxVars, queueVars
<1>3. /\ c \in created /\ Stage(c) /\ agenda # <<>>
      /\ \A d \in Conns : d # c => ~Running(d)
      /\ \A d, x : ~Top(EmitF(d, x))
      /\ \A x : Top(StateF(c, x)) => x = ev
  BY <1>1, TransitionRuns
<1>4. Runs(EmitF(c, "error"))
  <2>1. EmitF(c, "error") \in Due'
    BY <1>2, <1>3, DueFrames DEF Heard
  <2> QED
    BY <1>1, <1>2, <1>3, <2>1, TurnGoesOn DEF CoreInv
<1>5. /\ \A d \in Conns : d # c => ~Running(d)'
      /\ \A x : ~Top(StateF(c, x))'
      /\ \A x : Top(EmitF(c, x))' <=> x = "error"
  BY <1>4, RunningOnes
<1>6. Stage(c)'
  BY <1>1, <1>2, <1>3, <1>5 DEF Stage, Fresh, Closing
<1>7. Spares(c)
  BY <1>2, <1>3, <1>5 DEF Spares
<1> QED
  BY <1>2, <1>4, <1>5, <1>6, <1>7 DEF Steps, Runs, CoreInv

-----------------------------------------------------------------------------
(* Events, closes and identify.                                             *)

(* What holds when an event of c is emitted. *)
LEMMA EventRuns ==
  ASSUME CoreInv, NEW c \in Conns, NEW name \in Heard, Top(EmitF(c, name))
  PROVE  /\ c \in created /\ Stage(c) /\ agenda # <<>>
         /\ \A d \in Conns : d # c => ~Running(d)
         /\ \A d, x : ~Top(StateF(d, x)) /\ (Top(EmitF(d, x)) => d = c /\ x = name)
<1>1. c \in created /\ agenda # <<>>
  BY Heads DEF CoreInv
<1>2. \A d \in Conns : d # c => ~Running(d)
  BY OneRuns
<1>3. \A d, x : ~Top(StateF(d, x)) /\ (Top(EmitF(d, x)) => d = c /\ x = name)
  BY FramesDiffer DEF Top
<1> QED
  BY <1>1, <1>2, <1>3 DEF CoreInv, StageInv

(* A dial that hears of progress fires the next transition. *)
LEMMA ProgressSteps ==
  ASSUME CoreInv, NEW c \in Conns, HearsProgress(c)
  PROVE  Steps(c)
<1>1. PICK name \in {"connected", "private", "encrypted"} :
        Hears(c, name) /\ Then(<<StateF(c, NextStage[name])>>)
  BY DEF HearsProgress, NextStage
<1>2. /\ Top(EmitF(c, name)) /\ listeners' = [listeners EXCEPT ![c] = @ \ {name}]
      /\ UNCHANGED <<state, created, op, resumed, hasMuxer, muxerOpen, ending, identifying>>
  BY <1>1 DEF HearsProgress, Hears, opVars, muxVars, queueVars
<1>3. /\ c \in created /\ Stage(c) /\ agenda # <<>>
      /\ \A d \in Conns : d # c => ~Running(d)
      /\ \A d, x : ~Top(StateF(d, x)) /\ (Top(EmitF(d, x)) => d = c /\ x = name)
  BY <1>2, EventRuns DEF Heard
<1>4. NextStage[name] \in {"privatize", "encrypt", "upgrade"}
  BY DEF NextStage
<1>5. Runs(StateF(c, NextStage[name]))
  <2>1. StateF(c, NextStage[name]) \in Due'
    BY <1>2, <1>3, <1>4, DueFrames DEF Eager
  <2> QED
    BY <1>1, <1>2, <1>3, <2>1, TurnGoesOn DEF CoreInv
<1>6. /\ \A d \in Conns : d # c => ~Running(d)'
      /\ Waits(c) /\ Waits(c)'
  BY <1>3, <1>4, <1>5, RunningOnes DEF Waits
<1>7. /\ \A d \in Conns : d # c => listeners'[d] = listeners[d]
      /\ listeners'[c] = listeners[c] \ {name}
  BY <1>2 DEF CoreInv, TypeOK
<1>8. Stage(c)'
  BY <1>2, <1>3, <1>6, <1>7, StageKept
<1>9. Spares(c)
  BY <1>2, <1>3, <1>6, <1>7 DEF Spares
<1> QED
  BY <1>2, <1>5, <1>6, <1>8, <1>9 DEF Steps, Runs, Waits, CoreInv

(* The other listeners let the turn go on, those of the dial queue once the   *)
(* attempt is over.                                                         *)
LEMMA HearingSteps ==
  ASSUME CoreInv, NEW c \in Conns, HearsError(c) \/ HearsMuxed(c) \/ HearsUnmuxedOrClose(c)
  PROVE  Steps(c)
<1>1. PICK name \in {"error", "muxed", "unmuxed", "close"} :
        /\ Hears(c, name) /\ Then(Listener)
        /\ resumed' = IF name = "error" THEN resumed ELSE resumed \cup {c}
        /\ UNCHANGED <<op, hasMuxer, muxerOpen, ending, identifying>>
  BY DEF HearsError, HearsMuxed, HearsUnmuxedOrClose, opVars, muxVars, queueVars
<1>2. /\ Top(EmitF(c, name)) /\ listeners' = [listeners EXCEPT ![c] = @ \ {name}]
      /\ UNCHANGED <<state, created>>
  BY <1>1 DEF Hears
<1>3. /\ c \in created /\ Stage(c) /\ agenda # <<>>
      /\ \A d \in Conns : d # c => ~Running(d)
      /\ \A d, x : ~Top(StateF(d, x)) /\ (Top(EmitF(d, x)) => d = c /\ x = name)
  BY <1>2, EventRuns DEF Heard
<1>4. Idles
  <2>1. Then(<<>>) \/ Then(<<ListenerF>>)
    BY <1>1 DEF Listener
  <2>2. /\ resumed' \subseteq created /\ resumed \subseteq resumed'
        /\ \A d \in Conns : Top(EmitF(d, "close")) => d \in resumed'
    BY <1>1, <1>3 DEF CoreInv
  <2> QED
    BY <1>2, <1>3, <2>1, <2>2, DueFrames, TurnGoesOn, RunningOnes
<1>5. \A x \in Heard : ~Top(EmitF(c, x))' /\ \A y \in Eager : ~Top(StateF(c, y))'
  BY <1>4, RunningOnes
<1>6. /\ \A d \in Conns : d # c => listeners'[d] = listeners[d]
      /\ listeners'[c] = listeners[c] \ {name}
  BY <1>2 DEF CoreInv, TypeOK
<1>7. Stage(c)'
  <2>1. CASE name = "error"
    <3>1. Waits(c) /\ Waits(c)'
      BY <1>3, <1>5, <2>1 DEF Waits, Heard, Eager
    <3> QED
      BY <1>1, <1>2, <1>3, <1>6, <2>1, <3>1, StageKept
  <2>2. CASE name # "error"
    <3>1. state[c] \in {"MUXED", "CONNECTED", "DISCONNECTED"} /\ c \in resumed'
      BY <1>1, <1>2, <1>3, <2>2 DEF Stage
    <3> QED
      BY <1>1, <1>2, <1>3, <1>5, <3>1
      DEF Stage, Fresh, InFlight, Securing, Closing, Eager, Heard
  <2> QED
    BY <2>1, <2>2
<1>8. Spares(c)
  BY <1>1, <1>2, <1>3, <1>4, <1>6 DEF Spares, Idles
<1>9. resumed' \subseteq created'
  BY <1>1, <1>2, <1>3 DEF CoreInv
<1>10. ~Top(StateF(c, "dial"))' /\ ~Top(StateF(c, "done"))'
  BY <1>5 DEF Eager, Heard
<1> QED
  BY <1>4, <1>7, <1>8, <1>9, <1>10 DEF Steps, Idles

(* An event that nobody hears is not the one the dial queue waits for.      *)
LEMMA UnheardSteps ==
  ASSUME CoreInv, NEW c \in Conns, Unheard(c)
  PROVE  Steps(c)
<1>1. PICK name \in Heard : Top(EmitF(c, name)) /\ name \notin listeners[c]
  BY DEF Unheard
<1>2. /\ Then(<<>>)
      /\ UNCHANGED <<state, created, listeners, op, resumed, hasMuxer, muxerOpen, ending, identifying>>
  BY DEF Unheard, fsmVars, opVars, muxVars, queueVars
<1>3. /\ c \in created /\ Stage(c) /\ agenda # <<>>
      /\ \A d \in Conns : d # c => ~Running(d)
      /\ \A d, x : ~Top(StateF(d, x)) /\ (Top(EmitF(d, x)) => d = c /\ x = name)
  BY <1>1, EventRuns
<1>4. name \in {"muxed", "unmuxed", "close"} => c \in resumed
  BY <1>1, <1>3 DEF Stage
<1>5. Idles
  BY <1>2, <1>3, <1>4, TurnGoesOn DEF CoreInv
<1>6. \A x \in Heard : ~Top(EmitF(c, x))' /\ \A y \in Eager : ~Top(StateF(c, y))'
  BY <1>5, RunningOnes
<1>7. Stage(c)'
  BY <1>2, <1>3, <1>4, <1>6 DEF Stage, Fresh, Eager, Heard
<1>8. Spares(c)
  BY <1>2, <1>3, <1>5 DEF Spares, Idles
<1> QED
  BY <1>2, <1>5, <1>6, <1>7, <1>8 DEF Steps, Idles, CoreInv, Eager

(* removeAllListeners comes after the 'close' was heard; a close goes on to    *)
(* disconnect; identify asks the muxer.                                     *)
LEMMA ClosingSteps ==
  ASSUME CoreInv, NEW c \in Conns, RemovesListeners(c) \/ Close(c) \/ StartsIdentify(c)
  PROVE  Steps(c)
<1>1. /\ Top(RemoveAllF(c)) \/ Top(IdentifyF(c)) \/ \E err : Top(CloseF(c, err))
      /\ UNCHANGED <<state, created, op, resumed, hasMuxer, muxerOpen, ending>>
  BY DEF RemovesListeners, Close, StartsIdentify, fsmVars, opVars, muxVars, queueVars
<1>2. /\ c \in created /\ Stage(c) /\ agenda # <<>> /\ resumed \subseteq created
      /\ \A d \in Conns : d # c => ~Running(d)
      /\ \A d, x : ~Top(StateF(d, x)) /\ ~Top(EmitF(d, x))
  <2>1. c \in created /\ agenda # <<>>
    BY <1>1, Heads DEF CoreInv
  <2>2. \A d \in Conns : d # c => ~Running(d)
    BY <1>1, OneRuns
  <2>3. \A d, x : ~Top(StateF(d, x)) /\ ~Top(EmitF(d, x))
    BY <1>1, FramesDiffer DEF Top
  <2> QED
    BY <2>1, <2>2, <2>3 DEF CoreInv, StageInv
<1>3. /\ AgendaInv' /\ \A d \in Conns : d # c => ~Running(d)'
      /\ Waits(c) /\ Waits(c)'
  <2>1. Waits(c)
    BY <1>2 DEF Waits
  <2>2. ASSUME Idles PROVE AgendaInv' /\ (\A d \in Conns : ~Running(d)') /\ Waits(c)'
    BY <2>2, RunningOnes DEF Idles, Waits, Eager, Heard
  <2>3. CASE Then(<<>>)
    BY <1>1, <1>2, <2>1, <2>2, <2>3, TurnGoesOn
  <2>4. CASE Then(<<StateF(c, "disconnect")>>)
    <3>1. StateF(c, "disconnect") \in Due'
      BY <1>1, <1>2, DueFrames
    <3> QED
      BY <1>1, <1>2, <2>1, <2>2, <2>4, <3>1, TurnGoesOn, RunningOnes
  <2>5. CASE Then(<<EmitF(c, "error"), StateF(c, "disconnect")>>)
    <3>1. EmitF(c, "error") \in Due' /\ StateF(c, "disconnect") \in PutOff'
      BY <1>1, <1>2, DueFrames DEF Heard
    <3>2. Runs(EmitF(c, "error"))
      BY <1>1, <1>2, <2>5, <3>1, TurnGoesOn
    <3> QED
      BY <2>1, <3>2, RunningOnes DEF Runs, Waits
  <2>6. CASE agenda' = Append(Rest, CloseF(c, TRUE))
    <3>1. \A err \in BOOLEAN : CloseF(c, err) \in PutOff
      BY <1>2 DEF PutOff
    <3>2. Append(Rest, CloseF(c, TRUE)) \in Seq(PutOff)
      <4>1. CloseF(c, TRUE) \in PutOff
        BY <3>1
      <4>2. Rest \in Seq(PutOff)
        BY <1>2, Heads DEF CoreInv
      <4> QED
        BY <4>1, <4>2, AppendProperties, Zenon
    <3>3. created \subseteq Conns
      BY DEF CoreInv, TypeOK
    <3>4. Idles
      BY <1>1, <1>2, <2>6, <3>2, <3>3, Turns DEF CoreInv, Idles
    <3> QED
      BY <2>1, <2>2, <3>4
  <2> QED
    BY <2>3, <2>4, <2>5, <2>6 DEF RemovesListeners, Close, StartsIdentify
<1>4. /\ \A d \in Conns : d # c => listeners'[d] = listeners[d]
      /\ c \in resumed \/ listeners'[c] = listeners[c]
  <2>1. CASE RemovesListeners(c)
    <3>1. c \in resumed
      BY <2>1, Heads DEF RemovesListeners, CoreInv
    <3> QED
      BY <2>1, <3>1 DEF RemovesListeners, CoreInv, TypeOK
  <2>2. CASE Close(c) \/ StartsIdentify(c)
    BY <2>2 DEF Close, StartsIdentify, fsmVars
  <2> QED
    BY <2>1, <2>2
<1>5. identifying' \in {identifying, identifying \cup {c}} /\ UNCHANGED muxerOpen
  BY DEF RemovesListeners, Close, StartsIdentify, muxVars
<1>6. Stage(c)'
  BY <1>1, <1>2, <1>3, <1>4, <1>5, StageKept
<1>7. Spares(c)
  BY <1>1, <1>2, <1>3, <1>4, <1>5 DEF Spares
<1> QED
  BY <1>1, <1>2, <1>3, <1>6, <1>7 DEF Steps, Waits

-----------------------------------------------------------------------------
(* Calls and callbacks.                                                     *)

(* Between turns, and while a listener runs, every connection waits; one with *)
(* something in flight was created.                                         *)
LEMMA AllWait ==
  ASSUME CoreInv, Quiet \/ Top(ListenerF)
  PROVE  /\ \A d \in Conns : ~Running(d) /\ Waits(d) /\ Stage(d)
         /\ \A d, x : ~Top(EmitF(d, x))
         /\ agenda \in Seq(PutOff)
         /\ \A c \in Conns : \/ op[c] # "none" \/ ending[c] > 0
                             \/ c \in muxerOpen \cup identifying
                             => c \in created
<1>1. \A d : \A x : ~Top(EmitF(d, x)) /\ ~Top(StateF(d, x))
  BY FramesDiffer DEF Quiet, Top
<1>2. \A d \in Conns : ~Running(d) /\ Waits(d)
  BY <1>1 DEF Running, Waits
<1>3. agenda \in Seq(PutOff)
  BY Heads DEF CoreInv
<1>4. \A d \in Conns : Stage(d)
  BY DEF CoreInv, StageInv
<1>5. ASSUME NEW c \in Conns, c \notin created
      PROVE  op[c] = "none" /\ ~(ending[c] > 0) /\ c \notin muxerOpen \cup identifying
  BY <1>4, <1>5 DEF Stage, Fresh
<1> QED
  BY <1>1, <1>2, <1>3, <1>4, <1>5

(* A new connection is fresh, and is dialed at once. *)
LEMMA CreatingSteps ==
  ASSUME CoreInv, NEW c \in Conns, Creates(c)
  PROVE  Steps(c)
<1>1. /\ Quiet \/ Top(ListenerF)
      /\ c \notin created /\ created' = created \cup {c}
      /\ listeners' = [listeners EXCEPT ![c] = Heard]
      /\ agenda' = <<StateF(c, "dial")>> \o agenda
      /\ UNCHANGED <<state, op, resumed, hasMuxer, muxerOpen, ending, identifying>>
  BY DEF Creates, MayCall, opVars, muxVars, queueVars
<1>2. /\ \A d \in Conns : ~Running(d) /\ Stage(d)
      /\ \A d, x : ~Top(EmitF(d, x))
      /\ agenda \in Seq(PutOff)
  BY <1>1, AllWait
<1>3. Fresh(c)
  BY <1>1, <1>2 DEF Stage
<1>4. Runs(StateF(c, "dial"))
  <2>1. StateF(c, "dial") \in Due'
    BY <1>1, DueFrames DEF Eager
  <2>2. created' \subseteq Conns /\ created \subseteq created' /\ resumed' \subseteq created'
    BY <1>1 DEF CoreInv, TypeOK
  <2> QED
    BY <1>1, <1>2, <2>1, <2>2, Turns DEF CoreInv, Runs
<1>5. /\ \A d \in Conns : d # c => ~Running(d)'
      /\ \A x : Top(StateF(c, x))' <=> x = "dial"
      /\ \A x : ~Top(EmitF(c, x))'
  BY <1>4, RunningOnes
<1>6. /\ \A d \in Conns : d # c => listeners'[d] = listeners[d]
      /\ listeners'[c] = Heard
  BY <1>1 DEF CoreInv, TypeOK
<1>7. Stage(c)'
  BY <1>1, <1>3, <1>5, <1>6 DEF Stage, Fresh, Heard, InFlight, Securing, Closing
<1>8. Spares(c)
  BY <1>1, <1>2, <1>5, <1>6 DEF Spares
<1> QED
  BY <1>1, <1>4, <1>5, <1>7, <1>8 DEF Steps, Runs, CoreInv

(* A hang-up closes what is tracked, which was created; a listener returns.   *)
LEMMA CallsStep ==
  ASSUME CoreInv, tracked \in Seq(created), HangUp \/ ListenerReturns
  PROVE  AgendaInv' /\ resumed' \subseteq created' /\ StageInv' /\ \A c \in Conns : Waits(c) /\ Waits(c)'
<1>1. /\ Quiet \/ Top(ListenerF)
      /\ UNCHANGED <<fsmVars, opVars, muxVars, queueVars>>
  BY DEF HangUp, ListenerReturns, MayCall
<1>2. /\ \A d \in Conns : Waits(d) /\ Stage(d)
      /\ \A d, x : ~Top(EmitF(d, x))
      /\ agenda \in Seq(PutOff)
  BY <1>1, AllWait
<1>3. Idles
  <2>1. CASE HangUp
    <3> DEFINE closes == [i \in DOMAIN tracked |-> CloseF(tracked[i], FALSE)]
    <3>1. \A c \in created : CloseF(c, FALSE) \in PutOff
      <4>1. \A c \in created : \A err \in BOOLEAN : CloseF(c, err) \in PutOff
        BY DEF PutOff
      <4> QED
        BY <4>1
    <3>2. closes \in Seq(PutOff)
      <4>1. Len(tracked) \in Nat /\ DOMAIN tracked = 1 .. Len(tracked)
        OBVIOUS
      <4>2. \A i \in 1 .. Len(tracked) : tracked[i] \in created
        OBVIOUS
      <4>3. \A i \in 1 .. Len(tracked) : CloseF(tracked[i], FALSE) \in PutOff
        BY <3>1, <4>2, Zenon
      <4>4. closes \in [1 .. Len(tracked) -> PutOff]
        BY <4>1, <4>3, Zenon
      <4> HIDE DEF closes
      <4> QED
        BY <4>1, <4>4
    <3> HIDE DEF closes
    <3>3. closes \o agenda \in Seq(PutOff)
      BY <1>2, <3>2
    <3>4. agenda' = closes \o agenda
      BY <2>1 DEF HangUp, closes
    <3> QED
      BY <1>1, <1>2, <3>3, <3>4, Turns DEF CoreInv, TypeOK, fsmVars, queueVars, Idles
  <2>2. CASE ListenerReturns
    <3>1. Then(<<>>) /\ agenda # <<>>
      BY <2>2 DEF ListenerReturns, Top
    <3> QED
      BY <1>1, <1>2, <3>1, TurnGoesOn DEF fsmVars, queueVars, CoreInv
  <2> QED
    BY <2>1, <2>2
<1>4. \A c \in Conns : Waits(c)'
  BY <1>3, RunningOnes DEF Waits, Eager, Heard
<1>5. StageInv'
  <2> SUFFICES ASSUME NEW c \in Conns PROVE Stage(c)'
    BY DEF StageInv
  <2> QED
    BY <1>1, <1>2, <1>4, StageKept DEF fsmVars, opVars, muxVars, queueVars
<1> QED
  BY <1>1, <1>2, <1>3, <1>4, <1>5 DEF CoreInv, Idles, fsmVars, queueVars

(* A callback that closes the connection, or does nothing more. *)
LEMMA FailingSteps ==
  ASSUME CoreInv, Quiet, NEW c \in created,
         agenda' = <<>> \/ agenda' = <<CloseF(c, TRUE)>> \/ agenda' = <<CloseF(c, FALSE)>>,
         UNCHANGED <<state, created, listeners, resumed, ending, hasMuxer>>,
         op' = op \/ op' = [op EXCEPT ![c] = "none"],
         muxerOpen' = muxerOpen \/ muxerOpen' = muxerOpen \ {c},
         identifying' = identifying \/ identifying' = identifying \ {c}
  PROVE  Steps(c)
<1>1. c \in Conns
  BY DEF CoreInv, TypeOK
<1>2. \A d \in Conns : ~Running(d) /\ Waits(d) /\ Stage(d)
  BY AllWait
<1>3. Idles
  <2>1. CloseF(c, TRUE) \in Due' /\ CloseF(c, FALSE) \in Due'
    BY DueFrames
  <2> QED
    BY <1>1, <2>1, TurnBegins, RunningOnes
<1>4. op'[c] \in {"none", op[c]} /\ \A d \in Conns : d # c => op'[d] = op[d]
  BY <1>1 DEF CoreInv, TypeOK
<1>5. Waits(c)'
  BY <1>1, <1>3, RunningOnes DEF Waits, Eager, Heard
<1>6. Stage(c)'
  <2>1. CASE op'[c] = op[c]
    BY <1>1, <1>2, <1>5, <2>1, StageKept
  <2>2. CASE op'[c] = "none"
    BY <1>1, <1>2, <1>5, <2>2 DEF Stage, Waits, Fresh
  <2> QED
    BY <1>4, <2>1, <2>2
<1>7. Spares(c)
  BY <1>2, <1>3, <1>4 DEF Spares, Idles
<1> QED
  BY <1>3, <1>5, <1>6, <1>7 DEF Steps, Idles, Waits, CoreInv

(* A callback that fires the next transition, whatever the state is by now.  *)
LEMMA AnsweringSteps ==
  ASSUME CoreInv, Quiet, NEW c \in created, NEW ev \in {"done", "stop"},
         AgendaInv', \A g : Top(g)' <=> g = StateF(c, ev),
         UNCHANGED <<state, created, listeners, resumed, identifying>>,
         \/ /\ op[c] # "none" /\ op' = [op EXCEPT ![c] = "none"] /\ ending' = ending
            /\ op[c] = "transport" => peerUp'
            /\ \/ hasMuxer' = hasMuxer /\ muxerOpen' = muxerOpen
               \/ /\ op[c] = "upgrade" /\ ev = "done" /\ hasMuxer' = hasMuxer \cup {c}
                  /\ muxerOpen' = muxerOpen \cup {c}
         \/ /\ ev = "done" /\ op' = op /\ ending[c] > 0
            /\ ending' = [ending EXCEPT ![c] = @ - 1]
            /\ hasMuxer' = hasMuxer \ {c} /\ muxerOpen' = muxerOpen
  PROVE  Steps(c)
<1>1. c \in Conns
  BY DEF CoreInv, TypeOK
<1>2. \A d \in Conns : ~Running(d) /\ Waits(d) /\ Stage(d)
  BY AllWait
<1>3. /\ \A d \in Conns : d # c => ~Running(d)'
      /\ \A x : Top(StateF(c, x))' <=> x = ev
      /\ \A x : ~Top(EmitF(c, x))'
  <2>1. Runs(StateF(c, ev))
    BY DEF Runs
  <2> QED
    BY <1>1, <2>1, RunningOnes
<1>4. /\ op[c] \in Ops /\ op'[c] \in {"none", op[c]} /\ \A d \in Conns : d # c => op'[d] = op[d]
      /\ ending[c] \in Nat /\ (ending'[c] = ending[c] \/ (ending[c] > 0 /\ ending'[c] = ending[c] - 1))
      /\ \A d \in Conns : d # c => ending'[d] = ending[d]
  BY <1>1 DEF CoreInv, TypeOK
<1>5. op[c] = "none" => state[c] \in Closing
  BY <1>1, <1>2 DEF Stage
<1>6. Stage(c)'
  <2>1. CASE op[c] # "none" /\ op'[c] = "none" /\ ending'[c] = ending[c]
    BY <1>1, <1>2, <1>3, <1>4, <2>1
    DEF Stage, Waits, Fresh, InFlight, Securing, Closing, Ops
  <2>2. CASE /\ ev = "done" /\ op' = op /\ ending[c] > 0
             /\ hasMuxer' = hasMuxer \ {c} /\ muxerOpen' = muxerOpen
    BY <1>1, <1>2, <1>3, <1>4, <2>2
    DEF Stage, Waits, Fresh, InFlight, Securing, Closing, Ops
  <2> QED
    BY <1>1, <2>1, <2>2 DEF CoreInv, TypeOK
<1>7. Spares(c)
  BY <1>2, <1>3, <1>4 DEF Spares
<1>8. state[c] = "DIALING" => peerUp'
  BY <1>1, <1>2, <1>4, <1>5 DEF Stage, InFlight, Securing, Closing, Ops
<1> QED
  BY <1>3, <1>6, <1>7, <1>8 DEF Steps, CoreInv

(* The callbacks of an attempt, of identify and of the muxer. *)
LEMMA SettlingSteps ==
  ASSUME CoreInv, NEW c \in Conns,
         AttemptSettles(c) \/ IdentifyEnds(c) \/ MuxerCloses(c) \/ MuxerEnds(c)
  PROVE  Steps(c)
<1>1. /\ Quiet /\ c \in created /\ <<>> \in Seq(PutOff) /\ created \subseteq Conns
      /\ resumed \subseteq created
      /\ UNCHANGED <<state, created, listeners, resumed>>
      /\ \A d, x : ~Top(EmitF(d, x))
  <2>1. /\ Quiet /\ UNCHANGED <<state, created, listeners, resumed>>
        /\ op[c] # "none" \/ ending[c] > 0 \/ c \in muxerOpen \cup identifying
    BY DEF AttemptSettles, TransportConnects, TransportFails, Protects, Encrypts, HandshakeFails,
           Upgrades, UpgradeFails, CallsBack, IdentifyEnds, MuxerCloses, MuxerEnds, fsmVars,
           queueVars
  <2> QED
    BY <2>1, AllWait DEF CoreInv, TypeOK
<1>2. /\ StateF(c, "done") \in Due' /\ StateF(c, "stop") \in Due' /\ IdentifyF(c) \in PutOff
  <2>1. c \in created'
    BY <1>1
  <2>2. StateF(c, "done") \in Due' /\ StateF(c, "stop") \in Due'
    BY <2>1, DueFrames DEF Eager
  <2>3. IdentifyF(c) \in PutOff
    BY <1>1 DEF PutOff
  <2> QED
    BY <2>2, <2>3
<1>3. /\ agenda' = <<StateF(c, "done")>> => Runs(StateF(c, "done"))
      /\ agenda' = <<StateF(c, "stop")>> => Runs(StateF(c, "stop"))
      /\ agenda' = <<StateF(c, "done")>> \o <<IdentifyF(c)>> => Runs(StateF(c, "done"))
  <2>1. <<IdentifyF(c)>> \in Seq(PutOff)
    BY <1>2
  <2> QED
    BY <1>1, <1>2, <2>1, TurnBegins, Turns DEF CoreInv, Runs
<1>4. CASE TransportConnects(c) \/ Encrypts(c) \/ (Protects(c) /\ base[c] = "set")
  BY <1>1, <1>3, <1>4, AnsweringSteps
  DEF TransportConnects, Encrypts, Protects, CallsBack, muxVars, Runs
<1>5. CASE TransportFails(c) \/ HandshakeFails(c) \/ (Protects(c) /\ base[c] # "set")
  BY <1>1, <1>5, FailingSteps
  DEF TransportFails, HandshakeFails, Protects, CallsBack, muxVars, Quiet
<1>6. CASE Upgrades(c)
  <2>1. /\ op[c] = "upgrade" /\ op' = [op EXCEPT ![c] = "none"]
        /\ hasMuxer' = hasMuxer \cup {c} /\ muxerOpen' = muxerOpen \cup {c}
        /\ UNCHANGED <<ending, identifying>>
    BY <1>6 DEF Upgrades, CallsBack
  <2>2. Runs(StateF(c, "done"))
    <3>1. CASE Identify
      BY <1>3, <1>6, <3>1 DEF Upgrades
    <3>2. CASE ~Identify
      BY <1>1, <1>2, <1>6, <3>2, Turns DEF Upgrades, CoreInv, Runs
    <3> QED
      BY <3>1, <3>2
  <2> QED
    <3>1. AgendaInv' /\ \A g : Top(g)' <=> g = StateF(c, "done")
      BY <2>2 DEF Runs
    <3> QED
      BY <1>1, <2>1, <3>1, AnsweringSteps
<1>7. CASE UpgradeFails(c)
  BY <1>1, <1>3, <1>7, AnsweringSteps DEF UpgradeFails, CallsBack, muxVars, Runs
<1>8. CASE IdentifyEnds(c) \/ MuxerCloses(c)
  BY <1>1, <1>8, FailingSteps DEF IdentifyEnds, MuxerCloses, opVars
<1>9. CASE MuxerEnds(c)
  <2>1. /\ ending[c] > 0 /\ ending' = [ending EXCEPT ![c] = @ - 1]
        /\ hasMuxer' = hasMuxer \ {c} /\ UNCHANGED <<op, muxerOpen, identifying>>
    BY <1>9 DEF MuxerEnds, opVars
  <2>2. Runs(StateF(c, "done"))
    BY <1>3, <1>9 DEF MuxerEnds, DisconnectedAtLast
  <2> QED
    BY <1>1, <2>1, <2>2, AnsweringSteps DEF Runs
<1> QED
  BY <1>4, <1>5, <1>6, <1>7, <1>8, <1>9 DEF AttemptSettles

(* Every step of a connection is one of these. *)
LEMMA ConnectionSteps ==
  ASSUME CoreInv, NEW c \in Conns,
         \/ Transitions(c) \/ Listeners(c) \/ Close(c) \/ StartsIdentify(c) \/ Creates(c)
         \/ AttemptSettles(c) \/ IdentifyEnds(c) \/ MuxerCloses(c) \/ MuxerEnds(c)
  PROVE  Steps(c)
  BY DialingSteps, EmittingSteps, BeginningSteps, MuxedSteps, DisconnectingSteps,
     DisconnectedSteps, RefusedSteps, ProgressSteps, HearingSteps, UnheardSteps, ClosingSteps,
     CreatingSteps, SettlingSteps
  DEF Transitions, Listeners

(* filter leaves the others tracked, each as often as before.               *)
LEMMA Removing ==
  ASSUME NEW S, tracked \in Seq(S), S \subseteq Conns, IsInjective(tracked), NEW c \in Conns
  PROVE  LET others == Filter(tracked, Conns \ {c})
         IN  /\ others \in Seq(S) /\ IsInjective(others)
             /\ Range(others) = Range(tracked) \ {c}
<1>1. /\ Filter(tracked, Conns \ {c}) \in Seq(S \cap (Conns \ {c}))
      /\ Range(Filter(tracked, Conns \ {c})) = Range(tracked) \cap (Conns \ {c})
      /\ IsInjective(Filter(tracked, Conns \ {c}))
  BY FilterSelects
<1>2. Range(tracked) \subseteq S
  BY DEF Range
<1>3. Filter(tracked, Conns \ {c}) \in Seq(S)
  BY <1>1
<1> QED
  BY <1>1, <1>2, <1>3

(* The types of a step, but for the agenda. *)
LEMMA TypesStep ==
  ASSUME TypeOK, Next, agenda' \in Seq(Frames)
  PROVE  TypeOK'
<1> USE DEF TypeOK
<1>1. CASE HangUp \/ ListenerReturns
  BY <1>1 DEF HangUp, ListenerReturns, fsmVars, opVars, muxVars, trackVars, queueVars
<1>2. ASSUME NEW c \in Conns, Transitions(c)
      PROVE  TypeOK'
  <2>1. \A s : Enters(c, s) => /\ state' \in [Conns -> States]
                               /\ UNCHANGED <<created, listeners>>
    <3> SUFFICES ASSUME NEW s, Enters(c, s)
                 PROVE  state' \in [Conns -> States] /\ UNCHANGED <<created, listeners>>
      OBVIOUS
    <3>1. state' = [state EXCEPT ![c] = s] /\ s \in States /\ UNCHANGED <<created, listeners>>
      BY Entering
    <3> QED
      BY <3>1
  <2>2. CASE EntersDialing(c)
    <3>1. PICK n \in TransportCounts :
            /\ left' = [left EXCEPT ![c] = n]
            /\ op' = [op EXCEPT ![c] = IF n = 0 THEN "none" ELSE "transport"]
      BY <2>2 DEF EntersDialing
    <3>2. left' \in [Conns -> Nat] /\ op' \in [Conns -> Ops]
      BY <3>1, ConnectionAssumption DEF Ops
    <3> QED
      BY <2>1, <2>2, <3>2 DEF EntersDialing, muxVars, trackVars, queueVars
  <2>3. CASE EntersAndEmits(c)
    BY <2>1, <2>3 DEF EntersAndEmits, opVars, muxVars, trackVars, queueVars
  <2>4. CASE EntersPrivatizing(c) \/ EntersEncrypting(c) \/ EntersUpgrading(c)
    <3>1. op' \in [Conns -> Ops]
      BY <2>4 DEF EntersPrivatizing, EntersEncrypting, EntersUpgrading, Begins, Ops
    <3> QED
      BY <2>1, <2>4, <3>1
      DEF EntersPrivatizing, EntersEncrypting, EntersUpgrading, Begins, muxVars, trackVars, queueVars
  <2>5. CASE EntersMuxed(c)
    BY <2>1, <2>5 DEF EntersMuxed, opVars, muxVars, trackVars
  <2>6. CASE EntersDisconnecting(c)
    <3>1. ending' \in [Conns -> Nat] /\ hasMuxer' \subseteq Conns
      <4>1. hasMuxer' \subseteq Conns
        BY <2>6 DEF EntersDisconnecting
      <4>2. ending' = ending \/ ending' = [ending EXCEPT ![c] = ending[c] + 1]
        BY <2>6 DEF EntersDisconnecting
      <4> QED
        BY <4>1, <4>2
    <3>2. base' \in [Conns -> {"none", "set", "dropped"}] /\ held' \in Conns \cup {NoConn}
      BY <2>6 DEF EntersDisconnecting
    <3> QED
      BY <2>1, <2>6, <3>1, <3>2 DEF EntersDisconnecting, trackVars
  <2>7. CASE EntersDisconnected(c)
    <3>1. tracked' \in Seq(Conns)
      <4>1. Filter(tracked, Conns \ {c}) \in Seq(Conns \cap (Conns \ {c}))
        BY FilterSelects
      <4>2. Filter(tracked, Conns \ {c}) \in Seq(Conns)
        BY <4>1
      <4> QED
        BY <2>7, <4>2 DEF EntersDisconnected, Remove
    <3>2. peerUp' \in BOOLEAN
      BY <2>7 DEF EntersDisconnected, Remove
    <3>3. ends' \in Nat /\ muxHeard' \in {"none", "established", "closed"}
      BY <2>7 DEF EntersDisconnected, Remove
    <3> QED
      BY <2>1, <2>7, <3>1, <3>2, <3>3 DEF EntersDisconnected, opVars, muxVars, queueVars
  <2>8. CASE Refuses(c)
    BY <2>8 DEF Refuses, fsmVars, opVars, muxVars, trackVars, queueVars
  <2> QED
    BY <1>2, <2>2, <2>3, <2>4, <2>5, <2>6, <2>7, <2>8 DEF Transitions
<1>3. ASSUME NEW c \in Conns, Listeners(c) \/ Close(c) \/ StartsIdentify(c)
      PROVE  TypeOK'
  <2>1. \A name : Hears(c, name) => /\ listeners' \in [Conns -> SUBSET Heard]
                                    /\ UNCHANGED <<state, created>>
    BY DEF Hears
  <2>2. CASE HearsProgress(c) \/ HearsError(c) \/ HearsMuxed(c) \/ HearsUnmuxedOrClose(c)
    BY <2>1, <2>2 DEF HearsProgress, HearsError, HearsMuxed, HearsUnmuxedOrClose, opVars, muxVars,
                      trackVars, queueVars
  <2>3. CASE Unheard(c) \/ Close(c)
    BY <2>3 DEF Unheard, Close, fsmVars, opVars, muxVars, trackVars, queueVars
  <2>4. CASE RemovesListeners(c)
    BY <2>4 DEF RemovesListeners, opVars, muxVars, trackVars, queueVars
  <2>5. CASE StartsIdentify(c)
    BY <2>5 DEF StartsIdentify, fsmVars, opVars, trackVars, queueVars
  <2> QED
    BY <1>3, <2>2, <2>3, <2>4, <2>5 DEF Listeners
<1>4. ASSUME NEW c \in Conns, Creates(c) \/ IdentifyEnds(c) \/ MuxerCloses(c)
      PROVE  TypeOK'
  <2>1. CASE Creates(c)
    BY <2>1 DEF Creates, opVars, muxVars, queueVars
  <2>2. CASE IdentifyEnds(c) \/ MuxerCloses(c)
    BY <2>2 DEF IdentifyEnds, MuxerCloses, fsmVars, opVars, trackVars, queueVars
  <2> QED
    BY <1>4, <2>1, <2>2
<1>5. ASSUME NEW c \in Conns, AttemptSettles(c) \/ MuxerEnds(c)
      PROVE  TypeOK'
  <2>1. CASE TransportConnects(c) \/ Encrypts(c)
    BY <2>1 DEF TransportConnects, Encrypts, CallsBack, Ops, fsmVars, muxVars, trackVars, queueVars
  <2>2. CASE Protects(c) \/ HandshakeFails(c)
    BY <2>2 DEF Protects, HandshakeFails, CallsBack, Ops, fsmVars, muxVars, trackVars, queueVars
  <2>3. CASE TransportFails(c)
    <3>1. op' \in [Conns -> Ops]
      BY <2>3 DEF TransportFails, Ops
    <3>2. left' \in [Conns -> Nat]
      <4>1. CASE left[c] > 1
        <5>1. left[c] - 1 \in Nat /\ left' = [left EXCEPT ![c] = left[c] - 1]
          BY <2>3, <4>1 DEF TransportFails, TransportsLeft
        <5> QED
          BY <5>1
      <4>2. CASE ~(left[c] > 1)
        BY <2>3, <4>2 DEF TransportFails, TransportsLeft
      <4> QED
        BY <4>1, <4>2
    <3> QED
      BY <2>3, <3>1, <3>2 DEF TransportFails, fsmVars, muxVars, trackVars, queueVars
  <2>4. CASE Upgrades(c) \/ UpgradeFails(c)
    BY <2>4 DEF Upgrades, UpgradeFails, CallsBack, Ops, fsmVars, muxVars, trackVars, queueVars
  <2>5. CASE MuxerEnds(c)
    BY <2>5 DEF MuxerEnds, fsmVars, opVars, trackVars, queueVars
  <2> QED
    BY <1>5, <2>1, <2>2, <2>3, <2>4, <2>5 DEF AttemptSettles
<1> QED
  BY <1>1, <1>2, <1>3, <1>4, <1>5 DEF Next, Turn

(* Every step keeps the types, the turn and the stages. *)
LEMMA CoreStep ==
  ASSUME CoreInv, tracked \in Seq(created), Next
  PROVE  CoreInv'
<1>1. AgendaInv' /\ resumed' \subseteq created' /\ StageInv'
  BY ConnectionSteps, StagesStep, CallsStep DEF Next, Turn, Steps, CoreInv
<1>2. TypeOK'
  BY <1>1, TypesStep DEF CoreInv, AgendaInv
<1> QED
  BY <1>1, <1>2 DEF CoreInv

-----------------------------------------------------------------------------
(* What is tracked, and what the world knows.                               *)

(* The steps of a connection that leave its state: none is the dial, or the   *)
(* end of a disconnect, that is due.                                        *)
Stays(c) ==
  \/ Refuses(c) \/ Listeners(c) \/ Close(c) \/ StartsIdentify(c)
  \/ AttemptSettles(c) \/ IdentifyEnds(c) \/ MuxerCloses(c) \/ MuxerEnds(c)

(* They leave what is tracked alone, and dial nothing. *)
LEMMA Staying ==
  ASSUME CoreInv, NEW c \in Conns, Stays(c)
  PROVE  /\ UNCHANGED <<state, created, tracked>>
         /\ ~Top(StateF(c, "dial"))
         /\ Top(StateF(c, "done")) => state[c] \notin Closing
         /\ peerUp' = peerUp \/ (TransportConnects(c) /\ peerUp' = TRUE)
         /\ ends' = ends
<1>1. /\ UNCHANGED <<state, created, tracked, ends>>
      /\ peerUp' = peerUp \/ (TransportConnects(c) /\ peerUp' = TRUE)
  <2>1. CASE Refuses(c)
    BY <2>1 DEF Refuses, fsmVars, trackVars
  <2>2. CASE Listeners(c)
    BY <2>2 DEF Listeners, HearsProgress, HearsError, HearsMuxed, HearsUnmuxedOrClose, Unheard,
                RemovesListeners, Hears, fsmVars, trackVars
  <2>3. CASE Close(c) \/ StartsIdentify(c)
    BY <2>3 DEF Close, StartsIdentify, fsmVars, trackVars
  <2>4. CASE AttemptSettles(c)
    BY <2>4 DEF AttemptSettles, TransportConnects, TransportFails, Protects, Encrypts,
                HandshakeFails, Upgrades, UpgradeFails, fsmVars, trackVars
  <2>5. CASE IdentifyEnds(c) \/ MuxerCloses(c) \/ MuxerEnds(c)
    BY <2>5 DEF IdentifyEnds, MuxerCloses, MuxerEnds, fsmVars, trackVars
  <2> QED
    BY <2>1, <2>2, <2>3, <2>4, <2>5 DEF Stays
<1>2. ~Top(StateF(c, "dial")) /\ (Top(StateF(c, "done")) => state[c] \notin Closing)
  <2>1. CASE Refuses(c)
    <3>1. PICK ev \in Eager \cup {"disconnect"} :
            /\ Top(StateF(c, ev))
            /\ ev = "dial" => state[c] # "DISCONNECTED"
            /\ ev = "done" => state[c] \notin Closing
      BY <2>1, Refusing DEF CoreInv
    <3>2. Stage(c) /\ \A x : Top(StateF(c, x)) => x = ev
      BY <3>1, TransitionRuns
    <3> QED
      BY <3>1, <3>2 DEF Stage, Fresh
  <2>2. CASE Listeners(c) \/ Close(c) \/ StartsIdentify(c)
    <3>1. \/ \E x : Top(EmitF(c, x)) \/ Top(CloseF(c, x))
          \/ Top(RemoveAllF(c)) \/ Top(IdentifyF(c))
      BY <2>2 DEF Listeners, HearsProgress, HearsError, HearsMuxed, HearsUnmuxedOrClose, Hears,
                  Unheard, RemovesListeners, Close, StartsIdentify
    <3> QED
      BY <3>1, FramesDiffer DEF Top
  <2>3. CASE AttemptSettles(c) \/ IdentifyEnds(c) \/ MuxerCloses(c) \/ MuxerEnds(c)
    BY <2>3 DEF AttemptSettles, TransportConnects, TransportFails, Protects, Encrypts,
                HandshakeFails, Upgrades, UpgradeFails, CallsBack, IdentifyEnds, MuxerCloses,
                MuxerEnds, Quiet, Top
  <2> QED
    BY <2>1, <2>2, <2>3 DEF Stays
<1> QED
  BY <1>1, <1>2

(* The transitions that change the state, but for the last.                 *)
Proceeds(c) ==
  \/ EntersDialing(c) \/ EntersAndEmits(c) \/ EntersPrivatizing(c) \/ EntersEncrypting(c)
  \/ EntersUpgrading(c) \/ EntersMuxed(c) \/ EntersDisconnecting(c)

(* Which state each leads to, and from where. *)
LEMMA Proceeding ==
  ASSUME CoreInv, NEW c \in Conns, Proceeds(c)
  PROVE  /\ UNCHANGED <<created, trackVars, resumed>>
         /\ \E s : state' = [state EXCEPT ![c] = s]
         /\ state'[c] # "DISCONNECTED"
         /\ state[c] # "DISCONNECTED" \/ Top(StateF(c, "dial"))
         /\ ~(Top(StateF(c, "done")) /\ state[c] \in Closing)
         /\ state'[c] = "DIALING" => state[c] = "DISCONNECTED"
         /\ state'[c] = "DISCONNECTING" =>
              state[c] # "DISCONNECTED" /\ Top(StateF(c, "disconnect")) /\ hasMuxer' \subseteq hasMuxer
         /\ state'[c] \notin {"DIALING", "DISCONNECTING"} =>
              \/ state[c] = "DIALING" /\ Top(StateF(c, "done"))
              \/ state[c] \notin Closing \cup {"DIALING"}
         /\ state'[c] = "MUXED" => state[c] = "UPGRADING"
<1>1. PICK s \in States \ {"DISCONNECTED"} :
        /\ Enters(c, s) /\ UNCHANGED <<trackVars, resumed>>
        /\ s = "DISCONNECTING" => hasMuxer' \subseteq hasMuxer
  <2>1. CASE EntersDialing(c)
    BY <2>1 DEF EntersDialing, queueVars, States, Table
  <2>2. CASE EntersAndEmits(c)
    BY <2>2 DEF EntersAndEmits, Emitting, queueVars, States, Table
  <2>3. CASE EntersPrivatizing(c) \/ EntersEncrypting(c) \/ EntersUpgrading(c)
    BY <2>3 DEF EntersPrivatizing, EntersEncrypting, EntersUpgrading, Begins, queueVars, States, Table
  <2>4. CASE EntersMuxed(c) \/ EntersDisconnecting(c)
    BY <2>4 DEF EntersMuxed, EntersDisconnecting, States, Table
  <2> QED
    BY <2>1, <2>2, <2>3, <2>4 DEF Proceeds
<1>2. /\ state' = [state EXCEPT ![c] = s] /\ UNCHANGED created
      /\ state'[c] = s
  BY <1>1, Entering DEF CoreInv, TypeOK
<1>3. /\ state[c] # "DISCONNECTED" \/ Top(StateF(c, "dial"))
      /\ s = "DIALING" => state[c] = "DISCONNECTED"
      /\ s = "DISCONNECTING" => state[c] # "DISCONNECTED" /\ Top(StateF(c, "disconnect"))
      /\ s \notin {"DIALING", "DISCONNECTING"} =>
              \/ state[c] = "DIALING" /\ Top(StateF(c, "done"))
              \/ state[c] \notin Closing \cup {"DIALING"}
      /\ s = "MUXED" => state[c] = "UPGRADING"
  BY <1>1, Entering DEF CoreInv, States, Table, Closing
<1>4. ~(Top(StateF(c, "done")) /\ state[c] \in Closing)
  BY <1>1, <1>3, Entering, FramesDiffer DEF CoreInv, Closing, Top
<1> QED
  BY <1>1, <1>2, <1>3, <1>4

(* A step that neither creates nor removes a connection. *)
LEMMA TrackKept ==
  ASSUME CoreInv, TrackInv, NEW c \in Conns, Steps(c), UNCHANGED <<tracked, created>>,
         state'[c] # "DISCONNECTED" <=> state[c] # "DISCONNECTED" \/ Top(StateF(c, "dial"))
  PROVE  TrackInv'
<1>1. ASSUME NEW d \in created, d \in Conns
      PROVE  IsTracked(d)' <=> state'[d] # "DISCONNECTED" \/ Top(StateF(d, "dial"))'
  <2>1. IsTracked(d)' <=> state[d] # "DISCONNECTED" \/ Top(StateF(d, "dial"))
    BY DEF TrackInv, IsTracked
  <2>2. CASE d = c
    BY <2>1, <2>2 DEF Steps
  <2>3. CASE d # c
    BY <1>1, <2>1, <2>3 DEF Steps, Spares, Running, Eager
  <2> QED
    BY <2>2, <2>3
<1> QED
  BY <1>1 DEF TrackInv, CoreInv, TypeOK

WorldInv == TrackInv /\ PeerInv /\ MuxInv

(* A new connection is tracked, and dialed next. *)
LEMMA CreatingKeepsWorld ==
  ASSUME CoreInv, WorldInv, NEW c \in Conns, Creates(c)
  PROVE  WorldInv'
<1>1. /\ c \notin created /\ created' = created \cup {c} /\ tracked' = Append(tracked, c)
      /\ UNCHANGED <<state, resumed, peerUp, muxHeard>>
      /\ Quiet \/ Top(ListenerF)
  BY DEF Creates, MayCall, queueVars
<1>2. /\ Steps(c) /\ Fresh(c) /\ \A d \in Conns : ~Running(d)
  BY <1>1, ConnectionSteps, AllWait DEF Stage
<1>3. /\ tracked \in Seq(created) /\ IsInjective(tracked) /\ created \subseteq Conns
      /\ Len(tracked) \in Nat /\ DOMAIN tracked = 1 .. Len(tracked)
      /\ \A i \in DOMAIN tracked : tracked[i] \in created
  BY DEF WorldInv, TrackInv, CoreInv, TypeOK
<1> DEFINE n == Len(tracked)
           t == Append(tracked, c)
<1>4. /\ t \in Seq(created') /\ t # <<>>
      /\ DOMAIN t = 1 .. n + 1 /\ t[n + 1] = c /\ n \in Nat
      /\ \A i \in 1 .. n : t[i] = tracked[i]
  BY <1>1, <1>3
<1>5. tracked' = t
  BY <1>1
<1> HIDE DEF n, t
<1>6. IsInjective(t)
  BY <1>1, <1>3, <1>4 DEF IsInjective, n
<1>7. \A d \in created' : IsTracked(d)' <=> d = c \/ IsTracked(d)
  BY <1>1, <1>3, <1>4, <1>5 DEF IsTracked, n
<1>8. ASSUME NEW d \in created'
      PROVE  IsTracked(d)' <=> state'[d] # "DISCONNECTED" \/ Top(StateF(d, "dial"))'
  <2>1. CASE d = c
    <3>1. agenda' = <<StateF(c, "dial")>> \o agenda
      BY DEF Creates
    <3>2. agenda \in Seq(Frames) /\ StateF(c, "dial") \in Frames
      BY DEF CoreInv, AgendaInv, Frames
    <3>3. Top(StateF(c, "dial"))'
      BY <3>1, <3>2 DEF Top
    <3> QED
      BY <1>7, <2>1, <3>3
  <2>2. CASE d # c
    <3>1. d \in created /\ d \in Conns
      BY <1>1, <1>3, <2>2
    <3>2. ~Top(StateF(d, "dial")) /\ ~Top(StateF(d, "dial"))'
      BY <1>2, <2>2, <3>1 DEF Steps, Spares, Running, Eager
    <3> QED
      BY <1>1, <1>7, <2>2, <3>1, <3>2 DEF WorldInv, TrackInv
  <2> QED
    BY <2>1, <2>2
<1>9. TrackInv'
  BY <1>4, <1>5, <1>6, <1>8 DEF TrackInv
<1>10. PeerInv'
  <2>1. ASSUME NEW d \in created'
        PROVE  /\ state[d] \notin Closing \cup {"DIALING"} => peerUp
               /\ state[d] = "DISCONNECTING" => peerUp
               /\ state[d] = "DIALING" /\ Top(StateF(d, "done"))' => peerUp
    <3>1. CASE d = c
      BY <1>2, <3>1 DEF Fresh, Closing
    <3>2. CASE d # c
      <4>1. d \in created /\ d \in Conns
        BY <1>1, <1>3, <3>2
      <4>2. ~Top(StateF(d, "done")) /\ ~Top(StateF(d, "done"))'
        BY <1>2, <3>2, <4>1 DEF Steps, Spares, Running, Eager
      <4> QED
        BY <4>1, <4>2 DEF WorldInv, PeerInv
    <3> QED
      BY <3>1, <3>2
  <2> QED
    BY <1>1, <1>4, <1>5, <2>1 DEF PeerInv
<1>11. MuxInv'
  BY <1>1, <1>4, <1>5 DEF WorldInv, MuxInv
<1> QED
  BY <1>9, <1>10, <1>11 DEF WorldInv

(* A connection that is disconnected is not tracked any more: the others go    *)
(* on, and without any the peer is disconnected.                            *)
LEMMA RemovingKeepsWorld ==
  ASSUME CoreInv, WorldInv, NEW c \in Conns, EntersDisconnected(c)
  PROVE  WorldInv'
<1> DEFINE others == Filter(tracked, Conns \ {c})
<1>1. /\ state' = [state EXCEPT ![c] = "DISCONNECTED"] /\ UNCHANGED <<created, resumed>>
      /\ \E ev \in {"done", "disconnect"} : Top(StateF(c, ev))
  BY Entering DEF CoreInv, EntersDisconnected, queueVars
<1>2. /\ tracked' = others /\ peerUp' = (peerUp /\ others # <<>>)
      /\ muxHeard' = IF others = <<>> THEN "closed" ELSE muxHeard
  BY DEF EntersDisconnected, Remove
<1>3. Steps(c) /\ created \subseteq Conns
  BY ConnectionSteps DEF Transitions, CoreInv, TypeOK
<1>4. /\ others \in Seq(created) /\ IsInjective(others)
      /\ Range(others) = Range(tracked) \ {c}
  BY <1>3, Removing DEF WorldInv, TrackInv
<1> HIDE DEF others
<1>5. /\ state'[c] = "DISCONNECTED"
      /\ \A d \in Conns : d # c => /\ state'[d] = state[d] /\ ~Running(d) /\ ~Running(d)'
  BY <1>1, <1>3 DEF Steps, Spares, CoreInv, TypeOK
<1>6. \A d : /\ IsTracked(d) <=> d \in Range(tracked)
             /\ IsTracked(d)' <=> d \in Range(others)
  BY <1>2 DEF IsTracked, Range
<1>7. c \in created /\ ~Top(StateF(c, "dial"))'
  BY <1>1, <1>3, TransitionRuns DEF Steps
<1>8. ASSUME NEW d \in created, d # c
      PROVE  /\ IsTracked(d)' <=> state[d] # "DISCONNECTED"
             /\ state[d] # "DISCONNECTED" => others # <<>>
  <2>1. d \in Conns /\ ~Running(d)
    BY <1>3, <1>5, <1>8
  <2>2. IsTracked(d) <=> state[d] # "DISCONNECTED"
    BY <2>1 DEF WorldInv, TrackInv, Running, Eager
  <2>3. IsTracked(d)' <=> state[d] # "DISCONNECTED"
    BY <1>4, <1>6, <1>8, <2>2
  <2>4. others = <<>> => Range(others) = {}
    BY DEF Range
  <2> QED
    BY <1>6, <2>3, <2>4
<1>9. TrackInv'
  <2>1. ASSUME NEW d \in created
        PROVE  IsTracked(d)' <=> state'[d] # "DISCONNECTED" \/ Top(StateF(d, "dial"))'
    <3>1. CASE d = c
      BY <1>4, <1>5, <1>6, <1>7, <3>1
    <3>2. CASE d # c
      BY <1>3, <1>5, <1>8, <3>2 DEF Running, Eager
    <3> QED
      BY <3>1, <3>2
  <2> QED
    BY <1>1, <1>2, <1>4, <2>1 DEF TrackInv
<1>10. PeerInv'
  <2>1. ASSUME NEW d \in created
        PROVE  /\ state'[d] \notin Closing \cup {"DIALING"} => peerUp'
               /\ state'[d] = "DISCONNECTING" => peerUp'
               /\ state'[d] = "DIALING" /\ Top(StateF(d, "done"))' => peerUp'
    <3>1. CASE d = c
      BY <1>5, <3>1 DEF Closing
    <3>2. CASE d # c
      <4>1. /\ ~Top(StateF(d, "done")) /\ ~Top(StateF(d, "done"))' /\ state'[d] = state[d]
            /\ state[d] # "DISCONNECTED" => others # <<>>
        BY <1>3, <1>5, <1>8, <3>2 DEF Running, Eager
      <4> QED
        BY <1>2, <4>1 DEF WorldInv, PeerInv, Closing
    <3> QED
      BY <3>1, <3>2
  <2> QED
    BY <1>1, <1>2, <2>1 DEF PeerInv
<1>11. MuxInv'
  <2>1. ASSUME NEW d \in resumed, state'[d] = "MUXED"
        PROVE  muxHeard' = "established"
    <3>1. d \in created /\ d # c /\ d \in Conns
      BY <1>3, <1>5, <2>1 DEF CoreInv
    <3> QED
      BY <1>2, <1>5, <1>8, <2>1, <3>1 DEF WorldInv, MuxInv
  <2> QED
    BY <1>1, <1>2, <2>1 DEF MuxInv, WorldInv
<1> QED
  BY <1>9, <1>10, <1>11 DEF WorldInv

(* The other transitions: a peer past its dial is connected. *)
LEMMA ProceedingKeepsWorld ==
  ASSUME CoreInv, WorldInv, NEW c \in Conns, Proceeds(c)
  PROVE  WorldInv'
<1>1. /\ UNCHANGED <<created, tracked, peerUp, muxHeard, resumed>>
      /\ state'[c] # "DISCONNECTED"
      /\ state[c] # "DISCONNECTED" \/ Top(StateF(c, "dial"))
      /\ ~(Top(StateF(c, "done")) /\ state[c] \in Closing)
      /\ state'[c] = "DIALING" => state[c] = "DISCONNECTED"
      /\ state'[c] = "DISCONNECTING" =>
              state[c] # "DISCONNECTED" /\ Top(StateF(c, "disconnect")) /\ hasMuxer' \subseteq hasMuxer
      /\ state'[c] \notin {"DIALING", "DISCONNECTING"} =>
              \/ state[c] = "DIALING" /\ Top(StateF(c, "done"))
              \/ state[c] \notin Closing \cup {"DIALING"}
      /\ state'[c] = "MUXED" => state[c] = "UPGRADING"
  BY Proceeding DEF trackVars
<1>2. /\ Steps(c) /\ Stage(c) /\ created \subseteq Conns
  BY ConnectionSteps DEF Proceeds, Transitions, CoreInv, StageInv, TypeOK
<1>3. TrackInv'
  BY <1>1, <1>2, TrackKept DEF WorldInv
<1>4. \A d \in Conns : d # c => /\ state'[d] = state[d]
                                /\ ~Top(StateF(d, "done")) /\ ~Top(StateF(d, "done"))'
  BY <1>2 DEF Steps, Spares, Running, Eager
<1>5. c \in created
  BY <1>1, <1>2, Heads DEF Stage, Fresh, CoreInv
<1>6. PeerInv'
  <2>1. /\ state'[c] \notin Closing \cup {"DIALING"} => peerUp
        /\ state'[c] = "DIALING" /\ Top(StateF(c, "done"))' => peerUp
    BY <1>1, <1>2, <1>5 DEF WorldInv, PeerInv, Closing, Steps
  <2>2. state'[c] = "DISCONNECTING" => peerUp \/ Top(StateF(c, "done"))'
    <3> SUFFICES ASSUME state'[c] = "DISCONNECTING", ~Top(StateF(c, "done"))'
                 PROVE  peerUp
      OBVIOUS
    <3>1. c \in hasMuxer' /\ c \in hasMuxer /\ ~Top(StateF(c, "done")) /\ state[c] # "DISCONNECTED"
      <4>1. Stage(c)'
        BY <1>2 DEF Steps
      <4>2. c \in hasMuxer'
        BY <4>1 DEF Stage
      <4> QED
        BY <1>1, <4>2, FramesDiffer DEF Top
    <3>2. state[c] # "DIALING"
      BY <1>2, <3>1 DEF Stage, InFlight
    <3> QED
      BY <1>5, <3>1, <3>2 DEF WorldInv, PeerInv, Closing
  <2>3. ~(tracked = <<>> /\ peerUp)
    <3> SUFFICES ASSUME tracked = <<>>, peerUp PROVE FALSE
      OBVIOUS
    <3>1. PICK d \in created : Top(StateF(d, "done")) /\ state[d] = "DISCONNECTED"
      BY DEF WorldInv, PeerInv
    <3> QED
      BY <1>1, <1>2, <1>4, <3>1 DEF Closing
  <2> QED
    BY <1>1, <1>2, <1>4, <2>1, <2>2, <2>3 DEF WorldInv, PeerInv
<1>7. MuxInv'
  <2>1. ASSUME NEW d \in resumed, state'[d] = "MUXED"
        PROVE  state[d] = "MUXED"
    <3>1. d # c
      BY <1>1, <1>2, <2>1 DEF Stage, InFlight, Securing
    <3> QED
      BY <1>2, <1>4, <2>1, <3>1 DEF CoreInv
  <2> QED
    BY <1>1, <2>1 DEF WorldInv, MuxInv
<1> QED
  BY <1>3, <1>6, <1>7 DEF WorldInv

(* The steps that leave the states alone. *)
LEMMA StayingKeepsWorld ==
  ASSUME CoreInv, WorldInv, NEW c \in Conns, Stays(c)
  PROVE  WorldInv'
<1>1. /\ UNCHANGED <<state, created, tracked>>
      /\ ~Top(StateF(c, "dial"))
      /\ Top(StateF(c, "done")) => state[c] \notin Closing
      /\ peerUp' = peerUp \/ (TransportConnects(c) /\ peerUp' = TRUE)
  BY Staying
<1>2. /\ Steps(c) /\ Stage(c) /\ created \subseteq Conns
  BY ConnectionSteps DEF Stays, Transitions, CoreInv, StageInv, TypeOK
<1>3. TrackInv'
  BY <1>1, <1>2, TrackKept DEF WorldInv
<1>4. \A d \in Conns : d # c => ~Top(StateF(d, "done")) /\ ~Top(StateF(d, "done"))'
  BY <1>2 DEF Steps, Spares, Running, Eager
<1>5. ~(tracked = <<>> /\ peerUp)
  <2> SUFFICES ASSUME tracked = <<>>, peerUp PROVE FALSE
    OBVIOUS
  <2>1. PICK d \in created : Top(StateF(d, "done")) /\ state[d] = "DISCONNECTED"
    BY DEF WorldInv, PeerInv
  <2> QED
    BY <1>1, <1>2, <1>4, <2>1 DEF Closing
<1>6. PeerInv'
  <2>1. ASSUME NEW d \in created
        PROVE  /\ state[d] \notin Closing \cup {"DIALING"} => peerUp'
               /\ state[d] = "DISCONNECTING" => peerUp'
               /\ state[d] = "DIALING" /\ Top(StateF(d, "done"))' => peerUp'
    <3>1. CASE d = c
      BY <1>1, <1>2, <3>1 DEF WorldInv, PeerInv, Closing, Steps
    <3>2. CASE d # c
      BY <1>1, <1>2, <1>4, <3>2 DEF WorldInv, PeerInv
    <3> QED
      BY <3>1, <3>2
  <2>2. ASSUME TransportConnects(c), tracked = <<>>
        PROVE  c \in created /\ Top(StateF(c, "done"))' /\ state[c] = "DISCONNECTED"
    <3>1. op[c] = "transport" /\ agenda' = <<StateF(c, "done")>>
      BY <2>2 DEF TransportConnects, CallsBack
    <3>2. c \in created
      BY <1>2, <3>1 DEF Stage, Fresh
    <3>3. ~IsTracked(c)
      BY <2>2 DEF IsTracked
    <3>4. state[c] = "DISCONNECTED"
      BY <3>2, <3>3 DEF WorldInv, TrackInv
    <3> QED
      BY <3>1, <3>2, <3>4 DEF Top
  <2> QED
    BY <1>1, <1>5, <2>1, <2>2 DEF PeerInv
<1>7. MuxInv'
  <2>1. CASE HearsMuxed(c)
    <3>1. /\ muxHeard' = "established" /\ Top(EmitF(c, "muxed"))
      BY <2>1 DEF HearsMuxed, Hears
    <3>2. c \in created /\ state[c] = "MUXED"
      BY <1>2, <3>1, Heads DEF Stage, CoreInv
    <3>3. IsTracked(c)
      BY <3>2 DEF WorldInv, TrackInv
    <3>4. tracked # <<>>
      BY <3>3 DEF IsTracked
    <3> QED
      BY <1>1, <3>1, <3>4 DEF MuxInv
  <2>2. CASE HearsUnmuxedOrClose(c)
    <3>1. resumed' = resumed \cup {c} /\ UNCHANGED muxHeard
      BY <2>2 DEF HearsUnmuxedOrClose, trackVars
    <3>2. state[c] # "MUXED"
      BY <1>2, <2>2 DEF HearsUnmuxedOrClose, Hears, Stage
    <3> QED
      BY <1>1, <3>1, <3>2 DEF WorldInv, MuxInv
  <2>3. CASE ~HearsMuxed(c) /\ ~HearsUnmuxedOrClose(c)
    <3>1. UNCHANGED <<resumed, muxHeard>>
      <4>1. CASE Refuses(c) \/ Listeners(c) \/ Close(c) \/ StartsIdentify(c)
        BY <2>3, <4>1 DEF Refuses, Listeners, HearsProgress, HearsError, Unheard, RemovesListeners,
                          Close, StartsIdentify, trackVars, queueVars
      <4>2. CASE AttemptSettles(c) \/ IdentifyEnds(c) \/ MuxerCloses(c) \/ MuxerEnds(c)
        BY <4>2 DEF AttemptSettles, TransportConnects, TransportFails, Protects, Encrypts,
                    HandshakeFails, Upgrades, UpgradeFails, IdentifyEnds, MuxerCloses, MuxerEnds,
                    trackVars, queueVars
      <4> QED
        BY <4>1, <4>2 DEF Stays
    <3> QED
      BY <1>1, <3>1 DEF WorldInv, MuxInv
  <2> QED
    BY <2>1, <2>2, <2>3
<1> QED
  BY <1>3, <1>6, <1>7 DEF WorldInv

(* A hang-up, and a listener that returns, leave it all as it is. *)
LEMMA CallsKeepWorld ==
  ASSUME CoreInv, WorldInv, HangUp \/ ListenerReturns
  PROVE  WorldInv'
<1>1. /\ UNCHANGED <<state, created, tracked, peerUp, muxHeard, resumed>>
      /\ created \subseteq Conns
  BY DEF HangUp, ListenerReturns, fsmVars, trackVars, queueVars, CoreInv, TypeOK
<1>2. \A c \in Conns : Waits(c) /\ Waits(c)'
  BY CallsStep DEF WorldInv, TrackInv
<1> QED
  BY <1>1, <1>2 DEF WorldInv, TrackInv, PeerInv, MuxInv, Waits, IsTracked

ConnectionInv == CoreInv /\ WorldInv

(* Nothing has happened at first. *)
LEMMA InitIsInvariant == Init => ConnectionInv
<1> SUFFICES ASSUME Init PROVE ConnectionInv
  OBVIOUS
<1>1. TypeOK
  <2>1. "DISCONNECTED" \in States /\ "none" \in Ops
    BY DEF States, Table, Ops
  <2>2. state \in [Conns -> States] /\ op \in [Conns -> Ops]
    BY <2>1 DEF Init
  <2>3. /\ listeners \in [Conns -> SUBSET Heard]
        /\ left \in [Conns -> Nat] /\ ending \in [Conns -> Nat]
        /\ base \in [Conns -> {"none", "set", "dropped"}]
    BY DEF Init
  <2>4. tracked \in Seq(Conns) /\ agenda \in Seq(Frames)
    BY DEF Init
  <2>5. /\ created \subseteq Conns /\ hasMuxer \subseteq Conns /\ muxerOpen \subseteq Conns
        /\ identifying \subseteq Conns /\ resumed \subseteq Conns
        /\ held \in Conns \cup {NoConn} /\ peerUp \in BOOLEAN /\ ends \in Nat
        /\ muxHeard \in {"none", "established", "closed"}
    BY DEF Init
  <2> QED
    BY <2>2, <2>3, <2>4, <2>5 DEF TypeOK
<1>2. AgendaInv /\ resumed \subseteq created
  BY DEF Init, AgendaInv
<1>3. StageInv
  BY DEF Init, StageInv, Stage, Fresh, Top, InFlight, Securing
<1>4. WorldInv
  BY DEF Init, WorldInv, TrackInv, PeerInv, MuxInv, IsInjective
<1> QED
  BY <1>1, <1>2, <1>3, <1>4 DEF ConnectionInv, CoreInv

(* Every step keeps the invariant. *)
LEMMA NextIsInvariant == ConnectionInv /\ [Next]_vars => ConnectionInv'
<1> SUFFICES ASSUME ConnectionInv, [Next]_vars PROVE ConnectionInv'
  OBVIOUS
<1>1. CASE UNCHANGED vars
  <2>1. /\ UNCHANGED fsmVars /\ UNCHANGED opVars /\ UNCHANGED muxVars
        /\ UNCHANGED trackVars /\ UNCHANGED queueVars /\ UNCHANGED agenda
    BY <1>1 DEF vars
  <2>2. TypeOK'
    BY <2>1 DEF fsmVars, opVars, muxVars, trackVars, queueVars, ConnectionInv, CoreInv, TypeOK
  <2>3. AgendaInv' /\ (resumed \subseteq created)'
    <3>1. Due' = Due /\ PutOff' = PutOff /\ Rest' = Rest
      BY <2>1 DEF fsmVars, queueVars, Due, PutOff, Told, Rest, Top
    <3> QED
      BY <2>1, <3>1 DEF fsmVars, queueVars, ConnectionInv, CoreInv, AgendaInv
  <2>4. \A f : Top(f)' <=> Top(f)
    BY <2>1 DEF Top
  <2>5. \A c \in Conns : Stage(c)'
    <3> TAKE c \in Conns
    <3>1. Stage(c)
      BY DEF ConnectionInv, CoreInv, StageInv
    <3>2. /\ UNCHANGED <<state, created, listeners, op, hasMuxer, muxerOpen, ending, identifying,
                        resumed>>
      BY <2>1 DEF fsmVars, opVars, muxVars, queueVars
    <3>3. Fresh(c)' <=> Fresh(c)
      BY <3>2 DEF Fresh
    <3> QED
      BY <2>4, <3>1, <3>2, <3>3 DEF Stage
  <2>6. WorldInv'
    BY <2>1, <2>4 DEF fsmVars, trackVars, queueVars, ConnectionInv, WorldInv, TrackInv, PeerInv,
       MuxInv, IsTracked
  <2> QED
    BY <2>2, <2>3, <2>5, <2>6 DEF ConnectionInv, CoreInv, StageInv
<1>2. CASE Next
  <2>1. CoreInv'
    BY <1>2, CoreStep DEF ConnectionInv, WorldInv, TrackInv
  <2>2. WorldInv'
    <3>1. CASE HangUp \/ ListenerReturns
      BY <3>1, CallsKeepWorld DEF ConnectionInv
    <3>2. ASSUME NEW c \in Conns, Creates(c) \/ EntersDisconnected(c) \/ Proceeds(c) \/ Stays(c)
          PROVE  WorldInv'
      BY <3>2, CreatingKeepsWorld, RemovingKeepsWorld, ProceedingKeepsWorld, StayingKeepsWorld
      DEF ConnectionInv
    <3> QED
      BY <1>2, <3>1, <3>2 DEF Next, Turn, Transitions, Stays, Proceeds
  <2> QED
    BY <2>1, <2>2 DEF ConnectionInv
<1> QED
  BY <1>1, <1>2

(* The strengthened invariant holds throughout. *)
THEOREM ConnectionInvariant == Spec => []ConnectionInv
<1>1. Init => ConnectionInv
  BY InitIsInvariant
<1>2. ConnectionInv /\ [Next]_vars => ConnectionInv'
  BY NextIsInvariant
<1> QED
  BY <1>1, <1>2, PTL DEF Spec

(* Every variable of the connections keeps its type                         *)
(* (src/connection/index.js).                                               *)
THEOREM TypeCorrect == Spec => []TypeOK
<1>1. ConnectionInv => TypeOK
  BY DEF ConnectionInv, CoreInv
<1> QED
  BY <1>1, ConnectionInvariant, PTL

(* Between turns the ConnectionManager tracks exactly the connections that    *)
(* are not over, each once (src/connection/manager.js).                     *)
THEOREM TrackedUntilDisconnectedHolds == Spec => []TrackedUntilDisconnected
<1>1. ConnectionInv => TrackedUntilDisconnected
  <2> SUFFICES ASSUME ConnectionInv, Quiet
               PROVE  /\ Len(tracked) = Cardinality({c \in Conns : IsTracked(c)})
                      /\ \A c \in created : IsTracked(c) <=> ~Over(c)
    BY DEF TrackedUntilDisconnected
  <2>1. /\ tracked \in Seq(Conns) /\ IsInjective(tracked)
        /\ \A c \in created : IsTracked(c) <=> state[c] # "DISCONNECTED"
    BY DEF ConnectionInv, CoreInv, TypeOK, WorldInv, TrackInv, Quiet, Top
  <2>2. {c \in Conns : IsTracked(c)} = Range(tracked)
    BY <2>1 DEF IsTracked, Range
  <2>3. Cardinality(Range(tracked)) = Len(tracked)
    <3>1. /\ Len(tracked) \in Nat /\ DOMAIN tracked = 1 .. Len(tracked)
      BY <2>1
    <3>2. tracked \in Bijection(1 .. Len(tracked), Range(tracked))
      BY <2>1, <3>1 DEF Bijection, Injection, Surjection, IsInjective, Range
    <3>3. IsFiniteSet(1 .. Len(tracked)) /\ Cardinality(1 .. Len(tracked)) = Len(tracked)
      <4> DEFINE n == Len(tracked)
      <4>1. n \in Int /\ 1 \in Int /\ (1 > n => n = 0)
        BY <3>1
      <4>2. /\ IsFiniteSet(1 .. n)
            /\ Cardinality(1 .. n) = IF 1 > n THEN 0 ELSE n - 1 + 1
        BY <4>1, FS_Interval
      <4> QED
        BY <4>1, <4>2
    <3>4. ExistsBijection(1 .. Len(tracked), Range(tracked))
      BY <3>2 DEF ExistsBijection
    <3> QED
      BY <3>3, <3>4, FS_Bijection
  <2> QED
    BY <2>1, <2>2, <2>3 DEF Over
<1> QED
  BY <1>1, ConnectionInvariant, PTL

(* Between turns the dial queue was resumed for a connection exactly when its *)
(* attempt is over (src/dialer/queue.js:217).                               *)
THEOREM QueueIsResumedHolds == Spec => []QueueIsResumed
<1>1. ConnectionInv => QueueIsResumed
  <2> SUFFICES ASSUME ConnectionInv, Quiet, NEW c \in created
               PROVE  c \in resumed <=> state[c] \notin InFlight
    BY DEF QueueIsResumed
  <2>1. Stage(c) /\ state[c] \in States
    BY DEF ConnectionInv, CoreInv, TypeOK, StageInv
  <2>2. \A f : ~Top(f)
    BY DEF Quiet, Top
  <2> QED
    BY <2>1, <2>2 DEF Stage, States, Table, InFlight, Securing
<1> QED
  BY <1>1, ConnectionInvariant, PTL

(* Between turns the last peer-mux event tells of every muxed connection, and *)
(* a closed peer is announced (src/connection/manager.js:44).               *)
THEOREM MuxEventsTellHolds == Spec => []MuxEventsTell
<1>1. ConnectionInv => MuxEventsTell
  <2> SUFFICES ASSUME ConnectionInv, Quiet
               PROVE  /\ Muxed # {} => muxHeard = "established"
                      /\ muxHeard = "established" => tracked # <<>>
    BY DEF MuxEventsTell
  <2>1. ASSUME NEW c \in Muxed PROVE muxHeard = "established"
    <3>1. Stage(c) /\ state[c] = "MUXED" /\ \A f : ~Top(f)
      BY <2>1 DEF Muxed, ConnectionInv, CoreInv, StageInv, Quiet, Top
    <3>2. c \in resumed
      BY <3>1 DEF Stage, Fresh
    <3> QED
      BY <3>1, <3>2 DEF ConnectionInv, WorldInv, MuxInv
  <2> QED
    BY <2>1 DEF ConnectionInv, WorldInv, MuxInv
<1> QED
  BY <1>1, ConnectionInvariant, PTL

(* Between turns the peer counts as connected while a connection to it is past *)
(* its transport dial, and not when none is tracked                         *)
(* (src/connection/index.js, src/connection/manager.js:44).                 *)
THEOREM PeerIsConnectedHolds == Spec => []PeerIsConnected
<1>1. ConnectionInv => PeerIsConnected
  <2> SUFFICES ASSUME ConnectionInv, Quiet PROVE PeerIsConnected
    BY DEF PeerIsConnected
  <2>1. \A f : ~Top(f)
    BY DEF Quiet, Top
  <2> QED
    BY <2>1 DEF ConnectionInv, CoreInv, TypeOK, WorldInv, PeerInv, PeerIsConnected, Closing
<1> QED
  BY <1>1, ConnectionInvariant, PTL

-----------------------------------------------------------------------------
(* The life cycle.                                                          *)

(* A connection that its dial has not started yet. *)
Waiting(c) == c \notin created \/ Top(StateF(c, "dial"))

PhaseOf == [c \in Conns |-> Phase(c)]

(* The phase of each connection, state by state. *)
PhasesTell ==
  \A c \in Conns :
    /\ Waiting(c) => Phase(c) = "none"
    /\ ~Waiting(c) =>
         /\ state[c] = "DISCONNECTED" /\ op[c] = "transport" => Phase(c) = "late"
         /\ state[c] = "DISCONNECTED" /\ op[c] # "transport" => Phase(c) = "closed"
         /\ state[c] = "DIALING" => Phase(c) = "dialing"
         /\ state[c] \in Securing => Phase(c) = "securing"
         /\ state[c] = "MUXED" => Phase(c) = "muxed"
         /\ state[c] = "CONNECTED" => Phase(c) = "unmuxed"
         /\ state[c] = "DISCONNECTING" => Phase(c) = "closing"

(* What Phase is under the invariant. *)
LEMMA Phases == ConnectionInv => PhasesTell
<1> SUFFICES ASSUME ConnectionInv, NEW c \in Conns
             PROVE  /\ Waiting(c) => Phase(c) = "none"
                    /\ ~Waiting(c) =>
                         /\ state[c] = "DISCONNECTED" /\ op[c] = "transport" => Phase(c) = "late"
                         /\ state[c] = "DISCONNECTED" /\ op[c] # "transport" => Phase(c) = "closed"
                         /\ state[c] = "DIALING" => Phase(c) = "dialing"
                         /\ state[c] \in Securing => Phase(c) = "securing"
                         /\ state[c] = "MUXED" => Phase(c) = "muxed"
                         /\ state[c] = "CONNECTED" => Phase(c) = "unmuxed"
                         /\ state[c] = "DISCONNECTING" => Phase(c) = "closing"
  BY DEF PhasesTell
<1>1. Waiting(c) => c \notin created \/ (state[c] = "DISCONNECTED" /\ IsTracked(c))
  BY DEF Waiting, ConnectionInv, CoreInv, WorldInv, StageInv, Stage, Fresh, TrackInv
<1>2. ~Waiting(c) => c \in created /\ (IsTracked(c) <=> state[c] # "DISCONNECTED")
  BY DEF Waiting, ConnectionInv, WorldInv, TrackInv
<1>3. ASSUME Waiting(c) PROVE Phase(c) = "none"
  <2>1. CASE c \notin created
    <3>1. state[c] = "DISCONNECTED"
      BY <2>1 DEF ConnectionInv, CoreInv, StageInv, Stage, Fresh
    <3> QED
      BY <2>1, <3>1 DEF Phase, Over, Securing
  <2>2. CASE c \in created /\ state[c] = "DISCONNECTED" /\ IsTracked(c)
    BY <2>2 DEF Phase, Over, Securing
  <2> QED
    BY <1>1, <1>3, <2>1, <2>2
<1>4. ASSUME ~Waiting(c), state[c] = "DISCONNECTED"
      PROVE  Phase(c) = IF op[c] = "transport" THEN "late" ELSE "closed"
  BY <1>2, <1>4 DEF Phase, Over, Securing
<1> QED
  BY <1>2, <1>3, <1>4 DEF Phase, Over, Securing

(* And what it is after a step that keeps the invariant. *)
LEMMA NextPhases == ConnectionInv' => PhasesTell'
  BY Phases, PTL

(* The phase depends on nothing else. *)
LEMMA PhaseKept ==
  ASSUME ConnectionInv, ConnectionInv', NEW d \in Conns,
         Waiting(d)' <=> Waiting(d), UNCHANGED state[d],
         op'[d] = op[d] \/ state[d] # "DISCONNECTED" \/ Waiting(d)
  PROVE  Phase(d)' = Phase(d)
<1>1. PhasesTell /\ PhasesTell'
  BY Phases, NextPhases
<1>2. state[d] \in {"DISCONNECTED", "DIALING", "MUXED", "CONNECTED", "DISCONNECTING"} \cup Securing
  BY DEF ConnectionInv, CoreInv, TypeOK, States, Table, Securing
<1>3. CASE Waiting(d)
  BY <1>1, <1>3 DEF PhasesTell
<1>4. CASE ~Waiting(d) /\ state[d] = "DISCONNECTED"
  BY <1>1, <1>4 DEF PhasesTell
<1>5. CASE ~Waiting(d) /\ state[d] # "DISCONNECTED"
  BY <1>1, <1>2, <1>5 DEF PhasesTell, Securing
<1> QED
  BY <1>3, <1>4, <1>5

(* A step of a connection leaves the phases of the others alone. *)
LEMMA PhaseSteps ==
  ASSUME ConnectionInv, ConnectionInv', NEW c \in Conns, Steps(c)
  PROVE  /\ PhaseOf' = [PhaseOf EXCEPT ![c] = Phase(c)']
         /\ PhaseOf[c] = Phase(c)
         /\ Phase(c)' = Phase(c) => PhaseOf' = PhaseOf
<1>1. ASSUME NEW d \in Conns, d # c PROVE Phase(d)' = Phase(d)
  <2>1. Waiting(d)' <=> Waiting(d)
    BY <1>1 DEF Steps, Spares, Waiting, Running, Eager
  <2>2. state'[d] = state[d] /\ op'[d] = op[d]
    BY <1>1 DEF Steps, Spares
  <2> QED
    BY <2>1, <2>2, PhaseKept
<1> QED
  BY <1>1 DEF PhaseOf

(* What a connection may do to its phase is what the life cycle allows.     *)
Maps == Lifecycle!Next \/ UNCHANGED <<PhaseOf, resumed>>

(* A step that moves one connection on by a phase, or not at all, maps. *)
LEMMA Moving ==
  ASSUME ConnectionInv, ConnectionInv', NEW c \in Conns, Steps(c), UNCHANGED resumed,
         \/ Phase(c)' = Phase(c)
         \/ Phase(c) = "none" /\ Phase(c)' = "dialing"
         \/ Phase(c) = "dialing" /\ Phase(c)' = "securing"
         \/ Phase(c) = "securing" /\ Phase(c)' \in {"muxed", "unmuxed"}
         \/ Phase(c) \in {"dialing", "securing", "muxed", "unmuxed"} /\ Phase(c)' = "closing"
         \/ Phase(c) = "closing" /\ Phase(c)' \in {"late", "closed"}
         \/ Phase(c) = "late" /\ Phase(c)' = "closed"
  PROVE  Maps
<1>1. /\ PhaseOf' = [PhaseOf EXCEPT ![c] = Phase(c)'] /\ PhaseOf[c] = Phase(c)
      /\ Phase(c)' = Phase(c) => PhaseOf' = PhaseOf
  BY PhaseSteps
<1>2. \A from, to : Phase(c) \in from /\ Phase(c)' = to => Lifecycle!Moves(c, from, to)
  BY <1>1 DEF Lifecycle!Moves, PhaseOf
<1> QED
  BY <1>1, <1>2
  DEF Maps, Lifecycle!Next, Lifecycle!Dials, Lifecycle!Connects, Lifecycle!Muxes,
      Lifecycle!Unmuxes, Lifecycle!Closes, Lifecycle!Closed, Lifecycle!ClosedEarly, Lifecycle!Live

(* A new connection has no phase yet. *)
LEMMA CreatingMaps ==
  ASSUME ConnectionInv, ConnectionInv', NEW c \in Conns, Creates(c)
  PROVE  Maps
<1>1. Steps(c) /\ Waiting(c) /\ UNCHANGED <<state, resumed>>
  BY ConnectionSteps DEF Creates, Waiting, queueVars, ConnectionInv
<1>2. Waiting(c)'
  <2>1. agenda' = <<StateF(c, "dial")>> \o agenda /\ agenda \in Seq(Frames)
        /\ StateF(c, "dial") \in Frames
    BY DEF Creates, ConnectionInv, CoreInv, AgendaInv, Frames
  <2> QED
    BY <2>1 DEF Waiting, Top
<1>3. Phase(c)' = Phase(c)
  BY <1>1, <1>2, PhaseKept
<1> QED
  BY <1>1, <1>3, Moving

(* The transitions go from phase to phase. *)
LEMMA ProceedingMaps ==
  ASSUME ConnectionInv, ConnectionInv', NEW c \in Conns, Proceeds(c)
  PROVE  Maps
<1>1. /\ Steps(c) /\ UNCHANGED <<created, resumed>> /\ PhasesTell /\ PhasesTell'
      /\ TypeOK /\ AgendaInv
  BY ConnectionSteps, Proceeding, Phases, NextPhases
  DEF Proceeds, Transitions, ConnectionInv, CoreInv
<1>2. PICK s \in States \ {"DISCONNECTED"} : Enters(c, s)
  <2>1. CASE EntersDialing(c) \/ EntersAndEmits(c)
    BY <2>1 DEF EntersDialing, EntersAndEmits, Emitting, States, Table
  <2>2. CASE EntersPrivatizing(c) \/ EntersEncrypting(c) \/ EntersUpgrading(c)
    BY <2>2 DEF EntersPrivatizing, EntersEncrypting, EntersUpgrading, Begins, States, Table
  <2>3. CASE EntersMuxed(c) \/ EntersDisconnecting(c)
    BY <2>3 DEF EntersMuxed, EntersDisconnecting, States, Table
  <2> QED
    BY <2>1, <2>2, <2>3 DEF Proceeds
<1>3. state' = [state EXCEPT ![c] = s]
  BY <1>1, <1>2, Entering
<1>4. state'[c] = s /\ c \in created /\ ~Waiting(c)'
  <2>1. \E ev : Top(StateF(c, ev))
    BY <1>1, <1>2, Entering
  <2>2. c \in created
    BY <1>1, <2>1, Heads
  <2> QED
    BY <1>1, <1>3, <2>2 DEF Steps, Waiting, TypeOK
<1>5. /\ s = "DIALING" => Waiting(c)
      /\ s = "DIALED" => ~Waiting(c) /\ state[c] = "DIALING"
      /\ s \in Securing \ {"DIALED"} => ~Waiting(c) /\ state[c] \in Securing
      /\ s \in {"MUXED", "CONNECTED"} => ~Waiting(c) /\ state[c] = "UPGRADING"
      /\ s = "DISCONNECTING" => ~Waiting(c) /\ state[c] # "DISCONNECTED"
  <2>1. /\ s = "DIALING" => Top(StateF(c, "dial"))
        /\ s = "DIALED" => Top(StateF(c, "done")) /\ state[c] = "DIALING"
        /\ s \in Securing \ {"DIALED"} =>
             (\E ev \in {"done", "privatize", "encrypt", "upgrade"} : Top(StateF(c, ev)))
             /\ state[c] \in Securing
        /\ s \in {"MUXED", "CONNECTED"} =>
             (\E ev \in {"done", "stop"} : Top(StateF(c, ev))) /\ state[c] = "UPGRADING"
        /\ s = "DISCONNECTING" => Top(StateF(c, "disconnect")) /\ state[c] # "DISCONNECTED"
    BY <1>1, <1>2, Entering DEF Securing
  <2>2. \A ev : Top(StateF(c, ev)) /\ Top(StateF(c, "dial")) => ev = "dial"
    BY FramesDiffer DEF Top
  <2> QED
    BY <1>4, <2>1, <2>2 DEF Waiting
<1>6. CASE s = "DIALING"
  <2>1. Phase(c) = "none" /\ Phase(c)' = "dialing"
    BY <1>1, <1>4, <1>5, <1>6 DEF PhasesTell
  <2> QED
    BY <1>1, <2>1, Moving
<1>7. CASE s = "DIALED"
  <2>1. Phase(c) = "dialing" /\ Phase(c)' = "securing"
    BY <1>1, <1>4, <1>5, <1>7 DEF PhasesTell, Securing
  <2> QED
    BY <1>1, <2>1, Moving
<1>8. CASE s \in Securing \ {"DIALED"}
  <2>1. Phase(c) = "securing" /\ Phase(c)' = "securing"
    BY <1>1, <1>4, <1>5, <1>8 DEF PhasesTell
  <2> QED
    BY <1>1, <2>1, Moving
<1>9. CASE s \in {"MUXED", "CONNECTED"}
  <2>1. Phase(c) = "securing" /\ Phase(c)' \in {"muxed", "unmuxed"}
    BY <1>1, <1>4, <1>5, <1>9 DEF PhasesTell, Securing
  <2> QED
    BY <1>1, <2>1, Moving
<1>10. CASE s = "DISCONNECTING"
  <2>1. state[c] \in {"DIALING", "MUXED", "CONNECTED", "DISCONNECTING"} \cup Securing
    BY <1>1, <1>5, <1>10 DEF TypeOK, States, Table, Securing
  <2>2. Phase(c) \in {"dialing", "securing", "muxed", "unmuxed", "closing"}
    BY <1>1, <1>5, <1>10, <2>1 DEF PhasesTell
  <2>3. Phase(c)' = "closing"
    BY <1>1, <1>4, <1>10 DEF PhasesTell
  <2> QED
    BY <1>1, <2>2, <2>3, Moving
<1> QED
  BY <1>2, <1>6, <1>7, <1>8, <1>9, <1>10 DEF States, Table, Securing

(* The last transition ends the life cycle, perhaps before the transport is  *)
(* through.                                                                 *)
LEMMA RemovingMaps ==
  ASSUME ConnectionInv, ConnectionInv', NEW c \in Conns, EntersDisconnected(c)
  PROVE  Maps
<1>1. /\ Steps(c) /\ UNCHANGED <<created, resumed, op>> /\ PhasesTell /\ PhasesTell'
      /\ TypeOK /\ AgendaInv
  BY ConnectionSteps, Phases, NextPhases
  DEF Transitions, ConnectionInv, CoreInv, EntersDisconnected, Enters, opVars, queueVars
<1>2. /\ state' = [state EXCEPT ![c] = "DISCONNECTED"] /\ state[c] \in Closing
      /\ \E ev \in {"done", "disconnect"} : Top(StateF(c, ev))
  BY <1>1, Entering DEF EntersDisconnected, Closing
<1>3. state'[c] = "DISCONNECTED" /\ c \in created /\ ~Waiting(c)' /\ ~Waiting(c)
  <2>1. c \in created /\ ~Top(StateF(c, "dial"))
    BY <1>1, <1>2, Heads, FramesDiffer DEF Top
  <2> QED
    BY <1>1, <1>2, <2>1 DEF Steps, Waiting, TypeOK
<1>4. CASE state[c] = "DISCONNECTED"
  <2>1. Phase(c)' = Phase(c)
    BY <1>1, <1>3, <1>4, PhaseKept
  <2> QED
    BY <1>1, <2>1, Moving
<1>5. CASE state[c] = "DISCONNECTING"
  <2>1. Phase(c) = "closing" /\ Phase(c)' \in {"late", "closed"}
    BY <1>1, <1>3, <1>5 DEF PhasesTell
  <2> QED
    BY <1>1, <2>1, Moving
<1> QED
  BY <1>2, <1>4, <1>5 DEF Closing

(* The steps that leave the states alone end an operation of an attempt, or    *)
(* have the dial queue resumed when the attempt is over.                    *)
LEMMA Resuming ==
  ASSUME CoreInv, NEW c \in Conns, Stays(c)
  PROVE  \/ UNCHANGED resumed /\ op'[c] \in {op[c], "none"}
         \/ /\ resumed' = resumed \cup {c} /\ UNCHANGED op
            /\ c \in created /\ state[c] \in {"MUXED", "CONNECTED", "DISCONNECTED"}
<1>1. ASSUME Refuses(c) \/ Close(c) \/ StartsIdentify(c) \/ IdentifyEnds(c) \/ MuxerCloses(c)
                \/ MuxerEnds(c)
      PROVE  UNCHANGED <<resumed, op>>
  BY <1>1 DEF Refuses, Close, StartsIdentify, IdentifyEnds, MuxerCloses, MuxerEnds, opVars, queueVars
<1>2. ASSUME AttemptSettles(c)
      PROVE  UNCHANGED resumed /\ op'[c] \in {op[c], "none"}
  <2>1. UNCHANGED resumed /\ (UNCHANGED op \/ op' = [op EXCEPT ![c] = "none"])
    BY <1>2 DEF AttemptSettles, TransportConnects, TransportFails, Protects, Encrypts,
                HandshakeFails, Upgrades, UpgradeFails, CallsBack, opVars, queueVars
  <2> QED
    BY <2>1 DEF CoreInv, TypeOK
<1>3. ASSUME HearsProgress(c) \/ HearsError(c) \/ Unheard(c) \/ RemovesListeners(c)
      PROVE  UNCHANGED <<resumed, op>>
  BY <1>3 DEF HearsProgress, HearsError, Unheard, RemovesListeners, opVars, queueVars
<1>4. ASSUME HearsMuxed(c) \/ HearsUnmuxedOrClose(c)
      PROVE  /\ resumed' = resumed \cup {c} /\ UNCHANGED op
             /\ c \in created /\ state[c] \in {"MUXED", "CONNECTED", "DISCONNECTED"}
  <2>1. /\ resumed' = resumed \cup {c} /\ UNCHANGED op
        /\ \E name \in {"muxed", "unmuxed", "close"} : Top(EmitF(c, name))
    BY <1>4 DEF HearsMuxed, HearsUnmuxedOrClose, Hears, opVars
  <2> QED
    BY <2>1, Heads DEF CoreInv, StageInv, Stage
<1> QED
  BY <1>1, <1>2, <1>3, <1>4 DEF Stays, Listeners

(* These end a late transport dial, tell the queue, or change no phase. *)
LEMMA StayingMaps ==
  ASSUME ConnectionInv, ConnectionInv', NEW c \in Conns, Stays(c)
  PROVE  Maps
<1>1. /\ Steps(c) /\ UNCHANGED <<state, created>> /\ ~Top(StateF(c, "dial"))
      /\ PhasesTell /\ PhasesTell'
  BY ConnectionSteps, Staying, Phases, NextPhases DEF Stays, Transitions, ConnectionInv
<1>2. Waiting(c) <=> c \notin created
  BY <1>1 DEF Waiting
<1>3. Waiting(c)' <=> c \notin created
  BY <1>1 DEF Waiting, Steps
<1>4. CASE UNCHANGED resumed /\ op'[c] \in {op[c], "none"}
  <2>1. CASE c \in created /\ state[c] = "DISCONNECTED" /\ op[c] = "transport" /\ op'[c] = "none"
    <3>1. Phase(c) = "late" /\ Phase(c)' = "closed"
      BY <1>1, <1>2, <1>3, <2>1 DEF PhasesTell
    <3> QED
      BY <1>1, <1>4, <3>1, Moving
  <2>2. CASE /\ c \in created /\ state[c] = "DISCONNECTED"
             /\ op[c] # "transport" /\ op'[c] # "transport"
    <3>1. Phase(c) = "closed" /\ Phase(c)' = "closed"
      BY <1>1, <1>2, <1>3, <2>2 DEF PhasesTell
    <3> QED
      BY <1>1, <1>4, <3>1, Moving
  <2>3. CASE op'[c] = op[c] \/ c \notin created \/ state[c] # "DISCONNECTED"
    <3>1. Phase(c)' = Phase(c)
      BY <1>1, <1>2, <1>3, <2>3, PhaseKept
    <3> QED
      BY <1>1, <1>4, <3>1, Moving
  <2> QED
    BY <1>4, <2>1, <2>2, <2>3
<1>5. CASE /\ resumed' = resumed \cup {c} /\ UNCHANGED op
           /\ c \in created /\ state[c] \in {"MUXED", "CONNECTED", "DISCONNECTED"}
  <2>1. Phase(c)' = Phase(c)
    BY <1>1, <1>2, <1>3, <1>5, PhaseKept
  <2>2. PhaseOf' = PhaseOf /\ PhaseOf[c] = Phase(c)
    BY <1>1, <2>1, PhaseSteps
  <2>3. CASE c \in resumed
    BY <1>5, <2>2, <2>3 DEF Maps
  <2>4. CASE c \notin resumed
    <3>1. Phase(c) \in {"muxed", "unmuxed", "late", "closed"}
      BY <1>1, <1>2, <1>5 DEF PhasesTell
    <3>2. Lifecycle!Resumes(c)
      BY <1>5, <2>2, <2>4, <3>1 DEF Lifecycle!Resumes, Lifecycle!Over, PhaseOf
    <3> QED
      BY <3>2 DEF Maps, Lifecycle!Next
  <2> QED
    BY <2>3, <2>4
<1> QED
  BY <1>4, <1>5, Resuming DEF ConnectionInv

(* A call, and a step of nobody, leave all phases alone. *)
LEMMA OthersMap ==
  ASSUME ConnectionInv, ConnectionInv', HangUp \/ ListenerReturns \/ UNCHANGED vars
  PROVE  Maps
<1>1. UNCHANGED <<state, created, op, resumed>>
  BY DEF HangUp, ListenerReturns, vars, fsmVars, opVars, queueVars
<1>2. ASSUME NEW d \in Conns PROVE Waiting(d)' <=> Waiting(d)
  <2>1. CASE HangUp \/ ListenerReturns
    BY <1>1, <2>1, CallsStep DEF ConnectionInv, WorldInv, TrackInv, Waits, Waiting
  <2>2. CASE UNCHANGED vars
    BY <1>1, <2>2 DEF vars, Waiting, Top
  <2> QED
    BY <2>1, <2>2
<1>3. \A d \in Conns : Phase(d)' = Phase(d)
  BY <1>1, <1>2, PhaseKept
<1> QED
  BY <1>1, <1>3 DEF Maps, PhaseOf

(* Every step of the connections is one of the life cycle, or none.         *)
LEMMA NextMaps == ConnectionInv /\ ConnectionInv' /\ [Next]_vars => Maps
<1> SUFFICES ASSUME ConnectionInv, ConnectionInv', [Next]_vars PROVE Maps
  OBVIOUS
<1>1. CASE HangUp \/ ListenerReturns \/ UNCHANGED vars
  BY <1>1, OthersMap
<1>2. ASSUME NEW c \in Conns, Creates(c) \/ EntersDisconnected(c) \/ Proceeds(c) \/ Stays(c)
      PROVE  Maps
  BY <1>2, CreatingMaps, RemovingMaps, ProceedingMaps, StayingMaps
<1> QED
  BY <1>1, <1>2 DEF Next, Turn, Transitions, Stays, Proceeds

(* The connections keep the life cycle that the dialer gives them: one         *)
(* direction, one end, the queue resumed once and when the attempt is over  *)
(* (src/connection/index.js, src/dialer/queue.js:217).                      *)
THEOREM LifecycleKept == Spec => KeepsLifecycle
<1>1. Init => Lifecycle!Init
  <2> SUFFICES ASSUME Init PROVE Lifecycle!Init
    OBVIOUS
  <2>1. PhasesTell /\ \A c \in Conns : Waiting(c)
    BY InitIsInvariant, Phases DEF Init, Waiting
  <2> QED
    BY <2>1 DEF PhasesTell, Lifecycle!Init, Init
<1>2. ConnectionInv /\ ConnectionInv' /\ [Next]_vars
        => [Lifecycle!Next]_<<[c \in Conns |-> Phase(c)], resumed>>
  BY NextMaps DEF Maps, PhaseOf
<1> QED
  BY <1>1, <1>2, ConnectionInvariant, PTL DEF Spec, KeepsLifecycle, Lifecycle!Spec
=============================================================================
