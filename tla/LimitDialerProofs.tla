------------------------- MODULE LimitDialerProofs -------------------------
(***************************************************************************)
(* Proofs about dialing the addresses of a peer, for any number of calls,  *)
(* peers, workers and addresses.                                           *)
(***************************************************************************)
EXTENDS LimitDialer, ArrayProofs, SequenceTheorems, FiniteSetTheorems, TLAPS

(* Tasks that wait and tasks that run: each is there once.                  *)
Queued(tasks, busy) ==
  /\ tasks \in Seq(Calls)
  /\ busy \subseteq Calls /\ IsFiniteSet(busy)
  /\ \A i, j \in DOMAIN tasks : tasks[i] = tasks[j] => i = j
  /\ \A i \in DOMAIN tasks : tasks[i] \notin busy

(* The queue of a peer holds the calls for it that have no answer yet, once  *)
(* each, and the token of a call is set with its connection.                 *)
TaskInv ==
  /\ peer \in [Calls -> Peers \cup {None}]
  /\ answer \in [Calls -> {"none", "conn", "errors"}]
  /\ waiting \in [Peers -> Seq(Calls)]
  /\ working \in [Peers -> SUBSET Calls]
  /\ \A p \in Peers : Queued(waiting[p], working[p])
  /\ \A p \in Peers, c \in Calls :
       c \in ToSet(waiting[p]) \cup working[p] <=> peer[c] = p /\ answer[c] = "none"
  /\ \A c \in Calls : peer[c] = None => answer[c] = "none"
  /\ token = {c \in Calls : answer[c] = "conn"}
  /\ DOMAIN todo = Calls

-----------------------------------------------------------------------------
(* The workers.                                                             *)

(* The workers take a first part of the tasks that wait. *)
LEMMA Taking ==
  ASSUME NEW p, NEW tasks \in Seq(Calls), NEW busy, IsFiniteSet(busy)
  PROVE  \E k \in 0 .. Len(tasks) : /\ Taken(p, tasks, busy) = SubSeq(tasks, 1, k)
                                    /\ Len(Taken(p, tasks, busy)) = k
<1>1. Cardinality(busy) \in Nat /\ PerPeerLimit \in Nat /\ Len(tasks) \in Nat
  BY FS_CardinalityType, LimitAssumption
<1> DEFINE idle == PerPeerLimit - Cardinality(busy)
<1>2. idle \in Int
  BY <1>1
<1>3. Taken(p, tasks, busy) = SubSeq(tasks, 1, IF idle < Len(tasks) THEN idle ELSE Len(tasks))
  BY DEF Taken
<1> HIDE DEF idle
<1>4. CASE idle < 0
  <2>1. Taken(p, tasks, busy) = SubSeq(tasks, 1, 0)
    BY <1>1, <1>2, <1>3, <1>4
  <2> QED
    BY <1>1, <2>1
<1>5. CASE idle >= 0
  BY <1>1, <1>2, <1>3, <1>5
<1> QED
  BY <1>2, <1>4, <1>5

(* What is taken is a finite set of calls. *)
LEMMA FiniteTasks ==
  ASSUME NEW S, NEW s \in Seq(S)
  PROVE  IsFiniteSet(ToSet(s))
<1>1. IsFiniteSet(1 .. Len(s))
  BY FS_Interval
<1>2. s \in Surjection(1 .. Len(s), ToSet(s))
  BY DEF Surjection, ToSet
<1> QED
  BY <1>1, <1>2, FS_Surjection DEF ExistsSurjection

(* Processing a queue loses no task and doubles none. *)
LEMMA Processing ==
  ASSUME waiting \in [Peers -> Seq(Calls)], working \in [Peers -> SUBSET Calls],
         NEW p \in Peers, NEW tasks, NEW busy, Queued(tasks, busy), Processes(p, tasks, busy)
  PROVE  /\ waiting' \in [Peers -> Seq(Calls)] /\ working' \in [Peers -> SUBSET Calls]
         /\ Queued(waiting'[p], working'[p])
         /\ ToSet(waiting'[p]) \cup working'[p] = ToSet(tasks) \cup busy
         /\ \A q \in Peers : q # p => waiting'[q] = waiting[q] /\ working'[q] = working[q]
<1>1. tasks \in Seq(Calls) /\ busy \subseteq Calls /\ IsFiniteSet(busy)
  BY DEF Queued
<1>2. PICK k \in 0 .. Len(tasks) : /\ Taken(p, tasks, busy) = SubSeq(tasks, 1, k)
                                   /\ Len(Taken(p, tasks, busy)) = k
  BY <1>1, Taking
<1> DEFINE taken == SubSeq(tasks, 1, k)
           rest  == SubSeq(tasks, k + 1, Len(tasks))
<1>3. /\ waiting' = [waiting EXCEPT ![p] = rest]
      /\ working' = [working EXCEPT ![p] = busy \cup ToSet(taken)]
  BY <1>2 DEF Processes
<1>4. /\ taken \in Seq(Calls) /\ Len(taken) = k /\ \A i \in 1 .. k : taken[i] = tasks[i]
      /\ rest \in Seq(Calls) /\ Len(rest) = Len(tasks) - k
      /\ \A i \in 1 .. Len(tasks) - k : rest[i] = tasks[i + k]
  BY <1>1
<1> HIDE DEF taken, rest
<1>5. /\ \A x : x \in ToSet(taken) <=> \E i \in 1 .. k : x = tasks[i]
      /\ \A x : x \in ToSet(rest) <=> \E i \in k + 1 .. Len(tasks) : x = tasks[i]
      /\ \A x : x \in ToSet(tasks) <=> \E i \in 1 .. Len(tasks) : x = tasks[i]
  <2>1. DOMAIN taken = 1 .. k /\ DOMAIN rest = 1 .. Len(tasks) - k /\ DOMAIN tasks = 1 .. Len(tasks)
    BY <1>1, <1>4
  <2>2. \A i \in k + 1 .. Len(tasks) : i - k \in 1 .. Len(tasks) - k /\ rest[i - k] = tasks[i]
    BY <1>1, <1>4
  <2>3. \A i \in 1 .. Len(tasks) - k : i + k \in k + 1 .. Len(tasks)
    BY <1>1
  <2>4. \A x : x \in ToSet(rest) <=> \E i \in k + 1 .. Len(tasks) : x = tasks[i]
    <3>1. ASSUME NEW i \in k + 1 .. Len(tasks)
          PROVE  tasks[i] \in ToSet(rest)
      BY <2>1, <2>2 DEF ToSet
    <3>2. ASSUME NEW i \in DOMAIN rest
          PROVE  \E j \in k + 1 .. Len(tasks) : rest[i] = tasks[j]
      BY <1>4, <2>1, <2>3
    <3> QED
      BY <3>1, <3>2 DEF ToSet
  <2>5. \A x : x \in ToSet(taken) <=> \E i \in 1 .. k : x = tasks[i]
    BY <1>4, <2>1 DEF ToSet
  <2>6. \A x : x \in ToSet(tasks) <=> \E i \in 1 .. Len(tasks) : x = tasks[i]
    BY <2>1 DEF ToSet
  <2> QED
    BY <2>4, <2>5, <2>6
<1>6. ToSet(rest) \cup (busy \cup ToSet(taken)) = ToSet(tasks) \cup busy
  BY <1>1, <1>5
<1>7. Queued(rest, busy \cup ToSet(taken))
  <2>1. ToSet(taken) \subseteq Calls /\ IsFiniteSet(ToSet(taken))
    <3>1. \A i \in 1 .. k : tasks[i] \in Calls
      BY <1>1
    <3> QED
      BY <1>4, <1>5, <3>1, FiniteTasks
  <2>2. IsFiniteSet(busy \cup ToSet(taken))
    BY <1>1, <2>1, FS_Union
  <2>3. \A i, j \in DOMAIN rest : rest[i] = rest[j] => i = j
    <3>1. \A i \in DOMAIN rest : rest[i] = tasks[i + k] /\ i + k \in DOMAIN tasks
      BY <1>1, <1>4
    <3>2. \A i, j \in DOMAIN rest : i + k = j + k => i = j
      BY <1>4
    <3> QED
      BY <3>1, <3>2 DEF Queued
  <2>4. \A i \in DOMAIN rest : rest[i] \notin busy \cup ToSet(taken)
    <3>1. \A i \in DOMAIN rest : rest[i] = tasks[i + k] /\ i + k \in DOMAIN tasks /\ i + k > k
      BY <1>1, <1>4, SMTT(30)
    <3>2. \A i \in DOMAIN rest : \A j \in 1 .. k : j # i + k /\ j \in DOMAIN tasks
      BY <1>1, <3>1
    <3> QED
      BY <1>5, <3>1, <3>2 DEF Queued
  <2> QED
    BY <1>1, <1>4, <2>1, <2>2, <2>3, <2>4 DEF Queued
<1> QED
  BY <1>1, <1>3, <1>4, <1>6, <1>7 DEF Queued

-----------------------------------------------------------------------------
(* The calls.                                                               *)

(* A call that begins has its task pushed, or is answered at once. *)
LEMMA DialKeepsTasks ==
  ASSUME TaskInv, NEW c \in Calls, NEW p \in Peers, NEW list, Dial(c, p, list)
  PROVE  TaskInv'
<1>1. /\ peer[c] = None /\ answer[c] = "none" /\ None \notin Peers
      /\ peer' = [peer EXCEPT ![c] = p]
      /\ UNCHANGED <<working, token>>
  BY LimitAssumption DEF Dial, TaskInv
<1>2. \A q \in Peers : c \notin ToSet(waiting[q]) /\ c \notin working[q]
  BY <1>1 DEF TaskInv
<1>5. DOMAIN todo' = Calls
  BY DEF Dial, TaskInv
<1>3. CASE answer' = [answer EXCEPT ![c] = "errors"] /\ UNCHANGED waiting
  BY <1>1, <1>2, <1>3, <1>5 DEF TaskInv
<1>4. CASE waiting' = [waiting EXCEPT ![p] = Append(@, c)] /\ UNCHANGED answer
  <2>1. waiting[p] \in Seq(Calls) /\ c \notin ToSet(waiting[p]) /\ Queued(waiting[p], working[p])
    BY <1>2 DEF TaskInv
  <2>2. /\ Append(waiting[p], c) \in Seq(Calls)
        /\ Len(Append(waiting[p], c)) = Len(waiting[p]) + 1
        /\ \A i \in 1 .. Len(waiting[p]) : Append(waiting[p], c)[i] = waiting[p][i]
        /\ Append(waiting[p], c)[Len(waiting[p]) + 1] = c
        /\ \A i \in 1 .. Len(waiting[p]) : waiting[p][i] # c
    BY <2>1 DEF ToSet
  <2>3. /\ Queued(Append(waiting[p], c), working[p])
        /\ ToSet(Append(waiting[p], c)) = ToSet(waiting[p]) \cup {c}
    BY <1>2, <2>1, <2>2 DEF Queued, ToSet
  <2>4. /\ waiting' \in [Peers -> Seq(Calls)]
        /\ waiting'[p] = Append(waiting[p], c)
        /\ \A q \in Peers : q # p => waiting'[q] = waiting[q]
    BY <1>4, <2>2 DEF TaskInv
  <2>5. \A q \in Peers : Queued(waiting'[q], working'[q])
    BY <1>1, <2>3, <2>4, ZenonT(30) DEF TaskInv
  <2>6. \A q \in Peers, d \in Calls :
          d \in ToSet(waiting'[q]) \cup working'[q] <=> peer'[d] = q /\ answer'[d] = "none"
    BY <1>1, <1>2, <1>4, <2>3, <2>4 DEF TaskInv
  <2> QED
    BY <1>1, <1>4, <1>5, <2>4, <2>5, <2>6 DEF TaskInv
<1> QED
  BY <1>3, <1>4 DEF Dial

(* Processing the queue again moves tasks from waiting to running. *)
LEMMA WorkKeepsTasks ==
  ASSUME TaskInv, NEW p \in Peers, Work(p)
  PROVE  TaskInv'
<1>1. Processes(p, waiting[p], working[p]) /\ UNCHANGED <<peer, answer, token, todo>>
  BY DEF Work, callVars
<1>2. /\ waiting' \in [Peers -> Seq(Calls)] /\ working' \in [Peers -> SUBSET Calls]
      /\ Queued(waiting'[p], working'[p])
      /\ ToSet(waiting'[p]) \cup working'[p] = ToSet(waiting[p]) \cup working[p]
      /\ \A q \in Peers : q # p => waiting'[q] = waiting[q] /\ working'[q] = working[q]
  BY <1>1, Processing DEF TaskInv
<1> QED
  BY <1>1, <1>2, ZenonT(30) DEF TaskInv

(* The callback of a task: the call has a new task exactly when it has no    *)
(* answer yet.                                                               *)
LEMMA SettlingKeepsTasks ==
  ASSUME TaskInv, NEW c \in Calls, Settles(c)
  PROVE  TaskInv'
<1> DEFINE p == peer[c]
           tasks == PushesNext(c)
           busy == working[p] \ {c}
<1>1. /\ p \in Peers /\ c \in working[p] /\ answer[c] = "none" /\ c \notin token
      /\ Processes(p, tasks, busy) /\ UNCHANGED peer
      /\ c \notin ToSet(waiting[p]) /\ Queued(waiting[p], working[p])
      /\ waiting[p] \in Seq(Calls)
  <2>1. Running(c) /\ Releases(c) /\ UNCHANGED peer
    BY DEF Settles, Connects, Fails, TimesOut
  <2>2. p \in Peers /\ c \in working[p]
    BY <2>1 DEF Running, TaskInv
  <2> QED
    BY <2>1, <2>2 DEF TaskInv, Queued, ToSet, Releases
<1>2. /\ answer' \in [Calls -> {"none", "conn", "errors"}]
      /\ \A d \in Calls : d # c => answer'[d] = answer[d]
      /\ answer'[c] = "none" <=> todo'[c] # <<>>
      /\ DOMAIN todo' = Calls
      /\ token' = {d \in Calls : answer'[d] = "conn"}
  <2>1. CASE Connects(c)
    <3>1. /\ answer' = [answer EXCEPT ![c] = "conn"] /\ token' = token \cup {c}
          /\ todo' = [todo EXCEPT ![c] = <<>>]
      BY <2>1 DEF Connects
    <3>2. todo'[c] = <<>>
      BY <3>1 DEF TaskInv
    <3> QED
      BY <3>1, <3>2 DEF TaskInv
  <2>2. CASE GivesUp(c) /\ UNCHANGED token
    BY <1>1, <2>2 DEF GivesUp, TaskInv
  <2> QED
    BY <2>1, <2>2 DEF Settles, Fails, TimesOut
<1>3. /\ tasks \in Seq(Calls) /\ Queued(tasks, busy)
      /\ ToSet(tasks) = IF answer'[c] = "none" THEN ToSet(waiting[p]) \cup {c} ELSE ToSet(waiting[p])
  <2>1. Queued(waiting[p], busy) /\ c \notin busy
    BY <1>1, FS_RemoveElement DEF Queued
  <2>2. CASE todo'[c] = <<>>
    BY <1>1, <1>2, <2>1, <2>2 DEF PushesNext
  <2>3. CASE todo'[c] # <<>>
    <3>1. tasks = Append(waiting[p], c)
      BY <2>3 DEF PushesNext
    <3>2. /\ Append(waiting[p], c) \in Seq(Calls)
          /\ Len(Append(waiting[p], c)) = Len(waiting[p]) + 1
          /\ \A i \in 1 .. Len(waiting[p]) : Append(waiting[p], c)[i] = waiting[p][i]
          /\ Append(waiting[p], c)[Len(waiting[p]) + 1] = c
          /\ \A i \in 1 .. Len(waiting[p]) : waiting[p][i] # c
      BY <1>1 DEF ToSet
    <3>3. /\ Queued(Append(waiting[p], c), busy)
          /\ ToSet(Append(waiting[p], c)) = ToSet(waiting[p]) \cup {c}
      BY <1>1, <2>1, <3>2, SMTT(30) DEF Queued, ToSet
    <3> QED
      BY <1>2, <2>3, <3>1, <3>2, <3>3
  <2> QED
    BY <2>2, <2>3
<1>4. /\ waiting' \in [Peers -> Seq(Calls)] /\ working' \in [Peers -> SUBSET Calls]
      /\ Queued(waiting'[p], working'[p])
      /\ ToSet(waiting'[p]) \cup working'[p] = ToSet(tasks) \cup busy
      /\ \A q \in Peers : q # p => waiting'[q] = waiting[q] /\ working'[q] = working[q]
  BY <1>1, <1>3, Processing DEF TaskInv
<1>5. \A q \in Peers : Queued(waiting'[q], working'[q])
  BY <1>1, <1>4 DEF TaskInv
<1>6. \A d \in Calls : d \in ToSet(waiting'[p]) \cup working'[p] <=> peer[d] = p /\ answer'[d] = "none"
  BY <1>1, <1>2, <1>3, <1>4 DEF TaskInv
<1>7. \A q \in Peers, d \in Calls : q # p =>
        (d \in ToSet(waiting'[q]) \cup working'[q] <=> peer[d] = q /\ answer'[d] = "none")
  BY <1>1, <1>2, <1>4 DEF TaskInv
<1>8. peer[c] # None
  BY <1>1, LimitAssumption
<1> HIDE DEF p, tasks, busy
<1>9. \A q \in Peers, d \in Calls :
        d \in ToSet(waiting'[q]) \cup working'[q] <=> peer'[d] = q /\ answer'[d] = "none"
  BY <1>1, <1>6, <1>7
<1> QED
  BY <1>1, <1>2, <1>4, <1>5, <1>8, <1>9 DEF TaskInv

(* What the transport says after a timeout changes no task. *)
THEOREM TaskInvariant == Spec => []TaskInv
<1>1. Init => TaskInv
  <2> SUFFICES ASSUME Init PROVE TaskInv
    OBVIOUS
  <2>1. \A p \in Peers : waiting[p] = <<>> /\ working[p] = {}
    BY DEF Init
  <2>2. Queued(<<>>, {})
    BY FS_EmptySet DEF Queued
  <2>3. /\ waiting \in [Peers -> Seq(Calls)] /\ working \in [Peers -> SUBSET Calls]
        /\ peer \in [Calls -> Peers \cup {None}]
        /\ answer \in [Calls -> {"none", "conn", "errors"}]
    BY DEF Init
  <2>4. /\ \A c \in Calls : peer[c] = None /\ answer[c] = "none"
        /\ token = {}
    BY DEF Init
  <2>5. todo = [c \in Calls |-> <<>>]
    BY DEF Init
  <2>6. ToSet(<<>>) = {}
    BY DEF ToSet
  <2>7. \A p \in Peers, c \in Calls :
          c \in ToSet(waiting[p]) \cup working[p] <=> peer[c] = p /\ answer[c] = "none"
    BY <2>1, <2>4, <2>6, LimitAssumption
  <2> QED
    BY <2>1, <2>2, <2>3, <2>4, <2>5, <2>7 DEF TaskInv
<1>2. TaskInv /\ [Next]_vars => TaskInv'
  <2> SUFFICES ASSUME TaskInv, [Next]_vars PROVE TaskInv'
    OBVIOUS
  <2>1. CASE UNCHANGED <<callVars, queueVars>>
    BY <2>1 DEF TaskInv, callVars, queueVars
  <2>2. \A d : LateConnects(d) \/ LateFails(d) => UNCHANGED <<callVars, queueVars>>
    BY DEF LateConnects, LateFails
  <2>3. UNCHANGED vars => UNCHANGED <<callVars, queueVars>>
    BY DEF vars
  <2> QED
    BY <2>1, <2>2, <2>3, DialKeepsTasks, WorkKeepsTasks, SettlingKeepsTasks DEF Next
<1> QED
  BY <1>1, <1>2, PTL DEF Spec

(* OneTaskEach: a call without an answer has exactly one task, waiting or    *)
(* running, and an answered one has none.                                    *)
THEOREM OneTaskEachHolds == Spec => []OneTaskEach
<1>1. TaskInv => OneTaskEach
  <2> SUFFICES ASSUME TaskInv, NEW c \in Calls, peer[c] # None
               PROVE  Cardinality({i \in DOMAIN waiting[peer[c]] : waiting[peer[c]][i] = c})
                        + Cardinality(working[peer[c]] \cap {c})
                        = IF answer[c] = "none" /\ c \notin token THEN 1 ELSE 0
    BY DEF OneTaskEach
  <2> DEFINE p == peer[c]
             places == {i \in DOMAIN waiting[p] : waiting[p][i] = c}
  <2>1. p \in Peers /\ Queued(waiting[p], working[p])
    BY DEF TaskInv
  <2>2. c \in token => answer[c] # "none"
    BY DEF TaskInv
  <2>3. CASE c \in working[p]
    <3>1. places = {} /\ working[p] \cap {c} = {c} /\ answer[c] = "none"
      BY <2>1, <2>3 DEF Queued, TaskInv
    <3>2. Cardinality(places) = 0 /\ Cardinality(working[p] \cap {c}) = 1
      BY <3>1, FS_EmptySet, FS_Singleton
    <3> QED
      BY <2>2, <3>1, <3>2
  <2>4. CASE c \in ToSet(waiting[p])
    <3>1. PICK i \in DOMAIN waiting[p] : waiting[p][i] = c
      BY <2>4 DEF ToSet
    <3>2. places = {i} /\ c \notin working[p] /\ answer[c] = "none"
      BY <2>1, <2>4, <3>1 DEF Queued, TaskInv
    <3>3. working[p] \cap {c} = {}
      BY <3>2
    <3>4. Cardinality(places) = 1 /\ Cardinality(working[p] \cap {c}) = 0
      BY <3>2, <3>3, FS_EmptySet, FS_Singleton
    <3> QED
      BY <2>2, <3>2, <3>4
  <2>5. CASE c \notin ToSet(waiting[p]) \cup working[p]
    <3>1. places = {} /\ working[p] \cap {c} = {} /\ answer[c] # "none"
      BY <2>1, <2>5 DEF TaskInv, ToSet
    <3> QED
      BY <3>1, FS_EmptySet
  <2> QED
    BY <2>3, <2>4, <2>5
<1> QED
  BY <1>1, TaskInvariant, PTL

(* ConnectedByAnAnswer: a peer is marked connected by a dial that is         *)
(* answered with a connection, and by no late one.                           *)
THEOREM ConnectedByAnAnswerHolds == Spec => []ConnectedByAnAnswer
<1>1. Init => ConnectedByAnAnswer
  BY DEF Init, ConnectedByAnAnswer
<1>2. TaskInv /\ ConnectedByAnAnswer /\ [Next]_vars => ConnectedByAnAnswer'
  <2> SUFFICES ASSUME TaskInv, ConnectedByAnAnswer, [Next]_vars PROVE ConnectedByAnAnswer'
    OBVIOUS
  <2>1. CASE UNCHANGED <<peer, answer, connected>>
    BY <2>1 DEF ConnectedByAnAnswer
  <2>2. ASSUME NEW c \in Calls, NEW p \in Peers, NEW list, Dial(c, p, list)
        PROVE  ConnectedByAnAnswer'
    <3>1. /\ answer[c] = "none" /\ connected' = connected
          /\ \A d \in Calls : answer'[d] = "conn" <=> answer[d] = "conn"
          /\ \A d \in Calls : d # c => peer'[d] = peer[d]
      BY <2>2 DEF Dial, TaskInv, wireVars
    <3> QED
      BY <3>1 DEF ConnectedByAnAnswer
  <2>3. ASSUME NEW c \in Calls, Fails(c) \/ TimesOut(c)
        PROVE  ConnectedByAnAnswer'
    <3>1. answer[c] = "none"
      BY <2>3 DEF Fails, TimesOut, Running, TaskInv
    <3>2. /\ \A d \in Calls : answer'[d] = "conn" <=> answer[d] = "conn"
          /\ UNCHANGED <<peer, connected>>
      BY <2>3, <3>1 DEF Fails, TimesOut, GivesUp, TaskInv, wireVars
    <3> QED
      BY <3>2 DEF ConnectedByAnAnswer
  <2>4. ASSUME NEW c \in Calls, Connects(c)
        PROVE  ConnectedByAnAnswer'
    <3>1. /\ answer' = [answer EXCEPT ![c] = "conn"] /\ peer' = peer
          /\ connected' = connected \cup {peer[c]}
      BY <2>4 DEF Connects, MarksConnected
    <3>2. \A d \in Calls : answer'[d] = "conn" <=> answer[d] = "conn" \/ d = c
      BY <3>1 DEF TaskInv
    <3> QED
      BY <3>1, <3>2 DEF ConnectedByAnAnswer
  <2>5. \A p : Work(p) => UNCHANGED <<peer, answer, connected>>
    BY DEF Work, callVars, wireVars
  <2>6. \A d : LateConnects(d) \/ LateFails(d) => UNCHANGED <<peer, answer, connected>>
    BY DEF LateConnects, LateFails, callVars
  <2>7. UNCHANGED vars => UNCHANGED <<peer, answer, connected>>
    BY DEF vars, callVars, wireVars
  <2> QED
    BY <2>1, <2>2, <2>3, <2>4, <2>5, <2>6, <2>7 DEF Next, Settles
<1> QED
  BY <1>1, <1>2, TaskInvariant, PTL DEF Spec

-----------------------------------------------------------------------------
(* The addresses.                                                           *)

(* What the transport handles and does not begin like one of ours. *)
Dialable ==
  Addrs \cap {a \in Handled : \A o \in OurAddresses : ~IsPrefix(o, Destination(a))}

(* dialables() keeps addresses that can be dialed only. *)
LEMMA DialablesAreDialable ==
  ASSUME NEW list \in AddressLists
  PROVE  Dialables(Handled, list) \in Seq(Dialable)
<1>1. list \in Seq(Addrs)
  BY LimitAssumption
<1> QED
  BY <1>1, FilterSelects DEF Dialables, Dialable

(* An address that leads to this node begins like one of ours behind its    *)
(* last relay.                                                              *)
LEMMA OurselvesAreNotDialable ==
  ASSUME NEW a \in Dialable
  PROVE  ~LeadsToUs(a)
<1> SUFFICES ASSUME LeadsToUs(a) PROVE FALSE
  OBVIOUS
<1>1. a \in Seq(ToSet(a)) /\ \A o \in OurAddresses : ~IsPrefix(o, Destination(a))
  BY LimitAssumption DEF Dialable
<1> DEFINE Behind(i) == SubSeq(a, i + 1, Len(a))
<1>2. PICK i \in 0 .. Len(a) :
        /\ i = 0 \/ a[i] \in Relays
        /\ ToSet(Behind(i)) \cap Relays = {}
        /\ Behind(i) \in {<<OurId>>} \cup ToSet(Ours) \cup {Append(o, OurId) : o \in ToSet(Ours)}
  BY DEF LeadsToUs
<1>3. \A j \in i + 1 .. Len(a) : a[j] \notin Relays
  <2> SUFFICES ASSUME NEW j \in i + 1 .. Len(a) PROVE a[j] \in ToSet(Behind(i))
    BY <1>2
  <2>0. i \in Nat /\ Len(a) \in Nat /\ i <= Len(a) /\ j \in Nat
    BY <1>1
  <2>1. /\ Behind(i) \in Seq(ToSet(a)) /\ Len(Behind(i)) = Len(a) - i
        /\ \A k \in 1 .. Len(a) - i : Behind(i)[k] = a[i + k]
    BY <1>1, <2>0
  <2>2. j - i \in DOMAIN Behind(i) /\ Behind(i)[j - i] = a[j]
    BY <2>0, <2>1
  <2> QED
    BY <2>1, <2>2 DEF ToSet
<1>4. Destination(a) = Behind(i)
  <2>1. CASE i = 0
    <3>1. Places(a, Relays) = {} /\ Behind(0) = a
      BY <1>1, <1>3, <2>1 DEF Places
    <3> QED
      BY <2>1, <3>1 DEF Destination
  <2>2. CASE i # 0
    <3>1. i \in Places(a, Relays) /\ \A j \in Places(a, Relays) : j <= i /\ j \in Nat
      BY <1>1, <1>2, <1>3, <2>2 DEF Places
    <3>2. \A k \in Places(a, Relays) :
            (\A j \in Places(a, Relays) : k >= j) <=> k = i
      BY <3>1
    <3>3. Max(Places(a, Relays)) = i
      BY <3>1, <3>2 DEF Max
    <3> QED
      BY <3>1, <3>3 DEF Destination
  <2> QED
    BY <2>1, <2>2
<1>5. \A o \in OurAddresses : ~IsPrefix(o, Behind(i))
  BY <1>1, <1>4
<1>6. \A o \in ToSet(Ours) : o \in OurAddresses /\ o \in Seq(ToSet(o))
  BY AddressAssumption DEF OurAddresses, ToSet
<1>7. CASE Behind(i) = <<OurId>>
  <2>1. <<OurId>> \in OurAddresses /\ IsPrefix(<<OurId>>, <<OurId>>)
    BY DEF OurAddresses, IsPrefix
  <2> QED
    BY <1>5, <1>7, <2>1
<1>8. CASE Behind(i) \in ToSet(Ours)
  <2>1. IsPrefix(Behind(i), Behind(i))
    BY <1>6, <1>8 DEF IsPrefix
  <2> QED
    BY <1>5, <1>6, <1>8, <2>1
<1>9. ASSUME NEW o \in ToSet(Ours), Behind(i) = Append(o, OurId)
      PROVE  FALSE
  <2>1. IsPrefix(o, Append(o, OurId))
    BY <1>6 DEF IsPrefix
  <2> QED
    BY <1>5, <1>6, <1>9, <2>1
<1> QED
  BY <1>2, <1>7, <1>8, <1>9

(* AnswersTell, of one call. *)
Accounts(c) ==
  /\ answer[c] = "none" => errors[c] \o todo[c] = addrs[c]
  /\ answer[c] = "errors" => errors[c] = addrs[c]
  /\ answer[c] = "conn" =>
       /\ IsStrictPrefix(errors[c], addrs[c])
       /\ [call |-> c, addr |-> addrs[c][Len(errors[c]) + 1]] \in open

(* The addresses of a call are dialable ones; it has some to do while it has *)
(* no answer, and what it collected and has to do makes up the whole list.   *)
AddressInv ==
  /\ addrs \in [Calls -> Seq(Dialable)]
  /\ todo \in [Calls -> Seq(Dialable)]
  /\ errors \in [Calls -> Seq(Dialable)]
  /\ late \subseteq [call : Calls, addr : Dialable]
  /\ open \subseteq [call : Calls, addr : Dialable]
  /\ \A c \in Calls :
       /\ todo[c] # <<>> <=> peer[c] # None /\ answer[c] = "none"
       /\ Accounts(c)
       /\ peer[c] = None => errors[c] = <<>>

(* AnswersTell says the same of every call. *)
LEMMA AnswersAccount ==
  ASSUME answer \in [Calls -> {"none", "conn", "errors"}]
  PROVE  AnswersTell <=> \A c \in Calls : Accounts(c)
<1>1. ASSUME NEW c \in Calls
      PROVE  answer[c] = "none" \/ answer[c] = "conn" \/ answer[c] = "errors"
  OBVIOUS
<1> QED
  BY <1>1 DEF AnswersTell, Accounts

(* Moving the first of t to the end of e leaves the two together the same.  *)
LEMMA MovesOver ==
  ASSUME NEW S, NEW e \in Seq(S), NEW t \in Seq(S), t # <<>>
  PROVE  /\ Append(e, Head(t)) \in Seq(S) /\ Tail(t) \in Seq(S)
         /\ Append(e, Head(t)) \o Tail(t) = e \o t
<1> DEFINE es == Append(e, Head(t))
           ts == Tail(t)
           left == es \o ts
           right == e \o t
<1>1. /\ Head(t) \in S /\ Head(t) = t[1] /\ ts \in Seq(S) /\ Len(ts) = Len(t) - 1
      /\ \A i \in 1 .. Len(t) - 1 : ts[i] = t[i + 1]
      /\ Len(e) \in Nat /\ Len(t) \in Nat \ {0}
  BY HeadTailProperties, EmptySeq, LenProperties
<1>2. /\ es \in Seq(S) /\ Len(es) = Len(e) + 1 /\ es[Len(e) + 1] = t[1]
      /\ \A i \in 1 .. Len(e) : es[i] = e[i]
  BY <1>1, AppendProperties
<1> HIDE DEF es, ts
<1>3. /\ left \in Seq(S) /\ Len(left) = Len(e) + Len(t)
      /\ \A i \in 1 .. Len(e) + 1 : left[i] = es[i]
      /\ \A i \in Len(e) + 2 .. Len(e) + Len(t) : left[i] = ts[i - (Len(e) + 1)]
  <2>1. /\ left \in Seq(S) /\ Len(left) = Len(es) + Len(ts)
        /\ \A i \in 1 .. Len(es) + Len(ts) :
             left[i] = IF i <= Len(es) THEN es[i] ELSE ts[i - Len(es)]
    BY <1>1, <1>2, ConcatProperties
  <2> HIDE DEF left
  <2>2. /\ Len(es) + Len(ts) = Len(e) + Len(t)
        /\ Len(es) = Len(e) + 1 /\ Len(e) \in Nat /\ Len(t) \in Nat \ {0}
    BY <1>1, <1>2
  <2>3. \A i \in 1 .. Len(e) + 1 : left[i] = es[i]
    BY <2>1, <2>2
  <2>4. \A i \in Len(e) + 2 .. Len(e) + Len(t) : left[i] = ts[i - (Len(e) + 1)]
    BY <2>1, <2>2
  <2> QED
    BY <2>1, <2>2, <2>3, <2>4
<1>4. /\ right \in Seq(S) /\ Len(right) = Len(e) + Len(t)
      /\ \A i \in 1 .. Len(e) : right[i] = e[i]
      /\ \A i \in Len(e) + 1 .. Len(e) + Len(t) : right[i] = t[i - Len(e)]
  BY <1>1, ConcatProperties
<1> HIDE DEF left, right
<1>5. ASSUME NEW i \in 1 .. Len(e) + Len(t)
      PROVE  left[i] = right[i]
  <2>1. CASE i <= Len(e)
    BY <1>1, <1>2, <1>3, <1>4, <2>1
  <2>2. CASE i = Len(e) + 1
    <3>1. i - Len(e) = 1
      BY <1>1, <2>2
    <3> QED
      BY <1>1, <1>2, <1>3, <1>4, <2>2, <3>1
  <2>3. CASE i > Len(e) + 1
    <3>1. i - (Len(e) + 1) \in 1 .. Len(t) - 1 /\ i - (Len(e) + 1) + 1 = i - Len(e)
      BY <1>1, <2>3
    <3>2. ts[i - (Len(e) + 1)] = t[i - Len(e)]
      BY <1>1, <3>1
    <3>3. i \in Len(e) + 2 .. Len(e) + Len(t)
      BY <1>1, <2>3
    <3> QED
      BY <1>1, <1>3, <1>4, <3>2, <3>3
  <2> QED
    BY <1>1, <2>1, <2>2, <2>3
<1>6. left = right
  BY <1>1, <1>3, <1>4, <1>5, SeqEqual
<1> QED
  BY <1>1, <1>2, <1>6 DEF es, ts, left, right

(* What is to do is behind what was done. *)
LEMMA ComesNext ==
  ASSUME NEW S, NEW e \in Seq(S), NEW t \in Seq(S), t # <<>>
  PROVE  IsStrictPrefix(e, e \o t) /\ (e \o t)[Len(e) + 1] = Head(t)
<1>1. /\ Len(e) \in Nat /\ Len(t) \in Nat \ {0} /\ Head(t) = t[1]
      /\ e \o t \in Seq(S) /\ Len(e \o t) = Len(e) + Len(t)
      /\ \A i \in 1 .. Len(e) + Len(t) :
           (e \o t)[i] = IF i <= Len(e) THEN e[i] ELSE t[i - Len(e)]
  BY HeadTailProperties, EmptySeq, LenProperties, ConcatProperties
<1>2. (e \o t)[Len(e) + 1] = t[1]
  BY <1>1
<1>3. Len(e) <= Len(e \o t) /\ e # e \o t
  BY <1>1
<1> DEFINE u == SubSeq(e \o t, 1, Len(e))
<1>4. /\ u \in Seq(S) /\ Len(u) = Len(e)
      /\ \A i \in 1 .. Len(e) : u[i] = (e \o t)[i]
  BY <1>1
<1>5. \A i \in 1 .. Len(e) : u[i] = e[i]
  BY <1>1, <1>4
<1>6. u = e /\ SubSeq(e, 1, Len(e)) = e
  BY <1>4, <1>5, SeqEqual, SubSeqFull
<1> QED
  BY <1>1, <1>2, <1>3, <1>6 DEF IsStrictPrefix, IsPrefix

(* What a call that runs is dialing, and what it has done and to do. *)
LEMMA RunningCalls ==
  ASSUME TaskInv, AddressInv, NEW c \in Calls, Running(c)
  PROVE  /\ answer[c] = "none" /\ peer[c] # None
         /\ todo[c] \in Seq(Dialable) /\ todo[c] # <<>>
         /\ Head(todo[c]) \in Dialable /\ Tail(todo[c]) \in Seq(Dialable)
         /\ errors[c] \in Seq(Dialable) /\ errors[c] \o todo[c] = addrs[c]
         /\ Attempt(c) \in [call : Calls, addr : Dialable]
<1>1. peer[c] # None /\ answer[c] = "none"
  BY DEF Running, TaskInv
<1>2. todo[c] \in Seq(Dialable) /\ todo[c] # <<>> /\ errors[c] \in Seq(Dialable)
  BY <1>1 DEF AddressInv
<1>3. errors[c] \o todo[c] = addrs[c]
  BY <1>1 DEF AddressInv, Accounts
<1> QED
  BY <1>1, <1>2, <1>3 DEF Attempt

(* An address that is given up moves from what is to do to the errors. *)
LEMMA GivingUp ==
  ASSUME TaskInv, AddressInv, NEW c \in Calls, Fails(c) \/ TimesOut(c)
  PROVE  AddressInv'
<1>1. /\ Running(c) /\ GivesUp(c) /\ UNCHANGED <<peer, addrs, open>>
      /\ late' = late \/ late' = late \cup {Attempt(c)}
  BY DEF Fails, TimesOut, wireVars
<1>2. /\ answer[c] = "none" /\ peer[c] # None
      /\ todo[c] \in Seq(Dialable) /\ todo[c] # <<>>
      /\ Head(todo[c]) \in Dialable /\ Tail(todo[c]) \in Seq(Dialable)
      /\ errors[c] \in Seq(Dialable) /\ errors[c] \o todo[c] = addrs[c]
      /\ Attempt(c) \in [call : Calls, addr : Dialable]
  BY <1>1, RunningCalls
<1> DEFINE es == Append(errors[c], Head(todo[c]))
           ts == Tail(todo[c])
<1>3. es \in Seq(Dialable) /\ ts \in Seq(Dialable) /\ es \o ts = addrs[c]
  <2>1. /\ errors[c] \in Seq(Dialable) /\ todo[c] \in Seq(Dialable) /\ todo[c] # <<>>
        /\ errors[c] \o todo[c] = addrs[c]
    BY <1>2
  <2>2. /\ Append(errors[c], Head(todo[c])) \in Seq(Dialable) /\ Tail(todo[c]) \in Seq(Dialable)
        /\ Append(errors[c], Head(todo[c])) \o Tail(todo[c]) = errors[c] \o todo[c]
    BY <2>1, MovesOver, ZenonT(30)
  <2> QED
    BY <2>1, <2>2, Zenon
<1>4. ts = <<>> => es = addrs[c]
  BY <1>3, ConcatEmptySeq
<1>5. /\ errors' = [errors EXCEPT ![c] = es] /\ todo' = [todo EXCEPT ![c] = ts]
      /\ answer' = [answer EXCEPT ![c] = IF todo'[c] = <<>> THEN "errors" ELSE answer[c]]
  BY <1>1 DEF GivesUp
<1> HIDE DEF es, ts
<1>6. /\ errors' \in [Calls -> Seq(Dialable)] /\ todo' \in [Calls -> Seq(Dialable)]
      /\ errors'[c] = es /\ todo'[c] = ts
      /\ answer'[c] = IF ts = <<>> THEN "errors" ELSE "none"
      /\ \A d \in Calls : d # c => /\ errors'[d] = errors[d] /\ todo'[d] = todo[d]
                                   /\ answer'[d] = answer[d]
  BY <1>2, <1>3, <1>5 DEF AddressInv, TaskInv
<1>8. \A d \in Calls : Accounts(d)'
  <2>1. Accounts(c)'
    BY <1>1, <1>3, <1>4, <1>6 DEF Accounts
  <2>2. ASSUME NEW d \in Calls, d # c PROVE Accounts(d)'
    BY <1>1, <1>6, <2>2 DEF AddressInv, Accounts
  <2> QED
    BY <2>1, <2>2
<1> QED
  <2>1. /\ addrs' \in [Calls -> Seq(Dialable)] /\ late' \subseteq [call : Calls, addr : Dialable]
        /\ open' \subseteq [call : Calls, addr : Dialable]
    BY <1>1, <1>2 DEF AddressInv
  <2>2. \A d \in Calls :
          /\ todo'[d] # <<>> <=> peer'[d] # None /\ answer'[d] = "none"
          /\ peer'[d] = None => errors'[d] = <<>>
    BY <1>1, <1>2, <1>3, <1>6 DEF AddressInv
  <2> QED
    BY <1>6, <1>8, <2>1, <2>2 DEF AddressInv

(* The address that connects is the one after those that failed. *)
LEMMA Connecting ==
  ASSUME TaskInv, AddressInv, NEW c \in Calls, Connects(c)
  PROVE  AddressInv'
<1>1. /\ Running(c) /\ UNCHANGED <<peer, addrs, errors, late>>
      /\ open' = open \cup {Attempt(c)}
      /\ todo' = [todo EXCEPT ![c] = <<>>] /\ answer' = [answer EXCEPT ![c] = "conn"]
  BY DEF Connects
<1>2. /\ answer[c] = "none" /\ peer[c] # None
      /\ todo[c] \in Seq(Dialable) /\ todo[c] # <<>>
      /\ errors[c] \in Seq(Dialable) /\ errors[c] \o todo[c] = addrs[c]
      /\ Attempt(c) \in [call : Calls, addr : Dialable]
  BY <1>1, RunningCalls
<1>3. /\ IsStrictPrefix(errors[c], addrs[c])
      /\ addrs[c][Len(errors[c]) + 1] = Head(todo[c])
  <2>1. /\ IsStrictPrefix(errors[c], errors[c] \o todo[c])
        /\ (errors[c] \o todo[c])[Len(errors[c]) + 1] = Head(todo[c])
    BY <1>2, ComesNext, ZenonT(30)
  <2> QED
    BY <1>2, <2>1, Zenon
<1>4. /\ todo' \in [Calls -> Seq(Dialable)] /\ todo'[c] = <<>> /\ answer'[c] = "conn"
      /\ \A d \in Calls : d # c => todo'[d] = todo[d] /\ answer'[d] = answer[d]
  BY <1>1 DEF AddressInv, TaskInv
<1>6. \A d \in Calls : Accounts(d)'
  <2>1. [call |-> c, addr |-> addrs[c][Len(errors[c]) + 1]] \in open'
    BY <1>1, <1>3 DEF Attempt
  <2>2. Accounts(c)'
    BY <1>1, <1>3, <1>4, <2>1 DEF Accounts
  <2>3. ASSUME NEW d \in Calls, d # c PROVE Accounts(d)'
    BY <1>1, <1>4, <2>3 DEF AddressInv, Accounts
  <2> QED
    BY <2>2, <2>3
<1> QED
  <2>1. /\ addrs' \in [Calls -> Seq(Dialable)] /\ errors' \in [Calls -> Seq(Dialable)]
        /\ late' \subseteq [call : Calls, addr : Dialable]
        /\ open' \subseteq [call : Calls, addr : Dialable]
    BY <1>1, <1>2 DEF AddressInv
  <2>2. \A d \in Calls :
          /\ todo'[d] # <<>> <=> peer'[d] # None /\ answer'[d] = "none"
          /\ peer'[d] = None => errors'[d] = <<>>
    BY <1>1, <1>2, <1>4 DEF AddressInv
  <2> QED
    BY <1>4, <1>6, <2>1, <2>2 DEF AddressInv

(* A call begins with all its addresses to do. *)
LEMMA Beginning ==
  ASSUME TaskInv, AddressInv, NEW c \in Calls, NEW p \in Peers,
         NEW list \in AddressLists, Dial(c, p, list)
  PROVE  AddressInv'
<1> DEFINE ds == Dialables(Handled, list)
<1>1. ds \in Seq(Dialable)
  BY DialablesAreDialable
<1>2. /\ peer[c] = None /\ peer' = [peer EXCEPT ![c] = p]
      /\ addrs' = [addrs EXCEPT ![c] = ds] /\ todo' = [todo EXCEPT ![c] = ds]
      /\ answer' = (IF ds = <<>> THEN [answer EXCEPT ![c] = "errors"] ELSE answer)
      /\ UNCHANGED <<errors, late, open>>
  BY DEF Dial, wireVars
<1> HIDE DEF ds
<1>3. p # None /\ answer[c] = "none" /\ errors[c] = <<>>
  BY <1>2, LimitAssumption DEF TaskInv, AddressInv
<1>4. /\ addrs' \in [Calls -> Seq(Dialable)] /\ todo' \in [Calls -> Seq(Dialable)]
      /\ addrs'[c] = ds /\ todo'[c] = ds /\ peer'[c] = p
      /\ answer'[c] = IF ds = <<>> THEN "errors" ELSE "none"
      /\ \A d \in Calls : d # c => /\ addrs'[d] = addrs[d] /\ todo'[d] = todo[d]
                                   /\ peer'[d] = peer[d] /\ answer'[d] = answer[d]
  BY <1>1, <1>2, <1>3 DEF AddressInv, TaskInv
<1>5. \A d \in Calls : Accounts(d)'
  <2>1. <<>> \o ds = ds
    BY <1>1, ConcatEmptySeq
  <2>2. Accounts(c)'
    BY <1>2, <1>3, <1>4, <2>1 DEF Accounts
  <2>3. ASSUME NEW d \in Calls, d # c PROVE Accounts(d)'
    BY <1>2, <1>4, <2>3, ZenonT(30) DEF AddressInv, Accounts
  <2> QED
    BY <2>2, <2>3
<1> QED
  <2>1. /\ errors' \in [Calls -> Seq(Dialable)]
        /\ late' \subseteq [call : Calls, addr : Dialable]
        /\ open' \subseteq [call : Calls, addr : Dialable]
    BY <1>2 DEF AddressInv
  <2>2. \A d \in Calls :
          /\ todo'[d] # <<>> <=> peer'[d] # None /\ answer'[d] = "none"
          /\ peer'[d] = None => errors'[d] = <<>>
    BY <1>2, <1>3, <1>4 DEF AddressInv
  <2> QED
    BY <1>4, <1>5, <2>1, <2>2 DEF AddressInv

(* The whole list of a call is accounted for at every step.                  *)
THEOREM AddressInvariant == Spec => []AddressInv
<1>1. Init => AddressInv
  <2> SUFFICES ASSUME Init PROVE AddressInv
    OBVIOUS
  <2>1. /\ addrs = [c \in Calls |-> <<>>] /\ todo = addrs /\ errors = addrs
        /\ late = {} /\ open = {}
        /\ \A c \in Calls : peer[c] = None /\ answer[c] = "none"
    BY DEF Init
  <2>2. \A c \in Calls : addrs[c] = <<>> /\ todo[c] = <<>> /\ errors[c] = <<>>
    BY <2>1
  <2>3. addrs \in [Calls -> Seq(Dialable)]
    BY <2>1
  <2>4. <<>> \o <<>> = <<>>
    BY EmptySeq, ConcatEmptySeq
  <2>5. \A c \in Calls : Accounts(c)
    BY <2>1, <2>2, <2>4 DEF Accounts
  <2> QED
    BY <2>1, <2>2, <2>3, <2>5 DEF AddressInv
<1>2. TaskInv /\ AddressInv /\ [Next]_vars => AddressInv'
  <2> SUFFICES ASSUME TaskInv, AddressInv, [Next]_vars
               PROVE  AddressInv'
    OBVIOUS
  <2>1. CASE UNCHANGED callVars /\ late' \subseteq late /\ UNCHANGED open
    BY <2>1 DEF AddressInv, Accounts, callVars
  <2>2. ASSUME NEW d \in late, LateConnects(d)
        PROVE  AddressInv'
    <3>1. UNCHANGED callVars /\ late' \subseteq late /\ open' = open \cup {d}
      BY <2>2 DEF LateConnects
    <3> QED
      BY <2>2, <3>1 DEF AddressInv, Accounts, callVars
  <2>3. \A d : LateFails(d) => UNCHANGED callVars /\ late' \subseteq late /\ UNCHANGED open
    BY DEF LateFails
  <2>4. \A p : Work(p) => UNCHANGED callVars /\ late' \subseteq late /\ UNCHANGED open
    BY DEF Work, wireVars
  <2>5. UNCHANGED vars => UNCHANGED callVars /\ late' \subseteq late /\ UNCHANGED open
    BY DEF vars, wireVars
  <2> QED
    BY <2>1, <2>2, <2>3, <2>4, <2>5, Beginning, Connecting, GivingUp DEF Next, Settles
<1> QED
  BY <1>1, <1>2, TaskInvariant, PTL DEF Spec

(* AnswersTell: the answer of a call accounts for each of its addresses.     *)
THEOREM AnswersTellHolds == Spec => []AnswersTell
<1>1. TaskInv /\ AddressInv => AnswersTell
  BY AnswersAccount DEF TaskInv, AddressInv
<1> QED
  BY <1>1, TaskInvariant, AddressInvariant, PTL

(* SelfIsNeverDialed: whatever relays are in front, no address that leads to *)
(* this very node is dialed.                                                 *)
THEOREM SelfIsNeverDialedHolds == Spec => []SelfIsNeverDialed
<1>1. TaskInv /\ AddressInv => SelfIsNeverDialed
  <2> SUFFICES ASSUME TaskInv, AddressInv,
                      NEW d \in late \cup open \cup {Attempt(c) : c \in {x \in Calls : Running(x)}}
               PROVE  ~LeadsToUs(d.addr)
    BY DEF SelfIsNeverDialed
  <2>1. d \in [call : Calls, addr : Dialable]
    BY RunningCalls DEF AddressInv
  <2> QED
    BY <2>1, OurselvesAreNotDialable
<1> QED
  BY <1>1, TaskInvariant, AddressInvariant, PTL

(* TypeOK: the calls, the queues and what is on the wire keep their types.   *)
THEOREM TypeCorrect == Spec => []TypeOK
<1>1. TaskInv /\ AddressInv /\ ConnectedByAnAnswer => TypeOK
  <2> SUFFICES ASSUME TaskInv, AddressInv, ConnectedByAnAnswer PROVE TypeOK
    OBVIOUS
  <2>1. Dialable \subseteq Addrs
    BY DEF Dialable
  <2>2. Seq(Dialable) \subseteq Seq(Addrs)
    BY <2>1
  <2>3. \A f \in {addrs, todo, errors} : f \in [Calls -> Seq(Addrs)]
    BY <2>2 DEF AddressInv
  <2>4. late \subseteq Dials /\ open \subseteq Dials
    BY <2>1 DEF AddressInv, Dials
  <2>5. connected \subseteq Peers
    BY DEF TaskInv, ConnectedByAnAnswer
  <2>6. token \subseteq Calls
    BY DEF TaskInv
  <2> QED
    BY <2>3, <2>4, <2>5, <2>6 DEF TaskInv, TypeOK
<1> QED
  BY <1>1, TaskInvariant, AddressInvariant, ConnectedByAnAnswerHolds, PTL
=============================================================================
