------------------------ MODULE DialerAttemptProofs ------------------------
(***************************************************************************)
(* Proofs about the attempts of the dialer: between turns a queue runs     *)
(* exactly when one attempt of its peer is under way, and the periodic     *)
(* clean takes the Queue object away only from an attempt of a peer that   *)
(* is denied for ever.                                                     *)
(***************************************************************************)
EXTENDS DialerAnswerProofs

-----------------------------------------------------------------------------
(* The order of what is left of the turn.                                   *)

(* An f comes before a g. *)
Over(s, f, g) == \E i, j \in DOMAIN s : i < j /\ s[i] = f /\ s[j] = g

(* Right after every f comes a member of G. *)
Followed(s, f, G) == \A i \in DOMAIN s : s[i] = f => i + 1 \in DOMAIN s /\ s[i + 1] \in G

(* What comes before what in two sequences, one after the other. *)
LEMMA OverJoin ==
  ASSUME NEW S, NEW s \in Seq(S), NEW t \in Seq(S), NEW f, NEW g
  PROVE  Over(s \o t, f, g)
           <=> Over(s, f, g) \/ Over(t, f, g) \/ (f \in Elems(s) /\ g \in Elems(t))
<1>1. PICK u : u = s \o t
  OBVIOUS
<1>2. PICK m, n : m = Len(s) /\ n = Len(t)
  OBVIOUS
<1>3. /\ m \in Nat /\ n \in Nat
      /\ DOMAIN s = 1 .. m /\ DOMAIN t = 1 .. n /\ DOMAIN u = 1 .. m + n
      /\ \A i \in 1 .. m : u[i] = s[i]
      /\ \A i \in 1 .. n : u[m + i] = t[i]
  BY <1>1, <1>2, JoinFacts
<1>4. ASSUME Over(u, f, g)
      PROVE  Over(s, f, g) \/ Over(t, f, g) \/ (f \in Elems(s) /\ g \in Elems(t))
  <2>1. PICK i, j \in DOMAIN u : i < j /\ u[i] = f /\ u[j] = g
    BY <1>4 DEF Over
  <2>2. CASE j <= m
    <3>1. i \in DOMAIN s /\ j \in DOMAIN s /\ s[i] = f /\ s[j] = g
      BY <1>3, <2>1, <2>2
    <3> QED
      BY <2>1, <3>1 DEF Over
  <2>3. CASE m < i
    <3>1. /\ i - m \in DOMAIN t /\ j - m \in DOMAIN t /\ i - m < j - m
          /\ i = m + (i - m) /\ j = m + (j - m)
      BY <1>3, <2>1, <2>3
    <3>2. t[i - m] = f /\ t[j - m] = g
      BY <1>3, <2>1, <3>1
    <3> QED
      BY <3>1, <3>2 DEF Over
  <2>4. CASE i <= m /\ m < j
    <3>1. i \in DOMAIN s /\ j - m \in DOMAIN t /\ j = m + (j - m)
      BY <1>3, <2>1, <2>4
    <3>2. s[i] = f /\ t[j - m] = g
      BY <1>3, <2>1, <3>1
    <3> QED
      BY <3>1, <3>2 DEF Elems
  <2> QED
    BY <1>3, <2>1, <2>2, <2>3, <2>4
<1>5. ASSUME Over(s, f, g) PROVE Over(u, f, g)
  <2>1. PICK i, j \in DOMAIN s : i < j /\ s[i] = f /\ s[j] = g
    BY <1>5 DEF Over
  <2>2. i \in DOMAIN u /\ j \in DOMAIN u /\ u[i] = f /\ u[j] = g
    BY <1>3, <2>1
  <2> QED
    BY <2>1, <2>2 DEF Over
<1>6. ASSUME Over(t, f, g) PROVE Over(u, f, g)
  <2>1. PICK i, j \in DOMAIN t : i < j /\ t[i] = f /\ t[j] = g
    BY <1>6 DEF Over
  <2>2. /\ m + i \in DOMAIN u /\ m + j \in DOMAIN u /\ m + i < m + j
        /\ u[m + i] = f /\ u[m + j] = g
    BY <1>3, <2>1
  <2> QED
    BY <2>2 DEF Over
<1>7. ASSUME f \in Elems(s), g \in Elems(t) PROVE Over(u, f, g)
  <2>1. PICK i \in DOMAIN s, j \in DOMAIN t : s[i] = f /\ t[j] = g
    BY <1>7 DEF Elems
  <2>2. /\ i \in DOMAIN u /\ m + j \in DOMAIN u /\ i < m + j
        /\ u[i] = f /\ u[m + j] = g
    BY <1>3, <2>1
  <2> QED
    BY <2>2 DEF Over
<1> QED
  BY <1>1, <1>4, <1>5, <1>6, <1>7

(* What comes before what in a short piece of a turn. *)
LEMMA OverPieces ==
  ASSUME NEW f, NEW g
  PROVE  ~Over(<<>>, f, g) /\ \A a : ~Over(<<a>>, f, g)
  BY DEF Over

(* In two frames. *)
LEMMA OverTwo ==
  ASSUME NEW f, NEW g, NEW a, NEW b
  PROVE  Over(<<a, b>>, f, g) <=> f = a /\ g = b
<1>1. DOMAIN <<a, b>> = {1, 2} /\ <<a, b>>[1] = a /\ <<a, b>>[2] = b
  OBVIOUS
<1> QED
  BY <1>1 DEF Over

(* In three frames. *)
LEMMA OverThree ==
  ASSUME NEW f, NEW g, NEW a, NEW b, NEW c
  PROVE  Over(<<a, b, c>>, f, g) <=> (f = a /\ g \in {b, c}) \/ (f = b /\ g = c)
<1>1. /\ DOMAIN <<a, b, c>> = {1, 2, 3}
      /\ <<a, b, c>>[1] = a /\ <<a, b, c>>[2] = b /\ <<a, b, c>>[3] = c
  OBVIOUS
<1> QED
  BY <1>1 DEF Over

(* What comes before what when the first element is told apart. *)
LEMMA OverRest ==
  ASSUME NEW S, NEW s \in Seq(S), s # <<>>, NEW f, NEW g
  PROVE  Over(s, f, g) <=> Over(Tail(s), f, g) \/ (f = Head(s) /\ g \in Elems(Tail(s)))
<1>1. PICK h \in Seq(S), t \in Seq(S) : h = <<Head(s)>> /\ t = Tail(s)
  <2>1. <<Head(s)>> \in Seq(S) /\ Tail(s) \in Seq(S)
    OBVIOUS
  <2> QED
    BY <2>1
<1>2. s = h \o t
  <2>1. s = <<Head(s)>> \o Tail(s)
    OBVIOUS
  <2> QED
    BY <1>1, <2>1
<1>3. Over(h \o t, f, g) <=> Over(h, f, g) \/ Over(t, f, g) \/ (f \in Elems(h) /\ g \in Elems(t))
  BY ONLY h \in Seq(S), t \in Seq(S), OverJoin
<1>4. ~Over(h, f, g) /\ Elems(h) = {Head(s)}
  BY <1>1, OverPieces, PieceElems
<1> QED
  BY <1>1, <1>2, <1>3, <1>4

(* What is followed in both of two pieces is in the whole. *)
LEMMA FollowedJoin ==
  ASSUME NEW S, NEW s \in Seq(S), NEW t \in Seq(S), NEW f, NEW G,
         Followed(s, f, G), Followed(t, f, G)
  PROVE  Followed(s \o t, f, G)
<1>1. PICK u : u = s \o t
  OBVIOUS
<1>2. PICK m, n : m = Len(s) /\ n = Len(t)
  OBVIOUS
<1>3. /\ m \in Nat /\ n \in Nat
      /\ DOMAIN s = 1 .. m /\ DOMAIN t = 1 .. n /\ DOMAIN u = 1 .. m + n
      /\ \A i \in 1 .. m : u[i] = s[i]
      /\ \A i \in 1 .. n : u[m + i] = t[i]
  BY <1>1, <1>2, JoinFacts
<1> SUFFICES ASSUME NEW i \in DOMAIN u, u[i] = f PROVE i + 1 \in DOMAIN u /\ u[i + 1] \in G
  BY <1>1 DEF Followed
<1>4. CASE i <= m
  <2>1. i \in DOMAIN s /\ s[i] = f
    BY <1>3, <1>4
  <2>2. i + 1 \in DOMAIN s /\ s[i + 1] \in G
    BY <2>1 DEF Followed
  <2>3. i + 1 \in DOMAIN u /\ u[i + 1] = s[i + 1]
    BY <1>3, <2>2
  <2> QED
    BY <2>2, <2>3
<1>5. CASE m < i
  <2>1. i - m \in DOMAIN t /\ i = m + (i - m)
    BY <1>3, <1>5
  <2>2. t[i - m] = f
    BY <1>3, <2>1
  <2>3. (i - m) + 1 \in DOMAIN t /\ t[(i - m) + 1] \in G
    BY <2>1, <2>2 DEF Followed
  <2>4. i + 1 \in DOMAIN u /\ i + 1 = m + ((i - m) + 1)
    BY <1>3, <1>5, <2>3
  <2>5. u[m + ((i - m) + 1)] = t[(i - m) + 1]
    BY <1>3, <2>3
  <2> QED
    BY <2>3, <2>4, <2>5
<1> QED
  BY <1>3, <1>4, <1>5

(* What is followed in a sequence, when its first element is told apart. *)
LEMMA FollowedRest ==
  ASSUME NEW S, NEW s \in Seq(S), s # <<>>, NEW f, NEW G, Followed(s, f, G)
  PROVE  /\ Followed(Tail(s), f, G)
         /\ Head(s) = f => Tail(s) # <<>> /\ Head(Tail(s)) \in G
<1>1. PICK n : n = Len(s)
  OBVIOUS
<1>2. PICK t : t = Tail(s)
  OBVIOUS
<1>3. /\ n \in Nat /\ n > 0 /\ DOMAIN s = 1 .. n /\ DOMAIN t = 1 .. n - 1
      /\ \A i \in 1 .. n - 1 : t[i] = s[i + 1]
      /\ Head(s) = s[1]
      /\ n > 1 => t # <<>> /\ Head(t) = t[1]
  <2>1. /\ Len(s) \in Nat /\ Len(s) > 0 /\ DOMAIN s = 1 .. Len(s) /\ Head(s) = s[1]
        /\ Tail(s) \in Seq(S) /\ Len(Tail(s)) = Len(s) - 1
        /\ DOMAIN Tail(s) = 1 .. Len(Tail(s))
        /\ \A i \in 1 .. Len(s) - 1 : Tail(s)[i] = s[i + 1]
    OBVIOUS
  <2>2. \A w \in Seq(S) : Len(w) > 0 => w # <<>> /\ Head(w) = w[1]
    OBVIOUS
  <2>3. n > 1 => Len(t) > 0
    BY ONLY <1>1, <1>2, <2>1
  <2> QED
    BY <1>1, <1>2, <2>1, <2>2, <2>3
<1>4. Followed(t, f, G)
  <2> SUFFICES ASSUME NEW i \in DOMAIN t, t[i] = f PROVE i + 1 \in DOMAIN t /\ t[i + 1] \in G
    BY DEF Followed
  <2>1. i + 1 \in DOMAIN s /\ s[i + 1] = f
    BY <1>3
  <2>2. (i + 1) + 1 \in DOMAIN s /\ s[(i + 1) + 1] \in G
    BY <2>1 DEF Followed
  <2>3. i + 1 \in DOMAIN t
    BY <1>3, <2>2
  <2> QED
    BY <1>3, <2>2, <2>3
<1>5. ASSUME Head(s) = f PROVE t # <<>> /\ Head(t) \in G
  <2>1. 1 \in DOMAIN s /\ s[1] = f
    BY <1>3, <1>5
  <2>2. 1 + 1 \in DOMAIN s /\ s[1 + 1] \in G
    BY <2>1 DEF Followed
  <2>3. n > 1 /\ t[1] = s[1 + 1]
    BY <1>3, <2>2
  <2> QED
    BY <1>3, <2>2, <2>3
<1> QED
  BY <1>2, <1>4, <1>5

(* What is followed where it does not occur, by more, or in a short piece. *)
LEMMA FollowedFacts ==
  ASSUME NEW f
  PROVE  /\ \A s, G : f \notin Elems(s) => Followed(s, f, G)
         /\ \A s, G, H : Followed(s, f, G) /\ G \cap Elems(s) \subseteq H => Followed(s, f, H)
         /\ \A a, b, G : b # f /\ b \in G => Followed(<<a, b>>, f, G)
         /\ \A a, b, c, G : a # f /\ c # f /\ c \in G => Followed(<<a, b, c>>, f, G)
         /\ \A a, b, c, G : b # f /\ c # f /\ b \in G => Followed(<<a, b, c>>, f, G)
<1>1. \A s, G : f \notin Elems(s) => Followed(s, f, G)
  BY DEF Followed, Elems
<1>2. \A s, G, H : Followed(s, f, G) /\ G \cap Elems(s) \subseteq H => Followed(s, f, H)
  BY DEF Followed, Elems
<1>3. ASSUME NEW a, NEW b, NEW G, b # f, b \in G PROVE Followed(<<a, b>>, f, G)
  <2>1. DOMAIN <<a, b>> = {1, 2} /\ <<a, b>>[1] = a /\ <<a, b>>[2] = b
    OBVIOUS
  <2> QED
    BY <1>3, <2>1 DEF Followed
<1>4. ASSUME NEW a, NEW b, NEW c, NEW G,
             \/ a # f /\ c # f /\ c \in G
             \/ b # f /\ c # f /\ b \in G
      PROVE  Followed(<<a, b, c>>, f, G)
  <2>1. /\ DOMAIN <<a, b, c>> = {1, 2, 3}
        /\ <<a, b, c>>[1] = a /\ <<a, b, c>>[2] = b /\ <<a, b, c>>[3] = c
    OBVIOUS
  <2> QED
    BY <1>4, <2>1 DEF Followed
<1> QED
  BY <1>1, <1>2, <1>3, <1>4

(* One frame put in front of a turn that goes on with a member of G. *)
LEMMA FollowedPush ==
  ASSUME NEW S, NEW t \in Seq(S), NEW f, NEW G, Followed(t, f, G), t # <<>>, Head(t) \in G
  PROVE  Followed(<<f>> \o t, f, G)
<1>1. PICK n, u : n = Len(t) /\ u = <<f>> \o t
  OBVIOUS
<1>2. /\ n \in Nat /\ n > 0 /\ DOMAIN t = 1 .. n /\ DOMAIN u = 1 .. n + 1
      /\ Head(t) = t[1]
      /\ \A i \in 1 .. n : u[i + 1] = t[i]
  BY <1>1
<1> SUFFICES ASSUME NEW i \in DOMAIN u, u[i] = f PROVE i + 1 \in DOMAIN u /\ u[i + 1] \in G
  BY <1>1 DEF Followed
<1>3. CASE i = 1
  BY <1>2, <1>3
<1>4. CASE i # 1
  <2>1. i - 1 \in DOMAIN t /\ t[i - 1] = f
    BY <1>2, <1>4
  <2>2. (i - 1) + 1 \in DOMAIN t /\ t[(i - 1) + 1] \in G
    BY <2>1 DEF Followed
  <2> QED
    BY <1>2, <1>4, <2>2
<1> QED
  BY <1>3, <1>4

-----------------------------------------------------------------------------
(* How a turn goes on.                                                      *)

(* A step puts new in front of t, what was left of the turn but for the      *)
(* frame that was run, and callbacks at its end.                             *)
Goes(new, t, late) ==
  /\ new \in Seq(Frames) /\ t \in Seq(Frames) /\ late \in Seq(Frames)
  /\ \/ agenda # <<>> /\ t = Rest
     \/ t = agenda /\ \A p : ~Top(QueueRunF(p))
  /\ \A f \in Elems(late) : f.op = "callback"
  /\ agenda' = (new \o t) \o late

(* The usual ways for a turn to go on. *)
LEMMA Going ==
  ASSUME agenda \in Seq(Frames)
  PROVE  /\ agenda # <<>> /\ agenda' = Rest => Goes(<<>>, Rest, <<>>)
         /\ \A new \in Seq(Frames) :
              agenda # <<>> /\ agenda' = new \o Rest => Goes(new, Rest, <<>>)
         /\ \A new, late \in Seq(Frames) :
              /\ agenda # <<>> /\ agenda' = (new \o Rest) \o late
              /\ \A f \in Elems(late) : f.op = "callback"
              => Goes(new, Rest, late)
         /\ (\A p : ~Top(QueueRunF(p))) =>
              /\ agenda' = agenda => Goes(<<>>, agenda, <<>>)
              /\ \A new \in Seq(Frames) :
                   /\ agenda' = new \o agenda => Goes(new, agenda, <<>>)
                   /\ \A f \in Frames : f.op = "callback" /\ agenda' = new \o Append(agenda, f)
                        => Goes(new, agenda, <<f>>)
              /\ \A f \in Frames : f.op = "callback" /\ agenda' = Append(agenda, f)
                   => Goes(<<>>, agenda, <<f>>)
         /\ agenda = <<>> /\ agenda' \in Seq(Frames) => Goes(agenda', agenda, <<>>)
<1>1. agenda # <<>> => Rest \in Seq(Frames)
  BY Pushing DEF Rest
<1>2. <<>> \in Seq(Frames) /\ Elems(<<>>) = {}
  BY ShortTurns, PieceElems
<1>3. ASSUME NEW s \in Seq(Frames) PROVE <<>> \o s = s /\ s \o <<>> = s
  OBVIOUS
<1>4. ASSUME NEW new \in Seq(Frames), NEW late \in Seq(Frames), agenda # <<>>,
             agenda' = (new \o Rest) \o late, \A f \in Elems(late) : f.op = "callback"
      PROVE  Goes(new, Rest, late)
  BY <1>1, <1>4 DEF Goes
<1>5. ASSUME NEW new \in Seq(Frames), agenda # <<>>, agenda' = new \o Rest
      PROVE  Goes(new, Rest, <<>>)
  <2>1. new \o Rest \in Seq(Frames)
    BY <1>1, <1>5, Pushing
  <2> QED
    BY <1>2, <1>3, <1>4, <1>5, <2>1
<1>6. ASSUME agenda # <<>>, agenda' = Rest PROVE Goes(<<>>, Rest, <<>>)
  BY <1>1, <1>2, <1>3, <1>5, <1>6
<1>7. ASSUME \A p : ~Top(QueueRunF(p)), NEW new \in Seq(Frames), agenda' = new \o agenda
      PROVE  Goes(new, agenda, <<>>)
  <2>1. new \o agenda \in Seq(Frames)
    BY <1>7, Pushing
  <2> QED
    BY <1>2, <1>3, <1>7, <2>1 DEF Goes
<1>8. ASSUME \A p : ~Top(QueueRunF(p)), agenda' = agenda PROVE Goes(<<>>, agenda, <<>>)
  BY <1>2, <1>3, <1>7, <1>8
<1>9. ASSUME \A p : ~Top(QueueRunF(p)), NEW new \in Seq(Frames), NEW f \in Frames,
             f.op = "callback", agenda' = new \o Append(agenda, f)
      PROVE  Goes(new, agenda, <<f>>)
  <2>1. Append(agenda, f) = agenda \o <<f>> /\ <<f>> \in Seq(Frames)
    OBVIOUS
  <2>2. \A r, s, t \in Seq(Frames) : r \o (s \o t) = (r \o s) \o t
    OBVIOUS
  <2>3. new \o Append(agenda, f) = (new \o agenda) \o <<f>>
    BY <2>1, <2>2
  <2>4. \A g \in Elems(<<f>>) : g.op = "callback"
    BY <1>9, PieceElems
  <2> QED
    BY <1>9, <2>1, <2>3, <2>4 DEF Goes
<1>10. ASSUME \A p : ~Top(QueueRunF(p)), NEW f \in Frames,
              f.op = "callback", agenda' = Append(agenda, f)
       PROVE  Goes(<<>>, agenda, <<f>>)
  <2>1. <<>> \o Append(agenda, f) = Append(agenda, f)
    BY <1>3, Pushing
  <2> QED
    BY <1>2, <1>9, <1>10, <2>1
<1>11. ASSUME agenda = <<>>, agenda' \in Seq(Frames) PROVE Goes(agenda', agenda, <<>>)
  <2>1. agenda' \o agenda = agenda' /\ \A p : ~Top(QueueRunF(p))
    BY <1>3, <1>11 DEF Top
  <2> QED
    BY <1>7, <1>11, <2>1
<1> QED
  BY <1>4, <1>5, <1>6, <1>7, <1>8, <1>9, <1>10, <1>11

(* What comes after the frame that is run. *)
LEMMA TopOver ==
  ASSUME agenda \in Seq(Frames), NEW f, Top(f)
  PROVE  /\ \A g \in Elems(Rest) : Over(agenda, f, g)
         /\ Rest \in Seq(Frames) /\ Pending = {f} \cup Elems(Rest)
         /\ \A g, h : Over(agenda, g, h) => Over(Rest, g, h) \/ (g = f /\ h \in Elems(Rest))
<1>1. agenda # <<>> /\ Head(agenda) = f
  BY DEF Top
<1> QED
  BY <1>1, OverRest, PendingFacts, RestElems DEF Rest

(* What a step leaves, and in which order. *)
LEMMA GoesFacts ==
  ASSUME agenda \in Seq(Frames), NEW new, NEW t, NEW late, Goes(new, t, late)
  PROVE  /\ Pending' = Elems(new) \cup Elems(t) \cup Elems(late)
         /\ Elems(t) \subseteq Pending
         /\ \A f, g : Over(agenda', f, g)
                        => \/ Over(new, f, g) \/ Over(t, f, g)
                           \/ (f \in Elems(new) /\ g \in Elems(t)) \/ g.op = "callback"
         /\ \A f, g : Over(t, f, g) => Over(agenda, f, g)
         /\ \A f, g : Over(t, f, g) \/ (f \in Elems(new) /\ g \in Elems(t)) => Over(agenda', f, g)
         /\ \A f, G : Followed(agenda, f, G) => Followed(t, f, G)
         /\ \A f, G : Followed(new, f, G) /\ Followed(t, f, G) /\ f.op # "callback"
                        => Followed(agenda', f, G)
         /\ \A f, G : Followed(new \o t, f, G) /\ f.op # "callback" => Followed(agenda', f, G)
         /\ \A p : QueueRunF(p) \in Elems(t) => \E f : Over(agenda, f, QueueRunF(p))
<1>1. /\ new \in Seq(Frames) /\ t \in Seq(Frames) /\ late \in Seq(Frames)
      /\ \A f \in Elems(late) : f.op = "callback"
  BY DEF Goes
<1>2. PICK s \in Seq(Frames) : s = new \o t
  BY <1>1, Pushing
<1>3. agenda' = s \o late
  BY <1>2 DEF Goes
<1>4. Elems(s) = Elems(new) \cup Elems(t) /\ Pending' = Elems(s) \cup Elems(late)
  <2>1. Elems(s) = Elems(new) \cup Elems(t)
    BY <1>1, <1>2, JoinElems
  <2>2. Elems(s \o late) = Elems(s) \cup Elems(late)
    BY ONLY <1>1, s \in Seq(Frames), JoinElems
  <2> QED
    BY <1>3, <2>1, <2>2 DEF Pending
<1>5. ASSUME NEW f, NEW g
      PROVE  /\ Over(s, f, g) <=> \/ Over(new, f, g) \/ Over(t, f, g)
                                  \/ (f \in Elems(new) /\ g \in Elems(t))
             /\ Over(agenda', f, g) <=> \/ Over(s, f, g) \/ Over(late, f, g)
                                        \/ (f \in Elems(s) /\ g \in Elems(late))
  BY <1>1, <1>2, <1>3, OverJoin
<1>6. ASSUME NEW f, NEW g, Over(late, f, g) PROVE g \in Elems(late)
  BY <1>6 DEF Over, Elems
<1>7. ASSUME NEW f, NEW g, Over(t, f, g) PROVE Over(agenda, f, g)
  <2>1. t = agenda \/ (agenda # <<>> /\ t = Tail(agenda))
    BY DEF Goes, Rest
  <2> QED
    BY <1>7, <2>1, OverRest
<1>8. ASSUME NEW f, NEW G, Followed(agenda, f, G) PROVE Followed(t, f, G)
  <2>1. t = agenda \/ (agenda # <<>> /\ t = Tail(agenda))
    BY DEF Goes, Rest
  <2> QED
    BY <1>8, <2>1, FollowedRest
<1>9. ASSUME NEW f, NEW G, Followed(s, f, G), f.op # "callback"
      PROVE  Followed(agenda', f, G)
  <2>1. Followed(late, f, G)
    BY <1>1, <1>9, FollowedFacts
  <2> QED
    BY <1>1, <1>2, <1>3, <1>9, <2>1, FollowedJoin
<1>10. ASSUME NEW f, NEW G, Followed(new, f, G), Followed(t, f, G) PROVE Followed(s, f, G)
  BY <1>1, <1>2, <1>10, FollowedJoin
<1>11. Elems(t) \subseteq Pending
  <2>1. t = agenda \/ (agenda # <<>> /\ t = Rest)
    BY DEF Goes
  <2> QED
    BY <2>1, PendingFacts DEF Pending
<1>12. ASSUME NEW p, QueueRunF(p) \in Elems(t) PROVE \E f : Over(agenda, f, QueueRunF(p))
  <2>1. CASE agenda # <<>> /\ t = Rest
    <3>1. Top(Head(agenda))
      BY <2>1 DEF Top
    <3> QED
      BY <1>12, <2>1, <3>1, TopOver
  <2>2. CASE t = agenda /\ ~Top(QueueRunF(p))
    <3>1. agenda # <<>>
      BY <1>12, <2>2, PieceElems
    <3>2. Head(agenda) # QueueRunF(p) /\ Top(Head(agenda))
      BY <2>2, <3>1 DEF Top
    <3>3. QueueRunF(p) \in Elems(Rest)
      BY <1>12, <2>2, <3>1, <3>2, PendingFacts DEF Pending
    <3> QED
      BY <3>2, <3>3, TopOver
  <2> QED
    BY <2>1, <2>2 DEF Goes
<1> QED
  BY <1>1, <1>2, <1>4, <1>5, <1>6, <1>7, <1>8, <1>9, <1>10, <1>11, <1>12

-----------------------------------------------------------------------------
(* What may come after what.                                                *)

Others == Peers \ {Self}

(* The frames beneath which only their own kind waits: a call of the user,   *)
(* a hang-up, and the walks of stop() and _clean() over the queues.          *)
Base(f) ==
  \/ f.op \in {"delete", "stop", "_clean", "closeAll"}
  \/ f = UserF(FALSE) \/ \E r : f = DisconnectF(r, FALSE)

(* The frames that never wait beneath one of those. *)
Inner(f) ==
  \/ f.op \in {"run", "_run", "abort", "onError"}
  \/ f = UserF(TRUE) \/ \E r : f = DisconnectF(r, TRUE)

(* The frames that may come before any other. *)
Plain(f) == f.op \in {"run", "callback"} \/ f = UserF(TRUE)

(* What the queue of p, or an attempt of it that failed, has still to do. *)
About(p, f) ==
  \/ f = QueueRunF(p) \/ f = AbortF(p)
  \/ \E r \in Of(p) : f = OnErrorF(r) \/ f = DisconnectF(r, TRUE)

(* An f never comes before a g: a failure closes its connection once, and a  *)
(* queue is resumed once, after all else it has to do.                       *)
Clash(f, g) ==
  \/ Base(f) /\ Inner(g)
  \/ f = g /\ \E r : f = DisconnectF(r, TRUE)
  \/ \E p \in Others : About(p, f) /\ g = QueueRunF(p)

OrderInv == \A f, g : Over(agenda, f, g) => ~Clash(f, g)

(* The frames tell which request they are for. *)
LEMMA FrameRequests ==
  /\ \A r, s : OnErrorF(r) = OnErrorF(s) => r = s
  /\ \A r, s, b, c : DisconnectF(r, b) = DisconnectF(s, c) => r = s /\ b = c
  /\ \A b, c : UserF(b) = UserF(c) => b = c
<1>1. \A r, s : OnErrorF(r) = OnErrorF(s) => r = s
  BY DEF OnErrorF
<1>2. \A r, s, b, c : DisconnectF(r, b) = DisconnectF(s, c) => r = s /\ b = c
  BY DEF DisconnectF
<1>3. \A b, c : UserF(b) = UserF(c) => b = c
  BY DEF UserF
<1> QED
  BY <1>1, <1>2, <1>3

(* The kind of each frame. *)
LEMMA FrameOrders ==
  /\ Plain(RunF) /\ Plain(UserF(TRUE)) /\ (\A r, a : Plain(CallbackF(r, a)))
  /\ Base(UserF(FALSE)) /\ (\A r : Base(DisconnectF(r, FALSE)))
  /\ \A p : Base(DeleteF(p)) /\ Base(StopF(p)) /\ Base(CleanF(p)) /\ Base(CloseAllF(p))
  /\ Inner(RunF) /\ Inner(UserF(TRUE))
  /\ \A p : Inner(QueueRunF(p)) /\ Inner(AbortF(p)) /\ Inner(OnErrorF(p)) /\ Inner(DisconnectF(p, TRUE))
  /\ \A f : Inner(f) => ~Base(f)
  /\ \A f : f.op = "callback" => ~Inner(f) /\ ~Base(f)
<1>1. Plain(RunF) /\ Plain(UserF(TRUE)) /\ \A r, a : Plain(CallbackF(r, a))
  BY FrameNames DEF Plain
<1>2. Base(UserF(FALSE)) /\ \A r : Base(DisconnectF(r, FALSE))
  BY DEF Base
<1>3. \A p : Base(DeleteF(p)) /\ Base(StopF(p)) /\ Base(CleanF(p)) /\ Base(CloseAllF(p))
  <2>1. \A f : f.op \in {"delete", "stop", "_clean", "closeAll"} => Base(f)
    BY DEF Base
  <2> QED
    BY <2>1, FrameNames
<1>4. Inner(RunF) /\ Inner(UserF(TRUE))
  BY FrameNames DEF Inner
<1>5. \A p : Inner(QueueRunF(p)) /\ Inner(AbortF(p)) /\ Inner(OnErrorF(p)) /\ Inner(DisconnectF(p, TRUE))
  <2>1. \A f : f.op \in {"run", "_run", "abort", "onError"} => Inner(f)
    BY DEF Inner
  <2>2. \A p : Inner(DisconnectF(p, TRUE))
    BY DEF Inner
  <2>3. \A p : QueueRunF(p).op = "_run" /\ AbortF(p).op = "abort" /\ OnErrorF(p).op = "onError"
    BY FrameNames
  <2>4. \A p : Inner(QueueRunF(p)) /\ Inner(AbortF(p)) /\ Inner(OnErrorF(p))
    BY <2>1, <2>3
  <2> QED
    BY <2>2, <2>4
<1>6. \A f : Base(f) => f.op \in {"delete", "stop", "_clean", "closeAll", "user", "disconnect"}
  BY FrameNames DEF Base
<1>7. \A f : Inner(f) => f.op \in {"run", "_run", "abort", "onError", "user", "disconnect"}
  BY FrameNames DEF Inner
<1>8. \A f : f.op = "user" /\ Base(f) => f = UserF(FALSE)
  BY FrameNames DEF Base
<1>9. \A f : f.op = "user" /\ Inner(f) => f = UserF(TRUE)
  BY FrameNames DEF Inner
<1>10. \A f : f.op = "disconnect" /\ Base(f) => \E r : f = DisconnectF(r, FALSE)
  BY FrameNames DEF Base
<1>11. \A f : f.op = "disconnect" /\ Inner(f) => \E r : f = DisconnectF(r, TRUE)
  BY FrameNames DEF Inner
<1>12. ASSUME NEW f, Inner(f), Base(f) PROVE FALSE
  <2>1. f.op \in {"user", "disconnect"}
    BY <1>6, <1>7, <1>12
  <2>2. CASE f.op = "user"
    BY <1>8, <1>9, <1>12, <2>2, FramePeers
  <2>3. CASE f.op = "disconnect"
    <3>1. \A r, s : DisconnectF(r, TRUE) # DisconnectF(s, FALSE)
      BY FrameKinds
    <3> QED
      BY <1>10, <1>11, <1>12, <2>3, <3>1
  <2> QED
    BY <2>1, <2>2, <2>3
<1>13. \A f : f.op = "callback" => ~Inner(f) /\ ~Base(f)
  BY <1>6, <1>7
<1> QED
  BY <1>1, <1>2, <1>3, <1>4, <1>5, <1>12, <1>13

(* What clashes with what. *)
LEMMA ClashFacts ==
  /\ \A f, g : Plain(f) => ~Clash(f, g)
  /\ \A f, g : g.op = "callback" => ~Clash(f, g)
  /\ \A f, g : Base(f) => (Clash(f, g) <=> Inner(g))
  /\ \A p, g : Clash(QueueRunF(p), g) => p \in Others /\ g = QueueRunF(p)
  /\ \A p, g : Clash(AbortF(p), g) => p \in Others /\ g = QueueRunF(p)
  /\ \A r, g : Clash(OnErrorF(r), g) => PeerOf(r) \in Others /\ g = QueueRunF(PeerOf(r))
  /\ \A r, g : Clash(DisconnectF(r, TRUE), g)
                 => \/ g = DisconnectF(r, TRUE)
                    \/ PeerOf(r) \in Others /\ g = QueueRunF(PeerOf(r))
<1>1. \A f, p : About(p, f) => f.op \in {"_run", "abort", "onError", "disconnect"} /\ Inner(f)
  <2>1. \A p : QueueRunF(p).op = "_run" /\ AbortF(p).op = "abort"
    BY FrameNames
  <2>2. \A r : OnErrorF(r).op = "onError" /\ DisconnectF(r, TRUE).op = "disconnect"
    BY FrameNames
  <2> QED
    BY <2>1, <2>2, FrameOrders DEF About
<1>2. \A f : Plain(f) => f.op \in {"run", "callback", "user"} /\ ~Base(f)
  <2>1. \A f : Plain(f) => f.op \in {"run", "callback", "user"}
    BY FrameNames DEF Plain
  <2>2. \A f : f.op = "run" => Inner(f)
    BY DEF Inner
  <2> QED
    BY <2>1, <2>2, FrameOrders DEF Plain
<1>3. \A f : (\E r : f = DisconnectF(r, TRUE)) => f.op = "disconnect" /\ Inner(f)
  <2>1. \A r : DisconnectF(r, TRUE).op = "disconnect"
    BY FrameNames
  <2> QED
    BY <2>1, FrameOrders
<1>4. \A f, g : Plain(f) => ~Clash(f, g)
  BY <1>1, <1>2, <1>3 DEF Clash
<1>5. \A f, g : g.op = "callback" => ~Clash(f, g)
  <2>1. \A p : QueueRunF(p).op = "_run"
    BY FrameNames
  <2> QED
    BY <1>3, <2>1, FrameOrders DEF Clash
<1>6. \A f, g : Base(f) => (Clash(f, g) <=> Inner(g))
  BY <1>1, <1>3, FrameOrders DEF Clash
<1>7. ASSUME NEW f, NEW g, Inner(f), f.op # "disconnect", Clash(f, g)
      PROVE  \E p \in Others : About(p, f) /\ g = QueueRunF(p)
  BY <1>3, <1>7, FrameOrders DEF Clash
<1>8. ASSUME NEW p, NEW g, Clash(QueueRunF(p), g) PROVE p \in Others /\ g = QueueRunF(p)
  <2>1. Inner(QueueRunF(p)) /\ QueueRunF(p).op = "_run"
    BY FrameOrders, FrameNames
  <2>2. PICK q \in Others : About(q, QueueRunF(p)) /\ g = QueueRunF(q)
    BY <1>7, <1>8, <2>1
  <2>3. /\ QueueRunF(p) # AbortF(q)
        /\ \A r : QueueRunF(p) # OnErrorF(r) /\ QueueRunF(p) # DisconnectF(r, TRUE)
    BY FrameNames
  <2> QED
    BY <2>2, <2>3, FramePeers DEF About
<1>9. ASSUME NEW p, NEW g, Clash(AbortF(p), g) PROVE p \in Others /\ g = QueueRunF(p)
  <2>1. Inner(AbortF(p)) /\ AbortF(p).op = "abort"
    BY FrameOrders, FrameNames
  <2>2. PICK q \in Others : About(q, AbortF(p)) /\ g = QueueRunF(q)
    BY <1>7, <1>9, <2>1
  <2>3. /\ AbortF(p) # QueueRunF(q)
        /\ \A r : AbortF(p) # OnErrorF(r) /\ AbortF(p) # DisconnectF(r, TRUE)
    BY FrameNames
  <2> QED
    BY <2>2, <2>3, FramePeers DEF About
<1>10. ASSUME NEW r, NEW g, Clash(OnErrorF(r), g)
       PROVE  PeerOf(r) \in Others /\ g = QueueRunF(PeerOf(r))
  <2>1. Inner(OnErrorF(r)) /\ OnErrorF(r).op = "onError"
    BY FrameOrders, FrameNames
  <2>2. PICK q \in Others : About(q, OnErrorF(r)) /\ g = QueueRunF(q)
    BY <1>7, <1>10, <2>1
  <2>3. /\ OnErrorF(r) # QueueRunF(q) /\ OnErrorF(r) # AbortF(q)
        /\ \A s : OnErrorF(r) # DisconnectF(s, TRUE)
    BY FrameNames
  <2>4. r \in Of(q)
    BY <2>2, <2>3, FrameRequests DEF About
  <2> QED
    BY <2>2, <2>4 DEF Of
<1>11. ASSUME NEW r, NEW g, Clash(DisconnectF(r, TRUE), g)
       PROVE  \/ g = DisconnectF(r, TRUE)
              \/ PeerOf(r) \in Others /\ g = QueueRunF(PeerOf(r))
  <2>1. ~Base(DisconnectF(r, TRUE))
    BY FrameOrders
  <2>2. CASE \E q \in Others : About(q, DisconnectF(r, TRUE)) /\ g = QueueRunF(q)
    <3>1. PICK q \in Others : About(q, DisconnectF(r, TRUE)) /\ g = QueueRunF(q)
      BY <2>2
    <3>2. /\ DisconnectF(r, TRUE) # QueueRunF(q) /\ DisconnectF(r, TRUE) # AbortF(q)
          /\ \A s : OnErrorF(s) # DisconnectF(r, TRUE)
      BY FrameNames
    <3>3. r \in Of(q)
      BY <3>1, <3>2, FrameRequests DEF About
    <3> QED
      BY <3>1, <3>3 DEF Of
  <2> QED
    BY <1>11, <2>1, <2>2 DEF Clash
<1> QED
  BY <1>4, <1>5, <1>6, <1>8, <1>9, <1>10, <1>11

-----------------------------------------------------------------------------
(* The invariant.                                                           *)

(* The Queue object that dials r listens, and its connection can still fail. *)
Active(r) == r \in attached /\ conn[r] \in {"dialing", "securing", "muxed"}

(* What comes right after the abort of a queue: the removal it belongs to,   *)
(* or, when its peer was denied, the closing of the connection that failed.  *)
AbortedBy(p) ==
  {f \in Frames :
     \/ f = DeleteF(p)
     \/ \E r \in Of(p) : Denied(p) /\ Active(r) /\ f = DisconnectF(r, TRUE)}

(* An error is always followed by the closing of its connection, which is    *)
(* still open if the queue listens.                                          *)
FailInv ==
  /\ \A r \in Requests : OnErrorF(r) \in Pending => conn[r] # "none"
  /\ \A p \in Others : \A r \in Of(p) :
       /\ Followed(agenda, OnErrorF(r), {DisconnectF(r, TRUE)})
       /\ OnErrorF(r) \in Pending /\ r \in attached => Active(r)

AbortInv == \A p \in Others : Followed(agenda, AbortF(p), AbortedBy(p))

(* A queue that waits to be resumed beneath another call runs, and attempts  *)
(* nothing.                                                                  *)
ResumeInv ==
  \A p \in Others : \A f : Over(agenda, f, QueueRunF(p)) => p \in running /\ Attempts(p) = {}

TurnOrder == OrderInv /\ FailInv /\ AbortInv /\ ResumeInv

(* What a step may put in front of t, for the order of the turn to stay.     *)
Sound(new, t) ==
  /\ \A f, g : Over(new, f, g) \/ (f \in Elems(new) /\ g \in Elems(t)) => ~Clash(f, g)
  /\ \A r \in Requests : OnErrorF(r) \in Elems(new) => conn'[r] # "none"
  /\ \A p \in Others : \A r \in Of(p) :
       /\ Followed(new, OnErrorF(r), {DisconnectF(r, TRUE)})
       /\ OnErrorF(r) \in Elems(new) /\ r \in attached' => Active(r)'
  /\ \A p \in Others :
       \/ Followed(new, AbortF(p), AbortedBy(p)')
       \/ new = <<AbortF(p)>> /\ t # <<>> /\ Head(t) \in AbortedBy(p)'
  /\ \A p \in Others : \A f :
       Over(new, f, QueueRunF(p)) => p \in running' /\ Attempts(p)' = {}

(* What a step must leave as it is, for the sake of the frames of t. *)
Stays(new, t) ==
  /\ \A r \in Requests : DisconnectF(r, TRUE) \in Elems(t) /\ Active(r) => Active(r)'
  /\ \A r \in Requests : conn[r] # "none" => conn'[r] # "none"
  /\ \A p \in Others : AbortF(p) \in Elems(t) /\ Denied(p) => Denied(p)'
  /\ \A p \in Others : \A r \in Of(p) : r \in attached' => r \in attached \/ Active(r)'
  /\ \A p \in Others : QueueRunF(p) \in Elems(t) /\ p \in running /\ Attempts(p) = {}
                         => p \in running' /\ Attempts(p)' = {}
  /\ \A r \in Requests :
       \/ call'[r] = call[r]
       \/ /\ call[r] = None
          /\ OnErrorF(r) \notin Elems(new) \cup Elems(t)
          /\ DisconnectF(r, TRUE) \notin Elems(new) \cup Elems(t)

(* What is ordered is there. *)
LEMMA OrderedElems ==
  /\ \A s, f, g : Over(s, f, g) => f \in Elems(s) /\ g \in Elems(s)
  /\ \A s, f, G : Followed(s, f, G) /\ f \in Elems(s) => \E g \in G : g \in Elems(s)
  BY DEF Over, Followed, Elems

(* A sound step keeps the order of the turn. *)
LEMMA OrderKept ==
  ASSUME agenda \in Seq(Frames), TurnOrder, NEW new, NEW t, NEW late,
         Goes(new, t, late), Sound(new, t), Stays(new, t)
  PROVE  TurnOrder'
<1>1. PICK N, K, L : N = Elems(new) /\ K = Elems(t) /\ L = Elems(late)
  OBVIOUS
<1>2. Pending' = N \cup K \cup L /\ K \subseteq Pending /\ \A f \in L : f.op = "callback"
  BY <1>1, GoesFacts DEF Goes
<1>3. ASSUME NEW p, NEW r \in Of(p)', r \notin Of(p)
      PROVE  OnErrorF(r) \notin N \cup K /\ DisconnectF(r, TRUE) \notin N \cup K
  BY <1>1, <1>3 DEF Stays, Of, PeerOf
<1>4. ASSUME NEW p, NEW r \in Of(p), DisconnectF(r, TRUE) \in N \cup K PROVE r \in Of(p)'
  BY <1>1, <1>4 DEF Stays, Of, PeerOf
<1>5. \A r, a : OnErrorF(r).op # "callback"
  BY FrameNames
<1>6. OrderInv'
  <2> SUFFICES ASSUME NEW f, NEW g, Over(agenda', f, g), Clash(f, g)' PROVE FALSE
    BY DEF OrderInv
  <2>1. g.op # "callback"
    <3>1. \A p, r : QueueRunF(p).op = "_run" /\ DisconnectF(r, TRUE).op = "disconnect"
      BY FrameNames
    <3> QED
      BY <3>1, FrameOrders DEF Clash
  <2>2. \/ Over(new, f, g) \/ Over(t, f, g)
        \/ f \in Elems(new) /\ g \in Elems(t)
    BY <2>1, GoesFacts
  <2>3. f \in N \cup K
    BY <1>1, <2>2, OrderedElems
  <2>4. ASSUME NEW p, About(p, f)' PROVE About(p, f)
    BY <1>3, <2>3, <2>4 DEF About
  <2>5. Clash(f, g)
    BY <2>4 DEF Clash
  <2>6. ~Over(t, f, g)
    BY <2>5, GoesFacts DEF TurnOrder, OrderInv
  <2> QED
    BY <2>2, <2>5, <2>6 DEF Sound
<1>7. FailInv'
  <2>1. ASSUME NEW r \in Requests, OnErrorF(r) \in Pending' PROVE conn'[r] # "none"
    <3>1. OnErrorF(r) \in N \/ OnErrorF(r) \in Pending
      BY <1>2, <1>5, <2>1
    <3> QED
      BY <1>1, <3>1 DEF Sound, Stays, TurnOrder, FailInv
  <2>2. ASSUME NEW p \in Others, NEW r \in Of(p)'
        PROVE  /\ Followed(agenda', OnErrorF(r), {DisconnectF(r, TRUE)})
               /\ OnErrorF(r) \in Pending' /\ r \in attached' => Active(r)'
    <3>1. CASE r \notin Of(p)
      <4>1. OnErrorF(r) \notin Pending'
        BY <1>2, <1>3, <1>5, <3>1
      <4>2. Followed(agenda', OnErrorF(r), {DisconnectF(r, TRUE)})
        BY <4>1, FollowedFacts DEF Pending
      <4> QED
        BY <4>1, <4>2
    <3>2. CASE r \in Of(p)
      <4>1. /\ Followed(new, OnErrorF(r), {DisconnectF(r, TRUE)})
            /\ Followed(t, OnErrorF(r), {DisconnectF(r, TRUE)})
        BY <3>2, GoesFacts DEF TurnOrder, FailInv, Sound
      <4>2. Followed(agenda', OnErrorF(r), {DisconnectF(r, TRUE)})
        BY <1>5, <4>1, GoesFacts
      <4>3. ASSUME OnErrorF(r) \in Pending', r \in attached' PROVE Active(r)'
        <5>1. CASE OnErrorF(r) \in N
          BY <1>1, <3>2, <4>3, <5>1 DEF Sound
        <5>2. CASE OnErrorF(r) \in K
          <6>1. DisconnectF(r, TRUE) \in K /\ OnErrorF(r) \in Pending /\ r \in Requests
            <7>1. PICK d, G : d = DisconnectF(r, TRUE) /\ G = {d}
              OBVIOUS
            <7>2. Followed(t, OnErrorF(r), G) /\ OnErrorF(r) \in Elems(t)
              BY <1>1, <4>1, <5>2, <7>1
            <7>3. \E g \in G : g \in Elems(t)
              BY <7>2, OrderedElems
            <7> QED
              BY <1>1, <1>2, <3>2, <5>2, <7>1, <7>3 DEF Of
          <6>2. r \in attached \/ Active(r)'
            BY <3>2, <4>3 DEF Stays
          <6>3. r \in attached => Active(r)
            BY <3>2, <6>1 DEF TurnOrder, FailInv
          <6> QED
            BY <1>1, <6>1, <6>2, <6>3 DEF Stays
        <5> QED
          BY <1>2, <1>5, <4>3, <5>1, <5>2
      <4> QED
        BY <4>2, <4>3
    <3> QED
      BY <3>1, <3>2
  <2> QED
    BY <2>1, <2>2 DEF FailInv
<1>8. AbortInv'
  <2> SUFFICES ASSUME NEW p \in Others PROVE Followed(agenda', AbortF(p), AbortedBy(p)')
    BY DEF AbortInv
  <2>1. PICK G, H : G = AbortedBy(p) /\ H = AbortedBy(p)'
    OBVIOUS
  <2>2. Followed(t, AbortF(p), G)
    BY <2>1, GoesFacts DEF TurnOrder, AbortInv
  <2>3. Followed(t, AbortF(p), H)
    <3>1. CASE AbortF(p) \notin K
      BY <1>1, <3>1, FollowedFacts
    <3>2. CASE AbortF(p) \in K
      <4>1. ASSUME NEW g \in G, g \in K PROVE g \in H
        <5>1. g \in Frames /\ (g = DeleteF(p) \/ \E r \in Of(p) :
                                  Denied(p) /\ Active(r) /\ g = DisconnectF(r, TRUE))
          BY <2>1, <4>1 DEF AbortedBy
        <5>2. ASSUME NEW r \in Of(p), Denied(p), Active(r), g = DisconnectF(r, TRUE)
              PROVE  r \in Of(p)' /\ Denied(p)' /\ Active(r)'
          BY <1>1, <1>4, <3>2, <4>1, <5>2 DEF Stays, Of
        <5> QED
          BY <2>1, <5>1, <5>2 DEF AbortedBy
      <4>2. G \cap Elems(t) \subseteq H
        BY <1>1, <4>1
      <4> QED
        BY <2>2, <4>2, FollowedFacts
    <3> QED
      BY <3>1, <3>2
  <2>4. AbortF(p).op # "callback"
    BY FrameNames
  <2>5. CASE Followed(new, AbortF(p), H)
    BY <2>1, <2>3, <2>4, <2>5, GoesFacts
  <2>6. CASE new = <<AbortF(p)>> /\ t # <<>> /\ Head(t) \in H
    <3>1. Followed(new \o t, AbortF(p), H)
      BY <2>3, <2>6, FollowedPush DEF Goes
    <3> QED
      BY <2>1, <2>4, <3>1, GoesFacts
  <2> QED
    BY <2>1, <2>5, <2>6 DEF Sound
<1>9. ResumeInv'
  <2> SUFFICES ASSUME NEW p \in Others, NEW f, Over(agenda', f, QueueRunF(p))
               PROVE  p \in running' /\ Attempts(p)' = {}
    BY DEF ResumeInv
  <2>1. QueueRunF(p).op # "callback"
    BY FrameNames
  <2>2. Over(new, f, QueueRunF(p)) \/ QueueRunF(p) \in Elems(t)
    BY <2>1, GoesFacts, OrderedElems
  <2>3. CASE Over(new, f, QueueRunF(p))
    BY <2>3 DEF Sound
  <2>4. CASE QueueRunF(p) \in Elems(t)
    <3>1. p \in running /\ Attempts(p) = {}
      BY <2>4, GoesFacts DEF TurnOrder, ResumeInv
    <3> QED
      BY <2>4, <3>1 DEF Stays
  <2> QED
    BY <2>2, <2>3, <2>4
<1> QED
  BY <1>6, <1>7, <1>8, <1>9 DEF TurnOrder

-----------------------------------------------------------------------------
(* The attempts of a queue.                                                 *)

(* The queue is at work, and nothing of this turn will resume it. *)
Busy(p) == p \in running /\ QueueRunF(p) \notin Pending

(* Attempt r outlives the queue it was made for only while what ends it, or  *)
(* drops the Queue object it belongs to, is due; the queue is empty then.    *)
Ended(p, r) ==
  /\ queue[p] = <<>>
  /\ \/ Denied(p) /\ (DisconnectF(r, TRUE) \in Pending \/ DeleteF(p) \in Pending)
     \/ Top(DeleteF(p))
     \/ ~mgrRunning /\ Top(RunF) /\ Rest # <<>> /\ Head(Rest) = DeleteF(p)

(* A queue has one attempt at most, and none over a muxed connection; while  *)
(* it is at work it has one.                                                 *)
OneAttemptAt(p) ==
  /\ \A r, s \in Attempts(p) : r = s
  /\ \A r \in Of(p) : Active(r) /\ conn[r] = "muxed" => Attempts(p) = {}
  /\ Busy(p) => Attempts(p) # {}
  /\ ~Busy(p) => \A r \in Attempts(p) : Ended(p, r)

(* The dial of our own id never gets anywhere. *)
SelfInv ==
  /\ \A r \in Requests : conn[r] = "idle" => PeerOf(r) = Self
  /\ \A r \in Of(Self) : ~Unfinished(r)

AttemptInv == SelfInv /\ \A p \in Others : OneAttemptAt(p)

(* No callback hangs up or resets a denylist, and no user closes a           *)
(* connection with an error.                                                 *)
NoClosing ==
  "clearDenylist" \notin NestedCalls /\ "hangUp" \notin NestedCalls /\ "closeErr" \notin Events

(* What a step may rely on. *)
Before == TypeInv /\ TurnInv /\ DropInv /\ PlaceInv /\ TurnOrder /\ AttemptInv /\ NoClosing

After == TurnOrder' /\ AttemptInv'

(* The frames that stay are those that are not run. *)
LEMMA GoesOn ==
  ASSUME agenda \in Seq(Frames), NEW new, NEW t, NEW late, Goes(new, t, late)
  PROVE  /\ \A f \in Pending : Top(f) \/ f \in Elems(t)
         /\ \A f \in Pending : Top(f) \/ f \in Pending'
         /\ \A p : QueueRunF(p) \in Pending'
                     <=> QueueRunF(p) \in Elems(new) \/ QueueRunF(p) \in Elems(t)
<1>1. ASSUME NEW f \in Pending, ~Top(f) PROVE f \in Elems(t)
  <2>1. CASE agenda # <<>> /\ t = Rest
    BY <1>1, <2>1, PendingFacts DEF Top
  <2>2. CASE t = agenda
    BY <1>1, <2>2 DEF Pending
  <2> QED
    BY <2>1, <2>2 DEF Goes
<1>2. \A p : QueueRunF(p).op # "callback"
  BY FrameNames
<1>3. Pending' = Elems(new) \cup Elems(t) \cup Elems(late)
  BY GoesFacts
<1>4. \A f \in Elems(late) : f.op = "callback"
  BY DEF Goes
<1> QED
  BY <1>1, <1>2, <1>3, <1>4

(* A request that was not issued has no connection, and is in no frame of a  *)
(* failure.                                                                  *)
LEMMA NotIssued ==
  ASSUME TypeInv, PlaceInv, FailInv, NEW r \in Requests, call[r] = None
  PROVE  /\ conn[r] = "none" /\ r \notin attached
         /\ OnErrorF(r) \notin Pending /\ DisconnectF(r, TRUE) \notin Pending
         /\ DisconnectF(r, FALSE) \notin Pending
<1>1. conn[r] = "none"
  BY DEF PlaceInv, PlacesHold
<1>2. None \notin Calls
  BY DialerAssumption
<1>3. r \notin attached
  BY <1>2 DEF TypeInv, OnlyIssued, Issued
<1>4. OnErrorF(r) \notin Pending
  BY <1>1 DEF FailInv
<1>5. r \in Subjects(DisconnectF(r, TRUE)) /\ r \in Subjects(DisconnectF(r, FALSE))
  <2>1. Subjects(DisconnectF(r, TRUE)) = {r}
    BY FrameSubjects
  <2>2. Subjects(DisconnectF(r, FALSE)) = {r}
    BY FrameSubjects
  <2> QED
    BY <2>1, <2>2
<1> QED
  BY <1>1, <1>3, <1>4, <1>5 DEF PlaceInv, SubjectsHold

(* Issuing a request, or nothing, changes no attempt. *)
LEMMA SameAttempts ==
  ASSUME TypeInv, PlaceInv, FailInv, UNCHANGED <<conn, attached>>,
         \A r \in Requests : call'[r] = call[r] \/ call[r] = None
  PROVE  /\ \A p : Attempts(p)' = Attempts(p)
         /\ \A r : Active(r)' <=> Active(r)
         /\ \A p : \A r \in Of(p)' : r \in attached => r \in Of(p)
         /\ \A p : Of(p) \subseteq Of(p)'
<1>1. \A r \in Requests : call[r] = None => conn[r] = "none" /\ r \notin attached
  BY NotIssued
<1>2. None \notin Calls
  BY DialerAssumption
<1>3. \A p : \A r \in Of(p)' : r \in attached => r \in Of(p)
  BY <1>1 DEF Of, PeerOf
<1>4. \A p : Of(p) \subseteq Of(p)'
  BY DEF Of, PeerOf
<1>5. \A r : Unfinished(r)' <=> Unfinished(r)
  BY DEF Unfinished
<1>6. \A p : Attempts(p)' = Attempts(p)
  BY <1>3, <1>4, <1>5 DEF Attempts
<1>7. \A r : Active(r)' <=> Active(r)
  BY DEF Active
<1> QED
  BY <1>3, <1>4, <1>6, <1>7

(* Outside a turn nothing is due. *)
LEMMA QuietFacts ==
  ASSUME agenda = <<>>
  PROVE  /\ Pending = {} /\ (\A f : ~Top(f)) /\ (\A f, g : ~Over(agenda, f, g))
         /\ \A p, r : ~Ended(p, r)
<1>1. Pending = {} /\ \A f : ~Top(f)
  BY PieceElems DEF Pending, Top
<1> QED
  BY <1>1, OverPieces DEF Ended

(* What has ended an attempt stays due until it is run. *)
LEMMA EndedStays ==
  ASSUME agenda \in Seq(Frames), NEW new, NEW t, NEW late, Goes(new, t, late),
         NEW p, NEW r, Ended(p, r), queue'[p] = <<>>,
         ~Top(RunF), ~Top(DeleteF(p)), ~Top(DisconnectF(r, TRUE)),
         Denied(p) /\ (\E f \in Pending : Inner(f) \/ f.op = "delete") => Denied(p)'
  PROVE  Ended(p, r)'
<1>1. Denied(p) /\ (DisconnectF(r, TRUE) \in Pending \/ DeleteF(p) \in Pending)
  BY DEF Ended
<1>2. Inner(DisconnectF(r, TRUE)) /\ DeleteF(p).op = "delete"
  BY FrameOrders, FrameNames
<1>3. Denied(p)'
  BY <1>1, <1>2
<1>4. DisconnectF(r, TRUE) \in Pending' \/ DeleteF(p) \in Pending'
  BY <1>1, GoesOn
<1> QED
  BY <1>3, <1>4 DEF Ended
(* The dial of our own id stays where it is when no connection changes. *)
LEMMA SelfStays ==
  ASSUME Before, UNCHANGED <<conn, attached>>,
         \A r \in Requests : call'[r] = call[r] \/ call[r] = None
  PROVE  SelfInv'
<1>1. \A r \in Requests : call[r] = None => conn[r] = "none"
  BY DEF Before, PlaceInv, PlacesHold
<1>2. ASSUME NEW r \in Requests, conn'[r] = "idle" PROVE PeerOf(r)' = Self
  BY <1>1, <1>2 DEF Before, AttemptInv, SelfInv, PeerOf
<1>3. ASSUME NEW r \in Of(Self)' PROVE ~Unfinished(r)'
  <2>1. r \in Requests /\ (r \in Of(Self) \/ conn[r] = "none")
    BY <1>1, <1>3 DEF Of, PeerOf
  <2> QED
    BY <2>1 DEF Before, AttemptInv, SelfInv, Unfinished
<1> QED
  BY <1>2, <1>3 DEF SelfInv

(* A step that moves no connection and starts or stops no queue. *)
LEMMA CalmStep ==
  ASSUME Before, NEW new, NEW t, NEW late, Goes(new, t, late), Sound(new, t),
         UNCHANGED <<conn, attached, running>>,
         \A r \in Requests :
           \/ call'[r] = call[r]
           \/ call[r] = None /\ OnErrorF(r) \notin Elems(new) /\ DisconnectF(r, TRUE) \notin Elems(new),
         \A p \in Others : QueueRunF(p) \notin Elems(new) /\ ~Top(QueueRunF(p)),
         \A p \in Others : (\E r \in Attempts(p) : Ended(p, r)) => queue'[p] = <<>>,
         \A p \in Others :
           Denied(p) /\ (\E f \in Pending : Inner(f) \/ f.op = "delete") => Denied(p)',
         ~Top(RunF), \A p : ~Top(DeleteF(p)), \A r : ~Top(DisconnectF(r, TRUE))
  PROVE  After
<1>1. agenda \in Seq(Frames)
  BY DEF Before, TypeInv, TypeOK
<1>2. TypeInv /\ PlaceInv /\ FailInv /\ \A r \in Requests : call'[r] = call[r] \/ call[r] = None
  BY DEF Before, TurnOrder
<1>3. /\ \A p : Attempts(p)' = Attempts(p)
      /\ \A r : Active(r)' <=> Active(r)
      /\ \A p : \A r \in Of(p)' : r \in attached => r \in Of(p)
  BY <1>2, SameAttempts
<1>4. Elems(t) \subseteq Pending
  BY <1>1, GoesFacts
<1>5. Stays(new, t)
  <2>1. \A p \in Others : AbortF(p) \in Elems(t) /\ Denied(p) => Denied(p)'
    BY <1>4, FrameOrders
  <2>2. \A r \in Requests : call'[r] # call[r]
          => /\ call[r] = None
             /\ OnErrorF(r) \notin Elems(new) \cup Elems(t)
             /\ DisconnectF(r, TRUE) \notin Elems(new) \cup Elems(t)
    BY <1>2, <1>4, NotIssued
  <2> QED
    BY <1>3, <2>1, <2>2 DEF Stays
<1>6. TurnOrder'
  BY <1>1, <1>5, OrderKept DEF Before
<1>7. SelfInv'
  BY <1>2, SelfStays
<1>8. ASSUME NEW p \in Others PROVE OneAttemptAt(p)'
  <2>1. OneAttemptAt(p)
    BY DEF Before, AttemptInv
  <2>2. QueueRunF(p) \in Pending' <=> QueueRunF(p) \in Pending
    BY <1>1, <1>4, GoesOn
  <2>3. Busy(p)' <=> Busy(p)
    BY <2>2 DEF Busy
  <2>4. \A r \in Attempts(p) : Ended(p, r) => Ended(p, r)'
    BY <1>1, EndedStays
  <2>5. \A r \in Of(p)' : Active(r)' /\ conn'[r] = "muxed" => Attempts(p) = {}
    BY <1>3, <2>1 DEF OneAttemptAt, Active
  <2> QED
    BY <1>3, <2>1, <2>3, <2>4, <2>5 DEF OneAttemptAt
<1> QED
  BY <1>6, <1>7, <1>8 DEF After, AttemptInv

-----------------------------------------------------------------------------
(* What may be put in front of a turn.                                      *)

(* Plain frames may be put in front of any turn. *)
LEMMA PlainSound ==
  ASSUME NEW new, NEW t, \A f \in Elems(new) : Plain(f)
  PROVE  /\ Sound(new, t)
         /\ \A p : QueueRunF(p) \notin Elems(new)
         /\ \A r : OnErrorF(r) \notin Elems(new) /\ DisconnectF(r, TRUE) \notin Elems(new)
<1>1. \A f : Plain(f) => f.op \in {"run", "callback", "user"}
  BY FrameNames DEF Plain
<1>2. \A f \in Elems(new) : f.op \in {"run", "callback", "user"}
  BY <1>1
<1>3. \A p : QueueRunF(p) \notin Elems(new) /\ AbortF(p) \notin Elems(new)
  <2>1. \A p : QueueRunF(p).op = "_run" /\ AbortF(p).op = "abort"
    BY FrameNames
  <2> QED
    BY <1>2, <2>1
<1>4. \A r : OnErrorF(r) \notin Elems(new) /\ DisconnectF(r, TRUE) \notin Elems(new)
  <2>1. \A r : OnErrorF(r).op = "onError" /\ DisconnectF(r, TRUE).op = "disconnect"
    BY FrameNames
  <2> QED
    BY <1>2, <2>1
<1>5. \A f, g : Over(new, f, g) \/ (f \in Elems(new) /\ g \in Elems(t)) => ~Clash(f, g)
  BY OrderedElems, ClashFacts
<1>6. \A f, g : Over(new, f, g) => g \in Elems(new)
  BY OrderedElems
<1>7. \A f, G : f \notin Elems(new) => Followed(new, f, G)
  BY FollowedFacts
<1> QED
  BY <1>3, <1>4, <1>5, <1>6, <1>7 DEF Sound

(* The calls of a user, of a hang-up and of a walk may be put in front of    *)
(* their own kind.                                                           *)
LEMMA BaseSound ==
  ASSUME NEW new, NEW t, \A f \in Elems(new) : Base(f), \A g \in Elems(t) : ~Inner(g)
  PROVE  /\ Sound(new, t)
         /\ \A p : QueueRunF(p) \notin Elems(new)
         /\ \A r : OnErrorF(r) \notin Elems(new) /\ DisconnectF(r, TRUE) \notin Elems(new)
<1>1. \A f \in Elems(new) : ~Inner(f)
  BY FrameOrders
<1>2. \A p : /\ QueueRunF(p) \notin Elems(new) /\ AbortF(p) \notin Elems(new)
             /\ OnErrorF(p) \notin Elems(new) /\ DisconnectF(p, TRUE) \notin Elems(new)
  BY <1>1, FrameOrders
<1>3. \A f, g : Over(new, f, g) \/ (f \in Elems(new) /\ g \in Elems(t)) => ~Clash(f, g)
  BY <1>1, OrderedElems, ClashFacts
<1>4. \A f, g : Over(new, f, g) => g \in Elems(new)
  BY OrderedElems
<1>5. \A f, G : f \notin Elems(new) => Followed(new, f, G)
  BY FollowedFacts
<1> QED
  BY <1>2, <1>3, <1>4, <1>5 DEF Sound

(* So may the abort of a queue and its removal. *)
LEMMA WalkSound ==
  ASSUME NEW q \in Peers, NEW w, Base(w), NEW t, \A g \in Elems(t) : ~Inner(g)
  PROVE  LET new == <<AbortF(q), DeleteF(q), w>>
         IN  /\ Sound(new, t)
             /\ \A p : QueueRunF(p) \notin Elems(new)
             /\ \A r : OnErrorF(r) \notin Elems(new) /\ DisconnectF(r, TRUE) \notin Elems(new)
<1>1. PICK a, d : a = AbortF(q) /\ d = DeleteF(q)
  OBVIOUS
<1>2. PICK new : new = <<a, d, w>>
  OBVIOUS
<1>3. Base(d) /\ Inner(a) /\ ~Inner(w) /\ ~Inner(d)
  BY <1>1, FrameOrders
<1>4. Elems(new) = {a, d, w}
  BY <1>2, PieceElems
<1>5. ASSUME NEW f, NEW g
      PROVE  Over(new, f, g) <=> (f = a /\ g \in {d, w}) \/ (f = d /\ g = w)
  BY <1>2, OverThree
<1>6. ASSUME NEW p PROVE QueueRunF(p) \notin Elems(new)
  <2>1. QueueRunF(p) # a /\ Inner(QueueRunF(p))
    BY <1>1, FrameNames, FrameOrders
  <2> QED
    BY <1>3, <1>4, <2>1
<1>7. ASSUME NEW r PROVE OnErrorF(r) \notin Elems(new) /\ DisconnectF(r, TRUE) \notin Elems(new)
  <2>1. /\ OnErrorF(r) # a /\ Inner(OnErrorF(r))
        /\ DisconnectF(r, TRUE) # a /\ Inner(DisconnectF(r, TRUE))
    BY <1>1, FrameNames, FrameOrders
  <2> QED
    BY <1>3, <1>4, <2>1
<1>8. \A g : Clash(a, g) => g = QueueRunF(q)
  BY <1>1, ClashFacts
<1>9. Inner(QueueRunF(q))
  BY FrameOrders
<1>10. ASSUME NEW f, NEW g, Over(new, f, g) \/ (f \in Elems(new) /\ g \in Elems(t))
       PROVE  ~Clash(f, g)
  <2>1. f \in {a, d, w} /\ ~Inner(g)
    BY <1>3, <1>4, <1>5, <1>10
  <2> QED
    BY <1>3, <1>8, <1>9, <2>1, ClashFacts
<1>11. \A f, g : Over(new, f, g) => g \in Elems(new)
  BY OrderedElems
<1>12. \A r, G : Followed(new, OnErrorF(r), G)
  BY <1>7, FollowedFacts
<1>13. ASSUME NEW p \in Others PROVE Followed(new, AbortF(p), AbortedBy(p)')
  <2>1. CASE p = q
    <3>1. d # a /\ w # a
      BY <1>3
    <3>2. d \in AbortedBy(p)'
      <4>1. d \in Frames /\ d = DeleteF(p)
        BY <1>1, <2>1, FrameTypes
      <4> QED
        BY <4>1 DEF AbortedBy
    <3> QED
      BY <1>1, <1>2, <2>1, <3>1, <3>2, FollowedFacts
  <2>2. CASE p # q
    <3>1. AbortF(p) # a /\ Inner(AbortF(p))
      BY <1>1, <2>2, FramePeers, FrameOrders
    <3>2. AbortF(p) \notin Elems(new)
      BY <1>3, <1>4, <3>1
    <3> QED
      BY <3>2, FollowedFacts
  <2> QED
    BY <2>1, <2>2
<1>14. Sound(new, t)
  BY <1>6, <1>7, <1>10, <1>11, <1>12, <1>13 DEF Sound
<1> QED
  BY <1>1, <1>2, <1>6, <1>7, <1>14

(* The failure of a connection closes it, where it is not to be closed yet   *)
(* and the queue is not to be resumed.                                       *)
LEMMA FailureSound ==
  ASSUME TypeInv, NEW r \in Requests, NEW t,
         DisconnectF(r, TRUE) \notin Elems(t),
         PeerOf(r) \in Others => QueueRunF(PeerOf(r)) \notin Elems(t),
         conn'[r] # "none", PeerOf(r) \in Others /\ r \in attached' => Active(r)'
  PROVE  /\ LET new == <<CallbackF(r, "error"), OnErrorF(r), DisconnectF(r, TRUE)>>
            IN  Sound(new, t) /\ \A p : QueueRunF(p) \notin Elems(new)
         /\ LET new == <<DisconnectF(r, TRUE)>>
            IN  Sound(new, t) /\ \A p : QueueRunF(p) \notin Elems(new)
         /\ PeerOf(r) = Self =>
            LET new == <<CallbackF(r, "error"), OnErrorF(r)>>
            IN  Sound(new, t) /\ \A p : QueueRunF(p) \notin Elems(new)
<1>1. PICK c, e, d : c = CallbackF(r, "error") /\ e = OnErrorF(r) /\ d = DisconnectF(r, TRUE)
  OBVIOUS
<1>2. c.op = "callback" /\ Plain(c) /\ e.op = "onError" /\ d.op = "disconnect"
  BY <1>1, FrameNames, FrameOrders
<1>3. \A p : QueueRunF(p) \notin {c, e, d} /\ AbortF(p) \notin {c, e, d}
  BY <1>2, FrameNames
<1>4. \A s : OnErrorF(s) \in {c, e, d} => s = r
  <2>1. \A s : OnErrorF(s).op = "onError"
    BY FrameNames
  <2> QED
    BY <1>1, <1>2, <2>1, FrameRequests
<1>5. \A g \in Elems(t) : ~Clash(c, g) /\ ~Clash(e, g) /\ ~Clash(d, g)
  BY <1>1, <1>2, ClashFacts
<1>6. ~Clash(c, e) /\ ~Clash(c, d) /\ ~Clash(e, d)
  <2>1. d # QueueRunF(PeerOf(r))
    BY <1>3
  <2> QED
    BY <1>1, <1>2, <2>1, ClashFacts
<1>7. ASSUME NEW new, Elems(new) \subseteq {c, e, d},
             \A f, g : Over(new, f, g) => f \in {c, e} /\ g \in {e, d} /\ f # g,
             PeerOf(r) = Self \/ Followed(new, e, {d})
      PROVE  Sound(new, t) /\ \A p : QueueRunF(p) \notin Elems(new)
  <2>1. ASSUME NEW f, NEW g, Over(new, f, g) \/ (f \in Elems(new) /\ g \in Elems(t))
        PROVE  ~Clash(f, g)
    BY <1>2, <1>5, <1>6, <1>7, <2>1
  <2>2. \A s \in Requests : OnErrorF(s) \in Elems(new) => conn'[s] # "none"
    BY <1>4, <1>7
  <2>3. ASSUME NEW p \in Others, NEW s \in Of(p)
        PROVE  /\ Followed(new, OnErrorF(s), {DisconnectF(s, TRUE)})
               /\ OnErrorF(s) \in Elems(new) /\ s \in attached' => Active(s)'
    <3>1. CASE s = r
      <4>1. PeerOf(r) \in Others /\ PeerOf(r) # Self
        BY <3>1 DEF Of, Others
      <4> QED
        BY <1>1, <1>7, <3>1, <4>1
    <3>2. CASE s # r
      <4>1. OnErrorF(s) \notin Elems(new)
        BY <1>4, <1>7, <3>2
      <4> QED
        BY <4>1, FollowedFacts
    <3> QED
      BY <3>1, <3>2
  <2>4. \A p : QueueRunF(p) \notin Elems(new) /\ AbortF(p) \notin Elems(new)
    BY <1>3, <1>7
  <2>5. \A p, G : Followed(new, AbortF(p), G)
    BY <2>4, FollowedFacts
  <2>6. \A f, g : Over(new, f, g) => g \in Elems(new)
    BY OrderedElems
  <2> QED
    BY <2>1, <2>2, <2>3, <2>4, <2>5, <2>6 DEF Sound
<1>8. c # e /\ c # d /\ e # d
  BY <1>2
<1>9. ASSUME NEW new, new = <<c, e, d>>
      PROVE  Sound(new, t) /\ \A p : QueueRunF(p) \notin Elems(new)
  <2>1. Elems(new) \subseteq {c, e, d}
    BY <1>9, PieceElems
  <2>2. ASSUME NEW f, NEW g
        PROVE  Over(new, f, g) <=> (f = c /\ g \in {e, d}) \/ (f = e /\ g = d)
    BY <1>9, OverThree
  <2>3. Followed(new, e, {d})
    <3>1. PICK G : G = {d}
      OBVIOUS
    <3>2. Followed(new, e, G)
      BY <1>8, <1>9, <3>1, FollowedFacts
    <3> QED
      BY <3>1, <3>2
  <2> QED
    BY <1>7, <1>8, <2>1, <2>2, <2>3
<1>10. ASSUME NEW new, new = <<d>>
       PROVE  Sound(new, t) /\ \A p : QueueRunF(p) \notin Elems(new)
  <2>1. Elems(new) = {d} /\ \A f, g : ~Over(new, f, g)
    BY <1>10, PieceElems, OverPieces
  <2>2. Followed(new, e, {d})
    BY <1>8, <2>1, FollowedFacts
  <2> QED
    BY <1>7, <2>1, <2>2
<1>11. ASSUME PeerOf(r) = Self, NEW new, new = <<c, e>>
       PROVE  Sound(new, t) /\ \A p : QueueRunF(p) \notin Elems(new)
  <2>1. Elems(new) = {c, e}
    BY <1>11, PieceElems
  <2>2. ASSUME NEW f, NEW g PROVE Over(new, f, g) <=> f = c /\ g = e
    BY <1>11, OverTwo
  <2> QED
    BY <1>7, <1>8, <1>11, <2>1, <2>2
<1> QED
  BY <1>1, <1>9, <1>10, <1>11

-----------------------------------------------------------------------------
(* The steps that move no connection and start or stop no queue.            *)

(* Only one frame is the first. *)
LEMMA OtherTops ==
  ASSUME NEW f, Top(f)
  PROVE  /\ f.op # "run" => ~Top(RunF)
         /\ f.op # "_run" => \A p : ~Top(QueueRunF(p))
         /\ f.op # "delete" => \A p : ~Top(DeleteF(p))
         /\ f.op # "disconnect" => \A r, b : ~Top(DisconnectF(r, b))
<1>1. \A g : Top(g) => g = f
  BY DEF Top
<1>2. f.op # "run" => ~Top(RunF)
  BY <1>1, FrameNames
<1>3. ASSUME f.op # "_run", NEW p PROVE ~Top(QueueRunF(p))
  BY <1>1, <1>3, FrameNames
<1>4. ASSUME f.op # "delete", NEW p PROVE ~Top(DeleteF(p))
  BY <1>1, <1>4, FrameNames
<1>5. ASSUME f.op # "disconnect", NEW r, NEW b PROVE ~Top(DisconnectF(r, b))
  BY <1>1, <1>5, FrameNames
<1> QED
  BY <1>2, <1>3, <1>4, <1>5

(* Nothing inner waits beneath a call of the user or a walk. *)
LEMMA BeneathBase ==
  ASSUME Before, NEW f, Top(f), Base(f)
  PROVE  \A g \in Elems(Rest) : ~Inner(g)
<1>1. \A g \in Elems(Rest) : Over(agenda, f, g)
  BY TopOver DEF Before, TypeInv, TypeOK
<1> QED
  BY <1>1, ClashFacts DEF Before, TurnOrder, OrderInv

(* A step that runs such a frame. *)
LEMMA CalmTop ==
  ASSUME Before, NEW f, Top(f),
         f.op \in {"user", "callback", "onError", "abort", "closeAll", "stop", "_clean"},
         NEW new, NEW t, NEW late, Goes(new, t, late), Sound(new, t),
         \A p : QueueRunF(p) \notin Elems(new),
         UNCHANGED <<call, conn, attached, running>>,
         \A p \in Others : queue[p] = <<>> => queue'[p] = <<>>,
         \A p \in Others : Denied(p) => Denied(p)'
  PROVE  After
<1>1. /\ ~Top(RunF) /\ \A p : ~Top(QueueRunF(p)) /\ ~Top(DeleteF(p))
      /\ \A r : ~Top(DisconnectF(r, TRUE))
  BY OtherTops
<1>2. \A p \in Others : (\E r \in Attempts(p) : Ended(p, r)) => queue'[p] = <<>>
  BY DEF Ended
<1> QED
  BY <1>1, <1>2, CalmStep

(* A frame that is run and leaves no other. *)
LEMMA CalmReturn ==
  ASSUME Before, NEW f, Top(f),
         f.op \in {"user", "callback", "onError", "abort", "closeAll", "stop", "_clean"},
         agenda' = Rest, UNCHANGED <<call, conn, attached, running>>,
         \A p \in Others : queue[p] = <<>> => queue'[p] = <<>>,
         \A p \in Others : Denied(p) => Denied(p)'
  PROVE  After
<1>1. Goes(<<>>, Rest, <<>>)
  BY Going DEF Before, TypeInv, TypeOK, Top
<1>2. PICK new : new = <<>>
  OBVIOUS
<1>3. Elems(new) = {}
  BY <1>2, PieceElems
<1>4. Sound(new, Rest) /\ \A p : QueueRunF(p) \notin Elems(new)
  BY <1>3, PlainSound
<1>5. Goes(new, Rest, <<>>)
  BY <1>1, <1>2
<1> QED
  BY <1>4, <1>5, CalmTop

(* A callback, and a return from one. *)
LEMMA CallbackKeeps ==
  ASSUME Before, Callback \/ UserReturn
  PROVE  After
<1>1. UNCHANGED <<call, conn, attached, running, queue, denylisted>>
  BY DEF Callback, UserReturn, requestVars, queueVars, connVars
<1>2. \A p \in Others : (queue[p] = <<>> => queue'[p] = <<>>) /\ (Denied(p) => Denied(p)')
  BY <1>1 DEF Denied
<1>3. PICK f : /\ Top(f) /\ f.op \in {"user", "callback"}
               /\ agenda' = Rest \/ agenda' = <<UserF(TRUE)>> \o Rest
  <2>1. CASE Callback
    <3>1. PICK r, a : /\ Top(CallbackF(r, a))
                      /\ agenda' = Rest \/ agenda' = <<UserF(TRUE)>> \o Rest
      BY <2>1 DEF Callback
    <3>2. CallbackF(r, a).op = "callback"
      BY FrameNames
    <3> QED
      BY <3>1, <3>2
  <2>2. CASE UserReturn
    <3>1. UserF(TRUE).op = "user" /\ UserF(FALSE).op = "user"
      BY FrameNames
    <3> QED
      BY <2>2, <3>1 DEF UserReturn, InUser
  <2> QED
    BY <2>1, <2>2
<1>4. CASE agenda' = Rest
  BY <1>1, <1>2, <1>3, <1>4, CalmReturn
<1>5. CASE agenda' = <<UserF(TRUE)>> \o Rest
  <2>1. PICK new : new = <<UserF(TRUE)>>
    OBVIOUS
  <2>2. new \in Seq(Frames) /\ Elems(new) = {UserF(TRUE)}
    BY <2>1, FrameTypes, ShortTurns, PieceElems
  <2>3. Goes(new, Rest, <<>>)
    BY <1>3, <1>5, <2>1, <2>2, Going DEF Before, TypeInv, TypeOK, Top
  <2>4. \A g \in Elems(new) : Plain(g)
    BY <2>2, FrameOrders
  <2>5. Sound(new, Rest) /\ \A p : QueueRunF(p) \notin Elems(new)
    BY <2>4, PlainSound
  <2> QED
    BY <1>1, <1>2, <1>3, <2>3, <2>5, CalmTop
<1> QED
  BY <1>3, <1>4, <1>5

(* An error that denies the peer has the queue aborted before the connection *)
(* that failed is closed.                                                    *)
LEMMA OnErrorKeeps ==
  ASSUME Before, NEW r \in Requests, OnError(r)
  PROVE  After
<1>1. PICK e : e = OnErrorF(r)
  OBVIOUS
<1>2. Top(e) /\ e.op = "onError" /\ UNCHANGED <<call, conn, attached, running, queue>>
  BY <1>1, FrameNames DEF OnError, requestVars, connVars
<1>3. /\ agenda \in Seq(Frames) /\ agenda # <<>> /\ Head(agenda) = e
      /\ Pending = {e} \cup Elems(Rest) /\ Rest \in Seq(Frames)
  BY <1>2, TopOver DEF Before, TypeInv, TypeOK, Top
<1>4. \A p \in Others : (queue[p] = <<>> => queue'[p] = <<>>) /\ (Denied(p) => Denied(p)')
  <2>1. \A p \in Peers : denylisted'[p] = denylisted[p] \/ denylisted'[p] \in {"until", "Infinity"}
    BY DEF OnError, Denylist, Before, TypeInv, TypeOK
  <2> QED
    BY <1>2, <2>1 DEF Denied, Others
<1>5. CASE agenda' = Rest
  BY <1>2, <1>4, <1>5, CalmReturn
<1>6. CASE agenda' # Rest
  <2>1. PICK p : p = PeerOf(r)
    OBVIOUS
  <2>2. /\ r \in attached /\ agenda' = <<AbortF(p)>> \o Rest
        /\ denylisted' = [denylisted EXCEPT ![p] = "until"]
    BY <1>6, <2>1 DEF OnError, Denylist
  <2>3. r \in Of(p) /\ p \in Peers
    <3>1. r \in Issued /\ None \notin Calls
      BY <2>2, DialerAssumption DEF Before, TypeInv, OnlyIssued
    <3> QED
      BY <2>1, <3>1, PeerTypes DEF Of, Issued
  <2>4. PICK a, new : a = AbortF(p) /\ new = <<a>>
    OBVIOUS
  <2>5. a \in Frames /\ new \in Seq(Frames) /\ Elems(new) = {a} /\ \A f, g : ~Over(new, f, g)
    BY <2>3, <2>4, FrameTypes, ShortTurns, PieceElems, OverPieces
  <2>6. Goes(new, Rest, <<>>)
    BY <1>3, <2>2, <2>4, <2>5, Going
  <2>7. \A q : QueueRunF(q) \notin Elems(new)
    BY <2>4, <2>5, FrameNames
  <2>8. \A s : OnErrorF(s) \notin Elems(new)
    BY <2>4, <2>5, FrameNames
  <2>9. ASSUME NEW f, NEW g, Over(new, f, g) \/ (f \in Elems(new) /\ g \in Elems(Rest))
        PROVE  ~Clash(f, g)
    <3>1. f = a /\ Over(agenda, e, g)
      BY <1>2, <1>3, <2>5, <2>9, TopOver
    <3>2. ~Clash(e, g)
      BY <3>1 DEF Before, TurnOrder, OrderInv
    <3>3. p \in Others => g # QueueRunF(p)
      BY <1>1, <2>3, <3>2 DEF Clash, About
    <3> QED
      BY <2>4, <3>1, <3>3, ClashFacts
  <2>10. ASSUME NEW q \in Others
         PROVE  \/ Followed(new, AbortF(q), AbortedBy(q)')
                \/ new = <<AbortF(q)>> /\ Rest # <<>> /\ Head(Rest) \in AbortedBy(q)'
    <3>1. CASE q # p
      <4>1. AbortF(q) \notin Elems(new)
        BY <2>4, <2>5, <3>1, FramePeers
      <4> QED
        BY <4>1, FollowedFacts
    <3>2. CASE q = p
      <4>1. PICK d, G : d = DisconnectF(r, TRUE) /\ G = {d}
        OBVIOUS
      <4>2. /\ Followed(agenda, e, G)
            /\ Active(r)
        BY <1>1, <1>3, <2>2, <2>3, <3>2, <4>1 DEF Before, TurnOrder, FailInv
      <4>3. Rest # <<>> /\ Head(Rest) = d
        <5>1. Head(agenda) = e => Tail(agenda) # <<>> /\ Head(Tail(agenda)) \in G
          BY <1>3, <4>2, FollowedRest
        <5> QED
          BY <1>3, <4>1, <5>1 DEF Rest
      <4>4. r \in Of(p)' /\ Active(r)' /\ Denied(p)' /\ d \in Frames
        BY <1>2, <2>2, <2>3, <4>1, <4>2, FrameTypes
           DEF Of, PeerOf, Active, Denied, Before, TypeInv, TypeOK
      <4> QED
        BY <2>4, <3>2, <4>1, <4>3, <4>4 DEF AbortedBy
    <3> QED
      BY <3>1, <3>2
  <2>11. \A s, G : Followed(new, OnErrorF(s), G)
    BY <2>8, FollowedFacts
  <2>12. Sound(new, Rest)
    BY <2>5, <2>8, <2>9, <2>10, <2>11 DEF Sound
  <2> QED
    BY <1>2, <1>4, <2>6, <2>7, <2>12, CalmTop
<1> QED
  BY <1>5, <1>6

(* An abort answers the requests of the queue. *)
LEMMA AbortNextKeeps ==
  ASSUME Before, NEW p \in Peers, AbortNext(p)
  PROVE  After
<1>1. /\ Top(AbortF(p)) /\ AbortF(p).op = "abort" /\ queue[p] # <<>>
      /\ queue' = [queue EXCEPT ![p] = Tail(@)]
      /\ agenda' = <<CallbackF(Head(queue[p]), "aborted")>> \o agenda
      /\ UNCHANGED <<call, conn, attached, running, denylisted>>
  BY FrameNames DEF AbortNext, requestVars, connVars
<1>2. PICK c : c = CallbackF(Head(queue[p]), "aborted")
  OBVIOUS
<1>3. c \in Frames /\ Plain(c)
  <2>1. Head(queue[p]) \in Requests
    BY <1>1 DEF Before, TypeInv, TypeOK
  <2> QED
    BY <1>2, <2>1, FrameTypes, FrameOrders DEF Answers
<1>4. PICK new : new = <<c>>
  OBVIOUS
<1>5. new \in Seq(Frames) /\ Elems(new) = {c}
  BY <1>3, <1>4, ShortTurns, PieceElems
<1>6. \A q : ~Top(QueueRunF(q))
  BY <1>1, OtherTops
<1>7. Goes(new, agenda, <<>>)
  BY <1>1, <1>2, <1>4, <1>5, <1>6, Going DEF Before, TypeInv, TypeOK
<1>8. Sound(new, agenda) /\ \A q : QueueRunF(q) \notin Elems(new)
  BY <1>3, <1>5, PlainSound
<1>9. \A q \in Others : (queue[q] = <<>> => queue'[q] = <<>>) /\ (Denied(q) => Denied(q)')
  BY <1>1 DEF Denied, Others, Before, TypeInv, TypeOK
<1> QED
  BY <1>1, <1>7, <1>8, <1>9, CalmTop

(* A user who calls is the first frame of the turn. *)
LEMMA UserTop ==
  ASSUME Before, NEW name, MayCall(name)
  PROVE  \E f : /\ Top(f) /\ f.op = "user"
                /\ name \notin NestedCalls => f = UserF(FALSE)
<1>1. UserF(TRUE).op = "user" /\ UserF(FALSE).op = "user"
  BY FrameNames
<1> QED
  BY <1>1 DEF MayCall

(* Beneath a fresh turn of the user nothing inner waits, and no removal. *)
LEMMA FreshUser ==
  ASSUME Before, NEW name, MayCall(name), name \notin NestedCalls
  PROVE  \A g \in Pending : ~Inner(g) /\ g.op # "delete"
<1>1. PICK f : f = UserF(FALSE)
  OBVIOUS
<1>2. Base(f) /\ Top(f) /\ ~Inner(f)
  <2>1. Top(f)
    BY <1>1 DEF MayCall
  <2>2. Base(f)
    BY <1>1, FrameOrders
  <2> QED
    BY <2>1, <2>2, FrameOrders
<1>3. \A g \in Elems(Rest) : ~Inner(g)
  BY <1>2, BeneathBase
<1>4. agenda \in Seq(Frames) /\ agenda # <<>> /\ Head(agenda) = f
  BY <1>2 DEF Before, TypeInv, TypeOK, Top
<1>5. \A g \in Pending : ~Inner(g)
  BY <1>2, <1>3, <1>4, PendingFacts
<1>6. 1 \in DOMAIN agenda /\ agenda[1] = UserF(FALSE)
  <2>1. 1 \in DOMAIN agenda /\ agenda[1] = f
    BY <1>4
  <2> QED
    BY <1>1, <2>1
<1>7. \A j \in DOMAIN agenda : agenda[j].op # "delete"
  BY <1>6 DEF Before, TurnInv, NoFreshDrop, Dropping
<1> QED
  BY <1>5, <1>7 DEF Pending, Elems

(* A hang-up and the closings it is made of. *)
LEMMA CloseAllKeeps ==
  ASSUME Before, CloseAll
  PROVE  After
<1>1. PICK R \in SUBSET Requests :
        /\ Top(CloseAllF(R))
        /\ \/ agenda' = Rest
           \/ \E r \in R : agenda' = <<DisconnectF(r, FALSE), CloseAllF(R \ {r})>> \o Rest
  BY DEF CloseAll
<1>2. PICK f : f = CloseAllF(R)
  OBVIOUS
<1>3. Top(f) /\ f.op = "closeAll" /\ Base(f)
  BY <1>1, <1>2, FrameNames, FrameOrders
<1>4. UNCHANGED <<call, conn, attached, running, queue, denylisted>>
  BY DEF CloseAll, requestVars, queueVars, connVars
<1>5. \A p \in Others : (queue[p] = <<>> => queue'[p] = <<>>) /\ (Denied(p) => Denied(p)')
  BY <1>4 DEF Denied
<1>6. CASE agenda' = Rest
  BY <1>3, <1>4, <1>5, <1>6, CalmReturn
<1>7. ASSUME NEW r \in R, agenda' = <<DisconnectF(r, FALSE), CloseAllF(R \ {r})>> \o Rest
      PROVE  After
  <2>1. PICK d, c, new : d = DisconnectF(r, FALSE) /\ c = CloseAllF(R \ {r}) /\ new = <<d, c>>
    OBVIOUS
  <2>2. d \in Frames /\ c \in Frames /\ Base(d) /\ Base(c)
    <3>1. r \in Requests /\ R \ {r} \in SUBSET Requests
      OBVIOUS
    <3> QED
      BY <2>1, <3>1, FrameTypes, FrameOrders
  <2>3. new \in Seq(Frames) /\ Elems(new) = {d, c}
    BY <2>1, <2>2, ShortTurns, PieceElems
  <2>4. Goes(new, Rest, <<>>)
    BY <1>3, <1>7, <2>1, <2>3, Going DEF Before, TypeInv, TypeOK, Top
  <2>5. \A g \in Elems(Rest) : ~Inner(g)
    BY <1>3, BeneathBase
  <2>6. Sound(new, Rest) /\ \A p : QueueRunF(p) \notin Elems(new)
    BY <2>2, <2>3, <2>5, BaseSound
  <2> QED
    BY <1>3, <1>4, <1>5, <2>4, <2>6, CalmTop
<1> QED
  BY <1>1, <1>6, <1>7

(* No callback hangs up: nothing inner waits beneath a hang-up. *)
LEMMA HangUpKeeps ==
  ASSUME Before, NEW p \in Peers, HangUp(p)
  PROVE  After
<1>1. MayCall("hangUp") /\ agenda' = <<CloseAllF(Tracked(p))>> \o agenda
  BY DEF HangUp
<1>2. PICK f : f = UserF(FALSE)
  OBVIOUS
<1>3. Top(f) /\ f.op = "user"
  BY <1>1, <1>2, UserTop DEF Before, NoClosing
<1>4. UNCHANGED <<call, conn, attached, running, queue, denylisted>>
  BY DEF HangUp, requestVars, queueVars
<1>5. \A q \in Others : (queue[q] = <<>> => queue'[q] = <<>>) /\ (Denied(q) => Denied(q)')
  BY <1>4 DEF Denied
<1>6. PICK c, new : c = CloseAllF(Tracked(p)) /\ new = <<c>>
  OBVIOUS
<1>7. c \in Frames /\ Base(c)
  <2>1. Tracked(p) \in SUBSET Requests
    BY DEF Tracked, Of
  <2> QED
    BY <1>6, <2>1, FrameTypes, FrameOrders
<1>8. new \in Seq(Frames) /\ Elems(new) = {c}
  BY <1>6, <1>7, ShortTurns, PieceElems
<1>9. \A q : ~Top(QueueRunF(q))
  BY <1>3, OtherTops
<1>10. Goes(new, agenda, <<>>)
  BY <1>1, <1>6, <1>8, <1>9, Going DEF Before, TypeInv, TypeOK
<1>11. \A g \in Elems(agenda) : ~Inner(g)
  <2>1. "hangUp" \notin NestedCalls
    BY DEF Before, NoClosing
  <2>2. \A g \in Pending : ~Inner(g)
    BY <1>1, <2>1, FreshUser
  <2> QED
    BY <2>2 DEF Pending
<1>12. Sound(new, agenda) /\ \A q : QueueRunF(q) \notin Elems(new)
  BY <1>7, <1>8, <1>11, BaseSound
<1> QED
  BY <1>3, <1>4, <1>5, <1>10, <1>12, CalmTop

(* The walks of stop() and _clean(): each aborts a queue, then drops it. *)
LEMMA WalksKeep ==
  ASSUME Before, StopNext \/ CleanNext
  PROVE  After
<1>1. UNCHANGED <<call, conn, attached, running, queue, denylisted>>
  BY DEF StopNext, CleanNext, requestVars, queueVars, connVars
<1>2. \A p \in Others : (queue[p] = <<>> => queue'[p] = <<>>) /\ (Denied(p) => Denied(p)')
  BY <1>1 DEF Denied
<1>3. PICK f : /\ Top(f) /\ f.op \in {"stop", "_clean"} /\ Base(f)
               /\ \/ agenda' = Rest
                  \/ \E w \in Frames : Base(w) /\ agenda' = <<w>> \o Rest
                  \/ \E w \in Frames, p \in Peers :
                       Base(w) /\ agenda' = <<AbortF(p), DeleteF(p), w>> \o Rest
  <2>1. \A P \in SUBSET Peers : \A p : P \ {p} \in SUBSET Peers
    OBVIOUS
  <2>2. CASE StopNext
    <3>1. PICK P \in SUBSET Peers :
            /\ Top(StopF(P))
            /\ \/ agenda' = Rest
               \/ \E p \in P : agenda' = <<AbortF(p), DeleteF(p), StopF(P \ {p})>> \o Rest
      BY <2>2 DEF StopNext
    <3>2. StopF(P).op = "stop" /\ Base(StopF(P))
      BY FrameNames, FrameOrders
    <3>3. \A p : StopF(P \ {p}) \in Frames /\ Base(StopF(P \ {p}))
      BY <2>1, FrameTypes, FrameOrders
    <3> QED
      BY <3>1, <3>2, <3>3
  <2>3. CASE CleanNext
    <3>1. PICK P \in SUBSET Peers :
            /\ Top(CleanF(P))
            /\ \/ agenda' = Rest
               \/ \E p \in P : \/ agenda' = <<AbortF(p), DeleteF(p), CleanF(P \ {p})>> \o Rest
                               \/ agenda' = <<CleanF(P \ {p})>> \o Rest
      BY <2>3 DEF CleanNext
    <3>2. CleanF(P).op = "_clean" /\ Base(CleanF(P))
      BY FrameNames, FrameOrders
    <3>3. \A p : CleanF(P \ {p}) \in Frames /\ Base(CleanF(P \ {p}))
      BY <2>1, FrameTypes, FrameOrders
    <3> QED
      BY <3>1, <3>2, <3>3
  <2> QED
    BY <2>2, <2>3
<1>4. \A g \in Elems(Rest) : ~Inner(g)
  BY <1>3, BeneathBase
<1>5. CASE agenda' = Rest
  BY <1>1, <1>2, <1>3, <1>5, CalmReturn
<1>6. ASSUME NEW w \in Frames, Base(w), agenda' = <<w>> \o Rest PROVE After
  <2>1. PICK new : new = <<w>>
    OBVIOUS
  <2>2. new \in Seq(Frames) /\ Elems(new) = {w}
    BY <2>1, ShortTurns, PieceElems
  <2>3. Goes(new, Rest, <<>>)
    BY <1>3, <1>6, <2>1, <2>2, Going DEF Before, TypeInv, TypeOK, Top
  <2>4. Sound(new, Rest) /\ \A p : QueueRunF(p) \notin Elems(new)
    BY <1>4, <1>6, <2>2, BaseSound
  <2> QED
    BY <1>1, <1>2, <1>3, <2>3, <2>4, CalmTop
<1>7. ASSUME NEW w \in Frames, Base(w), NEW p \in Peers,
             agenda' = <<AbortF(p), DeleteF(p), w>> \o Rest
      PROVE  After
  <2>1. PICK new : new = <<AbortF(p), DeleteF(p), w>>
    OBVIOUS
  <2>2. new \in Seq(Frames)
    BY <2>1, FrameTypes, ShortTurns
  <2>3. Goes(new, Rest, <<>>)
    BY <1>3, <1>7, <2>1, <2>2, Going DEF Before, TypeInv, TypeOK, Top
  <2>4. Sound(new, Rest) /\ \A q : QueueRunF(q) \notin Elems(new)
    BY <1>4, <1>7, <2>1, WalkSound
  <2> QED
    BY <1>1, <1>2, <1>3, <2>3, <2>4, CalmTop
<1> QED
  BY <1>3, <1>5, <1>6, <1>7

(* A request that is issued and answered at the end of the turn, and nothing *)
(* else, is in no attempt.                                                   *)
LEMMA AnsweredKeeps ==
  ASSUME Before, NEW name, MayCall(name), NEW r \in Requests, call[r] = None,
         \A s \in Requests : s # r => call'[s] = call[s],
         UNCHANGED <<conn, attached, running, queue, denylisted>>,
         NEW c \in Frames, c.op = "callback", agenda' = Append(agenda, c)
  PROVE  After
<1>1. PICK f : Top(f) /\ f.op = "user"
  BY UserTop
<1>2. /\ ~Top(RunF) /\ \A p : ~Top(QueueRunF(p)) /\ ~Top(DeleteF(p))
      /\ \A s : ~Top(DisconnectF(s, TRUE))
  BY <1>1, OtherTops
<1>3. PICK new, late : new = <<>> /\ late = <<c>>
  OBVIOUS
<1>4. Goes(new, agenda, late)
  BY <1>2, <1>3, Going DEF Before, TypeInv, TypeOK
<1>5. Elems(new) = {}
  BY <1>3, PieceElems
<1>6. Sound(new, agenda)
  BY <1>5, PlainSound
<1>7. \A p : (Denied(p) => Denied(p)') /\ \A s : Ended(p, s) => queue'[p] = <<>>
  BY DEF Denied, Ended
<1>8. \A s \in Requests :
        \/ call'[s] = call[s]
        \/ call[s] = None /\ OnErrorF(s) \notin Elems(new) /\ DisconnectF(s, TRUE) \notin Elems(new)
  BY <1>5
<1> QED
  BY <1>2, <1>4, <1>5, <1>6, <1>7, <1>8, CalmStep

(* A cold call that is refused. *)
LEMMA DialRefusedKeeps ==
  ASSUME Before, NEW r \in Requests, DialRefused(r)
  PROVE  After
<1>1. PICK c : c = CallbackF(r, "aborted")
  OBVIOUS
<1>2. /\ MayCall("dial") /\ call[r] = None /\ agenda' = Append(agenda, c)
      /\ UNCHANGED <<conn, attached, running, queue, denylisted>>
      /\ \A s \in Requests : s # r => call'[s] = call[s]
  BY <1>1 DEF DialRefused, queueVars, connVars, Before, TypeInv, TypeOK
<1>3. c \in Frames /\ c.op = "callback"
  BY <1>1, FrameTypes, FrameNames DEF Answers
<1> QED
  BY <1>2, <1>3, AnsweredKeeps

(* A denylist that is cleared in a fresh turn of the user ends nothing that  *)
(* was due.                                                                  *)
LEMMA ClearDenylistKeeps ==
  ASSUME Before, NEW p \in Peers, ClearDenylist(p)
  PROVE  After
<1>1. /\ MayCall("clearDenylist") /\ agenda' = agenda
      /\ UNCHANGED <<call, conn, attached, running, queue>>
  BY DEF ClearDenylist, requestVars, connVars
<1>2. PICK f : f = UserF(FALSE)
  OBVIOUS
<1>3. Top(f) /\ f.op = "user"
  BY <1>1, <1>2, UserTop DEF Before, NoClosing
<1>4. \A g \in Pending : ~Inner(g) /\ g.op # "delete"
  <2>1. "clearDenylist" \notin NestedCalls
    BY DEF Before, NoClosing
  <2> QED
    BY <1>1, <2>1, FreshUser
<1>5. /\ ~Top(RunF) /\ \A q : ~Top(QueueRunF(q)) /\ ~Top(DeleteF(q))
      /\ \A s : ~Top(DisconnectF(s, TRUE))
  BY <1>3, OtherTops
<1>6. PICK new : new = <<>>
  OBVIOUS
<1>7. Goes(new, agenda, <<>>)
  BY <1>1, <1>5, <1>6, Going DEF Before, TypeInv, TypeOK
<1>8. Elems(new) = {}
  BY <1>6, PieceElems
<1>9. Sound(new, agenda)
  BY <1>8, PlainSound
<1>10. \A q, s : Ended(q, s) => queue'[q] = <<>>
  BY <1>1 DEF Ended
<1> QED
  BY <1>1, <1>4, <1>5, <1>7, <1>8, <1>9, <1>10, CalmStep

-----------------------------------------------------------------------------
(* The steps that start a turn and move no connection.                      *)

(* A turn that starts. *)
LEMMA CalmStart ==
  ASSUME Before, agenda = <<>>, NEW new \in Seq(Frames), agenda' = new,
         UNCHANGED <<call, conn, attached, running>>,
         Sound(new, <<>>), \A p : QueueRunF(p) \notin Elems(new)
  PROVE  After
<1>1. /\ Pending = {} /\ (\A f : ~Top(f)) /\ \A p, r : ~Ended(p, r)
  BY QuietFacts
<1>2. Goes(new, agenda, <<>>)
  BY Going DEF Before, TypeInv, TypeOK
<1>3. Sound(new, agenda)
  OBVIOUS
<1> QED
  BY <1>1, <1>2, <1>3, CalmStep

(* A step outside any turn that starts none. *)
LEMMA CalmQuiet ==
  ASSUME Before, agenda = <<>>, UNCHANGED <<call, conn, attached, running, agenda>>
  PROVE  After
<1>1. PICK new : new = <<>>
  OBVIOUS
<1>2. new \in Seq(Frames) /\ agenda' = new /\ Elems(new) = {}
  BY <1>1, ShortTurns, PieceElems
<1>3. Sound(new, <<>>)
  BY <1>2, PlainSound
<1> QED
  BY <1>2, <1>3, CalmStart

(* A failure outside any turn starts one. *)
LEMMA FailuresKeep ==
  ASSUME Before, NEW r \in Requests, AttemptFails(r) \/ IdentifyFails(r) \/ MuxerCloses(r)
  PROVE  After
<1>1. /\ agenda = <<>> /\ UNCHANGED <<call, conn, attached, running>>
      /\ conn[r] \in {"dialing", "securing", "muxed"}
      /\ \/ agenda' = <<CallbackF(r, "error"), OnErrorF(r), DisconnectF(r, TRUE)>>
         \/ agenda' = <<DisconnectF(r, TRUE)>>
  BY DEF AttemptFails, IdentifyFails, MuxerCloses, Quiet, Unfinished, requestVars, queueVars, connVars
<1>2. PICK t : t = <<>>
  OBVIOUS
<1>3. Elems(t) = {}
  BY <1>2, PieceElems
<1>4. conn'[r] # "none" /\ (PeerOf(r) \in Others /\ r \in attached' => Active(r)')
  BY <1>1 DEF Active
<1>5. CASE agenda' = <<CallbackF(r, "error"), OnErrorF(r), DisconnectF(r, TRUE)>>
  <2>1. PICK new : new = <<CallbackF(r, "error"), OnErrorF(r), DisconnectF(r, TRUE)>>
    OBVIOUS
  <2>2. new \in Seq(Frames)
    BY <2>1, FrameTypes, ShortTurns DEF Answers
  <2>3. Sound(new, t) /\ \A p : QueueRunF(p) \notin Elems(new)
    BY <1>3, <1>4, <2>1, FailureSound DEF Before
  <2> QED
    BY <1>1, <1>2, <1>5, <2>1, <2>2, <2>3, CalmStart
<1>6. CASE agenda' = <<DisconnectF(r, TRUE)>>
  <2>1. PICK new : new = <<DisconnectF(r, TRUE)>>
    OBVIOUS
  <2>2. new \in Seq(Frames)
    BY <2>1, FrameTypes, ShortTurns
  <2>3. Sound(new, t) /\ \A p : QueueRunF(p) \notin Elems(new)
    BY <1>3, <1>4, <2>1, FailureSound DEF Before
  <2> QED
    BY <1>1, <1>2, <1>6, <2>1, <2>2, <2>3, CalmStart
<1> QED
  BY <1>1, <1>5, <1>6

(* A turn that starts with one frame that may come before any other of its   *)
(* kind: a call of the user, a handshake that ends, a walk.                  *)
LEMMA StartsKeep ==
  ASSUME Before,
         \/ UserTurn \/ Clean \/ ManagerStop \/ CloseConnections
         \/ \E r \in Requests : ShakeEnds(r)
  PROVE  After
<1>1. agenda = <<>> /\ UNCHANGED <<call, conn, attached, running>>
  BY DEF UserTurn, Clean, ManagerStop, CloseConnections, ShakeEnds, Quiet, requestVars, queueVars,
         connVars
<1>2. queues \in SUBSET Peers
  BY DEF Before, TypeInv, TypeOK
<1>3. PICK f \in Frames : agenda' = <<f>> /\ (Base(f) \/ Plain(f))
  <2>1. CASE UserTurn
    <3>1. PICK f : f = UserF(FALSE)
      OBVIOUS
    <3>2. f \in Frames /\ Base(f)
      BY <3>1, FrameTypes, FrameOrders
    <3> QED
      BY <2>1, <3>1, <3>2 DEF UserTurn
  <2>2. CASE Clean
    <3>1. CleanF(queues) \in Frames /\ Base(CleanF(queues))
      BY <1>2, FrameTypes, FrameOrders
    <3> QED
      BY <2>2, <3>1 DEF Clean
  <2>3. CASE ManagerStop
    <3>1. StopF(queues) \in Frames /\ Base(StopF(queues))
      BY <1>2, FrameTypes, FrameOrders
    <3> QED
      BY <2>3, <3>1 DEF ManagerStop
  <2>4. CASE CloseConnections
    <3>1. PICK c : c = CloseAllF(AllTracked)
      OBVIOUS
    <3>2. AllTracked \in SUBSET Requests
      BY DEF AllTracked
    <3>3. c \in Frames /\ Base(c)
      BY <3>1, <3>2, FrameTypes, FrameOrders
    <3> QED
      BY <2>4, <3>1, <3>3 DEF CloseConnections
  <2>5. ASSUME NEW r \in Requests, ShakeEnds(r)
        PROVE  \E f \in Frames : agenda' = <<f>> /\ (Base(f) \/ Plain(f))
    <3>1. PICK a \in {"ok", "error"} : agenda' = <<CallbackF(r, a)>>
      BY <2>5 DEF ShakeEnds
    <3>2. CallbackF(r, a) \in Frames /\ Plain(CallbackF(r, a))
      BY FrameTypes, FrameOrders DEF Answers
    <3> QED
      BY <3>1, <3>2
  <2> QED
    BY <2>1, <2>2, <2>3, <2>4, <2>5
<1>4. PICK new, t : new = <<f>> /\ t = <<>>
  OBVIOUS
<1>5. new \in Seq(Frames) /\ Elems(new) = {f} /\ Elems(t) = {}
  BY <1>4, ShortTurns, PieceElems
<1>6. Sound(new, t) /\ \A p : QueueRunF(p) \notin Elems(new)
  <2>1. CASE Base(f)
    BY <1>5, <2>1, BaseSound
  <2>2. CASE Plain(f)
    BY <1>5, <2>2, PlainSound
  <2> QED
    BY <1>3, <2>1, <2>2
<1> QED
  BY <1>1, <1>3, <1>4, <1>5, <1>6, CalmStart

(* What the network, the timers and the switch do without starting a turn.   *)
LEMMA QuietKeeps ==
  ASSUME Before,
         \/ ManagerStart
         \/ \E r \in Requests : Identified(r)
         \/ \E p \in Peers : InboundMuxes(p) \/ InboundCloses(p) \/ InboundEnds(p) \/ DenyExpires(p)
  PROVE  After
<1>1. agenda = <<>> /\ UNCHANGED <<call, conn, attached, running, agenda>>
  BY DEF ManagerStart, Identified, InboundMuxes, InboundCloses, InboundEnds, DenyExpires,
         Quiet, requestVars, queueVars, connVars
<1> QED
  BY <1>1, CalmQuiet

-----------------------------------------------------------------------------
(* The steps that start or stop a queue and move no connection.             *)

(* A step that moves no connection: a queue that is at work was so before,   *)
(* and what attempts one has that is not have ended.                         *)
LEMMA SettledStep ==
  ASSUME Before, NEW new, NEW t, NEW late, Goes(new, t, late), Sound(new, t),
         UNCHANGED <<conn, attached>>,
         \A r \in Requests :
           \/ call'[r] = call[r]
           \/ call[r] = None /\ OnErrorF(r) \notin Elems(new) /\ DisconnectF(r, TRUE) \notin Elems(new),
         \A p \in Others : AbortF(p) \in Elems(t) /\ Denied(p) => Denied(p)',
         \A p \in Others : QueueRunF(p) \in Elems(t) /\ p \in running => p \in running',
         \A p \in Others : Busy(p)' => Busy(p),
         \A p \in Others : ~Busy(p)' => \A r \in Attempts(p) : Ended(p, r)'
  PROVE  After
<1>1. agenda \in Seq(Frames)
  BY DEF Before, TypeInv, TypeOK
<1>2. TypeInv /\ PlaceInv /\ FailInv /\ \A r \in Requests : call'[r] = call[r] \/ call[r] = None
  BY DEF Before, TurnOrder
<1>3. /\ \A p : Attempts(p)' = Attempts(p)
      /\ \A r : Active(r)' <=> Active(r)
      /\ \A p : \A r \in Of(p)' : r \in attached => r \in Of(p)
  BY <1>2, SameAttempts
<1>4. Elems(t) \subseteq Pending
  BY <1>1, GoesFacts
<1>5. Stays(new, t)
  <2>1. \A r \in Requests : call'[r] # call[r]
          => /\ call[r] = None
             /\ OnErrorF(r) \notin Elems(new) \cup Elems(t)
             /\ DisconnectF(r, TRUE) \notin Elems(new) \cup Elems(t)
    BY <1>2, <1>4, NotIssued
  <2> QED
    BY <1>3, <2>1 DEF Stays
<1>6. TurnOrder'
  BY <1>1, <1>5, OrderKept DEF Before
<1>7. SelfInv'
  BY <1>2, SelfStays
<1>8. ASSUME NEW p \in Others PROVE OneAttemptAt(p)'
  <2>1. OneAttemptAt(p)
    BY DEF Before, AttemptInv
  <2>2. \A r \in Of(p)' : Active(r)' /\ conn'[r] = "muxed" => Attempts(p) = {}
    BY <1>3, <2>1 DEF OneAttemptAt, Active
  <2>3. /\ Busy(p)' => Attempts(p) # {}
        /\ ~Busy(p)' => \A r \in Attempts(p) : Ended(p, r)'
    BY <2>1 DEF OneAttemptAt
  <2> QED
    BY <1>3, <2>1, <2>2, <2>3 DEF OneAttemptAt
<1> QED
  BY <1>6, <1>7, <1>8 DEF After, AttemptInv

(* A queue that is started runs next, and did not wait to. *)
LEMMA StartedKeeps ==
  ASSUME Before, NEW p \in Peers, p \notin running, running' = running \cup {p},
         NEW new, new = <<QueueRunF(p)>>, NEW t, NEW late, Goes(new, t, late),
         \A q : ~Top(QueueRunF(q)),
         UNCHANGED <<conn, attached>>,
         \A r \in Requests : call'[r] = call[r] \/ call[r] = None,
         \A q \in Others : Denied(q) => Denied(q)',
         \A q \in Others : \A r \in Attempts(q) : Ended(q, r) => Ended(q, r)'
  PROVE  After
<1>1. agenda \in Seq(Frames) /\ p \in Others => QueueRunF(p) \notin Elems(t)
  BY GoesFacts DEF Before, TurnOrder, ResumeInv
<1>2. agenda \in Seq(Frames)
  BY DEF Before, TypeInv, TypeOK
<1>3. PICK u : u = QueueRunF(p)
  OBVIOUS
<1>4. Elems(new) = {u} /\ \A f, g : ~Over(new, f, g)
  BY <1>3, PieceElems, OverPieces
<1>5. \A r, q : u # OnErrorF(r) /\ u # DisconnectF(r, TRUE) /\ u # AbortF(q)
  BY <1>3, FrameNames
<1>6. \A q : u = QueueRunF(q) <=> q = p
  BY <1>3, FramePeers
<1>7. Sound(new, t)
  <2>1. \A g \in Elems(t) : ~Clash(u, g)
    BY <1>1, <1>2, <1>3, ClashFacts
  <2>2. \A f : f # u => \A G : Followed(new, f, G)
    BY <1>4, FollowedFacts
  <2> QED
    BY <1>4, <1>5, <2>1, <2>2 DEF Sound
<1>8. ASSUME NEW q \in Others
      PROVE  (Busy(q)' => Busy(q)) /\ (Busy(q) => Busy(q)')
  <2>1. QueueRunF(q) \in Pending' <=> q = p \/ QueueRunF(q) \in Pending
    <3>1. Pending' = Elems(new) \cup Elems(t) \cup Elems(late) /\ Elems(t) \subseteq Pending
      BY <1>2, GoesFacts
    <3>2. QueueRunF(q) \in Pending' <=> QueueRunF(q) \in Elems(new) \/ QueueRunF(q) \in Elems(t)
      BY <1>2, GoesOn
    <3>3. QueueRunF(q) \in Pending => QueueRunF(q) \in Elems(t)
      BY <1>2, GoesOn
    <3> QED
      BY <1>4, <1>6, <3>1, <3>2, <3>3
  <2> QED
    BY <2>1 DEF Busy
<1>9. \A q \in Others : ~Busy(q)' => \A r \in Attempts(q) : Ended(q, r)'
  BY <1>8 DEF Before, AttemptInv, OneAttemptAt
<1>10. \A r \in Requests :
         \/ call'[r] = call[r]
         \/ call[r] = None /\ OnErrorF(r) \notin Elems(new) /\ DisconnectF(r, TRUE) \notin Elems(new)
  BY <1>4, <1>5
<1> QED
  BY <1>7, <1>8, <1>9, <1>10, SettledStep

(* A dial to a denied peer starts the queue of a connected one. *)
LEMMA DialDeniedKeeps ==
  ASSUME Before, NEW r \in Requests, DialDenied(r)
  PROVE  After
<1>1. PICK c : c = CallbackF(r, "denied")
  OBVIOUS
<1>2. c \in Frames /\ c.op = "callback"
  BY <1>1, FrameTypes, FrameNames DEF Answers
<1>3. /\ MayCall("dial") /\ call[r] = None /\ UNCHANGED <<conn, attached, queue, denylisted>>
      /\ \A s \in Requests : s # r => call'[s] = call[s]
  BY DEF DialDenied, connVars, Before, TypeInv, TypeOK
<1>4. CASE agenda' = Append(agenda, c) /\ running' = running
  BY <1>2, <1>3, <1>4, AnsweredKeeps
<1>5. ASSUME NEW p \in Peers, p \notin running, running' = running \cup {p},
             agenda' = <<QueueRunF(p)>> \o Append(agenda, c)
      PROVE  After
  <2>1. PICK f : Top(f) /\ f.op = "user"
    BY <1>3, UserTop
  <2>2. /\ ~Top(RunF) /\ \A q : ~Top(QueueRunF(q)) /\ ~Top(DeleteF(q))
        /\ \A s : ~Top(DisconnectF(s, TRUE))
    BY <2>1, OtherTops
  <2>3. PICK new : new = <<QueueRunF(p)>>
    OBVIOUS
  <2>4. new \in Seq(Frames) /\ agenda \in Seq(Frames)
    BY <2>3, FrameTypes, ShortTurns DEF Before, TypeInv, TypeOK
  <2>5. Goes(new, agenda, <<c>>)
    BY <1>2, <1>5, <2>2, <2>3, <2>4, Going
  <2>6. \A q : Denied(q) => Denied(q)'
    BY <1>3 DEF Denied
  <2>7. \A q, s : Ended(q, s) => Ended(q, s)'
    <3>1. \A q, s : Ended(q, s) => queue'[q] = <<>>
      BY <1>3 DEF Ended
    <3> QED
      BY <2>2, <2>4, <2>5, <2>6, <3>1, EndedStays
  <2>8. \A s \in Requests : call'[s] = call[s] \/ call[s] = None
    BY <1>3
  <2> QED
    BY <1>3, <1>5, <2>2, <2>3, <2>5, <2>6, <2>7, <2>8, StartedKeeps
<1>6. \/ agenda' = Append(agenda, c) /\ running' = running
      \/ \E p \in Peers : /\ p \notin running /\ running' = running \cup {p}
                          /\ agenda' = <<QueueRunF(p)>> \o Append(agenda, c)
  BY <1>1, PeerTypes DEF DialDenied, QueueStart
<1> QED
  BY <1>4, <1>5, <1>6

(* A request that is queued at a peer that may be dialed: none of its        *)
(* attempts has ended.                                                       *)
LEMMA DialQueuedKeeps ==
  ASSUME Before, NEW r \in Requests, DialQueued(r)
  PROVE  After
<1>1. PICK c \in Calls :
        /\ DialAllowed(c.peer)
        /\ denylisted' = [denylisted EXCEPT ![c.peer] = "null"]
        /\ queue' = [queue EXCEPT ![c.peer] = Append(@, r)]
        /\ IF c.peer \in connected
           THEN QueueStart(c.peer, agenda)
           ELSE agenda' = <<RunF>> \o agenda /\ UNCHANGED running
        /\ call' = [call EXCEPT ![r] = c]
  BY DEF DialQueued
<1>2. PICK p : p = c.peer
  OBVIOUS
<1>3. p \in Peers /\ ~Denied(p)
  BY <1>1, <1>2, PeerTypes DEF DialAllowed, Denied
<1>4. /\ MayCall("dial") /\ call[r] = None /\ UNCHANGED <<conn, attached>>
      /\ \A s \in Requests : s # r => call'[s] = call[s]
  BY <1>1 DEF DialQueued, connVars, Before, TypeInv, TypeOK
<1>5. PICK f : Top(f) /\ f.op = "user"
  BY <1>4, UserTop
<1>6. /\ ~Top(RunF) /\ \A q : ~Top(QueueRunF(q)) /\ ~Top(DeleteF(q))
      /\ \A s : ~Top(DisconnectF(s, TRUE))
  BY <1>5, OtherTops
<1>7. /\ \A s : ~Ended(p, s)
      /\ \A q, s : Ended(q, s) /\ q \in Peers => queue'[q] = <<>>
      /\ \A q \in Peers : Denied(q) => Denied(q)'
  <2>1. \A s : ~Ended(p, s)
    BY <1>3, <1>6 DEF Ended
  <2>2. \A q \in Peers : q # p => queue'[q] = queue[q] /\ denylisted'[q] = denylisted[q]
    BY <1>1, <1>2 DEF Before, TypeInv, TypeOK
  <2> QED
    BY <1>3, <2>1, <2>2 DEF Ended, Denied
<1>8. agenda \in Seq(Frames)
  BY DEF Before, TypeInv, TypeOK
<1>9. ASSUME NEW new, NEW t, NEW late, Goes(new, t, late)
      PROVE  \A q \in Others : \A s \in Attempts(q) : Ended(q, s) => Ended(q, s)'
  <2> SUFFICES ASSUME NEW q \in Others, NEW s, Ended(q, s) PROVE Ended(q, s)'
    OBVIOUS
  <2>1. q \in Peers /\ queue'[q] = <<>> /\ (Denied(q) => Denied(q)')
    BY <1>7 DEF Others
  <2> QED
    BY <1>6, <1>8, <1>9, <2>1, EndedStays
<1>10. CASE /\ p \notin running /\ running' = running \cup {p}
            /\ agenda' = <<QueueRunF(p)>> \o agenda
  <2>1. PICK new : new = <<QueueRunF(p)>>
    OBVIOUS
  <2>2. new \in Seq(Frames)
    BY <1>3, <2>1, FrameTypes, ShortTurns
  <2>3. Goes(new, agenda, <<>>)
    BY <1>6, <1>8, <1>10, <2>1, <2>2, Going
  <2>4. \A q \in Others : \A s \in Attempts(q) : Ended(q, s) => Ended(q, s)'
    BY <1>9, <2>3
  <2>5. /\ \A q \in Others : Denied(q) => Denied(q)'
        /\ \A s \in Requests : call'[s] = call[s] \/ call[s] = None
    BY <1>4, <1>7 DEF Others
  <2> QED
    BY <1>3, <1>4, <1>6, <1>10, <2>1, <2>3, <2>4, <2>5, StartedKeeps
<1>11. ASSUME running' = running, NEW new \in Seq(Frames), \A g \in Elems(new) : Plain(g),
              agenda' = new \o agenda
       PROVE  After
  <2>1. Goes(new, agenda, <<>>)
    BY <1>6, <1>8, <1>11, Going
  <2>2. /\ Sound(new, agenda) /\ \A q : QueueRunF(q) \notin Elems(new)
        /\ \A s : OnErrorF(s) \notin Elems(new) /\ DisconnectF(s, TRUE) \notin Elems(new)
    BY <1>11, PlainSound
  <2>3. \A q \in Others : /\ (\E s \in Attempts(q) : Ended(q, s)) => queue'[q] = <<>>
                          /\ Denied(q) => Denied(q)'
    BY <1>7 DEF Others
  <2> QED
    BY <1>4, <1>6, <1>11, <2>1, <2>2, <2>3, CalmStep
<1>12. CASE running' = running /\ agenda' = agenda
  <2>1. <<>> \o agenda = agenda /\ <<>> \in Seq(Frames)
    BY <1>8
  <2>2. PICK new : new = <<>>
    OBVIOUS
  <2>3. Elems(new) = {}
    BY <2>2, PieceElems
  <2> QED
    BY <1>11, <1>12, <2>1, <2>2, <2>3
<1>13. CASE running' = running /\ agenda' = <<RunF>> \o agenda
  <2>1. PICK f1, new : f1 = RunF /\ new = <<f1>>
    OBVIOUS
  <2>2. new \in Seq(Frames) /\ Elems(new) = {f1} /\ Plain(f1)
    BY <2>1, FrameTypes, ShortTurns, PieceElems, FrameOrders
  <2> QED
    BY <1>11, <1>13, <2>1, <2>2
<1>14. \/ /\ p \notin running /\ running' = running \cup {p}
          /\ agenda' = <<QueueRunF(p)>> \o agenda
       \/ running' = running /\ agenda' = agenda
       \/ running' = running /\ agenda' = <<RunF>> \o agenda
  <2>1. CASE p \in connected
    <3>1. QueueStart(p, agenda)
      BY <1>1, <1>2, <2>1
    <3> QED
      BY <3>1 DEF QueueStart
  <2>2. CASE p \notin connected
    BY <1>1, <1>2, <2>2
  <2> QED
    BY <2>1, <2>2
<1> QED
  BY <1>10, <1>12, <1>13, <1>14

(* The manager gives a slot to a queue that does not run, or to none.        *)
LEMMA RunKeeps ==
  ASSUME Before, Run
  PROVE  After
<1>1. /\ Top(RunF) /\ UNCHANGED <<call, conn, attached, queue, denylisted, mgrRunning>>
      /\ \A q : Denied(q)' <=> Denied(q)
  BY DEF Run, requestVars, connVars, Denied
<1>2. PICK f : f = RunF
  OBVIOUS
<1>3. /\ agenda \in Seq(Frames) /\ agenda # <<>> /\ Head(agenda) = f /\ f.op = "run"
      /\ Rest \in Seq(Frames) /\ Top(f)
  <2>1. Top(f) /\ f.op = "run"
    BY <1>1, <1>2, FrameNames
  <2> QED
    BY <2>1, TopOver DEF Before, TypeInv, TypeOK, Top
<1>4. /\ \A q : ~Top(QueueRunF(q)) /\ ~Top(DeleteF(q))
      /\ \A s : ~Top(DisconnectF(s, TRUE))
  BY <1>3, OtherTops
<1>5. ASSUME NEW new, NEW t, NEW late, Goes(new, t, late), NEW q, NEW s, Ended(q, s),
             mgrRunning \/ agenda' = Rest
      PROVE  Ended(q, s)'
  <2>1. queue'[q] = <<>>
    BY <1>1, <1>5 DEF Ended
  <2>2. CASE Denied(q) /\ (DisconnectF(s, TRUE) \in Pending \/ DeleteF(q) \in Pending)
    <3>1. DisconnectF(s, TRUE) \in Pending' \/ DeleteF(q) \in Pending'
      BY <1>3, <1>4, <1>5, <2>2, GoesOn
    <3> QED
      BY <1>1, <2>1, <2>2, <3>1 DEF Ended
  <2>3. CASE ~mgrRunning /\ Rest # <<>> /\ Head(Rest) = DeleteF(q)
    <3>1. Top(DeleteF(q))'
      BY <1>5, <2>3 DEF Top
    <3> QED
      BY <2>1, <3>1 DEF Ended
  <2> QED
    BY <1>4, <1>5, <2>2, <2>3 DEF Ended
<1>6. CASE agenda' = Rest /\ running' = running
  <2>1. PICK new : new = <<>>
    OBVIOUS
  <2>2. Goes(new, Rest, <<>>) /\ Elems(new) = {}
    BY <1>3, <1>6, <2>1, Going, PieceElems
  <2>3. Sound(new, Rest)
    BY <2>2, PlainSound
  <2>4. \A q : Busy(q)' <=> Busy(q)
    <3>1. \A q : QueueRunF(q) \in Pending' <=> QueueRunF(q) \in Pending
      <4>1. Elems(Rest) \subseteq Pending
        BY <1>3, PendingFacts
      <4> QED
        BY <1>3, <1>4, <2>2, <4>1, GoesOn
    <3> QED
      BY <1>6, <3>1 DEF Busy
  <2>5. \A q \in Others : ~Busy(q)' => \A s \in Attempts(q) : Ended(q, s)'
    <3>1. \A q, s : Ended(q, s) => Ended(q, s)'
      BY <1>5, <1>6, <2>2
    <3> QED
      BY <2>4, <3>1 DEF Before, AttemptInv, OneAttemptAt
  <2> QED
    BY <1>1, <1>6, <2>2, <2>3, <2>4, <2>5, SettledStep
<1>7. ASSUME NEW p \in Peers, p \notin running, running' = running \cup {p}, mgrRunning,
             agenda' = <<QueueRunF(p)>> \o Rest
      PROVE  After
  <2>1. PICK new : new = <<QueueRunF(p)>>
    OBVIOUS
  <2>2. new \in Seq(Frames)
    BY <2>1, FrameTypes, ShortTurns
  <2>3. Goes(new, Rest, <<>>)
    BY <1>3, <1>7, <2>1, <2>2, Going
  <2>4. \A q, s : Ended(q, s) => Ended(q, s)'
    BY <1>5, <1>7, <2>3
  <2> QED
    BY <1>1, <1>4, <1>7, <2>1, <2>3, <2>4, StartedKeeps
<1>8. \/ agenda' = Rest /\ running' = running
      \/ \E p \in Peers : /\ p \notin running /\ running' = running \cup {p} /\ mgrRunning
                          /\ agenda' = <<QueueRunF(p)>> \o Rest
  <2>1. queues \subseteq Peers
    BY DEF Before, TypeInv, TypeOK
  <2> QED
    BY <2>1 DEF Run, QueueStart
<1> QED
  BY <1>6, <1>7, <1>8

(* A queue that stops has no attempt but one that has ended. *)
LEMMA StoppedKeeps ==
  ASSUME Before, NEW p \in Peers, QueueStop(p, Rest),
         NEW f, Top(f), f = QueueRunF(p) \/ f = AbortF(p),
         UNCHANGED <<call, conn, attached, queue, denylisted>>,
         p \in Others => \A r \in Attempts(p) : Ended(p, r)'
  PROVE  After
<1>1. f.op \in {"_run", "abort"} /\ (p \in Others => About(p, f))
  BY FrameNames DEF About
<1>2. /\ ~Top(RunF) /\ \A q : ~Top(DeleteF(q))
      /\ \A s : ~Top(DisconnectF(s, TRUE))
  BY <1>1, OtherTops
<1>3. \A q : Denied(q)' <=> Denied(q)
  BY DEF Denied
<1>4. agenda \in Seq(Frames) /\ agenda # <<>> /\ Rest \in Seq(Frames)
  BY TopOver DEF Before, TypeInv, TypeOK, Top
<1>5. \A q : Top(QueueRunF(q)) => q = p
  <2>1. \A q : QueueRunF(q) = f => q = p
    BY FrameNames, FramePeers
  <2> QED
    BY <2>1 DEF Top
<1>6. p \in Others => QueueRunF(p) \notin Elems(Rest)
  <2>1. \A g \in Elems(Rest) : ~Clash(f, g)
    BY <1>4, TopOver DEF Before, TurnOrder, OrderInv
  <2> QED
    BY <1>1, <2>1 DEF Clash
<1>7. /\ p \notin running' /\ \A q : q # p => (q \in running' <=> q \in running)
      /\ agenda' = Rest \/ agenda' = <<RunF>> \o Rest
  BY DEF QueueStop
<1>8. PICK new : /\ new \in Seq(Frames) /\ Goes(new, Rest, <<>>)
                 /\ Elems(new) \subseteq {RunF}
  <2>1. CASE agenda' = Rest
    <3>1. PICK new : new = <<>>
      OBVIOUS
    <3>2. new \in Seq(Frames) /\ Goes(new, Rest, <<>>) /\ Elems(new) = {}
      BY <1>4, <2>1, <3>1, Going, ShortTurns, PieceElems
    <3> QED
      BY <3>2
  <2>2. CASE agenda' = <<RunF>> \o Rest
    <3>1. PICK f1, new : f1 = RunF /\ new = <<f1>>
      OBVIOUS
    <3>2. new \in Seq(Frames) /\ Elems(new) = {f1}
      BY <3>1, FrameTypes, ShortTurns, PieceElems
    <3>3. Goes(new, Rest, <<>>)
      BY <1>4, <2>2, <3>1, <3>2, Going
    <3> QED
      BY <3>1, <3>2, <3>3
  <2> QED
    BY <1>7, <2>1, <2>2
<1>9. \A g \in Elems(new) : Plain(g)
  BY <1>8, FrameOrders
<1>10. /\ Sound(new, Rest) /\ \A q : QueueRunF(q) \notin Elems(new)
       /\ \A s : OnErrorF(s) \notin Elems(new) /\ DisconnectF(s, TRUE) \notin Elems(new)
  BY <1>9, PlainSound
<1>11. ASSUME NEW q \in Others, q # p PROVE Busy(q)' <=> Busy(q)
  <2>1. QueueRunF(q) \in Pending' <=> QueueRunF(q) \in Pending
    <3>1. Elems(Rest) \subseteq Pending
      BY <1>4, PendingFacts
    <3> QED
      BY <1>4, <1>5, <1>8, <1>10, <1>11, <3>1, GoesOn
  <2> QED
    BY <1>7, <1>11, <2>1 DEF Busy
<1>12. ~Busy(p)'
  BY <1>7 DEF Busy
<1>13. ASSUME NEW q \in Others, ~Busy(q)', NEW r \in Attempts(q) PROVE Ended(q, r)'
  <2>1. CASE q = p
    BY <1>13, <2>1
  <2>2. CASE q # p
    <3>1. Ended(q, r)
      BY <1>11, <1>13, <2>2 DEF Before, AttemptInv, OneAttemptAt
    <3>2. queue'[q] = <<>>
      BY <3>1 DEF Ended
    <3> QED
      BY <1>2, <1>3, <1>4, <1>8, <3>1, <3>2, EndedStays
  <2> QED
    BY <2>1, <2>2
<1>14. \A q \in Others : QueueRunF(q) \in Elems(Rest) /\ q \in running => q \in running'
  BY <1>6, <1>7
<1>15. \A q \in Others : Busy(q)' => Busy(q)
  BY <1>11, <1>12
<1> QED
  BY <1>3, <1>8, <1>10, <1>13, <1>14, <1>15, SettledStep

(* A queue with nothing to do stops: it was not at work. *)
LEMMA QueueRunStopsKeeps ==
  ASSUME Before, NEW p \in Peers, QueueRunStops(p)
  PROVE  After
<1>1. PICK f : f = QueueRunF(p)
  OBVIOUS
<1>2. /\ Top(f) /\ QueueStop(p, Rest)
      /\ UNCHANGED <<call, conn, attached, queue, denylisted>>
  BY <1>1 DEF QueueRunStops, requestVars, connVars
<1>3. ASSUME p \in Others, NEW r \in Attempts(p) PROVE Ended(p, r)'
  <2>1. agenda \in Seq(Frames) /\ agenda # <<>> /\ Rest \in Seq(Frames) /\ f \in Pending
    BY <1>2, TopOver DEF Before, TypeInv, TypeOK, Top
  <2>2. Ended(p, r)
    BY <1>1, <1>3, <2>1 DEF Busy, Before, AttemptInv, OneAttemptAt
  <2>3. f.op = "_run"
    BY <1>1, FrameNames
  <2>4. ~Top(RunF) /\ ~Top(DeleteF(p)) /\ ~Top(DisconnectF(r, TRUE))
    BY <1>2, <2>3, OtherTops
  <2>5. PICK new : Goes(new, Rest, <<>>)
    <3>1. <<RunF>> \in Seq(Frames) /\ (agenda' = Rest \/ agenda' = <<RunF>> \o Rest)
      BY <1>2, FrameTypes, ShortTurns DEF QueueStop
    <3> QED
      BY <2>1, <3>1, Going
  <2>6. queue'[p] = <<>> /\ (Denied(p) => Denied(p)')
    BY <1>2, <2>2 DEF Ended, Denied
  <2> QED
    BY <2>1, <2>2, <2>4, <2>5, <2>6, EndedStays
<1> QED
  BY <1>1, <1>2, <1>3, StoppedKeeps

(* An aborted queue stops: what ends its attempt is next.                    *)
LEMMA AbortEndsKeeps ==
  ASSUME Before, NEW p \in Peers, AbortEnds(p)
  PROVE  After
<1>1. PICK f : f = AbortF(p)
  OBVIOUS
<1>2. /\ Top(f) /\ QueueStop(p, Rest) /\ queue'[p] = <<>>
      /\ UNCHANGED <<call, conn, attached, queue, denylisted, mgrRunning>>
  BY <1>1 DEF AbortEnds, requestVars, connVars
<1>3. /\ agenda \in Seq(Frames) /\ agenda # <<>> /\ Rest \in Seq(Frames) /\ Head(agenda) = f
      /\ Pending = {f} \cup Elems(Rest)
  BY <1>2, TopOver DEF Before, TypeInv, TypeOK, Top
<1>4. ASSUME p \in Others, NEW r \in Attempts(p) PROVE Ended(p, r)'
  <2>1. Rest # <<>> /\ Head(Rest) \in AbortedBy(p)
    <3>1. PICK G : G = AbortedBy(p)
      OBVIOUS
    <3>2. Followed(agenda, f, G)
      BY <1>1, <1>4, <3>1 DEF Before, TurnOrder, AbortInv
    <3>3. Head(agenda) = f => Tail(agenda) # <<>> /\ Head(Tail(agenda)) \in G
      BY <1>3, <3>2, FollowedRest
    <3> QED
      BY <1>3, <3>1, <3>3 DEF Rest
  <2>2. Head(Rest) \in Elems(Rest)
    BY <1>3, <2>1, RestElems
  <2>3. Head(Rest) \in Pending'
    <3>1. \/ agenda' = Rest
          \/ agenda' = <<RunF>> \o Rest
      BY <1>2 DEF QueueStop
    <3>2. <<RunF>> \in Seq(Frames)
      BY FrameTypes, ShortTurns
    <3> QED
      BY <1>3, <2>2, <3>1, <3>2, PendingFacts DEF Pending
  <2>4. CASE Head(Rest) = DeleteF(p)
    <3>1. CASE p \notin running
      <4>1. agenda' = Rest
        BY <1>2, <3>1 DEF QueueStop
      <4> QED
        BY <1>2, <2>1, <2>4, <4>1 DEF Ended, Top
    <3>2. CASE p \in running
      <4>1. agenda' = <<RunF>> \o Rest
        BY <1>2, <3>2 DEF QueueStop
      <4>2. 2 \in DOMAIN agenda /\ agenda[2] = DeleteF(p) /\ agenda[1] = f
        <5>1. Len(agenda) > 1 /\ agenda[2] = Head(Tail(agenda)) /\ agenda[1] = Head(agenda)
          BY <1>3, <2>1 DEF Rest
        <5> QED
          BY <1>3, <2>4, <5>1 DEF Rest
      <4>3. Aborts(p, 2) \/ Drained(p, 2)
        BY <4>2 DEF Before, DropInv
      <4>4. ~Woken(p, 2)
        <5>1. QueueRunF(p) # f
          BY <1>1, FrameNames
        <5> QED
          BY <4>2, <5>1 DEF Woken
      <4>5. Denied(p) \/ ~mgrRunning
        BY <3>2, <4>3, <4>4 DEF Aborts, Drained, Idle
      <4>6. CASE Denied(p)
        <5>1. Denied(p)'
          BY <1>2, <4>6 DEF Denied
        <5> QED
          BY <1>2, <2>3, <2>4, <5>1 DEF Ended
      <4>7. CASE ~mgrRunning
        <5>1. agenda' # <<>> /\ Head(agenda') = RunF /\ Tail(agenda') = Rest
          BY <1>3, <4>1, FrameTypes
        <5>2. Top(RunF)' /\ Rest' # <<>> /\ Head(Rest)' = DeleteF(p)
          BY <2>1, <2>4, <5>1 DEF Top, Rest
        <5> QED
          BY <1>2, <4>7, <5>2 DEF Ended
      <4> QED
        BY <4>5, <4>6, <4>7
    <3> QED
      BY <3>1, <3>2
  <2>5. ASSUME NEW s \in Of(p), Denied(p), Active(s), Head(Rest) = DisconnectF(s, TRUE)
        PROVE  Ended(p, r)'
    <3>1. OneAttemptAt(p)
      BY <1>4 DEF Before, AttemptInv
    <3>2. s = r
      <4>1. CASE conn[s] = "muxed"
        BY <1>4, <2>5, <3>1, <4>1 DEF OneAttemptAt
      <4>2. CASE conn[s] # "muxed"
        <5>1. s \in Attempts(p)
          BY <2>5, <4>2 DEF Attempts, Active, Unfinished
        <5> QED
          BY <1>4, <3>1, <5>1 DEF OneAttemptAt
      <4> QED
        BY <4>1, <4>2
    <3>3. Denied(p)'
      BY <1>2, <2>5 DEF Denied
    <3> QED
      BY <1>2, <2>3, <2>5, <3>2, <3>3 DEF Ended
  <2> QED
    BY <2>1, <2>4, <2>5 DEF AbortedBy
<1> QED
  BY <1>1, <1>2, <1>4, StoppedKeeps

-----------------------------------------------------------------------------
(* The steps of a queue that takes up a request.                            *)

(* A peer none of whose attempts change keeps the one it has. *)
LEMMA OneKept ==
  ASSUME agenda \in Seq(Frames), NEW new, NEW t, NEW late, Goes(new, t, late),
         NEW q, OneAttemptAt(q), UNCHANGED call, Attempts(q)' = Attempts(q),
         \A s \in Of(q) : Active(s)' /\ conn'[s] = "muxed" => Active(s) /\ conn[s] = "muxed",
         q \in running' <=> q \in running,
         QueueRunF(q) \notin Elems(new), ~Top(QueueRunF(q)),
         \A s \in Attempts(q) : Ended(q, s) => Ended(q, s)'
  PROVE  OneAttemptAt(q)'
<1>1. QueueRunF(q) \in Pending' <=> QueueRunF(q) \in Pending
  <2>1. Elems(t) \subseteq Pending
    BY GoesFacts
  <2> QED
    BY <2>1, GoesOn
<1>2. Busy(q)' <=> Busy(q)
  BY <1>1 DEF Busy
<1>3. Of(q)' = Of(q)
  BY DEF Of, PeerOf
<1> QED
  BY <1>2, <1>3 DEF OneAttemptAt

(* What a step does to one request is nothing to another peer. *)
LEMMA OtherAttempts ==
  ASSUME UNCHANGED call, NEW r, NEW q, r \notin Of(q),
         \A s \in Requests : s # r => conn'[s] = conn[s] /\ (s \in attached' <=> s \in attached)
  PROVE  /\ Attempts(q)' = Attempts(q)
         /\ \A s \in Of(q) : (Active(s)' <=> Active(s)) /\ conn'[s] = conn[s]
<1>1. Of(q)' = Of(q) /\ \A s \in Of(q) : s \in Requests /\ s # r
  BY DEF Of, PeerOf
<1>2. \A s \in Of(q) : (Active(s)' <=> Active(s)) /\ conn'[s] = conn[s] /\ (Unfinished(s)' <=> Unfinished(s))
  BY <1>1 DEF Active, Unfinished
<1> QED
  BY <1>1, <1>2 DEF Attempts

(* The queue that runs next is not at work: if it has requests it has no     *)
(* attempt, and it is not resumed again.                                     *)
LEMMA RunsNextFacts ==
  ASSUME Before, NEW p \in Peers, Top(QueueRunF(p)), queue[p] # <<>>
  PROVE  /\ agenda \in Seq(Frames) /\ agenda # <<>> /\ Rest \in Seq(Frames)
         /\ p \in Others => Attempts(p) = {} /\ QueueRunF(p) \notin Elems(Rest)
         /\ ~Top(RunF) /\ \A q : ~Top(DeleteF(q))
         /\ \A s : ~Top(DisconnectF(s, TRUE))
         /\ \A q : Top(QueueRunF(q)) => q = p
         /\ LET r == Head(queue[p])
            IN  /\ r \in Requests /\ r \in Of(p) /\ conn[r] = "none"
                /\ DisconnectF(r, TRUE) \notin Pending
         /\ Elems(Rest) \subseteq Pending
<1>1. PICK f : f = QueueRunF(p)
  OBVIOUS
<1>2. /\ agenda \in Seq(Frames) /\ agenda # <<>> /\ Rest \in Seq(Frames) /\ f \in Pending
      /\ Elems(Rest) \subseteq Pending
  BY <1>1, TopOver DEF Before, TypeInv, TypeOK, Top
<1>3. f.op = "_run" /\ Top(f)
  BY <1>1, FrameNames
<1>4. ~Top(RunF) /\ (\A q : ~Top(DeleteF(q))) /\ \A s : ~Top(DisconnectF(s, TRUE))
  BY <1>3, OtherTops
<1>5. ASSUME p \in Others PROVE Attempts(p) = {} /\ QueueRunF(p) \notin Elems(Rest)
  <2>1. \A r : ~Ended(p, r)
    BY DEF Ended
  <2>2. Attempts(p) = {}
    BY <1>1, <1>2, <1>5, <2>1 DEF Busy, Before, AttemptInv, OneAttemptAt
  <2>3. About(p, f)
    BY <1>1 DEF About
  <2>4. \A g \in Elems(Rest) : ~Clash(f, g)
    BY <1>2, <1>3, TopOver DEF Before, TurnOrder, OrderInv
  <2> QED
    BY <1>5, <2>2, <2>3, <2>4 DEF Clash
<1>6. \A q : Top(QueueRunF(q)) => q = p
  BY FramePeers DEF Top
<1>7. PICK r : r = Head(queue[p])
  OBVIOUS
<1>8. r \in Requests /\ r \in Of(p) /\ conn[r] = "none"
  <2>1. queue[p] \in Seq(Requests)
    BY DEF Before, TypeInv, TypeOK
  <2>2. Head(queue[p]) \in Elems(queue[p])
    BY <2>1, RestElems
  <2> QED
    BY <1>7, <2>2 DEF Before, PlaceInv, QueuesHold, Of
<1>9. DisconnectF(r, TRUE) \notin Pending
  <2>1. PICK d : d = DisconnectF(r, TRUE)
    OBVIOUS
  <2>2. r \in Subjects(d)
    <3>1. Subjects(DisconnectF(r, TRUE)) = {r}
      BY FrameSubjects
    <3> QED
      BY <2>1, <3>1
  <2> QED
    BY <1>8, <2>1, <2>2 DEF Before, PlaceInv, SubjectsHold
<1> QED
  BY <1>2, <1>4, <1>5, <1>6, <1>7, <1>8, <1>9

(* What a queue answers at the end of the turn, and at once. *)
LEMMA TickPieces ==
  ASSUME NEW r \in Requests
  PROVE  /\ FSMTick(r) \in Seq(Frames) /\ \A f \in Elems(FSMTick(r)) : f.op = "callback"
         /\ ProtocolCallback(r) = <<>> \/ ProtocolCallback(r) = <<CallbackF(r, "ok")>>
<1>1. PICK c : c = CallbackF(r, "fsm")
  OBVIOUS
<1>2. c \in Frames /\ c.op = "callback"
  BY <1>1, FrameTypes, FrameNames DEF Answers
<1>3. PICK u : u = FSMTick(r)
  OBVIOUS
<1>4. u = <<>> \/ u = <<c>>
  BY <1>1, <1>3 DEF FSMTick
<1>5. u \in Seq(Frames) /\ \A f \in Elems(u) : f = c
  <2>1. CASE u = <<>>
    BY <2>1, ShortTurns, PieceElems
  <2>2. CASE u = <<c>>
    BY <1>2, <2>2, ShortTurns, PieceElems
  <2> QED
    BY <1>4, <2>1, <2>2
<1> QED
  BY <1>2, <1>3, <1>5 DEF ProtocolCallback

(* A request taken up over a muxed connection makes no attempt. *)
LEMMA QueueRunReusesKeeps ==
  ASSUME Before, NEW p \in Peers, QueueRunReuses(p)
  PROVE  After
<1>1. PICK r : r = Head(queue[p])
  OBVIOUS
<1>2. /\ Top(QueueRunF(p)) /\ queue[p] # <<>> /\ p \in running
      /\ queue' = [queue EXCEPT ![p] = Tail(@)]
      /\ agenda' = ProtocolCallback(r) \o <<QueueRunF(p)>> \o Rest \o FSMTick(r)
      /\ UNCHANGED <<call, conn, attached, running, denylisted>>
  BY <1>1 DEF QueueRunReuses, connVars
<1>3. /\ agenda \in Seq(Frames) /\ agenda # <<>> /\ Rest \in Seq(Frames)
      /\ p \in Others => Attempts(p) = {} /\ QueueRunF(p) \notin Elems(Rest)
      /\ ~Top(RunF) /\ \A q : ~Top(DeleteF(q))
      /\ \A s : ~Top(DisconnectF(s, TRUE))
      /\ \A q : Top(QueueRunF(q)) => q = p
      /\ r \in Requests /\ Elems(Rest) \subseteq Pending
  BY <1>1, <1>2, RunsNextFacts
<1>4. PICK c, u, new, late : /\ c = CallbackF(r, "ok") /\ u = QueueRunF(p)
                             /\ new = ProtocolCallback(r) \o <<u>> /\ late = FSMTick(r)
  OBVIOUS
<1>5. /\ c \in Frames /\ u \in Frames /\ c.op = "callback" /\ Plain(c) /\ u.op = "_run"
      /\ late \in Seq(Frames) /\ \A f \in Elems(late) : f.op = "callback"
  BY <1>3, <1>4, FrameTypes, FrameNames, FrameOrders, TickPieces DEF Answers
<1>6. PICK k, v : k = ProtocolCallback(r) /\ v = <<u>>
  OBVIOUS
<1>7. /\ k \in Seq(Frames) /\ Elems(k) \subseteq {c} /\ \A f, g : ~Over(k, f, g)
      /\ v \in Seq(Frames) /\ Elems(v) = {u} /\ \A f, g : ~Over(v, f, g)
  <2>1. ASSUME NEW w, NEW a \in Frames, w = <<a>>
        PROVE  w \in Seq(Frames) /\ Elems(w) = {a} /\ \A f, g : ~Over(w, f, g)
    BY <2>1, ShortTurns, PieceElems, OverPieces
  <2>2. ASSUME NEW w, w = <<>>
        PROVE  w \in Seq(Frames) /\ Elems(w) = {} /\ \A f, g : ~Over(w, f, g)
    BY <2>2, ShortTurns, PieceElems, OverPieces
  <2>3. k = <<>> \/ k = <<c>>
    BY <1>3, <1>4, <1>6, TickPieces
  <2> QED
    BY <1>5, <1>6, <2>1, <2>2, <2>3
<1>8. /\ new \in Seq(Frames) /\ Elems(new) \subseteq {c, u} /\ u \in Elems(new)
      /\ \A f, g : Over(new, f, g) => f = c /\ g = u
  <2>1. new = k \o v
    BY <1>4, <1>6
  <2>2. new \in Seq(Frames)
    BY <1>7, <2>1, Pushing
  <2>3. Elems(k \o v) = Elems(k) \cup Elems(v)
    BY ONLY <1>7, JoinElems
  <2>4. ASSUME NEW f, NEW g, Over(k \o v, f, g) PROVE f \in Elems(k) /\ g \in Elems(v)
    BY <1>7, <2>4, OverJoin
  <2> QED
    BY <1>7, <2>1, <2>2, <2>3, <2>4
<1>9. Goes(new, Rest, late)
  <2>1. agenda' = (new \o Rest) \o late
    BY <1>2, <1>4
  <2> QED
    BY <1>3, <1>5, <1>8, <2>1, Going
<1>10. Attempts(p)' = Attempts(p) /\ \A q : Attempts(q)' = Attempts(q)
  BY <1>2, SameAttempts DEF Before, TurnOrder
<1>11. Sound(new, Rest)
  <2>1. \A g \in Elems(Rest) : ~Clash(c, g) /\ ~Clash(u, g)
    BY <1>3, <1>4, <1>5, ClashFacts
  <2>2. ~Clash(c, u)
    BY <1>5, ClashFacts
  <2>3. \A f, g : Over(new, f, g) \/ (f \in Elems(new) /\ g \in Elems(Rest)) => ~Clash(f, g)
    BY <1>8, <2>1, <2>2
  <2>4. \A s : OnErrorF(s) \notin Elems(new) /\ AbortF(s) \notin Elems(new)
    <3>1. \A s : OnErrorF(s).op = "onError" /\ AbortF(s).op = "abort"
      BY FrameNames
    <3> QED
      BY <1>5, <1>8, <3>1
  <2>5. \A s, G : Followed(new, OnErrorF(s), G) /\ Followed(new, AbortF(s), G)
    BY <2>4, FollowedFacts
  <2>6. \A q \in Others : \A f : Over(new, f, QueueRunF(q)) => q \in running' /\ Attempts(q)' = {}
    BY <1>2, <1>3, <1>4, <1>8, <1>10, FramePeers
  <2> QED
    BY <2>3, <2>4, <2>5, <2>6 DEF Sound
<1>12. ASSUME NEW q \in Others
       PROVE  /\ Busy(q)' => Busy(q)
              /\ ~Busy(q)' => \A s \in Attempts(q) : Ended(q, s)'
  <2>1. CASE q = p
    <3>1. QueueRunF(p) \in Pending'
      BY <1>3, <1>4, <1>8, <1>9, GoesOn
    <3> QED
      BY <1>3, <1>12, <2>1, <3>1 DEF Busy
  <2>2. CASE q # p
    <3>1. QueueRunF(q) \notin Elems(new) /\ ~Top(QueueRunF(q))
      BY <1>3, <1>4, <1>5, <1>8, <2>2, FrameNames, FramePeers
    <3>2. QueueRunF(q) \in Pending' <=> QueueRunF(q) \in Pending
      BY <1>3, <1>9, <3>1, GoesOn
    <3>3. Busy(q)' <=> Busy(q)
      BY <1>2, <3>2 DEF Busy
    <3>4. ASSUME NEW s, Ended(q, s) PROVE Ended(q, s)'
      <4>1. queue'[q] = <<>> /\ (Denied(q) => Denied(q)')
        BY <1>2, <2>2, <3>4 DEF Ended, Denied, Others, Before, TypeInv, TypeOK
      <4> QED
        BY <1>3, <1>9, <3>4, <4>1, EndedStays
    <3> QED
      BY <3>3, <3>4 DEF Before, AttemptInv, OneAttemptAt
  <2> QED
    BY <2>1, <2>2
<1>13. \A q : Denied(q) => Denied(q)'
  BY <1>2 DEF Denied
<1> QED
  BY <1>2, <1>9, <1>11, <1>12, <1>13, SettledStep

(* A new attempt: the queue is at work from here, unless it dials our own    *)
(* id.                                                                       *)
LEMMA QueueRunCreatesKeeps ==
  ASSUME Before, NEW p \in Peers, QueueRunCreates(p)
  PROVE  After
<1>1. PICK r : r = Head(queue[p])
  OBVIOUS
<1>2. /\ Top(QueueRunF(p)) /\ queue[p] # <<>> /\ p \in running /\ ~HasMuxed(p)
      /\ queue' = [queue EXCEPT ![p] = Tail(@)]
      /\ conn' = [conn EXCEPT ![r] = IF p = Self THEN "idle" ELSE "dialing"]
      /\ attached' = attached \cup {r}
      /\ UNCHANGED <<call, running, denylisted>>
  BY <1>1 DEF QueueRunCreates, requestVars
<1>3. PICK now :
        /\ agenda' = now \o Rest \o FSMTick(r)
        /\ IF p = Self THEN now = <<CallbackF(r, "error"), OnErrorF(r)>>
           ELSE now \in {<<>>, <<CallbackF(r, "error"), OnErrorF(r), DisconnectF(r, TRUE)>>}
  BY <1>1 DEF QueueRunCreates
<1>4. /\ agenda \in Seq(Frames) /\ agenda # <<>> /\ Rest \in Seq(Frames)
      /\ p \in Others => Attempts(p) = {} /\ QueueRunF(p) \notin Elems(Rest)
      /\ ~Top(RunF) /\ \A q : ~Top(DeleteF(q))
      /\ \A s : ~Top(DisconnectF(s, TRUE))
      /\ \A q : Top(QueueRunF(q)) => q = p
      /\ r \in Requests /\ r \in Of(p) /\ conn[r] = "none"
      /\ DisconnectF(r, TRUE) \notin Pending /\ Elems(Rest) \subseteq Pending
  BY <1>1, <1>2, RunsNextFacts
<1>5. /\ PeerOf(r) = p
      /\ r \in attached' /\ conn'[r] = (IF p = Self THEN "idle" ELSE "dialing")
      /\ \A s \in Requests : s # r => conn'[s] = conn[s] /\ (s \in attached' <=> s \in attached)
  BY <1>2, <1>4 DEF Of, Before, TypeInv, TypeOK
<1>6. PICK late : late = FSMTick(r)
  OBVIOUS
<1>7. late \in Seq(Frames) /\ \A f \in Elems(late) : f.op = "callback"
  BY <1>4, <1>6, TickPieces
<1>8. now \in Seq(Frames)
  <2>1. CallbackF(r, "error") \in Frames /\ OnErrorF(r) \in Frames /\ DisconnectF(r, TRUE) \in Frames
    BY <1>4, FrameTypes DEF Answers
  <2> QED
    BY <1>3, <2>1, ShortTurns
<1>9. Goes(now, Rest, late)
  <2>1. agenda' = (now \o Rest) \o late
    BY <1>3, <1>6
  <2> QED
    BY <1>4, <1>7, <1>8, <2>1, Going
<1>10. p \in Others <=> p # Self
  BY DEF Others
<1>11. /\ DisconnectF(r, TRUE) \notin Elems(Rest)
       /\ PeerOf(r) \in Others => QueueRunF(PeerOf(r)) \notin Elems(Rest)
       /\ conn'[r] # "none"
       /\ PeerOf(r) \in Others /\ r \in attached' => Active(r)'
  BY <1>4, <1>5, <1>10 DEF Active
<1>12. Sound(now, Rest) /\ \A q : QueueRunF(q) \notin Elems(now)
  <2>1. PICK t : t = Rest
    OBVIOUS
  <2>2. TypeInv
    BY DEF Before
  <2>3. CASE now = <<>>
    <3>1. Elems(now) = {}
      BY <2>3, PieceElems
    <3> QED
      BY <3>1, PlainSound
  <2>4. CASE now = <<CallbackF(r, "error"), OnErrorF(r), DisconnectF(r, TRUE)>>
    BY <1>4, <1>11, <2>1, <2>2, <2>4, FailureSound
  <2>5. CASE p = Self /\ now = <<CallbackF(r, "error"), OnErrorF(r)>>
    BY <1>4, <1>5, <1>11, <2>1, <2>2, <2>5, FailureSound
  <2> QED
    BY <1>3, <2>3, <2>4, <2>5
<1>13. ASSUME NEW q \in Others, q # p
       PROVE  /\ Attempts(q)' = Attempts(q)
              /\ \A s \in Of(q) : (Active(s)' <=> Active(s)) /\ conn'[s] = conn[s]
  <2>1. r \notin Of(q)
    BY <1>5, <1>13 DEF Of
  <2> QED
    BY <1>2, <1>5, <2>1, OtherAttempts
<1>14. \A q : Denied(q)' <=> Denied(q)
  BY <1>2 DEF Denied
<1>15. Stays(now, Rest)
  <2>1. \A s \in Requests : Active(s) => Active(s)'
    BY <1>4, <1>5 DEF Active
  <2>2. \A s \in Requests : conn[s] # "none" => conn'[s] # "none"
    BY <1>4, <1>5
  <2>3. ASSUME NEW q \in Others, NEW s \in Of(q), s \in attached'
        PROVE  s \in attached \/ Active(s)'
    BY <1>5, <1>10, <2>3 DEF Of, Active
  <2>4. \A q \in Others : QueueRunF(q) \in Elems(Rest) /\ q \in running /\ Attempts(q) = {}
          => q \in running' /\ Attempts(q)' = {}
    BY <1>2, <1>4, <1>13
  <2> QED
    BY <1>2, <1>14, <2>1, <2>2, <2>3, <2>4 DEF Stays
<1>16. TurnOrder'
  BY <1>4, <1>9, <1>12, <1>15, OrderKept DEF Before
<1>17. SelfInv'
  <2>1. ASSUME NEW s \in Requests, conn'[s] = "idle" PROVE PeerOf(s)' = Self
    BY <1>2, <1>5, <2>1 DEF Before, AttemptInv, SelfInv, PeerOf
  <2>2. ASSUME NEW s \in Of(Self)' PROVE ~Unfinished(s)'
    <3>1. s \in Of(Self) /\ s \in Requests
      BY <1>2, <2>2 DEF Of, PeerOf
    <3> QED
      BY <1>5, <3>1 DEF Before, AttemptInv, SelfInv, Unfinished, Of
  <2> QED
    BY <2>1, <2>2 DEF SelfInv
<1>18. ASSUME NEW q \in Others PROVE OneAttemptAt(q)'
  <2>1. OneAttemptAt(q)
    BY DEF Before, AttemptInv
  <2>2. CASE q = p
    <3>1. /\ p # Self /\ Of(q)' = Of(q) /\ Attempts(q) = {}
          /\ QueueRunF(q) \notin Elems(Rest)
      BY <1>2, <1>4, <1>10, <2>2 DEF Of, PeerOf
    <3>2. Attempts(q)' = {r}
      <4>1. r \in Attempts(q)'
        BY <1>4, <1>5, <2>2, <3>1 DEF Attempts, Unfinished
      <4>2. ASSUME NEW s \in Attempts(q)', s # r PROVE FALSE
        <5>1. s \in Attempts(q)
          BY <1>5, <3>1, <4>2 DEF Attempts, Unfinished, Of
        <5> QED
          BY <3>1, <5>1
      <4> QED
        BY <4>1, <4>2
    <3>3. QueueRunF(q) \notin Pending'
      BY <1>4, <1>9, <1>12, <3>1, GoesOn
    <3>4. Busy(q)'
      BY <1>2, <2>2, <3>3 DEF Busy
    <3>5. ASSUME NEW s \in Of(q)', conn'[s] = "muxed" PROVE FALSE
      <4>1. s \in Of(q) /\ s \in Requests /\ s # r
        BY <1>5, <3>1, <3>5 DEF Of
      <4>2. conn[s] = "muxed"
        BY <1>5, <3>5, <4>1
      <4> QED
        BY <1>2, <2>2, <4>1, <4>2 DEF HasMuxed
    <3> QED
      BY <3>2, <3>4, <3>5 DEF OneAttemptAt
  <2>3. CASE q # p
    <3>1. ASSUME NEW s, Ended(q, s) PROVE Ended(q, s)'
      <4>1. queue'[q] = <<>> /\ (Denied(q) => Denied(q)')
        BY <1>2, <1>14, <2>3, <3>1 DEF Ended, Others, Before, TypeInv, TypeOK
      <4> QED
        BY <1>4, <1>9, <3>1, <4>1, EndedStays
    <3>2. q \in running' <=> q \in running
      BY <1>2
    <3>3. QueueRunF(q) \notin Elems(now) /\ ~Top(QueueRunF(q))
      BY <1>4, <1>12, <2>3
    <3> QED
      BY <1>2, <1>4, <1>9, <1>13, <2>1, <2>3, <3>1, <3>2, <3>3, OneKept
  <2> QED
    BY <2>2, <2>3
<1> QED
  BY <1>16, <1>17, <1>18 DEF After, AttemptInv

-----------------------------------------------------------------------------
(* The steps that close a connection or drop a Queue object.                *)

(* A connection is closed once in a turn, and its queue is not to be resumed *)
(* later in it.                                                              *)
LEMMA ClosedOnce ==
  ASSUME Before, NEW r \in Requests, NEW b \in BOOLEAN, Top(DisconnectF(r, b))
  PROVE  /\ agenda \in Seq(Frames) /\ agenda # <<>> /\ Rest \in Seq(Frames)
         /\ Elems(Rest) \subseteq Pending
         /\ DisconnectF(r, TRUE) \notin Elems(Rest)
         /\ PeerOf(r) \in Others => QueueRunF(PeerOf(r)) \notin Elems(Rest)
         /\ conn[r] # "none" /\ r \in Of(PeerOf(r)) /\ PeerOf(r) \in Peers
         /\ ~Top(RunF) /\ \A q : ~Top(DeleteF(q)) /\ ~Top(QueueRunF(q))
         /\ \A s : s # r => ~Top(DisconnectF(s, TRUE))
<1>1. PICK f : f = DisconnectF(r, b)
  OBVIOUS
<1>2. /\ agenda \in Seq(Frames) /\ agenda # <<>> /\ Rest \in Seq(Frames) /\ f \in Pending
      /\ Elems(Rest) \subseteq Pending
  BY <1>1, TopOver DEF Before, TypeInv, TypeOK, Top
<1>3. f.op = "disconnect" /\ Top(f)
  BY <1>1, FrameNames
<1>4. ~Top(RunF) /\ \A q : ~Top(DeleteF(q)) /\ ~Top(QueueRunF(q))
  BY <1>3, OtherTops
<1>5. \A s : s # r => ~Top(DisconnectF(s, TRUE))
  BY FrameRequests DEF Top
<1>6. conn[r] # "none" /\ r \in Of(PeerOf(r)) /\ PeerOf(r) \in Peers
  <2>1. Subjects(f) = {r}
    BY <1>1, FrameSubjects
  <2>2. conn[r] # "none"
    BY <1>2, <2>1 DEF Before, PlaceInv, SubjectsHold
  <2>3. call[r] # None
    BY <2>2 DEF Before, PlaceInv, PlacesHold
  <2>4. r \in Issued
    BY <2>3 DEF Issued, Before, TypeInv, TypeOK
  <2> QED
    BY <2>2, <2>3, <2>4, PeerTypes DEF Of
<1>7. PICK d, u : d = DisconnectF(r, TRUE) /\ u = QueueRunF(PeerOf(r))
  OBVIOUS
<1>8. d \notin Elems(Rest) /\ (PeerOf(r) \in Others => u \notin Elems(Rest))
  <2>1. \A g \in Elems(Rest) : ~Clash(f, g)
    BY <1>2, <1>3, TopOver DEF Before, TurnOrder, OrderInv
  <2>2. CASE f = d
    <3>1. Clash(f, d)
      BY <1>7, <2>2 DEF Clash
    <3>2. About(PeerOf(r), f)
      BY <1>6, <1>7, <2>2 DEF About
    <3>3. PeerOf(r) \in Others => Clash(f, u)
      BY <1>7, <3>2 DEF Clash
    <3> QED
      BY <2>1, <3>1, <3>3
  <2>3. CASE b = FALSE
    <3>1. Base(f) /\ Inner(d) /\ Inner(u)
      <4>1. f = DisconnectF(r, FALSE)
        BY <1>1, <2>3
      <4>2. Base(f)
        BY <4>1 DEF Base
      <4>3. Inner(d) /\ Inner(u)
        BY <1>7, FrameOrders
      <4> QED
        BY <4>2, <4>3
    <3> QED
      BY <2>1, <3>1 DEF Clash
  <2> QED
    BY <1>1, <1>7, <2>2, <2>3
<1> QED
  BY <1>2, <1>4, <1>5, <1>6, <1>7, <1>8

(* A connection that is closed over its muxer was no attempt any more. *)
LEMMA DisconnectMuxedKeeps ==
  ASSUME Before, NEW r \in Requests, DisconnectMuxed(r)
  PROVE  After
<1>1. PICK b \in BOOLEAN : Top(DisconnectF(r, b))
  BY DEF DisconnectMuxed
<1>2. /\ conn[r] \in {"muxed", "closing"} /\ conn'[r] = "closing" /\ agenda' = Rest
      /\ \A s \in Requests : s # r => conn'[s] = conn[s]
      /\ UNCHANGED <<call, attached, running, queue, denylisted>>
  BY DEF DisconnectMuxed, requestVars, queueVars, Before, TypeInv, TypeOK
<1>3. /\ agenda \in Seq(Frames) /\ agenda # <<>>
      /\ DisconnectF(r, TRUE) \notin Elems(Rest)
      /\ ~Top(RunF) /\ \A q : ~Top(DeleteF(q)) /\ ~Top(QueueRunF(q))
      /\ \A s : s # r => ~Top(DisconnectF(s, TRUE))
  BY <1>1, ClosedOnce
<1>4. PICK new : new = <<>>
  OBVIOUS
<1>5. Goes(new, Rest, <<>>) /\ Elems(new) = {}
  BY <1>2, <1>3, <1>4, Going, PieceElems
<1>6. Sound(new, Rest)
  BY <1>5, PlainSound
<1>7. \A s \in Requests : (Unfinished(s)' <=> Unfinished(s)) /\ (s # r => (Active(s)' <=> Active(s)))
  BY <1>2 DEF Unfinished, Active
<1>8. \A q : Of(q)' = Of(q) /\ Attempts(q)' = Attempts(q) /\ r \notin Attempts(q)
  BY <1>2, <1>7 DEF Attempts, Of, PeerOf, Unfinished
<1>9. \A q : Denied(q)' <=> Denied(q)
  BY <1>2 DEF Denied
<1>10. Stays(new, Rest)
  BY <1>2, <1>3, <1>7, <1>8, <1>9 DEF Stays
<1>11. TurnOrder'
  BY <1>3, <1>5, <1>6, <1>10, OrderKept DEF Before
<1>12. SelfInv'
  BY <1>2, <1>7, <1>8 DEF Before, AttemptInv, SelfInv, PeerOf, Of
<1>13. ASSUME NEW q \in Others PROVE OneAttemptAt(q)'
  <2>1. OneAttemptAt(q)
    BY DEF Before, AttemptInv
  <2>2. ASSUME NEW s \in Attempts(q), Ended(q, s) PROVE Ended(q, s)'
    <3>1. queue'[q] = <<>> /\ (Denied(q) => Denied(q)') /\ s # r
      BY <1>2, <1>8, <1>9, <2>2 DEF Ended
    <3> QED
      BY <1>3, <1>5, <2>2, <3>1, EndedStays
  <2>3. \A s \in Of(q) : Active(s)' /\ conn'[s] = "muxed" => Active(s) /\ conn[s] = "muxed"
    BY <1>2, <1>7 DEF Of
  <2>4. QueueRunF(q) \notin Elems(new) /\ ~Top(QueueRunF(q)) /\ (q \in running' <=> q \in running)
    BY <1>2, <1>3, <1>5
  <2> QED
    BY <1>2, <1>3, <1>5, <1>8, <2>1, <2>2, <2>3, <2>4, OneKept
<1> QED
  BY <1>11, <1>12, <1>13 DEF After, AttemptInv

(* The attempt that ends with its connection resumes the queue. *)
LEMMA DisconnectNowKeeps ==
  ASSUME Before, NEW r \in Requests, DisconnectNow(r)
  PROVE  After
<1>1. PICK b \in BOOLEAN : Top(DisconnectF(r, b))
  BY DEF DisconnectNow
<1>2. PICK p : p = PeerOf(r)
  OBVIOUS
<1>3. /\ conn[r] \notin {"muxed", "closing"} /\ conn'[r] \in {"late", "closed"}
      /\ \A s \in Requests : s # r => conn'[s] = conn[s]
      /\ UNCHANGED <<call, attached, running, queue, denylisted>>
      /\ IF conn[r] \in {"idle", "dialing", "securing"} /\ r \in attached
         THEN agenda' = <<QueueRunF(p)>> \o Rest ELSE agenda' = Rest \/ agenda' = <<>> \o Rest
  BY <1>2 DEF DisconnectNow, Resume, requestVars, queueVars, Before, TypeInv, TypeOK
<1>4. /\ agenda \in Seq(Frames) /\ agenda # <<>> /\ Rest \in Seq(Frames)
      /\ Elems(Rest) \subseteq Pending
      /\ DisconnectF(r, TRUE) \notin Elems(Rest)
      /\ p \in Others => QueueRunF(p) \notin Elems(Rest)
      /\ conn[r] # "none" /\ r \in Of(p) /\ p \in Peers
      /\ ~Top(RunF) /\ \A q : ~Top(DeleteF(q)) /\ ~Top(QueueRunF(q))
      /\ \A s : s # r => ~Top(DisconnectF(s, TRUE))
  BY <1>1, <1>2, ClosedOnce
<1>5. PICK u : u = QueueRunF(p)
  OBVIOUS
<1>6. PICK new :
        /\ new \in Seq(Frames) /\ Goes(new, Rest, <<>>) /\ \A f, g : ~Over(new, f, g)
        /\ Elems(new) = IF conn[r] \in {"idle", "dialing", "securing"} /\ r \in attached
                        THEN {u} ELSE {}
  <2>1. CASE conn[r] \in {"idle", "dialing", "securing"} /\ r \in attached
    <3>1. PICK new : new = <<u>>
      OBVIOUS
    <3>2. u \in Frames
      BY <1>4, <1>5, FrameTypes
    <3>3. new \in Seq(Frames) /\ Elems(new) = {u} /\ \A f, g : ~Over(new, f, g)
      BY <3>1, <3>2, ShortTurns, PieceElems, OverPieces
    <3>4. Goes(new, Rest, <<>>)
      BY <1>3, <1>4, <1>5, <2>1, <3>1, <3>3, Going
    <3> QED
      BY <2>1, <3>3, <3>4
  <2>2. CASE ~(conn[r] \in {"idle", "dialing", "securing"} /\ r \in attached)
    <3>1. PICK new : new = <<>>
      OBVIOUS
    <3>2. new \in Seq(Frames) /\ Elems(new) = {} /\ \A f, g : ~Over(new, f, g)
      BY <3>1, ShortTurns, PieceElems, OverPieces
    <3>3. Goes(new, Rest, <<>>)
      <4>1. agenda' = Rest
        BY <1>3, <1>4, <2>2
      <4> QED
        BY <1>4, <3>1, <4>1, Going
    <3> QED
      BY <2>2, <3>2, <3>3
  <2> QED
    BY <2>1, <2>2
<1>7. Sound(new, Rest)
  <2>1. \A g \in Elems(Rest) : ~Clash(u, g)
    BY <1>4, <1>5, ClashFacts
  <2>2. \A s : OnErrorF(s) \notin Elems(new) /\ AbortF(s) \notin Elems(new)
    BY <1>5, <1>6, FrameNames
  <2>3. \A s, G : Followed(new, OnErrorF(s), G) /\ Followed(new, AbortF(s), G)
    BY <2>2, FollowedFacts
  <2> QED
    BY <1>6, <2>1, <2>2, <2>3 DEF Sound
<1>8. \A q : Of(q)' = Of(q) /\ (Denied(q)' <=> Denied(q))
  BY <1>3 DEF Of, PeerOf, Denied
<1>9. ASSUME NEW q, q # p
      PROVE  /\ Attempts(q)' = Attempts(q)
             /\ \A s \in Of(q) : (Active(s)' <=> Active(s)) /\ conn'[s] = conn[s]
  <2>1. r \notin Of(q)
    BY <1>2, <1>9 DEF Of
  <2> QED
    BY <1>3, <2>1, OtherAttempts
<1>10. Stays(new, Rest)
  <2>1. \A s \in Requests : s # r => (Active(s) => Active(s)')
    BY <1>3 DEF Active
  <2>2. \A s \in Requests : conn[s] # "none" => conn'[s] # "none"
    BY <1>3
  <2>3. \A q \in Others : QueueRunF(q) \in Elems(Rest) /\ q \in running /\ Attempts(q) = {}
          => q \in running' /\ Attempts(q)' = {}
    BY <1>3, <1>4, <1>9
  <2> QED
    BY <1>3, <1>4, <1>8, <2>1, <2>2, <2>3 DEF Stays
<1>11. TurnOrder'
  BY <1>4, <1>6, <1>7, <1>10, OrderKept DEF Before
<1>12. SelfInv'
  <2>1. \A s \in Requests : PeerOf(s)' = PeerOf(s)
    BY <1>3 DEF PeerOf
  <2>2. \A s \in Requests : conn'[s] = "idle" => conn[s] = "idle"
    BY <1>3
  <2>3. \A s \in Requests : Unfinished(s)' => Unfinished(s)
    BY <1>3 DEF Unfinished
  <2> QED
    BY <1>8, <2>1, <2>2, <2>3 DEF Before, AttemptInv, SelfInv, Of
<1>13. ASSUME NEW q \in Others PROVE OneAttemptAt(q)'
  <2>1. OneAttemptAt(q)
    BY DEF Before, AttemptInv
  <2>2. ASSUME NEW s, s # r, Ended(q, s) PROVE Ended(q, s)'
    <3>1. queue'[q] = <<>> /\ (Denied(q) => Denied(q)')
      BY <1>3, <1>8, <2>2 DEF Ended
    <3> QED
      BY <1>4, <1>6, <2>2, <3>1, EndedStays
  <2>3. \A s \in Of(q) : Active(s)' /\ conn'[s] = "muxed" => Active(s) /\ conn[s] = "muxed"
    BY <1>3 DEF Of, Active
  <2>4. CASE r \in Attempts(q)
    <3>1. q = p /\ Attempts(q) = {r}
      BY <1>2, <2>1, <2>4 DEF OneAttemptAt, Attempts, Of
    <3>2. Attempts(q)' = {}
      <4>1. \A s \in Of(q)' : s \in Requests /\ (s # r => (Unfinished(s)' <=> Unfinished(s)))
        BY <1>3, <1>8 DEF Of, Unfinished
      <4>2. ~Unfinished(r)'
        BY <1>3 DEF Unfinished
      <4>3. \A s : s \in Attempts(q)' => s \in Attempts(q)
        BY <1>3, <1>8, <4>1, <4>2 DEF Attempts
      <4> QED
        BY <3>1, <4>2, <4>3 DEF Attempts
    <3>3. Elems(new) = {u}
      BY <1>6, <2>4 DEF Attempts, Unfinished
    <3>4. ~Busy(q)'
      BY <1>4, <1>5, <1>6, <3>1, <3>3, GoesOn DEF Busy
    <3> QED
      BY <3>2, <3>4 DEF OneAttemptAt
  <2>5. CASE r \notin Attempts(q)
    <3>1. Attempts(q)' = Attempts(q)
      BY <1>3, <1>8, <2>5 DEF Attempts, Unfinished, Of
    <3>2. QueueRunF(q) \notin Elems(new)
      <4>1. CASE q # p
        BY <1>5, <1>6, <4>1, FramePeers
      <4>2. CASE q = p
        <5>1. ~(conn[r] \in {"idle", "dialing", "securing"} /\ r \in attached)
          <6>1. conn[r] # "idle"
            BY <1>2, <4>2 DEF Before, AttemptInv, SelfInv, Others
          <6> QED
            BY <1>4, <2>5, <4>2, <6>1 DEF Attempts, Unfinished
        <5> QED
          BY <1>6, <5>1
      <4> QED
        BY <4>1, <4>2
    <3>3. \A s \in Attempts(q) : Ended(q, s) => Ended(q, s)'
      BY <2>2, <2>5
    <3>4. ~Top(QueueRunF(q)) /\ (q \in running' <=> q \in running)
      BY <1>3, <1>4
    <3> QED
      BY <1>3, <1>4, <1>6, <2>1, <2>3, <3>1, <3>2, <3>3, <3>4, OneKept
  <2> QED
    BY <2>4, <2>5
<1> QED
  BY <1>11, <1>12, <1>13 DEF After, AttemptInv

(* A Queue object that is dropped has no attempt that it would hear of.      *)
LEMMA DeleteKeeps ==
  ASSUME Before, NEW p \in Peers, Delete(p)
  PROVE  After
<1>1. PICK f : f = DeleteF(p)
  OBVIOUS
<1>2. /\ Top(f) /\ attached' = attached \ Of(p) /\ agenda' = Rest
      /\ \A q \in Peers : q # p => denylisted'[q] = denylisted[q]
      /\ UNCHANGED <<call, conn, running, queue>>
  BY <1>1 DEF Delete, requestVars, Before, TypeInv, TypeOK
<1>3. Base(f) /\ f.op = "delete"
  BY <1>1, FrameOrders, FrameNames
<1>4. \A g \in Elems(Rest) : ~Inner(g)
  BY <1>2, <1>3, BeneathBase
<1>5. agenda \in Seq(Frames) /\ agenda # <<>> /\ Head(agenda) = f
  BY <1>2 DEF Top, Before, TypeInv, TypeOK
<1>6. p \notin running
  <2>1. 1 \in DOMAIN agenda /\ agenda[1] = DeleteF(p)
    BY <1>1, <1>5
  <2>2. Aborts(p, 1) \/ Drained(p, 1)
    BY <2>1 DEF Before, DropInv
  <2>3. ~Woken(p, 1)
    BY DEF Woken
  <2> QED
    BY <2>2, <2>3 DEF Aborts, Drained
<1>7. /\ ~Top(RunF) /\ \A q : ~Top(QueueRunF(q))
      /\ \A s : ~Top(DisconnectF(s, TRUE))
      /\ \A q : q # p => ~Top(DeleteF(q))
  <2>1. \A q : q # p => ~Top(DeleteF(q))
    BY <1>1, <1>5, FramePeers DEF Top
  <2> QED
    BY <1>2, <1>3, <2>1, OtherTops
<1>8. PICK new : new = <<>>
  OBVIOUS
<1>9. Goes(new, Rest, <<>>) /\ Elems(new) = {}
  BY <1>2, <1>5, <1>8, Going, PieceElems
<1>10. Sound(new, Rest)
  BY <1>9, PlainSound
<1>11. Stays(new, Rest)
  BY <1>2, <1>4, FrameOrders DEF Stays
<1>12. TurnOrder'
  BY <1>5, <1>9, <1>10, <1>11, OrderKept DEF Before
<1>13. \A q : Of(q)' = Of(q)
  BY <1>2 DEF Of, PeerOf
<1>14. SelfInv'
  BY <1>2, <1>13 DEF Before, AttemptInv, SelfInv, Unfinished, PeerOf
<1>15. ASSUME NEW q \in Others PROVE OneAttemptAt(q)'
  <2>1. OneAttemptAt(q)
    BY DEF Before, AttemptInv
  <2>2. CASE q = p
    <3>1. Attempts(q)' = {} /\ ~Busy(q)' /\ \A s \in Of(q) : ~Active(s)'
      BY <1>2, <1>6, <1>13, <2>2 DEF Attempts, Busy, Active
    <3> QED
      BY <1>13, <3>1 DEF OneAttemptAt
  <2>3. CASE q # p
    <3>1. \A s \in Of(q) : s \in attached' <=> s \in attached
      BY <1>2, <2>3 DEF Of
    <3>2. Attempts(q)' = Attempts(q)
      BY <1>2, <1>13, <3>1 DEF Attempts, Unfinished
    <3>3. \A s \in Of(q) : Active(s)' /\ conn'[s] = "muxed" => Active(s) /\ conn[s] = "muxed"
      BY <1>2, <3>1 DEF Active
    <3>4. ASSUME NEW s, Ended(q, s) PROVE Ended(q, s)'
      <4>1. queue'[q] = <<>> /\ (Denied(q) => Denied(q)')
        BY <1>2, <2>3, <3>4 DEF Ended, Denied, Others
      <4> QED
        BY <1>5, <1>7, <1>9, <2>3, <3>4, <4>1, EndedStays
    <3>5. QueueRunF(q) \notin Elems(new) /\ ~Top(QueueRunF(q)) /\ (q \in running' <=> q \in running)
      BY <1>2, <1>7, <1>9
    <3> QED
      BY <1>2, <1>5, <1>9, <2>1, <3>2, <3>3, <3>4, <3>5, OneKept
  <2> QED
    BY <2>2, <2>3
<1> QED
  BY <1>12, <1>14, <1>15 DEF After, AttemptInv

-----------------------------------------------------------------------------
(* The steps of the network, outside any turn.                              *)

(* A connection that moves on without an attempt beginning or ending.        *)
LEMMA MovesKeep ==
  ASSUME Before, NEW r \in Requests, TransportConnects(r) \/ MuxerEnds(r) \/ LateConnect(r)
  PROVE  After
<1>1. /\ agenda = <<>> /\ agenda' = agenda /\ UNCHANGED <<call, attached, running>>
      /\ \A s \in Requests : s # r => conn'[s] = conn[s]
      /\ conn'[r] \in {"securing", "closed"} /\ (Unfinished(r)' <=> Unfinished(r))
      /\ Active(r) => Active(r)'
      /\ conn[r] # "none"
  BY DEF TransportConnects, MuxerEnds, LateConnect, Quiet, requestVars, queueVars,
         Unfinished, Active, Before, TypeInv, TypeOK
<1>2. Pending = {} /\ (\A f : ~Top(f)) /\ \A q, s : ~Ended(q, s)
  BY <1>1, QuietFacts
<1>3. PICK new, t : new = <<>> /\ t = agenda
  OBVIOUS
<1>4. agenda \in Seq(Frames) /\ Goes(new, t, <<>>) /\ Elems(new) = {} /\ Elems(t) = {}
  BY <1>1, <1>2, <1>3, Going, PieceElems DEF Before, TypeInv, TypeOK
<1>5. Sound(new, t)
  BY <1>4, PlainSound
<1>6. Stays(new, t)
  BY <1>1, <1>4 DEF Stays
<1>7. TurnOrder'
  BY <1>4, <1>5, <1>6, OrderKept DEF Before
<1>8. \A s \in Requests : (Unfinished(s)' <=> Unfinished(s)) /\ (s # r => (Active(s)' <=> Active(s)))
  BY <1>1 DEF Unfinished, Active
<1>9. \A q : Of(q)' = Of(q) /\ Attempts(q)' = Attempts(q)
  BY <1>1, <1>8 DEF Attempts, Of, PeerOf
<1>10. SelfInv'
  <2>1. \A s \in Requests : conn'[s] = "idle" => conn[s] = "idle"
    BY <1>1
  <2>2. \A s \in Requests : PeerOf(s)' = PeerOf(s)
    BY <1>1 DEF PeerOf
  <2>3. \A s \in Of(Self) : s \in Requests
    BY DEF Of
  <2> QED
    BY <1>8, <1>9, <2>1, <2>2, <2>3 DEF Before, AttemptInv, SelfInv
<1>11. ASSUME NEW q \in Others PROVE OneAttemptAt(q)'
  <2>1. OneAttemptAt(q)
    BY DEF Before, AttemptInv
  <2>2. \A s \in Of(q) : Active(s)' /\ conn'[s] = "muxed" => Active(s) /\ conn[s] = "muxed"
    BY <1>1, <1>8 DEF Of
  <2> QED
    BY <1>1, <1>2, <1>4, <1>9, <2>1, <2>2, OneKept
<1> QED
  BY <1>7, <1>10, <1>11 DEF After, AttemptInv

(* An attempt that ends well: its queue is resumed, if it still listens.     *)
LEMMA UpgradesKeep ==
  ASSUME Before, NEW r \in Requests, Muxes(r) \/ Unmuxes(r)
  PROVE  After
<1>1. /\ agenda = <<>> /\ agenda' = ProtocolCallback(r) \o Resume(r)
      /\ UNCHANGED <<call, attached, running>>
      /\ \A s \in Requests : s # r => conn'[s] = conn[s]
      /\ conn[r] = "securing" /\ conn'[r] \in {"muxed", "unmuxed"}
  BY DEF Muxes, Unmuxes, Quiet, requestVars, Before, TypeInv, TypeOK
<1>2. Pending = {} /\ (\A f : ~Top(f)) /\ \A q, s : ~Ended(q, s)
  BY <1>1, QuietFacts
<1>3. PICK p : p = PeerOf(r)
  OBVIOUS
<1>4. r \in Of(p) /\ p \in Others
  <2>1. call[r] # None
    BY <1>1 DEF Before, PlaceInv, PlacesHold
  <2>2. call[r] \in Calls
    BY <2>1 DEF Before, TypeInv, TypeOK
  <2>3. p \in Peers
    BY <1>3, <2>2 DEF Calls, PeerOf
  <2>4. r \in Of(p)
    BY <1>3, <2>1 DEF Of
  <2>5. p # Self
    BY <1>1, <2>4 DEF Before, AttemptInv, SelfInv, Unfinished
  <2> QED
    BY <2>3, <2>4, <2>5 DEF Others
<1>5. PICK c, u : c = CallbackF(r, "ok") /\ u = QueueRunF(p)
  OBVIOUS
<1>6. c \in Frames /\ u \in Frames /\ Plain(c) /\ c.op = "callback" /\ u.op = "_run"
  BY <1>4, <1>5, FrameTypes, FrameNames, FrameOrders DEF Answers, Others
<1>7. PICK new :
        /\ new \in Seq(Frames) /\ agenda' = new /\ Elems(new) \subseteq {c, u}
        /\ u \in Elems(new) <=> r \in attached
        /\ \A f, g : Over(new, f, g) => f = c /\ g = u /\ r \in attached
  <2>1. PICK a, b : a = ProtocolCallback(r) /\ b = Resume(r)
    OBVIOUS
  <2>2. a = <<>> \/ a = <<c>>
    BY <1>5, <2>1, TickPieces
  <2>3. IF r \in attached THEN b = <<u>> ELSE b = <<>>
    BY <1>3, <1>5, <2>1 DEF Resume
  <2>4. /\ <<>> \in Seq(Frames) /\ Elems(<<>>) = {} /\ \A f, g : ~Over(<<>>, f, g)
    BY ShortTurns, PieceElems, OverPieces
  <2>5. ASSUME NEW d \in Frames, NEW w, w = <<d>>
         PROVE  w \in Seq(Frames) /\ Elems(w) = {d} /\ \A f, g : ~Over(w, f, g)
    BY <2>5, ShortTurns, PieceElems, OverPieces
  <2>6. a \in Seq(Frames) /\ Elems(a) \subseteq {c} /\ \A f, g : ~Over(a, f, g)
    <3>1. CASE a = <<>>
      BY <2>4, <3>1
    <3>2. CASE a = <<c>>
      BY <1>6, <2>5, <3>2
    <3> QED
      BY <2>2, <3>1, <3>2
  <2>7. /\ b \in Seq(Frames) /\ (\A f, g : ~Over(b, f, g))
        /\ Elems(b) = IF r \in attached THEN {u} ELSE {}
    <3>1. CASE r \in attached
      BY <1>6, <2>3, <2>5, <3>1
    <3>2. CASE r \notin attached
      BY <2>3, <2>4, <3>2
    <3> QED
      BY <3>1, <3>2
  <2>8. PICK new : new = a \o b
    OBVIOUS
  <2>9. new \in Seq(Frames)
    BY <2>6, <2>7, <2>8, Pushing
  <2>10. Elems(new) = Elems(a) \cup Elems(b)
    BY <2>6, <2>7, <2>8, JoinElems
  <2>11. \A f, g : Over(new, f, g) => f \in Elems(a) /\ g \in Elems(b)
    BY <2>6, <2>7, <2>8, OverJoin
  <2>12. c # u
    BY <1>6
  <2> QED
    BY <1>1, <2>1, <2>6, <2>7, <2>8, <2>9, <2>10, <2>11, <2>12
<1>8. PICK t : t = agenda
  OBVIOUS
<1>9. agenda \in Seq(Frames) /\ Goes(new, t, <<>>) /\ Elems(t) = {}
  BY <1>1, <1>7, <1>8, Going, PieceElems DEF Before, TypeInv, TypeOK
<1>10. \A s \in Requests : (s # r => (Unfinished(s)' <=> Unfinished(s))) /\ ~Unfinished(r)' /\ Unfinished(r)
  BY <1>1 DEF Unfinished
<1>11. \A q : Of(q)' = Of(q)
  BY <1>1 DEF Of, PeerOf
<1>12. OneAttemptAt(p)
  BY <1>4 DEF Before, AttemptInv
<1>13. ASSUME r \in attached
       PROVE  p \in running /\ Attempts(p)' = {}
  <2>1. r \in Attempts(p)
    BY <1>4, <1>10, <1>13 DEF Attempts
  <2>2. Busy(p)
    BY <1>2, <1>12, <2>1 DEF OneAttemptAt
  <2>3. \A s : s \in Attempts(p)' => s \in Attempts(p) /\ s # r
    BY <1>1, <1>10, <1>11 DEF Attempts, Of
  <2>4. \A s \in Attempts(p) : s = r
    BY <1>12, <2>1 DEF OneAttemptAt
  <2> QED
    BY <2>2, <2>3, <2>4 DEF Busy
<1>14. \A q : u = QueueRunF(q) <=> q = p
  BY <1>5, FramePeers
<1>15. Sound(new, t)
  <2>1. \A f, g : Over(new, f, g) => ~Clash(f, g)
    BY <1>6, <1>7, ClashFacts
  <2>2. \A q : /\ c # OnErrorF(q) /\ u # OnErrorF(q)
               /\ c # AbortF(q) /\ u # AbortF(q)
    BY <1>6, FrameNames
  <2>3. \A q : OnErrorF(q) \notin Elems(new) /\ AbortF(q) \notin Elems(new)
    BY <1>7, <2>2
  <2>4. \A q, G : Followed(new, OnErrorF(q), G) /\ Followed(new, AbortF(q), G)
    BY <2>3, FollowedFacts
  <2>5. \A q \in Others : \A f :
          Over(new, f, QueueRunF(q)) => q \in running' /\ Attempts(q)' = {}
    BY <1>1, <1>7, <1>13, <1>14
  <2> QED
    BY <1>9, <2>1, <2>3, <2>4, <2>5 DEF Sound
<1>16. Stays(new, t)
  BY <1>1, <1>9 DEF Stays
<1>17. TurnOrder'
  BY <1>9, <1>15, <1>16, OrderKept DEF Before
<1>18. SelfInv'
  <2>1. \A s \in Requests : conn'[s] = "idle" => conn[s] = "idle"
    BY <1>1
  <2>2. \A s \in Requests : PeerOf(s)' = PeerOf(s)
    BY <1>1 DEF PeerOf
  <2>3. \A s \in Of(Self) : s \in Requests
    BY DEF Of
  <2> QED
    BY <1>10, <1>11, <2>1, <2>2, <2>3 DEF Before, AttemptInv, SelfInv
<1>19. ASSUME NEW q \in Others, q # p \/ r \notin attached PROVE OneAttemptAt(q)'
  <2>1. OneAttemptAt(q)
    BY DEF Before, AttemptInv
  <2>2. QueueRunF(q) \notin Elems(new)
    <3>1. QueueRunF(q) # c
      BY <1>6, FrameNames
    <3> QED
      BY <1>7, <1>14, <1>19, <3>1
  <2>3. Attempts(q)' = Attempts(q)
    <3>1. r \notin Attempts(q)
      BY <1>3, <1>19 DEF Attempts, Of
    <3>2. \A s : s \in Attempts(q)' <=> s \in Attempts(q)
      BY <1>1, <1>10, <1>11, <3>1 DEF Attempts, Of
    <3> QED
      BY <3>2
  <2>4. \A s \in Of(q) : Active(s)' /\ conn'[s] = "muxed" => Active(s) /\ conn[s] = "muxed"
    <3>1. \A s \in Of(q) : s \in Requests /\ (s = r => q = p)
      BY <1>3 DEF Of
    <3> QED
      BY <1>1, <1>19, <3>1 DEF Active
  <2>5. \A s \in Attempts(q) : Ended(q, s) => Ended(q, s)'
    BY <1>2
  <2>6. ~Top(QueueRunF(q)) /\ (q \in running' <=> q \in running)
    BY <1>1, <1>2
  <2> QED
    BY <1>1, <1>9, <2>1, <2>2, <2>3, <2>4, <2>5, <2>6, OneKept
<1>20. ASSUME r \in attached PROVE OneAttemptAt(p)'
  <2>1. Attempts(p)' = {}
    BY <1>13, <1>20
  <2>2. u \in Pending'
    BY <1>7, <1>20 DEF Pending
  <2>3. ~Busy(p)'
    BY <1>5, <2>2 DEF Busy
  <2> QED
    BY <2>1, <2>3 DEF OneAttemptAt
<1>21. \A q \in Others : OneAttemptAt(q)'
  BY <1>4, <1>19, <1>20
<1> QED
  BY <1>17, <1>18, <1>21 DEF After, AttemptInv

-----------------------------------------------------------------------------
(* Every step keeps the invariant.                                          *)
LEMMA NextKeepsAttempts ==
  ASSUME Before, [Next]_vars
  PROVE  After
<1>1. CASE UNCHANGED vars
  <2>1. UNCHANGED <<call, queue, running, denylisted, mgrRunning, conn, attached, agenda>>
    BY <1>1 DEF vars, requestVars, queueVars, mgrVars, connVars
  <2>2. /\ TurnOrder <=> TurnOrder'
        /\ AttemptInv <=> AttemptInv'
    BY <2>1 DEF TurnOrder, OrderInv, FailInv, AbortInv, ResumeInv, AttemptInv, SelfInv,
                OneAttemptAt, Ended, Busy, Attempts, Active, AbortedBy, Denied, Unfinished,
                Of, PeerOf, Pending, Top, Rest, Clash, About
  <2> QED
    BY <2>2 DEF Before, After
<1>2. CASE TurnStep
  <2>1. ASSUME NEW p \in Peers, PeerStep(p) PROVE After
    BY <2>1, QueueRunStopsKeeps, QueueRunReusesKeeps, QueueRunCreatesKeeps, AbortNextKeeps,
       AbortEndsKeeps, DeleteKeeps DEF PeerStep
  <2>2. ASSUME NEW r \in Requests, RequestStep(r) PROVE After
    BY <2>2, OnErrorKeeps, DisconnectMuxedKeeps, DisconnectNowKeeps DEF RequestStep
  <2> QED
    BY <1>2, <2>1, <2>2, RunKeeps, CallbackKeeps, CloseAllKeeps, WalksKeep DEF TurnStep
<1>3. CASE UserStep
  <2>1. ASSUME NEW r \in Requests, UserCloses(r) PROVE FALSE
    BY <2>1 DEF UserCloses, Before, NoClosing
  <2> QED
    BY <1>3, <2>1, StartsKeep, DialRefusedKeeps, DialDeniedKeeps, DialQueuedKeeps,
       HangUpKeeps, ClearDenylistKeeps DEF UserStep
<1>4. CASE EnvStep
  <2>1. ASSUME NEW r \in Requests, AttemptStep(r) PROVE After
    BY <2>1, MovesKeep, FailuresKeep, UpgradesKeep DEF AttemptStep
  <2>2. ASSUME NEW r \in Requests,
               ShakeEnds(r) \/ Identified(r) \/ IdentifyFails(r)
                 \/ MuxerCloses(r) \/ MuxerEnds(r) \/ LateConnect(r)
        PROVE  After
    BY <2>2, StartsKeep, QuietKeeps, FailuresKeep, MovesKeep
  <2>3. ASSUME NEW p \in Peers,
               InboundMuxes(p) \/ InboundCloses(p) \/ InboundEnds(p) \/ DenyExpires(p)
        PROVE  After
    BY <2>3, QuietKeeps
  <2> QED
    BY <1>4, <2>1, <2>2, <2>3, StartsKeep, QuietKeeps DEF EnvStep
<1> QED
  BY <1>1, <1>2, <1>3, <1>4 DEF Next

(* The invariant holds when the switch starts: no turn is under way, and     *)
(* nothing was ever dialed.                                                  *)
LEMMA InitAttempts ==
  ASSUME Init
  PROVE  TurnOrder /\ AttemptInv
<1>1. /\ agenda = <<>> /\ attached = {} /\ running = {}
      /\ \A r \in Requests : conn[r] = "none"
  BY DEF Init
<1>2. Pending = {} /\ \A f, g : ~Over(agenda, f, g)
  BY <1>1, QuietFacts
<1>3. \A f, G : Followed(agenda, f, G)
  BY <1>2, FollowedFacts DEF Pending
<1>4. TurnOrder
  BY <1>2, <1>3 DEF TurnOrder, OrderInv, FailInv, AbortInv, ResumeInv
<1>5. \A p : Attempts(p) = {} /\ ~Busy(p)
  BY <1>1 DEF Attempts, Busy
<1>6. SelfInv
  BY <1>1 DEF SelfInv, Of, Unfinished
<1> QED
  BY <1>4, <1>5, <1>6 DEF AttemptInv, OneAttemptAt

(* What was proved of the dialer, with the invariant of its attempts: under  *)
(* these hypotheses all of it holds at every step of every turn.             *)
THEOREM AttemptInvariant ==
  ASSUME NoClosing
  PROVE  Spec => [](TurnOrder /\ AttemptInv)
<1>1. Init => DropInv /\ TurnOrder /\ AttemptInv
  BY InitAttempts DEF Init, DropInv
<1>2. /\ TypeInv /\ TypeInv' /\ TurnInv /\ PlaceInv
      /\ DropInv /\ TurnOrder /\ AttemptInv /\ [Next]_vars
      => DropInv' /\ TurnOrder' /\ AttemptInv'
  <2> SUFFICES ASSUME TypeInv, TypeInv', TurnInv, PlaceInv,
                      DropInv, TurnOrder, AttemptInv, [Next]_vars
               PROVE  DropInv' /\ TurnOrder' /\ AttemptInv'
    OBVIOUS
  <2>1. TurnOrder' /\ AttemptInv'
    BY NextKeepsAttempts DEF Before, After
  <2>2. CASE Next
    BY <2>1, <2>2, NextKeepsBoth DEF NoClosing
  <2>3. CASE UNCHANGED vars
    <3>1. DropInv'
      BY <2>3 DEF vars, mgrVars, queueVars, DropInv, Aborts, Drained, Woken, Denied, Idle
    <3> QED
      BY <2>1, <3>1
  <2> QED
    BY <2>2, <2>3
<1> QED
  BY <1>1, <1>2, TypeInvariant, TurnInvariant, PlaceInvariant, PTL DEF Spec

(* Between turns a queue runs exactly when one attempt of its peer is under  *)
(* way, however many turns of failures, denials, stops, cleans and nested    *)
(* dials there were: no two dials to a peer race, and no queue is left       *)
(* running with nothing to wake it up.                                       *)
THEOREM OneAttemptHolds ==
  ASSUME NoClosing
  PROVE  Spec => []OneAttempt
<1>1. TurnOrder /\ AttemptInv => OneAttempt
  <2> SUFFICES ASSUME AttemptInv, Quiet, NEW p \in Others
               PROVE  Cardinality(Attempts(p)) = IF p \in running THEN 1 ELSE 0
    BY DEF OneAttempt, Others
  <2>1. Pending = {} /\ \A r : ~Ended(p, r)
    BY QuietFacts DEF Quiet
  <2>2. OneAttemptAt(p) /\ (Busy(p) <=> p \in running)
    BY <2>1 DEF AttemptInv, Busy
  <2>3. CASE p \in running
    <3>1. PICK r \in Attempts(p) : TRUE
      BY <2>2, <2>3 DEF OneAttemptAt
    <3>2. Attempts(p) = {r}
      BY <2>2, <3>1 DEF OneAttemptAt
    <3> QED
      BY <2>3, <3>2, FS_Singleton
  <2>4. CASE p \notin running
    <3>1. Attempts(p) = {}
      BY <2>1, <2>2, <2>4 DEF OneAttemptAt
    <3> QED
      BY <2>4, <3>1, FS_EmptySet
  <2> QED
    BY <2>3, <2>4
<1> QED
  BY <1>1, AttemptInvariant, PTL

-----------------------------------------------------------------------------
(* What the periodic clean takes away.                                      *)

(* While the clean is about to drop the Queue object of p, an attempt that   *)
(* still belongs to it is one of a peer denied for ever, or one whose        *)
(* connection is about to be closed.  If the peer is denied for a while, no  *)
(* attempt can begin: its queue is empty, or the connection whose failure    *)
(* aborts it still listens.                                                  *)
Spared(p) ==
  DeleteF(p) \in Pending /\ mgrRunning =>
    /\ denylisted[p] # "Infinity" => \A r \in Attempts(p) : DisconnectF(r, TRUE) \in Pending
    /\ denylisted[p] = "until" =>
         \/ queue[p] = <<>>
         \/ \E r \in Of(p) : Active(r) /\ Over(agenda, AbortF(p), DisconnectF(r, TRUE))

SpareInv == \A p \in Others : Spared(p)

(* A step inside a turn that takes no further Queue object away. *)
Continues(t) == \E new, late : Goes(new, t, late) /\ \A p : DeleteF(p) \notin Elems(new)

(* The usual ways to continue a turn. *)
LEMMA Continuing ==
  ASSUME agenda \in Seq(Frames)
  PROVE  /\ agenda # <<>> =>
              /\ agenda' = Rest => Continues(Rest)
              /\ \A a \in Frames : a.op # "delete" /\ agenda' = <<a>> \o Rest => Continues(Rest)
              /\ \A a, b \in Frames : a.op # "delete" /\ b.op # "delete" /\ agenda' = <<a, b>> \o Rest
                   => Continues(Rest)
         /\ (\A p : ~Top(QueueRunF(p))) =>
              /\ agenda' = agenda => Continues(agenda)
              /\ \A a \in Frames : a.op # "delete" /\ agenda' = <<a>> \o agenda => Continues(agenda)
              /\ \A c \in Frames : c.op = "callback" /\ agenda' = Append(agenda, c)
                   => Continues(agenda)
              /\ \A a, c \in Frames :
                   /\ a.op # "delete" /\ c.op = "callback"
                   /\ agenda' = <<a>> \o Append(agenda, c)
                   => Continues(agenda)
<1>1. \A p : DeleteF(p).op = "delete"
  BY FrameNames
<1>2. ASSUME NEW new, NEW t, NEW late, Goes(new, t, late), \A f \in Elems(new) : f.op # "delete"
      PROVE  Continues(t)
  BY <1>1, <1>2 DEF Continues
<1>3. ASSUME NEW w, w = <<>> PROVE \A f \in Elems(w) : f.op # "delete"
  BY <1>3, PieceElems
<1>4. ASSUME NEW a \in Frames, a.op # "delete", NEW w, w = <<a>>
      PROVE  w \in Seq(Frames) /\ \A f \in Elems(w) : f.op # "delete"
  BY <1>4, ShortTurns, PieceElems
<1>5. ASSUME NEW a \in Frames, a.op # "delete", NEW b \in Frames, b.op # "delete",
             NEW w, w = <<a, b>>
      PROVE  w \in Seq(Frames) /\ \A f \in Elems(w) : f.op # "delete"
  BY <1>5, ShortTurns, PieceElems
<1>6. ASSUME agenda # <<>>, agenda' = Rest PROVE Continues(Rest)
  BY <1>2, <1>3, <1>6, Going
<1>7. ASSUME agenda # <<>>, NEW a \in Frames, a.op # "delete", agenda' = <<a>> \o Rest
      PROVE  Continues(Rest)
  BY <1>2, <1>4, <1>7, Going
<1>8. ASSUME agenda # <<>>, NEW a \in Frames, NEW b \in Frames, a.op # "delete", b.op # "delete",
             agenda' = <<a, b>> \o Rest
      PROVE  Continues(Rest)
  BY <1>2, <1>5, <1>8, Going
<1>9. ASSUME \A p : ~Top(QueueRunF(p)), agenda' = agenda PROVE Continues(agenda)
  BY <1>2, <1>3, <1>9, Going
<1>10. ASSUME \A p : ~Top(QueueRunF(p)), NEW a \in Frames, a.op # "delete",
              agenda' = <<a>> \o agenda
       PROVE  Continues(agenda)
  BY <1>2, <1>4, <1>10, Going
<1>11. ASSUME \A p : ~Top(QueueRunF(p)), NEW c \in Frames, c.op = "callback",
              agenda' = Append(agenda, c)
       PROVE  Continues(agenda)
  BY <1>2, <1>3, <1>11, Going
<1>12. ASSUME \A p : ~Top(QueueRunF(p)), NEW a \in Frames, NEW c \in Frames,
              a.op # "delete", c.op = "callback", agenda' = <<a>> \o Append(agenda, c)
       PROVE  Continues(agenda)
  BY <1>2, <1>4, <1>12, Going
<1> QED
  BY <1>6, <1>7, <1>8, <1>9, <1>10, <1>11, <1>12

(* A step that begins no attempt, closes no connection that is to fail, and  *)
(* lets the peer be denied no less.                                          *)
LEMMA SparedStays ==
  ASSUME agenda \in Seq(Frames), NEW t, Continues(t), NEW p, Spared(p),
         mgrRunning' = mgrRunning, Attempts(p)' \subseteq Attempts(p),
         \A r \in Attempts(p)' : ~Top(DisconnectF(r, TRUE)),
         \/ denylisted'[p] = denylisted[p]
         \/ denylisted'[p] # "until" /\ denylisted[p] # "Infinity",
         queue[p] = <<>> => queue'[p] = <<>> \/ denylisted'[p] # "until",
         Top(AbortF(p)) => t = agenda \/ queue'[p] = <<>>,
         \A r \in Of(p) : Active(r) /\ DisconnectF(r, TRUE) \in Elems(t)
                            => Active(r)' /\ r \in Of(p)'
  PROVE  Spared(p)'
<1>1. PICK new, late : Goes(new, t, late) /\ DeleteF(p) \notin Elems(new)
  BY DEF Continues
<1> SUFFICES ASSUME DeleteF(p) \in Pending', mgrRunning'
             PROVE  /\ denylisted'[p] # "Infinity" =>
                         \A r \in Attempts(p)' : DisconnectF(r, TRUE) \in Pending'
                    /\ denylisted'[p] = "until" =>
                         \/ queue'[p] = <<>>
                         \/ \E r \in Of(p)' : /\ Active(r)'
                                              /\ Over(agenda', AbortF(p), DisconnectF(r, TRUE))
  BY DEF Spared
<1>2. DeleteF(p) \in Pending
  <2>1. DeleteF(p).op # "callback"
    BY FrameNames
  <2>2. Pending' = Elems(new) \cup Elems(t) \cup Elems(late) /\ Elems(t) \subseteq Pending
    BY <1>1, GoesFacts
  <2>3. \A f \in Elems(late) : f.op = "callback"
    BY <1>1 DEF Goes
  <2> QED
    BY <1>1, <2>1, <2>2, <2>3
<1>3. ASSUME denylisted'[p] # "Infinity", NEW r \in Attempts(p)'
      PROVE  DisconnectF(r, TRUE) \in Pending'
  <2>1. DisconnectF(r, TRUE) \in Pending
    BY <1>2, <1>3 DEF Spared
  <2> QED
    BY <1>1, <1>3, <2>1, GoesOn
<1>4. ASSUME denylisted'[p] = "until", queue'[p] # <<>>
      PROVE  \E r \in Of(p)' : Active(r)' /\ Over(agenda', AbortF(p), DisconnectF(r, TRUE))
  <2>1. PICK r \in Of(p) : Active(r) /\ Over(agenda, AbortF(p), DisconnectF(r, TRUE))
    BY <1>2, <1>4 DEF Spared
  <2>2. Over(t, AbortF(p), DisconnectF(r, TRUE))
    <3>1. CASE t = agenda
      BY <2>1, <3>1
    <3>2. CASE t # agenda
      <4>1. agenda # <<>> /\ t = Rest /\ ~Top(AbortF(p))
        BY <1>1, <1>4, <3>2 DEF Goes
      <4>2. PICK f : f = Head(agenda)
        OBVIOUS
      <4>3. Top(f) /\ f # AbortF(p)
        BY <4>1, <4>2 DEF Top
      <4>4. \A g, h : Over(agenda, g, h) => Over(Rest, g, h) \/ g = f
        BY <4>3, TopOver
      <4>5. PICK g, h : g = AbortF(p) /\ h = DisconnectF(r, TRUE)
        OBVIOUS
      <4>6. Over(agenda, g, h) /\ g # f
        BY <2>1, <4>3, <4>5
      <4>7. Over(Rest, g, h)
        BY <4>4, <4>6
      <4> QED
        BY <4>1, <4>5, <4>7
    <3> QED
      BY <3>1, <3>2
  <2>3. DisconnectF(r, TRUE) \in Elems(t)
    BY <2>2, OrderedElems
  <2>4. Over(agenda', AbortF(p), DisconnectF(r, TRUE))
    BY <1>1, <2>2, GoesFacts
  <2> QED
    BY <2>1, <2>3, <2>4
<1> QED
  BY <1>3, <1>4

(* A step that touches no connection. *)
LEMMA SparedCalmly ==
  ASSUME Before, SpareInv, NEW t, Continues(t), UNCHANGED <<conn, attached, mgrRunning>>,
         \A r \in Requests : call'[r] = call[r] \/ call[r] = None,
         \A r : ~Top(DisconnectF(r, TRUE)),
         \A p \in Others :
           \/ denylisted'[p] = denylisted[p] /\ (queue[p] = <<>> => queue'[p] = <<>>)
           \/ denylisted'[p] # "until" /\ denylisted[p] # "Infinity",
         \A p \in Others : Top(AbortF(p)) => t = agenda \/ queue'[p] = <<>>
  PROVE  SpareInv'
<1>1. agenda \in Seq(Frames)
  BY DEF Before, TypeInv, TypeOK
<1>2. /\ \A p : Attempts(p)' = Attempts(p) /\ Of(p) \subseteq Of(p)'
      /\ \A r : Active(r)' <=> Active(r)
  BY SameAttempts DEF Before, TurnOrder
<1> SUFFICES ASSUME NEW p \in Others PROVE Spared(p)'
  BY DEF SpareInv
<1>3. \A r \in Of(p) : Active(r) => Active(r)' /\ r \in Of(p)'
  BY <1>2
<1> QED
  BY <1>1, <1>2, <1>3, SparedStays DEF SpareInv

(* Callbacks, and what the user does in a turn but resetting a denylist. *)
LEMMA CallsSpare ==
  ASSUME Before, SpareInv,
         \/ UserReturn \/ Callback \/ CloseAll
         \/ \E p \in Peers : HangUp(p)
         \/ \E r \in Requests : DialRefused(r) \/ DialDenied(r) \/ DialQueued(r)
  PROVE  SpareInv'
<1>1. agenda \in Seq(Frames)
  BY DEF Before, TypeInv, TypeOK
<1>2. PICK f : Top(f) /\ f.op \in {"user", "callback", "closeAll"}
  <2>1. CASE UserReturn \/ \E name : MayCall(name)
    <3>1. Top(UserF(TRUE)) \/ Top(UserF(FALSE))
      BY <2>1 DEF UserReturn, InUser, MayCall
    <3>2. UserF(TRUE).op = "user" /\ UserF(FALSE).op = "user"
      BY FrameNames
    <3> QED
      BY <3>1, <3>2
  <2>2. CASE Callback
    BY <2>2, FrameNames DEF Callback
  <2>3. CASE CloseAll
    BY <2>3, FrameNames DEF CloseAll
  <2> QED
    BY <2>1, <2>2, <2>3 DEF HangUp, DialRefused, DialDenied, DialQueued
<1>3. /\ agenda # <<>>
      /\ \A p : ~Top(QueueRunF(p)) /\ ~Top(AbortF(p))
      /\ \A r : ~Top(DisconnectF(r, TRUE))
  <2>1. \A p : AbortF(p).op = "abort"
    BY FrameNames
  <2>2. \A g : Top(g) => g = f
    BY <1>2 DEF Top
  <2>3. \A p : ~Top(AbortF(p))
    BY <1>2, <2>1, <2>2
  <2>4. (\A p : ~Top(QueueRunF(p))) /\ \A r : ~Top(DisconnectF(r, TRUE))
    BY <1>2, OtherTops
  <2> QED
    BY <1>2, <2>3, <2>4 DEF Top
<1>4. ASSUME NEW t, Continues(t), UNCHANGED <<call, conn, attached, mgrRunning, denylisted, queue>>
      PROVE  SpareInv'
  BY <1>3, <1>4, SparedCalmly
<1>5. CASE UserReturn \/ Callback \/ CloseAll
  <2>1. UNCHANGED <<call, conn, attached, mgrRunning, denylisted, queue>>
    BY <1>5 DEF UserReturn, Callback, CloseAll, requestVars, queueVars, mgrVars, connVars
  <2>2. Continues(Rest)
    <3>1. CASE agenda' = Rest
      BY <1>1, <1>3, <3>1, Continuing
    <3>2. CASE agenda' = <<UserF(TRUE)>> \o Rest
      <4>1. PICK u : u = UserF(TRUE)
        OBVIOUS
      <4>2. u \in Frames /\ u.op # "delete"
        BY <4>1, FrameTypes, FrameNames
      <4> QED
        BY <1>1, <1>3, <3>2, <4>1, <4>2, Continuing
    <3>3. ASSUME NEW R \in SUBSET Requests, NEW r \in R,
                 agenda' = <<DisconnectF(r, FALSE), CloseAllF(R \ {r})>> \o Rest
          PROVE  Continues(Rest)
      <4>1. PICK d, c : d = DisconnectF(r, FALSE) /\ c = CloseAllF(R \ {r})
        OBVIOUS
      <4>2. d \in Frames /\ c \in Frames
        BY <4>1, FrameTypes
      <4>3. d.op # "delete" /\ c.op # "delete"
        BY <4>1, FrameNames
      <4> QED
        BY <1>1, <1>3, <3>3, <4>1, <4>2, <4>3, Continuing
    <3>4. CASE CloseAll
      <4>1. \/ agenda' = Rest
            \/ \E R \in SUBSET Requests : \E r \in R :
                 agenda' = <<DisconnectF(r, FALSE), CloseAllF(R \ {r})>> \o Rest
        BY <3>4 DEF CloseAll
      <4> QED
        BY <3>1, <3>3, <4>1
    <3>5. CASE UserReturn \/ Callback
      <4>1. agenda' = Rest \/ agenda' = <<UserF(TRUE)>> \o Rest
        BY <3>5 DEF UserReturn, Callback
      <4> QED
        BY <3>1, <3>2, <4>1
    <3> QED
      BY <1>5, <3>4, <3>5
  <2> QED
    BY <1>4, <2>1, <2>2
<1>6. ASSUME NEW p \in Peers, HangUp(p) PROVE SpareInv'
  <2>1. /\ UNCHANGED <<call, conn, attached, mgrRunning, denylisted, queue>>
        /\ agenda' = <<CloseAllF(Tracked(p))>> \o agenda
    BY <1>6 DEF HangUp, requestVars, queueVars, mgrVars
  <2>2. PICK c : c = CloseAllF(Tracked(p))
    OBVIOUS
  <2>3. Tracked(p) \in SUBSET Requests
    BY DEF Tracked, Of
  <2>4. c \in Frames /\ c.op # "delete"
    BY <2>2, <2>3, FrameTypes, FrameNames
  <2>5. Continues(agenda)
    BY <1>1, <1>3, <2>1, <2>2, <2>4, Continuing
  <2> QED
    BY <1>4, <2>1, <2>5
<1>7. ASSUME NEW r \in Requests, DialRefused(r) \/ DialDenied(r) \/ DialQueued(r)
      PROVE  SpareInv'
  <2>1. /\ UNCHANGED <<conn, attached, mgrRunning>> /\ call[r] = None
        /\ \A s \in Requests : call'[s] = call[s] \/ call[s] = None
    BY <1>7 DEF DialRefused, DialDenied, DialQueued, connVars, Before, TypeInv, TypeOK
  <2>2. \A p \in Others :
          \/ denylisted'[p] = denylisted[p] /\ (queue[p] = <<>> => queue'[p] = <<>>)
          \/ denylisted'[p] # "until" /\ denylisted[p] # "Infinity"
    <3>1. CASE DialRefused(r) \/ DialDenied(r)
      BY <3>1 DEF DialRefused, DialDenied, queueVars
    <3>2. CASE DialQueued(r)
      <4>1. PICK c \in Calls :
              /\ denylisted[c.peer] \in {"null", "expired"}
              /\ denylisted' = [denylisted EXCEPT ![c.peer] = "null"]
              /\ queue' = [queue EXCEPT ![c.peer] = Append(@, r)]
        BY <3>2 DEF DialQueued, DialAllowed
      <4>2. PICK q : q = c.peer
        OBVIOUS
      <4>3. denylisted[q] \in {"null", "expired"}
        BY <4>1, <4>2
      <4>4. \A p \in Peers : /\ p = q => denylisted'[p] = "null"
                             /\ p # q => denylisted'[p] = denylisted[p] /\ queue'[p] = queue[p]
        BY <4>1, <4>2 DEF Before, TypeInv, TypeOK
      <4> QED
        BY <4>3, <4>4 DEF Others
    <3> QED
      BY <1>7, <3>1, <3>2
  <2>3. Continues(agenda)
    <3>1. PICK a, d : a = CallbackF(r, "aborted") /\ d = CallbackF(r, "denied")
      OBVIOUS
    <3>2. a \in Frames /\ d \in Frames /\ a.op = "callback" /\ d.op = "callback"
      BY <3>1, FrameTypes, FrameNames DEF Answers
    <3>3. ASSUME NEW p \in Peers
          PROVE  QueueRunF(p) \in Frames /\ QueueRunF(p).op # "delete"
      BY FrameTypes, FrameNames
    <3>4. RunF \in Frames /\ RunF.op # "delete"
      BY FrameTypes, FrameNames
    <3>5. CASE agenda' = Append(agenda, a) \/ agenda' = Append(agenda, d)
      BY <1>1, <1>3, <3>2, <3>5, Continuing
    <3>6. ASSUME NEW u \in Frames, u.op # "delete",
                 \/ agenda' = <<u>> \o Append(agenda, d) \/ agenda' = <<u>> \o agenda
                 \/ agenda' = agenda
          PROVE  Continues(agenda)
      BY <1>1, <1>3, <3>2, <3>6, Continuing
    <3>7. CASE DialRefused(r)
      BY <3>1, <3>5, <3>7 DEF DialRefused
    <3>8. CASE DialDenied(r)
      <4>1. PICK c \in Calls :
              \/ agenda' = Append(agenda, d)
              \/ agenda' = <<QueueRunF(c.peer)>> \o Append(agenda, d)
        BY <3>1, <3>8 DEF DialDenied, QueueStart
      <4>2. c.peer \in Peers
        BY DEF Calls
      <4> QED
        BY <3>3, <3>5, <3>6, <4>1, <4>2
    <3>9. CASE DialQueued(r)
      <4>1. PICK c \in Calls :
              \/ agenda' = <<RunF>> \o agenda \/ agenda' = agenda
              \/ agenda' = <<QueueRunF(c.peer)>> \o agenda
        BY <3>9 DEF DialQueued, QueueStart
      <4>2. c.peer \in Peers
        BY DEF Calls
      <4> QED
        BY <3>3, <3>4, <3>6, <4>1, <4>2
    <3> QED
      BY <1>7, <3>7, <3>8, <3>9
  <2> QED
    BY <1>3, <2>1, <2>2, <2>3, SparedCalmly
<1> QED
  BY <1>5, <1>6, <1>7

(* The steps of a manager and of a queue, but for a new connection. *)
LEMMA QueuesSpare ==
  ASSUME Before, SpareInv,
         \/ Run
         \/ \E p \in Peers :
              QueueRunStops(p) \/ AbortEnds(p) \/ AbortNext(p) \/ QueueRunReuses(p)
  PROVE  SpareInv'
<1>1. agenda \in Seq(Frames)
  BY DEF Before, TypeInv, TypeOK
<1>2. PICK f : /\ Top(f) /\ f.op \in {"run", "_run", "abort"}
               /\ f.op = "abort" => \E p \in Peers : f = AbortF(p) /\ (AbortEnds(p) \/ AbortNext(p))
  <2>1. CASE Run
    BY <2>1, FrameNames DEF Run
  <2>2. ASSUME NEW p \in Peers, QueueRunStops(p) \/ QueueRunReuses(p)
        PROVE  Top(QueueRunF(p)) /\ QueueRunF(p).op = "_run"
    BY <2>2, FrameNames DEF QueueRunStops, QueueRunReuses
  <2>3. ASSUME NEW p \in Peers, AbortEnds(p) \/ AbortNext(p)
        PROVE  Top(AbortF(p)) /\ AbortF(p).op = "abort"
    BY <2>3, FrameNames DEF AbortEnds, AbortNext
  <2> QED
    BY <2>1, <2>2, <2>3
<1>3. agenda # <<>> /\ \A r : ~Top(DisconnectF(r, TRUE))
  <2>1. \A r : ~Top(DisconnectF(r, TRUE))
    BY <1>2, OtherTops
  <2> QED
    BY <1>2, <2>1 DEF Top
<1>4. ASSUME NEW p \in Peers PROVE QueueRunF(p) \in Frames /\ QueueRunF(p).op # "delete"
  BY FrameTypes, FrameNames
<1>5. RunF \in Frames /\ RunF.op # "delete"
  BY FrameTypes, FrameNames
<1>6. \A p \in Peers : queue[p] \in Seq(Requests)
  BY DEF Before, TypeInv, TypeOK
<1>7. CASE Run
  <2>1. UNCHANGED <<call, conn, attached, mgrRunning, denylisted, queue>>
    BY <1>7 DEF Run, requestVars, connVars
  <2>2. \A p : ~Top(AbortF(p))
    BY <1>7, FrameNames DEF Run, Top
  <2>3. Continues(Rest)
    <3>1. PICK w : w = NextWaiting
      OBVIOUS
    <3>2. (agenda' = Rest) \/ (agenda' = <<QueueRunF(w)>> \o Rest /\ w \in queues)
      BY <1>7, <3>1 DEF Run, QueueStart
    <3>3. queues \subseteq Peers
      BY DEF Before, TypeInv, TypeOK
    <3> QED
      BY <1>1, <1>3, <1>4, <3>2, <3>3, Continuing
  <2> QED
    BY <1>3, <2>1, <2>2, <2>3, SparedCalmly
<1>8. ASSUME NEW p \in Peers, QueueRunStops(p) \/ AbortEnds(p) PROVE SpareInv'
  <2>1. /\ UNCHANGED <<call, conn, attached, mgrRunning, denylisted, queue>>
        /\ agenda' = Rest \/ agenda' = <<RunF>> \o Rest
    BY <1>8 DEF QueueRunStops, AbortEnds, QueueStop, requestVars, connVars
  <2>2. Continues(Rest)
    BY <1>1, <1>3, <1>5, <2>1, Continuing
  <2>3. ASSUME NEW q, Top(AbortF(q)) PROVE queue'[q] = <<>>
    <3>1. ~Top(QueueRunF(p))
      BY <2>3, FrameNames DEF Top
    <3>2. AbortEnds(p)
      BY <1>8, <3>1 DEF QueueRunStops
    <3>3. q = p
      BY <2>3, <3>2, FramePeers DEF AbortEnds, Top
    <3> QED
      BY <2>1, <3>2, <3>3 DEF AbortEnds
  <2> QED
    BY <1>3, <2>1, <2>2, <2>3, SparedCalmly
<1>9. ASSUME NEW p \in Peers, AbortNext(p) PROVE SpareInv'
  <2>1. /\ UNCHANGED <<call, conn, attached, mgrRunning, denylisted>> /\ queue[p] # <<>>
        /\ queue' = [queue EXCEPT ![p] = Tail(@)] /\ Top(AbortF(p))
        /\ agenda' = <<CallbackF(Head(queue[p]), "aborted")>> \o agenda
    BY <1>9 DEF AbortNext, requestVars, mgrVars, connVars
  <2>2. PICK c : c = CallbackF(Head(queue[p]), "aborted")
    OBVIOUS
  <2>3. c \in Frames /\ c.op # "delete"
    <3>1. Head(queue[p]) \in Requests
      BY <1>6, <2>1
    <3> QED
      BY <2>2, <3>1, FrameTypes, FrameNames DEF Answers
  <2>4. \A q : ~Top(QueueRunF(q))
    BY <2>1, FrameNames DEF Top
  <2>5. Continues(agenda)
    BY <1>1, <2>1, <2>2, <2>3, <2>4, Continuing
  <2>6. \A q \in Others : queue[q] = <<>> => queue'[q] = <<>>
    BY <2>1 DEF Others, Before, TypeInv, TypeOK
  <2> QED
    BY <1>3, <2>1, <2>5, <2>6, SparedCalmly
<1>10. ASSUME NEW p \in Peers, QueueRunReuses(p) PROVE SpareInv'
  <2>1. PICK r : r = Head(queue[p])
    OBVIOUS
  <2>2. /\ UNCHANGED <<call, conn, attached, mgrRunning, denylisted>> /\ queue[p] # <<>>
        /\ queue' = [queue EXCEPT ![p] = Tail(@)] /\ Top(QueueRunF(p))
        /\ agenda' = ProtocolCallback(r) \o <<QueueRunF(p)>> \o Rest \o FSMTick(r)
    BY <1>10, <2>1 DEF QueueRunReuses, mgrVars, connVars
  <2>3. r \in Requests /\ Rest \in Seq(Frames)
    BY <1>1, <1>6, <2>1, <2>2, RunsNextFacts
  <2>4. PICK u, k, v : u = QueueRunF(p) /\ k = ProtocolCallback(r) /\ v = <<u>>
    OBVIOUS
  <2>5. u \in Frames /\ u.op # "delete"
    BY <1>4, <2>4
  <2>6. PICK c : c = CallbackF(r, "ok")
    OBVIOUS
  <2>7. c \in Frames /\ c.op # "delete"
    BY <2>3, <2>6, FrameTypes, FrameNames DEF Answers
  <2>8. ASSUME NEW a \in Frames, a.op # "delete", NEW w, w = <<a>>
        PROVE  w \in Seq(Frames) /\ \A g \in Elems(w) : g.op # "delete"
    BY <2>8, ShortTurns, PieceElems
  <2>9. ASSUME NEW w, w = <<>>
        PROVE  w \in Seq(Frames) /\ \A g \in Elems(w) : g.op # "delete"
    BY <2>9, ShortTurns, PieceElems
  <2>10. k = <<>> \/ k = <<c>>
    BY <2>3, <2>4, <2>6, TickPieces
  <2>11. /\ k \in Seq(Frames) /\ \A g \in Elems(k) : g.op # "delete"
         /\ v \in Seq(Frames) /\ \A g \in Elems(v) : g.op # "delete"
    BY <2>4, <2>5, <2>7, <2>8, <2>9, <2>10
  <2>12. PICK new, late : new = k \o v /\ late = FSMTick(r)
    OBVIOUS
  <2>13. new \in Seq(Frames) /\ \A g \in Elems(new) : g.op # "delete"
    <3>1. k \o v \in Seq(Frames)
      BY <2>11, Pushing
    <3>2. Elems(k \o v) = Elems(k) \cup Elems(v)
      BY ONLY <2>11, JoinElems
    <3> QED
      BY <2>11, <2>12, <3>1, <3>2
  <2>14. late \in Seq(Frames) /\ \A g \in Elems(late) : g.op = "callback"
    BY <2>3, <2>12, TickPieces
  <2>15. agenda' = (new \o Rest) \o late
    BY <2>2, <2>4, <2>12
  <2>16. Goes(new, Rest, late)
    BY <1>1, <1>3, <2>13, <2>14, <2>15, Going
  <2>17. Continues(Rest)
    <3>1. \A q : DeleteF(q).op = "delete"
      BY FrameNames
    <3> QED
      BY <2>13, <2>16, <3>1 DEF Continues
  <2>18. \A q : ~Top(AbortF(q))
    BY <2>2, FrameNames DEF Top
  <2>19. \A q \in Others : queue[q] = <<>> => queue'[q] = <<>>
    BY <2>2 DEF Others, Before, TypeInv, TypeOK
  <2> QED
    BY <1>3, <2>2, <2>17, <2>18, <2>19, SparedCalmly
<1> QED
  BY <1>7, <1>8, <1>9, <1>10

(* A failure that denies the peer for a while is that of its only attempt,   *)
(* or of a connection over which it has none, and closes it next.            *)
LEMMA OnErrorSpares ==
  ASSUME Before, SpareInv, NEW r \in Requests, OnError(r)
  PROVE  SpareInv'
<1>1. PICK e, p : e = OnErrorF(r) /\ p = PeerOf(r)
  OBVIOUS
<1>2. /\ Top(e) /\ e.op = "onError"
      /\ UNCHANGED <<call, conn, attached, running, queue, mgrRunning>>
  BY <1>1, FrameNames DEF OnError, requestVars, mgrVars, connVars
<1>3. /\ agenda \in Seq(Frames) /\ agenda # <<>> /\ Head(agenda) = e
      /\ Pending = {e} \cup Elems(Rest) /\ Rest \in Seq(Frames)
  BY <1>2, TopOver DEF Before, TypeInv, TypeOK, Top
<1>4. (\A s : ~Top(DisconnectF(s, TRUE))) /\ \A q : ~Top(AbortF(q))
  <2>1. \A q : AbortF(q) # e
    BY <1>2, FrameNames
  <2> QED
    BY <1>2, <2>1, OtherTops DEF Top
<1>5. \/ agenda' = Rest /\ UNCHANGED denylisted
      \/ /\ r \in attached /\ agenda' = Rest
         /\ denylisted' = [denylisted EXCEPT ![p] = "Infinity"]
      \/ /\ r \in attached /\ agenda' = <<AbortF(p)>> \o Rest
         /\ denylisted' = [denylisted EXCEPT ![p] = "until"]
  BY <1>1 DEF OnError, Denylist
<1>6. r \in attached => r \in Of(p) /\ p \in Peers
  <2>1. r \in attached => r \in Issued /\ None \notin Calls
    BY DialerAssumption DEF Before, TypeInv, OnlyIssued
  <2> QED
    BY <1>1, <2>1, PeerTypes DEF Of, Issued
<1>7. PICK a, d : a = AbortF(p) /\ d = DisconnectF(r, TRUE)
  OBVIOUS
<1>8. r \in attached => a \in Frames /\ a.op # "delete"
  BY <1>6, <1>7, FrameTypes, FrameNames
<1>9. Continues(Rest)
  BY <1>3, <1>5, <1>7, <1>8, Continuing
<1>10. /\ \A q : Attempts(q)' = Attempts(q) /\ Of(q)' = Of(q)
       /\ \A s : Active(s)' <=> Active(s)
  BY <1>2 DEF Attempts, Of, PeerOf, Unfinished, Active
<1> SUFFICES ASSUME NEW q \in Others PROVE Spared(q)'
  BY DEF SpareInv
<1>11. CASE denylisted'[q] = denylisted[q]
  BY <1>2, <1>3, <1>4, <1>9, <1>10, <1>11, SparedStays DEF SpareInv
<1>12. CASE denylisted'[q] = "Infinity"
  BY <1>12 DEF Spared
<1>13. CASE denylisted'[q] # denylisted[q] /\ denylisted'[q] # "Infinity"
  <2>1. /\ r \in attached /\ agenda' = <<a>> \o Rest /\ q = p
        /\ denylisted'[p] = "until"
    BY <1>5, <1>7, <1>13 DEF Others, Before, TypeInv, TypeOK
  <2>2. PICK G : G = {d}
    OBVIOUS
  <2>3. Followed(agenda, e, G) /\ Active(r)
    BY <1>1, <1>3, <1>6, <1>7, <2>1, <2>2 DEF Before, TurnOrder, FailInv
  <2>4. d \in Elems(Rest)
    <3>1. Head(agenda) = e => Tail(agenda) # <<>> /\ Head(Tail(agenda)) \in G
      BY <1>3, <2>3, FollowedRest
    <3>2. Rest # <<>> /\ Head(Rest) = d
      BY <1>3, <2>2, <3>1 DEF Rest
    <3> QED
      BY <1>3, <3>2, RestElems
  <2>5. PICK new : new = <<a>>
    OBVIOUS
  <2>6. new \in Seq(Frames) /\ Elems(new) = {a}
    BY <1>8, <2>1, <2>5, ShortTurns, PieceElems
  <2>7. Goes(new, Rest, <<>>)
    BY <1>3, <2>1, <2>5, <2>6, Going
  <2>8. d \in Pending' /\ Over(agenda', a, d)
    BY <1>3, <2>4, <2>6, <2>7, GoesFacts
  <2>9. \A s \in Attempts(p) : s = r
    <3>1. OneAttemptAt(p) /\ r \in Of(p)
      BY <1>6, <2>1 DEF Before, AttemptInv
    <3>2. CASE conn[r] = "muxed"
      BY <2>3, <3>1, <3>2 DEF OneAttemptAt
    <3>3. CASE conn[r] # "muxed"
      <4>1. r \in Attempts(p)
        BY <2>3, <3>1, <3>3 DEF Active, Attempts, Unfinished
      <4> QED
        BY <3>1, <4>1 DEF OneAttemptAt
    <3> QED
      BY <3>2, <3>3
  <2>10. \A s \in Attempts(p)' : DisconnectF(s, TRUE) \in Pending'
    BY <1>7, <1>10, <2>8, <2>9
  <2>11. r \in Of(p)' /\ Active(r)' /\ Over(agenda', AbortF(p), DisconnectF(r, TRUE))
    BY <1>6, <1>7, <1>10, <2>1, <2>3, <2>8
  <2> QED
    BY <2>1, <2>10, <2>11 DEF Spared
<1> QED
  BY <1>11, <1>12, <1>13

(* A connection is closed once: no other failure is due for it. *)
LEMMA DisconnectsSpare ==
  ASSUME Before, SpareInv, NEW r \in Requests, DisconnectMuxed(r) \/ DisconnectNow(r)
  PROVE  SpareInv'
<1>1. PICK b \in BOOLEAN : Top(DisconnectF(r, b))
  BY DEF DisconnectMuxed, DisconnectNow
<1>2. PICK u : u = QueueRunF(PeerOf(r))
  OBVIOUS
<1>3. /\ conn'[r] \in {"closing", "late", "closed"}
      /\ \A s \in Requests : s # r => conn'[s] = conn[s]
      /\ UNCHANGED <<call, attached, mgrRunning, queue, denylisted>>
      /\ agenda' = Rest \/ agenda' = <<u>> \o Rest \/ agenda' = <<>> \o Rest
  BY <1>2 DEF DisconnectMuxed, DisconnectNow, Resume, requestVars, queueVars, mgrVars,
              Before, TypeInv, TypeOK
<1>4. /\ agenda \in Seq(Frames) /\ agenda # <<>> /\ Rest \in Seq(Frames)
      /\ DisconnectF(r, TRUE) \notin Elems(Rest) /\ PeerOf(r) \in Peers
      /\ \A s : s # r => ~Top(DisconnectF(s, TRUE))
  BY <1>1, ClosedOnce
<1>5. Continues(Rest)
  <2>1. u \in Frames /\ u.op # "delete"
    BY <1>2, <1>4, FrameTypes, FrameNames
  <2>2. <<>> \o Rest = Rest
    BY <1>4
  <2> QED
    BY <1>3, <1>4, <2>1, <2>2, Continuing
<1>6. \A q : ~Top(AbortF(q))
  BY <1>1, FrameNames DEF Top
<1>7. /\ ~Unfinished(r)' /\ \A q : Of(q)' = Of(q)
      /\ \A s \in Requests : s # r => (Unfinished(s)' <=> Unfinished(s)) /\ (Active(s)' <=> Active(s))
  BY <1>3 DEF Unfinished, Active, Of, PeerOf
<1> SUFFICES ASSUME NEW q \in Others PROVE Spared(q)'
  BY DEF SpareInv
<1>8. \A s : s \in Attempts(q)' => s \in Attempts(q) /\ s # r
  <2>1. \A s \in Of(q) : s \in Requests
    BY DEF Of
  <2> QED
    BY <1>3, <1>7, <2>1 DEF Attempts
<1>9. \A s \in Of(q) : Active(s) /\ DisconnectF(s, TRUE) \in Elems(Rest) => Active(s)' /\ s \in Of(q)'
  <2>1. \A s \in Of(q) : s \in Requests
    BY DEF Of
  <2> QED
    BY <1>4, <1>7, <2>1
<1> QED
  BY <1>3, <1>4, <1>5, <1>6, <1>8, <1>9, SparedStays DEF SpareInv

(* A queue about to be dropped dials only a peer denied for ever: any other  *)
(* is idle, or waits for the connection that failed to be closed.            *)
LEMMA CreatesSpare ==
  ASSUME Before, SpareInv, NEW p \in Peers, QueueRunCreates(p)
  PROVE  SpareInv'
<1>1. PICK r : r = Head(queue[p])
  OBVIOUS
<1>2. /\ Top(QueueRunF(p)) /\ queue[p] # <<>> /\ p \in running /\ ~HasMuxed(p)
      /\ queue' = [queue EXCEPT ![p] = Tail(@)]
      /\ conn' = [conn EXCEPT ![r] = IF p = Self THEN "idle" ELSE "dialing"]
      /\ attached' = attached \cup {r}
      /\ UNCHANGED <<call, denylisted, mgrRunning>>
  BY <1>1 DEF QueueRunCreates, requestVars, mgrVars
<1>3. PICK now :
        /\ agenda' = now \o Rest \o FSMTick(r)
        /\ now \in {<<>>, <<CallbackF(r, "error"), OnErrorF(r)>>,
                    <<CallbackF(r, "error"), OnErrorF(r), DisconnectF(r, TRUE)>>}
  BY <1>1 DEF QueueRunCreates
<1>4. /\ agenda \in Seq(Frames) /\ agenda # <<>> /\ Rest \in Seq(Frames)
      /\ p \in Others => Attempts(p) = {}
      /\ \A s : ~Top(DisconnectF(s, TRUE))
      /\ r \in Requests /\ r \in Of(p) /\ conn[r] = "none"
  BY <1>1, <1>2, RunsNextFacts
<1>5. \A s \in Requests : s # r => conn'[s] = conn[s] /\ (s \in attached' <=> s \in attached)
  BY <1>2, <1>4 DEF Before, TypeInv, TypeOK
<1>6. Continues(Rest)
  <2>1. PICK c, e, d : c = CallbackF(r, "error") /\ e = OnErrorF(r) /\ d = DisconnectF(r, TRUE)
    OBVIOUS
  <2>2. c \in Frames /\ e \in Frames /\ d \in Frames
    BY <1>4, <2>1, FrameTypes DEF Answers
  <2>3. c.op # "delete" /\ e.op # "delete" /\ d.op # "delete"
    BY <2>1, FrameNames
  <2>4. now \in {<<>>, <<c, e>>, <<c, e, d>>}
    BY <1>3, <2>1
  <2>5. now \in Seq(Frames)
    BY <2>2, <2>4, ShortTurns
  <2>6. Elems(now) \subseteq {c, e, d}
    <3>1. CASE now = <<>>
      BY <3>1, PieceElems
    <3>2. CASE now = <<c, e>>
      BY <3>2, PieceElems
    <3>3. CASE now = <<c, e, d>>
      BY <3>3, PieceElems
    <3> QED
      BY <2>4, <3>1, <3>2, <3>3
  <2>7. PICK late : late = FSMTick(r)
    OBVIOUS
  <2>8. late \in Seq(Frames) /\ \A f \in Elems(late) : f.op = "callback"
    BY <1>4, <2>7, TickPieces
  <2>9. agenda' = (now \o Rest) \o late
    BY <1>3, <2>7
  <2>10. Goes(now, Rest, late)
    BY <1>4, <2>5, <2>8, <2>9, Going
  <2>11. \A q : DeleteF(q).op = "delete"
    BY FrameNames
  <2> QED
    BY <2>3, <2>6, <2>10, <2>11 DEF Continues
<1>7. \A q : ~Top(AbortF(q))
  BY <1>2, FrameNames DEF Top
<1> SUFFICES ASSUME NEW q \in Others PROVE Spared(q)'
  BY DEF SpareInv
<1>8. CASE q # p
  <2>1. r \notin Of(q)
    BY <1>4, <1>8 DEF Of
  <2>2. /\ Attempts(q)' = Attempts(q)
        /\ \A s \in Of(q) : Active(s)' <=> Active(s)
    BY <1>2, <1>5, <2>1, OtherAttempts
  <2>3. queue'[q] = queue[q] /\ Of(q)' = Of(q)
    BY <1>2, <1>8 DEF Of, PeerOf, Others, Before, TypeInv, TypeOK
  <2> QED
    BY <1>2, <1>4, <1>6, <1>7, <2>2, <2>3, SparedStays DEF SpareInv
<1>9. CASE q = p
  <2> SUFFICES ASSUME DeleteF(p) \in Pending', mgrRunning' PROVE denylisted'[p] = "Infinity"
    BY <1>9 DEF Spared
  <2>1. DeleteF(p) \in Pending
    <3>1. PICK new, late : Goes(new, Rest, late) /\ DeleteF(p) \notin Elems(new)
      BY <1>6 DEF Continues
    <3>2. DeleteF(p).op # "callback"
      BY FrameNames
    <3>3. Pending' = Elems(new) \cup Elems(Rest) \cup Elems(late) /\ Elems(Rest) \subseteq Pending
      BY <1>4, <3>1, GoesFacts
    <3>4. \A f \in Elems(late) : f.op = "callback"
      BY <3>1 DEF Goes
    <3> QED
      BY <3>1, <3>2, <3>3, <3>4
  <2>2. PICK i \in DOMAIN agenda : agenda[i] = DeleteF(p)
    BY <2>1 DEF Pending, Elems
  <2>3. Aborts(p, i) \/ Drained(p, i)
    BY <2>2 DEF Before, DropInv
  <2>4. Denied(p)
    BY <1>2, <2>3 DEF Aborts, Drained, Idle
  <2>5. denylisted[p] # "until"
    <3> SUFFICES ASSUME denylisted[p] = "until" PROVE FALSE
      OBVIOUS
    <3>1. PICK s \in Of(p) : Active(s)
      BY <1>2, <1>9, <2>1 DEF SpareInv, Spared
    <3>2. CASE conn[s] = "muxed"
      BY <1>2, <3>2 DEF HasMuxed
    <3>3. CASE conn[s] # "muxed"
      <4>1. s \in Attempts(p)
        BY <3>1, <3>3 DEF Active, Attempts, Unfinished
      <4> QED
        BY <1>4, <1>9, <4>1
    <3> QED
      BY <3>2, <3>3
  <2> QED
    BY <1>2, <2>4, <2>5 DEF Denied
<1> QED
  BY <1>8, <1>9

(* A Queue object that was dropped has no attempt. *)
LEMMA DeleteSpares ==
  ASSUME Before, SpareInv, NEW p \in Peers, Delete(p)
  PROVE  SpareInv'
<1>1. /\ Top(DeleteF(p)) /\ attached' = attached \ Of(p) /\ agenda' = Rest
      /\ denylisted' = [denylisted EXCEPT ![p] = "null"]
      /\ UNCHANGED <<call, conn, queue, mgrRunning>>
  BY DEF Delete, requestVars
<1>2. /\ agenda \in Seq(Frames) /\ agenda # <<>>
      /\ \A q : ~Top(AbortF(q)) /\ \A s : ~Top(DisconnectF(s, TRUE))
  BY <1>1, FrameNames DEF Top, Before, TypeInv, TypeOK
<1>3. Continues(Rest)
  BY <1>1, <1>2, Continuing
<1>4. \A q : Of(q)' = Of(q) /\ \A s : (Unfinished(s)' <=> Unfinished(s))
  BY <1>1 DEF Of, PeerOf, Unfinished
<1> SUFFICES ASSUME NEW q \in Others PROVE Spared(q)'
  BY DEF SpareInv
<1>5. CASE q = p
  <2>1. denylisted'[p] = "null"
    BY <1>1 DEF Before, TypeInv, TypeOK
  <2>2. Attempts(p)' = {}
    BY <1>1, <1>4 DEF Attempts
  <2> QED
    BY <1>5, <2>1, <2>2 DEF Spared
<1>6. CASE q # p
  <2>1. denylisted'[q] = denylisted[q]
    BY <1>1, <1>6 DEF Others, Before, TypeInv, TypeOK
  <2>2. Attempts(q)' \subseteq Attempts(q)
    BY <1>1, <1>4 DEF Attempts
  <2>3. \A s \in Of(q) : s \notin Of(p)
    BY <1>6 DEF Of
  <2>4. \A s \in Of(q) : Active(s) => Active(s)'
    BY <1>1, <2>3 DEF Active
  <2> QED
    BY <1>1, <1>2, <1>3, <1>4, <2>1, <2>2, <2>4, SparedStays DEF SpareInv
<1> QED
  BY <1>5, <1>6

(* What the clean is about to drop is denied for ever, or idle.              *)
LEMMA WalksSpare ==
  ASSUME Before, SpareInv, StopNext \/ CleanNext
  PROVE  SpareInv'
<1>1. UNCHANGED <<call, conn, attached, running, queue, denylisted, mgrRunning>>
  BY DEF StopNext, CleanNext, requestVars, queueVars, mgrVars, connVars
<1>2. agenda \in Seq(Frames)
  BY DEF Before, TypeInv, TypeOK
<1>3. CASE StopNext
  <2>1. PICK P : Top(StopF(P))
    BY <1>3 DEF StopNext
  <2>2. 1 \in DOMAIN agenda /\ agenda[1].op = "stop"
    BY <1>2, <2>1, FrameNames DEF Top
  <2>3. ~mgrRunning
    BY <2>2 DEF Before, TurnInv, StopIsStopped
  <2> QED
    BY <1>1, <2>3 DEF SpareInv, Spared
<1>4. CASE CleanNext
  <2>1. PICK P \in SUBSET Peers :
          /\ Top(CleanF(P))
          /\ \/ agenda' = Rest
             \/ \E p \in P :
                  \/ agenda' = <<CleanF(P \ {p})>> \o Rest
                  \/ /\ Cleanable(p)
                     /\ agenda' = <<AbortF(p), DeleteF(p), CleanF(P \ {p})>> \o Rest
    BY <1>4 DEF CleanNext
  <2>2. PICK f : f = CleanF(P)
    OBVIOUS
  <2>3. /\ Top(f) /\ f.op = "_clean" /\ agenda # <<>> /\ Head(agenda) = f
        /\ Rest \in Seq(Frames) /\ agenda[1] = f
    BY <1>2, <2>1, <2>2, FrameNames, TopOver DEF Top
  <2>4. /\ ~Top(RunF) /\ \A q : ~Top(AbortF(q)) /\ ~Top(DeleteF(q))
        /\ \A s : ~Top(DisconnectF(s, TRUE))
    <3>1. \A q : AbortF(q) # f
      BY <2>3, FrameNames
    <3> QED
      BY <2>3, <3>1, OtherTops DEF Top
  <2>5. ASSUME NEW p \in P, agenda' = <<CleanF(P \ {p})>> \o Rest PROVE Continues(Rest)
    <3>1. PICK w : w = CleanF(P \ {p})
      OBVIOUS
    <3>2. P \ {p} \in SUBSET Peers
      OBVIOUS
    <3>3. w \in Frames /\ w.op # "delete"
      BY <3>1, <3>2, FrameTypes, FrameNames
    <3> QED
      BY <1>2, <2>3, <2>5, <3>1, <3>3, Continuing
  <2>6. CASE Continues(Rest)
    BY <1>1, <2>4, <2>6, SparedCalmly
  <2>7. CASE agenda' = Rest
    BY <1>2, <2>3, <2>6, <2>7, Continuing
  <2>8. ASSUME NEW p \in P, Cleanable(p),
               agenda' = <<AbortF(p), DeleteF(p), CleanF(P \ {p})>> \o Rest,
               NEW q \in Others, DeleteF(q) \in Pending'
        PROVE  q = p
    <3>1. PICK a, d, w : a = AbortF(p) /\ d = DeleteF(p) /\ w = CleanF(P \ {p})
      OBVIOUS
    <3>2. PICK new : new = <<a, d, w>>
      OBVIOUS
    <3>3. a \in Frames /\ d \in Frames /\ w \in Frames
      <4>1. P \ {p} \in SUBSET Peers /\ p \in Peers
        OBVIOUS
      <4> QED
        BY <3>1, <4>1, FrameTypes
    <3>4. new \in Seq(Frames) /\ Elems(new) = {a, d, w}
      BY <3>2, <3>3, ShortTurns, PieceElems
    <3>5. Pending' = Elems(new) \cup Elems(Rest)
      BY <1>2, <2>3, <2>8, <3>1, <3>2, <3>4, PendingFacts
    <3>6. DeleteF(q) \notin Elems(Rest)
      <4> SUFFICES ASSUME NEW j \in DOMAIN Rest, Rest[j] = DeleteF(q) PROVE FALSE
        BY DEF Elems
      <4>1. /\ j + 1 \in DOMAIN agenda /\ 1 \in DOMAIN agenda /\ 1 < j + 1
            /\ agenda[j + 1] = DeleteF(q)
        BY <1>2, <2>3 DEF Rest
      <4>2. DeleteF(q).op = "delete"
        BY FrameNames
      <4>3. Dropping(agenda[j + 1]) /\ Dropping(agenda[1])
        BY <2>3, <4>1, <4>2 DEF Dropping
      <4> QED
        BY <2>3, <4>1, <4>3 DEF Before, TurnInv, OneDrop
    <3>7. DeleteF(q) = d
      <4>1. DeleteF(q) # a /\ DeleteF(q) # w
        BY <3>1, FrameNames
      <4> QED
        BY <2>8, <3>4, <3>5, <3>6, <4>1
    <3> QED
      BY <3>1, <3>7, FramePeers
  <2>9. ASSUME NEW p \in P, Cleanable(p), p \in Others PROVE Spared(p)'
    <3>1. CASE denylisted[p] = "Infinity"
      BY <1>1, <3>1 DEF Spared
    <3>2. CASE denylisted[p] = "null" /\ p \notin running
      <4>1. ~Busy(p) /\ ~Denied(p)
        BY <3>2 DEF Busy, Denied
      <4>2. \A s : ~Ended(p, s)
        BY <2>4, <4>1 DEF Ended
      <4>3. Attempts(p) = {}
        BY <2>9, <4>1, <4>2 DEF Before, AttemptInv, OneAttemptAt
      <4>4. Attempts(p)' = Attempts(p)
        BY <1>1 DEF Attempts, Of, PeerOf, Unfinished
      <4> QED
        BY <1>1, <3>2, <4>3, <4>4 DEF Spared
    <3> QED
      BY <2>9, <3>1, <3>2 DEF Cleanable
  <2>10. ASSUME NEW p \in P, Cleanable(p),
                agenda' = <<AbortF(p), DeleteF(p), CleanF(P \ {p})>> \o Rest
         PROVE  SpareInv'
    <3> SUFFICES ASSUME NEW q \in Others PROVE Spared(q)'
      BY DEF SpareInv
    <3>1. CASE DeleteF(q) \in Pending'
      BY <2>8, <2>9, <2>10, <3>1
    <3>2. CASE DeleteF(q) \notin Pending'
      BY <3>2 DEF Spared
    <3> QED
      BY <3>1, <3>2
  <2> QED
    BY <2>1, <2>5, <2>6, <2>7, <2>10
<1> QED
  BY <1>3, <1>4

(* Outside any turn, and in a fresh turn of the user, nothing is dropped. *)
LEMMA StartsSpare ==
  ASSUME Before, UserTurn \/ EnvStep \/ \E p \in Peers : ClearDenylist(p)
  PROVE  SpareInv'
<1>1. \A p : DeleteF(p).op = "delete"
  BY FrameNames
<1> SUFFICES ASSUME NEW p PROVE DeleteF(p) \notin Pending'
  BY DEF SpareInv, Spared
<1>2. ASSUME agenda' = agenda, \A g \in Pending : g.op # "delete" PROVE DeleteF(p) \notin Pending'
  BY <1>1, <1>2 DEF Pending
<1>3. ASSUME NEW a, agenda' = <<a>>, a.op # "delete" PROVE DeleteF(p) \notin Pending'
  BY <1>1, <1>3, PieceElems DEF Pending
<1>4. CASE UserTurn \/ Clean \/ ManagerStop \/ CloseConnections
  <2>1. PICK a : /\ agenda' = <<a>>
                 /\ \/ a = UserF(FALSE) \/ a = CleanF(queues) \/ a = StopF(queues)
                    \/ a = CloseAllF(AllTracked)
    BY <1>4 DEF UserTurn, Clean, ManagerStop, CloseConnections
  <2>2. a.op # "delete"
    BY <2>1, FrameNames
  <2> QED
    BY <1>3, <2>1, <2>2
<1>5. ASSUME NEW r \in Requests,
             \/ AttemptFails(r) \/ ShakeEnds(r) \/ IdentifyFails(r) \/ MuxerCloses(r)
      PROVE  DeleteF(p) \notin Pending'
  <2>1. PICK c, e, d : c = CallbackF(r, "error") /\ e = OnErrorF(r) /\ d = DisconnectF(r, TRUE)
    OBVIOUS
  <2>2. PICK k : k = CallbackF(r, "ok")
    OBVIOUS
  <2>3. c.op # "delete" /\ e.op # "delete" /\ d.op # "delete" /\ k.op # "delete"
    BY <2>1, <2>2, FrameNames
  <2>4. agenda' = <<c, e, d>> \/ agenda' = <<d>> \/ agenda' = <<c>> \/ agenda' = <<k>>
    BY <1>5, <2>1, <2>2 DEF AttemptFails, ShakeEnds, IdentifyFails, MuxerCloses
  <2>5. CASE agenda' = <<c, e, d>>
    BY <1>1, <2>3, <2>5, PieceElems DEF Pending
  <2> QED
    BY <1>3, <2>3, <2>4, <2>5
<1>6. ASSUME NEW r \in Requests, Muxes(r) \/ Unmuxes(r) PROVE DeleteF(p) \notin Pending'
  <2>1. PICK c, u : c = CallbackF(r, "ok") /\ u = QueueRunF(PeerOf(r))
    OBVIOUS
  <2>2. call[r] \in Calls
    BY <1>6 DEF Muxes, Unmuxes, Before, TypeInv, TypeOK, PlaceInv, PlacesHold
  <2>3. c \in Frames /\ u \in Frames /\ c.op # "delete" /\ u.op # "delete"
    BY <2>1, <2>2, FrameTypes, FrameNames DEF Answers, PeerOf, Calls
  <2>4. PICK a, b : a = ProtocolCallback(r) /\ b = Resume(r)
    OBVIOUS
  <2>5. ASSUME NEW g \in Frames, g.op # "delete", NEW w, w = <<g>>
        PROVE  w \in Seq(Frames) /\ DeleteF(p) \notin Elems(w)
    BY <1>1, <2>5, ShortTurns, PieceElems
  <2>6. ASSUME NEW w, w = <<>> PROVE w \in Seq(Frames) /\ DeleteF(p) \notin Elems(w)
    BY <2>6, ShortTurns, PieceElems
  <2>7. (a = <<>> \/ a = <<c>>) /\ (b = <<>> \/ b = <<u>>)
    BY <2>1, <2>4, TickPieces DEF Resume
  <2>8. /\ a \in Seq(Frames) /\ DeleteF(p) \notin Elems(a)
        /\ b \in Seq(Frames) /\ DeleteF(p) \notin Elems(b)
    BY <2>3, <2>5, <2>6, <2>7
  <2>9. agenda' = a \o b
    BY <1>6, <2>4 DEF Muxes, Unmuxes
  <2>10. Elems(a \o b) = Elems(a) \cup Elems(b)
    BY ONLY <2>8, JoinElems
  <2> QED
    BY <2>8, <2>9, <2>10 DEF Pending
<1>7. CASE \/ ManagerStart
           \/ \E r \in Requests :
                TransportConnects(r) \/ Identified(r) \/ MuxerEnds(r) \/ LateConnect(r)
           \/ \E q \in Peers :
                InboundMuxes(q) \/ InboundCloses(q) \/ InboundEnds(q) \/ DenyExpires(q)
  <2>1. agenda = <<>> /\ agenda' = agenda
    BY <1>7 DEF ManagerStart, TransportConnects, Identified, MuxerEnds, LateConnect,
                InboundMuxes, InboundCloses, InboundEnds, DenyExpires, Quiet
  <2> QED
    BY <1>2, <2>1, QuietFacts
<1>8. CASE \E q \in Peers : ClearDenylist(q)
  <2>1. MayCall("clearDenylist") /\ agenda' = agenda /\ "clearDenylist" \notin NestedCalls
    BY <1>8 DEF ClearDenylist, Before, NoClosing
  <2> QED
    BY <1>2, <2>1, FreshUser
<1> QED
  BY <1>4, <1>5, <1>6, <1>7, <1>8 DEF EnvStep, AttemptStep

(* Every step keeps it. *)
LEMMA NextSpares ==
  ASSUME Before, SpareInv, [Next]_vars
  PROVE  SpareInv'
<1>1. CASE UNCHANGED vars
  <2>1. UNCHANGED <<call, queue, denylisted, mgrRunning, conn, attached, agenda>>
    BY <1>1 DEF vars, requestVars, queueVars, mgrVars, connVars
  <2> QED
    BY <2>1 DEF SpareInv, Spared, Attempts, Active, Unfinished, Of, PeerOf, Pending
<1>2. CASE TurnStep
  <2>1. ASSUME NEW p \in Peers, PeerStep(p) PROVE SpareInv'
    BY <2>1, QueuesSpare, CreatesSpare, DeleteSpares DEF PeerStep
  <2>2. ASSUME NEW r \in Requests, RequestStep(r) PROVE SpareInv'
    BY <2>2, OnErrorSpares, DisconnectsSpare DEF RequestStep
  <2> QED
    BY <1>2, <2>1, <2>2, QueuesSpare, CallsSpare, WalksSpare DEF TurnStep
<1>3. CASE UserStep
  <2>1. ASSUME NEW r \in Requests, UserCloses(r) PROVE FALSE
    BY <2>1 DEF UserCloses, Before, NoClosing
  <2> QED
    BY <1>3, <2>1, StartsSpare, CallsSpare DEF UserStep
<1>4. CASE EnvStep
  BY <1>4, StartsSpare
<1> QED
  BY <1>1, <1>2, <1>3, <1>4 DEF Next

(* Only dropping its Queue object takes an attempt away from it. *)
LEMMA TakenAway ==
  ASSUME Next, NEW r \in attached, r \notin attached'
  PROVE  \E p \in Peers : Delete(p) /\ r \in Of(p)
<1>1. attached' # attached /\ ~(attached \subseteq attached')
  OBVIOUS
<1>2. ASSUME NEW p \in Peers, PeerStep(p) PROVE Delete(p)
  BY <1>1, <1>2 DEF PeerStep, QueueRunStops, QueueRunReuses, QueueRunCreates, AbortNext,
                    AbortEnds, connVars
<1>3. ~\E s \in Requests : RequestStep(s)
  BY <1>1 DEF RequestStep, OnError, DisconnectMuxed, DisconnectNow, connVars
<1>4. ~UserStep
  BY <1>1 DEF UserStep, UserTurn, DialRefused, DialDenied, DialQueued, UserCloses, HangUp,
              ClearDenylist, connVars
<1>5. ~EnvStep
  BY <1>1 DEF EnvStep, AttemptStep, TransportConnects, AttemptFails, Muxes, Unmuxes, ShakeEnds,
              Identified, IdentifyFails, MuxerCloses, MuxerEnds, LateConnect, InboundMuxes,
              InboundCloses, InboundEnds, DenyExpires, Clean, ManagerStop, CloseConnections,
              ManagerStart, connVars
<1>6. PICK p \in Peers : Delete(p)
  BY <1>1, <1>2, <1>3, <1>4, <1>5 DEF Next, TurnStep, Run, Callback, CloseAll, StopNext,
                                      CleanNext, UserReturn, connVars
<1>7. r \in Of(p)
  BY <1>6 DEF Delete
<1> QED
  BY <1>6, <1>7

(* The Queue object of a dial under way is dropped only by a stop of the     *)
(* manager, or when its peer is denied for ever: the periodic clean, which   *)
(* runs callbacks between its check of a queue and the removal, takes no     *)
(* other dial away.                                                          *)
THEOREM CleanSparesAttemptsHolds ==
  ASSUME NoClosing
  PROVE  Spec => CleanSparesAttempts
<1>1. Init => DropInv /\ SpareInv
  <2> SUFFICES ASSUME Init PROVE DropInv /\ SpareInv
    OBVIOUS
  <2>1. agenda = <<>>
    BY DEF Init
  <2>2. Pending = {}
    BY <2>1, QuietFacts
  <2>3. SpareInv
    BY <2>2 DEF SpareInv, Spared
  <2>4. DropInv
    BY <2>1 DEF DropInv
  <2> QED
    BY <2>3, <2>4
<1>2. /\ TypeInv /\ TypeInv' /\ TurnInv /\ PlaceInv /\ TurnOrder /\ AttemptInv
      /\ DropInv /\ SpareInv /\ [Next]_vars
      => DropInv' /\ SpareInv'
  <2> SUFFICES ASSUME TypeInv, TypeInv', TurnInv, PlaceInv, TurnOrder, AttemptInv,
                      DropInv, SpareInv, [Next]_vars
               PROVE  DropInv' /\ SpareInv'
    OBVIOUS
  <2>1. SpareInv'
    BY NextSpares DEF Before
  <2>2. CASE Next
    BY <2>1, <2>2, NextKeepsBoth DEF NoClosing
  <2>3. CASE UNCHANGED vars
    <3>1. DropInv'
      BY <2>3 DEF vars, mgrVars, queueVars, DropInv, Aborts, Drained, Woken, Denied, Idle
    <3> QED
      BY <2>1, <3>1
  <2> QED
    BY <2>2, <2>3
<1>3. /\ TypeInv /\ TurnInv /\ PlaceInv /\ TurnOrder /\ AttemptInv /\ DropInv /\ SpareInv
      /\ [Next]_vars
      => [\A r \in attached \ attached' :
            Unfinished(r) => ~mgrRunning \/ denylisted[PeerOf(r)] = "Infinity"]_vars
  <2> SUFFICES ASSUME TypeInv, TurnInv, PlaceInv, TurnOrder, AttemptInv, DropInv, SpareInv, Next,
                      NEW r \in attached \ attached', Unfinished(r), mgrRunning
               PROVE  denylisted[PeerOf(r)] = "Infinity"
    OBVIOUS
  <2>1. PICK p \in Peers : Delete(p) /\ r \in Of(p)
    BY TakenAway
  <2>2. p = PeerOf(r) /\ p \in Others /\ r \in Attempts(p)
    BY <2>1 DEF Of, Others, Attempts, AttemptInv, SelfInv
  <2>3. PICK f, d : f = DeleteF(p) /\ d = DisconnectF(r, TRUE)
    OBVIOUS
  <2>4. Top(f) /\ Base(f) /\ Inner(d) /\ f # d
    BY <2>1, <2>3, FrameOrders DEF Delete
  <2>5. Pending = {f} \cup Elems(Rest)
    BY <2>4, TopOver DEF TypeInv, TypeOK
  <2>6. d \notin Pending
    <3>1. \A g \in Elems(Rest) : ~Inner(g)
      BY <2>4, BeneathBase DEF Before
    <3> QED
      BY <2>4, <2>5, <3>1
  <2> QED
    BY <2>2, <2>3, <2>5, <2>6 DEF SpareInv, Spared
<1> QED
  BY <1>1, <1>2, <1>3, TypeInvariant, TurnInvariant, PlaceInvariant, AttemptInvariant, PTL
     DEF Spec, CleanSparesAttempts
=============================================================================
