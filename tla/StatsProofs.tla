---------------------------- MODULE StatsProofs ----------------------------
(***************************************************************************)
(* Proofs about the statistics, for any numbers of peers, tags and         *)
(* messages and any throttling: how long an operation waits for its        *)
(* update, and which timers run.                                           *)
(***************************************************************************)
EXTENDS Stats, ArrayProofs, Functions, FiniteSets, FiniteSetTheorems

-----------------------------------------------------------------------------
(* Sums over the values of a function, SumFunctionOnSet: of no element, of   *)
(* one more, of one that changed.  As for arrays, the induction is on a      *)
(* least number, here the least size of a set for which the claim fails.     *)

(* The sum over s, given the sums over its subsets. *)
Sums(it, f, s) ==
  IF s = {} THEN 0 ELSE LET x == CHOOSE x \in s : TRUE IN f[x] + it[s \ {x}]

(* The sum of the library is a value of a chosen function on the subsets. *)
LEMMA SumIsChosen ==
  ASSUME NEW f, NEW S
  PROVE  SumFunctionOnSet(f, S) =
           (CHOOSE it : it = [s \in SUBSET S |-> Sums(it, f, s)])[S]
BY DEF SumFunctionOnSet, FoldFunctionOnSet, MapThenFoldSet, Sums

-----------------------------------------------------------------------------
(* Induction, over the members of a set instead of a predicate.             *)

(* A set with 0 and the successor of each of its numbers holds them all. *)
LEMMA NumberInduction ==
  ASSUME NEW C, 0 \in C, \A n \in Nat : n \in C => n + 1 \in C
  PROVE  Nat \subseteq C
<1> SUFFICES ASSUME NEW x \in Nat, x \notin C PROVE FALSE
  OBVIOUS
<1> DEFINE N == {n \in Nat : n \notin C}
<1>1. N \in SUBSET Nat /\ N # {}
  OBVIOUS
<1>2. PICK m \in N : \A k \in N : m <= k
  <2> HIDE DEF N
  <2> QED
    BY <1>1, LeastNumber
<1>3. m # 0 /\ m \in Nat /\ m \notin C
  BY <1>2
<1>4. m - 1 \in Nat /\ ~(m <= m - 1) /\ (m - 1) + 1 = m
  BY <1>3
<1>5. m - 1 \in C
  BY <1>2, <1>4
<1> QED
  BY <1>3, <1>4, <1>5

(* A set that holds each finite set whose proper subsets it holds has all.  *)
LEMMA SetInduction ==
  ASSUME NEW S, IsFiniteSet(S), NEW C,
         \A T \in SUBSET S : (\A U \in SUBSET T : U # T => U \in C) => T \in C
  PROVE  SUBSET S \subseteq C
<1> SUFFICES ASSUME NEW V \in SUBSET S, V \notin C PROVE FALSE
  OBVIOUS
<1> DEFINE N == {n \in Nat : \E T \in SUBSET S : T \notin C /\ Cardinality(T) = n}
<1>1. \A T \in SUBSET S : IsFiniteSet(T) /\ Cardinality(T) \in Nat
  BY FS_Subset, FS_CardinalityType
<1>2. N \in SUBSET Nat /\ N # {}
  BY <1>1
<1>3. PICK m \in N : \A k \in N : m <= k
  <2> HIDE DEF N
  <2> QED
    BY <1>2, LeastNumber
<1>4. PICK T \in SUBSET S : T \notin C /\ Cardinality(T) = m
  BY <1>3
<1>5. ASSUME NEW U \in SUBSET T, U # T
      PROVE  U \in C
  <2>1. U \in SUBSET S /\ Cardinality(U) \in Nat /\ m \in Nat
    BY <1>1, <1>4
  <2>2. Cardinality(U) <= m /\ Cardinality(U) # m
    BY <1>1, <1>4, <1>5, FS_Subset
  <2>3. Cardinality(U) \notin N
    <3>1. ~(m <= Cardinality(U))
      BY <2>1, <2>2
    <3> QED
      BY <1>3, <3>1
  <2> QED
    BY <2>1, <2>3
<1> QED
  BY <1>4, <1>5

-----------------------------------------------------------------------------
(* The function that SumFunctionOnSet takes its value from.                 *)

(* A function that gives each subset its sum exists. *)
LEMMA SumsExist ==
  ASSUME NEW f, NEW S, IsFiniteSet(S)
  PROVE  \E it : it = [s \in SUBSET S |-> Sums(it, f, s)]
<1> DEFINE Upto(it, n) == \A s \in SUBSET S : Cardinality(s) <= n => it[s] = Sums(it, f, s)
           C == {n \in Nat : \E it : Upto(it, n)}
<1>1. \A s \in SUBSET S : /\ IsFiniteSet(s) /\ Cardinality(s) \in Nat
                          /\ Cardinality(s) <= Cardinality(S) /\ Cardinality(S) \in Nat
                          /\ Cardinality(s) = 0 <=> s = {}
  BY FS_Subset, FS_CardinalityType, FS_EmptySet
<1>2. 0 \in C
  <2>1. Upto([s \in SUBSET S |-> 0], 0)
    BY <1>1 DEF Sums
  <2> QED
    BY <2>1
<1>3. ASSUME NEW n \in Nat, n \in C
      PROVE  n + 1 \in C
  <2>1. PICK it : Upto(it, n)
    BY <1>3
  <2> DEFINE g == [s \in SUBSET S |-> IF Cardinality(s) <= n THEN it[s] ELSE Sums(it, f, s)]
  <2>2. ASSUME NEW s \in SUBSET S, Cardinality(s) <= n + 1
        PROVE  g[s] = Sums(g, f, s)
    <3>1. g[s] = Sums(it, f, s)
      BY <2>1
    <3>2. CASE s = {}
      BY <3>1, <3>2 DEF Sums
    <3>3. CASE s # {}
      <4> DEFINE x == CHOOSE x \in s : TRUE
      <4>1. x \in s
        BY <3>3
      <4> HIDE DEF x
      <4>2. Cardinality(s \ {x}) <= n /\ s \ {x} \in SUBSET S
        BY <1>1, <2>2, <4>1, FS_RemoveElement
      <4>3. g[s \ {x}] = it[s \ {x}]
        BY <4>2
      <4> QED
        BY <3>1, <3>3, <4>3 DEF Sums, x
    <3> QED
      BY <3>2, <3>3
  <2> HIDE DEF g
  <2>3. Upto(g, n + 1)
    BY <2>2
  <2> QED
    BY <2>3
<1>4. Cardinality(S) \in C
  <2> HIDE DEF C
  <2>1. Nat \subseteq C
    BY <1>2, <1>3, NumberInduction
  <2> QED
    BY <1>1, <2>1
<1>5. PICK it : Upto(it, Cardinality(S))
  BY <1>4
<1> DEFINE sums == [s \in SUBSET S |-> it[s]]
<1>6. \A s \in SUBSET S : sums[s] = Sums(it, f, s)
  BY <1>1, <1>5
<1>7. ASSUME NEW s \in SUBSET S
      PROVE  Sums(it, f, s) = Sums(sums, f, s)
  <2>1. \A x : s \ {x} \in SUBSET S
    OBVIOUS
  <2> QED
    BY <2>1 DEF Sums
<1>8. sums = [s \in SUBSET S |-> Sums(sums, f, s)]
  <2>1. sums = [s \in SUBSET S |-> sums[s]]
    OBVIOUS
  <2> HIDE DEF sums
  <2> QED
    BY <1>6, <1>7, <2>1
<1> QED
  BY <1>8

AreSums(it, f, S) == \A s \in SUBSET S : it[s] = Sums(it, f, s)

(* Two such functions agree where what they sum up does. *)
LEMMA SumsAgree ==
  ASSUME NEW f, NEW g, NEW it, NEW jt, NEW S, IsFiniteSet(S),
         AreSums(it, f, S), AreSums(jt, g, S), \A x \in S : f[x] = g[x]
  PROVE  \A s \in SUBSET S : it[s] = jt[s]
<1> DEFINE C == {s \in SUBSET S : it[s] = jt[s]}
<1>1. ASSUME NEW T \in SUBSET S, \A U \in SUBSET T : U # T => U \in C
      PROVE  T \in C
  <2>1. it[T] = Sums(it, f, T) /\ jt[T] = Sums(jt, g, T)
    BY DEF AreSums
  <2>2. CASE T = {}
    BY <2>1, <2>2 DEF Sums
  <2>3. CASE T # {}
    <3> DEFINE x == CHOOSE x \in T : TRUE
    <3>1. x \in T
      BY <2>3
    <3> HIDE DEF x
    <3>2. it[T \ {x}] = jt[T \ {x}]
      BY <1>1, <3>1
    <3> QED
      BY <2>1, <2>3, <3>1, <3>2 DEF Sums, x
  <2> QED
    BY <2>2, <2>3
<1> HIDE DEF C
<1>2. SUBSET S \subseteq C
  BY <1>1, SetInduction
<1> QED
  BY <1>2 DEF C

(* The sum of the library is the value of such a function. *)
LEMMA SumIs ==
  ASSUME NEW f, NEW S, IsFiniteSet(S)
  PROVE  \E it : AreSums(it, f, S) /\ SumFunctionOnSet(f, S) = it[S]
<1> DEFINE Is(it) == it = [s \in SUBSET S |-> Sums(it, f, s)]
           it == CHOOSE it : Is(it)
<1>1. \E jt : Is(jt)
  BY SumsExist
<1>2. SumFunctionOnSet(f, S) = it[S]
  BY SumIsChosen
<1> HIDE DEF Is
<1>3. Is(it)
  BY <1>1
<1> HIDE DEF it
<1>4. AreSums(it, f, S)
  BY <1>3 DEF Is, AreSums
<1> QED
  BY <1>2, <1>4

(* Such a function gives the sum over every subset. *)
LEMMA SumsAreSums ==
  ASSUME NEW f, NEW it, NEW S, IsFiniteSet(S), AreSums(it, f, S), NEW s \in SUBSET S
  PROVE  it[s] = SumFunctionOnSet(f, s)
<1>1. IsFiniteSet(s)
  BY FS_Subset
<1>2. PICK jt : AreSums(jt, f, s) /\ SumFunctionOnSet(f, s) = jt[s]
  BY <1>1, SumIs
<1>3. AreSums(it, f, s)
  BY DEF AreSums
<1> QED
  BY <1>1, <1>2, <1>3, SumsAgree

-----------------------------------------------------------------------------
(* Sums.                                                                    *)

(* The sum over no elements is zero. *)
LEMMA SumOfNone ==
  ASSUME NEW f
  PROVE  SumFunctionOnSet(f, {}) = 0
<1>1. PICK it : AreSums(it, f, {}) /\ SumFunctionOnSet(f, {}) = it[{}]
  BY SumIs, FS_EmptySet
<1> QED
  BY <1>1 DEF AreSums, Sums

(* The sum depends on the values of the function on the set only. *)
LEMMA SumOfSame ==
  ASSUME NEW f, NEW g, NEW S, IsFiniteSet(S), \A x \in S : f[x] = g[x]
  PROVE  SumFunctionOnSet(f, S) = SumFunctionOnSet(g, S)
<1>1. PICK it : AreSums(it, f, S) /\ SumFunctionOnSet(f, S) = it[S]
  BY SumIs
<1>2. PICK jt : AreSums(jt, g, S) /\ SumFunctionOnSet(g, S) = jt[S]
  BY SumIs
<1> QED
  BY <1>1, <1>2, SumsAgree

(* The sum over the chosen element and the others. *)
LEMMA SumOfChosen ==
  ASSUME NEW f, NEW S, IsFiniteSet(S), S # {}
  PROVE  \E x \in S : SumFunctionOnSet(f, S) = f[x] + SumFunctionOnSet(f, S \ {x})
<1>1. PICK it : AreSums(it, f, S) /\ SumFunctionOnSet(f, S) = it[S]
  BY SumIs
<1> DEFINE x == CHOOSE x \in S : TRUE
<1>2. it[S] = f[x] + it[S \ {x}]
  BY <1>1 DEF AreSums, Sums
<1>3. x \in S
  OBVIOUS
<1> HIDE DEF x
<1>4. it[S \ {x}] = SumFunctionOnSet(f, S \ {x})
  BY <1>1, SumsAreSums
<1> QED
  BY <1>1, <1>2, <1>3, <1>4

(* A sum of natural numbers is one. *)
LEMMA SumIsNat ==
  ASSUME NEW f, NEW S, IsFiniteSet(S), \A x \in S : f[x] \in Nat
  PROVE  SumFunctionOnSet(f, S) \in Nat
<1> DEFINE C == {s \in SUBSET S : SumFunctionOnSet(f, s) \in Nat}
<1>1. ASSUME NEW T \in SUBSET S, \A U \in SUBSET T : U # T => U \in C
      PROVE  T \in C
  <2>1. CASE T = {}
    BY <2>1, SumOfNone
  <2>2. CASE T # {}
    <3>1. PICK x \in T : SumFunctionOnSet(f, T) = f[x] + SumFunctionOnSet(f, T \ {x})
      BY <2>2, SumOfChosen, FS_Subset
    <3>2. T \ {x} \in C
      BY <1>1, <3>1
    <3> QED
      BY <3>1, <3>2
  <2> QED
    BY <2>1, <2>2
<1> HIDE DEF C
<1>2. SUBSET S \subseteq C
  BY <1>1, SetInduction
<1> QED
  BY <1>2 DEF C

(* Any element may be summed up first. *)
LEMMA SumOfAny ==
  ASSUME NEW f, NEW S, IsFiniteSet(S), \A x \in S : f[x] \in Nat, NEW y \in S
  PROVE  SumFunctionOnSet(f, S) = f[y] + SumFunctionOnSet(f, S \ {y})
<1> DEFINE Sum(s) == SumFunctionOnSet(f, s)
           C == {s \in SUBSET S : \A z \in s : Sum(s) = f[z] + Sum(s \ {z})}
<1>1. \A s \in SUBSET S : IsFiniteSet(s) /\ Sum(s) \in Nat
  BY FS_Subset, SumIsNat
<1>2. ASSUME NEW T \in SUBSET S, \A U \in SUBSET T : U # T => U \in C, NEW z \in T
      PROVE  Sum(T) = f[z] + Sum(T \ {z})
  <2>1. PICK x \in T : Sum(T) = f[x] + Sum(T \ {x})
    BY <1>1, SumOfChosen
  <2> HIDE DEF Sum
  <2>2. CASE x = z
    BY <2>1, <2>2
  <2>3. CASE x # z
    <3>1. T \ {x} \in C /\ T \ {z} \in C
      BY <1>2, <2>1
    <3>2. /\ Sum(T \ {x}) = f[z] + Sum((T \ {x}) \ {z})
          /\ Sum(T \ {z}) = f[x] + Sum((T \ {z}) \ {x})
      BY <2>1, <2>3, <3>1
    <3>3. (T \ {x}) \ {z} = (T \ {z}) \ {x} /\ (T \ {z}) \ {x} \in SUBSET S
      OBVIOUS
    <3>4. Sum((T \ {z}) \ {x}) \in Nat /\ f[x] \in Nat /\ f[z] \in Nat
      BY <1>1, <2>1, <3>3
    <3> QED
      BY <2>1, <3>2, <3>3, <3>4
  <2> QED
    BY <2>2, <2>3
<1> HIDE DEF Sum
<1>3. \A T \in SUBSET S : (\A U \in SUBSET T : U # T => U \in C) => T \in C
  BY <1>2
<1> HIDE DEF C
<1>4. SUBSET S \subseteq C
  BY <1>3, SetInduction
<1>5. Sum(S) = f[y] + Sum(S \ {y})
  BY <1>4 DEF C
<1> QED
  BY <1>5 DEF Sum

(* One value that changes changes the sum by as much. *)
LEMMA SumOfChanged ==
  ASSUME NEW f, NEW g, NEW S, IsFiniteSet(S), NEW y \in S,
         \A x \in S : f[x] \in Nat /\ g[x] \in Nat,
         \A x \in S : x # y => g[x] = f[x]
  PROVE  SumFunctionOnSet(g, S) + f[y] = SumFunctionOnSet(f, S) + g[y]
<1>1. IsFiniteSet(S \ {y})
  BY FS_RemoveElement
<1>2. SumFunctionOnSet(f, S \ {y}) = SumFunctionOnSet(g, S \ {y})
  BY <1>1, SumOfSame
<1>3. SumFunctionOnSet(f, S \ {y}) \in Nat
  BY <1>1, SumIsNat
<1>4. /\ SumFunctionOnSet(f, S) = f[y] + SumFunctionOnSet(f, S \ {y})
      /\ SumFunctionOnSet(g, S) = g[y] + SumFunctionOnSet(g, S \ {y})
  BY SumOfAny
<1> QED
  BY <1>2, <1>3, <1>4

(* The values of some elements become nothing, and the sum of the others. *)
LEMMA SumOfRest ==
  ASSUME NEW f, NEW S, IsFiniteSet(S), \A x \in S : f[x] \in Nat, NEW G \in SUBSET S
  PROVE  SumFunctionOnSet(f, S)
           = SumFunctionOnSet([x \in S |-> IF x \in G THEN 0 ELSE f[x]], S)
               + SumFunctionOnSet(f, G)
<1> DEFINE cut(H) == [x \in S |-> IF x \in H THEN 0 ELSE f[x]]
           Sum(h, H) == SumFunctionOnSet(h, H)
           C == {H \in SUBSET G : Sum(f, S) = Sum(cut(H), S) + Sum(f, H)}
<1>1. \A H \in SUBSET G : IsFiniteSet(H) /\ Sum(f, H) \in Nat /\ Sum(cut(H), S) \in Nat
  BY FS_Subset, SumIsNat
<1>2. Sum(f, S) \in Nat
  BY SumIsNat
<1>3. ASSUME NEW T \in SUBSET G, \A U \in SUBSET T : U # T => U \in C
      PROVE  Sum(f, S) = Sum(cut(T), S) + Sum(f, T)
  <2>1. CASE T = {}
    <3>1. Sum(cut({}), S) = Sum(f, S)
      BY SumOfSame
    <3> QED
      BY <1>2, <2>1, <3>1, SumOfNone
  <2>2. CASE T # {}
    <3>1. PICK y \in T : TRUE
      BY <2>2
    <3> DEFINE U == T \ {y}
    <3>2. Sum(f, S) = Sum(cut(U), S) + Sum(f, U)
      BY <1>3, <3>1
    <3>3. Sum(f, T) = f[y] + Sum(f, U)
      <4>1. IsFiniteSet(T) /\ \A x \in T : f[x] \in Nat
        BY <1>1
      <4> QED
        BY <3>1, <4>1, SumOfAny
    <3>4. Sum(cut(T), S) + cut(U)[y] = Sum(cut(U), S) + cut(T)[y]
      BY <3>1, SumOfChanged
    <3>5. cut(U)[y] = f[y] /\ cut(T)[y] = 0 /\ f[y] \in Nat
      BY <3>1
    <3>6. /\ Sum(f, U) \in Nat /\ Sum(cut(U), S) \in Nat
          /\ Sum(f, T) \in Nat /\ Sum(cut(T), S) \in Nat
      BY <1>1
    <3> HIDE DEF Sum, cut, U
    <3> QED
      BY <1>2, <3>2, <3>3, <3>4, <3>5, <3>6
  <2> QED
    BY <2>1, <2>2
<1>4. \A T \in SUBSET G : (\A U \in SUBSET T : U # T => U \in C) => T \in C
  BY <1>3
<1>5. IsFiniteSet(G)
  BY FS_Subset
<1> HIDE DEF C
<1>6. SUBSET G \subseteq C
  BY <1>4, <1>5, SetInduction
<1> QED
  BY <1>6 DEF C

(* A sum of zeros is zero. *)
LEMMA SumOfZeros ==
  ASSUME NEW S, IsFiniteSet(S)
  PROVE  SumFunctionOnSet([x \in S |-> 0], S) = 0
<1> DEFINE zero == [x \in S |-> 0]
<1>1. /\ \A x \in S : zero[x] \in Nat /\ zero[x] = 0
      /\ zero = [x \in S |-> IF x \in S THEN 0 ELSE zero[x]]
  OBVIOUS
<1> HIDE DEF zero
<1>2. SumFunctionOnSet(zero, S)
        = SumFunctionOnSet([x \in S |-> IF x \in S THEN 0 ELSE zero[x]], S)
            + SumFunctionOnSet(zero, S)
  BY <1>1, SumOfRest
<1>3. SumFunctionOnSet(zero, S) = SumFunctionOnSet(zero, S) + SumFunctionOnSet(zero, S)
  BY <1>1, <1>2, Zenon
<1>4. SumFunctionOnSet(zero, S) \in Nat
  BY <1>1, SumIsNat
<1>5. \A k \in Nat : k = k + k => k = 0
  OBVIOUS
<1>6. SumFunctionOnSet(zero, S) = 0
  BY <1>3, <1>4, <1>5, Zenon
<1> QED
  BY <1>6 DEF zero

-----------------------------------------------------------------------------
(* How long an operation waits.                                             *)

(* Twice the sum of MaxQueue - k for the k from 1 to n, which grows no more *)
(* once n reaches MaxQueue: in units of Timeout \div (2 * MaxQueue), the    *)
(* time that a queue which grew to n operations may have waited.            *)
Waits(n) ==
  IF n >= MaxQueue THEN MaxQueue * (MaxQueue - 1)
                   ELSE n * (2 * MaxQueue - n - 1)

(* What a stat has waited and what its timer has left are within what the   *)
(* operations in its queue account for.                                     *)
Timely(s) ==
  /\ s \in [queued : Nat, applied : Nat, armed : BOOLEAN, due : Nat, age : Nat]
  /\ (2 * MaxQueue) * (s.age + s.due) <= Timeout * Waits(s.queued)

-----------------------------------------------------------------------------
(* Arithmetic of the throttle.                                              *)

(* Products of natural numbers and their order. *)
LEMMA Products ==
  /\ \A a, b \in Nat : a * b \in Nat
  /\ \A a, b, c \in Nat : a <= b => c * a <= c * b
  /\ \A a, b \in Nat, c \in Nat \ {0} : c * a <= c * b => a <= b
OBVIOUS

(* The quotient is rounded down. *)
LEMMA Quotients ==
  ASSUME NEW a \in Nat, NEW b \in Nat \ {0}
  PROVE  a \div b \in Nat /\ b * (a \div b) <= a
OBVIOUS

(* What the operations of a queue account for: nothing for none, ever more up *)
(* to the limit of the queue, and for each as much as the timeout it gets.    *)
LEMMA WaitsFacts ==
  /\ Waits(0) = 0
  /\ \A n \in Nat : Waits(n) \in Nat /\ Waits(n) <= MaxQueue * (MaxQueue - 1)
  /\ \A n \in Nat : Waits(n) <= Waits(n + 1)
  /\ \A n \in Nat : n < MaxQueue => Waits(n + 1) = Waits(n) + 2 * (MaxQueue - (n + 1))
  /\ \A n \in Nat \ {0} : n < MaxQueue => 2 * (MaxQueue - n) <= Waits(n)
<1>1. MaxQueue \in Nat \ {0}
  BY ThrottleAssumption
<1> QED
  BY <1>1 DEF Waits

(* The timer for n operations takes no longer than they account for.        *)
LEMMA NextTimeouts ==
  ASSUME NEW n \in Nat
  PROVE  /\ NextTimeout(n) \in Nat
         /\ n >= MaxQueue => NextTimeout(n) = 0
         /\ n < MaxQueue => MaxQueue * NextTimeout(n) <= Timeout * (MaxQueue - n)
<1>1. MaxQueue \in Nat \ {0} /\ Timeout \in Nat
  BY ThrottleAssumption
<1>2. CASE n >= MaxQueue
  BY <1>1, <1>2 DEF NextTimeout
<1>3. CASE n < MaxQueue
  <2>1. Timeout * (MaxQueue - n) \in Nat
    BY <1>1, <1>3, Products
  <2>2. NextTimeout(n) = (Timeout * (MaxQueue - n)) \div MaxQueue
    BY <1>1, <1>3 DEF NextTimeout
  <2> QED
    BY <1>1, <1>3, <2>1, <2>2, Quotients
<1> QED
  BY <1>1, <1>2, <1>3

-----------------------------------------------------------------------------
(* The operations on one stat.                                              *)

(* What a step of the switch, the observer or the clock does to a stat.     *)
StatStep(s, t) ==
  \/ t = s \/ t = Fresh
  \/ t = Push(s) \/ t = Push(Start(s))
  \/ t = Start(s) \/ t = Stop(s)
  \/ t = Update(s)
  \/ ~IsDue(s) /\ t = Ticked(s)

(* A stat that was just made meets the bound. *)
LEMMA FreshIsTimely == Timely(Fresh)
<1>1. MaxQueue \in Nat \ {0} /\ Timeout \in Nat
  BY ThrottleAssumption
<1>2. Timeout * Waits(0) = 0 /\ (2 * MaxQueue) * (0 + 0) = 0
  BY <1>1, WaitsFacts
<1> QED
  BY <1>2 DEF Timely, Fresh

(* A push puts the timer off by what one more operation accounts for.       *)
LEMMA PushIsTimely ==
  ASSUME NEW s, Timely(s)
  PROVE  Timely(Push(s))
<1> DEFINE n == s.queued
           due == NextTimeout(n + 1)
           t == Push(s)
<1>1. /\ MaxQueue \in Nat \ {0} /\ Timeout \in Nat
      /\ n \in Nat /\ s.age \in Nat /\ s.due \in Nat
      /\ (2 * MaxQueue) * (s.age + s.due) <= Timeout * Waits(n)
  BY ThrottleAssumption DEF Timely
<1>2. /\ t \in [queued : Nat, applied : Nat, armed : BOOLEAN, due : Nat, age : Nat]
      /\ t.queued = n + 1 /\ t.due = due /\ t.age = s.age /\ due \in Nat
  <2> DEFINE u == [s EXCEPT !.queued = @ + 1]
  <2>1. /\ u \in [queued : Nat, applied : Nat, armed : BOOLEAN, due : Nat, age : Nat]
        /\ u.queued = n + 1 /\ u.age = s.age
    BY DEF Timely
  <2>2. due \in Nat
    BY <1>1, NextTimeouts
  <2>3. t = [u EXCEPT !.armed = TRUE, !.due = NextTimeout(u.queued)]
    BY DEF Push, ResetComputeTimeout
  <2> HIDE DEF u, t
  <2> QED
    BY <2>1, <2>2, <2>3
<1> HIDE DEF n, due, t
<1>4. (2 * MaxQueue) * s.age <= Timeout * Waits(n)
  <2>1. (2 * MaxQueue) * s.age <= (2 * MaxQueue) * (s.age + s.due)
    BY <1>1
  <2>2. (2 * MaxQueue) * s.age \in Nat /\ Waits(n) \in Nat
    BY <1>1, WaitsFacts, Products
  <2>3. (2 * MaxQueue) * (s.age + s.due) \in Nat /\ Timeout * Waits(n) \in Nat
    BY <1>1, <2>2
  <2> QED
    BY <1>1, <2>1, <2>2, <2>3
<1>5. (2 * MaxQueue) * (s.age + due) <= Timeout * Waits(n + 1)
  <2>1. CASE n >= MaxQueue
    <3>1. due = 0 /\ Waits(n + 1) = Waits(n)
      BY <1>1, <2>1, NextTimeouts DEF due, Waits
    <3> QED
      BY <1>1, <1>4, <3>1
  <2>2. CASE n + 1 = MaxQueue
    <3>1. due = 0 /\ Waits(n + 1) = Waits(n)
      BY <1>1, <2>2, NextTimeouts, WaitsFacts DEF due
    <3> QED
      BY <1>1, <1>4, <3>1
  <2>3. CASE n + 1 < MaxQueue
    <3>1. MaxQueue * due <= Timeout * (MaxQueue - (n + 1))
      BY <1>1, <2>3, NextTimeouts DEF due
    <3>2. Waits(n + 1) = Waits(n) + 2 * (MaxQueue - (n + 1)) /\ Waits(n) \in Nat
      BY <1>1, <2>3, WaitsFacts
    <3> QED
      BY <1>1, <1>2, <1>4, <3>1, <3>2
  <2> QED
    BY <1>1, <2>1, <2>2, <2>3
<1> QED
  BY <1>2, <1>5 DEF Timely, t

(* Starting again forgets what was waited for.                              *)
LEMMA StartIsTimely ==
  ASSUME NEW s, Timely(s)
  PROVE  Timely(Start(s))
<1>1. /\ MaxQueue \in Nat \ {0} /\ Timeout \in Nat /\ s.queued \in Nat
  BY ThrottleAssumption DEF Timely
<1> DEFINE n == s.queued
           due == NextTimeout(n)
           t == Start(s)
<1>2. CASE n = 0
  BY <1>2 DEF Start
<1>3. CASE n # 0
  <2>1. /\ t \in [queued : Nat, applied : Nat, armed : BOOLEAN, due : Nat, age : Nat]
        /\ t.queued = n /\ t.due = due /\ t.age = 0 /\ due \in Nat
    BY <1>1, <1>3, NextTimeouts DEF Start, ResetComputeTimeout, Timely
  <2>2. (2 * MaxQueue) * (0 + due) <= Timeout * Waits(n)
    <3>1. CASE n >= MaxQueue
      <4>1. due = 0 /\ Waits(n) \in Nat
        BY <1>1, <3>1, NextTimeouts, WaitsFacts
      <4> QED
        BY <1>1, <4>1
    <3>2. CASE n < MaxQueue
      <4>1. MaxQueue * due <= Timeout * (MaxQueue - n)
        BY <1>1, <3>2, NextTimeouts
      <4>2. 2 * (MaxQueue - n) <= Waits(n) /\ Waits(n) \in Nat
        BY <1>1, <1>3, <3>2, WaitsFacts
      <4>3. Timeout * (2 * (MaxQueue - n)) <= Timeout * Waits(n)
        BY <1>1, <3>2, <4>2, Products
      <4>0. n \in Nat /\ due \in Nat
        BY <1>1, <2>1
      <4> HIDE DEF n, due
      <4>4. (2 * MaxQueue) * (0 + due) = 2 * (MaxQueue * due)
        BY <1>1, <4>0
      <4>5. Timeout * (2 * (MaxQueue - n)) = 2 * (Timeout * (MaxQueue - n))
        BY <1>1, <3>2, <4>0
      <4>6. /\ MaxQueue * due \in Nat /\ Timeout * (MaxQueue - n) \in Nat
            /\ Timeout * Waits(n) \in Nat
        BY <1>1, <3>2, <4>0, <4>2
      <4> QED
        BY <4>1, <4>3, <4>4, <4>5, <4>6
    <3> QED
      BY <1>1, <3>1, <3>2
  <2> HIDE DEF t
  <2>3. Timely(t)
    BY <2>1, <2>2 DEF Timely
  <2> QED
    BY <2>3 DEF t
<1> QED
  BY <1>2, <1>3

(* Whatever happens to a stat leaves it timely. *)
LEMMA StepsAreTimely ==
  ASSUME NEW s, NEW t, Timely(s), StatStep(s, t)
  PROVE  Timely(t)
<1>1. /\ MaxQueue \in Nat \ {0} /\ Timeout \in Nat
      /\ s \in [queued : Nat, applied : Nat, armed : BOOLEAN, due : Nat, age : Nat]
      /\ (2 * MaxQueue) * (s.age + s.due) <= Timeout * Waits(s.queued)
  BY ThrottleAssumption DEF Timely
<1>2. CASE t = Fresh \/ t = Push(s) \/ t = Push(Start(s)) \/ t = Start(s) \/ t = s
  BY <1>2, FreshIsTimely, PushIsTimely, StartIsTimely
<1>3. CASE t = Stop(s)
  <2>1. /\ t \in [queued : Nat, applied : Nat, armed : BOOLEAN, due : Nat, age : Nat]
        /\ t.queued = s.queued /\ t.due = 0 /\ t.age = s.age
    BY <1>1, <1>3 DEF Stop
  <2>2. (2 * MaxQueue) * (s.age + 0) <= (2 * MaxQueue) * (s.age + s.due)
    BY <1>1
  <2>3. (2 * MaxQueue) * (s.age + 0) <= Timeout * Waits(s.queued)
    BY <1>1, <2>2, WaitsFacts
  <2> QED
    BY <2>1, <2>3 DEF Timely
<1>4. CASE t = Update(s)
  <2>1. /\ t \in [queued : Nat, applied : Nat, armed : BOOLEAN, due : Nat, age : Nat]
        /\ t.queued = 0 /\ t.due = 0 /\ t.age = 0
    <3>1. Total(s) \in Nat
      BY <1>1 DEF Total
    <3> QED
      BY <1>4, <3>1 DEF Update, Fresh
  <2>2. (2 * MaxQueue) * (0 + 0) <= Timeout * Waits(0)
    BY <1>1, WaitsFacts
  <2> QED
    BY <2>1, <2>2 DEF Timely
<1>5. CASE ~IsDue(s) /\ t = Ticked(s)
  <2>1. CASE s.armed
    <3>1. /\ t \in [queued : Nat, applied : Nat, armed : BOOLEAN, due : Nat, age : Nat]
          /\ t.queued = s.queued /\ t.due = s.due - 1 /\ t.age = s.age + 1
      <4>1. s.due # 0 /\ t = [s EXCEPT !.due = s.due - 1, !.age = s.age + 1]
        BY <1>5, <2>1 DEF Ticked, IsDue
      <4>2. s.due - 1 \in Nat /\ s.age + 1 \in Nat
        BY <1>1, <4>1
      <4> QED
        BY <1>1, <4>1, <4>2
    <3>2. t.age + t.due = s.age + s.due
      BY <1>1, <3>1
    <3> QED
      BY <1>1, <3>1, <3>2 DEF Timely
  <2>2. CASE ~s.armed
    BY <1>5, <2>2 DEF Ticked
  <2> QED
    BY <2>1, <2>2
<1> QED
  BY <1>2, <1>3, <1>4, <1>5 DEF StatStep

-----------------------------------------------------------------------------
(* The stats of the switch.                                                 *)

StatsTyped ==
  /\ observing \in BOOLEAN
  /\ DOMAIN tagged = Tags /\ DOMAIN peerStat = Peers
  /\ DOMAIN place = Peers

TimelyInv ==
  /\ StatsTyped
  /\ Timely(global)
  /\ \A t \in Tags : Timely(tagged[t])
  /\ \A p \in Peers : Timely(peerStat[p])

(* Each stat, the global one, one of a tag or one of a peer. *)
AllStep ==
  /\ StatStep(global, global')
  /\ DOMAIN tagged' = Tags /\ DOMAIN peerStat' = Peers /\ DOMAIN place' = Peers
  /\ observing' \in BOOLEAN
  /\ \A t \in Tags : StatStep(tagged[t], tagged'[t])
  /\ \A p \in Peers : StatStep(peerStat[p], peerStat'[p])

(* A message for the stats that count it. *)
LEMMA DeliverSteps ==
  ASSUME StatsTyped, NEW q \in Peers, NEW tag \in Tags, Deliver(q, tag)
  PROVE  AllStep
<1>1. observing' = observing
  BY DEF Deliver
<1>2. CASE OnTransportMessage(q, tag)
  <2>1. /\ global' = Push(global) /\ tagged' = [tagged EXCEPT ![tag] = Push(@)]
    BY <1>2 DEF OnTransportMessage
  <2>2. PICK gone : Forgets([peerStat EXCEPT ![q] = Push(Returned(q))],
                            [place EXCEPT ![q] = "current"], gone)
    BY <1>2 DEF OnTransportMessage
  <2>3. /\ DOMAIN peerStat' = Peers /\ DOMAIN place' = Peers
        /\ \A p \in Peers : \/ peerStat'[p] = Fresh
                            \/ peerStat'[p] = peerStat[p]
                            \/ peerStat'[p] = Push(Returned(p))
    BY <2>2 DEF Forgets, StatsTyped
  <2>4. \A p : Returned(p) = peerStat[p] \/ Returned(p) = Start(peerStat[p])
    BY DEF Returned
  <2>5. \A p \in Peers : StatStep(peerStat[p], peerStat'[p])
    BY <2>3, <2>4 DEF StatStep
  <2>6. DOMAIN tagged' = Tags /\ \A t \in Tags : tagged'[t] = tagged[t] \/ tagged'[t] = Push(tagged[t])
    BY <2>1 DEF StatsTyped
  <2> QED
    BY <1>1, <2>1, <2>3, <2>5, <2>6 DEF AllStep, StatStep, StatsTyped
<1>3. CASE OnProtocolMessage(tag)
  <2>1. tagged' = [tagged EXCEPT ![tag] = Push(@)] /\ UNCHANGED <<global, peerStat, place>>
    BY <1>3 DEF OnProtocolMessage
  <2>2. DOMAIN tagged' = Tags /\ \A t \in Tags : tagged'[t] = tagged[t] \/ tagged'[t] = Push(tagged[t])
    BY <2>1 DEF StatsTyped
  <2> QED
    BY <1>1, <2>1, <2>2 DEF AllStep, StatStep, StatsTyped
<1>4. CASE UNCHANGED statVars
  BY <1>1, <1>4 DEF AllStep, StatStep, StatsTyped, statVars
<1> QED
  BY <1>2, <1>3, <1>4 DEF Deliver

(* The stats of peers that are looked up, closed or dropped by the cache. *)
LEMMA PeerSteps ==
  ASSUME StatsTyped, NEW q \in Peers, ForPeer(q) \/ PeerClosed(q)
  PROVE  AllStep
<1>1. UNCHANGED <<observing, global, tagged>>
  BY DEF ForPeer, PeerClosed
<1>2. /\ DOMAIN peerStat' = Peers /\ DOMAIN place' = Peers
      /\ \A p \in Peers : \/ peerStat'[p] = Fresh
                          \/ peerStat'[p] = peerStat[p]
                          \/ peerStat'[p] = Stop(peerStat[p])
  <2>1. CASE ForPeer(q)
    <3>1. PICK gone : Forgets(peerStat, place, gone)
      BY <2>1 DEF ForPeer
    <3> QED
      BY <3>1 DEF Forgets
  <2>2. CASE PeerClosed(q)
    <3>1. PICK gone : Forgets([peerStat EXCEPT ![q] = Stop(@)], [place EXCEPT ![q] = "old"], gone)
      BY <2>2 DEF PeerClosed
    <3> QED
      BY <3>1 DEF Forgets, StatsTyped
  <2> QED
    BY <2>1, <2>2
<1> QED
  BY <1>1, <1>2 DEF AllStep, StatStep, StatsTyped

(* Starting and stopping. *)
LEMMA SwitchSteps ==
  ASSUME StatsTyped, StartStats \/ StopStats
  PROVE  AllStep
<1>1. CASE StartStats
  BY <1>1 DEF StartStats, AppliedToAll, AllStep, StatStep, StatsTyped
<1>2. CASE StopStats
  BY <1>2 DEF StopStats, AppliedToAll, AllStep, StatStep, StatsTyped
<1> QED
  BY <1>1, <1>2

(* Timers that fire, and time that passes. *)
LEMMA ClockSteps ==
  ASSUME StatsTyped, TimerFires \/ Tick
  PROVE  AllStep
<1>1. CASE TimerFires
  <2>1. Updates /\ UNCHANGED <<observing, place>>
    BY <1>1 DEF TimerFires
  <2>2. /\ global' = global \/ global' = Update(global)
        /\ DOMAIN tagged' = Tags /\ DOMAIN peerStat' = Peers
        /\ \A t \in Tags : tagged'[t] = tagged[t] \/ tagged'[t] = Update(tagged[t])
        /\ \A p \in Peers : peerStat'[p] = peerStat[p] \/ peerStat'[p] = Update(peerStat[p])
    BY <2>1 DEF Updates, StatsTyped
  <2> QED
    BY <2>1, <2>2 DEF AllStep, StatStep, StatsTyped
<1>2. CASE Tick
  <2>1. /\ ~IsDue(global)
        /\ \A t \in Tags : ~IsDue(tagged[t])
        /\ \A p \in Peers : ~IsDue(peerStat[p])
    BY <1>2 DEF Tick, AllStats, Range, StatsTyped
  <2> QED
    BY <1>2, <2>1 DEF Tick, AllStep, StatStep, StatsTyped
<1> QED
  BY <1>1, <1>2

(* Every step takes every stat by one of the operations. *)
LEMMA StepsOfStats ==
  ASSUME StatsTyped, [Next]_vars
  PROVE  AllStep
<1>1. CASE UNCHANGED <<observing, statVars>>
  BY <1>1 DEF AllStep, StatStep, StatsTyped, statVars
<1>2. \A p \in Peers, tag \in Tags : Observe(p, tag) => UNCHANGED <<observing, statVars>>
  BY DEF Observe
<1>3. UNCHANGED vars => UNCHANGED <<observing, statVars>>
  BY DEF vars
<1> QED
  BY <1>1, <1>2, <1>3, DeliverSteps, PeerSteps, SwitchSteps, ClockSteps DEF Next

(* No stat has waited longer than its queue accounts for. *)
THEOREM TimelyInvariant == Spec => []TimelyInv
<1>1. Init => TimelyInv
  BY FreshIsTimely DEF Init, TimelyInv, StatsTyped
<1>2. TimelyInv /\ [Next]_vars => TimelyInv'
  <2> SUFFICES ASSUME TimelyInv, [Next]_vars PROVE TimelyInv'
    OBVIOUS
  <2>1. AllStep
    BY StepsOfStats DEF TimelyInv
  <2>2. Timely(global')
    BY <2>1, StepsAreTimely DEF AllStep, TimelyInv
  <2>3. \A t \in Tags : Timely(tagged'[t])
    BY <2>1, StepsAreTimely DEF AllStep, TimelyInv
  <2>4. \A p \in Peers : Timely(peerStat'[p])
    BY <2>1, StepsAreTimely DEF AllStep, TimelyInv
  <2> QED
    BY <2>1, <2>2, <2>3, <2>4 DEF AllStep, TimelyInv, StatsTyped, Timely
<1> QED
  BY <1>1, <1>2, PTL DEF Spec

(* StalenessIsBounded: although each push puts the timer off, no operation   *)
(* waits longer than the timeouts for 1, 2, ... MaxQueue operations together.*)
THEOREM StalenessIsBoundedHolds == Spec => []StalenessIsBounded
<1>1. ASSUME NEW s, Timely(s) PROVE s.age <= LongestDelay
  <2>1. /\ MaxQueue \in Nat \ {0} /\ Timeout \in Nat
        /\ s.queued \in Nat /\ s.age \in Nat /\ s.due \in Nat
        /\ (2 * MaxQueue) * (s.age + s.due) <= Timeout * Waits(s.queued)
    BY <1>1, ThrottleAssumption DEF Timely
  <2>2. Timeout * Waits(s.queued) <= Timeout * (MaxQueue * (MaxQueue - 1))
    <3>1. /\ Waits(s.queued) \in Nat /\ MaxQueue * (MaxQueue - 1) \in Nat
          /\ Waits(s.queued) <= MaxQueue * (MaxQueue - 1)
      BY <2>1, WaitsFacts
    <3> QED
      BY <2>1, <3>1, Products
  <2>3. (2 * MaxQueue) * (s.age + s.due) = MaxQueue * (2 * (s.age + s.due))
    BY <2>1
  <2>4. Timeout * (MaxQueue * (MaxQueue - 1)) = MaxQueue * (Timeout * (MaxQueue - 1))
    BY <2>1
  <2>5. Timeout * (MaxQueue - 1) \in Nat /\ 2 * (s.age + s.due) \in Nat
    BY <2>1, Products
  <2>6. MaxQueue * (2 * (s.age + s.due)) <= MaxQueue * (Timeout * (MaxQueue - 1))
    <3>1. Timeout * Waits(s.queued) \in Nat /\ (2 * MaxQueue) * (s.age + s.due) \in Nat
      <4>1. Waits(s.queued) \in Nat /\ 2 * MaxQueue \in Nat /\ s.age + s.due \in Nat
        BY <2>1, WaitsFacts
      <4> QED
        BY <2>1, <4>1, Products
    <3>2. MaxQueue * (Timeout * (MaxQueue - 1)) \in Nat
      BY <2>1, <2>5, Products
    <3> QED
      BY <2>1, <2>2, <2>3, <2>4, <3>1, <3>2
  <2>7. 2 * (s.age + s.due) <= Timeout * (MaxQueue - 1)
    BY <2>1, <2>5, <2>6, Products
  <2> QED
    BY <2>1, <2>5, <2>7 DEF LongestDelay
<1>2. TimelyInv => StalenessIsBounded
  BY <1>1 DEF TimelyInv, StatsTyped, StalenessIsBounded, AllStats, Range
<1> QED
  BY <1>2, TimelyInvariant, PTL

-----------------------------------------------------------------------------
(* The timers.                                                              *)

(* A timer runs while operations wait and the stat is processed.             *)
Follows(s, processed) == s.armed <=> s.queued # 0 /\ processed

TimersInv ==
  /\ Follows(global, observing)
  /\ \A t \in Transports : Follows(tagged[t], observing)
  /\ \A t \in Protocols : Follows(tagged[t], TRUE)
  /\ \A p \in Peers : Follows(peerStat[p], observing /\ place[p] = "current")

(* What each operation of a stat does to its timer, running or not. *)
LEMMA TimerSteps ==
  ASSUME NEW s, Timely(s)
  PROVE  /\ \A b \in BOOLEAN : Follows(Fresh, b)
         /\ Follows(Push(s), TRUE) /\ Follows(Push(Start(s)), TRUE)
         /\ Follows(Stop(s), FALSE)
         /\ Follows(s, FALSE) => Follows(Start(s), TRUE)
         /\ \A b \in BOOLEAN : Follows(Update(s), b)
         /\ \A b \in BOOLEAN : Follows(s, b) => Follows(Ticked(s), b)
<1>1. s \in [queued : Nat, applied : Nat, armed : BOOLEAN, due : Nat, age : Nat]
  BY DEF Timely
<1>2. \A b \in BOOLEAN : Follows(Fresh, b)
  BY DEF Follows, Fresh
<1>3. ASSUME NEW u, Timely(u)
      PROVE  Follows(Push(u), TRUE)
  <2>1. u \in [queued : Nat, applied : Nat, armed : BOOLEAN, due : Nat, age : Nat]
    BY <1>3 DEF Timely
  <2>2. Push(u).armed = TRUE /\ Push(u).queued = u.queued + 1
    BY <2>1 DEF Push, ResetComputeTimeout
  <2> QED
    BY <2>1, <2>2 DEF Follows
<1>4. Follows(Push(s), TRUE) /\ Follows(Push(Start(s)), TRUE)
  BY <1>3, StartIsTimely
<1>5. Follows(Stop(s), FALSE)
  BY <1>1 DEF Follows, Stop
<1>6. Follows(s, FALSE) => Follows(Start(s), TRUE)
  BY <1>1 DEF Follows, Start, ResetComputeTimeout
<1>7. \A b \in BOOLEAN : Follows(Update(s), b)
  BY DEF Follows, Update, Fresh
<1>8. \A b \in BOOLEAN : Follows(s, b) => Follows(Ticked(s), b)
  BY <1>1 DEF Follows, Ticked
<1> QED
  BY <1>2, <1>4, <1>5, <1>6, <1>7, <1>8

(* The timers of a peer's stat, which is processed while it is current.     *)
LEMMA PeerTimers ==
  ASSUME TimelyInv, TimersInv, NEW stats, NEW places, NEW gone, Forgets(stats, places, gone),
         observing' = observing,
         \A p \in Peers : Follows(stats[p], observing /\ places[p] = "current")
  PROVE  \A p \in Peers : Follows(peerStat'[p], observing' /\ place'[p] = "current")
<1> SUFFICES ASSUME NEW p \in Peers
             PROVE  Follows(peerStat'[p], observing' /\ place'[p] = "current")
  OBVIOUS
<1>1. CASE p \in gone
  BY <1>1 DEF Forgets, Follows, Fresh
<1>2. CASE p \notin gone
  BY <1>2 DEF Forgets
<1> QED
  BY <1>1, <1>2

(* A message that is counted leaves every timer as its queue asks for. *)
LEMMA TimersOfDelivery ==
  ASSUME TimelyInv, TimersInv, NEW q \in Peers, NEW tag \in Tags, Deliver(q, tag)
  PROVE  TimersInv'
<1>1. observing' = observing
  BY DEF Deliver
<1>2. CASE observing /\ OnTransportMessage(q, tag) /\ tag \in Transports
  <2>1. /\ global' = Push(global) /\ tagged' = [tagged EXCEPT ![tag] = Push(tagged[tag])]
    BY <1>2 DEF OnTransportMessage
  <2> DEFINE stats == [peerStat EXCEPT ![q] = Push(Returned(q))]
             places == [place EXCEPT ![q] = "current"]
  <2>2. PICK gone : Forgets(stats, places, gone)
    BY <1>2 DEF OnTransportMessage
  <2>3. Follows(Push(Returned(q)), TRUE)
    BY TimerSteps DEF Returned, TimelyInv
  <2>4. \A p \in Peers : Follows(stats[p], observing /\ places[p] = "current")
    <3>1. /\ stats[q] = Push(Returned(q)) /\ places[q] = "current"
          /\ \A p \in Peers : p # q => stats[p] = peerStat[p] /\ places[p] = place[p]
      BY DEF TimelyInv, StatsTyped
    <3> HIDE DEF stats, places
    <3> QED
      BY <1>2, <2>3, <3>1 DEF TimersInv, Follows
  <2> HIDE DEF stats, places
  <2>5. \A p \in Peers : Follows(peerStat'[p], observing' /\ place'[p] = "current")
    BY <1>1, <2>2, <2>4, PeerTimers
  <2>6. Follows(Push(global), TRUE) /\ Follows(Push(tagged[tag]), TRUE)
    BY TimerSteps DEF TimelyInv
  <2>7. /\ tagged'[tag] = Push(tagged[tag])
        /\ \A t \in Tags : t # tag => tagged'[t] = tagged[t]
    BY <2>1 DEF TimelyInv, StatsTyped
  <2>8. tag \notin Protocols
    BY <1>2, StatsAssumption
  <2> QED
    BY <1>1, <1>2, <2>1, <2>5, <2>6, <2>7, <2>8 DEF TimersInv, Follows, Tags
<1>3. CASE OnProtocolMessage(tag) /\ tag \in Protocols
  <2>1. /\ tagged' = [tagged EXCEPT ![tag] = Push(tagged[tag])]
        /\ UNCHANGED <<global, peerStat, place>>
    BY <1>3 DEF OnProtocolMessage
  <2>2. Follows(Push(tagged[tag]), TRUE)
    BY TimerSteps DEF TimelyInv
  <2>3. /\ tagged'[tag] = Push(tagged[tag])
        /\ \A t \in Tags : t # tag => tagged'[t] = tagged[t]
    BY <2>1 DEF TimelyInv, StatsTyped
  <2>4. tag \notin Transports
    BY <1>3, StatsAssumption
  <2> QED
    BY <1>1, <2>1, <2>2, <2>3, <2>4 DEF TimersInv, Follows, Tags
<1>4. CASE UNCHANGED statVars
  BY <1>1, <1>4 DEF TimersInv, Follows, statVars
<1> QED
  BY <1>2, <1>3, <1>4 DEF Deliver

(* A peer that is closed has its stat stopped before it becomes an old one. *)
LEMMA TimersOfPeers ==
  ASSUME TimelyInv, TimersInv, NEW q \in Peers, ForPeer(q) \/ PeerClosed(q)
  PROVE  TimersInv'
<1>1. UNCHANGED <<observing, global, tagged>>
  BY DEF ForPeer, PeerClosed
<1>2. \A p \in Peers : Follows(peerStat'[p], observing' /\ place'[p] = "current")
  <2>1. CASE ForPeer(q)
    <3>1. PICK gone : Forgets(peerStat, place, gone)
      BY <2>1 DEF ForPeer
    <3> QED
      BY <1>1, <3>1, PeerTimers DEF TimersInv
  <2>2. CASE PeerClosed(q)
    <3> DEFINE stats == [peerStat EXCEPT ![q] = Stop(peerStat[q])]
               places == [place EXCEPT ![q] = "old"]
    <3>1. PICK gone : Forgets(stats, places, gone)
      BY <2>2 DEF PeerClosed
    <3>2. /\ stats[q] = Stop(peerStat[q]) /\ places[q] = "old"
          /\ \A p \in Peers : p # q => stats[p] = peerStat[p] /\ places[p] = place[p]
      BY DEF TimelyInv, StatsTyped
    <3> HIDE DEF stats, places
    <3>3. Follows(stats[q], FALSE)
      BY <3>2, TimerSteps DEF TimelyInv
    <3>4. \A p \in Peers : Follows(stats[p], observing /\ places[p] = "current")
      BY <3>2, <3>3 DEF TimersInv, Follows
    <3> QED
      BY <1>1, <3>1, <3>4, PeerTimers
  <2> QED
    BY <2>1, <2>2
<1> QED
  BY <1>1, <1>2 DEF TimersInv, Follows

(* Starting arms the timers of the stats that have operations, stopping     *)
(* disarms them, and both leave the protocols and the old peers alone.      *)
LEMMA TimersOfSwitch ==
  ASSUME TimelyInv, TimersInv, StartStats \/ StopStats
  PROVE  TimersInv'
<1>1. /\ place' = place
      /\ \A t \in Protocols : t \notin Transports /\ t \in Tags
  BY StatsAssumption DEF StartStats, StopStats, AppliedToAll, Tags
<1>2. CASE StartStats
  <2>1. /\ ~observing /\ observing' = TRUE /\ global' = Start(global)
        /\ \A t \in Transports : tagged'[t] = Start(tagged[t])
        /\ \A t \in Protocols : tagged'[t] = tagged[t]
        /\ \A p \in Peers : peerStat'[p] = IF place[p] = "current" THEN Start(peerStat[p])
                                                                   ELSE peerStat[p]
    BY <1>1, <1>2 DEF StartStats, AppliedToAll, Tags
  <2>2. /\ Follows(global, FALSE) /\ \A t \in Transports : Follows(tagged[t], FALSE)
        /\ \A p \in Peers : Follows(peerStat[p], FALSE)
    BY <2>1 DEF TimersInv, Follows
  <2>3. /\ Follows(Start(global), TRUE)
        /\ \A t \in Transports : Follows(Start(tagged[t]), TRUE)
        /\ \A p \in Peers : Follows(Start(peerStat[p]), TRUE)
    BY <2>2, TimerSteps DEF TimelyInv, Tags
  <2> QED
    BY <1>1, <2>1, <2>2, <2>3 DEF TimersInv, Follows
<1>3. CASE StopStats
  <2>1. /\ observing' = FALSE /\ global' = Stop(global)
        /\ \A t \in Transports : tagged'[t] = Stop(tagged[t])
        /\ \A t \in Protocols : tagged'[t] = tagged[t]
        /\ \A p \in Peers : peerStat'[p] = IF place[p] = "current" THEN Stop(peerStat[p])
                                                                   ELSE peerStat[p]
    BY <1>1, <1>3 DEF StopStats, AppliedToAll, Tags
  <2>2. /\ Follows(Stop(global), FALSE)
        /\ \A t \in Transports : Follows(Stop(tagged[t]), FALSE)
        /\ \A p \in Peers : Follows(Stop(peerStat[p]), FALSE)
    BY TimerSteps DEF TimelyInv, Tags
  <2> QED
    BY <1>1, <2>1, <2>2 DEF TimersInv, Follows
<1> QED
  BY <1>2, <1>3

(* A timer fires on a stat that has all its operations applied. *)
LEMMA TimersOfClock ==
  ASSUME TimelyInv, TimersInv, TimerFires \/ Tick
  PROVE  TimersInv'
<1>1. UNCHANGED <<observing, place>>
  BY DEF TimerFires, Tick
<1>2. CASE TimerFires
  <2>1. /\ global' = global \/ global' = Update(global)
        /\ \A t \in Tags : tagged'[t] = tagged[t] \/ tagged'[t] = Update(tagged[t])
        /\ \A p \in Peers : peerStat'[p] = peerStat[p] \/ peerStat'[p] = Update(peerStat[p])
    BY <1>2 DEF TimerFires, Updates, TimelyInv, StatsTyped
  <2>2. \A b \in BOOLEAN :
          /\ Follows(Update(global), b)
          /\ \A t \in Tags : Follows(Update(tagged[t]), b)
          /\ \A p \in Peers : Follows(Update(peerStat[p]), b)
    BY TimerSteps DEF TimelyInv
  <2>3. observing \in BOOLEAN
    BY DEF TimelyInv, StatsTyped
  <2>4. Follows(global', observing)
    BY <2>1, <2>2, <2>3 DEF TimersInv
  <2>5. /\ \A t \in Transports : Follows(tagged'[t], observing)
        /\ \A t \in Protocols : Follows(tagged'[t], TRUE)
    BY <2>1, <2>2, <2>3 DEF TimersInv, Tags
  <2>6. \A p \in Peers : Follows(peerStat'[p], observing /\ place[p] = "current")
    <3> SUFFICES ASSUME NEW p \in Peers
                 PROVE  Follows(peerStat'[p], observing /\ place[p] = "current")
      OBVIOUS
    <3> DEFINE b == observing /\ place[p] = "current"
    <3>1. b \in BOOLEAN /\ Follows(peerStat[p], b)
      BY <2>3 DEF TimersInv
    <3> HIDE DEF b
    <3>2. Follows(peerStat'[p], b)
      BY <2>1, <2>2, <3>1
    <3> QED
      BY <3>2 DEF b
  <2> QED
    BY <1>1, <2>4, <2>5, <2>6 DEF TimersInv, Follows
<1>3. CASE Tick
  <2>1. /\ global' = Ticked(global)
        /\ \A t \in Tags : tagged'[t] = Ticked(tagged[t])
        /\ \A p \in Peers : peerStat'[p] = Ticked(peerStat[p])
    BY <1>3 DEF Tick
  <2>2. \A b \in BOOLEAN :
          /\ Follows(global, b) => Follows(global', b)
          /\ \A t \in Tags : Follows(tagged[t], b) => Follows(tagged'[t], b)
          /\ \A p \in Peers : Follows(peerStat[p], b) => Follows(peerStat'[p], b)
    BY <2>1, TimerSteps DEF TimelyInv
  <2> QED
    BY <1>1, <2>2 DEF TimersInv, Follows, Tags, TimelyInv, StatsTyped
<1> QED
  BY <1>2, <1>3

(* TimersFollowQueues: the timers that run are those of the stats that are   *)
(* processed and have operations waiting, over all stops, starts, closed and *)
(* returning peers.                                                          *)
THEOREM TimersFollowQueuesHolds == Spec => []TimersFollowQueues
<1>1. Init => TimersInv
  BY DEF Init, TimersInv, Follows, Fresh, Tags
<1>2. TimelyInv /\ TimersInv /\ [Next]_vars => TimersInv'
  <2> SUFFICES ASSUME TimelyInv, TimersInv, [Next]_vars PROVE TimersInv'
    OBVIOUS
  <2>1. CASE UNCHANGED <<observing, statVars>>
    BY <2>1 DEF TimersInv, Follows, statVars
  <2>2. \A p \in Peers, tag \in Tags : Observe(p, tag) => UNCHANGED <<observing, statVars>>
    BY DEF Observe
  <2>3. UNCHANGED vars => UNCHANGED <<observing, statVars>>
    BY DEF vars
  <2> QED
    BY <2>1, <2>2, <2>3, TimersOfDelivery, TimersOfPeers, TimersOfSwitch, TimersOfClock DEF Next
<1>3. TimelyInv /\ TimersInv => TimersFollowQueues
  <2> SUFFICES ASSUME TimelyInv, TimersInv PROVE TimersFollowQueues
    OBVIOUS
  <2>1. ASSUME NEW s, Timely(s), NEW b \in BOOLEAN, Follows(s, b)
        PROVE  s.armed = (s.queued > 0 /\ b)
    <3>1. s.armed \in BOOLEAN /\ (s.queued # 0 <=> s.queued > 0)
      BY <2>1 DEF Timely
    <3> QED
      BY <2>1, <3>1 DEF Follows
  <2> QED
    BY <2>1 DEF TimelyInv, TimersInv, StatsTyped, TimersFollowQueues, Tags
<1> QED
  BY <1>1, <1>2, <1>3, TimelyInvariant, PTL DEF Spec

-----------------------------------------------------------------------------
(* The counts.                                                              *)

(* A push adds one operation to a stat; nothing else changes their number. *)
LEMMA TotalsOfSteps ==
  ASSUME NEW s, Timely(s)
  PROVE  /\ Total(s) \in Nat /\ Total(Fresh) = 0
         /\ Total(Push(s)) = Total(s) + 1 /\ Total(Push(Start(s))) = Total(s) + 1
         /\ Total(Start(s)) = Total(s) /\ Total(Stop(s)) = Total(s)
         /\ Total(Update(s)) = Total(s) /\ Total(Ticked(s)) = Total(s)
<1>1. s \in [queued : Nat, applied : Nat, armed : BOOLEAN, due : Nat, age : Nat]
  BY DEF Timely
<1>2. ASSUME NEW u, Timely(u)
      PROVE  Total(Push(u)) = Total(u) + 1
  <2>1. u \in [queued : Nat, applied : Nat, armed : BOOLEAN, due : Nat, age : Nat]
    BY <1>2 DEF Timely
  <2>2. Push(u).applied = u.applied /\ Push(u).queued = u.queued + 1
    BY <2>1 DEF Push, ResetComputeTimeout
  <2> QED
    BY <2>1, <2>2 DEF Total
<1>3. Total(Start(s)) = Total(s)
  BY <1>1 DEF Start, ResetComputeTimeout, Total
<1>4. Total(Push(s)) = Total(s) + 1 /\ Total(Push(Start(s))) = Total(s) + 1
  BY <1>2, <1>3, StartIsTimely
<1>5. Total(Fresh) = 0 /\ Total(s) \in Nat
  BY <1>1 DEF Total, Fresh
<1>6. Total(Stop(s)) = Total(s) /\ Total(Ticked(s)) = Total(s)
  BY <1>1 DEF Stop, Ticked, Total
<1>7. Total(Update(s)) = Total(s)
  <2>1. Update(s).queued = 0 /\ Update(s).applied = Total(s)
    BY DEF Update, Fresh
  <2> HIDE DEF Update
  <2> QED
    BY <1>5, <2>1 DEF Total
<1> QED
  BY <1>3, <1>4, <1>5, <1>6, <1>7

ByTransport(stats) == [t \in Transports |-> Total(stats[t])]

(* The counts agree, and a message is counted once by each stat, after it    *)
(* was sent and while it is not in flight.                                   *)
CountsInv ==
  /\ forgotten \in Nat
  /\ Total(global) = SumFunction(Counted(peerStat)) + forgotten
  /\ Total(global) = SumFunction(ByTransport(tagged))
  /\ inflight \in [Peers \X Tags -> Nat]
  /\ sent \in 0 .. MaxMessages
  /\ Total(global) + SumFunction(inflight) <= sent
  /\ \A t \in Tags : Total(tagged[t]) + SumFunction(inflight) <= sent
  /\ \A p \in Peers : Total(peerStat[p]) + SumFunction(inflight) <= sent

(* There are finitely many stats and places for messages in flight. *)
LEMMA Finiteness ==
  IsFiniteSet(Peers) /\ IsFiniteSet(Transports) /\ IsFiniteSet(Peers \X Tags)
BY StatsAssumption, FS_Union, FS_Product DEF Tags

(* What the cache drops is forgotten, not lost. *)
LEMMA ForgettingKeepsCounts ==
  ASSUME NEW stats, NEW places, NEW gone \in SUBSET Peers, Forgets(stats, places, gone),
         forgotten \in Nat, \A p \in Peers : Total(stats[p]) \in Nat
  PROVE  /\ forgotten' \in Nat
         /\ SumFunction(Counted(peerStat')) + forgotten'
              = SumFunction(Counted(stats)) + forgotten
<1> DEFINE f == Counted(stats)
           g == Counted(peerStat')
           cut == [p \in Peers |-> IF p \in gone THEN 0 ELSE f[p]]
<1>1. \A p \in Peers : f[p] \in Nat /\ g[p] = cut[p] /\ cut[p] \in Nat
  <2>1. Total(Fresh) = 0
    BY DEF Fresh, Total
  <2> QED
    BY <2>1 DEF Forgets, Counted
<1>2. DOMAIN f = Peers /\ DOMAIN g = Peers
  BY DEF Counted
<1>3. forgotten' = forgotten + SumFunctionOnSet(f, gone)
  BY DEF Forgets
<1> HIDE DEF f, g
<1>4. SumFunctionOnSet(f, Peers) = SumFunctionOnSet(cut, Peers) + SumFunctionOnSet(f, gone)
  BY <1>1, Finiteness, SumOfRest
<1> HIDE DEF cut
<1>5. SumFunctionOnSet(g, Peers) = SumFunctionOnSet(cut, Peers)
  BY <1>1, Finiteness, SumOfSame
<1>6. SumFunctionOnSet(f, gone) \in Nat /\ SumFunctionOnSet(cut, Peers) \in Nat
  BY <1>1, Finiteness, SumIsNat, FS_Subset
<1>7. /\ forgotten' \in Nat
      /\ SumFunctionOnSet(g, Peers) + forgotten' = SumFunctionOnSet(f, Peers) + forgotten
  BY <1>3, <1>4, <1>5, <1>6
<1> QED
  BY <1>2, <1>7 DEF SumFunction, f, g

(* Stats that count as much as before leave the sums as they are. *)
LEMMA SameCounts ==
  ASSUME NEW stats, NEW others, \A p \in Peers : Total(others[p]) = Total(stats[p])
  PROVE  SumFunction(Counted(others)) = SumFunction(Counted(stats))
<1>1. \A p \in Peers : Counted(others)[p] = Counted(stats)[p]
  BY DEF Counted
<1>2. DOMAIN Counted(others) = Peers /\ DOMAIN Counted(stats) = Peers
  BY DEF Counted
<1> QED
  BY <1>1, <1>2, Finiteness, SumOfSame DEF SumFunction

(* Stats with the same counts have the same sum over the transports. *)
LEMMA SameTransportCounts ==
  ASSUME NEW stats, NEW others, \A t \in Transports : Total(others[t]) = Total(stats[t])
  PROVE  SumFunction(ByTransport(others)) = SumFunction(ByTransport(stats))
<1>1. \A t \in Transports : ByTransport(others)[t] = ByTransport(stats)[t]
  BY DEF ByTransport
<1>2. DOMAIN ByTransport(others) = Transports /\ DOMAIN ByTransport(stats) = Transports
  BY DEF ByTransport
<1> QED
  BY <1>1, <1>2, Finiteness, SumOfSame DEF SumFunction

(* Whatever changes no count and no message keeps the counts. *)
LEMMA UncountedSteps ==
  ASSUME CountsInv, UNCHANGED <<messageVars, forgotten>>,
         Total(global') = Total(global),
         \A t \in Tags : Total(tagged'[t]) = Total(tagged[t]),
         \A p \in Peers : Total(peerStat'[p]) = Total(peerStat[p])
  PROVE  CountsInv'
<1>1. SumFunction(Counted(peerStat')) = SumFunction(Counted(peerStat))
  BY SameCounts
<1>2. SumFunction(ByTransport(tagged')) = SumFunction(ByTransport(tagged))
  BY SameTransportCounts DEF Tags
<1> QED
  BY <1>1, <1>2 DEF CountsInv, messageVars

(* A look-up or a close moves a stat and may drop others: no count is lost. *)
LEMMA ForgettingPeers ==
  ASSUME TimelyInv, CountsInv, NEW stats, NEW places, NEW gone \in SUBSET Peers,
         Forgets(stats, places, gone),
         \A p \in Peers : Total(stats[p]) = Total(peerStat[p]),
         UNCHANGED <<global, tagged, sent, inflight>>
  PROVE  CountsInv'
<1>1. \A p \in Peers : Total(peerStat[p]) \in Nat /\ Total(stats[p]) \in Nat
  BY TotalsOfSteps DEF TimelyInv
<1>2. /\ forgotten' \in Nat
      /\ SumFunction(Counted(peerStat')) + forgotten' = SumFunction(Counted(stats)) + forgotten
  BY <1>1, ForgettingKeepsCounts DEF CountsInv
<1>3. SumFunction(Counted(stats)) = SumFunction(Counted(peerStat))
  BY SameCounts
<1>4. \A p \in Peers : Total(peerStat'[p]) = 0 \/ Total(peerStat'[p]) = Total(peerStat[p])
  BY DEF Forgets, Fresh, Total
<1>5. SumFunction(inflight) \in Nat /\ sent \in Nat
  <2>1. DOMAIN inflight = Peers \X Tags /\ \A m \in Peers \X Tags : inflight[m] \in Nat
    BY DEF CountsInv
  <2> QED
    BY <2>1, Finiteness, SumIsNat, StatsAssumption DEF CountsInv, SumFunction
<1>6. \A p \in Peers : Total(peerStat'[p]) + SumFunction(inflight) <= sent
  BY <1>1, <1>4, <1>5 DEF CountsInv
<1> QED
  BY <1>2, <1>3, <1>6 DEF CountsInv

(* Asking for the stats of a peer, and closing it, keep the counts. *)
LEMMA PeersKeepCounts ==
  ASSUME TimelyInv, CountsInv, NEW q \in Peers, ForPeer(q) \/ PeerClosed(q)
  PROVE  CountsInv'
<1>1. UNCHANGED <<global, tagged, sent, inflight>>
  BY DEF ForPeer, PeerClosed, messageVars
<1>2. CASE ForPeer(q)
  <2>1. PICK gone : gone \in SUBSET Peers /\ Forgets(peerStat, place, gone)
    BY <1>2 DEF ForPeer, Placed
  <2> QED
    BY <1>1, <2>1, ForgettingPeers
<1>3. CASE PeerClosed(q)
  <2> DEFINE stats == [peerStat EXCEPT ![q] = Stop(peerStat[q])]
             places == [place EXCEPT ![q] = "old"]
  <2>1. PICK gone : gone \in SUBSET Peers /\ Forgets(stats, places, gone)
    BY <1>3 DEF PeerClosed, Placed
  <2>2. \A p \in Peers : Total(stats[p]) = Total(peerStat[p])
    BY TotalsOfSteps DEF TimelyInv, StatsTyped
  <2> HIDE DEF stats, places
  <2> QED
    BY <1>1, <2>1, <2>2, ForgettingPeers
<1> QED
  BY <1>2, <1>3

(* The sum of the messages in flight changes with those of one peer and tag.*)
LEMMA MessagesInFlight ==
  ASSUME inflight \in [Peers \X Tags -> Nat], NEW q \in Peers, NEW tag \in Tags,
         NEW n \in Nat, inflight' = [inflight EXCEPT ![<<q, tag>>] = n]
  PROVE  /\ inflight' \in [Peers \X Tags -> Nat]
         /\ SumFunction(inflight) \in Nat /\ SumFunction(inflight') \in Nat
         /\ inflight[<<q, tag>>] <= SumFunction(inflight)
         /\ SumFunction(inflight') + inflight[<<q, tag>>] = SumFunction(inflight) + n
<1> DEFINE M == Peers \X Tags
           m == <<q, tag>>
<1>1. /\ m \in M /\ inflight' \in [M -> Nat] /\ inflight'[m] = n
      /\ \A x \in M : x # m => inflight'[x] = inflight[x]
      /\ DOMAIN inflight = M /\ DOMAIN inflight' = M
  OBVIOUS
<1> HIDE DEF m, M
<1>2. IsFiniteSet(M) /\ IsFiniteSet(M \ {m})
  BY Finiteness, FS_RemoveElement DEF M
<1>3. \A x \in M : inflight[x] \in Nat /\ inflight'[x] \in Nat
  BY <1>1 DEF M
<1>4. /\ SumFunctionOnSet(inflight, M) \in Nat /\ SumFunctionOnSet(inflight', M) \in Nat
      /\ SumFunctionOnSet(inflight, M \ {m}) \in Nat
  BY <1>2, <1>3, SumIsNat
<1>5. SumFunctionOnSet(inflight, M) = inflight[m] + SumFunctionOnSet(inflight, M \ {m})
  BY <1>1, <1>2, <1>3, SumOfAny
<1>6. SumFunctionOnSet(inflight', M) + inflight[m] = SumFunctionOnSet(inflight, M) + inflight'[m]
  <2> DEFINE before == inflight
             after == inflight'
  <2>1. /\ m \in M /\ \A x \in M : x # m => after[x] = before[x]
        /\ \A x \in M : before[x] \in Nat /\ after[x] \in Nat
    BY <1>1, <1>3
  <2> HIDE DEF before, after
  <2>2. SumFunctionOnSet(after, M) + before[m] = SumFunctionOnSet(before, M) + after[m]
    BY <1>2, <2>1, SumOfChanged
  <2> QED
    BY <2>2 DEF before, after
<1>7. inflight[m] <= SumFunctionOnSet(inflight, M)
  BY <1>1, <1>3, <1>4, <1>5
<1> QED
  BY <1>1, <1>4, <1>6, <1>7 DEF SumFunction, m, M

(* A message that is observed is one sent and one in flight. *)
LEMMA ObservingKeepsCounts ==
  ASSUME TimelyInv, CountsInv, NEW q \in Peers, NEW tag \in Tags, Observe(q, tag)
  PROVE  CountsInv'
<1>1. /\ sent < MaxMessages /\ sent' = sent + 1
      /\ inflight' = [inflight EXCEPT ![<<q, tag>>] = inflight[<<q, tag>>] + 1]
      /\ UNCHANGED <<global, tagged, peerStat, forgotten>>
  BY DEF Observe, statVars
<1>2. inflight[<<q, tag>>] \in Nat /\ sent \in Nat /\ MaxMessages \in Nat
  BY StatsAssumption DEF CountsInv
<1>3. /\ inflight' \in [Peers \X Tags -> Nat]
      /\ SumFunction(inflight) \in Nat /\ SumFunction(inflight') \in Nat
      /\ SumFunction(inflight') + inflight[<<q, tag>>]
           = SumFunction(inflight) + (inflight[<<q, tag>>] + 1)
  <2>1. inflight[<<q, tag>>] + 1 \in Nat /\ inflight \in [Peers \X Tags -> Nat]
    BY <1>2 DEF CountsInv
  <2> QED
    BY <1>1, <2>1, MessagesInFlight, ZenonT(30)
<1>4. SumFunction(inflight') = SumFunction(inflight) + 1 /\ sent' \in 0 .. MaxMessages
  BY <1>1, <1>2, <1>3
<1>5. /\ Total(global') + SumFunction(inflight') <= sent'
      /\ \A t \in Tags : Total(tagged'[t]) + SumFunction(inflight') <= sent'
      /\ \A p \in Peers : Total(peerStat'[p]) + SumFunction(inflight') <= sent'
  <2> DEFINE n == SumFunction(inflight)
             after == SumFunction(inflight')
  <2>1. after = n + 1 /\ sent' = sent + 1 /\ n \in Nat /\ sent \in Nat
    BY <1>1, <1>2, <1>3, <1>4
  <2>2. /\ Total(global) \in Nat /\ \A t \in Tags : Total(tagged[t]) \in Nat
        /\ \A p \in Peers : Total(peerStat[p]) \in Nat
    BY TotalsOfSteps DEF TimelyInv
  <2>3. /\ Total(global) + n <= sent
        /\ \A t \in Tags : Total(tagged[t]) + n <= sent
        /\ \A p \in Peers : Total(peerStat[p]) + n <= sent
    BY DEF CountsInv
  <2>4. UNCHANGED <<global, tagged, peerStat>>
    BY <1>1
  <2> HIDE DEF n, after
  <2>5. /\ Total(global) + after <= sent'
        /\ \A t \in Tags : Total(tagged[t]) + after <= sent'
        /\ \A p \in Peers : Total(peerStat[p]) + after <= sent'
    BY <2>1, <2>2, <2>3
  <2> QED
    BY <2>4, <2>5 DEF after
<1> QED
  BY <1>1, <1>3, <1>4, <1>5 DEF CountsInv

(* A function whose value grows by one at y has a sum greater by one. *)
LEMMA SumOfOneMore ==
  ASSUME NEW f, NEW g, NEW S, IsFiniteSet(S), NEW y \in S, DOMAIN f = S, DOMAIN g = S,
         \A x \in S : f[x] \in Nat,
         g[y] = f[y] + 1, \A x \in S : x # y => g[x] = f[x]
  PROVE  SumFunction(g) = SumFunction(f) + 1
<1>1. \A x \in S : f[x] \in Nat /\ g[x] \in Nat
  OBVIOUS
<1>2. SumFunctionOnSet(g, S) + f[y] = SumFunctionOnSet(f, S) + g[y]
  BY <1>1, SumOfChanged
<1>3. SumFunctionOnSet(g, S) \in Nat /\ SumFunctionOnSet(f, S) \in Nat
  BY <1>1, SumIsNat
<1> QED
  BY <1>1, <1>2, <1>3 DEF SumFunction

(* A message that arrives is no longer in flight, and is counted once by    *)
(* each of the stats it is for.                                             *)
LEMMA DeliveryKeepsCounts ==
  ASSUME TimelyInv, CountsInv, NEW q \in Peers, NEW tag \in Tags, Deliver(q, tag)
  PROVE  CountsInv'
<1> DEFINE n == SumFunction(inflight)
           after == SumFunction(inflight')
<1>1. /\ inflight[<<q, tag>>] > 0 /\ sent' = sent
      /\ inflight' = [inflight EXCEPT ![<<q, tag>>] = inflight[<<q, tag>>] - 1]
  BY DEF Deliver
<1>2. /\ inflight' \in [Peers \X Tags -> Nat] /\ n \in Nat /\ after \in Nat /\ n = after + 1
  <2>1. inflight \in [Peers \X Tags -> Nat] /\ inflight[<<q, tag>>] \in Nat
    BY DEF CountsInv
  <2>2. inflight[<<q, tag>>] - 1 \in Nat
    BY <1>1, <2>1
  <2>3. /\ inflight' \in [Peers \X Tags -> Nat] /\ n \in Nat /\ after \in Nat
        /\ after + inflight[<<q, tag>>] = n + (inflight[<<q, tag>>] - 1)
    BY <1>1, <2>1, <2>2, MessagesInFlight, ZenonT(30)
  <2> HIDE DEF n, after
  <2> QED
    BY <2>1, <2>2, <2>3
<1>3. /\ Total(global) \in Nat /\ \A t \in Tags : Total(tagged[t]) \in Nat
      /\ \A p \in Peers : Total(peerStat[p]) \in Nat
  BY TotalsOfSteps DEF TimelyInv
<1>4. sent \in Nat /\ sent \in 0 .. MaxMessages /\ forgotten \in Nat
  BY DEF CountsInv
<1>5. /\ Total(global) + n <= sent
      /\ \A t \in Tags : Total(tagged[t]) + n <= sent
      /\ \A p \in Peers : Total(peerStat[p]) + n <= sent
  BY DEF CountsInv
<1> HIDE DEF n, after
<1>6. ASSUME NEW k \in Nat, NEW l \in Nat, l <= k + 1, k + n <= sent
      PROVE  l + after <= sent
  BY <1>2, <1>4, <1>6
<1>7. CASE OnTransportMessage(q, tag) /\ tag \in Transports
  <2> DEFINE stats == [peerStat EXCEPT ![q] = Push(Returned(q))]
             places == [place EXCEPT ![q] = "current"]
  <2>1. global' = Push(global) /\ tagged' = [tagged EXCEPT ![tag] = Push(tagged[tag])]
    BY <1>7 DEF OnTransportMessage
  <2>2. PICK gone : gone \in SUBSET Peers /\ Forgets(stats, places, gone)
    BY <1>7 DEF OnTransportMessage, Placed
  <2>3. /\ Total(global') = Total(global) + 1
        /\ Total(tagged'[tag]) = Total(tagged[tag]) + 1
        /\ \A t \in Tags : t # tag => Total(tagged'[t]) = Total(tagged[t])
    BY <2>1, TotalsOfSteps DEF TimelyInv, StatsTyped
  <2>4. /\ Total(stats[q]) = Total(peerStat[q]) + 1
        /\ \A p \in Peers : p # q => Total(stats[p]) = Total(peerStat[p])
    <3>1. Total(Push(Returned(q))) = Total(peerStat[q]) + 1
      BY TotalsOfSteps DEF Returned, TimelyInv
    <3> QED
      BY <3>1 DEF TimelyInv, StatsTyped
  <2> HIDE DEF stats, places
  <2>5. SumFunction(Counted(stats)) = SumFunction(Counted(peerStat)) + 1
    <3>1. /\ DOMAIN Counted(stats) = Peers /\ DOMAIN Counted(peerStat) = Peers
          /\ \A p \in Peers : Counted(peerStat)[p] \in Nat
          /\ Counted(stats)[q] = Counted(peerStat)[q] + 1
          /\ \A p \in Peers : p # q => Counted(stats)[p] = Counted(peerStat)[p]
      BY <1>3, <2>4 DEF Counted
    <3> QED
      BY <3>1, Finiteness, SumOfOneMore
  <2>6. SumFunction(ByTransport(tagged')) = SumFunction(ByTransport(tagged)) + 1
    <3> DEFINE f == ByTransport(tagged)
               g == ByTransport(tagged')
    <3>1. /\ DOMAIN g = Transports /\ DOMAIN f = Transports
          /\ \A t \in Transports : f[t] \in Nat
          /\ g[tag] = f[tag] + 1
          /\ \A t \in Transports : t # tag => g[t] = f[t]
      BY <1>3, <1>7, <2>3 DEF ByTransport, Tags
    <3> HIDE DEF f, g
    <3>2. SumFunction(g) = SumFunction(f) + 1
      BY <1>7, <3>1, Finiteness, SumOfOneMore
    <3> QED
      BY <3>2 DEF f, g
  <2>7. /\ forgotten' \in Nat
        /\ SumFunction(Counted(peerStat')) + forgotten' = SumFunction(Counted(stats)) + forgotten
    <3>1. \A p \in Peers : Total(stats[p]) \in Nat
      BY <1>3, <2>4
    <3> QED
      BY <1>4, <2>2, <3>1, ForgettingKeepsCounts
  <2>8. \A p \in Peers : Total(peerStat'[p]) \in Nat /\ Total(peerStat'[p]) <= Total(peerStat[p]) + 1
    <3>1. \A p \in Peers : Total(peerStat'[p]) = 0 \/ Total(peerStat'[p]) = Total(stats[p])
      BY <2>2 DEF Forgets, Fresh, Total
    <3> QED
      BY <1>3, <2>4, <3>1
  <2>9. /\ Total(global') + after <= sent
        /\ \A t \in Tags : Total(tagged'[t]) + after <= sent
        /\ \A p \in Peers : Total(peerStat'[p]) + after <= sent
    <3>1. Total(global') \in Nat /\ Total(global') <= Total(global) + 1
      BY <1>3, <2>3
    <3>2. \A t \in Tags : Total(tagged'[t]) \in Nat /\ Total(tagged'[t]) <= Total(tagged[t]) + 1
      BY <1>3, <2>3
    <3> QED
      BY <1>3, <1>5, <1>6, <2>8, <3>1, <3>2
  <2>10. SumFunction(Counted(peerStat)) \in Nat
    BY <1>3, Finiteness, SumIsNat DEF Counted, SumFunction
  <2>11. /\ Total(global') = SumFunction(Counted(peerStat')) + forgotten'
         /\ Total(global') = SumFunction(ByTransport(tagged'))
    BY <1>4, <2>3, <2>5, <2>6, <2>7, <2>10 DEF CountsInv
  <2> QED
    BY <1>1, <1>2, <1>4, <2>7, <2>9, <2>11 DEF CountsInv, after
<1>8. CASE OnProtocolMessage(tag) /\ tag \in Protocols
  <2>1. /\ tagged' = [tagged EXCEPT ![tag] = Push(tagged[tag])]
        /\ UNCHANGED <<global, peerStat, forgotten>>
    BY <1>8 DEF OnProtocolMessage
  <2>2. /\ Total(tagged'[tag]) = Total(tagged[tag]) + 1
        /\ \A t \in Tags : t # tag => Total(tagged'[t]) = Total(tagged[t])
    BY <2>1, TotalsOfSteps DEF TimelyInv, StatsTyped
  <2>3. SumFunction(ByTransport(tagged')) = SumFunction(ByTransport(tagged))
    BY <1>8, <2>2, StatsAssumption, SameTransportCounts DEF Tags
  <2>4. \A t \in Tags : Total(tagged'[t]) \in Nat /\ Total(tagged'[t]) <= Total(tagged[t]) + 1
    BY <1>3, <2>2
  <2>5. /\ Total(global) + after <= sent
        /\ \A t \in Tags : Total(tagged'[t]) + after <= sent
        /\ \A p \in Peers : Total(peerStat[p]) + after <= sent
    <3>1. /\ Total(global) <= Total(global) + 1
          /\ \A p \in Peers : Total(peerStat[p]) <= Total(peerStat[p]) + 1
      BY <1>3
    <3> QED
      BY <1>3, <1>5, <1>6, <2>4, <3>1
  <2> QED
    BY <1>1, <1>2, <1>4, <2>1, <2>3, <2>5 DEF CountsInv, after
<1>9. CASE UNCHANGED <<statVars, forgotten>>
  <2>1. UNCHANGED <<global, tagged, peerStat, forgotten>>
    BY <1>9 DEF statVars
  <2>2. /\ Total(global) + after <= sent
        /\ \A t \in Tags : Total(tagged[t]) + after <= sent
        /\ \A p \in Peers : Total(peerStat[p]) + after <= sent
    <3>1. /\ Total(global) <= Total(global) + 1
          /\ \A t \in Tags : Total(tagged[t]) <= Total(tagged[t]) + 1
          /\ \A p \in Peers : Total(peerStat[p]) <= Total(peerStat[p]) + 1
      BY <1>3
    <3> QED
      BY <1>3, <1>5, <1>6, <3>1
  <2> QED
    BY <1>1, <1>2, <1>4, <2>1, <2>2 DEF CountsInv, after
<1> QED
  BY <1>7, <1>8, <1>9 DEF Deliver

(* Every message is accounted for at every step. *)
THEOREM CountsInvariant == Spec => []CountsInv
<1>1. Init => CountsInv
  <2> SUFFICES ASSUME Init PROVE CountsInv
    OBVIOUS
  <2>1. /\ global = Fresh /\ forgotten = 0 /\ sent = 0
        /\ \A t \in Tags : tagged[t] = Fresh
        /\ \A p \in Peers : peerStat[p] = Fresh
        /\ inflight = [m \in Peers \X Tags |-> 0]
    BY DEF Init
  <2>2. Total(Fresh) = 0
    BY DEF Total, Fresh
  <2>3. \A S : IsFiniteSet(S) => SumFunctionOnSet([x \in S |-> 0], S) = 0
    BY SumOfZeros
  <2>4. Counted(peerStat) = [p \in Peers |-> 0] /\ ByTransport(tagged) = [t \in Transports |-> 0]
    BY <2>1, <2>2 DEF Counted, ByTransport, Tags
  <2>5. /\ SumFunction(Counted(peerStat)) = 0 /\ SumFunction(ByTransport(tagged)) = 0
        /\ SumFunction(inflight) = 0
    BY <2>1, <2>3, <2>4, Finiteness DEF SumFunction
  <2> QED
    BY <2>1, <2>2, <2>5, StatsAssumption DEF CountsInv
<1>2. TimelyInv /\ CountsInv /\ [Next]_vars => CountsInv'
  <2> SUFFICES ASSUME TimelyInv, CountsInv, [Next]_vars PROVE CountsInv'
    OBVIOUS
  <2>1. CASE StartStats \/ StopStats \/ TimerFires \/ Tick \/ UNCHANGED vars
    <3>1. UNCHANGED <<messageVars, forgotten>>
      BY <2>1 DEF StartStats, StopStats, AppliedToAll, TimerFires, Tick, vars
    <3>2. /\ Total(global') = Total(global)
          /\ \A t \in Tags : Total(tagged'[t]) = Total(tagged[t])
          /\ \A p \in Peers : Total(peerStat'[p]) = Total(peerStat[p])
      <4> DEFINE Same(s, t) == t \in {s, Start(s), Stop(s), Update(s), Ticked(s)}
      <4>1. /\ Same(global, global')
            /\ \A t \in Tags : Same(tagged[t], tagged'[t])
            /\ \A p \in Peers : Same(peerStat[p], peerStat'[p])
        <5>1. CASE StartStats
          BY <5>1 DEF StartStats, AppliedToAll
        <5>2. CASE StopStats
          BY <5>2 DEF StopStats, AppliedToAll
        <5>3. CASE TimerFires
          BY <5>3 DEF TimerFires, Updates, TimelyInv, StatsTyped
        <5>4. CASE Tick
          BY <5>4 DEF Tick
        <5>5. CASE UNCHANGED vars
          BY <5>5 DEF vars, statVars
        <5> QED
          BY <2>1, <5>1, <5>2, <5>3, <5>4, <5>5
      <4>2. \A s, t : Timely(s) /\ Same(s, t) => Total(t) = Total(s)
        BY TotalsOfSteps
      <4> HIDE DEF Same
      <4> QED
        BY <4>1, <4>2 DEF TimelyInv
    <3> QED
      BY <3>1, <3>2, UncountedSteps
  <2> QED
    BY <2>1, PeersKeepCounts, ObservingKeepsCounts, DeliveryKeepsCounts DEF Next
<1> QED
  BY <1>1, <1>2, TimelyInvariant, PTL DEF Spec

(* CountsAgree: what the node counts is what its transports and its peers,   *)
(* with those the cache dropped, count together.                             *)
THEOREM CountsAgreeHolds == Spec => []CountsAgree
<1>1. CountsInv => CountsAgree
  BY DEF CountsInv, CountsAgree, ByTransport
<1> QED
  BY <1>1, CountsInvariant, PTL

-----------------------------------------------------------------------------
(* Types.                                                                   *)

Places3 == {"none", "current", "old"}

TypesInv ==
  /\ place \in [Peers -> Places3]
  /\ global.due <= Timeout
  /\ \A t \in Tags : tagged[t].due <= Timeout
  /\ \A p \in Peers : peerStat[p].due <= Timeout

(* No operation of a stat sets its timer beyond the timeout. *)
LEMMA TimersWithinTimeout ==
  ASSUME NEW s, NEW t, Timely(s), s.due <= Timeout, StatStep(s, t)
  PROVE  t.due <= Timeout
<1>1. /\ s \in [queued : Nat, applied : Nat, armed : BOOLEAN, due : Nat, age : Nat]
      /\ Timeout \in Nat /\ MaxQueue \in Nat \ {0}
  BY ThrottleAssumption DEF Timely
<1>2. ASSUME NEW n \in Nat PROVE NextTimeout(n) <= Timeout
  <2>1. CASE n >= MaxQueue
    BY <1>1, <2>1, NextTimeouts
  <2>2. CASE n < MaxQueue
    <3>1. NextTimeout(n) \in Nat /\ MaxQueue * NextTimeout(n) <= Timeout * (MaxQueue - n)
      BY <2>2, NextTimeouts
    <3>2. Timeout * (MaxQueue - n) <= MaxQueue * Timeout
      BY <1>1, <2>2
    <3>3. /\ MaxQueue * NextTimeout(n) \in Nat /\ Timeout * (MaxQueue - n) \in Nat
          /\ MaxQueue * Timeout \in Nat
      BY <1>1, <2>2, <3>1, Products
    <3>4. MaxQueue * NextTimeout(n) <= MaxQueue * Timeout
      BY <3>1, <3>2, <3>3
    <3> QED
      BY <1>1, <3>1, <3>4, Products
  <2> QED
    BY <1>1, <2>1, <2>2
<1>3. ASSUME NEW u, Timely(u) PROVE Push(u).due <= Timeout
  <2>1. u \in [queued : Nat, applied : Nat, armed : BOOLEAN, due : Nat, age : Nat]
    BY <1>3 DEF Timely
  <2>2. Push(u).due = NextTimeout(u.queued + 1)
    BY <2>1 DEF Push, ResetComputeTimeout
  <2> QED
    BY <1>2, <2>1, <2>2
<1>4. Start(s).due <= Timeout
  <2>1. Start(s).due = s.due \/ Start(s).due = NextTimeout(s.queued)
    BY <1>1 DEF Start, ResetComputeTimeout
  <2> QED
    BY <1>1, <1>2, <2>1
<1>5. Fresh.due <= Timeout /\ Stop(s).due <= Timeout /\ Update(s).due <= Timeout
  <2>1. Fresh.due = 0 /\ Stop(s).due = 0 /\ Update(s).due = 0
    BY <1>1 DEF Fresh, Stop, Update
  <2> QED
    BY <1>1, <2>1
<1>6. Ticked(s).due <= Timeout
  <2>1. Ticked(s).due = s.due \/ Ticked(s).due = s.due - 1
    BY <1>1 DEF Ticked
  <2> QED
    BY <1>1, <2>1
<1>7. Push(s).due <= Timeout /\ Push(Start(s)).due <= Timeout
  BY <1>3, StartIsTimely
<1> QED
  BY <1>4, <1>5, <1>6, <1>7 DEF StatStep

(* TypeOK: also, no stat counts more than the messages there were.          *)
THEOREM TypeCorrect == Spec => []TypeOK
<1>1. Init => TypesInv
  BY ThrottleAssumption DEF Init, TypesInv, Fresh, Places3
<1>2. TimelyInv /\ TypesInv /\ [Next]_vars => TypesInv'
  <2> SUFFICES ASSUME TimelyInv, TypesInv, [Next]_vars PROVE TypesInv'
    OBVIOUS
  <2>1. AllStep
    BY StepsOfStats DEF TimelyInv
  <2>2. /\ global'.due <= Timeout
        /\ \A t \in Tags : tagged'[t].due <= Timeout
        /\ \A p \in Peers : peerStat'[p].due <= Timeout
    BY <2>1, TimersWithinTimeout DEF AllStep, TimelyInv, TypesInv
  <2>3. place' \in [Peers -> Places3]
    <3>1. ASSUME NEW stats, NEW places \in [Peers -> Places3], NEW gone, Forgets(stats, places, gone)
          PROVE  place' \in [Peers -> Places3]
      BY <3>1 DEF Forgets, Places3
    <3>2. ASSUME NEW q \in Peers
          PROVE  [place EXCEPT ![q] = "old"] \in [Peers -> Places3]
                 /\ [place EXCEPT ![q] = "current"] \in [Peers -> Places3]
                 /\ place \in [Peers -> Places3]
      BY DEF TypesInv, Places3
    <3>3. ASSUME NEW q \in Peers, ForPeer(q) \/ PeerClosed(q)
          PROVE  place' \in [Peers -> Places3]
      BY <3>1, <3>2, <3>3 DEF ForPeer, PeerClosed
    <3>4. ASSUME NEW q \in Peers, NEW tag \in Tags, Deliver(q, tag)
          PROVE  place' \in [Peers -> Places3]
      <4>1. OnTransportMessage(q, tag) \/ UNCHANGED place
        BY <3>4 DEF Deliver, OnProtocolMessage, statVars
      <4> QED
        BY <3>1, <3>2, <4>1 DEF OnTransportMessage, TypesInv
    <3>5. \A q \in Peers, tag \in Tags : Observe(q, tag) => UNCHANGED place
      BY DEF Observe, statVars
    <3>6. StartStats \/ StopStats \/ TimerFires \/ Tick \/ UNCHANGED vars => UNCHANGED place
      BY DEF StartStats, StopStats, AppliedToAll, TimerFires, Tick, vars, statVars
    <3> QED
      BY <3>3, <3>4, <3>5, <3>6 DEF Next, TypesInv
  <2> QED
    BY <2>2, <2>3 DEF TypesInv
<1>3. TimelyInv /\ CountsInv /\ TypesInv => TypeOK
  <2> SUFFICES ASSUME TimelyInv, CountsInv, TypesInv PROVE TypeOK
    OBVIOUS
  <2>1. MaxMessages \in Nat /\ Timeout \in Nat /\ sent \in 0 .. MaxMessages
    BY StatsAssumption, ThrottleAssumption DEF CountsInv
  <2>2. inflight \in [Peers \X Tags -> Nat] /\ DOMAIN inflight = Peers \X Tags
    BY DEF CountsInv
  <2>3. SumFunction(inflight) \in Nat
    BY <2>2, Finiteness, SumIsNat DEF SumFunction
  <2>4. ASSUME NEW s, Timely(s), s.due <= Timeout, Total(s) + SumFunction(inflight) <= sent
        PROVE  s \in StatType
    <3>1. s \in [queued : Nat, applied : Nat, armed : BOOLEAN, due : Nat, age : Nat]
      BY <2>4 DEF Timely
    <3>2. s.queued \in 0 .. MaxMessages /\ s.applied \in 0 .. MaxMessages
      BY <2>1, <2>3, <2>4, <3>1 DEF Total
    <3> QED
      BY <2>1, <2>4, <3>1, <3>2 DEF StatType
  <2>5. AllStats \subseteq StatType
    BY <2>4 DEF AllStats, Range, TimelyInv, StatsTyped, CountsInv, TypesInv
  <2>6. ASSUME NEW m \in Peers \X Tags
        PROVE  inflight[m] <= MaxMessages
    <3>1. IsFiniteSet((Peers \X Tags) \ {m}) /\ inflight[m] \in Nat
      BY <2>2, Finiteness, FS_RemoveElement
    <3>2. /\ SumFunction(inflight) = inflight[m] + SumFunctionOnSet(inflight, (Peers \X Tags) \ {m})
          /\ SumFunctionOnSet(inflight, (Peers \X Tags) \ {m}) \in Nat
      BY <2>2, <3>1, Finiteness, SumOfAny, SumIsNat DEF SumFunction
    <3>3. Total(global) \in Nat /\ Total(global) + SumFunction(inflight) <= sent
      BY TotalsOfSteps DEF TimelyInv, CountsInv
    <3> QED
      BY <2>1, <2>3, <3>1, <3>2, <3>3
  <2>7. inflight \in [Peers \X Tags -> 0 .. MaxMessages]
    BY <2>1, <2>2, <2>6
  <2> QED
    BY <2>1, <2>5, <2>7 DEF TypeOK, TimelyInv, StatsTyped, CountsInv, TypesInv, Places3
<1> QED
  BY <1>1, <1>2, <1>3, TimelyInvariant, CountsInvariant, PTL DEF Spec
=============================================================================
