---------------------------- MODULE ArrayProofs ----------------------------
(***************************************************************************)
(* What filter returns for every array.  The library's induction theorems  *)
(* take an operator the provers cannot instantiate; both inductions below  *)
(* are on the least number for which the claim fails.                      *)
(***************************************************************************)
EXTENDS Arrays, Functions, WellFoundedInduction, TLAPS

(* Any set of numbers has a least element. *)
LEMMA LeastNumber ==
  ASSUME NEW S \in SUBSET Nat, S # {}
  PROVE  \E m \in S : \A k \in S : m <= k
<1> DEFINE R == OpToRel(<, Nat)
<1>1. \E m \in S : \A y \in S : <<y, m>> \notin R
  BY NatLessThanWellFounded, WFMin
<1>2. \A y, m \in Nat : <<y, m>> \in R <=> y < m
  BY DEF OpToRel
<1> HIDE DEF R
<1>3. PICK m \in S : \A y \in S : <<y, m>> \notin R
  BY <1>1
<1>4. \A y \in S : ~(y < m)
  BY <1>2, <1>3
<1> QED
  BY <1>4

(* What is kept of the first k elements, given what is kept of fewer. *)
Keeps(f, s, good, k) ==
  IF k = 0 THEN <<>> ELSE IF s[k] \in good THEN Append(f[k - 1], s[k]) ELSE f[k - 1]

(* There is a function as Kept defines it. *)
LEMMA KeptExists ==
  ASSUME NEW U, NEW s \in Seq(U), NEW good
  PROVE  \E f : f = [n \in 0 .. Len(s) |-> Keeps(f, s, good, n)]
<1> DEFINE Good(n, f) == /\ f \in [0 .. n -> Seq(U)]
                         /\ \A k \in 0 .. n : f[k] = Keeps(f, s, good, k)
           E(n) == \E f : Good(n, f)
<1>1. Len(s) \in Nat /\ \A k \in 1 .. Len(s) : s[k] \in U
  OBVIOUS
<1>2. \A n \in 0 .. Len(s) : E(n)
  <2> SUFFICES ASSUME NEW x \in 0 .. Len(s), ~E(x) PROVE FALSE
    OBVIOUS
  <2> DEFINE S == {n \in 0 .. Len(s) : ~E(n)}
  <2>1. S # {} /\ S \in SUBSET Nat
    <3> HIDE DEF E
    <3> QED
      BY <1>1
  <2>2. PICK m \in S : \A k \in S : m <= k
    <3> HIDE DEF S
    <3> QED
      BY <2>1, LeastNumber
  <2>3. m # 0
    <3>1. Good(0, [n \in 0 .. 0 |-> <<>>])
      BY DEF Keeps
    <3> QED
      BY <2>2, <3>1
  <2>4. m \in 1 .. Len(s) /\ m - 1 \in 0 .. Len(s) /\ m - 1 < m
    BY <1>1, <2>2, <2>3
  <2>5. m - 1 \notin S
    <3> HIDE DEF S
    <3> QED
      BY <2>2, <2>4
  <2>6. PICK f : Good(m - 1, f)
    BY <2>4, <2>5
  <2> DEFINE g == [k \in 0 .. m |-> IF k = m THEN Keeps(f, s, good, m) ELSE f[k]]
  <2>7. g \in [0 .. m -> Seq(U)]
    <3>1. s[m] \in U /\ f[m - 1] \in Seq(U)
      BY <1>1, <2>4, <2>6
    <3>2. Keeps(f, s, good, m) \in Seq(U)
      BY <2>4, <3>1 DEF Keeps
    <3>3. \A k \in 0 .. m : k # m => k \in 0 .. m - 1
      BY <2>4
    <3> QED
      BY <2>6, <3>2, <3>3
  <2>8. ASSUME NEW k \in 0 .. m
        PROVE  g[k] = Keeps(g, s, good, k)
    <3>1. k # 0 => k - 1 \in 0 .. m /\ k - 1 # m /\ g[k - 1] = f[k - 1]
      BY <2>4
    <3>2. Keeps(g, s, good, k) = Keeps(f, s, good, k)
      BY <3>1 DEF Keeps
    <3>3. g[k] = Keeps(f, s, good, k)
      <4>1. k # m => k \in 0 .. m - 1
        BY <2>4
      <4> QED
        BY <2>6, <4>1
    <3> QED
      BY <3>2, <3>3
  <2> QED
    BY <2>2, <2>7, <2>8
<1>3. E(Len(s))
  <2>1. Len(s) \in 0 .. Len(s)
    BY <1>1
  <2> HIDE DEF E
  <2> QED
    BY <1>2, <2>1
<1>4. PICK f : Good(Len(s), f)
  BY <1>3
<1>5. f = [n \in 0 .. Len(s) |-> Keeps(f, s, good, n)]
  BY <1>4
<1> QED
  BY <1>5

(* Kept is that function. *)
LEMMA KeptIs ==
  ASSUME NEW U, NEW s \in Seq(U), NEW good
  PROVE  Kept(s, good) = [n \in 0 .. Len(s) |-> Keeps(Kept(s, good), s, good, n)]
<1> DEFINE Is(f) == f = [n \in 0 .. Len(s) |-> Keeps(f, s, good, n)]
<1>1. \E f : Is(f)
  BY KeptExists
<1>2. Kept(s, good) = CHOOSE f : Is(f)
  BY DEF Kept, Keeps
<1> HIDE DEF Is
<1>3. Is(Kept(s, good))
  BY <1>1, <1>2
<1> QED
  BY <1>3 DEF Is

(* Induction up to a bound: a set that holds 0, and each number whose         *)
(* predecessor it holds, holds all.                                         *)
LEMMA UptoInduction ==
  ASSUME NEW N \in Nat, NEW C, 0 \in C, \A m \in 1 .. N : m - 1 \in C => m \in C
  PROVE  \A n \in 0 .. N : n \in C
<1> SUFFICES ASSUME NEW x \in 0 .. N, x \notin C PROVE FALSE
  OBVIOUS
<1> DEFINE S == {n \in 0 .. N : n \notin C}
<1>1. S # {} /\ S \in SUBSET Nat
  OBVIOUS
<1>2. PICK m \in S : \A k \in S : m <= k
  <2> HIDE DEF S
  <2> QED
    BY <1>1, LeastNumber
<1>3. m \in 1 .. N /\ m - 1 \in 0 .. N /\ m - 1 < m
  BY <1>2
<1>4. m - 1 \notin S
  <2> HIDE DEF S
  <2> QED
    BY <1>2, <1>3
<1> QED
  BY <1>2, <1>3, <1>4

(* filter returns the elements of the array that pass, no others, and none   *)
(* of them twice if the array held none twice.                              *)
LEMMA FilterSelects ==
  ASSUME NEW U, NEW s \in Seq(U), NEW good
  PROVE  /\ Filter(s, good) \in Seq(U \cap good)
         /\ Range(Filter(s, good)) = Range(s) \cap good
         /\ IsInjective(s) => IsInjective(Filter(s, good))
<1> DEFINE K == Kept(s, good)
           Exact(n) == /\ K[n] \in Seq(U \cap good)
                       /\ Range(K[n]) = {s[i] : i \in 1 .. n} \cap good
                       /\ IsInjective(s) => IsInjective(K[n])
           C == {n \in 0 .. Len(s) : Exact(n)}
<1>1. Len(s) \in Nat /\ DOMAIN s = 1 .. Len(s) /\ \A k \in 1 .. Len(s) : s[k] \in U
  OBVIOUS
<1>2. \A n \in 0 .. Len(s) : K[n] = Keeps(K, s, good, n)
  BY KeptIs
<1> HIDE DEF K
<1>3. 0 \in C
  <2>1. 0 \in 0 .. Len(s)
    BY <1>1
  <2>2. K[0] = <<>>
    BY <1>2, <2>1 DEF Keeps
  <2>3. {s[i] : i \in 1 .. 0} = {} /\ Range(<<>>) = {}
    BY DEF Range
  <2>4. <<>> \in Seq(U \cap good) /\ IsInjective(<<>>)
    BY DEF IsInjective
  <2> QED
    BY <2>1, <2>2, <2>3, <2>4
<1>4. ASSUME NEW m \in 1 .. Len(s), m - 1 \in C
      PROVE  m \in C
  <2> DEFINE k == K[m - 1]
  <2>1. /\ m \in 0 .. Len(s) /\ m # 0 /\ s[m] \in U
        /\ K[m] = IF s[m] \in good THEN Append(k, s[m]) ELSE k
    BY <1>1, <1>2 DEF Keeps
  <2>2. /\ k \in Seq(U \cap good) /\ Range(k) = {s[i] : i \in 1 .. m - 1} \cap good
        /\ IsInjective(s) => IsInjective(k)
    BY <1>4
  <2>3. {s[i] : i \in 1 .. m} = {s[i] : i \in 1 .. m - 1} \cup {s[m]}
    BY <1>1
  <2> HIDE DEF k
  <2>4. CASE s[m] \in good
    <3>1. K[m] = Append(k, s[m]) /\ K[m] \in Seq(U \cap good)
      BY <2>1, <2>2, <2>4
    <3>2. /\ DOMAIN k = 1 .. Len(k) /\ Len(k) \in Nat
          /\ DOMAIN Append(k, s[m]) = 1 .. Len(k) + 1
          /\ \A i \in 1 .. Len(k) : Append(k, s[m])[i] = k[i]
          /\ Append(k, s[m])[Len(k) + 1] = s[m]
      BY <2>1, <2>2, <2>4
    <3>3. Range(Append(k, s[m])) = Range(k) \cup {s[m]}
      BY <3>2 DEF Range
    <3>4. ASSUME IsInjective(s) PROVE IsInjective(Append(k, s[m]))
      <4>1. s[m] \notin {s[i] : i \in 1 .. m - 1}
        BY <1>1, <3>4 DEF IsInjective
      <4>2. \A i \in 1 .. Len(k) : k[i] # s[m]
        BY <2>2, <3>2, <4>1 DEF Range
      <4>3. \A i, j \in 1 .. Len(k) : k[i] = k[j] => i = j
        BY <2>2, <3>2, <3>4 DEF IsInjective
      <4> QED
        BY <3>2, <4>2, <4>3 DEF IsInjective
    <3> QED
      BY <2>1, <2>2, <2>3, <2>4, <3>1, <3>3, <3>4
  <2>5. CASE s[m] \notin good
    BY <2>1, <2>2, <2>3, <2>5
  <2> QED
    BY <2>4, <2>5
<1>5. Len(s) \in C
  <2> HIDE DEF C
  <2>1. \A n \in 0 .. Len(s) : n \in C
    BY <1>1, <1>3, <1>4, UptoInduction
  <2>2. Len(s) \in 0 .. Len(s)
    BY <1>1
  <2> QED
    BY <2>1, <2>2
<1>6. Range(s) = {s[i] : i \in 1 .. Len(s)}
  BY <1>1 DEF Range
<1> QED
  BY <1>5, <1>6 DEF Filter, K
=============================================================================
