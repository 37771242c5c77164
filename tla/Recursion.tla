------------------------------ MODULE Recursion ------------------------------
(***************************************************************************)
(* Facts the proofs of several components rest on: sets of numbers have a  *)
(* first element, which is induction, and a function that is defined by    *)
(* recursion exists, over 0 .. n or towards elements nearer to a stop.     *)
(***************************************************************************)
EXTENDS Integers, FiniteSetTheorems, TLAPS

(* A set of indices that is not empty has a first one: of the intervals up *)
(* to them one is minimal in the order of strict inclusion.                *)
LEMMA FirstExists ==
  ASSUME NEW hits, hits \subseteq Nat, hits # {}
  PROVE  \E i \in hits : \A j \in hits : i <= j
<1> DEFINE Up == {1 .. i : i \in hits}
<1>1. Up \subseteq FiniteSubsetsOf(Nat)
  <2>1. SUFFICES ASSUME NEW i \in hits PROVE 1 .. i \in FiniteSubsetsOf(Nat)
    OBVIOUS
  <2>2. IsFiniteSet(1 .. i)
    BY FS_Interval
  <2> QED
    BY <2>2 DEF FiniteSubsetsOf
<1>2. Up # {}
  OBVIOUS
<1>3. PICK x \in Up : \A y \in Up : <<y, x>> \notin StrictSubsetOrdering(Nat)
  <2> HIDE DEF Up
  <2> QED
    BY <1>1, <1>2, FS_StrictSubsetOrderingWellFounded, WFMin, Zenon
<1>4. PICK i \in hits : x = 1 .. i
  BY <1>3
<1>5. \A j \in hits : i <= j
  <2>1. SUFFICES ASSUME NEW j \in hits, j < i PROVE FALSE
    OBVIOUS
  <2>2. i \in Nat /\ j \in Nat
    OBVIOUS
  <2>3. 1 .. j \subseteq 1 .. i /\ 1 .. i \subseteq Nat
    BY <2>1, <2>2
  <2>4. i \in 1 .. i /\ i \notin 1 .. j
    BY <2>1, <2>2
  <2>5. <<1 .. j, 1 .. i>> \in StrictSubsetOrdering(Nat)
    BY <2>3, <2>4 DEF StrictSubsetOrdering
  <2> QED
    BY <1>3, <1>4, <2>5
<1> QED
  BY <1>5

(* The first of them is what CHOOSE gives.                                 *)
LEMMA FirstIsChosen ==
  ASSUME NEW hits, hits \subseteq Nat, NEW i \in hits, \A j \in hits : i <= j
  PROVE  (CHOOSE k \in hits : \A j \in hits : k <= j) = i
<1> DEFINE First(k) == \A j \in hits : k <= j
<1>1. \A k \in hits : First(k) => k = i
  OBVIOUS
<1>2. First(i)
  OBVIOUS
<1> HIDE DEF First
<1>3. (CHOOSE k \in hits : First(k)) \in hits /\ First(CHOOSE k \in hits : First(k))
  BY <1>2
<1>4. (CHOOSE k \in hits : First(k)) = i
  BY <1>1, <1>3
<1> QED
  BY <1>4 DEF First

(* What CHOOSE gives of a set that is not empty is its first element.      *)
LEMMA ChosenIsFirst ==
  ASSUME NEW hits, hits \subseteq Nat, hits # {}
  PROVE  /\ (CHOOSE k \in hits : \A j \in hits : k <= j) \in hits
         /\ \A j \in hits : (CHOOSE k \in hits : \A i \in hits : k <= i) <= j
<1>1. PICK i \in hits : \A j \in hits : i <= j
  BY FirstExists
<1>2. (CHOOSE k \in hits : \A j \in hits : k <= j) = i
  BY <1>1, FirstIsChosen
<1> QED
  BY <1>1, <1>2

(* Induction with the set of the numbers the claim holds for.              *)
LEMMA Inductive ==
  ASSUME NEW n \in Nat, NEW holds, 0 \in holds,
         \A k \in 1 .. n : k - 1 \in holds => k \in holds
  PROVE  0 .. n \subseteq holds
<1> DEFINE fails == {k \in 0 .. n : k \notin holds}
<1>1. SUFFICES ASSUME fails # {} PROVE FALSE
  OBVIOUS
<1>2. PICK k \in fails : \A j \in fails : k <= j
  <2>1. fails \subseteq Nat
    OBVIOUS
  <2> QED
    BY <1>1, <2>1, FirstExists
<1>3. k \in 1 .. n /\ k - 1 \notin fails
  BY <1>2
<1> QED
  BY <1>2, <1>3

(* A function that starts with base and takes each value from the one      *)
(* before it by Step.                                                      *)
Iteration(f, base, Step, n) == f[0] = base /\ \A i \in 1 .. n : f[i] = Step[<<f[i - 1], i>>]

LEMMA Iterates ==
  ASSUME NEW X, NEW base \in X, NEW n \in Nat, NEW Step \in [X \X (1 .. n) -> X]
  PROVE  \E f \in [0 .. n -> X] : Iteration(f, base, Step, n)
<1> DEFINE Good(f, k) == f[0] = base /\ \A i \in 1 .. k : f[i] = Step[<<f[i - 1], i>>]
           holds == {k \in 0 .. n : \E f \in [0 .. k -> X] : Good(f, k)}
<1>1. 0 \in holds
  <2>1. [i \in 0 .. 0 |-> base] \in [0 .. 0 -> X] /\ Good([i \in 0 .. 0 |-> base], 0)
    OBVIOUS
  <2> HIDE DEF Good
  <2>2. 0 \in 0 .. n
    OBVIOUS
  <2> QED
    BY <2>1, <2>2
<1>2. ASSUME NEW k \in 1 .. n, k - 1 \in holds PROVE k \in holds
  <2>1. PICK f \in [0 .. k - 1 -> X] : Good(f, k - 1)
    BY <1>2
  <2>2. k - 1 \in 0 .. k - 1 /\ f[k - 1] \in X
    OBVIOUS
  <2>3. Step[<<f[k - 1], k>>] \in X
    BY <2>2
  <2> DEFINE g == [i \in 0 .. k |-> IF i = k THEN Step[<<f[k - 1], k>>] ELSE f[i]]
  <2>4. g \in [0 .. k -> X]
    BY <2>3
  <2>5. g[0] = base
    BY <2>1
  <2>6. \A i \in 1 .. k : g[i] = Step[<<g[i - 1], i>>]
    <3>1. TAKE i \in 1 .. k
    <3>2. CASE i = k
      <4>1. g[k] = Step[<<f[k - 1], k>>] /\ g[k - 1] = f[k - 1]
        OBVIOUS
      <4> HIDE DEF g
      <4> QED
        BY <3>2, <4>1
    <3>3. CASE i # k
      <4>1. i \in 1 .. k - 1 /\ g[i] = f[i] /\ g[i - 1] = f[i - 1]
        BY <3>3
      <4> QED
        BY <2>1, <4>1
    <3> QED
      BY <3>2, <3>3
  <2>7. Good(g, k)
    <3> HIDE DEF g
    <3> QED
      BY <2>5, <2>6
  <2>8. k \in 0 .. n
    OBVIOUS
  <2> HIDE DEF Good, g
  <2> QED
    BY <2>4, <2>7, <2>8
<1>3. n \in holds
  <2>1. 0 .. n \subseteq holds
    <3> HIDE DEF holds
    <3> QED
      BY <1>1, <1>2, Inductive
  <2>2. n \in 0 .. n
    OBVIOUS
  <2> HIDE DEF Good
  <2> QED
    BY <2>1, <2>2
<1> QED
  BY <1>3 DEF Iteration

(* A function that takes the value of s from that of next[s], which is     *)
(* nearer to a stop in the measure m.                                      *)
Descent(S, N, m, next, stop) ==
  /\ N \in Nat /\ m \in [S -> 0 .. N] /\ next \in [S -> S]
  /\ \A s \in S \ stop : m[next[s]] < m[s]

Descending(f, S, next, stop, base, Value) ==
  \A s \in S : f[s] = IF s \in stop THEN base[s] ELSE Value[<<s, f[next[s]]>>]

LEMMA Descends ==
  ASSUME NEW S, NEW V, NEW N, NEW m, NEW next, NEW stop, Descent(S, N, m, next, stop),
         NEW base \in [S -> V], NEW Value \in [S \X V -> V]
  PROVE  \E f \in [S -> V] : Descending(f, S, next, stop, base, Value)
<1> USE DEF Descent
<1> DEFINE Good(f, s) == f[s] = IF s \in stop THEN base[s] ELSE Value[<<s, f[next[s]]>>]
           Below(f, k) == \A s \in S : m[s] < k => Good(f, s)
           last == N + 1
           holds == {k \in 0 .. last : \E f \in [S -> V] : Below(f, k)}
<1>0. last \in Nat /\ 0 \in 0 .. last /\ last \in 0 .. last
  OBVIOUS
<1>1. 0 \in holds
  <2>1. Below(base, 0)
    OBVIOUS
  <2> HIDE DEF Below, last
  <2> QED
    BY <1>0, <2>1
<1>2. ASSUME NEW k \in 1 .. last, k - 1 \in holds PROVE k \in holds
  <2>1. PICK f \in [S -> V] : Below(f, k - 1)
    BY <1>2
  <2> DEFINE g == [s \in S |-> IF s \in stop THEN base[s] ELSE Value[<<s, f[next[s]]>>]]
  <2>2. g \in [S -> V]
    OBVIOUS
  <2>3. \A s \in S : m[s] < k - 1 => g[s] = f[s]
    BY <2>1
  <2>4. ASSUME NEW s \in S, m[s] < k PROVE Good(g, s)
    <3>1. CASE s \in stop
      BY <3>1
    <3>2. CASE s \notin stop
      <4>1. m[next[s]] < m[s] /\ next[s] \in S /\ m[next[s]] \in 0 .. N /\ m[s] \in 0 .. N
        BY <3>2
      <4>2. m[next[s]] < k - 1
        BY <2>4, <4>1
      <4>3. g[next[s]] = f[next[s]]
        BY <2>3, <4>1, <4>2
      <4>4. g[s] = Value[<<s, f[next[s]]>>]
        BY <3>2
      <4> HIDE DEF g
      <4> QED
        BY <3>2, <4>3, <4>4
    <3> QED
      BY <3>1, <3>2
  <2> HIDE DEF g, Good
  <2>5. Below(g, k)
    BY <2>4
  <2>6. k \in 0 .. last
    BY <1>0
  <2> HIDE DEF Below, last
  <2> QED
    BY <2>2, <2>5, <2>6
<1>3. 0 .. last \subseteq holds
  <2> HIDE DEF holds, last
  <2> QED
    BY <1>0, <1>1, <1>2, Inductive
<1>4. PICK f \in [S -> V] : Below(f, last)
  <2>1. last \in holds
    BY <1>0, <1>3
  <2> HIDE DEF Below, last
  <2> QED
    BY <2>1
<1>5. \A s \in S : m[s] < last
  OBVIOUS
<1>6. \A s \in S : Good(f, s)
  <2> HIDE DEF Good
  <2> QED
    BY <1>4, <1>5
<1> QED
  BY <1>6 DEF Descending

(* What holds at an element if it does nearer to a stop holds everywhere.  *)
LEMMA DescentInduces ==
  ASSUME NEW S, NEW N, NEW m, NEW next, NEW stop, Descent(S, N, m, next, stop), NEW holds,
         \A s \in S : s \in stop \/ next[s] \in holds => s \in holds
  PROVE  S \subseteq holds
<1> USE DEF Descent
<1> DEFINE last == N + 1
           low == {k \in 0 .. last : \A s \in S : m[s] < k => s \in holds}
<1>1. last \in Nat /\ 0 \in 0 .. last /\ last \in 0 .. last
  OBVIOUS
<1>2. 0 \in low
  OBVIOUS
<1>3. ASSUME NEW k \in 1 .. last, k - 1 \in low PROVE k \in low
  <2>1. SUFFICES ASSUME NEW s \in S, m[s] < k PROVE s \in holds
    OBVIOUS
  <2>2. CASE s \in stop
    BY <2>2
  <2>3. CASE s \notin stop
    <3>1. m[next[s]] < m[s] /\ next[s] \in S /\ m[next[s]] \in 0 .. N /\ m[s] \in 0 .. N
      BY <2>3
    <3>2. m[next[s]] < k - 1
      BY <2>1, <3>1
    <3> QED
      BY <1>3, <3>1, <3>2
  <2> QED
    BY <2>2, <2>3
<1>4. 0 .. last \subseteq low
  <2> HIDE DEF low, last
  <2> QED
    BY <1>1, <1>2, <1>3, Inductive
<1>5. \A s \in S : m[s] < last
  OBVIOUS
<1> QED
  BY <1>1, <1>4, <1>5
=============================================================================
