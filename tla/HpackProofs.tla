---------------------------- MODULE HpackProofs ----------------------------
(***************************************************************************)
(* Theorems about Hpack for tables of any size, any headers and any        *)
(* prefix: an integer is read as it was encoded, a decoder whose table     *)
(* goes on where the client's ends reads a block as the client meant it,   *)
(* and the client reads the block that hpack_encode makes of a response's  *)
(* headers, unless a list by name keeps what the table has evicted.        *)
(***************************************************************************)
EXTENDS Hpack, Recursion, SequenceTheorems

-----------------------------------------------------------------------------
(* Of a set of numbers up to n that is not empty Max gives the largest.    *)
LEMMA LargestOf ==
  ASSUME NEW n \in Nat, NEW S, S \subseteq 0 .. n, S # {}
  PROVE  Max(S) \in S /\ \A k \in S : k <= Max(S)
<1> DEFINE left == {n - k : k \in S}
<1>1. left \subseteq Nat /\ left # {}
  <2>1. \A k \in S : n - k \in Nat
    OBVIOUS
  <2> QED
    BY <2>1
<1>2. PICK i \in left : \A j \in left : i <= j
  <2> HIDE DEF left
  <2> QED
    BY <1>1, FirstExists
<1>3. PICK m \in S : i = n - m
  BY <1>2
<1>4. \A k \in S : m >= k
  BY <1>2, <1>3
<1>5. Max(S) \in S /\ \A k \in S : Max(S) >= k
  <2> DEFINE Most(x) == \A y \in S : x >= y
  <2> HIDE DEF Most
  <2>1. Most(m)
    BY <1>4 DEF Most
  <2>2. Max(S) = CHOOSE x \in S : Most(x)
    BY DEF Max, Most
  <2>3. (CHOOSE x \in S : Most(x)) \in S /\ Most(CHOOSE x \in S : Most(x))
    BY <2>1
  <2> QED
    BY <2>2, <2>3 DEF Most
<1> QED
  BY <1>5

-----------------------------------------------------------------------------
(* How much the first entries of a table weigh, for every number of them.  *)
Sized(table) ==
  /\ table = [i \in 1 .. Len(table) |-> table[i]] /\ Len(table) \in Nat
  /\ \A i \in 1 .. Len(table) : table[i].size \in Nat

Upto(table) == CHOOSE f : f = [k \in 0 .. Len(table) |->
                                 IF k = 0 THEN 0 ELSE f[k - 1] + table[k].size]

LEMMA WeightIs == \A table : Weight(table) = Upto(table)[Len(table)]
BY DEF Weight, Upto

LEMMA UptoIs ==
  ASSUME NEW table, Sized(table)
  PROVE  /\ Upto(table) \in [0 .. Len(table) -> Nat] /\ Upto(table)[0] = 0
         /\ \A k \in 1 .. Len(table) : Upto(table)[k] = Upto(table)[k - 1] + table[k].size
<1> DEFINE n == Len(table)
           Step == [x \in Nat \X (1 .. n) |-> x[1] + table[x[2]].size]
<1>1. n \in Nat /\ \A i \in 1 .. n : table[i].size \in Nat
  BY DEF Sized
<1>2. Step \in [Nat \X (1 .. n) -> Nat]
  <2> HIDE DEF n
  <2>1. \A x \in Nat \X (1 .. n) : x[1] + table[x[2]].size \in Nat
    BY <1>1
  <2> QED
    BY <2>1
<1>3. \A a \in Nat, i \in 1 .. n : Step[<<a, i>>] = a + table[i].size
  <2> HIDE DEF n
  <2> QED
    OBVIOUS
<1>4. PICK f \in [0 .. n -> Nat] : Iteration(f, 0, Step, n)
  <2> HIDE DEF Step, n
  <2> QED
    BY <1>1, <1>2, Iterates
<1>5. f[0] = 0 /\ \A i \in 1 .. n : f[i] = f[i - 1] + table[i].size
  <2>1. \A i \in 1 .. n : f[i - 1] \in Nat
    <3> HIDE DEF n
    <3> QED
      BY <1>1
  <2> HIDE DEF Step, n
  <2> QED
    BY <1>3, <1>4, <2>1 DEF Iteration
<1> DEFINE Rec(g) == g = [k \in 0 .. n |-> IF k = 0 THEN 0 ELSE g[k - 1] + table[k].size]
<1>6. Rec(f)
  <2> HIDE DEF n, Step
  <2>1. f = [k \in 0 .. n |-> f[k]]
    BY <1>4
  <2>2. \A k \in 0 .. n : f[k] = IF k = 0 THEN 0 ELSE f[k - 1] + table[k].size
    BY <1>1, <1>5
  <2> QED
    BY <2>1, <2>2
<1>7. Upto(table) = CHOOSE g : Rec(g)
  BY DEF Upto
<1>8. Rec(Upto(table))
  <2> HIDE DEF Rec
  <2> QED
    BY <1>6, <1>7
<1> DEFINE u == Upto(table)
<1>9. u = [k \in 0 .. n |-> IF k = 0 THEN 0 ELSE u[k - 1] + table[k].size]
  BY <1>8
<1> HIDE DEF u, n, Rec, Step
<1>10. u[0] = 0 /\ \A k \in 1 .. n : u[k] = u[k - 1] + table[k].size
  BY <1>1, <1>9
<1>11. 0 .. n \subseteq {k \in Nat : u[k] \in Nat}
  <2> DEFINE holds == {k \in Nat : u[k] \in Nat}
  <2>1. 0 \in holds
    BY <1>10
  <2>2. ASSUME NEW k \in 1 .. n, k - 1 \in holds PROVE k \in holds
    BY <1>1, <1>10, <2>2
  <2>3. 0 .. n \subseteq holds
    <3> HIDE DEF holds
    <3> QED
      BY <1>1, <2>1, <2>2, Inductive
  <2> QED
    BY <2>3
<1>12. u \in [0 .. n -> Nat]
  BY <1>9, <1>11
<1> QED
  BY <1>10, <1>12 DEF u, n

(* It is the only function that adds up so.                                *)
LEMMA WeightOf ==
  ASSUME NEW table, Sized(table), NEW f, f[0] = 0,
         \A k \in 1 .. Len(table) : f[k] = f[k - 1] + table[k].size
  PROVE  Weight(table) = f[Len(table)]
<1> DEFINE n == Len(table)
           u == Upto(table)
           holds == {k \in 0 .. n : u[k] = f[k]}
<1>1. n \in Nat /\ \A i \in 1 .. n : table[i].size \in Nat
  BY DEF Sized
<1>2. /\ u \in [0 .. n -> Nat] /\ u[0] = 0
      /\ \A k \in 1 .. n : u[k] = u[k - 1] + table[k].size
  BY UptoIs
<1>3. f[0] = 0 /\ \A k \in 1 .. n : f[k] = f[k - 1] + table[k].size
  OBVIOUS
<1>4. n \in holds
  <2> HIDE DEF n, u
  <2>1. 0 \in holds
    BY <1>1, <1>2, <1>3
  <2>2. ASSUME NEW k \in 1 .. n, k - 1 \in holds PROVE k \in holds
    BY <1>1, <1>2, <1>3, <2>2
  <2>3. 0 .. n \subseteq holds
    <3> HIDE DEF holds
    <3> QED
      BY <1>1, <2>1, <2>2, Inductive
  <2>4. n \in 0 .. n
    BY <1>1
  <2> QED
    BY <2>3, <2>4
<1>5. Weight(table) = u[n]
  BY WeightIs
<1> HIDE DEF u, n
<1>6. Weight(table) = f[n]
  BY <1>4, <1>5
<1> QED
  BY <1>6 DEF n

LEMMA UptoGrows ==
  ASSUME NEW table, Sized(table), NEW j \in 0 .. Len(table), NEW k \in 0 .. Len(table), j <= k
  PROVE  Upto(table)[j] <= Upto(table)[k]
<1> DEFINE n == Len(table)
           u == Upto(table)
           holds == {i \in 0 .. n : i >= j => u[j] <= u[i]}
<1>1. n \in Nat /\ \A i \in 1 .. n : table[i].size \in Nat
  BY DEF Sized
<1>2. /\ u \in [0 .. n -> Nat] /\ u[0] = 0
      /\ \A i \in 1 .. n : u[i] = u[i - 1] + table[i].size
  BY UptoIs
<1>3. j \in 0 .. n /\ k \in 0 .. n
  OBVIOUS
<1>4. 0 .. n \subseteq holds
  <2> HIDE DEF n, u
  <2>1. 0 \in holds
    BY <1>1, <1>2, <1>3
  <2>2. ASSUME NEW i \in 1 .. n, i - 1 \in holds PROVE i \in holds
    <3>1. u[i - 1] \in Nat /\ u[j] \in Nat /\ u[i] = u[i - 1] + table[i].size
          /\ table[i].size \in Nat
      BY <1>1, <1>2, <1>3
    <3>2. CASE i - 1 >= j
      BY <1>1, <2>2, <3>1, <3>2
    <3>3. CASE i - 1 < j
      BY <1>1, <1>3, <3>1, <3>3
    <3> QED
      BY <1>1, <1>3, <3>2, <3>3
  <2> HIDE DEF holds
  <2> QED
    BY <1>1, <2>1, <2>2, Inductive
<1> HIDE DEF u, n
<1>5. u[j] <= u[k]
  BY <1>3, <1>4
<1> QED
  BY <1>5 DEF u

(* The weight of the first entries, and of the ones behind them.           *)
LEMMA WeightOfParts ==
  ASSUME NEW table, Sized(table), NEW k \in 0 .. Len(table)
  PROVE  /\ Sized(SubSeq(table, 1, k)) /\ Len(SubSeq(table, 1, k)) = k
         /\ Weight(SubSeq(table, 1, k)) = Upto(table)[k]
         /\ Weight(SubSeq(table, k + 1, Len(table))) = Weight(table) - Upto(table)[k]
<1> DEFINE n == Len(table)
           u == Upto(table)
           first == SubSeq(table, 1, k)
           last == SubSeq(table, k + 1, n)
<1>1. n \in Nat /\ \A i \in 1 .. n : table[i].size \in Nat
  BY DEF Sized
<1>2. /\ u \in [0 .. n -> Nat] /\ u[0] = 0
      /\ \A i \in 1 .. n : u[i] = u[i - 1] + table[i].size
  BY UptoIs
<1>3. k \in 0 .. n
  OBVIOUS
<1>4. table \in Seq({table[i] : i \in 1 .. n})
  <2> DEFINE S == {table[i] : i \in 1 .. n}
  <2>1. table = [i \in 1 .. n |-> table[i]]
    BY DEF Sized
  <2>2. table \in [1 .. n -> S]
    <3> HIDE DEF n
    <3> QED
      BY <2>1
  <2> HIDE DEF S, n
  <2> QED
    BY <1>1, <2>2, SeqDef
<1>5. /\ first = [i \in 1 .. k |-> table[i]] /\ Len(first) = k
      /\ last = [i \in 1 .. n - k |-> table[i + k]] /\ Len(last) = n - k
  <2> DEFINE S == {table[i] : i \in 1 .. n}
  <2>1. table \in Seq(S) /\ Len(table) = n
    BY <1>4
  <2> HIDE DEF S, n
  <2> QED
    BY <1>1, <1>3, <2>1, SubSeqProperties
<1>6. Sized(first) /\ Sized(last)
  <2> HIDE DEF n, first, last
  <2>1. \A i \in 1 .. k : first[i].size \in Nat
    BY <1>1, <1>3, <1>5
  <2>2. \A i \in 1 .. n - k : last[i].size \in Nat
    BY <1>1, <1>3, <1>5
  <2>3. first = [i \in 1 .. k |-> first[i]] /\ last = [i \in 1 .. n - k |-> last[i]]
    BY <1>5
  <2>4. k \in Nat /\ n - k \in Nat
    BY <1>1, <1>3
  <2> QED
    BY <1>5, <2>1, <2>2, <2>3, <2>4 DEF Sized
<1>7. Weight(first) = u[k]
  <2> HIDE DEF n, first, last, u
  <2>1. \A i \in 1 .. k : u[i] = u[i - 1] + first[i].size
    BY <1>1, <1>2, <1>3, <1>5
  <2> QED
    BY <1>2, <1>5, <1>6, <2>1, WeightOf
<1>8. Weight(last) = u[n] - u[k]
  <2> DEFINE f == [i \in 0 .. n - k |-> u[i + k] - u[k]]
  <2>1. f[0] = 0 /\ f[n - k] = u[n] - u[k]
    <3> HIDE DEF n, u
    <3>1. u[k] \in Nat /\ u[n] \in Nat /\ n - k \in 0 .. n - k /\ 0 \in 0 .. n - k
          /\ (n - k) + k = n /\ 0 + k = k
      BY <1>1, <1>2, <1>3
    <3> QED
      BY <3>1
  <2>2. \A i \in 1 .. n - k : f[i] = f[i - 1] + last[i].size
    <3> HIDE DEF n, first, last, u
    <3>1. TAKE i \in 1 .. n - k
    <3>2. i + k \in 1 .. n /\ i \in 0 .. n - k /\ i - 1 \in 0 .. n - k /\ (i - 1) + k = (i + k) - 1
      BY <1>1, <1>3
    <3>3. u[i + k] = u[(i + k) - 1] + table[i + k].size /\ u[(i + k) - 1] \in Nat
          /\ table[i + k].size \in Nat
      BY <1>1, <1>2, <3>2
    <3>4. last[i] = table[i + k]
      BY <1>5
    <3>5. f[i] = u[i + k] - u[k] /\ f[i - 1] = u[(i + k) - 1] - u[k]
      BY <3>2
    <3>6. u[k] \in Nat
      BY <1>2, <1>3
    <3> HIDE DEF f
    <3> QED
      BY <3>3, <3>4, <3>5, <3>6
  <2> HIDE DEF n, first, last, u, f
  <2> QED
    BY <1>5, <1>6, <2>1, <2>2, WeightOf
<1>9. Weight(table) = u[n]
  BY WeightIs
<1> QED
  BY <1>5, <1>6, <1>7, <1>8, <1>9

(* And that of a table with one more entry.                                *)
LEMMA WeightOfMore ==
  ASSUME NEW table, Sized(table), NEW e, e.size \in Nat, NEW more, Len(more) = Len(table) + 1,
         more = [i \in 1 .. Len(table) + 1 |-> IF i = 1 THEN e ELSE table[i - 1]]
  PROVE  /\ Sized(more) /\ Weight(more) = e.size + Weight(table)
<1> DEFINE n == Len(table)
           u == Upto(table)
           f == [i \in 0 .. n + 1 |-> IF i = 0 THEN 0 ELSE e.size + u[i - 1]]
<1>1. n \in Nat /\ \A i \in 1 .. n : table[i].size \in Nat
  BY DEF Sized
<1>2. /\ u \in [0 .. n -> Nat] /\ u[0] = 0
      /\ \A i \in 1 .. n : u[i] = u[i - 1] + table[i].size
  BY UptoIs
<1>3. more = [i \in 1 .. n + 1 |-> IF i = 1 THEN e ELSE table[i - 1]] /\ Len(more) = n + 1
  OBVIOUS
<1>4. Sized(more)
  <2> HIDE DEF n
  <2>1. \A i \in 1 .. n + 1 : more[i].size \in Nat
    BY <1>1, <1>3
  <2>2. more = [i \in 1 .. n + 1 |-> more[i]]
    BY <1>3
  <2> QED
    BY <1>1, <1>3, <2>1, <2>2 DEF Sized
<1>5. f[0] = 0 /\ f[n + 1] = e.size + u[n]
  <2> HIDE DEF n, u
  <2>1. 0 \in 0 .. n + 1 /\ n + 1 \in 0 .. n + 1 /\ n + 1 # 0 /\ (n + 1) - 1 = n
    BY <1>1
  <2> QED
    BY <2>1
<1>6. \A i \in 1 .. n + 1 : f[i] = f[i - 1] + more[i].size
  <2> HIDE DEF n, u
  <2>1. TAKE i \in 1 .. n + 1
  <2>2. i \in 0 .. n + 1 /\ i - 1 \in 0 .. n + 1 /\ i # 0
    BY <1>1
  <2>3. f[i] = e.size + u[i - 1] /\ f[i - 1] = IF i - 1 = 0 THEN 0 ELSE e.size + u[i - 2]
    BY <2>2
  <2> HIDE DEF f
  <2>4. CASE i = 1
    BY <1>2, <1>3, <2>3, <2>4
  <2>5. CASE i # 1
    <3>1. i - 1 \in 1 .. n /\ (i - 1) - 1 = i - 2 /\ i - 2 \in 0 .. n
      BY <1>1, <2>5
    <3>2. u[i - 1] = u[i - 2] + table[i - 1].size /\ u[i - 2] \in Nat
          /\ table[i - 1].size \in Nat /\ more[i] = table[i - 1]
      BY <1>1, <1>2, <1>3, <2>5, <3>1
    <3> QED
      BY <2>3, <2>5, <3>1, <3>2
  <2> QED
    BY <2>4, <2>5
<1>7. Weight(table) = u[n]
  BY WeightIs
<1> HIDE DEF n, u, f
<1>8. Weight(more) = f[n + 1]
  <2>1. Len(more) = n + 1 /\ \A i \in 1 .. Len(more) : f[i] = f[i - 1] + more[i].size
    BY <1>3, <1>6
  <2>2. Weight(more) = f[Len(more)]
    BY <1>4, <1>5, <2>1, WeightOf
  <2> QED
    BY <2>1, <2>2
<1> QED
  BY <1>4, <1>5, <1>7, <1>8

-----------------------------------------------------------------------------
(* Integers are read as they were written, however many octets they take.  *)
LEMMA Division ==
  ASSUME NEW n \in Nat
  PROVE  /\ n \div Group \in Nat /\ n % Group \in 0 .. Group - 1
         /\ n = Group * (n \div Group) + (n % Group)
         /\ n >= Group => n \div Group < n
         /\ (Group + (n % Group)) % Group = n % Group
         /\ n < Group => n % Group = n
<1>1. Group \in Nat \ {0, 1}
  BY HpackAssumption
<1>2. n \div Group \in Nat /\ n % Group \in 0 .. Group - 1
  BY <1>1
<1>3. n = Group * (n \div Group) + (n % Group)
  BY <1>1
<1>4. n >= Group => n \div Group < n
  BY <1>1
<1>5. \A r \in 0 .. Group - 1 : (Group + r) % Group = r /\ r % Group = r
  BY <1>1
<1>6. (Group + (n % Group)) % Group = n % Group
  BY <1>2, <1>5
<1>7. n < Group => n % Group = n
  BY <1>1, <1>5
<1> QED
  BY <1>2, <1>3, <1>4, <1>6, <1>7

Octets(integer) ==
  CHOOSE f : f = [n \in 0 .. integer |->
                   IF n < Group THEN <<n>> ELSE <<Group + (n % Group)>> \o f[n \div Group]]

LEMMA OctetsExist ==
  ASSUME NEW integer \in Nat
  PROVE  \A n \in 0 .. integer :
           Octets(integer)[n] = IF n < Group THEN <<n>>
                                ELSE <<Group + (n % Group)>> \o Octets(integer)[n \div Group]
<1>1. Group \in Nat \ {0, 1}
  BY HpackAssumption
<1> DEFINE Rec(f, n) == IF n < Group THEN <<n>> ELSE <<Group + (n % Group)>> \o f[n \div Group]
           Good(f, k) == f = [n \in 0 .. k |-> Rec(f, n)]
           holds == {k \in 0 .. integer : \E f : Good(f, k)}
<1>2. \A n \in Nat : n >= Group => n \div Group \in 0 .. n - 1
  <2>1. SUFFICES ASSUME NEW n \in Nat, n >= Group PROVE n \div Group \in 0 .. n - 1
    OBVIOUS
  <2>2. n \div Group \in Nat /\ n \div Group < n
    BY <2>1, Division
  <2> DEFINE q == n \div Group
  <2> HIDE DEF q
  <2>3. q \in 0 .. n - 1
    BY <2>2 DEF q
  <2> QED
    BY <2>3 DEF q
<1>3. 0 \in holds
  <2> DEFINE f == [n \in 0 .. 0 |-> <<n>>]
  <2>1. Good(f, 0)
    BY <1>1
  <2> HIDE DEF Good
  <2> QED
    BY <2>1
<1>4. ASSUME NEW k \in 1 .. integer, k - 1 \in holds PROVE k \in holds
  <2>1. PICK f : Good(f, k - 1)
    BY <1>4
  <2> DEFINE g == [n \in 0 .. k |-> IF n = k THEN Rec(f, k) ELSE f[n]]
  <2>2. \A n \in 0 .. k - 1 : f[n] = Rec(f, n)
    BY <2>1
  <2>3. \A n \in 0 .. k - 1 : g[n] = f[n]
    OBVIOUS
  <2>4. \A n \in 0 .. k : Rec(g, n) = Rec(f, n)
    <3> HIDE DEF g
    <3>1. SUFFICES ASSUME NEW n \in 0 .. k, n >= Group PROVE g[n \div Group] = f[n \div Group]
      BY <1>1
    <3>2. n \div Group \in 0 .. n - 1
      BY <1>2, <3>1
    <3> DEFINE q == n \div Group
    <3> HIDE DEF q
    <3>3. q \in 0 .. k - 1
      BY <3>2 DEF q
    <3> QED
      BY <2>3, <3>3 DEF q
  <2>5. \A n \in 0 .. k : g[n] = Rec(g, n)
    <3> HIDE DEF Rec
    <3>1. TAKE n \in 0 .. k
    <3>2. CASE n = k
      BY <2>4, <3>2
    <3>3. CASE n # k
      <4>1. n \in 0 .. k - 1
        BY <3>3
      <4> QED
        BY <2>2, <2>3, <2>4, <4>1
    <3> QED
      BY <3>2, <3>3
  <2>6. Good(g, k)
    <3>1. g = [n \in 0 .. k |-> g[n]]
      OBVIOUS
    <3> HIDE DEF g, Rec
    <3> QED
      BY <2>5, <3>1
  <2> HIDE DEF Good
  <2> QED
    BY <2>6
<1>5. integer \in holds
  <2>1. 0 .. integer \subseteq holds
    <3> HIDE DEF holds
    <3> QED
      BY <1>3, <1>4, Inductive
  <2> HIDE DEF holds
  <2> QED
    BY <2>1
<1>6. Good(Octets(integer), integer)
  <2>1. Octets(integer) = CHOOSE f : Good(f, integer)
    BY DEF Octets
  <2>2. \E f : Good(f, integer)
    BY <1>5
  <2> HIDE DEF Good
  <2> QED
    BY <2>1, <2>2
<1> DEFINE o == Octets(integer)
<1> HIDE DEF o
<1>7. o = [n \in 0 .. integer |-> Rec(o, n)]
  BY <1>6 DEF o
<1> HIDE DEF Rec
<1>8. \A n \in 0 .. integer : o[n] = Rec(o, n)
  BY <1>7
<1> QED
  BY <1>8 DEF o, Rec

LEMMA OctetsAre ==
  ASSUME NEW integer \in Nat
  PROVE  \A n \in 0 .. integer : Octets(integer)[n] \in Seq(Nat) /\ Len(Octets(integer)[n]) >= 1
<1> DEFINE o == Octets(integer)
           Fine(n) == o[n] \in Seq(Nat) /\ Len(o[n]) >= 1
           holds == {k \in 0 .. integer : \A n \in 0 .. k : Fine(n)}
<1>1. \A n \in 0 .. integer :
        o[n] = IF n < Group THEN <<n>> ELSE <<Group + (n % Group)>> \o o[n \div Group]
  BY OctetsExist
<1>2. Group \in Nat \ {0, 1}
  BY HpackAssumption
<1> HIDE DEF o
<1>3. \A n \in 0 .. integer : n < Group => Fine(n)
  <2>1. TAKE n \in 0 .. integer
  <2>2. HAVE n < Group
  <2>3. o[n] = <<n>>
    BY <1>1, <2>2
  <2> QED
    BY <2>3
<1>4. ASSUME NEW k \in 1 .. integer, k - 1 \in holds PROVE k \in holds
  <2>1. \A n \in 0 .. k - 1 : Fine(n)
    BY <1>4
  <2>2. Fine(k)
    <3>1. CASE k < Group
      BY <1>3, <3>1
    <3>2. CASE k >= Group
      <4> DEFINE q == k \div Group
                 c == Group + (k % Group)
      <4>1. q \in Nat /\ q < k /\ c \in Nat
        BY <1>2, <3>2, Division
      <4>2. o[k] = <<c>> \o o[q]
        <5>1. k \in 0 .. integer /\ ~(k < Group)
          BY <1>2, <3>2
        <5> QED
          BY <1>1, <5>1, Zenon
      <4> HIDE DEF q, c
      <4>3. Fine(q)
        BY <2>1, <4>1
      <4>4. <<c>> \in Seq(Nat) /\ Len(<<c>>) = 1
        BY <4>1
      <4>5. <<c>> \o o[q] \in Seq(Nat) /\ Len(<<c>> \o o[q]) = 1 + Len(o[q])
        BY <4>3, <4>4, ConcatProperties
      <4>6. Len(o[q]) \in Nat
        BY <4>3, LenProperties
      <4> QED
        BY <4>2, <4>3, <4>5, <4>6
    <3> QED
      BY <1>2, <3>1, <3>2
  <2> HIDE DEF Fine
  <2>3. \A n \in 0 .. k : Fine(n)
    BY <2>1, <2>2
  <2> QED
    BY <2>3
<1>5. 0 \in holds
  <2>1. Fine(0)
    BY <1>2, <1>3
  <2> HIDE DEF Fine
  <2> QED
    BY <2>1
<1>6. 0 .. integer \subseteq holds
  <2> HIDE DEF holds
  <2> QED
    BY <1>4, <1>5, Inductive
<1>7. \A n \in 0 .. integer : Fine(n)
  <2> HIDE DEF Fine
  <2> QED
    BY <1>6
<1> QED
  BY <1>7 DEF o

(* What decoding adds up from an octet on.                                 *)
Ret(input) ==
  CHOOSE f : f = [i \in 2 .. Len(input) |->
                    (input[i] % Group) + IF input[i] < Group \/ i = Len(input) THEN 0
                                                                           ELSE Group * f[i + 1]]

LEMMA RetExists ==
  ASSUME NEW input, Len(input) \in Nat
  PROVE  \A i \in 2 .. Len(input) :
           Ret(input)[i] = (input[i] % Group)
                             + IF input[i] < Group \/ i = Len(input) THEN 0
                                                                   ELSE Group * Ret(input)[i + 1]
<1> DEFINE n == Len(input)
           Rec(f, i) == (input[i] % Group) + IF input[i] < Group \/ i = n THEN 0
                                                                       ELSE Group * f[i + 1]
           Good(f, k) == f = [i \in n + 1 - k .. n |-> Rec(f, i)]
           holds == {k \in 0 .. n : \E f : Good(f, k)}
<1>1. n \in Nat
  OBVIOUS
<1>2. 0 \in holds
  <2> HIDE DEF n
  <2> DEFINE f == [i \in n + 1 - 0 .. n |-> 0]
  <2>1. Good(f, 0)
    BY <1>1
  <2> HIDE DEF Good
  <2> QED
    BY <1>1, <2>1
<1>3. ASSUME NEW k \in 1 .. n, k - 1 \in holds PROVE k \in holds
  <2> HIDE DEF n
  <2>1. PICK f : Good(f, k - 1)
    BY <1>3
  <2> DEFINE j == n + 1 - k
             g == [i \in j .. n |-> IF i = j THEN Rec(f, j) ELSE f[i]]
  <2>2. j \in 1 .. n /\ n + 1 - (k - 1) = j + 1
    BY <1>1
  <2>3. \A i \in j + 1 .. n : f[i] = Rec(f, i) /\ g[i] = f[i]
    <3> HIDE DEF Rec, j
    <3>1. f = [i \in j + 1 .. n |-> Rec(f, i)]
      BY <2>1, <2>2
    <3>2. \A i \in j + 1 .. n : f[i] = Rec(f, i)
      BY <3>1
    <3>3. \A i \in j + 1 .. n : i \in j .. n /\ i # j
      BY <1>1, <2>2
    <3> QED
      BY <3>2, <3>3
  <2>4. \A i \in j .. n : i # n => g[i + 1] = f[i + 1]
    <3> HIDE DEF g, j, Rec
    <3>1. \A i \in j .. n : i # n => i + 1 \in j + 1 .. n
      BY <1>1, <2>2
    <3> QED
      BY <2>3, <3>1
  <2>5. \A i \in j .. n : Rec(g, i) = Rec(f, i)
    <3> HIDE DEF g, j
    <3> QED
      BY <2>4
  <2>6. \A i \in j .. n : g[i] = Rec(g, i)
    <3>1. SUFFICES ASSUME NEW i \in j .. n PROVE g[i] = Rec(f, i)
      BY <2>5
    <3>2. CASE i = j
      BY <3>2
    <3>3. CASE i # j
      <4> HIDE DEF g, Rec, j
      <4>1. i \in j + 1 .. n
        BY <1>1, <2>2, <3>3
      <4> QED
        BY <2>3, <4>1
    <3> QED
      BY <3>2, <3>3
  <2>7. Good(g, k)
    <3>1. g = [i \in j .. n |-> g[i]]
      OBVIOUS
    <3> HIDE DEF g, Rec
    <3> QED
      BY <2>6, <3>1
  <2> HIDE DEF Good
  <2> QED
    BY <2>7
<1>4. n \in holds
  <2>1. 0 .. n \subseteq holds
    <3> HIDE DEF holds, n
    <3> QED
      BY <1>1, <1>2, <1>3, Inductive
  <2>2. n \in 0 .. n
    BY <1>1
  <2> HIDE DEF holds, n
  <2> QED
    BY <2>1, <2>2
<1>5. PICK f : Good(f, n)
  BY <1>4
<1> DEFINE All(g) == g = [i \in 2 .. n |-> Rec(g, i)]
<1>6. All([i \in 2 .. n |-> f[i]])
  <2> HIDE DEF n
  <2> DEFINE g == [i \in 2 .. n |-> f[i]]
  <2>1. f = [i \in 1 .. n |-> Rec(f, i)]
    <3>1. n + 1 - n = 1
      BY <1>1
    <3> QED
      BY <1>5, <3>1
  <2>2. \A i \in 2 .. n : f[i] = Rec(f, i) /\ g[i] = f[i]
    <3> HIDE DEF Rec
    <3>1. \A i \in 2 .. n : i \in 1 .. n
      BY <1>1
    <3>2. \A i \in 1 .. n : f[i] = Rec(f, i)
      BY <2>1
    <3> QED
      BY <3>1, <3>2
  <2>3. \A i \in 2 .. n : i # n => g[i + 1] = f[i + 1]
    <3>1. \A i \in 2 .. n : i # n => i + 1 \in 2 .. n
      BY <1>1
    <3> QED
      BY <3>1
  <2>4. g = [i \in 2 .. n |-> g[i]]
    OBVIOUS
  <2> HIDE DEF g
  <2>5. \A i \in 2 .. n : Rec(g, i) = Rec(f, i)
    BY <2>3
  <2>6. \A i \in 2 .. n : g[i] = Rec(g, i)
    <3> HIDE DEF Rec
    <3> QED
      BY <2>2, <2>5
  <2>7. All(g)
    <3> HIDE DEF Rec
    <3> QED
      BY <2>4, <2>6
  <2> QED
    BY <2>7 DEF g
<1>7. Ret(input) = CHOOSE g : All(g)
  BY DEF Ret
<1>8. All(Ret(input))
  <2> HIDE DEF All
  <2> QED
    BY <1>6, <1>7
<1> DEFINE r == Ret(input)
<1> HIDE DEF r
<1>9. r = [i \in 2 .. n |-> Rec(r, i)]
  BY <1>8 DEF r
<1> HIDE DEF Rec
<1>10. \A i \in 2 .. n : r[i] = Rec(r, i)
  BY <1>9
<1> QED
  BY <1>10 DEF r, Rec

(* An integer of any size is read as it was written, whatever the prefix   *)
(* leaves of its first octet, 0 and the values around the mask included.   *)
THEOREM Integers ==
  ASSUME NEW mask \in Nat \ {0}, NEW integer \in Nat
  PROVE  hpack_decode_integer(mask, hpack_encode_integer(mask, integer)) = integer
<1>1. CASE integer < mask
  <2>1. hpack_encode_integer(mask, integer) = <<integer>>
    BY <1>1 DEF hpack_encode_integer
  <2>2. integer # mask
    BY <1>1
  <2> QED
    BY <2>1, <2>2 DEF hpack_decode_integer
<1>2. CASE integer >= mask
  <2> DEFINE N == integer - mask
             o == Octets(integer)
             input == <<mask>> \o o[N]
             r == Ret(input)
             n == Len(input)
  <2>1. N \in Nat /\ N \in 0 .. N /\ ~(integer < mask) /\ N <= integer
    BY <1>2
  <2>2. hpack_encode_integer(mask, integer) = input
    <3>1. hpack_encode_integer(mask, integer) =
            IF integer < mask THEN <<integer>> ELSE <<mask>> \o Octets(integer)[integer - mask]
      BY Zenon DEF hpack_encode_integer, Octets
    <3> QED
      BY <2>1, <3>1
  <2>3. /\ \A k \in 0 .. N : o[k] \in Seq(Nat) /\ Len(o[k]) \in Nat /\ Len(o[k]) >= 1
        /\ \A k \in 0 .. N :
             o[k] = IF k < Group THEN <<k>> ELSE <<Group + (k % Group)>> \o o[k \div Group]
    <3> HIDE DEF N
    <3>0. \A k \in 0 .. N : k \in 0 .. integer
      BY <2>1
    <3>1. \A k \in 0 .. N : o[k] \in Seq(Nat) /\ Len(o[k]) >= 1
      BY <3>0, OctetsAre
    <3>2. \A k \in 0 .. N :
             o[k] = IF k < Group THEN <<k>> ELSE <<Group + (k % Group)>> \o o[k \div Group]
      BY <3>0, OctetsExist
    <3> HIDE DEF o
    <3>3. \A k \in 0 .. N : Len(o[k]) \in Nat
      BY <3>1, LenProperties
    <3> QED
      BY <3>1, <3>2, <3>3
  <2> HIDE DEF N, o
  <2>4. /\ n = 1 + Len(o[N]) /\ n \in Nat /\ n >= 2
        /\ input[1] = mask /\ \A i \in 1 .. Len(o[N]) : input[1 + i] = o[N][i]
    <3>1. o[N] \in Seq(Nat) /\ <<mask>> \in Seq(Nat) /\ Len(<<mask>>) = 1 /\ <<mask>>[1] = mask
      BY <2>1, <2>3
    <3>2. Len(input) = 1 + Len(o[N])
      BY <3>1, ConcatProperties
    <3>3. Len(o[N]) \in Nat /\ Len(o[N]) >= 1
      BY <2>1, <2>3
    <3>4. \A i \in 1 .. 1 + Len(o[N]) : input[i] = IF i <= 1 THEN <<mask>>[i] ELSE o[N][i - 1]
      BY <3>1, ConcatProperties
    <3>5. input[1] = mask
      BY <3>1, <3>3, <3>4
    <3>6. \A i \in 1 .. Len(o[N]) : input[1 + i] = o[N][i]
      <4>1. TAKE i \in 1 .. Len(o[N])
      <4>2. 1 + i \in 1 .. 1 + Len(o[N]) /\ ~(1 + i <= 1) /\ (1 + i) - 1 = i
        BY <3>3
      <4> QED
        BY <3>4, <4>2
    <3> QED
      BY <3>2, <3>3, <3>5, <3>6
  <2> HIDE DEF input
  <2>5. \A i \in 2 .. n :
          r[i] = (input[i] % Group) + IF input[i] < Group \/ i = n THEN 0 ELSE Group * r[i + 1]
    BY <2>4, RetExists
  <2> HIDE DEF r, n
  <2> DEFINE Behind(p, k) == n = p + Len(o[k]) /\ \A i \in 1 .. Len(o[k]) : input[p + i] = o[k][i]
             Read(k) == \A p \in Nat \ {0} : Behind(p, k) => r[p + 1] = k
             holds == {k \in 0 .. N : \A j \in 0 .. k : Read(j)}
  <2>6. Group \in Nat \ {0, 1}
    BY HpackAssumption
  <2>7. \A k \in 0 .. N : k < Group => Read(k)
    <3>1. SUFFICES ASSUME NEW k \in 0 .. N, k < Group, NEW p \in Nat \ {0}, Behind(p, k)
                   PROVE  r[p + 1] = k
      OBVIOUS
    <3>2. o[k] = <<k>> /\ Len(o[k]) = 1 /\ o[k][1] = k
      <4>1. o[k] = <<k>>
        BY <2>3, <3>1, Zenon
      <4> QED
        BY <4>1
    <3>3. n = p + 1 /\ input[p + 1] = k
      BY <3>1, <3>2
    <3>4. p + 1 \in 2 .. n
      BY <3>3
    <3>5. k % Group = k
      BY <3>1, Division
    <3>6. r[p + 1] = (k % Group) + 0
      BY <2>5, <3>3, <3>4
    <3> QED
      BY <3>5, <3>6
  <2>8. ASSUME NEW k \in 1 .. N, k - 1 \in holds PROVE k \in holds
    <3>1. \A j \in 0 .. k - 1 : Read(j)
      BY <2>8
    <3>2. Read(k)
      <4>1. CASE k < Group
        BY <2>7, <4>1
      <4>2. CASE k >= Group
        <5>1. SUFFICES ASSUME NEW p \in Nat \ {0}, Behind(p, k) PROVE r[p + 1] = k
          OBVIOUS
        <5> DEFINE q == k \div Group
                   m == k % Group
                   c == Group + m
        <5>2. /\ q \in Nat /\ q < k /\ m \in 0 .. Group - 1
              /\ k = Group * q + m /\ c % Group = m
          BY <4>2, Division
        <5>3. o[k] = <<c>> \o o[q]
          <6>1. k \in 0 .. N /\ ~(k < Group)
            BY <2>1, <2>6, <4>2
          <6> QED
            BY <2>3, <6>1, Zenon
        <5> HIDE DEF q
        <5>4. q \in 0 .. k - 1 /\ q \in 0 .. N
          BY <2>1, <5>2
        <5> HIDE DEF m
        <5>5. c \in Nat /\ ~(c < Group)
          BY <2>6, <5>2
        <5> HIDE DEF c
        <5>6. /\ Len(o[k]) = 1 + Len(o[q]) /\ o[k][1] = c
              /\ \A i \in 1 .. Len(o[q]) : o[k][1 + i] = o[q][i]
              /\ Len(o[q]) \in Nat /\ Len(o[q]) >= 1
          <6>1. o[q] \in Seq(Nat) /\ Len(o[q]) \in Nat /\ Len(o[q]) >= 1
            BY <2>3, <5>4
          <6>2. <<c>> \in Seq(Nat) /\ Len(<<c>>) = 1 /\ <<c>>[1] = c
            BY <5>5
          <6> DEFINE a == o[q]
                     w == <<c>> \o a
          <6> HIDE DEF a
          <6>3. Len(w) = 1 + Len(a)
            BY <6>1, <6>2, ConcatProperties DEF a
          <6>4. \A i \in 1 .. 1 + Len(a) : w[i] = IF i <= 1 THEN <<c>>[i] ELSE a[i - 1]
            BY <6>1, <6>2, ConcatProperties DEF a
          <6> HIDE DEF w
          <6>5. w[1] = c
            BY <6>1, <6>2, <6>4 DEF a
          <6>6. \A i \in 1 .. Len(a) : w[1 + i] = a[i]
            <7>1. TAKE i \in 1 .. Len(a)
            <7>2. 1 + i \in 1 .. 1 + Len(a) /\ ~(1 + i <= 1) /\ (1 + i) - 1 = i
              BY <6>1 DEF a
            <7> QED
              BY <6>4, <7>2
          <6> QED
            BY <5>3, <6>1, <6>3, <6>5, <6>6 DEF a, w
        <5>7. n = p + Len(o[k]) /\ \A i \in 1 .. Len(o[k]) : input[p + i] = o[k][i]
          BY <5>1
        <5>8. input[p + 1] = c
          BY <5>6, <5>7
        <5>9. Behind(p + 1, q)
          <6>1. n = (p + 1) + Len(o[q])
            <7>1. \A a, b \in Nat : a = 1 + b => p + a = (p + 1) + b
              OBVIOUS
            <7>2. Len(o[k]) \in Nat
              BY <2>3
            <7> QED
              BY <5>6, <5>7, <7>1, <7>2
          <6>2. \A i \in 1 .. Len(o[q]) : input[(p + 1) + i] = o[q][i]
            <7>1. TAKE i \in 1 .. Len(o[q])
            <7>2. 1 + i \in 1 .. Len(o[k]) /\ (p + 1) + i = p + (1 + i)
              BY <5>6
            <7> QED
              BY <5>6, <5>7, <7>2
          <6> QED
            BY <6>1, <6>2
        <5>10. r[(p + 1) + 1] = q
          <6>1. p + 1 \in Nat \ {0}
            OBVIOUS
          <6>2. Read(q)
            BY <3>1, <5>4
          <6> HIDE DEF Behind
          <6> QED
            BY <5>9, <6>1, <6>2
        <5>11. p + 1 \in 2 .. n /\ p + 1 # n
          BY <5>6, <5>7
        <5>12. r[p + 1] = m + Group * q
          <6>1. r[p + 1] = (c % Group) + Group * r[(p + 1) + 1]
            BY <2>5, <5>5, <5>8, <5>11
          <6> QED
            BY <5>2, <5>10, <6>1
        <5> QED
          BY <2>6, <5>2, <5>12
      <4> QED
        BY <2>1, <2>6, <4>1, <4>2
    <3> HIDE DEF Read
    <3>3. \A j \in 0 .. k : Read(j)
      BY <3>1, <3>2
    <3> QED
      BY <3>3
  <2>9. Read(N)
    <3>1. Read(0)
      BY <2>1, <2>6, <2>7
    <3> HIDE DEF Read
    <3>2. 0 \in holds
      BY <2>1, <3>1
    <3>3. 0 .. N \subseteq holds
      <4> HIDE DEF holds
      <4> QED
        BY <2>1, <2>8, <3>2, Inductive
    <3>4. N \in holds
      BY <2>1, <3>3
    <3> QED
      BY <2>1, <3>4
  <2>10. r[2] = N
    <3>1. Behind(1, N)
      BY <2>4
    <3> QED
      BY <2>9, <3>1
  <2>11. hpack_decode_integer(mask, input) = mask + r[2]
    BY <2>4 DEF hpack_decode_integer, r, n, Ret
  <2> QED
    BY <2>2, <2>10, <2>11 DEF N
<1> QED
  BY <1>1, <1>2

-----------------------------------------------------------------------------
(* A table, whose entries may have more than these three fields, and the   *)
(* server's context, whose size is the sum of them.                        *)
Row(e) == [name |-> e.name, value |-> e.value, size |-> e.size]
Rows == {Entry(h) : h \in AnyHeader}
Table(t) ==
  /\ t = [i \in 1 .. Len(t) |-> t[i]] /\ Len(t) \in Nat
  /\ \A i \in 1 .. Len(t) : Row(t[i]) \in Rows
(* Fields of it are replaced.                                              *)
IsContext(c) ==
  c = [table |-> c.table, size |-> c.size, max |-> c.max, pushed |-> c.pushed,
       lookup |-> c.lookup]

LEMMA ContextCut ==
  ASSUME NEW c, IsContext(c), NEW t, NEW n, NEW l
  PROVE  [c EXCEPT !.table = t, !.size = n, !.lookup = l]
           = [table |-> t, size |-> n, max |-> c.max, pushed |-> c.pushed, lookup |-> l]
<1> DEFINE q == [c EXCEPT !.table = t, !.size = n, !.lookup = l]
<1>1. q \in [table : {t}, size : {n}, max : {c.max}, pushed : {c.pushed}, lookup : {l}]
  BY DEF IsContext
<1> HIDE DEF q
<1>2. q = [table |-> t, size |-> n, max |-> c.max, pushed |-> c.pushed, lookup |-> l]
  BY <1>1
<1> QED
  BY <1>2 DEF q

LEMMA ContextLonger ==
  ASSUME NEW c, IsContext(c), NEW t, NEW n
  PROVE  [c EXCEPT !.table = t, !.size = n]
           = [table |-> t, size |-> n, max |-> c.max, pushed |-> c.pushed, lookup |-> c.lookup]
<1> DEFINE q == [c EXCEPT !.table = t, !.size = n]
<1>1. q \in [table : {t}, size : {n}, max : {c.max}, pushed : {c.pushed}, lookup : {c.lookup}]
  BY DEF IsContext
<1> HIDE DEF q
<1>2. q = [table |-> t, size |-> n, max |-> c.max, pushed |-> c.pushed, lookup |-> c.lookup]
  BY <1>1
<1> QED
  BY <1>2 DEF q

Context(ctx) ==
  /\ IsContext(ctx) /\ Table(ctx.table) /\ ctx.size = Weight(ctx.table) /\ ctx.max \in Nat

LEMMA AnyHeaderIs ==
  ASSUME NEW h \in AnyHeader
  PROVE  /\ h \in [name : Names, value : Values] /\ h.value # None
         /\ h = [name |-> h.name, value |-> h.value] /\ h.name \in Names
         /\ EntrySize[h] \in Nat \ {0}
         /\ Entry(h).name = h.name /\ Entry(h).value = h.value /\ Entry(h).size = EntrySize[h]
         /\ Entry(h) \in [name : Names, value : Values, size : Nat]
         /\ Entry(h) # None /\ h # None
<1>1. /\ EntrySize \in [AnyHeader -> Nat \ {0}]
      /\ None \notin [name : Names, value : Values]
                         \union [name : Names, value : Values, size : Nat]
  BY HpackAssumption
<1>2. h \in [name : Names, value : Values \ {None}] /\ EntrySize[h] \in Nat \ {0}
  BY <1>1 DEF AnyHeader
<1>3. h = [name |-> h.name, value |-> h.value] /\ h.name \in Names /\ h.value \in Values
      /\ h.value # None
  BY <1>2
<1>4. h \in [name : Names, value : Values]
  BY <1>3
<1>5. Entry(h).name = h.name /\ Entry(h).value = h.value /\ Entry(h).size = EntrySize[h]
      /\ Entry(h) \in [name : Names, value : Values, size : Nat]
  BY <1>2, <1>3 DEF Entry
<1> QED
  BY <1>1, <1>2, <1>3, <1>4, <1>5

LEMMA HeaderIs ==
  ASSUME NEW h \in Headers
  PROVE  /\ h \in [name : Names, value : Values] /\ h.value # None
         /\ h = [name |-> h.name, value |-> h.value] /\ h.name \in Names
         /\ EntrySize[h] \in Nat \ {0}
         /\ Entry(h).name = h.name /\ Entry(h).value = h.value /\ Entry(h).size = EntrySize[h]
         /\ Entry(h) \in [name : Names, value : Values, size : Nat]
         /\ Entry(h) # None /\ h # None /\ h \in AnyHeader /\ Entry(h) \in Rows
<1>1. h \in AnyHeader
  BY HpackAssumption
<1> QED
  BY <1>1, AnyHeaderIs DEF Rows

LEMMA RowIs ==
  ASSUME NEW e, Row(e) \in Rows
  PROVE  /\ e.size \in Nat \ {0} /\ e.name \in Names
         /\ Row(e) # None /\ Row(e).name = e.name /\ Row(e).value = e.value /\ Row(e).size = e.size
         /\ [name |-> e.name, value |-> e.value] \in AnyHeader
<1>1. PICK h \in AnyHeader : Row(e) = Entry(h)
  BY DEF Rows
<1>2. /\ Row(e).name = e.name /\ Row(e).value = e.value /\ Row(e).size = e.size
  BY DEF Row
<1>3. e.name = h.name /\ e.value = h.value /\ e.size = EntrySize[h]
  BY <1>1, <1>2, AnyHeaderIs
<1> QED
  BY <1>1, <1>2, <1>3, AnyHeaderIs

LEMMA TableIsSized ==
  ASSUME NEW t, Table(t)
  PROVE  Sized(t)
BY RowIs DEF Table, Sized

(* Of a table, the first entries.                                          *)
LEMMA FirstOf ==
  ASSUME NEW t, Table(t), NEW k \in 0 .. Len(t)
  PROVE  /\ SubSeq(t, 1, k) = [i \in 1 .. k |-> t[i]] /\ Len(SubSeq(t, 1, k)) = k
         /\ Table(SubSeq(t, 1, k)) /\ Weight(SubSeq(t, 1, k)) = Upto(t)[k]
         /\ Weight(SubSeq(t, k + 1, Len(t))) = Weight(t) - Upto(t)[k]
         /\ Upto(t)[k] \in Nat /\ Upto(t)[k] <= Weight(t) /\ Weight(t) \in Nat
<1> DEFINE n == Len(t)
           first == SubSeq(t, 1, k)
<1>1. Sized(t) /\ n \in Nat /\ k \in 0 .. n /\ t = [i \in 1 .. n |-> t[i]]
  BY TableIsSized DEF Table
<1>2. first = [i \in 1 .. k |-> t[i]] /\ Len(first) = k
  <2> DEFINE S == {t[i] : i \in 1 .. n}
  <2>1. t \in Seq(S)
    <3> HIDE DEF n
    <3>1. t \in [1 .. n -> S]
      BY <1>1
    <3> HIDE DEF S
    <3> QED
      BY <1>1, <3>1, SeqDef
  <2> HIDE DEF S, n
  <2>2. t \in Seq(S) /\ 1 \in 1 .. n + 1 /\ k \in 1 - 1 .. n
    BY <1>1, <2>1
  <2> QED
    BY <1>1, <2>1, SubSeqProperties DEF n
<1>3. Table(first)
  <2> HIDE DEF first
  <2>1. \A i \in 1 .. k : i \in 1 .. n /\ first[i] = t[i]
    BY <1>1, <1>2
  <2>2. \A i \in 1 .. n : Row(t[i]) \in Rows
    BY DEF Table
  <2> HIDE DEF n
  <2>3. \A i \in 1 .. k : Row(first[i]) \in Rows
    BY <2>1, <2>2
  <2>4. k \in Nat /\ first = [i \in 1 .. k |-> first[i]]
    BY <1>1, <1>2
  <2> QED
    BY <1>2, <2>3, <2>4 DEF Table
<1>4. /\ Weight(first) = Upto(t)[k]
      /\ Weight(SubSeq(t, k + 1, Len(t))) = Weight(t) - Upto(t)[k]
  BY <1>1, WeightOfParts
<1>5. Upto(t) \in [0 .. n -> Nat] /\ Weight(t) = Upto(t)[n] /\ n \in 0 .. n
  BY <1>1, UptoIs, WeightIs
<1>6. Upto(t)[k] <= Upto(t)[n]
  BY <1>1, <1>5, UptoGrows
<1> HIDE DEF first, n
<1>7. Upto(t)[k] \in Nat /\ Upto(t)[n] \in Nat
  BY <1>1, <1>5
<1> QED
  BY <1>2, <1>3, <1>4, <1>5, <1>6, <1>7 DEF first, n

(* Tables of entries alike weigh the same up to there.                     *)
LEMMA UptoAlike ==
  ASSUME NEW t, NEW u, Table(t), Table(u), NEW k \in Nat, k <= Len(t), k <= Len(u),
         \A i \in 1 .. k : Row(t[i]) = Row(u[i])
  PROVE  \A i \in 0 .. k : Upto(t)[i] = Upto(u)[i]
<1> DEFINE a == Upto(t)
           b == Upto(u)
           holds == {i \in 0 .. k : a[i] = b[i]}
<1>1. Len(t) \in Nat /\ Len(u) \in Nat
  BY DEF Table
<1>2. /\ a[0] = 0 /\ \A i \in 1 .. Len(t) : a[i] = a[i - 1] + t[i].size
      /\ b[0] = 0 /\ \A i \in 1 .. Len(u) : b[i] = b[i - 1] + u[i].size
  BY TableIsSized, UptoIs
<1> HIDE DEF a, b
<1>3. 0 \in holds
  BY <1>2
<1>4. ASSUME NEW i \in 1 .. k, i - 1 \in holds PROVE i \in holds
  <2>1. t[i].size = u[i].size
    BY DEF Row
  <2>2. i \in 1 .. Len(t) /\ i \in 1 .. Len(u)
    BY <1>1
  <2> QED
    BY <1>2, <1>4, <2>1, <2>2
<1>5. 0 .. k \subseteq holds
  <2> HIDE DEF holds
  <2> QED
    BY <1>3, <1>4, Inductive
<1> QED
  BY <1>5 DEF a, b

(* What is left of a table, on either side, is as much as fits.            *)
Most(t, k, room) ==
  /\ \A j \in 0 .. Len(t) : Upto(t)[j] <= room => j <= k
  /\ k = 0 \/ Upto(t)[k] <= room

LEMMA Fixes ==
  ASSUME NEW ctx, Context(ctx), NEW extra \in Nat
  PROVE  \E k \in 0 .. Len(ctx.table) :
           hpack_fix(ctx, extra) = Evict(ctx, k) /\ Most(ctx.table, k, ctx.max - extra)
<1> DEFINE t == ctx.table
           n == Len(t)
           Fits(k) == ctx.size - Weight(SubSeq(t, k + 1, Len(t))) + extra <= ctx.max
           S == {0} \union {k \in 0 .. n : Fits(k)}
<1>1. Table(t) /\ n \in Nat /\ ctx.size = Weight(t) /\ ctx.max \in Nat
  BY DEF Context, Table
<1>2. \A k \in 0 .. n : Fits(k) <=> Upto(t)[k] <= ctx.max - extra
  <2>1. TAKE k \in 0 .. n
  <2>2. /\ Weight(SubSeq(t, k + 1, Len(t))) = Weight(t) - Upto(t)[k]
        /\ Upto(t)[k] \in Nat /\ Weight(t) \in Nat
    BY <1>1, FirstOf
  <2> DEFINE w == Weight(t)
             u == Upto(t)[k]
             m == ctx.max
  <2>3. Fits(k) <=> w - (w - u) + extra <= m
    BY <1>1, <2>2
  <2>4. w \in Nat /\ u \in Nat /\ m \in Nat
    BY <1>1, <2>2
  <2> HIDE DEF w, u, m
  <2>5. w - (w - u) + extra <= m <=> u <= m - extra
    BY <2>4
  <2> QED
    BY <2>3, <2>5 DEF u, m
<1>3. hpack_fix(ctx, extra) = Evict(ctx, Max(S))
  BY DEF hpack_fix
<1> HIDE DEF t, n, Fits
<1>4. Max(S) \in S /\ \A k \in S : k <= Max(S)
  <2>1. S \subseteq 0 .. n /\ S # {}
    BY <1>1
  <2> HIDE DEF S
  <2> QED
    BY <1>1, <2>1, LargestOf
<1> DEFINE k == Max(S)
<1>5. k \in 0 .. n /\ (k = 0 \/ Fits(k)) /\ \A j \in 0 .. n : Fits(j) => j <= k
  BY <1>1, <1>4
<1> HIDE DEF k, S
<1>6. Most(t, k, ctx.max - extra)
  BY <1>2, <1>5 DEF Most, n
<1> QED
  BY <1>3, <1>5, <1>6 DEF k, n, t

LEMMA PeerKeepsMost ==
  ASSUME NEW t, Table(t), NEW room \in Int
  PROVE  \E k \in 0 .. Len(t) : PeerKeeps(t, room) = SubSeq(t, 1, k) /\ Most(t, k, room)
<1> DEFINE n == Len(t)
           Fits(k) == Weight(SubSeq(t, 1, k)) <= room
           S == {0} \union {k \in 0 .. n : Fits(k)}
<1>1. n \in Nat
  BY DEF Table
<1>2. \A k \in 0 .. n : Fits(k) <=> Upto(t)[k] <= room
  BY FirstOf
<1>3. PeerKeeps(t, room) = SubSeq(t, 1, Max(S))
  BY DEF PeerKeeps
<1> HIDE DEF n, Fits
<1>4. Max(S) \in S /\ \A k \in S : k <= Max(S)
  <2>1. S \subseteq 0 .. n /\ S # {}
    BY <1>1
  <2> HIDE DEF S
  <2> QED
    BY <1>1, <2>1, LargestOf
<1> DEFINE k == Max(S)
<1>5. k \in 0 .. n /\ (k = 0 \/ Fits(k)) /\ \A j \in 0 .. n : Fits(j) => j <= k
  BY <1>1, <1>4
<1> HIDE DEF k, S
<1>6. Most(t, k, room)
  BY <1>2, <1>5 DEF Most, n
<1> QED
  BY <1>3, <1>5, <1>6 DEF k, n

LEMMA Evicts ==
  ASSUME NEW ctx, Context(ctx), NEW k \in 0 .. Len(ctx.table)
  PROVE  LET c == Evict(ctx, k) IN
         /\ Context(c) /\ c.table = SubSeq(ctx.table, 1, k) /\ Len(c.table) = k
         /\ \A i \in 1 .. k : c.table[i] = ctx.table[i]
         /\ c.size = Upto(ctx.table)[k] /\ c.max = ctx.max /\ c.pushed = ctx.pushed
         /\ c.lookup = [n \in Names |-> WithoutNodes(ctx.lookup[n],
                                         SubSeq(ctx.table, k + 1, Len(ctx.table)))]
<1> DEFINE t == ctx.table
           c == Evict(ctx, k)
           gone == SubSeq(t, k + 1, Len(t))
<1>1. Table(t) /\ ctx.size = Weight(t) /\ ctx.max \in Nat
      /\ IsContext(ctx)
  BY DEF Context
<1>2. /\ c = [table |-> SubSeq(t, 1, k), size |-> ctx.size - Weight(gone), max |-> ctx.max,
              pushed |-> ctx.pushed,
              lookup |-> [n \in Names |-> WithoutNodes(ctx.lookup[n], gone)]]
  <2> DEFINE l2 == [n \in Names |-> WithoutNodes(ctx.lookup[n], gone)]
  <2>2. c = [ctx EXCEPT !.table = SubSeq(t, 1, k), !.size = ctx.size - Weight(gone), !.lookup = l2]
    BY DEF Evict
  <2> HIDE DEF c, l2, gone
  <2>3. c = [table |-> SubSeq(t, 1, k), size |-> ctx.size - Weight(gone), max |-> ctx.max,
             pushed |-> ctx.pushed, lookup |-> l2]
    BY <1>1, <2>2, ContextCut
  <2> QED
    BY <2>3 DEF l2
<1>3. /\ SubSeq(t, 1, k) = [i \in 1 .. k |-> t[i]] /\ Len(SubSeq(t, 1, k)) = k
      /\ Table(SubSeq(t, 1, k)) /\ Weight(SubSeq(t, 1, k)) = Upto(t)[k]
      /\ Weight(gone) = Weight(t) - Upto(t)[k]
      /\ Upto(t)[k] \in Nat /\ Weight(t) \in Nat
  BY <1>1, FirstOf
<1>4. ctx.size - Weight(gone) = Upto(t)[k]
  <2> DEFINE a == Upto(t)[k]
             b == Weight(t)
  <2> HIDE DEF a, b
  <2>1. a \in Nat /\ b \in Nat /\ ctx.size = b /\ Weight(gone) = b - a
    BY <1>1, <1>3 DEF a, b
  <2>2. b - (b - a) = a
    BY <2>1
  <2> QED
    BY <2>1, <2>2 DEF a
<1> HIDE DEF c
<1>5. /\ c.table = SubSeq(t, 1, k) /\ c.size = Upto(t)[k] /\ c.max = ctx.max
      /\ c.pushed = ctx.pushed
      /\ c.lookup = [n \in Names |-> WithoutNodes(ctx.lookup[n], gone)]
      /\ IsContext(c)
  BY <1>2, <1>4 DEF IsContext
<1>6. Context(c)
  BY <1>1, <1>3, <1>5 DEF Context
<1>7. \A i \in 1 .. k : c.table[i] = t[i]
  BY <1>3, <1>5
<1> QED
  BY <1>3, <1>5, <1>6, <1>7 DEF c

-----------------------------------------------------------------------------
(* The peer's table is the beginning of the server's: it may have evicted  *)
(* what the server still keeps.                                            *)
Behind(peer, ctx) ==
  /\ Table(peer.table) /\ peer.limit \in Nat
  /\ Weight(peer.table) <= peer.limit /\ peer.limit <= ctx.max
  /\ Len(peer.table) <= Len(ctx.table)
  /\ \A i \in 1 .. Len(peer.table) : peer.table[i] = Row(ctx.table[i])

LEMMA BehindWeighs ==
  ASSUME NEW peer, NEW ctx, Context(ctx), Behind(peer, ctx)
  PROVE  /\ \A i \in 0 .. Len(peer.table) :
              Upto(peer.table)[i] = Upto(ctx.table)[i] /\ Upto(ctx.table)[i] \in Nat
         /\ Upto(ctx.table)[Len(peer.table)] = Weight(peer.table)
<1> DEFINE t == peer.table
           u == ctx.table
<1>1. Table(t) /\ Table(u) /\ Len(t) \in Nat /\ Len(t) <= Len(t) /\ Len(t) <= Len(u)
      /\ \A i \in 1 .. Len(t) : t[i] = Row(u[i])
  BY DEF Behind, Context, Table
<1>2. \A i \in 1 .. Len(t) : Row(t[i]) = Row(u[i])
  BY <1>1 DEF Row
<1> HIDE DEF t, u
<1>3. \A i \in 0 .. Len(t) : Upto(t)[i] = Upto(u)[i]
  BY <1>1, <1>2, UptoAlike
<1>4. \A i \in 0 .. Len(t) : Upto(t)[i] \in Nat
  BY <1>1, FirstOf
<1>5. Weight(t) = Upto(t)[Len(t)] /\ Len(t) \in 0 .. Len(t)
  BY <1>1, WeightIs
<1> QED
  BY <1>3, <1>4, <1>5 DEF t, u

(* When the server evicts what exceeds its limit, it comes no closer than  *)
(* the peer.                                                               *)
LEMMA FixBehind ==
  ASSUME NEW peer, NEW ctx, Context(ctx), Behind(peer, ctx)
  PROVE  /\ Context(hpack_fix(ctx, 0)) /\ Behind(peer, hpack_fix(ctx, 0))
         /\ hpack_fix(ctx, 0).max = ctx.max
<1> DEFINE n == Len(peer.table)
           t == ctx.table
<1>1. PICK k \in 0 .. Len(t) : hpack_fix(ctx, 0) = Evict(ctx, k) /\ Most(t, k, ctx.max - 0)
  BY Fixes
<1>2. n \in Nat /\ n <= Len(t) /\ Len(t) \in Nat /\ ctx.max \in Nat
      /\ Weight(peer.table) <= peer.limit /\ peer.limit <= ctx.max /\ peer.limit \in Nat
  BY DEF Behind, Context, Table
<1>3. Upto(t)[n] = Weight(peer.table) /\ Upto(t)[n] \in Nat
  BY <1>2, BehindWeighs
<1> HIDE DEF n, t
<1>4. Upto(t)[n] <= ctx.max - 0
  BY <1>2, <1>3
<1>5. n <= k
  BY <1>1, <1>2, <1>4 DEF Most
<1> DEFINE c == Evict(ctx, k)
<1>6. /\ Context(c) /\ Len(c.table) = k /\ \A i \in 1 .. k : c.table[i] = t[i]
      /\ c.max = ctx.max
  BY Evicts DEF t
<1> HIDE DEF c
<1>7. Behind(peer, c)
  <2>1. \A i \in 1 .. n : i \in 1 .. k
    BY <1>2, <1>5
  <2> QED
    BY <1>5, <1>6, <2>1 DEF Behind, n, t
<1> QED
  BY <1>1, <1>6, <1>7 DEF c

LEMMA Prepended ==
  ASSUME NEW w, Table(w), NEW e, Row(e) \in Rows
  PROVE  /\ Table(<<e>> \o w) /\ Len(<<e>> \o w) = Len(w) + 1 /\ (<<e>> \o w)[1] = e
         /\ \A i \in 1 .. Len(w) : (<<e>> \o w)[i + 1] = w[i]
         /\ Weight(<<e>> \o w) = e.size + Weight(w)
<1> DEFINE k == Len(w)
           q == <<e>> \o w
           S == {w[i] : i \in 1 .. k} \union {e}
<1>1. k \in Nat /\ w = [i \in 1 .. k |-> w[i]] /\ \A i \in 1 .. k : Row(w[i]) \in Rows
  BY DEF Table
<1>2. e.size \in Nat \ {0} /\ Sized(w)
  BY RowIs, TableIsSized
<1>3. w \in Seq(S) /\ e \in S
  <2>1. w \in [1 .. k -> S] /\ e \in S
    <3> HIDE DEF k
    <3> QED
      BY <1>1
  <2> HIDE DEF S, k
  <2> QED
    BY <1>1, <2>1, SeqDef
<1>4. <<e>> \in Seq(S) /\ Len(<<e>>) = 1 /\ <<e>>[1] = e
  <2> HIDE DEF S
  <2> QED
    BY <1>3
<1>5. /\ q \in Seq(S) /\ Len(q) = 1 + k
      /\ \A i \in 1 .. 1 + k : q[i] = IF i <= 1 THEN <<e>>[i] ELSE w[i - 1]
  <2>1. /\ q \in Seq(S) /\ Len(q) = Len(<<e>>) + Len(w)
        /\ \A i \in 1 .. Len(<<e>>) + Len(w) :
             q[i] = IF i <= Len(<<e>>) THEN <<e>>[i] ELSE w[i - Len(<<e>>)]
    <3> HIDE DEF S
    <3> QED
      BY <1>3, <1>4, ConcatProperties
  <2> HIDE DEF q, S
  <2> QED
    BY <1>4, <2>1
<1> HIDE DEF q, S, k
<1>6. q = [i \in 1 .. k + 1 |-> q[i]] /\ Len(q) = k + 1
  BY <1>1, <1>5, LenProperties
<1>7. \A i \in 1 .. k + 1 : q[i] = IF i = 1 THEN e ELSE w[i - 1]
  <2>1. TAKE i \in 1 .. k + 1
  <2>2. i \in 1 .. 1 + k /\ (i <= 1 <=> i = 1)
    BY <1>1
  <2> QED
    BY <1>4, <1>5, <2>2
<1>8. q = [i \in 1 .. k + 1 |-> IF i = 1 THEN e ELSE w[i - 1]]
  BY <1>6, <1>7
<1>9. Sized(q) /\ Weight(q) = e.size + Weight(w)
  BY <1>2, <1>6, <1>8, WeightOfMore DEF k
<1>10. q[1] = e /\ \A i \in 1 .. k : q[i + 1] = w[i]
  <2>1. 1 \in 1 .. k + 1 /\ \A i \in 1 .. k : i + 1 \in 1 .. k + 1 /\ i + 1 # 1 /\ (i + 1) - 1 = i
    BY <1>1
  <2> QED
    BY <1>7, <2>1
<1>11. \A i \in 1 .. k + 1 : Row(q[i]) \in Rows
  <2>1. TAKE i \in 1 .. k + 1
  <2>2. CASE i = 1
    BY <1>10, <2>2
  <2>3. CASE i # 1
    <3>1. i - 1 \in 1 .. k
      BY <1>1, <2>3
    <3>2. q[i] = w[i - 1]
      BY <1>7, <2>3
    <3> QED
      BY <1>1, <3>1, <3>2
  <2> QED
    BY <2>2, <2>3
<1>12. Table(q)
  <2>1. k + 1 \in Nat
    BY <1>1
  <2> QED
    BY <1>6, <1>11, <2>1 DEF Table
<1> QED
  BY <1>6, <1>9, <1>10, <1>12 DEF q, k

(* The context c with a new entry, of the old ones the first k.            *)
Added(ctx, e, k, c) ==
  /\ Most(ctx.table, k, ctx.max - e.size)
  /\ Context(c) /\ c.max = ctx.max /\ Len(c.table) = k + 1 /\ c.table[1] = e
  /\ \A i \in 1 .. k : c.table[i + 1] = ctx.table[i]
  /\ c.pushed = ctx.pushed /\ c.size = e.size + Upto(ctx.table)[k]
  /\ c.lookup = [n \in Names |-> WithoutNodes(ctx.lookup[n],
                                  SubSeq(ctx.table, k + 1, Len(ctx.table)))]

LEMMA AddsEntry ==
  ASSUME NEW ctx, Context(ctx), NEW e, Row(e) \in Rows
  PROVE  \E k \in 0 .. Len(ctx.table) : Added(ctx, e, k, hpack_add_entry(ctx, e))
<1> DEFINE t == ctx.table
<1>1. e.size \in Nat \ {0}
  BY RowIs
<1>2. PICK k \in 0 .. Len(t) : hpack_fix(ctx, e.size) = Evict(ctx, k)
                               /\ Most(t, k, ctx.max - e.size)
  BY <1>1, Fixes
<1> DEFINE v == Evict(ctx, k)
           c == hpack_add_entry(ctx, e)
<1>3. /\ Context(v) /\ v.table = SubSeq(t, 1, k) /\ Len(v.table) = k
      /\ \A i \in 1 .. k : v.table[i] = t[i]
      /\ v.size = Upto(t)[k] /\ v.max = ctx.max /\ v.pushed = ctx.pushed
      /\ v.lookup = [n \in Names |-> WithoutNodes(ctx.lookup[n], SubSeq(t, k + 1, Len(t)))]
  <2> DEFINE gone == SubSeq(t, k + 1, Len(t))
  <2>1. /\ Context(v) /\ v.table = SubSeq(t, 1, k) /\ Len(v.table) = k
        /\ \A i \in 1 .. k : v.table[i] = t[i]
        /\ v.size = Upto(t)[k] /\ v.max = ctx.max /\ v.pushed = ctx.pushed
        /\ v.lookup = [n \in Names |-> WithoutNodes(ctx.lookup[n], gone)]
    BY Evicts
  <2> HIDE DEF v
  <2> QED
    BY <2>1
<1>4. c = [v EXCEPT !.table = <<e>> \o v.table, !.size = v.size + e.size]
  BY <1>2 DEF hpack_add_entry
<1> HIDE DEF v, c
<1>5. IsContext(v) /\ Table(v.table) /\ v.size = Weight(v.table) /\ v.max \in Nat
  BY <1>3 DEF Context
<1>6. c = [table |-> <<e>> \o v.table, size |-> v.size + e.size, max |-> v.max,
           pushed |-> v.pushed, lookup |-> v.lookup]
  BY <1>4, <1>5, ContextLonger
<1> DEFINE more == <<e>> \o v.table
<1>7. /\ Table(more) /\ Len(more) = k + 1 /\ more[1] = e
      /\ \A i \in 1 .. k : more[i + 1] = v.table[i]
      /\ Weight(more) = e.size + Weight(v.table)
  BY <1>3, <1>5, Prepended
<1> HIDE DEF more
<1>8. Len(v.table) = k /\ k \in Nat
  BY <1>3
<1>12. Context(c) /\ c.table = more /\ c.max = ctx.max /\ c.pushed = ctx.pushed
       /\ c.lookup = v.lookup /\ c.size = e.size + Upto(t)[k]
  <2>1. /\ c.table = more /\ c.size = v.size + e.size /\ c.max = v.max /\ c.pushed = v.pushed
        /\ c.lookup = v.lookup
        /\ IsContext(c)
    BY <1>6 DEF more, IsContext
  <2>2. v.size \in Nat /\ e.size \in Nat
    <3>1. k \in 0 .. Len(v.table)
      BY <1>8
    <3>2. Weight(v.table) \in Nat
      BY <1>5, <3>1, FirstOf
    <3> QED
      BY <1>1, <1>5, <3>2
  <2>3. v.size + e.size = e.size + v.size
    <3> DEFINE a == v.size
               b == e.size
    <3> HIDE DEF a, b
    <3>1. a + b = b + a
      BY <2>2 DEF a, b
    <3> QED
      BY <3>1 DEF a, b
  <2>5. v.size = Upto(t)[k]
    BY <1>3
  <2> QED
    BY <1>3, <1>5, <1>7, <2>1, <2>3, <2>5 DEF Context
<1>13. \A i \in 1 .. k : c.table[i + 1] = t[i]
  BY <1>3, <1>7, <1>12
<1> QED
  BY <1>2, <1>3, <1>7, <1>12, <1>13 DEF c, t, Added

(* What the peer adds, if its limit allows any entry.                      *)
LEMMA PeerAddsEntry ==
  ASSUME NEW t, Table(t), NEW limit \in Nat, NEW h \in Headers
  PROVE  LET a == PeerAdds(t, limit, h) IN
         /\ Table(a) /\ Weight(a) <= limit
         /\ \/ EntrySize[h] > limit /\ Len(a) = 0
            \/ \E k \in 0 .. Len(t) :
                 /\ EntrySize[h] <= limit /\ Most(t, k, limit - EntrySize[h])
                 /\ Len(a) = k + 1 /\ a[1] = Entry(h) /\ \A i \in 1 .. k : a[i + 1] = t[i]
<1> DEFINE a == PeerAdds(t, limit, h)
           n == EntrySize[h]
<1>1. n \in Nat \ {0} /\ Entry(h).size = n
  BY HeaderIs
<1>2. CASE n > limit
  <2>1. a = <<>> /\ Len(a) = 0
    BY <1>2 DEF PeerAdds
  <2>2. Table(a) /\ Weight(a) = 0
    <3>1. Table(a)
      BY <2>1 DEF Table
    <3>2. 0 \in 0 .. Len(a)
      BY <2>1
    <3>3. Upto(a)[0] = 0
      BY <3>1, TableIsSized, UptoIs
    <3> QED
      BY <2>1, <3>1, <3>3, WeightIs
  <2> QED
    BY <1>2, <2>1, <2>2
<1>3. CASE n <= limit
  <2>1. a = <<Entry(h)>> \o PeerKeeps(t, limit - n)
    <3>1. ~(n > limit)
      BY <1>1, <1>3
    <3> QED
      BY <3>1 DEF PeerAdds
  <2>2. PICK k \in 0 .. Len(t) : PeerKeeps(t, limit - n) = SubSeq(t, 1, k) /\ Most(t, k, limit - n)
    <3>1. limit - n \in Int
      BY <1>1
    <3> HIDE DEF n
    <3> QED
      BY <3>1, PeerKeepsMost
  <2> DEFINE w == SubSeq(t, 1, k)
  <2>3. /\ w = [i \in 1 .. k |-> t[i]] /\ Len(w) = k /\ Table(w) /\ Weight(w) = Upto(t)[k]
        /\ Upto(t)[k] \in Nat
    BY FirstOf
  <2> HIDE DEF w
  <2>4. Row(Entry(h)) \in Rows
    <3>1. Entry(h) \in Rows
      BY HeaderIs
    <3> QED
      BY <3>1 DEF Row, Entry
  <2>5. a = <<Entry(h)>> \o w
    BY <2>1, <2>2 DEF w
  <2> HIDE DEF a
  <2>6. /\ Table(a) /\ Len(a) = k + 1 /\ a[1] = Entry(h)
        /\ \A i \in 1 .. k : a[i + 1] = w[i]
        /\ Weight(a) = n + Weight(w)
    BY <1>1, <2>3, <2>4, <2>5, Prepended
  <2>7. Upto(t)[k] <= limit - n
    <3>1. CASE k = 0
      <4>1. Upto(t)[0] = 0
        BY TableIsSized, UptoIs
      <4> QED
        BY <1>1, <1>3, <3>1, <4>1
    <3> QED
      BY <2>2, <3>1 DEF Most
  <2>8. Weight(a) <= limit
    <3> DEFINE u == Upto(t)[k]
    <3> HIDE DEF u, n
    <3>1. u \in Nat /\ u <= limit - n /\ Weight(a) = n + u
      BY <2>3, <2>6, <2>7 DEF u
    <3> QED
      BY <1>1, <3>1
  <2>9. \A i \in 1 .. k : a[i + 1] = t[i]
    BY <2>3, <2>6
  <2> QED
    BY <1>3, <2>2, <2>6, <2>8, <2>9 DEF a
<1> QED
  BY <1>1, <1>2, <1>3

LEMMA AddBehind ==
  ASSUME NEW peer, NEW ctx, Context(ctx), Behind(peer, ctx), NEW h \in Headers,
         NEW e, Row(e) = Entry(h),
         NEW after, after.table = PeerAdds(peer.table, peer.limit, h), after.limit = peer.limit
  PROVE  /\ Context(hpack_add_entry(ctx, e)) /\ Behind(after, hpack_add_entry(ctx, e))
         /\ hpack_add_entry(ctx, e).max = ctx.max
<1> DEFINE t == peer.table
           c == hpack_add_entry(ctx, e)
           a == PeerAdds(t, peer.limit, h)
           n == EntrySize[h]
<1>1. /\ Table(t) /\ peer.limit \in Nat /\ Weight(t) <= peer.limit /\ peer.limit <= ctx.max
      /\ Len(t) <= Len(ctx.table) /\ \A i \in 1 .. Len(t) : t[i] = Row(ctx.table[i])
      /\ Len(t) \in Nat /\ Len(ctx.table) \in Nat /\ ctx.max \in Nat
  BY DEF Behind, Context, Table
<1>2. Row(e) \in Rows /\ n \in Nat \ {0} /\ e.size = n
  <2>1. Row(e) \in Rows
    <3>1. Entry(h) \in Rows
      BY HeaderIs
    <3> QED
      BY <3>1 DEF Row, Entry
  <2>2. Row(e).size = e.size
    BY DEF Row
  <2> QED
    BY <2>1, <2>2, HeaderIs
<1>3. PICK k \in 0 .. Len(ctx.table) :
        /\ Most(ctx.table, k, ctx.max - n)
        /\ Context(c) /\ c.max = ctx.max /\ Len(c.table) = k + 1 /\ c.table[1] = e
        /\ \A i \in 1 .. k : c.table[i + 1] = ctx.table[i]
  <2>1. \E k \in 0 .. Len(ctx.table) : Added(ctx, e, k, c)
    BY <1>2, AddsEntry
  <2> HIDE DEF c, n
  <2> QED
    BY <1>2, <2>1 DEF Added
<1>4. /\ Table(a) /\ Weight(a) <= peer.limit
      /\ \/ n > peer.limit /\ Len(a) = 0
         \/ \E m \in 0 .. Len(t) :
              /\ n <= peer.limit /\ Most(t, m, peer.limit - n)
              /\ Len(a) = m + 1 /\ a[1] = Entry(h) /\ \A i \in 1 .. m : a[i + 1] = t[i]
  BY <1>1, PeerAddsEntry
<1> HIDE DEF c, a, n, t
<1>5. after.table = a /\ after.limit = peer.limit
  BY DEF a, t
<1>6. Len(a) <= Len(c.table) /\ \A i \in 1 .. Len(a) : a[i] = Row(c.table[i])
  <2>1. CASE Len(a) = 0
    BY <1>3, <2>1
  <2>2. ASSUME NEW m \in 0 .. Len(t), n <= peer.limit, Most(t, m, peer.limit - n),
               Len(a) = m + 1, a[1] = Entry(h), \A i \in 1 .. m : a[i + 1] = t[i]
        PROVE  Len(a) <= Len(c.table) /\ \A i \in 1 .. Len(a) : a[i] = Row(c.table[i])
    <3>1. m <= k
      <4>1. CASE m = 0
        BY <4>1
      <4>2. CASE m # 0
        <5>1. Upto(t)[m] <= peer.limit - n
          BY <2>2, <4>2 DEF Most
        <5>2. Upto(t)[m] = Upto(ctx.table)[m] /\ Upto(ctx.table)[m] \in Nat
          BY BehindWeighs DEF t
        <5>3. Upto(ctx.table)[m] <= ctx.max - n
          BY <1>1, <1>2, <5>1, <5>2
        <5>4. m \in 0 .. Len(ctx.table)
          BY <1>1
        <5> QED
          BY <1>3, <5>3, <5>4 DEF Most
      <4> QED
        BY <4>1, <4>2
    <3>2. ASSUME NEW i \in 1 .. m + 1 PROVE a[i] = Row(c.table[i])
      <4>1. CASE i = 1
        BY <1>3, <2>2, <4>1
      <4>2. CASE i # 1
        <5>1. i - 1 \in 1 .. m /\ (i - 1) + 1 = i /\ i - 1 \in 1 .. k /\ i - 1 \in 1 .. Len(t)
          BY <1>1, <3>1, <4>2
        <5>2. a[i] = t[i - 1] /\ c.table[i] = ctx.table[i - 1]
          BY <1>3, <2>2, <5>1
        <5> QED
          BY <1>1, <5>1, <5>2
      <4> QED
        BY <4>1, <4>2
    <3> QED
      BY <1>3, <2>2, <3>1, <3>2
  <2> QED
    BY <1>4, <2>1, <2>2
<1>7. Behind(after, c)
  BY <1>1, <1>3, <1>4, <1>5, <1>6 DEF Behind
<1> QED
  BY <1>3, <1>7 DEF c

-----------------------------------------------------------------------------
(* The decoder's table consists of plain rows.                             *)
Decoding(peer, ctx) ==
  /\ Context(ctx) /\ Behind(peer, ctx)
  /\ \A i \in 1 .. Len(ctx.table) : ctx.table[i] \in Rows

LEMMA StaticIs ==
  /\ Len(Static) \in Nat \ {0} /\ DOMAIN Static = 1 .. Len(Static)
  /\ \A i \in 1 .. Len(Static) :
       /\ Static[i] \in [name : Names, value : Values] /\ Static[i] # None
       /\ Static[i] = [name |-> Static[i].name, value |-> Static[i].value]
<1>1. Static # <<>> /\ Static \in Seq([name : Names, value : Values])
      /\ None \notin [name : Names, value : Values]
  BY HpackAssumption
<1> DEFINE S == [name : Names, value : Values]
<1>2. \A h \in S : h = [name |-> h.name, value |-> h.value]
  OBVIOUS
<1> HIDE DEF S
<1>3. Static # <<>> /\ Static \in Seq(S) /\ None \notin S
  BY <1>1 DEF S
<1>4. Len(Static) \in Nat /\ Static \in [1 .. Len(Static) -> S] /\ Len(Static) # 0
  BY <1>3, LenProperties, EmptySeq
<1>5. \A i \in 1 .. Len(Static) : Static[i] \in S /\ Static[i] # None
  BY <1>3, <1>4
<1> QED
  BY <1>2, <1>4, <1>5 DEF S

LEMMA RowOfRow ==
  ASSUME NEW e \in Rows
  PROVE  /\ Row(e) = e /\ e # None /\ e.name \in Names
         /\ [name |-> e.name, value |-> e.value] \in AnyHeader
         /\ [name |-> e.name, value |-> e.value] # None
<1>1. PICK h \in AnyHeader : e = Entry(h)
  BY DEF Rows
<1>2. Row(e) = e
  BY <1>1 DEF Row, Entry
<1>3. e.name = h.name /\ e.value = h.value
  BY <1>1, AnyHeaderIs
<1> QED
  BY <1>1, <1>2, <1>3, AnyHeaderIs

(* What the peer means by an index the server finds, with its own eviction *)
(* in between.                                                             *)
LEMMA LooksUp ==
  ASSUME NEW peer, NEW ctx, Decoding(peer, ctx), NEW i \in Nat
  PROVE  LET l == hpack_lookup(ctx, i)
             p == PeerLookup(peer.table, i)
         IN /\ Decoding(peer, l.ctx) /\ l.ctx.max = ctx.max
            /\ p # None => /\ i # 0 /\ l.entry # None
                           /\ p = [name |-> l.entry.name, value |-> l.entry.value]
                           /\ p.name = l.entry.name
<1> DEFINE l == hpack_lookup(ctx, i)
           p == PeerLookup(peer.table, i)
           n == Len(Static)
           c == hpack_fix(ctx, 0)
<1>1. n \in Nat \ {0} /\ DOMAIN Static = 1 .. n
  BY StaticIs
<1>2. CASE i \in DOMAIN Static
  <2>1. l = [ctx |-> ctx, entry |-> Static[i]] /\ p = Static[i]
    BY <1>2 DEF hpack_lookup, PeerLookup
  <2>2. l.ctx = ctx /\ l.entry = Static[i]
    BY <2>1
  <2>3. Static[i] # None /\ Static[i] = [name |-> Static[i].name, value |-> Static[i].value]
        /\ i # 0
    BY <1>1, <1>2, StaticIs
  <2> HIDE DEF l, p
  <2> QED
    BY <2>1, <2>2, <2>3 DEF l, p
<1>3. CASE i \notin DOMAIN Static
  <2> DEFINE j == i - n
             d == IF i = 0 THEN ctx ELSE c
  <2>1. Decoding(peer, d) /\ d.max = ctx.max
    <3>1. Context(c) /\ Behind(peer, c) /\ c.max = ctx.max
      BY FixBehind DEF Decoding
    <3>2. \A k \in 1 .. Len(c.table) : c.table[k] \in Rows
      <4>1. PICK m \in 0 .. Len(ctx.table) : c = Evict(ctx, m)
        BY Fixes DEF Decoding
      <4>2. Len(c.table) = m /\ \A k \in 1 .. m : c.table[k] = ctx.table[k]
        <5> DEFINE v == Evict(ctx, m)
        <5>1. Context(ctx)
          BY DEF Decoding
        <5>2. Len(v.table) = m /\ \A k \in 1 .. m : v.table[k] = ctx.table[k]
          BY <5>1, Evicts
        <5> HIDE DEF v, c
        <5>3. c = v
          BY <4>1 DEF v, c
        <5> QED
          BY <5>2, <5>3
      <4> HIDE DEF c
      <4>3. Len(ctx.table) \in Nat
        BY DEF Decoding, Context, Table
      <4>4. \A k \in 1 .. m : k \in 1 .. Len(ctx.table)
        BY <4>3
      <4> QED
        BY <4>2, <4>4 DEF Decoding
    <3> HIDE DEF c
    <3> QED
      BY <3>1, <3>2 DEF Decoding
  <2>2. l = [ctx |-> d, entry |-> QueueIndex(d.table, j)]
    BY <1>3 DEF hpack_lookup
  <2>3. l.ctx = d /\ l.entry = QueueIndex(d.table, j)
    BY <2>2
  <2>4. p = LET e == QueueIndex(peer.table, j)
            IN IF e = None THEN None ELSE [name |-> e.name, value |-> e.value]
    BY <1>3 DEF PeerLookup
  <2> HIDE DEF l, p, d, j
  <2>5. /\ Len(peer.table) \in Nat /\ DOMAIN peer.table = 1 .. Len(peer.table)
        /\ Len(d.table) \in Nat /\ DOMAIN d.table = 1 .. Len(d.table)
        /\ Len(peer.table) <= Len(d.table)
        /\ \A k \in 1 .. Len(peer.table) : peer.table[k] = Row(d.table[k])
        /\ \A k \in 1 .. Len(d.table) : d.table[k] \in Rows
    BY <2>1 DEF Decoding, Behind, Context, Table
  <2>6. ASSUME p # None
        PROVE  /\ i # 0 /\ l.entry # None
               /\ p = [name |-> l.entry.name, value |-> l.entry.value]
               /\ p.name = l.entry.name
    <3>1. j \in 1 .. Len(peer.table)
      BY <2>4, <2>5, <2>6 DEF QueueIndex
    <3>2. j \in 1 .. Len(d.table) /\ d.table[j] \in Rows /\ peer.table[j] = Row(d.table[j])
      BY <2>5, <3>1
    <3>3. peer.table[j] = d.table[j] /\ d.table[j] # None
      BY <3>2, RowOfRow
    <3>4. l.entry = d.table[j]
      BY <2>3, <2>5, <3>2 DEF QueueIndex
    <3>5. p = [name |-> d.table[j].name, value |-> d.table[j].value]
      BY <2>4, <2>5, <3>1, <3>3 DEF QueueIndex
    <3>6. i # 0
      BY <1>1, <3>1 DEF j
    <3> QED
      BY <3>3, <3>4, <3>5, <3>6
  <2> QED
    BY <2>1, <2>3, <2>6 DEF l, p
<1> QED
  BY <1>2, <1>3

-----------------------------------------------------------------------------
LEMMA Representations ==
  ASSUME NEW i \in Nat, NEW h, NEW add \in BOOLEAN
  PROVE  /\ IntegerOf(Indexed(i)) = i /\ Indexed(i).rep = "indexed"
         /\ IntegerOf(Literal(i, h, add)) = i /\ Literal(i, h, add).rep = "literal"
         /\ Literal(i, h, add).h = h /\ Literal(i, h, add).add = add
         /\ IntegerOf(Resize(i)) = i /\ Resize(i).rep = "resize"
<1>1. /\ Mask.indexed \in Nat \ {0} /\ Mask.adding \in Nat \ {0} /\ Mask.literal \in Nat \ {0}
      /\ Mask.resize \in Nat \ {0}
  <2>1. Mask \in [{"indexed", "adding", "literal", "resize"} -> Nat \ {0}]
    BY HpackAssumption
  <2> QED
    BY <2>1
<1>2. LiteralMask(add) \in Nat \ {0}
  BY <1>1 DEF LiteralMask
<1>3. /\ Indexed(i).rep = "indexed" /\ Indexed(i).octets = hpack_encode_integer(Mask.indexed, i)
      /\ Resize(i).rep = "resize" /\ Resize(i).octets = hpack_encode_integer(Mask.resize, i)
      /\ Literal(i, h, add).rep = "literal" /\ Literal(i, h, add).h = h
      /\ Literal(i, h, add).add = add
      /\ Literal(i, h, add).octets = hpack_encode_integer(LiteralMask(add), i)
  BY DEF Indexed, Resize, Literal
<1>4. IntegerOf(Indexed(i)) = i
  BY <1>1, <1>3, Integers DEF IntegerOf
<1>5. IntegerOf(Resize(i)) = i
  BY <1>1, <1>3, Integers DEF IntegerOf
<1>6. IntegerOf(Literal(i, h, add)) = i
  BY <1>2, <1>3, Integers DEF IntegerOf
<1> QED
  BY <1>3, <1>4, <1>5, <1>6

(* Two fields of a record are replaced.                                    *)
LEMMA DecoderNext ==
  ASSUME NEW d, d = [ctx |-> d.ctx, headers |-> d.headers, error |-> d.error], NEW c, NEW h
  PROVE  [d EXCEPT !.ctx = c, !.headers = h] = [ctx |-> c, headers |-> h, error |-> d.error]
<1> DEFINE q == [d EXCEPT !.ctx = c, !.headers = h]
<1>1. q \in [ctx : {c}, headers : {h}, error : {d.error}]
  OBVIOUS
<1> HIDE DEF q
<1>2. q = [ctx |-> c, headers |-> h, error |-> d.error]
  BY <1>1
<1> QED
  BY <1>2 DEF q

LEMMA ErrorNext ==
  ASSUME NEW d, d = [ctx |-> d.ctx, headers |-> d.headers, error |-> d.error], NEW b
  PROVE  [d EXCEPT !.error = b] = [ctx |-> d.ctx, headers |-> d.headers, error |-> b]
<1> DEFINE q == [d EXCEPT !.error = b]
<1>1. q \in [ctx : {d.ctx}, headers : {d.headers}, error : {b}]
  OBVIOUS
<1> HIDE DEF q
<1>2. q = [ctx |-> d.ctx, headers |-> d.headers, error |-> b]
  BY <1>1
<1> QED
  BY <1>2 DEF q

LEMMA PeerNext ==
  ASSUME NEW p, p = [table |-> p.table, limit |-> p.limit, headers |-> p.headers],
         NEW t, NEW n, NEW h
  PROVE  /\ [p EXCEPT !.headers = h, !.table = t]
              = [table |-> t, limit |-> p.limit, headers |-> h]
         /\ [p EXCEPT !.table = t, !.limit = n]
              = [table |-> t, limit |-> n, headers |-> p.headers]
         /\ [p EXCEPT !.headers = h] = [table |-> p.table, limit |-> p.limit, headers |-> h]
<1> DEFINE q == [p EXCEPT !.headers = h, !.table = t]
           r == [p EXCEPT !.table = t, !.limit = n]
           s == [p EXCEPT !.headers = h]
<1>1. q \in [table : {t}, limit : {p.limit}, headers : {h}]
  OBVIOUS
<1>2. r \in [table : {t}, limit : {n}, headers : {p.headers}]
  OBVIOUS
<1>3. s \in [table : {p.table}, limit : {p.limit}, headers : {h}]
  OBVIOUS
<1> HIDE DEF q, r, s
<1>4. q = [table |-> t, limit |-> p.limit, headers |-> h]
  BY <1>1
<1>5. r = [table |-> t, limit |-> n, headers |-> p.headers]
  BY <1>2
<1>6. s = [table |-> p.table, limit |-> p.limit, headers |-> h]
  BY <1>3
<1> QED
  BY <1>4, <1>5, <1>6 DEF q, r, s

(* What the server has decoded of a block, and the peer meant by it.       *)
Agree(d, p) ==
  /\ d = [ctx |-> d.ctx, headers |-> d.headers, error |-> FALSE]
  /\ p = [table |-> p.table, limit |-> p.limit, headers |-> p.headers]
  /\ Decoding(p, d.ctx) /\ d.headers = p.headers

LEMMA IndexedAgrees ==
  ASSUME NEW d, NEW p, Agree(d, p), NEW i \in Nat, PeerLookup(p.table, i) # None
  PROVE  /\ Agree(DecodeOne(d, Indexed(i)), PeerDecodeOne(p, Indexed(i)))
         /\ DecodeOne(d, Indexed(i)).ctx.max = d.ctx.max
<1> DEFINE r == Indexed(i)
           l == hpack_lookup(d.ctx, i)
           h == PeerLookup(p.table, i)
           v == [name |-> l.entry.name, value |-> l.entry.value]
           e == DecodeOne(d, r)
           q == PeerDecodeOne(p, r)
<1>1. IntegerOf(r) = i /\ r.rep = "indexed"
  BY Representations
<1>2. Decoding(p, l.ctx) /\ l.ctx.max = d.ctx.max /\ l.entry # None /\ h = v
  BY LooksUp DEF Agree
<1>3. e = [d EXCEPT !.ctx = l.ctx, !.headers = Append(d.headers, v)]
  <2> HIDE DEF r, l
  <2>1. ~d.error
    BY DEF Agree
  <2> QED
    BY <1>1, <1>2, <2>1 DEF DecodeOne, l
<1>4. q = [p EXCEPT !.headers = Append(p.headers, h)]
  <2> HIDE DEF r, h
  <2> QED
    BY <1>1 DEF PeerDecodeOne, h
<1> HIDE DEF r, l, h, v, e, q
<1>5. e = [ctx |-> l.ctx, headers |-> Append(d.headers, v), error |-> FALSE]
  <2>1. d = [ctx |-> d.ctx, headers |-> d.headers, error |-> d.error] /\ d.error = FALSE
    BY DEF Agree
  <2> QED
    BY <1>3, <2>1, DecoderNext
<1>6. q = [table |-> p.table, limit |-> p.limit, headers |-> Append(p.headers, h)]
  BY <1>4, PeerNext DEF Agree
<1>7. Append(d.headers, v) = Append(p.headers, h)
  BY <1>2 DEF Agree
<1>8. Decoding(q, l.ctx)
  BY <1>2, <1>6 DEF Decoding, Behind
<1> QED
  BY <1>2, <1>5, <1>6, <1>7, <1>8 DEF Agree, e, q, r

LEMMA LiteralAgrees ==
  ASSUME NEW d, NEW p, Agree(d, p), NEW i \in Nat, NEW h \in Headers,
         i # 0 => PeerLookup(p.table, i) # None /\ PeerLookup(p.table, i).name = h.name
  PROVE  /\ Agree(DecodeOne(d, Literal(i, h, TRUE)), PeerDecodeOne(p, Literal(i, h, TRUE)))
         /\ DecodeOne(d, Literal(i, h, TRUE)).ctx.max = d.ctx.max
<1> DEFINE r == Literal(i, h, TRUE)
           l == hpack_lookup(d.ctx, i)
           n == PeerLookup(p.table, i)
           c == hpack_add_entry(l.ctx, Entry(h))
           t == PeerAdds(p.table, p.limit, h)
           e == DecodeOne(d, r)
           q == PeerDecodeOne(p, r)
<1>1. IntegerOf(r) = i /\ r.rep = "literal" /\ r.h = h /\ r.add = TRUE
  <2>1. \A add \in BOOLEAN :
          /\ IntegerOf(Literal(i, h, add)) = i /\ Literal(i, h, add).rep = "literal"
          /\ Literal(i, h, add).h = h /\ Literal(i, h, add).add = add
    BY Representations
  <2>2. TRUE \in BOOLEAN
    OBVIOUS
  <2> QED
    BY <2>1, <2>2
<1>2. /\ Decoding(p, l.ctx) /\ l.ctx.max = d.ctx.max
      /\ i # 0 => l.entry # None /\ l.entry.name = h.name
  BY LooksUp DEF Agree
<1>3. h = [name |-> h.name, value |-> h.value]
  BY HeaderIs
<1>4. e = [d EXCEPT !.ctx = c, !.headers = Append(d.headers, h)]
  <2>1. ~d.error
    BY DEF Agree
  <2>2. (IF i = 0 THEN h.name ELSE l.entry.name) = h.name
    BY <1>2
  <2> HIDE DEF r, l
  <2> QED
    BY <1>1, <1>2, <1>3, <2>1, <2>2 DEF DecodeOne, l
<1>5. q = [p EXCEPT !.headers = Append(p.headers, h), !.table = t]
  <2> HIDE DEF r
  <2>1. [r.h EXCEPT !.name = IF i = 0 \/ n = None THEN @ ELSE n.name] = h
    <3>1. (IF i = 0 \/ n = None THEN h.name ELSE n.name) = h.name
      OBVIOUS
    <3>2. [h EXCEPT !.name = h.name] = h
      BY <1>3
    <3> HIDE DEF n
    <3> QED
      BY <1>1, <3>1, <3>2
  <2>2. ~(i # 0 /\ n = None)
    OBVIOUS
  <2> DEFINE g == [r.h EXCEPT !.name = IF i = 0 \/ n = None THEN @ ELSE n.name]
             lost == i # 0 /\ n = None
  <2>3. q = [p EXCEPT !.headers = Append(p.headers, IF lost THEN None ELSE g),
                      !.table = IF r.add /\ ~lost /\ g \in Headers
                                  THEN PeerAdds(p.table, p.limit, g) ELSE p.table]
    <3> HIDE DEF n
    <3> QED
      BY <1>1 DEF PeerDecodeOne, n
  <2>4. g = h /\ lost = FALSE
    BY <2>1, <2>2
  <2> HIDE DEF g, lost, q
  <2> QED
    BY <1>1, <2>3, <2>4
<1> DEFINE after == [table |-> t, limit |-> p.limit, headers |-> Append(p.headers, h)]
<1>6. Row(Entry(h)) = Entry(h) /\ Entry(h) \in Rows
  <2>1. Entry(h) \in Rows
    BY HeaderIs
  <2> QED
    BY <2>1 DEF Row, Entry
<1>7. Context(c) /\ Behind(after, c) /\ c.max = d.ctx.max
  <2>1. Context(l.ctx) /\ Behind(p, l.ctx)
    BY <1>2 DEF Decoding
  <2>2. after.table = t /\ after.limit = p.limit
    OBVIOUS
  <2> HIDE DEF l, after
  <2>3. Context(c) /\ Behind(after, c) /\ c.max = l.ctx.max
    BY <1>6, <2>1, <2>2, AddBehind
  <2> QED
    BY <1>2, <2>3
<1>8. \A k \in 1 .. Len(c.table) : c.table[k] \in Rows
  <2>1. Context(l.ctx) /\ \A k \in 1 .. Len(l.ctx.table) : l.ctx.table[k] \in Rows
    BY <1>2 DEF Decoding
  <2>2. Row(Entry(h)) \in Rows
    BY <1>6
  <2> DEFINE x == Entry(h)
             m == l.ctx
  <2> HIDE DEF x, m, l
  <2>3. PICK k \in 0 .. Len(m.table) : Added(m, x, k, hpack_add_entry(m, x))
    BY <2>1, <2>2, AddsEntry DEF m, x
  <2>4. c = hpack_add_entry(m, x)
    BY DEF m, x
  <2> HIDE DEF c
  <2>5. /\ Len(c.table) = k + 1 /\ c.table[1] = x
        /\ \A j \in 1 .. k : c.table[j + 1] = m.table[j]
    BY <2>3, <2>4 DEF Added
  <2>6. Len(m.table) \in Nat
    BY <2>1 DEF m, Context, Table
  <2>7. TAKE j \in 1 .. Len(c.table)
  <2>8. CASE j = 1
    BY <1>6, <2>5, <2>8 DEF x
  <2>9. CASE j # 1
    <3>1. j - 1 \in 1 .. k /\ (j - 1) + 1 = j /\ j - 1 \in 1 .. Len(m.table)
      BY <2>5, <2>6, <2>9
    <3>2. c.table[j] = m.table[j - 1]
      BY <2>5, <3>1
    <3> QED
      BY <2>1, <3>1, <3>2 DEF m
  <2> QED
    BY <2>8, <2>9
<1> HIDE DEF r, l, c, t, e, q, after
<1>9. e = [ctx |-> c, headers |-> Append(d.headers, h), error |-> FALSE]
  <2>1. d = [ctx |-> d.ctx, headers |-> d.headers, error |-> d.error] /\ d.error = FALSE
    BY DEF Agree
  <2> QED
    BY <1>4, <2>1, DecoderNext
<1>10. q = after
  BY <1>5, PeerNext DEF Agree, after
<1>11. /\ after = [table |-> after.table, limit |-> after.limit, headers |-> after.headers]
       /\ after.headers = Append(p.headers, h)
  BY DEF after
<1>12. Append(d.headers, h) = Append(p.headers, h)
  BY DEF Agree
<1>13. Decoding(after, c)
  BY <1>7, <1>8 DEF Decoding
<1>14. e.ctx = c /\ e.headers = q.headers
       /\ e = [ctx |-> e.ctx, headers |-> e.headers, error |-> FALSE]
  BY <1>9, <1>10, <1>11, <1>12
<1>15. Agree(e, q)
  BY <1>10, <1>11, <1>13, <1>14 DEF Agree
<1> QED
  BY <1>7, <1>14, <1>15 DEF e, q, r

LEMMA ResizeAgrees ==
  ASSUME NEW d, NEW p, Agree(d, p), NEW n \in Nat, n <= d.ctx.max
  PROVE  /\ Agree(DecodeOne(d, Resize(n)), PeerDecodeOne(p, Resize(n)))
         /\ DecodeOne(d, Resize(n)).ctx.max = d.ctx.max
         /\ PeerDecodeOne(p, Resize(n)).limit = n
<1> DEFINE r == Resize(n)
           e == DecodeOne(d, r)
           q == PeerDecodeOne(p, r)
           t == PeerKeeps(p.table, n)
<1>1. IntegerOf(r) = n /\ r.rep = "resize"
  BY Representations
<1>2. Context(d.ctx) /\ Behind(p, d.ctx) /\ d.ctx.max \in Nat /\ d.error = FALSE
  BY DEF Agree, Decoding, Context
<1>3. e = d
  <2>1. e = [d EXCEPT !.error = n > d.ctx.max]
    <3> HIDE DEF r
    <3> QED
      BY <1>1, <1>2 DEF DecodeOne
  <2>2. (n > d.ctx.max) = FALSE
    BY <1>2
  <2>3. [d EXCEPT !.error = FALSE] = d
    BY DEF Agree
  <2> HIDE DEF e
  <2> QED
    BY <2>1, <2>2, <2>3
<1>4. q = [p EXCEPT !.table = t, !.limit = n]
  <2> HIDE DEF r
  <2> QED
    BY <1>1 DEF PeerDecodeOne
<1>5. PICK k \in 0 .. Len(p.table) : t = SubSeq(p.table, 1, k) /\ Most(p.table, k, n)
  <2>1. n \in Int /\ Table(p.table)
    BY <1>2 DEF Behind
  <2> QED
    BY <2>1, PeerKeepsMost
<1>6. /\ t = [i \in 1 .. k |-> p.table[i]] /\ Len(t) = k /\ Table(t)
      /\ Weight(t) = Upto(p.table)[k]
  BY <1>2, <1>5, FirstOf DEF Behind
<1>7. Weight(t) <= n
  <2>1. CASE k = 0
    <3>1. Upto(p.table)[0] = 0
      BY <1>2, TableIsSized, UptoIs DEF Behind
    <3> QED
      BY <1>6, <2>1, <3>1
  <2>2. CASE k # 0
    BY <1>5, <1>6, <2>2 DEF Most
  <2> QED
    BY <2>1, <2>2
<1> HIDE DEF r, e, q, t
<1>8. q = [table |-> t, limit |-> n, headers |-> p.headers]
  BY <1>4, PeerNext DEF Agree
<1>9. Behind(q, d.ctx)
  <2>1. Len(p.table) \in Nat /\ Len(d.ctx.table) \in Nat /\ Len(p.table) <= Len(d.ctx.table)
        /\ \A i \in 1 .. Len(p.table) : p.table[i] = Row(d.ctx.table[i])
    BY <1>2 DEF Behind, Context, Table
  <2>2. Len(t) <= Len(d.ctx.table) /\ \A i \in 1 .. k : i \in 1 .. Len(p.table)
    BY <1>6, <2>1
  <2>3. \A i \in 1 .. Len(t) : t[i] = Row(d.ctx.table[i])
    BY <1>6, <2>1, <2>2
  <2>4. q.table = t /\ q.limit = n
    BY <1>8
  <2> QED
    BY <1>6, <1>7, <2>2, <2>3, <2>4 DEF Behind
<1>10. Decoding(q, d.ctx)
  BY <1>9 DEF Agree, Decoding
<1>11. Agree(d, q)
  BY <1>8, <1>10 DEF Agree
<1> QED
  BY <1>3, <1>8, <1>11 DEF e, q, r

-----------------------------------------------------------------------------
(* A block is decoded one representation after the other, on either side.  *)
Decoded(ctx, block) ==
  CHOOSE f : f = [i \in 0 .. Len(block) |->
                   IF i = 0 THEN [ctx |-> ctx, headers |-> <<>>, error |-> FALSE]
                            ELSE DecodeOne(f[i - 1], block[i])]
Meant(peer, block) ==
  CHOOSE f : f = [i \in 0 .. Len(block) |->
                   IF i = 0 THEN [table |-> peer.table, limit |-> peer.limit, headers |-> <<>>]
                            ELSE PeerDecodeOne(f[i - 1], block[i])]

LEMMA DecodedIs ==
  ASSUME NEW ctx, NEW block, Len(block) \in Nat
  PROVE  /\ hpack_decode(ctx, block) = Decoded(ctx, block)[Len(block)]
         /\ Decoded(ctx, block)[0] = [ctx |-> ctx, headers |-> <<>>, error |-> FALSE]
         /\ \A i \in 1 .. Len(block) :
              Decoded(ctx, block)[i] = DecodeOne(Decoded(ctx, block)[i - 1], block[i])
<1> DEFINE n == Len(block)
           start == [ctx |-> ctx, headers |-> <<>>, error |-> FALSE]
           Rec(f, i) == IF i = 0 THEN start ELSE DecodeOne(f[i - 1], block[i])
           Good(f, k) == f = [i \in 0 .. k |-> Rec(f, i)]
           holds == {k \in 0 .. n : \E f : Good(f, k)}
<1> HIDE DEF n, start
<1>1. n \in Nat
  BY DEF n
<1>2. 0 \in holds
  <2> DEFINE f == [i \in 0 .. 0 |-> start]
  <2>1. Good(f, 0)
    OBVIOUS
  <2> HIDE DEF Good
  <2> QED
    BY <1>1, <2>1
<1>3. ASSUME NEW k \in 1 .. n, k - 1 \in holds PROVE k \in holds
  <2>1. PICK f : Good(f, k - 1)
    BY <1>3
  <2> DEFINE g == [i \in 0 .. k |-> IF i = k THEN Rec(f, k) ELSE f[i]]
  <2>2. \A i \in 0 .. k - 1 : f[i] = Rec(f, i) /\ g[i] = f[i]
    BY <2>1
  <2>3. \A i \in 0 .. k : Rec(g, i) = Rec(f, i)
    <3> HIDE DEF g
    <3>1. SUFFICES ASSUME NEW i \in 0 .. k, i # 0 PROVE g[i - 1] = f[i - 1]
      OBVIOUS
    <3>2. i - 1 \in 0 .. k - 1
      BY <3>1
    <3> QED
      BY <2>2, <3>2
  <2>4. \A i \in 0 .. k : g[i] = Rec(f, i)
    <3> HIDE DEF Rec
    <3>1. TAKE i \in 0 .. k
    <3>2. CASE i = k
      BY <3>2
    <3>3. CASE i # k
      <4>1. i \in 0 .. k - 1
        BY <3>3
      <4> QED
        BY <2>2, <4>1
    <3> QED
      BY <3>2, <3>3
  <2>5. Good(g, k)
    <3>1. g = [i \in 0 .. k |-> g[i]]
      OBVIOUS
    <3> HIDE DEF g, Rec
    <3> QED
      BY <2>3, <2>4, <3>1
  <2> HIDE DEF Good
  <2> QED
    BY <2>5
<1>4. n \in holds
  <2>1. 0 .. n \subseteq holds
    <3> HIDE DEF holds
    <3> QED
      BY <1>1, <1>2, <1>3, Inductive
  <2> HIDE DEF holds
  <2> QED
    BY <1>1, <2>1
<1>5. Good(Decoded(ctx, block), n)
  <2>1. Decoded(ctx, block) = CHOOSE f : Good(f, n)
    BY DEF Decoded, n, start
  <2>2. \E f : Good(f, n)
    BY <1>4
  <2> HIDE DEF Good
  <2> QED
    BY <2>1, <2>2
<1> DEFINE d == Decoded(ctx, block)
<1> HIDE DEF d
<1>6. d = [i \in 0 .. n |-> Rec(d, i)]
  BY <1>5 DEF d
<1> HIDE DEF Rec
<1>7. \A i \in 0 .. n : d[i] = Rec(d, i)
  BY <1>6
<1>8. d[0] = start /\ \A i \in 1 .. n : d[i] = DecodeOne(d[i - 1], block[i])
  BY <1>1, <1>7 DEF Rec
<1>9. hpack_decode(ctx, block) = d[n]
  BY DEF hpack_decode, d, n, Decoded
<1> QED
  BY <1>8, <1>9 DEF d, n, start

LEMMA MeantIs ==
  ASSUME NEW peer, NEW block, Len(block) \in Nat
  PROVE  /\ PeerDecodes(peer, block) = Meant(peer, block)[Len(block)]
         /\ Meant(peer, block)[0]
              = [table |-> peer.table, limit |-> peer.limit, headers |-> <<>>]
         /\ \A i \in 1 .. Len(block) :
              Meant(peer, block)[i] = PeerDecodeOne(Meant(peer, block)[i - 1], block[i])
<1> DEFINE n == Len(block)
           start == [table |-> peer.table, limit |-> peer.limit, headers |-> <<>>]
           Rec(f, i) == IF i = 0 THEN start ELSE PeerDecodeOne(f[i - 1], block[i])
           Good(f, k) == f = [i \in 0 .. k |-> Rec(f, i)]
           holds == {k \in 0 .. n : \E f : Good(f, k)}
<1> HIDE DEF n, start
<1>1. n \in Nat
  BY DEF n
<1>2. 0 \in holds
  <2> DEFINE f == [i \in 0 .. 0 |-> start]
  <2>1. Good(f, 0)
    OBVIOUS
  <2> HIDE DEF Good
  <2> QED
    BY <1>1, <2>1
<1>3. ASSUME NEW k \in 1 .. n, k - 1 \in holds PROVE k \in holds
  <2>1. PICK f : Good(f, k - 1)
    BY <1>3
  <2> DEFINE g == [i \in 0 .. k |-> IF i = k THEN Rec(f, k) ELSE f[i]]
  <2>2. \A i \in 0 .. k - 1 : f[i] = Rec(f, i) /\ g[i] = f[i]
    BY <2>1
  <2>3. \A i \in 0 .. k : Rec(g, i) = Rec(f, i)
    <3> HIDE DEF g
    <3>1. SUFFICES ASSUME NEW i \in 0 .. k, i # 0 PROVE g[i - 1] = f[i - 1]
      OBVIOUS
    <3>2. i - 1 \in 0 .. k - 1
      BY <3>1
    <3> QED
      BY <2>2, <3>2
  <2>4. \A i \in 0 .. k : g[i] = Rec(f, i)
    <3> HIDE DEF Rec
    <3>1. TAKE i \in 0 .. k
    <3>2. CASE i = k
      BY <3>2
    <3>3. CASE i # k
      <4>1. i \in 0 .. k - 1
        BY <3>3
      <4> QED
        BY <2>2, <4>1
    <3> QED
      BY <3>2, <3>3
  <2>5. Good(g, k)
    <3>1. g = [i \in 0 .. k |-> g[i]]
      OBVIOUS
    <3> HIDE DEF g, Rec
    <3> QED
      BY <2>3, <2>4, <3>1
  <2> HIDE DEF Good
  <2> QED
    BY <2>5
<1>4. n \in holds
  <2>1. 0 .. n \subseteq holds
    <3> HIDE DEF holds
    <3> QED
      BY <1>1, <1>2, <1>3, Inductive
  <2> HIDE DEF holds
  <2> QED
    BY <1>1, <2>1
<1>5. Good(Meant(peer, block), n)
  <2>1. Meant(peer, block) = CHOOSE f : Good(f, n)
    BY DEF Meant, n, start
  <2>2. \E f : Good(f, n)
    BY <1>4
  <2> HIDE DEF Good
  <2> QED
    BY <2>1, <2>2
<1> DEFINE d == Meant(peer, block)
<1> HIDE DEF d
<1>6. d = [i \in 0 .. n |-> Rec(d, i)]
  BY <1>5 DEF d
<1> HIDE DEF Rec
<1>7. \A i \in 0 .. n : d[i] = Rec(d, i)
  BY <1>6
<1>8. d[0] = start /\ \A i \in 1 .. n : d[i] = PeerDecodeOne(d[i - 1], block[i])
  BY <1>1, <1>7 DEF Rec
<1>9. PeerDecodes(peer, block) = d[n]
  BY DEF PeerDecodes, d, n, Meant
<1> QED
  BY <1>8, <1>9 DEF d, n, start

(* What a peer with that table and the limit that a change of it keeps to  *)
(* may send next, and as a block.                                          *)
MaySend(table, max, r) ==
  \/ \E i \in Nat : r = Indexed(i) /\ PeerLookup(table, i) # None
  \/ \E i \in Nat, h \in Headers :
       /\ r = Literal(i, h, TRUE)
       /\ i # 0 => PeerLookup(table, i) # None /\ PeerLookup(table, i).name = h.name
  \/ \E n \in Nat : r = Resize(n) /\ n <= max
MaySendAll(peer, max, block) ==
  /\ Len(block) \in Nat
  /\ \A i \in 1 .. Len(block) : MaySend(Meant(peer, block)[i - 1].table, max, block[i])

(* The server reads a block as the peer means it, and its table still      *)
(* begins with the peer's.                                                 *)
ReadAsMeant(peer, ctx, block) ==
  LET d == hpack_decode(ctx, block)
      p == PeerDecodes(peer, block)
  IN /\ d.error = FALSE /\ d.headers = p.headers
     /\ Decoding(p, d.ctx) /\ d.ctx.max = ctx.max

(* Whatever the peer has evicted with a lower limit, which evicts nothing  *)
(* here: the server reads each of its header blocks as it means it.        *)
THEOREM BlocksAreRead ==
  ASSUME NEW peer, NEW ctx, Decoding(peer, ctx), NEW block, MaySendAll(peer, ctx.max, block)
  PROVE  ReadAsMeant(peer, ctx, block)
<1> DEFINE n == Len(block)
           d == Decoded(ctx, block)
           p == Meant(peer, block)
           holds == {i \in 0 .. n : Agree(d[i], p[i]) /\ d[i].ctx.max = ctx.max}
<1>1. n \in Nat
  BY DEF MaySendAll
<1>2. /\ hpack_decode(ctx, block) = d[n]
      /\ d[0] = [ctx |-> ctx, headers |-> <<>>, error |-> FALSE]
      /\ \A i \in 1 .. n : d[i] = DecodeOne(d[i - 1], block[i])
  BY <1>1, DecodedIs
<1>3. /\ PeerDecodes(peer, block) = p[n]
      /\ p[0] = [table |-> peer.table, limit |-> peer.limit, headers |-> <<>>]
      /\ \A i \in 1 .. n : p[i] = PeerDecodeOne(p[i - 1], block[i])
  BY <1>1, MeantIs
<1>4. \A i \in 1 .. n : MaySend(p[i - 1].table, ctx.max, block[i])
  BY DEF MaySendAll
<1> HIDE DEF n, d, p
<1>5. 0 \in holds
  <2>1. /\ d[0].ctx = ctx /\ d[0].headers = p[0].headers
        /\ d[0] = [ctx |-> d[0].ctx, headers |-> d[0].headers, error |-> FALSE]
        /\ p[0] = [table |-> p[0].table, limit |-> p[0].limit, headers |-> p[0].headers]
        /\ p[0].table = peer.table /\ p[0].limit = peer.limit
    BY <1>2, <1>3
  <2> DEFINE x == d[0]
             y == p[0]
  <2> HIDE DEF x, y
  <2>2. Decoding(y, ctx)
    BY <2>1 DEF y, Decoding, Behind
  <2>3. Agree(x, y)
    BY <2>1, <2>2 DEF x, y, Agree
  <2> QED
    BY <1>1, <2>1, <2>3 DEF x, y
<1>6. ASSUME NEW i \in 1 .. n, i - 1 \in holds PROVE i \in holds
  <2> DEFINE x == d[i - 1]
             y == p[i - 1]
             r == block[i]
  <2>1. Agree(x, y) /\ x.ctx.max = ctx.max /\ d[i] = DecodeOne(x, r) /\ p[i] = PeerDecodeOne(y, r)
        /\ MaySend(y.table, ctx.max, r)
    BY <1>2, <1>3, <1>4, <1>6
  <2> HIDE DEF x, y, r
  <2>2. Agree(DecodeOne(x, r), PeerDecodeOne(y, r)) /\ DecodeOne(x, r).ctx.max = x.ctx.max
    <3>1. ASSUME NEW j \in Nat, r = Indexed(j), PeerLookup(y.table, j) # None
          PROVE  /\ Agree(DecodeOne(x, r), PeerDecodeOne(y, r))
                 /\ DecodeOne(x, r).ctx.max = x.ctx.max
      BY <2>1, <3>1, IndexedAgrees
    <3>2. ASSUME NEW j \in Nat, NEW h \in Headers, r = Literal(j, h, TRUE),
                 j # 0 => PeerLookup(y.table, j) # None /\ PeerLookup(y.table, j).name = h.name
          PROVE  /\ Agree(DecodeOne(x, r), PeerDecodeOne(y, r))
                 /\ DecodeOne(x, r).ctx.max = x.ctx.max
      BY <2>1, <3>2, LiteralAgrees
    <3>3. ASSUME NEW j \in Nat, r = Resize(j), j <= ctx.max
          PROVE  /\ Agree(DecodeOne(x, r), PeerDecodeOne(y, r))
                 /\ DecodeOne(x, r).ctx.max = x.ctx.max
      BY <2>1, <3>3, ResizeAgrees
    <3> QED
      BY <2>1, <3>1, <3>2, <3>3 DEF MaySend
  <2>3. i \in 0 .. n
    BY <1>1
  <2> QED
    BY <2>1, <2>2, <2>3
<1>7. n \in holds
  <2>1. 0 .. n \subseteq holds
    <3> HIDE DEF holds
    <3> QED
      BY <1>1, <1>5, <1>6, Inductive
  <2> HIDE DEF holds
  <2> QED
    BY <1>1, <2>1
<1> DEFINE x == d[n]
           y == p[n]
<1>8. Agree(x, y) /\ x.ctx.max = ctx.max
  BY <1>7
<1>9. hpack_decode(ctx, block) = x /\ PeerDecodes(peer, block) = y
  BY <1>2, <1>3
<1> HIDE DEF x, y, holds
<1>10. x.error = FALSE /\ x.headers = y.headers /\ Decoding(y, x.ctx)
  BY <1>8 DEF Agree
<1> QED
  BY <1>8, <1>9, <1>10 DEF ReadAsMeant

-----------------------------------------------------------------------------
(* Whatever a server's table has, be it another than the peer's, it remains*)
(* a table whose size is the sum of its entries.                           *)
Sound(d, max) ==
  /\ d = [ctx |-> d.ctx, headers |-> d.headers, error |-> d.error]
  /\ Context(d.ctx) /\ d.ctx.max = max

LEMMA LookupIsSound ==
  ASSUME NEW ctx, Context(ctx), NEW i \in Nat
  PROVE  LET l == hpack_lookup(ctx, i)
         IN /\ Context(l.ctx) /\ l.ctx.max = ctx.max
            /\ l.entry # None => l.entry.name \in Names
<1> DEFINE l == hpack_lookup(ctx, i)
           c == hpack_fix(ctx, 0)
<1>1. CASE i \in DOMAIN Static
  <2>1. l.ctx = ctx /\ l.entry = Static[i]
    BY <1>1 DEF hpack_lookup
  <2>2. Static[i] \in [name : Names, value : Values]
    BY <1>1, StaticIs
  <2>3. Static[i].name \in Names
    BY <2>2
  <2> HIDE DEF l
  <2> QED
    BY <2>1, <2>3 DEF l
<1>2. CASE i \notin DOMAIN Static
  <2> DEFINE j == i - Len(Static)
             d == IF i = 0 THEN ctx ELSE c
  <2>1. l.ctx = d /\ l.entry = QueueIndex(d.table, j)
    BY <1>2 DEF hpack_lookup
  <2>2. Context(c) /\ c.max = ctx.max
    <3>1. PICK m \in 0 .. Len(ctx.table) : c = Evict(ctx, m)
      BY Fixes
    <3> DEFINE v == Evict(ctx, m)
    <3>2. Context(v) /\ v.max = ctx.max
      BY Evicts
    <3> HIDE DEF v, c
    <3>3. c = v
      BY <3>1 DEF v, c
    <3> QED
      BY <3>2, <3>3
  <2>3. Context(d) /\ d.max = ctx.max
    BY <2>2
  <2> HIDE DEF l, d, j
  <2>4. /\ DOMAIN d.table = 1 .. Len(d.table)
        /\ \A k \in 1 .. Len(d.table) : Row(d.table[k]) \in Rows
    BY <2>3 DEF Context, Table
  <2>5. l.entry # None => l.entry.name \in Names
    BY <2>1, <2>4, RowIs DEF QueueIndex
  <2> QED
    BY <2>1, <2>3, <2>5 DEF l
<1> QED
  BY <1>1, <1>2

LEMMA DecodesSoundly ==
  ASSUME NEW d, NEW max, Sound(d, max), NEW r,
         \/ \E i \in Nat : r = Indexed(i) \/ r = Resize(i)
         \/ \E i \in Nat, h \in Headers : r = Literal(i, h, TRUE)
  PROVE  Sound(DecodeOne(d, r), max)
<1>1. CASE d.error
  BY <1>1 DEF DecodeOne
<1>2. ASSUME ~d.error, NEW i \in Nat, r = Indexed(i) PROVE Sound(DecodeOne(d, r), max)
  <2> DEFINE l == hpack_lookup(d.ctx, i)
             v == [name |-> l.entry.name, value |-> l.entry.value]
  <2>1. IntegerOf(r) = i /\ r.rep = "indexed"
    BY <1>2, Representations
  <2>2. Context(l.ctx) /\ l.ctx.max = max
    BY LookupIsSound DEF Sound
  <2>3. \/ DecodeOne(d, r) = [d EXCEPT !.error = TRUE]
        \/ DecodeOne(d, r) = [d EXCEPT !.ctx = l.ctx, !.headers = Append(d.headers, v)]
    <3> HIDE DEF l
    <3> QED
      BY <1>2, <2>1 DEF DecodeOne, l
  <2> DEFINE new == Append(d.headers, v)
             c == l.ctx
  <2> HIDE DEF l, v, new, c
  <2>4. [d EXCEPT !.error = TRUE] = [ctx |-> d.ctx, headers |-> d.headers, error |-> TRUE]
    BY ErrorNext DEF Sound
  <2>5. [d EXCEPT !.ctx = c, !.headers = new] = [ctx |-> c, headers |-> new, error |-> d.error]
    BY DecoderNext DEF Sound
  <2> QED
    BY <2>2, <2>3, <2>4, <2>5 DEF Sound, new, c
<1>3. ASSUME ~d.error, NEW i \in Nat, r = Resize(i) PROVE Sound(DecodeOne(d, r), max)
  <2>1. IntegerOf(r) = i /\ r.rep = "resize"
    BY <1>3, Representations
  <2>2. DecodeOne(d, r) = [d EXCEPT !.error = i > d.ctx.max]
    BY <1>3, <2>1 DEF DecodeOne
  <2> DEFINE b == i > d.ctx.max
  <2> HIDE DEF b
  <2>3. [d EXCEPT !.error = b] = [ctx |-> d.ctx, headers |-> d.headers, error |-> b]
    BY ErrorNext DEF Sound
  <2> QED
    BY <2>2, <2>3 DEF Sound, b
<1>4. ASSUME ~d.error, NEW i \in Nat, NEW h \in Headers, r = Literal(i, h, TRUE)
      PROVE  Sound(DecodeOne(d, r), max)
  <2> DEFINE l == hpack_lookup(d.ctx, i)
             g == [name |-> IF i = 0 THEN h.name ELSE l.entry.name, value |-> h.value]
             c == hpack_add_entry(l.ctx, Entry(g))
             new == Append(d.headers, g)
             lost == i # 0 /\ l.entry = None
  <2>1. IntegerOf(r) = i /\ r.rep = "literal" /\ r.h = h /\ r.add = TRUE
    <3>1. \A add \in BOOLEAN :
            /\ IntegerOf(Literal(i, h, add)) = i /\ Literal(i, h, add).rep = "literal"
            /\ Literal(i, h, add).h = h /\ Literal(i, h, add).add = add
      BY Representations
    <3> QED
      BY <1>4, <3>1
  <2>2. Context(l.ctx) /\ l.ctx.max = max /\ (l.entry # None => l.entry.name \in Names)
    BY LookupIsSound DEF Sound
  <2>3. DecodeOne(d, r) = IF lost THEN [d EXCEPT !.error = TRUE]
                          ELSE [d EXCEPT !.ctx = c, !.headers = new]
    <3> HIDE DEF l
    <3> QED
      BY <1>4, <2>1 DEF DecodeOne, l
  <2>4. ASSUME ~lost PROVE Context(c) /\ c.max = max
    <3>1. h \in [name : Names, value : Values \ {None}]
      BY HpackAssumption DEF AnyHeader
    <3>2. h.name \in Names /\ h.value \in Values \ {None}
      BY <3>1
    <3>3. g \in AnyHeader
      <4> DEFINE n == IF i = 0 THEN h.name ELSE l.entry.name
      <4>1. n \in Names
        BY <2>2, <2>4, <3>2
      <4> HIDE DEF n
      <4>2. [name |-> n, value |-> h.value] \in AnyHeader
        BY <3>2, <4>1 DEF AnyHeader
      <4> QED
        BY <4>2 DEF n
    <3> HIDE DEF g, l
    <3>4. Row(Entry(g)) \in Rows
      <4>1. Entry(g) \in Rows
        BY <3>3 DEF Rows
      <4> QED
        BY <4>1, RowOfRow
    <3> DEFINE e == Entry(g)
               x == l.ctx
    <3> HIDE DEF e, x
    <3>5. PICK k \in 0 .. Len(x.table) : Added(x, e, k, hpack_add_entry(x, e))
      BY <2>2, <3>4, AddsEntry DEF e, x
    <3>6. Context(hpack_add_entry(x, e)) /\ hpack_add_entry(x, e).max = x.max
      BY <3>5 DEF Added
    <3> QED
      BY <2>2, <3>6 DEF e, x
  <2> HIDE DEF l, g, c, new, lost
  <2>5. [d EXCEPT !.error = TRUE] = [ctx |-> d.ctx, headers |-> d.headers, error |-> TRUE]
    BY ErrorNext DEF Sound
  <2>6. [d EXCEPT !.ctx = c, !.headers = new] = [ctx |-> c, headers |-> new, error |-> d.error]
    BY DecoderNext DEF Sound
  <2> QED
    BY <2>3, <2>4, <2>5, <2>6 DEF Sound
<1> QED
  BY <1>1, <1>2, <1>3, <1>4

LEMMA BlocksKeepTables ==
  ASSUME NEW ctx, Context(ctx), NEW peer, NEW max, NEW block, MaySendAll(peer, max, block)
  PROVE  LET c == hpack_decode(ctx, block).ctx IN Context(c) /\ c.max = ctx.max
<1> DEFINE n == Len(block)
           d == Decoded(ctx, block)
           p == Meant(peer, block)
           holds == {i \in 0 .. n : Sound(d[i], ctx.max)}
<1>1. n \in Nat
  BY DEF MaySendAll
<1>2. /\ hpack_decode(ctx, block) = d[n]
      /\ d[0] = [ctx |-> ctx, headers |-> <<>>, error |-> FALSE]
      /\ \A i \in 1 .. n : d[i] = DecodeOne(d[i - 1], block[i])
  BY <1>1, DecodedIs
<1>3. \A i \in 1 .. n : MaySend(p[i - 1].table, max, block[i])
  BY DEF MaySendAll
<1> HIDE DEF n, d, p
<1>4. 0 \in holds
  <2>1. d[0].ctx = ctx /\ d[0] = [ctx |-> d[0].ctx, headers |-> d[0].headers, error |-> d[0].error]
    BY <1>2
  <2> QED
    BY <1>1, <2>1 DEF Sound
<1>5. ASSUME NEW i \in 1 .. n, i - 1 \in holds PROVE i \in holds
  <2>1. Sound(d[i - 1], ctx.max) /\ d[i] = DecodeOne(d[i - 1], block[i])
    BY <1>2, <1>5
  <2>2. Sound(DecodeOne(d[i - 1], block[i]), ctx.max)
    BY <1>3, <2>1, DecodesSoundly DEF MaySend
  <2>3. i \in 0 .. n
    BY <1>1
  <2> QED
    BY <2>1, <2>2, <2>3
<1>6. n \in holds
  <2>1. 0 .. n \subseteq holds
    <3> HIDE DEF holds
    <3> QED
      BY <1>1, <1>4, <1>5, Inductive
  <2> HIDE DEF holds
  <2> QED
    BY <1>1, <2>1
<1>7. Sound(d[n], ctx.max)
  BY <1>6
<1> QED
  BY <1>2, <1>7 DEF Sound

-----------------------------------------------------------------------------
(* The encoder's side: a peer's table has the same rows, and its limit is  *)
(* the same.                                                               *)
Mirrors(t, ctx) ==
  /\ Table(t) /\ Len(t) = Len(ctx.table)
  /\ \A i \in 1 .. Len(t) : t[i] = Row(ctx.table[i])
Alike(peer, ctx) ==
  /\ Context(ctx) /\ Behind(peer, ctx)
  /\ Mirrors(peer.table, ctx) /\ peer.limit = ctx.max

LEMMA MirrorsWeigh ==
  ASSUME NEW t, NEW ctx, Context(ctx), Mirrors(t, ctx)
  PROVE  /\ \A i \in 0 .. Len(t) : Upto(t)[i] = Upto(ctx.table)[i]
         /\ Weight(t) = ctx.size /\ Weight(t) \in Nat
<1> DEFINE u == ctx.table
<1>1. Table(t) /\ Table(u) /\ Len(t) \in Nat /\ Len(t) = Len(u) /\ ctx.size = Weight(u)
      /\ \A i \in 1 .. Len(t) : t[i] = Row(u[i])
  BY DEF Mirrors, Context, Table
<1>2. \A i \in 1 .. Len(t) : Row(t[i]) = Row(u[i])
  BY <1>1 DEF Row
<1> HIDE DEF u
<1>3. \A i \in 0 .. Len(t) : Upto(t)[i] = Upto(u)[i]
  <2>1. Len(t) <= Len(t) /\ Len(t) <= Len(u)
    BY <1>1
  <2> QED
    BY <1>1, <1>2, <2>1, UptoAlike
<1>4. Weight(t) = Upto(t)[Len(t)] /\ Weight(u) = Upto(u)[Len(u)] /\ Len(t) \in 0 .. Len(t)
  BY <1>1, WeightIs
<1>5. Upto(t)[Len(t)] \in Nat
  BY <1>1, <1>4, FirstOf
<1> QED
  BY <1>1, <1>3, <1>4, <1>5 DEF u

(* Setting the limit evicts nothing on either side if everything fits.     *)
LEMMA ResizeAlike ==
  ASSUME NEW t, NEW ctx, Context(ctx), Mirrors(t, ctx), ctx.size <= ctx.max,
         NEW after, after.table = PeerKeeps(t, ctx.max), after.limit = ctx.max
  PROVE  Alike(after, ctx)
<1>1. Table(t) /\ Len(t) \in Nat /\ ctx.max \in Nat /\ Len(t) = Len(ctx.table)
      /\ t = [i \in 1 .. Len(t) |-> t[i]] /\ \A i \in 1 .. Len(t) : t[i] = Row(ctx.table[i])
  BY DEF Mirrors, Context, Table
<1>2. Weight(t) = ctx.size /\ Weight(t) = Upto(t)[Len(t)] /\ Weight(t) \in Nat
  BY MirrorsWeigh, WeightIs
<1>3. PICK k \in 0 .. Len(t) : PeerKeeps(t, ctx.max) = SubSeq(t, 1, k) /\ Most(t, k, ctx.max)
  <2>1. ctx.max \in Int
    BY <1>1
  <2> QED
    BY <1>1, <2>1, PeerKeepsMost
<1>4. k = Len(t)
  <2>1. Len(t) \in 0 .. Len(t) /\ Upto(t)[Len(t)] <= ctx.max
    BY <1>1, <1>2
  <2>2. Len(t) <= k
    BY <1>3, <2>1 DEF Most
  <2> QED
    BY <1>1, <2>2
<1>5. SubSeq(t, 1, Len(t)) = t
  <2>1. Len(t) \in 0 .. Len(t)
    BY <1>1
  <2>2. SubSeq(t, 1, Len(t)) = [i \in 1 .. Len(t) |-> t[i]]
    BY <1>1, <2>1, FirstOf
  <2> QED
    BY <1>1, <2>2
<1>6. after.table = t
  BY <1>3, <1>4, <1>5
<1>7. Weight(t) <= ctx.max
  BY <1>2
<1>8. Behind(after, ctx)
  BY <1>1, <1>6, <1>7 DEF Behind
<1> QED
  BY <1>6, <1>8 DEF Alike

(* An entry that fits is added to both tables, and evicts the same from    *)
(* each.                                                                   *)
LEMMA AddAlike ==
  ASSUME NEW peer, NEW ctx, Alike(peer, ctx), NEW h \in Headers, EntrySize[h] <= ctx.max,
         NEW e, Row(e) = Entry(h),
         NEW after, after.table = PeerAdds(peer.table, peer.limit, h), after.limit = peer.limit
  PROVE  Alike(after, hpack_add_entry(ctx, e)) /\ hpack_add_entry(ctx, e).max = ctx.max
<1> DEFINE t == peer.table
           u == ctx.table
           c == hpack_add_entry(ctx, e)
           a == PeerAdds(t, peer.limit, h)
           n == EntrySize[h]
<1>1. /\ Context(ctx) /\ Behind(peer, ctx) /\ Table(t) /\ Len(t) = Len(u) /\ Len(t) \in Nat
      /\ \A i \in 1 .. Len(t) : t[i] = Row(u[i])
      /\ peer.limit = ctx.max /\ ctx.max \in Nat /\ peer.limit \in Nat
  BY DEF Alike, Mirrors, Context, Table
<1>2. Row(e) \in Rows /\ n \in Nat \ {0} /\ e.size = n
  <2>1. Row(e) \in Rows
    <3>1. Entry(h) \in Rows
      BY HeaderIs
    <3> QED
      BY <3>1 DEF Row, Entry
  <2>2. Row(e).size = e.size
    BY DEF Row
  <2> QED
    BY <2>1, <2>2, HeaderIs
<1>3. Context(c) /\ Behind(after, c) /\ c.max = ctx.max
  BY <1>1, AddBehind
<1>4. PICK k \in 0 .. Len(u) :
        /\ Most(u, k, ctx.max - n) /\ Len(c.table) = k + 1 /\ c.table[1] = e
        /\ \A i \in 1 .. k : c.table[i + 1] = u[i]
  <2>1. \E k \in 0 .. Len(u) : Added(ctx, e, k, c)
    BY <1>1, <1>2, AddsEntry
  <2> HIDE DEF c, n
  <2> QED
    BY <1>2, <2>1 DEF Added
<1>5. PICK m \in 0 .. Len(t) :
        /\ Most(t, m, ctx.max - n) /\ Len(a) = m + 1 /\ a[1] = Entry(h)
        /\ \A i \in 1 .. m : a[i + 1] = t[i]
  <2>1. /\ Table(a)
        /\ \/ n > peer.limit /\ Len(a) = 0
           \/ \E m \in 0 .. Len(t) :
                /\ n <= peer.limit /\ Most(t, m, peer.limit - n)
                /\ Len(a) = m + 1 /\ a[1] = Entry(h) /\ \A i \in 1 .. m : a[i + 1] = t[i]
    BY <1>1, PeerAddsEntry
  <2> HIDE DEF a, t, n
  <2>2. ~(n > peer.limit)
    BY <1>1, <1>2 DEF n
  <2> QED
    BY <1>1, <2>1, <2>2
<1>6. \A i \in 0 .. Len(t) : Upto(t)[i] = Upto(u)[i]
  BY MirrorsWeigh DEF Alike
<1> HIDE DEF t, u, c, a, n
<1>7. k = m
  <2>1. m \in 0 .. Len(u) /\ k \in 0 .. Len(t)
    BY <1>1
  <2>2. m <= k
    BY <1>1, <1>4, <1>5, <1>6, <2>1 DEF Most
  <2>3. k <= m
    BY <1>1, <1>4, <1>5, <1>6, <2>1 DEF Most
  <2> QED
    BY <2>2, <2>3
<1>8. after.table = a /\ after.limit = c.max
  BY <1>1, <1>3 DEF a, t
<1>9. Mirrors(a, c)
  <2>1. Table(a)
    BY <1>3, <1>8 DEF Behind
  <2>2. ASSUME NEW i \in 1 .. Len(a) PROVE a[i] = Row(c.table[i])
    <3>1. CASE i = 1
      BY <1>4, <1>5, <3>1
    <3>2. CASE i # 1
      <4>1. i - 1 \in 1 .. m /\ (i - 1) + 1 = i /\ i - 1 \in 1 .. Len(t)
        BY <1>1, <1>5, <3>2
      <4>2. a[i] = t[i - 1] /\ c.table[i] = u[i - 1]
        BY <1>4, <1>5, <1>7, <4>1
      <4> QED
        BY <1>1, <4>1, <4>2
    <3> QED
      BY <3>1, <3>2
  <2> QED
    BY <1>4, <1>5, <1>7, <2>1, <2>2 DEF Mirrors
<1> QED
  BY <1>3, <1>8, <1>9 DEF Alike, c

-----------------------------------------------------------------------------
(* The lists of entries by name.                                           *)
IsList(l) == l \in Seq(Range(l))
Leaves(e, gone) == e.node /\ \E i \in DOMAIN gone : gone[i].push = e.push
Staying(e, gone) == IF Leaves(e, gone) THEN <<>> ELSE <<e>>
Without(entries, gone) ==
  CHOOSE f : f = [i \in 0 .. Len(entries) |->
                   IF i = 0 THEN <<>>
                   ELSE f[i - 1] \o IF Leaves(entries[i], gone) THEN <<>> ELSE <<entries[i]>>]

LEMMA WithoutExists ==
  ASSUME NEW l, IsList(l), NEW gone
  PROVE  /\ Without(l, gone) \in [0 .. Len(l) -> Seq(Range(l))] /\ Without(l, gone)[0] = <<>>
         /\ \A i \in 1 .. Len(l) :
              Without(l, gone)[i] = Without(l, gone)[i - 1] \o Staying(l[i], gone)
<1> DEFINE X == Seq(Range(l))
           n == Len(l)
           Step == [q \in X \X (1 .. n) |-> q[1] \o Staying(l[q[2]], gone)]
           Good(f) == f = [i \in 0 .. n |-> IF i = 0 THEN <<>>
                                            ELSE f[i - 1] \o IF Leaves(l[i], gone)
                                                               THEN <<>> ELSE <<l[i]>>]
<1>1. n \in Nat /\ \A i \in 1 .. n : l[i] \in Range(l)
  <2>1. l \in Seq(Range(l))
    BY DEF IsList
  <2> QED
    BY <2>1, LenProperties, ElementOfSeq
<1>2. <<>> \in X
  OBVIOUS
<1>3. \A i \in 1 .. n : Staying(l[i], gone) \in X
  BY <1>1 DEF Staying
<1>4. \A q \in X, i \in 1 .. n : q \o Staying(l[i], gone) \in X
  <2> HIDE DEF n
  <2>1. TAKE q \in X, i \in 1 .. n
  <2>2. Staying(l[i], gone) \in X
    BY <1>3
  <2> DEFINE a == Staying(l[i], gone)
  <2> HIDE DEF a
  <2>3. q \o a \in X
    <3>1. a \in X
      BY <2>2 DEF a
    <3> QED
      BY <3>1, ConcatProperties
  <2> QED
    BY <2>3 DEF a
<1> HIDE DEF X, n
<1>5. Step \in [X \X (1 .. n) -> X]
  BY <1>4
<1>6. PICK f \in [0 .. n -> X] : Iteration(f, <<>>, Step, n)
  <2> HIDE DEF Step
  <2> QED
    BY <1>1, <1>2, <1>5, Iterates
<1>7. f[0] = <<>> /\ \A i \in 1 .. n : f[i] = f[i - 1] \o Staying(l[i], gone)
  <2>1. f[0] = <<>> /\ \A i \in 1 .. n : f[i] = Step[<<f[i - 1], i>>]
    BY <1>6 DEF Iteration
  <2>2. \A i \in 1 .. n : f[i - 1] \in X
    BY <1>1
  <2>3. \A x \in X, i \in 1 .. n : Step[<<x, i>>] = x \o Staying(l[i], gone)
    OBVIOUS
  <2> HIDE DEF Step
  <2> QED
    BY <2>1, <2>2, <2>3
<1>8. Good(f)
  <2> DEFINE W(i) == IF i = 0 THEN <<>>
                     ELSE f[i - 1] \o IF Leaves(l[i], gone) THEN <<>> ELSE <<l[i]>>
  <2>1. \A i \in 0 .. n : f[i] = W(i)
    <3>1. TAKE i \in 0 .. n
    <3>2. CASE i = 0
      BY <1>7, <3>2
    <3>3. CASE i # 0
      <4>1. i \in 1 .. n
        BY <1>1, <3>3
      <4> QED
        BY <1>7, <3>3, <4>1 DEF Staying
    <3> QED
      BY <3>2, <3>3
  <2>2. f = [i \in 0 .. n |-> f[i]]
    OBVIOUS
  <2> HIDE DEF W
  <2>3. f = [i \in 0 .. n |-> W(i)]
    BY <2>1, <2>2
  <2> QED
    BY <2>3 DEF W
<1> DEFINE w == Without(l, gone)
<1>9. Good(w)
  <2>1. w = CHOOSE g : Good(g)
    BY DEF Without, n
  <2>2. \E g : Good(g)
    BY <1>8
  <2> HIDE DEF Good, w
  <2> QED
    BY <2>1, <2>2
<1> HIDE DEF w
<1>10. w[0] = <<>> /\ DOMAIN w = 0 .. n /\ \A i \in 1 .. n : w[i] = w[i - 1] \o Staying(l[i], gone)
  <2>1. w = [i \in 0 .. n |-> IF i = 0 THEN <<>>
                              ELSE w[i - 1] \o IF Leaves(l[i], gone) THEN <<>> ELSE <<l[i]>>]
    BY <1>9
  <2> DEFINE W(i) == IF i = 0 THEN <<>>
                     ELSE w[i - 1] \o IF Leaves(l[i], gone) THEN <<>> ELSE <<l[i]>>
  <2>2. w = [i \in 0 .. n |-> W(i)]
    BY <2>1
  <2> HIDE DEF W
  <2>3. DOMAIN w = 0 .. n /\ \A i \in 0 .. n : w[i] = W(i)
    BY <2>2
  <2>4. \A i \in 1 .. n : i \in 0 .. n /\ i # 0
    BY <1>1
  <2>5. 0 \in 0 .. n
    BY <1>1
  <2> QED
    BY <2>3, <2>4, <2>5 DEF W, Staying
<1>11. \A i \in 0 .. n : w[i] \in X
  <2> DEFINE holds == {k \in 0 .. n : w[k] \in X}
  <2>1. 0 \in holds
    BY <1>1, <1>2, <1>10
  <2>2. ASSUME NEW k \in 1 .. n, k - 1 \in holds PROVE k \in holds
    <3>1. w[k - 1] \in X
      BY <2>2
    <3>2. w[k - 1] \o Staying(l[k], gone) \in X
      BY <1>4, <3>1
    <3>3. w[k] = w[k - 1] \o Staying(l[k], gone)
      BY <1>10
    <3>4. w[k] \in X
      BY <3>2, <3>3
    <3>5. k \in 0 .. n
      OBVIOUS
    <3> QED
      BY <3>4, <3>5
  <2>3. 0 .. n \subseteq holds
    <3> HIDE DEF holds
    <3> QED
      BY <1>1, <2>1, <2>2, Inductive
  <2> QED
    BY <2>3
<1>12. w \in [0 .. n -> X]
  <2>1. w = [i \in 0 .. n |-> w[i]]
    BY <1>9, <1>10
  <2> QED
    BY <1>11, <2>1
<1> QED
  BY <1>10, <1>12 DEF w, n, X

(* Of a list only nodes of entries that are gone leave, and only those that*)
(* these remember.                                                         *)
LEMMA ListsShrink ==
  ASSUME NEW l, IsList(l), NEW gone
  PROVE  /\ IsList(WithoutNodes(l, gone)) /\ Range(WithoutNodes(l, gone)) \subseteq Range(l)
         /\ \A e \in Range(l) : ~e.node => e \in Range(WithoutNodes(l, gone))
<1> DEFINE w == Without(l, gone)
           n == Len(l)
           X == Seq(Range(l))
<1>1. l \in X /\ n \in Nat /\ DOMAIN l = 1 .. n
  BY LenProperties DEF IsList
<1>2. w[0] = <<>> /\ w \in [0 .. n -> X]
      /\ \A i \in 1 .. n : w[i] = w[i - 1] \o Staying(l[i], gone)
  BY WithoutExists
<1>3. WithoutNodes(l, gone) = w[n]
  BY DEF WithoutNodes, Without, Leaves
<1>4. \A i \in 1 .. n : l[i] \in Range(l)
  BY <1>1 DEF Range
<1> HIDE DEF w, n
<1> DEFINE holds == {k \in 0 .. n : \A i \in 1 .. k : ~l[i].node => l[i] \in Range(w[k])}
<1>5. 0 \in holds
  BY <1>1
<1>6. ASSUME NEW k \in 1 .. n, k - 1 \in holds PROVE k \in holds
  <2> DEFINE a == w[k - 1]
             b == Staying(l[k], gone)
  <2>1. w[k] = a \o b
    BY <1>2
  <2>2. a \in X
    BY <1>1, <1>2
  <2>3. b \in X /\ (~l[k].node => b = <<l[k]>>)
    BY <1>4 DEF Staying, Leaves
  <2>4. \A i \in 1 .. k - 1 : ~l[i].node => l[i] \in Range(a)
    BY <1>6
  <2> HIDE DEF a, b, X
  <2>5. Range(w[k]) = Range(a) \union Range(b)
    <3>1. a \o b \in X /\ Len(a \o b) = Len(a) + Len(b) /\ Len(a) \in Nat /\ Len(b) \in Nat
          /\ DOMAIN a = 1 .. Len(a) /\ DOMAIN b = 1 .. Len(b)
          /\ DOMAIN (a \o b) = 1 .. Len(a) + Len(b)
          /\ \A i \in 1 .. Len(a) + Len(b) :
               (a \o b)[i] = IF i <= Len(a) THEN a[i] ELSE b[i - Len(a)]
      BY <2>2, <2>3, ConcatProperties, LenProperties DEF X
    <3>2. PICK c : c = a \o b
      OBVIOUS
    <3>3. \A i \in DOMAIN c : c[i] \in Range(a) \union Range(b)
      <4>1. TAKE i \in DOMAIN c
      <4>2. CASE i <= Len(a)
        BY <3>1, <3>2, <4>2 DEF Range
      <4>3. CASE ~(i <= Len(a))
        <5>1. i - Len(a) \in 1 .. Len(b)
          BY <3>1, <3>2, <4>3
        <5> QED
          BY <3>1, <3>2, <4>3, <5>1 DEF Range
      <4> QED
        BY <4>2, <4>3
    <3>4. \A i \in 1 .. Len(a) : a[i] \in Range(c)
      <4>1. TAKE i \in 1 .. Len(a)
      <4>2. i \in DOMAIN c /\ c[i] = a[i]
        BY <3>1, <3>2
      <4> QED
        BY <4>2 DEF Range
    <3>5. \A i \in 1 .. Len(b) : b[i] \in Range(c)
      <4>1. TAKE i \in 1 .. Len(b)
      <4>2. Len(a) + i \in DOMAIN c /\ ~(Len(a) + i <= Len(a)) /\ (Len(a) + i) - Len(a) = i
        BY <3>1, <3>2
      <4>3. c[Len(a) + i] = b[i]
        BY <3>1, <3>2, <4>2
      <4> QED
        BY <4>2, <4>3 DEF Range
    <3>6. \A x \in Range(c) : x \in Range(a) \union Range(b)
      BY <3>3 DEF Range
    <3>7. \A x \in Range(a) \union Range(b) : x \in Range(c)
      <4>1. \A x \in Range(a) : \E i \in 1 .. Len(a) : x = a[i]
        BY <3>1 DEF Range
      <4>2. \A x \in Range(b) : \E i \in 1 .. Len(b) : x = b[i]
        BY <3>1 DEF Range
      <4> QED
        BY <3>4, <3>5, <4>1, <4>2
    <3> QED
      BY <2>1, <3>2, <3>6, <3>7
  <2>6. ~l[k].node => l[k] \in Range(b)
    <3>1. \A x : x \in Range(<<x>>)
      BY DEF Range
    <3> QED
      BY <2>3, <3>1
  <2>7. ASSUME NEW i \in 1 .. k, ~l[i].node PROVE l[i] \in Range(w[k])
    <3>1. CASE i = k
      BY <2>5, <2>6, <2>7, <3>1
    <3>2. CASE i # k
      <4>1. i \in 1 .. k - 1
        BY <3>2
      <4> QED
        BY <2>4, <2>5, <2>7, <4>1
    <3> QED
      BY <3>1, <3>2
  <2>8. k \in 0 .. n
    OBVIOUS
  <2> QED
    BY <2>7, <2>8
<1>7. n \in holds
  <2>1. 0 .. n \subseteq holds
    <3> HIDE DEF holds
    <3> QED
      BY <1>1, <1>5, <1>6, Inductive
  <2>2. n \in 0 .. n
    BY <1>1
  <2> QED
    BY <2>1, <2>2
<1>8. \A e \in Range(l) : \E i \in 1 .. n : e = l[i]
  BY <1>1 DEF Range
<1>9. \A e \in Range(l) : ~e.node => e \in Range(w[n])
  BY <1>7, <1>8
<1>10. w[n] \in X
  BY <1>1, <1>2
<1>11. Range(w[n]) \subseteq Range(l)
  <2> DEFINE v == w[n]
  <2>1. \A i \in 1 .. Len(v) : v[i] \in Range(l)
    BY <1>10, ElementOfSeq
  <2>2. DOMAIN v = 1 .. Len(v)
    BY <1>10, LenProperties
  <2> HIDE DEF v
  <2> QED
    BY <2>1, <2>2 DEF Range, v
<1>12. IsList(w[n])
  <2> DEFINE v == w[n]
  <2>1. v \in X
    BY <1>10
  <2> HIDE DEF v
  <2>2. v \in [1 .. Len(v) -> Range(l)] /\ Len(v) \in Nat
    BY <2>1, LenProperties
  <2>3. v \in [1 .. Len(v) -> Range(v)]
    BY <2>2 DEF Range
  <2> QED
    BY <2>2, <2>3, SeqDef DEF IsList, v
<1> QED
  BY <1>3, <1>9, <1>11, <1>12

-----------------------------------------------------------------------------
(* Entries are numbered from the oldest one, those in the table without a  *)
(* gap.  What is in a list by name says the value of its entry, while that *)
(* is in the table; beside it is a node that never leaves.                 *)
Listed(ctx, name, e) ==
  /\ e.push \in Nat /\ e.push < ctx.pushed
  /\ \E m \in Range(ctx.lookup[name]) : ~m.node /\ m.push = e.push /\ m.owner = e.owner
  /\ \A k \in 1 .. Len(ctx.table) :
       ctx.table[k].push = e.push => ctx.table[k].name = name /\ ctx.table[k].value = e.value
Lists(ctx) ==
  /\ ctx.pushed \in Nat /\ \A k \in 1 .. Len(ctx.table) : ctx.table[k].push = ctx.pushed - k
  /\ DOMAIN ctx.lookup = Names
  /\ \A n \in Names : /\ IsList(ctx.lookup[n])
                      /\ \A e \in Range(ctx.lookup[n]) : Listed(ctx, n, e)

(* A list with two more.                                                   *)
LEMMA ListGrows ==
  ASSUME NEW l, IsList(l), NEW a, NEW b
  PROVE  IsList(l \o <<a, b>>) /\ Range(l \o <<a, b>>) = Range(l) \union {a, b}
<1> DEFINE S == Range(l) \union {a, b}
           d == <<a, b>>
           c == l \o d
<1>1. l \in Seq(S) /\ d \in Seq(S)
  <2>1. Range(l) \subseteq S
    OBVIOUS
  <2>2. l \in Seq(S)
    BY <2>1, SeqMonotonic DEF IsList
  <2>3. a \in S /\ b \in S
    OBVIOUS
  <2> HIDE DEF S
  <2> QED
    BY <2>2, <2>3
<1>2. Len(d) = 2 /\ d[1] = a /\ d[2] = b
  OBVIOUS
<1> HIDE DEF d
<1>3. c \in Seq(S) /\ Len(c) = Len(l) + 2 /\ Len(l) \in Nat
      /\ \A i \in 1 .. Len(l) + 2 : c[i] = IF i <= Len(l) THEN l[i] ELSE d[i - Len(l)]
  <2> HIDE DEF S
  <2>1. l \in Seq(S) /\ d \in Seq(S) /\ Len(d) = 2 /\ Len(l) \in Nat
    BY <1>1, <1>2
  <2>2. c \in Seq(S) /\ Len(c) = Len(l) + Len(d)
        /\ \A i \in 1 .. Len(l) + Len(d) : c[i] = IF i <= Len(l) THEN l[i] ELSE d[i - Len(l)]
    BY <2>1, ConcatProperties
  <2> HIDE DEF c
  <2> QED
    BY <2>1, <2>2
<1>4. DOMAIN c = 1 .. Len(l) + 2 /\ DOMAIN l = 1 .. Len(l)
  BY <1>1, <1>3, LenProperties
<1> HIDE DEF c
<1>5. S \subseteq Range(c)
  <2>1. ASSUME NEW x \in Range(l) PROVE x \in Range(c)
    <3>1. PICK i \in 1 .. Len(l) : x = l[i]
      BY <1>4 DEF Range
    <3>2. i \in DOMAIN c /\ c[i] = x
      BY <1>3, <1>4, <3>1
    <3> QED
      BY <3>2 DEF Range
  <2>2. a \in Range(c)
    <3>1. Len(l) + 1 \in DOMAIN c /\ c[Len(l) + 1] = a
      BY <1>2, <1>3, <1>4
    <3> QED
      BY <3>1 DEF Range
  <2>3. b \in Range(c)
    <3>1. Len(l) + 2 \in DOMAIN c /\ c[Len(l) + 2] = b
      BY <1>2, <1>3, <1>4
    <3> QED
      BY <3>1 DEF Range
  <2> QED
    BY <2>1, <2>2, <2>3
<1>6. Range(c) \subseteq S
  <2>1. \A i \in 1 .. Len(c) : c[i] \in S
    <3> HIDE DEF S
    <3> QED
      BY <1>3, ElementOfSeq
  <2> QED
    BY <1>3, <1>4, <2>1 DEF Range
<1>7. Range(c) = S
  BY <1>5, <1>6
<1>8. c \in Seq(Range(c))
  BY <1>3, <1>7
<1> QED
  BY <1>7, <1>8 DEF IsList, c, d

(* The encoder's context with a new entry.                                 *)
LEMMA NewEntryIs ==
  ASSUME NEW ctx, Context(ctx), Lists(ctx), NEW h \in Headers, NEW owner
  PROVE  LET e == ListEntry(h, ctx.pushed, owner, TRUE)
             c == hpack_add_entry(ctx, e)
             m == NewEntry(ctx, h, owner)
             l == c.lookup[h.name] \o <<ListEntry(h, ctx.pushed, owner, FALSE), e>>
         IN /\ Row(e) = Entry(h) /\ Context(c)
            /\ m = [table |-> c.table, size |-> c.size, max |-> c.max,
                    pushed |-> ctx.pushed + 1, lookup |-> [c.lookup EXCEPT ![h.name] = l]]
            /\ Context(m)
<1> DEFINE e == ListEntry(h, ctx.pushed, owner, TRUE)
           o == ListEntry(h, ctx.pushed, owner, FALSE)
           c == hpack_add_entry(ctx, e)
           m == NewEntry(ctx, h, owner)
           l == c.lookup[h.name] \o <<o, e>>
<1>1. Row(e) = Entry(h)
  BY DEF Row, Entry, ListEntry
<1>2. Row(e) \in Rows
  BY <1>1, HeaderIs
<1> HIDE DEF e, o
<1>3. Context(c) /\ c.pushed = ctx.pushed
  <2>1. PICK k \in 0 .. Len(ctx.table) : Added(ctx, e, k, c)
    BY <1>2, AddsEntry
  <2> HIDE DEF c
  <2> QED
    BY <2>1 DEF Added
<1>4. m = [c EXCEPT !.pushed = c.pushed + 1, !.lookup = [c.lookup EXCEPT ![h.name] = l]]
  <2>1. m = [c EXCEPT !.pushed = @ + 1, !.lookup[h.name] = @ \o <<o, e>>]
    BY DEF NewEntry, e, o
  <2> HIDE DEF c, m
  <2> QED
    BY <2>1
<1> HIDE DEF c, m, l
<1>5. m = [table |-> c.table, size |-> c.size, max |-> c.max,
           pushed |-> ctx.pushed + 1, lookup |-> [c.lookup EXCEPT ![h.name] = l]]
  <2>1. IsContext(c)
    BY <1>3 DEF Context
  <2> DEFINE p == ctx.pushed + 1
             q == [c.lookup EXCEPT ![h.name] = l]
  <2>2. m = [c EXCEPT !.pushed = p, !.lookup = q]
    BY <1>3, <1>4
  <2> HIDE DEF p, q
  <2>3. m = [table |-> c.table, size |-> c.size, max |-> c.max, pushed |-> p, lookup |-> q]
    BY <2>1, <2>2 DEF IsContext
  <2> QED
    BY <2>3 DEF p, q
<1>6. Context(m)
  <2> DEFINE p == ctx.pushed + 1
             q == [c.lookup EXCEPT ![h.name] = l]
  <2> HIDE DEF p, q
  <2>1. m = [table |-> c.table, size |-> c.size, max |-> c.max, pushed |-> p, lookup |-> q]
    BY <1>5 DEF p, q
  <2>2. m.table = c.table /\ m.size = c.size /\ m.max = c.max /\ m.pushed = p /\ m.lookup = q
    BY <2>1
  <2>3. IsContext(m)
    BY <2>1, <2>2 DEF IsContext
  <2> QED
    BY <1>3, <2>2, <2>3 DEF Context
<1> QED
  BY <1>1, <1>3, <1>5, <1>6 DEF e, o, c, m, l

(* It is numbered and listed like the others, none of which is changed.    *)
LEMMA NewEntryLists ==
  ASSUME NEW ctx, Context(ctx), Lists(ctx), NEW h \in Headers, NEW owner
  PROVE  LET m == NewEntry(ctx, h, owner) IN
         /\ Lists(m) /\ m.max = ctx.max
         /\ \A k \in 1 .. Len(m.table) :
              m.table[k].push < ctx.pushed => m.table[k] \in Range(ctx.table)
         /\ \A n \in Names : \A e \in Range(ctx.lookup[n]) :
              \E o \in Range(m.lookup[n]) : o.push = e.push /\ o.owner = e.owner
<1> DEFINE e == ListEntry(h, ctx.pushed, owner, TRUE)
           o == ListEntry(h, ctx.pushed, owner, FALSE)
           c == hpack_add_entry(ctx, e)
           m == NewEntry(ctx, h, owner)
           l == c.lookup[h.name] \o <<o, e>>
<1>1. /\ e.push = ctx.pushed /\ e.owner = owner /\ e.name = h.name /\ e.value = h.value
      /\ o.push = ctx.pushed /\ o.owner = owner /\ o.value = h.value /\ ~o.node
  BY DEF ListEntry
<1>2. /\ Row(e) = Entry(h) /\ Context(c) /\ Context(m)
      /\ m = [table |-> c.table, size |-> c.size, max |-> c.max,
              pushed |-> ctx.pushed + 1, lookup |-> [c.lookup EXCEPT ![h.name] = l]]
  BY NewEntryIs
<1>3. Row(e) \in Rows /\ h.name \in Names
  BY <1>2, HeaderIs DEF Rows
<1> HIDE DEF e, o
<1>4. PICK k \in 0 .. Len(ctx.table) : Added(ctx, e, k, c)
  BY <1>3, AddsEntry
<1> DEFINE gone == SubSeq(ctx.table, k + 1, Len(ctx.table))
<1> HIDE DEF c, gone
<1>5. /\ c.max = ctx.max /\ Len(c.table) = k + 1 /\ c.table[1] = e
      /\ \A i \in 1 .. k : c.table[i + 1] = ctx.table[i]
      /\ c.lookup = [n \in Names |-> WithoutNodes(ctx.lookup[n], gone)]
  BY <1>4 DEF Added, gone
<1> HIDE DEF m, l
<1>6. /\ m.table = c.table /\ m.max = ctx.max /\ m.pushed = ctx.pushed + 1
      /\ m.lookup = [c.lookup EXCEPT ![h.name] = l]
  BY <1>2, <1>5
<1>7. /\ ctx.pushed \in Nat /\ Len(ctx.table) \in Nat /\ k \in 0 .. Len(ctx.table)
      /\ \A i \in 1 .. Len(ctx.table) : ctx.table[i].push = ctx.pushed - i
      /\ \A n \in Names : /\ IsList(ctx.lookup[n])
                          /\ \A x \in Range(ctx.lookup[n]) : Listed(ctx, n, x)
  BY DEF Lists, Context, Table
<1>8. ctx.table = [i \in 1 .. Len(ctx.table) |-> ctx.table[i]]
  BY DEF Context, Table
<1>9. DOMAIN m.lookup = Names
  BY <1>5, <1>6
<1>10. ASSUME NEW n \in Names
       PROVE  LET r == WithoutNodes(ctx.lookup[n], gone) IN
              /\ IsList(m.lookup[n]) /\ IsList(r)
              /\ Range(m.lookup[n]) = Range(r) \union IF n = h.name THEN {o, e} ELSE {}
              /\ Range(r) \subseteq Range(ctx.lookup[n])
              /\ \A x \in Range(ctx.lookup[n]) : ~x.node => x \in Range(r)
  <2> DEFINE r == WithoutNodes(ctx.lookup[n], gone)
  <2>1. /\ IsList(r) /\ Range(r) \subseteq Range(ctx.lookup[n])
        /\ \A x \in Range(ctx.lookup[n]) : ~x.node => x \in Range(r)
    BY <1>7, ListsShrink
  <2>2. c.lookup[n] = r
    BY <1>5
  <2> HIDE DEF r
  <2>3. CASE n = h.name
    <3>1. m.lookup[n] = r \o <<o, e>>
      BY <1>3, <1>5, <1>6, <2>2, <2>3 DEF l
    <3>2. IsList(r \o <<o, e>>) /\ Range(r \o <<o, e>>) = Range(r) \union {o, e}
      BY <2>1, ListGrows
    <3> QED
      BY <2>1, <2>3, <3>1, <3>2 DEF r
  <2>4. CASE n # h.name
    <3>1. m.lookup[n] = r
      BY <1>5, <1>6, <2>2, <2>4
    <3> QED
      BY <2>1, <2>4, <3>1 DEF r
  <2> QED
    BY <2>3, <2>4
<1>11. \A i \in 1 .. Len(m.table) : m.table[i].push = m.pushed - i
  <2>1. TAKE i \in 1 .. Len(m.table)
  <2>2. CASE i = 1
    <3>1. m.table[i].push = ctx.pushed
      BY <1>1, <1>5, <1>6, <2>2
    <3> QED
      BY <1>6, <1>7, <2>2, <3>1
  <2>3. CASE i # 1
    <3>1. i - 1 \in 1 .. k /\ i - 1 \in 1 .. Len(ctx.table) /\ (i - 1) + 1 = i
      BY <1>5, <1>6, <1>7, <2>3
    <3>2. m.table[i] = ctx.table[i - 1]
      BY <1>5, <1>6, <3>1
    <3>3. m.table[i].push = ctx.pushed - (i - 1)
      BY <1>7, <3>1, <3>2
    <3> QED
      BY <1>6, <1>7, <3>3
  <2> QED
    BY <2>2, <2>3
<1>12. ASSUME NEW i \in 1 .. Len(m.table), m.table[i].push < ctx.pushed
       PROVE  \E j \in 1 .. Len(ctx.table) : m.table[i] = ctx.table[j]
  <2>1. i # 1
    BY <1>1, <1>5, <1>6, <1>7, <1>12
  <2>2. i - 1 \in 1 .. k /\ i - 1 \in 1 .. Len(ctx.table) /\ (i - 1) + 1 = i
    BY <1>5, <1>6, <1>7, <2>1
  <2>3. m.table[i] = ctx.table[i - 1]
    BY <1>5, <1>6, <2>2
  <2> QED
    BY <2>2, <2>3
<1>13. ASSUME NEW n \in Names, NEW x \in Range(m.lookup[n]) PROVE Listed(m, n, x)
  <2>1. CASE x \in Range(ctx.lookup[n])
    <3>1. Listed(ctx, n, x)
      BY <1>7, <2>1
    <3>2. x.push \in Nat /\ x.push < ctx.pushed /\ x.push < m.pushed
      BY <1>6, <1>7, <3>1 DEF Listed
    <3>3. \E y \in Range(m.lookup[n]) : ~y.node /\ y.push = x.push /\ y.owner = x.owner
      <4>1. PICK y \in Range(ctx.lookup[n]) : ~y.node /\ y.push = x.push /\ y.owner = x.owner
        BY <3>1 DEF Listed
      <4>2. y \in Range(m.lookup[n])
        BY <1>10, <4>1
      <4> QED
        BY <4>1, <4>2
    <3>4. ASSUME NEW i \in 1 .. Len(m.table), m.table[i].push = x.push
          PROVE  m.table[i].name = n /\ m.table[i].value = x.value
      <4>1. PICK j \in 1 .. Len(ctx.table) : m.table[i] = ctx.table[j]
        BY <1>12, <3>2, <3>4
      <4> QED
        BY <3>1, <3>4, <4>1 DEF Listed
    <3> QED
      BY <3>2, <3>3, <3>4 DEF Listed
  <2>2. CASE x \notin Range(ctx.lookup[n])
    <3>1. n = h.name /\ x \in {o, e} /\ o \in Range(m.lookup[n])
      BY <1>10, <2>2
    <3>2. x.push = ctx.pushed /\ x.owner = owner /\ x.value = h.value
      BY <1>1, <3>1
    <3>3. x.push \in Nat /\ x.push < m.pushed
      BY <1>6, <1>7, <3>2
    <3>4. ASSUME NEW i \in 1 .. Len(m.table), m.table[i].push = x.push
          PROVE  m.table[i].name = n /\ m.table[i].value = x.value
      <4>1. i = 1
        <5>1. ctx.pushed = (ctx.pushed + 1) - i
          BY <1>6, <1>11, <3>2, <3>4
        <5>2. i \in Int
          BY <1>5, <1>6, <1>7
        <5> QED
          BY <1>7, <5>1, <5>2
      <4> QED
        BY <1>1, <1>5, <1>6, <3>1, <3>2, <4>1
    <3>5. ~o.node /\ o.push = x.push /\ o.owner = x.owner
      BY <1>1, <3>2
    <3> QED
      BY <3>1, <3>3, <3>4, <3>5 DEF Listed
  <2> QED
    BY <2>1, <2>2
<1>14. Lists(m)
  <2>1. m.pushed \in Nat
    BY <1>6, <1>7
  <2> QED
    BY <1>9, <1>10, <1>11, <1>13, <2>1 DEF Lists
<1>15. ASSUME NEW n \in Names, NEW x \in Range(ctx.lookup[n])
       PROVE  \E y \in Range(m.lookup[n]) : y.push = x.push /\ y.owner = x.owner
  <2>1. PICK y \in Range(ctx.lookup[n]) : ~y.node /\ y.push = x.push /\ y.owner = x.owner
    BY <1>7 DEF Listed
  <2>2. y \in Range(m.lookup[n])
    BY <1>10, <2>1
  <2> QED
    BY <2>1, <2>2
<1>16. \A i \in 1 .. Len(ctx.table) : ctx.table[i] \in Range(ctx.table)
  BY <1>8 DEF Range
<1> QED
  BY <1>6, <1>12, <1>14, <1>15, <1>16 DEF m

(* What the lists have of the headers' names is in the table and in memory *)
(* that is not freed.                                                      *)
Keeps(ctx, headers, alive) ==
  \A h \in headers : \A e \in Range(ctx.lookup[h.name]) :
    e.owner \in alive /\ \E x \in Range(ctx.table) : x.push = e.push

(* It was so before an entry was added, too.                               *)
LEMMA KeptBefore ==
  ASSUME NEW ctx, Context(ctx), Lists(ctx), NEW h \in Headers, NEW owner, NEW alive,
         NEW headers, headers \subseteq Headers, Keeps(NewEntry(ctx, h, owner), headers, alive)
  PROVE  Keeps(ctx, headers, alive)
<1> DEFINE m == NewEntry(ctx, h, owner)
<1>1. /\ \A k \in 1 .. Len(m.table) :
           m.table[k].push < ctx.pushed => m.table[k] \in Range(ctx.table)
      /\ \A n \in Names : \A e \in Range(ctx.lookup[n]) :
           \E o \in Range(m.lookup[n]) : o.push = e.push /\ o.owner = e.owner
  BY NewEntryLists
<1>2. Context(m)
  BY NewEntryIs
<1>3. m.table = [i \in 1 .. Len(m.table) |-> m.table[i]]
  BY <1>2 DEF Context, Table
<1>4. \A g \in headers : \A e \in Range(m.lookup[g.name]) :
        e.owner \in alive /\ \E x \in Range(m.table) : x.push = e.push
  BY DEF Keeps
<1> HIDE DEF m
<1>5. ASSUME NEW g \in headers, NEW e \in Range(ctx.lookup[g.name])
      PROVE  e.owner \in alive /\ \E x \in Range(ctx.table) : x.push = e.push
  <2>1. g.name \in Names
    BY HeaderIs
  <2>2. PICK o \in Range(m.lookup[g.name]) : o.push = e.push /\ o.owner = e.owner
    BY <1>1, <2>1
  <2>3. e.owner \in alive
    BY <1>4, <2>2
  <2>4. PICK x \in Range(m.table) : x.push = e.push
    BY <1>4, <2>2
  <2>5. PICK k \in 1 .. Len(m.table) : x = m.table[k]
    BY <1>3 DEF Range
  <2>6. e.push < ctx.pushed
    BY <2>1 DEF Lists, Listed
  <2>7. x \in Range(ctx.table)
    BY <1>1, <2>4, <2>5, <2>6
  <2> QED
    BY <2>3, <2>4, <2>7
<1> QED
  BY <1>5 DEF Keeps

(* The first of the static table's entries.                                *)
LEMMA FirstOfStatic ==
  ASSUME NEW S, S \subseteq DOMAIN Static, S # {}
  PROVE  Min(S) \in S /\ Min(S) \in Nat /\ Min(S) # 0
<1>1. DOMAIN Static \subseteq Nat \ {0}
  <2>1. DOMAIN Static = 1 .. Len(Static) /\ Len(Static) \in Nat
    BY StaticIs
  <2> DEFINE n == Len(Static)
  <2> HIDE DEF n
  <2>2. DOMAIN Static = 1 .. n
    BY <2>1 DEF n
  <2> QED
    BY <2>2
<1>2. S \subseteq Nat
  BY <1>1
<1>3. (CHOOSE k \in S : \A j \in S : k <= j) \in S
  BY <1>2, ChosenIsFirst
<1>4. Min(S) = CHOOSE k \in S : \A j \in S : k <= j
  BY DEF Min
<1> QED
  BY <1>1, <1>3, <1>4

(* A header is encoded as what the peer reads as it.                       *)
Means(r, t, h) ==
  \E i \in Nat :
    \/ r = Indexed(i) /\ PeerLookup(t, i) = h
    \/ /\ r = Literal(i, h, h.name \notin NeverIndex)
       /\ i # 0 => PeerLookup(t, i) # None /\ PeerLookup(t, i).name = h.name

LEMMA IndexIs ==
  ASSUME NEW ctx, Context(ctx), Lists(ctx), NEW t, Mirrors(t, ctx), NEW h \in Headers,
         NEW alive, Keeps(ctx, {h}, alive), NEW e \in Range(ctx.lookup[h.name])
  PROVE  LET i == ctx.pushed - e.push + Len(Static) IN
         /\ i \in Nat /\ PeerLookup(t, i) # None
         /\ PeerLookup(t, i) = [name |-> h.name, value |-> e.value]
         /\ e.owner \in alive
<1> DEFINE i == ctx.pushed - e.push + Len(Static)
<1>1. e.owner \in alive /\ \E x \in Range(ctx.table) : x.push = e.push
  BY DEF Keeps
<1>2. /\ ctx.table = [k \in 1 .. Len(ctx.table) |-> ctx.table[k]] /\ Len(ctx.table) \in Nat
      /\ Len(t) = Len(ctx.table) /\ t = [k \in 1 .. Len(t) |-> t[k]]
      /\ \A k \in 1 .. Len(t) : Row(t[k]) \in Rows /\ t[k] = Row(ctx.table[k])
  BY DEF Context, Mirrors, Table
<1>3. PICK k \in 1 .. Len(ctx.table) : ctx.table[k].push = e.push
  BY <1>1, <1>2 DEF Range
<1>4. h.name \in Names
  BY HeaderIs
<1>5. /\ ctx.pushed \in Nat /\ ctx.table[k].push = ctx.pushed - k
      /\ e.push \in Nat /\ ctx.table[k].name = h.name /\ ctx.table[k].value = e.value
  BY <1>3, <1>4 DEF Lists, Listed
<1>6. Len(Static) \in Nat /\ DOMAIN Static = 1 .. Len(Static)
  BY StaticIs
<1>7. i = k + Len(Static) /\ i \in Nat /\ i \notin DOMAIN Static /\ i - Len(Static) = k
  <2> DEFINE n == Len(Static)
  <2> HIDE DEF n
  <2>1. n \in Nat /\ DOMAIN Static = 1 .. n
    BY <1>6 DEF n
  <2>2. k \in Nat /\ k >= 1
    BY <1>2
  <2>3. ctx.pushed - e.push = k
    BY <1>3, <1>5, <2>2
  <2>4. i = k + n
    BY <2>3 DEF n
  <2> HIDE DEF i
  <2> QED
    BY <2>1, <2>2, <2>4 DEF n
<1> HIDE DEF i
<1>8. QueueIndex(t, i - Len(Static)) = t[k] /\ t[k] = Row(ctx.table[k]) /\ Row(t[k]) \in Rows
  BY <1>2, <1>7 DEF QueueIndex
<1>9. t[k].name = h.name /\ t[k].value = e.value /\ Row(t[k]) = t[k]
  BY <1>5, <1>8 DEF Row
<1>10. t[k] # None /\ [name |-> h.name, value |-> e.value] \in AnyHeader
  BY <1>8, <1>9, RowIs
<1>11. PeerLookup(t, i) = [name |-> h.name, value |-> e.value]
  BY <1>7, <1>8, <1>9, <1>10 DEF PeerLookup
<1> QED
  BY <1>1, <1>7, <1>10, <1>11, AnyHeaderIs DEF i

LEMMA FormsMean ==
  ASSUME NEW ctx, Context(ctx), Lists(ctx), NEW t, Mirrors(t, ctx), NEW h \in Headers,
         NEW alive, Keeps(ctx, {h}, alive), NEW r \in Forms(ctx, h, alive)
  PROVE  Means(r, t, h)
<1> DEFINE same == {i \in DOMAIN Static : Static[i].name = h.name}
           full == {i \in same : Static[i].value = h.value}
           entries == ctx.lookup[h.name]
           Index(e) == ctx.pushed - e.push + Len(Static)
           add == h.name \notin NeverIndex
           first == IF same # {} THEN Min(same)
                      ELSE IF entries # <<>> THEN Index(entries[1]) ELSE 0
<1>1. h = [name |-> h.name, value |-> h.value] /\ h.name \in Names
  BY HeaderIs
<1>2. \A i \in DOMAIN Static :
        /\ PeerLookup(t, i) = Static[i] /\ Static[i] # None
        /\ Static[i] = [name |-> Static[i].name, value |-> Static[i].value]
  BY StaticIs DEF PeerLookup
<1>3. IsList(entries)
  BY <1>1 DEF Lists
<1>4. Len(entries) \in Nat /\ \A k \in 1 .. Len(entries) : entries[k] \in Range(entries)
  <2> HIDE DEF entries
  <2> QED
    BY <1>3, LenProperties, ElementOfSeq DEF IsList
<1>5. CASE full # {}
  <2>1. r = Indexed(Min(full))
    BY <1>5 DEF Forms
  <2>2. Min(full) \in full /\ Min(full) \in Nat
    BY <1>5, FirstOfStatic
  <2>3. PeerLookup(t, Min(full)) = h
    BY <1>1, <1>2, <2>2
  <2> HIDE DEF full
  <2> QED
    BY <2>1, <2>2, <2>3 DEF Means
<1>6. ASSUME same # {}
      PROVE  Min(same) \in Nat /\ PeerLookup(t, Min(same)) # None
             /\ PeerLookup(t, Min(same)).name = h.name
  <2>1. Min(same) \in same /\ Min(same) \in Nat
    BY <1>6, FirstOfStatic
  <2> QED
    BY <1>2, <2>1
<1>7. CASE full = {} /\ same # {} /\ Static[Min(same)].value # None
  <2>1. r = Literal(Min(same), h, add)
    BY <1>7 DEF Forms
  <2> HIDE DEF same
  <2> QED
    BY <1>6, <1>7, <2>1 DEF Means
<1>8. CASE full = {} /\ ~(same # {} /\ Static[Min(same)].value # None)
  <2>1. PICK k \in EntryInList(entries, h.value, alive) :
          r = IF k # 0 THEN Indexed(Index(entries[k])) ELSE Literal(first, h, add)
    BY <1>8 DEF Forms
  <2>2. \A e \in Range(entries) :
          /\ Index(e) \in Nat /\ PeerLookup(t, Index(e)) # None
          /\ PeerLookup(t, Index(e)) = [name |-> h.name, value |-> e.value]
          /\ e.owner \in alive
    BY IndexIs
  <2> HIDE DEF entries
  <2>3. k \in 0 .. Len(entries) /\ (k # 0 => TRUE \in Comparisons(entries[k], h.value, alive))
    BY <2>1 DEF EntryInList
  <2> HIDE DEF Index
  <2>4. CASE k # 0
    <3>1. entries[k] \in Range(entries)
      BY <1>4, <2>3, <2>4
    <3>2. TRUE \in {entries[k].value = h.value}
      BY <2>2, <2>3, <2>4, <3>1 DEF Comparisons
    <3>3. entries[k].value = h.value
      BY <3>2
    <3>4. PeerLookup(t, Index(entries[k])) = h /\ Index(entries[k]) \in Nat
      BY <1>1, <2>2, <3>1, <3>3
    <3> QED
      BY <2>1, <2>4, <3>4 DEF Means
  <2>5. CASE k = 0
    <3>1. first \in Nat /\ (first # 0 => PeerLookup(t, first) # None
                                         /\ PeerLookup(t, first).name = h.name)
      <4>1. CASE same # {}
        <5> HIDE DEF same
        <5> QED
          BY <1>6, <4>1
      <4>2. CASE same = {} /\ entries # <<>>
        <5>1. entries[1] \in Range(entries)
          <6>1. Len(entries) # 0
            BY <1>3, <4>2, EmptySeq DEF IsList
          <6> QED
            BY <1>4, <6>1
        <5>2. first = Index(entries[1])
          BY <4>2
        <5> HIDE DEF first
        <5> QED
          BY <2>2, <5>1, <5>2
      <4>3. CASE same = {} /\ entries = <<>>
        BY <4>3
      <4> QED
        BY <4>1, <4>2, <4>3
    <3> HIDE DEF first
    <3>2. r = Literal(first, h, h.name \notin NeverIndex)
      BY <2>1, <2>5
    <3> QED
      BY <3>1, <3>2 DEF Means
  <2> QED
    BY <2>4, <2>5
<1> QED
  BY <1>5, <1>7, <1>8

IsPeer(p) == p = [table |-> p.table, limit |-> p.limit, headers |-> p.headers]
After(ctx, r, h, owner) == IF r.rep = "literal" /\ r.add THEN NewEntry(ctx, h, owner) ELSE ctx

(* The peer reads the header, and the tables stay alike.                   *)
LEMMA MeantIsRead ==
  ASSUME NEW p, IsPeer(p), NEW ctx, Lists(ctx), Alike(p, ctx), NEW h \in Headers,
         EntrySize[h] <= ctx.max, NEW r, Means(r, p.table, h), NEW owner
  PROVE  /\ IsPeer(PeerDecodeOne(p, r)) /\ PeerDecodeOne(p, r).headers = Append(p.headers, h)
         /\ Alike(PeerDecodeOne(p, r), After(ctx, r, h, owner))
<1> DEFINE q == PeerDecodeOne(p, r)
           hs == Append(p.headers, h)
           m == NewEntry(ctx, h, owner)
           t == PeerAdds(p.table, p.limit, h)
<1>1. h = [name |-> h.name, value |-> h.value] /\ h # None
  BY HeaderIs
<1>2. PICK i \in Nat :
        \/ r = Indexed(i) /\ PeerLookup(p.table, i) = h
        \/ /\ r = Literal(i, h, h.name \notin NeverIndex)
           /\ i # 0 => PeerLookup(p.table, i) # None /\ PeerLookup(p.table, i).name = h.name
  BY DEF Means
<1>3. CASE r = Indexed(i) /\ PeerLookup(p.table, i) = h
  <2>1. IntegerOf(r) = i /\ r.rep = "indexed"
    BY <1>3, Representations
  <2>2. q = [p EXCEPT !.headers = hs]
    BY <1>3, <2>1 DEF PeerDecodeOne
  <2> HIDE DEF q, hs
  <2>3. q = [table |-> p.table, limit |-> p.limit, headers |-> hs]
    BY <2>2, PeerNext DEF IsPeer
  <2>4. q.table = p.table /\ q.limit = p.limit /\ q.headers = hs
    BY <2>3
  <2>5. IsPeer(q) /\ Alike(q, ctx)
    BY <2>3, <2>4 DEF IsPeer, Alike, Behind
  <2>6. After(ctx, r, h, owner) = ctx
    BY <2>1 DEF After
  <2> QED
    BY <2>4, <2>5, <2>6 DEF q, hs
<1>4. CASE /\ r = Literal(i, h, h.name \notin NeverIndex)
           /\ i # 0 => PeerLookup(p.table, i) # None /\ PeerLookup(p.table, i).name = h.name
  <2> DEFINE n == PeerLookup(p.table, i)
             g == [r.h EXCEPT !.name = IF i = 0 \/ n = None THEN @ ELSE n.name]
             lost == i # 0 /\ n = None
             u == IF r.add THEN t ELSE p.table
  <2>1. IntegerOf(r) = i /\ r.rep = "literal" /\ r.h = h /\ r.add \in BOOLEAN
    <3>1. (h.name \notin NeverIndex) \in BOOLEAN
      OBVIOUS
    <3> DEFINE add == h.name \notin NeverIndex
    <3> HIDE DEF add
    <3>2. add \in BOOLEAN /\ r = Literal(i, h, add)
      BY <1>4, <3>1 DEF add
    <3> QED
      BY <3>2, Representations
  <2>2. g = h
    <3>1. (IF i = 0 \/ n = None THEN h.name ELSE n.name) = h.name
      BY <1>4
    <3>2. [h EXCEPT !.name = h.name] = h
      BY <1>1
    <3> HIDE DEF n
    <3> QED
      BY <2>1, <3>1, <3>2
  <2>3. lost = FALSE
    BY <1>4
  <2>4. q = [p EXCEPT !.headers = Append(p.headers, IF lost THEN None ELSE g),
                      !.table = IF r.add /\ ~lost /\ g \in Headers
                                  THEN PeerAdds(p.table, p.limit, g) ELSE p.table]
    <3> HIDE DEF n
    <3> QED
      BY <2>1 DEF PeerDecodeOne, n
  <2> HIDE DEF g, lost, q, t
  <2>5. q = [p EXCEPT !.headers = hs, !.table = u]
    BY <2>2, <2>3, <2>4 DEF t
  <2> HIDE DEF hs, u
  <2>6. q = [table |-> u, limit |-> p.limit, headers |-> hs]
    BY <2>5, PeerNext DEF IsPeer
  <2>7. q.table = u /\ q.limit = p.limit /\ q.headers = hs /\ IsPeer(q)
    BY <2>6 DEF IsPeer
  <2>8. CASE r.add
    <3> DEFINE e == ListEntry(h, ctx.pushed, owner, TRUE)
               c == hpack_add_entry(ctx, e)
    <3>1. /\ Row(e) = Entry(h) /\ Context(c) /\ Context(m)
          /\ m.table = c.table /\ m.max = c.max /\ m.size = c.size
      <4>1. Context(ctx)
        BY DEF Alike
      <4>2. /\ Row(e) = Entry(h) /\ Context(c) /\ Context(m)
            /\ m = [table |-> c.table, size |-> c.size, max |-> c.max,
                    pushed |-> ctx.pushed + 1,
                    lookup |-> [c.lookup EXCEPT ![h.name] =
                                  c.lookup[h.name]
                                    \o <<ListEntry(h, ctx.pushed, owner, FALSE), e>>]]
        BY <4>1, NewEntryIs
      <4> HIDE DEF e, c, m
      <4> QED
        BY <4>2
    <3> HIDE DEF e
    <3>2. q.table = t
      BY <2>7, <2>8 DEF u
    <3>3. Alike(q, c)
      BY <2>7, <3>1, <3>2, AddAlike DEF t
    <3> HIDE DEF c, m
    <3>4. Alike(q, m)
      BY <3>1, <3>3 DEF Alike, Behind, Mirrors
    <3>5. After(ctx, r, h, owner) = m
      BY <2>1, <2>8 DEF After, m
    <3> QED
      BY <2>7, <3>4, <3>5 DEF q, hs
  <2>9. CASE ~r.add
    <3>1. q.table = p.table
      BY <2>7, <2>9 DEF u
    <3>2. Alike(q, ctx)
      BY <2>7, <3>1 DEF Alike, Behind
    <3>3. After(ctx, r, h, owner) = ctx
      BY <2>9 DEF After
    <3> QED
      BY <2>7, <3>2, <3>3 DEF q, hs
  <2> QED
    BY <2>8, <2>9
<1> QED
  BY <1>2, <1>3, <1>4

(* One more representation behind others.                                  *)
LEMMA PeerGoesOn ==
  ASSUME NEW peer, NEW S, NEW reps \in Seq(S), NEW r \in S
  PROVE  PeerDecodes(peer, Append(reps, r)) = PeerDecodeOne(PeerDecodes(peer, reps), r)
<1> DEFINE more == Append(reps, r)
           n == Len(reps)
           f == Meant(peer, reps)
           g == Meant(peer, more)
           holds == {i \in 0 .. n : f[i] = g[i]}
<1>1. n \in Nat /\ Len(more) = n + 1 /\ more[n + 1] = r /\ \A i \in 1 .. n : more[i] = reps[i]
  OBVIOUS
<1> HIDE DEF more, n
<1>2. Len(reps) = n /\ Len(more) \in Nat
  BY <1>1 DEF n
<1>3. /\ PeerDecodes(peer, reps) = f[n]
      /\ f[0] = [table |-> peer.table, limit |-> peer.limit, headers |-> <<>>]
      /\ \A i \in 1 .. n : f[i] = PeerDecodeOne(f[i - 1], reps[i])
  BY <1>1, <1>2, MeantIs
<1>4. /\ PeerDecodes(peer, more) = g[n + 1]
      /\ g[0] = [table |-> peer.table, limit |-> peer.limit, headers |-> <<>>]
      /\ \A i \in 1 .. n + 1 : g[i] = PeerDecodeOne(g[i - 1], more[i])
  <2>1. /\ PeerDecodes(peer, more) = g[Len(more)]
        /\ g[0] = [table |-> peer.table, limit |-> peer.limit, headers |-> <<>>]
        /\ \A i \in 1 .. Len(more) : g[i] = PeerDecodeOne(g[i - 1], more[i])
    BY <1>2, MeantIs
  <2> HIDE DEF g
  <2> QED
    BY <1>1, <2>1
<1> HIDE DEF f, g
<1>5. 0 \in holds
  BY <1>1, <1>3, <1>4
<1>6. ASSUME NEW i \in 1 .. n, i - 1 \in holds PROVE i \in holds
  <2>1. i \in 1 .. n + 1 /\ i \in 0 .. n
    BY <1>1
  <2>2. f[i] = PeerDecodeOne(f[i - 1], reps[i]) /\ g[i] = PeerDecodeOne(g[i - 1], more[i])
        /\ more[i] = reps[i] /\ f[i - 1] = g[i - 1]
    BY <1>1, <1>3, <1>4, <1>6, <2>1
  <2> QED
    BY <2>1, <2>2
<1>7. n \in holds
  <2>1. 0 .. n \subseteq holds
    <3> HIDE DEF holds
    <3> QED
      BY <1>1, <1>5, <1>6, Inductive
  <2> HIDE DEF holds
  <2> QED
    BY <1>1, <2>1
<1>8. g[n + 1] = PeerDecodeOne(g[n], r)
  <2>1. n + 1 \in 1 .. n + 1 /\ (n + 1) - 1 = n
    BY <1>1
  <2> QED
    BY <1>1, <1>4, <2>1
<1> QED
  BY <1>3, <1>4, <1>7, <1>8 DEF more

(* What hpack_encode may have given for the first headers.                 *)
EncodeAll(E, h, owner, alive) == UNION {EncodeOne(e, h, owner, alive) : e \in E}
Encoded(ctx, headers, owner, alive) ==
  CHOOSE f : f = [i \in 0 .. Len(headers) |->
                   IF i = 0 THEN {[ctx |-> ctx, reps |-> <<Resize(ctx.max)>>]}
                   ELSE UNION {EncodeOne(e, headers[i], owner, alive) : e \in f[i - 1]}]

EncodedBy(f, ctx, headers, owner, alive) ==
  /\ f[0] = {[ctx |-> ctx, reps |-> <<Resize(ctx.max)>>]}
  /\ \A i \in 1 .. Len(headers) : f[i] = EncodeAll(f[i - 1], headers[i], owner, alive)

LEMMA EncodedIs ==
  ASSUME NEW ctx, NEW headers, Len(headers) \in Nat, NEW owner, NEW alive
  PROVE  \E f : /\ EncodedBy(f, ctx, headers, owner, alive)
                /\ hpack_encode(ctx, headers, owner, alive) = f[Len(headers)]
<1> DEFINE n == Len(headers)
           start == {[ctx |-> ctx, reps |-> <<Resize(ctx.max)>>]}
           All(E, i) == UNION {EncodeOne(e, headers[i], owner, alive) : e \in E}
           Rec(f, i) == IF i = 0 THEN start ELSE All(f[i - 1], i)
           Good(f, k) == f = [i \in 0 .. k |-> Rec(f, i)]
           holds == {k \in 0 .. n : \E f : Good(f, k)}
<1> HIDE DEF n, start
<1>1. n \in Nat
  BY DEF n
<1>2. 0 \in holds
  <2> DEFINE f == [i \in 0 .. 0 |-> start]
  <2> HIDE DEF All
  <2>1. Good(f, 0)
    OBVIOUS
  <2> HIDE DEF Good
  <2> QED
    BY <1>1, <2>1
<1>3. ASSUME NEW k \in 1 .. n, k - 1 \in holds PROVE k \in holds
  <2> HIDE DEF All
  <2>1. PICK f : Good(f, k - 1)
    BY <1>3
  <2> DEFINE g == [i \in 0 .. k |-> IF i = k THEN Rec(f, k) ELSE f[i]]
  <2>2. \A i \in 0 .. k - 1 : f[i] = Rec(f, i) /\ g[i] = f[i]
    BY <2>1
  <2>3. \A i \in 0 .. k : Rec(g, i) = Rec(f, i)
    <3> HIDE DEF g
    <3>1. SUFFICES ASSUME NEW i \in 0 .. k, i # 0 PROVE g[i - 1] = f[i - 1]
      OBVIOUS
    <3>2. i - 1 \in 0 .. k - 1
      BY <3>1
    <3> QED
      BY <2>2, <3>2
  <2>4. \A i \in 0 .. k : g[i] = Rec(f, i)
    <3> HIDE DEF Rec
    <3>1. TAKE i \in 0 .. k
    <3>2. CASE i = k
      BY <3>2
    <3>3. CASE i # k
      <4>1. i \in 0 .. k - 1
        BY <3>3
      <4> QED
        BY <2>2, <4>1
    <3> QED
      BY <3>2, <3>3
  <2>5. Good(g, k)
    <3>1. g = [i \in 0 .. k |-> g[i]]
      OBVIOUS
    <3> HIDE DEF g, Rec
    <3> QED
      BY <2>3, <2>4, <3>1
  <2> HIDE DEF Good
  <2> QED
    BY <2>5
<1>4. n \in holds
  <2>1. 0 .. n \subseteq holds
    <3> HIDE DEF holds
    <3> QED
      BY <1>1, <1>2, <1>3, Inductive
  <2> HIDE DEF holds
  <2> QED
    BY <1>1, <2>1
<1> DEFINE d == Encoded(ctx, headers, owner, alive)
<1>5. Good(d, n)
  <2>1. d = CHOOSE f : Good(f, n)
    BY DEF Encoded, n, start
  <2>2. \E f : Good(f, n)
    BY <1>4
  <2> HIDE DEF Good
  <2> QED
    BY <2>1, <2>2
<1>6. hpack_encode(ctx, headers, owner, alive) = d[n]
  BY DEF hpack_encode, n, Encoded
<1> HIDE DEF d
<1>7. d = [i \in 0 .. n |-> Rec(d, i)]
  BY <1>5
<1> HIDE DEF Rec
<1>8. \A i \in 0 .. n : d[i] = Rec(d, i)
  BY <1>7
<1> HIDE DEF All
<1>9. d[0] = start /\ \A i \in 1 .. n : d[i] = All(d[i - 1], i)
  BY <1>1, <1>8 DEF Rec
<1>10. EncodedBy(d, ctx, headers, owner, alive)
  BY <1>9 DEF n, start, All, EncodeAll, EncodedBy
<1>11. hpack_encode(ctx, headers, owner, alive) = d[Len(headers)]
  BY <1>6 DEF d, n
<1> QED
  BY <1>10, <1>11

(* As long as the table holds what is in it, and could hold each of the    *)
(* headers.                                                                *)
RoomFor(ctx, headers) == ctx.size <= ctx.max /\ \A h \in headers : EntrySize[h] <= ctx.max

(* What is encoded of the first of the headers.                            *)
Follows(e, ctx, peer) ==
  /\ Context(e.ctx) /\ Lists(e.ctx) /\ e.ctx.max = ctx.max /\ IsList(e.reps)
  /\ IsPeer(PeerDecodes(peer, e.reps)) /\ PeerDecodes(peer, e.reps).limit = ctx.max
Understood(e, peer, headers) ==
  /\ Alike(PeerDecodes(peer, e.reps), e.ctx)
  /\ PeerDecodes(peer, e.reps).headers = headers

(* A peer whose table was the same understands it, on the conditions.      *)
Readable(e, ctx, peer, all, alive, headers) ==
  /\ Follows(e, ctx, peer)
  /\ Mirrors(peer.table, ctx) /\ RoomFor(ctx, all) /\ Keeps(e.ctx, all, alive)
       => Understood(e, peer, headers)

LEMMA ListAppends ==
  ASSUME NEW l, IsList(l), NEW r
  PROVE  IsList(Append(l, r)) /\ \E S : l \in Seq(S) /\ r \in S
<1> DEFINE S == Range(l) \union {r}
           c == Append(l, r)
<1>1. l \in Seq(S) /\ r \in S
  BY SeqMonotonic DEF IsList
<1> HIDE DEF S
<1>2. c \in Seq(S)
  BY <1>1
<1> HIDE DEF c
<1>3. c \in [1 .. Len(c) -> S] /\ Len(c) \in Nat
  BY <1>2, LenProperties
<1>4. c \in [1 .. Len(c) -> Range(c)]
  BY <1>3 DEF Range
<1>5. IsList(c)
  BY <1>3, <1>4, SeqDef DEF IsList
<1> QED
  BY <1>1, <1>5 DEF c

LEMMA LimitStays ==
  ASSUME NEW p, IsPeer(p), NEW ctx, NEW h, NEW alive, NEW r \in Forms(ctx, h, alive)
  PROVE  IsPeer(PeerDecodeOne(p, r)) /\ PeerDecodeOne(p, r).limit = p.limit
<1> DEFINE q == PeerDecodeOne(p, r)
<1>1. \E i : r = Indexed(i) \/ \E add : r = Literal(i, h, add)
  BY DEF Forms
<1>2. r.rep \in {"indexed", "literal"}
  BY <1>1 DEF Indexed, Literal
<1>3. \/ \E hs : q = [p EXCEPT !.headers = hs]
      \/ \E hs, t : q = [p EXCEPT !.headers = hs, !.table = t]
  BY <1>2 DEF PeerDecodeOne
<1> HIDE DEF q
<1>4. \E hs, t : q = [table |-> t, limit |-> p.limit, headers |-> hs]
  BY <1>3, PeerNext DEF IsPeer
<1>5. PICK hs, t : q = [table |-> t, limit |-> p.limit, headers |-> hs]
  BY <1>4
<1>6. q.table = t /\ q.limit = p.limit /\ q.headers = hs
  BY <1>5
<1> QED
  BY <1>5, <1>6 DEF IsPeer, q

LEMMA FollowsOne ==
  ASSUME NEW ctx, NEW peer, NEW owner, NEW alive, NEW h \in Headers,
         NEW e, Follows(e, ctx, peer), NEW r \in Forms(e.ctx, h, alive),
         NEW after, after = [reps |-> Append(e.reps, r), ctx |-> After(e.ctx, r, h, owner)]
  PROVE  Follows(after, ctx, peer)
<1> DEFINE d == PeerDecodes(peer, e.reps)
<1>1. /\ Context(e.ctx) /\ Lists(e.ctx) /\ e.ctx.max = ctx.max /\ IsList(e.reps)
      /\ IsPeer(d) /\ d.limit = ctx.max
  BY DEF Follows
<1>2. after.reps = Append(e.reps, r) /\ after.ctx = After(e.ctx, r, h, owner)
  OBVIOUS
<1> DEFINE m == NewEntry(e.ctx, h, owner)
<1>3. Context(m)
  BY <1>1, NewEntryIs
<1>4. Lists(m) /\ m.max = e.ctx.max
  BY <1>1, NewEntryLists
<1> HIDE DEF m
<1>5. after.ctx = m \/ after.ctx = e.ctx
  BY <1>2 DEF After, m
<1>6. IsList(after.reps) /\ \E S : e.reps \in Seq(S) /\ r \in S
  BY <1>1, <1>2, ListAppends
<1>7. PeerDecodes(peer, after.reps) = PeerDecodeOne(d, r)
  BY <1>2, <1>6, PeerGoesOn
<1> HIDE DEF d
<1>8. IsPeer(PeerDecodeOne(d, r)) /\ PeerDecodeOne(d, r).limit = ctx.max
  BY <1>1, LimitStays
<1> QED
  BY <1>1, <1>3, <1>4, <1>5, <1>6, <1>7, <1>8 DEF Follows

LEMMA EncodesOne ==
  ASSUME NEW ctx, NEW peer, NEW owner, NEW alive, NEW all, all \subseteq Headers,
         NEW h \in all, NEW e, NEW before, Readable(e, ctx, peer, all, alive, before),
         NEW r \in Forms(e.ctx, h, alive),
         NEW after, after = [reps |-> Append(e.reps, r), ctx |-> After(e.ctx, r, h, owner)]
  PROVE  Readable(after, ctx, peer, all, alive, Append(before, h))
<1>1. h \in Headers /\ Follows(e, ctx, peer)
  BY DEF Readable
<1>2. /\ Context(e.ctx) /\ Lists(e.ctx) /\ e.ctx.max = ctx.max /\ IsList(e.reps)
      /\ IsPeer(PeerDecodes(peer, e.reps))
  BY <1>1 DEF Follows
<1>3. after.reps = Append(e.reps, r) /\ after.ctx = After(e.ctx, r, h, owner)
  OBVIOUS
<1> DEFINE m == NewEntry(e.ctx, h, owner)
<1>4. Keeps(m, all, alive) => Keeps(e.ctx, all, alive)
  BY <1>1, <1>2, KeptBefore
<1> HIDE DEF m
<1>5. after.ctx = m \/ after.ctx = e.ctx
  BY <1>3 DEF After, m
<1>6. \E S : e.reps \in Seq(S) /\ r \in S
  BY <1>2, ListAppends
<1>7. Follows(after, ctx, peer)
  BY <1>1, FollowsOne
<1>8. ASSUME Mirrors(peer.table, ctx), RoomFor(ctx, all), Keeps(after.ctx, all, alive)
      PROVE  Understood(after, peer, Append(before, h))
  <2> DEFINE d == PeerDecodes(peer, e.reps)
  <2>1. Keeps(e.ctx, all, alive)
    BY <1>4, <1>5, <1>8
  <2>2. IsPeer(d) /\ Alike(d, e.ctx) /\ d.headers = before
    BY <1>2, <1>8, <2>1 DEF Readable, Understood
  <2>3. Keeps(e.ctx, {h}, alive)
    BY <2>1 DEF Keeps
  <2>4. PeerDecodes(peer, after.reps) = PeerDecodeOne(d, r)
    BY <1>3, <1>6, PeerGoesOn
  <2> HIDE DEF d
  <2>5. Means(r, d.table, h)
    <3>1. Mirrors(d.table, e.ctx)
      BY <2>2 DEF Alike
    <3> QED
      BY <1>1, <1>2, <2>3, <3>1, FormsMean
  <2>6. /\ IsPeer(PeerDecodeOne(d, r)) /\ PeerDecodeOne(d, r).headers = Append(d.headers, h)
        /\ Alike(PeerDecodeOne(d, r), After(e.ctx, r, h, owner))
    <3>1. EntrySize[h] <= ctx.max
      BY <1>8 DEF RoomFor
    <3> QED
      BY <1>1, <1>2, <2>2, <2>5, <3>1, MeantIsRead
  <2> QED
    BY <1>3, <2>2, <2>4, <2>6 DEF Understood
<1> QED
  BY <1>7, <1>8 DEF Readable

LEMMA EncodesNothing ==
  ASSUME NEW ctx, Context(ctx), Lists(ctx), NEW peer,
         NEW e, e = [ctx |-> ctx, reps |-> <<Resize(ctx.max)>>]
  PROVE  /\ Follows(e, ctx, peer)
         /\ Mirrors(peer.table, ctx) /\ ctx.size <= ctx.max => Understood(e, peer, <<>>)
<1> DEFINE r == Resize(ctx.max)
           d == PeerDecodes(peer, e.reps)
           b == [table |-> peer.table, limit |-> peer.limit, headers |-> <<>>]
<1>1. ctx.max \in Nat
  BY DEF Context
<1>2. e.ctx = ctx /\ e.reps = <<r>>
  OBVIOUS
<1>3. IntegerOf(r) = ctx.max /\ r.rep = "resize"
  BY <1>1, Representations
<1>4. d = PeerDecodeOne(b, r)
  <2>1. Len(<<r>>) = 1 /\ <<r>>[1] = r
    OBVIOUS
  <2> DEFINE f == Meant(peer, <<r>>)
  <2>2. Len(<<r>>) \in Nat
    BY <2>1
  <2>3. /\ PeerDecodes(peer, <<r>>) = f[Len(<<r>>)] /\ f[0] = b
        /\ \A i \in 1 .. Len(<<r>>) : f[i] = PeerDecodeOne(f[i - 1], <<r>>[i])
    BY <2>2, MeantIs
  <2> HIDE DEF f, b, r
  <2>4. f[1] = PeerDecodeOne(f[0], r)
    BY <2>1, <2>3
  <2> QED
    BY <1>2, <2>1, <2>3, <2>4
<1> HIDE DEF r
<1> DEFINE t == PeerKeeps(peer.table, ctx.max)
<1>5. d = [b EXCEPT !.table = t, !.limit = ctx.max]
  BY <1>3, <1>4 DEF PeerDecodeOne
<1> HIDE DEF d, t
<1>6. d = [table |-> t, limit |-> ctx.max, headers |-> <<>>]
  BY <1>5
<1>7. d.table = t /\ d.limit = ctx.max /\ d.headers = <<>> /\ IsPeer(d)
  BY <1>6 DEF IsPeer
<1>8. Mirrors(peer.table, ctx) /\ ctx.size <= ctx.max => Alike(d, ctx)
  BY <1>7, ResizeAlike DEF t
<1>9. IsList(e.reps)
  BY <1>2 DEF IsList, Range
<1> QED
  BY <1>2, <1>7, <1>8, <1>9 DEF Follows, Understood, d

(* A client whose table has the encoder's entries reads a block of the     *)
(* server's as it was meant, and the tables stay alike, whatever has been  *)
(* evicted for it and at whichever entry the search of a list has stopped: *)
(* as long as the headers fit the table and nothing is left in their lists *)
(* of an entry that is gone.                                               *)
THEOREM ResponsesAreRead ==
  ASSUME NEW ctx, Context(ctx), Lists(ctx), NEW peer,
         NEW headers \in Seq(Headers), NEW owner, NEW alive,
         NEW e \in hpack_encode(ctx, headers, owner, alive)
  PROVE  Readable(e, ctx, peer, Range(headers), alive, headers)
<1> DEFINE n == Len(headers)
           all == Range(headers)
           First(i) == [j \in 1 .. i |-> headers[j]]
<1>1. /\ n \in Nat /\ headers = [j \in 1 .. n |-> headers[j]] /\ all \subseteq Headers
      /\ \A i \in 1 .. n : headers[i] \in all /\ headers[i] \in Headers
  <2>1. headers \in [1 .. n -> Headers] /\ n \in Nat
    BY LenProperties
  <2> HIDE DEF n
  <2> QED
    BY <2>1 DEF Range
<1>2. PICK f : /\ EncodedBy(f, ctx, headers, owner, alive)
               /\ hpack_encode(ctx, headers, owner, alive) = f[n]
  <2>1. Len(headers) \in Nat
    BY <1>1
  <2> QED
    BY <2>1, EncodedIs
<1> DEFINE Good(x, i) == Readable(x, ctx, peer, all, alive, First(i))
           holds == {i \in 0 .. n : \A x \in f[i] : Good(x, i)}
<1> HIDE DEF all
<1>3. \A i \in 1 .. n : First(i) = Append(First(i - 1), headers[i])
  <2>1. TAKE i \in 1 .. n
  <2>2. First(i - 1) \in Seq(Headers) /\ Len(First(i - 1)) = i - 1
    <3>1. \A j \in 1 .. i - 1 : headers[j] \in Headers
      BY <1>1
    <3>2. i - 1 \in Nat
      BY <1>1
    <3>3. First(i - 1) \in [1 .. i - 1 -> Headers]
      BY <3>1
    <3> DEFINE p == First(i - 1)
               k == i - 1
    <3>4. DOMAIN p = 1 .. k
      OBVIOUS
    <3> HIDE DEF p, k
    <3>5. p \in Seq(Headers) /\ Len(p) = k
      BY <3>2, <3>3, <3>4, SeqDef, LenProperties DEF k, p
    <3> QED
      BY <3>5 DEF p, k
  <2> DEFINE p == First(i - 1)
             q == Append(p, headers[i])
  <2>3. \A j \in 1 .. i - 1 : p[j] = headers[j]
    OBVIOUS
  <2> HIDE DEF p
  <2>4. q = [j \in 1 .. (i - 1) + 1 |-> IF j <= i - 1 THEN p[j] ELSE headers[i]]
    <3>1. p \in Seq(Headers) /\ Len(p) = i - 1 /\ headers[i] \in Headers
      BY <1>1, <2>2 DEF p
    <3>2. q \in Seq(Headers) /\ Len(q) = (i - 1) + 1
          /\ \A j \in 1 .. Len(q) : q[j] = IF j <= Len(p) THEN p[j] ELSE headers[i]
      BY <3>1
    <3> HIDE DEF q
    <3>3. q = [j \in 1 .. Len(q) |-> q[j]]
      BY <3>2, LenProperties
    <3> QED
      BY <3>1, <3>2, <3>3
  <2>5. (i - 1) + 1 = i /\ i \in Nat
    BY <1>1
  <2> HIDE DEF q
  <2>6. \A j \in 1 .. i : (IF j <= i - 1 THEN p[j] ELSE headers[i]) = headers[j]
    <3>1. TAKE j \in 1 .. i
    <3>2. CASE j <= i - 1
      BY <2>3, <2>5, <3>2
    <3>3. CASE ~(j <= i - 1)
      <4>1. j = i
        BY <2>5, <3>3
      <4> QED
        BY <3>3, <4>1
    <3> QED
      BY <3>2, <3>3
  <2>7. q = [j \in 1 .. i |-> headers[j]]
    BY <2>4, <2>5, <2>6
  <2> QED
    BY <2>7 DEF q, p
<1> HIDE DEF n
<1>4. 0 \in holds
  <2>1. ASSUME NEW x \in f[0] PROVE Good(x, 0)
    <3>1. x = [ctx |-> ctx, reps |-> <<Resize(ctx.max)>>]
      BY <1>2, <2>1 DEF EncodedBy
    <3>2. /\ Follows(x, ctx, peer)
          /\ Mirrors(peer.table, ctx) /\ ctx.size <= ctx.max => Understood(x, peer, <<>>)
      BY <3>1, EncodesNothing
    <3>3. First(0) = <<>>
      OBVIOUS
    <3> HIDE DEF First
    <3> QED
      BY <3>2, <3>3 DEF Readable, RoomFor
  <2> HIDE DEF Good
  <2> QED
    BY <1>1, <2>1
<1>5. ASSUME NEW i \in 1 .. n, i - 1 \in holds PROVE i \in holds
  <2> DEFINE h == headers[i]
             before == First(i - 1)
  <2>1. h \in all /\ h \in Headers /\ First(i) = Append(before, h)
    BY <1>1, <1>3
  <2>2. \A x \in f[i - 1] : Good(x, i - 1)
    BY <1>5
  <2>3. f[i] = EncodeAll(f[i - 1], h, owner, alive)
    BY <1>2 DEF EncodedBy, n
  <2> HIDE DEF h, First, before
  <2>4. ASSUME NEW y \in f[i] PROVE Good(y, i)
    <3>1. PICK x \in f[i - 1] : y \in EncodeOne(x, h, owner, alive)
      BY <2>3 DEF EncodeAll
    <3>2. PICK r \in Forms(x.ctx, h, alive) :
            y = [reps |-> Append(x.reps, r), ctx |-> After(x.ctx, r, h, owner)]
      BY <3>1 DEF EncodeOne, After
    <3>3. Readable(x, ctx, peer, all, alive, before)
      BY <2>2 DEF before
    <3>4. Readable(y, ctx, peer, all, alive, Append(before, h))
      <4>1. all \subseteq Headers /\ h \in all /\ r \in Forms(x.ctx, h, alive)
        BY <1>1, <2>1, <3>2
      <4>2. y = [reps |-> Append(x.reps, r), ctx |-> After(x.ctx, r, h, owner)]
        BY <3>2
      <4> QED
        BY <3>3, <4>1, <4>2, EncodesOne
    <3> QED
      BY <2>1, <3>4
  <2>5. i \in 0 .. n
    BY <1>1
  <2> HIDE DEF Good
  <2> QED
    BY <2>4, <2>5
<1>6. n \in holds
  <2>1. 0 .. n \subseteq holds
    <3> HIDE DEF holds
    <3> QED
      BY <1>1, <1>4, <1>5, Inductive
  <2> HIDE DEF holds
  <2> QED
    BY <1>1, <2>1
<1>7. First(n) = headers
  BY <1>1
<1> HIDE DEF First
<1>8. Good(e, n)
  BY <1>2, <1>6
<1> QED
  BY <1>7, <1>8 DEF all
=============================================================================
