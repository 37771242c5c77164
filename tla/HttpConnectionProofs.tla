------------------------ MODULE HttpConnectionProofs ------------------------
(***************************************************************************)
(* Theorems about HttpConnection for every script of requests and every    *)
(* way their bytes are cut into reads: what is cut out of read_buffer      *)
(* follows without gap or overlap, and responses come back one at a time   *)
(* and in the order of the requests.  Of a client that waits for streamed  *)
(* responses, when no read is shorter than three bytes: exactly the headers*)
(* and the bodies of its requests, and as soon as they are there.          *)
(***************************************************************************)
EXTENDS HttpConnection, SequenceTheorems, Recursion

(* Where what was cut out so far ends.                                     *)
Cut == IF popped = <<>> THEN 0 ELSE popped[Len(popped)].hi

(* Intervals that follow one another from behind position from up to to.   *)
Chain(s, from, to) ==
  /\ \A i \in 1 .. Len(s) : s[i].lo <= s[i].hi
  /\ \A i \in 1 .. Len(s) - 1 : s[i + 1].lo = s[i].hi + 1
  /\ IF s = <<>> THEN from = to ELSE s[1].lo = from + 1 /\ s[Len(s)].hi = to

(* t is what is left of s when its front is cut off, within an entry or    *)
(* between two.                                                            *)
LeftOf(s, t) ==
  \E f \in 1 .. Len(s) :
    /\ Len(t) = Len(s) - f + 1
    /\ \A i \in 1 .. Len(t) :
         /\ t[i].hi = s[f + i - 1].hi /\ t[i].lo >= s[f + i - 1].lo
         /\ i > 1 => t[i].lo = s[f + i - 1].lo

(* The invariant: what is cut out and what is buffered are the bytes       *)
(* received; the scan is about what is buffered; a body is awaited only    *)
(* while no response is open; and a request comes behind all whose         *)
(* responses were begun, as its first byte was cut out later.              *)
Chained == Chain(popped, 0, Cut) /\ Chain(buffers, Cut, received)
Scanned ==
  /\ read_buf >= 1 /\ read_buf + read_buf_len = received + 1
  /\ at = "scan" => seen >= Cut + 1
Begun(k) == k \in DOMAIN script /\ First(k) <= Cut
Alternate ==
  /\ posting # 0 => streaming = 0 /\ script[posting].body > 0
  /\ at = "scan" => posting = 0 /\ streaming = 0
InTurn ==
  /\ \A i \in 1 .. Len(out) : Begun(out[i].req)
  /\ posting # 0 => Begun(posting) /\ \A i \in 1 .. Len(out) : out[i].req < posting
  /\ streaming # 0 => Begun(streaming)

IInv ==
  /\ setting \in Settings /\ TypeOK
  /\ Chained /\ Scanned /\ Alternate /\ InTurn

-----------------------------------------------------------------------------
(* The positions of the requests.                                          *)
LEMMA ScriptType ==
  ASSUME setting \in Settings
  PROVE  /\ script \in Scripts /\ script \in Seq([body : Nat, resp : Responses])
         /\ Len(script) \in Nat /\ DOMAIN script = 1 .. Len(script)
         /\ \A k \in DOMAIN script : script[k].body \in Nat /\ script[k].resp \in Responses
<1>1. script \in Scripts /\ script \in Seq([body : Nat, resp : Responses])
  BY ParametersAssumption DEF script, Scripts
<1>2. \A k \in 1 .. Len(script) : script[k] \in [body : Nat, resp : Responses]
  BY <1>1, ElementOfSeq
<1> QED
  BY <1>1, <1>2

LEMMA EndsDefined ==
  ASSUME NEW s \in Scripts
  PROVE  /\ Ends[s] \in [0 .. Len(s) -> Nat]
         /\ Ends[s][0] = 0
         /\ \A k \in 1 .. Len(s) : Ends[s][k] = Ends[s][k - 1] + HeadSize + s[k].body
<1>1. s \in Seq([body : Nat, resp : Responses])
  BY ParametersAssumption DEF Scripts
<1>2. Len(s) \in Nat /\ \A k \in 1 .. Len(s) : s[k].body \in Nat
  <2>1. \A k \in 1 .. Len(s) : s[k] \in [body : Nat, resp : Responses]
    BY <1>1, ElementOfSeq
  <2> QED
    BY <1>1, <2>1
<1> DEFINE Step == [t \in Nat \X (1 .. Len(s)) |-> t[1] + HeadSize + s[t[2]].body]
           Good(f) == f = [k \in 0 .. Len(s) |->
                             IF k = 0 THEN 0 ELSE f[k - 1] + HeadSize + s[k].body]
<1>3. Step \in [Nat \X (1 .. Len(s)) -> Nat]
  BY <1>2 DEF HeadSize
<1>4. PICK f \in [0 .. Len(s) -> Nat] : Iteration(f, 0, Step, Len(s))
  <2>1. 0 \in Nat
    OBVIOUS
  <2> HIDE DEF Step
  <2> QED
    BY <1>2, <1>3, <2>1, Iterates, Zenon
<1>5. \A i \in 1 .. Len(s) : f[i] = f[i - 1] + HeadSize + s[i].body
  <2>1. TAKE i \in 1 .. Len(s)
  <2>2. <<f[i - 1], i>> \in Nat \X (1 .. Len(s))
    BY <1>2
  <2> QED
    BY <1>4, <2>2 DEF Iteration
<1>6. Good(f)
  BY <1>4, <1>5 DEF Iteration
<1>7. Ends[s] = CHOOSE g : Good(g)
  BY DEF Ends
<1>8. Good(Ends[s])
  <2> HIDE DEF Good
  <2> QED
    BY <1>6, <1>7
<1> DEFINE e == Ends[s]
<1>9. Good(e)
  BY <1>8
<1>10. e \in [0 .. Len(s) -> Nat]
  <2> DEFINE holds == {k \in 0 .. Len(s) : e[k] \in Nat}
  <2> HIDE DEF e
  <2>1. DOMAIN e = 0 .. Len(s) /\ 0 \in holds
    BY <1>2, <1>9
  <2>2. ASSUME NEW k \in 1 .. Len(s), k - 1 \in holds PROVE k \in holds
    <3> DEFINE last == e[k - 1]
               body == s[k].body
    <3>1. last \in Nat /\ body \in Nat /\ k \in 0 .. Len(s)
      BY <1>2, <2>2
    <3>2. e[k] = last + HeadSize + body
      BY <1>2, <1>9
    <3> HIDE DEF last, body
    <3>3. last + HeadSize + body \in Nat
      BY <3>1 DEF HeadSize
    <3> QED
      BY <3>1, <3>2, <3>3
  <2>3. 0 .. Len(s) \subseteq holds
    <3> HIDE DEF holds
    <3> QED
      BY <1>2, <2>1, <2>2, Inductive
  <2> QED
    BY <1>9, <2>3
<1> HIDE DEF e
<1>11. e[0] = 0 /\ \A k \in 1 .. Len(s) : e[k] = e[k - 1] + HeadSize + s[k].body
  BY <1>2, <1>9
<1> QED
  BY <1>10, <1>11 DEF e

LEMMA EndsGrow ==
  ASSUME NEW s \in Scripts, NEW j \in 0 .. Len(s), NEW k \in j .. Len(s)
  PROVE  Ends[s][j] <= Ends[s][k]
<1>1. s \in Seq([body : Nat, resp : Responses])
  BY ParametersAssumption DEF Scripts
<1>2. Len(s) \in Nat /\ \A i \in 1 .. Len(s) : s[i].body \in Nat
  <2>1. \A i \in 1 .. Len(s) : s[i] \in [body : Nat, resp : Responses]
    BY <1>1, ElementOfSeq
  <2> QED
    BY <1>1, <2>1
<1> DEFINE holds == {i \in 0 .. Len(s) - j : Ends[s][j] <= Ends[s][j + i]}
<1>3. Ends[s] \in [0 .. Len(s) -> Nat]
  BY EndsDefined
<1>4. 0 \in holds
  BY <1>2, <1>3
<1>5. ASSUME NEW i \in 1 .. Len(s) - j, i - 1 \in holds PROVE i \in holds
  <2>1. Ends[s][j + i] = Ends[s][j + i - 1] + HeadSize + s[j + i].body
    BY <1>2, EndsDefined
  <2>2. Ends[s][j + i - 1] \in Nat /\ Ends[s][j] \in Nat /\ s[j + i].body \in Nat
    <3>1. j \in Nat /\ i \in Nat /\ j + i \in 1 .. Len(s) /\ j + i - 1 \in 0 .. Len(s)
      BY <1>2
    <3> QED
      BY <1>2, <1>3, <3>1
  <2>3. j + (i - 1) = j + i - 1 /\ i \in 0 .. Len(s) - j
    BY <1>2
  <2>4. Ends[s][j] <= Ends[s][j + i - 1]
    BY <1>5, <2>3
  <2>5. Ends[s][j] <= Ends[s][j + i]
    <3> DEFINE a == Ends[s][j]
               b == Ends[s][j + i - 1]
               c == s[j + i].body
    <3>1. a \in Nat /\ b \in Nat /\ c \in Nat /\ a <= b /\ Ends[s][j + i] = b + HeadSize + c
      BY <2>1, <2>2, <2>4
    <3> HIDE DEF a, b, c
    <3>2. a <= Ends[s][j + i]
      BY <3>1 DEF HeadSize
    <3> QED
      BY <3>2 DEF a
  <2> QED
    BY <2>3, <2>5
<1>6. 0 .. Len(s) - j \subseteq holds
  <2>1. Len(s) - j \in Nat
    BY <1>2
  <2> HIDE DEF holds
  <2> QED
    BY <1>4, <1>5, <2>1, Inductive
<1>7. k - j \in holds
  <2>1. k - j \in 0 .. Len(s) - j
    BY <1>2
  <2> HIDE DEF holds
  <2> QED
    BY <1>6, <2>1
<1> QED
  BY <1>2, <1>7

(* The first bytes of requests are in the order of the requests.           *)
LEMMA FirstsInOrder ==
  ASSUME setting \in Settings, NEW j \in DOMAIN script, NEW k \in DOMAIN script,
         First(j) < First(k)
  PROVE  j < k
<1>1. SUFFICES ASSUME k <= j PROVE First(k) <= First(j)
  <2>1. First(j) \in Nat /\ First(k) \in Nat
    <3>1. script \in Scripts /\ j - 1 \in 0 .. Len(script) /\ k - 1 \in 0 .. Len(script)
      BY ScriptType
    <3>2. Ends[script][j - 1] \in Nat /\ Ends[script][k - 1] \in Nat
      BY <3>1, EndsDefined
    <3> QED
      BY <3>2 DEF First, Last
  <2> QED
    BY <1>1, <2>1, ScriptType
<1>2. /\ script \in Scripts /\ DOMAIN script = 1 .. Len(script) /\ Len(script) \in Nat
      /\ k - 1 \in 0 .. Len(script) /\ j - 1 \in k - 1 .. Len(script)
  BY <1>1, ScriptType
<1>3. Ends[script][k - 1] <= Ends[script][j - 1]
  BY <1>2, EndsGrow
<1>4. Ends[script][k - 1] \in Nat /\ Ends[script][j - 1] \in Nat
  BY <1>2, EndsDefined
<1> QED
  BY <1>3, <1>4 DEF First, Last

-----------------------------------------------------------------------------
(* Chains of intervals.                                                    *)
LEMMA ChainLow ==
  ASSUME NEW s \in Seq(Interval), NEW from \in Nat, NEW to \in Nat, Chain(s, from, to),
         NEW i \in 1 .. Len(s)
  PROVE  s[i].lo >= from + 1
<1> DEFINE holds == {k \in 0 .. Len(s) - 1 : s[k + 1].lo >= from + 1}
<1>1. \A k \in 1 .. Len(s) : s[k].lo \in Nat /\ s[k].hi \in Nat
  <2>1. \A k \in 1 .. Len(s) : s[k] \in Interval
    BY ElementOfSeq
  <2> QED
    BY <2>1 DEF Interval
<1>2. Len(s) \in Nat /\ Len(s) >= 1 /\ s # <<>>
  OBVIOUS
<1>3. 0 \in holds
  BY <1>2 DEF Chain
<1>4. ASSUME NEW k \in 1 .. Len(s) - 1, k - 1 \in holds PROVE k \in holds
  <2>1. s[k].lo >= from + 1
    BY <1>2, <1>4
  <2>2. s[k].lo <= s[k].hi /\ s[k + 1].lo = s[k].hi + 1
    BY <1>2 DEF Chain
  <2> QED
    BY <1>1, <1>2, <2>1, <2>2
<1>5. 0 .. Len(s) - 1 \subseteq holds
  <2>1. Len(s) - 1 \in Nat
    BY <1>2
  <2> HIDE DEF holds
  <2> QED
    BY <1>3, <1>4, <2>1, Inductive
<1>6. i - 1 \in holds
  <2>1. i - 1 \in 0 .. Len(s) - 1
    BY <1>2
  <2> HIDE DEF holds
  <2> QED
    BY <1>5, <2>1
<1> QED
  BY <1>2, <1>6

LEMMA ChainGrows ==
  ASSUME NEW S, NEW s \in Seq(S), NEW from, NEW to, Chain(s, from, to),
         NEW e \in S, e.lo = to + 1, e.lo <= e.hi
  PROVE  Chain(Append(s, e), from, e.hi)
<1>1. /\ Len(Append(s, e)) = Len(s) + 1 /\ Append(s, e) # <<>> /\ Len(s) \in Nat
      /\ \A i \in 1 .. Len(s) : Append(s, e)[i] = s[i]
      /\ Append(s, e)[Len(s) + 1] = e
  BY AppendProperties
<1> DEFINE t == Append(s, e)
<1> HIDE DEF t
<1>2. \A i \in 1 .. Len(t) : t[i].lo <= t[i].hi
  BY <1>1 DEF Chain, t
<1>3. ASSUME NEW i \in 1 .. Len(t) - 1 PROVE t[i + 1].lo = t[i].hi + 1
  <2>1. CASE i < Len(s)
    <3>1. i \in 1 .. Len(s) - 1 /\ i + 1 \in 1 .. Len(s) /\ i \in 1 .. Len(s)
      BY <1>1, <2>1 DEF t
    <3> QED
      BY <1>1, <3>1 DEF Chain, t
  <2>2. CASE i = Len(s)
    <3>1. s # <<>> /\ i \in 1 .. Len(s)
      BY <1>1, <2>2 DEF t
    <3>2. t[i].hi = to /\ t[i + 1] = e
      BY <1>1, <2>2, <3>1 DEF Chain, t
    <3> QED
      BY <3>2
  <2> QED
    BY <1>1, <2>1, <2>2 DEF t
<1>4. t[1].lo = from + 1
  <2>1. CASE s = <<>>
    <3>1. t[1] = e /\ from = to
      BY <1>1, <2>1 DEF Chain, t
    <3> QED
      BY <3>1
  <2>2. CASE s # <<>>
    <3>1. Len(s) >= 1
      BY <1>1, <2>2
    <3> QED
      BY <1>1, <2>2, <3>1 DEF Chain, t
  <2> QED
    BY <2>1, <2>2
<1> QED
  BY <1>1, <1>2, <1>3, <1>4 DEF Chain, t

(* What is buffered is as long as what was received and not cut out.       *)
LEMMA SizeIs ==
  ASSUME buffers \in Seq(Interval), NEW c \in Nat, received \in Nat,
         Chain(buffers, c, received)
  PROVE  Size = received - c /\ Size \in Nat
<1>1. CASE buffers = <<>>
  BY <1>1 DEF Chain, Size
<1>2. CASE buffers # <<>>
  <2>1. Len(buffers) \in 1 .. Len(buffers) /\ 1 \in 1 .. Len(buffers)
    BY <1>2
  <2>2. buffers[Len(buffers)].lo >= c + 1
    BY <2>1, ChainLow
  <2>3. buffers[Len(buffers)] \in Interval
    BY <2>1, ElementOfSeq
  <2>4. /\ buffers[1].lo = c + 1 /\ buffers[Len(buffers)].hi = received
        /\ buffers[Len(buffers)].lo <= buffers[Len(buffers)].hi
    BY <1>2, <2>1 DEF Chain
  <2> QED
    BY <1>2, <2>2, <2>3, <2>4 DEF Size, Interval
<1> QED
  BY <1>1, <1>2

(* buffer_pop takes n bytes off the front and leaves the others in order.  *)
LEMMA PopChain ==
  ASSUME buffers \in Seq(Interval), NEW c \in Nat, received \in Nat,
         Chain(buffers, c, received), NEW n \in Nat, n >= 1, n <= received - c
  PROVE  /\ buffers # <<>> /\ buffers[1].lo = c + 1
         /\ Pop(n) \in Seq(Interval) /\ Chain(Pop(n), c + n, received)
         /\ Pop(n) # <<>> => LeftOf(buffers, Pop(n))
<1> DEFINE end == buffers[1].lo + n - 1
           left == {i \in DOMAIN buffers : buffers[i].hi > end}
           first == CHOOSE i \in left : \A j \in left : i <= j
           rest == SubSeq(buffers, first, Len(buffers))
           cut == [rest EXCEPT ![1].lo = IF @ > end THEN @ ELSE end + 1]
<1>1. buffers # <<>> /\ buffers[1].lo = c + 1
  BY DEF Chain
<1>2. end = c + n
  BY <1>1
<1>3. /\ Len(buffers) \in Nat /\ Len(buffers) >= 1 /\ DOMAIN buffers = 1 .. Len(buffers)
      /\ \A i \in 1 .. Len(buffers) : buffers[i] \in Interval
  BY <1>1, ElementOfSeq
<1>4. \A i \in 1 .. Len(buffers) : buffers[i].lo \in Nat /\ buffers[i].hi \in Nat
  BY <1>3 DEF Interval
<1>5. Pop(n) = IF left = {} THEN <<>> ELSE cut
  BY DEF Pop
<1>6. CASE left = {}
  <2>1. Len(buffers) \notin left
    BY <1>6
  <2>2. received <= c + n
    BY <1>1, <1>2, <1>3, <2>1 DEF Chain
  <2>3. received = c + n
    BY <2>2
  <2>4. Pop(n) = <<>>
    BY <1>5, <1>6
  <2>5. Chain(<<>>, c + n, received)
    BY <2>3 DEF Chain
  <2> QED
    BY <1>1, <2>4, <2>5
<1>7. CASE left # {}
  <2>1. first \in left /\ \A j \in left : first <= j
    <3>1. left \subseteq Nat
      BY <1>3
    <3> HIDE DEF left
    <3> QED
      BY <1>7, <3>1, ChosenIsFirst
  <2> HIDE DEF first
  <2>2. first \in 1 .. Len(buffers) /\ buffers[first].hi > c + n
    BY <1>2, <1>3, <2>1
  <2>3. buffers[first].lo <= c + n + 1
    <3>1. CASE first = 1
      BY <1>1, <3>1
    <3>2. CASE first # 1
      <4>1. first - 1 \in 1 .. Len(buffers) - 1 /\ first - 1 \notin left
        BY <1>3, <2>1, <2>2, <3>2
      <4>2. buffers[first - 1].hi <= c + n
        BY <1>2, <1>3, <1>4, <4>1
      <4>3. buffers[(first - 1) + 1].lo = buffers[first - 1].hi + 1
        BY <4>1 DEF Chain
      <4>4. (first - 1) + 1 = first
        BY <2>2
      <4> QED
        BY <1>3, <1>4, <4>1, <4>2, <4>3, <4>4
    <3> QED
      BY <3>1, <3>2
  <2>4. /\ rest \in Seq(Interval) /\ Len(rest) = Len(buffers) - first + 1
        /\ \A i \in 1 .. Len(rest) : rest[i] = buffers[first + i - 1]
    BY <1>3, <2>2, SubSeqProperties
  <2> HIDE DEF rest
  <2> DEFINE lo == IF buffers[first].lo > end THEN buffers[first].lo ELSE end + 1
  <2>5. lo = c + n + 1
    <3>1. buffers[first].lo \in Nat
      BY <1>4, <2>2
    <3> HIDE DEF end
    <3> QED
      BY <1>2, <2>3, <3>1
  <2>6. rest[1] = buffers[first] /\ 1 \in 1 .. Len(rest) /\ Len(rest) \in Nat
    BY <1>3, <2>2, <2>4
  <2>7. cut = [rest EXCEPT ![1] = [rest[1] EXCEPT !.lo = lo]]
    BY <2>4, <2>6
  <2>8. [rest[1] EXCEPT !.lo = lo] \in Interval
    <3>1. rest[1] \in Interval /\ lo \in Nat
      BY <1>3, <2>2, <2>5, <2>6
    <3> HIDE DEF lo
    <3> QED
      BY <3>1 DEF Interval
  <2> HIDE DEF lo, cut
  <2>9. /\ cut \in Seq(Interval) /\ Len(cut) = Len(rest)
        /\ \A i \in 1 .. Len(rest) :
             cut[i] = IF i = 1 THEN [rest[1] EXCEPT !.lo = lo] ELSE rest[i]
    BY <2>4, <2>6, <2>7, <2>8, ExceptSeq
  <2>10. cut[1].lo = c + n + 1 /\ cut[1].hi = buffers[first].hi
    <3>1. buffers[first] \in Interval /\ cut[1] = [buffers[first] EXCEPT !.lo = lo]
      BY <1>3, <2>2, <2>6, <2>9
    <3> QED
      BY <2>5, <3>1 DEF Interval
  <2>11. \A i \in 1 .. Len(cut) : cut[i].hi = buffers[first + i - 1].hi
    <3>1. TAKE i \in 1 .. Len(cut)
    <3>2. CASE i = 1
      BY <2>2, <2>10, <3>2
    <3>3. CASE i # 1
      <4>1. cut[i] = rest[i]
        BY <2>9, <3>3
      <4> QED
        BY <2>4, <2>9, <4>1
    <3> QED
      BY <3>2, <3>3
  <2>12. \A i \in 2 .. Len(cut) : cut[i].lo = buffers[first + i - 1].lo
    <3>1. TAKE i \in 2 .. Len(cut)
    <3>2. cut[i] = rest[i]
      BY <2>6, <2>9
    <3> QED
      BY <2>4, <2>6, <2>9, <3>2
  <2>13. \A i \in 1 .. Len(cut) : cut[i].lo <= cut[i].hi
    <3>1. TAKE i \in 1 .. Len(cut)
    <3>2. CASE i = 1
      BY <1>4, <2>2, <2>10, <3>2
    <3>3. CASE i # 1
      <4>1. first + i - 1 \in 1 .. Len(buffers) /\ i \in 2 .. Len(cut)
        BY <1>3, <2>2, <2>4, <2>9, <3>3
      <4> QED
        BY <2>11, <2>12, <4>1 DEF Chain
    <3> QED
      BY <3>2, <3>3
  <2>14. \A i \in 1 .. Len(cut) - 1 : cut[i + 1].lo = cut[i].hi + 1
    <3>1. TAKE i \in 1 .. Len(cut) - 1
    <3>2. /\ first + i - 1 \in 1 .. Len(buffers) - 1 /\ i + 1 \in 2 .. Len(cut)
          /\ first + (i + 1) - 1 = (first + i - 1) + 1 /\ i \in 1 .. Len(cut)
      <4>1. Len(cut) = Len(buffers) - first + 1
        BY <2>4, <2>9
      <4>2. Len(buffers) \in Nat /\ first \in 1 .. Len(buffers)
        BY <1>3, <2>2
      <4> QED
        BY <4>1, <4>2
    <3> QED
      BY <2>11, <2>12, <3>2 DEF Chain
  <2>15. cut[Len(cut)].hi = received
    <3>1. first + Len(cut) - 1 = Len(buffers) /\ Len(cut) \in 1 .. Len(cut)
      BY <1>3, <2>2, <2>4, <2>6, <2>9
    <3> QED
      BY <1>1, <2>11, <3>1 DEF Chain
  <2>16. cut # <<>>
    BY <2>6, <2>9
  <2>17. LeftOf(buffers, cut)
    <3>1. \A i \in 1 .. Len(cut) : cut[i].lo >= buffers[first + i - 1].lo
      <4>1. TAKE i \in 1 .. Len(cut)
      <4>2. CASE i = 1
        <5>1. cut[i].lo = c + n + 1 /\ first + i - 1 = first
          BY <2>2, <2>10, <4>2
        <5> QED
          BY <1>4, <2>2, <2>3, <5>1
      <4>3. CASE i # 1
        <5>1. i \in 2 .. Len(cut) /\ first + i - 1 \in 1 .. Len(buffers)
          BY <1>3, <2>2, <2>4, <2>9, <4>3
        <5> QED
          BY <1>4, <2>12, <5>1
      <4> QED
        BY <4>2, <4>3
    <3>2. Len(cut) = Len(buffers) - first + 1 /\ \A i \in 1 .. Len(cut) : i > 1 => i \in 2 .. Len(cut)
      BY <2>4, <2>9
    <3> QED
      BY <2>2, <2>11, <2>12, <3>1, <3>2 DEF LeftOf
  <2>18. Chain(cut, c + n, received)
    BY <2>10, <2>13, <2>14, <2>15, <2>16 DEF Chain
  <2> QED
    BY <1>1, <1>5, <1>7, <2>9, <2>17, <2>18
<1> QED
  BY <1>6, <1>7

-----------------------------------------------------------------------------
(* Parts of steps.                                                         *)
Written0 == [req : Nat, what : {"whole", "head", "data", "end"}]
Popped == [what : {"head", "body"}, req : Nat, lo : Nat, hi : Nat]

LEMMA Same ==
  ASSUME UNCHANGED setting
  PROVE  script' = script /\ Last' = Last /\ \A k : First(k)' = First(k)
BY DEF script, Last, First

LEMMA CutType ==
  ASSUME TypeOK
  PROVE  Cut \in Nat
<1>1. CASE popped = <<>>
  BY <1>1 DEF Cut
<1>2. CASE popped # <<>>
  <2>1. popped \in Seq(Popped) /\ Len(popped) \in 1 .. Len(popped)
    BY <1>2 DEF TypeOK, Popped
  <2>2. popped[Len(popped)] \in Popped
    BY <2>1, ElementOfSeq
  <2> QED
    BY <1>2, <2>2 DEF Cut, Popped
<1> QED
  BY <1>1, <1>2

(* Cutting n bytes out.                                                    *)
LEMMA PopStep ==
  ASSUME TypeOK, Chained, NEW n \in Nat, n >= 1, n <= received - Cut,
         NEW what \in {"head", "body"}, NEW k \in Nat,
         buffers' = Pop(n), popped' = Append(popped, Taken(what, k, n)), UNCHANGED received
  PROVE  /\ buffers' \in Seq(Interval) /\ popped' \in Seq(Popped)
         /\ Chained' /\ Cut' = Cut + n
         /\ buffers # <<>> /\ buffers[1].lo = Cut + 1
         /\ buffers' # <<>> => LeftOf(buffers, buffers')
<1>1. Cut \in Nat /\ received \in Nat /\ buffers \in Seq(Interval) /\ popped \in Seq(Popped)
  BY CutType DEF TypeOK, Popped
<1>2. /\ buffers # <<>> /\ buffers[1].lo = Cut + 1
      /\ Pop(n) \in Seq(Interval) /\ Chain(Pop(n), Cut + n, received)
      /\ Pop(n) # <<>> => LeftOf(buffers, Pop(n))
  BY <1>1, PopChain DEF Chained
<1> DEFINE t == Taken(what, k, n)
<1>3. t \in Popped /\ t.lo = Cut + 1 /\ t.hi = Cut + n /\ t.lo <= t.hi
  BY <1>1, <1>2 DEF Taken, Popped
<1> HIDE DEF t
<1>4. popped' = Append(popped, t)
  BY DEF t
<1>5. Append(popped, t) \in Seq(Popped) /\ Chain(Append(popped, t), 0, t.hi)
  BY <1>1, <1>3, ChainGrows, AppendProperties DEF Chained
<1>6. Cut' = t.hi
  <2>1. /\ Len(popped') = Len(popped) + 1 /\ popped' # <<>>
        /\ popped'[Len(popped) + 1] = t
    BY <1>1, <1>3, <1>4, AppendProperties
  <2> QED
    BY <2>1 DEF Cut
<1>7. Chain(popped, 0, Cut)' /\ Chain(buffers, Cut, received)'
  BY <1>2, <1>3, <1>4, <1>5, <1>6 DEF Chain
<1> QED
  BY <1>2, <1>3, <1>4, <1>5, <1>6, <1>7 DEF Chained

(* The request that is answered comes behind those whose responses have    *)
(* begun: the response is then written whole or opened.                    *)
LEMMA RespondStep ==
  ASSUME setting \in Settings, TypeOK, UNCHANGED setting, NEW k \in DOMAIN script,
         streaming = 0, \A i \in 1 .. Len(out) : out[i].req < k,
         NEW skipped \in BOOLEAN, NEW next \in {"restart", "scan"}, Respond(k, skipped, next)
  PROVE  /\ out' \in Seq(Written0) /\ generated' \subseteq DOMAIN script /\ UNCHANGED broken
         /\ streaming' \in {0, k} /\ at' \in {"restart", "scan"}
         /\ streaming' # 0 => at' = "restart"
         /\ \A i \in 1 .. Len(out') : out'[i].req = k \/ \E j \in 1 .. Len(out) : out'[i] = out[j]
         /\ Order!Next
<1>1. k \in Nat \ {0} /\ out \in Seq(Written0) /\ generated \subseteq DOMAIN script
  BY ScriptType DEF TypeOK, Written0
<1>2. Order!Later(k)
  BY DEF Order!Later
<1>3. \A w \in {"whole", "head"} :
        LET e == [req |-> k, what |-> w] IN
        /\ Append(out, e) \in Seq(Written0)
        /\ \A i \in 1 .. Len(Append(out, e)) :
             Append(out, e)[i].req = k \/ \E j \in 1 .. Len(out) : Append(out, e)[i] = out[j]
        /\ \E i \in DOMAIN Append(out, e) : Append(out, e)[i] = e
  <2>1. TAKE w \in {"whole", "head"}
  <2> DEFINE e == [req |-> k, what |-> w]
  <2>2. e \in Written0 /\ e.req = k
    BY <1>1 DEF Written0
  <2> HIDE DEF e
  <2>3. /\ Append(out, e) \in Seq(Written0) /\ Len(Append(out, e)) = Len(out) + 1
        /\ \A i \in 1 .. Len(out) : Append(out, e)[i] = out[i]
        /\ Append(out, e)[Len(out) + 1] = e /\ Len(out) \in Nat
    BY <1>1, <2>2, AppendProperties
  <2>4. DOMAIN Append(out, e) = 1 .. Len(out) + 1
    BY <2>3
  <2>5. \A i \in 1 .. Len(Append(out, e)) : i \in 1 .. Len(out) \/ i = Len(out) + 1
    BY <2>3
  <2>6. \E i \in DOMAIN Append(out, e) : Append(out, e)[i] = e
    <3>1. Len(out) + 1 \in DOMAIN Append(out, e)
      BY <2>3, <2>4
    <3> QED
      BY <2>3, <3>1
  <2>7. \A i \in 1 .. Len(Append(out, e)) :
          Append(out, e)[i].req = k \/ \E j \in 1 .. Len(out) : Append(out, e)[i] = out[j]
    BY <2>2, <2>3, <2>5
  <2> QED
    BY <2>3, <2>6, <2>7 DEF e
<1>4. CASE skipped \/ script[k].resp = "whole"
  <2> DEFINE e == [req |-> k, what |-> "whole"]
  <2>1. out' = Append(out, e) /\ at' = next /\ streaming' = 0 /\ UNCHANGED broken
    BY <1>4 DEF Respond
  <2>2. generated' \subseteq DOMAIN script
    BY <1>1 DEF Respond
  <2>3. Order!Whole
    <3>1. \E i \in DOMAIN out' : out'[i] = e
      BY <1>3, <2>1
    <3>2. k \in {x.req : x \in {out'[i] : i \in DOMAIN out'}}
      <4>1. e.req = k
        OBVIOUS
      <4> HIDE DEF e
      <4> QED
        BY <3>1, <4>1
    <3> QED
      BY <1>1, <1>2, <2>1, <3>2 DEF Order!Whole
  <2> QED
    BY <1>3, <2>1, <2>2, <2>3 DEF Order!Next
<1>5. CASE ~(skipped \/ script[k].resp = "whole")
  <2> DEFINE e == [req |-> k, what |-> "head"]
  <2>1. out' \in {out, Append(out, e)} /\ streaming' = k /\ at' = "restart" /\ UNCHANGED broken
    BY <1>5 DEF Respond
  <2>2. generated' \subseteq DOMAIN script
    BY <1>1 DEF Respond
  <2>3. Order!Open
    BY <1>1, <1>2, <2>1 DEF Order!Open, Order!Later
  <2>4. \A i \in 1 .. Len(out') : out'[i].req = k \/ \E j \in 1 .. Len(out) : out'[i] = out[j]
    BY <1>3, <2>1
  <2>5. out' \in Seq(Written0)
    BY <1>1, <1>3, <2>1
  <2> QED
    BY <2>1, <2>2, <2>3, <2>4, <2>5 DEF Order!Next
<1> QED
  BY <1>4, <1>5

LEMMA RequestAtIs ==
  ASSUME setting \in Settings, NEW p
  PROVE  /\ RequestAt(p) \in Nat
         /\ RequestAt(p) # 0 => RequestAt(p) \in DOMAIN script /\ First(RequestAt(p)) = p
<1>1. CASE \E k \in DOMAIN script : First(k) = p
  <2>1. RequestAt(p) \in DOMAIN script /\ First(RequestAt(p)) = p
    BY <1>1 DEF RequestAt
  <2> QED
    BY <2>1, ScriptType
<1>2. CASE ~\E k \in DOMAIN script : First(k) = p
  BY <1>2 DEF RequestAt
<1> QED
  BY <1>1, <1>2

(* A match ends behind what was cut out; cutting takes what is up to it.   *)
LEMMA HitFacts ==
  ASSUME IInv, at = "scan", Hits # {}
  PROVE  /\ FirstHit \in Hits /\ FirstHit >= Cut + 1 /\ FirstHit <= received
         /\ req_size = FirstHit - Cut /\ req_size \in Nat
         /\ Resume(FirstHit) \in FirstHit + 1 .. received + 1
<1>1. /\ read_buf \in Nat /\ read_buf_len \in Nat /\ received \in Nat /\ seen \in Nat
      /\ buffers \in Seq(Interval) /\ Cut \in Nat
      /\ read_buf + read_buf_len = received + 1 /\ seen >= Cut + 1
  BY CutType DEF IInv, TypeOK, Scanned
<1>2. Hits \subseteq Nat
  BY <1>1 DEF Hits
<1>3. FirstHit \in Hits
  <2> HIDE DEF Hits
  <2> QED
    BY <1>2, ChosenIsFirst DEF FirstHit
<1>4. FirstHit \in Nat /\ FirstHit >= Cut + 1 /\ FirstHit <= received
  BY <1>1, <1>3 DEF Hits
<1>5. Size = received - Cut
  BY <1>1, SizeIs DEF IInv, Chained
<1>6. req_size = FirstHit - Cut
  BY <1>1, <1>4, <1>5 DEF req_size
<1> DEFINE after == {q \in FirstHit + 1 .. received : Char(q) # setting.beyond}
<1>7. Resume(FirstHit) \in FirstHit + 1 .. received + 1
  <2>1. CASE after = {}
    BY <1>1, <1>4, <2>1 DEF Resume
  <2>2. CASE after # {}
    <3>1. after \subseteq Nat /\ after \subseteq FirstHit + 1 .. received + 1
      BY <1>1, <1>4
    <3>2. Resume(FirstHit) = CHOOSE q \in after : \A r \in after : q <= r
      BY <2>2 DEF Resume
    <3> HIDE DEF after
    <3>3. Resume(FirstHit) \in after
      BY <2>2, <3>1, <3>2, ChosenIsFirst
    <3> QED
      BY <3>1, <3>3
  <2> QED
    BY <2>1, <2>2
<1> QED
  BY <1>1, <1>3, <1>4, <1>6, <1>7

-----------------------------------------------------------------------------
(* The steps.                                                              *)
LEMMA InitIInv == Init => IInv
<1> SUFFICES ASSUME Init PROVE IInv
  OBVIOUS
<1>1. DOMAIN script = 1 .. Len(script) /\ Len(script) \in Nat
  BY ScriptType DEF Init
<1>2. /\ buffers = <<>> /\ out = <<>> /\ popped = <<>> /\ received = 0 /\ seen = 1 /\ at = "idle"
      /\ read_buf = 1 /\ read_buf_len = 0 /\ posting = 0 /\ streaming = 0 /\ skip = FALSE
      /\ generated = {} /\ taken_over = {} /\ broken = {}
  BY DEF Init
<1>3. TypeOK
  <2>1. \A S : <<>> \in Seq(S)
    OBVIOUS
  <2>2. /\ buffers \in Seq(Interval)
        /\ out \in Seq([req : Nat, what : {"whole", "head", "data", "end"}])
        /\ popped \in Seq([what : {"head", "body"}, req : Nat, lo : Nat, hi : Nat])
    BY <1>2, <2>1
  <2>3. /\ received \in Nat /\ at \in {"idle", "restart", "scan", "closed"}
        /\ read_buf \in Nat /\ read_buf_len \in Nat /\ seen \in 1 .. received + 1
        /\ posting \in 0 .. Len(script) /\ streaming \in 0 .. Len(script)
    BY <1>1, <1>2
  <2>4. generated \subseteq DOMAIN script /\ taken_over \subseteq DOMAIN script
        /\ broken \subseteq DOMAIN script
    BY <1>2
  <2>5. skip \in BOOLEAN
    BY <1>2
  <2> QED
    BY <2>2, <2>3, <2>4, <2>5 DEF TypeOK
<1>4. Chained /\ Scanned /\ Alternate /\ InTurn
  BY <1>2 DEF Chained, Chain, Cut, Scanned, Alternate, InTurn
<1> QED
  BY <1>3, <1>4 DEF Init, IInv

(* Returns, which change nothing but where the handler is.                 *)
LEMMA ReturnStep ==
  ASSUME IInv, PostWaits \/ StreamActive \/ ScanEnds \/ ClientCloses
  PROVE  IInv' /\ UNCHANGED <<out, streaming>>
<1>1. /\ UNCHANGED reading /\ UNCHANGED setting /\ UNCHANGED requests /\ UNCHANGED answers
      /\ at' \in {"idle", "closed"}
  BY DEF PostWaits, StreamActive, ScanEnds, ClientCloses
<1> USE <1>1 DEF reading, requests, answers
<1>2. TypeOK'
  BY Same DEF IInv, TypeOK
<1>3. Chained' /\ Scanned'
  BY DEF IInv, Chained, Chain, Cut, Scanned
<1>4. Alternate' /\ InTurn'
  BY Same DEF IInv, Alternate, InTurn, Begun, Cut
<1> QED
  BY <1>2, <1>3, <1>4 DEF IInv

LEMMA IdleStep ==
  ASSUME IInv, UNCHANGED vars
  PROVE  IInv' /\ UNCHANGED <<out, streaming>>
<1> USE DEF vars
<1>1. TypeOK'
  BY Same DEF IInv, TypeOK
<1>2. Chained' /\ Scanned'
  BY DEF IInv, Chained, Chain, Cut, Scanned
<1>3. Alternate' /\ InTurn'
  BY Same DEF IInv, Alternate, InTurn, Begun, Cut
<1> QED
  BY <1>1, <1>2, <1>3 DEF IInv

LEMMA ReadStep ==
  ASSUME IInv, NEW n \in Nat \ {0}, Read(n)
  PROVE  IInv' /\ UNCHANGED <<out, streaming>>
<1>1. UNCHANGED setting /\ UNCHANGED requests /\ UNCHANGED answers /\ UNCHANGED <<seen, popped>>
  BY DEF Read
<1> USE <1>1 DEF requests, answers
<1> DEFINE e == [lo |-> received + 1, hi |-> received + n]
<1>2. received \in Nat /\ buffers \in Seq(Interval) /\ seen \in Nat /\ seen >= 1 /\ seen <= received + 1
  BY DEF IInv, TypeOK
<1>3. /\ buffers' = Append(buffers, e) /\ received' = received + n
      /\ read_buf' = received + 1 /\ read_buf_len' = n /\ at' = "restart"
  BY DEF Read
<1>4. e \in Interval /\ e.lo = received + 1 /\ e.lo <= e.hi /\ e.hi = received + n
  BY <1>2 DEF Interval
<1> HIDE DEF e
<1>5. buffers' \in Seq(Interval) /\ Chain(buffers', Cut, received')
  <2>1. Append(buffers, e) \in Seq(Interval)
    BY <1>2, <1>4, AppendProperties
  <2>2. Chain(Append(buffers, e), Cut, e.hi)
    BY <1>2, <1>4, ChainGrows DEF IInv, Chained
  <2> QED
    BY <1>3, <1>4, <2>1, <2>2
<1>6. TypeOK'
  BY <1>2, <1>3, <1>5, Same DEF IInv, TypeOK
<1>7. Chained'
  BY <1>5 DEF IInv, Chained, Chain, Cut
<1>8. Scanned'
  BY <1>2, <1>3 DEF Scanned
<1>9. Alternate' /\ InTurn'
  BY <1>3, Same DEF IInv, Alternate, InTurn, Begun, Cut
<1> QED
  BY <1>6, <1>7, <1>8, <1>9 DEF IInv

LEMMA StartScanStep ==
  ASSUME IInv, StartScan
  PROVE  IInv' /\ UNCHANGED <<out, streaming>>
<1>1. /\ UNCHANGED <<received, buffers, popped>> /\ UNCHANGED setting
      /\ UNCHANGED requests /\ UNCHANGED answers /\ posting = 0 /\ streaming = 0
  BY DEF StartScan
<1> USE <1>1 DEF requests, answers
<1>2. /\ received \in Nat /\ buffers \in Seq(Interval) /\ Cut \in Nat
      /\ read_buf \in Nat /\ read_buf_len \in Nat /\ read_buf >= 1
      /\ read_buf + read_buf_len = received + 1 /\ seen \in 1 .. received + 1
  BY CutType DEF IInv, TypeOK, Scanned
<1>3. Size = received - Cut /\ Size \in Nat
  BY <1>2, SizeIs DEF IInv, Chained
<1>4. /\ read_buf' = read_buf + Shrunk /\ read_buf_len' = read_buf_len - Shrunk
      /\ Shrunk \in Nat /\ read_buf_len' \in Nat /\ read_buf' \in Nat
      /\ read_buf' + read_buf_len' = received + 1 /\ read_buf' >= 1
      /\ read_buf' >= Cut + 1
  BY <1>2, <1>3 DEF StartScan, Shrunk
<1>5. ASSUME read_buf_len' # 0
      PROVE  SeenBefore(read_buf') \in Cut + 1 .. received + 1
  <2>1. buffers # <<>>
    <3>1. Cut # received
      BY <1>2, <1>4, <1>5
    <3> QED
      BY <3>1 DEF IInv, Chained, Chain
  <2>2. Len(buffers) \in Nat \ {0} /\ buffers[Len(buffers)].hi = received
    BY <1>2, <2>1 DEF IInv, Chained, Chain
  <2>3. \A j \in 1 .. Len(buffers) :
          /\ buffers[j].lo \in Nat /\ buffers[j].hi \in Nat
          /\ buffers[j].lo >= Cut + 1 /\ buffers[j].lo <= buffers[j].hi
    <3>1. TAKE j \in 1 .. Len(buffers)
    <3>2. buffers[j] \in Interval
      BY <1>2, ElementOfSeq
    <3>3. buffers[j].lo >= Cut + 1
      BY <1>2, ChainLow DEF IInv, Chained
    <3> QED
      BY <3>2, <3>3 DEF IInv, Chained, Chain, Interval
  <2> DEFINE i == IF buffers[Len(buffers)].lo = read_buf' THEN Len(buffers) - 1 ELSE Len(buffers)
             last == IF buffers[i].hi - 2 < buffers[i].lo THEN buffers[i].lo ELSE buffers[i].hi - 2
  <2>4. SeenBefore(read_buf') = IF i = 0 THEN read_buf' ELSE last
    BY DEF SeenBefore
  <2>5. i \in {Len(buffers) - 1, Len(buffers)} /\ i \in 0 .. Len(buffers)
    BY <2>2
  <2> HIDE DEF i
  <2>6. i # 0 => buffers[i].hi <= received
    <3>1. CASE i = Len(buffers)
      BY <1>2, <2>2, <3>1
    <3>2. CASE i # Len(buffers) /\ i # 0
      <4>1. i = Len(buffers) - 1 /\ i \in 1 .. Len(buffers) - 1 /\ i + 1 = Len(buffers)
        BY <2>2, <2>5, <3>2
      <4>2. buffers[i + 1].lo = buffers[i].hi + 1
        BY <4>1 DEF IInv, Chained, Chain
      <4>3. buffers[Len(buffers)].lo <= received /\ buffers[i].hi \in Nat
        BY <2>2, <2>3, <4>1
      <4> QED
        BY <1>2, <4>1, <4>2, <4>3
    <3> QED
      BY <3>1, <3>2
  <2>7. i # 0 => last \in Cut + 1 .. received + 1
    BY <1>2, <2>3, <2>5, <2>6
  <2> HIDE DEF last
  <2> QED
    BY <1>2, <1>4, <1>5, <2>4, <2>7
<1>6. /\ at' \in {"idle", "scan"} /\ seen' \in 1 .. received + 1
      /\ at' = "scan" => seen' >= Cut + 1
  <2>1. CASE read_buf_len' = 0
    BY <1>2, <2>1 DEF StartScan
  <2>2. CASE read_buf_len' # 0
    <3>1. seen' = SeenBefore(read_buf') /\ at' = "scan"
      BY <2>2 DEF StartScan
    <3> QED
      BY <1>2, <1>5, <2>2, <3>1
  <2> QED
    BY <2>1, <2>2
<1>7. TypeOK'
  BY <1>4, <1>6, Same DEF IInv, TypeOK
<1>8. Cut' = Cut
  BY DEF Cut
<1>9. Chained'
  BY <1>8 DEF IInv, Chained, Chain
<1>10. Scanned'
  BY <1>4, <1>6, <1>8 DEF Scanned
<1>11. Alternate' /\ InTurn'
  BY <1>6, <1>8, Same DEF IInv, Alternate, InTurn, Begun
<1> QED
  BY <1>7, <1>9, <1>10, <1>11 DEF IInv

(* Once begun, a request stays behind what was cut out.                    *)
LEMMA BegunKeeps ==
  ASSUME IInv, UNCHANGED setting, NEW n \in Nat, Cut' = Cut + n, NEW k, Begun(k)
  PROVE  Begun(k)' /\ First(k)' = First(k)
<1>1. script' = script /\ First(k)' = First(k)
  BY Same
<1>2. Cut \in Nat /\ First(k) \in Nat
  <2>1. script \in Scripts /\ k - 1 \in 0 .. Len(script)
    BY ScriptType DEF IInv, Begun
  <2>2. Ends[script][k - 1] \in Nat
    BY <2>1, EndsDefined
  <2> QED
    BY <2>2, CutType DEF IInv, First, Last
<1> QED
  BY <1>1, <1>2 DEF Begun

LEMMA BodyFacts ==
  ASSUME IInv, posting # 0, BodyArrived
  PROVE  /\ posting \in DOMAIN script /\ posting \in Nat /\ streaming = 0 /\ Begun(posting)
         /\ script[posting].body \in Nat /\ script[posting].body >= 1
         /\ script[posting].body <= received - Cut
<1>1. posting \in DOMAIN script /\ posting \in Nat /\ script[posting].body \in Nat
  BY ScriptType DEF IInv, TypeOK
<1>2. streaming = 0 /\ script[posting].body > 0 /\ Begun(posting)
  BY DEF IInv, Alternate, InTurn
<1>3. Size = received - Cut
  BY SizeIs, CutType DEF IInv, TypeOK, Chained
<1> QED
  BY <1>1, <1>2, <1>3 DEF BodyArrived

LEMMA PostRefusedStep ==
  ASSUME IInv, PostRefused
  PROVE  IInv' /\ UNCHANGED <<out, streaming>>
<1> DEFINE n == script[posting].body
<1>1. /\ UNCHANGED <<received, read_buf, read_buf_len, seen>> /\ UNCHANGED setting
      /\ UNCHANGED requests /\ UNCHANGED answers /\ at' = "closed"
      /\ buffers' = Pop(n) /\ popped' = Append(popped, Taken("body", posting, n))
  BY DEF PostRefused
<1> USE <1>1 DEF requests, answers
<1>2. posting \in Nat /\ n \in Nat /\ n >= 1 /\ n <= received - Cut
  BY BodyFacts DEF PostRefused
<1> HIDE DEF n
<1>3. /\ buffers' \in Seq(Interval) /\ popped' \in Seq(Popped)
      /\ Chained' /\ Cut' = Cut + n
  <2>1. TypeOK /\ Chained /\ "body" \in {"head", "body"}
    BY DEF IInv
  <2> QED
    BY <1>1, <1>2, <2>1, PopStep
<1>4. TypeOK'
  BY <1>3, Same DEF IInv, TypeOK, Popped
<1>5. Scanned'
  BY DEF IInv, Scanned
<1>6. \A k : Begun(k) => Begun(k)'
  BY <1>2, <1>3, BegunKeeps
<1>7. Alternate' /\ InTurn'
  BY <1>6, Same DEF IInv, Alternate, InTurn
<1> QED
  BY <1>3, <1>4, <1>5, <1>7 DEF IInv

LEMMA PostCompleteStep ==
  ASSUME IInv, PostComplete
  PROVE  IInv' /\ Order!Next
<1> DEFINE n == script[posting].body
           k == posting
<1>1. /\ UNCHANGED <<received, read_buf, read_buf_len, seen, skip, taken_over>>
      /\ UNCHANGED setting /\ posting' = 0 /\ posting # 0
      /\ buffers' = Pop(n) /\ popped' = Append(popped, Taken("body", k, n))
      /\ Respond(k, skip, "restart")
  BY DEF PostComplete
<1> USE <1>1
<1>2. /\ k \in Nat /\ k \in DOMAIN script /\ n \in Nat /\ n >= 1 /\ n <= received - Cut
      /\ streaming = 0 /\ Begun(k)
  BY BodyFacts DEF PostComplete
<1> HIDE DEF n
<1>3. /\ buffers' \in Seq(Interval) /\ popped' \in Seq(Popped)
      /\ Chained' /\ Cut' = Cut + n
  <2>1. TypeOK /\ Chained /\ "body" \in {"head", "body"}
    BY DEF IInv
  <2> QED
    BY <1>1, <1>2, <2>1, PopStep
<1>4. \A i \in 1 .. Len(out) : out[i].req < k
  BY DEF IInv, InTurn
<1>5. /\ out' \in Seq(Written0) /\ generated' \subseteq DOMAIN script /\ UNCHANGED broken
      /\ streaming' \in {0, k} /\ at' \in {"restart", "scan"}
      /\ streaming' # 0 => at' = "restart"
      /\ \A i \in 1 .. Len(out') : out'[i].req = k \/ \E j \in 1 .. Len(out) : out'[i] = out[j]
      /\ Order!Next
  <2>1. skip \in BOOLEAN /\ setting \in Settings /\ TypeOK /\ "restart" \in {"restart", "scan"}
    BY DEF IInv, TypeOK
  <2> HIDE DEF k
  <2> QED
    BY <1>1, <1>2, <1>4, <2>1, RespondStep
<1>6. at' = "restart"
  BY DEF Respond
<1>7. TypeOK'
  <2>1. streaming' \in 0 .. Len(script)
    BY <1>2, <1>5, ScriptType DEF IInv, TypeOK
  <2>2. posting' \in 0 .. Len(script)
    BY ScriptType DEF IInv
  <2> QED
    BY <1>3, <1>5, <2>1, <2>2, Same DEF IInv, TypeOK, Popped, Written0
<1>8. Scanned'
  BY <1>6 DEF IInv, Scanned
<1>9. \A j : Begun(j) => Begun(j)'
  BY <1>2, <1>3, BegunKeeps
<1>10. Alternate'
  BY <1>6 DEF Alternate
<1>11. InTurn'
  <2>1. \A j : Begun(j) => j \in DOMAIN script' /\ Last'[j - 1] + 1 <= Cut'
    BY <1>9 DEF Begun, First
  <2>2. \A i \in 1 .. Len(out') : Begun(out'[i].req)
    BY <1>2, <1>5 DEF IInv, InTurn
  <2>3. (\A i \in 1 .. Len(out) : Begun(out[i].req))'
    BY <2>1, <2>2 DEF Begun, First
  <2>4. (streaming # 0 => Begun(streaming))'
    BY <1>2, <1>5, <2>1 DEF Begun, First
  <2> QED
    BY <2>3, <2>4 DEF InTurn
<1> QED
  BY <1>3, <1>5, <1>7, <1>8, <1>10, <1>11 DEF IInv

(* The bytes a match cuts out, and the request that stands in front.       *)
LEMMA RequestFacts ==
  ASSUME IInv, at = "scan", Hits # {}
  PROVE  /\ req_size \in Nat /\ req_size >= 1 /\ req_size <= received - Cut
         /\ buffers # <<>> /\ buffers[1].lo = Cut + 1
         /\ RequestAt(buffers[1].lo) \in Nat
         /\ RequestAt(buffers[1].lo) # 0 =>
              /\ RequestAt(buffers[1].lo) \in DOMAIN script
              /\ First(RequestAt(buffers[1].lo)) = Cut + 1
              /\ \A i \in 1 .. Len(out) : out[i].req < RequestAt(buffers[1].lo)
<1>1. /\ Cut \in Nat /\ received \in Nat /\ buffers \in Seq(Interval)
      /\ Chain(buffers, Cut, received) /\ setting \in Settings
  BY CutType DEF IInv, TypeOK, Chained
<1>2. /\ FirstHit \in Hits /\ FirstHit >= Cut + 1 /\ FirstHit <= received
      /\ req_size = FirstHit - Cut /\ req_size \in Nat
      /\ Resume(FirstHit) \in FirstHit + 1 .. received + 1
  BY HitFacts
<1>3. FirstHit \in Int
  <2>1. read_buf \in Nat /\ read_buf_len \in Nat
    BY DEF IInv, TypeOK
  <2> QED
    BY <1>2, <2>1 DEF Hits
<1>4. req_size >= 1 /\ req_size <= received - Cut
  BY <1>1, <1>2, <1>3
<1>5. buffers # <<>> /\ buffers[1].lo = Cut + 1
  BY <1>1, <1>2, <1>4, PopChain
<1> DEFINE k == RequestAt(buffers[1].lo)
<1>6. k \in Nat /\ (k # 0 => k \in DOMAIN script /\ First(k) = buffers[1].lo)
  BY <1>1, RequestAtIs
<1> HIDE DEF k
<1>7. ASSUME k # 0, NEW i \in 1 .. Len(out) PROVE out[i].req < k
  <2>1. Begun(out[i].req)
    BY DEF IInv, InTurn
  <2>2. out[i].req \in DOMAIN script /\ First(out[i].req) <= Cut
    BY <2>1 DEF Begun
  <2>3. First(out[i].req) \in Nat
    <3>1. script \in Scripts /\ out[i].req - 1 \in 0 .. Len(script)
      BY <1>1, <2>2, ScriptType
    <3>2. Ends[script][out[i].req - 1] \in Nat
      BY <3>1, EndsDefined
    <3> QED
      BY <3>2 DEF First, Last
  <2>4. First(out[i].req) < First(k)
    BY <1>1, <1>5, <1>6, <1>7, <2>2, <2>3
  <2> QED
    BY <1>1, <1>6, <1>7, <2>2, <2>4, FirstsInOrder
<1> QED
  BY <1>2, <1>4, <1>5, <1>6, <1>7 DEF k

LEMMA RequestRefusedStep ==
  ASSUME IInv, RequestRefused
  PROVE  IInv' /\ UNCHANGED <<out, streaming>>
<1> DEFINE n == req_size
           k == RequestAt(buffers[1].lo)
<1>1. /\ UNCHANGED <<received, read_buf, read_buf_len, seen>> /\ UNCHANGED setting
      /\ UNCHANGED requests /\ UNCHANGED answers /\ at' = "closed"
      /\ buffers' = Pop(n) /\ popped' = Append(popped, Taken("head", k, n))
  BY DEF RequestRefused
<1> USE <1>1 DEF requests, answers
<1>2. k \in Nat /\ n \in Nat /\ n >= 1 /\ n <= received - Cut
  BY RequestFacts DEF RequestRefused
<1> HIDE DEF n, k
<1>3. /\ buffers' \in Seq(Interval) /\ popped' \in Seq(Popped)
      /\ Chained' /\ Cut' = Cut + n
  <2>1. TypeOK /\ Chained /\ "head" \in {"head", "body"}
    BY DEF IInv
  <2> QED
    BY <1>1, <1>2, <2>1, PopStep
<1>4. TypeOK'
  BY <1>3, Same DEF IInv, TypeOK, Popped
<1>5. Scanned'
  BY DEF IInv, Scanned
<1>6. \A j : Begun(j) => Begun(j)'
  BY <1>2, <1>3, BegunKeeps
<1>7. Alternate' /\ InTurn'
  BY <1>6, Same DEF IInv, Alternate, InTurn
<1> QED
  BY <1>3, <1>4, <1>5, <1>7 DEF IInv

LEMMA RequestStep ==
  ASSUME IInv, NEW skipped \in BOOLEAN, Request(skipped)
  PROVE  IInv' /\ (Order!Next \/ UNCHANGED <<out, streaming>>)
<1> DEFINE n == req_size
           k == RequestAt(buffers[1].lo)
<1>1. /\ UNCHANGED <<received, read_buf, read_buf_len>> /\ UNCHANGED setting
      /\ at = "scan" /\ Hits # {} /\ k # 0
      /\ buffers' = Pop(n) /\ popped' = Append(popped, Taken("head", k, n))
      /\ seen' = Resume(FirstHit)
      /\ taken_over' = IF skipped THEN taken_over \union {k} ELSE taken_over
      /\ \/ HasBody(k) /\ posting' = k /\ skip' = skipped /\ at' = "restart" /\ UNCHANGED answers
         \/ Respond(k, skipped, "scan") /\ UNCHANGED <<posting, skip>>
  BY DEF Request
<1> USE <1>1
<1>2. /\ k \in Nat /\ k \in DOMAIN script /\ First(k) = Cut + 1
      /\ n \in Nat /\ n >= 1 /\ n <= received - Cut
      /\ \A i \in 1 .. Len(out) : out[i].req < k
  BY RequestFacts
<1>3. seen' \in FirstHit + 1 .. received + 1 /\ n = FirstHit - Cut /\ FirstHit \in Nat
  <2>1. FirstHit \in Hits /\ read_buf \in Nat /\ read_buf_len \in Nat
    BY HitFacts DEF IInv, TypeOK
  <2> QED
    BY <2>1, HitFacts DEF Hits
<1> HIDE DEF n, k
<1>4. /\ buffers' \in Seq(Interval) /\ popped' \in Seq(Popped)
      /\ Chained' /\ Cut' = Cut + n
  <2>1. TypeOK /\ Chained /\ "head" \in {"head", "body"}
    BY DEF IInv
  <2> QED
    BY <1>2, <2>1, PopStep
<1>5. Cut \in Nat /\ received \in Nat /\ setting \in Settings /\ TypeOK
  BY CutType DEF IInv, TypeOK
<1>6. posting = 0 /\ streaming = 0
  BY DEF IInv, Alternate
<1>7. \A j : Begun(j) => j \in DOMAIN script' /\ Last'[j - 1] + 1 <= Cut'
  <2>1. \A j : Begun(j) => Begun(j)'
    BY <1>2, <1>4, BegunKeeps
  <2> QED
    BY <2>1 DEF Begun, First
<1>8. k \in DOMAIN script' /\ Last'[k - 1] + 1 <= Cut'
  BY <1>2, <1>4, <1>5, Same DEF First
<1>9. seen' \in 1 .. received' + 1 /\ seen' >= Cut' + 1
  <2>1. Cut' = FirstHit
    BY <1>3, <1>4, <1>5
  <2>2. received' = received
    OBVIOUS
  <2> QED
    BY <1>3, <1>5, <2>1, <2>2
<1>10. taken_over' \subseteq DOMAIN script /\ script' = script
  BY <1>2, Same DEF IInv, TypeOK
<1>11. Scanned'
  BY <1>9 DEF IInv, Scanned
<1>12. CASE HasBody(k) /\ posting' = k /\ skip' = skipped /\ at' = "restart" /\ UNCHANGED answers
  <2> USE <1>12 DEF answers
  <2>1. TypeOK'
    <3>1. posting' \in 0 .. Len(script')
      BY <1>2, <1>5, <1>10, ScriptType
    <3> QED
      BY <1>4, <1>9, <1>10, <3>1 DEF IInv, TypeOK, Popped
  <2>2. Alternate'
    BY <1>6, <1>10 DEF Alternate, HasBody
  <2>3. InTurn'
    BY <1>2, <1>6, <1>7, <1>8 DEF IInv, InTurn, Begun, First
  <2> QED
    BY <1>4, <1>5, <1>11, <2>1, <2>2, <2>3 DEF IInv
<1>13. CASE Respond(k, skipped, "scan") /\ UNCHANGED <<posting, skip>>
  <2> USE <1>13
  <2>1. /\ out' \in Seq(Written0) /\ generated' \subseteq DOMAIN script /\ UNCHANGED broken
        /\ streaming' \in {0, k} /\ at' \in {"restart", "scan"}
        /\ streaming' # 0 => at' = "restart"
        /\ \A i \in 1 .. Len(out') : out'[i].req = k \/ \E j \in 1 .. Len(out) : out'[i] = out[j]
        /\ Order!Next
    <3>1. "scan" \in {"restart", "scan"}
      OBVIOUS
    <3> QED
      BY <1>2, <1>5, <1>6, <3>1, RespondStep
  <2>2. TypeOK'
    <3>1. streaming' \in 0 .. Len(script') /\ posting' \in 0 .. Len(script')
      BY <1>2, <1>5, <1>6, <1>10, <2>1, ScriptType
    <3> QED
      BY <1>4, <1>9, <1>10, <2>1, <3>1 DEF IInv, TypeOK, Popped, Written0
  <2>3. Alternate'
    BY <1>6, <2>1 DEF Alternate
  <2>4. InTurn'
    <3>1. \A i \in 1 .. Len(out') : Begun(out'[i].req) \/ out'[i].req = k
      BY <2>1 DEF IInv, InTurn
    <3>2. (\A i \in 1 .. Len(out) : Begun(out[i].req))'
      BY <1>7, <1>8, <3>1 DEF Begun, First
    <3>3. (streaming # 0 => Begun(streaming))'
      BY <1>8, <2>1 DEF Begun, First
    <3> QED
      BY <1>6, <3>2, <3>3 DEF InTurn
  <2> QED
    BY <1>4, <1>5, <1>11, <2>1, <2>2, <2>3, <2>4 DEF IInv
<1> QED
  BY <1>12, <1>13

(* The provider's steps continue or end the response that is open.         *)
LEMMA NotifyStep ==
  ASSUME IInv, Notify
  PROVE  IInv' /\ Order!Next
<1>1. /\ UNCHANGED reading /\ UNCHANGED setting /\ UNCHANGED requests /\ UNCHANGED <<at, generated>>
      /\ at = "idle" /\ streaming # 0 /\ streaming' \in {0, streaming}
      /\ broken' \in {broken, broken \union {streaming}}
      /\ out' \in {out} \union {Append(out, [req |-> streaming, what |-> w]) : w \in {"head", "data", "end"}}
      /\ Order!Next
  <2>1. CASE DelayFinish
    BY <2>1 DEF DelayFinish, Order!Next, Order!Part
  <2>2. CASE NotifyData
    BY <2>2 DEF NotifyData, Order!Next, Order!Part
  <2>3. CASE NotifyEnd
    BY <2>3 DEF NotifyEnd, Order!Next, Order!End
  <2>4. CASE NotifyFailed
    BY <2>4 DEF NotifyFailed, Order!Next, Order!End
  <2> QED
    BY <2>1, <2>2, <2>3, <2>4 DEF Notify
<1> USE <1>1 DEF reading, requests
<1>2. streaming \in Nat /\ streaming \in DOMAIN script /\ Begun(streaming) /\ posting = 0
  BY ScriptType DEF IInv, TypeOK, Alternate, InTurn
<1>3. out \in Seq(Written0)
  BY DEF IInv, TypeOK, Written0
<1>4. /\ out' \in Seq(Written0)
      /\ \A i \in 1 .. Len(out') :
           out'[i].req = streaming \/ \E j \in 1 .. Len(out) : out'[i] = out[j]
  <2>1. CASE out' = out
    BY <1>3, <2>1
  <2>2. ASSUME NEW w \in {"head", "data", "end"},
               out' = Append(out, [req |-> streaming, what |-> w])
        PROVE  /\ out' \in Seq(Written0)
               /\ \A i \in 1 .. Len(out') :
                    out'[i].req = streaming \/ \E j \in 1 .. Len(out) : out'[i] = out[j]
    <3> DEFINE e == [req |-> streaming, what |-> w]
    <3>1. e \in Written0 /\ e.req = streaming
      BY <1>2 DEF Written0
    <3> HIDE DEF e
    <3>2. /\ out' \in Seq(Written0) /\ Len(out') = Len(out) + 1 /\ Len(out) \in Nat
          /\ \A i \in 1 .. Len(out) : out'[i] = out[i]
          /\ out'[Len(out) + 1] = e
      BY <1>3, <2>2, <3>1, AppendProperties DEF e
    <3>3. \A i \in 1 .. Len(out') : i \in 1 .. Len(out) \/ i = Len(out) + 1
      BY <3>2
    <3> QED
      BY <3>1, <3>2, <3>3
  <2> QED
    BY <1>1, <2>1, <2>2
<1>5. Chained' /\ Scanned'
  BY DEF IInv, Chained, Chain, Cut, Scanned
<1>6. TypeOK'
  <2>1. streaming' \in 0 .. Len(script') /\ broken' \subseteq DOMAIN script'
    BY <1>2, ScriptType, Same DEF IInv, TypeOK
  <2> QED
    BY <1>4, <2>1, Same DEF IInv, TypeOK, Written0
<1>7. \A j : Begun(j) => j \in DOMAIN script' /\ Last'[j - 1] + 1 <= Cut'
  BY Same DEF Begun, First, Cut
<1>8. Alternate' /\ InTurn'
  <2>1. \A i \in 1 .. Len(out') : Begun(out'[i].req)
    BY <1>2, <1>4 DEF IInv, InTurn
  <2>2. (\A i \in 1 .. Len(out) : Begun(out[i].req))'
    BY <1>7, <2>1 DEF Begun, First
  <2>3. (streaming # 0 => Begun(streaming))'
    BY <1>2, <1>7 DEF Begun, First
  <2> QED
    BY <1>2, <2>2, <2>3 DEF Alternate, InTurn
<1> QED
  BY <1>1, <1>5, <1>6, <1>8 DEF IInv

(* Every step keeps the invariant and continues the responses in order.    *)
LEMMA StepIInv ==
  ASSUME IInv, [Next]_vars
  PROVE  IInv' /\ (Order!Next \/ UNCHANGED <<out, streaming>>)
<1>1. ASSUME NEW n \in 1 .. Limit, Read(n) PROVE IInv' /\ UNCHANGED <<out, streaming>>
  BY <1>1, ReadStep
<1>2. CASE Handle
  <2>1. ASSUME NEW s \in BOOLEAN, Request(s)
        PROVE  IInv' /\ (Order!Next \/ UNCHANGED <<out, streaming>>)
    BY <2>1, RequestStep
  <2> QED
    BY <1>2, <2>1, PostCompleteStep, PostRefusedStep, ReturnStep, StartScanStep,
       RequestRefusedStep DEF Handle
<1>3. CASE Notify
  BY <1>3, NotifyStep
<1>4. CASE ClientCloses
  BY <1>4, ReturnStep
<1>5. CASE UNCHANGED vars
  BY <1>5, IdleStep
<1> QED
  BY <1>1, <1>2, <1>3, <1>4, <1>5 DEF Next

(* What is cut out and what is buffered make one chain of intervals.       *)
LEMMA ChainsJoin ==
  ASSUME NEW s \in Seq(Interval), NEW t \in Seq(Interval), NEW mid, NEW to,
         Chain(s, 0, mid), Chain(t, mid, to)
  PROVE  Chain(s \o t, 0, to)
<1> DEFINE u == s \o t
<1>1. /\ Len(u) = Len(s) + Len(t) /\ Len(s) \in Nat /\ Len(t) \in Nat
      /\ \A i \in 1 .. Len(u) : u[i] = IF i <= Len(s) THEN s[i] ELSE t[i - Len(s)]
  BY ConcatProperties
<1>2. \A i \in 1 .. Len(s) : u[i] = s[i]
  BY <1>1
<1>3. \A i \in Len(s) + 1 .. Len(u) : i - Len(s) \in 1 .. Len(t) /\ u[i] = t[i - Len(s)]
  BY <1>1
<1> HIDE DEF u
<1>4. ASSUME NEW i \in 1 .. Len(u) PROVE u[i].lo <= u[i].hi
  <2>1. CASE i <= Len(s)
    BY <1>1, <1>2, <2>1 DEF Chain
  <2>2. CASE i > Len(s)
    BY <1>1, <1>3, <2>2 DEF Chain
  <2> QED
    BY <1>1, <2>1, <2>2
<1>5. ASSUME NEW i \in 1 .. Len(u) - 1 PROVE u[i + 1].lo = u[i].hi + 1
  <2>1. CASE i < Len(s)
    <3>1. i \in 1 .. Len(s) - 1 /\ i \in 1 .. Len(s) /\ i + 1 \in 1 .. Len(s)
      BY <1>1, <2>1
    <3> QED
      BY <1>2, <3>1 DEF Chain
  <2>2. CASE i = Len(s)
    <3>1. i \in 1 .. Len(s) /\ s # <<>>
      BY <1>1, <2>2
    <3>2. t # <<>> /\ i + 1 \in Len(s) + 1 .. Len(u) /\ (i + 1) - Len(s) = 1
      BY <1>1, <2>2
    <3>3. u[i] = s[Len(s)] /\ u[i + 1] = t[1]
      BY <1>2, <1>3, <2>2, <3>1, <3>2
    <3> QED
      BY <3>1, <3>2, <3>3 DEF Chain
  <2>3. CASE i > Len(s)
    <3>1. /\ i - Len(s) \in 1 .. Len(t) - 1 /\ (i + 1) - Len(s) = (i - Len(s)) + 1
          /\ i \in Len(s) + 1 .. Len(u) /\ i + 1 \in Len(s) + 1 .. Len(u)
      BY <1>1, <2>3
    <3>2. u[i] = t[i - Len(s)] /\ u[i + 1] = t[(i - Len(s)) + 1]
      BY <1>3, <3>1
    <3> QED
      BY <3>1, <3>2 DEF Chain
  <2> QED
    BY <1>1, <2>1, <2>2, <2>3
<1>6. u = <<>> => 0 = to
  <2>1. u = <<>> => s = <<>> /\ t = <<>>
    BY <1>1
  <2> QED
    BY <2>1 DEF Chain
<1>7. ASSUME u # <<>> PROVE u[1].lo = 0 + 1 /\ u[Len(u)].hi = to
  <2>1. CASE s # <<>> /\ t # <<>>
    <3>1. 1 \in 1 .. Len(s) /\ Len(u) \in Len(s) + 1 .. Len(u) /\ Len(u) - Len(s) = Len(t)
      BY <1>1, <2>1
    <3>2. u[1] = s[1] /\ u[Len(u)] = t[Len(t)]
      BY <1>2, <1>3, <3>1
    <3> QED
      BY <2>1, <3>2 DEF Chain
  <2>2. CASE s # <<>> /\ t = <<>>
    <3>1. 1 \in 1 .. Len(s) /\ Len(u) = Len(s) /\ Len(s) \in 1 .. Len(s)
      BY <1>1, <2>2
    <3>2. u[1] = s[1] /\ u[Len(u)] = s[Len(s)]
      BY <1>2, <3>1
    <3> QED
      BY <2>2, <3>2 DEF Chain
  <2>3. CASE s = <<>>
    <3>1. Len(s) = 0 /\ Len(u) = Len(t) /\ t # <<>>
      <4>1. Len(s) = 0
        BY <2>3
      <4>2. Len(u) = Len(t)
        BY <1>1, <4>1
      <4>3. Len(u) # 0
        BY <1>7 DEF u
      <4> QED
        BY <4>1, <4>2, <4>3
    <3>2. 1 \in Len(s) + 1 .. Len(u) /\ Len(u) \in Len(s) + 1 .. Len(u)
      BY <1>1, <3>1
    <3>3. u[1] = t[1] /\ u[Len(u)] = t[Len(t)]
      BY <1>3, <3>1, <3>2
    <3> QED
      BY <2>3, <3>1, <3>3 DEF Chain
  <2> QED
    BY <2>1, <2>2, <2>3
<1> QED
  BY <1>4, <1>5, <1>6, <1>7 DEF Chain, u

LEMMA IInvImplies == IInv => TypeOK /\ EachByteOnce
<1> SUFFICES ASSUME IInv PROVE EachByteOnce
  BY DEF IInv
<1> DEFINE p == [i \in 1 .. Len(popped) |-> [lo |-> popped[i].lo, hi |-> popped[i].hi]]
<1>1. popped \in Seq(Popped) /\ buffers \in Seq(Interval) /\ received \in Nat
  BY DEF IInv, TypeOK, Popped
<1>2. \A i \in 1 .. Len(popped) : [lo |-> popped[i].lo, hi |-> popped[i].hi] \in Interval
  <2>1. \A i \in 1 .. Len(popped) : popped[i] \in Popped
    BY <1>1, ElementOfSeq
  <2> QED
    BY <2>1 DEF Popped, Interval
<1>3. /\ p \in Seq(Interval) /\ Len(p) = Len(popped)
      /\ \A i \in 1 .. Len(popped) : p[i].lo = popped[i].lo /\ p[i].hi = popped[i].hi
  BY <1>1, <1>2
<1>4. Len(popped) \in Nat /\ (p = <<>> <=> popped = <<>>)
  BY <1>1, <1>3
<1> HIDE DEF p
<1>5. Chain(p, 0, Cut)
  <2>1. popped # <<>> => 1 \in 1 .. Len(popped) /\ Len(popped) \in 1 .. Len(popped)
    BY <1>1
  <2>2. \A i \in 1 .. Len(popped) - 1 : i \in 1 .. Len(popped) /\ i + 1 \in 1 .. Len(popped)
    BY <1>4
  <2> QED
    BY <1>3, <1>4, <2>1, <2>2 DEF IInv, Chained, Chain
<1>6. Chain(p \o buffers, 0, received)
  BY <1>1, <1>3, <1>5, ChainsJoin DEF IInv, Chained
<1> DEFINE u == p \o buffers
<1>7. EachByteOnce <=>
        /\ u # <<>> => u[1].lo = 1 /\ u[Len(u)].hi = received
        /\ \A i \in 1 .. Len(u) : u[i].lo <= u[i].hi
        /\ \A i \in 1 .. Len(u) - 1 : u[i + 1].lo = u[i].hi + 1
  BY DEF EachByteOnce, p
<1> HIDE DEF u
<1>8. Chain(u, 0, received)
  BY <1>6 DEF u
<1> QED
  BY <1>7, <1>8 DEF Chain

-----------------------------------------------------------------------------
(* Every variable keeps its type, whatever the script and the reads.       *)
THEOREM TypeCorrect == Spec => []TypeOK
<1>1. Init => IInv
  BY InitIInv
<1>2. IInv /\ [Next]_vars => IInv'
  BY StepIInv
<1>3. IInv => TypeOK
  BY IInvImplies
<1> QED
  BY <1>1, <1>2, <1>3, PTL DEF Spec

(* However many requests with bodies of any length are sent, and however   *)
(* their bytes are cut into reads, handle_http_server_read cuts every byte *)
(* out of read_buffer once and in order.                                   *)
THEOREM EveryByteOnce == Spec => []EachByteOnce
<1>1. Init => IInv
  BY InitIInv
<1>2. IInv /\ [Next]_vars => IInv'
  BY StepIInv
<1>3. IInv => EachByteOnce
  BY IInvImplies
<1> QED
  BY <1>1, <1>2, <1>3, PTL DEF Spec

(* Responses of a connection, pipelined or not, streamed, delayed or       *)
(* whole, refine those of a connection that answers one at a time and in   *)
(* the order of the requests.                                              *)
THEOREM AnswersInOrder == Spec => OneAtATime
<1>1. Init => IInv /\ Order!Init
  BY InitIInv DEF Init, Order!Init
<1>2. IInv /\ [Next]_vars => IInv' /\ [Order!Next]_Order!order
  BY StepIInv DEF Order!order
<1> QED
  BY <1>1, <1>2, PTL DEF Spec, OneAtATime, Order!Spec

-----------------------------------------------------------------------------
(* What the theorems ask of such a client: no read but the last of what it *)
(* sends for now is shorter than three bytes, as the search loses a double *)
(* newline spread over more entries, and no body reaches max_post, as a    *)
(* longer one is read as requests.                                         *)
LongReads ==
  \A c \in Settings :
    c.pipelining = {"whole"} =>
      /\ c.min_read >= 3
      /\ c.max_post = 0 \/ \A k \in DOMAIN c.script : c.script[k].body < c.max_post

(* The invariant.  What is cut out ends with a request, or with the header *)
(* of the one whose body is awaited; nothing is buffered behind a request  *)
(* whose response is streamed.                                             *)
Aligned ==
  /\ posting # 0 => Cut = Last[posting - 1] + HeadSize
  /\ posting = 0 => \E k \in 0 .. Len(script) : Cut = Last[k]
  /\ streaming # 0 => Cut = Last[streaming] /\ received = Cut

(* The request in hand has not been answered.                              *)
Unanswered ==
  /\ \A k \in broken : Begun(k) /\ k # streaming /\ (posting # 0 => k < posting)
  /\ streaming # 0 =>
       /\ script[streaming].resp # "whole"
       /\ \A i \in 1 .. Len(out) : out[i].req = streaming => out[i].what \in {"head", "data"}

(* The client has sent nothing behind a request it waits for.              *)
Heard == received <= Last[Len(script)] /\ \A k \in Awaited : received <= Last[k]

(* Entries between the first and the last have three bytes or more.        *)
LongPieces ==
  /\ \A i \in 2 .. Len(buffers) - 1 : buffers[i].hi - buffers[i].lo >= 2
  /\ Len(buffers) >= 2 =>
       buffers[Len(buffers)].hi - buffers[Len(buffers)].lo >= 2 \/ received = Limit

(* The last one is what is left of read_buf.                               *)
LastPiece ==
  buffers # <<>> =>
    buffers[Len(buffers)].lo = IF read_buf > Cut THEN read_buf ELSE Cut + 1

(* The end of the header or the body that comes next is not behind the     *)
(* search: it is still to arrive, or in read_buf.                          *)
Ahead ==
  /\ at = "idle" /\ streaming = 0 /\ posting = 0 => received < Cut + HeadSize
  /\ at = "idle" /\ posting # 0 => received < Cut + script[posting].body
  /\ at = "restart" /\ streaming = 0 /\ posting = 0 => read_buf <= Cut + HeadSize
  /\ at = "restart" /\ posting # 0 => read_buf <= Cut + script[posting].body
  /\ at = "scan" => read_buf <= Cut + HeadSize /\ seen <= Cut + 2

InStep == Aligned /\ Unanswered /\ Heard /\ LongPieces /\ LastPiece /\ Ahead
BInv == Awaiting => CutAtBoundaries /\ (at # "closed" => InStep)

-----------------------------------------------------------------------------
(* Where requests end and which characters stand in their headers.         *)
LEMMA LastFacts ==
  ASSUME setting \in Settings
  PROVE  /\ Last \in [0 .. Len(script) -> Nat] /\ Last[0] = 0
         /\ \A k \in 1 .. Len(script) : Last[k] = Last[k - 1] + HeadSize + script[k].body
         /\ \A k \in 1 .. Len(script) : script[k].body \in Nat
         /\ Len(script) \in Nat /\ DOMAIN script = 1 .. Len(script)
BY ScriptType, EndsDefined DEF Last

LEMMA LastGrows ==
  ASSUME setting \in Settings, NEW j \in 0 .. Len(script), NEW k \in j .. Len(script)
  PROVE  Last[j] <= Last[k]
BY ScriptType, EndsGrow DEF Last

LEMMA CharAt ==
  ASSUME setting \in Settings, NEW k \in DOMAIN script, NEW o \in 1 .. HeadSize
  PROVE  Char(Last[k - 1] + o) = IF o = 1 THEN "h" ELSE newlines[o - 1]
<1> DEFINE s == script
           p == Last[k - 1] + o
           Holds(r) == Last[r - 1] < p /\ p <= Last[r]
           who == CHOOSE r \in DOMAIN s : Holds(r)
<1>1. /\ Last \in [0 .. Len(s) -> Nat] /\ Len(s) \in Nat /\ DOMAIN s = 1 .. Len(s)
      /\ Last[k] = Last[k - 1] + HeadSize + s[k].body /\ s[k].body \in Nat /\ s \in Scripts
  BY LastFacts, ScriptType
<1>2. k - 1 \in 0 .. Len(s) /\ k \in 0 .. Len(s) /\ Last[k - 1] \in Nat /\ Last[k] \in Nat
  BY <1>1
<1>3. Holds(k)
  BY <1>1, <1>2 DEF HeadSize
<1>4. ASSUME NEW r \in DOMAIN s, Holds(r) PROVE r = k
  <2>0. p \in Nat /\ p > Last[k - 1] /\ p <= Last[k] /\ Last[r - 1] < p /\ p <= Last[r]
    BY <1>2, <1>3, <1>4 DEF HeadSize
  <2> HIDE DEF p
  <2>1. r - 1 \in 0 .. Len(s) /\ r \in 0 .. Len(s) /\ Last[r - 1] \in Nat /\ Last[r] \in Nat
    <3>1. r - 1 \in 0 .. Len(s) /\ r \in 0 .. Len(s)
      BY <1>1
    <3> QED
      BY <1>1, <3>1
  <2>2. CASE r < k
    <3>1. Last[r] <= Last[k - 1]
      <4>1. k - 1 \in r .. Len(s)
        BY <1>1, <2>2
      <4> QED
        BY <2>1, <4>1, LastGrows
    <3> QED
      BY <1>2, <2>0, <2>1, <3>1
  <2>3. CASE k < r
    <3>1. Last[k] <= Last[r - 1]
      <4>1. r - 1 \in k .. Len(s)
        BY <1>1, <2>3
      <4> QED
        BY <1>2, <4>1, LastGrows
    <3> QED
      BY <1>2, <2>0, <2>1, <3>1
  <2> QED
    BY <1>1, <2>2, <2>3
<1>5. who = k
  <2> HIDE DEF Holds
  <2> QED
    BY <1>3, <1>4
<1>6. p \in 1 .. Last[Len(s)]
  <2>1. Last[k] <= Last[Len(s)] /\ Last[Len(s)] \in Nat
    <3>1. Len(s) \in k .. Len(s)
      BY <1>1
    <3> QED
      BY <1>1, <1>2, <3>1, LastGrows
  <2> QED
    BY <1>1, <1>2, <1>3, <2>1
<1>7. Texts[s][p] = LET c == who
                        i == p - Last[c - 1] IN
                    IF i = 1 THEN "h" ELSE IF i <= HeadSize THEN newlines[i - 1]
                    ELSE IF (i - HeadSize) % 2 = 1 THEN "CR" ELSE "LF"
  <2>1. s \in Scripts
    BY <1>1
  <2> HIDE DEF p
  <2> QED
    BY <1>6, <2>1 DEF Texts, Last
<1>8. p - Last[k - 1] = o /\ o <= HeadSize
  BY <1>1, <1>2
<1>9. Char(p) = Texts[s][p]
  BY DEF Char
<1> HIDE DEF who, p
<1> QED
  BY <1>5, <1>7, <1>8, <1>9 DEF p

(* The first byte of request k is that of no other.                        *)
LEMMA RequestAtFirst ==
  ASSUME setting \in Settings, NEW k \in DOMAIN script
  PROVE  RequestAt(First(k)) = k
<1>1. RequestAt(First(k)) \in DOMAIN script /\ First(RequestAt(First(k))) = First(k)
  BY DEF RequestAt
<1> DEFINE j == RequestAt(First(k))
<1> HIDE DEF j
<1>2. Len(script) \in Nat /\ j \in 1 .. Len(script) /\ k \in 1 .. Len(script)
  BY <1>1, LastFacts DEF j
<1>3. Last[j - 1] = Last[k - 1]
  <2>1. Last[j - 1] \in Nat /\ Last[k - 1] \in Nat
    BY <1>2, LastFacts
  <2> QED
    BY <1>1, <2>1 DEF First, j
<1>4. ASSUME NEW a \in 1 .. Len(script), NEW b \in 1 .. Len(script), a < b
      PROVE  Last[a - 1] < Last[b - 1]
  <2>1. a - 1 \in 0 .. Len(script) /\ a \in 0 .. Len(script) /\ b - 1 \in a .. Len(script)
    BY <1>2, <1>4
  <2>2. Last[a] <= Last[b - 1]
    BY <2>1, LastGrows
  <2>3. Last[a] = Last[a - 1] + HeadSize + script[a].body /\ script[a].body \in Nat
    BY LastFacts
  <2>4. Last[a] \in Nat /\ Last[a - 1] \in Nat /\ Last[b - 1] \in Nat
    <3>1. b - 1 \in 0 .. Len(script)
      BY <1>2, <1>4
    <3> QED
      BY <2>1, <3>1, LastFacts
  <2> DEFINE x == Last[a]
             y == Last[a - 1]
             z == Last[b - 1]
             body == script[a].body
  <2>5. x <= z /\ x = y + HeadSize + body /\ body \in Nat /\ x \in Nat /\ y \in Nat /\ z \in Nat
    BY <2>2, <2>3, <2>4
  <2> HIDE DEF x, y, z, body
  <2>6. y < z
    BY <2>5 DEF HeadSize
  <2> QED
    BY <2>6 DEF y, z
<1>5. ~(j < k) /\ ~(k < j)
  <2>1. Last[j - 1] \in Nat
    BY <1>2, LastFacts
  <2> QED
    BY <1>2, <1>3, <1>4, <2>1
<1> QED
  BY <1>2, <1>5 DEF j

(* Where no request begins nothing has been received, and where one does   *)
(* its header stands.                                                      *)
LEMMA Boundary ==
  ASSUME IInv, NEW j \in 0 .. Len(script), Cut = Last[j], received <= Last[Len(script)]
  PROVE  /\ j = Len(script) => received = Cut
         /\ j < Len(script) =>
              /\ j + 1 \in DOMAIN script /\ First(j + 1) = Cut + 1 /\ RequestAt(Cut + 1) = j + 1
              /\ Last[j + 1] = Cut + HeadSize + script[j + 1].body
              /\ Char(Cut + 1) = "h" /\ \A i \in 1 .. 4 : Char(Cut + 1 + i) = newlines[i]
<1>1. /\ setting \in Settings /\ Cut \in Nat /\ received \in Nat /\ Len(script) \in Nat
      /\ DOMAIN script = 1 .. Len(script)
  BY CutType, LastFacts DEF IInv, TypeOK
<1>2. Cut <= received
  <2>1. buffers \in Seq(Interval) /\ Chain(buffers, Cut, received)
    BY DEF IInv, TypeOK, Chained
  <2>2. Size = received - Cut /\ Size \in Nat
    BY <1>1, <2>1, SizeIs
  <2> QED
    BY <1>1, <2>2
<1>3. ASSUME j = Len(script) PROVE received = Cut
  BY <1>1, <1>2, <1>3
<1>4. ASSUME j < Len(script)
      PROVE  /\ j + 1 \in DOMAIN script /\ First(j + 1) = Cut + 1 /\ RequestAt(Cut + 1) = j + 1
             /\ Last[j + 1] = Cut + HeadSize + script[j + 1].body
             /\ Char(Cut + 1) = "h" /\ \A i \in 1 .. 4 : Char(Cut + 1 + i) = newlines[i]
  <2> DEFINE k == j + 1
  <2>1. k \in DOMAIN script /\ k \in 1 .. Len(script) /\ k - 1 = j
    BY <1>1, <1>4
  <2> HIDE DEF k
  <2>2. First(k) = Cut + 1
    BY <2>1 DEF First
  <2>3. RequestAt(First(k)) = k
    BY <1>1, <2>1, RequestAtFirst
  <2>4. Last[k] = Last[k - 1] + HeadSize + script[k].body
    BY <1>1, <2>1, LastFacts
  <2>5. \A o \in 1 .. HeadSize : Char(Last[k - 1] + o) = IF o = 1 THEN "h" ELSE newlines[o - 1]
    BY <1>1, <2>1, CharAt
  <2>6. \A o \in 1 .. HeadSize : Char(Cut + o) = IF o = 1 THEN "h" ELSE newlines[o - 1]
    BY <2>1, <2>5
  <2>7. Char(Cut + 1) = "h"
    BY <2>6 DEF HeadSize
  <2>8. \A i \in 1 .. 4 : Char(Cut + 1 + i) = newlines[i]
    <3>1. TAKE i \in 1 .. 4
    <3>2. 1 + i \in 1 .. HeadSize /\ 1 + i # 1 /\ (1 + i) - 1 = i /\ Cut + (1 + i) = Cut + 1 + i
      BY <1>1 DEF HeadSize
    <3> QED
      BY <2>6, <3>2
  <2> QED
    BY <2>1, <2>2, <2>3, <2>4, <2>7, <2>8 DEF k
<1> QED
  BY <1>3, <1>4

(* The search finds the end of the next header once it has arrived.        *)
LEMMA ScanFinds ==
  ASSUME IInv, BInv, Awaiting, at = "scan"
  PROVE  /\ Hits = {} => received < Cut + HeadSize
         /\ Hits # {} =>
              \E k \in DOMAIN script :
                /\ Cut = Last[k - 1] /\ First(k) = Cut + 1 /\ RequestAt(Cut + 1) = k
                /\ FirstHit = Cut + HeadSize /\ Last[k] = Cut + HeadSize + script[k].body
<1>1. /\ setting \in Settings /\ Cut \in Nat /\ received \in Nat /\ seen \in Nat
      /\ read_buf \in Nat /\ read_buf_len \in Nat
      /\ posting = 0 /\ seen >= Cut + 1 /\ seen <= Cut + 2 /\ read_buf <= Cut + HeadSize
      /\ read_buf + read_buf_len = received + 1 /\ received <= Last[Len(script)]
  BY CutType DEF IInv, TypeOK, Alternate, Scanned, BInv, InStep, Ahead, Heard
<1>2. PICK j \in 0 .. Len(script) : Cut = Last[j]
  BY <1>1 DEF BInv, InStep, Aligned
<1>3. \A p \in Hits : p \in Nat /\ p >= seen + 3 /\ p <= received /\ DoubleNewline(p)
  BY <1>1 DEF Hits
<1>4. Len(script) \in Nat
  BY <1>1, LastFacts
<1>5. CASE j = Len(script)
  <2>1. received = Cut
    BY <1>1, <1>2, <1>5, Boundary
  <2>2. Hits = {}
    BY <1>1, <1>3, <2>1
  <2> QED
    BY <1>1, <2>1, <2>2 DEF HeadSize
<1>6. CASE j < Len(script)
  <2>1. /\ j + 1 \in DOMAIN script /\ First(j + 1) = Cut + 1 /\ RequestAt(Cut + 1) = j + 1
        /\ Last[j + 1] = Cut + HeadSize + script[j + 1].body
        /\ Char(Cut + 1) = "h" /\ \A i \in 1 .. 4 : Char(Cut + 1 + i) = newlines[i]
    BY <1>1, <1>2, <1>6, Boundary
  <2>2. \A p \in Hits : p >= Cut + HeadSize
    <3>1. SUFFICES ASSUME NEW p \in Hits, p < Cut + HeadSize PROVE FALSE
      BY <1>1, <1>3 DEF HeadSize
    <3>2. p = Cut + 4
      BY <1>1, <1>3, <3>1 DEF HeadSize
    <3>3. Char(p - 4 + 1) = newlines[1]
      BY <1>3, <3>1 DEF DoubleNewline
    <3>4. p - 4 + 1 = Cut + 1
      BY <1>1, <3>2
    <3> QED
      BY <2>1, <3>3, <3>4 DEF newlines
  <2>3. DoubleNewline(Cut + HeadSize)
    <3>1. \A i \in 1 .. 4 : (Cut + HeadSize) - 4 + i = Cut + 1 + i
      BY <1>1 DEF HeadSize
    <3> QED
      BY <2>1, <3>1 DEF DoubleNewline
  <2>4. ASSUME received >= Cut + HeadSize PROVE Cut + HeadSize \in Hits
    BY <1>1, <2>3, <2>4 DEF Hits, HeadSize
  <2>5. ASSUME Hits # {} PROVE FirstHit = Cut + HeadSize
    <3>1. received >= Cut + HeadSize
      <4>1. PICK p \in Hits : TRUE
        BY <2>5
      <4> QED
        BY <1>1, <1>3, <2>2, <4>1 DEF HeadSize
    <3>2. Cut + HeadSize \in Hits /\ Hits \subseteq Nat
      BY <1>3, <2>4, <3>1
    <3> QED
      BY <2>2, <3>2, FirstIsChosen DEF FirstHit
  <2>6. Hits = {} => received < Cut + HeadSize
    BY <1>1, <2>4 DEF HeadSize
  <2>7. (j + 1) - 1 = j
    BY <1>4
  <2> QED
    BY <1>2, <2>1, <2>5, <2>6, <2>7
<1> QED
  BY <1>4, <1>5, <1>6

(* A chain that ends where it begins is empty.                             *)
LEMMA ChainEmpty ==
  ASSUME NEW s \in Seq(Interval), NEW n \in Nat, Chain(s, n, n)
  PROVE  s = <<>>
<1>1. SUFFICES ASSUME s # <<>> PROVE FALSE
  OBVIOUS
<1>2. Len(s) \in 1 .. Len(s)
  BY <1>1
<1>3. s[Len(s)].lo >= n + 1 /\ s[Len(s)].lo <= s[Len(s)].hi /\ s[Len(s)].hi = n
  BY <1>1, <1>2, ChainLow DEF Chain
<1>4. s[Len(s)] \in Interval
  BY <1>2, ElementOfSeq
<1> QED
  BY <1>3, <1>4 DEF Interval

LEMMA CutWithin == IInv => Cut <= received /\ Cut \in Nat /\ received \in Nat
<1> SUFFICES ASSUME IInv PROVE Cut <= received /\ Cut \in Nat /\ received \in Nat
  OBVIOUS
<1>1. buffers \in Seq(Interval) /\ Chain(buffers, Cut, received) /\ received \in Nat /\ Cut \in Nat
  BY CutType DEF IInv, TypeOK, Chained
<1>2. Size = received - Cut /\ Size \in Nat
  BY <1>1, SizeIs
<1> QED
  BY <1>1, <1>2

-----------------------------------------------------------------------------
(* What the client waits for.                                              *)
LEMMA LimitIs ==
  ASSUME setting \in Settings
  PROVE  /\ Limit \in Nat /\ Limit <= Last[Len(script)]
         /\ \A k \in Awaited : Limit <= Last[k]
<1>1. /\ Last \in [0 .. Len(script) -> Nat] /\ Len(script) \in Nat /\ Awaited \subseteq 1 .. Len(script)
  BY LastFacts DEF Awaited
<1>2. CASE Awaited = {}
  BY <1>1, <1>2 DEF Limit
<1>3. CASE Awaited # {}
  <2> DEFINE first == CHOOSE k \in Awaited : \A j \in Awaited : k <= j
  <2>1. first \in Awaited /\ \A j \in Awaited : first <= j
    <3>1. Awaited \subseteq Nat
      BY <1>1
    <3> QED
      BY <1>3, <3>1, ChosenIsFirst
  <2>2. Limit = Last[first]
    BY <1>3 DEF Limit
  <2> HIDE DEF first
  <2>3. first \in 0 .. Len(script) /\ \A j \in Awaited : j \in first .. Len(script)
    BY <1>1, <2>1
  <2>4. Len(script) \in first .. Len(script)
    BY <1>1, <2>1
  <2> QED
    BY <1>1, <2>2, <2>3, <2>4, LastGrows
<1> QED
  BY <1>2, <1>3

LEMMA SameAwaited ==
  ASSUME UNCHANGED <<setting, out, broken>>
  PROVE  Awaited' = Awaited /\ Limit' = Limit
<1>1. Awaited' = Awaited
  BY DEF Awaited, Answered, Written, script
<1> QED
  BY <1>1 DEF Limit, Last, script

(* Nothing that was answered becomes unanswered.                           *)
LEMMA AwaitedShrinks ==
  ASSUME UNCHANGED setting, broken \subseteq broken', out \in Seq(Written0),
         out' = out \/ \E e \in Written0 : out' = Append(out, e)
  PROVE  Awaited' \subseteq Awaited
<1>1. \A i \in 1 .. Len(out) : i \in 1 .. Len(out') /\ out'[i] = out[i]
  <2>1. CASE out' = out
    BY <2>1
  <2>2. ASSUME NEW e \in Written0, out' = Append(out, e)
        PROVE  \A i \in 1 .. Len(out) : i \in 1 .. Len(out') /\ out'[i] = out[i]
    <3>1. /\ Len(Append(out, e)) = Len(out) + 1 /\ Len(out) \in Nat
          /\ \A i \in 1 .. Len(out) : Append(out, e)[i] = out[i]
      BY AppendProperties
    <3> QED
      BY <2>2, <3>1
  <2> QED
    BY <2>1, <2>2
<1>2. \A k, w : Written(k, w) => Written(k, w)'
  BY <1>1 DEF Written
<1>3. \A k : Answered(k) => Answered(k)'
  BY <1>2 DEF Answered
<1> QED
  BY <1>3 DEF Awaited, script

(* Answering the request in hand: if the client waits for it, everything   *)
(* received belongs to requests up to it.                                  *)
LEMMA AnswerStep ==
  ASSUME IInv, UNCHANGED setting, Awaiting, Heard, streaming = 0,
         NEW k \in DOMAIN script, \A i \in 1 .. Len(out) : out[i].req < k, k \notin broken,
         NEW skipped \in BOOLEAN, NEW next \in {"restart", "scan"}, Respond(k, skipped, next)
  PROVE  /\ Awaited' \subseteq Awaited /\ broken' = broken
         /\ script[k].resp = "whole" => Limit' = Limit
         /\ script[k].resp # "whole" => received <= Last[k]
         /\ streaming' # 0 =>
              /\ streaming' = k /\ script[k].resp # "whole" /\ at' = "restart"
              /\ \A i \in 1 .. Len(out') : out'[i].req = k => out'[i].what \in {"head", "data"}
         /\ streaming' = 0 => at' = next
<1>1. out \in Seq(Written0) /\ k \in Nat /\ script' = script /\ Len(out) \in Nat
  BY Same, ScriptType DEF IInv, TypeOK, Written0
<1>2. broken' = broken
  BY DEF Respond
<1>3. \A w \in {"whole", "head"} :
        LET e == [req |-> k, what |-> w] IN
        /\ e \in Written0 /\ Len(Append(out, e)) = Len(out) + 1
        /\ \A i \in 1 .. Len(out) : Append(out, e)[i] = out[i]
        /\ Append(out, e)[Len(out) + 1] = e
  <2>1. TAKE w \in {"whole", "head"}
  <2> DEFINE e == [req |-> k, what |-> w]
  <2>2. e \in Written0
    BY <1>1 DEF Written0
  <2> HIDE DEF e
  <2>3. /\ Len(Append(out, e)) = Len(out) + 1
        /\ \A i \in 1 .. Len(out) : Append(out, e)[i] = out[i]
        /\ Append(out, e)[Len(out) + 1] = e
    BY <1>1, <2>2, AppendProperties
  <2> QED
    BY <2>2, <2>3 DEF e
<1>4. Awaited' \subseteq Awaited
  <2>1. out' = out \/ \E e \in Written0 : out' = Append(out, e)
    BY <1>3 DEF Respond
  <2> QED
    BY <1>1, <1>2, <2>1, AwaitedShrinks
<1>5. ~Answered(k)
  <2>1. \A i \in 1 .. Len(out) : out[i].req # k
    BY <1>1
  <2>2. ~Written(k, "whole") /\ ~Written(k, "end")
    BY <2>1 DEF Written
  <2> QED
    BY <2>2 DEF Answered
<1>6. script[k].resp # "whole" => received <= Last[k]
  BY <1>5 DEF Heard, Awaited, Awaiting
<1>7. ASSUME script[k].resp = "whole" PROVE Limit' = Limit
  <2> DEFINE e == [req |-> k, what |-> "whole"]
  <2>1. out' = Append(out, e)
    BY <1>7 DEF Respond
  <2>2. /\ Len(out') = Len(out) + 1
        /\ \A i \in 1 .. Len(out) : out'[i] = out[i]
        /\ out'[Len(out) + 1] = e /\ e.req = k
    BY <1>3, <2>1
  <2> HIDE DEF e
  <2>3. \A i \in 1 .. Len(out') : i \in 1 .. Len(out) \/ i = Len(out) + 1
    BY <1>1, <2>2
  <2>4. \A j, w : j # k /\ Written(j, w)' => Written(j, w)
    BY <2>2, <2>3 DEF Written
  <2>5. \A j : j # k /\ Answered(j)' => Answered(j)
    BY <1>2, <2>4 DEF Answered
  <2>6. Awaited \subseteq Awaited'
    BY <1>1, <1>7, <2>5 DEF Awaited, Awaiting
  <2>7. Awaited' = Awaited /\ Last' = Last
    BY <1>4, <2>6, Same
  <2> QED
    BY <1>1, <2>7 DEF Limit
<1>8. ASSUME streaming' # 0
      PROVE  /\ streaming' = k /\ script[k].resp # "whole" /\ at' = "restart"
             /\ \A i \in 1 .. Len(out') : out'[i].req = k => out'[i].what \in {"head", "data"}
  <2> DEFINE e == [req |-> k, what |-> "head"]
  <2>1. /\ streaming' = k /\ script[k].resp # "whole" /\ at' = "restart"
        /\ out' \in {out, Append(out, e)}
    BY <1>8 DEF Respond
  <2>2. /\ Len(Append(out, e)) = Len(out) + 1
        /\ \A i \in 1 .. Len(out) : Append(out, e)[i] = out[i]
        /\ Append(out, e)[Len(out) + 1] = e /\ e.what = "head"
    BY <1>3
  <2> HIDE DEF e
  <2>3. \A i \in 1 .. Len(out') : (i \in 1 .. Len(out) /\ out'[i] = out[i]) \/ out'[i] = e
    BY <1>1, <2>1, <2>2
  <2>4. \A i \in 1 .. Len(out') : out'[i].req = k => out'[i].what \in {"head", "data"}
    BY <1>1, <2>2, <2>3
  <2> QED
    BY <2>1, <2>4
<1>9. streaming' = 0 => at' = next
  BY <1>1, ScriptType DEF Respond, IInv
<1> QED
  BY <1>2, <1>4, <1>6, <1>7, <1>8, <1>9

-----------------------------------------------------------------------------
(* Parts of the invariant.                                                 *)
LEMMA Stays ==
  ASSUME Aligned, Unanswered, Heard, LongPieces,
         UNCHANGED <<setting, received, buffers, popped, posting, streaming, out, broken>>
  PROVE  Aligned' /\ Unanswered' /\ Heard' /\ LongPieces' /\ Cut' = Cut
<1>1. script' = script /\ Last' = Last /\ Cut' = Cut
  BY Same DEF Cut
<1>2. Awaited' = Awaited /\ Limit' = Limit
  BY SameAwaited
<1>3. \A k : Begun(k)' <=> Begun(k)
  BY <1>1 DEF Begun, First
<1>4. Aligned'
  BY <1>1 DEF Aligned
<1>5. Unanswered'
  BY <1>1, <1>3 DEF Unanswered
<1>6. Heard'
  BY <1>1, <1>2 DEF Heard
<1>7. LongPieces'
  BY <1>2 DEF LongPieces
<1> QED
  BY <1>1, <1>4, <1>5, <1>6, <1>7

LEMMA CutsStay ==
  ASSUME CutAtBoundaries, UNCHANGED <<setting, popped>>
  PROVE  CutAtBoundaries'
BY Same DEF CutAtBoundaries, Awaiting, First

(* One more piece is cut out.                                              *)
LEMMA CutsGrow ==
  ASSUME CutAtBoundaries, IInv, UNCHANGED setting, Awaiting, NEW t \in Popped,
         popped' = Append(popped, t), t.req # 0,
         t.what = "head" => t.lo = First(t.req) /\ t.hi = First(t.req) + HeadSize - 1,
         t.what = "body" => t.lo = First(t.req) + HeadSize /\ t.hi = Last[t.req]
  PROVE  CutAtBoundaries'
<1>1. popped \in Seq(Popped)
  BY DEF IInv, TypeOK, Popped
<1>2. /\ Len(popped') = Len(popped) + 1 /\ Len(popped) \in Nat
      /\ \A i \in 1 .. Len(popped) : popped'[i] = popped[i]
      /\ popped'[Len(popped) + 1] = t
  BY <1>1, AppendProperties
<1>3. Last' = Last /\ \A k : First(k)' = First(k)
  BY Same
<1>4. \A i \in 1 .. Len(popped') : i \in 1 .. Len(popped) \/ popped'[i] = t
  BY <1>2
<1>5. \A i \in 1 .. Len(popped') :
        LET u == popped'[i] IN
        /\ u.req # 0
        /\ u.what = "head" => u.lo = First(u.req) /\ u.hi = First(u.req) + HeadSize - 1
        /\ u.what = "body" => u.lo = First(u.req) + HeadSize /\ u.hi = Last[u.req]
  BY <1>2, <1>4 DEF CutAtBoundaries
<1> QED
  BY <1>3, <1>5 DEF CutAtBoundaries, First

(* Cutting off the front leaves the other entries as they are.             *)
LEMMA PopPieces ==
  ASSUME IInv, IInv', LongPieces, LastPiece, NEW n \in Nat, n >= 1, Cut' = Cut + n,
         UNCHANGED <<received, read_buf>>,
         buffers' # <<>> => LeftOf(buffers, buffers'),
         Limit' = Limit \/ received = Cut'
  PROVE  LongPieces' /\ LastPiece'
<1>1. /\ buffers' \in Seq(Interval) /\ Chain(buffers', Cut', received)
      /\ Cut' \in Nat /\ Cut \in Nat /\ read_buf \in Nat /\ received \in Nat
      /\ buffers \in Seq(Interval)
  <2>1. buffers' \in Seq(Interval) /\ Chain(buffers, Cut, received)'
    BY DEF IInv, TypeOK, Chained
  <2>2. Chain(buffers', Cut', received)
    BY <2>1 DEF Chain
  <2>3. read_buf \in Nat /\ received \in Nat /\ buffers \in Seq(Interval) /\ TypeOK
    BY DEF IInv, TypeOK
  <2> QED
    BY <2>1, <2>2, <2>3, CutType
<1>2. CASE buffers' = <<>>
  <2>1. Len(buffers') = 0
    BY <1>2
  <2> QED
    BY <1>2, <2>1 DEF LongPieces, LastPiece
<1>3. CASE buffers' # <<>>
  <2>1. Limit' = Limit
    BY <1>1, <1>3, ChainEmpty
  <2> DEFINE t == buffers'
             l == Len(t)
  <2>2. PICK f \in 1 .. Len(buffers) :
          /\ l = Len(buffers) - f + 1
          /\ \A i \in 1 .. l :
               /\ t[i].hi = buffers[f + i - 1].hi /\ t[i].lo >= buffers[f + i - 1].lo
               /\ i > 1 => t[i].lo = buffers[f + i - 1].lo
    BY <1>3 DEF LeftOf
  <2>3. l \in Nat /\ l >= 1 /\ Len(buffers) \in Nat /\ f + l - 1 = Len(buffers)
    BY <1>1, <1>3, <2>2
  <2> HIDE DEF l
  <2>4. \A i \in 1 .. l : t[i].lo \in Nat /\ t[i].hi \in Nat
    <3>1. \A i \in 1 .. l : t[i] \in Interval
      BY <1>1, ElementOfSeq DEF l
    <3> QED
      BY <3>1 DEF Interval
  <2>5. \A i \in 1 .. Len(buffers) : buffers[i].lo \in Nat /\ buffers[i].hi \in Nat
    <3>1. \A i \in 1 .. Len(buffers) : buffers[i] \in Interval
      BY <1>1, ElementOfSeq
    <3> QED
      BY <3>1 DEF Interval
  <2>6. ASSUME NEW i \in 2 .. l - 1 PROVE t[i].hi - t[i].lo >= 2
    <3>1. f + i - 1 \in 2 .. Len(buffers) - 1 /\ i \in 1 .. l /\ i > 1
      BY <2>2, <2>3
    <3>2. buffers[f + i - 1].hi - buffers[f + i - 1].lo >= 2
      BY <3>1 DEF LongPieces
    <3> QED
      BY <2>2, <3>1, <3>2
  <2>7. ASSUME l >= 2 PROVE t[l].hi - t[l].lo >= 2 \/ received = Limit
    <3>1. Len(buffers) >= 2 /\ l \in 1 .. l /\ l > 1
      BY <2>2, <2>3, <2>7
    <3>2. t[l].hi = buffers[Len(buffers)].hi /\ t[l].lo = buffers[Len(buffers)].lo
      BY <2>2, <2>3, <3>1
    <3> QED
      BY <3>1, <3>2 DEF LongPieces
  <2>8. t[l].lo = IF read_buf > Cut' THEN read_buf ELSE Cut' + 1
    <3>1. /\ buffers # <<>>
          /\ buffers[Len(buffers)].lo = IF read_buf > Cut THEN read_buf ELSE Cut + 1
      BY <2>2, <2>3 DEF LastPiece
    <3>2. t[1].lo = Cut' + 1 /\ \A i \in 1 .. l : t[i].lo >= Cut' + 1
      BY <1>1, <1>3, ChainLow DEF Chain, l
    <3>3. t[l].lo >= buffers[Len(buffers)].lo /\ (l > 1 => t[l].lo = buffers[Len(buffers)].lo)
      <4>1. l \in 1 .. l
        BY <2>3
      <4> QED
        BY <2>2, <2>3, <4>1
    <3>4. CASE l = 1
      <4> DEFINE a == t[l].lo
                 b == buffers[Len(buffers)].lo
      <4>1. a = Cut' + 1 /\ a >= b /\ b = IF read_buf > Cut THEN read_buf ELSE Cut + 1
        BY <3>1, <3>2, <3>3, <3>4
      <4>2. a = IF read_buf > Cut' THEN read_buf ELSE Cut' + 1
        <5> HIDE DEF a, b
        <5> QED
          BY <1>1, <4>1
      <4> QED
        BY <4>2
    <3>5. CASE l > 1
      <4>1. l - 1 \in 1 .. l - 1 /\ l - 1 \in 1 .. l /\ (l - 1) + 1 = l
        BY <2>3, <3>5
      <4>2. t[l].lo = t[l - 1].hi + 1 /\ t[l - 1].lo <= t[l - 1].hi
        BY <1>1, <4>1 DEF Chain, l
      <4>3. t[l].lo >= Cut' + 2
        <5> DEFINE a == t[l].lo
                   b == t[l - 1].lo
                   c == t[l - 1].hi
                   d == Cut'
        <5>1. a = c + 1 /\ b <= c /\ b >= d + 1
          BY <3>2, <4>1, <4>2, Zenon
        <5>2. b \in Nat /\ c \in Nat
          BY <2>4, <4>1, Zenon
        <5>3. d \in Nat
          BY <1>1
        <5> HIDE DEF a, b, c, d
        <5>4. a >= d + 2
          BY <5>1, <5>2, <5>3
        <5> QED
          BY <5>4 DEF a, d
      <4> QED
        BY <1>1, <3>1, <3>3, <3>5, <4>3
    <3> QED
      BY <2>3, <3>4, <3>5
  <2>9. LongPieces'
    BY <2>1, <2>6, <2>7 DEF LongPieces, l
  <2>10. LastPiece'
    BY <2>8 DEF LastPiece, l
  <2> QED
    BY <2>9, <2>10
<1> QED
  BY <1>2, <1>3

-----------------------------------------------------------------------------
(* The steps.                                                              *)
LEMMA BoundaryReturn ==
  ASSUME IInv, BInv, Awaiting, at # "closed",
         PostWaits \/ StreamActive \/ ScanEnds \/ ClientCloses
  PROVE  CutAtBoundaries' /\ (at' # "closed" => InStep')
<1>1. UNCHANGED reading /\ UNCHANGED setting /\ UNCHANGED requests /\ UNCHANGED answers
  BY DEF PostWaits, StreamActive, ScanEnds, ClientCloses
<1> USE <1>1 DEF reading, requests, answers
<1>2. CutAtBoundaries'
  BY CutsStay DEF BInv
<1>3. Aligned' /\ Unanswered' /\ Heard' /\ LongPieces' /\ Cut' = Cut
  BY Stays DEF BInv, InStep
<1>4. LastPiece'
  BY <1>3 DEF BInv, InStep, LastPiece
<1>5. script' = script
  BY Same
<1>6. CASE ClientCloses
  BY <1>2, <1>6 DEF ClientCloses
<1>7. CASE PostWaits
  <2>1. at' = "idle" /\ posting # 0 /\ ~BodyArrived
    BY <1>7 DEF PostWaits
  <2>2. Size = received - Cut
    BY SizeIs, CutType DEF IInv, TypeOK, Chained
  <2>3. script[posting].body \in Nat
    <3>1. posting \in DOMAIN script
      BY <2>1 DEF IInv, InTurn, Begun
    <3> QED
      BY <3>1, LastFacts DEF IInv
  <2>4. received < Cut + script[posting].body
    BY <2>1, <2>2, <2>3, CutWithin DEF BodyArrived
  <2>5. Ahead'
    BY <1>3, <1>5, <2>1, <2>4 DEF Ahead
  <2> QED
    BY <1>2, <1>3, <1>4, <2>5 DEF InStep
<1>8. CASE StreamActive
  <2>1. Ahead'
    BY <1>3, <1>8 DEF StreamActive, Ahead
  <2> QED
    BY <1>2, <1>3, <1>4, <2>1 DEF InStep
<1>9. CASE ScanEnds
  <2>1. received < Cut + HeadSize /\ posting = 0 /\ at' = "idle"
    BY <1>9, ScanFinds DEF ScanEnds, IInv, Alternate
  <2>2. Ahead'
    BY <1>3, <2>1 DEF Ahead
  <2> QED
    BY <1>2, <1>3, <1>4, <2>2 DEF InStep
<1> QED
  BY <1>6, <1>7, <1>8, <1>9

LEMMA BoundaryIdle ==
  ASSUME BInv, UNCHANGED vars
  PROVE  BInv'
<1> USE DEF vars
<1>1. SUFFICES ASSUME Awaiting PROVE CutAtBoundaries' /\ (at' # "closed" => InStep')
  BY DEF BInv, Awaiting
<1>2. CutAtBoundaries'
  BY <1>1, CutsStay DEF BInv
<1>3. ASSUME at # "closed" PROVE InStep'
  <2>1. Aligned' /\ Unanswered' /\ Heard' /\ LongPieces' /\ Cut' = Cut
    BY <1>1, <1>3, Stays DEF BInv, InStep
  <2>2. LastPiece' /\ Ahead'
    BY <1>1, <1>3, <2>1, Same DEF BInv, InStep, LastPiece, Ahead
  <2> QED
    BY <2>1, <2>2 DEF InStep
<1> QED
  BY <1>2, <1>3

LEMMA BoundaryRead ==
  ASSUME LongReads, IInv, BInv, Awaiting, NEW n \in Nat \ {0}, Read(n)
  PROVE  CutAtBoundaries' /\ InStep'
<1>1. /\ UNCHANGED setting /\ UNCHANGED requests /\ UNCHANGED answers /\ UNCHANGED popped
      /\ at = "idle" /\ received + n <= Limit
      /\ n >= setting.min_read \/ received + n = Limit
      /\ received' = received + n /\ read_buf' = received + 1 /\ at' = "restart"
  BY DEF Read
<1> USE <1>1 DEF requests, answers
<1>2. InStep /\ CutAtBoundaries
  BY DEF BInv
<1>3. CutAtBoundaries'
  BY <1>2, CutsStay
<1>4. /\ Limit \in Nat /\ Limit <= Last[Len(script)] /\ \A k \in Awaited : Limit <= Last[k]
      /\ Last \in [0 .. Len(script) -> Nat] /\ Len(script) \in Nat /\ setting \in Settings
      /\ Awaited \subseteq 1 .. Len(script)
  BY LimitIs, LastFacts DEF IInv, Awaited
<1>5. received \in Nat /\ Cut \in Nat /\ Cut <= received
  BY CutWithin
<1>6. streaming = 0
  <2>1. SUFFICES ASSUME streaming # 0 PROVE FALSE
    OBVIOUS
  <2>2. /\ streaming \in DOMAIN script /\ Cut = Last[streaming] /\ received = Cut
        /\ script[streaming].resp # "whole" /\ streaming \notin broken
        /\ \A i \in 1 .. Len(out) : out[i].req = streaming => out[i].what \in {"head", "data"}
    BY <1>2, <2>1 DEF InStep, Aligned, Unanswered, IInv, InTurn, Begun
  <2>3. ~Answered(streaming)
    BY <2>2 DEF Answered, Written
  <2>4. streaming \in Awaited
    BY <2>2, <2>3 DEF Awaited, Awaiting
  <2> QED
    BY <1>4, <1>5, <2>2, <2>4
<1>7. script' = script /\ Last' = Last /\ Cut' = Cut /\ Awaited' = Awaited /\ Limit' = Limit
  BY Same, SameAwaited DEF Cut
<1>8. \A k : Begun(k)' <=> Begun(k)
  BY <1>7 DEF Begun, First
<1>9. Aligned'
  BY <1>2, <1>6, <1>7 DEF InStep, Aligned
<1>10. Unanswered'
  BY <1>2, <1>7, <1>8 DEF InStep, Unanswered
<1>11. Heard'
  <2>1. Last[Len(script)] \in Nat /\ \A k \in Awaited : Last[k] \in Nat
    BY <1>4
  <2> QED
    BY <1>4, <1>5, <1>7, <2>1 DEF Heard
<1> DEFINE e == [lo |-> received + 1, hi |-> received + n]
           l == Len(buffers)
<1>12. /\ Len(buffers') = l + 1 /\ l \in Nat /\ buffers' # <<>>
       /\ \A i \in 1 .. l : buffers'[i] = buffers[i]
       /\ buffers'[l + 1] = e
  <2>1. buffers \in Seq(Interval) /\ buffers' = Append(buffers, e)
    BY DEF IInv, TypeOK, Read
  <2>2. e \in Interval
    BY <1>5 DEF Interval
  <2> HIDE DEF e
  <2> QED
    BY <2>1, <2>2, AppendProperties
<1>13. LastPiece'
  <2>1. e.lo = received + 1
    OBVIOUS
  <2> HIDE DEF e
  <2> QED
    BY <1>5, <1>7, <1>12, <2>1 DEF LastPiece
<1>14. LongPieces'
  <2>1. received # Limit
    BY <1>4, <1>5
  <2>2. ASSUME NEW i \in 2 .. l PROVE buffers[i].hi - buffers[i].lo >= 2
    <3>1. CASE i = l
      BY <1>2, <2>1, <3>1 DEF InStep, LongPieces
    <3>2. CASE i # l
      <4>1. i \in 2 .. Len(buffers) - 1
        BY <1>12, <3>2
      <4> QED
        BY <1>2, <4>1 DEF InStep, LongPieces
    <3> QED
      BY <3>1, <3>2
  <2>3. \A i \in 2 .. Len(buffers') - 1 : buffers'[i].hi - buffers'[i].lo >= 2
    <3>1. \A i \in 2 .. Len(buffers') - 1 : i \in 2 .. l /\ i \in 1 .. l
      BY <1>12
    <3> HIDE DEF l
    <3> QED
      BY <1>12, <2>2, <3>1
  <2>4. e.hi - e.lo >= 2 \/ received' = Limit'
    <3>1. setting.min_read >= 3 /\ setting.min_read \in Nat
      BY <1>4, ParametersAssumption DEF LongReads, Awaiting
    <3> QED
      BY <1>5, <1>7, <3>1
  <2> HIDE DEF e
  <2> QED
    BY <1>12, <2>3, <2>4 DEF LongPieces
<1>15. Ahead'
  <2>1. posting # 0 => script[posting].body \in Nat
    <3>1. posting # 0 => posting \in DOMAIN script
      BY DEF IInv, InTurn, Begun
    <3> QED
      BY <1>4, <3>1, LastFacts
  <2>2. posting = 0 => received < Cut + HeadSize
    BY <1>2, <1>6 DEF InStep, Ahead
  <2>3. posting # 0 => received < Cut + script[posting].body
    BY <1>2 DEF InStep, Ahead
  <2>4. posting = 0 => read_buf' <= Cut + HeadSize
    BY <1>5, <2>2 DEF HeadSize
  <2>5. posting # 0 => read_buf' <= Cut + script[posting].body
    BY <1>5, <2>1, <2>3
  <2> QED
    BY <1>7, <2>4, <2>5 DEF Ahead
<1> QED
  BY <1>3, <1>9, <1>10, <1>11, <1>13, <1>14, <1>15 DEF InStep

(* A body is cut out once it has arrived.                                  *)
LEMMA BoundaryBody ==
  ASSUME IInv, IInv', BInv, Awaiting, PostComplete \/ PostRefused
  PROVE  CutAtBoundaries' /\ (at' # "closed" => InStep')
<1> DEFINE k == posting
           n == script[posting].body
<1>1. /\ UNCHANGED <<received, read_buf, read_buf_len, seen, skip, taken_over>>
      /\ UNCHANGED setting /\ k # 0 /\ BodyArrived /\ at = "restart"
      /\ buffers' = Pop(n) /\ popped' = Append(popped, Taken("body", k, n))
  BY DEF PostComplete, PostRefused, requests
<1> USE <1>1
<1>2. /\ k \in Nat /\ k \in DOMAIN script /\ n \in Nat /\ n >= 1 /\ n <= received - Cut
      /\ streaming = 0 /\ Begun(k)
  BY BodyFacts
<1>3. InStep /\ CutAtBoundaries /\ setting \in Settings
  BY DEF BInv, IInv
<1>4. Cut = Last[k - 1] + HeadSize /\ read_buf <= Cut + n
  BY <1>3 DEF InStep, Aligned, Ahead
<1>5. Last[k] = Cut + n
  BY <1>2, <1>3, <1>4, LastFacts
<1> HIDE DEF n
<1>6. /\ Chained' /\ Cut' = Cut + n /\ buffers # <<>> /\ buffers[1].lo = Cut + 1
      /\ buffers' # <<>> => LeftOf(buffers, buffers')
  <2>1. TypeOK /\ Chained /\ "body" \in {"head", "body"}
    BY DEF IInv
  <2> QED
    BY <1>2, <2>1, PopStep
<1>7. Cut \in Nat /\ received \in Nat /\ Cut <= received
  BY CutWithin
<1>8. CutAtBoundaries'
  <2> DEFINE t == Taken("body", k, n)
  <2>1. /\ t \in Popped /\ t.req = k /\ t.what = "body"
        /\ t.lo = Cut + 1 /\ t.hi = Cut + n
    BY <1>2, <1>6, <1>7 DEF Taken, Popped
  <2> HIDE DEF t
  <2>2. First(k) + HeadSize = Cut + 1
    <3>1. Len(script) \in Nat /\ k \in 1 .. Len(script) /\ k - 1 \in 0 .. Len(script)
      BY <1>2, <1>3, LastFacts
    <3>2. Last[k - 1] \in Nat
      BY <1>3, <3>1, LastFacts
    <3> QED
      BY <1>4, <3>2 DEF First, HeadSize
  <2>3. popped' = Append(popped, t)
    BY DEF t
  <2> QED
    BY <1>3, <1>5, <2>1, <2>2, <2>3, CutsGrow
<1>9. ASSUME PostComplete PROVE InStep'
  <2>1. Respond(k, skip, "restart") /\ posting' = 0
    BY <1>9 DEF PostComplete, n
  <2>2. \A i \in 1 .. Len(out) : out[i].req < k
    BY DEF IInv, InTurn
  <2>3. k \notin broken
    BY <1>2, <1>3 DEF InStep, Unanswered
  <2>4. /\ Awaited' \subseteq Awaited /\ broken' = broken
        /\ script[k].resp = "whole" => Limit' = Limit
        /\ script[k].resp # "whole" => received <= Last[k]
        /\ streaming' # 0 =>
             /\ streaming' = k /\ script[k].resp # "whole" /\ at' = "restart"
             /\ \A i \in 1 .. Len(out') : out'[i].req = k => out'[i].what \in {"head", "data"}
        /\ streaming' = 0 => at' = "restart"
    <3>1. skip \in BOOLEAN /\ Heard /\ "restart" \in {"restart", "scan"}
      BY <1>3 DEF IInv, TypeOK, InStep
    <3> HIDE DEF k
    <3> QED
      BY <1>2, <2>1, <2>2, <2>3, <3>1, AnswerStep
  <2>5. Cut' = Last[k] /\ Cut' <= received /\ Cut' \in Nat
    BY <1>2, <1>5, <1>6, <1>7
  <2>6. script[k].resp # "whole" => received = Cut'
    BY <1>7, <2>4, <2>5
  <2>7. script' = script /\ Last' = Last
    BY Same
  <2>8. Aligned'
    <3>1. k \in 0 .. Len(script)
      BY <1>2, <1>3, LastFacts
    <3>2. streaming' # 0 => Cut' = Last[streaming'] /\ received = Cut'
      BY <2>4, <2>5, <2>6
    <3>3. \E j \in 0 .. Len(script') : Cut' = Last'[j]
      BY <2>5, <2>7, <3>1
    <3> QED
      BY <2>1, <2>7, <3>2, <3>3 DEF Aligned
  <2>9. Unanswered'
    <3>1. \A j : Begun(j) => Begun(j)'
      BY <1>2, <1>6, BegunKeeps
    <3>2. (\A j \in broken : Begun(j) /\ j # streaming /\ (posting # 0 => j < posting))'
      BY <1>2, <1>3, <2>1, <2>3, <2>4, <3>1 DEF InStep, Unanswered
    <3>3. (streaming # 0 =>
             /\ script[streaming].resp # "whole"
             /\ \A i \in 1 .. Len(out) : out[i].req = streaming => out[i].what \in {"head", "data"})'
      BY <2>4, <2>7
    <3> QED
      BY <3>2, <3>3 DEF Unanswered
  <2>10. Heard'
    BY <1>3, <2>4, <2>7 DEF InStep, Heard
  <2>11. LongPieces' /\ LastPiece'
    <3>1. Limit' = Limit \/ received = Cut'
      BY <2>4, <2>6
    <3> QED
      BY <1>2, <1>3, <1>6, <3>1, PopPieces DEF InStep
  <2>12. Ahead'
    <3>1. read_buf' <= Cut' + HeadSize
      <4>1. read_buf \in Nat
        BY DEF IInv, TypeOK
      <4> QED
        BY <1>2, <1>4, <1>6, <1>7, <4>1 DEF HeadSize
    <3> QED
      BY <2>1, <2>4, <3>1 DEF Ahead
  <2> QED
    BY <2>8, <2>9, <2>10, <2>11, <2>12 DEF InStep
<1>10. CASE PostRefused
  BY <1>8, <1>10 DEF PostRefused
<1> QED
  BY <1>8, <1>9, <1>10

(* The search starts where no header's end is behind it.                   *)
LEMMA BoundaryStartScan ==
  ASSUME IInv, IInv', BInv, Awaiting, StartScan
  PROVE  CutAtBoundaries' /\ InStep'
<1>1. /\ UNCHANGED <<received, buffers, popped>> /\ UNCHANGED setting
      /\ UNCHANGED requests /\ UNCHANGED answers /\ posting = 0 /\ streaming = 0
      /\ at = "restart" /\ read_buf' = read_buf + Shrunk /\ read_buf_len' = read_buf_len - Shrunk
  BY DEF StartScan
<1> USE <1>1 DEF requests, answers
<1>2. InStep /\ CutAtBoundaries
  BY DEF BInv
<1>3. CutAtBoundaries'
  BY <1>2, CutsStay
<1>4. Aligned' /\ Unanswered' /\ Heard' /\ LongPieces' /\ Cut' = Cut
  BY <1>2, Stays DEF InStep
<1>5. /\ received \in Nat /\ buffers \in Seq(Interval) /\ Cut \in Nat
      /\ read_buf \in Nat /\ read_buf_len \in Nat
      /\ read_buf + read_buf_len = received + 1 /\ read_buf <= Cut + HeadSize
  BY <1>2, CutType DEF IInv, TypeOK, Scanned, InStep, Ahead
<1>6. Size = received - Cut /\ Size \in Nat
  BY <1>5, SizeIs DEF IInv, Chained
<1>7. read_buf' = IF read_buf > Cut THEN read_buf ELSE Cut + 1
  BY <1>5, <1>6 DEF Shrunk
<1>8. read_buf' > Cut /\ read_buf' <= Cut + HeadSize /\ read_buf' \in Nat
  BY <1>5, <1>7 DEF HeadSize
<1>9. LastPiece'
  BY <1>2, <1>4, <1>7, <1>8 DEF InStep, LastPiece
<1>10. Ahead'
  <2>1. CASE read_buf_len' = 0
    <3>1. at' = "idle" /\ read_buf' = received + 1
      BY <1>5, <1>6, <2>1 DEF StartScan, Shrunk
    <3> QED
      BY <1>4, <1>5, <1>8, <3>1 DEF Ahead, HeadSize
  <2>2. CASE read_buf_len' # 0
    <3> DEFINE l == Len(buffers)
    <3>1. at' = "scan" /\ seen' = SeenBefore(read_buf')
      BY <2>2 DEF StartScan
    <3>2. buffers # <<>> /\ l \in Nat /\ l >= 1
      <4>1. Cut # received
        BY <1>5, <1>6, <2>2 DEF Shrunk
      <4>2. buffers # <<>>
        BY <4>1 DEF IInv, Chained, Chain
      <4> QED
        BY <1>5, <4>2
    <3>3. buffers[l].lo = read_buf'
      BY <1>2, <1>7, <3>2 DEF InStep, LastPiece
    <3>4. \A j \in 1 .. l :
            buffers[j].lo \in Nat /\ buffers[j].hi \in Nat /\ buffers[j].lo >= Cut + 1
      <4>1. TAKE j \in 1 .. l
      <4>2. buffers[j] \in Interval /\ buffers[j].lo >= Cut + 1
        BY <1>5, ElementOfSeq, ChainLow DEF IInv, Chained
      <4> QED
        BY <4>2 DEF Interval
    <3> HIDE DEF l
    <3>5. seen' <= Cut + 2
      <4>1. CASE l = 1
        <5>1. seen' = read_buf' /\ buffers[1].lo = Cut + 1
          BY <3>1, <3>2, <3>3, <4>1 DEF SeenBefore, IInv, Chained, Chain, l
        <5> QED
          BY <1>5, <3>3, <4>1, <5>1
      <4>2. CASE l > 1
        <5> DEFINE i == l - 1
        <5>1. i \in 1 .. l /\ i # 0 /\ i \in 1 .. l - 1 /\ i + 1 = l
          BY <3>2, <4>2
        <5>2. seen' = IF buffers[i].hi - 2 < buffers[i].lo THEN buffers[i].lo ELSE buffers[i].hi - 2
          BY <3>1, <3>3, <5>1 DEF SeenBefore, l
        <5>3. buffers[i].hi + 1 = read_buf'
          BY <3>3, <5>1 DEF IInv, Chained, Chain, l
        <5>4. buffers[i].hi - buffers[i].lo >= 2 \/ buffers[i].lo = Cut + 1
          <6>1. CASE i = 1
            BY <3>2, <6>1 DEF IInv, Chained, Chain
          <6>2. CASE i # 1
            <7>1. i \in 2 .. Len(buffers) - 1
              BY <3>2, <5>1, <6>2 DEF l
            <7> QED
              BY <1>2, <7>1 DEF InStep, LongPieces
          <6> QED
            BY <6>1, <6>2
        <5>5. buffers[i].lo \in Nat /\ buffers[i].hi \in Nat
          BY <3>4, <5>1
        <5> DEFINE a == buffers[i].lo
                   b == buffers[i].hi
        <5>6. a \in Nat /\ b \in Nat /\ b <= Cut + 4 /\ (b - a >= 2 \/ a = Cut + 1)
          BY <1>5, <1>8, <5>3, <5>4, <5>5 DEF HeadSize
        <5>7. seen' = IF b - 2 < a THEN a ELSE b - 2
          BY <5>2
        <5> HIDE DEF a, b
        <5> QED
          BY <1>5, <5>6, <5>7
      <4> QED
        BY <3>2, <4>1, <4>2
    <3> QED
      BY <1>4, <1>8, <3>1, <3>5 DEF Ahead
  <2> QED
    BY <2>1, <2>2
<1> QED
  BY <1>3, <1>4, <1>9, <1>10 DEF InStep

(* Behind the header that was cut out the search swallows at most the      *)
(* first byte of the next request.                                         *)
LEMMA ResumeIs ==
  ASSUME setting \in Settings, NEW p \in Nat, received \in Nat, p <= received,
         p = received \/ (Char(p + 1) = "h" /\ (p + 2 <= received => Char(p + 2) = "CR"))
  PROVE  Resume(p) <= p + 2
<1> DEFINE after == {q \in p + 1 .. received : Char(q) # setting.beyond}
<1>1. CASE after = {}
  <2>1. Resume(p) = received + 1
    BY <1>1 DEF Resume
  <2>2. SUFFICES ASSUME p + 2 <= received PROVE FALSE
    BY <2>1
  <2>3. p + 1 \in p + 1 .. received /\ p + 2 \in p + 1 .. received
    BY <2>2
  <2>4. Char(p + 1) = setting.beyond /\ Char(p + 2) = setting.beyond
    BY <1>1, <2>3
  <2> QED
    BY <2>2, <2>4
<1>2. CASE after # {}
  <2>1. Resume(p) = CHOOSE q \in after : \A r \in after : q <= r
    BY <1>2 DEF Resume
  <2>2. after \subseteq Nat
    OBVIOUS
  <2>3. p + 1 \in after \/ p + 2 \in after \/ p + 2 > received
    <3>1. SUFFICES ASSUME p + 2 <= received PROVE p + 1 \in after \/ p + 2 \in after
      OBVIOUS
    <3>2. p + 1 \in p + 1 .. received /\ p + 2 \in p + 1 .. received /\ Char(p + 1) # Char(p + 2)
      BY <3>1
    <3> QED
      BY <3>2
  <2>4. after \subseteq p + 1 .. received
    OBVIOUS
  <2> HIDE DEF after
  <2>5. Resume(p) \in after /\ \A q \in after : Resume(p) <= q
    BY <1>2, <2>1, <2>2, ChosenIsFirst
  <2>6. Resume(p) \in p + 1 .. received
    BY <2>4, <2>5
  <2>7. p + 1 \in after => Resume(p) <= p + 1
    BY <2>5
  <2>8. p + 2 \in after => Resume(p) <= p + 2
    BY <2>5
  <2> QED
    BY <2>3, <2>6, <2>7, <2>8
<1> QED
  BY <1>1, <1>2

(* A header is cut out.                                                    *)
LEMMA HeadCut ==
  ASSUME IInv, BInv, Awaiting, at = "scan", Hits # {}, UNCHANGED <<setting, received>>,
         buffers' = Pop(req_size),
         popped' = Append(popped, Taken("head", RequestAt(buffers[1].lo), req_size))
  PROVE  /\ CutAtBoundaries' /\ Cut' = Cut + HeadSize
         /\ buffers' # <<>> => LeftOf(buffers, buffers')
         /\ \E k \in DOMAIN script :
              /\ RequestAt(buffers[1].lo) = k /\ Cut = Last[k - 1] /\ First(k) = Cut + 1
              /\ FirstHit = Cut' /\ Last[k] = Cut' + script[k].body
              /\ \A i \in 1 .. Len(out) : out[i].req < k
              /\ \A j \in broken : Begun(j) /\ j < k
<1>1. PICK k \in DOMAIN script :
         /\ Cut = Last[k - 1] /\ First(k) = Cut + 1 /\ RequestAt(Cut + 1) = k
         /\ FirstHit = Cut + HeadSize /\ Last[k] = Cut + HeadSize + script[k].body
  BY ScanFinds
<1>2. /\ req_size \in Nat /\ req_size >= 1 /\ req_size <= received - Cut
      /\ buffers # <<>> /\ buffers[1].lo = Cut + 1
  BY RequestFacts
<1>3. RequestAt(buffers[1].lo) = k /\ k # 0 /\ k \in Nat
  BY <1>1, <1>2, ScriptType DEF IInv
<1>4. \A i \in 1 .. Len(out) : out[i].req < k
  BY <1>3, RequestFacts
<1>5. req_size = HeadSize /\ Cut \in Nat
  BY <1>1, HitFacts, CutWithin DEF HeadSize
<1> DEFINE t == Taken("head", k, req_size)
<1>6. /\ Cut' = Cut + req_size /\ (buffers' # <<>> => LeftOf(buffers, buffers'))
  <2>1. TypeOK /\ Chained /\ "head" \in {"head", "body"}
    BY DEF IInv
  <2> QED
    BY <1>2, <1>3, <2>1, PopStep
<1>7. CutAtBoundaries'
  <2>1. /\ t \in Popped /\ t.req = k /\ t.what = "head"
        /\ t.lo = First(k) /\ t.hi = First(k) + HeadSize - 1
    BY <1>1, <1>2, <1>3, <1>5 DEF Taken, Popped, HeadSize
  <2>2. popped' = Append(popped, t)
    BY <1>3
  <2> HIDE DEF t
  <2>3. CutAtBoundaries
    BY DEF BInv
  <2> QED
    BY <1>3, <2>1, <2>2, <2>3, CutsGrow
<1>8. ASSUME NEW j \in broken PROVE Begun(j) /\ j < k
  <2>1. Begun(j)
    BY DEF BInv, InStep, Unanswered
  <2>2. j \in DOMAIN script /\ First(j) <= Cut
    BY <2>1 DEF Begun
  <2>3. First(j) \in Nat
    <3>1. Len(script) \in Nat /\ j \in 1 .. Len(script) /\ j - 1 \in 0 .. Len(script)
      BY <2>2, LastFacts DEF IInv
    <3>2. Last[j - 1] \in Nat
      BY <3>1, LastFacts DEF IInv
    <3> QED
      BY <3>2 DEF First
  <2>4. First(j) < First(k)
    BY <1>1, <1>5, <2>2, <2>3
  <2> QED
    BY <2>1, <2>2, <2>4, FirstsInOrder DEF IInv
<1> QED
  BY <1>1, <1>3, <1>4, <1>5, <1>6, <1>7, <1>8

LEMMA BoundaryRequest ==
  ASSUME LongReads, IInv, IInv', BInv, Awaiting, NEW skipped \in BOOLEAN, Request(skipped)
  PROVE  CutAtBoundaries' /\ InStep'
<1>1. /\ UNCHANGED <<received, read_buf, read_buf_len>> /\ UNCHANGED setting
      /\ at = "scan" /\ Hits # {}
      /\ buffers' = Pop(req_size)
      /\ popped' = Append(popped, Taken("head", RequestAt(buffers[1].lo), req_size))
      /\ seen' = Resume(FirstHit)
  BY DEF Request
<1> USE <1>1
<1>2. CutAtBoundaries' /\ Cut' = Cut + HeadSize /\ (buffers' # <<>> => LeftOf(buffers, buffers'))
  BY HeadCut
<1>3. PICK k \in DOMAIN script :
         /\ RequestAt(buffers[1].lo) = k /\ Cut = Last[k - 1] /\ First(k) = Cut + 1
         /\ FirstHit = Cut' /\ Last[k] = Cut' + script[k].body
         /\ \A i \in 1 .. Len(out) : out[i].req < k
         /\ \A j \in broken : Begun(j) /\ j < k
  BY HeadCut
<1>4. InStep /\ setting \in Settings /\ posting = 0 /\ streaming = 0
  BY DEF BInv, IInv, Alternate
<1>5. /\ Last \in [0 .. Len(script) -> Nat] /\ Len(script) \in Nat /\ k \in 1 .. Len(script)
      /\ script[k].body \in Nat
  BY <1>3, <1>4, LastFacts
<1>6. /\ Cut \in Nat /\ received \in Nat /\ Cut' \in Nat /\ Cut' <= received
      /\ read_buf \in Nat /\ read_buf <= Cut' /\ read_buf' <= Cut' + HeadSize
  <2>1. FirstHit <= received
    BY HitFacts
  <2>2. Cut \in Nat /\ received \in Nat
    BY CutWithin
  <2>3. read_buf \in Nat
    BY DEF IInv, TypeOK
  <2>4. read_buf <= Cut + HeadSize
    BY <1>4 DEF InStep, Ahead
  <2> QED
    BY <1>2, <1>3, <2>1, <2>2, <2>3, <2>4 DEF HeadSize
<1>7. script' = script /\ Last' = Last
  BY Same
<1>8. (\A j : Begun(j) => Begun(j)') /\ HeadSize \in Nat /\ HeadSize >= 1
  <2>1. HeadSize \in Nat /\ HeadSize >= 1
    BY DEF HeadSize
  <2> QED
    BY <1>2, <2>1, BegunKeeps
<1>9. HasBody(k) <=> script[k].body > 0
  BY <1>3, <1>4 DEF HasBody, LongReads, Awaiting, script
<1>10. ASSUME Limit' = Limit \/ received = Cut' PROVE LongPieces' /\ LastPiece'
  BY <1>2, <1>4, <1>8, <1>10, PopPieces DEF InStep
<1>11. ASSUME HasBody(k), posting' = k, at' = "restart", UNCHANGED answers
       PROVE  InStep'
  <2> USE <1>11 DEF answers
  <2>1. Awaited' = Awaited /\ Limit' = Limit
    BY SameAwaited
  <2>2. Aligned'
    BY <1>2, <1>3, <1>4, <1>5, <1>7 DEF Aligned
  <2>3. Unanswered'
    <3>1. (\A j \in broken : Begun(j) /\ j # streaming /\ (posting # 0 => j < posting))'
      BY <1>3, <1>4, <1>8 DEF InStep, Unanswered
    <3> QED
      BY <1>4, <3>1 DEF Unanswered
  <2>4. Heard'
    BY <1>4, <1>7, <2>1 DEF InStep, Heard
  <2>5. LongPieces' /\ LastPiece'
    BY <1>10, <2>1
  <2>6. Ahead'
    BY <1>5, <1>6, <1>7 DEF Ahead
  <2> QED
    BY <2>2, <2>3, <2>4, <2>5, <2>6 DEF InStep
<1>12. ASSUME ~HasBody(k), Respond(k, skipped, "scan"), UNCHANGED posting
       PROVE  InStep'
  <2>1. Last[k] = Cut' /\ k \notin broken
    BY <1>3, <1>5, <1>6, <1>9, <1>12
  <2>2. /\ Awaited' \subseteq Awaited /\ broken' = broken
        /\ script[k].resp = "whole" => Limit' = Limit
        /\ script[k].resp # "whole" => received <= Last[k]
        /\ streaming' # 0 =>
             /\ streaming' = k /\ script[k].resp # "whole" /\ at' = "restart"
             /\ \A i \in 1 .. Len(out') : out'[i].req = k => out'[i].what \in {"head", "data"}
        /\ streaming' = 0 => at' = "scan"
    <3>1. Heard /\ "scan" \in {"restart", "scan"}
      BY <1>4 DEF InStep
    <3> QED
      BY <1>3, <1>4, <1>12, <2>1, <3>1, AnswerStep
  <2>3. script[k].resp # "whole" => received = Cut'
    BY <1>6, <2>1, <2>2
  <2>4. Aligned'
    <3>1. \E j \in 0 .. Len(script') : Cut' = Last'[j]
      BY <1>5, <1>7, <2>1
    <3>2. streaming' # 0 => Cut' = Last'[streaming'] /\ received' = Cut'
      BY <1>7, <2>1, <2>2, <2>3
    <3> QED
      BY <1>4, <1>12, <3>1, <3>2 DEF Aligned
  <2>5. Unanswered'
    <3>1. (\A j \in broken : Begun(j) /\ j # streaming /\ (posting # 0 => j < posting))'
      BY <1>3, <1>4, <1>12, <1>8, <2>1, <2>2 DEF InStep, Unanswered
    <3>2. (streaming # 0 =>
             /\ script[streaming].resp # "whole"
             /\ \A i \in 1 .. Len(out) : out[i].req = streaming => out[i].what \in {"head", "data"})'
      BY <1>7, <2>2
    <3> QED
      BY <3>1, <3>2 DEF Unanswered
  <2>6. Heard'
    BY <1>4, <1>7, <2>2 DEF InStep, Heard
  <2>7. LongPieces' /\ LastPiece'
    BY <1>10, <2>2, <2>3
  <2>8. Ahead'
    <3>1. seen' <= Cut' + 2
      <4>1. Cut' = received \/ (Char(Cut' + 1) = "h" /\ (Cut' + 2 <= received => Char(Cut' + 2) = "CR"))
        <5>1. CASE k = Len(script)
          <6>1. received <= Last[Len(script)]
            BY <1>4 DEF InStep, Heard
          <6>2. Last[Len(script)] = Cut'
            BY <2>1, <5>1
          <6>3. received <= Cut'
            BY <6>1, <6>2
          <6>4. Cut' = received
            BY <1>6, <6>3
          <6> QED
            BY <6>4
        <5>2. CASE k # Len(script)
          <6>1. k + 1 \in DOMAIN script /\ (k + 1) - 1 = k
            BY <1>4, <1>5, <5>2, LastFacts
          <6>2. 1 \in 1 .. HeadSize /\ 2 \in 1 .. HeadSize /\ newlines[1] = "CR"
            BY DEF HeadSize, newlines
          <6>3. Char(Last[(k + 1) - 1] + 1) = "h" /\ Char(Last[(k + 1) - 1] + 2) = newlines[2 - 1]
            BY <1>4, <6>1, <6>2, CharAt
          <6> QED
            BY <2>1, <6>1, <6>2, <6>3
        <5> QED
          BY <5>1, <5>2
      <4>2. Resume(Cut') <= Cut' + 2
        BY <1>4, <1>6, <4>1, ResumeIs
      <4> QED
        BY <1>3, <4>2
    <3>2. read_buf' <= Cut' + HeadSize
      BY <1>6
    <3> QED
      BY <1>4, <1>12, <2>2, <3>1, <3>2 DEF Ahead
  <2> QED
    BY <2>4, <2>5, <2>6, <2>7, <2>8 DEF InStep
<1> QED
  BY <1>2, <1>3, <1>11, <1>12 DEF Request

LEMMA BoundaryRefused ==
  ASSUME IInv, BInv, Awaiting, RequestRefused
  PROVE  CutAtBoundaries' /\ at' = "closed"
<1>1. /\ UNCHANGED <<setting, received>> /\ at = "scan" /\ Hits # {} /\ at' = "closed"
      /\ buffers' = Pop(req_size)
      /\ popped' = Append(popped, Taken("head", RequestAt(buffers[1].lo), req_size))
  BY DEF RequestRefused
<1> QED
  BY <1>1, HeadCut

(* While a response is streamed nothing is buffered, so whatever its       *)
(* provider does leaves the next header ahead.                             *)
LEMMA BoundaryNotify ==
  ASSUME IInv, BInv, Awaiting, Notify
  PROVE  CutAtBoundaries' /\ InStep'
<1>1. /\ UNCHANGED <<received, buffers, popped, read_buf, setting, posting, at>>
      /\ at = "idle" /\ streaming # 0 /\ streaming' \in {0, streaming}
      /\ broken' \in {broken, broken \union {streaming}}
      /\ streaming' # 0 =>
           /\ broken' = broken
           /\ \E w \in {"head", "data"} : out' = Append(out, [req |-> streaming, what |-> w])
      /\ out' = out \/ \E w \in {"head", "data", "end"} :
                         out' = Append(out, [req |-> streaming, what |-> w])
  BY DEF Notify, DelayFinish, NotifyData, NotifyEnd, NotifyFailed, reading, requests
<1> USE <1>1
<1>2. InStep /\ CutAtBoundaries /\ setting \in Settings
  BY DEF BInv, IInv
<1>3. /\ posting = 0 /\ streaming \in DOMAIN script /\ streaming \in Nat /\ Begun(streaming)
      /\ Cut = Last[streaming] /\ received = Cut /\ script[streaming].resp # "whole"
      /\ out \in Seq(Written0) /\ Cut \in Nat /\ Len(out) \in Nat
  <2>1. posting = 0 /\ Begun(streaming) /\ out \in Seq(Written0)
    BY DEF IInv, Alternate, InTurn, TypeOK, Written0
  <2>2. Cut = Last[streaming] /\ received = Cut /\ script[streaming].resp # "whole"
    BY <1>2 DEF InStep, Aligned, Unanswered
  <2>3. streaming \in DOMAIN script /\ streaming \in Nat
    BY <2>1, ScriptType DEF Begun, IInv
  <2> QED
    BY <2>1, <2>2, <2>3, CutWithin
<1>4. script' = script /\ Last' = Last /\ Cut' = Cut
  BY Same DEF Cut
<1>5. CutAtBoundaries'
  BY <1>2, CutsStay
<1>6. \A w \in {"head", "data", "end"} : [req |-> streaming, what |-> w] \in Written0
  BY <1>3 DEF Written0
<1>7. Awaited' \subseteq Awaited
  <2>1. out' = out \/ \E e \in Written0 : out' = Append(out, e)
    BY <1>6
  <2> QED
    BY <1>3, <2>1, AwaitedShrinks
<1>8. \A k : Begun(k)' <=> Begun(k)
  BY <1>4 DEF Begun, First
<1>9. Aligned'
  BY <1>2, <1>3, <1>4 DEF InStep, Aligned
<1>10. Unanswered'
  <2>1. \A k \in broken' : Begun(k) /\ k # streaming'
    <3>1. \A k \in broken : Begun(k) /\ k # streaming
      BY <1>2 DEF InStep, Unanswered
    <3>2. \A k : Begun(k) => k # 0
      BY LastFacts, <1>2 DEF Begun
    <3> QED
      BY <1>3, <3>1, <3>2
  <2>2. ASSUME streaming' # 0, NEW i \in 1 .. Len(out'), out'[i].req = streaming
        PROVE  out'[i].what \in {"head", "data"}
    <3>1. PICK w \in {"head", "data"} : out' = Append(out, [req |-> streaming, what |-> w])
      BY <2>2
    <3> DEFINE e == [req |-> streaming, what |-> w]
    <3>2. e \in Written0 /\ e.what = w
      BY <1>6
    <3> HIDE DEF e
    <3>3. /\ Len(out') = Len(out) + 1 /\ out'[Len(out) + 1] = e
          /\ \A j \in 1 .. Len(out) : out'[j] = out[j]
      BY <1>3, <3>1, <3>2, AppendProperties DEF e
    <3>4. CASE i = Len(out) + 1
      BY <3>2, <3>3, <3>4
    <3>5. CASE i # Len(out) + 1
      <4>1. i \in 1 .. Len(out) /\ out'[i] = out[i]
        BY <1>3, <3>3, <3>5
      <4> QED
        BY <1>2, <2>2, <4>1 DEF InStep, Unanswered
    <3> QED
      BY <3>4, <3>5
  <2>3. (\A k \in broken : Begun(k) /\ k # streaming /\ (posting # 0 => k < posting))'
    BY <1>3, <1>8, <2>1
  <2>4. (streaming # 0 =>
           /\ script[streaming].resp # "whole"
           /\ \A i \in 1 .. Len(out) : out[i].req = streaming => out[i].what \in {"head", "data"})'
    BY <1>3, <1>4, <2>2
  <2> QED
    BY <2>3, <2>4 DEF Unanswered
<1>11. Heard'
  BY <1>2, <1>4, <1>7 DEF InStep, Heard
<1>12. buffers' = <<>>
  BY <1>3, ChainEmpty DEF IInv, TypeOK, Chained
<1>13. LongPieces' /\ LastPiece'
  <2>1. Len(buffers') = 0
    BY <1>12
  <2> QED
    BY <1>12, <2>1 DEF LongPieces, LastPiece
<1>14. Ahead'
  BY <1>3, <1>4 DEF Ahead, HeadSize
<1> QED
  BY <1>5, <1>9, <1>10, <1>11, <1>13, <1>14 DEF InStep

LEMMA InitBInv == ASSUME Init PROVE BInv
<1>1. /\ buffers = <<>> /\ out = <<>> /\ popped = <<>> /\ received = 0 /\ at = "idle"
      /\ posting = 0 /\ streaming = 0 /\ broken = {} /\ setting \in Settings
  BY DEF Init
<1>2. /\ Last \in [0 .. Len(script) -> Nat] /\ Last[0] = 0 /\ Len(script) \in Nat
      /\ Awaited \subseteq 1 .. Len(script)
  BY <1>1, LastFacts DEF Awaited
<1>3. Cut = 0 /\ Len(buffers) = 0 /\ Len(out) = 0 /\ Len(popped) = 0
  BY <1>1 DEF Cut
<1>4. CutAtBoundaries
  BY <1>3 DEF CutAtBoundaries
<1>5. Aligned
  <2>1. 0 \in 0 .. Len(script) /\ Cut = Last[0]
    BY <1>2, <1>3
  <2> QED
    BY <1>1, <2>1 DEF Aligned
<1>6. Unanswered
  BY <1>1 DEF Unanswered
<1>7. Heard
  <2>1. Last[Len(script)] \in Nat /\ \A k \in Awaited : Last[k] \in Nat
    BY <1>2
  <2> QED
    BY <1>1, <2>1 DEF Heard
<1>8. LongPieces /\ LastPiece /\ Ahead
  BY <1>1, <1>3 DEF LongPieces, LastPiece, Ahead, HeadSize
<1> QED
  BY <1>4, <1>5, <1>6, <1>7, <1>8 DEF BInv, InStep

LEMMA StepBInv ==
  ASSUME LongReads, IInv, BInv, [Next]_vars
  PROVE  IInv' /\ BInv'
<1>1. IInv'
  BY StepIInv
<1>2. CASE UNCHANGED vars
  BY <1>1, <1>2, BoundaryIdle
<1>3. CASE Next
  <2>1. UNCHANGED setting
    BY <1>3 DEF Next, Read, Handle, Notify, PostComplete, PostRefused, PostWaits, StreamActive,
                StartScan, ScanEnds, Request, RequestRefused, DelayFinish, NotifyData, NotifyEnd,
                NotifyFailed, ClientCloses
  <2>2. SUFFICES ASSUME Awaiting PROVE CutAtBoundaries' /\ (at' # "closed" => InStep')
    BY <1>1, <2>1 DEF BInv, Awaiting
  <2>3. ASSUME NEW n \in 1 .. Limit, Read(n) PROVE CutAtBoundaries' /\ InStep'
    BY <2>2, <2>3, BoundaryRead
  <2>4. ASSUME NEW s \in BOOLEAN, Request(s) PROVE CutAtBoundaries' /\ InStep'
    BY <1>1, <2>2, <2>4, BoundaryRequest
  <2>5. CASE PostComplete \/ PostRefused
    BY <1>1, <2>2, <2>5, BoundaryBody
  <2>6. CASE PostWaits \/ StreamActive \/ ScanEnds \/ ClientCloses
    <3>1. at # "closed"
      BY <2>6 DEF PostWaits, StreamActive, ScanEnds, ClientCloses
    <3> QED
      BY <2>2, <2>6, <3>1, BoundaryReturn
  <2>7. CASE StartScan
    BY <1>1, <2>2, <2>7, BoundaryStartScan
  <2>8. CASE RequestRefused
    BY <2>2, <2>8, BoundaryRefused
  <2>9. CASE Notify
    BY <2>2, <2>9, BoundaryNotify
  <2> QED
    BY <1>3, <2>3, <2>4, <2>5, <2>6, <2>7, <2>8, <2>9 DEF Next, Handle
<1> QED
  BY <1>1, <1>2, <1>3

(* What the handler waits for has not arrived.                             *)
LEMMA AheadImplies == IInv /\ BInv => NoneOverlooked
<1> SUFFICES ASSUME IInv, BInv, Awaiting, at = "idle", posting = 0, streaming = 0, buffers # <<>>,
                    NEW p \in 1 .. received - 3, p >= buffers[1].lo,
                    \A i \in 0 .. 3 : Char(p + i) = newlines[i + 1]
             PROVE  FALSE
  BY DEF NoneOverlooked
<1>1. received < Cut + HeadSize /\ received <= Last[Len(script)]
  BY DEF BInv, InStep, Ahead, Heard
<1>2. PICK j \in 0 .. Len(script) : Cut = Last[j]
  BY DEF BInv, InStep, Aligned
<1>3. Cut \in Nat /\ received \in Nat /\ Len(script) \in Nat /\ buffers[1].lo = Cut + 1
  BY CutWithin, LastFacts DEF IInv, Chained, Chain
<1>4. p = Cut + 1
  BY <1>1, <1>3 DEF HeadSize
<1>5. j < Len(script)
  <2>1. j = Len(script) => received = Cut
    BY <1>1, <1>2, Boundary
  <2>2. received # Cut
    BY <1>3, <1>4
  <2> QED
    BY <1>3, <2>1, <2>2
<1>6. Char(p) = "h"
  BY <1>1, <1>2, <1>4, <1>5, Boundary
<1>7. Char(p + 0) = newlines[0 + 1] /\ p + 0 = p
  BY <1>3, <1>4
<1> QED
  BY <1>6, <1>7 DEF newlines

-----------------------------------------------------------------------------
(* For every script, every division into reads of three bytes or more, and *)
(* whatever lies behind newlines in memory: handle_http_server_read cuts   *)
(* out exactly the headers and exactly the bodies of the requests.         *)
THEOREM CutsRequests == ASSUME LongReads PROVE Spec => []CutAtBoundaries
<1>1. Init => IInv /\ BInv
  BY InitIInv, InitBInv
<1>2. IInv /\ BInv /\ [Next]_vars => IInv' /\ BInv'
  BY StepBInv
<1>3. BInv => CutAtBoundaries
  BY DEF BInv, CutAtBoundaries
<1> QED
  BY <1>1, <1>2, <1>3, PTL DEF Spec

(* Under the same conditions the handler never goes back to wait for more  *)
(* while the end of a header is already in read_buffer.                    *)
THEOREM OverlooksNone == ASSUME LongReads PROVE Spec => []NoneOverlooked
<1>1. Init => IInv /\ BInv
  BY InitIInv, InitBInv
<1>2. IInv /\ BInv /\ [Next]_vars => IInv' /\ BInv'
  BY StepBInv
<1>3. IInv /\ BInv => NoneOverlooked
  BY AheadImplies
<1> QED
  BY <1>1, <1>2, <1>3, PTL DEF Spec
=============================================================================
