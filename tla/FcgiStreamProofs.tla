-------------------------- MODULE FcgiStreamProofs --------------------------
(***************************************************************************)
(* Theorems about FcgiStream, for every length of the backend's answer and *)
(* every way it is cut into frames, mixed with others and read in batches: *)
(* the client gets one response, its body in order and unbroken, and never *)
(* a last chunk with a part of the body missing.  And for every request    *)
(* whose records fit a frame: what the backend reads is that request.      *)
(***************************************************************************)
EXTENDS FcgiStream, SequenceTheorems, Recursion

(* The n positions behind m.                                               *)
Run(m, n) == [i \in 1 .. n |-> m + i]

(* The frames that fcgi_read has not taken yet, and those among them that  *)
(* hold some of the backend's standard output.                             *)
Pending == read_buffer \o socket
Holds(f) == f.type = "stdout" /\ f.ours /\ f.lo <= f.hi

(* Where standard output has come to before and behind every frame.        *)
Numbered(to, frames, end) ==
  /\ to \in [0 .. Len(frames) -> 0 .. TextLen]
  /\ to[Len(frames)] = end
  /\ \A i \in 0 .. Len(frames) : to[i] <= end
  /\ \A i \in 1 .. Len(frames) :
       IF Holds(frames[i]) THEN frames[i].lo = to[i - 1] + 1 /\ frames[i].hi = to[i]
                           ELSE to[i] = to[i - 1]

Types ==
  /\ http11 \in BOOLEAN /\ written \in 0 .. TextLen
  /\ backend \in {"running", "ended", "closed"}
  /\ socket \in Seq(FrameType) /\ read_buffer \in Seq(FrameType)
  /\ at \in {"provide", "idle", "frames", "flush", "drain", "gone"}
  /\ stdout_state \in {0, 3} /\ output \in Seq(0 .. TextLen)
  /\ output_ready \in BOOLEAN /\ complete \in BOOLEAN
  /\ chunked \in BOOLEAN /\ streaming \in BOOLEAN
  /\ client \in Seq(Piece)

(* What fcgi_read has taken is behind the headers, or they have not ended; *)
(* what is behind them is with the client or in output.                    *)
Flow ==
  at # "gone" =>
    \E to \in [0 .. Len(Pending) -> 0 .. TextLen] :
      /\ Numbered(to, Pending, written)
      /\ stdout_state = 3 => to[0] >= HeadEnd
      /\ Body \o BodyIn(output) = Run(0, IF stdout_state = 3 THEN to[0] - HeadEnd ELSE 0)

(* So the client has a beginning of the body.                              *)
Begun == Len(Body) \in Nat /\ Body = Run(0, Len(Body)) /\ Len(Body) <= Produced

(* An end of the request is the last frame, and what is in output waits    *)
(* for the notify at the end of the batch.                                 *)
Ends ==
  /\ at # "gone" =>
       /\ streaming
       /\ \A i \in 1 .. Len(Pending) :
            Pending[i].type = "end" /\ Pending[i].ours =>
              i = Len(Pending) /\ backend # "running"
  /\ at \in {"flush", "drain"} => Pending = <<>> /\ backend # "running"
  /\ complete => at \in {"drain", "gone"}
  /\ at = "drain" => complete
  /\ output # <<>> => at \in {"frames", "flush"} /\ output_ready

(* Until the headers have ended the client gets standard error only.       *)
Heads ==
  /\ stdout_state = 0 =>
       /\ ~chunked /\ \A k \in 1 .. Len(output) : output[k] = 0
       /\ \A i \in 1 .. Len(client) :
            client[i].what = "raw" /\ \A k \in 1 .. Len(client[i].data) : client[i].data[k] = 0
  /\ stdout_state = 3 => /\ chunked = http11
                         /\ \E i \in 1 .. Len(client) : client[i].what = "head"

(* The last chunk is sent when there is no more to come.                   *)
LastOf ==
  \A i \in 1 .. Len(client) :
    client[i].what = "last" => ~streaming /\ backend # "running" /\ Len(Body) = Produced

IInv == Types /\ Flow /\ Begun /\ Ends /\ Heads /\ LastOf /\ OneResponse


-----------------------------------------------------------------------------
(* The body in a text, and in the pieces of a response, entry by entry.    *)
BodyTo(data) ==
  CHOOSE f : f = [k \in 0 .. Len(data) |->
                    IF k = 0 THEN <<>>
                    ELSE IF data[k] = 0 THEN f[k - 1] ELSE Append(f[k - 1], data[k] - HeadEnd)]

LEMMA BodyToSteps ==
  ASSUME NEW data \in Seq(Int)
  PROVE  /\ BodyIn(data) = BodyTo(data)[Len(data)]
         /\ BodyTo(data) \in [0 .. Len(data) -> Seq(Int)]
         /\ BodyTo(data)[0] = <<>>
         /\ \A k \in 1 .. Len(data) : BodyTo(data)[k] =
              IF data[k] = 0 THEN BodyTo(data)[k - 1]
                ELSE Append(BodyTo(data)[k - 1], data[k] - HeadEnd)
<1> DEFINE n == Len(data)
           Good(f) == f = [k \in 0 .. n |->
                             IF k = 0 THEN <<>>
                             ELSE IF data[k] = 0 THEN f[k - 1]
                                    ELSE Append(f[k - 1], data[k] - HeadEnd)]
           Step == [t \in Seq(Int) \X (1 .. n) |->
                      IF data[t[2]] = 0 THEN t[1] ELSE Append(t[1], data[t[2]] - HeadEnd)]
<1>1. n \in Nat /\ \A k \in 1 .. n : data[k] \in Int /\ data[k] - HeadEnd \in Int
  BY ParametersAssumption DEF HeadEnd
<1>2. Step \in [Seq(Int) \X (1 .. n) -> Seq(Int)]
  BY <1>1
<1>3. PICK f \in [0 .. n -> Seq(Int)] : Iteration(f, <<>>, Step, n)
  <2>1. <<>> \in Seq(Int)
    OBVIOUS
  <2> HIDE DEF Step, n
  <2> QED
    BY <1>1, <1>2, <2>1, Iterates, Zenon
<1>4. f[0] = <<>>
  BY <1>3 DEF Iteration
<1>5. \A k \in 1 .. n : f[k] = IF data[k] = 0 THEN f[k - 1]
                                 ELSE Append(f[k - 1], data[k] - HeadEnd)
  <2>1. TAKE k \in 1 .. n
  <2>2. f[k - 1] \in Seq(Int)
    BY <1>1
  <2>3. f[k] = Step[<<f[k - 1], k>>]
    BY <1>3 DEF Iteration
  <2> QED
    BY <2>2, <2>3
<1>6. Good(f)
  <2>1. f = [k \in 0 .. n |-> f[k]]
    BY <1>3
  <2>2. \A k \in 0 .. n : f[k] = IF k = 0 THEN <<>>
                                 ELSE IF data[k] = 0 THEN f[k - 1]
                                        ELSE Append(f[k - 1], data[k] - HeadEnd)
    <3>1. \A k \in 0 .. n : k = 0 \/ k \in 1 .. n
      BY <1>1
    <3> QED
      BY <1>4, <1>5, <3>1
  <2> QED
    BY <2>1, <2>2
<1>7. \A g : Good(g) => g = f
  <2>1. SUFFICES ASSUME NEW g, Good(g) PROVE g = f
    OBVIOUS
  <2>2. g = [k \in 0 .. n |-> g[k]]
    BY <2>1
  <2>3. /\ g[0] = <<>>
        /\ \A k \in 1 .. n : g[k] = IF data[k] = 0 THEN g[k - 1]
                                      ELSE Append(g[k - 1], data[k] - HeadEnd)
    <3>1. 0 \in 0 .. n /\ \A k \in 1 .. n : k \in 0 .. n /\ k # 0
      BY <1>1
    <3> HIDE DEF n
    <3>2. \A k \in 0 .. n : g[k] = IF k = 0 THEN <<>>
                                   ELSE IF data[k] = 0 THEN g[k - 1]
                                          ELSE Append(g[k - 1], data[k] - HeadEnd)
      BY <2>1, Zenon
    <3> QED
      BY <3>1, <3>2
  <2> HIDE DEF Good
  <2> DEFINE holds == {k \in 0 .. n : g[k] = f[k]}
  <2>4. 0 \in holds
    BY <1>1, <1>4, <2>3
  <2>5. \A k \in 1 .. n : k - 1 \in holds => k \in holds
    BY <1>1, <1>5, <2>3
  <2>6. 0 .. n \subseteq holds
    <3> HIDE DEF holds, n
    <3> QED
      BY <1>1, <2>4, <2>5, Inductive
  <2> QED
    BY <2>2, <2>6
<1>8. BodyTo(data) = f
  <2>1. BodyTo(data) = CHOOSE g : Good(g)
    BY DEF BodyTo
  <2> HIDE DEF Good
  <2> QED
    BY <1>6, <1>7, <2>1
<1>9. BodyIn(data) = (CHOOSE g : Good(g))[n]
  BY DEF BodyIn
<1>10. (CHOOSE g : Good(g)) = f
  <2> HIDE DEF Good
  <2> QED
    BY <1>6, <1>7
<1> HIDE DEF Good, Step, n
<1> QED
  BY <1>4, <1>5, <1>8, <1>9, <1>10 DEF n


LEMMA AppendOfConcat ==
  ASSUME NEW S, NEW s \in Seq(S), NEW t \in Seq(S), NEW e \in S
  PROVE  s \o Append(t, e) = Append(s \o t, e)
<1> DEFINE l == s \o Append(t, e)
           r == Append(s \o t, e)
<1>1. /\ Append(t, e) \in Seq(S) /\ Len(Append(t, e)) = Len(t) + 1
      /\ s \o t \in Seq(S) /\ Len(s \o t) = Len(s) + Len(t)
  OBVIOUS
<1>2. l \in Seq(S) /\ Len(l) = Len(s) + Len(t) + 1
  BY <1>1
<1>3. r \in Seq(S) /\ Len(r) = Len(s) + Len(t) + 1
  BY <1>1
<1>4. \A i \in 1 .. Len(s) + Len(t) + 1 : l[i] = r[i]
  BY <1>1
<1> HIDE DEF l, r
<1>5. l = r
  BY <1>2, <1>3, <1>4, SeqEqual
<1> QED
  BY <1>5 DEF l, r


LEMMA BodyInGrows ==
  ASSUME NEW s \in Seq(Int), NEW e \in Int
  PROVE  /\ BodyIn(s) \in Seq(Int)
         /\ BodyIn(Append(s, e)) = IF e = 0 THEN BodyIn(s) ELSE Append(BodyIn(s), e - HeadEnd)
<1> DEFINE n == Len(s)
           t == Append(s, e)
<1>1. n \in Nat /\ n \in 0 .. n
  OBVIOUS
<1>2. /\ t \in Seq(Int) /\ Len(t) = n + 1
      /\ \A k \in 1 .. n : t[k] = s[k]
      /\ t[n + 1] = e
  OBVIOUS
<1> HIDE DEF t
<1>3. /\ BodyIn(s) = BodyTo(s)[n] /\ BodyTo(s) \in [0 .. n -> Seq(Int)] /\ BodyTo(s)[0] = <<>>
      /\ \A k \in 1 .. n : BodyTo(s)[k] =
           IF s[k] = 0 THEN BodyTo(s)[k - 1] ELSE Append(BodyTo(s)[k - 1], s[k] - HeadEnd)
  BY BodyToSteps
<1>4. /\ BodyIn(t) = BodyTo(t)[n + 1] /\ BodyTo(t)[0] = <<>>
      /\ \A k \in 1 .. n + 1 : BodyTo(t)[k] =
           IF t[k] = 0 THEN BodyTo(t)[k - 1] ELSE Append(BodyTo(t)[k - 1], t[k] - HeadEnd)
  <2>1. /\ BodyIn(t) = BodyTo(t)[Len(t)] /\ BodyTo(t)[0] = <<>>
        /\ \A k \in 1 .. Len(t) : BodyTo(t)[k] =
             IF t[k] = 0 THEN BodyTo(t)[k - 1] ELSE Append(BodyTo(t)[k - 1], t[k] - HeadEnd)
    BY <1>2, BodyToSteps
  <2> HIDE DEF n
  <2> QED
    BY <1>2, <2>1
<1> DEFINE holds == {k \in 0 .. n : BodyTo(t)[k] = BodyTo(s)[k]}
<1>5. 0 \in holds
  BY <1>1, <1>3, <1>4
<1>6. \A k \in 1 .. n : k - 1 \in holds => k \in holds
  <2>1. SUFFICES ASSUME NEW k \in 1 .. n, k - 1 \in holds PROVE k \in holds
    OBVIOUS
  <2>2. k \in 1 .. n + 1 /\ k \in 0 .. n
    BY <1>1
  <2> QED
    BY <1>2, <1>3, <1>4, <2>1, <2>2
<1>7. n \in holds
  <2> HIDE DEF holds, n
  <2> QED
    BY <1>1, <1>5, <1>6, Inductive
<1>8. BodyTo(t)[n] = BodyIn(s)
  BY <1>3, <1>7
<1>9. BodyTo(t)[n + 1] = IF e = 0 THEN BodyTo(t)[n] ELSE Append(BodyTo(t)[n], e - HeadEnd)
  <2>1. n + 1 \in 1 .. n + 1 /\ n + 1 - 1 = n
    BY <1>1
  <2>2. t[n + 1] = e
    BY <1>2
  <2>3. BodyTo(t)[n + 1] = IF t[n + 1] = 0 THEN BodyTo(t)[n + 1 - 1]
                             ELSE Append(BodyTo(t)[n + 1 - 1], t[n + 1] - HeadEnd)
    BY <1>4, <2>1
  <2> HIDE DEF n
  <2> QED
    BY <2>1, <2>2, <2>3
<1>10. BodyIn(s) \in Seq(Int)
  BY <1>1, <1>3
<1> QED
  BY <1>4, <1>8, <1>9, <1>10 DEF t

LEMMA BodyInEmpty == BodyIn(<<>>) = <<>>
<1>1. <<>> \in Seq(Int) /\ Len(<<>>) = 0
  OBVIOUS
<1> QED
  BY <1>1, BodyToSteps

LEMMA NoRun ==
  ASSUME NEW m \in Int
  PROVE  Run(m, 0) = <<>>
<1>1. Run(m, 0) \in Seq(Int) /\ Len(Run(m, 0)) = 0
  BY DEF Run
<1> QED
  BY <1>1, EmptySeq

LEMMA Runs ==
  ASSUME NEW m \in Int, NEW n \in Nat
  PROVE  /\ Run(m, n) \in Seq(Int) /\ Len(Run(m, n)) = n
         /\ Append(Run(m, n), m + n + 1) = Run(m, n + 1)
<1>1. \A k \in Nat : Run(m, k) \in Seq(Int) /\ Len(Run(m, k)) = k
  BY DEF Run
<1>2. Append(Run(m, n), m + n + 1) = Run(m, n + 1)
  <2> DEFINE r == Run(m, n)
             t == Run(m, n + 1)
             a == Append(r, m + n + 1)
  <2>1. /\ r \in Seq(Int) /\ Len(r) = n /\ t \in Seq(Int) /\ Len(t) = n + 1
        /\ \A i \in 1 .. n : r[i] = m + i
        /\ \A i \in 1 .. n + 1 : t[i] = m + i
    BY <1>1 DEF Run
  <2> HIDE DEF r, t
  <2>2. a \in Seq(Int) /\ Len(a) = n + 1
    BY <2>1
  <2>3. \A i \in 1 .. n + 1 : a[i] = m + i
    BY <2>1
  <2> HIDE DEF a
  <2>4. a = t
    BY <2>1, <2>2, <2>3, SeqEqual
  <2> QED
    BY <2>4 DEF a, r, t
<1> QED
  BY <1>1, <1>2

(* What is behind the headers is body.                                     *)
LEMMA BodyInJoins ==
  ASSUME NEW s \in Seq(Int), NEW m \in Nat, NEW n \in Nat
  PROVE  BodyIn(s \o Run(m, n)) = BodyIn(s) \o Run(m - HeadEnd, n)
<1> DEFINE holds == {k \in 0 .. n : BodyIn(s \o Run(m, k)) = BodyIn(s) \o Run(m - HeadEnd, k)}
<1>1. HeadEnd \in Nat /\ m - HeadEnd \in Int
  BY ParametersAssumption DEF HeadEnd
<1>2. BodyIn(s) \in Seq(Int)
  BY BodyInGrows
<1>3. 0 \in holds
  <2>1. s \o Run(m, 0) = s /\ BodyIn(s) \o Run(m - HeadEnd, 0) = BodyIn(s)
    <3>1. Run(m, 0) = <<>> /\ Run(m - HeadEnd, 0) = <<>>
      BY <1>1, NoRun
    <3> DEFINE b == BodyIn(s)
    <3> HIDE DEF b
    <3>2. s \o <<>> = s /\ b \o <<>> = b
      BY <1>2 DEF b
    <3> QED
      BY <3>1, <3>2 DEF b
  <2>2. 0 \in 0 .. n
    OBVIOUS
  <2> QED
    BY <2>1, <2>2
<1>4. ASSUME NEW k \in 1 .. n, k - 1 \in holds PROVE k \in holds
  <2> DEFINE j == k - 1
             e == m + j + 1
             d == m - HeadEnd
  <2>1. j \in Nat /\ e \in Int /\ e # 0 /\ j + 1 = k /\ e - HeadEnd = d + j + 1 /\ d \in Int
    BY <1>1
  <2>2. BodyIn(s \o Run(m, j)) = BodyIn(s) \o Run(d, j)
    BY <1>4
  <2> HIDE DEF j, e, d
  <2>3. /\ Run(m, j) \in Seq(Int) /\ Run(d, j) \in Seq(Int)
        /\ Append(Run(m, j), e) = Run(m, k) /\ Append(Run(d, j), e - HeadEnd) = Run(d, k)
    <3>1. e = m + j + 1 /\ m \in Int
      BY DEF e
    <3>2. /\ Run(m, j) \in Seq(Int) /\ Append(Run(m, j), m + j + 1) = Run(m, j + 1)
          /\ Run(d, j) \in Seq(Int) /\ Append(Run(d, j), d + j + 1) = Run(d, j + 1)
      BY <2>1, <3>1, Runs
    <3> QED
      BY <2>1, <3>1, <3>2
  <2>4. s \o Run(m, k) = Append(s \o Run(m, j), e) /\ s \o Run(m, j) \in Seq(Int)
    <3> DEFINE r == Run(m, j)
    <3> HIDE DEF r
    <3>1. r \in Seq(Int)
      BY <2>3 DEF r
    <3>2. s \o Append(r, e) = Append(s \o r, e)
      BY <2>1, <3>1, AppendOfConcat
    <3> QED
      BY <2>3, <3>1, <3>2 DEF r
  <2>5. BodyIn(s) \o Run(d, k) = Append(BodyIn(s) \o Run(d, j), e - HeadEnd)
    <3> DEFINE r == Run(d, j)
               b == BodyIn(s)
               x == e - HeadEnd
    <3>1. r \in Seq(Int) /\ b \in Seq(Int) /\ x \in Int
      BY <1>1, <1>2, <2>1, <2>3
    <3> HIDE DEF r, b, x
    <3>2. b \o Append(r, x) = Append(b \o r, x)
      BY <3>1, AppendOfConcat
    <3> QED
      BY <2>3, <3>2 DEF r, b, x
  <2>6. BodyIn(s \o Run(m, k)) = Append(BodyIn(s \o Run(m, j)), e - HeadEnd)
    BY <2>1, <2>4, BodyInGrows
  <2>7. BodyIn(s \o Run(m, k)) = BodyIn(s) \o Run(d, k)
    BY <2>2, <2>5, <2>6
  <2>8. k \in 0 .. n
    OBVIOUS
  <2> QED
    BY <2>7, <2>8 DEF d
<1>5. n \in holds
  <2>1. n \in 0 .. n
    OBVIOUS
  <2> HIDE DEF holds
  <2> QED
    BY <1>3, <1>4, <2>1, Inductive
<1> QED
  BY <1>5


LEMMA ConcatIs ==
  ASSUME NEW a \in Seq(Int), NEW b \in Seq(Int), NEW t \in Seq(Int),
         Len(t) = Len(a) + Len(b), \A i \in 1 .. Len(a) : t[i] = a[i],
         \A i \in 1 .. Len(b) : t[Len(a) + i] = b[i]
  PROVE  a \o b = t
<1> DEFINE c == a \o b
<1>1. /\ c \in Seq(Int) /\ Len(c) = Len(a) + Len(b)
      /\ \A i \in 1 .. Len(a) + Len(b) : c[i] = IF i <= Len(a) THEN a[i] ELSE b[i - Len(a)]
  BY ConcatProperties
<1>2. ASSUME NEW i \in 1 .. Len(a) + Len(b) PROVE c[i] = t[i]
  <2>1. CASE i <= Len(a)
    BY <1>1, <2>1
  <2>2. CASE ~(i <= Len(a))
    <3>1. i - Len(a) \in 1 .. Len(b) /\ Len(a) + (i - Len(a)) = i
      BY <2>2
    <3> QED
      BY <1>1, <2>2, <3>1
  <2> QED
    BY <2>1, <2>2
<1> HIDE DEF c
<1>3. c = t
  BY <1>1, <1>2, SeqEqual
<1> QED
  BY <1>3 DEF c

LEMMA RunsJoin ==
  ASSUME NEW m \in Int, NEW j \in Nat, NEW n \in Nat
  PROVE  Run(m, j) \o Run(m + j, n) = Run(m, j + n)
<1> DEFINE a == Run(m, j)
           b == Run(m + j, n)
           t == Run(m, j + n)
<1>1. /\ a \in Seq(Int) /\ Len(a) = j /\ b \in Seq(Int) /\ Len(b) = n
      /\ t \in Seq(Int) /\ Len(t) = j + n
  BY Runs
<1>2. /\ \A i \in 1 .. j : t[i] = a[i]
      /\ \A i \in 1 .. n : t[j + i] = b[i]
  BY DEF Run
<1> HIDE DEF a, b, t
<1>3. a \o b = t
  BY <1>1, <1>2, ConcatIs
<1> QED
  BY <1>3 DEF a, b, t

(* A beginning of a run is a run.                                          *)
LEMMA RunBegins ==
  ASSUME NEW m \in Int, NEW n \in Nat, NEW a \in Seq(Int), NEW b \in Seq(Int),
         a \o b = Run(m, n)
  PROVE  a = Run(m, Len(a))
<1>1. Run(m, n) \in Seq(Int) /\ Len(Run(m, n)) = n /\ \A i \in 1 .. n : Run(m, n)[i] = m + i
  <2>1. \A i \in 1 .. n : Run(m, n)[i] = m + i
    BY DEF Run
  <2> QED
    BY <2>1, Runs
<1>2. Len(a \o b) = Len(a) + Len(b) /\ \A i \in 1 .. Len(a) : (a \o b)[i] = a[i]
  OBVIOUS
<1>3. Len(a) + Len(b) = n /\ Len(a) \in Nat /\ Len(b) \in Nat
  <2>1. Len(a \o b) = n
    BY <1>1
  <2>2. Len(a) \in Nat /\ Len(b) \in Nat
    OBVIOUS
  <2> QED
    BY <1>2, <2>1, <2>2
<1>4. \A i \in 1 .. Len(a) : a[i] = m + i
  BY <1>1, <1>2, <1>3
<1> DEFINE k == Len(a)
           t == Run(m, k)
<1>5. t \in Seq(Int) /\ Len(t) = k /\ \A i \in 1 .. k : t[i] = m + i
  <2>1. \A i \in 1 .. k : t[i] = m + i
    BY DEF Run
  <2> QED
    BY <1>3, <2>1, Runs
<1> HIDE DEF t
<1>6. a = t
  BY <1>4, <1>5, SeqEqual
<1> QED
  BY <1>3, <1>6 DEF t

(* The same for the pieces of a response.                                  *)
BodyOf(c) ==
  CHOOSE f : f = [k \in 0 .. Len(c) |->
                    IF k = 0 THEN <<>> ELSE f[k - 1] \o BodyIn(c[k].data)]

LEMMA PieceData ==
  ASSUME NEW c \in Seq(Piece), NEW k \in 1 .. Len(c)
  PROVE  c[k].data \in Seq(0 .. TextLen) /\ c[k].data \in Seq(Int)
<1>1. c[k] \in Piece
  BY ElementOfSeq
<1>2. c[k].data \in Seq(0 .. TextLen)
  BY <1>1 DEF Piece
<1>3. 0 .. TextLen \subseteq Int
  BY ParametersAssumption DEF TextLen
<1> QED
  BY <1>2, <1>3, SeqMonotonic

LEMMA BodyOfSteps ==
  ASSUME NEW c \in Seq(Piece)
  PROVE  /\ BodyOf(c) \in [0 .. Len(c) -> Seq(Int)]
         /\ BodyOf(c)[0] = <<>>
         /\ \A k \in 1 .. Len(c) : BodyOf(c)[k] = BodyOf(c)[k - 1] \o BodyIn(c[k].data)
<1> DEFINE n == Len(c)
           Good(f) == f = [k \in 0 .. n |->
                             IF k = 0 THEN <<>> ELSE f[k - 1] \o BodyIn(c[k].data)]
           Step == [t \in Seq(Int) \X (1 .. n) |-> t[1] \o BodyIn(c[t[2]].data)]
<1>1. n \in Nat /\ \A k \in 1 .. n : BodyIn(c[k].data) \in Seq(Int)
  <2>1. n \in Nat
    OBVIOUS
  <2>2. \A k \in 1 .. n : c[k].data \in Seq(Int)
    BY PieceData
  <2>3. \A d \in Seq(Int) : BodyIn(d) \in Seq(Int)
    <3>1. 0 \in Int
      OBVIOUS
    <3> QED
      BY <3>1, BodyInGrows
  <2> QED
    BY <2>1, <2>2, <2>3
<1>2. Step \in [Seq(Int) \X (1 .. n) -> Seq(Int)]
  BY <1>1
<1>3. PICK f \in [0 .. n -> Seq(Int)] : Iteration(f, <<>>, Step, n)
  <2>1. <<>> \in Seq(Int)
    OBVIOUS
  <2> HIDE DEF Step, n
  <2> QED
    BY <1>1, <1>2, <2>1, Iterates, Zenon
<1>4. f[0] = <<>>
  BY <1>3 DEF Iteration
<1>5. \A k \in 1 .. n : f[k] = f[k - 1] \o BodyIn(c[k].data)
  <2>1. TAKE k \in 1 .. n
  <2>2. f[k - 1] \in Seq(Int)
    <3>1. k - 1 \in 0 .. n
      BY <1>1
    <3> HIDE DEF n
    <3> QED
      BY <1>3, <3>1
  <2>3. f[k] = Step[<<f[k - 1], k>>]
    BY <1>3 DEF Iteration
  <2> QED
    BY <2>2, <2>3
<1>6. Good(f)
  <2>1. f = [k \in 0 .. n |-> f[k]]
    BY <1>3
  <2>2. \A k \in 0 .. n : f[k] = IF k = 0 THEN <<>> ELSE f[k - 1] \o BodyIn(c[k].data)
    <3>1. \A k \in 0 .. n : k = 0 \/ k \in 1 .. n
      BY <1>1
    <3> QED
      BY <1>4, <1>5, <3>1
  <2> QED
    BY <2>1, <2>2
<1>7. \A g : Good(g) => g = f
  <2>1. SUFFICES ASSUME NEW g, Good(g) PROVE g = f
    OBVIOUS
  <2>2. g = [k \in 0 .. n |-> g[k]]
    BY <2>1
  <2>3. /\ g[0] = <<>>
        /\ \A k \in 1 .. n : g[k] = g[k - 1] \o BodyIn(c[k].data)
    <3>1. 0 \in 0 .. n /\ \A k \in 1 .. n : k \in 0 .. n /\ k # 0
      BY <1>1
    <3> HIDE DEF n
    <3>2. \A k \in 0 .. n : g[k] = IF k = 0 THEN <<>> ELSE g[k - 1] \o BodyIn(c[k].data)
      BY <2>1, Zenon
    <3> QED
      BY <3>1, <3>2
  <2> HIDE DEF Good
  <2> DEFINE holds == {k \in 0 .. n : g[k] = f[k]}
  <2>4. 0 \in holds
    BY <1>1, <1>4, <2>3
  <2>5. \A k \in 1 .. n : k - 1 \in holds => k \in holds
    <3>1. \A k \in 1 .. n : k \in 0 .. n
      BY <1>1
    <3> HIDE DEF n
    <3> QED
      BY <1>5, <2>3, <3>1
  <2>6. 0 .. n \subseteq holds
    <3> HIDE DEF holds, n
    <3> QED
      BY <1>1, <2>4, <2>5, Inductive
  <2> QED
    BY <2>2, <2>6
<1>8. BodyOf(c) = f
  <2>1. BodyOf(c) = CHOOSE g : Good(g)
    BY DEF BodyOf
  <2> HIDE DEF Good
  <2> QED
    BY <1>6, <1>7, <2>1
<1> HIDE DEF Good, Step, n
<1> QED
  BY <1>4, <1>5, <1>8 DEF n

(* The body in the pieces up to the last but one.                          *)
LEMMA BodyOfGrows ==
  ASSUME NEW c \in Seq(Piece), NEW p \in Piece
  PROVE  /\ BodyOf(c)[Len(c)] \in Seq(Int)
         /\ BodyOf(Append(c, p))[Len(Append(c, p))] = BodyOf(c)[Len(c)] \o BodyIn(p.data)
<1> DEFINE n == Len(c)
           t == Append(c, p)
<1>1. n \in Nat /\ n \in 0 .. n
  OBVIOUS
<1>2. /\ t \in Seq(Piece) /\ Len(t) = n + 1
      /\ \A k \in 1 .. n : t[k] = c[k]
      /\ t[n + 1] = p
  <2> DEFINE S == Piece
  <2> HIDE DEF S
  <2>1. c \in Seq(S) /\ p \in S
    BY DEF S
  <2>2. t \in Seq(S)
    BY <2>1
  <2>3. Len(t) = n + 1 /\ (\A k \in 1 .. n : t[k] = c[k]) /\ t[n + 1] = p
    BY <2>1
  <2> QED
    BY <2>2, <2>3 DEF S
<1> HIDE DEF t
<1>3. /\ BodyOf(c) \in [0 .. n -> Seq(Int)] /\ BodyOf(c)[0] = <<>>
      /\ \A k \in 1 .. n : BodyOf(c)[k] = BodyOf(c)[k - 1] \o BodyIn(c[k].data)
  BY BodyOfSteps
<1>4. /\ BodyOf(t)[0] = <<>>
      /\ \A k \in 1 .. n + 1 : BodyOf(t)[k] = BodyOf(t)[k - 1] \o BodyIn(t[k].data)
  <2>1. /\ BodyOf(t)[0] = <<>>
        /\ \A k \in 1 .. Len(t) : BodyOf(t)[k] = BodyOf(t)[k - 1] \o BodyIn(t[k].data)
    BY <1>2, BodyOfSteps
  <2> HIDE DEF n
  <2> QED
    BY <1>2, <2>1
<1> DEFINE holds == {k \in 0 .. n : BodyOf(t)[k] = BodyOf(c)[k]}
<1>5. 0 \in holds
  BY <1>1, <1>3, <1>4
<1>6. \A k \in 1 .. n : k - 1 \in holds => k \in holds
  <2>1. SUFFICES ASSUME NEW k \in 1 .. n, k - 1 \in holds PROVE k \in holds
    OBVIOUS
  <2>2. k \in 1 .. n + 1 /\ k \in 0 .. n
    BY <1>1
  <2> QED
    BY <1>2, <1>3, <1>4, <2>1, <2>2
<1>7. n \in holds
  <2> HIDE DEF holds, n
  <2> QED
    BY <1>1, <1>5, <1>6, Inductive
<1>8. BodyOf(t)[n] = BodyOf(c)[n]
  BY <1>7
<1>9. BodyOf(t)[n + 1] = BodyOf(t)[n] \o BodyIn(t[n + 1].data)
  <2>1. PICK m \in 1 .. n + 1 : m = n + 1 /\ m - 1 = n
    BY <1>1
  <2>2. BodyOf(t)[m] = BodyOf(t)[m - 1] \o BodyIn(t[m].data)
    BY <1>4
  <2> HIDE DEF n
  <2> QED
    BY <2>1, <2>2
<1>10. BodyOf(c)[n] \in Seq(Int)
  BY <1>1, <1>3
<1> HIDE DEF n
<1> QED
  BY <1>2, <1>8, <1>9, <1>10 DEF t, n


-----------------------------------------------------------------------------
LEMMA Lengths == HeadLen \in Nat /\ HeadEnd \in Nat /\ HeadEnd = HeadLen + 2
                 /\ TextLen \in Nat /\ HeadEnd <= TextLen
BY ParametersAssumption DEF HeadEnd, TextLen

LEMMA BodyIs ==
  ASSUME client \in Seq(Piece)
  PROVE  Body = BodyOf(client)[Len(client)] /\ Body \in Seq(Int)
<1>1. Body = BodyOf(client)[Len(client)]
  BY DEF Body, BodyOf
<1>2. Len(client) \in 0 .. Len(client)
  OBVIOUS
<1> QED
  BY <1>1, <1>2, BodyOfSteps

LEMMA OutputIs ==
  ASSUME output \in Seq(0 .. TextLen)
  PROVE  output \in Seq(Int) /\ BodyIn(output) \in Seq(Int)
<1>1. output \in Seq(Int)
  <2>1. 0 .. TextLen \subseteq Int
    OBVIOUS
  <2> QED
    BY <2>1, SeqMonotonic
<1>2. 0 \in Int
  OBVIOUS
<1> QED
  BY <1>1, <1>2, BodyInGrows

(* The client is given another piece.                                      *)
LEMMA ClientGets ==
  ASSUME client \in Seq(Piece), NEW p \in Piece, client' = Append(client, p)
  PROVE  /\ client' \in Seq(Piece) /\ Len(client') = Len(client) + 1
         /\ \A i \in 1 .. Len(client) : client'[i] = client[i]
         /\ client'[Len(client) + 1] = p
         /\ Body' = Body \o BodyIn(p.data)
<1> DEFINE S == Piece
           c == client'
<1> HIDE DEF S, c
<1>1. client \in Seq(S) /\ p \in S /\ c = Append(client, p)
  BY DEF S, c
<1>2. /\ c \in Seq(S) /\ Len(c) = Len(client) + 1
      /\ \A i \in 1 .. Len(client) : c[i] = client[i]
      /\ c[Len(client) + 1] = p
  BY <1>1
<1>3. Body' = BodyOf(client')[Len(client')]
  BY DEF Body, BodyOf
<1>4. Body = BodyOf(client)[Len(client)]
  BY BodyIs
<1>5. Body' = Body \o BodyIn(p.data)
  BY <1>3, <1>4, BodyOfGrows
<1> QED
  BY <1>2, <1>5 DEF S, c

LEMMA BodySame ==
  ASSUME UNCHANGED client
  PROVE  Body' = Body
BY DEF Body

LEMMA PendingIs ==
  ASSUME Types
  PROVE  /\ Pending \in Seq(FrameType) /\ Len(Pending) = Len(read_buffer) + Len(socket)
         /\ Len(Pending) \in Nat
<1> DEFINE S == FrameType
<1>1. read_buffer \in Seq(S) /\ socket \in Seq(S)
  BY DEF Types
<1> HIDE DEF S
<1>2. /\ Pending \in Seq(S) /\ Len(Pending) = Len(read_buffer) + Len(socket)
      /\ Len(Pending) \in Nat
  BY <1>1 DEF Pending
<1> QED
  BY <1>2 DEF S

LEMMA PendingAppends ==
  ASSUME Types, NEW f \in FrameType, Arrives(f)
  PROVE  /\ socket' \in Seq(FrameType)
         /\ Len(Pending') = Len(Pending) + 1
         /\ \A i \in 1 .. Len(Pending) : Pending'[i] = Pending[i]
         /\ Pending'[Len(Pending) + 1] = f
<1> DEFINE S == FrameType
           q == Pending
<1>1. read_buffer \in Seq(S) /\ socket \in Seq(S) /\ f \in S /\ q \in Seq(S)
  BY PendingIs DEF Types
<1>2. read_buffer' = read_buffer /\ socket' = Append(socket, f)
  BY DEF Arrives
<1> HIDE DEF S, q
<1>3. socket' \in Seq(S)
  BY <1>1, <1>2
<1>4. Pending' = Append(q, f)
  <2>1. read_buffer \o Append(socket, f) = Append(read_buffer \o socket, f)
    BY <1>1, AppendOfConcat
  <2> QED
    BY <1>2, <2>1 DEF Pending, q
<1>5. /\ Len(Append(q, f)) = Len(q) + 1
      /\ \A i \in 1 .. Len(q) : Append(q, f)[i] = q[i]
      /\ Append(q, f)[Len(q) + 1] = f
  BY <1>1
<1> QED
  BY <1>3, <1>4, <1>5 DEF q, S

(* A frame is taken by fcgi_read.                                          *)
LEMMA PendingTakes ==
  ASSUME Types, HasFrame, read_buffer' = Tail(read_buffer), UNCHANGED socket
  PROVE  /\ read_buffer' \in Seq(FrameType) /\ Len(Pending) >= 1
         /\ Pending[1] = Frame /\ Frame \in FrameType
         /\ Len(Pending') = Len(Pending) - 1
         /\ \A i \in 1 .. Len(Pending) - 1 : Pending'[i] = Pending[i + 1]
<1> DEFINE S == FrameType
           r == read_buffer
           t == Tail(read_buffer)
<1>1. r \in Seq(S) /\ socket \in Seq(S) /\ r # <<>>
  BY DEF Types, HasFrame
<1> HIDE DEF S
<1>2. /\ t \in Seq(S) /\ Len(t) = Len(r) - 1 /\ Head(r) \in S /\ Head(r) = r[1]
      /\ \A i \in 1 .. Len(t) : t[i] = r[i + 1]
  BY <1>1, HeadTailProperties
<1>3. Len(r) \in Nat /\ Len(r) >= 1 /\ Len(socket) \in Nat
  BY <1>1, <1>2
<1>4. /\ Len(r \o socket) = Len(r) + Len(socket)
      /\ \A i \in 1 .. Len(r) + Len(socket) :
           (r \o socket)[i] = IF i <= Len(r) THEN r[i] ELSE socket[i - Len(r)]
  BY <1>1, ConcatProperties
<1>5. /\ Len(t \o socket) = Len(t) + Len(socket)
      /\ \A i \in 1 .. Len(t) + Len(socket) :
           (t \o socket)[i] = IF i <= Len(t) THEN t[i] ELSE socket[i - Len(t)]
  BY <1>1, <1>2, ConcatProperties
<1>6. Pending = r \o socket /\ Pending' = t \o socket
  BY DEF Pending
<1> HIDE DEF r, t
<1>7. ASSUME NEW i \in 1 .. Len(Pending) - 1
      PROVE  (t \o socket)[i] = (r \o socket)[i + 1]
  <2>1. i \in 1 .. Len(t) + Len(socket) /\ i + 1 \in 1 .. Len(r) + Len(socket)
    BY <1>2, <1>3, <1>4, <1>6
  <2>2. CASE i <= Len(t)
    <3>1. i + 1 <= Len(r) /\ i \in 1 .. Len(t)
      BY <1>2, <1>3, <2>1, <2>2
    <3> QED
      BY <1>2, <1>4, <1>5, <2>1, <2>2, <3>1
  <2>3. CASE ~(i <= Len(t))
    <3>1. ~(i + 1 <= Len(r)) /\ i - Len(t) = i + 1 - Len(r)
      BY <1>2, <1>3, <2>1, <2>3
    <3> QED
      BY <1>4, <1>5, <2>1, <2>3, <3>1
  <2> QED
    BY <2>2, <2>3
<1>8. Len(Pending) >= 1 /\ Pending[1] = r[1] /\ Len(Pending') = Len(Pending) - 1
  BY <1>2, <1>3, <1>4, <1>5, <1>6
<1>9. Frame = r[1] /\ r[1] \in S
  BY <1>2 DEF Frame, r
<1>10. read_buffer' \in Seq(S)
  BY <1>2 DEF t
<1> QED
  BY <1>6, <1>7, <1>8, <1>9, <1>10 DEF S


LEMMA IsNumbered ==
  ASSUME NEW to, NEW frames, NEW end, Numbered(to, frames, end)
  PROVE  to \in [0 .. Len(frames) -> 0 .. TextLen]
BY DEF Numbered

(* Where the frames come to when the first is taken, and when one arrives. *)
LEMMA NumberedTakes ==
  ASSUME NEW q, NEW r, NEW end \in Nat, NEW to, Numbered(to, q, end),
         Len(q) \in Nat, Len(q) >= 1, Len(r) = Len(q) - 1,
         \A i \in 1 .. Len(q) - 1 : r[i] = q[i + 1]
  PROVE  \E new : /\ Numbered(new, r, end)
                  /\ new[0] = (IF Holds(q[1]) THEN q[1].hi ELSE to[0])
                  /\ Holds(q[1]) => q[1].lo = to[0] + 1
<1> DEFINE n == Len(q)
           new == [i \in 0 .. n - 1 |-> to[i + 1]]
<1>1. n \in Nat /\ n >= 1 /\ Len(r) = n - 1
  OBVIOUS
<1>2. /\ to \in [0 .. n -> 0 .. TextLen] /\ to[n] = end
      /\ \A i \in 0 .. n : to[i] <= end
      /\ \A i \in 1 .. n : IF Holds(q[i]) THEN q[i].lo = to[i - 1] + 1 /\ q[i].hi = to[i]
                                          ELSE to[i] = to[i - 1]
  BY DEF Numbered
<1>3. \A i \in 0 .. n - 1 : new[i] = to[i + 1] /\ i + 1 \in 0 .. n
  BY <1>1
<1>4. new \in [0 .. n - 1 -> 0 .. TextLen]
  BY <1>1, <1>2
<1>5. ASSUME NEW i \in 1 .. n - 1
      PROVE  IF Holds(r[i]) THEN r[i].lo = new[i - 1] + 1 /\ r[i].hi = new[i]
                            ELSE new[i] = new[i - 1]
  <2>1. PICK k \in 1 .. n : k = i + 1 /\ k - 1 = i /\ k = i + 1
    BY <1>1
  <2>2. r[i] = q[k]
    BY <2>1
  <2>3. new[i] = to[k] /\ new[i - 1] = to[k - 1]
    <3>1. i \in 0 .. n - 1 /\ i - 1 \in 0 .. n - 1 /\ i - 1 + 1 = i
      BY <1>1
    <3> HIDE DEF new
    <3> QED
      BY <1>3, <2>1, <3>1
  <2> HIDE DEF new, n
  <2> QED
    BY <1>2, <2>2, <2>3
<1>6. new[n - 1] = end /\ \A i \in 0 .. n - 1 : new[i] <= end
  <2>1. n - 1 \in 0 .. n - 1 /\ n - 1 + 1 = n
    BY <1>1
  <2> HIDE DEF new
  <2> QED
    BY <1>2, <1>3, <2>1
<1>7. /\ new[0] = (IF Holds(q[1]) THEN q[1].hi ELSE to[0])
      /\ Holds(q[1]) => q[1].lo = to[0] + 1
  <2>1. 1 \in 1 .. n /\ 0 \in 0 .. n - 1 /\ 1 - 1 = 0 /\ 0 + 1 = 1
    BY <1>1
  <2>2. new[0] = to[1]
    <3> HIDE DEF new
    <3> QED
      BY <1>3, <2>1
  <2>3. IF Holds(q[1]) THEN q[1].lo = to[0] + 1 /\ q[1].hi = to[1] ELSE to[1] = to[0]
    BY <1>2, <2>1
  <2> HIDE DEF new
  <2> QED
    BY <2>2, <2>3
<1> HIDE DEF new, n
<1>8. Numbered(new, r, end)
  BY <1>1, <1>4, <1>5, <1>6 DEF Numbered
<1> QED
  BY <1>7, <1>8

LEMMA NumberedAppends ==
  ASSUME NEW q, NEW r, NEW end \in Nat, NEW to, Numbered(to, q, end),
         Len(q) \in Nat, Len(r) = Len(q) + 1, \A i \in 1 .. Len(q) : r[i] = q[i],
         NEW next \in 0 .. TextLen, end <= next,
         IF Holds(r[Len(q) + 1]) THEN r[Len(q) + 1].lo = end + 1 /\ r[Len(q) + 1].hi = next
                                 ELSE next = end
  PROVE  \E new : Numbered(new, r, next) /\ new[0] = to[0]
<1> DEFINE n == Len(q)
           new == [i \in 0 .. n + 1 |-> IF i <= n THEN to[i] ELSE next]
<1>1. n \in Nat /\ Len(r) = n + 1
  OBVIOUS
<1>2. /\ to \in [0 .. n -> 0 .. TextLen] /\ to[n] = end
      /\ \A i \in 0 .. n : to[i] <= end
      /\ \A i \in 1 .. n : IF Holds(q[i]) THEN q[i].lo = to[i - 1] + 1 /\ q[i].hi = to[i]
                                          ELSE to[i] = to[i - 1]
  BY DEF Numbered
<1>3. /\ \A i \in 0 .. n : new[i] = to[i]
      /\ new[n + 1] = next
  BY <1>1
<1>4. new \in [0 .. n + 1 -> 0 .. TextLen]
  BY <1>1, <1>2
<1>5. ASSUME NEW i \in 1 .. n + 1
      PROVE  IF Holds(r[i]) THEN r[i].lo = new[i - 1] + 1 /\ r[i].hi = new[i]
                            ELSE new[i] = new[i - 1]
  <2>1. CASE i \in 1 .. n
    <3>1. i \in 0 .. n /\ i - 1 \in 0 .. n
      BY <1>1, <2>1
    <3> HIDE DEF new
    <3> QED
      BY <1>2, <1>3, <2>1, <3>1
  <2>2. CASE i = n + 1
    <3>1. i - 1 = n /\ n \in 0 .. n
      BY <1>1, <2>2
    <3>2. new[i] = next /\ new[i - 1] = end
      <4> HIDE DEF new
      <4> QED
        BY <1>2, <1>3, <2>2, <3>1
    <3> HIDE DEF new
    <3> QED
      BY <2>2, <3>2
  <2> QED
    BY <1>1, <2>1, <2>2
<1>6. new[n + 1] = next /\ \A i \in 0 .. n + 1 : new[i] <= next
  <2>1. \A i \in 0 .. n + 1 : i \in 0 .. n \/ i = n + 1
    BY <1>1
  <2>2. next \in Int /\ \A i \in 0 .. n : to[i] \in Int
    BY <1>2, Lengths
  <2> HIDE DEF new, n
  <2> QED
    BY <1>2, <1>3, <2>1, <2>2
<1>7. new[0] = to[0]
  <2>1. 0 \in 0 .. n
    BY <1>1
  <2> HIDE DEF new
  <2> QED
    BY <1>3, <2>1
<1> HIDE DEF new, n
<1>8. Numbered(new, r, next)
  BY <1>1, <1>4, <1>5, <1>6 DEF Numbered
<1> QED
  BY <1>7, <1>8



-----------------------------------------------------------------------------
(* While the worker has its sub_conn, what the client has is a beginning   *)
(* of what was taken.                                                      *)
LEMMA FlowBegins ==
  ASSUME Types, Flow, at # "gone"
  PROVE  /\ Begun
         /\ \E to : /\ Numbered(to, Pending, written)
                    /\ stdout_state = 3 => to[0] >= HeadEnd /\ Produced = written - HeadEnd
                    /\ to[0] \in 0 .. TextLen /\ to[0] <= written
                    /\ Len(Body) + Len(BodyIn(output)) = (IF stdout_state = 3 THEN to[0] - HeadEnd ELSE 0)
<1>1. PICK to : /\ Numbered(to, Pending, written)
                /\ stdout_state = 3 => to[0] >= HeadEnd
                /\ Body \o BodyIn(output) = Run(0, IF stdout_state = 3 THEN to[0] - HeadEnd ELSE 0)
  BY DEF Flow
<1>2. Len(Pending) \in Nat /\ 0 \in 0 .. Len(Pending)
  BY PendingIs
<1>3. to[0] \in 0 .. TextLen /\ to[0] <= written
  BY <1>1, <1>2 DEF Numbered
<1>4. written \in Nat /\ HeadEnd \in Nat
  BY Lengths DEF Types
<1> DEFINE n == IF stdout_state = 3 THEN to[0] - HeadEnd ELSE 0
<1>5. n \in Nat /\ n <= Produced /\ (stdout_state = 3 => Produced = written - HeadEnd)
  BY <1>1, <1>3, <1>4, Lengths DEF Produced
<1>6. Body \in Seq(Int) /\ BodyIn(output) \in Seq(Int)
  BY BodyIs, OutputIs DEF Types
<1>7. Body \o BodyIn(output) = Run(0, n)
  BY <1>1
<1> HIDE DEF n
<1>8. Body = Run(0, Len(Body)) /\ Len(Body) + Len(BodyIn(output)) = n
  <2>1. ASSUME NEW b \in Seq(Int), NEW d \in Seq(Int), NEW k \in Nat, b \o d = Run(0, k)
        PROVE  b = Run(0, Len(b)) /\ Len(b) + Len(d) = k
    <3>1. 0 \in Int
      OBVIOUS
    <3>2. b = Run(0, Len(b))
      BY <2>1, <3>1, RunBegins, Zenon
    <3>3. Len(b) + Len(d) = k
      <4>1. Len(Run(0, k)) = k
        BY <3>1, Runs
      <4>2. Len(b \o d) = Len(b) + Len(d)
        OBVIOUS
      <4> QED
        BY <2>1, <4>1, <4>2
    <3> QED
      BY <3>2, <3>3
  <2> QED
    BY <1>5, <1>6, <1>7, <2>1
<1>9. Len(Body) \in Nat /\ Len(BodyIn(output)) \in Nat
  BY <1>6
<1>10. Len(Body) <= Produced
  <2>1. Produced \in Int
    BY <1>4, Lengths DEF Produced
  <2> QED
    BY <1>5, <1>8, <1>9, <2>1
<1>11. Begun
  BY <1>8, <1>9, <1>10 DEF Begun
<1> QED
  BY <1>1, <1>3, <1>5, <1>8, <1>11 DEF n

(* A piece keeps the response one response.                                *)
LEMMA GivesOne ==
  ASSUME Types, OneResponse, NEW p \in Piece, client' = Append(client, p), UNCHANGED http11,
         \A j \in 1 .. Len(client) : client[j].what # "last",
         p.what = "head" =>
           \A j \in 1 .. Len(client) :
             client[j].what # "head" /\ \A k \in 1 .. Len(client[j].data) : client[j].data[k] = 0,
         p.what \in {"chunk", "last"} =>
           http11 /\ \E j \in 1 .. Len(client) : client[j].what = "head",
         p.what = "raw" /\ http11 => \A j \in 1 .. Len(client) : client[j].what = "raw",
         p.what \in {"raw", "chunk"} => p.data # <<>>,
         p.what = "last" => ~streaming'
  PROVE  OneResponse'
<1> DEFINE n == Len(client)
           c == client'
           h == http11'
           s == streaming'
<1>1. /\ Len(c) = n + 1 /\ n \in Nat
      /\ \A i \in 1 .. n : c[i] = client[i]
      /\ c[n + 1] = p
  <2>1. n \in Nat
    BY DEF Types
  <2> QED
    BY <2>1, ClientGets DEF Types
<1>2. \A j \in 1 .. n : DOMAIN client[j].data = 1 .. Len(client[j].data)
  BY PieceData DEF Types
<1>3. h = http11
  OBVIOUS
<1>4. ASSUME NEW i \in 1 .. n + 1
      PROVE  /\ c[i].what = "head" =>
                  \A j \in 1 .. i - 1 : \A k \in DOMAIN c[j].data : c[j].data[k] = 0
             /\ c[i].what = "head" => \A j \in i + 1 .. n + 1 : c[j].what # "head"
             /\ c[i].what \in {"chunk", "last"} => h /\ \E j \in 1 .. i - 1 : c[j].what = "head"
             /\ c[i].what = "raw" /\ h => \A j \in 1 .. i - 1 : c[j].what = "raw"
             /\ c[i].what \in {"raw", "chunk"} => c[i].data # <<>>
             /\ c[i].what = "last" => i = n + 1 /\ ~s
  <2>1. CASE i \in 1 .. n
    <3>1. c[i] = client[i] /\ \A j \in 1 .. i - 1 : j \in 1 .. n /\ c[j] = client[j]
      BY <1>1, <2>1
    <3>2. \A j \in i + 1 .. n + 1 : (j \in i + 1 .. n /\ j \in 1 .. n /\ c[j] = client[j]) \/ c[j] = p
      BY <1>1, <2>1
    <3>3. /\ client[i].what = "head" =>
               \A j \in 1 .. i - 1 : \A k \in DOMAIN client[j].data : client[j].data[k] = 0
          /\ client[i].what = "head" => \A j \in i + 1 .. n : client[j].what # "head"
          /\ client[i].what \in {"chunk", "last"} =>
               http11 /\ \E j \in 1 .. i - 1 : client[j].what = "head"
          /\ client[i].what = "raw" /\ http11 => \A j \in 1 .. i - 1 : client[j].what = "raw"
          /\ client[i].what \in {"raw", "chunk"} => client[i].data # <<>>
      BY <2>1 DEF OneResponse
    <3>4. client[i].what # "last"
      BY <2>1
    <3>5. client[i].what = "head" => p.what # "head"
      BY <2>1
    <3> HIDE DEF c, h, s, n
    <3> QED
      BY <1>3, <3>1, <3>2, <3>3, <3>4, <3>5
  <2>2. CASE i = n + 1
    <3>1. c[i] = p /\ \A j \in 1 .. n : c[j] = client[j]
      BY <1>1, <2>2
    <3>2. i - 1 = n /\ i + 1 .. n + 1 = {}
      BY <1>1, <2>2
    <3> HIDE DEF c
    <3> QED
      BY <1>2, <1>3, <2>2, <3>1, <3>2
  <2> QED
    BY <1>1, <2>1, <2>2
<1> HIDE DEF c, h, s, n
<1>5. \A i \in 1 .. Len(c) :
        /\ c[i].what = "head" =>
             \A j \in 1 .. i - 1 : \A k \in DOMAIN c[j].data : c[j].data[k] = 0
        /\ c[i].what = "head" => \A j \in i + 1 .. Len(c) : c[j].what # "head"
        /\ c[i].what \in {"chunk", "last"} => h /\ \E j \in 1 .. i - 1 : c[j].what = "head"
        /\ c[i].what = "raw" /\ h => \A j \in 1 .. i - 1 : c[j].what = "raw"
        /\ c[i].what \in {"raw", "chunk"} => c[i].data # <<>>
        /\ c[i].what = "last" => i = Len(c) /\ ~s
  BY <1>1, <1>4
<1> QED
  BY <1>5 DEF OneResponse, c, h, s


LEMMA NothingSaid ==
  ASSUME IInv, UNCHANGED <<client, http11, streaming, stdout_state, chunked>>,
         UNCHANGED output \/ stdout_state = 3 \/ \A k \in 1 .. Len(output') : output'[k] = 0
  PROVE  OneResponse' /\ Heads' /\ Body' = Body
<1>1. OneResponse'
  BY DEF IInv, OneResponse
<1>2. Heads'
  BY DEF IInv, Heads
<1> QED
  BY <1>1, <1>2, BodySame


-----------------------------------------------------------------------------
LEMMA InitHolds ==
  ASSUME Init
  PROVE  IInv
<1> USE Lengths
<1>1. Types
  <2>1. \A S : <<>> \in Seq(S)
    OBVIOUS
  <2>2. 0 \in 0 .. TextLen
    OBVIOUS
  <2>3. http11 \in BOOLEAN /\ socket = <<>> /\ read_buffer = <<>> /\ output = <<>> /\ client = <<>>
    BY DEF Init
  <2>4. /\ socket \in Seq(FrameType) /\ read_buffer \in Seq(FrameType)
        /\ output \in Seq(0 .. TextLen) /\ client \in Seq(Piece)
    BY <2>1, <2>3
  <2> QED
    BY <2>2, <2>3, <2>4 DEF Init, Types
<1>2. Pending = <<>> /\ Len(Pending) = 0
  BY DEF Init, Pending
<1>3. Len(client) = 0 /\ Len(output) = 0
  BY DEF Init
<1>4. Body = <<>> /\ Body \o BodyIn(output) = <<>>
  <2>1. Body = <<>>
    <3>1. Body = BodyOf(client)[Len(client)] /\ BodyOf(client)[0] = <<>>
      BY <1>1, BodyIs, BodyOfSteps DEF Types
    <3> QED
      BY <1>3, <3>1
  <2>2. BodyIn(output) = <<>>
    BY BodyInEmpty DEF Init
  <2> QED
    BY <2>1, <2>2
<1>5. Flow
  <2> DEFINE to == [i \in 0 .. 0 |-> 0]
  <2>1. Numbered(to, Pending, written)
    BY <1>2 DEF Init, Numbered
  <2>2. Run(0, 0) = <<>>
    BY NoRun
  <2>3. stdout_state # 3
    BY DEF Init
  <2> HIDE DEF to
  <2> QED
    BY <1>4, <2>1, <2>2, <2>3, IsNumbered DEF Flow
<1>6. Begun
  <2>1. at # "gone"
    BY DEF Init
  <2> QED
    BY <1>1, <1>5, <2>1, FlowBegins
<1>7. Ends
  BY <1>2 DEF Init, Ends
<1>8. Heads /\ LastOf /\ OneResponse
  BY <1>3 DEF Init, Heads, LastOf, OneResponse
<1> QED
  BY <1>1, <1>5, <1>6, <1>7, <1>8 DEF IInv

(* The backend's frames.                                                   *)
LEMMA Arrival ==
  ASSUME IInv, NEW f \in FrameType, Arrives(f),
         written' \in 0 .. TextLen, written <= written',
         IF Holds(f) THEN f.lo = written + 1 /\ f.hi = written' ELSE written' = written,
         f.type = "end" /\ f.ours => backend' # "running",
         backend' \in {"running", "ended"}, UNCHANGED http11
  PROVE  IInv'
<1> DEFINE n == Len(Pending)
<1>1. Types /\ Flow /\ Begun /\ Ends /\ LastOf
  BY DEF IInv
<1>2. /\ backend = "running"
      /\ UNCHANGED <<read_buffer, at, output_ready, stdout_state, output, complete>>
      /\ UNCHANGED <<chunked, finished, streaming, client>>
  BY DEF Arrives, provision, response
<1>3. /\ socket' \in Seq(FrameType)
      /\ Len(Pending') = n + 1
      /\ \A i \in 1 .. n : Pending'[i] = Pending[i]
      /\ Pending'[n + 1] = f
  BY <1>1, PendingAppends
<1>4. Types'
  BY <1>1, <1>2, <1>3 DEF Types
<1>5. OneResponse' /\ Heads' /\ Body' = Body
  BY <1>2, NothingSaid
<1>6. n \in Nat /\ written \in Nat
  BY <1>1, PendingIs, Lengths DEF Types
<1>7. Flow'
  <2>1. SUFFICES ASSUME at' # "gone" PROVE Flow'
    BY DEF Flow
  <2>2. PICK to : /\ Numbered(to, Pending, written)
                  /\ stdout_state = 3 => to[0] >= HeadEnd
                  /\ Body \o BodyIn(output) = Run(0, IF stdout_state = 3 THEN to[0] - HeadEnd ELSE 0)
    BY <1>1, <1>2, <2>1 DEF Flow
  <2>3. PICK new : Numbered(new, Pending', written') /\ new[0] = to[0]
    <3> DEFINE q == Pending
               r == Pending'
               end == written
               next == written'
    <3>1. /\ Len(q) \in Nat /\ Len(r) = Len(q) + 1 /\ \A i \in 1 .. Len(q) : r[i] = q[i]
          /\ r[Len(q) + 1] = f /\ end \in Nat /\ next \in 0 .. TextLen /\ end <= next
          /\ Numbered(to, q, end)
          /\ IF Holds(f) THEN f.lo = end + 1 /\ f.hi = next ELSE next = end
      BY <1>3, <1>6, <2>2
    <3> HIDE DEF q, r, end, next
    <3>2. IF Holds(r[Len(q) + 1]) THEN r[Len(q) + 1].lo = end + 1 /\ r[Len(q) + 1].hi = next
                                  ELSE next = end
      BY <3>1
    <3>3. \E new : Numbered(new, r, next) /\ new[0] = to[0]
      BY <3>1, <3>2, NumberedAppends
    <3> QED
      BY <3>3 DEF q, r, end, next
  <2>4. /\ stdout_state' = 3 => new[0] >= HeadEnd
        /\ Body' \o BodyIn(output') =
             Run(0, IF stdout_state' = 3 THEN new[0] - HeadEnd ELSE 0)
    BY <1>2, <1>5, <2>2, <2>3
  <2> QED
    BY <2>3, <2>4, IsNumbered DEF Flow
<1>8. Begun'
  <2>1. Len(Body) \in Nat /\ Body = Run(0, Len(Body)) /\ Len(Body) <= Produced
    BY <1>1 DEF Begun
  <2>2. Produced' >= Produced /\ Produced \in Nat /\ Produced' \in Nat
    <3> DEFINE next == written'
    <3>1. next \in Nat /\ next >= written
      BY Lengths
    <3>2. Produced' = IF next > HeadEnd THEN next - HeadEnd ELSE 0
      BY DEF Produced, HeadEnd
    <3>3. Produced = IF written > HeadEnd THEN written - HeadEnd ELSE 0
      BY DEF Produced
    <3> DEFINE h == HeadEnd
               w == written
    <3>4. h \in Nat /\ w \in Nat
      BY <1>6, Lengths
    <3> HIDE DEF next, h, w
    <3>5. /\ (IF next > h THEN next - h ELSE 0) >= (IF w > h THEN w - h ELSE 0)
          /\ (IF next > h THEN next - h ELSE 0) \in Nat
          /\ (IF w > h THEN w - h ELSE 0) \in Nat
      BY <3>1, <3>4 DEF w
    <3> QED
      BY <3>2, <3>3, <3>5 DEF h, w
  <2>3. Len(Body) <= Produced'
    BY <2>1, <2>2
  <2>4. Len(Body') \in Nat /\ Body' = Run(0, Len(Body')) /\ Len(Body') <= Produced'
    BY <1>5, <2>1, <2>3
  <2> QED
    BY <2>4 DEF Begun
<1>9. Ends'
  <2>1. at \notin {"flush", "drain"} /\ (at # "gone" => streaming)
        /\ (complete => at \in {"drain", "gone"})
        /\ (output # <<>> => at \in {"frames", "flush"} /\ output_ready)
    BY <1>1, <1>2 DEF Ends
  <2>2. ASSUME NEW i \in 1 .. Len(Pending'), at # "gone", Pending'[i].type = "end", Pending'[i].ours
        PROVE  i = Len(Pending') /\ backend' # "running"
    <3>1. i \notin 1 .. n
      <4>1. SUFFICES ASSUME i \in 1 .. n PROVE FALSE
        OBVIOUS
      <4>2. Pending[i].type = "end" /\ Pending[i].ours
        BY <1>3, <2>2, <4>1
      <4> QED
        BY <1>1, <1>2, <2>2, <4>1, <4>2 DEF Ends
    <3>2. i = n + 1
      BY <1>3, <1>6, <3>1
    <3> QED
      BY <1>3, <2>2, <3>2
  <2> QED
    BY <1>2, <2>1, <2>2 DEF Ends
<1>10. LastOf'
  BY <1>1, <1>2 DEF LastOf
<1> QED
  BY <1>4, <1>5, <1>7, <1>8, <1>9, <1>10 DEF IInv


LEMMA Frames ==
  ASSUME NEW a \in 0 .. TextLen, NEW b \in 0 .. TextLen
  PROVE  /\ Stdout(a, b) \in FrameType
         /\ {Stderr, Foreign, ForeignEnd, EndRequest} \subseteq FrameType
         /\ EmptyStdout \in FrameType
         /\ \A f \in {Stderr, EmptyStdout, Foreign, ForeignEnd} :
              ~Holds(f) /\ ~(f.type = "end" /\ f.ours)
         /\ ~Holds(EndRequest)
<1>1. 0 \in 0 .. TextLen /\ 1 \in 0 .. TextLen
  BY Lengths
<1>2. \A x, y \in 0 .. TextLen : \A t \in {"stdout", "stderr", "end"} : \A o \in BOOLEAN :
        [type |-> t, ours |-> o, lo |-> x, hi |-> y] \in FrameType
  BY DEF FrameType
<1> DEFINE S == FrameType
<1>3. Stdout(a, b) \in S
  BY <1>2 DEF Stdout
<1>4. EmptyStdout \in S
  BY <1>1, <1>2 DEF EmptyStdout
<1>5. Stderr \in S /\ Foreign \in S /\ ForeignEnd \in S /\ EndRequest \in S
  BY <1>1, <1>2 DEF Stderr, Foreign, ForeignEnd, EndRequest
<1> HIDE DEF S
<1>6. /\ ~Holds(Stderr) /\ ~Holds(Foreign) /\ ~Holds(ForeignEnd) /\ ~Holds(EndRequest)
      /\ ~Holds(EmptyStdout)
  BY DEF Stderr, Foreign, ForeignEnd, EndRequest, EmptyStdout, Holds
<1>7. /\ ~(Stderr.type = "end" /\ Stderr.ours) /\ ~(Foreign.type = "end" /\ Foreign.ours)
      /\ ~(ForeignEnd.type = "end" /\ ForeignEnd.ours)
      /\ ~(EmptyStdout.type = "end" /\ EmptyStdout.ours)
  BY DEF Stderr, Foreign, ForeignEnd, EmptyStdout
<1> QED
  BY <1>3, <1>4, <1>5, <1>6, <1>7 DEF S

LEMMA WriteStdoutKeeps ==
  ASSUME IInv, NEW n \in 1 .. TextLen, WriteStdout(n)
  PROVE  IInv'
<1> DEFINE f == Stdout(written + 1, written + n)
<1>1. written \in 0 .. TextLen /\ TextLen \in Nat
  BY Lengths DEF IInv, Types
<1>2. written + 1 \in 0 .. TextLen /\ written + n \in 0 .. TextLen
  BY <1>1 DEF WriteStdout
<1>3. f \in FrameType
  BY <1>2, Frames
<1>4. /\ Arrives(f) /\ written' = written + n /\ UNCHANGED <<http11, backend>>
      /\ backend = "running"
  BY DEF WriteStdout, Arrives
<1>5. Holds(f) /\ f.lo = written + 1 /\ f.hi = written + n /\ f.type # "end"
  BY <1>1 DEF Stdout, Holds
<1>6. written' \in 0 .. TextLen /\ written <= written'
  BY <1>1, <1>2, <1>4
<1>7. IF Holds(f) THEN f.lo = written + 1 /\ f.hi = written' ELSE written' = written
  BY <1>4, <1>5
<1>8. (f.type = "end" /\ f.ours => backend' # "running") /\ backend' \in {"running", "ended"}
  BY <1>4, <1>5
<1> HIDE DEF f
<1> QED
  BY <1>3, <1>4, <1>6, <1>7, <1>8, Arrival

LEMMA WriteNoiseKeeps ==
  ASSUME IInv, NEW f \in {Stderr, EmptyStdout, Foreign, ForeignEnd}, WriteNoise(f)
  PROVE  IInv'
<1>1. written \in 0 .. TextLen /\ TextLen \in Nat
  BY Lengths DEF IInv, Types
<1>2. f \in FrameType /\ ~Holds(f) /\ ~(f.type = "end" /\ f.ours)
  BY <1>1, Frames
<1>3. Arrives(f) /\ UNCHANGED <<http11, written, backend>> /\ backend = "running"
  BY DEF WriteNoise, Arrives
<1>4. written' \in 0 .. TextLen /\ written <= written'
  BY <1>1, <1>3
<1> QED
  BY <1>2, <1>3, <1>4, Arrival

LEMMA EndsRequestKeeps ==
  ASSUME IInv, EndsRequest
  PROVE  IInv'
<1>1. written \in 0 .. TextLen /\ TextLen \in Nat
  BY Lengths DEF IInv, Types
<1>2. EndRequest \in FrameType /\ ~Holds(EndRequest)
  BY <1>1, Frames
<1>3. Arrives(EndRequest) /\ UNCHANGED <<http11, written>> /\ backend' = "ended"
  BY DEF EndsRequest
<1>4. written' \in 0 .. TextLen /\ written <= written'
  BY <1>1, <1>3
<1> QED
  BY <1>2, <1>3, <1>4, Arrival

-----------------------------------------------------------------------------
(* Steps that nothing is given to the client in, nor added to output.      *)
LEMMA Quiet ==
  ASSUME IInv,
         UNCHANGED <<http11, written, stdout_state, output, chunked, streaming, client>>,
         at' = "gone" \/ (at # "gone" /\ UNCHANGED Pending),
         backend # "running" => backend' # "running"
  PROVE  Flow' /\ Begun' /\ Heads' /\ LastOf' /\ OneResponse'
<1>1. OneResponse' /\ Heads' /\ Body' = Body
  BY NothingSaid
<1>2. Flow'
  <2>1. SUFFICES ASSUME at' # "gone" PROVE Flow'
    BY DEF Flow
  <2>2. PICK to : /\ Numbered(to, Pending, written)
                  /\ stdout_state = 3 => to[0] >= HeadEnd
                  /\ Body \o BodyIn(output) = Run(0, IF stdout_state = 3 THEN to[0] - HeadEnd ELSE 0)
    BY <2>1 DEF Flow, IInv
  <2>3. /\ Numbered(to, Pending', written')
        /\ stdout_state' = 3 => to[0] >= HeadEnd
        /\ Body' \o BodyIn(output') = Run(0, IF stdout_state' = 3 THEN to[0] - HeadEnd ELSE 0)
    BY <1>1, <2>1, <2>2
  <2> QED
    BY <2>3, IsNumbered DEF Flow
<1>3. Produced' = Produced
  BY DEF Produced, HeadEnd
<1>4. Begun'
  <2>1. Len(Body) \in Nat /\ Body = Run(0, Len(Body)) /\ Len(Body) <= Produced
    BY DEF IInv, Begun
  <2>2. Len(Body') \in Nat /\ Body' = Run(0, Len(Body')) /\ Len(Body') <= Produced'
    BY <1>1, <1>3, <2>1
  <2> QED
    BY <2>2 DEF Begun
<1>5. LastOf'
  BY <1>1, <1>3 DEF IInv, LastOf
<1> QED
  BY <1>1, <1>2, <1>4, <1>5

LEMMA QuietStepsKeep ==
  ASSUME IInv, BackendTakes \/ Closes \/ Provide \/ ReadEvent \/ CloseEvent
  PROVE  IInv'
<1>1. Types /\ Ends
  BY DEF IInv
<1>2. CASE BackendTakes
  <2>1. /\ UNCHANGED <<http11, written, noise, backend, socket, at, read_buffer, output_ready>>
        /\ UNCHANGED <<stdout_state, output, complete, chunked, finished, streaming, client>>
    BY <1>2 DEF BackendTakes, back, conn, provision, response
  <2>2. UNCHANGED Pending
    BY <2>1 DEF Pending
  <2>3. Types' /\ Ends'
    BY <1>1, <2>1, <2>2 DEF Types, Ends
  <2> QED
    BY <2>1, <2>2, <2>3, Quiet DEF IInv
<1>3. CASE Closes
  <2>1. /\ UNCHANGED <<http11, written, noise, socket, at, read_buffer, output_ready>>
        /\ UNCHANGED <<stdout_state, output, complete, chunked, finished, streaming, client>>
        /\ backend' = "closed"
    BY <1>3 DEF Closes, conn, provision, response
  <2>2. UNCHANGED Pending
    BY <2>1 DEF Pending
  <2>3. Types' /\ Ends'
    BY <1>1, <2>1, <2>2 DEF Types, Ends
  <2> QED
    BY <2>1, <2>2, <2>3, Quiet DEF IInv
<1>4. CASE Provide
  <2>1. /\ UNCHANGED <<http11, written, noise, backend, socket, read_buffer, output_ready>>
        /\ UNCHANGED <<stdout_state, output, complete, chunked, finished, streaming, client>>
        /\ at = "provide" /\ at' = "idle"
    BY <1>4 DEF Provide, back, provision, response
  <2>2. UNCHANGED Pending
    BY <2>1 DEF Pending
  <2>3. Types' /\ Ends'
    BY <1>1, <2>1, <2>2 DEF Types, Ends
  <2> QED
    BY <2>1, <2>2, <2>3, Quiet DEF IInv
<1>5. CASE ReadEvent
  <2>1. /\ UNCHANGED <<http11, written, noise, backend>>
        /\ UNCHANGED <<stdout_state, output, complete, chunked, finished, streaming, client>>
        /\ at = "idle" /\ at' = "frames" /\ output_ready' = FALSE
        /\ read_buffer' = read_buffer \o socket /\ socket' = <<>>
    BY <1>5 DEF ReadEvent, back, provision, response
  <2>2. UNCHANGED Pending /\ read_buffer' \in Seq(FrameType) /\ socket' \in Seq(FrameType)
    <3> DEFINE S == FrameType
    <3>1. read_buffer \in Seq(S) /\ socket \in Seq(S)
      BY <1>1 DEF Types
    <3> HIDE DEF S
    <3>2. read_buffer \o socket \in Seq(S) /\ <<>> \in Seq(S)
      BY <3>1
    <3>3. (read_buffer \o socket) \o <<>> = read_buffer \o socket
      BY <3>2, ConcatEmptySeq
    <3> QED
      BY <2>1, <3>2, <3>3 DEF Pending, S
  <2>3. Types' /\ Ends'
    BY <1>1, <2>1, <2>2 DEF Types, Ends
  <2> QED
    BY <2>1, <2>2, <2>3, Quiet DEF IInv
<1>6. CASE CloseEvent
  <2>1. /\ UNCHANGED <<http11, written, noise, backend, read_buffer, output_ready>>
        /\ UNCHANGED <<stdout_state, output, chunked, finished, streaming, client>>
        /\ at = "idle" /\ at' = "gone" /\ complete' = TRUE /\ socket' = <<>>
    BY <1>6 DEF CloseEvent, back, response
  <2>2. socket' \in Seq(FrameType)
    BY <2>1
  <2>3. Types' /\ Ends'
    BY <1>1, <2>1, <2>2 DEF Types, Ends
  <2> QED
    BY <2>1, <2>3, Quiet DEF IInv
<1> QED
  BY <1>2, <1>3, <1>4, <1>5, <1>6


-----------------------------------------------------------------------------
(* fcgi_read takes a frame.                                                *)
LEMMA Takes ==
  ASSUME IInv, HasFrame, read_buffer' = Tail(read_buffer),
         UNCHANGED <<socket, written, backend, http11>>
  PROVE  /\ read_buffer' \in Seq(FrameType) /\ Frame \in FrameType
         /\ \A i \in 1 .. Len(Pending') :
              Pending'[i].type = "end" /\ Pending'[i].ours =>
                i = Len(Pending') /\ backend' # "running"
         /\ Frame.type = "end" /\ Frame.ours => Pending' = <<>> /\ backend' # "running"
         /\ \E to, new : /\ Numbered(new, Pending', written')
                         /\ new[0] = (IF Holds(Frame) THEN Frame.hi ELSE to[0])
                         /\ Holds(Frame) => Frame.lo = to[0] + 1
                         /\ to[0] \in 0 .. TextLen
                         /\ stdout_state = 3 => to[0] >= HeadEnd
                         /\ Body \o BodyIn(output) =
                              Run(0, IF stdout_state = 3 THEN to[0] - HeadEnd ELSE 0)
<1> DEFINE q == Pending
           r == Pending'
           w == written
<1>1. Types /\ Ends /\ Flow /\ at # "gone"
  BY DEF IInv, HasFrame
<1>2. /\ read_buffer' \in Seq(FrameType) /\ Len(q) >= 1 /\ Len(q) \in Nat
      /\ q[1] = Frame /\ Frame \in FrameType
      /\ Len(r) = Len(q) - 1
      /\ \A i \in 1 .. Len(q) - 1 : r[i] = q[i + 1]
  BY <1>1, PendingTakes, PendingIs
<1>3. w \in Nat /\ written' = w
  BY <1>1, Lengths DEF Types
<1>4. PICK to : /\ Numbered(to, q, w)
                /\ stdout_state = 3 => to[0] >= HeadEnd
                /\ Body \o BodyIn(output) = Run(0, IF stdout_state = 3 THEN to[0] - HeadEnd ELSE 0)
  BY <1>1 DEF Flow
<1>5. to[0] \in 0 .. TextLen
  <2>1. 0 \in 0 .. Len(q)
    BY <1>2
  <2> QED
    BY <1>4, <2>1 DEF Numbered
<1>6. \A i \in 1 .. Len(q) : q[i].type = "end" /\ q[i].ours => i = Len(q) /\ backend # "running"
  BY <1>1 DEF Ends
<1>7. \A i \in 1 .. Len(r) : r[i].type = "end" /\ r[i].ours => i = Len(r) /\ backend' # "running"
  <2>1. SUFFICES ASSUME NEW i \in 1 .. Len(r), r[i].type = "end", r[i].ours
                 PROVE  i = Len(r) /\ backend' # "running"
    OBVIOUS
  <2>2. PICK k \in 1 .. Len(q) : k = i + 1 /\ i \in 1 .. Len(q) - 1
    BY <1>2
  <2>3. q[k].type = "end" /\ q[k].ours
    BY <1>2, <2>1, <2>2
  <2>4. k = Len(q) /\ backend # "running"
    BY <1>6, <2>3
  <2> HIDE DEF q, r
  <2> QED
    BY <1>2, <2>2, <2>4
<1>8. Frame.type = "end" /\ Frame.ours => r = <<>> /\ backend' # "running"
  <2>1. SUFFICES ASSUME Frame.type = "end", Frame.ours PROVE r = <<>> /\ backend' # "running"
    OBVIOUS
  <2>2. 1 \in 1 .. Len(q)
    BY <1>2
  <2>3. 1 = Len(q) /\ backend # "running"
    <3> HIDE DEF q
    <3> QED
      BY <1>2, <1>6, <2>1, <2>2
  <2>4. Len(r) = 0
    <3>1. Len(r) = Len(q) - 1 /\ Len(q) = 1
      BY <1>2, <2>3
    <3> HIDE DEF q, r
    <3> QED
      BY <3>1
  <2>5. r \in Seq(FrameType)
    <3>1. socket \in Seq(FrameType)
      BY <1>1 DEF Types
    <3> DEFINE S == FrameType
    <3> HIDE DEF S
    <3>2. read_buffer' \in Seq(S) /\ socket' \in Seq(S)
      BY <1>2, <3>1 DEF S
    <3>3. read_buffer' \o socket' \in Seq(S)
      BY <3>2
    <3> QED
      BY <3>3 DEF S, Pending
  <2> QED
    BY <2>3, <2>4, <2>5, EmptySeq
<1>9. \E new : /\ Numbered(new, r, w)
               /\ new[0] = (IF Holds(q[1]) THEN q[1].hi ELSE to[0])
               /\ Holds(q[1]) => q[1].lo = to[0] + 1
  <2> HIDE DEF q, r, w
  <2>1. /\ Len(q) \in Nat /\ Len(q) >= 1 /\ Len(r) = Len(q) - 1 /\ w \in Nat
        /\ Numbered(to, q, w)
    BY <1>2, <1>3, <1>4
  <2>2. \A i \in 1 .. Len(q) - 1 : r[i] = q[i + 1]
    BY <1>2
  <2> QED
    BY <2>1, <2>2, NumberedTakes
<1> HIDE DEF q, r
<1>10. \E new : /\ Numbered(new, r, written')
                /\ new[0] = (IF Holds(Frame) THEN Frame.hi ELSE to[0])
                /\ Holds(Frame) => Frame.lo = to[0] + 1
  BY <1>2, <1>3, <1>9
<1> QED
  BY <1>2, <1>4, <1>5, <1>7, <1>8, <1>10 DEF q, r

(* What the frame leaves, when it is none of standard output or holds none.*)
LEMMA TakesNoBody ==
  ASSUME IInv, HasFrame, read_buffer' = Tail(read_buffer), ~Holds(Frame),
         UNCHANGED <<socket, written, backend, http11, stdout_state, chunked, streaming, client>>,
         BodyIn(output') = BodyIn(output),
         UNCHANGED output \/ stdout_state = 3 \/ \A k \in 1 .. Len(output') : output'[k] = 0
  PROVE  Flow' /\ Begun' /\ Heads' /\ LastOf' /\ OneResponse'
<1>1. OneResponse' /\ Heads' /\ Body' = Body
  BY NothingSaid
<1>2. PICK to, new : /\ Numbered(new, Pending', written')
                     /\ new[0] = to[0]
                     /\ stdout_state = 3 => to[0] >= HeadEnd
                     /\ Body \o BodyIn(output) =
                          Run(0, IF stdout_state = 3 THEN to[0] - HeadEnd ELSE 0)
  BY Takes
<1>3. Flow'
  <2>1. /\ Numbered(new, Pending', written')
        /\ stdout_state' = 3 => new[0] >= HeadEnd
        /\ Body' \o BodyIn(output') = Run(0, IF stdout_state' = 3 THEN new[0] - HeadEnd ELSE 0)
    BY <1>1, <1>2
  <2> QED
    BY <2>1, IsNumbered DEF Flow
<1>4. Produced' = Produced
  BY DEF Produced, HeadEnd
<1>5. Begun'
  <2>1. Len(Body) \in Nat /\ Body = Run(0, Len(Body)) /\ Len(Body) <= Produced
    BY DEF IInv, Begun
  <2>2. Len(Body') \in Nat /\ Body' = Run(0, Len(Body')) /\ Len(Body') <= Produced'
    BY <1>1, <1>4, <2>1
  <2> QED
    BY <2>2 DEF Begun
<1>6. LastOf'
  BY <1>1, <1>4 DEF IInv, LastOf
<1> QED
  BY <1>1, <1>3, <1>5, <1>6

LEMMA SkipForeignKeeps ==
  ASSUME IInv, SkipForeign
  PROVE  IInv'
<1>1. /\ HasFrame /\ read_buffer' = Tail(read_buffer) /\ at = "frames" /\ ~Frame.ours
      /\ UNCHANGED <<socket, written, backend, http11, stdout_state, chunked, streaming, client>>
      /\ UNCHANGED <<output, complete, output_ready, at>>
  BY DEF SkipForeign, HasFrame, back, provision, response
<1>2. ~Holds(Frame)
  BY <1>1 DEF Holds
<1>3. Flow' /\ Begun' /\ Heads' /\ LastOf' /\ OneResponse'
  BY <1>1, <1>2, TakesNoBody
<1>4. /\ read_buffer' \in Seq(FrameType)
      /\ \A i \in 1 .. Len(Pending') :
           Pending'[i].type = "end" /\ Pending'[i].ours =>
             i = Len(Pending') /\ backend' # "running"
  BY <1>1, Takes
<1>5. Types' /\ Ends'
  BY <1>1, <1>4 DEF IInv, Types, Ends
<1> QED
  BY <1>3, <1>5 DEF IInv

LEMMA EndFrameKeeps ==
  ASSUME IInv, EndFrame
  PROVE  IInv'
<1>1. /\ HasFrame /\ read_buffer' = Tail(read_buffer) /\ at = "frames" /\ at' = "flush"
      /\ Frame.ours /\ Frame.type = "end"
      /\ UNCHANGED <<socket, written, backend, http11, stdout_state, chunked, streaming, client>>
      /\ UNCHANGED <<output, complete, output_ready>>
  BY DEF EndFrame, HasFrame, back, provision, response
<1>2. ~Holds(Frame)
  BY <1>1 DEF Holds
<1>3. Flow' /\ Begun' /\ Heads' /\ LastOf' /\ OneResponse'
  BY <1>1, <1>2, TakesNoBody
<1>4. /\ read_buffer' \in Seq(FrameType)
      /\ \A i \in 1 .. Len(Pending') :
           Pending'[i].type = "end" /\ Pending'[i].ours =>
             i = Len(Pending') /\ backend' # "running"
      /\ Pending' = <<>> /\ backend' # "running"
  BY <1>1, Takes
<1>5. Types' /\ Ends'
  BY <1>1, <1>4 DEF IInv, Types, Ends
<1> QED
  BY <1>3, <1>5 DEF IInv

LEMMA StderrFrameKeeps ==
  ASSUME IInv, StderrFrame
  PROVE  IInv'
<1>1. /\ HasFrame /\ read_buffer' = Tail(read_buffer) /\ at = "frames"
      /\ Frame.ours /\ Frame.type = "stderr"
      /\ output' = Append(output, 0) /\ output_ready' = TRUE
      /\ UNCHANGED <<socket, written, backend, http11, stdout_state, chunked, streaming, client>>
      /\ UNCHANGED <<complete, at>>
  BY DEF StderrFrame, HasFrame, back, response
<1>2. ~Holds(Frame)
  BY <1>1 DEF Holds
<1>3. Types /\ Heads /\ Ends
  BY DEF IInv
<1>4. output \in Seq(0 .. TextLen) /\ output \in Seq(Int) /\ 0 \in 0 .. TextLen
  BY <1>3, OutputIs, Lengths DEF Types
<1>5. output' \in Seq(0 .. TextLen)
  BY <1>1, <1>4
<1>6. BodyIn(output') = BodyIn(output)
  BY <1>1, <1>4, BodyInGrows
<1>7. stdout_state = 3 \/ \A k \in 1 .. Len(output') : output'[k] = 0
  <2>1. SUFFICES ASSUME stdout_state # 3, NEW k \in 1 .. Len(output') PROVE output'[k] = 0
    OBVIOUS
  <2>2. stdout_state = 0
    BY <1>3, <2>1 DEF Types
  <2>3. \A j \in 1 .. Len(output) : output[j] = 0
    BY <1>3, <2>2 DEF Heads
  <2> QED
    BY <1>1, <1>4, <2>3
<1>8. Flow' /\ Begun' /\ Heads' /\ LastOf' /\ OneResponse'
  BY <1>1, <1>2, <1>6, <1>7, TakesNoBody
<1>9. /\ read_buffer' \in Seq(FrameType)
      /\ \A i \in 1 .. Len(Pending') :
           Pending'[i].type = "end" /\ Pending'[i].ours =>
             i = Len(Pending') /\ backend' # "running"
  BY <1>1, Takes
<1>10. Types' /\ Ends'
  BY <1>1, <1>3, <1>5, <1>9 DEF Types, Ends
<1> QED
  BY <1>8, <1>10 DEF IInv


(* What a frame adds to output.                                            *)
LEMMA PositionsAre ==
  ASSUME NEW a \in 1 .. TextLen + 1, NEW b \in 0 .. TextLen
  PROVE  /\ Positions(a, b) \in Seq(0 .. TextLen)
         /\ a <= b + 1 => Positions(a, b) = Run(a - 1, b - a + 1)
         /\ a > b => Positions(a, b) = <<>>
<1>1. TextLen \in Nat
  BY Lengths
<1>2. CASE a > b
  <2>1. 1 .. b - a + 1 = 1 .. 0
    BY <1>1, <1>2
  <2>2. Positions(a, b) = [i \in 1 .. 0 |-> a + i - 1]
    BY <2>1 DEF Positions
  <2>3. Positions(a, b) = <<>>
    BY <2>2
  <2>4. a <= b + 1 => b - a + 1 = 0 /\ Run(a - 1, 0) = <<>>
    BY <1>1, <1>2, NoRun
  <2>5. <<>> \in Seq(0 .. TextLen)
    OBVIOUS
  <2> QED
    BY <2>3, <2>4, <2>5
<1>3. CASE a <= b
  <2>1. b - a + 1 \in Nat
    BY <1>1, <1>3
  <2>2. \A i \in 1 .. b - a + 1 : a + i - 1 \in 0 .. TextLen /\ a + i - 1 = a - 1 + i
    BY <1>1, <1>3
  <2>3. Positions(a, b) \in Seq(0 .. TextLen)
    BY <2>1, <2>2 DEF Positions
  <2>4. Positions(a, b) = Run(a - 1, b - a + 1)
    BY <2>2 DEF Positions, Run
  <2> QED
    BY <1>1, <1>3, <2>3, <2>4
<1> QED
  BY <1>1, <1>2, <1>3

LEMMA RunGrows ==
  ASSUME NEW b \in Seq(Int), NEW o \in Seq(Int), NEW j \in Nat, NEW n \in Nat
  PROVE  /\ b \o (o \o Run(j, n)) = (b \o o) \o Run(j, n)
         /\ Run(0, j) \o Run(j, n) = Run(0, j + n)
<1>1. 0 + j = j /\ 0 \in Int /\ j \in Int
  OBVIOUS
<1>2. Run(j, n) \in Seq(Int)
  BY <1>1, Runs
<1>3. Run(0, j) \o Run(0 + j, n) = Run(0, j + n)
  BY <1>1, RunsJoin
<1>4. (b \o o) \o Run(j, n) = b \o (o \o Run(j, n))
  <2> DEFINE r == Run(j, n)
  <2>1. r \in Seq(Int)
    BY <1>2
  <2> HIDE DEF r
  <2>2. (b \o o) \o r = b \o (o \o r)
    BY <2>1, ConcatAssociative
  <2> QED
    BY <2>2 DEF r
<1> QED
  BY <1>1, <1>3, <1>4

LEMMA StdoutBodyKeeps ==
  ASSUME IInv, StdoutBody
  PROVE  IInv'
<1> DEFINE f == Frame
<1>1. /\ HasFrame /\ read_buffer' = Tail(read_buffer) /\ at = "frames"
      /\ f.ours /\ f.type = "stdout" /\ stdout_state = 3
      /\ output' = output \o Positions(f.lo, f.hi) /\ output_ready' = TRUE
      /\ UNCHANGED <<socket, written, backend, http11, stdout_state, chunked, streaming, client>>
      /\ UNCHANGED <<complete, at>>
  BY DEF StdoutBody, HasFrame, back, response
<1>2. Types /\ Ends
  BY DEF IInv
<1>3. output \in Seq(0 .. TextLen) /\ output \in Seq(Int) /\ BodyIn(output) \in Seq(Int)
  BY <1>2, OutputIs DEF Types
<1>4. /\ read_buffer' \in Seq(FrameType) /\ f \in FrameType
      /\ \A i \in 1 .. Len(Pending') :
           Pending'[i].type = "end" /\ Pending'[i].ours =>
             i = Len(Pending') /\ backend' # "running"
  BY <1>1, Takes
<1>5. f.lo \in 0 .. TextLen /\ f.hi \in 0 .. TextLen
  BY <1>4 DEF FrameType
<1>6. TextLen \in Nat /\ HeadEnd \in Nat
  BY Lengths
<1>7. CASE Holds(f)
  <2>1. PICK to, new : /\ Numbered(new, Pending', written')
                       /\ new[0] = f.hi /\ f.lo = to[0] + 1
                       /\ to[0] \in 0 .. TextLen /\ to[0] >= HeadEnd
                       /\ Body \o BodyIn(output) = Run(0, to[0] - HeadEnd)
    BY <1>1, <1>7, Takes
  <2> DEFINE m == to[0]
             n == f.hi - m
             p == Positions(f.lo, f.hi)
  <2>2. m \in Nat /\ n \in Nat /\ f.lo <= f.hi /\ f.lo \in 1 .. TextLen + 1
    BY <1>5, <1>6, <1>7, <2>1 DEF Holds
  <2>3. p \in Seq(0 .. TextLen) /\ p = Run(m, n)
    <3>1. p \in Seq(0 .. TextLen) /\ p = Run(f.lo - 1, f.hi - f.lo + 1)
      <4> DEFINE a == f.lo
                 b == f.hi
      <4>1. a \in 1 .. TextLen + 1 /\ b \in 0 .. TextLen /\ a <= b + 1
        BY <1>5, <1>6, <2>2
      <4> HIDE DEF a, b
      <4>2. Positions(a, b) \in Seq(0 .. TextLen) /\ Positions(a, b) = Run(a - 1, b - a + 1)
        BY <4>1, PositionsAre
      <4> QED
        BY <4>2 DEF a, b
    <3>2. f.lo - 1 = m /\ f.hi - f.lo + 1 = n
      BY <1>5, <2>1, <2>2
    <3> QED
      BY <3>1, <3>2
  <2>4. output' \in Seq(0 .. TextLen)
    <3> HIDE DEF p
    <3> QED
      BY <1>1, <1>3, <2>3 DEF p
  <2>5. BodyIn(output') = BodyIn(output) \o Run(m - HeadEnd, n)
    <3>1. output' = output \o Run(m, n)
      BY <1>1, <2>3
    <3> HIDE DEF m, n
    <3> QED
      BY <1>3, <2>2, <3>1, BodyInJoins
  <2>6. OneResponse' /\ Heads' /\ Body' = Body
    BY <1>1, NothingSaid
  <2>7. Body' \o BodyIn(output') = Run(0, f.hi - HeadEnd)
    <3> DEFINE b == Body
               o == BodyIn(output)
               r == Run(m - HeadEnd, n)
    <3>1. /\ b \in Seq(Int) /\ o \in Seq(Int) /\ b \o o = Run(0, m - HeadEnd)
          /\ m - HeadEnd \in Nat /\ m - HeadEnd + n = f.hi - HeadEnd
      <4>1. b \in Seq(Int)
        BY <1>2, BodyIs DEF Types
      <4>2. o \in Seq(Int) /\ b \o o = Run(0, m - HeadEnd)
        BY <1>3, <2>1
      <4>3. m - HeadEnd \in Nat /\ m - HeadEnd + n = f.hi - HeadEnd
        <5> DEFINE x == f.hi
                   h == HeadEnd
        <5>1. x \in 0 .. TextLen /\ TextLen \in Nat /\ h \in Nat /\ m \in Nat /\ m >= h
          BY <1>5, <1>6, <2>1, <2>2
        <5> HIDE DEF x, h, m
        <5>2. m - h \in Nat /\ m - h + (x - m) = x - h
          BY <5>1
        <5> QED
          BY <5>2 DEF x, h
      <4> QED
        BY <4>1, <4>2, <4>3
    <3>2. b \o (o \o r) = Run(0, f.hi - HeadEnd)
      <4> DEFINE j == m - HeadEnd
      <4>1. j \in Nat /\ j + n = f.hi - HeadEnd /\ b \o o = Run(0, j) /\ r = Run(j, n)
        BY <3>1
      <4> HIDE DEF b, o, r, j, m, n
      <4>2. b \o (o \o Run(j, n)) = (b \o o) \o Run(j, n)
        BY <2>2, <3>1, <4>1, RunGrows
      <4>3. Run(0, j) \o Run(j, n) = Run(0, j + n)
        BY <2>2, <3>1, <4>1, RunGrows
      <4> QED
        BY <4>1, <4>2, <4>3
    <3> QED
      BY <2>5, <2>6, <3>2
  <2>8. Flow'
    <3>1. /\ Numbered(new, Pending', written')
          /\ stdout_state' = 3 => new[0] >= HeadEnd
          /\ Body' \o BodyIn(output') = Run(0, IF stdout_state' = 3 THEN new[0] - HeadEnd ELSE 0)
      <4>1. f.hi >= HeadEnd
        BY <1>5, <1>6, <2>1, <2>2
      <4> QED
        BY <1>1, <2>1, <2>7, <4>1
    <3> QED
      BY <3>1, IsNumbered DEF Flow
  <2>9. Produced' = Produced
    BY <1>1 DEF Produced, HeadEnd
  <2>10. Begun'
    <3>1. Len(Body) \in Nat /\ Body = Run(0, Len(Body)) /\ Len(Body) <= Produced
      BY DEF IInv, Begun
    <3>2. Len(Body') \in Nat /\ Body' = Run(0, Len(Body')) /\ Len(Body') <= Produced'
      BY <2>6, <2>9, <3>1
    <3> QED
      BY <3>2 DEF Begun
  <2>11. LastOf'
    BY <1>1, <2>6, <2>9 DEF IInv, LastOf
  <2>12. Types' /\ Ends'
    BY <1>1, <1>2, <1>4, <2>4 DEF Types, Ends
  <2> QED
    BY <2>6, <2>8, <2>10, <2>11, <2>12 DEF IInv
<1>8. CASE ~Holds(f)
  <2>1. f.lo > f.hi
    BY <1>1, <1>5, <1>8 DEF Holds
  <2>2. f.lo \in 1 .. TextLen + 1
    BY <1>5, <1>6, <2>1
  <2>3. Positions(f.lo, f.hi) = <<>>
    BY <1>5, <1>6, <2>1, <2>2, PositionsAre
  <2>4. output' = output
    BY <1>1, <1>3, <2>3, ConcatEmptySeq
  <2>5. Flow' /\ Begun' /\ Heads' /\ LastOf' /\ OneResponse'
    BY <1>1, <1>8, <2>4, TakesNoBody
  <2>6. Types' /\ Ends'
    BY <1>1, <1>2, <1>4, <2>4 DEF Types, Ends
  <2> QED
    BY <2>5, <2>6 DEF IInv
<1> QED
  BY <1>7, <1>8


LEMMA StdoutHeadKeeps ==
  ASSUME IInv, StdoutHead
  PROVE  IInv' /\ Body' = Body
<1> DEFINE f == Frame
           p == [what |-> "head", data |-> <<>>]
<1>1. /\ HasFrame /\ read_buffer' = Tail(read_buffer) /\ at = "frames"
      /\ f.ours /\ f.type = "stdout" /\ stdout_state = 0 /\ output_ready' = TRUE
      /\ UNCHANGED <<socket, written, backend, http11, streaming, complete, at>>
  BY DEF StdoutHead, HasFrame, back
<1>2. Types /\ Ends /\ Heads /\ LastOf /\ OneResponse
  BY DEF IInv
<1>3. output \in Seq(0 .. TextLen) /\ output \in Seq(Int) /\ BodyIn(output) \in Seq(Int)
  BY <1>2, OutputIs DEF Types
<1>4. /\ read_buffer' \in Seq(FrameType) /\ f \in FrameType
      /\ \A i \in 1 .. Len(Pending') :
           Pending'[i].type = "end" /\ Pending'[i].ours =>
             i = Len(Pending') /\ backend' # "running"
  BY <1>1, Takes
<1>5. f.lo \in 0 .. TextLen /\ f.hi \in 0 .. TextLen
  BY <1>4 DEF FrameType
<1>6. TextLen \in Nat /\ HeadEnd \in Nat /\ HeadEnd = HeadLen + 2 /\ HeadLen \in Nat
  BY Lengths
<1>7. PICK to, new : /\ Numbered(new, Pending', written')
                     /\ new[0] = (IF Holds(f) THEN f.hi ELSE to[0])
                     /\ Body \o BodyIn(output) = Run(0, 0)
  BY <1>1, Takes
<1>8. Produced' = Produced
  BY <1>1 DEF Produced, HeadEnd
<1>9. Len(Body) \in Nat /\ Body = Run(0, Len(Body)) /\ Len(Body) <= Produced
  BY DEF IInv, Begun
<1>10. CASE ~EndsHeaders(f)
  <2>1. UNCHANGED <<stdout_state, chunked, client, output>>
    BY <1>10 DEF StdoutHead
  <2>2. OneResponse' /\ Heads' /\ Body' = Body
    BY <1>1, <2>1, NothingSaid
  <2>3. Flow'
    <3>1. stdout_state' # 3 /\ Body' \o BodyIn(output') = Run(0, 0)
      BY <1>1, <1>7, <2>1, <2>2
    <3> QED
      BY <1>7, <3>1, IsNumbered DEF Flow
  <2>4. Begun'
    <3>1. Len(Body') \in Nat /\ Body' = Run(0, Len(Body')) /\ Len(Body') <= Produced'
      BY <1>8, <1>9, <2>2
    <3> QED
      BY <3>1 DEF Begun
  <2>5. LastOf'
    BY <1>1, <1>2, <1>8, <2>1, <2>2 DEF LastOf
  <2>6. Types' /\ Ends'
    BY <1>1, <1>2, <1>4, <2>1 DEF Types, Ends
  <2> QED
    BY <2>2, <2>3, <2>4, <2>5, <2>6 DEF IInv
<1>11. CASE EndsHeaders(f)
  <2>1. /\ stdout_state' = 3 /\ chunked' = http11 /\ client' = Append(client, p)
        /\ output' = output \o Positions(HeadEnd + 1, f.hi)
    BY <1>11 DEF StdoutHead, updateContentHeaders
  <2> DEFINE n == f.hi - HeadEnd
  <2>2. n \in Nat /\ Holds(f) /\ f.hi >= HeadEnd
    BY <1>1, <1>5, <1>6, <1>11 DEF EndsHeaders, Holds
  <2>3. /\ Positions(HeadEnd + 1, f.hi) \in Seq(0 .. TextLen)
        /\ Positions(HeadEnd + 1, f.hi) = Run(HeadEnd, n)
    <3> DEFINE a == HeadEnd + 1
               b == f.hi
    <3>1. a \in 1 .. TextLen + 1 /\ b \in 0 .. TextLen /\ a <= b + 1 /\ a - 1 = HeadEnd
          /\ b - a + 1 = n
      BY <1>5, <1>6, <2>2
    <3> HIDE DEF a, b
    <3>2. Positions(a, b) \in Seq(0 .. TextLen) /\ Positions(a, b) = Run(a - 1, b - a + 1)
      BY <3>1, PositionsAre
    <3> QED
      BY <3>1, <3>2 DEF a, b
  <2>4. output' \in Seq(0 .. TextLen)
    <3> DEFINE r == Positions(HeadEnd + 1, f.hi)
    <3>1. r \in Seq(0 .. TextLen) /\ output' = output \o r
      BY <2>1, <2>3
    <3> HIDE DEF r
    <3> QED
      BY <1>3, <3>1
  <2>5. BodyIn(output') = BodyIn(output) \o Run(0, n)
    <3> HIDE DEF n
    <3>0. HeadEnd - HeadEnd = 0
      BY <1>6
    <3>1. output' = output \o Run(HeadEnd, n) /\ HeadEnd - HeadEnd = 0
      BY <2>1, <2>3, <3>0, Zenon
    <3>2. BodyIn(output \o Run(HeadEnd, n)) = BodyIn(output) \o Run(HeadEnd - HeadEnd, n)
      BY <1>3, <1>6, <2>2, BodyInJoins
    <3> QED
      BY <3>1, <3>2
  <2>6. p \in Piece
    <3>1. <<>> \in Seq(0 .. TextLen)
      OBVIOUS
    <3> QED
      BY <3>1 DEF Piece
  <2>7. Body' = Body /\ Body \in Seq(Int)
    <3>1. Body' = Body \o BodyIn(p.data) /\ p.data = <<>> /\ Body \in Seq(Int)
      BY <1>2, <2>1, <2>6, ClientGets, BodyIs DEF Types
    <3> HIDE DEF p
    <3> QED
      BY <3>1, BodyInEmpty, ConcatEmptySeq
  <2>8. /\ client' \in Seq(Piece) /\ Len(client') = Len(client) + 1 /\ Len(client) \in Nat
        /\ \A i \in 1 .. Len(client) : client'[i] = client[i]
        /\ client'[Len(client) + 1] = p
    <3>1. Len(client) \in Nat
      BY <1>2 DEF Types
    <3> QED
      BY <1>2, <2>1, <2>6, <3>1, ClientGets DEF Types
  <2>9. \A i \in 1 .. Len(client) :
          client[i].what = "raw" /\ \A k \in 1 .. Len(client[i].data) : client[i].data[k] = 0
    BY <1>1, <1>2 DEF Heads
  <2>10. OneResponse'
    <3>1. p.what = "head" /\ \A j \in 1 .. Len(client) : client[j].what # "last"
      BY <2>9
    <3>2. p.what \notin {"chunk", "last"} /\ p.what # "raw"
      OBVIOUS
    <3>3. \A j \in 1 .. Len(client) :
            client[j].what # "head" /\ \A k \in 1 .. Len(client[j].data) : client[j].data[k] = 0
      BY <2>9
    <3> HIDE DEF p
    <3> QED
      BY <1>1, <1>2, <2>1, <2>6, <3>1, <3>2, <3>3, GivesOne
  <2>11. Heads'
    <3>1. PICK i \in 1 .. Len(client') : i = Len(client) + 1
      BY <2>8
    <3>2. client'[i].what = "head"
      BY <2>8, <3>1
    <3> QED
      BY <1>1, <2>1, <3>2 DEF Heads
  <2>12. Body' \o BodyIn(output') = Run(0, n)
    <3> HIDE DEF n
    <3>1. Body \o (BodyIn(output) \o Run(0, n)) = Run(0, 0 + n) /\ 0 + n = n
      <4> DEFINE b == Body
                 o == BodyIn(output)
      <4>1. b \in Seq(Int) /\ o \in Seq(Int) /\ b \o o = Run(0, 0) /\ 0 \in Nat
        BY <1>3, <1>7, <2>7
      <4> HIDE DEF b, o
      <4>2. b \o (o \o Run(0, n)) = (b \o o) \o Run(0, n)
        BY <2>2, <4>1, RunGrows
      <4>3. Run(0, 0) \o Run(0, n) = Run(0, 0 + n)
        BY <2>2, <4>1, RunGrows
      <4> QED
        BY <2>2, <4>1, <4>2, <4>3 DEF b, o
    <3> QED
      BY <2>5, <2>7, <3>1
  <2>13. Flow'
    <3>1. new[0] >= HeadEnd /\ new[0] - HeadEnd = n
      BY <1>7, <2>2
    <3> HIDE DEF n
    <3> QED
      BY <1>7, <2>1, <2>12, <3>1, IsNumbered DEF Flow
  <2>14. Begun'
    <3>1. Len(Body') \in Nat /\ Body' = Run(0, Len(Body')) /\ Len(Body') <= Produced'
      BY <1>8, <1>9, <2>7
    <3> QED
      BY <3>1 DEF Begun
  <2>15. LastOf'
    <3>1. ASSUME NEW i \in 1 .. Len(client') PROVE client'[i].what # "last"
      <4>1. i \in 1 .. Len(client) \/ i = Len(client) + 1
        BY <2>8
      <4>2. p.what # "last"
        OBVIOUS
      <4> HIDE DEF p
      <4> QED
        BY <2>8, <2>9, <4>1, <4>2
    <3> QED
      BY <3>1 DEF LastOf
  <2>16. Types' /\ Ends'
    <3>1. Types'
      BY <1>1, <1>2, <1>4, <2>1, <2>4, <2>8 DEF Types
    <3>2. Ends'
      BY <1>1, <1>2, <1>4 DEF Ends
    <3> QED
      BY <3>1, <3>2
  <2> QED
    BY <2>7, <2>10, <2>11, <2>13, <2>14, <2>15, <2>16 DEF IInv
<1> QED
  BY <1>10, <1>11


-----------------------------------------------------------------------------
(* notify, as long as the request is not complete.                         *)
LEMMA NotifyGives ==
  ASSUME IInv, Notify, ~complete, at # "gone",
         UNCHANGED <<read_buffer, socket, written, http11, backend, stdout_state, chunked>>
  PROVE  /\ output' = <<>> /\ UNCHANGED streaming /\ ~Killed /\ client' \in Seq(Piece)
         /\ Body' = Body \o BodyIn(output)
         /\ Flow' /\ Begun' /\ Heads' /\ LastOf' /\ OneResponse'
<1> DEFINE p == [what |-> IF chunked THEN "chunk" ELSE "raw", data |-> output]
<1>1. Types /\ Ends /\ Heads /\ LastOf /\ OneResponse /\ Flow
  BY DEF IInv
<1>2. fcgi_provision_read = IF output = <<>> THEN -2 ELSE 1
  BY DEF fcgi_provision_read
<1>3. /\ ~Killed /\ output' = <<>> /\ UNCHANGED streaming
      /\ IF output = <<>> THEN UNCHANGED client ELSE client' = Append(client, p)
  BY <1>2 DEF Notify, Killed
<1>4. output \in Seq(0 .. TextLen) /\ BodyIn(output) \in Seq(Int) /\ Body \in Seq(Int)
      /\ client \in Seq(Piece) /\ Len(client) \in Nat
  BY <1>1, OutputIs, BodyIs DEF Types
<1>5. PICK to : /\ Numbered(to, Pending, written)
                /\ stdout_state = 3 => to[0] >= HeadEnd
                /\ Body \o BodyIn(output) = Run(0, IF stdout_state = 3 THEN to[0] - HeadEnd ELSE 0)
  BY <1>1 DEF Flow
<1>6. streaming /\ \A i \in 1 .. Len(client) : client[i].what # "last"
  BY <1>1 DEF Ends, LastOf
<1>7. /\ Body' = Body \o BodyIn(output) /\ client' \in Seq(Piece)
      /\ Heads' /\ LastOf' /\ OneResponse'
  <2>1. CASE output = <<>>
    <3>1. UNCHANGED <<client, output>>
      BY <1>3, <2>1
    <3>2. OneResponse' /\ Heads' /\ Body' = Body
      BY <1>3, <3>1, NothingSaid
    <3>3. Body \o BodyIn(output) = Body
      <4> DEFINE b == Body
      <4>1. b \in Seq(Int) /\ BodyIn(output) = <<>>
        BY <1>4, <2>1, BodyInEmpty
      <4> HIDE DEF b
      <4>2. b \o <<>> = b
        BY <4>1, ConcatEmptySeq
      <4> QED
        BY <4>1, <4>2 DEF b
    <3>4. LastOf'
      BY <1>6, <3>1 DEF LastOf
    <3> QED
      BY <1>4, <3>1, <3>2, <3>3, <3>4
  <2>2. CASE output # <<>>
    <3>1. client' = Append(client, p)
      BY <1>3, <2>2
    <3>2. p \in Piece
      BY <1>1, <1>4 DEF Piece, Types
    <3>3. p.data = output /\ p.what = (IF chunked THEN "chunk" ELSE "raw")
      OBVIOUS
    <3> HIDE DEF p
    <3>4. /\ client' \in Seq(Piece) /\ Len(client') = Len(client) + 1
          /\ \A i \in 1 .. Len(client) : client'[i] = client[i]
          /\ client'[Len(client) + 1] = p
          /\ Body' = Body \o BodyIn(output)
      BY <1>4, <3>1, <3>2, <3>3, ClientGets
    <3>5. chunked => /\ stdout_state = 3 /\ http11
                     /\ \E i \in 1 .. Len(client) : client[i].what = "head"
      BY <1>1 DEF Heads, Types
    <3>6. ~chunked /\ http11 =>
            stdout_state = 0 /\ \A i \in 1 .. Len(client) : client[i].what = "raw"
      BY <1>1 DEF Heads, Types
    <3>7. OneResponse'
      <4>1. p.what # "head" /\ p.what # "last" /\ p.data # <<>>
        BY <2>2, <3>3
      <4>2. p.what \in {"chunk", "last"} =>
              http11 /\ \E j \in 1 .. Len(client) : client[j].what = "head"
        BY <3>3, <3>5
      <4>3. p.what = "raw" /\ http11 => \A j \in 1 .. Len(client) : client[j].what = "raw"
        BY <3>3, <3>6
      <4> QED
        BY <1>1, <1>6, <3>1, <3>2, <4>1, <4>2, <4>3, GivesOne
    <3>8. \A i \in 1 .. Len(client') : i \in 1 .. Len(client) \/ i = Len(client) + 1
      BY <1>4, <3>4
    <3>9. LastOf'
      <4>1. p.what # "last"
        BY <3>3
      <4>2. \A i \in 1 .. Len(client') : client'[i].what # "last"
        BY <1>6, <3>4, <3>8, <4>1
      <4> QED
        BY <4>2 DEF LastOf
    <3>10. Heads'
      <4>1. ASSUME stdout_state = 0
            PROVE  /\ ~chunked
                   /\ \A i \in 1 .. Len(client') :
                        /\ client'[i].what = "raw"
                        /\ \A k \in 1 .. Len(client'[i].data) : client'[i].data[k] = 0
        <5>1. /\ ~chunked /\ \A k \in 1 .. Len(output) : output[k] = 0
              /\ \A i \in 1 .. Len(client) :
                   client[i].what = "raw" /\ \A k \in 1 .. Len(client[i].data) : client[i].data[k] = 0
          BY <1>1, <4>1 DEF Heads
        <5>2. p.what = "raw" /\ \A k \in 1 .. Len(p.data) : p.data[k] = 0
          BY <3>3, <5>1
        <5> QED
          BY <3>4, <3>8, <5>1, <5>2
      <4>2. ASSUME stdout_state = 3
            PROVE  chunked = http11 /\ \E i \in 1 .. Len(client') : client'[i].what = "head"
        <5>1. chunked = http11
          BY <1>1, <4>2 DEF Heads
        <5>2. PICK i \in 1 .. Len(client) : client[i].what = "head"
          BY <1>1, <4>2 DEF Heads
        <5>3. i \in 1 .. Len(client')
          BY <1>4, <3>4
        <5> QED
          BY <3>4, <5>1, <5>2, <5>3
      <4>3. \A k \in 1 .. Len(output') : output'[k] = 0
        BY <1>3
      <4> QED
        BY <4>1, <4>2, <4>3 DEF Heads
    <3> QED
      BY <3>4, <3>7, <3>9, <3>10
  <2> QED
    BY <2>1, <2>2
<1> HIDE DEF p
<1>8. Flow'
  <2>1. Body' \o BodyIn(output') = Body \o BodyIn(output)
    <3> DEFINE b == Body'
    <3>1. b \in Seq(Int) /\ BodyIn(output') = <<>> /\ b = Body \o BodyIn(output)
      <4>1. Body \o BodyIn(output) \in Seq(Int)
        <5> DEFINE x == Body
                   y == BodyIn(output)
        <5>1. x \in Seq(Int) /\ y \in Seq(Int)
          BY <1>4
        <5> HIDE DEF x, y
        <5>2. x \o y \in Seq(Int)
          BY <5>1
        <5> QED
          BY <5>2 DEF x, y
      <4> QED
        BY <1>3, <1>7, <4>1, BodyInEmpty
    <3> HIDE DEF b
    <3>2. b \o <<>> = b
      BY <3>1, ConcatEmptySeq
    <3> QED
      BY <3>1, <3>2 DEF b
  <2>2. Pending' = Pending
    BY DEF Pending
  <2>3. /\ Numbered(to, Pending', written')
        /\ stdout_state' = 3 => to[0] >= HeadEnd
        /\ Body' \o BodyIn(output') = Run(0, IF stdout_state' = 3 THEN to[0] - HeadEnd ELSE 0)
    BY <1>5, <2>1, <2>2
  <2> QED
    BY <2>3, IsNumbered DEF Flow
<1>9. Begun'
  <2> DEFINE b == Body'
             n == IF stdout_state = 3 THEN to[0] - HeadEnd ELSE 0
  <2>1. b = Run(0, n) /\ n \in Nat /\ n <= Produced
    <3>1. 0 \in 0 .. Len(Pending) /\ written \in Nat
      BY <1>1, PendingIs, Lengths DEF Types
    <3>2. to[0] \in 0 .. TextLen /\ to[0] <= written
      BY <1>5, <3>1 DEF Numbered
    <3>3. n \in Nat /\ n <= Produced
      <4> DEFINE t == to[0]
                 h == HeadEnd
                 w == written
      <4>1. t \in Nat /\ h \in Nat /\ w \in Nat /\ t <= w /\ (stdout_state = 3 => t >= h)
        BY <1>5, <3>1, <3>2, Lengths
      <4>2. Produced = IF w > h THEN w - h ELSE 0
        BY DEF Produced
      <4>3. n = IF stdout_state = 3 THEN t - h ELSE 0
        OBVIOUS
      <4> HIDE DEF t, h, w, n
      <4> QED
        BY <4>1, <4>2, <4>3
    <3> QED
      BY <1>5, <1>7, <3>3
  <2>2. Len(Run(0, n)) = n
    <3> HIDE DEF n
    <3>1. 0 \in Int
      OBVIOUS
    <3> QED
      BY <2>1, <3>1, Runs
  <2>3. Produced' = Produced
    BY DEF Produced, HeadEnd
  <2> HIDE DEF n
  <2>4. Len(Body') \in Nat /\ Body' = Run(0, Len(Body')) /\ Len(Body') <= Produced'
    BY <2>1, <2>2, <2>3
  <2> QED
    BY <2>4 DEF Begun
<1> QED
  BY <1>3, <1>7, <1>8, <1>9


LEMMA FramesRunOutKeeps ==
  ASSUME IInv, FramesRunOut
  PROVE  IInv'
<1>1. /\ at = "frames"
      /\ UNCHANGED <<socket, read_buffer, written, http11, backend, stdout_state, chunked>>
      /\ UNCHANGED <<output_ready, complete>>
  BY DEF FramesRunOut, back
<1>2. Types /\ Ends /\ ~complete
  BY <1>1 DEF IInv, Ends
<1>3. UNCHANGED Pending
  BY <1>1 DEF Pending
<1>4. CASE output_ready
  <2>1. Notify /\ at' = IF Killed THEN "gone" ELSE "idle"
    BY <1>4 DEF FramesRunOut
  <2>2. /\ output' = <<>> /\ UNCHANGED streaming /\ ~Killed /\ client' \in Seq(Piece)
        /\ Flow' /\ Begun' /\ Heads' /\ LastOf' /\ OneResponse'
    BY <1>1, <1>2, <2>1, NotifyGives
  <2>3. output' \in Seq(0 .. TextLen)
    BY <2>2
  <2>4. Types' /\ Ends'
    BY <1>1, <1>2, <1>3, <2>1, <2>2, <2>3 DEF Types, Ends
  <2> QED
    BY <2>2, <2>4 DEF IInv
<1>5. CASE ~output_ready
  <2>1. at' = "idle" /\ UNCHANGED <<client, finished, streaming, output>>
    BY <1>5 DEF FramesRunOut
  <2>2. Flow' /\ Begun' /\ Heads' /\ LastOf' /\ OneResponse'
    BY <1>1, <1>3, <2>1, Quiet
  <2>3. Types' /\ Ends'
    BY <1>1, <1>2, <1>3, <1>5, <2>1 DEF Types, Ends
  <2> QED
    BY <2>2, <2>3 DEF IInv
<1> QED
  BY <1>4, <1>5

LEMMA FlushKeeps ==
  ASSUME IInv, Flush
  PROVE  IInv'
<1>1. /\ at = "flush"
      /\ UNCHANGED <<socket, read_buffer, written, http11, backend, stdout_state, chunked>>
      /\ UNCHANGED output_ready
      /\ complete' = (IF output_ready /\ Killed THEN complete ELSE TRUE)
  BY DEF Flush, back
<1>2. Types /\ Ends /\ ~complete
  BY <1>1 DEF IInv, Ends
<1>3. UNCHANGED Pending
  BY <1>1 DEF Pending
<1>4. CASE output_ready
  <2>1. Notify /\ at' = IF Killed THEN "gone" ELSE "drain"
    BY <1>4 DEF Flush
  <2>2. /\ output' = <<>> /\ UNCHANGED streaming /\ ~Killed /\ client' \in Seq(Piece)
        /\ Flow' /\ Begun' /\ Heads' /\ LastOf' /\ OneResponse'
    BY <1>1, <1>2, <2>1, NotifyGives
  <2>3. output' \in Seq(0 .. TextLen) /\ complete' = TRUE
    BY <1>1, <2>2
  <2>4. Types' /\ Ends'
    BY <1>1, <1>2, <1>3, <2>1, <2>2, <2>3 DEF Types, Ends
  <2> QED
    BY <2>2, <2>4 DEF IInv
<1>5. CASE ~output_ready
  <2>1. at' = "drain" /\ UNCHANGED <<client, finished, streaming, output>> /\ complete' = TRUE
    BY <1>1, <1>5 DEF Flush
  <2>2. Flow' /\ Begun' /\ Heads' /\ LastOf' /\ OneResponse'
    BY <1>1, <1>3, <2>1, Quiet
  <2>3. Types' /\ Ends'
    BY <1>1, <1>2, <1>3, <1>5, <2>1 DEF Types, Ends
  <2> QED
    BY <2>2, <2>3 DEF IInv
<1> QED
  BY <1>4, <1>5

(* All has been taken, and what was taken has been given to the client.    *)
LEMMA AllGiven ==
  ASSUME IInv, at = "drain", stdout_state = 3
  PROVE  Len(Body) = Produced
<1>1. Types /\ Ends /\ Flow
  BY DEF IInv
<1>2. Pending = <<>> /\ output = <<>>
  BY <1>1 DEF Ends
<1>3. PICK to : /\ Numbered(to, Pending, written)
                /\ to[0] >= HeadEnd /\ Produced = written - HeadEnd
                /\ Len(Body) + Len(BodyIn(output)) = to[0] - HeadEnd
  BY <1>1, FlowBegins
<1>4. to[0] = written
  <2>1. Len(Pending) = 0
    BY <1>2
  <2> QED
    BY <1>3, <2>1 DEF Numbered
<1>5. Len(BodyIn(output)) = 0
  BY <1>2, BodyInEmpty
<1>6. Len(Body) \in Nat
  BY DEF IInv, Begun
<1> QED
  BY <1>3, <1>4, <1>5, <1>6

LEMMA DrainKeeps ==
  ASSUME IInv, Drain
  PROVE  IInv' /\ Body' = Body
<1> DEFINE p == [what |-> "last", data |-> <<>>]
<1>1. /\ at = "drain" /\ Notify
      /\ UNCHANGED <<socket, read_buffer, written, http11, backend, stdout_state, chunked>>
      /\ UNCHANGED <<output_ready, complete>> /\ at' = IF Killed THEN "gone" ELSE "drain"
  BY DEF Drain, back
<1>2. Types /\ Ends /\ Heads /\ LastOf /\ OneResponse
  BY DEF IInv
<1>3. /\ complete /\ Pending = <<>> /\ output = <<>> /\ backend # "running" /\ streaming
  BY <1>1, <1>2 DEF Ends
<1>4. /\ client' = client \o LastChunk /\ streaming' = FALSE /\ output' = output /\ at' = "gone"
  BY <1>1, <1>3 DEF Notify, Killed, fcgi_provision_read
<1>5. client \in Seq(Piece) /\ Len(client) \in Nat /\ Body \in Seq(Int)
  BY <1>2, BodyIs DEF Types
<1>6. \A i \in 1 .. Len(client) : client[i].what # "last"
  BY <1>2, <1>3 DEF LastOf
<1>7. Produced' = Produced
  BY <1>1 DEF Produced, HeadEnd
<1>8. Flow'
  BY <1>4 DEF Flow
<1>9. Ends'
  BY <1>1, <1>2, <1>3, <1>4 DEF Ends
<1>10. /\ client' \in Seq(Piece) /\ Body' = Body /\ Heads' /\ LastOf' /\ OneResponse'
  <2>1. CASE ~(chunked /\ ~finished)
    <3>1. client' = client
      <4>1. LastChunk = <<>>
        BY <2>1 DEF LastChunk
      <4> DEFINE S == Piece
      <4> HIDE DEF S
      <4>2. client \in Seq(S)
        BY <1>5 DEF S
      <4>3. client \o <<>> = client
        BY <4>2, ConcatEmptySeq
      <4> QED
        BY <1>4, <4>1, <4>3
    <3>2. Body' = Body
      BY <3>1, BodySame
    <3>3. OneResponse'
      BY <1>1, <1>2, <1>6, <3>1 DEF OneResponse
    <3>4. Heads'
      BY <1>1, <1>2, <1>4, <3>1 DEF Heads
    <3>5. LastOf'
      BY <1>6, <3>1 DEF LastOf
    <3> QED
      BY <1>5, <3>1, <3>2, <3>3, <3>4, <3>5
  <2>2. CASE chunked /\ ~finished
    <3>1. client' = Append(client, p)
      <4> DEFINE S == Piece
                 c == client
      <4>1. LastChunk = <<p>>
        BY <2>2 DEF LastChunk
      <4>2. c \in Seq(S)
        BY <1>5
      <4> HIDE DEF S, c, p
      <4>3. c \o <<p>> = Append(c, p)
        BY <4>2, AppendIsConcat
      <4> QED
        BY <1>4, <4>1, <4>3 DEF c
    <3>2. p \in Piece
      <4>1. <<>> \in Seq(0 .. TextLen)
        OBVIOUS
      <4> QED
        BY <4>1 DEF Piece
    <3>3. p.what = "last" /\ p.data = <<>>
      OBVIOUS
    <3> HIDE DEF p
    <3>4. /\ client' \in Seq(Piece) /\ Len(client') = Len(client) + 1
          /\ \A i \in 1 .. Len(client) : client'[i] = client[i]
          /\ client'[Len(client) + 1] = p
          /\ Body' = Body \o BodyIn(p.data)
      BY <1>5, <3>1, <3>2, ClientGets
    <3>5. Body' = Body
      <4> DEFINE b == Body
      <4>1. b \in Seq(Int) /\ Body' = b \o <<>>
        BY <1>5, <3>3, <3>4, BodyInEmpty
      <4> HIDE DEF b
      <4>2. b \o <<>> = b
        BY <4>1, ConcatEmptySeq
      <4> QED
        BY <4>1, <4>2 DEF b
    <3>6. /\ stdout_state = 3 /\ http11
          /\ \E i \in 1 .. Len(client) : client[i].what = "head"
      BY <1>2, <2>2 DEF Heads, Types
    <3>7. OneResponse'
      <4>1. p.what \notin {"head", "raw", "chunk"} /\ ~streaming'
        BY <1>4, <3>3
      <4> QED
        BY <1>1, <1>2, <1>6, <3>1, <3>2, <3>6, <4>1, GivesOne
    <3>8. Heads'
      <4>1. stdout_state' = 3 /\ chunked' = http11'
        BY <1>1, <1>2, <3>6 DEF Heads
      <4>2. PICK i \in 1 .. Len(client) : client[i].what = "head"
        BY <3>6
      <4>3. i \in 1 .. Len(client') /\ client'[i].what = "head"
        BY <1>5, <3>4, <4>2
      <4> QED
        BY <4>1, <4>3 DEF Heads
    <3>9. LastOf'
      <4>1. Len(Body') = Produced'
        BY <1>1, <1>7, <3>5, <3>6, AllGiven
      <4> QED
        BY <1>1, <1>3, <1>4, <4>1 DEF LastOf
    <3> QED
      BY <3>4, <3>5, <3>7, <3>8, <3>9
  <2> QED
    BY <2>1, <2>2
<1> HIDE DEF p
<1>11. Begun'
  <2>1. Len(Body) \in Nat /\ Body = Run(0, Len(Body)) /\ Len(Body) <= Produced
    BY DEF IInv, Begun
  <2>2. Len(Body') \in Nat /\ Body' = Run(0, Len(Body')) /\ Len(Body') <= Produced'
    BY <1>7, <1>10, <2>1
  <2> QED
    BY <2>2 DEF Begun
<1>12. Types'
  BY <1>1, <1>2, <1>4, <1>10 DEF Types
<1> QED
  BY <1>8, <1>9, <1>10, <1>11, <1>12 DEF IInv

-----------------------------------------------------------------------------
LEMMA Stutters ==
  ASSUME IInv, UNCHANGED vars
  PROVE  IInv'
<1>1. /\ UNCHANGED <<request, wire, http11, written, noise, backend, socket, at, read_buffer>>
      /\ UNCHANGED <<output_ready, stdout_state, output, complete>>
      /\ UNCHANGED <<chunked, finished, streaming, client>>
  BY DEF vars
<1>2. UNCHANGED Pending
  BY <1>1 DEF Pending
<1>3. Types' /\ Ends'
  BY <1>1, <1>2 DEF IInv, Types, Ends
<1>4. Flow' /\ Begun' /\ Heads' /\ LastOf' /\ OneResponse'
  BY <1>1, <1>2, Quiet
<1> QED
  BY <1>3, <1>4 DEF IInv

(* The inductive invariant.                                                *)
THEOREM Invariant == Spec => []IInv
<1>1. IInv /\ [Next]_vars => IInv'
  <2>1. SUFFICES ASSUME IInv, [Next]_vars PROVE IInv'
    OBVIOUS
  <2>2. ASSUME NEW n \in 1 .. TextLen, WriteStdout(n) PROVE IInv'
    BY <2>1, <2>2, WriteStdoutKeeps
  <2>3. ASSUME NEW f \in {Stderr, EmptyStdout, Foreign, ForeignEnd}, WriteNoise(f) PROVE IInv'
    BY <2>1, <2>3, WriteNoiseKeeps
  <2>4. CASE EndsRequest
    BY <2>1, <2>4, EndsRequestKeeps
  <2>5. CASE BackendTakes \/ Closes \/ Provide \/ ReadEvent \/ CloseEvent
    BY <2>1, <2>5, QuietStepsKeep
  <2>6. CASE SkipForeign
    BY <2>1, <2>6, SkipForeignKeeps
  <2>7. CASE StderrFrame
    BY <2>1, <2>7, StderrFrameKeeps
  <2>8. CASE StdoutHead
    BY <2>1, <2>8, StdoutHeadKeeps
  <2>9. CASE StdoutBody
    BY <2>1, <2>9, StdoutBodyKeeps
  <2>10. CASE EndFrame
    BY <2>1, <2>10, EndFrameKeeps
  <2>11. CASE FramesRunOut
    BY <2>1, <2>11, FramesRunOutKeeps
  <2>12. CASE Flush
    BY <2>1, <2>12, FlushKeeps
  <2>13. CASE Drain
    BY <2>1, <2>13, DrainKeeps
  <2>14. CASE UNCHANGED vars
    BY <2>1, <2>14, Stutters
  <2> QED
    BY <2>1, <2>2, <2>3, <2>4, <2>5, <2>6, <2>7, <2>8, <2>9, <2>10, <2>11, <2>12, <2>13, <2>14
    DEF Next, Worker
<1> QED
  BY <1>1, InitHolds, PTL DEF Spec

(* OneResponse: whatever the backend sends, in whatever frames and mixed   *)
(* with whatever else, the client's pieces form one response: one header,  *)
(* nothing of the body ahead of it, pieces of one kind behind it and a     *)
(* last chunk only at the end.                                             *)
THEOREM FormsOneResponse == Spec => []OneResponse
<1>1. IInv => OneResponse
  BY DEF IInv
<1> QED
  BY <1>1, Invariant, PTL

(* NotTruncated: when the last chunk goes out, all that the backend wrote  *)
(* of the body has gone out before it.                                     *)
THEOREM EndsWhole == Spec => []NotTruncated
<1>1. IInv => NotTruncated
  <2>1. SUFFICES ASSUME IInv, NEW i \in 1 .. Len(client), client[i].what = "last"
                 PROVE  Len(Body) = Produced
    BY DEF NotTruncated
  <2> QED
    BY <2>1 DEF IInv, LastOf
<1> QED
  BY <1>1, Invariant, PTL


-----------------------------------------------------------------------------
LEMMA StartsStreaming ==
  ASSUME Init
  PROVE  Streamed!Init
<1>1. Types /\ Len(client) = 0
  BY InitHolds DEF IInv, Init
<1>2. Body = <<>>
  <2>1. Body = BodyOf(client)[Len(client)] /\ BodyOf(client)[0] = <<>>
    BY <1>1, BodyIs, BodyOfSteps DEF Types
  <2> QED
    BY <1>1, <2>1
<1>3. Produced = 0
  BY Lengths DEF Produced, Init
<1> QED
  BY <1>2, <1>3 DEF Init, Streamed!Init

(* A step that adds some more of the body, or nothing, and the others.     *)
LEMMA Delivers ==
  ASSUME IInv, IInv', UNCHANGED <<written, streaming>>, streaming,
         NEW data, BodyIn(data) \in Seq(Int), Body' = Body \o BodyIn(data)
  PROVE  Streamed!Deliver \/ UNCHANGED Streamed!body
<1> DEFINE l == Len(Body)
           m == Len(Body')
           n == m - l
<1>1. l \in Nat /\ Body = Run(0, l) /\ l <= Produced
  BY DEF IInv, Begun
<1>2. m \in Nat /\ Body' = Run(0, m) /\ m <= Produced'
  BY DEF IInv, Begun
<1>3. Produced' = Produced /\ Produced \in Nat
  <2>1. Produced' = Produced
    BY DEF Produced, HeadEnd
  <2>2. written \in Nat
    BY Lengths DEF IInv, Types
  <2> QED
    BY <2>1, <2>2, Lengths DEF Produced
<1>4. m >= l
  <2> DEFINE b == Body
             d == BodyIn(data)
  <2>1. b \in Seq(Int) /\ d \in Seq(Int) /\ Body' = b \o d
    BY BodyIs DEF IInv, Types
  <2> HIDE DEF b, d
  <2>2. Len(b \o d) = Len(b) + Len(d) /\ Len(d) \in Nat
    BY <2>1
  <2>3. m = Len(b) + Len(d)
    BY <2>1, <2>2
  <2>4. l = Len(b)
    BY DEF b
  <2> HIDE DEF m, l
  <2> QED
    BY <1>1, <2>2, <2>3, <2>4
<1> HIDE DEF l, m
<1>5. CASE m = l
  <2>1. Body' = Body
    BY <1>1, <1>2, <1>5
  <2> QED
    BY <1>3, <2>1 DEF Streamed!body
<1>6. CASE m # l
  <2>1. n \in 1 .. (Produced - l) /\ l + n = m /\ n \in Nat
    BY <1>1, <1>2, <1>3, <1>4, <1>6
  <2>2. Body' = Body \o Run(l, n)
    <3>1. 0 \in Int /\ 0 + l = l
      BY <1>1
    <3> HIDE DEF n
    <3>2. Run(0, l) \o Run(0 + l, n) = Run(0, l + n)
      BY <1>1, <2>1, <3>1, RunsJoin
    <3> QED
      BY <1>1, <1>2, <2>1, <3>1, <3>2
  <2>3. Body' = Body \o [i \in 1 .. n |-> Len(Body) + i]
    BY <2>2 DEF Run, l
  <2>4. n \in 1 .. (Produced - Len(Body))
    BY <2>1 DEF l
  <2> HIDE DEF n
  <2> QED
    BY <1>3, <2>3, <2>4 DEF Streamed!Deliver
<1> QED
  BY <1>5, <1>6

LEMMA AddsNothing ==
  ASSUME UNCHANGED <<written, streaming, client>>
  PROVE  UNCHANGED Streamed!body
<1>1. Produced' = Produced
  BY DEF Produced, HeadEnd
<1> QED
  BY <1>1, BodySame DEF Streamed!body

LEMMA StepStreams ==
  ASSUME IInv, IInv', [Next]_vars
  PROVE  [Streamed!Next]_(Streamed!body)
<1> USE DEF ahead, back, conn, provision, response
<1>1. ASSUME NEW n \in 1 .. TextLen, WriteStdout(n) PROVE [Streamed!Next]_(Streamed!body)
  <2>1. UNCHANGED <<streaming, client>> /\ written' = written + n
    BY <1>1 DEF WriteStdout, Arrives
  <2>2. Produced' \in Nat /\ Produced \in Nat /\ Produced' >= Produced
    <3> DEFINE h == HeadEnd
               w == written
    <3>1. h \in Nat /\ w \in Nat /\ n \in Nat
      BY Lengths DEF IInv, Types
    <3>2. Produced = IF w > h THEN w - h ELSE 0
      BY DEF Produced
    <3>3. Produced' = IF w + n > h THEN w + n - h ELSE 0
      <4> DEFINE next == written'
      <4>1. Produced' = IF next > HeadEnd THEN next - HeadEnd ELSE 0
        BY DEF Produced, HeadEnd
      <4>2. next = w + n
        BY <2>1
      <4> HIDE DEF next
      <4> QED
        BY <3>1, <4>1, <4>2
    <3> HIDE DEF h, w
    <3> QED
      BY <3>1, <3>2, <3>3
  <2>3. Body' = Body
    BY <2>1, BodySame
  <2>4. CASE Produced' = Produced
    BY <2>1, <2>3, <2>4 DEF Streamed!body
  <2>5. CASE Produced' # Produced
    <3>1. Produced' > Produced
      BY <2>2, <2>5
    <3>2. Streamed!Produce
      BY <2>1, <2>2, <2>3, <3>1 DEF Streamed!Produce
    <3> QED
      BY <3>2 DEF Streamed!Next
  <2> QED
    BY <2>4, <2>5
<1>2. ASSUME NEW f \in {Stderr, EmptyStdout, Foreign, ForeignEnd}, WriteNoise(f)
      PROVE  UNCHANGED Streamed!body
  BY <1>2, AddsNothing DEF WriteNoise, Arrives
<1>3. CASE EndsRequest \/ BackendTakes \/ Closes \/ Provide
  BY <1>3, AddsNothing DEF EndsRequest, Arrives, BackendTakes, Closes, Provide
<1>4. CASE ReadEvent \/ CloseEvent \/ SkipForeign \/ StderrFrame \/ StdoutBody \/ EndFrame
  BY <1>4, AddsNothing
  DEF ReadEvent, CloseEvent, SkipForeign, StderrFrame, StdoutBody, EndFrame
<1>5. CASE StdoutHead
  <2>1. Body' = Body
    BY <1>5, StdoutHeadKeeps
  <2>2. Produced' = Produced /\ UNCHANGED streaming
    BY <1>5 DEF StdoutHead, Produced, HeadEnd
  <2> QED
    BY <2>1, <2>2 DEF Streamed!body
<1>6. CASE FramesRunOut \/ Flush
  <2>1. /\ at \in {"frames", "flush"} /\ output_ready \in BOOLEAN
        /\ UNCHANGED <<socket, read_buffer, written, http11, backend, stdout_state, chunked>>
        /\ IF output_ready THEN Notify ELSE UNCHANGED <<client, streaming>>
    BY <1>6 DEF FramesRunOut, Flush, IInv, Types
  <2>2. ~complete /\ streaming
    BY <2>1 DEF IInv, Ends
  <2>3. CASE output_ready
    <3>1. UNCHANGED streaming /\ Body' = Body \o BodyIn(output)
      BY <2>1, <2>2, <2>3, NotifyGives
    <3>2. BodyIn(output) \in Seq(Int)
      BY OutputIs DEF IInv, Types
    <3>3. Streamed!Deliver \/ UNCHANGED Streamed!body
      BY <2>1, <2>2, <3>1, <3>2, Delivers
    <3> QED
      BY <3>3 DEF Streamed!Next
  <2>4. CASE ~output_ready
    BY <2>1, <2>4, AddsNothing
  <2> QED
    BY <2>3, <2>4
<1>7. CASE Drain
  <2>1. Body' = Body
    BY <1>7, DrainKeeps
  <2>2. Produced' = Produced
    BY <1>7 DEF Drain, Produced, HeadEnd
  <2>3. streaming /\ complete
    BY <1>7 DEF Drain, IInv, Ends
  <2>4. streaming' = FALSE
    BY <1>7, <2>3 DEF Drain, Notify, fcgi_provision_read
  <2>5. Streamed!BreakOff
    BY <2>1, <2>2, <2>3, <2>4 DEF Streamed!BreakOff
  <2> QED
    BY <2>5 DEF Streamed!Next
<1>8. CASE UNCHANGED vars
  BY <1>8, AddsNothing DEF vars
<1> QED
  BY <1>1, <1>2, <1>3, <1>4, <1>5, <1>6, <1>7, <1>8 DEF Next, Worker

(* BodyUnbroken: the body comes out to the client from its first byte on,  *)
(* in order, nothing repeated or left out, and nothing once the request is *)
(* over, in whatever frames and batches it comes from the backend.         *)
THEOREM StreamsBody == Spec => BodyUnbroken
<1>1. Init => Streamed!Init
  BY StartsStreaming
<1>2. IInv /\ IInv' /\ [Next]_vars => [Streamed!Next]_(Streamed!body)
  BY StepStreams
<1> QED
  BY <1>1, <1>2, Invariant, PTL DEF Spec, BodyUnbroken, Streamed!Spec

-----------------------------------------------------------------------------
(* What At has taken behind each element.                                  *)
Taking(f, seq, keep) ==
  /\ f[0] = <<>>
  /\ \A k \in 1 .. Len(seq) : f[k] = IF k \in keep THEN Append(f[k - 1], seq[k]) ELSE f[k - 1]

LEMMA AtSteps ==
  ASSUME NEW S, NEW seq \in Seq(S), NEW keep
  PROVE  \E f \in [0 .. Len(seq) -> Seq(S)] :
           At(seq, keep) = f[Len(seq)] /\ Taking(f, seq, keep)
<1> DEFINE n == Len(seq)
           Good(f) == f = [k \in 0 .. n |->
                             IF k = 0 THEN <<>>
                             ELSE IF k \in keep THEN Append(f[k - 1], seq[k]) ELSE f[k - 1]]
           Step == [t \in Seq(S) \X (1 .. n) |->
                      IF t[2] \in keep THEN Append(t[1], seq[t[2]]) ELSE t[1]]
<1>1. n \in Nat /\ \A k \in 1 .. n : seq[k] \in S
  OBVIOUS
<1>2. Step \in [Seq(S) \X (1 .. n) -> Seq(S)]
  BY <1>1
<1>3. PICK f \in [0 .. n -> Seq(S)] : Iteration(f, <<>>, Step, n)
  <2>1. <<>> \in Seq(S)
    OBVIOUS
  <2> HIDE DEF Step, n
  <2> QED
    BY <1>1, <1>2, <2>1, Iterates, Zenon
<1>4. Good(f)
  <2>1. \A k \in 1 .. n : f[k] = IF k \in keep THEN Append(f[k - 1], seq[k]) ELSE f[k - 1]
    <3>1. TAKE k \in 1 .. n
    <3>2. f[k - 1] \in Seq(S)
      BY <1>1
    <3>3. f[k] = Step[<<f[k - 1], k>>]
      BY <1>3 DEF Iteration
    <3> QED
      BY <3>2, <3>3
  <2>2. f[0] = <<>>
    BY <1>3 DEF Iteration
  <2>3. \A k \in 0 .. n : k = 0 \/ k \in 1 .. n
    BY <1>1
  <2> HIDE DEF n
  <2> QED
    BY <2>1, <2>2, <2>3
<1> DEFINE g == CHOOSE f1 : Good(f1)
<1>5. Good(g)
  <2> HIDE DEF Good
  <2> QED
    BY <1>4
<1>6. At(seq, keep) = g[n]
  BY DEF At
<1> HIDE DEF g
<1>7. /\ g = [k \in 0 .. n |-> g[k]] /\ g[0] = <<>>
      /\ \A k \in 1 .. n : g[k] = IF k \in keep THEN Append(g[k - 1], seq[k]) ELSE g[k - 1]
  <2>1. g = [k \in 0 .. n |-> g[k]]
    BY <1>5
  <2>2. 0 \in 0 .. n /\ \A k \in 1 .. n : k \in 0 .. n /\ k # 0
    BY <1>1
  <2> HIDE DEF n
  <2> QED
    BY <1>5, <2>1, <2>2
<1> HIDE DEF Good
<1> DEFINE holds == {k \in 0 .. n : g[k] \in Seq(S)}
<1>8. 0 .. n \subseteq holds
  <2>1. 0 \in holds
    <3>1. <<>> \in Seq(S) /\ 0 \in 0 .. n
      BY <1>1
    <3> QED
      BY <1>7, <3>1
  <2>2. \A k \in 1 .. n : k - 1 \in holds => k \in holds
    <3>1. SUFFICES ASSUME NEW k \in 1 .. n, g[k - 1] \in Seq(S) PROVE g[k] \in Seq(S)
      BY <1>1
    <3>2. seq[k] \in S
      BY <1>1
    <3>3. Append(g[k - 1], seq[k]) \in Seq(S)
      BY <3>1, <3>2
    <3> QED
      BY <1>7, <3>1, <3>3
  <2> HIDE DEF holds, n
  <2> QED
    BY <1>1, <2>1, <2>2, Inductive
<1>9. g \in [0 .. n -> Seq(S)]
  BY <1>7, <1>8
<1> QED
  BY <1>6, <1>7, <1>9 DEF Taking

LEMMA AtType ==
  ASSUME NEW S, NEW seq \in Seq(S), NEW keep
  PROVE  At(seq, keep) \in Seq(S)
<1>1. PICK f \in [0 .. Len(seq) -> Seq(S)] : At(seq, keep) = f[Len(seq)]
  BY AtSteps
<1> QED
  BY <1>1

(* What is taken at an interval of indices: the n elements behind a.       *)
Stretch(seq, a, n) == [i \in 1 .. n |-> seq[a + i]]

LEMMA AtInterval ==
  ASSUME NEW S, NEW seq \in Seq(S), NEW a \in Nat, NEW n \in Nat, a + n <= Len(seq),
         NEW keep, keep = a + 1 .. a + n
  PROVE  At(seq, keep) = Stretch(seq, a, n)
<1> DEFINE Cut(l) == [i \in 1 .. l |-> seq[a + i]]
           Here(k) == IF k <= a THEN 0 ELSE IF k <= a + n THEN k - a ELSE n
<1>0. PICK f \in [0 .. Len(seq) -> Seq(S)] : At(seq, keep) = f[Len(seq)] /\ Taking(f, seq, keep)
  BY AtSteps
<1>1. /\ At(seq, keep) = f[Len(seq)] /\ f[0] = <<>>
      /\ \A k \in 1 .. Len(seq) :
           f[k] = IF k \in keep THEN Append(f[k - 1], seq[k]) ELSE f[k - 1]
  BY <1>0 DEF Taking
<1>2. Len(seq) \in Nat /\ \A i \in 1 .. n : seq[a + i] \in S
  OBVIOUS
<1>3. Cut(0) = <<>>
  OBVIOUS
<1>4. \A l \in 1 .. n : Cut(l) = Append(Cut(l - 1), seq[a + l])
  <2>1. SUFFICES ASSUME NEW l \in 1 .. n PROVE Cut(l) = Append(Cut(l - 1), seq[a + l])
    OBVIOUS
  <2>2. Cut(l) \in Seq(S) /\ Cut(l - 1) \in Seq(S) /\ Len(Cut(l)) = l /\ Len(Cut(l - 1)) = l - 1
    <3>1. Cut(l) \in [1 .. l -> S] /\ Cut(l - 1) \in [1 .. l - 1 -> S]
      BY <1>2
    <3> QED
      BY <3>1
  <2>3. \A i \in 1 .. l : Cut(l)[i] = seq[a + i] /\ (i # l => Cut(l - 1)[i] = seq[a + i])
    OBVIOUS
  <2> DEFINE x == Cut(l)
             y == Cut(l - 1)
             e == seq[a + l]
  <2>4. e \in S
    BY <1>2
  <2> HIDE DEF x, y
  <2>5. Append(y, e) \in Seq(S) /\ Len(Append(y, e)) = l
        /\ \A i \in 1 .. l : Append(y, e)[i] = IF i = l THEN e ELSE y[i]
    BY <2>2, <2>4 DEF x, y
  <2>6. \A i \in 1 .. l : Append(y, e)[i] = x[i]
    BY <2>3, <2>5 DEF x, y
  <2>7. x = Append(y, e)
    BY <2>2, <2>5, <2>6, SeqEqual DEF x, y
  <2> QED
    BY <2>7 DEF x, y
<1> HIDE DEF Cut
<1> DEFINE holds == {k \in 0 .. Len(seq) : f[k] = Cut(Here(k))}
<1>5. 0 \in holds
  <2>1. Here(0) = 0
    OBVIOUS
  <2> QED
    BY <1>1, <1>2, <1>3, <2>1
<1>6. ASSUME NEW k \in 1 .. Len(seq), k - 1 \in holds PROVE k \in holds
  <2>1. CASE k \in keep
    <3> DEFINE l == k - a
    <3>1. Here(k) = l /\ Here(k - 1) = l - 1 /\ l \in 1 .. n /\ a + l = k
      BY <2>1
    <3>2. f[k] = Append(f[k - 1], seq[k]) /\ f[k - 1] = Cut(Here(k - 1))
      BY <1>1, <1>6, <2>1
    <3> HIDE DEF Here, l
    <3>3. Cut(l) = Append(Cut(l - 1), seq[k])
      BY <1>4, <3>1
    <3>4. f[k] = Cut(Here(k)) /\ k \in 0 .. Len(seq)
      BY <3>1, <3>2, <3>3
    <3> QED
      BY <3>4
  <2>2. CASE k \notin keep
    <3>1. Here(k) = Here(k - 1)
      BY <2>2
    <3>2. f[k] = f[k - 1] /\ f[k - 1] = Cut(Here(k - 1))
      BY <1>1, <1>6, <2>2
    <3> HIDE DEF Here
    <3> QED
      BY <3>1, <3>2
  <2> QED
    BY <2>1, <2>2
<1>7. Len(seq) \in holds
  <2>1. 0 .. Len(seq) \subseteq holds
    <3> HIDE DEF holds
    <3> QED
      BY <1>2, <1>5, <1>6, Inductive
  <2> QED
    BY <1>2, <2>1
<1>8. Here(Len(seq)) = n
  BY <1>2
<1> HIDE DEF Here
<1>9. f[Len(seq)] = Cut(n)
  BY <1>7, <1>8
<1> QED
  BY <1>1, <1>9 DEF Cut, Stretch

(* The sequences one behind another, up to each of them.                   *)
LEMMA FlattenSteps ==
  ASSUME NEW S, NEW seqs \in Seq(Seq(S)), seqs # <<>>
  PROVE  \E f \in [1 .. Len(seqs) -> Seq(S)] :
           /\ FlattenSeq(seqs) = f[Len(seqs)] /\ f[1] = seqs[1]
           /\ \A i \in 2 .. Len(seqs) : f[i] = f[i - 1] \o seqs[i]
<1> DEFINE n == Len(seqs)
           Good(f) == f = [i \in 1 .. n |-> IF i = 1 THEN seqs[i] ELSE f[i - 1] \o seqs[i]]
           Step == [t \in Seq(S) \X (1 .. n) |-> t[1] \o seqs[t[2]]]
<1>1. n \in Nat /\ n >= 1 /\ \A i \in 1 .. n : seqs[i] \in Seq(S)
  OBVIOUS
<1>2. Step \in [Seq(S) \X (1 .. n) -> Seq(S)]
  <2>1. \A t \in Seq(S) \X (1 .. n) : t[1] \in Seq(S) /\ seqs[t[2]] \in Seq(S)
    BY <1>1
  <2> QED
    BY <2>1
<1>3. PICK h \in [0 .. n -> Seq(S)] : Iteration(h, <<>>, Step, n)
  <2>1. <<>> \in Seq(S)
    OBVIOUS
  <2> HIDE DEF Step, n
  <2> QED
    BY <1>1, <1>2, <2>1, Iterates, Zenon
<1>4. \A i \in 1 .. n : h[i] = h[i - 1] \o seqs[i] /\ h[i] \in Seq(S) /\ h[i - 1] \in Seq(S)
  <2>1. TAKE i \in 1 .. n
  <2>2. h[i] \in Seq(S) /\ h[i - 1] \in Seq(S)
    <3> HIDE DEF n
    <3>1. i \in 0 .. n /\ i - 1 \in 0 .. n
      BY <1>1
    <3> QED
      BY <1>3, <3>1
  <2>3. h[i] = Step[<<h[i - 1], i>>]
    BY <1>3 DEF Iteration
  <2> QED
    BY <2>2, <2>3
<1>5. h[1] = seqs[1]
  <2> DEFINE e == seqs[1]
  <2>0. 1 \in 1 .. n /\ 1 - 1 = 0
    BY <1>1
  <2>1. e \in Seq(S) /\ h[1] = h[0] \o e /\ h[0] = <<>>
    <3>1. h[1] = h[1 - 1] \o seqs[1] /\ h[0] = <<>>
      BY <1>3, <1>4, <2>0 DEF Iteration
    <3> HIDE DEF n
    <3> QED
      BY <1>1, <2>0, <3>1
  <2> HIDE DEF e
  <2>2. <<>> \o e = e
    BY <2>1
  <2> QED
    BY <2>1, <2>2 DEF e
<1> DEFINE f0 == [i \in 1 .. n |-> h[i]]
<1>6. Good(f0)
  <2>1. \A i \in 1 .. n : f0[i] = IF i = 1 THEN seqs[i] ELSE f0[i - 1] \o seqs[i]
    <3>1. TAKE i \in 1 .. n
    <3>2. CASE i = 1
      BY <1>5, <3>2
    <3>3. CASE i # 1
      <4>1. i - 1 \in 1 .. n
        BY <3>3
      <4>2. f0[i] = h[i] /\ f0[i - 1] = h[i - 1]
        BY <4>1
      <4> HIDE DEF f0
      <4> QED
        BY <1>4, <3>3, <4>2
    <3> QED
      BY <3>2, <3>3
  <2>2. f0 = [i \in 1 .. n |-> f0[i]]
    OBVIOUS
  <2> HIDE DEF f0, n
  <2> QED
    BY <2>1, <2>2
<1> DEFINE g == CHOOSE f1 : Good(f1)
<1>7. Good(g)
  <2> HIDE DEF Good
  <2> QED
    BY <1>6
<1>8. FlattenSeq(seqs) = g[n]
  BY <1>1 DEF FlattenSeq
<1> HIDE DEF g
<1>9. /\ g = [i \in 1 .. n |-> g[i]] /\ g[1] = seqs[1]
      /\ \A i \in 2 .. n : g[i] = g[i - 1] \o seqs[i]
  <2>1. g = [i \in 1 .. n |-> g[i]]
    BY <1>7
  <2>2. 1 \in 1 .. n /\ \A i \in 2 .. n : i \in 1 .. n /\ i # 1
    BY <1>1
  <2> HIDE DEF n
  <2> QED
    BY <1>7, <2>1, <2>2
<1> HIDE DEF Good
<1> DEFINE holds == {i \in 0 .. n : i = 0 \/ g[i] \in Seq(S)}
<1>10. 0 .. n \subseteq holds
  <2>1. 0 \in holds
    BY <1>1
  <2>2. \A i \in 1 .. n : i - 1 \in holds => i \in holds
    <3>1. SUFFICES ASSUME NEW i \in 1 .. n, i - 1 \in holds PROVE g[i] \in Seq(S)
      BY <1>1
    <3>2. CASE i = 1
      BY <1>1, <1>9, <3>2
    <3>3. CASE i # 1
      <4>1. i \in 2 .. n /\ g[i - 1] \in Seq(S) /\ seqs[i] \in Seq(S)
        BY <1>1, <3>1, <3>3
      <4> DEFINE x == g[i - 1]
                 y == seqs[i]
      <4>2. x \in Seq(S) /\ y \in Seq(S) /\ g[i] = x \o y
        BY <1>9, <4>1
      <4> HIDE DEF x, y
      <4> QED
        BY <4>2
    <3> QED
      BY <3>2, <3>3
  <2> HIDE DEF holds, n
  <2> QED
    BY <1>1, <2>1, <2>2, Inductive
<1>11. g \in [1 .. n -> Seq(S)]
  <2>1. \A i \in 1 .. n : g[i] \in Seq(S)
    <3>1. SUFFICES ASSUME NEW i \in 1 .. n PROVE g[i] \in Seq(S)
      OBVIOUS
    <3>2. i \in 0 .. n /\ i # 0
      BY <1>1
    <3>3. i \in holds
      BY <1>10, <3>2
    <3> QED
      BY <3>2, <3>3
  <2> HIDE DEF n
  <2> QED
    BY <1>9, <2>1
<1> HIDE DEF n
<1> QED
  BY <1>8, <1>9, <1>11 DEF n

-----------------------------------------------------------------------------
(* What is left of a number, and how often another one is in it.           *)
LEMMA Divides ==
  ASSUME NEW b \in Nat, b > 0, NEW n \in Nat
  PROVE  /\ n % b \in 0 .. b - 1 /\ n \div b \in Nat /\ n \div b <= n
         /\ n = (n \div b) * b + (n % b)
         /\ n < b => n \div b = 0 /\ n % b = n
         /\ n < b * b => n \div b < b
<1>1. n % b \in 0 .. b - 1 /\ n \div b \in Nat
  OBVIOUS
<1>2. n = (n \div b) * b + (n % b)
  OBVIOUS
<1>3. n < b => n \div b = 0 /\ n % b = n
  OBVIOUS
<1>4. n < b * b => n \div b < b
  OBVIOUS
<1>5. n \div b <= n
  <2> DEFINE q == n \div b
             r == n % b
  <2>1. q \in Nat /\ r \in Nat /\ n = q * b + r /\ b >= 1
    BY <1>1, <1>2
  <2> HIDE DEF q, r
  <2>2. q * b >= q
    BY <2>1
  <2>3. q * b \in Nat
    BY <2>1
  <2>4. q <= n
    BY <2>1, <2>2, <2>3
  <2> QED
    BY <2>4 DEF q
<1> QED
  BY <1>1, <1>2, <1>3, <1>4, <1>5

LEMMA Octets ==
  /\ Byte \in Nat /\ Byte >= 10 /\ Byte \div 2 \in 5 .. Byte - 1
  /\ Byte * Byte \in Nat /\ Byte * Byte > 0
  /\ Byte * Byte * Byte \in Nat /\ Byte * Byte * Byte >= Byte * Byte
  /\ FrameMax \in Nat /\ FrameMax = Byte * Byte - 1 /\ FrameMax >= 99
<1>1. Byte \in Nat /\ Byte >= 10 /\ Byte \div 2 \in 5 .. Byte - 1
  BY OctetsAssumption
<1>2. Byte * Byte \in Nat /\ Byte * Byte >= 100
  BY <1>1
<1>3. Byte * Byte * Byte \in Nat /\ Byte * Byte * Byte >= Byte * Byte
  <2> DEFINE q == Byte * Byte
  <2>1. q \in Nat
    BY <1>2
  <2> HIDE DEF q
  <2>2. q * Byte \in Nat /\ q * Byte >= q
    BY <1>1, <2>1
  <2> QED
    BY <2>2 DEF q
<1> QED
  BY <1>1, <1>2, <1>3 DEF FrameMax

(* Two octets.                                                             *)
Pair == (0 .. Byte - 1) \X (0 .. Byte - 1)

(* Two octets hold a number, if it is below their limit.                   *)
LEMMA TwoHold ==
  ASSUME NEW n \in Nat
  PROVE  /\ TwoOctets(n) \in Pair /\ Number(TwoOctets(n)) \in Nat
         /\ Number(TwoOctets(n)) <= n
         /\ n <= FrameMax => Number(TwoOctets(n)) = n
<1> DEFINE q == n \div Byte
           r == n % Byte
           h == q % Byte
<1>1. /\ q \in Nat /\ r \in 0 .. Byte - 1 /\ n = q * Byte + r
      /\ n < Byte * Byte => q < Byte
  BY Octets, Divides
<1> HIDE DEF q, r
<1>2. h \in 0 .. Byte - 1 /\ h <= q /\ (q < Byte => h = q)
  <2>1. h \in 0 .. Byte - 1 /\ (q < Byte => h = q)
    BY <1>1, Octets, Divides
  <2>2. q >= Byte => h <= q
    BY <1>1, <2>1, Octets
  <2> HIDE DEF h
  <2> QED
    BY <1>1, <2>1, <2>2, Octets
<1>3. TwoOctets(n) = <<h, r>>
  BY DEF TwoOctets, h, q, r
<1> HIDE DEF h
<1>4. TwoOctets(n) \in Pair
  BY <1>1, <1>2, <1>3 DEF Pair
<1>5. Number(TwoOctets(n)) = h * Byte + r
  BY <1>3 DEF Number
<1>6. h * Byte \in Nat /\ h * Byte <= q * Byte /\ q * Byte \in Nat
  BY <1>1, <1>2, Octets
<1>7. n <= FrameMax => h = q
  BY <1>1, <1>2, Octets
<1>8. n <= FrameMax => Number(TwoOctets(n)) = n
  BY <1>1, <1>5, <1>7
<1>9. Number(TwoOctets(n)) \in Nat /\ Number(TwoOctets(n)) <= n
  <2> DEFINE x == h * Byte
             y == q * Byte
  <2>1. x \in Nat /\ x <= y /\ y \in Nat /\ r \in Nat
    BY <1>1, <1>6, Octets
  <2>2. Number(TwoOctets(n)) = x + r /\ n = y + r
    BY <1>1, <1>5
  <2> HIDE DEF x, y
  <2> QED
    BY <2>1, <2>2
<1> QED
  BY <1>4, <1>8, <1>9

(* How many octets the length of a name or value takes.                    *)
WidthOf(n) == IF n < Byte \div 2 THEN 1 ELSE 4

LEMMA Joins ==
  ASSUME NEW S, NEW s \in Seq(S), NEW t \in Seq(S)
  PROVE  /\ s \o t \in Seq(S) /\ Len(s) \in Nat /\ Len(t) \in Nat
         /\ Len(s \o t) = Len(s) + Len(t)
         /\ \A i \in 1 .. Len(s) : (s \o t)[i] = s[i]
         /\ \A i \in 1 .. Len(t) : (s \o t)[Len(s) + i] = t[i]
<1> DEFINE r == s \o t
<1>1. /\ r \in Seq(S) /\ Len(r) = Len(s) + Len(t)
      /\ \A i \in 1 .. Len(s) + Len(t) : r[i] = IF i <= Len(s) THEN s[i] ELSE t[i - Len(s)]
  BY ConcatProperties
<1>2. Len(s) \in Nat /\ Len(t) \in Nat
  OBVIOUS
<1> HIDE DEF r
<1>3. \A i \in 1 .. Len(s) : r[i] = s[i]
  BY <1>1, <1>2
<1>4. \A i \in 1 .. Len(t) : r[Len(s) + i] = t[i]
  <2>1. SUFFICES ASSUME NEW i \in 1 .. Len(t) PROVE r[Len(s) + i] = t[i]
    OBVIOUS
  <2>2. /\ Len(s) + i \in 1 .. Len(s) + Len(t) /\ ~(Len(s) + i <= Len(s))
        /\ Len(s) + i - Len(s) = i
    BY <1>2
  <2> QED
    BY <1>1, <2>2
<1> QED
  BY <1>1, <1>2, <1>3, <1>4 DEF r

LEMMA FourTogether ==
  ASSUME NEW a \in Nat, NEW b \in Nat, NEW c \in Nat, NEW d \in Nat
  PROVE  <<a, b>> \o <<c, d>> = <<a, b, c, d>>
<1> DEFINE s == <<a, b>>
           t == <<c, d>>
           u == <<a, b, c, d>>
           v == s \o t
<1>1. s \in Seq(Nat) /\ t \in Seq(Nat) /\ Len(s) = 2 /\ Len(t) = 2
      /\ s[1] = a /\ s[2] = b /\ t[1] = c /\ t[2] = d
  OBVIOUS
<1>2. u \in Seq(Nat) /\ Len(u) = 4 /\ u[1] = a /\ u[2] = b /\ u[3] = c /\ u[4] = d
  OBVIOUS
<1> HIDE DEF s, t, u
<1>3. /\ v \in Seq(Nat) /\ Len(v) = 4
      /\ \A i \in 1 .. 2 : v[i] = s[i]
      /\ \A i \in 1 .. 2 : v[2 + i] = t[i]
  <2>1. /\ v \in Seq(Nat) /\ Len(v) = Len(s) + Len(t)
        /\ \A i \in 1 .. Len(s) : v[i] = s[i]
        /\ \A i \in 1 .. Len(t) : v[Len(s) + i] = t[i]
    <3>1. s \in Seq(Nat) /\ t \in Seq(Nat)
      BY <1>1
    <3> QED
      BY <3>1, Joins
  <2> HIDE DEF v
  <2> QED
    BY <1>1, <2>1
<1> HIDE DEF v
<1>4. v[1] = a /\ v[2] = b /\ v[2 + 1] = c /\ v[2 + 2] = d
  BY <1>1, <1>3
<1>5. \A i \in 1 .. 4 : v[i] = u[i]
  <2>1. \A i \in 1 .. 4 : i = 1 \/ i = 2 \/ i = 3 \/ i = 4
    OBVIOUS
  <2>2. v[3] = c /\ v[4] = d
    BY <1>4
  <2> QED
    BY <1>2, <1>4, <2>1, <2>2
<1>6. v = u
  BY <1>2, <1>3, <1>5, SeqEqual
<1> QED
  BY <1>6 DEF v, u, s, t

(* What the length of a text is written as, if it fits in a frame.         *)
LEMMA LengthIs ==
  ASSUME NEW n \in Nat
  PROVE  /\ LengthOctets(n) \in Seq(Nat) /\ Len(LengthOctets(n)) = WidthOf(n)
         /\ n < Byte \div 2 => LengthOctets(n)[1] = n
         /\ n >= Byte \div 2 /\ n <= FrameMax =>
              /\ LengthOctets(n)[1] = Byte \div 2 /\ LengthOctets(n)[2] = 0
              /\ Number(<<LengthOctets(n)[3], LengthOctets(n)[4]>>) = n
<1> DEFINE cube == Byte * Byte * Byte
           square == Byte * Byte
           first == (n \div cube) % Byte
           second == (n \div square) % Byte
           half == Byte \div 2
           two == TwoOctets(n)
           l == LengthOctets(n)
<1>1. half \in 5 .. Byte - 1 /\ Byte \in Nat /\ cube \in Nat /\ square \in Nat /\ cube >= square
      /\ square > 0 /\ FrameMax = square - 1 /\ Byte > 0
  BY Octets
<1>2. l = IF n < half THEN <<n>> ELSE <<half + first, second>> \o two
  BY DEF LengthOctets
<1>3. /\ first \in Nat /\ second \in Nat
      /\ n <= FrameMax => first = 0 /\ second = 0
  <2> HIDE DEF cube, square
  <2>1. n \div cube \in Nat /\ n \div square \in Nat
    BY <1>1, Divides
  <2>2. n <= FrameMax => n \div cube = 0 /\ n \div square = 0
    BY <1>1, Divides
  <2>3. 0 % Byte = 0
    BY <1>1
  <2>4. (n \div cube) % Byte \in Nat /\ (n \div square) % Byte \in Nat
    <3> DEFINE x == n \div cube
               y == n \div square
    <3>1. x \in Nat /\ y \in Nat
      BY <2>1
    <3> HIDE DEF x, y
    <3>2. x % Byte \in Nat /\ y % Byte \in Nat
      BY <1>1, <3>1
    <3> QED
      BY <3>2 DEF x, y
  <2> QED
    BY <2>2, <2>3, <2>4
<1>4. /\ two = <<two[1], two[2]>> /\ two[1] \in Nat /\ two[2] \in Nat
      /\ Number(two) = two[1] * Byte + two[2] /\ (n <= FrameMax => Number(two) = n)
  <2>1. two \in Pair /\ (n <= FrameMax => Number(two) = n)
    BY TwoHold
  <2> HIDE DEF two
  <2> QED
    BY <2>1, Octets DEF Pair, Number
<1> HIDE DEF cube, square, first, second, half, two, l
<1>5. CASE n < half
  <2>1. l = <<n>>
    BY <1>2, <1>5
  <2>2. l \in Seq(Nat) /\ Len(l) = 1 /\ l[1] = n
    BY <2>1
  <2>3. WidthOf(n) = 1
    BY <1>5 DEF WidthOf, half
  <2> QED
    BY <1>1, <1>5, <2>2, <2>3 DEF l, half
<1>6. CASE ~(n < half)
  <2> DEFINE a == <<half + first, second>>
             x == two[1]
             y == two[2]
  <2>1. l = a \o <<x, y>>
    BY <1>2, <1>4, <1>6
  <2>2. x \in Nat /\ y \in Nat /\ half + first \in Nat /\ second \in Nat
    BY <1>1, <1>3, <1>4
  <2> HIDE DEF x, y
  <2>3. l = <<half + first, second, x, y>>
    <3> DEFINE z == half + first
    <3> HIDE DEF z
    <3>0. z \in Nat
      BY <2>2 DEF z
    <3>1. l = <<z, second>> \o <<x, y>>
      BY <2>1 DEF z
    <3>2. <<z, second>> \o <<x, y>> = <<z, second, x, y>>
      BY <2>2, <3>0, FourTogether
    <3> QED
      BY <3>1, <3>2 DEF z
  <2>4. l \in Seq(Nat) /\ Len(l) = 4
    BY <2>2, <2>3
  <2>5. l[1] = half + first /\ l[2] = second /\ l[3] = x /\ l[4] = y
    BY <2>3
  <2>6. n <= FrameMax => l[1] = half /\ l[2] = 0 /\ Number(<<l[3], l[4]>>) = n
    <3>1. Number(<<l[3], l[4]>>) = Number(two)
      BY <1>4, <2>5 DEF x, y
    <3> HIDE DEF a
    <3> QED
      BY <1>1, <1>3, <1>4, <2>5, <3>1
  <2>7. WidthOf(n) = 4
    BY <1>6 DEF WidthOf, half
  <2> QED
    BY <1>6, <2>4, <2>6, <2>7 DEF l, half
<1> QED
  BY <1>5, <1>6

(* A record in octets: its length and where its parts are.                 *)
LEMMA RecordIs ==
  ASSUME NEW param \in ParamType
  PROVE  LET n == Len(param.name)
             v == Len(param.value)
             r == Record(param)
             w == WidthOf(n)
             x == WidthOf(v)
         IN /\ n \in Nat /\ v \in Nat /\ w \in {1, 4} /\ x \in {1, 4}
            /\ r \in Seq(Nat) /\ Len(r) = w + x + n + v
            /\ \A i \in 1 .. w : r[i] = LengthOctets(n)[i]
            /\ \A i \in 1 .. x : r[w + i] = LengthOctets(v)[i]
            /\ \A i \in 1 .. n : r[w + x + i] = param.name[i]
            /\ \A i \in 1 .. v : r[w + x + n + i] = param.value[i]
<1> DEFINE a == LengthOctets(Len(param.name))
           b == LengthOctets(Len(param.value))
           c == param.name
           d == param.value
<1>1. c \in Seq(Nat) /\ d \in Seq(Nat)
  <2>1. c \in Seq(0 .. Byte - 1) /\ d \in Seq(0 .. Byte - 1)
    BY DEF ParamType, Texts
  <2>2. 0 .. Byte - 1 \subseteq Nat
    BY Octets
  <2> HIDE DEF c, d
  <2> QED
    BY <2>1, <2>2, SeqMonotonic
<1>2. /\ a \in Seq(Nat) /\ Len(a) = WidthOf(Len(c)) /\ b \in Seq(Nat) /\ Len(b) = WidthOf(Len(d))
      /\ Len(c) \in Nat /\ Len(d) \in Nat
  <2>1. Len(c) \in Nat /\ Len(d) \in Nat
    BY <1>1
  <2> QED
    BY <2>1, LengthIs
<1>3. Record(param) = ((a \o b) \o c) \o d
  BY DEF Record
<1>4. WidthOf(Len(c)) \in {1, 4} /\ WidthOf(Len(d)) \in {1, 4}
  BY DEF WidthOf
<1> HIDE DEF a, b, c, d
<1> DEFINE ab == a \o b
           abc == ab \o c
           r == abc \o d
<1>5. /\ ab \in Seq(Nat) /\ Len(ab) = Len(a) + Len(b)
      /\ \A i \in 1 .. Len(a) : ab[i] = a[i]
      /\ \A i \in 1 .. Len(b) : ab[Len(a) + i] = b[i]
  <2>1. a \in Seq(Nat) /\ b \in Seq(Nat)
    BY <1>2
  <2> QED
    BY <2>1, Joins
<1> HIDE DEF ab
<1>6. /\ abc \in Seq(Nat) /\ Len(abc) = Len(ab) + Len(c)
      /\ \A i \in 1 .. Len(ab) : abc[i] = ab[i]
      /\ \A i \in 1 .. Len(c) : abc[Len(ab) + i] = c[i]
  <2>1. ab \in Seq(Nat) /\ c \in Seq(Nat)
    BY <1>1, <1>5
  <2> QED
    BY <2>1, Joins
<1> HIDE DEF abc
<1>7. /\ r \in Seq(Nat) /\ Len(r) = Len(abc) + Len(d)
      /\ \A i \in 1 .. Len(abc) : r[i] = abc[i]
      /\ \A i \in 1 .. Len(d) : r[Len(abc) + i] = d[i]
  <2>1. abc \in Seq(Nat) /\ d \in Seq(Nat)
    BY <1>1, <1>6
  <2> QED
    BY <2>1, Joins
<1> HIDE DEF r
<1> DEFINE n == Len(c)
           v == Len(d)
           w == Len(a)
           x == Len(b)
<1>8. n \in Nat /\ v \in Nat /\ w \in Nat /\ x \in Nat
  BY <1>1, <1>2
<1>9. Len(ab) = w + x /\ Len(abc) = w + x + n /\ Len(r) = w + x + n + v
  BY <1>5, <1>6, <1>7
<1> HIDE DEF n, v, w, x
<1>10. \A i \in 1 .. w : r[i] = a[i]
  <2>1. SUFFICES ASSUME NEW i \in 1 .. w PROVE r[i] = a[i]
    OBVIOUS
  <2>2. i \in 1 .. Len(a) /\ i \in 1 .. Len(ab) /\ i \in 1 .. Len(abc)
    BY <1>8, <1>9 DEF w
  <2>3. ab[i] = a[i] /\ abc[i] = ab[i] /\ r[i] = abc[i]
    BY <1>5, <1>6, <1>7, <2>2
  <2> QED
    BY <2>3
<1>11. \A i \in 1 .. x : r[w + i] = b[i]
  <2>1. SUFFICES ASSUME NEW i \in 1 .. x PROVE r[w + i] = b[i]
    OBVIOUS
  <2>2. i \in 1 .. Len(b) /\ w + i \in 1 .. Len(ab) /\ w + i \in 1 .. Len(abc)
    BY <1>8, <1>9 DEF x
  <2>3. ab[w + i] = b[i] /\ abc[w + i] = ab[w + i] /\ r[w + i] = abc[w + i]
    BY <1>5, <1>6, <1>7, <2>2 DEF w
  <2> QED
    BY <2>3
<1>12. \A i \in 1 .. n : r[w + x + i] = c[i]
  <2>1. SUFFICES ASSUME NEW i \in 1 .. n PROVE r[w + x + i] = c[i]
    OBVIOUS
  <2>2. i \in 1 .. Len(c) /\ w + x + i \in 1 .. Len(abc) /\ w + x + i = Len(ab) + i
    BY <1>8, <1>9 DEF n
  <2>3. abc[w + x + i] = c[i] /\ r[w + x + i] = abc[w + x + i]
    BY <1>6, <1>7, <2>2
  <2> QED
    BY <2>3
<1>13. \A i \in 1 .. v : r[w + x + n + i] = d[i]
  BY <1>7, <1>9 DEF v
<1>14. Record(param) = r
  BY <1>3 DEF r, abc, ab
<1>15. w = WidthOf(n) /\ x = WidthOf(v) /\ w \in {1, 4} /\ x \in {1, 4}
  BY <1>2, <1>4 DEF n, v, w, x
<1>16. /\ c = param.name /\ d = param.value /\ a = LengthOctets(n) /\ b = LengthOctets(v)
       /\ n = Len(param.name) /\ v = Len(param.value)
  BY DEF a, b, c, d, n, v
<1>17. r \in Seq(Nat) /\ Len(r) = w + x + n + v
  BY <1>7, <1>9
<1> QED
  BY <1>8, <1>10, <1>11, <1>12, <1>13, <1>14, <1>15, <1>16, <1>17

-----------------------------------------------------------------------------
(* The parameters of a request.                                            *)
LEMMA Tenth ==
  ASSUME NEW k \in Nat
  PROVE  /\ k \div 10 \in 0 .. k /\ k % 10 \in 0 .. Byte - 1
         /\ k >= 10 => k \div 10 \in 0 .. k - 1
<1>1. k \div 10 \in 0 .. k /\ (k >= 10 => k \div 10 \in 0 .. k - 1)
  OBVIOUS
<1>2. k % 10 \in 0 .. 9
  OBVIOUS
<1> QED
  BY <1>1, <1>2, Octets

LEMMA DigitsAre ==
  ASSUME NEW n \in Nat
  PROVE  Digits(n) \in Texts
<1> DEFINE Good(f) == f = [k \in 0 .. n |-> IF k < 10 THEN <<k>> ELSE Append(f[k \div 10], k % 10)]
           S == 0 .. n
           V == Seq(0 .. Byte - 1)
           m == [k \in S |-> k]
           next == [k \in S |-> k \div 10]
           stop == 0 .. 9
           base == [k \in S |-> IF k < 10 THEN <<k>> ELSE <<>>]
           Value == [t \in S \X V |-> Append(t[2], t[1] % 10)]
<1>1. \A k \in S : /\ k \in Nat /\ k \div 10 \in S /\ k % 10 \in 0 .. Byte - 1
                  /\ k >= 10 => k \div 10 < k
  <2>1. SUFFICES ASSUME NEW k \in S
                 PROVE  /\ k \in Nat /\ k \div 10 \in S /\ k % 10 \in 0 .. Byte - 1
                        /\ k >= 10 => k \div 10 < k
    OBVIOUS
  <2> DEFINE q == k \div 10
             r == k % 10
  <2>2. k \in Nat /\ k <= n
    OBVIOUS
  <2>3. q \in 0 .. k /\ r \in 0 .. Byte - 1 /\ (k >= 10 => q \in 0 .. k - 1)
    BY <2>2, Tenth
  <2> HIDE DEF q, r
  <2>4. q \in S /\ (k >= 10 => q < k)
    BY <2>2, <2>3
  <2> QED
    BY <2>2, <2>3, <2>4 DEF q, r
<1>2. \A k \in S : k < 10 => <<k>> \in V
  BY Octets
<1>3. <<>> \in V
  OBVIOUS
<1>4. PICK f \in [S -> V] : Descending(f, S, next, stop, base, Value)
  <2>1. m \in [S -> 0 .. n] /\ next \in [S -> S]
    BY <1>1
  <2>2. \A s \in S \ stop : m[next[s]] < m[s]
    BY <1>1
  <2>3. base \in [S -> V]
    BY <1>2, <1>3
  <2>4. Value \in [S \X V -> V]
    <3>1. ASSUME NEW t \in S \X V PROVE Append(t[2], t[1] % 10) \in V
      <4>1. t[2] \in V /\ t[1] % 10 \in 0 .. Byte - 1
        <5> DEFINE k == t[1]
        <5>1. k \in Nat /\ t[2] \in V
          OBVIOUS
        <5> HIDE DEF k, V
        <5>2. k % 10 \in 0 .. Byte - 1
          BY <5>1, Tenth
        <5> QED
          BY <5>1, <5>2 DEF k
      <4> QED
        BY <4>1
    <3> HIDE DEF S, V
    <3> QED
      BY <3>1
  <2>5. Descent(S, n, m, next, stop)
    BY <2>1, <2>2 DEF Descent
  <2> HIDE DEF S, V, m, next, stop, base, Value
  <2> QED
    BY <2>3, <2>4, <2>5, Descends
<1>5. Good(f)
  <2>1. ASSUME NEW k \in S PROVE f[k] = IF k < 10 THEN <<k>> ELSE Append(f[k \div 10], k % 10)
    <3>1. CASE k < 10
      <4>1. k \in stop /\ base[k] = <<k>>
        BY <1>1, <3>1
      <4> HIDE DEF stop, base, Value, next
      <4> QED
        BY <1>4, <3>1, <4>1 DEF Descending
    <3>2. CASE ~(k < 10)
      <4>1. k \notin stop /\ next[k] = k \div 10 /\ k \div 10 \in S
        BY <1>1, <3>2
      <4>2. f[k \div 10] \in V
        BY <4>1
      <4>3. Value[<<k, f[k \div 10]>>] = Append(f[k \div 10], k % 10)
        BY <4>2
      <4> HIDE DEF stop, base, Value, next, S
      <4> QED
        BY <1>4, <3>2, <4>1, <4>3 DEF Descending
    <3> QED
      BY <3>1, <3>2
  <2>2. f = [k \in S |-> f[k]]
    BY <1>4
  <2> QED
    BY <2>1, <2>2
<1> DEFINE g == CHOOSE f1 : Good(f1)
<1>6. Good(g)
  <2> HIDE DEF Good
  <2> QED
    BY <1>5
<1>7. Digits(n) = g[n]
  BY DEF Digits
<1> HIDE DEF g
<1>8. \A k \in S : g[k] = IF k < 10 THEN <<k>> ELSE Append(g[k \div 10], k % 10)
  BY <1>6
<1> HIDE DEF Good
<1> DEFINE holds == {k \in S : \A j \in 0 .. k : g[j] \in V}
<1>9. \A j \in S : j < 10 => g[j] \in V
  BY <1>2, <1>8
<1>10. 0 \in holds
  <2>1. \A j \in 0 .. 0 : j \in S /\ j < 10
    OBVIOUS
  <2>2. 0 \in S
    OBVIOUS
  <2> QED
    BY <1>9, <2>1, <2>2
<1>11. ASSUME NEW k \in 1 .. n, k - 1 \in holds PROVE k \in holds
  <2>1. k \in S /\ \A j \in 0 .. k : j = k \/ j \in 0 .. k - 1
    OBVIOUS
  <2>2. g[k] \in V
    <3>1. CASE k < 10
      BY <1>9, <2>1, <3>1
    <3>2. CASE ~(k < 10)
      <4>1. k \div 10 \in 0 .. k - 1 /\ k % 10 \in 0 .. Byte - 1
        <5>1. k \in Nat /\ k >= 10
          BY <3>2
        <5> QED
          BY <5>1, Tenth
      <4>2. g[k \div 10] \in V
        BY <1>11, <4>1
      <4>3. Append(g[k \div 10], k % 10) \in V
        BY <4>1, <4>2
      <4> QED
        BY <1>8, <2>1, <3>2, <4>3
    <3> QED
      BY <3>1, <3>2
  <2> HIDE DEF V, S
  <2> QED
    BY <1>11, <2>1, <2>2
<1>12. n \in holds
  <2>1. 0 .. n \subseteq holds
    <3> HIDE DEF holds
    <3> QED
      BY <1>10, <1>11, Inductive
  <2>2. n \in 0 .. n
    OBVIOUS
  <2> HIDE DEF holds
  <2> QED
    BY <2>1, <2>2
<1> QED
  BY <1>7, <1>12 DEF Texts

LEMMA NamesAre ==
  ASSUME NEW name \in {"CONTENT_LENGTH", "CONTENT_TYPE", "PATH_INFO", "PATH_TRANSLATED",
                       "SCRIPT_NAME", "SERVER_NAME", "DOCUMENT_ROOT", "SCRIPT_FILENAME", "HTTP_"}
  PROVE  Name[name] \in Texts
<1>1. name \in DOMAIN Name
  BY TextsAssumption
<1> QED
  BY <1>1, TextsAssumption

LEMMA TextsJoin ==
  ASSUME NEW s \in Texts, NEW t \in Texts
  PROVE  s \o t \in Texts
<1> DEFINE S == 0 .. Byte - 1
<1>1. s \in Seq(S) /\ t \in Seq(S)
  BY DEF Texts
<1> HIDE DEF S
<1>2. s \o t \in Seq(S)
  BY <1>1
<1> QED
  BY <1>2 DEF S, Texts

LEMMA ParamIs ==
  ASSUME NEW name \in {"CONTENT_LENGTH", "CONTENT_TYPE", "PATH_INFO", "PATH_TRANSLATED",
                       "SCRIPT_NAME", "SERVER_NAME", "DOCUMENT_ROOT", "SCRIPT_FILENAME", "HTTP_"},
         NEW value
  PROVE  /\ value \in Texts => Param(name, value) \in Seq(ParamType)
         /\ value \in {None} \union Texts => Optional(name, value) \in Seq(ParamType)
<1>1. value \in Texts => Param(name, value) \in Seq(ParamType)
  <2>1. SUFFICES ASSUME value \in Texts PROVE Param(name, value) \in Seq(ParamType)
    OBVIOUS
  <2> DEFINE p == [name |-> Name[name], value |-> value]
  <2>2. p \in ParamType
    BY <2>1, NamesAre DEF ParamType
  <2>3. Param(name, value) = <<p>>
    BY DEF Param
  <2> HIDE DEF p
  <2> QED
    BY <2>2, <2>3
<1>2. <<>> \in Seq(ParamType)
  OBVIOUS
<1> QED
  BY <1>1, <1>2 DEF Optional

LEMMA EnvNameIs ==
  ASSUME NEW name \in Texts
  PROVE  EnvName(name) \in Texts
<1> DEFINE t == [i \in DOMAIN name |-> IF name[i] \in Lower THEN name[i] - Case
                                      ELSE IF name[i] = Dash THEN Underscore ELSE name[i]]
           S == 0 .. Byte - 1
<1>1. name \in Seq(S) /\ Len(name) \in Nat /\ DOMAIN name = 1 .. Len(name)
      /\ \A i \in DOMAIN name : name[i] \in S
  <2>1. name \in Seq(S)
    BY DEF Texts
  <2> HIDE DEF S
  <2> QED
    BY <2>1
<1>2. \A o \in S : o \in Lower => o - Case \in S
  BY OctetsAssumption
<1>3. Underscore \in S
  BY OctetsAssumption
<1> HIDE DEF S
<1>4. t \in [1 .. Len(name) -> S]
  BY <1>1, <1>2, <1>3
<1> HIDE DEF t
<1>5. t \in Seq(S)
  BY <1>1, <1>4
<1>6. Name.HTTP_ \in Texts
  BY NamesAre
<1>7. EnvName(name) = Name.HTTP_ \o t
  BY DEF EnvName, t
<1>8. t \in Texts
  BY <1>5 DEF Texts, S
<1> QED
  BY <1>6, <1>7, <1>8, TextsJoin

LEMMA HeaderParamsAre ==
  ASSUME NEW headers \in Seq(ParamType)
  PROVE  HeaderParams(headers) \in Seq(ParamType)
<1> DEFINE put == {i \in DOMAIN headers : headers[i].name # Name.AcceptEncoding}
           Replaced(i) == \E j \in put : j > i /\ EnvName(headers[j].name) = EnvName(headers[i].name)
           keep == {i \in put : ~Replaced(i)}
           sent == At(headers, keep)
           to == [i \in DOMAIN sent |-> [name |-> EnvName(sent[i].name), value |-> sent[i].value]]
<1>1. HeaderParams(headers) = to
  BY DEF HeaderParams
<1> HIDE DEF keep
<1>2. sent \in Seq(ParamType)
  BY AtType
<1> HIDE DEF sent
<1>3. Len(sent) \in Nat /\ DOMAIN sent = 1 .. Len(sent) /\ \A i \in DOMAIN sent : sent[i] \in ParamType
  BY <1>2
<1>4. \A i \in DOMAIN sent : [name |-> EnvName(sent[i].name), value |-> sent[i].value] \in ParamType
  <2>1. SUFFICES ASSUME NEW i \in DOMAIN sent
                 PROVE  [name |-> EnvName(sent[i].name), value |-> sent[i].value] \in ParamType
    OBVIOUS
  <2>2. sent[i].name \in Texts /\ sent[i].value \in Texts
    BY <1>3 DEF ParamType
  <2>3. EnvName(sent[i].name) \in Texts
    BY <2>2, EnvNameIs
  <2> QED
    BY <2>2, <2>3 DEF ParamType
<1>5. to \in [1 .. Len(sent) -> ParamType]
  BY <1>3, <1>4
<1> HIDE DEF to
<1> QED
  BY <1>1, <1>3, <1>5

LEMMA ScriptNameIs ==
  ASSUME NEW file \in Texts
  PROVE  ScriptName(file) \in {None} \union Texts
<1> DEFINE S == 0 .. Byte - 1
           from == Len(Htdocs) + IF Last(Htdocs) = Slash THEN 0 ELSE 1
<1>1. file \in Seq(S) /\ Htdocs \in Seq(S) /\ Htdocs # <<>>
  BY TextsAssumption DEF Texts
<1>2. from \in Nat /\ from >= 1 /\ from <= Len(Htdocs) + 1
  BY <1>1
<1>3. CASE Len(file) < Len(Htdocs)
  BY <1>3 DEF ScriptName
<1>4. CASE ~(Len(file) < Len(Htdocs))
  <2>1. ScriptName(file) = SubSeq(file, from, Len(file))
    BY <1>4 DEF ScriptName
  <2>2. Len(file) \in Nat /\ from <= Len(file) + 1
    BY <1>1, <1>2, <1>4
  <2> HIDE DEF from, S
  <2>3. SubSeq(file, from, Len(file)) \in Seq(S)
    BY <1>1, <1>2, <2>2
  <2> QED
    BY <2>1, <2>3 DEF Texts, S
<1> QED
  BY <1>3, <1>4

(* A sequence that begins with e.                                          *)
Begins(s, S, e) == s \in Seq(S) /\ s # <<>> /\ s[1] = e

LEMMA BeginsOn ==
  ASSUME NEW S, NEW s, NEW e, Begins(s, S, e), NEW t \in Seq(S)
  PROVE  Begins(s \o t, S, e)
<1>1. s \in Seq(S) /\ Len(s) \in Nat /\ Len(s) >= 1 /\ s[1] = e
  BY DEF Begins
<1>2. s \o t \in Seq(S) /\ Len(s \o t) = Len(s) + Len(t) /\ Len(t) \in Nat
      /\ \A i \in 1 .. Len(s) : (s \o t)[i] = s[i]
  BY <1>1, Joins
<1>3. (s \o t)[1] = e /\ Len(s \o t) >= 1
  BY <1>1, <1>2
<1> DEFINE u == s \o t
<1> HIDE DEF u
<1>4. u # <<>>
  BY <1>3 DEF u
<1> QED
  BY <1>2, <1>3, <1>4 DEF Begins, u

LEMMA ParamsAre ==
  ASSUME NEW r \in RequestType
  PROVE  Begins(fcgi_params(r), ParamType,
                [name |-> Name.CONTENT_LENGTH, value |-> Digits(r.body)])
<1> DEFINE e == [name |-> Name.CONTENT_LENGTH, value |-> Digits(r.body)]
           a == Param("CONTENT_LENGTH", Digits(r.body))
           b == Optional("CONTENT_TYPE", r.content_type)
           c == r.given
           d == IF r.extra_path = None
                  THEN Param("PATH_INFO", <<>>) \o Param("PATH_TRANSLATED", <<>>)
                  ELSE Param("PATH_INFO", r.extra_path)
                       \o Param("PATH_TRANSLATED", Htdocs \o Tail(r.extra_path))
           f == Optional("SCRIPT_NAME", ScriptName(r.htpath))
           g == Optional("SERVER_NAME", r.host)
           h == Param("DOCUMENT_ROOT", Htdocs)
           k == Param("SCRIPT_FILENAME", r.htpath)
           l == HeaderParams(r.headers)
<1>1. /\ r.body \in Nat /\ r.content_type \in {None} \union Texts /\ r.given \in Seq(ParamType)
      /\ r.extra_path \in {None} \union (Texts \ {<<>>}) /\ r.htpath \in Texts
      /\ r.host \in {None} \union Texts /\ r.headers \in Seq(ParamType)
  BY DEF RequestType
<1>2. Begins(a, ParamType, e)
  <2>1. a = <<e>>
    BY DEF Param
  <2>2. a \in Seq(ParamType)
    BY <1>1, DigitsAre, ParamIs
  <2> HIDE DEF a, e
  <2> QED
    BY <2>1, <2>2 DEF Begins
<1>3. b \in Seq(ParamType) /\ g \in Seq(ParamType) /\ k \in Seq(ParamType)
  BY <1>1, ParamIs
<1>4. d \in Seq(ParamType)
  <2>1. ASSUME NEW x \in Texts, NEW y \in Texts
        PROVE  Param("PATH_INFO", x) \o Param("PATH_TRANSLATED", y) \in Seq(ParamType)
    <3> DEFINE p == Param("PATH_INFO", x)
               q == Param("PATH_TRANSLATED", y)
    <3>1. p \in Seq(ParamType) /\ q \in Seq(ParamType)
      BY ParamIs
    <3> HIDE DEF p, q
    <3>2. p \o q \in Seq(ParamType)
      BY <3>1
    <3> QED
      BY <3>2 DEF p, q
  <2>2. <<>> \in Texts
    BY DEF Texts
  <2>3. CASE r.extra_path = None
    BY <2>1, <2>2, <2>3
  <2>4. CASE r.extra_path # None
    <3> DEFINE x == r.extra_path
               S == 0 .. Byte - 1
    <3>1. x \in Seq(S) /\ x # <<>>
      BY <1>1, <2>4 DEF Texts
    <3> HIDE DEF x, S
    <3>2. Tail(x) \in Seq(S)
      BY <3>1
    <3>3. Tail(x) \in Texts /\ x \in Texts
      BY <3>1, <3>2 DEF Texts, S
    <3>4. Htdocs \o Tail(x) \in Texts
      BY <3>3, TextsAssumption, TextsJoin
    <3>5. Param("PATH_INFO", x) \o Param("PATH_TRANSLATED", Htdocs \o Tail(x)) \in Seq(ParamType)
      BY <2>1, <3>3, <3>4
    <3> QED
      BY <2>4, <3>5 DEF x
  <2> QED
    BY <2>3, <2>4
<1>5. f \in Seq(ParamType)
  BY <1>1, ScriptNameIs, ParamIs
<1>6. h \in Seq(ParamType)
  BY TextsAssumption, ParamIs
<1>7. l \in Seq(ParamType)
  BY <1>1, HeaderParamsAre
<1>8. fcgi_params(r) = a \o b \o c \o d \o f \o g \o h \o k \o l
  BY DEF fcgi_params
<1> HIDE DEF a, b, d, f, g, h, k, l, e
<1>9. Begins(a \o b \o c \o d, ParamType, e)
  <2>1. Begins(a \o b, ParamType, e)
    BY <1>2, <1>3, BeginsOn
  <2>2. Begins(a \o b \o c, ParamType, e)
    BY <1>1, <2>1, BeginsOn
  <2> QED
    BY <1>4, <2>2, BeginsOn
<1>10. Begins(a \o b \o c \o d \o f \o g, ParamType, e)
  <2>1. Begins(a \o b \o c \o d \o f, ParamType, e)
    BY <1>5, <1>9, BeginsOn
  <2> QED
    BY <1>3, <2>1, BeginsOn
<1>11. Begins(a \o b \o c \o d \o f \o g \o h \o k, ParamType, e)
  <2>1. Begins(a \o b \o c \o d \o f \o g \o h, ParamType, e)
    BY <1>6, <1>10, BeginsOn
  <2> QED
    BY <1>3, <2>1, BeginsOn
<1>12. Begins(a \o b \o c \o d \o f \o g \o h \o k \o l, ParamType, e)
  BY <1>7, <1>11, BeginsOn
<1> QED
  BY <1>8, <1>12 DEF e

-----------------------------------------------------------------------------
(* Where each of the sequences ends in all of them together.               *)
Laid(e, seqs, data) ==
  /\ e[0] = 0 /\ e[Len(seqs)] = Len(data)
  /\ \A i \in 1 .. Len(seqs) :
       /\ e[i] = e[i - 1] + Len(seqs[i]) /\ e[i] <= Len(data)
       /\ \A j \in 1 .. Len(seqs[i]) : data[e[i - 1] + j] = seqs[i][j]

LEMMA FlattenLays ==
  ASSUME NEW S, NEW seqs \in Seq(Seq(S)), seqs # <<>>
  PROVE  /\ FlattenSeq(seqs) \in Seq(S)
         /\ \E e \in [0 .. Len(seqs) -> Nat] : Laid(e, seqs, FlattenSeq(seqs))
<1> DEFINE n == Len(seqs)
<1>1. n \in Nat /\ n >= 1 /\ \A i \in 1 .. n : seqs[i] \in Seq(S) /\ Len(seqs[i]) \in Nat
  OBVIOUS
<1>2. PICK f \in [1 .. n -> Seq(S)] :
        /\ FlattenSeq(seqs) = f[n] /\ f[1] = seqs[1]
        /\ \A i \in 2 .. n : f[i] = f[i - 1] \o seqs[i]
  BY FlattenSteps
<1> DEFINE e == [i \in 0 .. n |-> IF i = 0 THEN 0 ELSE Len(f[i])]
           Lies(i, k) == /\ e[k] = e[k - 1] + Len(seqs[k]) /\ e[k] <= e[i]
                         /\ \A j \in 1 .. Len(seqs[k]) : f[i][e[k - 1] + j] = seqs[k][j]
           holds == {i \in 0 .. n : \A k \in 1 .. i : Lies(i, k)}
<1>3. \A i \in 1 .. n : f[i] \in Seq(S) /\ Len(f[i]) \in Nat
  <2>1. TAKE i \in 1 .. n
  <2>2. f[i] \in Seq(S)
    BY <1>2
  <2> QED
    BY <2>2
<1>4. e \in [0 .. n -> Nat] /\ e[0] = 0 /\ \A i \in 1 .. n : e[i] = Len(f[i])
  <2>1. \A i \in 0 .. n : i = 0 \/ i \in 1 .. n
    BY <1>1
  <2>2. 0 \in 0 .. n /\ \A i \in 1 .. n : i \in 0 .. n /\ i # 0
    BY <1>1
  <2> HIDE DEF n
  <2> QED
    BY <1>3, <2>1, <2>2
<1> HIDE DEF e, n
<1>5. 0 \in holds
  <2>1. 0 \in 0 .. n /\ 1 .. 0 = {}
    BY <1>1
  <2> QED
    BY <2>1
<1>6. ASSUME NEW i \in 1 .. n, i - 1 \in holds PROVE i \in holds
  <2>1. i \in 0 .. n /\ i - 1 \in 0 .. n
    BY <1>1
  <2>2. e[i - 1] \in Nat /\ e[i] = Len(f[i]) /\ e[i] = e[i - 1] + Len(seqs[i])
        /\ Len(seqs[i]) \in Nat
        /\ (\A p \in 1 .. e[i - 1] : f[i][p] = f[i - 1][p])
        /\ (\A j \in 1 .. Len(seqs[i]) : f[i][e[i - 1] + j] = seqs[i][j])
    <3>1. CASE i = 1
      <4>1. e[i - 1] = 0 /\ f[i] = seqs[i] /\ e[i] = Len(f[i]) /\ Len(seqs[i]) \in Nat
        BY <1>1, <1>2, <1>4, <3>1
      <4>2. 1 .. e[i - 1] = {}
        BY <4>1
      <4> QED
        BY <4>1, <4>2
    <3>2. CASE i # 1
      <4> DEFINE s == f[i - 1]
                 t == seqs[i]
                 u == f[i]
      <4>1. i \in 2 .. n /\ i - 1 \in 1 .. n
        BY <1>1, <3>2
      <4>2. s \in Seq(S) /\ t \in Seq(S) /\ u = s \o t
        BY <1>1, <1>2, <1>3, <4>1
      <4>3. e[i - 1] = Len(s) /\ e[i] = Len(u)
        BY <1>4, <4>1
      <4> HIDE DEF s, t, u
      <4>4. /\ Len(s) \in Nat /\ Len(t) \in Nat /\ Len(u) = Len(s) + Len(t)
            /\ \A p \in 1 .. Len(s) : u[p] = s[p]
            /\ \A j \in 1 .. Len(t) : u[Len(s) + j] = t[j]
        BY <4>2, Joins
      <4> QED
        BY <4>3, <4>4 DEF s, t, u
    <3> QED
      BY <3>1, <3>2
  <2>3. ASSUME NEW k \in 1 .. i PROVE Lies(i, k)
    <3>1. CASE k = i
      <4>1. e[i] <= e[i]
        BY <2>2
      <4> QED
        BY <2>2, <3>1, <4>1
    <3>2. CASE k # i
      <4>1. k \in 1 .. i - 1 /\ k \in 1 .. n /\ k - 1 \in 0 .. n /\ k \in 0 .. n
        BY <1>1, <3>2
      <4>2. Lies(i - 1, k)
        BY <1>6, <4>1
      <4>3. e[k] \in Nat /\ e[k - 1] \in Nat /\ Len(seqs[k]) \in Nat
        BY <1>1, <1>4, <4>1
      <4>4. e[k] <= e[i]
        BY <2>2, <4>2, <4>3
      <4>5. ASSUME NEW j \in 1 .. Len(seqs[k]) PROVE f[i][e[k - 1] + j] = seqs[k][j]
        <5>1. e[k - 1] + j \in 1 .. e[i - 1]
          <6>1. e[k] = e[k - 1] + Len(seqs[k]) /\ e[k] <= e[i - 1]
            BY <4>2
          <6> DEFINE x == e[k - 1]
                     y == e[k]
                     z == e[i - 1]
                     l == Len(seqs[k])
          <6>2. x \in Nat /\ y \in Nat /\ z \in Nat /\ l \in Nat /\ y = x + l /\ y <= z
            BY <2>2, <4>3, <6>1
          <6> HIDE DEF Lies, x, y, z, l
          <6>3. j \in 1 .. l => x + j \in 1 .. z
            BY <6>2
          <6> QED
            BY <6>3 DEF x, z, l
        <5> QED
          BY <2>2, <4>2, <5>1
      <4> QED
        BY <4>2, <4>4, <4>5
    <3> QED
      BY <3>1, <3>2
  <2> HIDE DEF Lies
  <2> QED
    BY <2>1, <2>3
<1>7. \A k \in 1 .. n : Lies(n, k)
  <2>1. 0 .. n \subseteq holds
    <3> HIDE DEF holds
    <3> QED
      BY <1>1, <1>5, <1>6, Inductive
  <2>2. n \in 0 .. n
    BY <1>1
  <2> HIDE DEF Lies
  <2> QED
    BY <2>1, <2>2
<1>8. FlattenSeq(seqs) = f[n] /\ f[n] \in Seq(S) /\ e[n] = Len(f[n])
  BY <1>1, <1>2, <1>3, <1>4
<1>9. Laid(e, seqs, f[n])
  BY <1>4, <1>7, <1>8 DEF Laid, n
<1> QED
  BY <1>4, <1>8, <1>9 DEF n

-----------------------------------------------------------------------------
(* A length read back.                                                     *)
LEMMA OctetIs ==
  ASSUME NEW data \in Seq(Nat), NEW i \in Nat
  PROVE  Octet(data, i) \in Nat /\ (i \in 1 .. Len(data) => Octet(data, i) = data[i])
<1>1. DOMAIN data = 1 .. Len(data)
  OBVIOUS
<1>2. i \in 1 .. Len(data) => data[i] \in Nat
  OBVIOUS
<1> QED
  BY <1>1, <1>2 DEF Octet

LEMMA LengthsAre ==
  ASSUME NEW data \in Seq(Nat), NEW i \in Nat
  PROVE  ReadLength(data, i) \in Nat /\ Width(data, i) \in {1, 4}
<1> DEFINE a == Octet(data, i)
           b == Octet(data, i + 1)
           c == Octet(data, i + 2)
           d == Octet(data, i + 3)
           half == Byte \div 2
           square == Byte * Byte
           cube == Byte * Byte * Byte
<1>1. a \in Nat /\ b \in Nat /\ c \in Nat /\ d \in Nat
  BY OctetIs
<1>2. half \in Nat /\ square \in Nat /\ cube \in Nat /\ Byte \in Nat
  BY Octets
<1>3. ReadLength(data, i) = IF a < half THEN a
                            ELSE (a - half) * cube + b * square + Number(<<c, d>>)
  BY DEF ReadLength
<1>4. Number(<<c, d>>) = c * Byte + d
  BY DEF Number
<1> HIDE DEF a, b, c, d, half, square, cube
<1>5. c * Byte \in Nat /\ b * square \in Nat
  BY <1>1, <1>2
<1>6. ~(a < half) => (a - half) * cube \in Nat
  <2>1. SUFFICES ASSUME ~(a < half) PROVE (a - half) * cube \in Nat
    OBVIOUS
  <2> DEFINE x == a - half
  <2>2. x \in Nat
    BY <1>1, <1>2, <2>1
  <2> HIDE DEF x
  <2>3. x * cube \in Nat
    BY <1>2, <2>2
  <2> QED
    BY <2>3 DEF x
<1>7. ReadLength(data, i) \in Nat
  <2> DEFINE x == (a - half) * cube
             y == b * square
             z == c * Byte
  <2>1. ReadLength(data, i) = IF a < half THEN a ELSE x + y + (z + d)
    BY <1>3, <1>4
  <2>2. y \in Nat /\ z \in Nat /\ (~(a < half) => x \in Nat)
    BY <1>5, <1>6
  <2> HIDE DEF x, y, z
  <2> QED
    BY <1>1, <2>1, <2>2
<1>8. Width(data, i) \in {1, 4}
  BY DEF Width
<1> QED
  BY <1>7, <1>8

LEMMA LengthRead ==
  ASSUME NEW data \in Seq(Nat), NEW a \in Nat, NEW n \in Nat, n <= FrameMax,
         a + WidthOf(n) <= Len(data),
         \A i \in 1 .. WidthOf(n) : data[a + i] = LengthOctets(n)[i]
  PROVE  ReadLength(data, a + 1) = n /\ Width(data, a + 1) = WidthOf(n)
<1> DEFINE l == LengthOctets(n)
           half == Byte \div 2
           square == Byte * Byte
           cube == Byte * Byte * Byte
<1>1. Len(data) \in Nat /\ half \in Nat /\ square \in Nat /\ cube \in Nat
  BY Octets
<1>2. CASE n < half
  <2>1. WidthOf(n) = 1 /\ l[1] = n
    BY <1>2, LengthIs DEF WidthOf
  <2>2. a + 1 \in 1 .. Len(data) /\ data[a + 1] = n /\ a + 1 \in Nat
    BY <1>1, <2>1
  <2> HIDE DEF l, half, cube, square
  <2>3. Octet(data, a + 1) = n
    BY <2>2, OctetIs
  <2> QED
    BY <1>2, <2>1, <2>3 DEF ReadLength, Width, half
<1>3. CASE ~(n < half)
  <2>1. WidthOf(n) = 4 /\ l[1] = half /\ l[2] = 0 /\ Number(<<l[3], l[4]>>) = n
    <3>1. n >= half
      BY <1>1, <1>3
    <3> QED
      BY <1>3, <3>1, LengthIs DEF WidthOf
  <2> HIDE DEF l, half
  <2>2. \A i \in 1 .. 4 : data[a + i] = l[i]
    BY <2>1 DEF l
  <2>3. \A i \in 1 .. 4 : Octet(data, a + i) = l[i]
    <3>1. SUFFICES ASSUME NEW i \in 1 .. 4 PROVE Octet(data, a + i) = l[i]
      OBVIOUS
    <3> HIDE DEF cube, square
    <3>2. a + i \in 1 .. Len(data) /\ a + i \in Nat
      <4>1. a + 4 <= Len(data)
        BY <2>1
      <4> QED
        BY <1>1, <4>1
    <3> QED
      BY <2>2, <3>2, OctetIs
  <2>4. /\ Octet(data, a + 1) = half /\ Octet(data, (a + 1) + 1) = 0
        /\ Octet(data, (a + 1) + 2) = l[3] /\ Octet(data, (a + 1) + 3) = l[4]
    <3>1. (a + 1) + 1 = a + 2 /\ (a + 1) + 2 = a + 3 /\ (a + 1) + 3 = a + 4
      OBVIOUS
    <3>2. 1 \in 1 .. 4 /\ 2 \in 1 .. 4 /\ 3 \in 1 .. 4 /\ 4 \in 1 .. 4
      OBVIOUS
    <3> QED
      BY <2>1, <2>3, <3>1, <3>2
  <2>5. ReadLength(data, a + 1) = (half - half) * cube + 0 * square + n
    <3>1. ~(half < half)
      BY <1>1
    <3>2. ReadLength(data, a + 1) =
            (Octet(data, a + 1) - half) * cube + Octet(data, (a + 1) + 1) * square
              + Number(<<Octet(data, (a + 1) + 2), Octet(data, (a + 1) + 3)>>)
      BY <2>4, <3>1 DEF ReadLength, half
    <3> HIDE DEF cube, square
    <3> QED
      BY <2>1, <2>4, <3>2
  <2>6. (half - half) * cube = 0 /\ 0 * square = 0
    <3> HIDE DEF cube, square
    <3>1. half - half = 0
      BY <1>1
    <3>2. 0 * cube = 0 /\ 0 * square = 0
      BY <1>1
    <3> QED
      BY <3>1, <3>2
  <2>7. Width(data, a + 1) = 4
    <3>1. ~(half < half)
      BY <1>1
    <3> QED
      BY <2>4, <3>1 DEF Width, half
  <2> HIDE DEF cube, square
  <2>8. ReadLength(data, a + 1) = n
    BY <2>5, <2>6
  <2> QED
    BY <2>1, <2>7, <2>8
<1> QED
  BY <1>2, <1>3

-----------------------------------------------------------------------------
LEMMA PartsAre ==
  ASSUME NEW data \in Seq(Nat), NEW i \in Nat
  PROVE  /\ Parts(data, i).name \in Nat /\ Parts(data, i).value \in Nat
         /\ Parts(data, i).behind \in Nat /\ Parts(data, i).behind > i
<1> DEFINE wide == Width(data, i)
           j == i + wide
           wider == Width(data, j)
           name == j + wider
           long == ReadLength(data, i)
           value == name + long
           longer == ReadLength(data, j)
           behind == value + longer
<1>1. Parts(data, i) = [name |-> name, value |-> value, behind |-> behind]
  BY DEF Parts
<1>2. wide \in {1, 4} /\ long \in Nat
  BY LengthsAre
<1> HIDE DEF wide, long
<1>3. j \in Nat /\ j > i
  BY <1>2
<1> HIDE DEF j
<1>4. wider \in {1, 4} /\ longer \in Nat
  BY <1>3, LengthsAre
<1> HIDE DEF wider, longer
<1>5. name \in Nat /\ value \in Nat /\ behind \in Nat /\ behind > i
  BY <1>2, <1>3, <1>4
<1> HIDE DEF name, value, behind
<1> QED
  BY <1>1, <1>5

(* A part of a sequence that is another one.                               *)
LEMMA PartIs ==
  ASSUME NEW data \in Seq(Nat), NEW s \in Seq(Nat), NEW a \in Nat, a + Len(s) <= Len(data),
         \A i \in 1 .. Len(s) : data[a + i] = s[i]
  PROVE  SubSeq(data, a + 1, a + Len(s)) = s
<1> DEFINE n == Len(s)
           t == SubSeq(data, a + 1, a + n)
<1>1. n \in Nat /\ Len(data) \in Nat
  OBVIOUS
<1>2. t \in Seq(Nat) /\ Len(t) = n /\ \A i \in 1 .. n : t[i] = data[a + i]
  <2> HIDE DEF n
  <2>1. a + 1 >= 1 /\ a + n <= Len(data) /\ a + 1 <= a + n + 1
    BY <1>1 DEF n
  <2>2. t \in Seq(Nat) /\ Len(t) = n
    BY <1>1, <2>1
  <2>3. \A i \in 1 .. n : t[i] = data[a + i]
    <3>1. SUFFICES ASSUME NEW i \in 1 .. n PROVE t[i] = data[a + i]
      OBVIOUS
    <3>2. t[i] = data[a + 1 + i - 1] /\ a + 1 + i - 1 = a + i
      BY <1>1, <2>1
    <3> QED
      BY <3>2
  <2> QED
    BY <2>2, <2>3
<1> HIDE DEF t
<1>3. t = s
  BY <1>2, SeqEqual
<1> QED
  BY <1>3 DEF t

LEMMA Sums ==
  ASSUME NEW a \in Nat, NEW w \in Nat, NEW x \in Nat, NEW n \in Nat, NEW v \in Nat
  PROVE  /\ a + w \in Nat /\ a + w + x \in Nat /\ a + w + x + n \in Nat
         /\ (a + w + x + n) + 1 - 1 = (a + w + x) + n
         /\ (a + w + x + n + v) + 1 - 1 = (a + w + x + n) + v
         /\ \A l \in Nat : a + (w + x + n + v) <= l =>
              /\ a + w <= l /\ (a + w) + x <= l
              /\ (a + w + x) + n <= l /\ (a + w + x + n) + v <= l
OBVIOUS

(* A record is read back as the parameter it was written for.              *)
LEMMA RecordRead ==
  ASSUME NEW data \in Seq(Nat), NEW a \in Nat, NEW param \in ParamType,
         Len(Record(param)) <= FrameMax, a + Len(Record(param)) <= Len(data),
         \A j \in 1 .. Len(Record(param)) : data[a + j] = Record(param)[j]
  PROVE  LET p == Parts(data, a + 1)
         IN /\ p.behind = a + Len(Record(param)) + 1
            /\ SubSeq(data, p.name, p.value - 1) = param.name
            /\ SubSeq(data, p.value, p.behind - 1) = param.value
            /\ Len(Record(param)) >= 2
<1> DEFINE r == Record(param)
           n == Len(param.name)
           v == Len(param.value)
           w == WidthOf(n)
           x == WidthOf(v)
           p == Parts(data, a + 1)
<1>1. /\ n \in Nat /\ v \in Nat /\ w \in {1, 4} /\ x \in {1, 4}
      /\ r \in Seq(Nat) /\ Len(r) = w + x + n + v
      /\ \A i \in 1 .. w : r[i] = LengthOctets(n)[i]
      /\ \A i \in 1 .. x : r[w + i] = LengthOctets(v)[i]
      /\ \A i \in 1 .. n : r[w + x + i] = param.name[i]
      /\ \A i \in 1 .. v : r[w + x + n + i] = param.value[i]
  BY RecordIs
<1>2. /\ Len(r) <= FrameMax /\ a + Len(r) <= Len(data)
      /\ \A j \in 1 .. Len(r) : data[a + j] = r[j]
  OBVIOUS
<1>3. param.name \in Seq(Nat) /\ param.value \in Seq(Nat)
  <2> DEFINE S == 0 .. Byte - 1
  <2>1. param.name \in Seq(S) /\ param.value \in Seq(S)
    BY DEF ParamType, Texts
  <2>2. S \subseteq Nat
    BY Octets
  <2> HIDE DEF S
  <2> QED
    BY <2>1, <2>2, SeqMonotonic
<1>4. n <= FrameMax /\ v <= FrameMax /\ FrameMax \in Nat /\ Len(data) \in Nat
  <2>1. FrameMax \in Nat /\ Len(data) \in Nat
    BY Octets
  <2> HIDE DEF n, v, w, x, r
  <2> QED
    BY <1>1, <1>2, <2>1
<1>5. p = [name |-> p.name, value |-> p.value, behind |-> p.behind]
      /\ LET j == (a + 1) + Width(data, a + 1)
         IN /\ p.name = j + Width(data, j) /\ p.value = p.name + ReadLength(data, a + 1)
            /\ p.behind = p.value + ReadLength(data, j)
  BY DEF Parts
<1> HIDE DEF r, n, v, w, x, p
<1>0. /\ n \in Nat /\ v \in Nat /\ w \in Nat /\ x \in Nat /\ Len(data) \in Nat
      /\ a + (w + x + n + v) <= Len(data)
  <2>1. n \in Nat /\ v \in Nat /\ w \in {1, 4} /\ x \in {1, 4}
    BY <1>1
  <2>2. Len(r) = w + x + n + v
    BY <1>1
  <2>3. a + Len(r) <= Len(data) /\ Len(data) \in Nat
    BY <1>2, <1>4
  <2>4. w \in Nat /\ x \in Nat
    BY <2>1
  <2> QED
    BY <2>1, <2>2, <2>3, <2>4
<1>6. ReadLength(data, a + 1) = n /\ Width(data, a + 1) = w
  <2>1. a + WidthOf(n) <= Len(data)
    <3>1. a + w <= Len(data)
      BY <1>0, Sums
    <3> QED
      BY <3>1 DEF w
  <2>2. \A i \in 1 .. WidthOf(n) : data[a + i] = LengthOctets(n)[i]
    <3>1. SUFFICES ASSUME NEW i \in 1 .. w PROVE data[a + i] = LengthOctets(n)[i]
      BY DEF w
    <3>2. i \in 1 .. Len(r)
      BY <1>1
    <3> QED
      BY <1>1, <1>2, <3>2
  <2> QED
    BY <1>1, <1>4, <2>1, <2>2, LengthRead DEF w
<1>7. ReadLength(data, (a + w) + 1) = v /\ Width(data, (a + w) + 1) = x
  <2>1. (a + w) + WidthOf(v) <= Len(data) /\ a + w \in Nat
    <3>1. (a + w) + x <= Len(data) /\ a + w \in Nat
      BY <1>0, Sums
    <3> QED
      BY <3>1 DEF x
  <2>2. \A i \in 1 .. WidthOf(v) : data[(a + w) + i] = LengthOctets(v)[i]
    <3>1. SUFFICES ASSUME NEW i \in 1 .. x PROVE data[(a + w) + i] = LengthOctets(v)[i]
      BY DEF x
    <3>2. w + i \in 1 .. Len(r) /\ (a + w) + i = a + (w + i)
      BY <1>1
    <3>3. data[a + (w + i)] = r[w + i] /\ r[w + i] = LengthOctets(v)[i]
      BY <1>1, <1>2, <3>2
    <3> QED
      BY <3>2, <3>3
  <2> QED
    BY <1>1, <1>4, <2>1, <2>2, LengthRead DEF x
<1>8. /\ p.name = (a + w + x) + 1 /\ p.value = (a + w + x + n) + 1
      /\ p.behind = (a + w + x + n + v) + 1
  <2>1. (a + 1) + Width(data, a + 1) = (a + w) + 1
    BY <1>0, <1>6
  <2>2. p.name = ((a + w) + 1) + x
    BY <1>5, <1>7, <2>1
  <2>3. p.value = p.name + n /\ p.behind = p.value + v
    BY <1>5, <1>6, <1>7, <2>1
  <2> QED
    BY <1>0, <2>2, <2>3
<1>9. p.value - 1 = (a + w + x) + n /\ p.behind - 1 = (a + w + x + n) + v
      /\ a + w + x \in Nat /\ a + w + x + n \in Nat
      /\ (a + w + x) + n <= Len(data) /\ (a + w + x + n) + v <= Len(data)
  <2>1. a + w + x \in Nat /\ a + w + x + n \in Nat
    BY <1>0, Sums
  <2>2. p.value - 1 = (a + w + x) + n /\ p.behind - 1 = (a + w + x + n) + v
    BY <1>0, <1>8, Sums
  <2>3. (a + w + x) + n <= Len(data) /\ (a + w + x + n) + v <= Len(data)
    BY <1>0, Sums
  <2> QED
    BY <2>1, <2>2, <2>3
<1>10. SubSeq(data, p.name, p.value - 1) = param.name
  <2> DEFINE b == a + w + x
  <2>1. \A i \in 1 .. n : data[b + i] = param.name[i]
    <3>1. SUFFICES ASSUME NEW i \in 1 .. n PROVE data[b + i] = param.name[i]
      OBVIOUS
    <3>2. w + x + i \in 1 .. Len(r) /\ b + i = a + (w + x + i)
      BY <1>1
    <3>3. data[a + (w + x + i)] = r[w + x + i] /\ r[w + x + i] = param.name[i]
      BY <1>1, <1>2, <3>2
    <3> QED
      BY <3>2, <3>3
  <2>2. b \in Nat /\ b + n <= Len(data) /\ p.name = b + 1 /\ p.value - 1 = b + n
    BY <1>8, <1>9
  <2> HIDE DEF b
  <2>3. SubSeq(data, b + 1, b + Len(param.name)) = param.name
    BY <1>3, <2>1, <2>2, PartIs DEF n
  <2> QED
    BY <2>2, <2>3 DEF n
<1>11. SubSeq(data, p.value, p.behind - 1) = param.value
  <2> DEFINE b == a + w + x + n
  <2>1. \A i \in 1 .. v : data[b + i] = param.value[i]
    <3>1. SUFFICES ASSUME NEW i \in 1 .. v PROVE data[b + i] = param.value[i]
      OBVIOUS
    <3>2. w + x + n + i \in 1 .. Len(r) /\ b + i = a + (w + x + n + i)
      BY <1>1
    <3>3. data[a + (w + x + n + i)] = r[w + x + n + i] /\ r[w + x + n + i] = param.value[i]
      BY <1>1, <1>2, <3>2
    <3> QED
      BY <3>2, <3>3
  <2>2. b \in Nat /\ b + v <= Len(data) /\ p.value = b + 1 /\ p.behind - 1 = b + v
    BY <1>8, <1>9
  <2> HIDE DEF b
  <2>3. SubSeq(data, b + 1, b + Len(param.value)) = param.value
    BY <1>3, <2>1, <2>2, PartIs DEF v
  <2> QED
    BY <2>2, <2>3 DEF v
<1>12. p.behind = a + Len(r) + 1 /\ Len(r) >= 2
  BY <1>1, <1>8
<1> QED
  BY <1>10, <1>11, <1>12 DEF p, r

-----------------------------------------------------------------------------
(* The parameter in the record at i, and what is read from each octet on.  *)
ParamAt(data, i) ==
  [name |-> SubSeq(data, Parts(data, i).name, Parts(data, i).value - 1),
   value |-> SubSeq(data, Parts(data, i).value, Parts(data, i).behind - 1)]

Reading(f, data) ==
  \A i \in 1 .. Len(data) + 1 :
    f[i] = IF i > Len(data) THEN {}
           ELSE IF Parts(data, i).behind > Len(data) + 1 THEN {None}
           ELSE {ParamAt(data, i)} \union f[Parts(data, i).behind]

LEMMA ReadSteps ==
  ASSUME NEW data \in Seq(Nat)
  PROVE  \E f : ReadParams(data) = f[1] /\ Reading(f, data)
<1> DEFINE l == Len(data)
           S == 1 .. l + 1
           Behind(i) == Parts(data, i).behind
           Good(f) == f = [i \in 1 .. Len(data) + 1 |->
                             LET p == Parts(data, i) IN
                             IF i > Len(data) THEN {}
                             ELSE IF p.behind > Len(data) + 1 THEN {None}
                             ELSE {[name |-> SubSeq(data, p.name, p.value - 1),
                                    value |-> SubSeq(data, p.value, p.behind - 1)]}
                                  \union f[p.behind]]
           V == SUBSET ({None} \union {ParamAt(data, i) : i \in S})
           stop == {i \in S : i > l \/ Behind(i) > l + 1}
           m == [i \in S |-> l + 1 - i]
           next == [i \in S |-> IF i \in stop THEN i ELSE Behind(i)]
           base == [i \in S |-> IF i > l THEN {} ELSE {None}]
           Value == [t \in S \X V |-> {ParamAt(data, t[1])} \union t[2]]
<1>1. l \in Nat /\ l + 1 \in Nat
  OBVIOUS
<1>2. \A i \in S : Behind(i) \in Nat /\ Behind(i) > i
  <2>1. \A i \in S : i \in Nat
    OBVIOUS
  <2> HIDE DEF S
  <2> QED
    BY <2>1, PartsAre
<1> HIDE DEF l, Behind
<1>3. Descent(S, l + 1, m, next, stop)
  <2>1. \A i \in S : l + 1 - i \in 0 .. l + 1
    BY <1>1
  <2>2. \A i \in S : i \notin stop => Behind(i) \in S /\ l + 1 - Behind(i) < l + 1 - i
    BY <1>1, <1>2
  <2> HIDE DEF S, stop
  <2>3. m \in [S -> 0 .. l + 1] /\ next \in [S -> S]
    BY <2>1, <2>2
  <2>4. \A i \in S \ stop : m[next[i]] < m[i]
    BY <2>2
  <2> QED
    BY <1>1, <2>3, <2>4 DEF Descent
<1>4. base \in [S -> V]
  OBVIOUS
<1>5. Value \in [S \X V -> V]
  <2>1. ASSUME NEW t \in S \X V PROVE {ParamAt(data, t[1])} \union t[2] \in V
    <3>1. t[1] \in S /\ t[2] \in V
      OBVIOUS
    <3> HIDE DEF S
    <3> QED
      BY <3>1
  <2> HIDE DEF S, V
  <2> QED
    BY <2>1
<1>6. PICK f \in [S -> V] : Descending(f, S, next, stop, base, Value)
  <2> HIDE DEF S, V, next, m, stop, base, Value
  <2> QED
    BY <1>3, <1>4, <1>5, Descends
<1> DEFINE Read(h, i) == IF i > l THEN {}
                         ELSE IF Behind(i) > l + 1 THEN {None}
                         ELSE {ParamAt(data, i)} \union h[Behind(i)]
<1>7. \A i \in S : f[i] = Read(f, i)
  <2>1. SUFFICES ASSUME NEW i \in S PROVE f[i] = Read(f, i)
    OBVIOUS
  <2>2. f[i] = IF i \in stop THEN base[i] ELSE Value[<<i, f[next[i]]>>]
    BY <1>6 DEF Descending
  <2>3. CASE i \in stop
    <3>1. base[i] = IF i > l THEN {} ELSE {None}
      OBVIOUS
    <3>2. i > l \/ Behind(i) > l + 1
      BY <2>3
    <3> HIDE DEF stop, base, Value, next, S
    <3> QED
      BY <2>2, <2>3, <3>1, <3>2
  <2>4. CASE i \notin stop
    <3>1. next[i] = Behind(i) /\ ~(i > l) /\ ~(Behind(i) > l + 1) /\ Behind(i) \in S
      BY <1>1, <1>2, <2>4
    <3> HIDE DEF stop, S, V, next, base
    <3>2. f[Behind(i)] \in V
      BY <3>1
    <3>3. Value[<<i, f[Behind(i)]>>] = {ParamAt(data, i)} \union f[Behind(i)]
      BY <3>2
    <3> HIDE DEF Value
    <3> QED
      BY <2>2, <2>4, <3>1, <3>3
  <2> QED
    BY <2>3, <2>4
<1>8. \A h : Good(h) <=> h = [i \in S |-> Read(h, i)]
  BY DEF ParamAt, l, Behind
<1>9. \E h : Good(h)
  <2>1. f = [i \in S |-> f[i]]
    BY <1>6
  <2> HIDE DEF Read, Good, S
  <2>2. f = [i \in S |-> Read(f, i)]
    BY <1>7, <2>1
  <2> QED
    BY <1>8, <2>2
<1> DEFINE g == CHOOSE h : Good(h)
<1>10. ReadParams(data) = g[1]
  BY DEF ReadParams
<1>11. Good(g)
  <2> HIDE DEF Good
  <2> QED
    BY <1>9
<1> HIDE DEF g, Good
<1>12. \A i \in S : g[i] = Read(g, i)
  <2>1. g = [i \in S |-> Read(g, i)]
    BY <1>8, <1>11
  <2> HIDE DEF Read, S
  <2> QED
    BY <2>1
<1>13. Reading(g, data)
  BY <1>12 DEF Reading, l, Behind
<1> QED
  BY <1>10, <1>13

(* The parameters of a request are read back from their records.           *)
LEMMA ParamsRead ==
  ASSUME NEW params \in Seq(ParamType), params # <<>>,
         \A i \in 1 .. Len(params) : Len(Record(params[i])) <= FrameMax
  PROVE  ReadParams(FlattenSeq([i \in 1 .. Len(params) |-> Record(params[i])]))
           = {params[i] : i \in 1 .. Len(params)}
<1> DEFINE n == Len(params)
           seqs == [i \in 1 .. n |-> Record(params[i])]
           data == FlattenSeq(seqs)
           l == Len(data)
           Rest(i) == {params[k] : k \in i + 1 .. n}
<1>1. n \in Nat /\ n >= 1 /\ \A i \in 1 .. n : params[i] \in ParamType
  OBVIOUS
<1>2. \A i \in 1 .. n : Record(params[i]) \in Seq(Nat)
  BY <1>1, RecordIs
<1>3. /\ seqs \in Seq(Seq(Nat)) /\ Len(seqs) = n /\ seqs # <<>>
      /\ \A i \in 1 .. n : seqs[i] = Record(params[i]) /\ Len(seqs[i]) \in Nat
  <2>1. seqs \in [1 .. n -> Seq(Nat)]
    BY <1>2
  <2>2. \A i \in 1 .. n : seqs[i] = Record(params[i])
    OBVIOUS
  <2> HIDE DEF n, seqs
  <2>3. seqs \in Seq(Seq(Nat)) /\ Len(seqs) = n
    BY <1>1, <2>1
  <2>4. seqs # <<>>
    BY <1>1, <2>3
  <2>5. \A i \in 1 .. n : Len(seqs[i]) \in Nat
    BY <2>1
  <2> QED
    BY <2>2, <2>3, <2>4, <2>5
<1> HIDE DEF seqs
<1>4. data \in Seq(Nat) /\ \E e \in [0 .. n -> Nat] : Laid(e, seqs, data)
  <2>1. data \in Seq(Nat) /\ \E e \in [0 .. Len(seqs) -> Nat] : Laid(e, seqs, data)
    BY <1>3, FlattenLays
  <2> HIDE DEF n, data
  <2> QED
    BY <1>3, <2>1
<1>5. PICK e \in [0 .. n -> Nat] : Laid(e, seqs, data)
  BY <1>4
<1> HIDE DEF data
<1>6. l \in Nat
  BY <1>4
<1>7. /\ e[0] = 0 /\ e[n] = l
      /\ \A i \in 1 .. n :
           /\ e[i] = e[i - 1] + Len(seqs[i]) /\ e[i] <= l
           /\ \A j \in 1 .. Len(seqs[i]) : data[e[i - 1] + j] = seqs[i][j]
  BY <1>3, <1>5 DEF Laid
<1>8. PICK f : ReadParams(data) = f[1] /\ Reading(f, data)
  BY <1>4, ReadSteps
<1> HIDE DEF n, l
<1>9. ASSUME NEW i \in 1 .. n
      PROVE  f[e[i - 1] + 1] = {params[i]} \union f[e[i] + 1]
  <2> DEFINE a == e[i - 1]
             r == Record(params[i])
             p == Parts(data, a + 1)
  <2>1. a \in Nat /\ e[i] \in Nat /\ params[i] \in ParamType
    BY <1>1
  <2>2. e[i] = a + Len(r) /\ e[i] <= l /\ (\A j \in 1 .. Len(r) : data[a + j] = r[j]) /\ Len(r) \in Nat
    BY <1>3, <1>7
  <2>3. Len(r) <= FrameMax
    BY DEF n
  <2> HIDE DEF a
  <2>4. /\ p.behind = a + Len(r) + 1
        /\ SubSeq(data, p.name, p.value - 1) = params[i].name
        /\ SubSeq(data, p.value, p.behind - 1) = params[i].value
        /\ Len(r) >= 2
    <3>1. a + Len(r) <= Len(data)
      BY <2>2 DEF l
    <3> QED
      BY <1>4, <2>1, <2>2, <2>3, <3>1, RecordRead
  <2>5. ParamAt(data, a + 1) = params[i]
    <3>1. ParamAt(data, a + 1) = [name |-> params[i].name, value |-> params[i].value]
      BY <2>4 DEF ParamAt
    <3>2. params[i] = [name |-> params[i].name, value |-> params[i].value]
      BY <2>1 DEF ParamType
    <3> QED
      BY <3>1, <3>2
  <2> HIDE DEF p, r
  <2>6. a + 1 \in 1 .. l + 1 /\ ~(a + 1 > l) /\ p.behind = e[i] + 1 /\ ~(p.behind > l + 1)
    BY <1>6, <2>1, <2>2, <2>4
  <2>7. f[a + 1] = {ParamAt(data, a + 1)} \union f[p.behind]
    BY <1>8, <2>6 DEF Reading, p, l
  <2>8. f[a + 1] = {params[i]} \union f[e[i] + 1]
    BY <2>5, <2>6, <2>7
  <2> QED
    BY <2>8 DEF a
<1>10. f[e[n] + 1] = {}
  <2>1. l + 1 \in 1 .. l + 1 /\ l + 1 > l
    BY <1>6
  <2>2. f[l + 1] = {}
    BY <1>8, <2>1 DEF Reading, l
  <2> QED
    BY <1>7, <2>2
<1> DEFINE holds == {d \in 0 .. n : f[e[n - d] + 1] = Rest(n - d)}
<1>11. 0 \in holds
  <2>1. Rest(n) = {}
    BY <1>1
  <2>2. 0 \in 0 .. n /\ n - 0 = n
    BY <1>1
  <2> HIDE DEF Rest
  <2> QED
    BY <1>10, <2>1, <2>2
<1>12. ASSUME NEW d \in 1 .. n, d - 1 \in holds PROVE d \in holds
  <2> DEFINE i == n - d + 1
  <2>1. i \in 1 .. n /\ n - (d - 1) = i /\ n - d = i - 1 /\ d \in 0 .. n
    BY <1>1
  <2> HIDE DEF i
  <2>2. f[e[i] + 1] = Rest(i)
    <3> HIDE DEF Rest
    <3> QED
      BY <1>12, <2>1
  <2>3. Rest(i - 1) = {params[i]} \union Rest(i)
    <3>1. \A k \in (i - 1) + 1 .. n : k = i \/ k \in i + 1 .. n
      BY <1>1, <2>1
    <3>2. i \in (i - 1) + 1 .. n /\ \A k \in i + 1 .. n : k \in (i - 1) + 1 .. n
      BY <1>1, <2>1
    <3> QED
      BY <3>1, <3>2
  <2> HIDE DEF Rest
  <2>4. f[e[i - 1] + 1] = Rest(i - 1)
    BY <1>9, <2>1, <2>2, <2>3
  <2> QED
    BY <2>1, <2>4
<1>13. f[e[0] + 1] = Rest(0)
  <2>1. 0 .. n \subseteq holds
    <3> HIDE DEF holds
    <3> QED
      BY <1>1, <1>11, <1>12, Inductive
  <2>2. n \in 0 .. n /\ n - n = 0
    BY <1>1
  <2>3. n \in holds
    <3> HIDE DEF holds
    <3> QED
      BY <2>1, <2>2
  <2> HIDE DEF Rest
  <2> QED
    BY <2>2, <2>3
<1>14. Rest(0) = {params[i] : i \in 1 .. n}
  <2>1. 0 + 1 .. n = 1 .. n
    BY <1>1
  <2> QED
    BY <2>1
<1>15. ReadParams(data) = Rest(0)
  <2>1. e[0] + 1 = 1
    BY <1>7
  <2> HIDE DEF Rest
  <2> QED
    BY <1>8, <1>13, <2>1
<1> HIDE DEF Rest
<1> QED
  BY <1>14, <1>15 DEF data, seqs, n

-----------------------------------------------------------------------------
(* How many frames of f octets hold the body.                              *)
LEMMA Enough ==
  ASSUME NEW f \in Nat, f >= 1, NEW size \in Nat, NEW k, k = (size + f - 1) \div f
  PROVE  /\ k \in Nat /\ k * f >= size
         /\ size = 0 => k = 0
         /\ size > 0 => k >= 1 /\ (k - 1) * f < size
<1> DEFINE n == size + f - 1
           p == k * f
           q == n % f
<1>1. n \in Nat
  OBVIOUS
<1>2. /\ k \in Nat /\ q \in 0 .. f - 1 /\ n = p + q /\ (n < f => k = 0)
  <2> HIDE DEF n
  <2>1. k = n \div f
    BY DEF n
  <2> QED
    BY <1>1, <2>1, Divides
<1>3. p \in Nat
  BY <1>2
<1> HIDE DEF q
<1>4. p >= size
  <2> HIDE DEF p
  <2> QED
    BY <1>2, <1>3
<1>5. size = 0 => k = 0
  BY <1>2
<1>6. size > 0 => k >= 1
  <2>1. SUFFICES ASSUME size > 0, k = 0 PROVE FALSE
    BY <1>2
  <2>2. p = 0
    BY <2>1
  <2> HIDE DEF p
  <2> QED
    BY <1>2, <2>1, <2>2
<1>7. size > 0 => (k - 1) * f < size
  <2>1. SUFFICES ASSUME size > 0 PROVE (k - 1) * f < size
    OBVIOUS
  <2>2. (k - 1) * f = p - f
    BY <1>2
  <2>3. p <= n
    <3> HIDE DEF p, n
    <3> QED
      BY <1>1, <1>2, <1>3
  <2> HIDE DEF p
  <2> QED
    BY <1>3, <2>2, <2>3
<1> QED
  BY <1>2, <1>4, <1>5, <1>6, <1>7

(* A frame with all that it may hold.                                     *)
WireType ==
  [type : {"begin", "params", "stdin"}, request_id : Pair, len : Pair,
   data : Seq(Nat) \union [lo : Nat, hi : Nat]]

LEMMA FrameIs ==
  ASSUME NEW type \in {"begin", "params", "stdin"}, NEW id \in Nat, NEW len \in Nat,
         NEW data \in Seq(Nat) \union [lo : Nat, hi : Nat]
  PROVE  fcgi_writeFrame(type, id, len, data) \in WireType
<1> DEFINE D == Seq(Nat) \union [lo : Nat, hi : Nat]
<1>1. TwoOctets(id) \in Pair /\ TwoOctets(len) \in Pair
  BY TwoHold
<1>2. data \in D
  OBVIOUS
<1> HIDE DEF D
<1>3. fcgi_writeFrame(type, id, len, data) \in
        [type : {"begin", "params", "stdin"}, request_id : Pair, len : Pair, data : D]
  BY <1>1, <1>2 DEF fcgi_writeFrame
<1> QED
  BY <1>3 DEF WireType, D

(* The frames of the body: how many, and where each ends.                  *)
FramesFor(size) == (size + FrameMax - 1) \div FrameMax
EndOf(k, size) == IF k < FramesFor(size) THEN k * FrameMax ELSE size

IsStdin(frame, k, id, size) ==
  /\ frame.type = "stdin" /\ frame.request_id = TwoOctets(id)
  /\ frame.data.lo = EndOf(k - 1, size) + 1 /\ frame.data.hi = EndOf(k, size)
  /\ Number(frame.len) = EndOf(k, size) - EndOf(k - 1, size) /\ Number(frame.len) # 0

LEMMA StdinFramesAre ==
  ASSUME NEW id \in Nat, NEW size \in Nat
  PROVE  /\ FramesFor(size) \in Nat /\ StdinFrames(id, size) \in Seq(WireType)
         /\ Len(StdinFrames(id, size)) = FramesFor(size)
         /\ EndOf(0, size) = 0 /\ EndOf(FramesFor(size), size) = size
         /\ \A k \in 1 .. FramesFor(size) :
              /\ IsStdin(StdinFrames(id, size)[k], k, id, size)
              /\ EndOf(k, size) \in Nat /\ EndOf(k - 1, size) \in Nat
<1> DEFINE f == FrameMax
           n == FramesFor(size)
           E(k) == EndOf(k, size)
           First(k) == (k - 1) * f + 1
           Size(k) == IF size - First(k) + 1 > f THEN f ELSE size - First(k) + 1
           frames == StdinFrames(id, size)
           Frame1(k) == fcgi_writeFrame("stdin", id, Size(k),
                                        [lo |-> First(k), hi |-> First(k) + Size(k) - 1])
<1>1. frames = [k \in 1 .. n |-> Frame1(k)]
  BY DEF StdinFrames, FramesFor
<1>2. f \in Nat /\ f >= 1
  BY Octets
<1>3. /\ n \in Nat /\ n * f >= size /\ (size = 0 => n = 0)
      /\ size > 0 => n >= 1 /\ (n - 1) * f < size
  <2>1. n = (size + f - 1) \div f
    BY DEF FramesFor
  <2> HIDE DEF f, n
  <2> QED
    BY <1>2, <2>1, Enough
<1>4. E(0) = 0 /\ E(n) = size
  BY <1>2, <1>3 DEF EndOf
<1>5. ASSUME NEW k \in 1 .. n
      PROVE  /\ E(k) \in Nat /\ E(k - 1) \in Nat /\ First(k) = E(k - 1) + 1
             /\ Size(k) = E(k) - E(k - 1) /\ Size(k) \in 1 .. f
  <2>1. E(k - 1) = (k - 1) * f
    BY <1>3 DEF EndOf
  <2>2. size > 0
    BY <1>3
  <2> DEFINE a == (k - 1) * f
  <2>3. a \in Nat
    <3> DEFINE j == k - 1
    <3>1. j \in Nat
      BY <1>3
    <3> HIDE DEF j, f
    <3>2. j * f \in Nat
      BY <1>2, <3>1
    <3> QED
      BY <3>2 DEF j
  <2>4. CASE k < n
    <3>1. E(k) = k * f
      BY <2>4 DEF EndOf
    <3>2. k * f = a + f
      <4> HIDE DEF f
      <4> QED
        BY <1>2, <1>3
    <3>3. k * f < size
      <4> DEFINE j == n - 1
                 x == k * f
                 y == j * f
      <4>1. j \in Nat /\ k <= j /\ k \in Nat /\ y < size
        BY <1>3, <2>2, <2>4
      <4> HIDE DEF j, f
      <4>2. x <= y /\ x \in Nat /\ y \in Nat
        BY <1>2, <4>1
      <4> HIDE DEF x, y
      <4>3. x < size
        BY <4>1, <4>2
      <4> QED
        BY <4>3 DEF x
    <3>4. a + f < size
      BY <3>2, <3>3
    <3> HIDE DEF a, f
    <3>5. size - (a + 1) + 1 > f
      BY <1>2, <2>3, <3>4
    <3>6. Size(k) = f /\ First(k) = a + 1
      BY <3>5 DEF a
    <3> HIDE DEF E, Size, First
    <3> QED
      BY <1>2, <2>1, <2>3, <3>1, <3>2, <3>6 DEF a
  <2>5. CASE ~(k < n)
    <3>1. k = n
      BY <1>3, <2>5
    <3>2. E(k) = size
      BY <1>4, <3>1
    <3>3. a < size
      BY <1>3, <2>2, <3>1
    <3>4. size <= a + f
      <4>1. n * f = a + f
        <5> HIDE DEF f
        <5> QED
          BY <1>2, <1>3, <3>1
      <4> QED
        BY <1>3, <4>1
    <3> HIDE DEF a, f
    <3>5. ~(size - (a + 1) + 1 > f) /\ size - (a + 1) + 1 = size - a /\ size - a \in 1 .. f
      BY <1>2, <2>3, <3>3, <3>4
    <3>6. Size(k) = size - a /\ First(k) = a + 1
      BY <3>5 DEF a
    <3> HIDE DEF E, Size, First
    <3> QED
      BY <1>2, <2>1, <2>3, <3>2, <3>5, <3>6 DEF a
  <2> QED
    BY <2>4, <2>5
<1> HIDE DEF E, First, Size, n, f
<1>6. ASSUME NEW k \in 1 .. n
      PROVE  /\ Frame1(k) \in WireType
             /\ Frame1(k).type = "stdin" /\ Frame1(k).request_id = TwoOctets(id)
             /\ Frame1(k).data.lo = E(k - 1) + 1 /\ Frame1(k).data.hi = E(k)
             /\ Number(Frame1(k).len) = E(k) - E(k - 1) /\ Number(Frame1(k).len) # 0
  <2> DEFINE d == [lo |-> First(k), hi |-> First(k) + Size(k) - 1]
  <2>1. First(k) \in Nat /\ First(k) + Size(k) - 1 = E(k) /\ E(k) \in Nat /\ Size(k) \in Nat
        /\ Size(k) <= f /\ Size(k) # 0
    BY <1>2, <1>5
  <2>2. d \in Seq(Nat) \union [lo : Nat, hi : Nat]
    BY <2>1
  <2>3. d.lo = E(k - 1) + 1 /\ d.hi = E(k)
    BY <1>5, <2>1
  <2> HIDE DEF d
  <2>4. fcgi_writeFrame("stdin", id, Size(k), d) \in WireType
    BY <2>1, <2>2, FrameIs
  <2>5. Number(TwoOctets(Size(k))) = Size(k)
    BY <2>1, TwoHold DEF f
  <2>6. Frame1(k) = fcgi_writeFrame("stdin", id, Size(k), d)
    BY DEF d
  <2>7. /\ Frame1(k).type = "stdin" /\ Frame1(k).request_id = TwoOctets(id)
        /\ Frame1(k).len = TwoOctets(Size(k)) /\ Frame1(k).data = d
    BY <2>6 DEF fcgi_writeFrame
  <2> HIDE DEF Frame1
  <2> QED
    BY <1>5, <2>1, <2>3, <2>4, <2>5, <2>6, <2>7
<1> HIDE DEF Frame1, frames
<1>7. frames \in [1 .. n -> WireType] /\ \A k \in 1 .. n : frames[k] = Frame1(k)
  BY <1>1, <1>6
<1>9. \A k \in 1 .. n : IsStdin(frames[k], k, id, size)
  BY <1>6, <1>7 DEF IsStdin, E
<1>8. frames \in Seq(WireType) /\ Len(frames) = n
  <2> DEFINE T == WireType
  <2>1. frames \in [1 .. n -> T]
    BY <1>7
  <2> HIDE DEF T
  <2>2. frames \in Seq(T) /\ Len(frames) = n
    BY <1>3, <2>1
  <2> QED
    BY <2>2 DEF T
<1> QED
  BY <1>3, <1>4, <1>5, <1>8, <1>9 DEF frames, n, E

(* The body is read back from its frames.                                  *)
LEMMA BodyRead ==
  ASSUME NEW id \in Nat, NEW size \in Nat
  PROVE  ReadBody(StdinFrames(id, size)) = size
<1> DEFINE frames == StdinFrames(id, size)
           n == FramesFor(size)
           end(i) == IF i = 0 THEN 0 ELSE frames[i].data.hi
<1>1. /\ n \in Nat /\ frames \in Seq(WireType) /\ Len(frames) = n
      /\ EndOf(0, size) = 0 /\ EndOf(n, size) = size
      /\ \A k \in 1 .. n : IsStdin(frames[k], k, id, size)
  BY StdinFramesAre
<1> HIDE DEF frames, n
<1>2. \A k \in 0 .. n : end(k) = EndOf(k, size)
  <2>1. \A k \in 0 .. n : k = 0 \/ k \in 1 .. n
    BY <1>1
  <2> QED
    BY <1>1, <2>1 DEF IsStdin
<1>3. DOMAIN frames = 1 .. n
  BY <1>1
<1>4. \A i \in DOMAIN frames : frames[i].data.lo = end(i - 1) + 1
                              /\ end(i) - end(i - 1) = Number(frames[i].len)
  <2>1. SUFFICES ASSUME NEW i \in 1 .. n
                 PROVE  frames[i].data.lo = end(i - 1) + 1
                        /\ end(i) - end(i - 1) = Number(frames[i].len)
    BY <1>3
  <2>2. i \in 0 .. n /\ i - 1 \in 0 .. n
    BY <1>1
  <2>3. end(i) = EndOf(i, size) /\ end(i - 1) = EndOf(i - 1, size)
    BY <1>2, <2>2
  <2> HIDE DEF end
  <2> QED
    BY <1>1, <2>3 DEF IsStdin
<1>5. end(Len(frames)) = size
  <2>1. n \in 0 .. n
    BY <1>1
  <2> HIDE DEF end
  <2> QED
    BY <1>1, <1>2, <2>1
<1>6. ReadBody(frames) = end(Len(frames))
  BY <1>4 DEF ReadBody
<1> HIDE DEF end
<1> QED
  BY <1>5, <1>6 DEF frames

-----------------------------------------------------------------------------
(* All that is written for a request, frame by frame.                      *)
ParamsFrame(r, i) == fcgi_writeParam(r.id, fcgi_params(r)[i])
Count(r) == Len(fcgi_params(r))

IsRequest(w, r) ==
  /\ w \in Seq(WireType) /\ Len(w) = Count(r) + FramesFor(r.body) + 3
  /\ w[1] = fcgi_writeFrame("begin", r.id, 8, <<0, 1, 1, 0, 0, 0, 0, 0>>)
  /\ \A i \in 1 .. Count(r) : w[1 + i] = ParamsFrame(r, i)
  /\ w[Count(r) + 2] = fcgi_writeFrame("params", r.id, 0, <<>>)
  /\ \A k \in 1 .. FramesFor(r.body) : w[Count(r) + 2 + k] = StdinFrames(r.id, r.body)[k]
  /\ w[Count(r) + FramesFor(r.body) + 3] = fcgi_writeFrame("stdin", r.id, 0, <<>>)

LEMMA ParamsFrameIs ==
  ASSUME NEW id \in Nat, NEW param \in ParamType
  PROVE  /\ fcgi_writeParam(id, param) \in WireType
         /\ fcgi_writeParam(id, param).type = "params"
         /\ fcgi_writeParam(id, param).request_id = TwoOctets(id)
         /\ Len(Record(param)) <= FrameMax =>
              /\ fcgi_writeParam(id, param).data = Record(param)
              /\ Number(fcgi_writeParam(id, param).len) # 0
<1> DEFINE r == Record(param)
           n == Len(r)
           len == Number(TwoOctets(n))
           d == SubSeq(r, 1, len)
           frame == fcgi_writeFrame("params", id, len, d)
<1>1. r \in Seq(Nat) /\ n \in Nat /\ n >= 2
  <2>1. r \in Seq(Nat) /\ \E w \in {1, 4}, x \in {1, 4}, a \in Nat, v \in Nat : n = w + x + a + v
    BY RecordIs
  <2> HIDE DEF r
  <2>2. n \in Nat
    BY <2>1
  <2> HIDE DEF n
  <2> QED
    BY <2>1, <2>2
<1>2. fcgi_writeParam(id, param) = frame
  BY DEF fcgi_writeParam
<1> HIDE DEF r
<1>3. len \in Nat /\ len <= n /\ (n <= FrameMax => len = n)
  BY <1>1, TwoHold
<1> HIDE DEF len
<1>4. d \in Seq(Nat) /\ (len = n => d = r)
  <2>1. 1 <= len + 1 /\ len <= Len(r)
    BY <1>1, <1>3
  <2>2. d \in Seq(Nat) /\ Len(d) = len /\ \A i \in 1 .. len : d[i] = r[i]
    <3>1. d \in Seq(Nat) /\ Len(d) = len
      BY <1>1, <1>3, <2>1
    <3>2. \A i \in 1 .. len : d[i] = r[i]
      <4>1. SUFFICES ASSUME NEW i \in 1 .. len PROVE d[i] = r[i]
        OBVIOUS
      <4>2. d[i] = r[1 + i - 1] /\ 1 + i - 1 = i
        BY <1>1, <1>3, <2>1
      <4> QED
        BY <4>2
    <3> QED
      BY <3>1, <3>2
  <2> HIDE DEF d
  <2>3. len = n => d = r
    <3>1. SUFFICES ASSUME len = n PROVE d = r
      OBVIOUS
    <3>2. Len(d) = Len(r) /\ \A i \in 1 .. Len(d) : d[i] = r[i]
      BY <2>2, <3>1
    <3> QED
      BY <1>1, <2>2, <3>2, SeqEqual
  <2> QED
    BY <2>2, <2>3
<1> HIDE DEF d, n
<1>5. frame \in WireType
  BY <1>3, <1>4, FrameIs
<1>6. /\ frame.type = "params" /\ frame.request_id = TwoOctets(id)
      /\ frame.len = TwoOctets(len) /\ frame.data = d
  BY DEF fcgi_writeFrame
<1>7. n <= FrameMax => d = r /\ Number(frame.len) # 0
  <2>1. SUFFICES ASSUME n <= FrameMax PROVE d = r /\ Number(frame.len) # 0
    OBVIOUS
  <2>2. len = n
    BY <1>3, <2>1
  <2>3. Number(TwoOctets(len)) = len
    BY <1>3, <2>1, <2>2, TwoHold
  <2> HIDE DEF frame
  <2> QED
    BY <1>1, <1>4, <1>6, <2>2, <2>3
<1> QED
  BY <1>2, <1>5, <1>6, <1>7 DEF n, r

LEMMA RequestIs ==
  ASSUME NEW r \in RequestType
  PROVE  /\ IsRequest(fcgi_request(r), r)
         /\ fcgi_params(r) \in Seq(ParamType) /\ Count(r) \in Nat /\ Count(r) >= 1
         /\ r.id \in Nat /\ r.id <= FrameMax /\ r.body \in Nat
<1> DEFINE params == fcgi_params(r)
           n == Len(params)
           b == fcgi_writeFrame("begin", r.id, 8, <<0, 1, 1, 0, 0, 0, 0, 0>>)
           p == [i \in DOMAIN params |-> fcgi_writeParam(r.id, params[i])]
           x == fcgi_writeFrame("params", r.id, 0, <<>>)
           d == StdinFrames(r.id, r.body)
           z == fcgi_writeFrame("stdin", r.id, 0, <<>>)
           m == FramesFor(r.body)
           T == WireType
<1>1. r.id \in Nat /\ r.id <= FrameMax /\ r.body \in Nat
  BY Octets DEF RequestType
<1>2. params \in Seq(ParamType) /\ params # <<>>
  BY ParamsAre DEF Begins
<1>3. fcgi_request(r) = <<b>> \o p \o <<x>> \o d \o <<z>>
  BY DEF fcgi_request
<1> HIDE DEF params
<1>4. n \in Nat /\ n >= 1 /\ DOMAIN params = 1 .. n /\ \A i \in 1 .. n : params[i] \in ParamType
  BY <1>2
<1> HIDE DEF n
<1>5. b \in T /\ x \in T /\ z \in T
  <2>1. <<>> \in Seq(Nat) /\ <<0, 1, 1, 0, 0, 0, 0, 0>> \in Seq(Nat)
    OBVIOUS
  <2> QED
    BY <1>1, <2>1, FrameIs
<1>6. p \in Seq(T) /\ Len(p) = n /\ \A i \in 1 .. n : p[i] = fcgi_writeParam(r.id, params[i])
  <2>1. \A i \in 1 .. n : fcgi_writeParam(r.id, params[i]) \in T
    BY <1>1, <1>4, ParamsFrameIs
  <2> HIDE DEF T
  <2>2. p \in [1 .. n -> T] /\ \A i \in 1 .. n : p[i] = fcgi_writeParam(r.id, params[i])
    BY <1>4, <2>1
  <2> HIDE DEF p
  <2>3. p \in Seq(T) /\ Len(p) = n
    BY <1>4, <2>2
  <2> QED
    BY <2>2, <2>3
<1>7. d \in Seq(T) /\ Len(d) = m /\ m \in Nat
  BY <1>1, StdinFramesAre
<1> HIDE DEF b, p, x, d, z, m, T
<1> DEFINE s1 == <<b>>
           s2 == s1 \o p
           s3 == s2 \o <<x>>
           s4 == s3 \o d
           s5 == s4 \o <<z>>
<1>8. s1 \in Seq(T) /\ Len(s1) = 1 /\ s1[1] = b
  BY <1>5
<1> HIDE DEF s1
<1>9. s2 \in Seq(T) /\ Len(s2) = 1 + n /\ s2[1] = b /\ \A i \in 1 .. n : s2[1 + i] = p[i]
  <2>1. /\ s2 \in Seq(T) /\ Len(s2) = Len(s1) + Len(p)
        /\ \A i \in 1 .. Len(s1) : s2[i] = s1[i]
        /\ \A i \in 1 .. Len(p) : s2[Len(s1) + i] = p[i]
    <3>1. s1 \in Seq(T) /\ p \in Seq(T)
      BY <1>6, <1>8
    <3> QED
      BY <3>1, Joins
  <2> HIDE DEF s2
  <2> QED
    BY <1>6, <1>8, <2>1
<1> HIDE DEF s2
<1>10. /\ s3 \in Seq(T) /\ Len(s3) = n + 2 /\ s3[n + 2] = x
       /\ \A i \in 1 .. n + 1 : s3[i] = s2[i]
  <2>1. s3 = Append(s2, x)
    BY <1>5, <1>9, AppendIsConcat
  <2> HIDE DEF s3
  <2>2. s3 \in Seq(T) /\ Len(s3) = Len(s2) + 1 /\ s3[Len(s2) + 1] = x
        /\ \A i \in 1 .. Len(s2) : s3[i] = s2[i]
    BY <1>5, <1>9, <2>1
  <2>3. Len(s2) = n + 1 /\ (n + 1) + 1 = n + 2
    BY <1>4, <1>9
  <2> QED
    BY <2>2, <2>3
<1> HIDE DEF s3
<1>11. /\ s4 \in Seq(T) /\ Len(s4) = n + 2 + m
       /\ \A i \in 1 .. n + 2 : s4[i] = s3[i]
       /\ \A k \in 1 .. m : s4[n + 2 + k] = d[k]
  <2>1. /\ s4 \in Seq(T) /\ Len(s4) = Len(s3) + Len(d)
        /\ \A i \in 1 .. Len(s3) : s4[i] = s3[i]
        /\ \A i \in 1 .. Len(d) : s4[Len(s3) + i] = d[i]
    <3>1. s3 \in Seq(T) /\ d \in Seq(T)
      BY <1>7, <1>10
    <3> QED
      BY <3>1, Joins
  <2> HIDE DEF s4
  <2> QED
    BY <1>7, <1>10, <2>1
<1> HIDE DEF s4
<1>12. /\ s5 \in Seq(T) /\ Len(s5) = n + m + 3 /\ s5[n + m + 3] = z
       /\ \A i \in 1 .. n + 2 + m : s5[i] = s4[i]
  <2>1. s5 = Append(s4, z)
    BY <1>5, <1>11, AppendIsConcat
  <2> HIDE DEF s5
  <2>2. s5 \in Seq(T) /\ Len(s5) = Len(s4) + 1 /\ s5[Len(s4) + 1] = z
        /\ \A i \in 1 .. Len(s4) : s5[i] = s4[i]
    BY <1>5, <1>11, <2>1
  <2>3. Len(s4) = n + 2 + m /\ (n + 2 + m) + 1 = n + m + 3
    BY <1>4, <1>7, <1>11
  <2> QED
    BY <2>2, <2>3
<1>13. fcgi_request(r) = s5
  BY <1>3 DEF s1, s2, s3, s4
<1> HIDE DEF s5
<1>14. s5[1] = b
  <2>1. 1 \in 1 .. n + 1 /\ 1 \in 1 .. n + 2 /\ 1 \in 1 .. n + 2 + m
    BY <1>4, <1>7
  <2> QED
    BY <1>9, <1>10, <1>11, <1>12, <2>1
<1>15. \A i \in 1 .. n : s5[1 + i] = p[i]
  <2>1. SUFFICES ASSUME NEW i \in 1 .. n PROVE s5[1 + i] = p[i]
    OBVIOUS
  <2>2. 1 + i \in 1 .. n + 1 /\ 1 + i \in 1 .. n + 2 /\ 1 + i \in 1 .. n + 2 + m
    BY <1>4, <1>7
  <2>3. s5[1 + i] = s4[1 + i] /\ s4[1 + i] = s3[1 + i] /\ s3[1 + i] = s2[1 + i] /\ s2[1 + i] = p[i]
    BY <1>9, <1>10, <1>11, <1>12, <2>2
  <2> QED
    BY <2>3
<1>16. s5[n + 2] = x
  <2>1. n + 2 \in 1 .. n + 2 /\ n + 2 \in 1 .. n + 2 + m
    BY <1>4, <1>7
  <2> QED
    BY <1>10, <1>11, <1>12, <2>1
<1>17. \A k \in 1 .. m : s5[n + 2 + k] = d[k]
  <2>1. SUFFICES ASSUME NEW k \in 1 .. m PROVE s5[n + 2 + k] = d[k]
    OBVIOUS
  <2>2. n + 2 + k \in 1 .. n + 2 + m
    BY <1>4, <1>7
  <2> QED
    BY <1>11, <1>12, <2>2
<1>18. \A i \in 1 .. n : p[i] = ParamsFrame(r, i)
  BY <1>6 DEF ParamsFrame, params
<1>19. n = Count(r)
  BY DEF n, params, Count
<1>20. IsRequest(s5, r)
  BY <1>12, <1>14, <1>15, <1>16, <1>17, <1>18, <1>19 DEF IsRequest, T, m, b, x, d, z
<1> QED
  BY <1>1, <1>2, <1>4, <1>13, <1>19, <1>20 DEF params

(* The frames of each kind that hold something are found, and the id.      *)
LEMMA WireSorted ==
  ASSUME NEW r \in RequestType, NEW w, IsRequest(w, r),
         \A i \in 1 .. Count(r) : Len(Record(fcgi_params(r)[i])) <= FrameMax
  PROVE  /\ OfType(w, "params") = [i \in 1 .. Count(r) |-> ParamsFrame(r, i)]
         /\ OfType(w, "stdin") = StdinFrames(r.id, r.body)
         /\ {Number(w[i].request_id) : i \in DOMAIN w} = {r.id}
<1> DEFINE n == Count(r)
           m == FramesFor(r.body)
           T == WireType
           Full(type) == {i \in DOMAIN w : w[i].type = type /\ Number(w[i].len) # 0}
<1>1. /\ fcgi_params(r) \in Seq(ParamType) /\ n \in Nat /\ n >= 1
      /\ r.id \in Nat /\ r.id <= FrameMax /\ r.body \in Nat
  BY RequestIs
<1>2. /\ m \in Nat /\ Len(StdinFrames(r.id, r.body)) = m /\ StdinFrames(r.id, r.body) \in Seq(T)
      /\ \A k \in 1 .. m : IsStdin(StdinFrames(r.id, r.body)[k], k, r.id, r.body)
  BY <1>1, StdinFramesAre
<1>3. /\ w \in Seq(T) /\ Len(w) = n + m + 3 /\ DOMAIN w = 1 .. n + m + 3
      /\ w[1] = fcgi_writeFrame("begin", r.id, 8, <<0, 1, 1, 0, 0, 0, 0, 0>>)
      /\ \A i \in 1 .. n : w[1 + i] = ParamsFrame(r, i)
      /\ w[n + 2] = fcgi_writeFrame("params", r.id, 0, <<>>)
      /\ \A k \in 1 .. m : w[n + 2 + k] = StdinFrames(r.id, r.body)[k]
      /\ w[n + m + 3] = fcgi_writeFrame("stdin", r.id, 0, <<>>)
  <2>1. w \in Seq(T) /\ Len(w) = n + m + 3
    BY DEF IsRequest
  <2> HIDE DEF T, n, m
  <2>2. DOMAIN w = 1 .. n + m + 3
    BY <2>1
  <2> QED
    BY <2>1, <2>2 DEF IsRequest, n, m
<1> HIDE DEF n, m, T
<1>0. n \in Nat /\ n >= 1 /\ m \in Nat /\ w \in Seq(T) /\ Len(w) = n + m + 3
      /\ DOMAIN w = 1 .. n + m + 3
  BY <1>1, <1>2, <1>3
<1>4. Number(TwoOctets(0)) = 0
  BY Octets, TwoHold
<1>5. w[1].type = "begin" /\ w[1].request_id = TwoOctets(r.id)
  BY <1>3 DEF fcgi_writeFrame
<1>6. w[n + 2].request_id = TwoOctets(r.id) /\ Number(w[n + 2].len) = 0
  BY <1>3, <1>4 DEF fcgi_writeFrame
<1>7. w[n + m + 3].request_id = TwoOctets(r.id) /\ Number(w[n + m + 3].len) = 0
  BY <1>3, <1>4 DEF fcgi_writeFrame
<1>8. \A i \in 2 .. n + 1 : /\ w[i].type = "params" /\ w[i].request_id = TwoOctets(r.id)
                           /\ Number(w[i].len) # 0
  <2>1. TAKE i \in 2 .. n + 1
  <2> DEFINE j == i - 1
             param == fcgi_params(r)[j]
  <2>2. j \in 1 .. n /\ 1 + j = i
    BY <1>1
  <2>3. param \in ParamType /\ Len(Record(param)) <= FrameMax
    BY <1>1, <2>2 DEF n, Count
  <2>4. w[i] = fcgi_writeParam(r.id, param)
    <3> HIDE DEF j
    <3>1. w[1 + j] = ParamsFrame(r, j)
      BY <1>3, <2>2
    <3> QED
      BY <2>2, <3>1 DEF ParamsFrame
  <2> HIDE DEF param
  <2> QED
    BY <1>1, <2>3, <2>4, ParamsFrameIs
<1>9. \A i \in n + 3 .. n + 2 + m : /\ w[i].type = "stdin" /\ w[i].request_id = TwoOctets(r.id)
                                   /\ Number(w[i].len) # 0
  <2>1. TAKE i \in n + 3 .. n + 2 + m
  <2> DEFINE k == i - (n + 2)
  <2>2. k \in 1 .. m /\ n + 2 + k = i
    BY <1>1, <1>2
  <2> HIDE DEF k
  <2>3. w[i] = StdinFrames(r.id, r.body)[k]
    BY <1>3, <2>2
  <2> QED
    BY <1>2, <2>2, <2>3 DEF IsStdin
<1>10. \A i \in 1 .. n + m + 3 :
         i = 1 \/ i \in 2 .. n + 1 \/ i = n + 2 \/ i \in n + 3 .. n + 2 + m \/ i = n + m + 3
  BY <1>1, <1>2
<1>11. {Number(w[i].request_id) : i \in DOMAIN w} = {r.id}
  <2>1. \A i \in DOMAIN w : w[i].request_id = TwoOctets(r.id)
    BY <1>3, <1>5, <1>6, <1>7, <1>8, <1>9, <1>10
  <2>2. Number(TwoOctets(r.id)) = r.id
    BY <1>1, TwoHold
  <2>3. 1 \in DOMAIN w
    BY <1>1, <1>2, <1>3
  <2> QED
    BY <2>1, <2>2, <2>3
<1>12. Full("params") = 1 + 1 .. 1 + n
  <2>1. ASSUME NEW i \in DOMAIN w
        PROVE  (w[i].type = "params" /\ Number(w[i].len) # 0) <=> i \in 2 .. n + 1
    <3>1. CASE i \in 2 .. n + 1
      BY <1>8, <3>1
    <3>2. CASE i \notin 2 .. n + 1
      BY <1>3, <1>5, <1>6, <1>7, <1>9, <1>10, <3>2
    <3> QED
      BY <3>1, <3>2
  <2>2. \A i : i \in 1 + 1 .. 1 + n <=> i \in DOMAIN w /\ i \in 2 .. n + 1
    BY <1>0
  <2> QED
    BY <2>1, <2>2
<1>13. Full("stdin") = (n + 2) + 1 .. (n + 2) + m
  <2>1. ASSUME NEW i \in DOMAIN w
        PROVE  (w[i].type = "stdin" /\ Number(w[i].len) # 0) <=> i \in n + 3 .. n + 2 + m
    <3>1. CASE i \in n + 3 .. n + 2 + m
      BY <1>9, <3>1
    <3>2. CASE i \notin n + 3 .. n + 2 + m
      BY <1>3, <1>5, <1>6, <1>7, <1>8, <1>10, <3>2
    <3> QED
      BY <3>1, <3>2
  <2>2. \A i : i \in (n + 2) + 1 .. (n + 2) + m <=> i \in DOMAIN w /\ i \in n + 3 .. n + 2 + m
    BY <1>0
  <2> QED
    BY <2>1, <2>2
<1> HIDE DEF Full
<1>14. OfType(w, "params") = [i \in 1 .. n |-> w[1 + i]]
  <2> DEFINE a == 1
             keep == Full("params")
  <2>1. a \in Nat /\ a + n <= Len(w) /\ keep = a + 1 .. a + n
    BY <1>0, <1>12
  <2>2. OfType(w, "params") = At(w, keep)
    BY DEF OfType, Full
  <2> HIDE DEF a, keep
  <2>3. At(w, keep) = Stretch(w, a, n)
    BY <1>0, <2>1, AtInterval
  <2> QED
    BY <2>2, <2>3 DEF a, Stretch
<1>15. OfType(w, "stdin") = [k \in 1 .. m |-> w[n + 2 + k]]
  <2> DEFINE a == n + 2
             keep == Full("stdin")
  <2>1. a \in Nat /\ a + m <= Len(w) /\ keep = a + 1 .. a + m
    BY <1>0, <1>13
  <2>2. OfType(w, "stdin") = At(w, keep)
    BY DEF OfType, Full
  <2> HIDE DEF a, keep
  <2>3. At(w, keep) = Stretch(w, a, m)
    BY <1>0, <2>1, AtInterval
  <2> QED
    BY <2>2, <2>3 DEF a, Stretch
<1>16. [i \in 1 .. n |-> w[1 + i]] = [i \in 1 .. n |-> ParamsFrame(r, i)]
  BY <1>3
<1>17. [k \in 1 .. m |-> w[n + 2 + k]] = StdinFrames(r.id, r.body)
  <2> DEFINE d == StdinFrames(r.id, r.body)
  <2>1. d \in Seq(T) /\ Len(d) = m /\ \A k \in 1 .. m : w[n + 2 + k] = d[k]
    BY <1>2, <1>3
  <2> HIDE DEF d
  <2>2. d = [k \in 1 .. m |-> d[k]]
    BY <2>1
  <2> QED
    BY <2>1, <2>2 DEF d
<1> QED
  BY <1>11, <1>14, <1>15, <1>16, <1>17 DEF n

-----------------------------------------------------------------------------
(* What the backend reads is the request.                                  *)
LEMMA RequestIsRead ==
  ASSUME RecordsFit, NEW r \in Requests
  PROVE  LET read == BackendReads(fcgi_request(r))
             params == fcgi_params(r)
         IN /\ read.ids = {r.id} /\ read.body = r.body
            /\ read.params = {params[i] : i \in DOMAIN params}
            /\ [name |-> Name.CONTENT_LENGTH, value |-> Digits(read.body)] \in read.params
<1> DEFINE w == fcgi_request(r)
           params == fcgi_params(r)
           n == Len(params)
           read == BackendReads(w)
           octets == [i \in DOMAIN OfType(w, "params") |-> OfType(w, "params")[i].data]
           length == [name |-> Name.CONTENT_LENGTH, value |-> Digits(r.body)]
<1>1. r \in RequestType
  BY RequestsAssumption
<1>2. /\ IsRequest(w, r) /\ params \in Seq(ParamType) /\ Count(r) \in Nat /\ Count(r) >= 1
      /\ r.id \in Nat /\ r.body \in Nat
  BY <1>1, RequestIs
<1>3. n = Count(r) /\ DOMAIN params = 1 .. n
  BY <1>2 DEF Count
<1>4. Begins(params, ParamType, length)
  BY <1>1, ParamsAre
<1>5. \A i \in 1 .. Count(r) : Len(Record(fcgi_params(r)[i])) <= FrameMax
  BY <1>3 DEF RecordsFit
<1>6. /\ OfType(w, "params") = [i \in 1 .. Count(r) |-> ParamsFrame(r, i)]
      /\ OfType(w, "stdin") = StdinFrames(r.id, r.body)
      /\ {Number(w[i].request_id) : i \in DOMAIN w} = {r.id}
  BY <1>1, <1>2, <1>5, WireSorted
<1>7. /\ read.ids = {Number(w[i].request_id) : i \in DOMAIN w}
      /\ read.params = ReadParams(FlattenSeq(octets))
      /\ read.body = ReadBody(OfType(w, "stdin"))
  BY DEF BackendReads
<1>8. read.body = r.body
  BY <1>2, <1>6, <1>7, BodyRead
<1>9. octets = [i \in 1 .. n |-> Record(params[i])]
  <2>1. \A i \in 1 .. n : ParamsFrame(r, i).data = Record(params[i])
    <3>1. SUFFICES ASSUME NEW i \in 1 .. n PROVE ParamsFrame(r, i).data = Record(params[i])
      OBVIOUS
    <3>2. params[i] \in ParamType /\ Len(Record(params[i])) <= FrameMax
      BY <1>2, <1>3, <1>5
    <3> QED
      BY <1>2, <3>2, ParamsFrameIs DEF ParamsFrame
  <2> HIDE DEF w, params, n
  <2>2. DOMAIN OfType(w, "params") = 1 .. n
    BY <1>3, <1>6
  <2>3. \A i \in 1 .. n : OfType(w, "params")[i] = ParamsFrame(r, i)
    BY <1>3, <1>6
  <2> QED
    BY <2>1, <2>2, <2>3
<1>10. read.params = {params[i] : i \in 1 .. n}
  <2>1. params # <<>>
    BY <1>4 DEF Begins
  <2>2. \A i \in 1 .. Len(params) : Len(Record(params[i])) <= FrameMax
    BY <1>3, <1>5
  <2> HIDE DEF w, params, octets, read
  <2>3. ReadParams(FlattenSeq([i \in 1 .. Len(params) |-> Record(params[i])]))
          = {params[i] : i \in 1 .. Len(params)}
    BY <1>2, <2>1, <2>2, ParamsRead
  <2> QED
    BY <1>7, <1>9, <2>3
<1>11. length \in {params[i] : i \in 1 .. n}
  <2>1. params[1] = length /\ 1 \in 1 .. n
    BY <1>2, <1>3, <1>4 DEF Begins
  <2> HIDE DEF params, length
  <2> QED
    BY <2>1
<1>12. read.ids = {r.id}
  BY <1>6, <1>7
<1> HIDE DEF read, params, n, w
<1>13. read.params = {params[i] : i \in DOMAIN params}
  BY <1>3, <1>10
<1>14. [name |-> Name.CONTENT_LENGTH, value |-> Digits(read.body)] \in read.params
  BY <1>8, <1>10, <1>11
<1> QED
  BY <1>8, <1>12, <1>13, <1>14 DEF read, params, w

(* What waits for the backend is the request that was written.             *)
Unread ==
  /\ request \in Requests \union {Taken} /\ noise \in 0 .. MaxNoise /\ finished \in BOOLEAN
  /\ at = "provide" => wire = <<>> /\ request \in Requests
  /\ wire # <<>> => request \in Requests /\ wire = fcgi_request(request)

LEMMA UnreadHolds ==
  ASSUME Init
  PROVE  Unread
<1>1. request \in Requests /\ wire = <<>> /\ noise = 0 /\ finished = FALSE
  BY DEF Init
<1>2. 0 \in 0 .. MaxNoise
  BY ParametersAssumption
<1> QED
  BY <1>1, <1>2 DEF Unread

LEMMA UnreadKeeps ==
  ASSUME IInv, Unread, [Next]_vars
  PROVE  Unread'
<1> USE DEF ahead, back, conn, provision, response
<1>1. /\ request \in Requests \union {Taken} /\ noise \in 0 .. MaxNoise /\ finished \in BOOLEAN
      /\ at = "provide" => wire = <<>> /\ request \in Requests
      /\ wire # <<>> => request \in Requests /\ wire = fcgi_request(request)
  BY DEF Unread
<1>2. chunked \in BOOLEAN /\ at \in {"provide", "idle", "frames", "flush", "drain", "gone"}
  BY DEF IInv, Types
<1>3. ASSUME UNCHANGED ahead, noise' \in 0 .. MaxNoise, finished' \in BOOLEAN,
             at' # at => at' # "provide"
      PROVE  Unread'
  BY <1>1, <1>3 DEF Unread
<1>4. ASSUME NEW n \in 1 .. TextLen, WriteStdout(n) PROVE Unread'
  BY <1>1, <1>3, <1>4 DEF WriteStdout, Arrives
<1>5. ASSUME NEW f \in {Stderr, EmptyStdout, Foreign, ForeignEnd}, WriteNoise(f) PROVE Unread'
  <2>1. noise' \in 0 .. MaxNoise
    BY <1>1, <1>5, ParametersAssumption DEF WriteNoise
  <2> QED
    BY <1>1, <1>3, <1>5, <2>1 DEF WriteNoise, Arrives
<1>6. CASE BackendTakes
  BY <1>1, <1>6 DEF BackendTakes, Unread
<1>7. CASE EndsRequest \/ Closes
  BY <1>1, <1>3, <1>7 DEF EndsRequest, Arrives, Closes
<1>8. CASE Provide
  BY <1>1, <1>8 DEF Provide, Unread
<1>9. CASE ReadEvent \/ CloseEvent \/ SkipForeign \/ StderrFrame
  BY <1>1, <1>3, <1>9 DEF ReadEvent, CloseEvent, SkipForeign, StderrFrame
<1>10. CASE StdoutHead \/ StdoutBody \/ EndFrame
  BY <1>1, <1>3, <1>10 DEF StdoutHead, StdoutBody, EndFrame
<1>11. ASSUME Notify PROVE finished' \in BOOLEAN
  BY <1>1, <1>2, <1>11 DEF Notify
<1>12. CASE FramesRunOut \/ Flush
  BY <1>1, <1>3, <1>11, <1>12 DEF FramesRunOut, Flush
<1>13. CASE Drain
  BY <1>1, <1>3, <1>11, <1>13 DEF Drain
<1>14. CASE UNCHANGED vars
  BY <1>1, <1>3, <1>14 DEF vars
<1> QED
  BY <1>4, <1>5, <1>6, <1>7, <1>8, <1>9, <1>10, <1>12, <1>13, <1>14 DEF Next, Worker

LEMMA UnreadAlways == Spec => [](IInv /\ Unread)
<1>1. Init => Unread
  BY UnreadHolds
<1>2. IInv /\ Unread /\ [Next]_vars => Unread'
  BY UnreadKeeps
<1> QED
  BY <1>1, <1>2, Invariant, PTL DEF Spec

(* TypeOK: the frames for the backend and those it sends, what waits in    *)
(* every buffer and what the client gets have their types.                 *)
THEOREM TypeCorrect == Spec => []TypeOK
<1>1. IInv /\ Unread => TypeOK
  <2>1. SUFFICES ASSUME IInv, Unread PROVE TypeOK
    OBVIOUS
  <2>2. ASSUME NEW i \in DOMAIN wire
        PROVE  /\ wire[i].type \in {"begin", "params", "stdin"}
               /\ {wire[i].request_id, wire[i].len} \subseteq (0 .. Byte - 1) \X (0 .. Byte - 1)
    <3>1. wire # <<>>
      BY <2>2
    <3>2. request \in RequestType /\ wire = fcgi_request(request)
      BY <2>1, <3>1, RequestsAssumption DEF Unread
    <3>3. wire \in Seq(WireType)
      BY <3>2, RequestIs DEF IsRequest
    <3>4. wire[i] \in WireType
      <4> DEFINE T == WireType
      <4> HIDE DEF T
      <4>1. wire \in Seq(T)
        BY <3>3 DEF T
      <4>2. wire[i] \in T
        BY <2>2, <4>1
      <4> QED
        BY <4>2 DEF T
    <3>5. wire[i].type \in {"begin", "params", "stdin"} /\ wire[i].request_id \in Pair
          /\ wire[i].len \in Pair
      BY <3>4 DEF WireType
    <3> QED
      BY <3>5 DEF Pair
  <2> QED
    BY <2>1, <2>2 DEF TypeOK, IInv, Types, Unread
<1> QED
  BY <1>1, UnreadAlways, PTL

(* RequestRead: whatever the names and values of a request are, if each    *)
(* record fits a frame, and however long its body is, the backend reads    *)
(* its parameters and its body out of the frames that are written for it.  *)
THEOREM RequestsRead ==
  ASSUME RecordsFit
  PROVE  Spec => []RequestRead
<1>1. IInv /\ Unread => RequestRead
  <2>1. SUFFICES ASSUME Unread, wire # <<>>
                 PROVE  LET read == BackendReads(wire)
                            params == fcgi_params(request) IN
                        /\ read.ids = {request.id}
                        /\ read.params = {params[i] : i \in DOMAIN params}
                        /\ read.body = request.body
                        /\ [name |-> Name.CONTENT_LENGTH, value |-> Digits(read.body)] \in read.params
    BY DEF RequestRead
  <2>2. request \in Requests /\ wire = fcgi_request(request)
    BY <2>1 DEF Unread
  <2> QED
    BY <2>2, RequestIsRead
<1> QED
  BY <1>1, UnreadAlways, PTL
=============================================================================
