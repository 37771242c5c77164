----------------------- MODULE Http2ConnectionProofs -----------------------
(***************************************************************************)
(* Theorems about Http2Connection, for any number of streams and whatever  *)
(* the header blocks hold: a request is given to the pipeline with its     *)
(* whole body, a stream's response has one head and one end, a request's   *)
(* headers and a response's are read as they were meant, and a client that *)
(* does nothing odd is refused for nothing.                                *)
(***************************************************************************)
EXTENDS Http2Connection, HpackProofs

(* The frames that a request is made of.                                   *)
Carries(f, s) == f.stream = s /\ f.type \in {"HEADERS", "DATA"}
Answering(s) == reply[s] # "none" \/ active[s] # "none"

(* What the last frame that has come adds to the body of s.                *)
Coming(s) ==
  IF buffer # <<>> /\ buffer[Len(buffer)].type = "DATA" /\ buffer[Len(buffer)].stream = s
    THEN buffer[Len(buffer)].size ELSE 0

StreamTypes ==
  streams \in [Streams -> {None} \union Stream]
Types ==
  /\ opened \in {0} \union Streams /\ uploading \subseteq Streams
  /\ block \in {0} \union Streams /\ block <= opened
  /\ "streams" \in DOMAIN profile /\ profile.streams \in Streams
  /\ sent \in [Streams -> [body : Nat, end : BOOLEAN]]
  /\ StreamTypes
  /\ active \in [Streams -> {"none", "delayed", "open"}]
  /\ reply \in [Streams -> {"none", "open", "ended", "broken"}]
  /\ DOMAIN requests = Streams

(* Only a frame without payload waits for the next one.                    *)
Queue ==
  /\ buffer \in Seq(Range(buffer))
  /\ Len(buffer) <= 2 /\ (Len(buffer) = 2 => buffer[1].empty)
  /\ \A i \in 1 .. Len(buffer) :
       LET f == buffer[i] IN
       /\ f.stream \in {0} \union Streams /\ f.stream <= opened
       /\ f.type \in {"HEADERS", "DATA", "RST_STREAM"} => f.stream \in Streams
       /\ f.type = "HEADERS" => f.fit \in BOOLEAN
       /\ f.empty => f.type \in {"DATA", "SETTINGS"}
       /\ f.type = "DATA" => f.size \in Nat /\ (f.empty => f.size = 0)

(* The end of a request is the last that comes of it, and its response     *)
(* begins behind that.                                                     *)
EndsOnce ==
  \A s \in Streams :
    /\ s \in uploading => ~sent[s].end
    /\ s > opened => s \notin uploading /\ sent[s] = [body |-> 0, end |-> FALSE]
    /\ Answering(s) => sent[s].end /\ \A i \in 1 .. Len(buffer) : ~Carries(buffer[i], s)
    /\ \A i \in 1 .. Len(buffer) :
         Carries(buffer[i], s) /\ buffer[i].end =>
           sent[s].end /\ \A j \in i + 1 .. Len(buffer) : ~Carries(buffer[j], s)

(* The server has the body of a stream but for what waits in read_buffer.  *)
Bodies ==
  \A s \in Streams :
    /\ streams[s] # None => streams[s].body + Coming(s) = sent[s].body
    /\ \A i \in 1 .. Len(buffer) :
         buffer[i].stream = s =>
           /\ buffer[i].type = "HEADERS" => streams[s] # None \/ sent[s].body = 0
           /\ buffer[i].type = "RST_STREAM" => s \notin uploading
    /\ s \in uploading =>
         \/ streams[s] # None
         \/ \E i \in 1 .. Len(buffer) : buffer[i].type = "HEADERS" /\ buffer[i].stream = s

Replies ==
  \A s \in Streams :
    /\ active[s] = "open" => reply[s] = "open"
    /\ active[s] = "delayed" => reply[s] = "none"
    /\ reply[s] # "broken"

IInv == Types /\ Queue /\ EndsOnce /\ (Live => Bodies) /\ Replies /\ RequestWhole


-----------------------------------------------------------------------------
LEMMA StreamIsNumber == Cardinality(Streams) \in Nat /\ Streams \subseteq Nat \ {0}
<1>1. Cardinality(Streams) \in Nat
  BY Http2Assumption, FS_CardinalityType
<1>2. Streams = 1 .. Cardinality(Streams)
  BY Http2Assumption
<1> DEFINE n == Cardinality(Streams)
<1>3. n \in Nat /\ Streams = 1 .. n
  BY <1>1, <1>2
<1> HIDE DEF n
<1>4. Streams \subseteq Nat \ {0}
  BY <1>3
<1> QED
  BY <1>1, <1>4

LEMMA BodyIsNumber ==
  ASSUME StreamTypes, NEW s \in Streams, streams[s] # None
  PROVE  /\ streams[s] \in Stream
         /\ streams[s].body \in Nat /\ streams[s].body + 0 = streams[s].body
<1>1. streams[s] \in Stream
  BY DEF StreamTypes
<1>2. streams[s].body \in Nat
  BY <1>1 DEF Stream
<1> DEFINE n == streams[s].body
<1> HIDE DEF n
<1>3. n + 0 = n
  BY <1>2 DEF n
<1> QED
  BY <1>1, <1>2, <1>3 DEF n

LEMMA Sums == \A m, n \in Nat : m + n \in Nat
OBVIOUS

LEMMA LongerBody ==
  ASSUME NEW s, NEW size \in Nat, streams[s] \in Stream
  PROVE  /\ Longer(s, size) \in Stream
         /\ Longer(s, size).body = streams[s].body + size
<1>1. \A st \in Stream :
        /\ st.body \in Nat
        /\ st.body + size \in Nat =>
             /\ [st EXCEPT !.body = st.body + size] \in Stream
             /\ [st EXCEPT !.body = st.body + size].body = st.body + size
  BY DEF Stream
<1>2. \A n \in Nat : n + size \in Nat
  BY Sums
<1>3. Longer(s, size) = [streams[s] EXCEPT !.body = streams[s].body + size]
  BY DEF Longer
<1> QED
  BY <1>1, <1>2, <1>3, Zenon

LEMMA OwnRange ==
  ASSUME NEW S, NEW q \in Seq(S)
  PROVE  q \in Seq(Range(q))
<1>1. q \in [1 .. Len(q) -> S] /\ Len(q) \in Nat
  BY LenProperties
<1>2. q \in [1 .. Len(q) -> Range(q)]
  BY <1>1 DEF Range
<1> QED
  BY <1>1, <1>2, SeqDef

LEMMA Lengths ==
  ASSUME Queue
  PROVE  Len(buffer) \in {0, 1, 2} /\ (buffer = <<>> <=> Len(buffer) = 0)
<1>1. buffer \in Seq(Range(buffer)) /\ Len(buffer) <= 2
  BY DEF Queue
<1> HIDE DEF Queue
<1>2. Len(buffer) \in Nat
  BY <1>1, LenProperties
<1>3. buffer = <<>> => Len(buffer) = 0
  BY EmptySeq
<1>4. buffer # <<>> => Len(buffer) # 0
  BY <1>1, EmptySeq
<1>5. Len(buffer) \in {0, 1, 2}
  <2> DEFINE n == Len(buffer)
  <2>1. n \in Nat /\ n <= 2
    BY <1>1, <1>2
  <2> HIDE DEF n
  <2>2. n \in {0, 1, 2}
    BY <2>1
  <2> QED
    BY <2>2 DEF n
<1> QED
  BY <1>3, <1>4, <1>5

(* A frame that comes finds at most one in read_buffer, without payload.   *)
LEMMA Arrives ==
  ASSUME Queue, NEW f, NEW cost, Sends(f, cost)
  PROVE  /\ buffer' \in Seq(Range(buffer'))
         /\ Len(buffer) \in {0, 1} /\ Len(buffer') = Len(buffer) + 1
         /\ \A i \in 1 .. Len(buffer) : buffer'[i] = buffer[i] /\ buffer[i].empty
         /\ buffer'[Len(buffer) + 1] = f
<1>1. ~Processable /\ buffer' = Append(buffer, f)
  BY DEF Sends
<1>2. buffer \in Seq(Range(buffer) \union {f})
  BY SeqMonotonic DEF Queue
<1>3. /\ buffer' \in Seq(Range(buffer) \union {f})
      /\ Len(buffer') = Len(buffer) + 1
      /\ \A i \in 1 .. Len(buffer') : buffer'[i] = IF i <= Len(buffer) THEN buffer[i] ELSE f
  <2>1. f \in Range(buffer) \union {f}
    OBVIOUS
  <2> DEFINE S == Range(buffer) \union {f}
  <2> HIDE DEF S
  <2>2. buffer \in Seq(S) /\ f \in S
    BY <1>2, <2>1 DEF S
  <2>3. buffer' \in Seq(S) /\ Len(buffer') = Len(buffer) + 1
    BY <1>1, <2>2
  <2>4. \A i \in 1 .. Len(buffer') : buffer'[i] = IF i <= Len(buffer) THEN buffer[i] ELSE f
    BY <1>1, <2>2
  <2> QED
    BY <2>3, <2>4 DEF S
<1>4. Len(buffer) \in {0, 1}
  BY <1>1, Lengths DEF Processable
<1>5. \A i \in 1 .. Len(buffer) : buffer[i].empty
  BY <1>1, <1>4 DEF Processable
<1>6. \A i \in 1 .. Len(buffer) : buffer'[i] = buffer[i]
  BY <1>3, <1>4
<1>7. buffer'[Len(buffer) + 1] = f
  BY <1>3, <1>4
<1> QED
  BY <1>3, <1>4, <1>5, <1>6, <1>7, OwnRange

(* What a client's step may do to the bodies and ends it keeps of streams. *)
Accounts(f) ==
  /\ opened' \in {0} \union Streams /\ opened <= opened'
  /\ block' \in {0} \union Streams /\ block' <= opened'
  /\ uploading' \subseteq Streams /\ sent' \in [Streams -> [body : Nat, end : BOOLEAN]]
  /\ f.stream \in {0} \union Streams /\ f.stream <= opened'
  /\ f.type \in {"HEADERS", "DATA", "RST_STREAM"} => f.stream \in Streams
  /\ f.type = "HEADERS" => f.fit \in BOOLEAN
  /\ f.empty => f.type \in {"DATA", "SETTINGS"}
  /\ f.type = "DATA" => f.size \in Nat /\ (f.empty => f.size = 0)
  /\ \A s \in Streams :
       /\ ~Carries(f, s) => sent'[s] = sent[s]
       /\ Carries(f, s) => ~sent[s].end /\ sent'[s].end = f.end
       /\ s \in uploading' => ~sent'[s].end
       /\ s \in uploading' => s \in uploading \/ (f.type = "HEADERS" /\ f.stream = s)
       /\ s > opened' => s \notin uploading' /\ sent'[s] = [body |-> 0, end |-> FALSE]
       /\ f.type = "DATA" /\ f.stream = s => sent'[s].body = sent[s].body + f.size
       /\ f.type = "HEADERS" /\ f.stream = s =>
            sent'[s].body = sent[s].body /\ (streams[s] # None \/ sent[s].body = 0)
       /\ f.type = "RST_STREAM" /\ f.stream = s => s \notin uploading'

(* A frame that waits is of no body and no header block.                   *)
LEMMA Waits ==
  ASSUME Queue, NEW s, \A i \in 1 .. Len(buffer) : buffer[i].empty
  PROVE  Coming(s) = 0 /\ \A i \in 1 .. Len(buffer) : buffer[i].type \in {"DATA", "SETTINGS"}
<1>1. Len(buffer) \in {0, 1, 2} /\ (buffer = <<>> <=> Len(buffer) = 0)
  BY Lengths
<1>2. \A i \in 1 .. Len(buffer) :
        /\ buffer[i].type \in {"DATA", "SETTINGS"}
        /\ buffer[i].type = "DATA" => buffer[i].size = 0
  BY DEF Queue
<1> QED
  BY <1>1, <1>2 DEF Coming

LEMMA ClientKeeps ==
  ASSUME IInv, NEW f, NEW cost, Sends(f, cost), Accounts(f)
  PROVE  IInv'
<1> USE StreamIsNumber
<1>1. Types /\ Queue /\ EndsOnce /\ Bodies /\ Replies /\ RequestWhole
  BY DEF IInv, Sends, Live
<1>2. UNCHANGED <<streams, active, reply, requests, closed, undefined>>
  BY DEF Sends, answers
<1>3. "streams" \in DOMAIN profile' /\ profile'.streams \in Streams
  BY <1>1 DEF Sends, Types
<1>4. /\ buffer' \in Seq(Range(buffer'))
      /\ Len(buffer) \in {0, 1} /\ Len(buffer') = Len(buffer) + 1
      /\ \A i \in 1 .. Len(buffer) : buffer'[i] = buffer[i] /\ buffer[i].empty
      /\ buffer'[Len(buffer) + 1] = f
  BY <1>1, Arrives
<1>5. \A i \in 1 .. Len(buffer) : buffer[i].type \in {"DATA", "SETTINGS"}
  BY <1>1, <1>4, Waits
<1>6. \A s \in Streams : Coming(s) = 0
  BY <1>1, <1>4, Waits
<1>7. \A s \in Streams : Coming(s)' = IF f.type = "DATA" /\ f.stream = s THEN f.size ELSE 0
  <2>1. Len(buffer') = Len(buffer) + 1 /\ Len(buffer) + 1 # 0
    BY <1>4
  <2>2. buffer' # <<>>
    BY <2>1, EmptySeq
  <2> QED
    BY <1>4, <2>1, <2>2 DEF Coming
<1>8. Types'
  BY <1>1, <1>2, <1>3 DEF Types, StreamTypes, Accounts
<1>9. Queue'
  <2>1. \A i \in 1 .. Len(buffer) : buffer[i].stream <= opened'
    <3>1. SUFFICES ASSUME NEW i \in 1 .. Len(buffer) PROVE buffer[i].stream <= opened'
      OBVIOUS
    <3> DEFINE a == buffer[i].stream
    <3>2. a \in {0} \union Streams /\ a <= opened
      BY <1>1 DEF Queue
    <3>3. opened \in {0} \union Streams /\ opened' \in {0} \union Streams /\ opened <= opened'
      BY <1>1 DEF Accounts, Types
    <3> HIDE DEF a
    <3>4. a <= opened'
      BY <3>2, <3>3
    <3> QED
      BY <3>4 DEF a
  <2>2. Len(buffer') <= 2 /\ (Len(buffer') = 2 => buffer'[1].empty)
    BY <1>4
  <2>3. SUFFICES ASSUME NEW i \in 1 .. Len(buffer')
                 PROVE  LET g == buffer'[i] IN
                        /\ g.stream \in {0} \union Streams /\ g.stream <= opened'
                        /\ g.type \in {"HEADERS", "DATA", "RST_STREAM"} => g.stream \in Streams
                        /\ g.type = "HEADERS" => g.fit \in BOOLEAN
                        /\ g.empty => g.type \in {"DATA", "SETTINGS"}
                        /\ g.type = "DATA" => g.size \in Nat /\ (g.empty => g.size = 0)
    BY <1>4, <2>2 DEF Queue
  <2>4. CASE i = Len(buffer) + 1
    BY <1>4, <2>4 DEF Accounts
  <2>5. CASE i \in 1 .. Len(buffer)
    BY <1>1, <1>4, <2>1, <2>5 DEF Queue
  <2> QED
    BY <1>4, <2>4, <2>5
<1>10. EndsOnce'
  <2>1. SUFFICES ASSUME NEW s \in Streams
                 PROVE  (/\ s \in uploading => ~sent[s].end
                         /\ s > opened =>
                              s \notin uploading /\ sent[s] = [body |-> 0, end |-> FALSE]
                         /\ Answering(s) =>
                              sent[s].end /\ \A i \in 1 .. Len(buffer) : ~Carries(buffer[i], s)
                         /\ \A i \in 1 .. Len(buffer) :
                              Carries(buffer[i], s) /\ buffer[i].end =>
                                /\ sent[s].end
                                /\ \A j \in i + 1 .. Len(buffer) : ~Carries(buffer[j], s))'
    BY DEF EndsOnce
  <2>2. (s \in uploading => ~sent[s].end)'
    BY DEF Accounts
  <2>3. (s > opened => s \notin uploading /\ sent[s] = [body |-> 0, end |-> FALSE])'
    BY DEF Accounts
  <2>4. /\ Answering(s) =>
             sent[s].end /\ \A i \in 1 .. Len(buffer) : ~Carries(buffer[i], s)
        /\ \A i \in 1 .. Len(buffer) :
             Carries(buffer[i], s) /\ buffer[i].end => sent[s].end
    BY <1>1 DEF EndsOnce
  <2>5. CASE Carries(f, s)
    <3>1. ~sent[s].end /\ sent'[s].end = f.end
      BY <2>5 DEF Accounts
    <3>2. ~Answering(s) /\ Answering(s)' = Answering(s)
      BY <1>2, <2>4, <3>1 DEF Answering
    <3>3. ~Answering(s)'
      BY <3>2
    <3>4. \A i \in 1 .. Len(buffer) : Carries(buffer[i], s) => ~buffer[i].end
      BY <2>4, <3>1
    <3>5. (\A i \in 1 .. Len(buffer) :
             Carries(buffer[i], s) /\ buffer[i].end =>
               sent[s].end /\ \A j \in i + 1 .. Len(buffer) : ~Carries(buffer[j], s))'
      BY <1>4, <3>1, <3>4 DEF Carries
    <3> QED
      BY <2>2, <2>3, <3>3, <3>5
  <2>6. CASE ~Carries(f, s)
    <3>1. sent'[s] = sent[s]
      BY <2>6 DEF Accounts
    <3>2. Answering(s)' = Answering(s)
      BY <1>2 DEF Answering
    <3>3. (Answering(s) => /\ sent[s].end
                           /\ \A i \in 1 .. Len(buffer) : ~Carries(buffer[i], s))'
      BY <1>4, <2>4, <2>6, <3>1, <3>2 DEF Carries
    <3>4. (\A i \in 1 .. Len(buffer) :
             Carries(buffer[i], s) /\ buffer[i].end =>
               sent[s].end /\ \A j \in i + 1 .. Len(buffer) : ~Carries(buffer[j], s))'
      BY <1>4, <2>4, <2>6, <3>1 DEF Carries
    <3> QED
      BY <2>2, <2>3, <3>3, <3>4
  <2> QED
    BY <2>5, <2>6
<1>11. Bodies'
  <2>1. SUFFICES ASSUME NEW s \in Streams
                 PROVE  (/\ streams[s] # None => streams[s].body + Coming(s) = sent[s].body
                         /\ \A i \in 1 .. Len(buffer) :
                              buffer[i].stream = s =>
                                /\ buffer[i].type = "HEADERS" =>
                                     streams[s] # None \/ sent[s].body = 0
                                /\ buffer[i].type = "RST_STREAM" => s \notin uploading
                         /\ s \in uploading =>
                              \/ streams[s] # None
                              \/ \E i \in 1 .. Len(buffer) :
                                   buffer[i].type = "HEADERS" /\ buffer[i].stream = s)'
    BY DEF Bodies
  <2>2. (streams[s] # None => streams[s].body + Coming(s) = sent[s].body)'
    <3>1. SUFFICES ASSUME streams[s] # None
                   PROVE  streams[s].body + Coming(s)' = sent'[s].body
      BY <1>2
    <3> DEFINE a == streams[s].body
               b == sent[s].body
               c == sent'[s].body
    <3>2. a + 0 = b
      BY <1>1, <1>6, <3>1 DEF Bodies
    <3>3. a \in Nat /\ b \in Nat
      BY <1>1, <3>1, BodyIsNumber DEF Types
    <3>4. f.type = "DATA" /\ f.stream = s => c = b + f.size /\ f.size \in Nat
      BY DEF Accounts
    <3>5. ~(f.type = "DATA" /\ f.stream = s) => c = b
      BY DEF Accounts, Carries
    <3>6. Coming(s)' = IF f.type = "DATA" /\ f.stream = s THEN f.size ELSE 0
      BY <1>7
    <3> HIDE DEF a, b, c
    <3>7. a + Coming(s)' = c
      BY <3>2, <3>3, <3>4, <3>5, <3>6
    <3> QED
      BY <3>7 DEF a, c
  <2>3. (\A i \in 1 .. Len(buffer) :
           buffer[i].stream = s =>
             /\ buffer[i].type = "HEADERS" => streams[s] # None \/ sent[s].body = 0
             /\ buffer[i].type = "RST_STREAM" => s \notin uploading)'
    BY <1>2, <1>4, <1>5 DEF Accounts
  <2>4. (s \in uploading =>
           \/ streams[s] # None
           \/ \E i \in 1 .. Len(buffer) :
                buffer[i].type = "HEADERS" /\ buffer[i].stream = s)'
    <3>1. CASE s \in uploading
      <4>1. streams[s] # None
        BY <1>1, <1>5, <3>1 DEF Bodies
      <4> QED
        BY <1>2, <4>1
    <3>2. CASE f.type = "HEADERS" /\ f.stream = s
      BY <1>4, <3>2
    <3> QED
      BY <3>1, <3>2 DEF Accounts
  <2> QED
    BY <2>2, <2>3, <2>4
<1>12. Replies'
  BY <1>1, <1>2 DEF Replies
<1>13. RequestWhole'
  <2>1. SUFFICES ASSUME NEW s \in Streams, requests[s] # None
                 PROVE  sent'[s].end /\ requests[s] = sent'[s].body
    BY <1>2 DEF RequestWhole
  <2>2. sent[s].end /\ requests[s] = sent[s].body
    BY <1>1, <2>1 DEF RequestWhole
  <2>3. sent'[s] = sent[s]
    BY <2>2 DEF Accounts
  <2> QED
    BY <2>2, <2>3
<1> QED
  BY <1>8, <1>9, <1>10, <1>11, <1>12, <1>13 DEF IInv


-----------------------------------------------------------------------------
(* A frame that is taken has a payload and is the last one, or another one *)
(* has come behind it.                                                     *)
LEMMA Takes ==
  ASSUME Queue, NEW type, Taken(type)
  PROVE  /\ Live /\ Len(buffer) \in {1, 2} /\ Head(buffer) = buffer[1]
         /\ buffer[1].type = type
         /\ buffer' \in Seq(Range(buffer')) /\ Len(buffer') = Len(buffer) - 1
         /\ \A i \in 1 .. Len(buffer') : buffer'[i] = buffer[i + 1]
         /\ Len(buffer) = 2 <=> buffer[1].empty
<1>1. buffer \in Seq(Range(buffer)) /\ Len(buffer) \in {0, 1, 2}
      /\ (buffer = <<>> <=> Len(buffer) = 0) /\ (Len(buffer) = 2 => buffer[1].empty)
  BY Lengths DEF Queue
<1>2. Processable /\ Head(buffer).type = type /\ buffer' = Tail(buffer) /\ Live
  BY DEF Taken
<1>3. Len(buffer) \in {1, 2}
  BY <1>1, <1>2 DEF Processable
<1>4. buffer # <<>> /\ Head(buffer) = buffer[1]
  BY <1>1, <1>3
<1>5. Len(buffer) = 2 <=> buffer[1].empty
  BY <1>1, <1>2, <1>3, <1>4 DEF Processable
<1>6. /\ buffer' \in Seq(Range(buffer)) /\ Len(buffer') = Len(buffer) - 1
      /\ \A i \in 1 .. Len(buffer') : buffer'[i] = buffer[i + 1]
  BY <1>1, <1>2, <1>4, HeadTailProperties
<1>7. buffer' \in Seq(Range(buffer'))
  BY <1>6, OwnRange
<1> QED
  BY <1>2, <1>3, <1>4, <1>5, <1>6, <1>7

LEMMA QueueKept ==
  ASSUME IInv, NEW type, Taken(type)
  PROVE  Queue'
<1>1. Queue
  BY DEF IInv
<1>2. /\ Len(buffer) \in {1, 2}
      /\ buffer' \in Seq(Range(buffer')) /\ Len(buffer') = Len(buffer) - 1
      /\ \A i \in 1 .. Len(buffer') : buffer'[i] = buffer[i + 1]
  BY <1>1, Takes
<1>3. Len(buffer') \in {0, 1} /\ \A i \in 1 .. Len(buffer') : i + 1 \in 1 .. Len(buffer)
  BY <1>2
<1>4. opened' = opened
  BY DEF Taken, client
<1> QED
  BY <1>1, <1>2, <1>3, <1>4 DEF Queue

(* The end of a request is followed by nothing of its stream, so that the  *)
(* answer may begin.                                                       *)
LEMMA EndsKept ==
  ASSUME IInv, NEW type, Taken(type),
         \A s \in Streams : Answering(s)' =>
           Answering(s) \/ (Carries(buffer[1], s) /\ buffer[1].end)
  PROVE  EndsOnce'
<1>1. Queue /\ EndsOnce
  BY DEF IInv
<1>2. /\ Len(buffer) \in {1, 2} /\ Len(buffer') = Len(buffer) - 1
      /\ \A i \in 1 .. Len(buffer') : buffer'[i] = buffer[i + 1]
  BY <1>1, Takes
<1>3. opened' = opened /\ uploading' = uploading /\ sent' = sent
  BY DEF Taken, client
<1>4. Len(buffer') = 0 \/ (Len(buffer') = 1 /\ Len(buffer) = 2 /\ buffer'[1] = buffer[2])
  BY <1>2
<1>5. SUFFICES ASSUME NEW s \in Streams
               PROVE  (/\ s \in uploading => ~sent[s].end
                       /\ s > opened =>
                            s \notin uploading /\ sent[s] = [body |-> 0, end |-> FALSE]
                       /\ Answering(s) =>
                            sent[s].end /\ \A i \in 1 .. Len(buffer) : ~Carries(buffer[i], s)
                       /\ \A i \in 1 .. Len(buffer) :
                            Carries(buffer[i], s) /\ buffer[i].end =>
                              /\ sent[s].end
                              /\ \A j \in i + 1 .. Len(buffer) : ~Carries(buffer[j], s))'
  BY DEF EndsOnce
<1>6. /\ s \in uploading => ~sent[s].end
      /\ s > opened => s \notin uploading /\ sent[s] = [body |-> 0, end |-> FALSE]
  BY <1>1 DEF EndsOnce
<1>7. Answering(s) =>
        sent[s].end /\ \A i \in 1 .. Len(buffer) : ~Carries(buffer[i], s)
  BY <1>1 DEF EndsOnce
<1>8. \A i \in 1 .. Len(buffer) :
        Carries(buffer[i], s) /\ buffer[i].end =>
          sent[s].end /\ \A j \in i + 1 .. Len(buffer) : ~Carries(buffer[j], s)
  BY <1>1 DEF EndsOnce
<1>9. (Answering(s) => sent[s].end /\ \A i \in 1 .. Len(buffer) : ~Carries(buffer[i], s))'
  <2>1. SUFFICES ASSUME Answering(s)'
                 PROVE  sent[s].end /\ \A i \in 1 .. Len(buffer') : ~Carries(buffer'[i], s)
    BY <1>3 DEF Carries
  <2>2. CASE Answering(s)
    BY <1>2, <1>4, <1>7, <2>2
  <2>3. CASE Carries(buffer[1], s) /\ buffer[1].end
    BY <1>2, <1>4, <1>8, <2>3
  <2> QED
    BY <2>1, <2>2, <2>3
<1>10. (\A i \in 1 .. Len(buffer) :
          Carries(buffer[i], s) /\ buffer[i].end =>
            sent[s].end /\ \A j \in i + 1 .. Len(buffer) : ~Carries(buffer[j], s))'
  <2>1. SUFFICES ASSUME NEW i \in 1 .. Len(buffer'), Carries(buffer'[i], s), buffer'[i].end
                 PROVE  /\ sent[s].end
                        /\ \A j \in i + 1 .. Len(buffer') : ~Carries(buffer'[j], s)
    BY <1>3 DEF Carries
  <2> QED
    BY <1>2, <1>4, <1>8, <2>1
<1> QED
  BY <1>3, <1>6, <1>9, <1>10

(* What a frame adds to the body of a stream is no longer coming.          *)
Adds(f, s) == IF f.type = "DATA" /\ f.stream = s THEN f.size ELSE 0
LEMMA Came ==
  ASSUME Queue, NEW type, Taken(type), NEW s \in Streams
  PROVE  /\ Coming(s) \in Nat /\ Coming(s)' \in Nat /\ Adds(buffer[1], s) \in Nat
         /\ Coming(s) = Coming(s)' + Adds(buffer[1], s)
         /\ buffer[1].type \notin {"DATA", "SETTINGS"} => buffer' = <<>>
<1>1. /\ Len(buffer) \in {1, 2} /\ Len(buffer') = Len(buffer) - 1
      /\ buffer' \in Seq(Range(buffer'))
      /\ \A i \in 1 .. Len(buffer') : buffer'[i] = buffer[i + 1]
      /\ Len(buffer) = 2 <=> buffer[1].empty
  BY Takes
<1>2. \A i \in 1 .. Len(buffer) :
        /\ buffer[i].empty => buffer[i].type \in {"DATA", "SETTINGS"}
        /\ buffer[i].type = "DATA" =>
             buffer[i].size \in Nat /\ (buffer[i].empty => buffer[i].size = 0)
  BY DEF Queue
<1>3. buffer # <<>>
  BY <1>1, EmptySeq
<1>4. CASE Len(buffer) = 1
  <2>1. Len(buffer') = 0
    BY <1>1, <1>4
  <2>2. buffer' = <<>>
    BY <1>1, <2>1, EmptySeq
  <2>3. Coming(s)' = 0
    BY <2>2 DEF Coming
  <2>4. Coming(s) = Adds(buffer[1], s) /\ Coming(s) \in Nat
    BY <1>2, <1>3, <1>4 DEF Coming, Adds
  <2> QED
    BY <2>2, <2>3, <2>4
<1>5. CASE Len(buffer) = 2
  <2>1. Len(buffer') = 1 /\ buffer'[1] = buffer[2] /\ buffer[1].empty
    BY <1>1, <1>5
  <2>2. buffer' # <<>>
    BY <2>1, EmptySeq
  <2>3. Coming(s)' = Coming(s) /\ Coming(s) \in Nat
    BY <1>2, <1>3, <1>5, <2>1, <2>2 DEF Coming
  <2>4. Adds(buffer[1], s) = 0 /\ buffer[1].type \in {"DATA", "SETTINGS"}
    BY <1>2, <1>5, <2>1 DEF Adds
  <2> QED
    BY <2>3, <2>4
<1> QED
  BY <1>1, <1>4, <1>5

(* What handling a frame does to the server's streams.                     *)
Handles(f) ==
  \A s \in Streams :
    /\ streams'[s] # None =>
         \/ streams[s] # None /\ streams'[s].body = streams[s].body + Adds(f, s)
         \/ streams[s] = None /\ f.type = "HEADERS" /\ f.stream = s /\ streams'[s].body = 0
    /\ streams[s] # None /\ streams'[s] = None =>
         \/ f.type = "RST_STREAM" /\ f.stream = s
         \/ Carries(f, s) /\ f.end
    /\ f.type = "HEADERS" /\ f.stream = s => streams'[s] # None \/ f.end

LEMMA BodiesKept ==
  ASSUME IInv, NEW type, Taken(type), Handles(buffer[1]), StreamTypes'
  PROVE  Bodies'
<1>1. Types /\ Queue /\ EndsOnce /\ Bodies
  BY DEF IInv, Taken
<1>2. /\ Len(buffer) \in {1, 2} /\ Len(buffer') = Len(buffer) - 1
      /\ \A i \in 1 .. Len(buffer') : buffer'[i] = buffer[i + 1]
      /\ Len(buffer) = 2 <=> buffer[1].empty
  BY <1>1, Takes
<1>3. Len(buffer') = 0 \/ (/\ Len(buffer') = 1 /\ Len(buffer) = 2
                           /\ buffer'[1] = buffer[2] /\ buffer[1].empty)
  BY <1>2
<1>4. uploading' = uploading /\ sent' = sent
  BY DEF Taken, client
<1>5. buffer[1].empty => buffer[1].type \in {"DATA", "SETTINGS"}
  BY <1>1, <1>2 DEF Queue
<1>6. SUFFICES ASSUME NEW s \in Streams
               PROVE  (/\ streams[s] # None => streams[s].body + Coming(s) = sent[s].body
                       /\ \A i \in 1 .. Len(buffer) :
                            buffer[i].stream = s =>
                              /\ buffer[i].type = "HEADERS" =>
                                   streams[s] # None \/ sent[s].body = 0
                              /\ buffer[i].type = "RST_STREAM" => s \notin uploading
                       /\ s \in uploading =>
                            \/ streams[s] # None
                            \/ \E i \in 1 .. Len(buffer) :
                                 buffer[i].type = "HEADERS" /\ buffer[i].stream = s)'
  BY DEF Bodies
<1>7. /\ streams[s] # None => streams[s].body + Coming(s) = sent[s].body
      /\ \A i \in 1 .. Len(buffer) :
           buffer[i].stream = s =>
             /\ buffer[i].type = "HEADERS" => streams[s] # None \/ sent[s].body = 0
             /\ buffer[i].type = "RST_STREAM" => s \notin uploading
      /\ s \in uploading =>
           \/ streams[s] # None
           \/ \E i \in 1 .. Len(buffer) :
                buffer[i].type = "HEADERS" /\ buffer[i].stream = s
  BY <1>1 DEF Bodies
<1>8. \A i \in 1 .. Len(buffer) :
        Carries(buffer[i], s) /\ buffer[i].end =>
          sent[s].end /\ \A j \in i + 1 .. Len(buffer) : ~Carries(buffer[j], s)
  BY <1>1 DEF EndsOnce
<1>9. s \in uploading => ~sent[s].end
  BY <1>1 DEF EndsOnce
<1>10. (streams[s] # None => streams[s].body + Coming(s) = sent[s].body)'
  <2>1. SUFFICES ASSUME streams'[s] # None
                 PROVE  streams'[s].body + Coming(s)' = sent[s].body
    BY <1>4
  <2>2. /\ Coming(s) \in Nat /\ Coming(s)' \in Nat /\ Adds(buffer[1], s) \in Nat
        /\ Coming(s) = Coming(s)' + Adds(buffer[1], s)
        /\ buffer[1].type \notin {"DATA", "SETTINGS"} => buffer' = <<>>
    BY <1>1, Came
  <2>3. CASE streams[s] # None /\ streams'[s].body = streams[s].body + Adds(buffer[1], s)
    <3> DEFINE a == streams[s].body
               b == streams'[s].body
               c == sent[s].body
    <3>1. a \in Nat /\ b = a + Adds(buffer[1], s) /\ a + Coming(s) = c
      BY <1>1, <1>7, <2>3, BodyIsNumber DEF Types
    <3> HIDE DEF a, b, c
    <3>2. b + Coming(s)' = c
      BY <2>2, <3>1
    <3> QED
      BY <3>2 DEF b, c
  <2>4. CASE /\ streams[s] = None /\ streams'[s].body = 0
             /\ buffer[1].type = "HEADERS" /\ buffer[1].stream = s
    <3>1. sent[s].body = 0
      BY <1>2, <1>7, <2>4
    <3>2. buffer' = <<>>
      BY <2>2, <2>4
    <3>3. Coming(s)' = 0
      BY <3>2 DEF Coming
    <3> QED
      BY <2>4, <3>1, <3>3
  <2> QED
    BY <2>1, <2>3, <2>4 DEF Handles
<1>11. (\A i \in 1 .. Len(buffer) :
          buffer[i].stream = s =>
            /\ buffer[i].type = "HEADERS" => streams[s] # None \/ sent[s].body = 0
            /\ buffer[i].type = "RST_STREAM" => s \notin uploading)'
  <2>1. SUFFICES ASSUME NEW i \in 1 .. Len(buffer'), buffer'[i].stream = s
                 PROVE  /\ buffer'[i].type = "HEADERS" =>
                             streams'[s] # None \/ sent[s].body = 0
                        /\ buffer'[i].type = "RST_STREAM" => s \notin uploading
    BY <1>4
  <2>2. i = 1 /\ Len(buffer) = 2 /\ buffer'[1] = buffer[2]
        /\ buffer[1].type \in {"DATA", "SETTINGS"}
    BY <1>3, <1>5, <2>1
  <2>3. buffer[2].stream = s
    BY <2>1, <2>2
  <2>4. buffer[2].type = "RST_STREAM" => s \notin uploading
    BY <1>7, <2>2, <2>3
  <2>5. ASSUME buffer[2].type = "HEADERS" PROVE streams'[s] # None \/ sent[s].body = 0
    <3>1. Carries(buffer[2], s)
      BY <2>3, <2>5 DEF Carries
    <3>2. ~(Carries(buffer[1], s) /\ buffer[1].end)
      BY <1>8, <2>2, <3>1
    <3>3. streams[s] # None => streams'[s] # None
      BY <2>2, <3>2 DEF Handles
    <3> QED
      BY <1>7, <2>2, <2>3, <2>5, <3>3
  <2> QED
    BY <2>2, <2>4, <2>5
<1>12. (s \in uploading =>
          \/ streams[s] # None
          \/ \E i \in 1 .. Len(buffer) :
               buffer[i].type = "HEADERS" /\ buffer[i].stream = s)'
  <2>1. SUFFICES ASSUME s \in uploading, streams'[s] = None
                 PROVE  \E i \in 1 .. Len(buffer') :
                          buffer'[i].type = "HEADERS" /\ buffer'[i].stream = s
    BY <1>4
  <2>2. ~sent[s].end
    BY <1>9, <2>1
  <2>3. ~(Carries(buffer[1], s) /\ buffer[1].end)
    BY <1>2, <1>8, <2>2
  <2>4. ~(buffer[1].type = "RST_STREAM" /\ buffer[1].stream = s)
    BY <1>2, <1>7, <2>1
  <2>5. streams[s] = None
    BY <2>1, <2>3, <2>4 DEF Handles
  <2>6. PICK i \in 1 .. Len(buffer) : buffer[i].type = "HEADERS" /\ buffer[i].stream = s
    BY <1>7, <2>1, <2>5
  <2>7. i # 1
    BY <2>1, <2>3, <2>6 DEF Handles, Carries
  <2>8. i = 2 /\ Len(buffer) = 2
    BY <1>2, <2>6, <2>7
  <2>9. 1 \in 1 .. Len(buffer') /\ buffer'[1] = buffer[2]
    <3>1. Len(buffer') # 0
      BY <1>2, <2>8
    <3>2. Len(buffer') = 1 /\ buffer'[1] = buffer[2]
      BY <1>3, <3>1
    <3> QED
      BY <3>2
  <2>10. buffer'[1].type = "HEADERS" /\ buffer'[1].stream = s
    BY <2>6, <2>8, <2>9
  <2> QED
    BY <2>9, <2>10
<1> QED
  BY <1>10, <1>11, <1>12


-----------------------------------------------------------------------------
LEMMA SendReplies ==
  ASSUME NEW s, NEW headers, NEW end, Send(s, headers, end)
  PROVE  reply' = [reply EXCEPT ![s] = IF @ # "none" THEN "broken"
                                         ELSE IF end THEN "ended" ELSE "open"]
BY DEF Send

(* The states a response may be in.                                        *)
Answers ==
  /\ active \in [Streams -> {"none", "delayed", "open"}]
  /\ reply \in [Streams -> {"none", "open", "ended", "broken"}]
  /\ Replies

(* A request that was not answered yet is answered, or its stream kept     *)
(* until it is.                                                            *)
LEMMA RequestAnswers ==
  ASSUME Answers, NEW s \in Streams, ~Answering(s), NEW stream, Respond(s, stream)
  PROVE  /\ Answers'
         /\ \A t \in Streams : Answering(t)' => Answering(t) \/ t = s
<1>1. reply[s] = "none" /\ active[s] = "none"
  BY DEF Answering
<1>2. CASE /\ \E headers \in Responses : Send(s, headers, TRUE)
           /\ UNCHANGED active
  <2>1. reply' = [reply EXCEPT ![s] = "ended"]
    BY <1>1, <1>2, SendReplies
  <2> QED
    BY <1>1, <1>2, <2>1 DEF Answers, Replies, Answering
<1>3. CASE /\ \E headers \in Responses : Send(s, headers, FALSE)
           /\ active' = [active EXCEPT ![s] = "open"]
  <2>1. reply' = [reply EXCEPT ![s] = "open"]
    BY <1>1, <1>3, SendReplies
  <2> QED
    BY <1>1, <1>3, <2>1 DEF Answers, Replies, Answering
<1>4. CASE active' = [active EXCEPT ![s] = "delayed"] /\ UNCHANGED reply
  BY <1>1, <1>4 DEF Answers, Replies, Answering
<1>5. CASE UNCHANGED <<active, reply>>
  BY <1>5 DEF Answers, Replies, Answering
<1> QED
  BY <1>2, <1>3, <1>4, <1>5 DEF Respond

LEMMA RequestStreams ==
  ASSUME StreamTypes, NEW s \in Streams,
         NEW stream \in Stream, Respond(s, stream)
  PROVE  /\ StreamTypes'
         /\ undefined' \/ streams' \in {[streams EXCEPT ![s] = None],
                                         [streams EXCEPT ![s] = stream]}
<1>1. CASE undefined' /\ UNCHANGED streams
  BY <1>1 DEF StreamTypes
<1>2. CASE streams' = [streams EXCEPT ![s] = None]
  BY <1>2 DEF StreamTypes
<1>3. CASE streams' = [streams EXCEPT ![s] = stream]
  BY <1>3 DEF StreamTypes
<1> QED
  BY <1>1, <1>2, <1>3 DEF Respond, Freed

(* A step of the server: the frame taken has made only the requests whole  *)
(* that it gives to the pipeline, and begun only their responses.          *)
LEMMA ServerKeeps ==
  ASSUME IInv, NEW type, Taken(type), StreamTypes', Answers', DOMAIN requests' = Streams,
         Live' => Handles(buffer[1]),
         \A s \in Streams : Answering(s)' =>
           Answering(s) \/ (Carries(buffer[1], s) /\ buffer[1].end),
         RequestWhole'
  PROVE  IInv'
<1>1. Types /\ Queue /\ EndsOnce /\ Bodies /\ Replies /\ RequestWhole
  BY DEF IInv, Taken
<1>2. UNCHANGED client
  BY DEF Taken
<1>3. Types'
  <2>1. (/\ opened \in {0} \union Streams /\ uploading \subseteq Streams
         /\ block \in {0} \union Streams /\ block <= opened
         /\ "streams" \in DOMAIN profile /\ profile.streams \in Streams
         /\ sent \in [Streams -> [body : Nat, end : BOOLEAN]])'
    BY <1>1, <1>2 DEF Types, client
  <2> QED
    BY <2>1 DEF Types, Answers
<1>4. Live' => Bodies'
  BY BodiesKept
<1>5. Queue' /\ EndsOnce'
  BY QueueKept, EndsKept
<1>6. Replies'
  BY DEF Answers
<1> QED
  BY <1>3, <1>4, <1>5, <1>6 DEF IInv

LEMMA IsAnswers ==
  ASSUME IInv
  PROVE  Answers /\ StreamTypes /\ DOMAIN requests = Streams
BY DEF IInv, Types, Answers

(* The head of read_buffer, and what is known of it.                       *)
LEMMA Taking ==
  ASSUME IInv, NEW type, Taken(type)
  PROVE  /\ Head(buffer) = buffer[1] /\ buffer[1].type = type /\ Live
         /\ type \in {"HEADERS", "DATA", "RST_STREAM"} => buffer[1].stream \in Streams
         /\ type = "DATA" => buffer[1].size \in Nat
         /\ type = "HEADERS" => buffer' = <<>> /\ buffer[1].fit \in BOOLEAN
         /\ \A s \in Streams :
              /\ Carries(buffer[1], s) => ~Answering(s)
              /\ Carries(buffer[1], s) /\ buffer[1].end =>
                   sent[s].end /\ Coming(s) = Adds(buffer[1], s)
         /\ UNCHANGED <<sent, uploading, opened>>
<1>1. Queue /\ EndsOnce
  BY DEF IInv
<1>2. /\ Live /\ Len(buffer) \in {1, 2} /\ Head(buffer) = buffer[1]
      /\ buffer[1].type = type
      /\ Len(buffer') = Len(buffer) - 1
      /\ \A i \in 1 .. Len(buffer') : buffer'[i] = buffer[i + 1]
  BY <1>1, Takes
<1>3. 1 \in 1 .. Len(buffer)
  BY <1>2
<1>4. /\ type \in {"HEADERS", "DATA", "RST_STREAM"} => buffer[1].stream \in Streams
      /\ type = "DATA" => buffer[1].size \in Nat
      /\ type = "HEADERS" => buffer[1].fit \in BOOLEAN
  BY <1>1, <1>2, <1>3 DEF Queue
<1>5. UNCHANGED <<sent, uploading, opened>>
  BY DEF Taken, client
<1>6. type = "HEADERS" => buffer' = <<>>
  <2>1. Streams # {} => (type = "HEADERS" => buffer' = <<>>)
    BY <1>1, <1>2, Came
  <2> QED
    BY <1>4, <2>1
<1>7. SUFFICES ASSUME NEW s \in Streams
               PROVE  /\ Carries(buffer[1], s) => ~Answering(s)
                      /\ Carries(buffer[1], s) /\ buffer[1].end =>
                           sent[s].end /\ Coming(s) = Adds(buffer[1], s)
  BY <1>2, <1>4, <1>5, <1>6
<1>8. Carries(buffer[1], s) => ~Answering(s)
  BY <1>1, <1>3 DEF EndsOnce
<1>9. ASSUME Carries(buffer[1], s), buffer[1].end
      PROVE  sent[s].end /\ Coming(s) = Adds(buffer[1], s)
  <2>1. sent[s].end /\ \A j \in 2 .. Len(buffer) : ~Carries(buffer[j], s)
    <3>1. 1 + 1 = 2
      OBVIOUS
    <3> QED
      BY <1>1, <1>3, <1>9, <3>1 DEF EndsOnce
  <2>2. Coming(s) \in Nat /\ Adds(buffer[1], s) \in Nat
        /\ Coming(s) = Coming(s)' + Adds(buffer[1], s)
    BY <1>1, Came
  <2>3. Coming(s)' = 0
    <3>1. CASE buffer' = <<>>
      BY <3>1 DEF Coming
    <3>2. CASE buffer' # <<>> /\ Len(buffer') # 0
      <4>1. Len(buffer') = 1 /\ Len(buffer) = 2 /\ buffer'[1] = buffer[2]
        BY <1>2, <3>2
      <4>2. ~Carries(buffer[2], s)
        BY <2>1, <4>1
      <4> QED
        BY <4>1, <4>2 DEF Coming, Carries
    <3>3. CASE Len(buffer') = 0
      <4>1. buffer' = <<>>
        BY <1>1, <3>3, Takes, EmptySeq
      <4> QED
        BY <4>1 DEF Coming
    <3> QED
      BY <3>1, <3>2, <3>3
  <2> QED
    BY <2>1, <2>2, <2>3
<1> QED
  BY <1>8, <1>9


-----------------------------------------------------------------------------
(* Giving a request to the pipeline keeps its streams' books, if the       *)
(* request has the body that its client sent.                              *)
LEMMA RequestKeeps ==
  ASSUME IInv, NEW type \in {"HEADERS", "DATA"}, Taken(type), buffer[1].end,
         NEW s, s = buffer[1].stream,
         NEW stream \in Stream, Respond(s, stream),
         stream.body = sent[s].body,
         \/ streams[s] # None /\ stream.body = streams[s].body + Adds(buffer[1], s)
         \/ streams[s] = None /\ type = "HEADERS" /\ stream.body = 0
  PROVE  IInv'
<1>1. /\ buffer[1].type = type /\ s \in Streams
      /\ \A t \in Streams :
           /\ Carries(buffer[1], t) => ~Answering(t)
           /\ Carries(buffer[1], t) /\ buffer[1].end =>
                sent[t].end /\ Coming(t) = Adds(buffer[1], t)
      /\ UNCHANGED <<sent, uploading, opened>>
  BY Taking
<1>2. Carries(buffer[1], s) /\ ~Answering(s) /\ sent[s].end
  BY <1>1 DEF Carries
<1>3. Answers /\ StreamTypes /\ DOMAIN requests = Streams /\ RequestWhole
  BY IsAnswers DEF IInv
<1>4. /\ Answers'
      /\ \A t \in Streams : Answering(t)' => Answering(t) \/ t = s
  BY <1>1, <1>2, <1>3, RequestAnswers
<1>5. /\ StreamTypes'
      /\ undefined' \/ streams' \in {[streams EXCEPT ![s] = None],
                                      [streams EXCEPT ![s] = stream]}
  BY <1>1, <1>3, RequestStreams
<1>6. \A t \in Streams : Answering(t)' =>
        Answering(t) \/ (Carries(buffer[1], t) /\ buffer[1].end)
  BY <1>2, <1>4
<1>7. requests' = [requests EXCEPT ![s] = sent[s].body]
  BY DEF Respond
<1>8. DOMAIN requests' = Streams /\ RequestWhole'
  <2>1. DOMAIN requests' = Streams
    BY <1>3, <1>7
  <2>2. SUFFICES ASSUME NEW t \in Streams, requests'[t] # None
                 PROVE  sent[t].end /\ requests'[t] = sent[t].body
    BY <1>1, <2>1 DEF RequestWhole
  <2>3. CASE t = s
    BY <1>1, <1>2, <1>3, <1>7, <2>3
  <2>4. CASE t # s
    <3>1. requests'[t] = requests[t]
      BY <1>3, <1>7, <2>4
    <3> QED
      BY <1>3, <2>2, <3>1 DEF RequestWhole
  <2> QED
    BY <2>3, <2>4
<1>9. Live' => Handles(buffer[1])
  <2>1. SUFFICES ASSUME streams' \in {[streams EXCEPT ![s] = None],
                                      [streams EXCEPT ![s] = stream]},
                        NEW t \in Streams
                 PROVE  /\ streams'[t] # None =>
                             \/ /\ streams[t] # None
                                /\ streams'[t].body = streams[t].body + Adds(buffer[1], t)
                             \/ /\ streams[t] = None /\ buffer[1].type = "HEADERS"
                                /\ buffer[1].stream = t /\ streams'[t].body = 0
                        /\ streams[t] # None /\ streams'[t] = None =>
                             \/ buffer[1].type = "RST_STREAM" /\ buffer[1].stream = t
                             \/ Carries(buffer[1], t) /\ buffer[1].end
                        /\ buffer[1].type = "HEADERS" /\ buffer[1].stream = t =>
                             streams'[t] # None \/ buffer[1].end
    BY <1>5 DEF Handles, Live
  <2>2. CASE t = s
    BY <1>1, <1>2, <1>3, <2>1, <2>2 DEF StreamTypes
  <2>3. CASE t # s
    <3>1. streams'[t] = streams[t]
      BY <1>3, <2>1, <2>3 DEF StreamTypes
    <3>2. Adds(buffer[1], t) = 0
      BY <2>3 DEF Adds
    <3>3. streams[t] # None => streams[t].body + 0 = streams[t].body
      BY <1>3, BodyIsNumber
    <3> QED
      BY <1>1, <2>3, <3>1, <3>2, <3>3
  <2> QED
    BY <2>2, <2>3
<1> QED
  BY <1>4, <1>5, <1>6, <1>8, <1>9, ServerKeeps

(* A frame that makes no request: the answers go on as they did.           *)
LEMMA OtherKeeps ==
  ASSUME IInv, NEW type, Taken(type), UNCHANGED <<active, reply, requests>>, StreamTypes',
         Live' => Handles(buffer[1])
  PROVE  IInv'
<1>1. Answers /\ DOMAIN requests = Streams /\ RequestWhole
  BY IsAnswers DEF IInv
<1>2. Answers' /\ DOMAIN requests' = Streams
  BY <1>1 DEF Answers, Replies
<1>3. \A s \in Streams : Answering(s)' => Answering(s)
  BY DEF Answering
<1>4. RequestWhole'
  BY <1>1 DEF RequestWhole, Taken, client
<1> QED
  BY <1>2, <1>3, <1>4, ServerKeeps

(* Or it changes no stream.                                                *)
LEMMA Unhandled ==
  ASSUME IInv, NEW type, Taken(type), UNCHANGED <<active, reply, requests, streams>>,
         type \notin {"DATA", "HEADERS"} \/ ~Live'
  PROVE  IInv'
<1>1. StreamTypes /\ StreamTypes'
  BY IsAnswers DEF StreamTypes
<1>2. buffer[1].type = type
  BY Taking
<1>3. type \notin {"DATA", "HEADERS"} => Handles(buffer[1])
  <2>1. SUFFICES ASSUME type \notin {"DATA", "HEADERS"} PROVE Handles(buffer[1])
    OBVIOUS
  <2>2. \A s \in Streams : Adds(buffer[1], s) = 0
    BY <1>2, <2>1 DEF Adds
  <2>3. \A s \in Streams : streams[s] # None => streams[s].body + 0 = streams[s].body
    BY <1>1, BodyIsNumber
  <2> QED
    BY <1>2, <2>1, <2>2, <2>3 DEF Handles
<1> QED
  BY <1>1, <1>3, OtherKeeps

(* A request that is not fit ends the connection.                          *)
Refused == closed' = TRUE /\ UNCHANGED <<streams, undefined>> /\ UNCHANGED answers

LEMMA DataKeeps ==
  ASSUME IInv, DataFrame
  PROVE  IInv'
<1> DEFINE f == Head(buffer)
           s == f.stream
           longer == Longer(s, f.size)
<1>1. Taken("DATA")
  BY DEF DataFrame
<1>2. /\ Head(buffer) = buffer[1] /\ buffer[1].type = "DATA" /\ Live
      /\ buffer[1].stream \in Streams /\ buffer[1].size \in Nat
      /\ \A t \in Streams :
           Carries(buffer[1], t) /\ buffer[1].end =>
             sent[t].end /\ Coming(t) = Adds(buffer[1], t)
  BY <1>1, Taking
<1>3. CASE Refuse \/ Refused
  BY <1>1, <1>3, Unhandled DEF Refuse, Refused, answers, Live
<1>4. CASE /\ ~(streams[s] = None \/ streams[s].state # "open" \/ PostTooLong(s, f.size))
           /\ ~Refuse /\ ~Refused
  <2>1. streams[s] # None /\ streams[s] \in Stream
    BY <1>2, <1>4, IsAnswers DEF StreamTypes
  <2>2. longer \in Stream
        /\ longer.body = streams[s].body + f.size
    BY <1>2, <2>1, LongerBody
  <2>3. Adds(buffer[1], s) = f.size
    BY <1>2 DEF Adds
  <2>4. CASE f.end
    <3> DEFINE stream == [longer EXCEPT !.state = "half closed"]
    <3>1. stream \in Stream
          /\ stream.body = streams[s].body + Adds(buffer[1], s)
      <4>1. \A st \in Stream :
              /\ [st EXCEPT !.state = "half closed"] \in Stream
              /\ [st EXCEPT !.state = "half closed"].body = st.body
        BY DEF Stream
      <4> QED
        BY <2>2, <2>3, <4>1
    <3>2. Respond(s, stream)
      BY <1>4, <2>4 DEF DataFrame, Request, Refused
    <3>3. streams[s].body + Coming(s) = sent[s].body
      BY <1>2, <2>1 DEF IInv, Bodies
    <3>4. Coming(s) = Adds(buffer[1], s)
      BY <1>2, <2>4 DEF Carries
    <3>5. stream.body = sent[s].body
      BY <3>1, <3>3, <3>4
    <3>6. s = buffer[1].stream /\ buffer[1].end
      BY <1>2, <2>4
    <3> HIDE DEF s, stream
    <3> QED
      BY <1>1, <2>1, <3>1, <3>2, <3>5, <3>6, RequestKeeps
  <2>5. CASE ~f.end
    <3>1. streams' = [streams EXCEPT ![s] = longer] /\ UNCHANGED <<active, reply, requests>>
      BY <1>4, <2>5 DEF DataFrame, answers
    <3>2. StreamTypes /\ StreamTypes'
      BY <1>2, <2>2, <3>1, IsAnswers DEF StreamTypes
    <3>3. Handles(buffer[1])
      <4>1. SUFFICES ASSUME NEW t \in Streams
                     PROVE  /\ streams'[t] # None =>
                                 /\ streams[t] # None
                                 /\ streams'[t].body = streams[t].body + Adds(buffer[1], t)
                            /\ streams[t] # None => streams'[t] # None
        BY <1>2 DEF Handles
      <4>2. CASE t = s
        BY <1>2, <2>1, <2>2, <2>3, <3>1, <3>2, <4>2, Http2Assumption DEF StreamTypes
      <4>3. CASE t # s
        <5>1. streams'[t] = streams[t]
          BY <1>2, <3>1, <3>2, <4>3 DEF StreamTypes
        <5>2. Adds(buffer[1], t) = 0
          BY <1>2, <4>3 DEF Adds
        <5>3. streams[t] # None => streams[t].body + 0 = streams[t].body
          BY <3>2, BodyIsNumber
        <5> QED
          BY <5>1, <5>2, <5>3
      <4> QED
        BY <4>2, <4>3
    <3> QED
      BY <1>1, <3>1, <3>2, <3>3, OtherKeeps
  <2> QED
    BY <2>4, <2>5
<1> QED
  BY <1>3, <1>4 DEF DataFrame, Request, Refused

LEMMA HeadersKeeps ==
  ASSUME IInv, HeadersFrame
  PROVE  IInv'
<1> DEFINE f == Head(buffer)
           s == f.stream
           New(fit) == [state |-> IF f.end THEN "half closed" ELSE "open", body |-> 0,
                        fit |-> fit]
<1>1. Taken("HEADERS")
  BY DEF HeadersFrame
<1>2. /\ Head(buffer) = buffer[1] /\ buffer[1].type = "HEADERS" /\ Live
      /\ buffer[1].stream \in Streams /\ buffer' = <<>> /\ buffer[1].fit \in BOOLEAN
  BY <1>1, Taking
<1>3. CASE Refuse \/ Refused
  BY <1>1, <1>3, Unhandled DEF Refuse, Refused, answers, Live
<1>4. ASSUME streams[s] = None, NEW fit \in BOOLEAN,
             IF f.end
               THEN Respond(s, New(fit))
               ELSE streams' = [streams EXCEPT ![s] = New(fit)] /\ UNCHANGED answers
      PROVE  IInv'
  <2> DEFINE new == New(fit)
  <2>1. new \in Stream /\ new.body = 0
    BY DEF Stream
  <2>2. sent[s].body = 0
    <3>1. 1 \in 1 .. Len(buffer)
      BY <1>1, Takes DEF IInv
    <3> QED
      BY <1>2, <1>4, <3>1 DEF IInv, Bodies
  <2> DEFINE n == new
  <2> HIDE DEF n
  <2>3. n \in Stream /\ n.body = 0
    BY <2>1 DEF n
  <2>4. CASE f.end
    <3>1. Respond(s, n)
      BY <1>4, <2>4 DEF n
    <3>2. s = buffer[1].stream /\ buffer[1].end
      BY <1>2, <2>4
    <3> HIDE DEF s
    <3> QED
      BY <1>1, <1>4, <2>2, <2>3, <3>1, <3>2, RequestKeeps
  <2>5. CASE ~f.end
    <3>1. streams' = [streams EXCEPT ![s] = n] /\ UNCHANGED <<active, reply, requests>>
      BY <1>4, <2>5 DEF answers, n
    <3>2. StreamTypes /\ StreamTypes'
      BY <1>2, <2>3, <3>1, IsAnswers DEF StreamTypes
    <3>3. Handles(buffer[1])
      <4>1. n # None
        BY <2>3, Http2Assumption
      <4>2. \A t \in Streams : Adds(buffer[1], t) = 0
        BY <1>2 DEF Adds
      <4>3. \A t \in Streams : streams[t] # None => streams[t].body + 0 = streams[t].body
        BY <3>2, BodyIsNumber
      <4>4. \A t \in Streams : t # s => streams'[t] = streams[t]
        BY <1>2, <3>1, <3>2 DEF StreamTypes
      <4>5. streams'[s] = n
        BY <1>2, <3>1, <3>2 DEF StreamTypes
      <4> HIDE DEF n
      <4> SUFFICES ASSUME NEW t \in Streams
                   PROVE  /\ streams'[t] # None =>
                               \/ streams[t] # None /\ streams'[t].body = streams[t].body + 0
                               \/ /\ streams[t] = None /\ t = s
                                  /\ streams'[t].body = 0
                          /\ streams[t] # None => streams'[t] # None
                          /\ t = s => streams'[t] # None
        BY <1>2, <4>2 DEF Handles
      <4>6. CASE t = s
        BY <1>4, <2>3, <4>1, <4>5, <4>6
      <4>7. CASE t # s
        BY <4>3, <4>4, <4>7
      <4> QED
        BY <4>6, <4>7
    <3> QED
      BY <1>1, <3>1, <3>2, <3>3, OtherKeeps
  <2> QED
    BY <2>4, <2>5
<1> QED
  <2>1. \/ Refuse
        \/ /\ streams[s] = None
           /\ \E fit \in {f.fit} \union BOOLEAN :
                IF f.end
                  THEN Request(s, New(fit))
                  ELSE streams' = [streams EXCEPT ![s] = New(fit)] /\ UNCHANGED answers
    BY DEF HeadersFrame
  <2>2. f.fit \in BOOLEAN
    BY <1>2
  <2>3. \A fit : Request(s, New(fit)) => Respond(s, New(fit)) \/ Refused
    BY DEF Request, Refused
  <2> HIDE DEF New
  <2> QED
    BY <1>3, <1>4, <2>1, <2>2, <2>3


LEMMA ResetKeeps ==
  ASSUME IInv, Reset
  PROVE  IInv'
<1>1. Taken("RST_STREAM")
  BY DEF Reset
<1>2. /\ Head(buffer) = buffer[1] /\ buffer[1].type = "RST_STREAM" /\ Live
      /\ buffer[1].stream \in Streams
  BY <1>1, Taking
<1>3. /\ streams' = [streams EXCEPT ![buffer[1].stream] = None]
      /\ UNCHANGED <<active, reply, requests>>
  BY <1>2 DEF Reset, answers
<1>4. StreamTypes /\ StreamTypes'
  BY <1>2, <1>3, IsAnswers DEF StreamTypes
<1>5. Handles(buffer[1])
  <2>1. \A t \in Streams : Adds(buffer[1], t) = 0
    BY <1>2 DEF Adds
  <2>2. \A t \in Streams : streams[t] # None => streams[t].body + 0 = streams[t].body
    BY <1>4, BodyIsNumber
  <2>3. \A t \in Streams : t # buffer[1].stream => streams'[t] = streams[t]
    BY <1>2, <1>3, <1>4 DEF StreamTypes
  <2>4. streams'[buffer[1].stream] = None
    BY <1>2, <1>3, <1>4 DEF StreamTypes
  <2> QED
    BY <1>2, <2>1, <2>2, <2>3, <2>4 DEF Handles
<1> QED
  BY <1>1, <1>3, <1>4, <1>5, OtherKeeps

LEMMA ServerStep ==
  ASSUME IInv, Server
  PROVE  IInv'
<1>1. ASSUME Continuation PROVE IInv'
  BY <1>1, Unhandled DEF Continuation, Refuse, answers
<1>2. ASSUME Settings PROVE IInv'
  BY <1>2, Unhandled DEF Settings
<1>3. ASSUME Ping PROVE IInv'
  BY <1>3, Unhandled DEF Ping, answers
<1>4. ASSUME Goaway PROVE IInv'
  BY <1>4, Unhandled DEF Goaway, Refuse, answers
<1>5. ASSUME WindowUpdate PROVE IInv'
  BY <1>5, Unhandled DEF WindowUpdate, answers
<1>6. ASSUME Unparsed PROVE IInv'
  BY <1>6, Unhandled DEF Unparsed, answers
<1> QED
  BY <1>1, <1>2, <1>3, <1>4, <1>5, <1>6, DataKeeps, HeadersKeeps, ResetKeeps DEF Server

-----------------------------------------------------------------------------
(* The backend goes on with an answer; the client's side and what has come *)
(* stay as they are.                                                       *)
LEMMA AnswerKeeps ==
  ASSUME IInv, Live, UNCHANGED client, UNCHANGED <<buffer, requests>>, NEW s \in Streams,
         Answering(s), Answers', streams' \in {streams, [streams EXCEPT ![s] = None]},
         \A t \in Streams : Answering(t)' => Answering(t)
  PROVE  IInv'
<1>1. Types /\ Queue /\ EndsOnce /\ Bodies /\ RequestWhole
  BY DEF IInv
<1>2. UNCHANGED <<opened, uploading, block, sent, profile>>
  BY DEF client
<1>3. Types'
  <2>1. StreamTypes'
    BY <1>1 DEF Types, StreamTypes
  <2>2. (/\ opened \in {0} \union Streams /\ uploading \subseteq Streams
         /\ block \in {0} \union Streams /\ block <= opened
         /\ "streams" \in DOMAIN profile /\ profile.streams \in Streams
         /\ sent \in [Streams -> [body : Nat, end : BOOLEAN]] /\ DOMAIN requests = Streams)'
    BY <1>1, <1>2 DEF Types
  <2> QED
    BY <2>1, <2>2 DEF Types, Answers
<1>4. Queue'
  BY <1>1, <1>2 DEF Queue
<1>5. EndsOnce'
  BY <1>1, <1>2 DEF EndsOnce, Carries
<1>6. Bodies'
  <2>1. \A t \in Streams : t # s => streams'[t] = streams[t]
    BY <1>1 DEF Types, StreamTypes
  <2>2. streams'[s] # None => streams'[s] = streams[s]
    BY <1>1 DEF Types, StreamTypes
  <2>3. sent[s].end /\ s \notin uploading /\ \A i \in 1 .. Len(buffer) : ~Carries(buffer[i], s)
    BY <1>1 DEF EndsOnce
  <2>4. \A t \in Streams : Coming(t)' = Coming(t)
    BY DEF Coming
  <2>5. SUFFICES ASSUME NEW t \in Streams
                 PROVE  (/\ streams[t] # None => streams[t].body + Coming(t) = sent[t].body
                         /\ \A i \in 1 .. Len(buffer) :
                              buffer[i].stream = t =>
                                /\ buffer[i].type = "HEADERS" =>
                                     streams[t] # None \/ sent[t].body = 0
                                /\ buffer[i].type = "RST_STREAM" => t \notin uploading
                         /\ t \in uploading =>
                              \/ streams[t] # None
                              \/ \E i \in 1 .. Len(buffer) :
                                   buffer[i].type = "HEADERS" /\ buffer[i].stream = t)'
    BY DEF Bodies
  <2>6. CASE t # s
    BY <1>1, <1>2, <2>1, <2>4, <2>6 DEF Bodies
  <2>7. CASE t = s
    <3>1. streams'[s] # None => streams'[s].body + Coming(s)' = sent[s].body
      BY <1>1, <2>2, <2>4 DEF Bodies
    <3>2. \A i \in 1 .. Len(buffer) : buffer[i].stream = s => buffer[i].type # "HEADERS"
      BY <2>3 DEF Carries
    <3> QED
      BY <1>2, <2>3, <2>7, <3>1, <3>2
  <2> QED
    BY <2>6, <2>7
<1>7. RequestWhole'
  BY <1>1, <1>2 DEF RequestWhole
<1> QED
  BY <1>3, <1>4, <1>5, <1>6, <1>7 DEF IInv, Answers

LEMMA BackendStep ==
  ASSUME IInv, NEW s \in Streams, Backend(s)
  PROVE  IInv'
<1>1. Answers /\ StreamTypes
  BY IsAnswers
<1>2. ASSUME StreamStarts(s) PROVE IInv'
  <2>1. active[s] = "delayed" /\ reply[s] = "none" /\ Live
    BY <1>1, <1>2 DEF StreamStarts, Answers, Replies
  <2>2. /\ reply' = [reply EXCEPT ![s] = "open"]
        /\ active' = [active EXCEPT ![s] = "open"]
    BY <1>2, <2>1, SendReplies DEF StreamStarts
  <2>3. Answers' /\ Answering(s) /\ \A t \in Streams : Answering(t)' => Answering(t)
    BY <1>1, <2>1, <2>2 DEF Answers, Replies, Answering
  <2>4. UNCHANGED <<buffer, requests, streams>> /\ UNCHANGED client
    BY <1>2 DEF StreamStarts
  <2> QED
    BY <2>1, <2>3, <2>4, AnswerKeeps
<1>3. ASSUME StreamEnds(s) PROVE IInv'
  <2>1. active[s] = "open" /\ reply[s] = "open" /\ Live
    BY <1>1, <1>3 DEF StreamEnds, Answers, Replies
  <2>2. /\ reply' = [reply EXCEPT ![s] = "ended"]
        /\ active' = [active EXCEPT ![s] = "none"]
    BY <1>3, <2>1 DEF StreamEnds, Finish, SendData
  <2>3. Answers' /\ Answering(s) /\ \A t \in Streams : Answering(t)' => Answering(t)
    BY <1>1, <2>1, <2>2 DEF Answers, Replies, Answering
  <2>4. /\ UNCHANGED <<buffer, requests>> /\ UNCHANGED client
        /\ streams' = [streams EXCEPT ![s] = None]
    BY <1>3 DEF StreamEnds, Freed
  <2> QED
    BY <2>1, <2>3, <2>4, AnswerKeeps
<1>4. ASSUME NEW end \in BOOLEAN, StreamData(s, end) PROVE IInv'
  <2>1. active[s] = "open" /\ reply[s] = "open" /\ Live
    BY <1>1, <1>4 DEF StreamData, Answers, Replies
  <2>2. \/ /\ reply' = [reply EXCEPT ![s] = "ended"]
           /\ active' = [active EXCEPT ![s] = "none"]
        \/ /\ reply' = reply /\ active' = active
    BY <1>1, <1>4, <2>1 DEF StreamData, SendData, Answers
  <2>3. Answers' /\ Answering(s) /\ \A t \in Streams : Answering(t)' => Answering(t)
    BY <1>1, <2>1, <2>2 DEF Answers, Replies, Answering
  <2>4. UNCHANGED <<buffer, requests, streams>> /\ UNCHANGED client
    BY <1>4 DEF StreamData
  <2> QED
    BY <2>1, <2>3, <2>4, AnswerKeeps
<1> QED
  BY <1>2, <1>3, <1>4 DEF Backend


-----------------------------------------------------------------------------
LEMMA RecordChanged ==
  ASSUME NEW st \in [body : Nat, end : BOOLEAN], NEW n \in Nat, NEW e \in BOOLEAN
  PROVE  /\ [st EXCEPT !.body = n, !.end = e] \in [body : Nat, end : BOOLEAN]
         /\ [st EXCEPT !.body = n, !.end = e].body = n
         /\ [st EXCEPT !.body = n, !.end = e].end = e
OBVIOUS

(* Each of the client's steps keeps its books.                             *)
LEMMA ClientTypes ==
  ASSUME IInv
  PROVE  /\ Types /\ opened \in {0} \union Streams /\ 0 <= opened
         /\ block \in {0} \union Streams /\ block <= opened
         /\ \A s \in Streams :
              /\ sent[s] \in [body : Nat, end : BOOLEAN]
              /\ s \in uploading => ~sent[s].end /\ s <= opened
              /\ s > opened => s \notin uploading /\ sent[s] = [body |-> 0, end |-> FALSE]
<1> USE StreamIsNumber
<1>1. Types /\ EndsOnce
  BY DEF IInv
<1>2. sent \in [Streams -> [body : Nat, end : BOOLEAN]] /\ opened \in {0} \union Streams
  BY <1>1 DEF Types
<1>3. opened \in Nat /\ 0 <= opened
  BY <1>2
<1>4. block \in {0} \union Streams /\ block <= opened
  BY <1>1 DEF Types
<1> QED
  BY <1>1, <1>2, <1>3, <1>4 DEF EndsOnce

(* A frame of no body and no header block.                                 *)
Aside(f) ==
  /\ f.type \notin {"HEADERS", "DATA", "RST_STREAM"}
  /\ f.stream \in {0} \union Streams /\ f.stream <= opened
  /\ f.empty => f.type = "SETTINGS"

LEMMA AsideAccounts ==
  ASSUME IInv, NEW f, Aside(f), UNCHANGED <<opened, uploading, sent>>, block' \in {0, block}
  PROVE  Accounts(f)
<1> USE StreamIsNumber
<1>1. /\ Types
      /\ \A s \in Streams :
           /\ s \in uploading => ~sent[s].end
           /\ s > opened => s \notin uploading /\ sent[s] = [body |-> 0, end |-> FALSE]
  BY ClientTypes
<1>2. /\ opened \in {0} \union Streams /\ opened <= opened
      /\ uploading \subseteq Streams /\ sent \in [Streams -> [body : Nat, end : BOOLEAN]]
  BY <1>1 DEF Types
<1>3. \A s \in Streams : ~Carries(f, s)
  BY DEF Carries, Aside
<1>4. block' \in {0} \union Streams /\ block' <= opened'
  BY ClientTypes
<1> QED
  BY <1>1, <1>2, <1>3, <1>4 DEF Accounts, Aside

LEMMA SaysKeeps ==
  ASSUME IInv, NEW f \in OtherFrames, ClientSays(f)
  PROVE  IInv' /\ Sends(f, 1) /\ Accounts(f) /\ Aside(f)
<1> USE StreamIsNumber
<1>1. 0 <= opened
  BY ClientTypes
<1>2. Aside(f)
  <2>1. CASE \E n : f = SettingsFrame(n)
    <3>1. f.type = "SETTINGS" /\ f.stream = 0
      BY <2>1 DEF SettingsFrame, Frame
    <3> QED
      BY <1>1, <3>1 DEF Aside
  <2>2. CASE \E type \in {"WINDOW_UPDATE", "PING", "unparsed"} : f = Frame(type, 0)
    <3>1. f.type \in {"WINDOW_UPDATE", "PING", "unparsed"} /\ f.stream = 0 /\ f.empty = FALSE
      BY <2>2 DEF Frame
    <3> QED
      BY <1>1, <3>1 DEF Aside
  <2> QED
    BY <2>1, <2>2 DEF OtherFrames
<1>3. Sends(f, 1) /\ UNCHANGED <<opened, uploading, block, sent>>
  BY DEF ClientSays
<1> QED
  BY <1>2, <1>3, AsideAccounts, ClientKeeps

LEMMA LeaveKeeps ==
  ASSUME IInv, ClientGoesAway
  PROVE  IInv'
<1> USE StreamIsNumber
<1>1. 0 <= opened
  BY ClientTypes
<1>2. Aside(Frame("GOAWAY", 0))
  BY <1>1 DEF Frame, Aside
<1>3. Sends(Frame("GOAWAY", 0), 1) /\ UNCHANGED <<opened, uploading, block, sent>>
  BY DEF ClientGoesAway
<1> QED
  BY <1>2, <1>3, AsideAccounts, ClientKeeps

LEMMA ResetsKeeps ==
  ASSUME IInv, NEW s \in Streams, ClientReset(s)
  PROVE  IInv' /\ Accounts(Frame("RST_STREAM", s))
<1> USE StreamIsNumber
<1> DEFINE f == Frame("RST_STREAM", s)
<1>1. /\ f.type = "RST_STREAM" /\ f.stream = s /\ f.empty = FALSE /\ ~f.end
  BY DEF Frame
<1>2. /\ Types /\ opened \in {0} \union Streams
      /\ \A t \in Streams :
           /\ t \in uploading => ~sent[t].end
           /\ t > opened => t \notin uploading /\ sent[t] = [body |-> 0, end |-> FALSE]
  BY ClientTypes
<1>3. /\ Sends(f, 1) /\ UNCHANGED <<opened, block, sent>> /\ s <= opened
      /\ uploading' = uploading \ {s}
  BY DEF ClientReset
<1> HIDE DEF f
<1>4. /\ opened' \in {0} \union Streams /\ opened <= opened'
      /\ block' \in {0} \union Streams /\ block' <= opened'
      /\ uploading' \subseteq Streams /\ sent' \in [Streams -> [body : Nat, end : BOOLEAN]]
  BY <1>2, <1>3 DEF Types
<1>5. \A t \in Streams : ~Carries(f, t)
  BY <1>1 DEF Carries
<1>6. Accounts(f)
  BY <1>1, <1>2, <1>3, <1>4, <1>5 DEF Accounts
<1> QED
  BY <1>3, <1>6, ClientKeeps DEF f

LEMMA DataSent ==
  ASSUME IInv, NEW s \in Streams, NEW size \in {0, 1}, NEW end \in BOOLEAN,
         ClientData(s, size, end)
  PROVE  /\ IInv'
         /\ \E f : /\ Sends(f, 1) /\ Accounts(f) /\ f.type = "DATA" /\ f.stream = s
                  /\ f.empty = (size = 0) /\ f.end = end /\ f.size = size
<1> USE StreamIsNumber
<1> DEFINE f == [Frame("DATA", s) EXCEPT !.empty = (size = 0), !.size = size, !.end = end]
<1>1. /\ f.type = "DATA" /\ f.stream = s /\ f.empty = (size = 0) /\ f.end = end
      /\ f.size = size
  BY DEF Frame
<1>2. /\ Types /\ opened \in {0} \union Streams
      /\ \A t \in Streams :
           /\ sent[t] \in [body : Nat, end : BOOLEAN]
           /\ t \in uploading => ~sent[t].end /\ t <= opened
           /\ t > opened => t \notin uploading /\ sent[t] = [body |-> 0, end |-> FALSE]
  BY ClientTypes
<1>3. /\ Sends(f, 1) /\ UNCHANGED <<opened, block>> /\ s \in uploading
      /\ uploading' = IF end THEN uploading \ {s} ELSE uploading
      /\ sent' = [sent EXCEPT ![s].body = @ + size, ![s].end = end]
  BY DEF ClientData
<1> HIDE DEF f
<1>4. sent[s].body + size \in Nat
  BY <1>2, Sums
<1>5. sent \in [Streams -> [body : Nat, end : BOOLEAN]]
  BY <1>2 DEF Types
<1> DEFINE st == sent[s]
           now == [st EXCEPT !.body = sent[s].body + size, !.end = end]
<1>6. sent' = [sent EXCEPT ![s] = now]
  BY <1>3
<1>7. /\ now \in [body : Nat, end : BOOLEAN]
      /\ now.body = sent[s].body + size /\ now.end = end
  BY <1>2, <1>4, RecordChanged
<1> HIDE DEF st, now
<1>8. /\ sent'[s].body = sent[s].body + size /\ sent'[s].end = end
      /\ \A t \in Streams : t # s => sent'[t] = sent[t]
      /\ sent' \in [Streams -> [body : Nat, end : BOOLEAN]]
  BY <1>5, <1>6, <1>7
<1>9. /\ opened' \in {0} \union Streams /\ opened <= opened' /\ s <= opened'
      /\ block' \in {0} \union Streams /\ block' <= opened'
      /\ uploading' \subseteq Streams
  BY <1>2, <1>3 DEF Types
<1>10. \A t \in Streams : Carries(f, t) <=> t = s
  BY <1>1 DEF Carries
<1>11. SUFFICES Accounts(f)
  BY <1>1, <1>3, ClientKeeps
<1>12. \A t \in Streams :
         /\ t \in uploading' => ~sent'[t].end
         /\ t \in uploading' => t \in uploading
         /\ t > opened' => t \notin uploading' /\ sent'[t] = [body |-> 0, end |-> FALSE]
  <2>1. SUFFICES ASSUME NEW t \in Streams
                 PROVE  /\ t \in uploading' => ~sent'[t].end
                        /\ t \in uploading' => t \in uploading
                        /\ t > opened =>
                             t \notin uploading' /\ sent'[t] = [body |-> 0, end |-> FALSE]
    BY <1>3
  <2>2. CASE t = s
    <3>1. ~(t > opened)
      BY <1>3, <1>9, <2>2
    <3>2. t \in uploading' => ~end
      BY <1>3, <2>2
    <3> QED
      BY <1>3, <1>8, <2>2, <3>1, <3>2
  <2>3. CASE t # s
    BY <1>2, <1>3, <1>8, <2>3
  <2> QED
    BY <2>2, <2>3
<1> QED
  BY <1>1, <1>2, <1>3, <1>8, <1>9, <1>10, <1>12 DEF Accounts

(* A header block of its own, or the rest of one.                          *)
LEMMA Block ==
  ASSUME NEW f, SendsHeaders(f)
  PROVE  \E piece, meant :
           Sends([f EXCEPT !.block = piece, !.meant = meant], Len(piece))
BY DEF SendsHeaders

LEMMA ContinuationSent ==
  ASSUME IInv, NEW endh \in BOOLEAN,
         ClientContinuation(endh)
  PROVE  /\ IInv'
         /\ \E f, cost : /\ Sends(f, cost) /\ Accounts(f)
                        /\ f.type = "CONTINUATION" /\ f.stream = block
<1> DEFINE g == [Frame("CONTINUATION", block) EXCEPT !.endh = endh]
<1>1. SendsHeaders(g) /\ UNCHANGED <<opened, uploading, sent>> /\ block' \in {0, block}
  BY DEF ClientContinuation
<1>2. PICK piece, meant : Sends([g EXCEPT !.block = piece, !.meant = meant], Len(piece))
  BY <1>1, Block
<1> DEFINE f == [g EXCEPT !.block = piece, !.meant = meant]
<1>3. f.type = "CONTINUATION" /\ f.stream = block /\ f.empty = FALSE
  BY DEF Frame
<1> HIDE DEF f
<1>4. Aside(f)
  BY <1>3, ClientTypes DEF Aside
<1>5. Sends(f, Len(piece)) /\ Accounts(f)
  BY <1>1, <1>2, <1>4, AsideAccounts DEF f
<1> QED
  BY <1>3, <1>5, ClientKeeps


LEMMA HeadersSent ==
  ASSUME IInv, NEW endh \in BOOLEAN, NEW end \in BOOLEAN, NEW fit \in BOOLEAN,
         ClientHeaders(endh, end, fit)
  PROVE  /\ IInv'
         /\ \E f, cost : /\ Sends(f, cost) /\ Accounts(f) /\ f.type = "HEADERS"
                        /\ f.stream = opened + 1 /\ f.end = end /\ f.fit = fit
<1> USE StreamIsNumber
<1> DEFINE s == opened + 1
           g == [Frame("HEADERS", s) EXCEPT !.endh = endh, !.end = end, !.fit = fit]
<1>1. SendsHeaders(g)
  BY DEF ClientHeaders
<1>2. PICK piece, meant : Sends([g EXCEPT !.block = piece, !.meant = meant], Len(piece))
  BY <1>1, Block
<1> DEFINE f == [g EXCEPT !.block = piece, !.meant = meant]
<1>3. f.type = "HEADERS" /\ f.stream = s /\ f.empty = FALSE /\ f.end = end /\ f.fit = fit
  BY DEF Frame
<1>4. /\ opened' = s /\ block' = (IF endh THEN 0 ELSE s) /\ s <= profile.streams
      /\ uploading' = (IF end THEN uploading ELSE uploading \union {s})
      /\ sent' = [sent EXCEPT ![s].end = end]
  BY DEF ClientHeaders
<1>5. /\ Types /\ opened \in {0} \union Streams /\ 0 <= opened
      /\ \A t \in Streams :
           /\ sent[t] \in [body : Nat, end : BOOLEAN]
           /\ t \in uploading => ~sent[t].end /\ t <= opened
           /\ t > opened => t \notin uploading /\ sent[t] = [body |-> 0, end |-> FALSE]
  BY ClientTypes
<1> HIDE DEF f
<1>6. s \in Streams
  <2> DEFINE n == Cardinality(Streams)
             m == profile.streams
  <2>1. Streams = 1 .. n /\ n \in Nat
    BY Http2Assumption
  <2>2. m \in Streams
    BY <1>5 DEF Types
  <2>3. opened \in Nat
    BY <1>5
  <2> HIDE DEF n, m
  <2>4. s \in 1 .. n
    BY <1>4, <2>1, <2>2, <2>3 DEF m
  <2> QED
    BY <2>1, <2>4
<1>7. s \in Nat \ {0} /\ s > opened /\ opened <= s
  BY <1>5, <1>6
<1> HIDE DEF s
<1>8. sent[s] = [body |-> 0, end |-> FALSE] /\ s \notin uploading
  BY <1>5, <1>6, <1>7
<1>9. sent \in [Streams -> [body : Nat, end : BOOLEAN]]
  BY <1>5 DEF Types
<1>10. /\ sent'[s] = [sent[s] EXCEPT !.end = end]
       /\ \A t \in Streams : t # s => sent'[t] = sent[t]
       /\ sent' = [sent EXCEPT ![s] = [sent[s] EXCEPT !.end = end]]
  BY <1>4, <1>6, <1>9
<1>11. /\ [sent[s] EXCEPT !.end = end] \in [body : Nat, end : BOOLEAN]
       /\ [sent[s] EXCEPT !.end = end].body = 0 /\ [sent[s] EXCEPT !.end = end].end = end
  BY <1>8
<1>12. sent' \in [Streams -> [body : Nat, end : BOOLEAN]]
  BY <1>9, <1>10, <1>11
<1>13. sent'[s].end = end /\ sent'[s].body = 0 /\ sent[s].body = 0 /\ ~sent[s].end
  BY <1>8, <1>10, <1>11
<1>14. /\ opened' \in {0} \union Streams /\ opened <= opened'
       /\ block' \in {0} \union Streams /\ block' <= opened'
       /\ uploading' \subseteq Streams
  BY <1>4, <1>5, <1>6, <1>7 DEF Types
<1>15. f.stream \in {0} \union Streams /\ f.stream <= opened'
  BY <1>3, <1>4, <1>6, <1>7
<1>16. \A t \in Streams : Carries(f, t) <=> t = s
  BY <1>3 DEF Carries
<1>17. ASSUME NEW t \in Streams
       PROVE  /\ t \in uploading' => ~sent'[t].end
              /\ t \in uploading' => t \in uploading \/ t = s
              /\ t > opened' =>
                   t \notin uploading' /\ sent'[t] = [body |-> 0, end |-> FALSE]
  <2>1. CASE t = s
    <3>1. ~(t > opened')
      BY <1>4, <1>7, <2>1
    <3>2. t \in uploading' => ~end
      BY <1>4, <1>8, <2>1
    <3> QED
      BY <1>13, <2>1, <3>1, <3>2
  <2>2. CASE t # s
    <3>1. t > opened' => t > opened
      BY <1>4, <1>5, <1>7
    <3>2. t \in uploading' => t \in uploading
      BY <1>4, <2>2
    <3> QED
      BY <1>5, <1>10, <2>2, <3>1, <3>2
  <2> QED
    BY <2>1, <2>2
<1>18. Accounts(f)
  BY <1>3, <1>10, <1>12, <1>13, <1>14, <1>15, <1>16, <1>17 DEF Accounts
<1>19. Sends(f, Len(piece))
  BY <1>2 DEF f
<1> QED
  BY <1>3, <1>18, <1>19, ClientKeeps DEF s

LEMMA TrailersSent ==
  ASSUME IInv, NEW s \in Streams, ClientTrailers(s)
  PROVE  IInv'
<1> USE StreamIsNumber
<1> DEFINE g == [Frame("HEADERS", s) EXCEPT !.endh = TRUE, !.end = TRUE]
<1>1. SendsHeaders(g)
  BY DEF ClientTrailers
<1>2. PICK piece, meant : Sends([g EXCEPT !.block = piece, !.meant = meant], Len(piece))
  BY <1>1, Block
<1> DEFINE f == [g EXCEPT !.block = piece, !.meant = meant]
<1>3. f.type = "HEADERS" /\ f.stream = s /\ f.empty = FALSE /\ f.end = TRUE /\ f.fit = FALSE
  BY DEF Frame
<1>4. /\ UNCHANGED <<opened, block>> /\ s \in uploading
      /\ uploading' = uploading \ {s}
      /\ sent' = [sent EXCEPT ![s].end = TRUE]
  BY DEF ClientTrailers
<1>5. /\ Types /\ opened \in {0} \union Streams
      /\ block \in {0} \union Streams /\ block <= opened
      /\ \A t \in Streams :
           /\ sent[t] \in [body : Nat, end : BOOLEAN]
           /\ t \in uploading => ~sent[t].end /\ t <= opened
           /\ t > opened => t \notin uploading /\ sent[t] = [body |-> 0, end |-> FALSE]
  BY ClientTypes
<1> HIDE DEF f
<1>6. streams[s] # None
  <2>1. Queue /\ Bodies
    BY <1>2 DEF IInv, Sends
  <2>2. \A i \in 1 .. Len(buffer) : buffer[i].empty
    BY <1>2, <2>1, Arrives DEF f
  <2>3. \A i \in 1 .. Len(buffer) : buffer[i].type # "HEADERS"
    BY <2>1, <2>2, Waits
  <2> QED
    BY <1>4, <2>1, <2>3 DEF Bodies
<1>7. sent \in [Streams -> [body : Nat, end : BOOLEAN]]
  BY <1>5 DEF Types
<1>8. /\ sent'[s] = [sent[s] EXCEPT !.end = TRUE]
      /\ \A t \in Streams : t # s => sent'[t] = sent[t]
      /\ sent' = [sent EXCEPT ![s] = [sent[s] EXCEPT !.end = TRUE]]
  BY <1>4, <1>7
<1>9. /\ [sent[s] EXCEPT !.end = TRUE] \in [body : Nat, end : BOOLEAN]
      /\ [sent[s] EXCEPT !.end = TRUE].body = sent[s].body
      /\ [sent[s] EXCEPT !.end = TRUE].end = TRUE
  BY <1>5
<1>10. sent' \in [Streams -> [body : Nat, end : BOOLEAN]]
  BY <1>7, <1>8, <1>9
<1>11. sent'[s].end = TRUE /\ sent'[s].body = sent[s].body /\ ~sent[s].end
  BY <1>4, <1>5, <1>8, <1>9
<1>12. /\ opened' \in {0} \union Streams /\ opened <= opened'
       /\ block' \in {0} \union Streams /\ block' <= opened'
       /\ uploading' \subseteq Streams
  BY <1>4, <1>5 DEF Types
<1>13. f.stream \in {0} \union Streams /\ f.stream <= opened'
  BY <1>3, <1>4, <1>5
<1>14. \A t \in Streams : Carries(f, t) <=> t = s
  BY <1>3 DEF Carries
<1>15. ASSUME NEW t \in Streams
       PROVE  /\ t \in uploading' => ~sent'[t].end
              /\ t \in uploading' => t \in uploading
              /\ t > opened' =>
                   t \notin uploading' /\ sent'[t] = [body |-> 0, end |-> FALSE]
  <2>1. CASE t = s
    <3>1. ~(t > opened')
      BY <1>4, <1>5, <2>1
    <3> QED
      BY <1>4, <2>1, <3>1
  <2>2. CASE t # s
    BY <1>4, <1>5, <1>8, <2>2
  <2> QED
    BY <2>1, <2>2
<1>16. Accounts(f)
  BY <1>3, <1>6, <1>8, <1>10, <1>11, <1>12, <1>13, <1>14, <1>15 DEF Accounts
<1> QED
  BY <1>2, <1>16, ClientKeeps DEF f

LEMMA PrefaceKeeps ==
  ASSUME IInv, NEW octets, ReadPreface(octets)
  PROVE  IInv'
<1>1. UNCHANGED <<opened, uploading, block, sent, profile, buffer, streams, active, requests,
                  reply>>
  BY DEF ReadPreface, answers
<1>2. Types' /\ Queue' /\ EndsOnce' /\ Replies' /\ RequestWhole'
  <2>1. Types'
    BY <1>1 DEF IInv, Types, StreamTypes
  <2>2. Queue'
    BY <1>1 DEF IInv, Queue
  <2>3. EndsOnce'
    BY <1>1 DEF IInv, EndsOnce, Answering, Carries
  <2>4. Replies' /\ RequestWhole'
    BY <1>1 DEF IInv, Replies, RequestWhole
  <2> QED
    BY <2>1, <2>2, <2>3, <2>4
<1>3. Bodies'
  <2>1. Bodies
    BY DEF IInv, ReadPreface
  <2> QED
    BY <1>1, <2>1 DEF Bodies, Coming
<1> QED
  BY <1>2, <1>3 DEF IInv

LEMMA ClientStep ==
  ASSUME IInv, Client
  PROVE  IInv'
BY HeadersSent, ContinuationSent, DataSent, ResetsKeeps, TrailersSent, SaysKeeps, LeaveKeeps,
   PrefaceKeeps DEF Client

LEMMA Initially == Init => IInv
<1> USE StreamIsNumber
<1> SUFFICES ASSUME Init PROVE IInv
  OBVIOUS
<1>1. Types
  <2>1. "streams" \in DOMAIN profile /\ profile.streams \in Streams
    BY Http2Assumption DEF Init
  <2> QED
    BY <2>1 DEF Init, Types, StreamTypes
<1>2. buffer = <<>> /\ Len(buffer) = 0
  BY EmptySeq DEF Init
<1>3. Queue
  BY <1>2, EmptySeq DEF Queue
<1>4. EndsOnce
  BY <1>2 DEF Init, EndsOnce, Answering
<1>5. Bodies
  BY <1>2 DEF Init, Bodies
<1>6. Replies /\ RequestWhole
  BY DEF Init, Replies, RequestWhole
<1> QED
  BY <1>1, <1>3, <1>4, <1>5, <1>6 DEF IInv

LEMMA StepKeeps == IInv /\ [Next]_vars => IInv'
<1> SUFFICES ASSUME IInv, [Next]_vars PROVE IInv'
  OBVIOUS
<1>1. CASE UNCHANGED vars
  <2>1. UNCHANGED <<opened, uploading, block, sent, profile, buffer, streams, active,
                    requests, reply, closed, undefined>>
    BY <1>1 DEF vars
  <2>2. Types'
    BY <2>1 DEF IInv, Types, StreamTypes
  <2>3. Queue'
    BY <2>1 DEF IInv, Queue
  <2>4. EndsOnce'
    BY <2>1 DEF IInv, EndsOnce, Answering, Carries
  <2>5. Replies' /\ RequestWhole'
    BY <2>1 DEF IInv, Replies, RequestWhole
  <2>6. Live' => Bodies'
    BY <2>1 DEF IInv, Live, Bodies, Coming
  <2> QED
    BY <2>2, <2>3, <2>4, <2>5, <2>6 DEF IInv
<1>2. CASE Next
  BY <1>2, ClientStep, ServerStep, BackendStep DEF Next
<1> QED
  BY <1>1, <1>2

LEMMA Invariance == Spec => []IInv
<1> QED
  BY Initially, StepKeeps, PTL DEF Spec

(* However the frames of several streams come between each other, are      *)
(* taken with the next one or wait for it, and whatever streams are reset  *)
(* or freed: a request that the pipeline is given has the whole body that  *)
(* its client sent, and no frame of it comes after.                        *)
THEOREM WholeRequests == Spec => []RequestWhole
<1>1. IInv => RequestWhole
  BY DEF IInv
<1> QED
  BY <1>1, Invariance, PTL

(* However a backend's answers run between the frames that come: of every  *)
(* stream's response the headers are sent first, then its body, and one    *)
(* end after all.                                                          *)
THEOREM RepliesWellFormed == Spec => []WellFormed
<1>1. IInv => WellFormed
  BY DEF IInv, Replies, WellFormed
<1> QED
  BY <1>1, Invariance, PTL

-----------------------------------------------------------------------------
(* What the client has sent of a header block is on its way in the last    *)
(* frame that came; its table was p before that.                           *)
IsBlock(f) == f.type \in {"HEADERS", "CONTINUATION"}
OnItsWay == buffer # <<>> /\ IsBlock(buffer[Len(buffer)])
Sent(p, c, f) ==
  LET d == PeerDecodes(p, f.block) IN
  /\ Decoding(p, c) /\ MaySendAll(p, TableSize, f.block)
  /\ f.meant = d.headers /\ peer = [table |-> d.table, limit |-> d.limit]

(* A table that goes on where the client's ends.  It is the server's unless*)
(* a block was cut; then the server may have any table.                    *)
Tracks(c) ==
  /\ c.max = TableSize
  /\ IF OnItsWay THEN \E p : Sent(p, c, buffer[Len(buffer)]) ELSE Decoding(peer, c)
Uncut == "continued" \notin odd

Reads ==
  /\ peer.limit \in 0 .. TableSize
  /\ Context(decoder) /\ decoder.max = TableSize
  /\ Uncut => ~misread /\ \A i \in 1 .. Len(buffer) : buffer[i].type # "CONTINUATION"
  /\ Live => \E c : Tracks(c) /\ (Uncut => c = decoder)

LEMMA TwoOf ==
  ASSUME NEW a, NEW b
  PROVE  /\ Len(<<a>> \o <<b>>) = 2
         /\ (<<a>> \o <<b>>)[1] = a /\ (<<a>> \o <<b>>)[2] = b
<1> DEFINE S == {a, b}
           q == <<a>> \o <<b>>
<1>1. <<a>> \in Seq(S) /\ <<b>> \in Seq(S) /\ Len(<<a>>) = 1 /\ Len(<<b>>) = 1
      /\ <<a>>[1] = a /\ <<b>>[1] = b
  OBVIOUS
<1> HIDE DEF S
<1>2. /\ Len(q) = Len(<<a>>) + Len(<<b>>)
      /\ \A i \in 1 .. Len(<<a>>) + Len(<<b>>) :
           q[i] = IF i <= Len(<<a>>) THEN <<a>>[i] ELSE <<b>>[i - Len(<<a>>)]
  BY <1>1, ConcatProperties
<1> HIDE DEF q
<1>3. Len(q) = 2 /\ q[1] = a /\ q[2] = b
  BY <1>1, <1>2
<1> QED
  BY <1>3 DEF q

(* What the client sends keeps to its table.                               *)
LEMMA OneMaySend ==
  ASSUME NEW p, NEW max, NEW r, MaySend(p.table, max, r)
  PROVE  MaySendAll(p, max, <<r>>)
<1> DEFINE piece == <<r>>
<1>1. Len(piece) = 1 /\ piece[1] = r
  OBVIOUS
<1> HIDE DEF piece
<1>2. Meant(p, piece)[0] = [table |-> p.table, limit |-> p.limit, headers |-> <<>>]
  BY <1>1, MeantIs
<1>3. Meant(p, piece)[0].table = p.table
  BY <1>2
<1>4. MaySendAll(p, max, piece)
  <2>1. \A i \in 1 .. Len(piece) : i = 1 /\ i - 1 = 0
    BY <1>1
  <2> QED
    BY <1>1, <1>3, <2>1 DEF MaySendAll
<1> QED
  BY <1>4 DEF piece

LEMMA PiecesMaySend ==
  ASSUME NEW c, Decoding(peer, c), NEW piece \in Pieces
  PROVE  MaySendAll(peer, TableSize, piece)
<1> DEFINE n == Len(Static)
<1>1. n \in Nat \ {0} /\ DOMAIN Static = 1 .. n /\ \A i \in 1 .. n : Static[i] # None
  BY StaticIs
<1>2. /\ Len(peer.table) \in Nat /\ DOMAIN peer.table = 1 .. Len(peer.table)
      /\ \A i \in 1 .. Len(peer.table) : peer.table[i] \in Rows
  <2>1. Table(peer.table) /\ Table(c.table) /\ Len(peer.table) <= Len(c.table)
        /\ \A i \in 1 .. Len(peer.table) : peer.table[i] = Row(c.table[i])
    BY DEF Decoding, Behind, Context
  <2>2. \A i \in 1 .. Len(peer.table) : i \in 1 .. Len(c.table)
    BY <2>1 DEF Table
  <2> QED
    BY <2>1, <2>2 DEF Table
<1>3. \A i \in 1 .. Len(peer.table) :
        /\ n + i \in Nat /\ n + i # 0
        /\ PeerLookup(peer.table, n + i)
             = [name |-> peer.table[i].name, value |-> peer.table[i].value]
        /\ PeerLookup(peer.table, n + i) # None
        /\ PeerLookup(peer.table, n + i).name = peer.table[i].name
  <2>1. TAKE i \in 1 .. Len(peer.table)
  <2> HIDE DEF n
  <2>2. n + i \in Nat /\ n + i # 0 /\ n + i \notin DOMAIN Static /\ (n + i) - n = i
    BY <1>1
  <2>3. peer.table[i] # None
        /\ [name |-> peer.table[i].name, value |-> peer.table[i].value] # None
    BY <1>2, RowOfRow
  <2>4. QueueIndex(peer.table, (n + i) - n) = peer.table[i]
    BY <1>2, <2>2 DEF QueueIndex
  <2>5. PeerLookup(peer.table, n + i)
          = [name |-> peer.table[i].name, value |-> peer.table[i].value]
    BY <2>2, <2>3, <2>4 DEF PeerLookup, n
  <2> QED
    BY <2>2, <2>3, <2>5
<1> DEFINE table == peer.table
<1>4. ASSUME NEW h \in Headers, NEW t PROVE MaySend(t, TableSize, Literal(0, h, TRUE))
  BY DEF MaySend
<1>5. ASSUME NEW i \in 1 .. Len(peer.table)
      PROVE  MaySend(peer.table, TableSize, Indexed(n + i))
  BY <1>3 DEF MaySend
<1>6. ASSUME NEW i \in 1 .. Len(peer.table), NEW h \in Headers, h.name = peer.table[i].name
      PROVE  MaySend(peer.table, TableSize, Literal(n + i, h, TRUE))
  BY <1>3, <1>6 DEF MaySend
<1>7. MaySend(peer.table, TableSize, Indexed(1))
  <2>1. PeerLookup(peer.table, 1) # None
    <3>1. 1 \in DOMAIN Static
      BY <1>1
    <3> QED
      BY <1>1, <3>1 DEF PeerLookup
  <2> QED
    BY <2>1 DEF MaySend
<1>8. ASSUME NEW m \in 0 .. TableSize, NEW h \in Headers
      PROVE  MaySendAll(peer, TableSize, <<Resize(m)>> \o <<Literal(0, h, TRUE)>>)
  <2> DEFINE a == Resize(m)
             b == Literal(0, h, TRUE)
             q == <<a>> \o <<b>>
  <2>1. Len(q) = 2 /\ q[1] = a /\ q[2] = b
    BY TwoOf
  <2>2. m \in Nat /\ m <= TableSize
    <3>1. TableSize \in Nat
      BY Http2Assumption
    <3> QED
      BY <3>1
  <2>3. \A t : MaySend(t, TableSize, a) /\ MaySend(t, TableSize, b)
    BY <1>4, <2>2 DEF MaySend
  <2> HIDE DEF a, b, q
  <2>4. \A i \in 1 .. Len(q) : q[i] = a \/ q[i] = b
    BY <2>1
  <2>5. MaySendAll(peer, TableSize, q)
    BY <2>1, <2>3, <2>4 DEF MaySendAll
  <2> QED
    BY <2>5 DEF q, a, b
<1>9. \/ piece = <<Indexed(1)>>
      \/ \E h \in Headers : piece = <<Literal(0, h, TRUE)>>
      \/ \E i \in 1 .. Len(peer.table), h \in Headers :
           piece = <<Literal(n + i, h, TRUE)>> /\ h.name = peer.table[i].name
      \/ \E i \in 1 .. Len(peer.table) : piece = <<Indexed(n + i)>>
      \/ \E m \in 0 .. TableSize, h \in Headers :
           piece = <<Resize(m)>> \o <<Literal(0, h, TRUE)>>
  <2> DEFINE L(i, h) == <<Literal(i, h, TRUE)>>
             I(i) == <<Indexed(i)>>
             R(m, p) == <<Resize(m)>> \o p
             new == {L(0, h) : h \in Headers}
             named == {L(n + i, h) : i \in DOMAIN peer.table, h \in Headers}
             Fits(p) == p[1].h.name = peer.table[IntegerOf(p[1]) - n].name
             indexed == {I(n + i) : i \in DOMAIN peer.table}
             resized == {R(m, p) : m \in 0 .. TableSize, p \in new}
  <2>1. Pieces = IF profile.table
                   THEN new \union {p \in named : Fits(p)} \union indexed \union resized
                   ELSE {I(1)}
    BY DEF Pieces
  <2> HIDE DEF L, I, R, n
  <2>2. ASSUME piece \in named, Fits(piece)
        PROVE  \E i \in 1 .. Len(peer.table), h \in Headers :
                 piece = L(n + i, h) /\ h.name = peer.table[i].name
    <3>1. PICK i \in 1 .. Len(peer.table), h \in Headers : piece = L(n + i, h)
      BY <1>2, <2>2
    <3> DEFINE r == Literal(n + i, h, TRUE)
    <3>2. piece[1] = r
      BY <3>1 DEF L
    <3>3. IntegerOf(r) = n + i /\ r.h = h
      <4>1. TRUE \in BOOLEAN /\ n + i \in Nat
        BY <1>3
      <4>2. \A add \in BOOLEAN :
              IntegerOf(Literal(n + i, h, add)) = n + i /\ Literal(n + i, h, add).h = h
        BY <4>1, Representations
      <4> QED
        BY <4>1, <4>2
    <3>4. (n + i) - n = i
      BY <1>1
    <3> HIDE DEF r
    <3>5. h.name = peer.table[i].name
      BY <2>2, <3>2, <3>3, <3>4
    <3> QED
      BY <3>1, <3>5
  <2>3. piece \in resized => \E m \in 0 .. TableSize, h \in Headers : piece = R(m, L(0, h))
    OBVIOUS
  <2>4. piece \in indexed => \E i \in 1 .. Len(peer.table) : piece = I(n + i)
    BY <1>2
  <2>5. piece \in new => \E h \in Headers : piece = L(0, h)
    OBVIOUS
  <2> HIDE DEF new, named, Fits, indexed, resized
  <2>6. \/ piece = I(1)
        \/ \E h \in Headers : piece = L(0, h)
        \/ \E i \in 1 .. Len(peer.table), h \in Headers :
             piece = L(n + i, h) /\ h.name = peer.table[i].name
        \/ \E i \in 1 .. Len(peer.table) : piece = I(n + i)
        \/ \E m \in 0 .. TableSize, h \in Headers : piece = R(m, L(0, h))
    <3>1. piece \in new \union {p \in named : Fits(p)} \union indexed \union resized
          \/ piece = I(1)
      BY <2>1
    <3> QED
      BY <2>2, <2>3, <2>4, <2>5, <3>1
  <2> QED
    BY <2>6 DEF L, I, R
<1>10. CASE piece = <<Indexed(1)>>
  BY <1>7, <1>10, OneMaySend
<1>11. CASE \E h \in Headers : piece = <<Literal(0, h, TRUE)>>
  BY <1>4, <1>11, OneMaySend
<1>12. CASE \E i \in 1 .. Len(peer.table), h \in Headers :
              piece = <<Literal(n + i, h, TRUE)>> /\ h.name = peer.table[i].name
  BY <1>6, <1>12, OneMaySend
<1>13. CASE \E i \in 1 .. Len(peer.table) : piece = <<Indexed(n + i)>>
  BY <1>5, <1>13, OneMaySend
<1>14. CASE \E m \in 0 .. TableSize, h \in Headers :
              piece = <<Resize(m)>> \o <<Literal(0, h, TRUE)>>
  BY <1>8, <1>14
<1> QED
  BY <1>9, <1>10, <1>11, <1>12, <1>13, <1>14

-----------------------------------------------------------------------------
LEMMA LastOf ==
  ASSUME Queue
  PROVE  /\ OnItsWay => Len(buffer) = 1 \/ Len(buffer) = 2
         /\ Len(buffer) = 0 => ~OnItsWay
         /\ (\A i \in 1 .. Len(buffer) : ~IsBlock(buffer[i])) => ~OnItsWay
BY Lengths DEF OnItsWay

(* A frame comes: nothing is on its way before.                            *)
LEMMA FrameComes ==
  ASSUME IInv, Reads, NEW f, NEW cost, Sends(f, cost)
  PROVE  /\ \E c : Decoding(peer, c) /\ c.max = TableSize /\ (Uncut => c = decoder)
         /\ UNCHANGED <<decoder, misread, closed, undefined>> /\ Live
         /\ buffer' # <<>> /\ buffer'[Len(buffer')] = f
         /\ Uncut /\ f.type # "CONTINUATION" =>
              \A i \in 1 .. Len(buffer') : buffer'[i].type # "CONTINUATION"
<1>1. Queue /\ Live
  BY DEF IInv, Sends
<1>2. /\ Len(buffer') = Len(buffer) + 1 /\ Len(buffer) \in {0, 1}
      /\ buffer'[Len(buffer) + 1] = f /\ \A i \in 1 .. Len(buffer) : buffer[i].empty
      /\ \A i \in 1 .. Len(buffer) : buffer'[i] = buffer[i]
  BY <1>1, Arrives
<1>3. \A i \in 1 .. Len(buffer) : ~IsBlock(buffer[i])
  BY <1>1, <1>2, Waits DEF IsBlock
<1>4. ~OnItsWay
  BY <1>1, <1>3, LastOf
<1>5. buffer' # <<>>
  <2>1. Len(buffer') # 0
    BY <1>2
  <2> QED
    BY <2>1, EmptySeq
<1>6. ASSUME f.type # "CONTINUATION"
      PROVE  \A i \in 1 .. Len(buffer') : buffer'[i].type # "CONTINUATION"
  <2>1. \A i \in 1 .. Len(buffer') : i \in 1 .. Len(buffer) \/ i = Len(buffer) + 1
    BY <1>2
  <2> QED
    BY <1>2, <1>3, <1>6, <2>1 DEF IsBlock
<1>7. PICK c : Tracks(c) /\ (Uncut => c = decoder)
  BY <1>1 DEF Reads
<1>8. Decoding(peer, c) /\ c.max = TableSize
  BY <1>4, <1>7 DEF Tracks
<1> QED
  BY <1>1, <1>2, <1>5, <1>6, <1>7, <1>8 DEF Sends

LEMMA OtherComes ==
  ASSUME IInv, Reads, NEW f, NEW cost, Sends(f, cost), ~IsBlock(f), UNCHANGED peer,
         Uncut' => Uncut
  PROVE  Reads'
<1>1. /\ UNCHANGED <<decoder, misread, closed, undefined>> /\ Live
      /\ buffer' # <<>> /\ buffer'[Len(buffer')] = f
      /\ Uncut => \A i \in 1 .. Len(buffer') : buffer'[i].type # "CONTINUATION"
  BY FrameComes DEF IsBlock
<1>2. PICK c : Decoding(peer, c) /\ c.max = TableSize /\ (Uncut => c = decoder)
  BY FrameComes
<1>3. ~OnItsWay'
  BY <1>1 DEF OnItsWay
<1>4. Decoding(peer', c)
  BY <1>2
<1>5. Tracks(c)'
  BY <1>2, <1>3, <1>4 DEF Tracks
<1>6. /\ peer'.limit \in 0 .. TableSize /\ Context(decoder') /\ decoder'.max = TableSize
      /\ Uncut' => ~misread'
  BY <1>1 DEF Reads
<1> QED
  BY <1>1, <1>2, <1>5, <1>6 DEF Reads

IsFrame(f) ==
  f = [type |-> f.type, stream |-> f.stream, empty |-> f.empty, endh |-> f.endh, end |-> f.end,
       size |-> f.size, block |-> f.block, meant |-> f.meant, fit |-> f.fit]

LEMMA BlockFrame ==
  ASSUME NEW f, IsFrame(f), NEW piece, NEW meant
  PROVE  LET g == [f EXCEPT !.block = piece, !.meant = meant] IN
         g.type = f.type /\ g.block = piece /\ g.meant = meant
<1> DEFINE g == [f EXCEPT !.block = piece, !.meant = meant]
<1>1. g \in [type : {f.type}, stream : {f.stream}, empty : {f.empty}, endh : {f.endh},
             end : {f.end}, size : {f.size}, block : {piece}, meant : {meant},
             fit : {f.fit}]
  BY DEF IsFrame
<1> HIDE DEF g
<1>2. g.type = f.type /\ g.block = piece /\ g.meant = meant
  BY <1>1
<1> QED
  BY <1>2 DEF g

LEMMA BlockComes ==
  ASSUME IInv, Reads, NEW g, IsFrame(g), IsBlock(g), SendsHeaders(g),
         Uncut' => Uncut /\ g.type # "CONTINUATION"
  PROVE  Reads'
<1>1. PICK piece \in Pieces :
        LET d == PeerDecodes(peer, piece)
        IN /\ peer' = [table |-> d.table, limit |-> d.limit]
           /\ Sends([g EXCEPT !.block = piece, !.meant = d.headers], Len(piece))
  BY DEF SendsHeaders
<1> DEFINE d == PeerDecodes(peer, piece)
           f == [g EXCEPT !.block = piece, !.meant = d.headers]
<1>2. peer' = [table |-> d.table, limit |-> d.limit] /\ Sends(f, Len(piece))
  BY <1>1
<1>3. f.type = g.type /\ f.block = piece /\ f.meant = d.headers
  BY BlockFrame
<1> HIDE DEF f
<1>4. /\ UNCHANGED <<decoder, misread, closed, undefined>> /\ Live
      /\ buffer' # <<>> /\ buffer'[Len(buffer')] = f
      /\ Uncut' => \A i \in 1 .. Len(buffer') : buffer'[i].type # "CONTINUATION"
  BY <1>2, <1>3, FrameComes
<1>5. PICK c : Decoding(peer, c) /\ c.max = TableSize /\ (Uncut => c = decoder)
  BY <1>2, FrameComes
<1>6. MaySendAll(peer, TableSize, piece)
  BY <1>5, PiecesMaySend
<1>7. Decoding(d, hpack_decode(c, piece).ctx) /\ hpack_decode(c, piece).ctx.max = TableSize
  <2>1. MaySendAll(peer, c.max, piece)
    BY <1>5, <1>6
  <2>2. ReadAsMeant(peer, c, piece)
    BY <1>5, <2>1, BlocksAreRead
  <2> QED
    BY <1>5, <2>2 DEF ReadAsMeant
<1> HIDE DEF d
<1>8. peer'.limit \in 0 .. TableSize
  <2>1. d.limit \in Nat /\ d.limit <= TableSize
    BY <1>7 DEF Decoding, Behind
  <2>2. TableSize \in Nat
    BY Http2Assumption
  <2> QED
    BY <1>2, <2>1, <2>2
<1>9. OnItsWay'
  BY <1>3, <1>4 DEF OnItsWay, IsBlock
<1>10. /\ Decoding(peer, c) /\ MaySendAll(peer, TableSize, f.block)
       /\ PeerDecodes(peer, f.block) = d /\ f.meant = d.headers
  BY <1>3, <1>5, <1>6 DEF d
<1>11. \E p : Sent(p, c, buffer[Len(buffer)])'
  BY <1>2, <1>4, <1>10 DEF Sent
<1>12. Tracks(c)'
  BY <1>5, <1>9, <1>11 DEF Tracks
<1>13. Context(decoder') /\ decoder'.max = TableSize /\ (Uncut' => ~misread')
  BY <1>4 DEF Reads
<1> QED
  BY <1>4, <1>5, <1>8, <1>12, <1>13 DEF Reads

-----------------------------------------------------------------------------
(* A header block is taken.  The table that goes on where the client's did *)
(* reads it as it was meant.                                               *)
LEMMA BlockRead ==
  ASSUME IInv, Reads, NEW type \in {"HEADERS", "CONTINUATION"}, Taken(type)
  PROVE  LET f == Head(buffer) IN
         /\ \E c : LET d == hpack_decode(c, f.block) IN
              /\ Uncut => c = decoder
              /\ d.error = FALSE /\ d.headers = f.meant /\ Decoding(peer', d.ctx)
              /\ d.ctx.max = TableSize
         /\ \E p : MaySendAll(p, TableSize, f.block)
         /\ ~OnItsWay' /\ buffer' = <<>> /\ UNCHANGED <<peer, odd>>
         /\ Uncut => type # "CONTINUATION"
<1>1. Queue
  BY DEF IInv
<1>2. /\ Live /\ Len(buffer) \in {1, 2} /\ Head(buffer) = buffer[1]
      /\ buffer[1].type = type /\ buffer' \in Seq(Range(buffer'))
      /\ Len(buffer') = Len(buffer) - 1
      /\ Len(buffer) = 2 <=> buffer[1].empty
  BY <1>1, Takes
<1>3. 1 \in 1 .. Len(buffer)
  BY <1>2
<1>4. ~buffer[1].empty
  BY <1>1, <1>2, <1>3 DEF Queue
<1>5. Len(buffer) = 1 /\ Len(buffer') = 0
  BY <1>2, <1>4
<1>6. buffer' = <<>> /\ buffer # <<>>
  BY <1>2, <1>5, EmptySeq
<1>7. OnItsWay /\ ~OnItsWay'
  BY <1>2, <1>5, <1>6 DEF OnItsWay, IsBlock
<1> DEFINE f == Head(buffer)
<1>8. PICK c : Tracks(c) /\ (Uncut => c = decoder)
  BY <1>2 DEF Reads
<1>9. PICK p : Sent(p, c, f)
  BY <1>2, <1>5, <1>7, <1>8 DEF Tracks
<1>10. c.max = TableSize
  BY <1>8 DEF Tracks
<1> HIDE DEF f
<1> DEFINE d == hpack_decode(c, f.block)
           m == PeerDecodes(p, f.block)
<1>11. /\ Decoding(p, c) /\ MaySendAll(p, TableSize, f.block)
       /\ f.meant = m.headers /\ peer = [table |-> m.table, limit |-> m.limit]
  BY <1>9 DEF Sent
<1>12. MaySendAll(p, c.max, f.block)
  BY <1>10, <1>11
<1>13. ReadAsMeant(p, c, f.block)
  BY <1>11, <1>12, BlocksAreRead
<1>14. d.error = FALSE /\ d.headers = m.headers /\ Decoding(m, d.ctx) /\ d.ctx.max = TableSize
  BY <1>10, <1>13 DEF ReadAsMeant
<1> HIDE DEF d, m
<1>15. Decoding(peer, d.ctx)
  <2>1. peer.table = m.table /\ peer.limit = m.limit
    BY <1>11
  <2> QED
    BY <1>14, <2>1 DEF Decoding, Behind
<1>16. UNCHANGED <<peer, odd>>
  BY DEF Taken, client
<1>17. Uncut => type # "CONTINUATION"
  BY <1>2, <1>3 DEF Reads
<1>18. d.headers = f.meant /\ Decoding(peer', d.ctx)
  BY <1>11, <1>14, <1>15, <1>16
<1> QED
  BY <1>6, <1>7, <1>8, <1>11, <1>14, <1>16, <1>17, <1>18 DEF d, f

LEMMA BlockReads ==
  ASSUME IInv, Reads, HeadersFrame \/ Continuation
  PROVE  Reads'
<1> DEFINE f == Head(buffer)
           own == hpack_decode(decoder, f.block)
<1>1. PICK type \in {"HEADERS", "CONTINUATION"} :
        Taken(type) /\ (HeadersFrame \/ (Continuation /\ type = "CONTINUATION"))
  BY DEF HeadersFrame, Continuation
<1>2. PICK c : LET d == hpack_decode(c, f.block) IN
        /\ Uncut => c = decoder
        /\ d.error = FALSE /\ d.headers = f.meant /\ Decoding(peer', d.ctx)
        /\ d.ctx.max = TableSize
  BY <1>1, BlockRead
<1> DEFINE next == hpack_decode(c, f.block).ctx
<1>3. /\ Uncut => c = decoder /\ own.headers = f.meant
      /\ Decoding(peer', next) /\ next.max = TableSize
  BY <1>2
<1>4. /\ ~OnItsWay' /\ buffer' = <<>> /\ UNCHANGED <<peer, odd>>
      /\ Uncut => type # "CONTINUATION"
  BY <1>1, BlockRead
<1>5. Context(own.ctx) /\ own.ctx.max = TableSize
  <2>1. PICK p : MaySendAll(p, TableSize, f.block)
    BY <1>1, BlockRead
  <2>2. Context(decoder) /\ decoder.max = TableSize
    BY DEF Reads
  <2> HIDE DEF f
  <2> QED
    BY <2>1, <2>2, BlocksKeepTables
<1>6. Uncut => own.ctx = next
  BY <1>3
<1> DEFINE right == own.headers = f.meant
<1>7. \/ Refuse
      \/ decoder' = own.ctx /\ misread' = (misread \/ ~right)
      \/ decoder' = decoder /\ type = "CONTINUATION"
  BY <1>1 DEF HeadersFrame, Continuation
<1>8. Uncut => right
  BY <1>3
<1>9. Uncut' <=> Uncut
  BY <1>4 DEF Uncut
<1> HIDE DEF f, own, next, right
<1>0. PICK c1 : c1 = next
  OBVIOUS
<1>10. Tracks(c1)' /\ (Uncut => own.ctx = c1)
  BY <1>0, <1>3, <1>4, <1>6 DEF Tracks
<1>11. \A i \in 1 .. Len(buffer') : buffer'[i].type # "CONTINUATION"
  BY <1>4
<1>12. peer'.limit \in 0 .. TableSize /\ Context(decoder) /\ decoder.max = TableSize
       /\ (Uncut => ~misread)
  BY <1>4 DEF Reads
<1>13. CASE Refuse
  <2>1. closed' /\ UNCHANGED <<decoder, misread>>
    BY <1>13 DEF Refuse
  <2>2. ~Live'
    BY <2>1 DEF Live
  <2> QED
    BY <1>9, <1>11, <1>12, <2>1, <2>2 DEF Reads
<1>14. CASE decoder' = own.ctx /\ misread' = (misread \/ ~right)
  BY <1>5, <1>8, <1>9, <1>10, <1>11, <1>12, <1>14 DEF Reads
<1>15. CASE decoder' = decoder /\ type = "CONTINUATION"
  BY <1>4, <1>9, <1>10, <1>11, <1>12, <1>15 DEF Reads
<1> QED
  BY <1>7, <1>13, <1>14, <1>15

(* A frame of another kind is taken, or none.                              *)
LEMMA OtherReads ==
  ASSUME IInv, Reads, NEW type, Taken(type), type \notin {"HEADERS", "CONTINUATION"},
         UNCHANGED <<decoder, misread>>
  PROVE  Reads'
<1>1. Queue /\ peer' = peer
  BY DEF IInv, Taken, client
<1>2. /\ Live /\ Len(buffer) \in {1, 2} /\ buffer[1].type = type
      /\ buffer' \in Seq(Range(buffer')) /\ Len(buffer') = Len(buffer) - 1
      /\ \A i \in 1 .. Len(buffer') : buffer'[i] = buffer[i + 1]
  BY <1>1, Takes
<1>3. OnItsWay <=> OnItsWay'
  <2>1. CASE Len(buffer) = 1
    <3>1. buffer' = <<>>
      BY <1>2, <2>1, EmptySeq
    <3> QED
      BY <1>2, <2>1, <3>1 DEF OnItsWay, IsBlock
  <2>2. CASE Len(buffer) = 2
    <3>1. Len(buffer') = 1 /\ buffer'[1] = buffer[2]
      BY <1>2, <2>2
    <3>2. buffer' # <<>> /\ buffer # <<>>
      BY <2>2, <3>1, EmptySeq
    <3> QED
      BY <2>2, <3>1, <3>2 DEF OnItsWay, IsBlock
  <2> QED
    BY <1>2, <2>1, <2>2
<1>4. OnItsWay => buffer'[Len(buffer')] = buffer[Len(buffer)]
  <2>1. SUFFICES ASSUME OnItsWay PROVE Len(buffer) = 2
    BY <1>2
  <2>2. CASE Len(buffer) = 1
    BY <1>2, <2>1, <2>2 DEF OnItsWay, IsBlock
  <2> QED
    BY <1>2, <2>2
<1>5. PICK c : Tracks(c) /\ (Uncut => c = decoder)
  BY <1>2 DEF Reads
<1>6. Tracks(c)'
  <2>1. OnItsWay => \E p : Sent(p, c, buffer[Len(buffer)])
    BY <1>5 DEF Tracks
  <2>2. OnItsWay' => (\E p : Sent(p, c, buffer[Len(buffer)]))'
    BY <1>1, <1>3, <1>4, <2>1 DEF Sent
  <2>3. ~OnItsWay' => Decoding(peer', c)
    BY <1>1, <1>3, <1>5 DEF Tracks
  <2> QED
    BY <1>5, <2>2, <2>3 DEF Tracks
<1>7. Uncut' <=> Uncut
  BY DEF Taken, client, Uncut
<1>8. Uncut => \A i \in 1 .. Len(buffer') : buffer'[i].type # "CONTINUATION"
  <2>1. \A i \in 1 .. Len(buffer') : i + 1 \in 1 .. Len(buffer)
    BY <1>2
  <2> QED
    BY <1>2, <2>1 DEF Reads
<1> QED
  BY <1>1, <1>5, <1>6, <1>7, <1>8 DEF Reads

LEMMA ElsewhereReads ==
  ASSUME Reads, UNCHANGED <<buffer, peer, decoder, misread>>, Live' => Live, Uncut' => Uncut
  PROVE  Reads'
<1>1. OnItsWay' <=> OnItsWay
  BY DEF OnItsWay
<1>2. ASSUME NEW c, Tracks(c) PROVE Tracks(c)'
  <2>1. (\E p : Sent(p, c, buffer[Len(buffer)])) => (\E p : Sent(p, c, buffer[Len(buffer)]))'
    BY DEF Sent
  <2>2. Decoding(peer, c) => Decoding(peer', c)
    OBVIOUS
  <2> QED
    BY <1>1, <1>2, <2>1, <2>2 DEF Tracks
<1> QED
  BY <1>2 DEF Reads

LEMMA IsBlockFrame ==
  ASSUME NEW s, NEW endh, NEW end
  PROVE  /\ LET g == [Frame("CONTINUATION", s) EXCEPT !.endh = endh]
            IN IsFrame(g) /\ IsBlock(g) /\ g.type = "CONTINUATION"
         /\ LET g == [Frame("HEADERS", s) EXCEPT !.endh = endh, !.end = end]
            IN IsFrame(g) /\ IsBlock(g) /\ g.type = "HEADERS"
<1> DEFINE h == [Frame("CONTINUATION", s) EXCEPT !.endh = endh]
           k == [Frame("HEADERS", s) EXCEPT !.endh = endh, !.end = end]
           Own(type, e, l) == [type : {type}, stream : {s}, empty : {FALSE}, endh : {e}, end : {l},
                               size : {0}, block : {<<>>}, meant : {<<>>}, fit : {FALSE}]
<1>1. h \in Own("CONTINUATION", endh, FALSE) /\ k \in Own("HEADERS", endh, end)
  BY DEF Frame
<1> HIDE DEF h, k
<1>2. IsFrame(h) /\ IsFrame(k) /\ h.type = "CONTINUATION" /\ k.type = "HEADERS"
  BY <1>1 DEF IsFrame
<1> QED
  BY <1>2 DEF h, k, IsBlock

LEMMA ClientReads ==
  ASSUME IInv, Reads, Client
  PROVE  Reads'
<1>1. ASSUME NEW endh \in BOOLEAN, NEW end \in BOOLEAN, NEW fit \in BOOLEAN,
             ClientHeaders(endh, end, fit)
      PROVE  Reads'
  <2> DEFINE s == opened + 1
             g == [Frame("HEADERS", s) EXCEPT !.endh = endh, !.end = end, !.fit = fit]
  <2>1. SendsHeaders(g)
    BY <1>1 DEF ClientHeaders
  <2>3. Uncut' => Uncut
    BY <1>1 DEF ClientHeaders, Uncut
  <2>4. g \in [type : {"HEADERS"}, stream : {s}, empty : {FALSE}, endh : {endh}, end : {end},
                size : {0}, block : {<<>>}, meant : {<<>>}, fit : {fit}]
    BY DEF Frame
  <2> HIDE DEF g
  <2>2. IsFrame(g) /\ IsBlock(g) /\ g.type = "HEADERS"
    BY <2>4 DEF IsFrame, IsBlock
  <2> QED
    BY <2>1, <2>2, <2>3, BlockComes
<1>2. ASSUME NEW endh \in BOOLEAN, ClientContinuation(endh) PROVE Reads'
  <2> DEFINE g == [Frame("CONTINUATION", block) EXCEPT !.endh = endh]
  <2>1. SendsHeaders(g)
    BY <1>2 DEF ClientContinuation
  <2>3. ~Uncut'
    BY <1>2 DEF ClientContinuation, Uncut
  <2>2. IsFrame(g) /\ IsBlock(g) /\ g.type = "CONTINUATION"
    BY IsBlockFrame
  <2> HIDE DEF g
  <2> QED
    BY <2>1, <2>2, <2>3, BlockComes
<1>3. ASSUME NEW s \in Streams, ClientTrailers(s) PROVE Reads'
  <2> DEFINE g == [Frame("HEADERS", s) EXCEPT !.endh = TRUE, !.end = TRUE]
  <2>1. SendsHeaders(g)
    BY <1>3 DEF ClientTrailers
  <2>3. Uncut' => Uncut
    BY <1>3 DEF ClientTrailers, Uncut
  <2>2. IsFrame(g) /\ IsBlock(g) /\ g.type = "HEADERS"
    BY IsBlockFrame
  <2> HIDE DEF g
  <2> QED
    BY <2>1, <2>2, <2>3, BlockComes
<1>4. ASSUME NEW s \in Streams, NEW size \in {0, 1}, NEW end \in BOOLEAN,
             ClientData(s, size, end)
      PROVE  Reads'
  <2> DEFINE f == [Frame("DATA", s) EXCEPT !.empty = (size = 0), !.size = size, !.end = end]
  <2>1. Sends(f, 1) /\ UNCHANGED peer
    BY <1>4 DEF ClientData
  <2>3. Uncut' => Uncut
    BY <1>4 DEF ClientData, Uncut
  <2>2. ~IsBlock(f)
    BY DEF Frame, IsBlock
  <2> HIDE DEF f
  <2> QED
    BY <2>1, <2>2, <2>3, OtherComes
<1>5. ASSUME NEW s \in Streams, ClientReset(s) PROVE Reads'
  <2>1. Sends(Frame("RST_STREAM", s), 1) /\ UNCHANGED peer
    BY <1>5 DEF ClientReset
  <2>3. Uncut' => Uncut
    BY <1>5 DEF ClientReset, Uncut
  <2>2. ~IsBlock(Frame("RST_STREAM", s))
    BY DEF Frame, IsBlock
  <2> QED
    BY <2>1, <2>2, <2>3, OtherComes
<1>6. ASSUME NEW f \in OtherFrames, ClientSays(f) PROVE Reads'
  <2>1. Sends(f, 1) /\ UNCHANGED peer
    BY <1>6 DEF ClientSays
  <2>3. Uncut' => Uncut
    BY <1>6 DEF ClientSays, Uncut
  <2>2. ~IsBlock(f)
    <3>1. CASE \E n : f = SettingsFrame(n)
      BY <3>1 DEF SettingsFrame, Frame, IsBlock
    <3>2. CASE \E type \in {"WINDOW_UPDATE", "PING", "unparsed"} : f = Frame(type, 0)
      BY <3>2 DEF Frame, IsBlock
    <3> QED
      BY <3>1, <3>2 DEF OtherFrames
  <2> QED
    BY <2>1, <2>2, <2>3, OtherComes
<1>7. ASSUME ClientGoesAway PROVE Reads'
  <2>1. Sends(Frame("GOAWAY", 0), 1) /\ UNCHANGED peer
    BY <1>7 DEF ClientGoesAway
  <2>3. Uncut' => Uncut
    BY <1>7 DEF ClientGoesAway, Uncut
  <2>2. ~IsBlock(Frame("GOAWAY", 0))
    BY DEF Frame, IsBlock
  <2> QED
    BY <2>1, <2>2, <2>3, OtherComes
<1>8. ASSUME NEW octets, ReadPreface(octets) PROVE Reads'
  BY <1>8, ElsewhereReads DEF ReadPreface, Uncut
<1> QED
  BY <1>1, <1>2, <1>3, <1>4, <1>5, <1>6, <1>7, <1>8 DEF Client

LEMMA ServerReads ==
  ASSUME IInv, Reads, Server
  PROVE  Reads'
<1>1. ASSUME DataFrame PROVE Reads'
  <2>1. Taken("DATA") /\ UNCHANGED <<decoder, misread>>
    BY <1>1 DEF DataFrame, Refuse
  <2> QED
    BY <2>1, OtherReads
<1>2. ASSUME Reset PROVE Reads'
  BY <1>2, OtherReads DEF Reset
<1>3. ASSUME Settings PROVE Reads'
  BY <1>3, OtherReads DEF Settings
<1>4. ASSUME Ping PROVE Reads'
  BY <1>4, OtherReads DEF Ping
<1>5. ASSUME Goaway PROVE Reads'
  BY <1>5, OtherReads DEF Goaway, Refuse
<1>6. ASSUME WindowUpdate PROVE Reads'
  BY <1>6, OtherReads DEF WindowUpdate
<1>7. ASSUME Unparsed PROVE Reads'
  BY <1>7, OtherReads DEF Unparsed
<1> QED
  BY <1>1, <1>2, <1>3, <1>4, <1>5, <1>6, <1>7, BlockReads DEF Server

LEMMA BackendReads ==
  ASSUME Reads, NEW s, Backend(s)
  PROVE  Reads'
<1>1. UNCHANGED <<buffer, peer, decoder, misread, odd>> /\ Live
  BY DEF Backend, StreamStarts, StreamEnds, StreamData, client
<1> QED
  BY <1>1, ElsewhereReads DEF Uncut

LEMMA InitiallyReads == Init => Reads
<1> SUFFICES ASSUME Init PROVE Reads
  OBVIOUS
<1>1. TableSize \in Nat
  BY Http2Assumption
<1>2. /\ peer = [table |-> <<>>, limit |-> TableSize] /\ misread = FALSE
      /\ buffer = <<>> /\ decoder = hpack_init(TableSize)
  BY DEF Init
<1>3. Context(decoder) /\ decoder.table = <<>> /\ decoder.max = TableSize
  <2>1. Table(<<>>)
    BY DEF Table
  <2>2. Weight(<<>>) = 0
    BY <2>1, TableIsSized, UptoIs, WeightIs
  <2>3. decoder = [table |-> <<>>, size |-> 0, max |-> TableSize, pushed |-> 0,
                   lookup |-> [n \in Names |-> <<>>]]
    BY <1>2 DEF hpack_init
  <2>4. IsContext(decoder) /\ decoder.table = <<>> /\ decoder.size = 0 /\ decoder.max = TableSize
    BY <2>3 DEF IsContext
  <2> QED
    BY <1>1, <2>1, <2>2, <2>4 DEF Context
<1>4. Decoding(peer, decoder)
  <2>1. Table(<<>>)
    BY DEF Table
  <2>2. Weight(<<>>) = 0
    BY <2>1, TableIsSized, UptoIs, WeightIs
  <2>3. peer.table = <<>> /\ peer.limit = TableSize
    BY <1>2
  <2>4. Behind(peer, decoder)
    BY <1>1, <1>3, <2>1, <2>2, <2>3 DEF Behind
  <2> QED
    BY <1>3, <2>4 DEF Decoding
<1>5. Tracks(decoder)
  BY <1>2, <1>3, <1>4 DEF Tracks, OnItsWay
<1> QED
  BY <1>1, <1>2, <1>3, <1>5 DEF Reads

LEMMA StepReads == IInv /\ Reads /\ [Next]_vars => Reads'
<1> SUFFICES ASSUME IInv, Reads, [Next]_vars PROVE Reads'
  OBVIOUS
<1>1. CASE UNCHANGED vars
  <2>1. UNCHANGED <<buffer, peer, decoder, misread, closed, undefined, odd>>
    BY <1>1 DEF vars
  <2> QED
    BY <2>1, ElsewhereReads DEF Live, Uncut
<1>2. CASE Next
  BY <1>2, ClientReads, ServerReads, BackendReads DEF Next
<1> QED
  BY <1>1, <1>2

LEMMA Reading == Spec => []Reads
<1> QED
  BY Invariance, InitiallyReads, StepReads, PTL DEF Spec

(* Whatever headers a client adds to its table, whatever that evicts, which*)
(* new limits it sets between them and how many octets an index takes, on  *)
(* however many streams: hpack_decode reads each header as the client      *)
(* meant it, as long as every block is in one HEADERS frame.               *)
THEOREM HeadersAreRead == Spec => []HeadersRead
<1>1. Reads => HeadersRead
  BY DEF Reads, HeadersRead, Uncut
<1> QED
  BY <1>1, Reading, PTL

-----------------------------------------------------------------------------
(* What has come of a client that has done nothing odd is welcome.         *)
Welcome(f) ==
  /\ f.type # "GOAWAY"
  /\ f.type = "HEADERS" => /\ streams[f.stream] = None /\ (f.end => f.fit)
                           /\ f.fit \/ f.stream = block
  /\ f.type = "DATA" => /\ streams[f.stream] # None /\ streams[f.stream].state = "open"
                        /\ streams[f.stream].fit /\ (f.empty => f.end)
  /\ f.type # "CONTINUATION"

(* A stream takes its body, and its request is fit unless its block, which *)
(* is not complete, has still to make it so.                               *)
Receives(s, stream, pending) == stream.state = "open" /\ (stream.fit \/ s = pending)

Orderly ==
  /\ \A i \in 1 .. Len(buffer) : Welcome(buffer[i])
  /\ \A s \in Streams :
       /\ streams[s] # None => s <= opened
       /\ s \in uploading /\ streams[s] # None => Receives(s, streams[s], block)
       /\ sent[s].body <= MaxPost

Tolerates == odd = {} => ~closed /\ (Live => Orderly)

(* A frame comes that suits the streams.                                   *)
LEMMA SuitsOrderly ==
  ASSUME IInv, Orderly, NEW f, NEW cost, Sends(f, cost), Accounts(f), (Welcome(f))',
         \A s \in Streams :
           /\ s \in uploading' /\ streams[s] # None => Receives(s, streams[s], block')
           /\ sent'[s].body <= MaxPost
  PROVE  Orderly'
<1> USE StreamIsNumber
<1>1. Queue /\ Types /\ streams' = streams
  BY DEF IInv, Sends
<1>2. /\ Len(buffer) \in {0, 1} /\ Len(buffer') = Len(buffer) + 1
      /\ \A i \in 1 .. Len(buffer) : buffer'[i] = buffer[i] /\ buffer[i].empty
      /\ buffer'[Len(buffer) + 1] = f
  BY <1>1, Arrives
<1>3. \A i \in 1 .. Len(buffer) : buffer[i].type \in {"DATA", "SETTINGS"}
  BY <1>1, <1>2, Waits
<1>4. ASSUME NEW i \in 1 .. Len(buffer') PROVE Welcome(buffer[i])'
  <2>1. CASE i = Len(buffer) + 1
    BY <1>2, <2>1 DEF Welcome
  <2>2. CASE i \in 1 .. Len(buffer)
    BY <1>1, <1>2, <1>3, <2>2 DEF Orderly, Welcome
  <2> QED
    BY <1>2, <2>1, <2>2
<1>5. ASSUME NEW s \in Streams, streams'[s] # None PROVE s <= opened'
  <2>1. s <= opened /\ opened <= opened' /\ opened \in Nat /\ opened' \in Nat /\ s \in Nat
    BY <1>1, <1>5 DEF Orderly, Accounts, Types
  <2>2. \A a, b, c \in Nat : a <= b /\ b <= c => a <= c
    OBVIOUS
  <2> QED
    BY <2>1, <2>2, Zenon
<1> QED
  BY <1>1, <1>4, <1>5 DEF Orderly, Receives

(* One is taken and changes only its own stream, of which nothing follows. *)
LEMMA TakenOrderly ==
  ASSUME IInv, Orderly, NEW type, Taken(type), NEW s,
         \A t \in Streams : t # s => streams'[t] = streams[t],
         s \in Streams /\ streams'[s] # None =>
           s <= opened /\ (s \in uploading => Receives(s, streams'[s], block)),
         \A i \in 2 .. Len(buffer) :
           /\ buffer[i].type \in {"HEADERS", "DATA"} => buffer[i].stream # s
  PROVE  Orderly'
<1>1. Queue /\ UNCHANGED <<opened, uploading, sent, block>>
  BY DEF IInv, Taken, client
<1>2. /\ Len(buffer) \in {1, 2} /\ Len(buffer') = Len(buffer) - 1
      /\ \A i \in 1 .. Len(buffer') : buffer'[i] = buffer[i + 1]
  BY <1>1, Takes
<1>3. ASSUME NEW i \in 1 .. Len(buffer') PROVE Welcome(buffer[i])'
  <2>1. Len(buffer) = 2 /\ buffer'[i] = buffer[2]
    BY <1>2
  <2>2. 2 \in 1 .. Len(buffer) /\ 2 \in 2 .. Len(buffer)
    BY <2>1
  <2>3. /\ Welcome(buffer[2])
        /\ buffer[2].type \in {"HEADERS", "DATA"} =>
             buffer[2].stream # s /\ buffer[2].stream \in Streams
    BY <1>1, <2>2 DEF Orderly, Queue
  <2>4. ASSUME NEW g, Welcome(g),
               g.type \in {"HEADERS", "DATA"} => g.stream # s /\ g.stream \in Streams
        PROVE  Welcome(g)'
    <3>1. g.type \in {"HEADERS", "DATA"} => streams'[g.stream] = streams[g.stream]
      BY <2>4
    <3>2. block' = block
      BY <1>1
    <3> QED
      BY <2>4, <3>1, <3>2 DEF Welcome
  <2>5. PICK g : g = buffer[2]
    OBVIOUS
  <2>6. Welcome(g)
    BY <2>3, <2>5
  <2>7. Welcome(g)'
    BY <2>3, <2>4, <2>5, <2>6
  <2>8. buffer'[i] = g
    BY <2>1, <2>5
  <2> QED
    BY <2>7, <2>8 DEF Welcome
<1>4. ASSUME NEW t \in Streams
      PROVE  /\ streams'[t] # None => t <= opened
             /\ t \in uploading /\ streams'[t] # None => Receives(t, streams'[t], block)
             /\ sent[t].body <= MaxPost
  BY DEF Orderly, Receives
<1> QED
  BY <1>1, <1>3, <1>4 DEF Orderly, Receives

LEMMA ServerOrderly ==
  ASSUME IInv, Reads, Orderly, ~closed, Uncut, Server
  PROVE  ~closed' /\ (Live' => Orderly')
<1> USE StreamIsNumber
<1>1. ASSUME DataFrame PROVE ~closed' /\ (Live' => Orderly')
  <2> DEFINE f == Head(buffer)
             s == f.stream
             longer == Longer(s, f.size)
  <2>1. Taken("DATA") /\ Queue /\ Bodies /\ EndsOnce
    BY <1>1 DEF DataFrame, IInv, Taken
  <2>2. /\ Head(buffer) = buffer[1] /\ buffer[1].type = "DATA"
        /\ s \in Streams /\ f.size \in Nat
    BY <2>1, Taking
  <2>3. /\ Len(buffer) \in {1, 2} /\ (Len(buffer) = 2 <=> buffer[1].empty)
    BY <2>1, Takes
  <2>4. 1 \in 1 .. Len(buffer)
    BY <2>3
  <2>5. Welcome(f) /\ f.type = "DATA"
    BY <2>2, <2>4 DEF Orderly
  <2>6. /\ streams[s] # None /\ streams[s].state = "open" /\ streams[s].fit
        /\ f.empty => f.end
    BY <2>5 DEF Welcome
  <2>7. streams[s] \in Stream /\ streams[s].body \in Nat
        /\ StreamTypes
    BY <2>2, <2>6, IsAnswers, BodyIsNumber
  <2>8. ~PostTooLong(s, f.size)
    <3> DEFINE a == streams[s].body
               b == sent[s].body
    <3>1. a + Coming(s) = b /\ b <= MaxPost
      BY <2>1, <2>2, <2>6 DEF Bodies, Orderly
    <3>2. PICK rest : rest \in Nat /\ Coming(s) = rest + f.size
      <4>1. Adds(buffer[1], s) = f.size
        BY <2>2 DEF Adds
      <4>2. PICK t \in Streams : t = s
        BY <2>2
      <4>3. /\ Coming(t)' \in Nat
            /\ Coming(t) = Coming(t)' + Adds(buffer[1], t)
        BY <2>1, Came
      <4> QED
        BY <4>1, <4>2, <4>3
    <3>3. MaxPost \in Nat /\ a \in Nat
      BY <2>7, Http2Assumption
    <3> DEFINE n == f.size
    <3>4. n \in Nat
      BY <2>2
    <3>5. PostTooLong(s, n) <=> n + a > MaxPost
      BY DEF PostTooLong
    <3> HIDE DEF a, b, n
    <3>6. ~(n + a > MaxPost)
      <4>1. Coming(s) = rest + n
        BY <3>2 DEF n
      <4> QED
        BY <3>1, <3>2, <3>3, <3>4, <4>1
    <3> QED
      BY <3>5, <3>6 DEF n
  <2>10. longer \in Stream /\ longer.state = "open" /\ longer.fit
    <3>1. longer \in Stream
      BY <2>2, <2>7, LongerBody
    <3>2. longer.state = "open" /\ longer.fit
      BY <2>6, <2>7 DEF Longer, Stream
    <3> QED
      BY <3>1, <3>2
  <2> DEFINE half == [longer EXCEPT !.state = "half closed"]
  <2>11. half \in Stream /\ half.fit
    BY <2>10 DEF Stream
  <2>9. ~closed' /\ IF f.end THEN Respond(s, half)
                             ELSE streams' = [streams EXCEPT ![s] = longer]
    <3>1. IF f.end THEN Request(s, half)
                   ELSE streams' = [streams EXCEPT ![s] = longer] /\ UNCHANGED closed
      BY <1>1, <2>6, <2>8 DEF DataFrame
    <3> HIDE DEF half, longer, f
    <3> QED
      BY <2>11, <3>1 DEF Request
  <2> HIDE DEF half, longer
  <2>12. ASSUME Live'
         PROVE  /\ \A t \in Streams : t # s => streams'[t] = streams[t]
                /\ ~f.end => streams'[s] = longer
    <3>1. CASE f.end
      <4>1. Respond(s, half)
        BY <2>9, <3>1
      <4>2. streams' \in {[streams EXCEPT ![s] = None], [streams EXCEPT ![s] = half]}
        BY <2>2, <2>7, <2>11, <2>12, <4>1, RequestStreams DEF Live
      <4> HIDE DEF s
      <4> QED
        BY <2>7, <3>1, <4>2 DEF StreamTypes
    <3>2. CASE ~f.end
      <4>1. streams' = [streams EXCEPT ![s] = longer]
        BY <2>9, <3>2
      <4> HIDE DEF s
      <4> QED
        BY <2>2, <2>7, <4>1 DEF StreamTypes
    <3> QED
      BY <3>1, <3>2
  <2>13. s <= opened
    BY <2>2, <2>6 DEF Orderly
  <2>14. f.end => s \notin uploading
    <3>1. Carries(buffer[1], s)
      BY <2>2 DEF Carries
    <3> QED
      BY <2>1, <2>2, <2>4, <3>1 DEF EndsOnce
  <2>15. ASSUME NEW i \in 2 .. Len(buffer), buffer[i].type \in {"HEADERS", "DATA"}
         PROVE  buffer[i].stream # s
    <3>1. Len(buffer) = 2 /\ i = 2
      BY <2>3, <2>15
    <3>2. buffer[1].end
      BY <2>2, <2>3, <2>6, <3>1
    <3>3. Carries(buffer[1], s)
      BY <2>2 DEF Carries
    <3>4. i \in 1 + 1 .. Len(buffer)
      BY <3>1
    <3>5. ~Carries(buffer[i], s)
      BY <2>1, <2>2, <2>4, <3>2, <3>3, <3>4 DEF EndsOnce
    <3> QED
      BY <2>15, <3>5 DEF Carries
  <2> HIDE DEF f, s
  <2>16. ASSUME Live' PROVE Orderly'
    <3>1. streams'[s] # None =>
            s <= opened /\ (s \in uploading => Receives(s, streams'[s], block))
      BY <2>10, <2>12, <2>13, <2>14, <2>16 DEF Receives
    <3> QED
      BY <2>1, <2>12, <2>15, <2>16, <3>1, TakenOrderly
  <2> QED
    BY <2>9, <2>16
<1>2. ASSUME HeadersFrame PROVE ~closed' /\ (Live' => Orderly')
  <2> DEFINE f == Head(buffer)
             s == f.stream
             d == hpack_decode(decoder, f.block)
             new == [state |-> IF f.end THEN "half closed" ELSE "open", body |-> 0,
                     fit |-> f.fit]
  <2>1. Taken("HEADERS") /\ Queue /\ EndsOnce
    BY <1>2 DEF HeadersFrame, IInv
  <2>2. /\ Head(buffer) = buffer[1] /\ buffer[1].type = "HEADERS"
        /\ s \in Streams /\ buffer' = <<>>
    BY <2>1, Taking
  <2>3. Len(buffer) \in {1, 2} /\ 1 \in 1 .. Len(buffer)
    BY <2>1, Takes
  <2>4. Welcome(f) /\ f.type = "HEADERS"
    BY <2>2, <2>3 DEF Orderly
  <2>5. streams[s] = None /\ (f.end => f.fit) /\ (f.fit \/ s = block)
    BY <2>4 DEF Welcome
  <2>6. d.error = FALSE /\ d.headers = f.meant
    BY <2>1, BlockRead
  <2>8. new \in Stream /\ new.fit = f.fit /\ (~f.end => new.state = "open")
    <3>1. f.fit \in BOOLEAN
      BY <2>1, <2>2, <2>3 DEF Queue
    <3> QED
      BY <3>1 DEF Stream
  <2>7. ~closed' /\ IF f.end THEN Respond(s, new) ELSE streams' = [streams EXCEPT ![s] = new]
    <3>1. IF f.end THEN Request(s, new)
                   ELSE streams' = [streams EXCEPT ![s] = new] /\ UNCHANGED closed
      BY <1>2, <2>5, <2>6 DEF HeadersFrame
    <3> HIDE DEF new, f
    <3> QED
      BY <2>5, <2>8, <3>1 DEF Request
  <2> HIDE DEF new, d
  <2>9. StreamTypes
    BY IsAnswers
  <2>10. ASSUME Live'
         PROVE  /\ \A t \in Streams : t # s => streams'[t] = streams[t]
                /\ ~f.end => streams'[s] = new
    <3>1. CASE f.end
      <4>1. Respond(s, new)
        BY <2>7, <3>1
      <4>2. streams' \in {[streams EXCEPT ![s] = None], [streams EXCEPT ![s] = new]}
        BY <2>2, <2>8, <2>9, <2>10, <4>1, RequestStreams DEF Live
      <4> HIDE DEF s
      <4> QED
        BY <2>9, <3>1, <4>2 DEF StreamTypes
    <3>2. CASE ~f.end
      <4>1. streams' = [streams EXCEPT ![s] = new]
        BY <2>7, <3>2
      <4> HIDE DEF s
      <4> QED
        BY <2>2, <2>9, <4>1 DEF StreamTypes
    <3> QED
      BY <3>1, <3>2
  <2>11. s <= opened
    BY <2>1, <2>2, <2>3 DEF Queue
  <2>12. f.end => s \notin uploading
    <3>1. Carries(buffer[1], s)
      BY <2>2 DEF Carries
    <3> QED
      BY <2>1, <2>2, <2>3, <3>1 DEF EndsOnce
  <2>13. \A i \in 2 .. Len(buffer) : FALSE
    <3>1. Len(buffer') = Len(buffer) - 1 /\ Len(buffer') = 0
      BY <2>1, <2>2, Takes, EmptySeq
    <3>2. Len(buffer) = 1
      BY <2>3, <3>1
    <3> QED
      BY <3>2
  <2> HIDE DEF f, s
  <2>14. ASSUME Live' PROVE Orderly'
    <3>1. streams'[s] # None =>
            s <= opened /\ (s \in uploading => Receives(s, streams'[s], block))
      BY <2>5, <2>8, <2>10, <2>11, <2>12, <2>14 DEF Receives
    <3> QED
      BY <2>1, <2>10, <2>13, <2>14, <3>1, TakenOrderly
  <2> QED
    BY <2>7, <2>14
<1>3. ASSUME NEW type, Taken(type), UNCHANGED streams PROVE Orderly'
  <2>1. 0 \notin Streams
    OBVIOUS
  <2>2. Queue
    BY DEF IInv
  <2>3. \A i \in 2 .. Len(buffer) :
          buffer[i].type \in {"HEADERS", "DATA"} => buffer[i].stream # 0
    <3>1. Len(buffer) \in {1, 2}
      BY <1>3, <2>2, Takes
    <3>2. \A i \in 2 .. Len(buffer) : i \in 1 .. Len(buffer)
      BY <3>1
    <3> QED
      BY <2>1, <2>2, <3>2 DEF Queue
  <2> QED
    BY <1>3, <2>1, <2>3, TakenOrderly
<1>4. ASSUME Continuation PROVE FALSE
  <2>1. Taken("CONTINUATION") /\ Queue
    BY <1>4 DEF Continuation, IInv
  <2>2. Len(buffer) \in {1, 2} /\ buffer[1].type = "CONTINUATION"
    BY <2>1, Takes
  <2>3. 1 \in 1 .. Len(buffer)
    BY <2>2
  <2> QED
    BY <2>2, <2>3 DEF Orderly, Welcome
<1>5. ASSUME Reset PROVE ~closed' /\ Orderly'
  <2> DEFINE s == Head(buffer).stream
  <2>1. Taken("RST_STREAM") /\ Queue /\ streams' = [streams EXCEPT ![s] = None] /\ ~closed'
    BY <1>5 DEF Reset, IInv
  <2>2. Head(buffer) = buffer[1] /\ buffer[1].type = "RST_STREAM" /\ s \in Streams
    BY <2>1, Taking
  <2>3. Len(buffer) \in {1, 2} /\ (Len(buffer) = 2 <=> buffer[1].empty)
    BY <2>1, Takes
  <2>4. 1 \in 1 .. Len(buffer)
    BY <2>3
  <2>5. Len(buffer) = 1
    BY <2>1, <2>2, <2>3, <2>4 DEF Queue
  <2>6. StreamTypes
    BY IsAnswers
  <2>7. \A i \in 2 .. Len(buffer) : FALSE
    BY <2>5
  <2> HIDE DEF s
  <2>8. streams'[s] = None /\ \A t \in Streams : t # s => streams'[t] = streams[t]
    BY <2>1, <2>2, <2>6 DEF StreamTypes
  <2> QED
    BY <2>1, <2>7, <2>8, TakenOrderly
<1>6. ASSUME Settings PROVE ~closed' /\ Orderly'
  BY <1>3, <1>6 DEF Settings
<1>7. ASSUME Ping PROVE ~closed' /\ Orderly'
  BY <1>3, <1>7 DEF Ping
<1>8. ASSUME Goaway PROVE FALSE
  <2>1. Taken("GOAWAY") /\ Queue
    BY <1>8 DEF Goaway, IInv
  <2>2. Len(buffer) \in {1, 2} /\ buffer[1].type = "GOAWAY"
    BY <2>1, Takes
  <2>3. 1 \in 1 .. Len(buffer)
    BY <2>2
  <2> QED
    BY <2>2, <2>3 DEF Orderly, Welcome
<1>9. ASSUME WindowUpdate PROVE ~closed' /\ Orderly'
  BY <1>3, <1>9 DEF WindowUpdate
<1>10. ASSUME Unparsed PROVE ~closed' /\ Orderly'
  BY <1>3, <1>10 DEF Unparsed
<1> QED
  BY <1>1, <1>2, <1>4, <1>5, <1>6, <1>7, <1>8, <1>9, <1>10 DEF Server

-----------------------------------------------------------------------------
LEMMA BackendOrderly ==
  ASSUME IInv, Orderly, NEW s \in Streams, Backend(s)
  PROVE  closed' = closed /\ Orderly'
<1>1. Answers /\ StreamTypes /\ EndsOnce
  BY IsAnswers DEF IInv
<1>2. /\ UNCHANGED <<buffer, closed, opened, uploading, sent, block>>
      /\ active[s] # "none"
      /\ streams' \in {streams, [streams EXCEPT ![s] = None]}
  BY DEF Backend, StreamStarts, StreamEnds, StreamData, Freed, client
<1>3. \A i \in 1 .. Len(buffer) : ~Carries(buffer[i], s)
  BY <1>1, <1>2 DEF EndsOnce, Answering
<1>4. \A t \in Streams : streams'[t] = streams[t] \/ (t = s /\ streams'[t] = None)
  BY <1>1, <1>2 DEF StreamTypes
<1>5. ASSUME NEW i \in 1 .. Len(buffer) PROVE Welcome(buffer[i])'
  <2> PICK f : f = buffer[i]
    OBVIOUS
  <2>1. Welcome(f) /\ ~Carries(f, s) /\ buffer'[i] = f
    BY <1>2, <1>3 DEF Orderly
  <2>2. f.type \in {"HEADERS", "DATA"} => f.stream # s
    BY <2>1 DEF Carries
  <2>3. f.type \in {"HEADERS", "DATA"} => f.stream \in Streams
    BY DEF IInv, Queue
  <2>4. f.type \in {"HEADERS", "DATA"} => streams'[f.stream] = streams[f.stream]
    BY <1>4, <2>2, <2>3
  <2> QED
    BY <1>2, <2>1, <2>4 DEF Welcome
<1>6. ASSUME NEW t \in Streams
      PROVE  /\ streams'[t] # None => t <= opened
             /\ t \in uploading /\ streams'[t] # None => Receives(t, streams'[t], block)
             /\ sent[t].body <= MaxPost
  BY <1>4 DEF Orderly, Receives
<1> QED
  BY <1>2, <1>5, <1>6 DEF Orderly, Receives

(* Of the client's steps those that are not odd bring what is welcome.     *)
LEMMA ClientOrderly ==
  ASSUME MaxPost # 0, IInv, ~closed, Live => Orderly, Client, odd' = {}
  PROVE  ~closed' /\ Orderly'
<1> USE StreamIsNumber
<1>1. /\ opened \in Nat /\ Types
      /\ \A t \in Streams : sent[t] \in [body : Nat, end : BOOLEAN]
  <2>1. /\ opened \in {0} \union Streams /\ Types
        /\ \A t \in Streams : sent[t] \in [body : Nat, end : BOOLEAN]
    BY ClientTypes
  <2>2. opened \in {0} \union Streams
    BY <2>1
  <2>3. opened \in Nat
    BY <2>2
  <2> QED
    BY <2>1, <2>3
<1>2. ASSUME NEW f, NEW cost, Sends(f, cost)
      PROVE  ~closed' /\ Live /\ Orderly /\ Queue /\ Bodies /\ UNCHANGED streams
  BY <1>2 DEF Sends, IInv
<1>3. ASSUME NEW endh \in BOOLEAN, NEW end \in BOOLEAN, NEW fit \in BOOLEAN,
             ClientHeaders(endh, end, fit)
      PROVE  ~closed' /\ Orderly'
  <2>1. PICK f, cost : /\ Sends(f, cost) /\ Accounts(f) /\ f.type = "HEADERS"
                       /\ f.stream = opened + 1 /\ f.end = end /\ f.fit = fit
    BY <1>3, HeadersSent
  <2> DEFINE s == opened + 1
  <2>2. /\ opened' = s /\ block' = (IF endh THEN 0 ELSE s) /\ block = 0
        /\ uploading' = (IF end THEN uploading ELSE uploading \union {s})
        /\ (end => endh) /\ (endh => fit)
    BY <1>3 DEF ClientHeaders
  <2>3. ~closed' /\ Orderly /\ UNCHANGED streams
    BY <1>2, <2>1
  <2>4. s \in Streams /\ ~(s <= opened)
    BY <1>1, <2>1 DEF Accounts
  <2>5. streams[s] = None
    BY <2>3, <2>4 DEF Orderly
  <2>6. Welcome(f)'
    BY <2>1, <2>2, <2>3, <2>5 DEF Welcome
  <2>7. f.stream = s
    BY <2>1
  <2> HIDE DEF s
  <2>8. ASSUME NEW t \in Streams
        PROVE  /\ t \in uploading' /\ streams[t] # None => Receives(t, streams[t], block')
               /\ sent'[t].body <= MaxPost
    <3>1. t \in uploading' /\ streams[t] # None => t \in uploading
      BY <2>2, <2>5
    <3>2. sent'[t].body = sent[t].body
      BY <2>1, <2>7 DEF Accounts, Carries
    <3>3. t # block
      BY <2>2
    <3> QED
      BY <2>3, <3>1, <3>2, <3>3 DEF Orderly, Receives
  <2> QED
    BY <2>1, <2>3, <2>6, <2>8, SuitsOrderly
<1>4. ASSUME NEW endh \in BOOLEAN, ClientContinuation(endh)
      PROVE  FALSE
  BY <1>4 DEF ClientContinuation
<1>5. ASSUME NEW s \in Streams, NEW size \in {0, 1}, NEW end \in BOOLEAN,
             ClientData(s, size, end)
      PROVE  ~closed' /\ Orderly'
  <2>1. PICK f : /\ Sends(f, 1) /\ Accounts(f) /\ f.type = "DATA" /\ f.stream = s
                 /\ f.empty = (size = 0) /\ f.end = end /\ f.size = size
    BY <1>5, DataSent
  <2>2. /\ s \in uploading /\ block = 0 /\ block' = 0 /\ (size = 0 => end)
        /\ uploading' = (IF end THEN uploading \ {s} ELSE uploading)
        /\ ~(sent[s].body + size > MaxPost)
    BY <1>5 DEF ClientData
  <2>3. ~closed' /\ Orderly /\ UNCHANGED streams /\ Queue /\ Bodies
    BY <1>2, <2>1
  <2>4. streams[s] # None
    <3>1. \A i \in 1 .. Len(buffer) : buffer[i].empty
      BY <2>1, <2>3, Arrives
    <3>2. \A i \in 1 .. Len(buffer) : buffer[i].type # "HEADERS"
      BY <2>3, <3>1, Waits
    <3> QED
      BY <2>2, <2>3, <3>2 DEF Bodies
  <2>5. streams[s].state = "open" /\ streams[s].fit
    <3>1. s # block
      BY <2>2
    <3> QED
      BY <2>2, <2>3, <2>4, <3>1 DEF Orderly, Receives
  <2>6. Welcome(f)'
    BY <2>1, <2>2, <2>3, <2>4, <2>5 DEF Welcome
  <2>7. ASSUME NEW t \in Streams
        PROVE  /\ t \in uploading' /\ streams[t] # None => Receives(t, streams[t], block')
               /\ sent'[t].body <= MaxPost
    <3>1. (t \in uploading' => t \in uploading) /\ block' = block
      BY <2>2
    <3>2. CASE t = s
      <4>1. sent'[t].body = sent[s].body + size
        BY <2>1, <3>2 DEF Accounts
      <4> DEFINE b == sent[s].body
      <4>2. b \in Nat /\ MaxPost \in Nat /\ sent'[t].body = b + size /\ ~(b + size > MaxPost)
        BY <1>1, <2>2, <4>1, Http2Assumption
      <4> HIDE DEF b
      <4>3. b + size <= MaxPost
        BY <4>2
      <4> QED
        BY <2>3, <3>1, <4>2, <4>3 DEF Orderly, Receives
    <3>3. CASE t # s
      <4>1. ~Carries(f, t)
        BY <2>1, <3>3 DEF Carries
      <4>2. sent'[t] = sent[t]
        BY <2>1, <4>1 DEF Accounts
      <4> QED
        BY <2>3, <3>1, <4>2 DEF Orderly, Receives
    <3> QED
      BY <3>2, <3>3
  <2> QED
    BY <2>1, <2>2, <2>3, <2>6, <2>7, SuitsOrderly
<1>6. ASSUME NEW s \in Streams, ClientReset(s)
      PROVE  ~closed' /\ Orderly'
  <2> DEFINE f == Frame("RST_STREAM", s)
  <2>1. /\ Accounts(f) /\ Sends(f, 1) /\ f.type = "RST_STREAM"
        /\ block = 0 /\ block' = block /\ uploading' \subseteq uploading /\ UNCHANGED sent
    BY <1>6, ResetsKeeps DEF ClientReset, Frame
  <2> HIDE DEF f
  <2>2. ~closed' /\ Orderly /\ UNCHANGED streams
    BY <1>2, <2>1
  <2>3. Welcome(f)'
    BY <2>1 DEF Welcome
  <2> QED
    BY <2>1, <2>2, <2>3, SuitsOrderly DEF Orderly, Receives
<1>7. ASSUME NEW s \in Streams, ClientTrailers(s) PROVE FALSE
  BY <1>7 DEF ClientTrailers
<1>8. ASSUME NEW f \in OtherFrames, ClientSays(f)
      PROVE  ~closed' /\ Orderly'
  <2>1. Accounts(f) /\ Sends(f, 1) /\ UNCHANGED <<block, uploading, sent>> /\ block = 0
    BY <1>8, SaysKeeps DEF ClientSays
  <2>2. f.type \in {"SETTINGS", "WINDOW_UPDATE", "PING", "unparsed"}
    <3>1. \/ \E n : f = SettingsFrame(n)
          \/ \E type \in {"WINDOW_UPDATE", "PING", "unparsed"} : f = Frame(type, 0)
      BY DEF OtherFrames
    <3>2. \A n : SettingsFrame(n).type = "SETTINGS"
      BY DEF SettingsFrame, Frame
    <3>3. \A type : Frame(type, 0).type = type
      BY DEF Frame
    <3> QED
      BY <3>1, <3>2, <3>3
  <2>3. ~closed' /\ Orderly /\ UNCHANGED streams
    BY <1>2, <2>1
  <2>4. Welcome(f)'
    BY <2>2 DEF Welcome
  <2> QED
    BY <2>1, <2>3, <2>4, SuitsOrderly DEF Orderly, Receives
<1>9. ASSUME ClientGoesAway PROVE FALSE
  BY <1>9 DEF ClientGoesAway
<1>10. ASSUME NEW octets \in {"few", "most", "all"}, ReadPreface(octets)
       PROVE  ~closed' /\ Orderly'
  <2>1. octets # "most"
    BY <1>10 DEF ReadPreface
  <2>2. /\ ~closed' /\ Orderly
        /\ UNCHANGED <<buffer, opened, uploading, block, sent, streams>>
    BY <1>10, <2>1 DEF ReadPreface, Live
  <2> QED
    BY <2>2 DEF Orderly, Welcome, Receives
<1> QED
  BY <1>3, <1>4, <1>5, <1>6, <1>7, <1>8, <1>9, <1>10 DEF Client

LEMMA OddStays ==
  ASSUME Next
  PROVE  odd \subseteq odd'
<1>1. ASSUME NEW type, Taken(type) PROVE odd' = odd
  BY <1>1 DEF Taken, client
<1>2. CASE Server
  BY <1>1, <1>2 DEF Server, DataFrame, HeadersFrame, Continuation, Reset, Settings, Ping,
                    Goaway, WindowUpdate, Unparsed
<1>3. ASSUME NEW s, Backend(s) PROVE odd' = odd
  BY <1>3 DEF Backend, StreamStarts, StreamEnds, StreamData, client
<1>4. CASE Client
  BY <1>4 DEF Client, ClientHeaders, ClientContinuation, ClientData, ClientReset,
              ClientTrailers, ClientSays, ClientGoesAway, ReadPreface
<1> QED
  BY <1>2, <1>3, <1>4 DEF Next

LEMMA InitiallyTolerates == Init => Tolerates
<1> SUFFICES ASSUME Init PROVE ~closed /\ Orderly
  BY DEF Tolerates
<1>1. Len(buffer) = 0
  BY EmptySeq DEF Init
<1>2. MaxPost \in Nat
  BY Http2Assumption
<1>3. 0 <= MaxPost
  BY <1>2
<1> QED
  BY <1>1, <1>3 DEF Init, Orderly, Receives

LEMMA StepTolerates ==
  ASSUME MaxPost # 0, IInv, Reads, Tolerates, [Next]_vars
  PROVE  Tolerates'
<1> SUFFICES ASSUME odd' = {} PROVE ~closed' /\ (Live' => Orderly')
  BY DEF Tolerates
<1>1. CASE UNCHANGED vars
  <2>1. UNCHANGED <<odd, closed, undefined, buffer, opened, uploading, block, sent, streams>>
    BY <1>1 DEF vars
  <2>2. ~closed' /\ (Live' => Orderly) 
    BY <2>1 DEF Tolerates, Live
  <2> QED
    BY <2>1, <2>2 DEF Orderly, Welcome, Receives
<1>2. CASE Next
  <2>1. odd = {}
    BY <1>2, OddStays
  <2>2. ~closed /\ (Live => Orderly)
    BY <2>1 DEF Tolerates
  <2>3. CASE Client
    BY <2>2, <2>3, ClientOrderly
  <2>4. CASE Server
    <3>1. Live
      BY <2>4 DEF Server, DataFrame, HeadersFrame, Continuation, Reset, Settings, Ping,
                  Goaway, WindowUpdate, Unparsed, Taken
    <3>2. Uncut
      BY <2>1 DEF Uncut
    <3> QED
      BY <2>2, <2>4, <3>1, <3>2, ServerOrderly
  <2>5. ASSUME NEW s \in Streams, Backend(s) PROVE ~closed' /\ Orderly'
    <3>1. Live
      BY <2>5 DEF Backend, StreamStarts, StreamEnds, StreamData
    <3> QED
      BY <2>2, <2>5, <3>1, BackendOrderly
  <2> QED
    BY <1>2, <2>3, <2>4, <2>5 DEF Next
<1> QED
  BY <1>1, <1>2

(* receive_http2_frame refuses a client that keeps to the protocol nothing:*)
(* a DATA or HEADERS frame finds its stream as it must be, however late it *)
(* is taken and whatever the backends have freed since, no block of it is  *)
(* an error, and a request that is fit when it is sent has not become      *)
(* another when it is read.  Without a max-post, 0, it does not hold: the  *)
(* code then refuses every body (MCHttp2_maxpost); nor, as its cases say,  *)
(* for blocks cut by CONTINUATION frames (MCHttp2_continuation).           *)
THEOREM TakesItsClients ==
  ASSUME MaxPost # 0
  PROVE  Spec => []NeverRefused
<1>1. Tolerates => NeverRefused
  BY DEF Tolerates, NeverRefused
<1>2. IInv /\ Reads /\ Tolerates /\ [Next]_vars => Tolerates'
  BY StepTolerates
<1> QED
  BY <1>1, <1>2, Invariance, Reading, InitiallyTolerates, PTL DEF Spec

-----------------------------------------------------------------------------
(* The encoder's lists account for its table, and the client's has the same*)
(* entries until a response that the code does not see to comes.           *)
IsSize(size) == size \in {None} \union 0 .. TableSize
Compressing ==
  /\ Context(encoder) /\ Lists(encoder)
  /\ encoder.max \in 0 .. TableSize /\ reader.limit \in 0 .. TableSize
  /\ reading \in {"right", "lost"} /\ (reading = "right" => Mirrors(reader.table, encoder))
Sizes == \A i \in 1 .. Len(buffer) : buffer[i].type = "SETTINGS" => IsSize(buffer[i].size)

LEMMA SendCompresses ==
  ASSUME Compressing, NEW s, NEW headers \in Responses, NEW end, Send(s, headers, end)
  PROVE  Compressing'
<1> DEFINE alive == held \union {s}
           all == Range(headers)
<1>1. headers \in Seq(Headers)
  BY Http2Assumption
<1>2. PICK e \in hpack_encode(encoder, headers, s, alive) :
        LET d == PeerDecodes(reader, e.reps)
        IN /\ encoder' = e.ctx /\ reader' = [table |-> d.table, limit |-> d.limit]
           /\ reading' = IF reading # "right" THEN reading
                         ELSE IF ~Kept(e.ctx, headers, alive) THEN "lost"
                         ELSE IF d.headers # headers THEN "wrong" ELSE "right"
  BY DEF Send
<1> DEFINE d == PeerDecodes(reader, e.reps)
<1>3. /\ encoder' = e.ctx /\ reader'.table = d.table /\ reader'.limit = d.limit
      /\ reading' = IF reading # "right" THEN reading
                    ELSE IF ~Kept(e.ctx, headers, alive) THEN "lost"
                    ELSE IF d.headers # headers THEN "wrong" ELSE "right"
  BY <1>2
<1>4. Kept(e.ctx, headers, alive) => RoomFor(encoder, all) /\ Keeps(e.ctx, all, alive)
  BY DEF Kept, RoomFor, Keeps
<1>5. Context(encoder) /\ Lists(encoder) /\ encoder.max \in 0 .. TableSize
      /\ reading \in {"right", "lost"}
  BY DEF Compressing
<1>6. Readable(e, encoder, reader, all, alive, headers)
  BY <1>1, <1>5, ResponsesAreRead
<1>7. Context(encoder') /\ Lists(encoder') /\ encoder'.max \in 0 .. TableSize
      /\ reader'.limit \in 0 .. TableSize
  BY <1>3, <1>5, <1>6 DEF Readable, Follows
<1>8. ASSUME reading = "right", Kept(e.ctx, headers, alive)
      PROVE  d.headers = headers /\ Mirrors(d.table, e.ctx)
  <2>1. Mirrors(reader.table, encoder)
    BY <1>8 DEF Compressing
  <2>2. Understood(e, reader, headers)
    BY <1>4, <1>6, <1>8, <2>1 DEF Readable
  <2> QED
    BY <2>2 DEF Understood, Alike
<1> HIDE DEF alive, all, d
<1>9. reading' \in {"right", "lost"} /\ (reading' = "right" => Mirrors(reader'.table, encoder'))
  <2>1. CASE reading # "right"
    BY <1>3, <1>5, <2>1
  <2>2. CASE reading = "right" /\ ~Kept(e.ctx, headers, alive)
    BY <1>3, <2>2
  <2>3. CASE reading = "right" /\ Kept(e.ctx, headers, alive)
    <3>1. d.headers = headers /\ Mirrors(d.table, e.ctx)
      BY <1>8, <2>3
    <3>2. Mirrors(reader'.table, encoder')
      BY <1>3, <3>1 DEF Mirrors
    <3>3. reading' = "right"
      BY <1>3, <2>3, <3>1
    <3> QED
      BY <3>2, <3>3
  <2> QED
    BY <2>1, <2>2, <2>3
<1> QED
  BY <1>7, <1>9 DEF Compressing

LEMMA RequestCompresses ==
  ASSUME Compressing, NEW s, NEW stream, Request(s, stream)
  PROVE  Compressing'
<1>1. ASSUME NEW headers \in Responses, NEW end, Send(s, headers, end) PROVE Compressing'
  BY <1>1, SendCompresses
<1>2. CASE UNCHANGED <<encoder, reader, reading>>
  BY <1>2 DEF Compressing, Mirrors
<1> QED
  BY <1>1, <1>2 DEF Request, Respond, answers

LEMMA SettingsCompress ==
  ASSUME Compressing, Queue, Sizes, Settings
  PROVE  Compressing'
<1> DEFINE size == Head(buffer).size
<1>1. IsSize(size)
  <2>1. Taken("SETTINGS")
    BY DEF Settings
  <2>2. Len(buffer) \in {1, 2} /\ Head(buffer) = buffer[1] /\ buffer[1].type = "SETTINGS"
    BY <2>1, Takes
  <2>3. 1 \in 1 .. Len(buffer)
    BY <2>2
  <2> QED
    BY <2>2, <2>3 DEF Sizes
<1>2. UNCHANGED <<reader, reading>>
      /\ encoder' = IF size = None THEN encoder ELSE [encoder EXCEPT !.max = size]
  BY DEF Settings
<1> HIDE DEF size
<1>3. CASE size = None
  BY <1>2, <1>3 DEF Compressing, Mirrors
<1>4. CASE size # None
  <2>1. size \in 0 .. TableSize /\ size \in Nat
    <3>1. size \in 0 .. TableSize /\ TableSize \in Nat
      BY <1>1, <1>4, Http2Assumption DEF IsSize
    <3> QED
      BY <3>1
  <2>2. encoder' = [encoder EXCEPT !.max = size]
    BY <1>2, <1>4
  <2>3. IsContext(encoder)
    BY DEF Compressing, Context
  <2>4. encoder' = [table |-> encoder.table, size |-> encoder.size, max |-> size,
                    pushed |-> encoder.pushed, lookup |-> encoder.lookup]
    BY <2>2, <2>3 DEF IsContext
  <2>5. /\ encoder'.table = encoder.table /\ encoder'.size = encoder.size
        /\ encoder'.max = size /\ encoder'.pushed = encoder.pushed
        /\ encoder'.lookup = encoder.lookup
    BY <2>4
  <2>6. IsContext(encoder')
    BY <2>4, <2>5 DEF IsContext
  <2>7. Context(encoder')
    BY <2>1, <2>5, <2>6 DEF Compressing, Context
  <2>8. Lists(encoder')
    BY <2>5 DEF Compressing, Lists, Listed
  <2>9. reading' = "right" => Mirrors(reader'.table, encoder')
    BY <1>2, <2>5 DEF Compressing, Mirrors
  <2>10. encoder'.max \in 0 .. TableSize
    BY <2>1, <2>5
  <2> QED
    BY <1>2, <2>7, <2>8, <2>9, <2>10 DEF Compressing
<1> QED
  BY <1>3, <1>4

LEMMA ServerCompresses ==
  ASSUME Compressing, Queue, Sizes, Server
  PROVE  Compressing'
<1>1. ASSUME UNCHANGED <<encoder, reader, reading>> PROVE Compressing'
  BY <1>1 DEF Compressing, Mirrors
<1>2. ASSUME UNCHANGED answers PROVE Compressing'
  BY <1>1, <1>2 DEF answers
<1>3. ASSUME NEW s, NEW stream, Request(s, stream) PROVE Compressing'
  BY <1>3, RequestCompresses
<1>4. DataFrame => Compressing'
  BY <1>2, <1>3 DEF DataFrame, Refuse
<1>5. HeadersFrame => Compressing'
  BY <1>2, <1>3 DEF HeadersFrame, Refuse
<1>6. Continuation \/ Reset \/ Ping \/ Goaway \/ WindowUpdate \/ Unparsed => Compressing'
  BY <1>2 DEF Continuation, Reset, Ping, Goaway, WindowUpdate, Unparsed, Refuse
<1>7. Settings => Compressing'
  BY SettingsCompress
<1> QED
  BY <1>4, <1>5, <1>6, <1>7 DEF Server

LEMMA BackendCompresses ==
  ASSUME Compressing, NEW s, Backend(s)
  PROVE  Compressing'
<1>1. CASE StreamStarts(s)
  BY <1>1, SendCompresses DEF StreamStarts
<1>2. CASE UNCHANGED <<encoder, reader, reading>>
  BY <1>2 DEF Compressing, Mirrors
<1> QED
  BY <1>1, <1>2 DEF Backend, StreamEnds, StreamData

-----------------------------------------------------------------------------
(* What is left of the types.                                              *)
Oddities == {"preface", "block", "request", "continued", "body", "goaway", "trailers"}
Kinds ==
  /\ profile \in [table : BOOLEAN, streams : Streams, work : Nat]
  /\ odd \subseteq Oddities
  /\ preface \in {"none", "few", "all"} /\ held \subseteq Streams
  /\ closed \in BOOLEAN /\ undefined \in BOOLEAN /\ misread \in BOOLEAN

(* What a client's frame costs, and the size in it.                        *)
Costs(f, cost) == Sends(f, cost) /\ cost \in Nat /\ (f.type = "SETTINGS" => IsSize(f.size))

LEMMA BlockCosts ==
  ASSUME IInv, Reads, NEW g, IsFrame(g), IsBlock(g), SendsHeaders(g)
  PROVE  \E f, cost : Costs(f, cost)
<1>1. PICK piece \in Pieces :
        LET d == PeerDecodes(peer, piece)
        IN /\ peer' = [table |-> d.table, limit |-> d.limit]
           /\ Sends([g EXCEPT !.block = piece, !.meant = d.headers], Len(piece))
  BY DEF SendsHeaders
<1> DEFINE d == PeerDecodes(peer, piece)
           f == [g EXCEPT !.block = piece, !.meant = d.headers]
<1>2. Sends(f, Len(piece))
  BY <1>1
<1>3. f.type = g.type
  BY BlockFrame
<1> HIDE DEF f
<1>4. PICK c : Decoding(peer, c)
  BY <1>2, FrameComes
<1>5. Len(piece) \in Nat
  BY <1>4, PiecesMaySend DEF MaySendAll
<1>6. f.type # "SETTINGS"
  BY <1>3 DEF IsBlock
<1>7. Costs(f, Len(piece))
  BY <1>2, <1>5, <1>6 DEF Costs
<1> QED
  BY <1>7

LEMMA ClientCosts ==
  ASSUME IInv, Reads, Client
  PROVE  \/ \E f, cost : Costs(f, cost)
         \/ \E octets \in {"few", "most", "all"} : ReadPreface(octets)
<1>1. ASSUME NEW endh \in BOOLEAN, NEW end \in BOOLEAN, NEW fit \in BOOLEAN,
             ClientHeaders(endh, end, fit)
      PROVE  \E f, cost : Costs(f, cost)
  <2> DEFINE s == opened + 1
             g == [Frame("HEADERS", s) EXCEPT !.endh = endh, !.end = end, !.fit = fit]
  <2>1. SendsHeaders(g)
    BY <1>1 DEF ClientHeaders
  <2> HIDE DEF s
  <2>3. g \in [type : {"HEADERS"}, stream : {s}, empty : {FALSE}, endh : {endh}, end : {end},
                size : {0}, block : {<<>>}, meant : {<<>>}, fit : {fit}]
    BY DEF Frame
  <2> HIDE DEF g
  <2>2. IsFrame(g) /\ IsBlock(g)
    BY <2>3 DEF IsFrame, IsBlock
  <2> QED
    BY <2>1, <2>2, BlockCosts
<1>2. ASSUME NEW endh \in BOOLEAN, ClientContinuation(endh) PROVE \E f, cost : Costs(f, cost)
  <2> DEFINE g == [Frame("CONTINUATION", block) EXCEPT !.endh = endh]
  <2>1. SendsHeaders(g)
    BY <1>2 DEF ClientContinuation
  <2>2. IsFrame(g) /\ IsBlock(g)
    BY IsBlockFrame
  <2> HIDE DEF g
  <2> QED
    BY <2>1, <2>2, BlockCosts
<1>3. ASSUME NEW s \in Streams, ClientTrailers(s) PROVE \E f, cost : Costs(f, cost)
  <2> DEFINE g == [Frame("HEADERS", s) EXCEPT !.endh = TRUE, !.end = TRUE]
  <2>1. SendsHeaders(g)
    BY <1>3 DEF ClientTrailers
  <2>2. IsFrame(g) /\ IsBlock(g)
    BY IsBlockFrame
  <2> HIDE DEF g
  <2> QED
    BY <2>1, <2>2, BlockCosts
<1>4. ASSUME NEW s \in Streams, NEW size \in {0, 1}, NEW end \in BOOLEAN,
             ClientData(s, size, end)
      PROVE  \E f, cost : Costs(f, cost)
  <2> DEFINE f == [Frame("DATA", s) EXCEPT !.empty = (size = 0), !.size = size, !.end = end]
  <2>1. Sends(f, 1)
    BY <1>4 DEF ClientData
  <2>2. f.type # "SETTINGS"
    BY DEF Frame
  <2> HIDE DEF f
  <2>3. Costs(f, 1)
    BY <2>1, <2>2 DEF Costs
  <2> QED
    BY <2>3
<1>5. ASSUME NEW s \in Streams, ClientReset(s) PROVE \E f, cost : Costs(f, cost)
  <2>1. Sends(Frame("RST_STREAM", s), 1)
    BY <1>5 DEF ClientReset
  <2>2. Frame("RST_STREAM", s).type # "SETTINGS"
    BY DEF Frame
  <2>3. Costs(Frame("RST_STREAM", s), 1)
    BY <2>1, <2>2 DEF Costs
  <2> QED
    BY <2>3
<1>6. ASSUME NEW f \in OtherFrames, ClientSays(f) PROVE \E g, cost : Costs(g, cost)
  <2>1. Sends(f, 1)
    BY <1>6 DEF ClientSays
  <2>2. f.type = "SETTINGS" => IsSize(f.size)
    <3>1. \/ \E n \in {None} \union 0 .. TableSize : f = SettingsFrame(n)
          \/ \E type \in {"WINDOW_UPDATE", "PING", "unparsed"} : f = Frame(type, 0)
      BY DEF OtherFrames
    <3>2. \A n : SettingsFrame(n).size = n
      BY DEF SettingsFrame, Frame
    <3>3. \A type : Frame(type, 0).type = type
      BY DEF Frame
    <3> QED
      BY <3>1, <3>2, <3>3 DEF IsSize
  <2>3. Costs(f, 1)
    BY <2>1, <2>2 DEF Costs
  <2> QED
    BY <2>3
<1>7. ASSUME ClientGoesAway PROVE \E f, cost : Costs(f, cost)
  <2>1. Sends(Frame("GOAWAY", 0), 1)
    BY <1>7 DEF ClientGoesAway
  <2>2. Frame("GOAWAY", 0).type # "SETTINGS"
    BY DEF Frame
  <2>3. Costs(Frame("GOAWAY", 0), 1)
    BY <2>1, <2>2 DEF Costs
  <2> QED
    BY <2>3
<1> QED
  BY <1>1, <1>2, <1>3, <1>4, <1>5, <1>6, <1>7 DEF Client

LEMMA ClientCompresses ==
  ASSUME IInv, Reads, Compressing, Sizes, Client
  PROVE  Compressing' /\ Sizes'
<1>1. ASSUME NEW f, NEW cost, Costs(f, cost) PROVE UNCHANGED answers /\ Sizes'
  <2>1. Sends(f, cost) /\ (f.type = "SETTINGS" => IsSize(f.size)) /\ Queue
    BY <1>1 DEF Costs, IInv
  <2>2. /\ Len(buffer) \in {0, 1} /\ Len(buffer') = Len(buffer) + 1
        /\ \A i \in 1 .. Len(buffer) : buffer'[i] = buffer[i]
        /\ buffer'[Len(buffer) + 1] = f
    BY <2>1, Arrives
  <2>3. \A i \in 1 .. Len(buffer') : i \in 1 .. Len(buffer) \/ i = Len(buffer) + 1
    BY <2>2
  <2>4. Sizes'
    BY <2>1, <2>2, <2>3 DEF Sizes, IsSize
  <2> QED
    BY <2>1, <2>4 DEF Sends
<1>2. ASSUME NEW octets, ReadPreface(octets) PROVE UNCHANGED answers /\ Sizes'
  BY <1>2 DEF ReadPreface, Sizes
<1>3. UNCHANGED answers /\ Sizes'
  BY <1>1, <1>2, ClientCosts
<1> QED
  BY <1>3 DEF answers, Compressing, Mirrors

LEMMA TakenSizes ==
  ASSUME Queue, Sizes, NEW type, Taken(type)
  PROVE  Sizes'
<1>1. /\ Len(buffer) \in {1, 2} /\ Len(buffer') = Len(buffer) - 1
      /\ \A i \in 1 .. Len(buffer') : buffer'[i] = buffer[i + 1]
  BY Takes
<1>2. \A i \in 1 .. Len(buffer') : i + 1 \in 1 .. Len(buffer)
  BY <1>1
<1> QED
  BY <1>1, <1>2 DEF Sizes

LEMMA StepCompresses ==
  IInv /\ Reads /\ Compressing /\ Sizes /\ [Next]_vars => Compressing' /\ Sizes'
<1> SUFFICES ASSUME IInv, Reads, Compressing, Sizes, [Next]_vars
             PROVE  Compressing' /\ Sizes'
  OBVIOUS
<1>1. CASE UNCHANGED vars
  <2>1. UNCHANGED <<encoder, reader, reading, buffer>>
    BY <1>1 DEF vars
  <2> QED
    BY <2>1 DEF Compressing, Mirrors, Sizes
<1>2. CASE Client
  BY <1>2, ClientCompresses
<1>3. CASE Server
  <2>1. Queue
    BY DEF IInv
  <2>2. \E type : Taken(type)
    BY <1>3 DEF Server, DataFrame, HeadersFrame, Continuation, Reset, Settings, Ping, Goaway,
                WindowUpdate, Unparsed
  <2> QED
    BY <1>3, <2>1, <2>2, TakenSizes, ServerCompresses
<1>4. ASSUME NEW s, Backend(s) PROVE Compressing' /\ Sizes'
  <2>1. UNCHANGED buffer
    BY <1>4 DEF Backend, StreamStarts, StreamEnds, StreamData
  <2> QED
    BY <1>4, <2>1, BackendCompresses DEF Sizes
<1> QED
  BY <1>1, <1>2, <1>3, <1>4 DEF Next

LEMMA InitiallyCompresses == Init => Compressing /\ Sizes
<1> SUFFICES ASSUME Init PROVE Compressing /\ Sizes
  OBVIOUS
<1>1. TableSize \in Nat
  BY Http2Assumption
<1>2. /\ reader = [table |-> <<>>, limit |-> TableSize] /\ reading = "right"
      /\ buffer = <<>> /\ encoder = hpack_init(TableSize)
  BY DEF Init
<1>3. Table(<<>>)
  BY DEF Table
<1>4. Weight(<<>>) = 0
  BY <1>3, TableIsSized, UptoIs, WeightIs
<1> DEFINE none == [n \in Names |-> <<>>]
<1>5. encoder = [table |-> <<>>, size |-> 0, max |-> TableSize, pushed |-> 0, lookup |-> none]
  BY <1>2 DEF hpack_init
<1> HIDE DEF none
<1>6. /\ IsContext(encoder) /\ encoder.table = <<>> /\ encoder.size = 0
      /\ encoder.max = TableSize /\ encoder.pushed = 0 /\ encoder.lookup = none
  BY <1>5 DEF IsContext
<1>7. Context(encoder)
  BY <1>1, <1>3, <1>4, <1>6 DEF Context
<1>8. Len(encoder.table) = 0
  BY <1>6
<1>9. Lists(encoder)
  <2>1. \A n \in Names : encoder.lookup[n] = <<>>
    BY <1>6 DEF none
  <2>2. IsList(<<>>) /\ Range(<<>>) = {}
    BY DEF IsList, Range
  <2>3. DOMAIN encoder.lookup = Names
    BY <1>6 DEF none
  <2>4. encoder.pushed \in Nat /\ \A k \in 1 .. Len(encoder.table) : FALSE
    BY <1>6, <1>8
  <2> QED
    BY <2>1, <2>2, <2>3, <2>4 DEF Lists
<1>10. Mirrors(reader.table, encoder)
  BY <1>2, <1>3, <1>6, <1>8 DEF Mirrors
<1>11. Sizes
  <2>1. Len(buffer) = 0
    BY <1>2
  <2> QED
    BY <2>1 DEF Sizes
<1> QED
  BY <1>1, <1>2, <1>6, <1>7, <1>9, <1>10, <1>11 DEF Compressing

LEMMA Compression == Spec => [](Compressing /\ Sizes)
<1> QED
  BY Invariance, Reading, InitiallyCompresses, StepCompresses, PTL DEF Spec

(* Whatever hpack_encode's search of a list compares with freed memory, and*)
(* whatever its table evicts, on however many streams and through all      *)
(* changes of the table's size: the client reads the headers of a response *)
(* as they were meant, as long as it is none of the cases known.           *)
THEOREM ResponseHeadersAreRead == Spec => []HeadersRight
<1>1. Compressing => HeadersRight
  BY DEF Compressing, HeadersRight
<1> QED
  BY <1>1, Compression, PTL

-----------------------------------------------------------------------------
LEMMA KindsOf ==
  ASSUME Kinds, profile' \in [table : BOOLEAN, streams : Streams, work : Nat],
         odd' \subseteq Oddities,
         preface' \in {"none", "few", "all"}, held' \subseteq Streams,
         closed' \in BOOLEAN, undefined' \in BOOLEAN, misread' \in BOOLEAN
  PROVE  Kinds'
BY DEF Kinds

LEMMA CostKinds ==
  ASSUME Kinds, NEW f, NEW cost, Costs(f, cost)
  PROVE  /\ profile' \in [table : BOOLEAN, streams : Streams, work : Nat]
         /\ UNCHANGED <<preface, held, closed, undefined, misread>>
<1> DEFINE W == [table : BOOLEAN, streams : Streams, work : Nat]
<1>1. \A p \in W : p.work \in Nat /\ \A n \in Nat : [p EXCEPT !.work = n] \in W
  OBVIOUS
<1>2. profile \in W /\ cost \in Nat /\ profile.work >= cost
  BY DEF Kinds, Costs, Sends
<1>3. profile.work \in Nat
  BY <1>1, <1>2
<1> DEFINE w == profile.work
<1>4. w - cost \in Nat
  <2>1. w \in Nat /\ cost \in Nat /\ w >= cost
    BY <1>2, <1>3
  <2> HIDE DEF w
  <2> QED
    BY <2>1
<1>5. profile' = [profile EXCEPT !.work = profile.work - cost]
  BY DEF Costs, Sends
<1> HIDE DEF W
<1>6. profile' \in W
  BY <1>1, <1>2, <1>4, <1>5
<1>7. UNCHANGED <<preface, held, closed, undefined, misread>>
  BY DEF Costs, Sends, answers
<1> QED
  BY <1>6, <1>7 DEF W

LEMMA ClientKinds ==
  ASSUME IInv, Reads, Kinds, Client
  PROVE  Kinds'
<1>1. odd' \subseteq Oddities
  <2>1. odd \subseteq Oddities
    BY DEF Kinds
  <2>2. odd' = odd \/ \E o \in Oddities : odd' = odd \union {o}
    BY DEF Client, ClientHeaders, ClientContinuation, ClientData, ClientReset,
           ClientTrailers, ClientSays, ClientGoesAway, ReadPreface, Oddities
  <2> QED
    BY <2>1, <2>2
<1>2. ASSUME NEW f, NEW cost, Costs(f, cost) PROVE Kinds'
  <2>1. /\ profile' \in [table : BOOLEAN, streams : Streams, work : Nat]
        /\ UNCHANGED <<preface, held, closed, undefined, misread>>
    BY <1>2, CostKinds
  <2>2. /\ preface' \in {"none", "few", "all"} /\ held' \subseteq Streams
        /\ closed' \in BOOLEAN /\ undefined' \in BOOLEAN /\ misread' \in BOOLEAN
    BY <2>1 DEF Kinds
  <2> QED
    BY <1>1, <2>1, <2>2, KindsOf
<1>3. ASSUME NEW octets \in {"few", "most", "all"}, ReadPreface(octets) PROVE Kinds'
  <2>1. UNCHANGED <<profile, held, undefined, misread>>
    BY <1>3 DEF ReadPreface, answers
  <2>2. preface' \in {preface, "few", "all"} /\ closed' \in BOOLEAN
    BY <1>3 DEF ReadPreface
  <2>3. /\ profile' \in [table : BOOLEAN, streams : Streams, work : Nat]
        /\ preface' \in {"none", "few", "all"} /\ held' \subseteq Streams
        /\ closed' \in BOOLEAN /\ undefined' \in BOOLEAN /\ misread' \in BOOLEAN
    BY <2>1, <2>2 DEF Kinds
  <2> QED
    BY <1>1, <2>3, KindsOf
<1> QED
  BY <1>2, <1>3, ClientCosts

LEMMA RequestKinds ==
  ASSUME Kinds, NEW s \in Streams, NEW stream, Request(s, stream)
  PROVE  held' \subseteq Streams /\ undefined' \in BOOLEAN
<1>1. held \subseteq Streams /\ undefined \in BOOLEAN
  BY DEF Kinds
<1>2. held' \in {held, held \ {s}, held \union {s}} /\ undefined' \in {undefined, TRUE}
  BY DEF Request, Respond, Freed, answers
<1> QED
  BY <1>1, <1>2

LEMMA ServerKinds ==
  ASSUME IInv, Kinds, Server
  PROVE  Kinds'
<1>1. Queue
  BY DEF IInv
<1>2. UNCHANGED <<profile, odd, preface>>
  BY DEF Server, DataFrame, HeadersFrame, Continuation, Reset, Settings, Ping, Goaway,
         WindowUpdate, Unparsed, Taken, client
<1>3. misread' \in BOOLEAN
  <2>1. misread \in BOOLEAN
    BY DEF Kinds
  <2>2. (\E h, m : misread' = (misread \/ h # m)) \/ UNCHANGED misread
    BY DEF Server, DataFrame, HeadersFrame, Continuation, Reset, Settings, Ping, Goaway,
           WindowUpdate, Unparsed, Refuse
  <2> QED
    BY <2>1, <2>2
<1>4. ASSUME NEW type \in {"DATA", "HEADERS"}, Taken(type) PROVE Head(buffer).stream \in Streams
  <2>1. Len(buffer) \in {1, 2} /\ Head(buffer) = buffer[1] /\ buffer[1].type = type
    BY <1>1, <1>4, Takes
  <2>2. 1 \in 1 .. Len(buffer)
    BY <2>1
  <2> QED
    BY <1>1, <1>4, <2>1, <2>2 DEF Queue
<1>5. ASSUME UNCHANGED held, closed' \in {closed, TRUE}, undefined' \in BOOLEAN PROVE Kinds'
  <2>1. /\ profile' \in [table : BOOLEAN, streams : Streams, work : Nat]
        /\ odd' \subseteq Oddities
        /\ preface' \in {"none", "few", "all"} /\ held' \subseteq Streams
        /\ closed' \in BOOLEAN
    BY <1>2, <1>5 DEF Kinds
  <2> QED
    BY <1>3, <1>5, <2>1, KindsOf
<1>6. ASSUME NEW s \in Streams, NEW stream, Request(s, stream) PROVE Kinds'
  <2>1. held' \subseteq Streams /\ undefined' \in BOOLEAN
    BY <1>6, RequestKinds
  <2>2. /\ profile' \in [table : BOOLEAN, streams : Streams, work : Nat]
        /\ odd' \subseteq Oddities
        /\ preface' \in {"none", "few", "all"} /\ closed' \in BOOLEAN
    BY <1>2, <1>6 DEF Kinds, Request
  <2> QED
    BY <1>3, <2>1, <2>2, KindsOf
<1>7. undefined \in BOOLEAN
  BY DEF Kinds
<1>8. ASSUME UNCHANGED <<held, undefined>>, closed' \in {closed, TRUE} PROVE Kinds'
  BY <1>5, <1>7, <1>8
<1>9. ASSUME DataFrame PROVE Kinds'
  <2>1. Head(buffer).stream \in Streams
    BY <1>4, <1>9 DEF DataFrame
  <2>2. \/ UNCHANGED <<held, undefined>> /\ closed' \in {closed, TRUE}
        \/ \E stream : Request(Head(buffer).stream, stream)
    BY <1>9 DEF DataFrame, Refuse, answers
  <2> QED
    BY <1>6, <1>8, <2>1, <2>2
<1>10. ASSUME HeadersFrame PROVE Kinds'
  <2>1. Head(buffer).stream \in Streams
    BY <1>4, <1>10 DEF HeadersFrame
  <2>2. \/ UNCHANGED <<held, undefined>> /\ closed' \in {closed, TRUE}
        \/ \E stream : Request(Head(buffer).stream, stream)
    BY <1>10 DEF HeadersFrame, Refuse, answers
  <2> QED
    BY <1>6, <1>8, <2>1, <2>2
<1>11. Continuation \/ Reset \/ Settings \/ Goaway \/ WindowUpdate => Kinds'
  BY <1>8 DEF Continuation, Reset, Settings, Goaway, WindowUpdate, Refuse, answers
<1>12. Ping \/ Unparsed => Kinds'
  BY <1>5 DEF Ping, Unparsed, answers
<1> QED
  BY <1>9, <1>10, <1>11, <1>12 DEF Server

LEMMA BackendKinds ==
  ASSUME Kinds, NEW s \in Streams, Backend(s)
  PROVE  Kinds'
<1>1. UNCHANGED <<profile, odd, preface, closed, undefined, misread>>
      /\ held' \in {held, held \ {s}}
  BY DEF Backend, StreamStarts, StreamEnds, StreamData, Freed, client
<1> QED
  BY <1>1 DEF Kinds

LEMMA StepKinds == IInv /\ Reads /\ Kinds /\ [Next]_vars => Kinds'
<1> SUFFICES ASSUME IInv, Reads, Kinds, [Next]_vars PROVE Kinds'
  OBVIOUS
<1>1. CASE UNCHANGED vars
  BY <1>1 DEF vars, Kinds
<1> QED
  BY <1>1, ClientKinds, ServerKinds, BackendKinds DEF Next

LEMMA InitialKinds == Init => Kinds
BY Http2Assumption DEF Init, Kinds

LEMMA KindsStay == Spec => []Kinds
<1> QED
  BY Invariance, Reading, InitialKinds, StepKinds, PTL DEF Spec

(* The client and the server stay what their variables say, no more than   *)
(* two frames wait, and both of the server's tables account for the octets *)
(* of their entries, whatever was added, evicted or resized.               *)
THEOREM TypeCorrect == Spec => []TypeOK
<1>1. IInv /\ Reads /\ Compressing /\ Kinds => TypeOK
  <2> SUFFICES ASSUME IInv, Reads, Compressing, Kinds PROVE TypeOK
    OBVIOUS
  <2>1. Types /\ Queue
    BY DEF IInv
  <2>2. /\ opened \in {0} \union Streams /\ uploading \subseteq Streams
        /\ block \in {0} \union Streams /\ Len(buffer) <= 2
        /\ active \in [Streams -> {"none", "delayed", "open"}]
        /\ reply \in [Streams -> {"none", "open", "ended", "broken"}]
    BY <2>1 DEF Types, Queue
  <2>3. \A s \in Streams : streams[s] # None =>
          streams[s] \in Stream
    BY <2>1 DEF Types, StreamTypes
  <2>4. \A p \in {peer, reader} : p.limit \in 0 .. TableSize
    BY DEF Reads, Compressing
  <2>5. \A c \in {decoder, encoder} : c.size = Weight(c.table)
    BY DEF Reads, Compressing, Context
  <2>6. reading \in {"right", "lost", "wrong"} /\ {closed, undefined, misread} \subseteq BOOLEAN
    BY DEF Compressing, Kinds
  <2>7. /\ profile \in [table : BOOLEAN, streams : Streams, work : Nat]
        /\ odd \subseteq Oddities
        /\ preface \in {"none", "few", "all"} /\ held \subseteq Streams
    BY DEF Kinds
  <2> QED
    BY <2>2, <2>3, <2>4, <2>5, <2>6, <2>7 DEF TypeOK, Oddities
<1> QED
  BY <1>1, Invariance, Reading, Compression, KindsStay, PTL
=============================================================================
