--------------------------- MODULE HttpConnection ---------------------------
(***************************************************************************)
(* One HTTP/1.1 client connection: handle_http_server_read cuts the byte   *)
(* stream, which arrives in reads of any length, into request headers and  *)
(* POST bodies and answers each request; http_stream_notify continues a    *)
(* response whose body is a stream (src/src/http_network.c).               *)
(*                                                                         *)
(* A byte is its position in the stream the client sends.  The client's    *)
(* script fixes which byte stands there: a request is one byte for its     *)
(* lines, the CR LF CR LF that ends its headers, and its body, whose bytes *)
(* are made to look like line ends.  An entry of read_buffer is the        *)
(* interval of positions it holds.  Everything here runs on the worker     *)
(* thread of the connection, so a handler is not interrupted; its steps    *)
(* are separated only where the code can branch or return.                 *)
(***************************************************************************)
EXTENDS Integers, Sequences, FiniteSets

CONSTANTS
  Settings,   \* what may be fixed at the start, a record of
              \*   script      the requests [body, resp] the client sends
              \*   pipelining  kinds of responses it does not wait for
              \*   min_read    bound: fewest bytes of a read but the last for now
              \*   max_post    server->max_post, 0 for unlimited
              \*   beyond      the character behind newlines[4] in memory
  Refusing,   \* modules may refuse a request or its body
  MaxData     \* bound: data parts of one streamed response

Responses == {"whole", "stream", "delayed"}
ASSUME ParametersAssumption ==
  /\ \A c \in Settings :
       /\ c.script \in Seq([body : Nat, resp : Responses])
       /\ c.pipelining \subseteq Responses /\ c.min_read \in Nat \ {0}
       /\ c.max_post \in Nat /\ c.beyond \in {"h", "CR", "LF"}
  /\ Refusing \in BOOLEAN /\ MaxData \in Nat

VARIABLES
  setting,       \* the one that holds
  received,      \* bytes read from the socket so far
  buffers,       \* read_buffer.buffers
  at,            \* "idle", at the label "restart", in the "scan" loop, or
                 \* "closed"
  read_buf,      \* position of the first byte of read_buf
  read_buf_len,
  seen,          \* first position the search for the double newline still
                 \* remembers: match_length is how much of newlines the
                 \* bytes from seen on end with
  posting,       \* currently_posting: the request's number, 0 for NULL
  skip,          \* extra->skip_generate_response
  streaming,     \* currently_streaming: the request's number, 0 for NULL
  out,           \* what was pushed to write_buffer, in order
  popped,        \* what buffer_pop took: [what, req, lo, hi], in order
  generated,     \* requests generateResponse was called for
  taken_over,    \* requests a module answers itself (status 1)
  broken         \* requests whose stream failed

reading == <<received, buffers, read_buf, read_buf_len, seen, popped>>
requests == <<posting, skip, taken_over>>
answers == <<streaming, out, generated, broken>>
vars == <<setting, received, buffers, at, read_buf, read_buf_len, seen,
          posting, skip, streaming, out, popped, generated,
          taken_over, broken>>

-----------------------------------------------------------------------------
(* The client's bytes.                                                     *)
newlines == <<"CR", "LF", "CR", "LF">>
HeadSize == 5

script == setting.script
Scripts == {c.script : c \in Settings}

(* Ends[s][k] is the position of the last byte of request k of script s.   *)
Ends ==
  [s \in Scripts |->
     LET f[k \in 0 .. Len(s)] == IF k = 0 THEN 0 ELSE f[k - 1] + HeadSize + s[k].body
     IN  f]

(* Texts[s][p] is the character at position p of script s.                 *)
Texts ==
  [s \in Scripts |->
     [p \in 1 .. Ends[s][Len(s)] |->
        LET k == CHOOSE r \in DOMAIN s : Ends[s][r - 1] < p /\ p <= Ends[s][r]
            o == p - Ends[s][k - 1] IN
        IF o = 1 THEN "h" ELSE IF o <= HeadSize THEN newlines[o - 1]
        ELSE IF (o - HeadSize) % 2 = 1 THEN "CR" ELSE "LF"]]

Last == Ends[script]
First(k) == Last[k - 1] + 1
Char(p) == Texts[script][p]

(* The request whose first byte stands at p, 0 if none does.               *)
RequestAt(p) ==
  IF \E k \in DOMAIN script : First(k) = p
    THEN CHOOSE k \in DOMAIN script : First(k) = p ELSE 0

Written(k, w) == \E i \in 1 .. Len(out) : out[i] = [req |-> k, what |-> w]
Answered(k) == Written(k, "whole") \/ Written(k, "end") \/ k \in broken

-----------------------------------------------------------------------------
(* read_buffer (avuna-util's struct buffer).                               *)
Size == IF buffers = <<>> THEN 0 ELSE buffers[Len(buffers)].hi - buffers[1].lo + 1

(* buffer_pop of n bytes frees whole entries and shortens the next one.    *)
Pop(n) ==
  LET end == buffers[1].lo + n - 1
      left == {i \in DOMAIN buffers : buffers[i].hi > end}
      first == CHOOSE i \in left : \A j \in left : i <= j IN
  IF left = {} THEN <<>>
  ELSE [SubSeq(buffers, first, Len(buffers)) EXCEPT ![1].lo = IF @ > end THEN @ ELSE end + 1]

Taken(w, k, n) == [what |-> w, req |-> k, lo |-> buffers[1].lo, hi |-> buffers[1].lo + n - 1]

(* A double newline ends at p.                                             *)
DoubleNewline(p) == \A i \in 1 .. 4 : Char(p - 4 + i) = newlines[i]

-----------------------------------------------------------------------------
Init ==
  /\ setting \in Settings
  /\ received = 0 /\ buffers = <<>> /\ popped = <<>>
  /\ at = "idle"
  /\ read_buf = 1 /\ read_buf_len = 0
  /\ seen = 1
  /\ posting = 0 /\ skip = FALSE /\ taken_over = {}
  /\ streaming = 0 /\ out = <<>> /\ generated = {} /\ broken = {}

(* What the client sends for now: everything, or up to the first request   *)
(* whose response it waits for.                                            *)
Awaited == {k \in DOMAIN script : ~Answered(k) /\ script[k].resp \notin setting.pipelining}
Limit ==
  IF Awaited = {} THEN Last[Len(script)]
  ELSE Last[CHOOSE k \in Awaited : \A j \in Awaited : k <= j]

(* The worker reads until EAGAIN and calls the handler with all of it.     *)
Read(n) ==
  /\ at = "idle"
  /\ received + n <= Limit
  /\ n >= setting.min_read \/ received + n = Limit
  /\ received' = received + n
  /\ buffers' = Append(buffers, [lo |-> received + 1, hi |-> received + n])
  /\ read_buf' = received + 1
  /\ read_buf_len' = n
  /\ at' = "restart"
  /\ UNCHANGED <<seen, popped>>
  /\ UNCHANGED setting /\ UNCHANGED requests /\ UNCHANGED answers

-----------------------------------------------------------------------------
(* Slip: after opening a streamed response the handler goes on scanning.   *)
RespondThenScan(k, skipped, next) ==
  /\ generated' = IF skipped THEN generated ELSE generated \union {k}
  /\ IF skipped \/ script[k].resp = "whole"
       THEN /\ out' = Append(out, [req |-> k, what |-> "whole"])
            /\ at' = next
            /\ UNCHANGED streaming
       ELSE /\ streaming' = k
            /\ out' = IF script[k].resp = "delayed" THEN out
                      ELSE Append(out, [req |-> k, what |-> "head"])
            /\ at' = next
  /\ UNCHANGED broken

(* generateResponse unless a module answers, then the whole response, or   *)
(* the header of a streamed one, or nothing yet if its header is delayed;  *)
(* the code goes on at next, or at restart behind a stream.                *)
Respond(k, skipped, next) ==
  /\ generated' = IF skipped THEN generated ELSE generated \union {k}
  /\ IF skipped \/ script[k].resp = "whole"
       THEN /\ out' = Append(out, [req |-> k, what |-> "whole"])
            /\ at' = next
            /\ UNCHANGED streaming
       ELSE /\ streaming' = k
            /\ out' = IF script[k].resp = "delayed" THEN out
                      ELSE Append(out, [req |-> k, what |-> "head"])
            /\ at' = "restart"
  /\ UNCHANGED broken

(* Slip: the body is complete only when more than it has arrived.          *)
BodyArrivedLate == Size > script[posting].body

(* Slip: it is taken before its last byte has.                             *)
BodyArrivedSoon == Size >= script[posting].body - 1

BodyArrived == Size >= script[posting].body

(* An active POST whose body is complete is answered.                      *)
PostComplete ==
  LET n == script[posting].body IN
  /\ at = "restart" /\ posting # 0
  /\ BodyArrived
  /\ buffers' = Pop(n)
  /\ popped' = Append(popped, Taken("body", posting, n))
  /\ posting' = 0
  /\ Respond(posting, skip, "restart")
  /\ UNCHANGED <<received, read_buf, read_buf_len, seen, skip, taken_over>>
  /\ UNCHANGED setting

(* A module's on_request_post_received refuses it: the connection closes.  *)
PostRefused ==
  LET n == script[posting].body IN
  /\ at = "restart" /\ posting # 0 /\ Refusing
  /\ BodyArrived
  /\ buffers' = Pop(n)
  /\ popped' = Append(popped, Taken("body", posting, n))
  /\ at' = "closed"
  /\ UNCHANGED <<received, read_buf, read_buf_len, seen>>
  /\ UNCHANGED setting /\ UNCHANGED requests /\ UNCHANGED answers

(* Otherwise the handler returns, through the branch meant for streams.    *)
PostWaits ==
  /\ at = "restart" /\ posting # 0
  /\ ~BodyArrived
  /\ at' = "idle"
  /\ UNCHANGED reading /\ UNCHANGED setting
  /\ UNCHANGED requests /\ UNCHANGED answers

(* While a response is being streamed, input only collects.                *)
StreamActive ==
  /\ at = "restart" /\ posting = 0 /\ streaming # 0
  /\ at' = "idle"
  /\ UNCHANGED reading /\ UNCHANGED setting
  /\ UNCHANGED requests /\ UNCHANGED answers

(* How much of read_buf has already been popped.                           *)
Shrunk == IF Size < read_buf_len THEN read_buf_len - Size ELSE 0

(* Slip: the characters of the previous entry are not looked at.           *)
SeenBeforeNothing(start) == start

(* Slip: an entry of fewer than three characters is not allowed for.       *)
SeenBeforeUnclamped(start) ==
  LET i == IF buffers[Len(buffers)].lo = start THEN Len(buffers) - 1 ELSE Len(buffers) IN
  IF i = 0 THEN start ELSE buffers[i].hi - 2

(* The search resumes with the last three characters of the entry in front *)
(* of read_buf, if there is one.                                           *)
SeenBefore(start) ==
  LET i == IF buffers[Len(buffers)].lo = start THEN Len(buffers) - 1 ELSE Len(buffers) IN
  IF i = 0 THEN start
  ELSE IF buffers[i].hi - 2 < buffers[i].lo THEN buffers[i].lo ELSE buffers[i].hi - 2

StartScan ==
  /\ at = "restart" /\ posting = 0 /\ streaming = 0
  /\ read_buf' = read_buf + Shrunk
  /\ read_buf_len' = read_buf_len - Shrunk
  /\ IF read_buf_len' = 0
       THEN at' = "idle" /\ UNCHANGED seen
       ELSE at' = "scan" /\ seen' = SeenBefore(read_buf')
  /\ UNCHANGED <<received, buffers, popped>>
  /\ UNCHANGED setting /\ UNCHANGED requests /\ UNCHANGED answers

(* Where in read_buf the search completes a double newline.                *)
Hits ==
  {p \in read_buf .. read_buf + read_buf_len - 1 : p - 3 >= seen /\ DoubleNewline(p)}
FirstHit == CHOOSE p \in Hits : \A q \in Hits : p <= q

ScanEnds ==
  /\ at = "scan" /\ Hits = {}
  /\ at' = "idle"
  /\ UNCHANGED reading /\ UNCHANGED setting
  /\ UNCHANGED requests /\ UNCHANGED answers

(* Slip: the matching byte itself is not counted.                          *)
req_size_short == Size + (FirstHit - read_buf) - read_buf_len

(* Bytes buffered up to and including the match.                           *)
req_size == Size + (FirstHit - read_buf) + 1 - read_buf_len

(* match_length is not reset behind a match: bytes equal to what lies      *)
(* behind the array newlines are swallowed.                                *)
Resume(p) ==
  LET after == {q \in p + 1 .. received : Char(q) # setting.beyond} IN
  IF after = {} THEN received + 1 ELSE CHOOSE q \in after : \A r \in after : q <= r

(* parseRequest gives a POST a body only below the limit.                  *)
HasBody(k) == script[k].body > 0 /\ (setting.max_post = 0 \/ script[k].body < setting.max_post)

(* A request is cut out, parsed, accepted by the modules and, unless its   *)
(* body is still to come, answered.                                        *)
Request(skipped) ==
  LET k == RequestAt(buffers[1].lo) IN
  /\ at = "scan" /\ Hits # {}
  /\ k # 0
  /\ buffers' = Pop(req_size)
  /\ popped' = Append(popped, Taken("head", k, req_size))
  /\ seen' = Resume(FirstHit)
  /\ taken_over' = IF skipped THEN taken_over \union {k} ELSE taken_over
  /\ \/ /\ HasBody(k)
        /\ posting' = k
        /\ skip' = skipped
        /\ at' = "restart"
        /\ UNCHANGED answers
     \/ /\ ~HasBody(k)
        /\ Respond(k, skipped, "scan")
        /\ UNCHANGED <<posting, skip>>
  /\ UNCHANGED <<received, read_buf, read_buf_len>> /\ UNCHANGED setting

(* A module refuses the request, or what was cut out is not one: the       *)
(* handler returns 1 and the worker closes the connection.                 *)
RequestRefused ==
  /\ at = "scan" /\ Hits # {}
  /\ Refusing \/ RequestAt(buffers[1].lo) = 0
  /\ buffers' = Pop(req_size)
  /\ popped' = Append(popped, Taken("head", RequestAt(buffers[1].lo), req_size))
  /\ at' = "closed"
  /\ UNCHANGED <<received, read_buf, read_buf_len, seen>>
  /\ UNCHANGED setting /\ UNCHANGED requests /\ UNCHANGED answers

-----------------------------------------------------------------------------
(* The provider of a streamed response, on the same worker thread.         *)
DataParts(k) == Cardinality({i \in 1 .. Len(out) : out[i] = [req |-> k, what |-> "data"]})

(* It releases a delayed header: delay_finish.                             *)
DelayFinish ==
  /\ at = "idle" /\ streaming # 0 /\ ~Written(streaming, "head")
  /\ out' = Append(out, [req |-> streaming, what |-> "head"])
  /\ UNCHANGED <<at, streaming, generated, broken>>
  /\ UNCHANGED reading /\ UNCHANGED setting /\ UNCHANGED requests

(* It calls notify with data to read ...                                   *)
NotifyData ==
  /\ at = "idle" /\ streaming # 0 /\ Written(streaming, "head")
  /\ DataParts(streaming) < MaxData
  /\ out' = Append(out, [req |-> streaming, what |-> "data"])
  /\ UNCHANGED <<at, streaming, generated, broken>>
  /\ UNCHANGED reading /\ UNCHANGED setting /\ UNCHANGED requests

(* ... at the end of the stream ...                                        *)
NotifyEnd ==
  /\ at = "idle" /\ streaming # 0 /\ Written(streaming, "head")
  /\ out' = Append(out, [req |-> streaming, what |-> "end"])
  /\ streaming' = 0
  /\ UNCHANGED <<at, generated, broken>>
  /\ UNCHANGED reading /\ UNCHANGED setting /\ UNCHANGED requests

(* ... or when the stream has failed, which writes nothing.                *)
NotifyFailed ==
  /\ at = "idle" /\ streaming # 0
  /\ broken' = broken \union {streaming}
  /\ streaming' = 0
  /\ UNCHANGED <<at, out, generated>>
  /\ UNCHANGED reading /\ UNCHANGED setting /\ UNCHANGED requests

(* The peer closes the connection.                                         *)
ClientCloses ==
  /\ at = "idle"
  /\ at' = "closed"
  /\ UNCHANGED reading /\ UNCHANGED setting
  /\ UNCHANGED requests /\ UNCHANGED answers

Handle ==
  \/ PostComplete \/ PostRefused \/ PostWaits \/ StreamActive \/ StartScan
  \/ ScanEnds \/ (\E s \in BOOLEAN : Request(s)) \/ RequestRefused
Notify == DelayFinish \/ NotifyData \/ NotifyEnd \/ NotifyFailed

Next ==
  \/ \E n \in 1 .. Limit : Read(n)
  \/ Handle
  \/ Notify
  \/ ClientCloses

Spec == Init /\ [][Next]_vars

(* A handler runs to its end, and a provider brings its stream to an end.  *)
FairSpec == Spec /\ WF_vars(Handle) /\ WF_vars(NotifyEnd \/ NotifyFailed) /\ WF_vars(DelayFinish)

-----------------------------------------------------------------------------
Interval == [lo : Nat, hi : Nat]
TypeOK ==
  /\ received \in Nat
  /\ buffers \in Seq(Interval)
  /\ at \in {"idle", "restart", "scan", "closed"}
  /\ read_buf \in Nat /\ read_buf_len \in Nat
  /\ seen \in 1 .. received + 1
  /\ posting \in 0 .. Len(script) /\ streaming \in 0 .. Len(script)
  /\ skip \in BOOLEAN
  /\ out \in Seq([req : Nat, what : {"whole", "head", "data", "end"}])
  /\ popped \in Seq([what : {"head", "body"}, req : Nat, lo : Nat, hi : Nat])
  /\ generated \subseteq DOMAIN script
  /\ taken_over \subseteq DOMAIN script
  /\ broken \subseteq DOMAIN script

(* However the stream is cut into reads, and whatever is popped out of the *)
(* middle of one, every byte is cut out once and in order: what was popped *)
(* and what is still buffered follow one another without gap or overlap.   *)
EachByteOnce ==
  LET pieces == [i \in 1 .. Len(popped) |-> [lo |-> popped[i].lo, hi |-> popped[i].hi]] \o buffers
  IN /\ pieces # <<>> => pieces[1].lo = 1 /\ pieces[Len(pieces)].hi = received
     /\ \A i \in 1 .. Len(pieces) : pieces[i].lo <= pieces[i].hi
     /\ \A i \in 1 .. Len(pieces) - 1 : pieces[i + 1].lo = pieces[i].hi + 1

(* Responses never overtake or interleave each other, whatever mixture of  *)
(* whole and streamed ones the pipelined requests ask for.                 *)
Order == INSTANCE ResponseOrder WITH log <- out, current <- streaming
OneAtATime == Order!Spec

(* A client that awaits streamed responses: while one is streamed nothing  *)
(* else is in read_buffer.                                                 *)
Awaiting == setting.pipelining = {"whole"}

(* What is cut out is exactly a request's header, or exactly its body.     *)
CutAtBoundaries ==
  Awaiting =>
    \A i \in 1 .. Len(popped) :
      LET t == popped[i] IN
      /\ t.req # 0
      /\ t.what = "head" => t.lo = First(t.req) /\ t.hi = First(t.req) + HeadSize - 1
      /\ t.what = "body" => t.lo = First(t.req) + HeadSize /\ t.hi = Last[t.req]

(* With nothing in progress, no complete header is left in the buffer, so  *)
(* the handler never waits for bytes it already has.                       *)
NoneOverlooked ==
  Awaiting /\ at = "idle" /\ posting = 0 /\ streaming = 0 =>
    ~\E p \in 1 .. received - 3 :
       /\ buffers # <<>> /\ p >= buffers[1].lo
       /\ \A i \in 0 .. 3 : Char(p + i) = newlines[i + 1]

(* Every request of such a client that arrives completely is answered, or  *)
(* the connection is closed, or its stream broke; and either a module that *)
(* has taken it over answers or generateResponse does, never both, even    *)
(* when its body arrives many reads after the module decided.              *)
AllAnswered ==
  \A k \in 1 .. 3 :
    (Awaiting /\ k \in DOMAIN script /\ received >= Last[k])
    ~> (at = "closed" \/ (Answered(k) /\ ((k \in generated) # (k \in taken_over))))
=============================================================================
