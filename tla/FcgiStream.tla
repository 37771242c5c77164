----------------------------- MODULE FcgiStream -----------------------------
(***************************************************************************)
(* One request answered by a FastCGI backend, for an HTTP client: the      *)
(* frames it is written in (FcgiRequest), the frames the backend answers   *)
(* with, the worker that reads them, fcgi_read, which separates headers    *)
(* from body and calls notify, and http_stream_notify, which reads the     *)
(* provision (through the chunked wrapper) and appends to the client's     *)
(* write_buffer                                                            *)
(* (src/modules/fcgi/src/fcgi_provider.c, src/src/http_network.c,          *)
(* src/src/chunked.c).                                                     *)
(*                                                                         *)
(* The backend's standard output is a text of HeadLen header bytes, the    *)
(* two halves of the CR LF CR LF that ends them, and BodyLen body bytes; a *)
(* byte is its position.  A stdout frame carries an interval of positions. *)
(* Bytes of the backend's standard error are all written 0.  A frame       *)
(* counts as arrived when its last byte has: fcgi_readFrame leaves an      *)
(* incomplete one in the buffer.                                           *)
(***************************************************************************)
EXTENDS FcgiRequest, Integers

CONSTANTS
  Requests,   \* requests there may be to answer
  Taken,      \* stands for the request when the backend has read it
  HeadLen, BodyLen,
  MaxNoise,   \* bound: frames of other requests, of standard error, and empty
  EarlyErr,   \* the backend may write standard error before its headers end
  SplitHead,  \* its headers' end may be split over two frames
  Closing     \* the backend may close the connection, or never accept it

ASSUME ParametersAssumption ==
  /\ HeadLen \in Nat /\ BodyLen \in Nat /\ MaxNoise \in Nat
  /\ EarlyErr \in BOOLEAN /\ SplitHead \in BOOLEAN /\ Closing \in BOOLEAN
ASSUME RequestsAssumption == Requests \subseteq RequestType

VARIABLES
  request,       \* the request, or Taken
  wire,          \* sub_conn->write_buffer, in frames, and what left it unread
  http11,        \* the request's version is HTTP/1.1
  written,       \* backend: stdout positions sent so far
  noise,         \* backend: other frames sent so far
  backend,       \* "running", "ended" its request, or "closed"
  socket,        \* frames that have arrived and are not read yet
  at,            \* worker: "provide", "idle", in fcgi_read's "frames" loop, behind it
                 \* at "flush" and at "drain", or "gone" with the sub_conn
  read_buffer,   \* sub_conn->read_buffer, in frames
  output_ready,
  stdout_state,  \* 0 until the headers have ended, then 3
  output,        \* positions in extra->output
  complete,      \* extra->complete
  chunked,       \* rs->response->body is the chunked wrapper
  finished,      \* chunked_stream_data.finished
  streaming,     \* the client's currently_streaming is this request
  client         \* what was pushed to the client's write_buffer

ahead == <<request, wire>>
back == <<http11, written, noise, backend>>
conn == <<socket, at, read_buffer, output_ready>>
provision == <<stdout_state, output, complete>>
response == <<chunked, finished, streaming, client>>
vars == <<request, wire, http11, written, noise, backend, socket, at, read_buffer, output_ready,
          stdout_state, output, complete, chunked, finished, streaming, client>>

TextLen == HeadLen + 2 + BodyLen
HeadEnd == HeadLen + 2

Stdout(a, b) == [type |-> "stdout", ours |-> TRUE, lo |-> a, hi |-> b]
Stderr == [type |-> "stderr", ours |-> TRUE, lo |-> 0, hi |-> 0]
Foreign == [type |-> "stdout", ours |-> FALSE, lo |-> 0, hi |-> 0]
ForeignEnd == [type |-> "end", ours |-> FALSE, lo |-> 0, hi |-> 0]
EndRequest == [type |-> "end", ours |-> TRUE, lo |-> 0, hi |-> 0]
EmptyStdout == [type |-> "stdout", ours |-> TRUE, lo |-> 1, hi |-> 0]

(* Slip: one byte too many is taken out of the frame.                      *)
PositionsLong(a, b) == [i \in 1 .. b - a + 2 |-> a + i - 1]

(* The part of a frame's data that is pushed to the output.                *)
Positions(a, b) == [i \in 1 .. b - a + 1 |-> a + i - 1]

Init ==
  /\ request \in Requests /\ wire = <<>>
  /\ http11 \in BOOLEAN
  /\ written = 0 /\ noise = 0 /\ backend = "running"
  /\ socket = <<>> /\ at = "provide" /\ read_buffer = <<>> /\ output_ready = FALSE
  /\ stdout_state = 0 /\ output = <<>> /\ complete = FALSE
  /\ chunked = FALSE /\ finished = FALSE /\ streaming = TRUE /\ client = <<>>

-----------------------------------------------------------------------------
(* The backend takes all that is written, and answers what it has read.    *)
BackendTakes ==
  /\ wire # <<>> /\ backend # "closed"
  /\ wire' = <<>> /\ request' = Taken
  /\ UNCHANGED back /\ UNCHANGED conn /\ UNCHANGED provision /\ UNCHANGED response

Arrives(f) ==
  /\ backend = "running" /\ request = Taken
  /\ socket' = Append(socket, f)
  /\ UNCHANGED <<at, read_buffer, output_ready>>
  /\ UNCHANGED ahead /\ UNCHANGED provision /\ UNCHANGED response

WriteStdout(n) ==
  /\ written + n <= TextLen
  /\ SplitHead \/ written + n # HeadLen + 1
  /\ Arrives(Stdout(written + 1, written + n))
  /\ written' = written + n
  /\ UNCHANGED <<http11, noise, backend>>

WriteNoise(f) ==
  /\ noise < MaxNoise
  /\ f = Stderr => EarlyErr \/ written >= HeadEnd
  /\ Arrives(f)
  /\ noise' = noise + 1
  /\ UNCHANGED <<http11, written, backend>>

EndsRequest ==
  /\ Arrives(EndRequest)
  /\ backend' = "ended"
  /\ UNCHANGED <<http11, written, noise>>

Closes ==
  /\ Closing
  /\ backend # "closed" /\ at # "provide"
  /\ backend' = "closed"
  /\ UNCHANGED <<http11, written, noise>> /\ UNCHANGED ahead
  /\ UNCHANGED conn /\ UNCHANGED provision /\ UNCHANGED response

-----------------------------------------------------------------------------
(* Slip: there is no look at whether output is empty.                     *)
fcgi_provision_read_empty == IF complete THEN 0 ELSE 1

(* Slip: nobody tells the reader that the request is complete.             *)
fcgi_provision_read_endless == IF output = <<>> THEN -2 ELSE 1

(* What fcgi_provision_read returns: 0 once the request is complete, even  *)
(* if output still holds something, -2 when there is nothing yet.          *)
fcgi_provision_read == IF complete THEN 0 ELSE IF output = <<>> THEN -2 ELSE 1

(* Slip: the wrapper writes no last chunk.                                 *)
LastChunkMissing == <<>>

(* chunked_stream_read turns the end of its parent into the last chunk,    *)
(* once.                                                                   *)
LastChunk == IF chunked /\ ~finished THEN <<[what |-> "last", data |-> <<>>]>> ELSE <<>>

(* Slip: data that was read is also left to be read again.                 *)
NotifyKeeps ==
  IF fcgi_provision_read = 0
    THEN /\ client' = client \o LastChunk
         /\ finished' = chunked
         /\ streaming' = FALSE
         /\ UNCHANGED output
    ELSE /\ IF fcgi_provision_read = -2
              THEN UNCHANGED client
              ELSE client' = Append(client,
                     [what |-> IF chunked THEN "chunk" ELSE "raw", data |-> output])
         /\ UNCHANGED <<output, finished, streaming>>

(* notify is http_stream_notify: at the end of the stream the request is   *)
(* freed and the client's connection goes on to its next request;          *)
(* otherwise all output there is becomes one piece of the response.        *)
Notify ==
  IF fcgi_provision_read = 0
    THEN /\ client' = client \o LastChunk
         /\ finished' = chunked
         /\ streaming' = FALSE
         /\ UNCHANGED output
    ELSE /\ IF fcgi_provision_read = -2
              THEN UNCHANGED client
              ELSE client' = Append(client,
                     [what |-> IF chunked THEN "chunk" ELSE "raw", data |-> output])
         /\ output' = <<>>
         /\ UNCHANGED <<finished, streaming>>

(* Its result: nonzero kills the provider, whose sub_conn goes with the    *)
(* request's pool.                                                         *)
Killed == fcgi_provision_read = 0

-----------------------------------------------------------------------------
(* fcgi_provide_data, with the backend connected: the request is written   *)
(* and the backend's frames are awaited.  Without a connection there is no *)
(* stream, and a code 500 in its place: see Site's Provide.                *)
Provide ==
  /\ at = "provide"
  /\ wire' = fcgi_request(request)
  /\ at' = "idle"
  /\ UNCHANGED request /\ UNCHANGED back /\ UNCHANGED <<socket, read_buffer, output_ready>>
  /\ UNCHANGED provision /\ UNCHANGED response

(* The worker: everything that has arrived is read and passed to fcgi_read.*)
ReadEvent ==
  /\ at = "idle" /\ streaming
  /\ socket # <<>> /\ backend # "closed"
  /\ read_buffer' = read_buffer \o socket
  /\ socket' = <<>>
  /\ output_ready' = FALSE
  /\ at' = "frames"
  /\ UNCHANGED ahead /\ UNCHANGED back /\ UNCHANGED provision /\ UNCHANGED response

(* The backend's end shows as read returning 0 behind the last byte, or as *)
(* EPOLLHUP: what was read in the same event is dropped and on_closed,     *)
(* fcgi_on_closed, frees the sub_conn.  No notify.                         *)
CloseEvent ==
  /\ at = "idle" /\ streaming /\ backend = "closed"
  /\ complete' = TRUE
  /\ socket' = <<>>
  /\ at' = "gone"
  /\ UNCHANGED ahead /\ UNCHANGED back /\ UNCHANGED <<read_buffer, output_ready, stdout_state, output>>
  /\ UNCHANGED response

-----------------------------------------------------------------------------
(* fcgi_read.                                                              *)
Frame == Head(read_buffer)
HasFrame == at = "frames" /\ read_buffer # <<>>

(* A frame for another request is skipped, whatever its type.              *)
SkipForeign ==
  /\ HasFrame /\ ~Frame.ours
  /\ read_buffer' = Tail(read_buffer)
  /\ UNCHANGED ahead /\ UNCHANGED back /\ UNCHANGED <<socket, at, output_ready>>
  /\ UNCHANGED provision /\ UNCHANGED response

(* Standard error is logged and joins the output.                          *)
StderrFrame ==
  /\ HasFrame /\ Frame.ours /\ Frame.type = "stderr"
  /\ read_buffer' = Tail(read_buffer)
  /\ output' = Append(output, 0)
  /\ output_ready' = TRUE
  /\ UNCHANGED ahead /\ UNCHANGED back /\ UNCHANGED <<socket, at, stdout_state, complete>>
  /\ UNCHANGED response

(* The end of the headers is found only if the frame holds all of it.      *)
EndsHeaders(f) == f.lo <= HeadLen + 1 /\ f.hi >= HeadEnd

(* Slip: the frame that ends the headers is taken to hold nothing else.    *)
StdoutHeadOnly ==
  /\ HasFrame /\ Frame.ours /\ Frame.type = "stdout" /\ stdout_state = 0
  /\ read_buffer' = Tail(read_buffer)
  /\ output_ready' = TRUE
  /\ IF EndsHeaders(Frame)
       THEN /\ stdout_state' = 3
            /\ chunked' = http11
            /\ client' = Append(client, [what |-> "head", data |-> <<>>])
       ELSE UNCHANGED <<stdout_state, chunked, client>>
  /\ UNCHANGED ahead /\ UNCHANGED back /\ UNCHANGED <<socket, at, output, complete, finished, streaming>>

(* A body of unknown length is chunked for an HTTP/1.1 client.             *)
updateContentHeaders == chunked' = http11

(* Before the headers have ended a stdout frame adds to them; the one that *)
(* ends them fixes the response's headers, wraps the body and sends the    *)
(* delayed header, and what follows in the frame is body.                  *)
StdoutHead ==
  /\ HasFrame /\ Frame.ours /\ Frame.type = "stdout" /\ stdout_state = 0
  /\ read_buffer' = Tail(read_buffer)
  /\ output_ready' = TRUE
  /\ IF EndsHeaders(Frame)
       THEN /\ stdout_state' = 3
            /\ updateContentHeaders
            /\ client' = Append(client, [what |-> "head", data |-> <<>>])
            /\ output' = output \o Positions(HeadEnd + 1, Frame.hi)
       ELSE UNCHANGED <<stdout_state, chunked, client, output>>
  /\ UNCHANGED ahead /\ UNCHANGED back /\ UNCHANGED <<socket, at, complete, finished, streaming>>

StdoutBody ==
  /\ HasFrame /\ Frame.ours /\ Frame.type = "stdout" /\ stdout_state = 3
  /\ read_buffer' = Tail(read_buffer)
  /\ output_ready' = TRUE
  /\ output' = output \o Positions(Frame.lo, Frame.hi)
  /\ UNCHANGED ahead /\ UNCHANGED back /\ UNCHANGED <<socket, at, stdout_state, complete>>
  /\ UNCHANGED response

EndFrame ==
  /\ HasFrame /\ Frame.ours /\ Frame.type = "end"
  /\ read_buffer' = Tail(read_buffer)
  /\ at' = "flush"
  /\ UNCHANGED ahead /\ UNCHANGED back /\ UNCHANGED <<socket, output_ready>>
  /\ UNCHANGED provision /\ UNCHANGED response

(* No whole frame is left: notify if something was added to the output.    *)
FramesRunOut ==
  /\ at = "frames" /\ read_buffer = <<>>
  /\ IF output_ready
       THEN Notify /\ at' = IF Killed THEN "gone" ELSE "idle"
       ELSE at' = "idle" /\ UNCHANGED <<client, finished, streaming, output>>
  /\ UNCHANGED ahead /\ UNCHANGED back /\ UNCHANGED <<socket, read_buffer, output_ready>>
  /\ UNCHANGED <<stdout_state, complete, chunked>>

(* Slip: the request is marked complete before its output is flushed.      *)
FlushLate ==
  /\ at = "flush"
  /\ at' = "drain"
  /\ complete' = TRUE
  /\ UNCHANGED ahead /\ UNCHANGED back /\ UNCHANGED <<socket, read_buffer, output_ready>>
  /\ UNCHANGED <<stdout_state, output>> /\ UNCHANGED response

(* Behind END_REQUEST the output is flushed, then the request is complete. *)
Flush ==
  /\ at = "flush"
  /\ IF output_ready
       THEN Notify /\ at' = IF Killed THEN "gone" ELSE "drain"
       ELSE at' = "drain" /\ UNCHANGED <<client, finished, streaming, output>>
  /\ complete' = (IF output_ready /\ Killed THEN complete ELSE TRUE)
  /\ UNCHANGED ahead /\ UNCHANGED back /\ UNCHANGED <<socket, read_buffer, output_ready>>
  /\ UNCHANGED <<stdout_state, chunked>>

(* notify is called until it returns nonzero.                              *)
Drain ==
  /\ at = "drain"
  /\ Notify
  /\ at' = IF Killed THEN "gone" ELSE "drain"
  /\ UNCHANGED ahead /\ UNCHANGED back /\ UNCHANGED <<socket, read_buffer, output_ready>>
  /\ UNCHANGED <<stdout_state, complete, chunked>>

Worker ==
  \/ Provide \/ ReadEvent \/ CloseEvent \/ SkipForeign \/ StderrFrame \/ StdoutHead \/ StdoutBody
  \/ EndFrame \/ FramesRunOut \/ Flush \/ Drain

Next ==
  \/ \E n \in 1 .. TextLen : WriteStdout(n)
  \/ \E f \in {Stderr, EmptyStdout, Foreign, ForeignEnd} : WriteNoise(f)
  \/ BackendTakes \/ EndsRequest \/ Closes
  \/ Worker

Spec == Init /\ [][Next]_vars

(* The worker thread handles every event and runs its handlers to the end. *)
FairSpec == Spec /\ WF_vars(Worker)

-----------------------------------------------------------------------------
Piece == [what : {"head", "raw", "chunk", "last"}, data : Seq(0 .. TextLen)]
FrameType ==
  [type : {"stdout", "stderr", "end"}, ours : BOOLEAN, lo : 0 .. TextLen, hi : 0 .. TextLen]

TypeOK ==
  /\ request \in Requests \union {Taken}
  /\ \A i \in DOMAIN wire :
       /\ wire[i].type \in {"begin", "params", "stdin"}
       /\ {wire[i].request_id, wire[i].len} \subseteq (0 .. Byte - 1) \X (0 .. Byte - 1)
  /\ http11 \in BOOLEAN /\ written \in 0 .. TextLen /\ noise \in 0 .. MaxNoise
  /\ backend \in {"running", "ended", "closed"}
  /\ socket \in Seq(FrameType) /\ read_buffer \in Seq(FrameType)
  /\ at \in {"provide", "idle", "frames", "flush", "drain", "gone"}
  /\ stdout_state \in {0, 3}
  /\ output \in Seq(0 .. TextLen)
  /\ output_ready \in BOOLEAN /\ complete \in BOOLEAN
  /\ chunked \in BOOLEAN /\ finished \in BOOLEAN /\ streaming \in BOOLEAN
  /\ client \in Seq(Piece)

(* The backend reads, for the request's id, exactly its parameters, with   *)
(* the length that its body then has, and all of the body, whatever has to *)
(* be cut into frames and however long names and values are.               *)
RequestRead ==
  wire # <<>> =>
    LET read == BackendReads(wire)
        params == fcgi_params(request) IN
    /\ read.ids = {request.id}
    /\ read.params = {params[i] : i \in DOMAIN params}
    /\ read.body = request.body
    /\ [name |-> Name.CONTENT_LENGTH, value |-> Digits(read.body)] \in read.params

(* The records fit a frame, the length of which has two octets.            *)
RecordsFit ==
  \A r \in Requests : \A i \in DOMAIN fcgi_params(r) : Len(Record(fcgi_params(r)[i])) <= FrameMax

(* Of what the client's pieces carry the body of standard output.          *)
BodyIn(data) ==
  LET body[k \in 0 .. Len(data)] ==
        IF k = 0 THEN <<>>
        ELSE IF data[k] = 0 THEN body[k - 1] ELSE Append(body[k - 1], data[k] - HeadEnd)
  IN  body[Len(data)]
Body ==
  LET body[k \in 0 .. Len(client)] ==
        IF k = 0 THEN <<>> ELSE body[k - 1] \o BodyIn(client[k].data)
  IN  body[Len(client)]

(* The pieces form one response: one header, ahead of it at most standard  *)
(* error, behind it only pieces of one kind, none of them an empty chunk,  *)
(* which would end the body for the client, and the last chunk at the end. *)
OneResponse ==
  \A i \in 1 .. Len(client) :
    LET piece == client[i] IN
    /\ piece.what = "head" => \A j \in 1 .. i - 1 : \A k \in DOMAIN client[j].data : client[j].data[k] = 0
    /\ piece.what = "head" => \A j \in i + 1 .. Len(client) : client[j].what # "head"
    /\ piece.what \in {"chunk", "last"} => http11 /\ \E j \in 1 .. i - 1 : client[j].what = "head"
    /\ piece.what = "raw" /\ http11 => \A j \in 1 .. i - 1 : client[j].what = "raw"
    /\ piece.what \in {"raw", "chunk"} => piece.data # <<>>
    /\ piece.what = "last" => i = Len(client) /\ ~streaming

(* The body reaches the client unbroken, however the backend frames it,    *)
(* mixes it with standard error and batches the frames, and it never ends  *)
(* regularly with a part missing.                                          *)
Produced == IF written > HeadEnd THEN written - HeadEnd ELSE 0
Streamed == INSTANCE StreamedBody WITH
              produced <- Produced, delivered <- Body, open <- streaming
BodyUnbroken == Streamed!Spec

(* When the last chunk goes out, everything the backend wrote to standard  *)
(* output behind its headers has gone out before it.                       *)
NotTruncated ==
  (\E i \in 1 .. Len(client) : client[i].what = "last") => Len(Body) = Produced

(* A request the backend ends is over for the client's connection as well, *)
(* which then goes on to the next request, if the backend stays connected. *)
EndReleases == (backend = "ended") ~> (~streaming \/ backend = "closed")

(* An HTTP/1.1 client whose response header was sent sees a last chunk     *)
(* when the backend ends the request.                                      *)
Completed == client # <<>> /\ client[Len(client)].what = "last"
EndIsSeen ==
  (backend = "ended" /\ stdout_state = 3 /\ http11) ~> (Completed \/ backend = "closed")

(* "backend server failed during stream": a backend that goes away ends    *)
(* the stream in http_stream_notify, which frees the request.              *)
FailureReleases == (backend = "closed") ~> ~streaming
=============================================================================
