--------------------------- MODULE Http2Connection ---------------------------
(***************************************************************************)
(* An HTTP/2 connection: the frames of a client (src/src/http2_network.c,  *)
(* handle_http2_server_read), the streams and their requests               *)
(* (src/src/http2_pipeline.c) and the responses' frames.  Header blocks    *)
(* and both compression contexts are Hpack's.                              *)
(*                                                                         *)
(* The client keeps to the protocol.  A frame the server sends is taken at *)
(* once, WriteBuffer being about the bytes; how long the frames of a       *)
(* response are is left out, and so is that http2_send_data sends of what  *)
(* does not fit in one frame only the first.  Where the code goes on with  *)
(* an unset pointer or freed memory, undefined may become TRUE: the model  *)
(* then stops.                                                             *)
(***************************************************************************)
EXTENDS Hpack

CONSTANTS
  Streams,     \* the streams a client may open: 1 .. n, in this order
  MaxPost,     \* server->max_post
  TableSize,   \* both tables' size at first, 4096 in the code
  Responses,   \* the headers of a response
  Profiles     \* bounds: how many streams and frames, or changes of its table's size,
               \* a client has that uses its table and ends the last stream only, or one
               \* that does not and sends frames of every kind

Stream == [state : {"open", "half closed"}, body : Nat, fit : BOOLEAN]

ASSUME Http2Assumption ==
  /\ IsFiniteSet(Streams) /\ Streams = 1 .. Cardinality(Streams)
  /\ MaxPost \in Nat /\ TableSize \in Nat /\ Responses \subseteq Seq(Headers)
  /\ Profiles \subseteq [table : BOOLEAN, streams : Streams, work : Nat]
  /\ None \notin Stream

VARIABLES
  \* the client
  opened,      \* how many streams it has opened
  uploading,   \* the streams whose body is not complete
  block,       \* the stream of an unfinished header block, or 0
  peer,        \* its table for requests, and that table's limit
  reader,      \* the same for responses
  sent,        \* by stream: the body of its request, and its end
  odd,         \* what it has done that the server does not take
  profile,     \* which client it is: work is what it may still do
  \* the server: sub_conn->read_buffer and extra
  preface,     \* of the preface has come "none", a "few" octets, or "all"
  buffer,      \* the frames that have come
  decoder,     \* send_hpack_ctx
  encoder,     \* recv_hpack_ctx
  streams,     \* by stream: its state, its body and whether its request is fit, or None
  active,      \* by stream: a streamed response, "none", "delayed" or "open"
  held,        \* streams whose request's memory is there
  closed, undefined,
  \* what can be seen
  requests,    \* by stream: the body given to the pipeline, or None
  reply,       \* by stream: "none", "open" after the headers, "ended" or "broken"
  misread,     \* a request's header was read other than meant
  reading      \* how the client reads the responses' headers: "right", or "wrong",
               \* or one has come since which the two tables may differ: "lost"

client == <<opened, uploading, block, peer, sent, odd, profile>>
answers == <<reader, encoder, active, held, requests, reply, reading>>
vars == <<opened, uploading, block, peer, reader, sent, odd, profile, preface, buffer,
          decoder, encoder, streams, active, held, closed, undefined, requests, reply,
          misread, reading>>

Init ==
  /\ opened = 0 /\ uploading = {} /\ block = 0
  /\ peer = [table |-> <<>>, limit |-> TableSize]
  /\ reader = [table |-> <<>>, limit |-> TableSize]
  /\ sent = [s \in Streams |-> [body |-> 0, end |-> FALSE]]
  /\ odd = {} /\ profile \in Profiles
  /\ preface = "none" /\ buffer = <<>>
  /\ decoder = hpack_init(TableSize) /\ encoder = hpack_init(TableSize)
  /\ streams = [s \in Streams |-> None]
  /\ active = [s \in Streams |-> "none"] /\ held = {}
  /\ closed = FALSE /\ undefined = FALSE
  /\ requests = [s \in Streams |-> None]
  /\ reply = [s \in Streams |-> "none"] /\ misread = FALSE /\ reading = "right"

Live == ~closed /\ ~undefined

-----------------------------------------------------------------------------
(* The client.  A block of headers is fit if it has a method, a path and   *)
(* the scheme https, and no module's on_request_received says -1 to it.    *)
Frame(type, s) ==
  [type |-> type, stream |-> s, empty |-> FALSE, endh |-> FALSE, end |-> FALSE, size |-> 0,
   block |-> <<>>, meant |-> <<>>, fit |-> FALSE]

(* The loop's condition is more than nine octets, and nine are a whole     *)
(* frame if it has no payload.                                             *)
Processable ==
  \/ Len(buffer) > 1
  \/ Len(buffer) = 1 /\ ~Head(buffer).empty

(* The client does not look at what the server sends, so its next frame    *)
(* may as well come when those before it are handled.                      *)
Sends(f, cost) ==
  /\ Live /\ preface = "all" /\ profile.work >= cost /\ ~Processable
  /\ profile' = [profile EXCEPT !.work = @ - cost]
  /\ buffer' = Append(buffer, f)
  /\ UNCHANGED <<preface, decoder, streams, closed, undefined, misread>>
  /\ UNCHANGED answers

(* A piece of a header block: one header as the client's table allows it,  *)
(* before it perhaps a new limit of that table.                            *)
Pieces ==
  LET new == {<<Literal(0, h, TRUE)>> : h \in Headers}
      named == {<<Literal(Len(Static) + i, h, TRUE)>> : i \in DOMAIN peer.table,
                                                        h \in Headers}
      Fits(p) == p[1].h.name = peer.table[IntegerOf(p[1]) - Len(Static)].name
      table == new \union {p \in named : Fits(p)}
                 \union {<<Indexed(Len(Static) + i)>> : i \in DOMAIN peer.table}
                 \union {<<Resize(n)>> \o p : n \in 0 .. TableSize, p \in new}
  IN IF profile.table THEN table ELSE {<<Indexed(1)>>}

(* The headers are sent, and the client's table is as the piece says.      *)
SendsHeaders(f) ==
  \E piece \in Pieces :
    LET d == PeerDecodes(peer, piece)
    IN /\ peer' = [table |-> d.table, limit |-> d.limit]
       /\ Sends([f EXCEPT !.block = piece, !.meant = d.headers], Len(piece))

(* Of a block that is not complete yet the rest may be what makes it fit.  *)
ClientHeaders(endh, end, fit) ==
  LET s == opened + 1
  IN /\ block = 0 /\ s <= profile.streams
     /\ profile.table => fit /\ (end => s = profile.streams)
     /\ opened' = s
     /\ SendsHeaders([Frame("HEADERS", s) EXCEPT !.endh = endh, !.end = end, !.fit = fit])
     /\ block' = IF endh THEN 0 ELSE s
     /\ uploading' = IF end THEN uploading ELSE uploading \union {s}
     /\ sent' = [sent EXCEPT ![s].end = end]
     /\ odd' = CASE end /\ ~endh -> odd \union {"block"}
                 [] endh /\ ~fit -> odd \union {"request"}
                 [] OTHER -> odd

ClientContinuation(endh) ==
  /\ block # 0
  /\ SendsHeaders([Frame("CONTINUATION", block) EXCEPT !.endh = endh])
  /\ block' = IF endh THEN 0 ELSE block
  /\ odd' = odd \union {"continued"}
  /\ UNCHANGED <<opened, uploading, sent>>

ClientData(s, size, end) ==
  /\ block = 0 /\ s \in uploading /\ ~profile.table
  /\ size = 0 => end
  /\ sent' = [sent EXCEPT ![s].body = @ + size, ![s].end = end]
  /\ uploading' = IF end THEN uploading \ {s} ELSE uploading
  /\ odd' = IF MaxPost # 0 /\ sent[s].body + size > MaxPost
              THEN odd \union {"body"} ELSE odd
  /\ Sends([Frame("DATA", s) EXCEPT !.empty = (size = 0), !.size = size, !.end = end], 1)
  /\ UNCHANGED <<opened, block, peer>>

(* It gives up on a stream.                                                *)
ClientReset(s) ==
  /\ block = 0 /\ s \in 1 .. opened /\ ~profile.table
  /\ uploading' = uploading \ {s}
  /\ Sends(Frame("RST_STREAM", s), 1)
  /\ UNCHANGED <<opened, block, peer, sent, odd>>

(* Headers behind the body, which end the stream.                          *)
ClientTrailers(s) ==
  /\ block = 0 /\ s \in uploading /\ ~profile.table
  /\ sent' = [sent EXCEPT ![s].end = TRUE]
  /\ uploading' = uploading \ {s}
  /\ odd' = odd \union {"trailers"}
  /\ SendsHeaders([Frame("HEADERS", s) EXCEPT !.endh = TRUE, !.end = TRUE])
  /\ UNCHANGED <<opened, block>>

(* SETTINGS with a size for the responses' table, or none; WINDOW_UPDATE   *)
(* and PRIORITY, PING; a type that the RFC says to ignore, or padding.     *)
ClientSays(f) ==
  /\ block = 0 /\ ~profile.table
  /\ Sends(f, 1)
  /\ UNCHANGED <<opened, uploading, block, peer, sent, odd>>

ClientGoesAway ==
  /\ block = 0 /\ ~profile.table /\ "goaway" \notin odd
  /\ odd' = odd \union {"goaway"}
  /\ Sends(Frame("GOAWAY", 0), 1)
  /\ UNCHANGED <<opened, uploading, block, peer, sent>>

(* With more than nine octets but no whole preface handle_http2_server_read*)
(* goes on to its loop, takes these for a frame, and gives up.             *)
ReadPreface(octets) ==
  /\ Live /\ preface # "all"
  /\ octets = "few" => preface = "none"
  /\ preface' = IF octets = "most" THEN preface ELSE octets
  /\ closed' = (octets = "most")
  /\ odd' = IF octets = "most" THEN odd \union {"preface"} ELSE odd
  /\ UNCHANGED <<opened, uploading, block, peer, sent, profile, buffer, decoder, streams,
                 undefined, misread>>
  /\ UNCHANGED answers

-----------------------------------------------------------------------------
Taken(type) ==
  /\ Live /\ Processable /\ Head(buffer).type = type
  /\ buffer' = Tail(buffer)
  /\ UNCHANGED preface /\ UNCHANGED client

(* What the encoder's lists have of the headers' names is in its table and *)
(* in memory that is not freed; the limit holds, for each of them, too.    *)
Kept(ctx, headers, alive) ==
  /\ encoder.size <= encoder.max
  /\ \A h \in Range(headers) :
       /\ EntrySize[h] <= encoder.max
       /\ \A n \in Range(ctx.lookup[h.name]) :
            n.owner \in alive /\ \E e \in Range(ctx.table) : e.push = n.push

(* send_request_session_http2, of headers that end the stream or not.      *)
Send(s, headers, end) ==
  \E e \in hpack_encode(encoder, headers, s, held \union {s}) :
    LET d == PeerDecodes(reader, e.reps)
    IN /\ encoder' = e.ctx
       /\ reader' = [table |-> d.table, limit |-> d.limit]
       /\ reading' = IF reading # "right" THEN reading
                     ELSE IF ~Kept(e.ctx, headers, held \union {s}) THEN "lost"
                     ELSE IF d.headers # headers THEN "wrong" ELSE "right"
       /\ reply' = [reply EXCEPT ![s] = IF @ # "none" THEN "broken"
                                          ELSE IF end THEN "ended" ELSE "open"]

(* Slip: every frame has the flag.                                         *)
SendDataEnding(s, end) ==
  reply' = [reply EXCEPT ![s] = IF @ # "open" THEN "broken" ELSE "ended"]

(* http2_send_data.                                                        *)
SendData(s, end) ==
  reply' = [reply EXCEPT ![s] = IF @ # "open" THEN "broken"
                                  ELSE IF end THEN "ended" ELSE @]

(* Freeing the request's pool frees the stream, whose hook takes it out of *)
(* the map.                                                                *)
Freed(s) ==
  /\ held' = held \ {s}
  /\ streams' = [streams EXCEPT ![s] = None]

(* A request that is taken: a response that is complete is sent, and its   *)
(* request freed; one that is streamed starts now or when its headers are  *)
(* there; one without a body is not provided for.                          *)
Respond(s, stream) ==
  /\ requests' = [requests EXCEPT ![s] = stream.body]
  /\ \/ /\ \E headers \in Responses : Send(s, headers, TRUE)
        /\ Freed(s)
        /\ UNCHANGED <<active, undefined>>
     \/ /\ \E headers \in Responses : Send(s, headers, FALSE)
        /\ active' = [active EXCEPT ![s] = "open"]
        /\ held' = held \union {s}
        /\ streams' = [streams EXCEPT ![s] = stream]
        /\ UNCHANGED undefined
     \/ /\ active' = [active EXCEPT ![s] = "delayed"]
        /\ held' = held \union {s}
        /\ streams' = [streams EXCEPT ![s] = stream]
        /\ UNCHANGED <<encoder, reader, reply, undefined, reading>>
     \/ /\ undefined' = TRUE
        /\ UNCHANGED <<encoder, reader, reply, streams, active, held, reading>>

(* handle_http2_request.  For one that is not fit it returns 1, and        *)
(* nothing is said before the connection is closed.                        *)
Request(s, stream) ==
  \/ /\ stream.fit
     /\ Respond(s, stream)
     /\ UNCHANGED closed
  \/ /\ ~stream.fit
     /\ closed' = TRUE
     /\ UNCHANGED <<streams, undefined>> /\ UNCHANGED answers

-----------------------------------------------------------------------------
(* delay_finish: the backend has given the headers, before anything else.  *)
StreamStarts(s) ==
  /\ Live /\ active[s] = "delayed"
  /\ \E headers \in Responses : Send(s, headers, FALSE)
  /\ active' = [active EXCEPT ![s] = "open"]
  /\ UNCHANGED <<preface, buffer, decoder, streams, held, closed, undefined, requests,
                 misread>>
  /\ UNCHANGED client

(* http2_stream_notify, with some of the body, or with the last of it;     *)
(* then the request is not freed.                                          *)
StreamData(s, end) ==
  /\ Live /\ active[s] = "open"
  /\ SendData(s, end)
  /\ active' = IF end THEN [active EXCEPT ![s] = "none"] ELSE active
  /\ UNCHANGED <<preface, buffer, reader, decoder, encoder, streams, held, closed,
                 undefined, requests, misread, reading>>
  /\ UNCHANGED client

(* Slip: the end is not said.                                              *)
FinishUnsaid(s) == UNCHANGED reply

Finish(s) == SendData(s, TRUE)

(* Or there is nothing more, or the backend has failed: it looks the same. *)
StreamEnds(s) ==
  /\ Live /\ active[s] = "open"
  /\ Finish(s)
  /\ active' = [active EXCEPT ![s] = "none"]
  /\ Freed(s)
  /\ UNCHANGED <<preface, buffer, reader, decoder, encoder, closed, undefined, requests,
                 misread, reading>>
  /\ UNCHANGED client

-----------------------------------------------------------------------------
(* receive_http2_frame.                                                    *)
(* http2_error, and the connection is given up.                            *)
Refuse ==
  /\ closed' = TRUE
  /\ UNCHANGED <<decoder, streams, undefined, misread>> /\ UNCHANGED answers

(* Slip: the longest body allowed is not.                                  *)
PostTooLongSoon(s, size) == size + streams[s].body >= MaxPost

(* Slip: of the frames only the last counts.                               *)
LongerOther(s, size) == [streams[s] EXCEPT !.body = size]

PostTooLong(s, size) == size + streams[s].body > MaxPost
Longer(s, size) == [streams[s] EXCEPT !.body = @ + size]

DataFrame ==
  LET f == Head(buffer)
      s == f.stream
      longer == Longer(s, f.size)
  IN /\ Taken("DATA")
     /\ IF streams[s] = None \/ streams[s].state # "open" \/ PostTooLong(s, f.size)
          THEN Refuse
          ELSE /\ UNCHANGED <<decoder, misread>>
               /\ IF f.end
                    THEN Request(s, [longer EXCEPT !.state = "half closed"])
                    ELSE /\ streams' = [streams EXCEPT ![s] = longer]
                         /\ UNCHANGED <<closed, undefined>> /\ UNCHANGED answers

(* A block is decoded.  If its headers are read as others, those that make *)
(* it fit may be among them.                                               *)
HeadersFrame ==
  LET f == Head(buffer)
      s == f.stream
      d == hpack_decode(decoder, f.block)
      right == d.headers = f.meant
  IN /\ Taken("HEADERS")
     /\ IF streams[s] # None \/ d.error
          THEN Refuse
          ELSE /\ decoder' = d.ctx
               /\ misread' = (misread \/ ~right)
               /\ \E fit \in IF right THEN {f.fit} ELSE BOOLEAN :
                    LET new == [state |-> IF f.end THEN "half closed" ELSE "open",
                                body |-> 0, fit |-> fit]
                    IN IF f.end
                         THEN Request(s, new)
                         ELSE /\ streams' = [streams EXCEPT ![s] = new]
                              /\ UNCHANGED <<closed, undefined>> /\ UNCHANGED answers

(* parse_frame has filled data.continuation; what is decoded is            *)
(* data.headers, of which nothing is set in such a frame: no octets.  The  *)
(* block's headers are never read, nor what it does to the table.          *)
Continuation ==
  LET f == Head(buffer)
  IN /\ Taken("CONTINUATION")
     /\ IF streams[f.stream] = None
          THEN Refuse
          ELSE /\ misread' = (misread \/ f.meant # <<>>)
               /\ UNCHANGED <<decoder, streams, closed, undefined>> /\ UNCHANGED answers

(* The stream's response, if it has one already, goes on.                  *)
Reset ==
  /\ Taken("RST_STREAM")
  /\ streams' = [streams EXCEPT ![Head(buffer).stream] = None]
  /\ UNCHANGED <<decoder, closed, undefined, misread>> /\ UNCHANGED answers

Settings ==
  LET size == Head(buffer).size
  IN /\ Taken("SETTINGS")
     /\ encoder' = IF size = None THEN encoder ELSE [encoder EXCEPT !.max = size]
     /\ UNCHANGED <<reader, decoder, streams, active, held, closed, undefined, requests,
                    reply, misread, reading>>

(* The pong is written through a pointer that is not set.                  *)
Ping ==
  /\ Taken("PING")
  /\ undefined' \in BOOLEAN
  /\ UNCHANGED <<decoder, streams, closed, misread>> /\ UNCHANGED answers

Goaway == Taken("GOAWAY") /\ Refuse

WindowUpdate ==
  /\ Taken("WINDOW_UPDATE")
  /\ UNCHANGED <<decoder, streams, closed, undefined, misread>> /\ UNCHANGED answers

(* parse_frame returns no frame for a type it does not know or with padding.*)
Unparsed ==
  /\ Taken("unparsed")
  /\ undefined' = TRUE
  /\ UNCHANGED <<decoder, streams, closed, misread>> /\ UNCHANGED answers

-----------------------------------------------------------------------------
SettingsFrame(size) == [Frame("SETTINGS", 0) EXCEPT !.empty = (size = None), !.size = size]
OtherFrames ==
  {SettingsFrame(n) : n \in 0 .. TableSize} \union {SettingsFrame(None)}
    \union {Frame(type, 0) : type \in {"WINDOW_UPDATE", "PING", "unparsed"}}

Client ==
  \/ \E endh, end, fit \in BOOLEAN : ClientHeaders(endh, end, fit)
  \/ \E endh \in BOOLEAN : ClientContinuation(endh)
  \/ \E s \in Streams, size \in {0, 1}, end \in BOOLEAN : ClientData(s, size, end)
  \/ \E s \in Streams : ClientReset(s) \/ ClientTrailers(s)
  \/ \E f \in OtherFrames : ClientSays(f)
  \/ ClientGoesAway
  \/ \E octets \in {"few", "most", "all"} : ReadPreface(octets)

Server ==
  \/ DataFrame \/ HeadersFrame \/ Continuation \/ Reset \/ Settings
  \/ Ping \/ Goaway \/ WindowUpdate \/ Unparsed

Backend(s) ==
  StreamStarts(s) \/ StreamEnds(s) \/ \E end \in BOOLEAN : StreamData(s, end)

Next == Client \/ Server \/ \E s \in Streams : Backend(s)

Spec == Init /\ [][Next]_vars

(* The worker handles what has come, and a backend goes on with its answer *)
(* and comes to its end: weak fairness with what enables the actions.      *)
Serving == Processable /\ Live
Streaming(s) == active[s] # "none" /\ Live
FairSpec ==
  /\ Spec
  /\ []<>~Serving \/ []<><<Server>>_vars
  /\ \A s \in Streams : []<>~Streaming(s) \/ []<><<Backend(s)>>_vars

-----------------------------------------------------------------------------
(* The types, and that the server's tables account for their entries.      *)
TypeOK ==
  /\ opened \in {0} \union Streams /\ uploading \subseteq Streams
  /\ block \in {0} \union Streams /\ profile \in [table : BOOLEAN, streams : Streams, work : Nat]
  /\ \A p \in {peer, reader} : p.limit \in 0 .. TableSize
  /\ odd \subseteq {"preface", "block", "request", "continued", "body", "goaway", "trailers"}
  /\ preface \in {"none", "few", "all"} /\ Len(buffer) <= 2
  /\ \A s \in Streams : streams[s] # None => streams[s] \in Stream
  /\ active \in [Streams -> {"none", "delayed", "open"}] /\ held \subseteq Streams
  /\ reply \in [Streams -> {"none", "open", "ended", "broken"}]
  /\ {closed, undefined, misread} \subseteq BOOLEAN
  /\ reading \in {"right", "lost", "wrong"}
  /\ \A c \in {decoder, encoder} : c.size = Weight(c.table)

(* A request that is answered has the whole body that its stream's DATA    *)
(* frames brought, those of other streams in between, and no frame after.  *)
RequestWhole ==
  \A s \in Streams : requests[s] # None => sent[s].end /\ requests[s] = sent[s].body

(* Headers are read as the client meant them, through all that it does     *)
(* with its table and its limit, although a new limit evicts nothing here: *)
(* as long as every block is in one frame.                                 *)
HeadersRead == misread => "continued" \in odd

(* Every block is read as the client meant it, those cut by a CONTINUATION *)
(* frame, too: receive_http2_frame keeps such a frame's octets for the     *)
(* stream and has hpack_decode put the frame's headers into the stream's.  *)
BlocksRead == ~misread

(* A client that keeps to the protocol is refused for none of its frames,  *)
(* but for the cases known: it leaves, its preface comes in pieces, its    *)
(* body is longer than max-post, "0 for unlimited", has trailers, it ends  *)
(* a stream before the stream's header block, a block goes on in a second  *)
(* frame, or it asks for what handle_http2_request does not take: CONNECT, *)
(* another scheme than https, or what a module says no to.                 *)
NeverRefused == closed => odd # {}

(* On each stream come the headers, then the body, and one end after all.  *)
WellFormed == \A s \in Streams : reply[s] # "broken"

(* The client reads a response's headers as they were meant, some of them  *)
(* alike, or like those of a response that is still streamed, whatever has *)
(* been evicted for them: as long as no limit was lowered below what the   *)
(* table holds or an entry needs, and no header was sent of a name whose   *)
(* lists still have an entry that was evicted, or one in freed memory.     *)
HeadersRight == reading # "wrong"

(* Every request is answered, unless its last frame has nine octets and    *)
(* waits in read_buffer for more to come.                                  *)
Waiting == Len(buffer) = 1 /\ Head(buffer).empty
AllAnswered ==
  \A s \in Streams :
    sent[s].end ~> (reply[s] \in {"ended", "broken"} \/ Waiting \/ closed \/ undefined)
=============================================================================
