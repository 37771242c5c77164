# Avuna HTTPD in TLA+

This directory holds a TLA+ model of Avuna HTTPD, the TLC runs that check it on
small instances and proofs, checked by TLAPS, of properties of its core for
instances of every size. Sources are named relative to the repository
(`src/network.c` is the file of the server itself, `modules/fcgi/...` a module).

Everything is run from this directory:

    tlc -config MCWriteBuffer_any.cfg MCWriteBuffer
    tlapm WriteBufferProofs.tla

## The system

Avuna HTTPD is a multi-threaded, event-driven web server. Per server there are
an accept thread for each binding, one wake thread and a number of workers, each
with an edge-triggered epoll. A connection (`struct conn`) belongs to one worker
for life and consists of sub-connections (`struct sub_conn`): the client's, and
those of backends that requests of this client use. The workers share no locks
for connections.

| Component | State | Operations | Interacts with | Hard about it |
|---|---|---|---|---|
| accept, wake and worker threads (`accept.c`, `wake_thread.c`, `network.c`) | `prepared_connections`, each conn's `manager`, each worker's epoll, its `pending_sub_conns`, the batch of events in hand, memory pools | `run_accept`, `wake_thread`, `run_work` | everything: they call the handlers | hand-over between threads, events of freed sub_conns, edges that come once |
| connection write buffer (`network.c`) | list of entries, `size`, `write_available`, `safe_close` | `buffer_push` + `trigger_write`, EPOLLOUT | kernel socket, TLS session; every response path | short writes, EAGAIN, the peer draining between two steps, TLS records owed |
| HTTP/1.1 server connection (`http_network.c`, `http.c`) | `read_buffer`, `currently_posting`, `currently_streaming` | `handle_http_server_read`, `http_stream_notify`, `delay_finish` | worker (reads), write buffer, modules, providers | byte stream cut anywhere, pipelining, POST bodies, streamed responses |
| FastCGI response stream (`modules/fcgi`, `chunked.c`) | frames received, `stdout_state`, `output`, `complete`, the chunked wrapper | `fcgi_read`, `fcgi_provision_read`, `chunked_stream_read`, `fcgi_on_closed` | backend, `http_stream_notify` | frames and reads cut anywhere, delayed headers, the backend's end |
| request pipeline and vhosts (`http_pipeline.c`, `modules/mount`, `modules/redirect`) | the request session's vhost, path, code, headers and body | `generateResponse`, `domeq`, `determine_vhost`, mount, redirect, `updateContentHeaders` | htdocs, reverse proxy | restarts, precedence |
| static files and cache (`modules/htdocs`, `cache.c`, `provider.c`) | the cache's entries, their headers and memory, the file system | from path to file, `cache_get`, `cache_add`, tags, providers | FastCGI, file system | shared by the workers, files that change under them |
| headers and MIME types (`headers.c`, `http_util.c`, `mime.c`) | a list of entries and a map of names | add, set, setoradd, prepend, delete | all responses; containers are shared through the cache | names with and without capitals |
| HTTP/2 (`http2*.c`) | streams, settings, frame buffer | frames in and out | HPACK, pipeline | stream states, limits |
| HPACK (`hpack.c`, `huffman.c`) | dynamic tables | decode, encode | HTTP/2 | both ends' tables must stay alike |
| reverse proxy (`modules/reverse_proxy`) | `forwarding_sessions`, `currently_forwarding` | forward, `handle_http_client_read` | backend, write buffer | see "Not modelled" |
| startup (`main.c`) | configuration, threads | load, start | all | run once |

What must hold of them: bytes come out in the order they went in, once and
without wakeups lost (write buffer); every byte of the client is consumed once,
requests are cut out at their boundaries, none is overlooked, responses are
never interleaved (HTTP/1.1); a streamed body is unbroken and never ends
regularly with a part missing, and the backend reads the request as it was
(FastCGI); a connection stays with one worker, nothing freed is used, what a peer
sends is read, what it leaves is reclaimed (threads); a path gets the file it
names, a revalidation the truth, a response headers that tell its end, and every
request an answer (pipeline, files, cache); two HPACK tables evolve alike, and a
stream gets its own frames (HTTP/2).

The library avuna-util (pools, `struct buffer`, lists, queues) is not part of the
repository; its operations are modelled by how the code uses them, as are the
kernel's sockets and epoll, OpenSSL, clients and backends. `map` marks these
definitions external.

## Modules

| Module | Models | Role |
|---|---|---|
| `ByteChannel` | what one direction of a connection promises | abstract |
| `WriteBuffer` | `trigger_write`, `write_buffer` and the events that drive it | detailed, implements `ByteChannel` without TLS |
| `WriteBufferProofs` | | theorems about `WriteBuffer` |
| `ResponseOrder` | the order of responses on one connection | abstract |
| `HttpConnection` | `handle_http_server_read`, `http_stream_notify` | detailed, implements `ResponseOrder` |
| `HttpConnectionProofs` | | theorems about `HttpConnection`, at its end those about where requests are cut |
| `StreamedBody` | what a client may rely on in a streamed body | abstract |
| `FcgiRequest` | `fcgi_provide_data`'s encoding of a request; a backend that reads it | pure, used by the next |
| `FcgiStream` | the request on its way, `fcgi_read` and what notifies the client of it | detailed, implements `StreamedBody` |
| `FcgiStreamProofs` | | theorems about `FcgiStream` |
| `ConnectionLife` | the threads, the event loop, what frees what | |
| `ConnectionLifeProofs` | | theorems about `ConnectionLife` |
| `Vhosts` | `domeq`, `determine_vhost`, mount points | pure, used by `Site` |
| `Documents` | from a path to a file, and whether it is admitted | pure, used by `Site` |
| `Headers` | the header container | pure, used by `Site` |
| `StaticCache` | `cache_get`, `cache_add` | pure, used by `Site` |
| `OnceCache` | what readers of a cache may rely on | abstract |
| `Site` | `generateResponse` and the handlers of mount, redirect and htdocs, by several workers | composes the five above, implements `OnceCache` |
| `SiteProofs` | | theorems about `Site` |
| `Hpack` | `hpack_decode`, `hpack_encode`, the tables under them, the octets of integers; RFC 7541's own peer | pure, used by the next |
| `Http2Connection` | `handle_http2_server_read`, `receive_http2_frame`, `http2_stream_notify` | composes frames, streams and both tables |
| `HpackProofs` | | theorems about `Hpack`'s integers, decoder and encoder |
| `Http2ConnectionProofs` | | theorems about `Http2Connection` |
| `Recursion` | | lemmas on first elements and recursive functions, for the other proofs |
| `MC...` | instances for TLC | |

### WriteBuffer

A byte is its position in the stream of bytes handed to `buffer_push`; an entry
of the buffer is the interval it still holds. `Push` is a handler's
`buffer_push` with the `trigger_write` behind it. Each iteration of
`trigger_write`'s loop is one step (`PlainWrite`, `PlainAgain`, `TlsWrite`,
`TlsWant`, `TlsAgain`, `WriteError`), since the peer reads between two of them; `Advance` is
the bookkeeping they share. The worker's treatment of one event (`network.c:106-203`)
is `HandleEvent` up to its read half, and `ReadHalf`: `ReadFails` if the peer has
shut its sending half or is gone, otherwise `ReadDone`, before which the handler may
push, and which closes the connection if the handler returns 1. Both closes free what
is still queued although the peer may go on reading: nothing empties a connection
first. That is what the code does and nothing in the repository says otherwise, so
`AllDelivered` excepts it by name (`ClosedForInput`), and the abstract channel is
closed from there on. `Register` is the epoll registration. The socket takes what
fits, answers EAGAIN when full and posts an edge when room appears after a refusal;
the TLS session flushes one record per call and keeps what did not fit.

The properties about loss and liveness are for connections without TLS. With it an
entry is dropped at `SSL_ERROR_WANT_WRITE` (`TlsWant`), so that all bytes arrive is
not true, and a session that failed is closed at the peer's next event, which may
never come.

Fairness (`FairSpec`): the worker runs its loop on and handles every edge, both
halves of its event, the fd comes to be registered, and, for `AllDelivered`, a peer
that stays connected goes on reading. The first two are the worker's unconditional
`while (1)`, the third is what "stays connected" has to mean for delivery.

### HttpConnection

A byte is its position in the stream a client sends; the client's script says
which request it belongs to and whether it is a line end (bodies consist of line
ends, the worst case). `Read` is a read event of any length; the handler's steps
(`PostComplete` ... `RequestRefused`) are separated where the code branches or
returns, and nothing interrupts a handler. In place of `match_length` the model
keeps `seen`, the first position the search still remembers: since the code's
matching of CR LF CR LF is exact from there on, a match at `p` is found exactly
if its four bytes lie at or behind `seen`. `Beyond` holds the characters the
build may have placed behind the array `newlines`, which the code reads one
element past its end after a match. The provider of a streamed response
(`DelayFinish`, `NotifyData`, `NotifyEnd`, `NotifyFailed`) is nondeterministic
here and detailed in FcgiStream.

Fairness: a handler runs to its end, a provider brings its stream to an end and
releases its header.

### FcgiRequest and FcgiStream

`FcgiRequest` is what `fcgi_provide_data` writes, octet by octet where octets
matter: the lengths of names and values in one or four octets, the length of a
record cut to two, the body in frames of at most 65535 octets, the parameters
derived from others (`fcgi_params`); they are a map, so of headers that have the
same name in the environment the last one is sent. The number of values of an
octet is a constant, so that every limit lies within reach of TLC. `BackendReads`
reads the frames as the FastCGI specification says and not as this code writes
them. `fcgi_writeParam` cuts the length of a record to 16 bits, so the backend
cannot read a parameter of 64 KiB and more: `RecordsFit` says that there is none,
and TLC evaluates it for the requests of its instance. REMOTE_ADDR is sent from an
array whose block has ended (`fcgi_provider.c:302-320`), which is taken to be
still there. In `FcgiStream`, `Provide`
writes the request and `BackendTakes` reads it before anything comes back.

The backend's standard output is a text of header bytes, the two halves of the
CR LF CR LF, and body bytes, cut into frames in every way. `ReadEvent` passes
what has arrived to `fcgi_read`, whose loop is one step per frame
(`SkipForeign`, `StderrFrame`, `StdoutHead`, `StdoutBody`, `EndFrame`) and whose
returns are `FramesRunOut`, and behind END_REQUEST `Flush` and `Drain`. `Notify`
is `http_stream_notify` with the provision's read function, through the chunked
wrapper for an HTTP/1.1 client. The backend is taken to speak the protocol: a
frame with another version, which ends in `on_closed` like a lost connection, is
not among its frames, and its headers hold no CR other than in line ends.

Fairness: the worker handles events and runs handlers to their ends.

### ConnectionLife

Connections, accept threads, the wake thread and the workers with their event
loops; a sub_conn is a connection with an end, `client` or `backend`, since an
HTTP/1.1 connection streams one response at a time. Handlers are reduced to what
they start, free and return. Reading memory that was freed, or a manager that
does not exist yet, is undefined in C: the model stops there with `undefined`
set, so that safety properties speak of everything up to that point.

Fairness: every thread goes on when it can. The liveness properties except
behaviours that become undefined at some point.

### Site and the modules it composes

`Site` has the request of each worker, the caches and the file system as state.
Steps are cut where another worker or a change of the file system can come in
between: `Generate` is `generateResponse` from its label `restart`, `Mount` and
`Redirect` the handlers of these virtual hosts, `Hit` ... `Finish` that of
htdocs (look into the cache, find the file, admit it, read it or call the
provider, store), `Update` the content headers, `Measure` and `SendHttp11` the two passes of
`header_serialize` and the freeing of the request, `SendHttp2` the same in one pass.
The file may change between any two of them. A body remembers whose memory its octets
are in; a header container is known by the request it was made for and shared through
the cache, and `LoseUpdate` is the outcome of two workers that add to one at the same
time. If another worker adds to a container between the two passes (`headers.c:125-142`),
the second writes behind the memory the first has measured: the response is `torn`,
or the server crashes. `Framed` allows for that only where an entry of a cache has
the headers.

`SentWith` is what goes out behind the headers. The answer to a HEAD over HTTP/1.1
has the body's length in that of the whole (`http.c:165`) but not its octets
(`:180`), so that many octets nobody has set are sent. A file of 1 MiB and more
becomes a stream that nothing starts: its header is sent and nothing else. `RightBody`
says so. The 302 of a redirect (`vhost_redirect.c:15-17`) and the 500 of a provider that
fails have no body and no header that says so, so a client on a connection that is kept
waits for their end: `Endless`, which `Framed` excepts by name.

An entry of the cache is found by a path that must still be there. `cache_add` takes
the path out of the pool of the request (`vhost_htdocs.c:399`, `cache.c:44`); that of an
HTTP/2 request is in its stream's pool (`http2_pipeline.c:100`) and one behind a
mount point that was stripped is the inside of an allocation (`vhost_mount.c:25-31`).
Such a path is `lent`: once its request is freed, a lookup may find the entry or miss
it (`StaticCache`). `OnceCache` therefore promises less for keys that were lent: what
is found fits the path, but next to what was found once there may be another entry, or
none. That workers that miss together all insert and
every later one gets the first entry is promised for the other keys.

A path that matches no mount point has the response generated anew with nothing
changed (`vhost_mount.c:41`), for ever. `Answered` is not true of it; the run's
requests have no such path, and the model does what the code does. The stat that fails
otherwise than for want of the file, like `realpath`'s and the second stat's failure,
is the 500 of `Documents`. Opening, measuring and reading a file is one step, so an
edit in the middle of a read is left out.

`Vhosts` has `domeq` as the code has it, with `strtok_r`'s state: the pattern
ends the comparison, and a `**` takes the first label that fits. `Documents`
has the splitting of the path in place, with its doubled slashes, and the walk
over its names with indices, links and what is left of the path behind a file.
The in-place split loses track behind a doubled slash (`vhost_htdocs.c:70-72`): a name
of one character there is joined with the next one, `//d/i` naming the file `di`
(`site_split`). `RightBody` and `NotModifiedRight` therefore compare the file with the
names between slashes for `Ordinary` paths, where root and path together have no
slash behind another one nor behind their first character; for every path it is
proved (`Answers`) that the file is one the segments of the split lead to.
`Headers` keeps list and map apart, its names being those the server uses, since
names are stored in lower case and looked up as given by some operations. These three have no state of their own
and are checked through `Site`'s properties, which compare with definitions of
their own (`LeadsTo`, `Values`).

Left out: gzip, which htdocs switches off (`if (0 && ...)`); the modules'
hooks, of which no module here has one; the headers Server and Connection.
A null pointer that is used sets `crashed` and stops the model
(a request without virtual host, HTTP/2 responses without a body).

Fairness: a worker goes on with its request, and a backend answers it.

### Hpack and Http2Connection

`Hpack` is operators only. Integers are octets, with the prefix's mask and the
size of a group as constants (`hpack_encode_integer`, `hpack_decode_integer`);
texts are not. A header is a record, a block of headers a sequence
of representations (`Indexed`, `Literal`, `Resize`); a context is
`struct hpack_ctx` with the dynamic table's newest entry first and the lookup
lists by name. `hpack_encode` gives a set of results, since the value of an
entry whose request's pool is freed may compare either way. `PeerDecodes` is
the other end as RFC 7541 defines it and not as this code does: a table from
which entries go as soon as they exceed the limit. That `queue_index` counts
from the entry pushed last is taken from the code's use of it as an HPACK index.

In `Http2Connection` a client that keeps to the protocol is composed with the
server's side of one connection. `DataFrame` ... `Unparsed` are the cases of
`receive_http2_frame`; `Request` is `handle_http2_request`, which returns 1, and has
the connection closed, for a request without method or path, with another scheme than
https (`http2_pipeline.c:101-103`) or to which a module says -1 (`:123-130`): one that
is not `fit`. `Respond` is the response to one that is: whole, streamed or
delayed. `Continuation` drops its block: `parse_frame` has filled `data.continuation`
(`http2.c:130-134`) and what `receive_http2_frame` decodes is `data.headers`
(`http2_pipeline.c:309`), at other places of the union and zero. So a request loses the
headers of every frame but its first, and the table what these add. `HeadersRead` is
therefore about blocks of one frame; `BlocksRead`, about all, is what
`h2_continuation` shows violated. `StreamStarts`, `StreamData`, `StreamEnds` are what
a backend makes of the last two. The client sends a frame when those before it
are handled, because it does not react to the server; `Processable` is the
loop's condition of more than nine octets. `odd` collects what the client does
that is legal and that this server does not take: GOAWAY, a preface in pieces, a
body longer than max-post, trailers, the end of a stream within its header block, a
block continued, a request that is not fit. `NeverRefused` says that there are no
others. `requests`, `reply`, `misread` and `reading` only record what
can be seen: `reading` is "lost" once the encoder's table no longer agrees with
the client's (`Kept`), after which `HeadersRight` says nothing. That happens when
SETTINGS lower the limit below what the table holds, since the encoder then
evicts nothing and the client does; once the limit is raised again its indices
point at the wrong entries. It happens, too, when an entry is gone whose
name's list still has one of its two nodes. Where the code goes on with a null, unset or freed pointer (a
response without a body, PING, a frame that `parse_frame` refuses),
`undefined` is set and the model stops. Left out: the length of frames, and so
`http2_send_data`'s loss of what exceeds one frame; a backend that sends
anything before its headers, which is `FcgiStream`'s subject.

Fairness: the worker handles what has come, a backend brings its stream to an
end. Both are written with their enabling conditions (`Serving`,
`Streaming`) in place of ENABLED, which says the same and is faster to check.

## Runs

| Run | Shows | Bounds |
|---|---|---|
| `wb_any` | type correctness, `InOrder`, `NoGap`, `Accounting`, `NoLostWakeup`, refinement of `ByteChannel`, delivery and closing, without TLS and with it (records owed, entries dropped), peers that send, shut their half or go away | 8 bytes, entries up to 4, socket of 3, records of up to 2: entries larger and smaller than the socket's room and than a record, several entries queued |
| `http_any` | `EachByteOnce`, `CutAtBoundaries`, `NoneOverlooked`, `OneAtATime`, `AllAnswered` | two or three requests with bodies of 2 bytes; clients that pipeline over everything, in reads of any length, and clients that await streamed responses, in reads of at least 3 bytes unless there is nothing more to send, with any character behind `newlines` |
| `fcgi_any` | `RequestRead`, `OneResponse`, `NotTruncated`, `BodyUnbroken`, `EndReleases`, `EndIsSeen`, for HTTP/1.0 and 1.1, a backend going away at any time, early standard error, a split header end | octets of 16 values, four requests with lengths at and behind each limit; 1 header byte, 3 body bytes, 1 frame of another kind |
| `life_threads` | `OneWorker`, `PendingAlive`, `NoLostEdge`, `Reclaimed`, `BackendWatched` | 2 connections, 2 accept threads, 2 workers, batches of 2, each peer sends once |
| `site_any` | `RightBody`, `NotModifiedRight`, `Framed`, `Answered`, refinement of `OnceCache` | 2 workers, 2 requests of 14 kinds (GET and HEAD, HTTP/1.1 and HTTP/2), 1 change of a file; three mount hosts, two of them one behind the other, a redirect, htdocs with and without a cache, files small, large, empty, linked, unreadable, broken or a provider's |
| `h2_frames` | `RequestWhole`, `HeadersRead`, `NeverRefused`, `WellFormed`, `HeadersRight`, `AllAnswered` | tables of 2 with three headers of size 1 and one of 3, masks of 1 and 3, groups of 2; a client that uses its table: 3 streams, 4 units of work (frames and representations); one that does not: 2 streams, 5 units |

`CutAtBoundaries`, `NoneOverlooked` and `AllAnswered` speak in `http_any` of the
clients that await streamed responses and read at least 3 bytes: that is the
condition under which the code finds a double newline cut by reads, and
`http_split_newline` shows what happens without it. Two requests are enough for
one worker to fill the cache while the other looks into it, or to revalidate
what the other has stored; one change of a file for what is cached to differ
from what is there. Two connections and two workers are enough for a
connection to be dealt to the wrong worker, two events for one to be stale, two
entries and a socket smaller than an entry for every branch of `trigger_write`.
A header larger than the table, one that fills it in part and a table of two
entries are enough for eviction by one and by several and for an index in
between; two streams for a frame to reach the wrong one.

Runs that show a disagreement between the code and what the repository says of
it (`findings` in `PROJECT.json`):

| Run | Disagreement |
|---|---|
| `http_split_newline` | a double newline over three short reads is never found |
| `fcgi_close` | a backend that goes away leaves the client's stream open for good |
| `life_stale` | an event of a freed sub_conn is handled in the same batch |
| `h2_max_post` | max-post 0 means unlimited, and refuses every body sent over HTTP/2 |
| `h2_continuation` | a CONTINUATION frame's octets are kept for the stream, and nothing is decoded |
| `site_split` | behind a doubled slash a name of one letter is joined with the next, where the comment splits at every slash |

More divergences came up that no run is spent on, since a line or two shows
each: a body that is still arriving is logged as "Invalid state! STREAM found"
(`http_network.c:160`, for `PostWaits`); a POST of exactly max-post bytes loses
its body (`http.c:55`, for `HasBody`); standard error ahead of the backend's
headers goes out ahead of the delayed header (`fcgi_provider.c:174`, allowed for
in `OneResponse`); an error page goes into the static cache and its text is freed
with the request it was made for (`vhost_htdocs.c:381`, for `Store`).

Deadlock checking is off everywhere, because all of these systems may stop: the
client has sent everything, or a connection is closed.

## Proofs

Everything below is proved for every value of the constants, from the named
assumptions of the modules only: sizes and numbers of workers and events are
positive, scripts and lists are sequences, the file system consists of files,
virtual hosts have names of their own and one of the three types, `None` is none
of the identities it is told apart from. The parts of each invariant were
checked by TLC, on the instance of the component's run, before they were proved.

| Theorem | States |
|---|---|
| `WriteBufferProofs`: `Invariance` | `Spec => []IInv` |
| `TypeCorrect`, `Order`, `Prefix`, `SizeIsBacklog`, `Wakeup` | `[]TypeOK`, `[]InOrder`, `[]NoGap`, `[]Accounting`, `[]NoLostWakeup` |
| `Refinement` | without TLS, `Spec => ChannelSpec` |
| `ConnectionLifeProofs`: `TypeCorrect` | `Spec => []TypeOK` |
| `StaysWithOneWorker`, `EdgesKept`, `WaitsSafely` | `[]OneWorker`, `[]NoLostEdge`, `[]PendingAlive` |
| `HttpConnectionProofs`: `TypeCorrect`, `EveryByteOnce` | `[]TypeOK`, `[]EachByteOnce` |
| `AnswersInOrder` | `Spec => OneAtATime`, the refinement of `ResponseOrder` |
| `CutsRequests`, `OverlooksNone` | under `LongReads`, `[]CutAtBoundaries`, `[]NoneOverlooked` |
| `HpackProofs`: `Integers` | an integer is decoded as it was encoded |
| `BlocksAreRead` | `ReadAsMeant`: a block that fits the client's table is decoded without error and as meant |
| `ResponsesAreRead` | `Readable`: what `hpack_encode` gives is read as meant by a client with the same entries, on the conditions that `Kept` names |
| `Http2ConnectionProofs`: `TypeCorrect` | `[]TypeOK` |
| `WholeRequests`, `RepliesWellFormed` | `[]RequestWhole`, `[]WellFormed` |
| `HeadersAreRead`, `ResponseHeadersAreRead` | `[]HeadersRead`, `[]HeadersRight` |
| `TakesItsClients` | if `MaxPost # 0`, `[]NeverRefused` |
| `FcgiStreamProofs`: `FormsOneResponse`, `EndsWhole` | `[]OneResponse`, `[]NotTruncated` |
| `StreamsBody` | `Spec => BodyUnbroken`, the refinement of `StreamedBody` |
| `TypeCorrect` | `[]TypeOK` |
| `RequestsRead` | under `RecordsFit`, `[]RequestRead` |
| `SiteProofs`: `CacheRefinement` | `Spec => CacheSpec`, the refinement of `OnceCache` |
| `TypeCorrect`, `FramesBodies` | `[]TypeOK`, `[]Framed` |
| `AnswersTheNames` | `[]Answers`: the file is one that the segments of the path lead to, however the code has split it |
| `AnswersThePath`, `NothingNewForThePath` | `[]RightBody` and `[]NotModifiedRight` |

Some theorems have a condition. `LongReads` asks of a client that awaits streamed
responses for reads of three bytes or more, as the search loses a double newline
spread over more entries of the buffer (`http_split_newline` shows that), and for
bodies shorter than max-post, as a longer one is read as requests; clients that
pipeline over everything are not restricted. `TakesItsClients` is about servers with a
max-post: without one `h2_max_post` shows that every body is refused. `RecordsFit`,
of `RequestsRead`, keeps to requests whose parameters are shorter than 64 KiB each;
the requests are otherwise any texts, of any octets, and a body of any length.
Other restrictions are part of the properties themselves, as the runs check them:
`RightBody` and `NotModifiedRight` compare with the names between slashes for
`Ordinary` paths only, and with what is sent for neither HEAD nor streams; `Framed`
excepts `Endless` and `torn` responses, `OnceCache` lent keys; `HeadersRead` is about
blocks of one frame, and `NeverRefused` names what is refused.

**WriteBuffer.** None of the safety properties is inductive alone. `IInv` adds: `Ahead`, the
bytes on the wire lie before the record the session owes and that before the
first entry (without it, the next write could repeat a byte); `Contiguous`, the
entries follow one another and, without TLS, join the wire's end to the last
byte pushed (needed for `NoGap` and `Accounting`); `LoopGuard`, the loop runs
only with a nonempty list; and `Owed`, which ties `write_available`, room and
edges together (needed for `NoLostWakeup`). Each action preserves each conjunct
by a lemma or step of its own; `Refinement` maps each step to a step of
`ByteChannel` or a stutter.

**ConnectionLife.** Types need `InHand`: a worker at a batch has an event. For
`OneWorker`, `IInv` adds `Places` (on its way to a worker a connection is in one
place, once, and its stage says which) and `Owned` (whatever a worker has was
dealt out, with that worker as its manager, if it has one). Only `Watch` gives a
worker something new, and what it gives nobody has; every other step leaves
every worker with no more than before (`Shrinks`, `WorkerShrinks`). `NoLostEdge`
needs that a worker without a batch in hand has no events (`NoneLeft`), or
`epoll_wait` would throw some away. `PendingAlive` needs `Settled`, on top of
`IInv`: a batch has one event of a sub_conn at most; who has a backend that
waits has no event of its connection left; a backend with an event left belongs
to a response being streamed or to a connection that is gone. Together: the
handler that could free a waiting backend would have to be that of an event
which, by `OneWorker`, is in the same batch, where there is none.

**HttpConnection.** `IInv` joins what is cut out with what is buffered: `Chained`,
the intervals in `popped` and those in `read_buffer` follow one another from the
first byte to the last one received (`EachByteOnce` is its first half); `Scanned`,
the search is within what is buffered; `Alternate`, a body is awaited only while no
response is open, and a header is searched for only while neither is so; `InTurn`,
whatever is written, awaited or streamed belongs to a request whose first byte was
cut out, and a body that is awaited to one behind all that were answered (the
mapping to `ResponseOrder` needs it). For the boundaries, `BInv` adds where the cut lies: `Aligned`, at the end of
a request or of the header whose body is awaited; `Unanswered`, the request in
hand has no end yet; `Heard`, such a client sends nothing behind a request it
waits for; `LongPieces` and `LastPiece`, what the entries of the buffer look like,
from which a double newline spans three entries at most; `Ahead`, the end of the
header or the body that comes next is still to arrive, or not yet searched. That the first double newline behind a cut is that of the
request, although bodies consist of line ends, rests on `newlines` having none
shorter within a header and on the positions `Last`, a recursive function.

**Http2Connection.** `IInv` is `Types`; `Queue`, the frames that wait are of
streams the client has opened, and only one without a payload has another behind
it; `EndsOnce`, the end of a request is the last that comes of it and its response
begins behind that; `Bodies`, as long as nothing is undefined, the body handled and
the frames of it that wait add up to what was sent; `Replies`, `active` agrees with
what the client has of the response, which is never out of order; and `RequestWhole`
itself. Each kind of frame is shown to keep them (`Handles`), whatever its stream.

`HeadersRead` needs `Reads`: as long as no block was cut (`Uncut`), the server's table
and the client's are in `Decoding`, or a block is on its way and they were before it, and the block is one
that this table allows. `Decoding` says that the server counts what it holds
(`Context`) and that the client's table is the server's without some of the oldest
entries (`Behind`): the client evicts as soon as it lowers its limit, the server
when the next entry comes or an index is looked up. An entry that is added evicts
on both sides until it fits, and what the server keeps of the older ones is at
least what the client keeps, since the client's limit is never above the server's
(`AddBehind`). An index the client may use is thus one that the server has, with
the same name and value (`LooksUp`), provided that it is read as it was written:
`Integers`, by induction over the octets. `BlocksAreRead` is induction over the
block. For `NeverRefused`, `Tolerates` adds `Orderly`, as long as the client has
done nothing odd: each frame that has come is welcome where it is going
(`Welcome`), which no CONTINUATION is, and HEADERS that end a stream are fit; streams
whose body is not complete are open and their requests fit, unless their block goes on
(`Receives`); no body exceeds max-post. `EndsOnce` gives that a
stream that is answered, and perhaps freed, has no frame left, `Bodies` that the
length checked is that of the body sent, and `BlocksAreRead` that no block is in
error.

`HeadersRight` needs `Compressing`: the encoder counts what it holds, the client's
table has the same entries in the same order until `reading` is "lost" (`Mirrors`),
and the lists by name account for the table (`Lists`). They say that the entries of
the table are numbered without a gap up to the one pushed last, so that the
distance to that one is the index; that each entry has its nodes in the list of its
name; and that a node whose entry is in the table says that entry's value. An
eviction takes one of the two nodes of an entry away and leaves its twin, which
never goes again: what `Kept` finds in order behind the last header of a block was
in order before each of them (`KeptBefore`). So each header by itself is a form
that names an entry the client has, or a literal that both add and evict the same
for (`FormsMean`, `MeantIsRead`, `AddAlike`); `ResponsesAreRead` is induction over
the headers. Sizes in SETTINGS that wait are those a client may ask for (`Sizes`);
`TypeOK` needs, beyond all that, only `Kinds`.

**FcgiStream.** `IInv` is `Types`; `Flow`, the positions in the pieces sent, in
`output`, in the frames read and in those on their way follow one another
(`Numbered` says where each frame begins); `Begun`, the body sent is a prefix of
what was produced; `Ends`, who has seen the end and what is then empty; `Heads`,
until the headers have ended the client gets standard error only, and then a
header that agrees with `chunked`; `LastOf`, a last chunk is sent only when there
is no more to come; and `OneResponse`. `Body` and `BodyIn` are recursive functions; that they
exist and what one more element adds to them comes from `Iterates` and `Inductive`.

For the request, `Unread` says that what waits for the backend is `fcgi_request` of
the request at hand; the rest is about that operator. A length that was written is
read back, in one octet or in four (`WidthOf`, `LengthRead`), so at the beginning of
a record the backend finds that record's name and value and the beginning of the
next (`RecordRead`). `Laid` says at which octet each record begins once the frames
are put together (`FlattenLays`), and `ParamsRead` goes over the records from the
last to the first. The frames are in the order of their kinds, so those of a kind
are an interval of them (`WireSorted`, `AtInterval`). `StdinFramesAre` says where each
frame of the body begins and ends, and that there are enough of them (`Enough`);
`BodyRead` joins them. That the digits of a number and the parameters from an
octet on exist as functions comes from `Descends`.

**Site.** For the cache: an entry is never changed, and a cache only grows
(`Continues`, `CachesContinue`). What is inserted goes to the list that lives under its
path, or opens one (`AddLists`), so that a path that was never lent has one list
(`Alone`) with its entries in the order of insertion (`Listing`); of those the first
that fits stays the first (`ServingStays`, `AnswersStay`). Each step adds an entry or
leaves the cache alone (`StepAdds`), hence is a step of `OnceCache` or a stutter
(`StepAnswers`). What else may end, the memory of a lent key, is about other keys.

For the responses, `IInv` is `Basics`; `Working`, what a worker has at each label;
`Apart`, the containers of two requests are apart; `Kept`, what an entry of a cache
says of itself; `Framed` and `Answers`. A header container is a request's own and
silent about the end of a body (`Owned`, `Fresh`), or that of a cached entry, and then
every length in it is that entry's (`Shared`, `Entered`, `Says`), so that what other
workers add, or lose, changes nothing; what is measured can differ from what is
written only for these. `Traced` carries the path from `Resolve` to the body, through
the cache as well, since an entry carries its path; `Validated` ties a 304 to the
entry that said so. `Answers` is about the segments that the code has split the path
into.

That these are the names between the slashes is proved of ordinary paths
(`OrdinaryLeads`). The loop goes on over a text that it changes: `CuttingDescends`
and `SplittingDescends` say that what is left gets shorter, so that both recursive
functions are what their equations say (`PiecesCut`, `SplitSteps`). In a text without
doubled slashes each step puts a mark where a slash was and nothing else (`PlainSplit`),
by induction along that descent; the marked text falls into the same pieces
(`SamePieces`, `PlainSegments`), and the file's names are a beginning of them, or
all with an index (`LedWords`).

**Recursion.** A set of numbers has a first element (`FirstExists`), and `CHOOSE`
finds it (`FirstIsChosen`, `ChosenIsFirst`); `Inductive` and `Iterates` are
induction over an interval and the existence of a function defined by recursion
over it, stated for sets and functions in place of operators; `Descends` is that for
recursion towards elements nearer to a stop, and `DescentInduces` induction along it.

Every safety property of a passing run is stated by a theorem. Only model-checked:
liveness, which is out of the prover's reach, and the disagreements of the violated
runs.

## Not modelled

- The reverse proxy, because it cannot complete a request in any configuration:
  with its cache, which is on by default, the handler looks at the type of a
  body that is not there (`vhost_reverse_proxy.c:144`); without, the first
  answer of the backend is read through `sub_conn->extra`, which is set only in
  a comment (`reverse_network.c:19`). The sub_conn's pool is a child of the
  request's, too, and freed when that is answered. There is no behaviour to
  specify that the code could be compared with.
- Huffman coding: a constant table and two pure functions. Its decoder takes,
  of the fifth octet of its window, the low bits for the high ones
  (`huffman.c:1571`), which matters to codes of more than 24 bits; a unit test
  shows that better than a model.
- Startup and configuration: run once, before any connection. What they set up
  appears as CONSTANTS.
- A file that is edited while it is read, and what is left of the array that
  REMOTE_ADDR points to: the first is between the operating system's calls of one
  function, the second up to the compiler.
- gzip: switched off in htdocs, and the stream overlay is used nowhere else but
  in the reverse proxy.
- The TLS handshake, SNI and ALPN: the event that completes a handshake is not
  looked at further (`network.c:138`); OpenSSL's part is not in the repository.
- The lengths of HTTP/2 frames, and so `http2_send_data`'s loss of what exceeds
  one frame (`http2_network.c:46`); the octets of HPACK's texts.
- MIME tables, the text of headers and log lines.

What a next step would take up: HTTP/2 frames with lengths, and the handshake.
