-------------------------------- MODULE Site ---------------------------------
(***************************************************************************)
(* From a request to its response: generateResponse                        *)
(* (src/src/http_pipeline.c) with the virtual hosts, mount points and      *)
(* redirects it calls, the files of htdocs virtual hosts                   *)
(* (src/modules/htdocs) and the static cache the workers share.            *)
(*                                                                         *)
(* A worker handles one request at a time; workers share the caches, the   *)
(* headers of cached responses and the file system, which changes under    *)
(* them.  A step is what a worker does between two looks at one of these.  *)
(*                                                                         *)
(* A header container is known by the number of the request it was made    *)
(* for: a cached response hands its own to every request it answers.  The  *)
(* tag of a body (its MD5) and its length are represented by the body's    *)
(* content.  The modules' hooks are left out: no module here has one of    *)
(* those called in these functions.  Gzip is left out as well: it is       *)
(* switched off in htdocs, and only marks the entries of its cache.  So    *)
(* are the headers Server and Connection, which are added at each start    *)
(* and are the same for all.                                               *)
(***************************************************************************)
EXTENDS Vhosts, Documents, Headers, Integers

CONSTANTS
  Workers,
  Sites,        \* server->vhosts: [name, hosts, type, and what its type needs]
  Disk,         \* the file system at first
  Volatile,     \* files that may be edited, removed and put there again
  Asked,        \* requests: [method, proto, host, path, gzip, tag: If-None-Match]
  Paths,        \* the paths whose entries in the caches are watched
  MaxRequests,  \* bound: requests made
  MaxChanges    \* bound: changes to files

INSTANCE StaticCache

(* What a file is, and what a body may be.                                 *)
MimeTypes == {Disk[f].type : f \in DOMAIN Disk}
Files ==
  [kind : {"dir", "file", "denied", "broken"}, readable : BOOLEAN, outside : BOOLEAN, linked : BOOLEAN,
   size : {"empty", "small", "zippable", "large"}, type : MimeTypes, ver : Nat]

Contents ==
  [file : DOMAIN Disk, ver : Nat] \union [page : {"empty", "dynamic", "403", "404", "500"}]
Bodies ==
  [kind : {"data", "stream"}, content : Contents,
   size : {"empty", "small", "zippable", "large", "unknown"},
   type : MimeTypes \union {"text/html", "application/octet-stream_id", None}, pool : Nat]

Listed(s) == s \in Seq({s[i] : i \in DOMAIN s})

ASSUME SiteAssumption ==
  /\ Listed(Sites)
  /\ \A i \in DOMAIN Sites :
       /\ Sites[i].name # None /\ Sites[i].type \in {"htdocs", "mount", "redirect"}
       /\ Sites[i].type = "htdocs" =>
            Listed(Sites[i].htdocs) /\ Sites[i].htdocs # <<>> /\ Listed(Sites[i].index)
       /\ Sites[i].type = "mount" =>
            /\ Listed(Sites[i].mounts)
            /\ \A k \in DOMAIN Sites[i].mounts : Listed(Sites[i].mounts[k].path)
  /\ \A i, j \in DOMAIN Sites : Sites[i].name = Sites[j].name => i = j
  /\ \A r \in Asked : Listed(r.path)
  /\ Disk \in [DOMAIN Disk -> Files] /\ Volatile \subseteq DOMAIN Disk
  /\ None \notin Bodies
  /\ MaxRequests \in Nat /\ MaxChanges \in Nat

VARIABLES
  files,    \* the file system
  changes,  \* how often it has changed
  cache,    \* by virtual host: the entries of its cache
  headers,  \* by request: the container made for it
  asked,    \* how many requests have come
  at,       \* by worker: where it is
  rs,       \* by worker: its request_session
  reply,    \* the response sent by the last step, if it sent one
  crashed   \* a pointer that is not set has been used

vars == <<files, changes, cache, headers, asked, at, rs, reply, crashed>>

(* The virtual hosts with a cache.                                         *)
Caching ==
  {Sites[i].name : i \in {j \in DOMAIN Sites : Sites[j].type = "htdocs" /\ Sites[j].scache}}
Version(names) == [file |-> names, ver |-> files[names].ver]
Page(code) == [page |-> code]
Freed == [page |-> "freed"]
Uninitialised == [page |-> "uninitialised"]

Init ==
  /\ files = Disk /\ changes = 0
  /\ cache = [v \in Caching |-> cache_new]
  /\ headers = <<>> /\ asked = 0
  /\ at = [w \in Workers |-> "idle"]
  /\ rs = [w \in Workers |-> None]
  /\ reply = None /\ crashed = FALSE

-----------------------------------------------------------------------------
(* A body is [kind, content, size, type, pool]: pool is 0 if its octets    *)
(* live as long as the body, else the request they are freed with.         *)
DataBody(content, size, type, pool) ==
  [kind |-> "data", content |-> content, size |-> size, type |-> type, pool |-> pool]

(* Slip: the body is not initialised.                                      *)
EmptyBodyUnset == None

EmptyBody == DataBody(Page("empty"), "empty", None, 0)

(* The requests whose memory is there: those a worker is at.               *)
Held == {rs[w].id : w \in {v \in Workers : at[v] # "idle"}}

(* The octets a body has by now.                                           *)
Octets(body) == IF body.pool \in {0} \union Held THEN body.content ELSE Freed

vhost(w) == Vhost(Sites, rs[w].vhost)
own(w) == headers[rs[w].headers]

(* Worker w goes on at a label with its session and headers changed.       *)
Goes(w, label, session, hdrs) ==
  /\ at' = [at EXCEPT ![w] = label]
  /\ rs' = [rs EXCEPT ![w] = session]
  /\ headers' = [headers EXCEPT ![rs[w].headers] = hdrs]

Quiet == reply' = None /\ UNCHANGED <<files, changes, asked, crashed>>

(* The error page's text is in the request's memory even if its body is    *)
(* not.  A virtual host's page of its own is only named, in a Location.    *)
generateBaseErrorPage(session, code) ==
  [session EXCEPT !.code = code,
                  !.body = DataBody(Page(code), "small", "text/html", session.id)]

ErrorHeaders(site, hdrs, code) ==
  IF code \in DOMAIN site.error_pages
    THEN header_add(hdrs, "Location", site.error_pages[code]) ELSE hdrs

Fails(w, code) ==
  Goes(w, "tag", generateBaseErrorPage(rs[w], code), ErrorHeaders(vhost(w), own(w), code))

-----------------------------------------------------------------------------
(* A request comes: handle_http_server_read or handle_http2_request.  Its  *)
(* path is lent if a pxfer to the cache would not take it along: it is not *)
(* an allocation of the request's pool, but of the stream's headers.       *)
Receive(w, r) ==
  /\ at[w] = "idle" /\ ~crashed /\ asked < MaxRequests
  /\ asked' = asked + 1
  /\ headers' = Append(headers, header_new)
  /\ rs' = [rs EXCEPT ![w] =
       [id |-> asked + 1, method |-> r.method, proto |-> r.proto, path |-> r.path,
        lent |-> r.proto = "HTTP/2", gzip |-> r.gzip, tag |-> r.tag,
        vhost |-> determine_vhost(Sites, r.host), code |-> "200", headers |-> asked + 1,
        body |-> None, static |-> TRUE, names |-> <<>>, measured |-> <<>>]]
  /\ at' = [at EXCEPT ![w] = "generate"]
  /\ reply' = None
  /\ UNCHANGED <<files, changes, cache, crashed>>

(* generateResponse from its label "restart" to the virtual host's handler. *)
Generate(w) ==
  /\ at[w] = "generate" /\ ~crashed
  /\ IF rs[w].vhost = None
       THEN Goes(w, "update", generateBaseErrorPage(rs[w], "500"), own(w))
       ELSE Goes(w, vhost(w).type, [rs[w] EXCEPT !.body = None], own(w))
  /\ UNCHANGED cache /\ Quiet

(* handle_vhost_mount always has the response generated anew.  The path    *)
(* may point into its copy then, or be the copy.                           *)
Mount(w) ==
  /\ at[w] = "mount" /\ ~crashed
  /\ LET next == Mounted(Sites, vhost(w), rs[w].path) IN
     Goes(w, "generate",
          [rs[w] EXCEPT !.vhost = next.vhost, !.path = next.path,
                        !.lent = IF next.copied THEN next.path # rs[w].path ELSE @], own(w))
  /\ UNCHANGED cache /\ Quiet

Redirect(w) ==
  /\ at[w] = "redirect" /\ ~crashed
  /\ Goes(w, "send", [rs[w] EXCEPT !.code = "302"],
          header_add(own(w), "Location", vhost(w).redir))
  /\ UNCHANGED cache /\ Quiet

-----------------------------------------------------------------------------
(* handle_vhost_htdocs.                                                    *)
(* Slip: whatever tag is asked about is taken to be the body's.            *)
NotModifiedAny(body, code, tag, asked_tag) ==
  body # None /\ body.size # "empty" /\ code = "200" /\ asked_tag # None

NotModified(body, code, tag, asked_tag) ==
  body # None /\ body.size # "empty" /\ code = "200" /\ tag = asked_tag

(* check_cache: a hit brings its code, its body and its headers.           *)
Cached(session, osc) ==
  IF NotModified(osc.body, osc.code, osc.etag, session.tag)
    THEN [session EXCEPT !.headers = osc.headers, !.code = "304", !.body = None]
    ELSE [session EXCEPT !.headers = osc.headers, !.code = osc.code, !.body = osc.body]

check_cache(w) ==
  IF vhost(w).scache THEN cache_get(cache[rs[w].vhost], rs[w].path, rs[w].gzip, Held)
                     ELSE {None}

(* Slip: the content headers are left as they are.                         *)
HandledBare(session) == "send"

(* After the handler: updateContentHeaders if there is a body.             *)
Handled(session) == IF session.body = None THEN "send" ELSE "update"

Hit(w) ==
  /\ at[w] = "htdocs" /\ ~crashed
  /\ \E osc \in check_cache(w) \ {None} : rs' = [rs EXCEPT ![w] = Cached(rs[w], osc)]
  /\ at' = [at EXCEPT ![w] = Handled(rs'[w])]
  /\ UNCHANGED <<headers, cache>> /\ Quiet

Miss(w) ==
  /\ at[w] = "htdocs" /\ ~crashed
  /\ None \in check_cache(w)
  /\ Goes(w, "resolve", [rs[w] EXCEPT !.body = EmptyBody], own(w))
  /\ UNCHANGED cache /\ Quiet

Malformed(path) == path = <<>> \/ Head(path) # "/"

ResolvePath(w) ==
  /\ at[w] = "resolve" /\ ~crashed
  /\ \/ Malformed(rs[w].path) /\ Fails(w, "500")
     \/ /\ ~Malformed(rs[w].path)
        /\ LET goal == Resolve(files, vhost(w), rs[w].path) IN
           \/ goal.found = "error" /\ Fails(w, goal.code)
           \/ /\ goal.found = "redirect"
              /\ Goes(w, "update", [rs[w] EXCEPT !.code = "302"],
                      header_add(own(w), "Location", goal.path))
           \/ /\ goal.found = "file"
              /\ Goes(w, "admit", [rs[w] EXCEPT !.names = goal.names], own(w))
  /\ UNCHANGED cache /\ Quiet

(* The file may have changed since it was found, here and at Read.         *)
Admit(w) ==
  /\ at[w] = "admit" /\ ~crashed
  /\ \/ \E code \in Admitted(files, vhost(w), rs[w].names) \ {"200"} : Fails(w, code)
     \/ /\ "200" \in Admitted(files, vhost(w), rs[w].names)
        /\ Goes(w, IF files[rs[w].names].type \in vhost(w).providers THEN "provide" ELSE "read",
                [rs[w] EXCEPT !.body.type = files[rs[w].names].type], own(w))
  /\ UNCHANGED cache /\ Quiet

(* The provider: a stream whose headers come later, or none.               *)
Provide(w) ==
  /\ at[w] = "provide" /\ ~crashed
  /\ LET none == [rs[w] EXCEPT !.static = FALSE, !.code = "500", !.body = None]
         body == [kind |-> "stream", content |-> Page("dynamic"), size |-> "unknown",
                  type |-> "application/octet-stream_id", pool |-> 0] IN
     \/ Goes(w, "tag", none, ErrorHeaders(vhost(w), own(w), "500"))
     \/ Goes(w, "tag", [rs[w] EXCEPT !.static = FALSE, !.body = body], own(w))
  /\ UNCHANGED cache /\ Quiet

check_client_cache(site, type, hdrs) ==
  IF site.max_age = 0 THEN hdrs
  ELSE header_add(hdrs, "Cache-Control",
                  IF type \in site.cache_types THEN "max-age, no-cache" ELSE "max-age")

(* open, lseek and the reads are one step: what an edit does to the file   *)
(* between them is left out.                                               *)
Read(w) ==
  /\ at[w] = "read" /\ ~crashed
  /\ LET type == rs[w].body.type
         names == rs[w].names
         hdrs == check_client_cache(vhost(w), type, own(w))
         body == [kind |-> IF files[names].size = "large" THEN "stream" ELSE "data",
                  content |-> Version(names), size |-> files[names].size,
                  type |-> type, pool |-> 0] IN
     \/ /\ ~Readable(files, names)
        /\ Goes(w, "tag", generateBaseErrorPage(rs[w], "500"),
                ErrorHeaders(vhost(w), hdrs, "500"))
     \/ /\ Readable(files, names)
        /\ Goes(w, "tag", [rs[w] EXCEPT !.body = body], hdrs)
  /\ UNCHANGED cache /\ Quiet

(***************************************************************************)
(* The label return_error: the tag, the answer to If-None-Match and the    *)
(* cache.  maxCache is set nowhere: it is always 0.                        *)
(***************************************************************************)
Tagged(s) == s.body # None /\ s.body.kind = "data" /\ s.body.size # "empty" /\ s.code = "200"
Activated(s) == Tagged(s) /\ s.tag = s.body.content
Unmodified(s) == [s EXCEPT !.code = "304", !.body = None]

WithTag(s, hdrs) == IF Tagged(s) THEN header_add(hdrs, "ETag", s.body.content) ELSE hdrs

should_gzip(s) ==
  s.gzip /\ s.body # None /\ (s.body.kind = "stream" \/ s.body.size = "zippable")

maxCache == 0
Cacheable(w) ==
  /\ rs[w].static /\ vhost(w).scache /\ rs[w].body.kind = "data"
  /\ maxCache <= 0 \/ maxCache < vhost(w).max_size

scache(s) ==
  [request_path |-> s.path, key |-> IF s.lent THEN s.id ELSE 0, list |-> 0,
   content_encoding |-> should_gzip(s), etag |-> s.body.content,
   code |-> s.code, headers |-> s.headers, body |-> s.body]

Store(w) ==
  /\ at[w] = "tag" /\ ~crashed
  /\ Cacheable(w)
  /\ \E entries \in cache_add(cache[rs[w].vhost], scache(rs[w]), Held) :
       cache' = [cache EXCEPT ![rs[w].vhost] = entries]
  /\ LET answer == IF Activated(rs[w]) THEN Unmodified(rs[w]) ELSE rs[w]
         typed == header_setoradd(WithTag(rs[w], own(w)), "Content-Type", rs[w].body.type) IN
     Goes(w, Handled(answer), answer,
          header_setoradd(typed, "Content-Length", rs[w].body.content))
  /\ Quiet

Finish(w) ==
  /\ at[w] = "tag" /\ ~crashed
  /\ ~Cacheable(w)
  /\ LET answer == IF Activated(rs[w]) /\ ~rs[w].static THEN Unmodified(rs[w]) ELSE rs[w] IN
     Goes(w, IF answer.body # None /\ answer.body.size = "unknown" THEN "delayed"
             ELSE Handled(answer),
          answer, WithTag(rs[w], own(w)))
  /\ UNCHANGED cache /\ Quiet

-----------------------------------------------------------------------------
(* The headers of a provider's response have come; see FcgiStream.         *)
BackendHeaders(w) ==
  /\ at[w] = "delayed" /\ ~crashed
  /\ Goes(w, "update", rs[w], own(w))
  /\ UNCHANGED cache /\ Quiet

updateContentHeaders(s, hdrs) ==
  LET typed == IF s.body.type = None THEN hdrs
               ELSE header_setoradd(hdrs, "Content-Type", s.body.type) IN
  IF s.body.size # "unknown" THEN header_setoradd(typed, "Content-Length", s.body.content)
  ELSE IF s.proto = "HTTP/1.1" THEN header_setoradd(typed, "Transfer-Encoding", "chunked")
  ELSE typed

Update(w) ==
  /\ at[w] = "update" /\ ~crashed
  /\ Goes(w, "send", rs[w], updateContentHeaders(rs[w], own(w)))
  /\ UNCHANGED cache /\ Quiet

(* Nothing orders two workers that add to the headers of one entry: what   *)
(* one of them links in may be lost.                                       *)
LoseUpdate(w) ==
  /\ at[w] = "update" /\ ~crashed
  /\ \E v \in Workers \ {w} : at[v] = "update" /\ rs[v].headers = rs[w].headers
  /\ Goes(w, "send", rs[w], own(w))
  /\ UNCHANGED cache /\ Quiet

(***************************************************************************)
(* What is sent with the headers, None for nothing.  A stream's octets are *)
(* left to its notifications: see FcgiStream; for a file nobody makes any. *)
(* HTTP/1.1 leaves a body out of the answer to a HEAD, but not its length  *)
(* out of that of the answer.                                              *)
(***************************************************************************)
SentWith(s) ==
  IF s.body = None \/ s.body.kind = "stream" \/ s.body.size = "empty" THEN None
  ELSE IF s.method = "HEAD" /\ s.proto = "HTTP/1.1" THEN Uninitialised
  ELSE Octets(s.body)

(* The request's memory is freed, its headers with it unless an entry of a *)
(* cache has them.                                                         *)
InCache(id) ==
  \E v \in Caching : \E i \in DOMAIN cache[v] : cache[v][i].headers = id

Done(w, hdrs, torn) ==
  /\ reply' = [session |-> rs[w], headers |-> hdrs, torn |-> torn, octets |-> SentWith(rs[w])]
  /\ at' = [at EXCEPT ![w] = "idle"]
  /\ rs' = [rs EXCEPT ![w] = None]
  /\ headers' = [i \in DOMAIN headers |->
       IF i \in {rs[w].id, rs[w].headers} /\ ~InCache(i) THEN header_new
       ELSE IF i = rs[w].headers THEN hdrs ELSE headers[i]]
  /\ UNCHANGED crashed

Crash == crashed' = TRUE /\ reply' = None /\ UNCHANGED <<headers, at, rs>>

(* header_serialize looks at the entries twice: for their length, and to   *)
(* write them to memory of that length.                                    *)
Measure(w) ==
  /\ at[w] = "send" /\ ~crashed /\ rs[w].proto = "HTTP/1.1"
  /\ Goes(w, "write", [rs[w] EXCEPT !.measured = own(w).list], own(w))
  /\ UNCHANGED cache /\ Quiet

(* If the entries are others by then, it writes behind that memory, and    *)
(* what is sent is cut or has more in it: the response is torn, if the     *)
(* server outlives it.  log_request_session reads the name of the virtual  *)
(* host.                                                                   *)
SendHttp11(w) ==
  /\ at[w] = "write" /\ ~crashed
  /\ LET torn == own(w).list # rs[w].measured IN
     \/ (rs[w].vhost = None \/ torn) /\ Crash
     \/ rs[w].vhost # None /\ Done(w, own(w), torn)
  /\ UNCHANGED <<files, changes, cache, asked>>

(* Besides, send_request_session_http2 needs a body.  It encodes the       *)
(* headers in one go.                                                      *)
SendHttp2(w) ==
  /\ at[w] = "send" /\ ~crashed /\ rs[w].proto = "HTTP/2"
  /\ LET started == header_prepend(own(w), ":status", rs[w].code)
         hdrs == header_del(header_del(started, "connection"), "transfer-encoding") IN
     \/ (rs[w].vhost = None \/ rs[w].body = None) /\ Crash
     \/ rs[w].vhost # None /\ rs[w].body # None /\ Done(w, hdrs, FALSE)
  /\ UNCHANGED <<files, changes, cache, asked>>

-----------------------------------------------------------------------------
Put(f) ==
  [g \in DOMAIN files \union {f} |->
     IF g = f THEN [Disk[f] EXCEPT !.ver = changes + 1] ELSE files[g]]

Change(f) ==
  /\ changes < MaxChanges /\ ~crashed
  /\ changes' = changes + 1
  /\ \/ files' = Put(f)
     \/ f \in DOMAIN files /\ files' = [g \in DOMAIN files \ {f} |-> files[g]]
  /\ reply' = None
  /\ UNCHANGED <<cache, headers, asked, at, rs, crashed>>

Work(w) ==
  \/ Generate(w) \/ Mount(w) \/ Redirect(w) \/ Hit(w) \/ Miss(w) \/ ResolvePath(w)
  \/ Admit(w) \/ Provide(w) \/ Read(w) \/ Store(w) \/ Finish(w) \/ BackendHeaders(w)
  \/ Update(w) \/ LoseUpdate(w) \/ Measure(w) \/ SendHttp11(w) \/ SendHttp2(w)

Next ==
  \/ \E w \in Workers : Work(w) \/ \E r \in Asked : Receive(w, r)
  \/ \E f \in Volatile : Change(f)

Spec == Init /\ [][Next]_vars

(* The fairness of a worker: it never stops at a request.  Work(w) can be  *)
(* done whenever the worker is not idle.  Backends answer: BackendHeaders. *)
Works(w) == []<>(at[w] = "idle" \/ crashed) \/ []<><<Work(w)>>_vars
FairSpec == Spec /\ \A w \in Workers : Works(w)

-----------------------------------------------------------------------------
(* Properties.                                                             *)
Labels == {"idle", "generate", "mount", "redirect", "htdocs", "resolve", "admit",
           "provide", "read", "tag", "delayed", "update", "send",
           "write"}

(* Types: a busy worker has a session, headers that exist and, where a     *)
(* body is needed, one.                                                    *)
TypeOK ==
  /\ at \in [Workers -> Labels] /\ crashed \in BOOLEAN
  /\ asked \in 0 .. MaxRequests /\ changes \in 0 .. MaxChanges
  /\ DOMAIN headers = 1 .. asked
  /\ \A w \in Workers :
       IF at[w] = "idle" THEN rs[w] = None
       ELSE /\ rs[w].id \in 1 .. asked /\ rs[w].headers \in 1 .. asked
            /\ rs[w].vhost \in {None} \union {Sites[i].name : i \in DOMAIN Sites}
            /\ at[w] \in {"resolve", "admit", "read", "update", "delayed"} => rs[w].body # None

(* The names of a path below a document root: what is between slashes.     *)
PathNames(htdocs, path) == Pieces(Below(htdocs, path), "/")

(* A path leads to the file it names, whatever follows its name, or to an  *)
(* index of the directory.                                                 *)
LeadsTo(site, path, file) ==
  LET names == PathNames(site.htdocs, path) IN
  \/ Prefixes(file, names)
  \/ \E i \in DOMAIN site.index : file = Append(names, site.index[i])

(* No slash follows another, nor the first character of the whole.         *)
Ordinary(htdocs, path) ==
  LET text == Below(htdocs, path) IN
  /\ \A i \in DOMAIN text : text[i] # NUL
  /\ \A i \in DOMAIN text : text[i] = "/" => i > 2 /\ text[i - 1] # "/"

OrdinaryReply ==
  reply # None /\ reply.session.vhost # None
  /\ Ordinary(Vhost(Sites, reply.session.vhost).htdocs, reply.session.path)

(* A response with code 200 to an ordinary path is that of the file the    *)
(* path leads to, or a provider's and then never from the cache, and the   *)
(* octets sent are the file's as they were at some time, unless a HEAD is  *)
(* answered or the file is large enough to be streamed.                    *)
(* This is about the whole way from the path to the file, and about which  *)
(* entry a later request gets.                                             *)
RightBody ==
  LET s == reply.session IN
  reply # None /\ s.code = "200" =>
    IF s.static
      THEN /\ "file" \in DOMAIN s.body.content
           /\ OrdinaryReply => LeadsTo(Vhost(Sites, s.vhost), s.path, s.body.content.file)
           /\ s.body.kind = "data" /\ s.body.size # "empty" /\ s.method # "HEAD"
              => reply.octets = s.body.content
      ELSE s.body.content = Page("dynamic")

(* Who is told that what it has is not modified has what an entry of the   *)
(* cache for its path holds, and that is the file of the path, if it is    *)
(* an ordinary one.                                                        *)
NotModifiedRight ==
  reply # None /\ reply.session.code = "304" =>
    /\ OrdinaryReply =>
         LeadsTo(Vhost(Sites, reply.session.vhost), reply.session.path, reply.session.tag.file)
    /\ \E i \in DOMAIN cache[reply.session.vhost] :
         LET e == cache[reply.session.vhost][i] IN
         e.request_path = reply.session.path /\ e.body # None /\ e.body.content = reply.session.tag

(* The names that lead to the file of a response are those between the     *)
(* slashes of its path: the comment on the loop says that it splits the    *)
(* path by "/", removing empty entries.                                    *)
SplitAsNamed ==
  LET htdocs == Vhost(Sites, reply.session.vhost).htdocs
      segments == Segments(htdocs, reply.session.path) IN
  reply # None /\ reply.session.code = "200" =>
    Led(segments)[Len(segments)] = PathNames(htdocs, reply.session.path)

(* Responses to HTTP/1.1 that have no body and do not say so: of redirects, *)
(* and of a provider that fails.                                           *)
Endless(s) ==
  s.body = None /\ s.proto = "HTTP/1.1" /\ s.code \in {"302"} \union (IF s.static THEN {} ELSE {"500"})

(* The headers of a response tell the end of its body: every length in     *)
(* them is that of the body, and there is one or, with HTTP/1.1, chunks.   *)
(* Without a body it is one of the endless, or one with code 304.  The     *)
(* headers may be those that other workers are adding to: a response can   *)
(* be torn only if an entry of a cache has its headers.                    *)
Framed ==
  reply # None =>
    LET s == reply.session
        lengths == Values(reply.headers, "Content-Length") IN
    IF reply.torn THEN InCache(s.headers)
    ELSE IF s.body = None THEN s.code = "304" \/ Endless(s)
    ELSE /\ \A i \in DOMAIN lengths : lengths[i] = s.body.content
         /\ lengths = <<>> <=> s.body.size = "unknown"
         /\ s.body.size = "unknown" /\ s.proto = "HTTP/1.1"
            => Values(reply.headers, "Transfer-Encoding") # <<>>

(* What the readers of the caches see: entries that serve what they look   *)
(* up, and always the same one, although workers that miss at the same     *)
(* time all insert theirs, unless the path was inserted from memory that   *)
(* is freed with its request.                                              *)
Keys == Caching \X Paths \X BOOLEAN
Fits(k, e) == e.request_path = k[2] /\ (k[3] \/ ~e.content_encoding)
Lent(k) == \E i \in Lists(cache[k[1]], k[2]) : cache[k[1]][i].key # 0
Once == INSTANCE OnceCache WITH
  answers <- [k \in Keys |-> cache_get(cache[k[1]], k[2], k[3], Held)],
  lent <- {k \in Keys : Lent(k)}
CacheSpec == Once!Spec

(* Every request is answered, however often it is mounted and whatever the *)
(* other workers and the file system do, if backends answer.               *)
Answered == \A w \in Workers : at[w] # "idle" ~> at[w] = "idle" \/ crashed
=============================================================================
