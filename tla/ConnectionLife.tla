--------------------------- MODULE ConnectionLife ---------------------------
(***************************************************************************)
(* The life of client connections across the threads of one server: the    *)
(* accept threads (src/src/accept.c) hand them over in                     *)
(* prepared_connections to the wake thread (src/src/wake_thread.c), which  *)
(* deals them out to the workers (src/src/network.c); a worker adds the    *)
(* sub_conn of a request's FastCGI backend to its own epoll.  What the     *)
(* handlers do with the bytes is left to HttpConnection and FcgiStream;    *)
(* here it matters what they start, free and return.                       *)
(*                                                                         *)
(* A sub_conn is named by its conn and its end, "client" or "backend": an  *)
(* HTTP/1.1 connection streams one response at a time.  Freeing            *)
(* conn->pool frees both.  Use of freed or unset memory is undefined: the  *)
(* model then stops, in a state where undefined is TRUE.                   *)
(***************************************************************************)
EXTENDS Integers, Sequences, FiniteSets, SequencesExt

CONSTANTS
  Conns, Acceptors,
  Workers,     \* the number of worker threads
  Running,     \* workers that run before the first client comes
  BatchSize,   \* events taken by one epoll_wait (128 in the code)
  MaxSends,    \* bound: times each client sends something
  MaxReplies,  \* bound: the same for its backends
  Rejecting,   \* some module's on_connect rejects connections
  None

ASSUME ParametersAssumption ==
  /\ Workers \in Nat \ {0} /\ BatchSize \in Nat \ {0} /\ MaxSends \in Nat
  /\ MaxReplies \in Nat
  /\ Running \subseteq 0 .. Workers - 1
  /\ Rejecting \in BOOLEAN /\ None \notin Conns \union (0 .. Workers - 1)

VARIABLES
  stage,      \* of each conn: "away", in the kernel's "backlog", "accepted",
              \* "queued", "waking", "watched" by an epoll, "freed", "dropped"
  rejected,   \* conns a module has rejected
  manager,    \* conn->manager, by the number of its worker
  streaming,  \* the conn's currently_streaming is set
  backend,    \* its backend's sub_conn: "none", "pending" or "watched"
  accepting,  \* the conn an accept thread is working on
  queue,      \* prepared_connections
  waking,     \* the conn the wake thread is working on
  waker,      \* the worker it is for
  counter,
  at,         \* of each worker: "start", "drain", "wait", "batch"
  pending,    \* its manager's pending_sub_conns, all of them backends
  batch,      \* its events still to be handled
  watcher,    \* the worker whose epoll holds a sub_conn
  edge,       \* sub_conns with something to report
  unread,     \* sub_conns with bytes to read
  gone,       \* sub_conns whose peer is gone
  sends,      \* what each peer may still send
  undefined

threads == <<accepting, queue, waking, waker, counter>>
loops == <<at, pending, batch>>
kernel == <<watcher, edge, unread, gone>>
conn == <<stage, rejected, manager, streaming, backend>>
vars == <<stage, rejected, manager, streaming, backend, accepting, queue, waking,
          waker, counter, at, pending, batch, watcher, edge, unread, gone, sends,
          undefined>>

WorkerIds == 0 .. Workers - 1
SubConns == Conns \X {"client", "backend"}
Client(c) == <<c, "client">>
Backend(c) == <<c, "backend">>

Init ==
  /\ stage = [c \in Conns |-> "away"] /\ rejected = {}
  /\ manager = [c \in Conns |-> None]
  /\ streaming = [c \in Conns |-> FALSE]
  /\ backend = [c \in Conns |-> "none"]
  /\ accepting = [a \in Acceptors |-> None] /\ queue = <<>>
  /\ waking = None /\ waker = 0 /\ counter = 0
  /\ at = [w \in WorkerIds |-> IF w \in Running THEN "drain" ELSE "start"]
  /\ pending = [w \in WorkerIds |-> <<>>]
  /\ batch = [w \in WorkerIds |-> <<>>]
  /\ watcher = [s \in SubConns |-> None]
  /\ edge = {} /\ unread = {} /\ gone = {}
  /\ sends = [s \in SubConns |-> IF s[2] = "client" THEN MaxSends ELSE MaxReplies]
  /\ undefined = FALSE

(* Whether a sub_conn's memory is still there.                             *)
Alive(s) ==
  IF s[2] = "client" THEN stage[s[1]] \notin {"freed", "dropped"} /\ s[1] \notin rejected
                     ELSE backend[s[1]] # "none"

(* What the program does next has a meaning.                               *)
Defined == ~undefined

-----------------------------------------------------------------------------
(* The peers.                                                              *)
Connects(c) ==
  /\ Defined /\ stage[c] = "away"
  /\ stage' = [stage EXCEPT ![c] = "backlog"]
  /\ UNCHANGED <<rejected, manager, streaming, backend, sends, undefined>>
  /\ UNCHANGED threads /\ UNCHANGED loops /\ UNCHANGED kernel

Connected(s) ==
  IF s[2] = "client" THEN stage[s[1]] \notin {"away", "freed", "dropped"}
                     ELSE backend[s[1]] # "none"

Sends(s) ==
  /\ Defined /\ Connected(s) /\ s \notin gone /\ sends[s] > 0
  /\ sends' = [sends EXCEPT ![s] = @ - 1]
  /\ unread' = unread \union {s}
  /\ edge' = edge \union {s}
  /\ UNCHANGED <<watcher, gone, undefined>>
  /\ UNCHANGED conn /\ UNCHANGED threads /\ UNCHANGED loops

(* The peer closes or resets; a backend may also refuse the connection.    *)
Leaves(s) ==
  /\ Defined /\ Connected(s) /\ s \notin gone
  /\ gone' = gone \union {s}
  /\ edge' = edge \union {s}
  /\ UNCHANGED <<watcher, unread, sends, undefined>>
  /\ UNCHANGED conn /\ UNCHANGED threads /\ UNCHANGED loops

-----------------------------------------------------------------------------
(* run_accept.                                                             *)
Accept(a) ==
  /\ Defined /\ accepting[a] = None
  /\ \E c \in Conns :
       /\ stage[c] = "backlog"
       /\ accepting' = [accepting EXCEPT ![a] = c]
       /\ stage' = [stage EXCEPT ![c] = "accepted"]
  /\ UNCHANGED <<rejected, manager, streaming, backend, sends, undefined>>
  /\ UNCHANGED <<queue, waking, waker, counter>> /\ UNCHANGED loops /\ UNCHANGED kernel

(* configure_fd or the handshake fails, or only the dummy certificate      *)
(* would serve: the sub_conn is freed and with it the socket.              *)
Drop(a) ==
  /\ Defined /\ accepting[a] # None
  /\ stage' = [stage EXCEPT ![accepting[a]] = "dropped"]
  /\ accepting' = [accepting EXCEPT ![a] = None]
  /\ UNCHANGED <<rejected, manager, streaming, backend, sends, undefined>>
  /\ UNCHANGED <<queue, waking, waker, counter>> /\ UNCHANGED loops /\ UNCHANGED kernel

(* The modules' on_connect; the break in their loop leaves only that loop, *)
(* so a rejected connection is pushed as well.                             *)
HandOver(a, reject) ==
  /\ Defined /\ accepting[a] # None
  /\ reject => Rejecting
  /\ rejected' = IF reject THEN rejected \union {accepting[a]} ELSE rejected
  /\ stage' = [stage EXCEPT ![accepting[a]] = "queued"]
  /\ queue' = Append(queue, accepting[a])
  /\ accepting' = [accepting EXCEPT ![a] = None]
  /\ UNCHANGED <<manager, streaming, backend, sends, undefined>>
  /\ UNCHANGED <<waking, waker, counter>> /\ UNCHANGED loops /\ UNCHANGED kernel

-----------------------------------------------------------------------------
(* wake_thread.                                                            *)
(* Slip: the counter has moved on when the manager is looked up.           *)
DealLate(c) ==
  /\ waker' = counter
  /\ counter' = (counter + 1) % Workers
  /\ manager' = [manager EXCEPT ![c] = IF at[counter'] = "start" THEN None ELSE counter']

(* Slip: the counter does not start over.                                  *)
DealPastEnd(c) ==
  /\ waker' = counter
  /\ counter' = counter + 1
  /\ manager' = [manager EXCEPT ![c] = IF at[counter] = "start" THEN None ELSE counter]

(* The next worker in turn gets the conn.  Its manager exists only once    *)
(* the worker's thread has begun to run.                                   *)
Deal(c) ==
  /\ waker' = counter
  /\ counter' = (counter + 1) % Workers
  /\ manager' = [manager EXCEPT ![c] = IF at[counter] = "start" THEN None ELSE counter]

Pop ==
  /\ Defined /\ waking = None /\ queue # <<>>
  /\ waking' = Head(queue)
  /\ queue' = Tail(queue)
  /\ Deal(Head(queue))
  /\ stage' = [stage EXCEPT ![Head(queue)] = "waking"]
  /\ UNCHANGED <<rejected, streaming, backend, accepting, sends, undefined>>
  /\ UNCHANGED loops /\ UNCHANGED kernel

(* epoll_ctl: whatever has happened on the socket before is reported, and  *)
(* that it can be written.                                                 *)
Watch ==
  /\ Defined /\ waking # None
  /\ waking' = None
  /\ IF waking \in rejected
       THEN undefined' = TRUE /\ UNCHANGED <<stage, watcher, edge>>
       ELSE /\ stage' = [stage EXCEPT ![waking] = "watched"]
            /\ watcher' = [watcher EXCEPT ![Client(waking)] = waker]
            /\ edge' = edge \union {Client(waking)}
            /\ UNCHANGED undefined
  /\ UNCHANGED <<rejected, manager, streaming, backend>>
  /\ UNCHANGED <<accepting, queue, waker, counter, unread, gone, sends>>
  /\ UNCHANGED loops

-----------------------------------------------------------------------------
(* run_work.                                                               *)
Start(w) ==
  /\ Defined /\ at[w] = "start"
  /\ at' = [at EXCEPT ![w] = "drain"]
  /\ UNCHANGED <<pending, batch, sends, undefined>>
  /\ UNCHANGED conn /\ UNCHANGED threads /\ UNCHANGED kernel

Drain(w) ==
  LET new == {Backend(pending[w][i][1]) : i \in DOMAIN pending[w]}
  IN /\ Defined /\ at[w] = "drain"
     /\ at' = [at EXCEPT ![w] = "wait"]
     /\ pending' = [pending EXCEPT ![w] = <<>>]
     /\ IF \E s \in new : ~Alive(s)
          THEN undefined' = TRUE /\ UNCHANGED <<backend, watcher, edge>>
          ELSE /\ backend' = [c \in Conns |->
                    IF Backend(c) \in new THEN "watched" ELSE backend[c]]
               /\ watcher' = [s \in SubConns |-> IF s \in new THEN w ELSE watcher[s]]
               /\ edge' = edge \union new
               /\ UNCHANGED undefined
     /\ UNCHANGED <<stage, rejected, manager, streaming, batch, unread, gone, sends>>
     /\ UNCHANGED threads

(* What epoll_wait says of a sub_conn.  A peer that is gone shows as       *)
(* EPOLLHUP or EPOLLERR, or only as EPOLLIN with nothing behind it.        *)
Events(s) ==
  [sub : {s}, hup : IF s \in gone THEN BOOLEAN ELSE {FALSE},
   in : {s \in unread \union gone}]

EpollWait(w) ==
  /\ Defined /\ at[w] = "wait"
  /\ \E n \in 1 .. BatchSize :
       \E e \in [1 .. n -> UNION {Events(s) : s \in {t \in edge : watcher[t] = w}}] :
         /\ \A i, j \in 1 .. n : i # j => e[i].sub # e[j].sub
         /\ batch' = [batch EXCEPT ![w] = e]
         /\ edge' = edge \ {e[i].sub : i \in 1 .. n}
  /\ at' = [at EXCEPT ![w] = "batch"]
  /\ UNCHANGED <<pending, watcher, unread, gone, sends, undefined>>
  /\ UNCHANGED conn /\ UNCHANGED threads

Event(w) == Head(batch[w])
HandlesAt(w, end) ==
  Defined /\ at[w] = "batch" /\ Event(w).sub[2] = end /\ Alive(Event(w).sub)

(* Slip: pending sub_conns are looked at only once.                        *)
AfterBatchWait == "wait"

(* The loop starts over with the pending sub_conns.                        *)
AfterBatch == "drain"

(* Slip: handling an event breaks off the loop over the batch.             *)
HandledBreak(w) ==
  /\ batch' = [batch EXCEPT ![w] = <<>>]
  /\ at' = [at EXCEPT ![w] = AfterBatch]

(* On to the next event of the batch.                                      *)
Handled(w) ==
  /\ batch' = [batch EXCEPT ![w] = Tail(@)]
  /\ at' = IF Len(batch[w]) = 1 THEN [at EXCEPT ![w] = AfterBatch] ELSE at

(* Slip: read's end of file is not looked for.                             *)
EndedByHup(e) == e.hup

(* The peer's end: EPOLLHUP, EPOLLERR, or read returning 0 or an error.    *)
Ended(e) == e.hup \/ (e.in /\ e.sub \in gone)

(* The kernel forgets the sockets that are closed with their sub_conns.    *)
Forget(S) ==
  /\ watcher' = [s \in SubConns |-> IF s \in S THEN None ELSE watcher[s]]
  /\ edge' = edge \ S
  /\ unread' = unread \ S
  /\ gone' = gone \ S

(* http_on_closed frees conn->pool, and in it the backend's sub_conn.      *)
FreeConn(c) ==
  /\ stage' = [stage EXCEPT ![c] = "freed"]
  /\ backend' = [backend EXCEPT ![c] = "none"]
  /\ streaming' = [streaming EXCEPT ![c] = FALSE]
  /\ Forget({Client(c), Backend(c)})

ClientEnds(w) ==
  /\ HandlesAt(w, "client") /\ Ended(Event(w))
  /\ FreeConn(Event(w).sub[1])
  /\ Handled(w)
  /\ UNCHANGED <<rejected, manager, pending, sends, undefined>> /\ UNCHANGED threads

(* The socket can be written, and nothing else.                            *)
ClientWritable(w) ==
  /\ HandlesAt(w, "client") /\ ~Ended(Event(w)) /\ ~Event(w).in
  /\ Handled(w)
  /\ UNCHANGED <<pending, sends, undefined>>
  /\ UNCHANGED conn /\ UNCHANGED threads /\ UNCHANGED kernel

Reads(e) == e.in /\ ~Ended(e)

(* Everything is read and given to the handler, which answers or waits for *)
(* more and returns 0,                                                     *)
ClientReads(w) ==
  /\ HandlesAt(w, "client") /\ Event(w).in /\ ~Ended(Event(w))
  /\ unread' = IF Reads(Event(w)) THEN unread \ {Event(w).sub} ELSE unread
  /\ Handled(w)
  /\ UNCHANGED <<pending, watcher, edge, gone, sends, undefined>>
  /\ UNCHANGED conn /\ UNCHANGED threads

(* or finds a request for a backend, whose sub_conn is left to the conn's  *)
(* manager to be watched,                                                  *)
ClientStarts(w) ==
  LET c == Event(w).sub[1]
  IN /\ HandlesAt(w, "client") /\ Reads(Event(w)) /\ ~streaming[c]
     /\ unread' = unread \ {Event(w).sub}
     /\ streaming' = [streaming EXCEPT ![c] = TRUE]
     /\ backend' = [backend EXCEPT ![c] = "pending"]
     /\ IF manager[c] = None
          THEN undefined' = TRUE /\ UNCHANGED pending
          ELSE /\ pending' = [pending EXCEPT ![manager[c]] = Append(@, Backend(c))]
               /\ UNCHANGED undefined
     /\ Handled(w)
     /\ UNCHANGED <<stage, rejected, manager, watcher, edge, gone, sends>>
     /\ UNCHANGED threads

(* or gives up on the connection and returns 1.                            *)
ClientRefused(w) ==
  /\ HandlesAt(w, "client") /\ Reads(Event(w)) /\ ~streaming[Event(w).sub[1]]
  /\ FreeConn(Event(w).sub[1])
  /\ Handled(w)
  /\ UNCHANGED <<rejected, manager, pending, sends, undefined>> /\ UNCHANGED threads

(* fcgi_on_closed frees the sub_conn and leaves the request as it is.      *)
BackendEnds(w) ==
  LET s == Event(w).sub
  IN /\ HandlesAt(w, "backend") /\ Ended(Event(w))
     /\ backend' = [backend EXCEPT ![s[1]] = "none"]
     /\ Forget({s})
     /\ Handled(w)
     /\ UNCHANGED <<stage, rejected, manager, streaming, pending, sends, undefined>>
     /\ UNCHANGED threads

BackendReads(w) ==
  /\ HandlesAt(w, "backend") /\ ~Ended(Event(w))
  /\ unread' = IF Event(w).in THEN unread \ {Event(w).sub} ELSE unread
  /\ Handled(w)
  /\ UNCHANGED <<pending, watcher, edge, gone, sends, undefined>>
  /\ UNCHANGED conn /\ UNCHANGED threads

(* END_REQUEST frees the request's pool, and in it the sub_conn.           *)
BackendCompletes(w) ==
  LET s == Event(w).sub
  IN /\ HandlesAt(w, "backend") /\ Reads(Event(w))
     /\ backend' = [backend EXCEPT ![s[1]] = "none"]
     /\ streaming' = [streaming EXCEPT ![s[1]] = FALSE]
     /\ Forget({s})
     /\ Handled(w)
     /\ UNCHANGED <<stage, rejected, manager, pending, sends, undefined>>
     /\ UNCHANGED threads

(* An event of a sub_conn that an earlier event of the batch has freed.    *)
StaleEvent(w) ==
  /\ Defined /\ at[w] = "batch" /\ ~Alive(Event(w).sub)
  /\ undefined' = TRUE
  /\ UNCHANGED loops /\ UNCHANGED sends
  /\ UNCHANGED conn /\ UNCHANGED threads /\ UNCHANGED kernel

-----------------------------------------------------------------------------
Acceptor(a) == Accept(a) \/ Drop(a) \/ \E reject \in BOOLEAN : HandOver(a, reject)

Waker == Pop \/ Watch

Worker(w) ==
  \/ Start(w) \/ Drain(w) \/ EpollWait(w)
  \/ ClientEnds(w) \/ ClientWritable(w) \/ ClientReads(w) \/ ClientStarts(w)
  \/ ClientRefused(w) \/ BackendEnds(w) \/ BackendReads(w) \/ BackendCompletes(w)
  \/ StaleEvent(w)

Peers ==
  \/ \E c \in Conns : Connects(c)
  \/ \E s \in SubConns : Sends(s) \/ Leaves(s)

Next ==
  \/ Peers
  \/ \E a \in Acceptors : Acceptor(a)
  \/ Waker
  \/ \E w \in WorkerIds : Worker(w)

Spec == Init /\ [][Next]_vars

(* Every thread goes on when it can.                                       *)
FairSpec ==
  /\ Spec
  /\ \A a \in Acceptors : WF_vars(Acceptor(a))
  /\ WF_vars(Waker)
  /\ \A w \in WorkerIds : WF_vars(Worker(w))

-----------------------------------------------------------------------------
Stages ==
  {"away", "backlog", "accepted", "queued", "waking", "watched", "freed", "dropped"}

TypeOK ==
  /\ stage \in [Conns -> Stages] /\ rejected \subseteq Conns
  /\ manager \in [Conns -> WorkerIds \union {None}]
  /\ streaming \in [Conns -> BOOLEAN]
  /\ backend \in [Conns -> {"none", "pending", "watched"}]
  /\ accepting \in [Acceptors -> Conns \union {None}]
  /\ queue \in Seq(Conns) /\ waking \in Conns \union {None}
  /\ waker \in WorkerIds /\ counter \in WorkerIds
  /\ at \in [WorkerIds -> {"start", "drain", "wait", "batch"}]
  /\ pending \in [WorkerIds -> Seq(Conns \X {"backend"})]
  /\ batch \in [WorkerIds -> Seq([sub : SubConns, hup : BOOLEAN, in : BOOLEAN])]
  /\ watcher \in [SubConns -> WorkerIds \union {None}]
  /\ edge \subseteq SubConns /\ unread \subseteq SubConns /\ gone \subseteq SubConns
  /\ sends \in [SubConns -> Nat] /\ undefined \in BOOLEAN

(* Everything of a connection happens on one worker thread, without locks: *)
(* no two workers ever have its sub_conns among their events or their      *)
(* pending sub_conns.                                                      *)
Has(w, c) ==
  \/ \E i \in DOMAIN batch[w] : batch[w][i].sub[1] = c
  \/ \E i \in DOMAIN pending[w] : pending[w][i][1] = c
  \/ \E s \in {Client(c), Backend(c)} : watcher[s] = w
OneWorker ==
  \A c \in Conns : \A v, w \in WorkerIds : Has(v, c) /\ Has(w, c) => v = w

(* A sub_conn that waits to be watched is not freed before the loop comes  *)
(* round to it, whatever else the batch holds.                             *)
PendingAlive ==
  \A w \in WorkerIds : \A i \in DOMAIN pending[w] : backend[pending[w][i][1]] = "pending"

(* What a watched peer has sent, or that it is gone, is never forgotten:   *)
(* an edge is still to be reported, or is among the events in hand.  Edges *)
(* come once, so a socket that lacks one is dead to the server.            *)
NoLostEdge ==
  \A s \in SubConns : watcher[s] # None /\ s \in unread \union gone =>
    \/ s \in edge
    \/ \E w \in WorkerIds : \E i \in DOMAIN batch[w] : batch[w][i].sub = s /\ batch[w][i].in

(* Whether a conn is over, or the program undefined from some point on.    *)
Done(c) == stage[c] \in {"freed", "dropped"} \/ undefined

(* A client that is gone has its connection freed.                         *)
Reclaimed == \A c \in Conns : (Client(c) \in gone) ~> Done(c)

(* A backend that a request waits for comes to be watched, so that its     *)
(* answer is seen.                                                         *)
BackendWatched ==
  \A c \in Conns : (backend[c] = "pending") ~> (backend[c] # "pending" \/ undefined)

(* "to allow closing when there might be pending events": closing a        *)
(* sub_conn leaves no event of it behind in a batch.                       *)
NoStaleEvent ==
  \A w \in WorkerIds : \A i \in DOMAIN batch[w] : Alive(batch[w][i].sub)
=============================================================================
