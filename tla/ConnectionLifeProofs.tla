------------------------ MODULE ConnectionLifeProofs ------------------------
(***************************************************************************)
(* Proofs about ConnectionLife, for any number of connections, accept      *)
(* threads, workers and events: types; a connection stays with one worker  *)
(* thread (IInv); no edge is forgotten (LInv); what waits to be watched is *)
(* not freed (PInv).                                                       *)
(***************************************************************************)
EXTENDS ConnectionLife, SequenceTheorems, TLAPS

EventType == [sub : SubConns, hup : BOOLEAN, in : BOOLEAN]

(* A batch in hand is never empty.                                         *)
InHand == \A w \in WorkerIds : at[w] = "batch" => batch[w] # <<>>

Typed == TypeOK /\ InHand

LEMMA WorkersAreNumbers ==
  /\ Workers \in Nat \ {0} /\ 0 \in WorkerIds /\ None \notin WorkerIds /\ None \notin Conns
  /\ \A w \in WorkerIds : (w + 1) % Workers \in WorkerIds
  /\ Running \subseteq WorkerIds /\ MaxSends \in Nat /\ MaxReplies \in Nat
<1>1. \A w \in WorkerIds : (w + 1) % Workers \in WorkerIds
  BY ParametersAssumption DEF WorkerIds
<1> QED
  BY <1>1, ParametersAssumption DEF WorkerIds

LEMMA TypedInit == Init => Typed
<1>1. SUFFICES ASSUME Init PROVE Typed
  OBVIOUS
<1>2. \A s \in SubConns : s[2] \in {"client", "backend"}
  BY DEF SubConns
<1>3. TypeOK
  <2>1. /\ stage \in [Conns -> Stages] /\ rejected \subseteq Conns
        /\ manager \in [Conns -> WorkerIds \union {None}]
        /\ streaming \in [Conns -> BOOLEAN]
        /\ backend \in [Conns -> {"none", "pending", "watched"}]
    BY <1>1 DEF Init, Stages
  <2>2. /\ accepting \in [Acceptors -> Conns \union {None}]
        /\ queue \in Seq(Conns) /\ waking \in Conns \union {None}
        /\ waker \in WorkerIds /\ counter \in WorkerIds
    BY <1>1, WorkersAreNumbers DEF Init
  <2>3. /\ at \in [WorkerIds -> {"start", "drain", "wait", "batch"}]
        /\ pending \in [WorkerIds -> Seq(Conns \X {"backend"})]
        /\ batch \in [WorkerIds -> Seq([sub : SubConns, hup : BOOLEAN, in : BOOLEAN])]
    BY <1>1 DEF Init
  <2>4. /\ watcher \in [SubConns -> WorkerIds \union {None}]
        /\ edge \subseteq SubConns /\ unread \subseteq SubConns /\ gone \subseteq SubConns
        /\ undefined \in BOOLEAN
    BY <1>1 DEF Init
  <2>5. sends \in [SubConns -> Nat]
    BY <1>1, WorkersAreNumbers DEF Init
  <2> QED
    BY <2>1, <2>2, <2>3, <2>4, <2>5 DEF TypeOK
<1>4. InHand
  BY <1>1 DEF Init, InHand
<1> QED
  BY <1>3, <1>4 DEF Typed

(* Handling an event takes it out of the batch.                            *)
LEMMA HandledTyped ==
  ASSUME Typed, NEW w \in WorkerIds, at[w] = "batch", Handled(w)
  PROVE  /\ at' \in [WorkerIds -> {"start", "drain", "wait", "batch"}]
         /\ batch' \in [WorkerIds -> Seq(EventType)]
         /\ InHand'
         /\ Event(w) \in EventType
         /\ batch[w] \in Seq(EventType) /\ batch[w] # <<>>
         /\ batch'[w] = Tail(batch[w])
         /\ \A v \in WorkerIds \ {w} : batch'[v] = batch[v]
         /\ 1 \in DOMAIN batch[w] /\ Event(w) = batch[w][1]
         /\ \A i \in DOMAIN batch'[w] :
              i + 1 \in DOMAIN batch[w] /\ batch'[w][i] = batch[w][i + 1]
         /\ \A i \in DOMAIN batch[w] \ {1} :
              i - 1 \in DOMAIN batch'[w] /\ batch'[w][i - 1] = batch[w][i]
         /\ at'[w] # "batch" => batch'[w] = <<>>
<1>1. batch[w] \in Seq(EventType) /\ batch[w] # <<>>
  BY DEF Typed, TypeOK, InHand, EventType
<1>2. Tail(batch[w]) \in Seq(EventType) /\ Event(w) \in EventType
  BY <1>1 DEF Event
<1>3. /\ batch' \in [WorkerIds -> Seq(EventType)]
      /\ batch'[w] = Tail(batch[w])
      /\ \A v \in WorkerIds \ {w} : batch'[v] = batch[v]
  BY <1>2 DEF Handled, Typed, TypeOK, EventType
<1>4. at' \in [WorkerIds -> {"start", "drain", "wait", "batch"}]
  BY DEF Handled, Typed, TypeOK, AfterBatch
<1>5. InHand'
  <2>1. SUFFICES ASSUME NEW v \in WorkerIds, at'[v] = "batch" PROVE batch'[v] # <<>>
    BY DEF InHand
  <2>2. CASE v # w
    BY <1>3, <2>1, <2>2 DEF Handled, Typed, TypeOK, InHand
  <2>3. CASE v = w
    <3>1. Len(batch[w]) # 1
      BY <2>1, <2>3 DEF Handled, AfterBatch, Typed, TypeOK
    <3>2. Len(Tail(batch[w])) = Len(batch[w]) - 1 /\ Len(batch[w]) \in Nat
      BY <1>1, HeadTailProperties
    <3>3. Len(batch[w]) # 0 /\ Len(<<>>) = 0
      BY <1>1, EmptySeq
    <3>4. Tail(batch[w]) # <<>>
      <4>1. Len(Tail(batch[w])) # 0
        BY <3>1, <3>2, <3>3
      <4> QED
        BY <3>3, <4>1, Zenon
    <3> QED
      BY <1>3, <2>3, <3>4
  <2> QED
    BY <2>2, <2>3
<1>6. 1 \in DOMAIN batch[w] /\ Event(w) = batch[w][1]
  <2>1. Len(batch[w]) \in Nat \ {0}
    BY <1>1, EmptySeq
  <2> QED
    BY <1>1, <2>1 DEF Event
<1>7. /\ \A i \in DOMAIN Tail(batch[w]) :
           i + 1 \in DOMAIN batch[w] /\ Tail(batch[w])[i] = batch[w][i + 1]
      /\ \A i \in DOMAIN batch[w] \ {1} :
           i - 1 \in DOMAIN Tail(batch[w]) /\ Tail(batch[w])[i - 1] = batch[w][i]
  <2>1. /\ DOMAIN batch[w] = 1 .. Len(batch[w]) /\ Len(batch[w]) \in Nat
        /\ DOMAIN Tail(batch[w]) = 1 .. Len(Tail(batch[w]))
    BY <1>1, <1>2, LenProperties
  <2>2. /\ Len(Tail(batch[w])) = Len(batch[w]) - 1
        /\ \A i \in 1 .. Len(Tail(batch[w])) : Tail(batch[w])[i] = batch[w][i + 1]
    BY <1>1, HeadTailProperties
  <2> QED
    BY <2>1, <2>2
<1>8. at'[w] # "batch" => batch'[w] = <<>>
  <2>1. SUFFICES ASSUME at'[w] # "batch" PROVE Tail(batch[w]) = <<>>
    BY <1>3
  <2>2. Len(batch[w]) = 1
    BY <2>1 DEF Handled, Typed, TypeOK
  <2>3. Len(Tail(batch[w])) = 0
    BY <1>1, <2>2, HeadTailProperties
  <2> QED
    BY <1>2, <2>3, EmptySeq
<1> QED
  BY <1>1, <1>2, <1>3, <1>4, <1>5, <1>6, <1>7, <1>8

-----------------------------------------------------------------------------
LEMMA PeersTyped ==
  ASSUME Typed, Peers
  PROVE  Typed'
<1>1. ASSUME NEW c \in Conns, Connects(c) PROVE Typed'
  BY <1>1 DEF Connects, threads, loops, kernel, Typed, TypeOK, InHand, Stages
<1>2. ASSUME NEW s \in SubConns, Sends(s) PROVE Typed'
  BY <1>2 DEF Sends, conn, threads, loops, Typed, TypeOK, InHand
<1>3. ASSUME NEW s \in SubConns, Leaves(s) PROVE Typed'
  BY <1>3 DEF Leaves, conn, threads, loops, Typed, TypeOK, InHand
<1> QED
  BY <1>1, <1>2, <1>3 DEF Peers

LEMMA AcceptorTyped ==
  ASSUME Typed, NEW a \in Acceptors, Acceptor(a)
  PROVE  Typed'
<1>1. CASE Accept(a)
  <2>1. PICK c \in Conns : /\ accepting' = [accepting EXCEPT ![a] = c]
                           /\ stage' = [stage EXCEPT ![c] = "accepted"]
    BY <1>1 DEF Accept
  <2>2. accepting' \in [Acceptors -> Conns \union {None}] /\ stage' \in [Conns -> Stages]
    BY <2>1 DEF Typed, TypeOK, Stages
  <2> QED
    BY <1>1, <2>2 DEF Accept, loops, kernel, Typed, TypeOK, InHand
<1>2. CASE Drop(a)
  BY <1>2, WorkersAreNumbers DEF Drop, loops, kernel, Typed, TypeOK, InHand, Stages
<1>3. ASSUME NEW reject \in BOOLEAN, HandOver(a, reject) PROVE Typed'
  <2>1. accepting[a] \in Conns
    BY <1>3 DEF HandOver, Typed, TypeOK
  <2>2. queue' \in Seq(Conns)
    BY <1>3, <2>1 DEF HandOver, Typed, TypeOK
  <2>3. stage' \in [Conns -> Stages] /\ accepting' \in [Acceptors -> Conns \union {None}]
    BY <1>3 DEF HandOver, Typed, TypeOK, Stages
  <2>4. rejected' \subseteq Conns
    BY <1>3, <2>1 DEF HandOver, Typed, TypeOK
  <2> QED
    BY <1>3, <2>2, <2>3, <2>4 DEF HandOver, loops, kernel, Typed, TypeOK, InHand
<1> QED
  BY <1>1, <1>2, <1>3 DEF Acceptor

LEMMA WakerTyped ==
  ASSUME Typed, Waker
  PROVE  Typed'
<1>1. CASE Pop
  <2>1. Head(queue) \in Conns /\ Tail(queue) \in Seq(Conns)
    BY <1>1, HeadTailProperties DEF Pop, Typed, TypeOK
  <2>2. counter' \in WorkerIds /\ waker' \in WorkerIds
    BY <1>1, WorkersAreNumbers DEF Pop, Deal, Typed, TypeOK
  <2>3. manager' \in [Conns -> WorkerIds \union {None}]
    BY <1>1, <2>1 DEF Pop, Deal, Typed, TypeOK
  <2>4. stage' \in [Conns -> Stages]
    BY <1>1, <2>1 DEF Pop, Typed, TypeOK, Stages
  <2> QED
    BY <1>1, <2>1, <2>2, <2>3, <2>4 DEF Pop, loops, kernel, Typed, TypeOK, InHand
<1>2. CASE Watch
  <2>1. waking \in Conns /\ Client(waking) \in SubConns /\ waker \in WorkerIds
    BY <1>2 DEF Watch, Typed, TypeOK, Client, SubConns
  <2>2. CASE waking \in rejected
    BY <1>2, <2>2 DEF Watch, loops, Typed, TypeOK, InHand
  <2>3. CASE waking \notin rejected
    BY <1>2, <2>1, <2>3 DEF Watch, loops, Typed, TypeOK, InHand, Stages
  <2> QED
    BY <2>2, <2>3
<1> QED
  BY <1>1, <1>2 DEF Waker

LEMMA ForgetTyped ==
  ASSUME Typed, NEW S \in SUBSET SubConns, Forget(S)
  PROVE  /\ watcher' \in [SubConns -> WorkerIds \union {None}]
         /\ edge' \subseteq SubConns /\ unread' \subseteq SubConns /\ gone' \subseteq SubConns
  BY DEF Forget, Typed, TypeOK

LEMMA LoopTyped ==
  ASSUME Typed, NEW w \in WorkerIds, Start(w) \/ Drain(w) \/ EpollWait(w) \/ StaleEvent(w)
  PROVE  Typed'
<1>1. CASE Start(w)
  BY <1>1 DEF Start, conn, threads, kernel, Typed, TypeOK, InHand
<1>2. CASE Drain(w)
  <2> DEFINE new == {Backend(pending[w][i][1]) : i \in DOMAIN pending[w]}
  <2>1. new \subseteq SubConns
    <3>1. SUFFICES ASSUME NEW s \in new PROVE s \in SubConns
      OBVIOUS
    <3>2. PICK i \in DOMAIN pending[w] : s = Backend(pending[w][i][1])
      OBVIOUS
    <3>3. pending[w][i] \in Conns \X {"backend"}
      BY DEF Typed, TypeOK
    <3> QED
      BY <3>2, <3>3 DEF Backend, SubConns
  <2>2. at' \in [WorkerIds -> {"start", "drain", "wait", "batch"}] /\ InHand'
    BY <1>2 DEF Drain, Typed, TypeOK, InHand
  <2>3. pending' \in [WorkerIds -> Seq(Conns \X {"backend"})]
    BY <1>2 DEF Drain, Typed, TypeOK
  <2>4. /\ backend' \in [Conns -> {"none", "pending", "watched"}]
        /\ watcher' \in [SubConns -> WorkerIds \union {None}]
        /\ edge' \subseteq SubConns /\ undefined' \in BOOLEAN
    <3>1. CASE \E s \in new : ~Alive(s)
      BY <1>2, <3>1 DEF Drain, Typed, TypeOK
    <3>2. CASE ~\E s \in new : ~Alive(s)
      <4>1. /\ backend' = [c \in Conns |-> IF Backend(c) \in new THEN "watched" ELSE backend[c]]
            /\ watcher' = [s \in SubConns |-> IF s \in new THEN w ELSE watcher[s]]
            /\ edge' = edge \union new /\ undefined' = undefined
        BY <1>2, <3>2 DEF Drain
      <4> HIDE DEF new
      <4> QED
        BY <2>1, <4>1 DEF Typed, TypeOK
    <3> QED
      BY <3>1, <3>2
  <2> QED
    BY <1>2, <2>2, <2>3, <2>4 DEF Drain, threads, Typed, TypeOK
<1>3. CASE EpollWait(w)
  <2> DEFINE Ready == UNION {Events(s) : s \in {t \in edge : watcher[t] = w}}
  <2>1. PICK n \in 1 .. BatchSize : \E e \in [1 .. n -> Ready] :
          /\ batch' = [batch EXCEPT ![w] = e]
          /\ edge' = edge \ {e[i].sub : i \in 1 .. n}
    BY <1>3 DEF EpollWait
  <2>2. PICK e \in [1 .. n -> Ready] :
          /\ batch' = [batch EXCEPT ![w] = e]
          /\ edge' = edge \ {e[i].sub : i \in 1 .. n}
    BY <2>1
  <2>3. Ready \subseteq EventType
    BY DEF Events, EventType, Typed, TypeOK
  <2>4. n \in Nat \ {0}
    BY ParametersAssumption
  <2>5. e \in Seq(EventType) /\ e # <<>>
    <3>1. e \in [1 .. n -> EventType]
      BY <2>2, <2>3
    <3>2. Len(e) = n
      BY <2>2, <2>4
    <3> QED
      BY <2>4, <3>1, <3>2, EmptySeq, SeqDef
  <2>6. batch' \in [WorkerIds -> Seq(EventType)]
    BY <2>2, <2>5 DEF Typed, TypeOK, EventType
  <2>7. at' \in [WorkerIds -> {"start", "drain", "wait", "batch"}]
    BY <1>3 DEF EpollWait, Typed, TypeOK
  <2>8. InHand'
    BY <1>3, <2>2, <2>5 DEF EpollWait, InHand, Typed, TypeOK
  <2>9. edge' \subseteq SubConns
    BY <2>2 DEF Typed, TypeOK
  <2> QED
    BY <1>3, <2>6, <2>7, <2>8, <2>9 DEF EpollWait, conn, threads, Typed, TypeOK, EventType
<1>4. CASE StaleEvent(w)
  BY <1>4 DEF StaleEvent, loops, conn, threads, kernel, Typed, TypeOK, InHand
<1> QED
  BY <1>1, <1>2, <1>3, <1>4

LEMMA EventTyped ==
  ASSUME Typed, NEW w \in WorkerIds,
         \/ ClientEnds(w) \/ ClientWritable(w) \/ ClientReads(w) \/ ClientStarts(w)
         \/ ClientRefused(w) \/ BackendEnds(w) \/ BackendReads(w) \/ BackendCompletes(w)
  PROVE  Typed'
<1>1. at[w] = "batch" /\ Handled(w)
  BY Zenon DEF ClientEnds, ClientWritable, ClientReads, ClientStarts, ClientRefused,
     BackendEnds, BackendReads, BackendCompletes, HandlesAt
<1>2. /\ at' \in [WorkerIds -> {"start", "drain", "wait", "batch"}]
      /\ batch' \in [WorkerIds -> Seq([sub : SubConns, hup : BOOLEAN, in : BOOLEAN])]
      /\ InHand'
  BY <1>1, HandledTyped DEF EventType
<1> DEFINE s == Event(w).sub
           c == Event(w).sub[1]
<1>3. s \in SubConns /\ c \in Conns /\ {Client(c), Backend(c)} \subseteq SubConns
  <2>1. Event(w) \in EventType
    BY <1>1, HandledTyped
  <2> QED
    BY <2>1 DEF EventType, SubConns, Client, Backend
<1> HIDE DEF s, c
<1>4. ASSUME FreeConn(c), UNCHANGED <<rejected, manager, pending, sends, undefined>>,
             UNCHANGED threads
      PROVE  Typed'
  <2>1. /\ stage' \in [Conns -> Stages] /\ streaming' \in [Conns -> BOOLEAN]
        /\ backend' \in [Conns -> {"none", "pending", "watched"}]
    BY <1>3, <1>4 DEF FreeConn, Typed, TypeOK, Stages
  <2>2. /\ watcher' \in [SubConns -> WorkerIds \union {None}]
        /\ edge' \subseteq SubConns /\ unread' \subseteq SubConns /\ gone' \subseteq SubConns
    BY <1>3, <1>4, ForgetTyped DEF FreeConn
  <2> QED
    BY <1>2, <1>4, <2>1, <2>2 DEF threads, Typed, TypeOK
<1>5. CASE ClientEnds(w)
  BY <1>4, <1>5, Zenon DEF ClientEnds, c
<1>6. CASE ClientRefused(w)
  BY <1>4, <1>6, Zenon DEF ClientRefused, c
<1>7. CASE ClientWritable(w)
  BY <1>2, <1>7 DEF ClientWritable, conn, threads, kernel, Typed, TypeOK
<1>8. CASE ClientReads(w)
  BY <1>2, <1>8 DEF ClientReads, conn, threads, Typed, TypeOK
<1>9. CASE BackendReads(w)
  BY <1>2, <1>9 DEF BackendReads, conn, threads, Typed, TypeOK
<1>10. CASE ClientStarts(w)
  <2>1. /\ streaming' = [streaming EXCEPT ![c] = TRUE]
        /\ backend' = [backend EXCEPT ![c] = "pending"]
    BY <1>10 DEF ClientStarts, c
  <2>2. pending' \in [WorkerIds -> Seq(Conns \X {"backend"})] /\ undefined' \in BOOLEAN
    <3>1. CASE manager[c] = None
      BY <1>10, <3>1 DEF ClientStarts, c, Typed, TypeOK
    <3>2. CASE manager[c] # None
      <4>1. /\ pending' = [pending EXCEPT ![manager[c]] = Append(@, Backend(c))]
            /\ undefined' = undefined
        BY <1>10, <3>2 DEF ClientStarts, c
      <4>2. manager[c] \in WorkerIds /\ Backend(c) \in Conns \X {"backend"}
        BY <1>3, <3>2 DEF Typed, TypeOK, Backend
      <4> QED
        BY <4>1, <4>2 DEF Typed, TypeOK
    <3> QED
      BY <3>1, <3>2
  <2> QED
    BY <1>2, <1>3, <1>10, <2>1, <2>2 DEF ClientStarts, threads, Typed, TypeOK
<1>11. CASE BackendEnds(w)
  <2>1. backend' = [backend EXCEPT ![c] = "none"] /\ Forget({s})
    BY <1>11 DEF BackendEnds, s, c
  <2>2. /\ watcher' \in [SubConns -> WorkerIds \union {None}]
        /\ edge' \subseteq SubConns /\ unread' \subseteq SubConns /\ gone' \subseteq SubConns
    BY <1>3, <2>1, ForgetTyped
  <2> QED
    BY <1>2, <1>3, <1>11, <2>1, <2>2 DEF BackendEnds, threads, Typed, TypeOK
<1>12. CASE BackendCompletes(w)
  <2>1. /\ backend' = [backend EXCEPT ![c] = "none"] /\ Forget({s})
        /\ streaming' = [streaming EXCEPT ![c] = FALSE]
    BY <1>12 DEF BackendCompletes, s, c
  <2>2. /\ watcher' \in [SubConns -> WorkerIds \union {None}]
        /\ edge' \subseteq SubConns /\ unread' \subseteq SubConns /\ gone' \subseteq SubConns
    BY <1>3, <2>1, ForgetTyped
  <2> QED
    BY <1>2, <1>3, <1>12, <2>1, <2>2 DEF BackendCompletes, threads, Typed, TypeOK
<1> QED
  BY <1>5, <1>6, <1>7, <1>8, <1>9, <1>10, <1>11, <1>12

LEMMA TypedStep ==
  ASSUME Typed, [Next]_vars
  PROVE  Typed'
<1>1. ASSUME NEW w \in WorkerIds, Worker(w) PROVE Typed'
  BY <1>1, LoopTyped, EventTyped, Zenon DEF Worker
<1>2. CASE UNCHANGED vars
  BY <1>2 DEF vars, Typed, TypeOK, InHand
<1> QED
  BY <1>1, <1>2, PeersTyped, AcceptorTyped, WakerTyped, Zenon DEF Next

(* Types, for every value of the constants.                                *)
THEOREM TypeCorrect == Spec => []TypeOK
<1>1. Spec => []Typed
  BY TypedInit, TypedStep, PTL DEF Spec
<1>2. Typed => TypeOK
  BY DEF Typed
<1> QED
  BY <1>1, <1>2, PTL

-----------------------------------------------------------------------------
(* On its way to a worker a conn is in one place, at most once.            *)
Places ==
  /\ \A a \in Acceptors : accepting[a] # None => stage[accepting[a]] = "accepted"
  /\ \A a, b \in Acceptors : accepting[a] # None /\ accepting[a] = accepting[b] => a = b
  /\ \A i \in DOMAIN queue : stage[queue[i]] = "queued"
  /\ \A i, j \in DOMAIN queue : queue[i] = queue[j] => i = j
  /\ waking # None => stage[waking] = "waking" /\ manager[waking] \in {waker, None}

(* A worker has only conns dealt to it: if they have a manager it is its.  *)
Dealt == {"watched", "freed"}
Owned ==
  \A w \in WorkerIds, c \in Conns :
    Has(w, c) => stage[c] \in Dealt /\ manager[c] \in {w, None}

IInv == Typed /\ Places /\ Owned /\ OneWorker

(* Steps after which no worker has more than before.                       *)
LEMMA Shrinks ==
  ASSUME Owned, OneWorker,
         \A w \in WorkerIds, c \in Conns : Has(w, c)' => Has(w, c),
         \A c \in Conns : stage[c] \in Dealt => stage'[c] \in Dealt /\ manager'[c] = manager[c]
  PROVE  Owned' /\ OneWorker'
<1>1. Owned'
  <2>1. SUFFICES ASSUME NEW w \in WorkerIds, NEW c \in Conns, Has(w, c)'
        PROVE  stage'[c] \in Dealt /\ manager'[c] \in {w, None}
    BY DEF Owned
  <2>2. Has(w, c)
    BY <2>1
  <2>3. stage[c] \in Dealt /\ manager[c] \in {w, None}
    BY <2>2 DEF Owned
  <2> QED
    BY <2>3
<1>2. OneWorker'
  <2>1. SUFFICES ASSUME NEW c \in Conns, NEW v \in WorkerIds, NEW w \in WorkerIds,
                        Has(v, c)', Has(w, c)'
        PROVE  v = w
    BY DEF OneWorker
  <2>2. Has(v, c) /\ Has(w, c)
    BY <2>1
  <2> QED
    BY <2>2 DEF OneWorker
<1> QED
  BY <1>1, <1>2

(* Where the events and sub_conns of workers stay as they are.             *)
LEMMA HasStays ==
  ASSUME UNCHANGED <<batch, pending, watcher>>, NEW w, NEW c
  PROVE  Has(w, c)' <=> Has(w, c)
BY DEF Has

LEMMA PeersOwned ==
  ASSUME IInv, Peers
  PROVE  Places' /\ Owned' /\ OneWorker'
<1> USE DEF IInv, Typed, TypeOK
<1>1. ASSUME NEW c \in Conns, Connects(c) PROVE Places' /\ Owned' /\ OneWorker'
  <2>1. Places'
    BY <1>1 DEF Connects, threads, Places
  <2>2. \A v \in WorkerIds, d \in Conns : Has(v, d)' => Has(v, d)
    BY <1>1, HasStays DEF Connects, loops, kernel
  <2>3. \A d \in Conns : stage[d] \in Dealt => stage'[d] \in Dealt /\ manager'[d] = manager[d]
    BY <1>1 DEF Connects, Dealt
  <2> QED
    BY <2>1, <2>2, <2>3, Shrinks
<1>2. ASSUME NEW t \in SubConns, Sends(t) \/ Leaves(t) PROVE Places' /\ Owned' /\ OneWorker'
  <2>1. Places'
    BY <1>2 DEF Sends, Leaves, conn, threads, Places
  <2>2. \A v \in WorkerIds, d \in Conns : Has(v, d)' => Has(v, d)
    BY <1>2, HasStays DEF Sends, Leaves, loops
  <2>3. \A d \in Conns : stage[d] \in Dealt => stage'[d] \in Dealt /\ manager'[d] = manager[d]
    BY <1>2 DEF Sends, Leaves, conn
  <2> QED
    BY <2>1, <2>2, <2>3, Shrinks
<1> QED
  BY <1>1, <1>2 DEF Peers

LEMMA AcceptorOwned ==
  ASSUME IInv, NEW a \in Acceptors, Acceptor(a)
  PROVE  Places' /\ Owned' /\ OneWorker'
<1> USE DEF IInv, Typed, TypeOK
<1>1. \A v \in WorkerIds, d \in Conns : Has(v, d)' => Has(v, d)
  <2>1. UNCHANGED <<batch, pending, watcher>>
    BY Zenon DEF Acceptor, Accept, Drop, HandOver, loops, kernel
  <2> QED
    BY <2>1, HasStays
<1>2. \A d \in Conns : stage[d] \in Dealt => stage'[d] \in Dealt /\ manager'[d] = manager[d]
  BY DEF Acceptor, Accept, Drop, HandOver, Dealt, Places
<1>3. CASE Accept(a)
  <2>1. PICK c \in Conns : /\ stage[c] = "backlog"
                           /\ accepting' = [accepting EXCEPT ![a] = c]
                           /\ stage' = [stage EXCEPT ![c] = "accepted"]
    BY <1>3 DEF Accept
  <2>2. UNCHANGED <<queue, waking, waker, manager>>
    BY <1>3 DEF Accept
  <2>3. \A b \in Acceptors : accepting[b] # c
    BY <2>1, WorkersAreNumbers DEF Places
  <2>4. \A i \in DOMAIN queue : queue[i] \in Conns /\ queue[i] # c
    BY <2>1 DEF Places
  <2>5. Places'
    BY <2>1, <2>2, <2>3, <2>4 DEF Places
  <2> QED
    BY <1>1, <1>2, <2>5, Shrinks
<1>4. CASE Drop(a)
  <2>1. Places'
    BY <1>4 DEF Drop, Places
  <2> QED
    BY <1>1, <1>2, <2>1, Shrinks
<1>5. ASSUME NEW reject \in BOOLEAN, HandOver(a, reject) PROVE Places' /\ Owned' /\ OneWorker'
  <2> DEFINE c == accepting[a]
  <2>1. /\ c \in Conns /\ stage[c] = "accepted"
        /\ stage' = [stage EXCEPT ![c] = "queued"] /\ queue' = Append(queue, c)
        /\ accepting' = [accepting EXCEPT ![a] = None]
        /\ UNCHANGED <<waking, waker, manager>>
    BY <1>5 DEF HandOver, Places
  <2>2. \A b \in Acceptors \ {a} : accepting[b] # c
    BY <2>1, WorkersAreNumbers DEF Places
  <2>3. \A i \in DOMAIN queue : queue[i] \in Conns /\ queue[i] # c
    BY <2>1 DEF Places
  <2>4. /\ DOMAIN queue = 1 .. Len(queue) /\ Len(queue) \in Nat
        /\ DOMAIN queue' = 1 .. Len(queue) + 1 /\ queue'[Len(queue) + 1] = c
        /\ \A i \in DOMAIN queue : queue'[i] = queue[i]
    BY <2>1
  <2> HIDE DEF c
  <2>5. /\ \A b \in Acceptors : accepting'[b] # None => stage'[accepting'[b]] = "accepted"
        /\ \A b, d \in Acceptors : accepting'[b] # None /\ accepting'[b] = accepting'[d] => b = d
    BY <2>1, <2>2 DEF Places
  <2>6. \A i \in DOMAIN queue' : stage'[queue'[i]] = "queued"
    BY <2>1, <2>3, <2>4 DEF Places
  <2>7. \A i, j \in DOMAIN queue' : queue'[i] = queue'[j] => i = j
    <3>1. SUFFICES ASSUME NEW i \in DOMAIN queue', NEW j \in DOMAIN queue', queue'[i] = queue'[j]
          PROVE  i = j
      OBVIOUS
    <3>2. CASE i \in DOMAIN queue /\ j \in DOMAIN queue
      <4>1. queue[i] = queue[j]
        BY <2>4, <3>1, <3>2
      <4> QED
        BY <3>2, <4>1 DEF Places
    <3>3. CASE i \notin DOMAIN queue \/ j \notin DOMAIN queue
      BY <2>3, <2>4, <3>1, <3>3
    <3> QED
      BY <3>2, <3>3
  <2>8. waking' # None => stage'[waking'] = "waking" /\ manager'[waking'] \in {waker', None}
    BY <2>1 DEF Places
  <2>9. Places'
    BY <2>5, <2>6, <2>7, <2>8 DEF Places
  <2> QED
    BY <1>1, <1>2, <2>9, Shrinks
<1> QED
  BY <1>3, <1>4, <1>5 DEF Acceptor

LEMMA PopOwned ==
  ASSUME IInv, Pop
  PROVE  Places' /\ Owned' /\ OneWorker'
<1> USE DEF IInv, Typed, TypeOK
<1> DEFINE c == Head(queue)
<1>1. /\ queue \in Seq(Conns) /\ queue # <<>> /\ c \in Conns
      /\ queue' = Tail(queue) /\ waking' = c
      /\ stage' = [stage EXCEPT ![c] = "waking"]
      /\ accepting' = accepting
      /\ UNCHANGED <<batch, pending, watcher>>
  BY HeadTailProperties DEF Pop, loops, kernel
<1>2. waker' = counter /\ \E m \in {counter, None} : manager' = [manager EXCEPT ![c] = m]
  BY DEF Pop, Deal
<1>3. /\ DOMAIN queue = 1 .. Len(queue) /\ Len(queue) \in Nat \ {0} /\ c = queue[1]
      /\ DOMAIN Tail(queue) = 1 .. Len(queue) - 1
      /\ \A i \in 1 .. Len(queue) - 1 : Tail(queue)[i] = queue[i + 1]
  <2>1. Len(queue) \in Nat \ {0}
    BY <1>1, EmptySeq
  <2>2. Tail(queue) \in Seq(Conns)
    BY <1>1, HeadTailProperties
  <2>3. /\ Len(Tail(queue)) = Len(queue) - 1
        /\ \A i \in 1 .. Len(Tail(queue)) : Tail(queue)[i] = queue[i + 1]
    BY <1>1, HeadTailProperties
  <2>4. DOMAIN queue = 1 .. Len(queue) /\ DOMAIN Tail(queue) = 1 .. Len(Tail(queue))
    BY <1>1, <2>2, LenProperties
  <2> QED
    BY <1>1, <2>1, <2>3, <2>4
<1>4. stage[c] = "queued"
  <2>1. 1 \in DOMAIN queue
    BY <1>3
  <2>2. stage[queue[1]] = "queued"
    BY <2>1 DEF Places
  <2> QED
    BY <1>3, <2>2
<1> HIDE DEF c
<1>5. Places'
  <2>1. \A i \in DOMAIN queue' :
          /\ i + 1 \in DOMAIN queue /\ queue'[i] = queue[i + 1]
          /\ queue'[i] # c /\ queue'[i] \in Conns
    <3>1. SUFFICES ASSUME NEW i \in 1 .. Len(queue) - 1
          PROVE  /\ i + 1 \in DOMAIN queue /\ Tail(queue)[i] = queue[i + 1]
                 /\ queue[i + 1] # c /\ queue[i + 1] \in Conns
      BY <1>1, <1>3
    <3>2. i + 1 \in DOMAIN queue /\ 1 \in DOMAIN queue /\ i + 1 # 1
      BY <1>3
    <3>3. queue[i + 1] # queue[1]
      BY <3>2 DEF Places
    <3> QED
      BY <1>1, <1>3, <3>2, <3>3
  <2>2. \A i \in DOMAIN queue' : stage'[queue'[i]] = "queued"
    BY <1>1, <2>1 DEF Places
  <2>3. \A i, j \in DOMAIN queue' : queue'[i] = queue'[j] => i = j
    <3>1. SUFFICES ASSUME NEW i \in DOMAIN queue', NEW j \in DOMAIN queue', queue'[i] = queue'[j]
          PROVE  i = j
      OBVIOUS
    <3>2. i + 1 = j + 1
      BY <2>1, <3>1 DEF Places
    <3> QED
      BY <1>1, <1>3, <3>2
  <2>4. /\ \A a \in Acceptors : accepting'[a] # None => stage'[accepting'[a]] = "accepted"
        /\ \A a, b \in Acceptors : accepting'[a] # None /\ accepting'[a] = accepting'[b] => a = b
    BY <1>1, <1>4 DEF Places
  <2>5. stage'[waking'] = "waking" /\ manager'[waking'] \in {waker', None}
    BY <1>1, <1>2
  <2> QED
    BY <2>2, <2>3, <2>4, <2>5 DEF Places
<1>6. \A d \in Conns : stage[d] \in Dealt => stage'[d] \in Dealt /\ manager'[d] = manager[d]
  BY <1>1, <1>2, <1>4 DEF Dealt
<1>7. \A v \in WorkerIds, d \in Conns : Has(v, d)' => Has(v, d)
  BY <1>1, HasStays
<1> QED
  BY <1>5, <1>6, <1>7, Shrinks

LEMMA WatchOwned ==
  ASSUME IInv, Watch
  PROVE  Places' /\ Owned' /\ OneWorker'
<1> USE DEF IInv, Typed, TypeOK
<1> DEFINE c == waking
<1>1. /\ c \in Conns /\ waking' = None
      /\ UNCHANGED <<manager, accepting, queue, waker, batch, pending>>
  BY DEF Watch, loops
<1>2. stage[c] = "waking" /\ manager[c] \in {waker, None}
  BY <1>1, WorkersAreNumbers DEF Watch, Places
<1>3. CASE c \in rejected
  <2>1. UNCHANGED <<stage, watcher>>
    BY <1>3 DEF Watch
  <2>2. Places'
    BY <1>1, <2>1 DEF Places
  <2>3. \A v \in WorkerIds, d \in Conns : Has(v, d)' => Has(v, d)
    BY <1>1, <2>1, HasStays
  <2>4. \A d \in Conns : stage[d] \in Dealt => stage'[d] \in Dealt /\ manager'[d] = manager[d]
    BY <1>1, <2>1
  <2> QED
    BY <2>2, <2>3, <2>4, Shrinks
<1>4. CASE c \notin rejected
  <2>1. /\ stage' = [stage EXCEPT ![c] = "watched"]
        /\ watcher' = [watcher EXCEPT ![Client(c)] = waker]
    BY <1>4 DEF Watch
  <2>2. Places'
    BY <1>1, <1>2, <2>1 DEF Places
  <2>3. \A v \in WorkerIds : ~Has(v, c)
    BY <1>1, <1>2 DEF Owned, Dealt
  <2>4. ASSUME NEW v \in WorkerIds, NEW d \in Conns, Has(v, d)'
        PROVE  IF d = c THEN v = waker ELSE Has(v, d)
    <3>1. CASE \/ \E i \in DOMAIN batch[v] : batch[v][i].sub[1] = d
               \/ \E i \in DOMAIN pending[v] : pending[v][i][1] = d
      <4>1. Has(v, d)
        BY <3>1 DEF Has
      <4> QED
        BY <2>3, <4>1
    <3>2. ASSUME NEW t \in {Client(d), Backend(d)}, watcher'[t] = v
          PROVE  IF d = c THEN v = waker ELSE Has(v, d)
      <4>1. t \in SubConns
        BY DEF Client, Backend, SubConns
      <4>2. CASE t = Client(c)
        <5>1. d = c
          BY <4>2 DEF Client, Backend
        <5>2. v = waker
          BY <2>1, <3>2, <4>1, <4>2
        <5> QED
          BY <5>1, <5>2
      <4>3. CASE t # Client(c)
        <5>1. watcher[t] = v
          BY <2>1, <3>2, <4>1, <4>3
        <5>2. Has(v, d)
          BY <5>1 DEF Has
        <5> QED
          BY <2>3, <5>2
      <4> QED
        BY <4>2, <4>3
    <3>3. \/ \E i \in DOMAIN batch[v] : batch[v][i].sub[1] = d
          \/ \E i \in DOMAIN pending[v] : pending[v][i][1] = d
          \/ \E t \in {Client(d), Backend(d)} : watcher'[t] = v
      BY <1>1, <2>4 DEF Has, Client, Backend
    <3> QED
      BY <3>1, <3>2, <3>3, Zenon
  <2>5. Owned'
    <3>1. SUFFICES ASSUME NEW v \in WorkerIds, NEW d \in Conns, Has(v, d)'
          PROVE  stage'[d] \in Dealt /\ manager'[d] \in {v, None}
      BY DEF Owned
    <3>2. CASE d = c
      BY <1>1, <1>2, <2>1, <2>4, <3>1, <3>2 DEF Dealt
    <3>3. CASE d # c
      <4>1. Has(v, d)
        BY <2>4, <3>1, <3>3
      <4> QED
        BY <1>1, <2>1, <3>3, <4>1 DEF Owned
    <3> QED
      BY <3>2, <3>3
  <2>6. OneWorker'
    <3>1. SUFFICES ASSUME NEW d \in Conns, NEW v \in WorkerIds, NEW w \in WorkerIds,
                          Has(v, d)', Has(w, d)'
          PROVE  v = w
      BY DEF OneWorker
    <3>2. IF d = c THEN v = waker /\ w = waker ELSE Has(v, d) /\ Has(w, d)
      BY <2>4, <3>1
    <3> QED
      BY <3>2 DEF OneWorker
  <2> QED
    BY <2>2, <2>5, <2>6
<1> QED
  BY <1>3, <1>4

-----------------------------------------------------------------------------
(* Steps of workers give a worker nothing new, deal nothing out, and a     *)
(* conn that is dealt out stays so.                                        *)
LEMMA WorkerShrinks ==
  ASSUME IInv, UNCHANGED threads, manager' = manager,
         \A v \in WorkerIds, d \in Conns : Has(v, d)' => Has(v, d),
         \A d \in Conns : stage'[d] = stage[d] \/ (stage[d] \in Dealt /\ stage'[d] \in Dealt)
  PROVE  Places' /\ Owned' /\ OneWorker'
<1> USE DEF IInv, Typed, TypeOK
<1>1. \A d \in Conns : stage[d] \in {"accepted", "queued", "waking"} => stage'[d] = stage[d]
  BY DEF Dealt
<1>2. UNCHANGED <<accepting, queue, waking, waker>>
  BY DEF threads
<1>3. Places'
  <2>1. \A a \in Acceptors : accepting[a] # None => stage'[accepting[a]] = "accepted"
    BY <1>1 DEF Places
  <2>2. \A i \in DOMAIN queue : stage'[queue[i]] = "queued"
    <3>1. \A i \in DOMAIN queue : queue[i] \in Conns
      OBVIOUS
    <3> QED
      BY <1>1, <3>1 DEF Places
  <2>3. waking # None => stage'[waking] = "waking"
    BY <1>1 DEF Places
  <2> QED
    BY <1>2, <2>1, <2>2, <2>3 DEF Places
<1>4. \A d \in Conns : stage[d] \in Dealt => stage'[d] \in Dealt /\ manager'[d] = manager[d]
  OBVIOUS
<1> QED
  BY <1>3, <1>4, Shrinks

LEMMA LoopOwned ==
  ASSUME IInv, NEW w \in WorkerIds, Start(w) \/ Drain(w) \/ EpollWait(w) \/ StaleEvent(w)
  PROVE  Places' /\ Owned' /\ OneWorker'
<1> USE DEF IInv, Typed, TypeOK
<1>1. UNCHANGED threads /\ UNCHANGED <<stage, manager>>
  BY Zenon DEF Start, Drain, EpollWait, StaleEvent, conn
<1>2. SUFFICES ASSUME NEW v \in WorkerIds, NEW d \in Conns, Has(v, d)' PROVE Has(v, d)
  BY <1>1, WorkerShrinks
<1>3. CASE Start(w) \/ StaleEvent(w)
  <2>1. UNCHANGED <<batch, pending, watcher>>
    BY <1>3, Zenon DEF Start, StaleEvent, loops, kernel
  <2> QED
    BY <1>2, <2>1, HasStays
<1>4. CASE Drain(w)
  <2> DEFINE new == {Backend(pending[w][i][1]) : i \in DOMAIN pending[w]}
  <2>1. batch' = batch /\ pending' = [pending EXCEPT ![w] = <<>>]
    BY <1>4 DEF Drain
  <2>2. \/ watcher' = watcher
        \/ watcher' = [s \in SubConns |-> IF s \in new THEN w ELSE watcher[s]]
    BY <1>4 DEF Drain
  <2>3. CASE \E i \in DOMAIN batch'[v] : batch'[v][i].sub[1] = d
    BY <2>1, <2>3 DEF Has
  <2>4. CASE \E i \in DOMAIN pending'[v] : pending'[v][i][1] = d
    <3>1. v # w
      BY <2>1, <2>4
    <3>2. pending'[v] = pending[v]
      BY <2>1, <3>1
    <3> QED
      BY <2>4, <3>2 DEF Has
  <2>5. ASSUME NEW t \in {Client(d), Backend(d)}, watcher'[t] = v PROVE Has(v, d)
    <3>1. t \in SubConns /\ t[1] = d
      BY DEF Client, Backend, SubConns
    <3>2. CASE watcher[t] = v
      BY <3>2 DEF Has
    <3>3. CASE watcher[t] # v
      <4>1. t \in new /\ v = w
        <5> HIDE DEF new
        <5> QED
          BY <2>2, <2>5, <3>1, <3>3
      <4>2. PICK i \in DOMAIN pending[w] : t = Backend(pending[w][i][1])
        BY <4>1
      <4>3. pending[w][i][1] = d
        BY <3>1, <4>2 DEF Backend
      <4> QED
        BY <4>1, <4>3 DEF Has
    <3> QED
      BY <3>2, <3>3
  <2>6. \/ \E i \in DOMAIN batch'[v] : batch'[v][i].sub[1] = d
        \/ \E i \in DOMAIN pending'[v] : pending'[v][i][1] = d
        \/ \E t \in {Client(d), Backend(d)} : watcher'[t] = v
    BY <1>2 DEF Has, Client, Backend
  <2> QED
    BY <2>3, <2>4, <2>5, <2>6, Zenon
<1>5. CASE EpollWait(w)
  <2> DEFINE Mine == {t \in edge : watcher[t] = w}
             Ready == UNION {Events(s) : s \in Mine}
  <2>1. UNCHANGED <<pending, watcher>>
    BY <1>5 DEF EpollWait
  <2>2. PICK n \in 1 .. BatchSize : \E e \in [1 .. n -> Ready] :
          batch' = [batch EXCEPT ![w] = e]
    BY <1>5 DEF EpollWait
  <2>3. PICK e \in [1 .. n -> Ready] : batch' = [batch EXCEPT ![w] = e]
    BY <2>2
  <2>4. CASE \E i \in DOMAIN batch'[v] : batch'[v][i].sub[1] = d
    <3>1. CASE v # w
      <4>1. batch'[v] = batch[v]
        BY <2>3, <3>1
      <4> QED
        BY <2>4, <4>1 DEF Has
    <3>2. CASE v = w
      <4>1. batch'[v] = e
        BY <2>3, <3>2
      <4>2. PICK i \in 1 .. n : e[i].sub[1] = d
        BY <2>4, <4>1
      <4>3. e[i] \in Ready
        BY <2>3
      <4>4. PICK s \in Mine : e[i] \in Events(s)
        BY <4>3
      <4>5. e[i].sub = s /\ s \in SubConns /\ watcher[s] = w
        BY <4>4 DEF Events
      <4>6. s \in {Client(d), Backend(d)}
        BY <4>2, <4>5 DEF SubConns, Client, Backend
      <4> QED
        BY <3>2, <4>5, <4>6 DEF Has
    <3> QED
      BY <3>1, <3>2
  <2>5. CASE \/ \E i \in DOMAIN pending'[v] : pending'[v][i][1] = d
             \/ \E t \in {Client(d), Backend(d)} : watcher'[t] = v
    BY <2>1, <2>5 DEF Has
  <2>6. \/ \E i \in DOMAIN batch'[v] : batch'[v][i].sub[1] = d
        \/ \E i \in DOMAIN pending'[v] : pending'[v][i][1] = d
        \/ \E t \in {Client(d), Backend(d)} : watcher'[t] = v
    BY <1>2 DEF Has, Client, Backend
  <2> QED
    BY <2>4, <2>5, <2>6, Zenon
<1> QED
  BY <1>3, <1>4, <1>5

LEMMA EventOwned ==
  ASSUME IInv, NEW w \in WorkerIds,
         \/ ClientEnds(w) \/ ClientWritable(w) \/ ClientReads(w) \/ ClientStarts(w)
         \/ ClientRefused(w) \/ BackendEnds(w) \/ BackendReads(w) \/ BackendCompletes(w)
  PROVE  Places' /\ Owned' /\ OneWorker'
<1> DEFINE c == Event(w).sub[1]
<1>1. /\ Typed /\ at[w] = "batch" /\ Handled(w)
      /\ UNCHANGED threads /\ manager' = manager
  BY Zenon DEF IInv, ClientEnds, ClientWritable, ClientReads, ClientStarts, ClientRefused,
     BackendEnds, BackendReads, BackendCompletes, HandlesAt, conn
<1>2. /\ Event(w) \in EventType /\ 1 \in DOMAIN batch[w] /\ Event(w) = batch[w][1]
      /\ \A v \in WorkerIds \ {w} : batch'[v] = batch[v]
      /\ \A i \in DOMAIN batch'[w] :
           i + 1 \in DOMAIN batch[w] /\ batch'[w][i] = batch[w][i + 1]
  BY <1>1, HandledTyped
<1>3. c \in Conns /\ Has(w, c)
  <2>1. c \in Conns
    BY <1>2 DEF EventType, SubConns
  <2> QED
    BY <1>2, <2>1 DEF Has
<1>4. stage[c] \in Dealt /\ manager[c] \in {w, None}
  BY <1>3 DEF IInv, Owned
<1>5. \A v \in WorkerIds, d \in Conns :
        (\E i \in DOMAIN batch'[v] : batch'[v][i].sub[1] = d) => Has(v, d)
  <2>1. SUFFICES ASSUME NEW v \in WorkerIds, NEW d \in Conns, NEW i \in DOMAIN batch'[v],
                        batch'[v][i].sub[1] = d
        PROVE  Has(v, d)
    OBVIOUS
  <2>2. \E j \in DOMAIN batch[v] : batch[v][j] = batch'[v][i]
    BY <1>2
  <2> QED
    BY <2>1, <2>2 DEF Has
<1> HIDE DEF c
<1>6. \A d \in Conns : stage'[d] = stage[d] \/ (stage[d] \in Dealt /\ stage'[d] \in Dealt)
  <2>1. stage' = stage \/ stage' = [stage EXCEPT ![c] = "freed"]
    BY Zenon DEF c, ClientEnds, ClientWritable, ClientReads, ClientStarts, ClientRefused,
       BackendEnds, BackendReads, BackendCompletes, FreeConn, conn
  <2> QED
    BY <1>1, <1>4, <2>1 DEF Dealt, Typed, TypeOK
<1>7. \/ watcher' = watcher
      \/ \E S \in SUBSET SubConns :
           watcher' = [s \in SubConns |-> IF s \in S THEN None ELSE watcher[s]]
  <2>1. \/ watcher' = watcher
        \/ Forget({Client(c), Backend(c)}) \/ Forget({Event(w).sub})
    BY Zenon DEF c, ClientEnds, ClientWritable, ClientReads, ClientStarts, ClientRefused,
       BackendEnds, BackendReads, BackendCompletes, FreeConn, kernel
  <2>2. {Client(c), Backend(c)} \subseteq SubConns /\ {Event(w).sub} \subseteq SubConns
    BY <1>2, <1>3 DEF EventType, SubConns, Client, Backend
  <2> QED
    BY <2>1, <2>2 DEF Forget
<1>8. \A v \in WorkerIds, s \in SubConns : watcher'[s] = v => watcher[s] = v
  BY <1>7, WorkersAreNumbers
<1>9. \/ pending' = pending
      \/ manager[c] = w /\ pending' = [pending EXCEPT ![w] = Append(@, Backend(c))]
  <2>1. \/ pending' = pending
        \/ manager[c] # None /\ pending' = [pending EXCEPT ![manager[c]] = Append(@, Backend(c))]
    BY Zenon DEF c, ClientEnds, ClientWritable, ClientReads, ClientStarts, ClientRefused,
       BackendEnds, BackendReads, BackendCompletes
  <2> QED
    BY <1>4, <2>1
<1>10. \A v \in WorkerIds, d \in Conns :
         (\E i \in DOMAIN pending'[v] : pending'[v][i][1] = d) => Has(v, d)
  <2>1. SUFFICES ASSUME NEW v \in WorkerIds, NEW d \in Conns, NEW i \in DOMAIN pending'[v],
                        pending'[v][i][1] = d
        PROVE  Has(v, d)
    OBVIOUS
  <2>2. CASE pending'[v] = pending[v]
    BY <2>1, <2>2 DEF Has
  <2>3. CASE pending'[v] # pending[v]
    <3>1. v = w /\ pending'[w] = Append(pending[w], Backend(c))
      BY <1>1, <1>9, <2>3 DEF Typed, TypeOK
    <3>2. pending[w] \in Seq(Conns \X {"backend"}) /\ Backend(c) \in Conns \X {"backend"}
      BY <1>1, <1>3 DEF Typed, TypeOK, Backend
    <3>3. CASE i \in DOMAIN pending[w]
      <4>1. pending'[w][i] = pending[w][i]
        BY <3>1, <3>2, <3>3
      <4> QED
        BY <2>1, <3>1, <3>3, <4>1 DEF Has
    <3>4. CASE i \notin DOMAIN pending[w]
      <4>1. pending'[w][i] = Backend(c)
        BY <2>1, <3>1, <3>2, <3>4
      <4>2. d = c
        BY <2>1, <3>1, <4>1 DEF Backend
      <4> QED
        BY <1>3, <3>1, <4>2
    <3> QED
      BY <3>3, <3>4
  <2> QED
    BY <2>2, <2>3
<1>11. \A v \in WorkerIds, d \in Conns : Has(v, d)' => Has(v, d)
  <2>1. SUFFICES ASSUME NEW v \in WorkerIds, NEW d \in Conns, Has(v, d)' PROVE Has(v, d)
    OBVIOUS
  <2>2. CASE \E t \in {Client(d), Backend(d)} : watcher'[t] = v
    <3>1. {Client(d), Backend(d)} \subseteq SubConns
      BY DEF Client, Backend, SubConns
    <3> QED
      BY <1>8, <2>2, <3>1 DEF Has
  <2>3. \/ \E i \in DOMAIN batch'[v] : batch'[v][i].sub[1] = d
        \/ \E i \in DOMAIN pending'[v] : pending'[v][i][1] = d
        \/ \E t \in {Client(d), Backend(d)} : watcher'[t] = v
    BY <2>1 DEF Has, Client, Backend
  <2> QED
    BY <1>5, <1>10, <2>2, <2>3, Zenon
<1> QED
  BY <1>1, <1>6, <1>11, WorkerShrinks

-----------------------------------------------------------------------------
LEMMA OwnedInit == Init => IInv
<1>1. SUFFICES ASSUME Init PROVE IInv
  OBVIOUS
<1>2. Typed
  BY <1>1, TypedInit
<1>3. Places
  BY <1>1 DEF Init, Places
<1>4. ASSUME NEW w \in WorkerIds, NEW c \in Conns PROVE ~Has(w, c)
  <2>1. batch[w] = <<>> /\ pending[w] = <<>> /\ DOMAIN <<>> = {}
    BY <1>1 DEF Init
  <2>2. watcher[Client(c)] = None /\ watcher[Backend(c)] = None
    BY <1>1 DEF Init, SubConns, Client, Backend
  <2> QED
    BY <2>1, <2>2, WorkersAreNumbers DEF Has
<1>5. Owned /\ OneWorker
  BY <1>4 DEF Owned, OneWorker
<1> QED
  BY <1>2, <1>3, <1>5 DEF IInv

LEMMA OwnedStep ==
  ASSUME IInv, [Next]_vars
  PROVE  IInv'
<1>1. Typed'
  BY TypedStep DEF IInv
<1>2. ASSUME NEW w \in WorkerIds, Worker(w) PROVE Places' /\ Owned' /\ OneWorker'
  BY <1>2, LoopOwned, EventOwned, Zenon DEF Worker
<1>3. ASSUME UNCHANGED vars PROVE Places' /\ Owned' /\ OneWorker'
  <2>1. Places'
    BY <1>3 DEF vars, IInv, Places
  <2>2. \A v \in WorkerIds, d \in Conns : Has(v, d)' => Has(v, d)
    BY <1>3, HasStays DEF vars
  <2>3. \A d \in Conns : stage[d] \in Dealt => stage'[d] \in Dealt /\ manager'[d] = manager[d]
    BY <1>3 DEF vars
  <2>4. Owned' /\ OneWorker'
    BY <2>2, <2>3, Shrinks DEF IInv
  <2> QED
    BY <2>1, <2>4
<1>4. Places' /\ Owned' /\ OneWorker'
  <2>1. CASE Next
    BY <1>2, <2>1, PeersOwned, AcceptorOwned, PopOwned, WatchOwned, Zenon DEF Next, Waker
  <2> QED
    BY <1>3, <2>1
<1> QED
  BY <1>1, <1>4 DEF IInv

(* However many workers there are and however they are scheduled, all the  *)
(* events of a connection, its sub_conns and those waiting to be watched   *)
(* are with one worker.                                                    *)
THEOREM StaysWithOneWorker == Spec => []OneWorker
<1>1. Spec => []IInv
  BY OwnedInit, OwnedStep, PTL DEF Spec
<1>2. IInv => OneWorker
  BY DEF IInv
<1> QED
  BY <1>1, <1>2, PTL

-----------------------------------------------------------------------------
(* Without a batch in hand there are no events.                            *)
NoneLeft == \A w \in WorkerIds : at[w] # "batch" => batch[w] = <<>>

InSomeHand(s) ==
  \E w \in WorkerIds : \E i \in DOMAIN batch[w] : batch[w][i].sub = s /\ batch[w][i].in

LInv == Typed /\ NoneLeft /\ NoLostEdge

(* Handling an event leaves the others in hand.                            *)
LEMMA KeptInHand ==
  ASSUME Typed, NEW w \in WorkerIds, at[w] = "batch", Handled(w), NEW s, InSomeHand(s),
         ~(s = Event(w).sub /\ Event(w).in)
  PROVE  InSomeHand(s)'
<1>1. PICK v \in WorkerIds : \E i \in DOMAIN batch[v] : batch[v][i].sub = s /\ batch[v][i].in
  BY DEF InSomeHand
<1>2. PICK i \in DOMAIN batch[v] : batch[v][i].sub = s /\ batch[v][i].in
  BY <1>1
<1>3. /\ Event(w) = batch[w][1]
      /\ \A u \in WorkerIds \ {w} : batch'[u] = batch[u]
      /\ \A j \in DOMAIN batch[w] \ {1} :
           j - 1 \in DOMAIN batch'[w] /\ batch'[w][j - 1] = batch[w][j]
  BY HandledTyped
<1>4. \E j \in DOMAIN batch'[v] : batch'[v][j].sub = s /\ batch'[v][j].in
  <2>1. CASE v # w
    BY <1>2, <1>3, <2>1
  <2>2. CASE v = w
    <3>1. i # 1
      BY <1>2, <1>3, <2>2
    <3>2. i - 1 \in DOMAIN batch'[v] /\ batch'[v][i - 1] = batch[v][i]
      BY <1>3, <2>2, <3>1
    <3> QED
      BY <1>2, <3>2
  <2> QED
    BY <2>1, <2>2
<1> QED
  BY <1>4 DEF InSomeHand

(* Steps that leave events and sub_conns where they are.                   *)
LEMMA EdgeStays ==
  ASSUME LInv, UNCHANGED <<at, batch, watcher>>, edge \subseteq edge',
         \A s \in SubConns : s \in unread' \union gone' => s \in unread \union gone \/ s \in edge'
  PROVE  NoneLeft' /\ NoLostEdge'
BY DEF LInv, NoneLeft, NoLostEdge

LEMMA LoopEdge ==
  ASSUME LInv, NEW w \in WorkerIds, Start(w) \/ Drain(w) \/ EpollWait(w) \/ StaleEvent(w)
  PROVE  NoneLeft' /\ NoLostEdge'
<1> USE DEF LInv, Typed, TypeOK
<1>1. CASE Start(w)
  <2>1. at' = [at EXCEPT ![w] = "drain"] /\ at[w] = "start" /\ UNCHANGED <<batch, watcher, edge, unread, gone>>
    BY <1>1 DEF Start, kernel
  <2> QED
    BY <2>1 DEF NoneLeft, NoLostEdge
<1>2. CASE StaleEvent(w)
  BY <1>2, EdgeStays DEF StaleEvent, loops, kernel
<1>3. CASE Drain(w)
  <2> DEFINE new == {Backend(pending[w][i][1]) : i \in DOMAIN pending[w]}
  <2>1. /\ at[w] = "drain" /\ at' = [at EXCEPT ![w] = "wait"]
        /\ UNCHANGED <<batch, unread, gone>>
    BY <1>3 DEF Drain
  <2>2. \/ UNCHANGED <<watcher, edge>>
        \/ /\ watcher' = [s \in SubConns |-> IF s \in new THEN w ELSE watcher[s]]
           /\ edge' = edge \union new
    BY <1>3 DEF Drain
  <2> HIDE DEF new
  <2>3. NoneLeft'
    BY <2>1 DEF NoneLeft
  <2>4. ASSUME NEW s \in SubConns, watcher'[s] # None PROVE s \in edge' \/ watcher[s] # None
    BY <2>2, <2>4
  <2>5. edge \subseteq edge'
    BY <2>2
  <2> QED
    BY <2>1, <2>3, <2>4, <2>5 DEF NoLostEdge
<1>4. CASE EpollWait(w)
  <2> DEFINE Mine == {t \in edge : watcher[t] = w}
             Ready == UNION {Events(s) : s \in Mine}
  <2>1. at[w] = "wait" /\ at' = [at EXCEPT ![w] = "batch"] /\ UNCHANGED <<watcher, unread, gone>>
    BY <1>4 DEF EpollWait
  <2>2. PICK n \in 1 .. BatchSize : \E e \in [1 .. n -> Ready] :
          /\ batch' = [batch EXCEPT ![w] = e]
          /\ edge' = edge \ {e[i].sub : i \in 1 .. n}
    BY <1>4 DEF EpollWait
  <2>3. PICK e \in [1 .. n -> Ready] :
          /\ batch' = [batch EXCEPT ![w] = e]
          /\ edge' = edge \ {e[i].sub : i \in 1 .. n}
    BY <2>2
  <2>4. NoneLeft'
    BY <2>1, <2>3 DEF NoneLeft
  <2>5. \A i \in 1 .. n : e[i].in = (e[i].sub \in unread \union gone)
    <3>1. SUFFICES ASSUME NEW i \in 1 .. n PROVE e[i].in = (e[i].sub \in unread \union gone)
      OBVIOUS
    <3>2. e[i] \in Ready
      BY <2>3
    <3>3. PICK t \in Mine : e[i] \in Events(t)
      BY <3>2
    <3>4. e[i].sub = t /\ e[i].in \in {t \in unread \union gone}
      BY <3>3, Zenon DEF Events
    <3>5. e[i].in = (t \in unread \union gone)
      BY <3>4, Zenon
    <3> QED
      BY <3>4, <3>5, Zenon
  <2>6. NoLostEdge'
    <3>1. SUFFICES ASSUME NEW s \in SubConns, watcher[s] # None, s \in unread \union gone, s \notin edge'
          PROVE  InSomeHand(s)'
      BY <2>1 DEF NoLostEdge, InSomeHand
    <3>2. CASE s \in edge
      <4>1. PICK i \in 1 .. n : s = e[i].sub
        BY <2>3, <3>1, <3>2
      <4>2. e[i].in
        BY <2>5, <3>1, <4>1
      <4>3. batch'[w] = e /\ i \in DOMAIN e
        BY <2>3
      <4> QED
        BY <4>1, <4>2, <4>3 DEF InSomeHand
    <3>3. CASE s \notin edge
      <4>1. PICK v \in WorkerIds : \E i \in DOMAIN batch[v] : batch[v][i].sub = s /\ batch[v][i].in
        BY <3>1, <3>3 DEF NoLostEdge
      <4>2. v # w
        <5>1. batch[w] = <<>>
          BY <2>1 DEF NoneLeft
        <5> QED
          BY <4>1, <5>1
      <4>3. batch'[v] = batch[v]
        BY <2>3, <4>2
      <4> QED
        BY <4>1, <4>3 DEF InSomeHand
    <3> QED
      BY <3>2, <3>3
  <2> QED
    BY <2>4, <2>6
<1> QED
  BY <1>1, <1>2, <1>3, <1>4

LEMMA EventEdge ==
  ASSUME LInv, NEW w \in WorkerIds,
         \/ ClientEnds(w) \/ ClientWritable(w) \/ ClientReads(w) \/ ClientStarts(w)
         \/ ClientRefused(w) \/ BackendEnds(w) \/ BackendReads(w) \/ BackendCompletes(w)
  PROVE  NoneLeft' /\ NoLostEdge'
<1> DEFINE t == Event(w).sub
<1>1. Typed /\ at[w] = "batch" /\ Handled(w)
  BY Zenon DEF LInv, ClientEnds, ClientWritable, ClientReads, ClientStarts, ClientRefused,
     BackendEnds, BackendReads, BackendCompletes, HandlesAt
<1>2. /\ Event(w) \in EventType
      /\ at'[w] # "batch" => batch'[w] = <<>>
      /\ \A v \in WorkerIds \ {w} : batch'[v] = batch[v]
  BY <1>1, HandledTyped
<1>3. NoneLeft'
  <2>1. SUFFICES ASSUME NEW v \in WorkerIds, at'[v] # "batch" PROVE batch'[v] = <<>>
    BY DEF NoneLeft
  <2>2. CASE v = w
    BY <1>2, <2>1, <2>2
  <2>3. CASE v # w
    <3>1. at'[v] = at[v]
      BY <1>1, <2>3 DEF Handled, Typed, TypeOK
    <3> QED
      BY <1>2, <2>1, <2>3, <3>1 DEF LInv, NoneLeft
  <2> QED
    BY <2>2, <2>3
<1>4. ASSUME NEW S, Forget(S), t \in S PROVE NoLostEdge'
  <2>1. SUFFICES ASSUME NEW s \in SubConns, watcher'[s] # None, s \in unread' \union gone'
        PROVE  s \in edge' \/ InSomeHand(s)'
    BY DEF NoLostEdge, InSomeHand
  <2>2. s \notin S /\ watcher[s] # None /\ s \in unread \union gone
    BY <1>4, <2>1 DEF Forget
  <2>3. s \in edge \/ InSomeHand(s)
    BY <2>2 DEF LInv, NoLostEdge, InSomeHand
  <2>4. CASE s \in edge
    BY <1>4, <2>2, <2>4 DEF Forget
  <2>5. CASE InSomeHand(s)
    BY <1>1, <1>4, <2>2, <2>5, KeptInHand
  <2> QED
    BY <2>3, <2>4, <2>5
<1>5. ASSUME UNCHANGED <<watcher, edge, gone>>,
             \/ unread' = unread /\ ~Event(w).in
             \/ unread' = unread \ {t} /\ t \notin gone
      PROVE  NoLostEdge'
  <2>1. SUFFICES ASSUME NEW s \in SubConns, watcher'[s] # None, s \in unread' \union gone'
        PROVE  s \in edge' \/ InSomeHand(s)'
    BY DEF NoLostEdge, InSomeHand
  <2>2. watcher[s] # None /\ s \in unread \union gone /\ ~(s = t /\ Event(w).in)
    BY <1>5, <2>1
  <2>3. s \in edge \/ InSomeHand(s)
    BY <2>2 DEF LInv, NoLostEdge, InSomeHand
  <2> QED
    BY <1>1, <1>5, <2>2, <2>3, KeptInHand
<1>6. CASE ClientEnds(w) \/ ClientRefused(w)
  <2>1. Forget({Client(t[1]), Backend(t[1])}) /\ t[2] = "client"
    BY <1>6 DEF ClientEnds, ClientRefused, FreeConn, HandlesAt
  <2>2. t \in {Client(t[1]), Backend(t[1])}
    BY <1>2, <2>1 DEF EventType, SubConns, Client
  <2> QED
    BY <1>3, <1>4, <2>1, <2>2
<1>7. CASE BackendEnds(w) \/ BackendCompletes(w)
  <2>1. Forget({t})
    BY <1>7 DEF BackendEnds, BackendCompletes
  <2> QED
    BY <1>3, <1>4, <2>1
<1>8. CASE ClientWritable(w)
  <2>1. UNCHANGED <<watcher, edge, gone, unread>> /\ ~Event(w).in
    BY <1>8 DEF ClientWritable, kernel
  <2> QED
    BY <1>3, <1>5, <2>1
<1>9. CASE ClientReads(w) \/ ClientStarts(w)
  <2>1. UNCHANGED <<watcher, edge, gone>> /\ unread' = unread \ {t} /\ t \notin gone
    BY <1>9 DEF ClientReads, ClientStarts, Reads, Ended
  <2> QED
    BY <1>3, <1>5, <2>1
<1>10. CASE BackendReads(w)
  <2>1. UNCHANGED <<watcher, edge, gone>>
    BY <1>10 DEF BackendReads
  <2>2. \/ unread' = unread /\ ~Event(w).in
        \/ unread' = unread \ {t} /\ t \notin gone
    BY <1>10 DEF BackendReads, Ended
  <2> QED
    BY <1>3, <1>5, <2>1, <2>2
<1> QED
  BY <1>6, <1>7, <1>8, <1>9, <1>10

LEMMA EdgeInit == Init => LInv
<1>1. SUFFICES ASSUME Init PROVE LInv
  OBVIOUS
<1>2. Typed /\ NoneLeft /\ NoLostEdge
  BY <1>1, TypedInit DEF Init, NoneLeft, NoLostEdge
<1> QED
  BY <1>2 DEF LInv

LEMMA EdgeStep ==
  ASSUME LInv, [Next]_vars
  PROVE  LInv'
<1>1. Typed'
  BY TypedStep DEF LInv
<1>2. ASSUME Peers PROVE NoneLeft' /\ NoLostEdge'
  <2>1. ASSUME NEW c \in Conns, Connects(c) PROVE NoneLeft' /\ NoLostEdge'
    BY <2>1, EdgeStays DEF Connects, loops, kernel
  <2>2. ASSUME NEW s \in SubConns, Sends(s) \/ Leaves(s) PROVE NoneLeft' /\ NoLostEdge'
    BY <2>2, EdgeStays DEF Sends, Leaves, loops
  <2> QED
    BY <1>2, <2>1, <2>2 DEF Peers
<1>3. ASSUME NEW a \in Acceptors, Acceptor(a) PROVE NoneLeft' /\ NoLostEdge'
  <2>1. UNCHANGED <<at, batch, watcher, edge, unread, gone>>
    BY <1>3, Zenon DEF Acceptor, Accept, Drop, HandOver, loops, kernel
  <2> QED
    BY <2>1, EdgeStays
<1>4. ASSUME Pop PROVE NoneLeft' /\ NoLostEdge'
  BY <1>4, EdgeStays DEF Pop, loops, kernel
<1>5. ASSUME Watch PROVE NoneLeft' /\ NoLostEdge'
  <2>1. UNCHANGED <<at, batch, unread, gone>>
    BY <1>5 DEF Watch, loops
  <2>2. \/ UNCHANGED <<watcher, edge>>
        \/ /\ watcher' = [watcher EXCEPT ![Client(waking)] = waker]
           /\ edge' = edge \union {Client(waking)}
    BY <1>5 DEF Watch
  <2>3. NoneLeft'
    BY <2>1 DEF LInv, NoneLeft
  <2>4. edge \subseteq edge' /\ \A s \in SubConns : watcher'[s] # None => s \in edge' \/ watcher[s] # None
    BY <2>2 DEF LInv, Typed, TypeOK
  <2> QED
    BY <2>1, <2>3, <2>4 DEF LInv, NoLostEdge
<1>6. ASSUME NEW w \in WorkerIds, Worker(w) PROVE NoneLeft' /\ NoLostEdge'
  BY <1>6, LoopEdge, EventEdge, Zenon DEF Worker
<1>7. ASSUME UNCHANGED vars PROVE NoneLeft' /\ NoLostEdge'
  BY <1>7, EdgeStays DEF vars
<1>8. NoneLeft' /\ NoLostEdge'
  <2>1. CASE Next
    BY <1>2, <1>3, <1>4, <1>5, <1>6, <2>1, Zenon DEF Next, Waker
  <2> QED
    BY <1>7, <2>1
<1> QED
  BY <1>1, <1>8 DEF LInv

(* What a peer has sent, or that it is gone, is never forgotten, whatever  *)
(* is closed, freed or started while its event waits.                      *)
THEOREM EdgesKept == Spec => []NoLostEdge
<1>1. Spec => []LInv
  BY EdgeInit, EdgeStep, PTL DEF Spec
<1>2. LInv => NoLostEdge
  BY DEF LInv
<1> QED
  BY <1>1, <1>2, PTL

-----------------------------------------------------------------------------
(* A batch has one event of a sub_conn at most; who has a backend that     *)
(* waits to be watched has no event of that conn; a backend with events is *)
(* that of a response being streamed, or went with its conn; one that is   *)
(* watched is, too; a worker does not wait for events while others wait    *)
(* for it.                                                                 *)
OncePerBatch ==
  \A w \in WorkerIds : \A i, j \in DOMAIN batch[w] : batch[w][i].sub = batch[w][j].sub => i = j

WaitsAlone ==
  \A w \in WorkerIds : \A i \in DOMAIN pending[w] :
    /\ backend[pending[w][i][1]] = "pending" /\ streaming[pending[w][i][1]]
    /\ \A j \in DOMAIN batch[w] : batch[w][j].sub[1] # pending[w][i][1]

Answering ==
  \A w \in WorkerIds : \A j \in DOMAIN batch[w] :
    batch[w][j].sub[2] = "backend" =>
      streaming[batch[w][j].sub[1]] \/ stage[batch[w][j].sub[1]] = "freed"

WatchedStreams == \A c \in Conns : watcher[Backend(c)] # None => streaming[c]

Drained == \A w \in WorkerIds : at[w] = "wait" => pending[w] = <<>>

Settled == OncePerBatch /\ WaitsAlone /\ Answering /\ WatchedStreams /\ Drained

PInv == IInv /\ Settled

(* Steps of the threads before the workers.                                *)
LEMMA SettledStays ==
  ASSUME Typed, Settled, UNCHANGED <<at, batch, pending, backend, streaming>>,
         \A c \in Conns : watcher'[Backend(c)] = watcher[Backend(c)],
         \A c \in Conns : stage[c] = "freed" => stage'[c] = "freed"
  PROVE  Settled'
<1>1. OncePerBatch' /\ Drained'
  BY DEF Settled, OncePerBatch, Drained
<1>2. WaitsAlone'
  BY DEF Settled, WaitsAlone
<1>3. Answering'
  <2>1. ASSUME NEW w \in WorkerIds, NEW j \in DOMAIN batch[w] PROVE batch[w][j].sub[1] \in Conns
    <3>1. batch[w] \in Seq(EventType)
      BY DEF Typed, TypeOK, EventType
    <3>2. batch[w][j] \in EventType
      BY <3>1
    <3> QED
      BY <3>2 DEF EventType, SubConns
  <2> QED
    BY <2>1 DEF Settled, Answering
<1>4. WatchedStreams'
  BY DEF Settled, WatchedStreams
<1> QED
  BY <1>1, <1>2, <1>3, <1>4 DEF Settled

LEMMA LoopSettled ==
  ASSUME PInv, NEW w \in WorkerIds, Start(w) \/ Drain(w) \/ EpollWait(w) \/ StaleEvent(w)
  PROVE  Settled'
<1> USE DEF PInv, IInv, Typed, TypeOK
<1>1. CASE StaleEvent(w)
  BY <1>1, SettledStays DEF StaleEvent, loops, kernel, conn
<1>2. CASE Start(w)
  <2>1. /\ at' = [at EXCEPT ![w] = "drain"]
        /\ UNCHANGED <<batch, pending, backend, streaming, watcher, stage>>
    BY <1>2 DEF Start, kernel, conn
  <2> QED
    BY <2>1 DEF Settled, OncePerBatch, WaitsAlone, Answering, WatchedStreams, Drained
<1>3. CASE Drain(w)
  <2> DEFINE new == {Backend(pending[w][i][1]) : i \in DOMAIN pending[w]}
  <2>1. /\ at' = [at EXCEPT ![w] = "wait"] /\ pending' = [pending EXCEPT ![w] = <<>>]
        /\ UNCHANGED <<batch, streaming, stage>>
    BY <1>3 DEF Drain
  <2>2. \/ UNCHANGED <<backend, watcher>>
        \/ /\ backend' = [c \in Conns |-> IF Backend(c) \in new THEN "watched" ELSE backend[c]]
           /\ watcher' = [s \in SubConns |-> IF s \in new THEN w ELSE watcher[s]]
    BY <1>3 DEF Drain
  <2>3. \A c \in Conns : Backend(c) \in new => streaming[c] /\ Has(w, c)
    <3>1. SUFFICES ASSUME NEW c \in Conns, NEW i \in DOMAIN pending[w],
                          Backend(c) = Backend(pending[w][i][1])
          PROVE  streaming[c] /\ Has(w, c)
      OBVIOUS
    <3>2. pending[w][i][1] = c
      BY <3>1 DEF Backend
    <3> QED
      BY <3>2 DEF Settled, WaitsAlone, Has
  <2> HIDE DEF new
  <2>4. OncePerBatch' /\ Answering'
    BY <2>1 DEF Settled, OncePerBatch, Answering
  <2>5. Drained'
    BY <2>1 DEF Settled, Drained
  <2>6. WatchedStreams'
    BY <2>1, <2>2, <2>3 DEF Settled, WatchedStreams, SubConns, Backend
  <2>7. WaitsAlone'
    <3>1. SUFFICES ASSUME NEW v \in WorkerIds, NEW i \in DOMAIN pending'[v]
          PROVE  /\ backend'[pending'[v][i][1]] = "pending" /\ streaming'[pending'[v][i][1]]
                 /\ \A j \in DOMAIN batch'[v] : batch'[v][j].sub[1] # pending'[v][i][1]
      BY DEF WaitsAlone
    <3>2. v # w /\ pending'[v] = pending[v] /\ i \in DOMAIN pending[v]
      BY <2>1
    <3>3. pending[v][i] \in Conns \X {"backend"}
      BY <3>2
    <3>4. PICK c \in Conns : pending[v][i][1] = c
      BY <3>3
    <3>5. Has(v, c)
      BY <3>2, <3>4 DEF Has
    <3>6. Backend(c) \notin new
      BY <2>3, <3>2, <3>5 DEF OneWorker
    <3>7. backend'[c] = backend[c]
      BY <2>2, <3>6
    <3> QED
      BY <2>1, <3>2, <3>4, <3>7 DEF Settled, WaitsAlone
  <2> QED
    BY <2>4, <2>5, <2>6, <2>7 DEF Settled
<1>4. CASE EpollWait(w)
  <2> DEFINE Mine == {t \in edge : watcher[t] = w}
             Ready == UNION {Events(s) : s \in Mine}
  <2>1. /\ at[w] = "wait" /\ at' = [at EXCEPT ![w] = "batch"]
        /\ UNCHANGED <<pending, watcher, backend, streaming, stage>>
    BY <1>4 DEF EpollWait, conn
  <2>2. PICK n \in 1 .. BatchSize : \E e \in [1 .. n -> Ready] :
          /\ \A i, j \in 1 .. n : i # j => e[i].sub # e[j].sub
          /\ batch' = [batch EXCEPT ![w] = e]
    BY <1>4 DEF EpollWait
  <2>3. PICK e \in [1 .. n -> Ready] :
          /\ \A i, j \in 1 .. n : i # j => e[i].sub # e[j].sub
          /\ batch' = [batch EXCEPT ![w] = e]
    BY <2>2
  <2>4. OncePerBatch'
    <3>1. SUFFICES ASSUME NEW v \in WorkerIds, NEW i \in DOMAIN batch'[v], NEW j \in DOMAIN batch'[v],
                          batch'[v][i].sub = batch'[v][j].sub
          PROVE  i = j
      BY DEF OncePerBatch
    <3>2. CASE v # w
      BY <2>3, <3>1, <3>2 DEF Settled, OncePerBatch
    <3>3. CASE v = w
      <4>1. batch'[v] = e
        BY <2>3, <3>3
      <4> QED
        BY <2>3, <3>1, <4>1
    <3> QED
      BY <3>2, <3>3
  <2>5. Drained' /\ WatchedStreams'
    BY <2>1 DEF Settled, Drained, WatchedStreams
  <2>6. Answering'
    <3>1. SUFFICES ASSUME NEW v \in WorkerIds, NEW j \in DOMAIN batch'[v],
                          batch'[v][j].sub[2] = "backend"
          PROVE  streaming[batch'[v][j].sub[1]] \/ stage[batch'[v][j].sub[1]] = "freed"
      BY <2>1 DEF Answering
    <3>2. CASE v # w
      BY <2>3, <3>1, <3>2 DEF Settled, Answering
    <3>3. CASE v = w
      <4>1. batch'[v] = e /\ j \in 1 .. n
        BY <2>3, <3>3
      <4>2. e[j] \in Ready
        BY <2>3, <4>1
      <4>3. PICK t \in Mine : e[j] \in Events(t)
        BY <4>2
      <4>4. e[j].sub = t /\ t \in SubConns /\ watcher[t] = w
        BY <4>3 DEF Events
      <4>5. PICK c \in Conns : t = Backend(c)
        BY <3>1, <4>1, <4>4 DEF SubConns, Backend
      <4>6. streaming[c]
        BY <4>4, <4>5, WorkersAreNumbers DEF Settled, WatchedStreams
      <4> QED
        BY <4>1, <4>4, <4>5, <4>6 DEF Backend
    <3> QED
      BY <3>2, <3>3
  <2>7. WaitsAlone'
    <3>1. SUFFICES ASSUME NEW v \in WorkerIds, NEW i \in DOMAIN pending[v]
          PROVE  /\ backend[pending[v][i][1]] = "pending" /\ streaming[pending[v][i][1]]
                 /\ \A j \in DOMAIN batch'[v] : batch'[v][j].sub[1] # pending[v][i][1]
      BY <2>1 DEF WaitsAlone
    <3>2. v # w
      BY <2>1, <3>1 DEF Settled, Drained
    <3>3. batch'[v] = batch[v]
      BY <2>3, <3>2
    <3> QED
      BY <3>3 DEF Settled, WaitsAlone
  <2> QED
    BY <2>4, <2>5, <2>6, <2>7 DEF Settled
<1> QED
  BY <1>1, <1>2, <1>3, <1>4

(* Of what is left of the batches nothing is of the sub_conn handled, and  *)
(* nobody waits with a backend of its conn.                                *)
LEMMA EventRest ==
  ASSUME PInv, NEW w \in WorkerIds, at[w] = "batch", Handled(w)
  PROVE  /\ Event(w).sub \in SubConns /\ Has(w, Event(w).sub[1])
         /\ OncePerBatch'
         /\ \A v \in WorkerIds : \A j \in DOMAIN batch'[v] :
              /\ batch'[v][j].sub \in SubConns /\ batch'[v][j].sub # Event(w).sub
              /\ \E k \in DOMAIN batch[v] : batch[v][k] = batch'[v][j]
         /\ \A v \in WorkerIds : \A i \in DOMAIN pending[v] :
              pending[v][i][1] \in Conns /\ pending[v][i][1] # Event(w).sub[1]
<1> DEFINE t == Event(w).sub
<1>1. /\ Event(w) \in EventType /\ 1 \in DOMAIN batch[w] /\ Event(w) = batch[w][1]
      /\ \A v \in WorkerIds \ {w} : batch'[v] = batch[v]
      /\ batch'[w] \in Seq(EventType)
      /\ \A i \in DOMAIN batch'[w] :
           i + 1 \in DOMAIN batch[w] /\ batch'[w][i] = batch[w][i + 1]
  BY HandledTyped DEF PInv, IInv
<1>2. t \in SubConns /\ t[1] \in Conns
  BY <1>1 DEF EventType, SubConns
<1>3. Has(w, t[1])
  BY <1>1 DEF Has
<1>4. \A i \in DOMAIN batch'[w] : i \in Nat \ {0} /\ i + 1 # 1
  BY <1>1
<1>5. OncePerBatch'
  <2>1. SUFFICES ASSUME NEW v \in WorkerIds, NEW i \in DOMAIN batch'[v], NEW j \in DOMAIN batch'[v],
                        batch'[v][i].sub = batch'[v][j].sub
        PROVE  i = j
    BY DEF OncePerBatch
  <2>2. CASE v # w
    BY <1>1, <2>1, <2>2 DEF PInv, Settled, OncePerBatch
  <2>3. CASE v = w
    <3>1. i + 1 = j + 1
      BY <1>1, <2>1, <2>3 DEF PInv, Settled, OncePerBatch
    <3> QED
      BY <1>4, <2>3, <3>1
  <2> QED
    BY <2>2, <2>3
<1>6. ASSUME NEW v \in WorkerIds, NEW j \in DOMAIN batch'[v]
      PROVE  /\ batch'[v][j].sub \in SubConns /\ batch'[v][j].sub # t
             /\ \E k \in DOMAIN batch[v] : batch[v][k] = batch'[v][j]
  <2>1. CASE v = w
    <3>1. j + 1 \in DOMAIN batch[w] /\ batch'[w][j] = batch[w][j + 1] /\ j + 1 # 1
      BY <1>1, <1>4, <1>6, <2>1
    <3>2. batch[w][j + 1].sub # batch[w][1].sub
      BY <1>1, <3>1 DEF PInv, Settled, OncePerBatch
    <3>3. batch'[w][j] \in EventType
      BY <1>1, <1>6, <2>1
    <3> QED
      BY <1>1, <2>1, <3>1, <3>2, <3>3 DEF EventType
  <2>2. CASE v # w
    <3>1. batch'[v] = batch[v] /\ batch[v] \in Seq(EventType)
      BY <1>1, <2>2 DEF PInv, IInv, Typed, TypeOK, EventType
    <3>2. batch[v][j] \in EventType
      BY <1>6, <3>1
    <3>3. Has(v, batch[v][j].sub[1])
      BY <1>6, <3>1 DEF Has
    <3>4. batch[v][j].sub # t
      BY <1>2, <1>3, <2>2, <3>3 DEF PInv, IInv, OneWorker
    <3> QED
      BY <1>6, <3>1, <3>2, <3>4 DEF EventType
  <2> QED
    BY <2>1, <2>2
<1>7. ASSUME NEW v \in WorkerIds, NEW i \in DOMAIN pending[v]
      PROVE  pending[v][i][1] \in Conns /\ pending[v][i][1] # t[1]
  <2>1. pending[v] \in Seq(Conns \X {"backend"})
    BY DEF PInv, IInv, Typed, TypeOK
  <2>2. pending[v][i] \in Conns \X {"backend"}
    BY <1>7, <2>1
  <2>3. pending[v][i][1] \in Conns
    BY <2>2
  <2>4. CASE v = w
    BY <1>1, <1>7, <2>3, <2>4 DEF PInv, Settled, WaitsAlone
  <2>5. CASE v # w
    <3>1. Has(v, pending[v][i][1])
      BY <1>7 DEF Has
    <3> QED
      BY <1>2, <1>3, <2>3, <2>5, <3>1 DEF PInv, IInv, OneWorker
  <2> QED
    BY <2>3, <2>4, <2>5
<1> QED
  BY <1>2, <1>3, <1>5, <1>6, <1>7

(* What a handler does to the conn of its event and to no other.           *)
Frees(c) ==
  /\ stage' = [stage EXCEPT ![c] = "freed"]
  /\ backend' = [backend EXCEPT ![c] = "none"] /\ streaming' = [streaming EXCEPT ![c] = FALSE]
  /\ Forget({Client(c), Backend(c)}) /\ UNCHANGED pending
Ends(c) ==
  /\ backend' = [backend EXCEPT ![c] = "none"] /\ Forget({Backend(c)})
  /\ \/ UNCHANGED streaming
     \/ streaming' = [streaming EXCEPT ![c] = FALSE]
  /\ UNCHANGED <<stage, pending>>
Starts(c, w) ==
  /\ backend' = [backend EXCEPT ![c] = "pending"] /\ streaming' = [streaming EXCEPT ![c] = TRUE]
  /\ \/ UNCHANGED pending
     \/ pending' = [pending EXCEPT ![w] = Append(@, Backend(c))]
  /\ UNCHANGED <<stage, watcher>>

LEMMA EventSettled ==
  ASSUME PInv, NEW w \in WorkerIds,
         \/ ClientEnds(w) \/ ClientWritable(w) \/ ClientReads(w) \/ ClientStarts(w)
         \/ ClientRefused(w) \/ BackendEnds(w) \/ BackendReads(w) \/ BackendCompletes(w)
  PROVE  Settled'
<1> DEFINE t == Event(w).sub
           c == Event(w).sub[1]
<1>1. at[w] = "batch" /\ Handled(w)
  BY Zenon DEF ClientEnds, ClientWritable, ClientReads, ClientStarts, ClientRefused,
     BackendEnds, BackendReads, BackendCompletes, HandlesAt
<1>2. /\ t \in SubConns /\ Has(w, c) /\ OncePerBatch'
      /\ \A v \in WorkerIds : \A j \in DOMAIN batch'[v] :
           /\ batch'[v][j].sub \in SubConns /\ batch'[v][j].sub # t
           /\ \E k \in DOMAIN batch[v] : batch[v][k] = batch'[v][j]
      /\ \A v \in WorkerIds : \A i \in DOMAIN pending[v] :
           pending[v][i][1] \in Conns /\ pending[v][i][1] # c
  BY <1>1, EventRest
<1>3. c \in Conns /\ t \in {Client(c), Backend(c)}
  BY <1>2 DEF SubConns, Client, Backend
<1>4. manager[c] \in {w, None}
  BY <1>2, <1>3 DEF PInv, IInv, Owned
<1>5. \/ UNCHANGED <<stage, backend, streaming, watcher, pending>>
      \/ Frees(c)
      \/ t = Backend(c) /\ Ends(c)
      \/ /\ t = Client(c) /\ ~streaming[c] /\ stage[c] # "freed"
         /\ Starts(c, w)
  <2>1. CASE ClientEnds(w) \/ ClientRefused(w)
    <3>1. Frees(c)
      BY <2>1, Zenon DEF ClientEnds, ClientRefused, FreeConn, Frees
    <3> QED
      BY <3>1
  <2>2. CASE ClientWritable(w) \/ ClientReads(w) \/ BackendReads(w)
    <3>1. UNCHANGED <<stage, backend, streaming, watcher, pending>>
      BY <2>2, Zenon DEF ClientWritable, ClientReads, BackendReads, conn, kernel
    <3> QED
      BY <3>1
  <2>3. CASE BackendEnds(w) \/ BackendCompletes(w)
    <3>1. t[2] = "backend"
      BY <2>3, Zenon DEF BackendEnds, BackendCompletes, HandlesAt
    <3>2. t = Backend(c)
      BY <1>3, <3>1 DEF Client
    <3>3. Ends(c)
      BY <2>3, <3>2, Zenon DEF BackendEnds, BackendCompletes, Ends
    <3> QED
      BY <3>2, <3>3
  <2>4. CASE ClientStarts(w)
    <3>1. t[2] = "client" /\ Alive(t) /\ ~streaming[c]
      BY <2>4, Zenon DEF ClientStarts, HandlesAt
    <3>2. t = Client(c) /\ stage[c] # "freed"
      BY <1>3, <3>1 DEF Backend, Alive
    <3>3. UNCHANGED pending \/ pending' = [pending EXCEPT ![w] = Append(@, Backend(c))]
      BY <1>4, <2>4 DEF ClientStarts
    <3>4. Starts(c, w)
      BY <2>4, <3>3, Zenon DEF ClientStarts, Starts
    <3> QED
      BY <3>1, <3>2, <3>4
  <2> QED
    BY <2>1, <2>2, <2>3, <2>4
<1>6. /\ stage \in [Conns -> Stages] /\ streaming \in [Conns -> BOOLEAN]
      /\ backend \in [Conns -> {"none", "pending", "watched"}]
      /\ pending \in [WorkerIds -> Seq(Conns \X {"backend"})]
      /\ at \in [WorkerIds -> {"start", "drain", "wait", "batch"}]
  BY DEF PInv, IInv, Typed, TypeOK
<1> HIDE DEF c, t
<1>7. \A d \in Conns \ {c} :
        stage'[d] = stage[d] /\ backend'[d] = backend[d] /\ streaming'[d] = streaming[d]
  BY <1>5, <1>6 DEF Frees, Ends, Starts
<1>8. Drained'
  <2>1. SUFFICES ASSUME NEW v \in WorkerIds, at'[v] = "wait" PROVE pending'[v] = <<>>
    BY DEF Drained
  <2>2. v # w /\ at[v] = "wait"
    BY <1>1, <1>6, <2>1 DEF Handled, AfterBatch
  <2>3. pending'[v] = pending[v]
    BY <1>5, <1>6, <2>2 DEF Frees, Ends, Starts
  <2> QED
    BY <2>2, <2>3 DEF PInv, Settled, Drained
<1>9. WatchedStreams'
  <2>1. SUFFICES ASSUME NEW d \in Conns, watcher'[Backend(d)] # None PROVE streaming'[d]
    BY DEF WatchedStreams
  <2>2. Backend(d) \in SubConns
    BY DEF Backend, SubConns
  <2>3. watcher[Backend(d)] # None
    BY <1>5, <2>1, <2>2 DEF Frees, Ends, Starts, Forget
  <2>4. streaming[d]
    BY <2>3 DEF PInv, Settled, WatchedStreams
  <2>5. CASE d # c
    BY <1>7, <2>4, <2>5
  <2>6. CASE d = c
    <3>1. ~Frees(c) /\ ~Ends(c)
      BY <2>1, <2>2, <2>6 DEF Frees, Ends, Forget
    <3> QED
      BY <1>3, <1>5, <1>6, <2>4, <2>6, <3>1 DEF Starts
  <2> QED
    BY <2>5, <2>6
<1>10. Answering'
  <2>1. SUFFICES ASSUME NEW v \in WorkerIds, NEW j \in DOMAIN batch'[v],
                        batch'[v][j].sub[2] = "backend"
        PROVE  streaming'[batch'[v][j].sub[1]] \/ stage'[batch'[v][j].sub[1]] = "freed"
    BY DEF Answering
  <2>2. PICK d \in Conns : batch'[v][j].sub = Backend(d)
    <3>1. batch'[v][j].sub \in SubConns
      BY <1>2
    <3> QED
      BY <2>1, <3>1 DEF SubConns, Backend
  <2>3. PICK k \in DOMAIN batch[v] : batch[v][k] = batch'[v][j]
    BY <1>2
  <2>4. batch'[v][j].sub[1] = d /\ (streaming[d] \/ stage[d] = "freed")
    BY <2>1, <2>2, <2>3 DEF PInv, Settled, Answering, Backend
  <2>5. CASE d # c
    BY <1>7, <2>4, <2>5
  <2>6. CASE d = c
    <3>1. t # Backend(c)
      BY <1>2, <2>2, <2>6
    <3> QED
      BY <1>3, <1>5, <1>6, <2>4, <2>6, <3>1 DEF Frees, Starts
  <2> QED
    BY <2>5, <2>6
<1>11. WaitsAlone'
  <2>1. SUFFICES ASSUME NEW v \in WorkerIds, NEW i \in DOMAIN pending'[v]
        PROVE  /\ backend'[pending'[v][i][1]] = "pending" /\ streaming'[pending'[v][i][1]]
               /\ \A j \in DOMAIN batch'[v] : batch'[v][j].sub[1] # pending'[v][i][1]
    BY DEF WaitsAlone
  <2>2. CASE i \in DOMAIN pending[v] /\ pending'[v][i] = pending[v][i]
    <3>1. PICK d \in Conns \ {c} : pending[v][i][1] = d
      BY <1>2, <2>2
    <3>2. /\ backend[d] = "pending" /\ streaming[d]
          /\ \A j \in DOMAIN batch[v] : batch[v][j].sub[1] # d
      BY <2>2, <3>1 DEF PInv, Settled, WaitsAlone
    <3> QED
      BY <1>2, <1>7, <2>2, <3>1, <3>2
  <2>3. CASE ~(i \in DOMAIN pending[v] /\ pending'[v][i] = pending[v][i])
    <3>1. /\ t = Client(c) /\ ~streaming[c] /\ stage[c] # "freed" /\ Starts(c, w)
          /\ pending' = [pending EXCEPT ![w] = Append(@, Backend(c))]
      BY <1>5, <2>1, <2>3 DEF Frees, Ends, Starts
    <3>2. v = w /\ pending'[v] = Append(pending[v], Backend(c))
      BY <1>6, <2>1, <2>3, <3>1
    <3>3. pending[v] \in Seq(Conns \X {"backend"}) /\ Backend(c) \in Conns \X {"backend"}
      BY <1>3, <1>6 DEF Backend
    <3>4. pending'[v][i] = Backend(c)
      BY <2>1, <2>3, <3>2, <3>3
    <3>5. pending'[v][i][1] = c
      BY <3>4 DEF Backend
    <3>6. backend'[c] = "pending" /\ streaming'[c]
      BY <1>3, <1>6, <3>1 DEF Starts
    <3>7. ASSUME NEW j \in DOMAIN batch'[v] PROVE batch'[v][j].sub[1] # c
      <4>1. SUFFICES ASSUME batch'[v][j].sub[1] = c PROVE FALSE
        OBVIOUS
      <4>2. batch'[v][j].sub = Backend(c)
        BY <1>2, <3>1, <3>7, <4>1 DEF SubConns, Client, Backend
      <4>3. PICK k \in DOMAIN batch[v] : batch[v][k] = batch'[v][j]
        BY <1>2, <3>7
      <4>4. batch[v][k].sub[2] = "backend" /\ batch[v][k].sub[1] = c
        BY <4>2, <4>3 DEF Backend
      <4> QED
        BY <3>1, <4>4 DEF PInv, Settled, Answering
    <3> QED
      BY <3>5, <3>6, <3>7
  <2> QED
    BY <2>2, <2>3
<1> QED
  BY <1>2, <1>8, <1>9, <1>10, <1>11 DEF Settled

LEMMA SettledInit == Init => PInv
<1>1. SUFFICES ASSUME Init PROVE PInv
  OBVIOUS
<1>2. IInv
  BY <1>1, OwnedInit
<1>3. \A w \in WorkerIds : batch[w] = <<>> /\ pending[w] = <<>>
  BY <1>1 DEF Init
<1>4. WatchedStreams
  BY <1>1 DEF Init, WatchedStreams, SubConns, Backend
<1>5. OncePerBatch /\ WaitsAlone /\ Answering /\ Drained
  BY <1>3 DEF OncePerBatch, WaitsAlone, Answering, Drained
<1> QED
  BY <1>2, <1>4, <1>5 DEF PInv, Settled

LEMMA SettledStep ==
  ASSUME PInv, [Next]_vars
  PROVE  PInv'
<1>1. IInv' /\ Typed /\ Places /\ Settled
  BY OwnedStep DEF PInv, IInv
<1>2. ASSUME Peers PROVE Settled'
  <2>1. ASSUME NEW c \in Conns, Connects(c) PROVE Settled'
    BY <1>1, <2>1, SettledStays DEF Connects, loops, kernel, Typed, TypeOK
  <2>2. ASSUME NEW s \in SubConns, Sends(s) \/ Leaves(s) PROVE Settled'
    BY <1>1, <2>2, SettledStays DEF Sends, Leaves, loops, conn
  <2> QED
    BY <1>2, <2>1, <2>2 DEF Peers
<1>3. ASSUME NEW a \in Acceptors, Acceptor(a) PROVE Settled'
  <2>1. UNCHANGED <<at, batch, pending, backend, streaming, watcher>>
    BY <1>3, Zenon DEF Acceptor, Accept, Drop, HandOver, loops, kernel
  <2>2. \A c \in Conns : stage[c] = "freed" => stage'[c] = "freed"
    BY <1>1, <1>3 DEF Acceptor, Accept, Drop, HandOver, Places, Typed, TypeOK
  <2> QED
    BY <1>1, <2>1, <2>2, SettledStays
<1>4. ASSUME Pop PROVE Settled'
  <2>1. /\ UNCHANGED <<at, batch, pending, backend, streaming, watcher>>
        /\ stage' = [stage EXCEPT ![Head(queue)] = "waking"] /\ queue # <<>>
    BY <1>4 DEF Pop, loops, kernel
  <2>2. Head(queue) = queue[1] /\ 1 \in DOMAIN queue
    <3>1. Len(queue) \in Nat \ {0} /\ queue \in Seq(Conns)
      BY <1>1, <2>1, EmptySeq DEF Typed, TypeOK
    <3> QED
      BY <3>1
  <2>3. stage[Head(queue)] = "queued"
    BY <1>1, <2>2 DEF Places
  <2>4. \A c \in Conns : stage[c] = "freed" => stage'[c] = "freed"
    BY <1>1, <2>1, <2>3 DEF Typed, TypeOK
  <2> QED
    BY <1>1, <2>1, <2>4, SettledStays
<1>5. ASSUME Watch PROVE Settled'
  <2>1. UNCHANGED <<at, batch, pending, backend, streaming>> /\ stage[waking] = "waking"
    BY <1>1, <1>5 DEF Watch, loops, Places
  <2>2. /\ stage' \in {stage, [stage EXCEPT ![waking] = "watched"]}
        /\ watcher' \in {watcher, [watcher EXCEPT ![Client(waking)] = waker]}
    BY <1>5 DEF Watch
  <2>3. \A c \in Conns : Backend(c) \in SubConns /\ Backend(c) # Client(waking)
    BY DEF SubConns, Client, Backend
  <2>4. \A c \in Conns : watcher'[Backend(c)] = watcher[Backend(c)]
    BY <1>1, <2>2, <2>3 DEF Typed, TypeOK
  <2>5. \A c \in Conns : stage[c] = "freed" => stage'[c] = "freed"
    BY <1>1, <2>1, <2>2 DEF Typed, TypeOK
  <2> QED
    BY <1>1, <2>1, <2>4, <2>5, SettledStays
<1>6. ASSUME NEW w \in WorkerIds, Worker(w) PROVE Settled'
  BY <1>6, LoopSettled, EventSettled, Zenon DEF Worker
<1>7. ASSUME UNCHANGED vars PROVE Settled'
  BY <1>1, <1>7, SettledStays DEF vars
<1>8. Settled'
  <2>1. CASE Next
    BY <1>2, <1>3, <1>4, <1>5, <1>6, <2>1, Zenon DEF Next, Waker
  <2> QED
    BY <1>7, <2>1
<1> QED
  BY <1>1, <1>8 DEF PInv

(* What waits to be watched is there when the loop comes round to it,      *)
(* although conns and requests, and their backends with them, are freed    *)
(* while it waits.                                                         *)
THEOREM WaitsSafely == Spec => []PendingAlive
<1>1. Spec => []PInv
  BY SettledInit, SettledStep, PTL DEF Spec
<1>2. PInv => PendingAlive
  BY DEF PInv, Settled, WaitsAlone, PendingAlive
<1> QED
  BY <1>1, <1>2, PTL
=============================================================================
