---------------------------- MODULE WriteBuffer ----------------------------
(***************************************************************************)
(* The outgoing half of one sub_conn: the write_buffer that every response *)
(* path appends to, trigger_write, which moves it into the socket, and the *)
(* worker's handling of the edge-triggered events that call trigger_write  *)
(* again once the socket has room, and that read, and may close, the       *)
(* connection while bytes are still queued (src/src/network.c).            *)
(*                                                                         *)
(* A byte is its position in the stream of bytes handed to buffer_push, so *)
(* an entry of the buffer is the interval of positions it still holds:     *)
(* advancing entry->data and reducing entry->size raises lo.  trigger_write*)
(* makes one write() or SSL_write() per iteration of its loop, and each    *)
(* iteration is one step, because the peer drains the socket between them. *)
(*                                                                         *)
(* The socket and the TLS session are external.  The socket takes what     *)
(* fits, reports EAGAIN when it is full, and posts an epoll edge when room *)
(* appears after it had to refuse bytes.  The TLS session flushes one      *)
(* record per call; a record that did not fit stays inside the session and *)
(* is flushed, and counted in the result, by the next call.                *)
(* What is read is only told apart by its effect on this half: something   *)
(* is there, the peer has shut its sending half, the handler refuses it.   *)
(***************************************************************************)
EXTENDS Integers, Sequences

CONSTANTS
  MaxPushed,  \* bound: bytes handed to the buffer in a behaviour
  MaxEntry,   \* bound: bytes of one buffer_push
  SndBuf,     \* capacity of the socket's send queue
  MaxRecord   \* most bytes one TLS record carries

ASSUME SizesAssumption ==
  /\ MaxPushed \in Nat
  /\ MaxEntry \in Nat \ {0}
  /\ SndBuf \in Nat \ {0}
  /\ MaxRecord \in Nat \ {0}

VARIABLES
  tls,              \* sub_conn->tls
  pushed,           \* bytes handed to buffer_push so far
  buffers,          \* write_buffer.buffers
  size,             \* write_buffer.size
  write_available,  \* sub_conn->write_available
  safe_close,       \* sub_conn->safe_close
  at,               \* where the worker is with this sub_conn: "idle",
                    \* in trigger_write's "loop", or past on_closed, "closed"
  reading,          \* the event in hand has EPOLLIN, its read is to come
  refused,          \* the read handler returned 1, or SSL_read failed
  registered,       \* the fd is in the worker's epoll set
  wire,             \* positions of the bytes the socket accepted, in order
  taken,            \* how many of those the peer has read
  full,             \* the socket refused bytes and owes an edge
  edge,             \* an epoll edge is waiting to be handled
  reset,            \* the peer is gone: write fails, epoll reports HUP or ERR
  input,            \* the socket holds something unread: bytes or the end
  ended,            \* the peer has shut its sending half; it may still read
  record            \* the TLS record the session still has to flush

inbound == <<reading, refused, input, ended>>
code == <<tls, pushed, buffers, size, write_available, safe_close, at, reading, refused>>
kernel == <<registered, wire, taken, full, edge, reset, input, ended>>
vars == <<tls, pushed, buffers, size, write_available, safe_close, at, reading, refused,
          registered, wire, taken, full, edge, reset, input, ended, record>>

Entry == {e \in [lo : Nat, hi : Nat] : e.lo <= e.hi}   \* never empty
Length(e) == e.hi - e.lo + 1
Room == SndBuf - (Len(wire) - taken)
AtMost(a, b) == IF a < b THEN a ELSE b

(* n consecutive stream positions starting at lo.                          *)
Bytes(lo, n) == [i \in 1 .. n |-> lo + i - 1]

NoRecord == [lo |-> 1, hi |-> 0, total |-> 0]

Init ==
  /\ tls \in BOOLEAN
  /\ pushed = 0
  /\ buffers = <<>>
  /\ size = 0
  /\ write_available = FALSE
  /\ safe_close = FALSE
  /\ at = "idle"
  /\ reading = FALSE
  /\ refused = FALSE
  /\ registered = FALSE
  /\ wire = <<>>
  /\ taken = 0
  /\ full = FALSE
  /\ edge = FALSE
  /\ reset = FALSE
  /\ input = FALSE
  /\ ended = FALSE
  /\ record = NoRecord

-----------------------------------------------------------------------------
(* Slip: one byte left is taken for an empty buffer.                       *)
EnterLoopAboveOne(available, bytes, list) == available /\ bytes > 1 /\ list # <<>>

(* trigger_write enters its loop when the socket was last seen writable    *)
(* and the buffer counts bytes; it ends at once when the list is empty.    *)
EnterLoop(available, bytes, list) == available /\ bytes > 0 /\ list # <<>>

(* Slip: a new entry goes to the front of the list.                        *)
PushInFront(n) ==
  /\ at = "idle"
  /\ ~(reading /\ (ended \/ reset))
  /\ pushed + n <= MaxPushed
  /\ pushed' = pushed + n
  /\ buffers' = <<[lo |-> pushed + 1, hi |-> pushed + n]>> \o buffers
  /\ size' = size + n
  /\ at' = IF EnterLoop(write_available, size', buffers') THEN "loop" ELSE "idle"
  /\ UNCHANGED <<tls, write_available, safe_close, reading, refused, record>>
  /\ UNCHANGED kernel

(* A handler running on the worker pushes n bytes and calls trigger_write: *)
(* the read handler of this sub_conn's event, or another's whose response  *)
(* this is.  An event that ends in a failed read runs no handler.          *)
Push(n) ==
  /\ at = "idle"
  /\ ~(reading /\ (ended \/ reset))
  /\ pushed + n <= MaxPushed
  /\ pushed' = pushed + n
  /\ buffers' = Append(buffers, [lo |-> pushed + 1, hi |-> pushed + n])
  /\ size' = size + n
  /\ at' = IF EnterLoop(write_available, size', buffers') THEN "loop" ELSE "idle"
  /\ UNCHANGED <<tls, write_available, safe_close, reading, refused, record>>
  /\ UNCHANGED kernel

(* Slip: a write of exactly the entry's length is taken for a short one.   *)
AdvanceKeepsEmpty(n) ==
  LET e == Head(buffers) IN
  /\ size' = size - n
  /\ buffers' = <<[lo |-> e.lo + n, hi |-> e.hi]>> \o Tail(buffers)
  /\ at' = "idle"
  /\ write_available' = TRUE
  /\ UNCHANGED <<tls, pushed, safe_close>>

(* Slip: entry->size shrinks but entry->data stays where it was.           *)
AdvanceSameData(n) ==
  LET e == Head(buffers) IN
  /\ size' = size - n
  /\ \/ /\ n < Length(e)
        /\ buffers' = <<[lo |-> e.lo, hi |-> e.hi - n]>> \o Tail(buffers)
        /\ at' = "idle"
        /\ write_available' = TRUE
     \/ /\ n >= Length(e)
        /\ buffers' = Tail(buffers)
        /\ at' = IF Tail(buffers) = <<>> THEN "idle" ELSE "loop"
        /\ IF Tail(buffers) = <<>> THEN write_available' = TRUE ELSE UNCHANGED write_available
  /\ UNCHANGED <<tls, pushed, safe_close>>

(* Slip: write_buffer.size is reduced only when an entry is freed.         *)
AdvanceKeepsSize(n) ==
  LET e == Head(buffers) IN
  /\ \/ /\ n < Length(e)
        /\ size' = size
        /\ buffers' = <<[lo |-> e.lo + n, hi |-> e.hi]>> \o Tail(buffers)
        /\ at' = "idle"
        /\ write_available' = TRUE
     \/ /\ n >= Length(e)
        /\ size' = size - n
        /\ buffers' = Tail(buffers)
        /\ at' = IF Tail(buffers) = <<>> THEN "idle" ELSE "loop"
        /\ IF Tail(buffers) = <<>> THEN write_available' = TRUE ELSE UNCHANGED write_available
  /\ UNCHANGED <<tls, pushed, safe_close>>

(* The loop's bookkeeping for a write that returned the count n: a short   *)
(* write advances the head entry and ends the loop, a full one frees the   *)
(* entry and goes on to the next.                                          *)
Advance(n) ==
  LET e == Head(buffers) IN
  /\ size' = size - n
  /\ \/ /\ n < Length(e)
        /\ buffers' = <<[lo |-> e.lo + n, hi |-> e.hi]>> \o Tail(buffers)
        /\ at' = "idle"
        /\ write_available' = TRUE
     \/ /\ n >= Length(e)
        /\ buffers' = Tail(buffers)
        /\ at' = IF Tail(buffers) = <<>> THEN "idle" ELSE "loop"
        /\ IF Tail(buffers) = <<>> THEN write_available' = TRUE ELSE UNCHANGED write_available
  /\ UNCHANGED <<tls, pushed, safe_close>>

(* write() accepts what fits of the head entry.                            *)
PlainWrite ==
  LET e == Head(buffers)
      n == AtMost(Length(e), Room) IN
  /\ at = "loop" /\ ~tls /\ ~reset
  /\ Room > 0
  /\ wire' = wire \o Bytes(e.lo, n)
  /\ IF n < Length(e) THEN full' = TRUE ELSE UNCHANGED full
  /\ Advance(n)
  /\ UNCHANGED <<registered, taken, edge, reset, record>>
  /\ UNCHANGED inbound

(* write() fails with EAGAIN: wait for the next EPOLLOUT edge.             *)
PlainAgain ==
  /\ at = "loop" /\ ~tls /\ ~reset
  /\ Room = 0
  /\ write_available' = FALSE
  /\ at' = "idle"
  /\ full' = TRUE
  /\ UNCHANGED <<tls, pushed, buffers, size, safe_close>>
  /\ UNCHANGED <<registered, wire, taken, edge, reset, record>>
  /\ UNCHANGED inbound

(* The record the next SSL_write flushes: the one the session still owes,  *)
(* or a new one cut from the front of the head entry.                      *)
CurrentRecord ==
  LET e == Head(buffers)
      n == AtMost(Length(e), MaxRecord) IN
  IF record = NoRecord
    THEN [lo |-> e.lo, hi |-> e.lo + n - 1, total |-> n]
    ELSE record

(* An owed record longer than the buffer now offered is a bad write retry. *)
BadRetry == record.total > Length(Head(buffers))

(* SSL_write flushes the whole record and returns the record's length.     *)
TlsWrite ==
  LET r == CurrentRecord IN
  /\ at = "loop" /\ tls /\ ~reset /\ ~BadRetry
  /\ Length(r) <= Room
  /\ wire' = wire \o Bytes(r.lo, Length(r))
  /\ record' = NoRecord
  /\ Advance(r.total)
  /\ UNCHANGED <<registered, taken, full, edge, reset>>
  /\ UNCHANGED inbound

(* SSL_write returns -1 with SSL_ERROR_WANT_WRITE.  The code falls through *)
(* to the bookkeeping with written == (size_t) -1: the head entry counts   *)
(* as fully written and is freed, and size grows by one.                   *)
TlsWant ==
  LET r == CurrentRecord IN
  /\ at = "loop" /\ tls /\ ~reset /\ ~BadRetry
  /\ Length(r) > Room
  /\ wire' = wire \o Bytes(r.lo, Room)
  /\ record' = [r EXCEPT !.lo = @ + Room]
  /\ full' = TRUE
  /\ size' = size + 1
  /\ buffers' = Tail(buffers)
  /\ at' = IF Tail(buffers) = <<>> THEN "idle" ELSE "loop"
  /\ IF Tail(buffers) = <<>> THEN write_available' = TRUE ELSE UNCHANGED write_available
  /\ UNCHANGED <<tls, pushed, safe_close>>
  /\ UNCHANGED <<registered, taken, edge, reset>>
  /\ UNCHANGED inbound

(* SSL_write fails with SSL_ERROR_SYSCALL and EAGAIN, having flushed       *)
(* nothing: the entry stays, and the next event cuts the same record of it *)
(* or goes on with the one owed.                                           *)
TlsAgain ==
  /\ at = "loop" /\ tls /\ ~reset /\ ~BadRetry
  /\ Room = 0
  /\ write_available' = FALSE
  /\ at' = "idle"
  /\ full' = TRUE
  /\ UNCHANGED <<tls, pushed, buffers, size, safe_close>>
  /\ UNCHANGED <<registered, wire, taken, edge, reset, record>>
  /\ UNCHANGED inbound

(* Any other failure of write or SSL_write: the connection is to be closed *)
(* at its next event, and the loop ends.                                   *)
WriteError ==
  /\ at = "loop"
  /\ reset \/ (tls /\ BadRetry)
  /\ safe_close' = TRUE
  /\ at' = "idle"
  /\ UNCHANGED <<tls, pushed, buffers, size, write_available, reading, refused, record>>
  /\ UNCHANGED kernel

-----------------------------------------------------------------------------
(* The wake thread, or the worker for a sub_conn in pending_sub_conns,     *)
(* adds the fd to the epoll set: the socket's current state is an edge.    *)
Register ==
  /\ ~registered /\ at = "idle"
  /\ registered' = TRUE
  /\ edge' = TRUE
  /\ UNCHANGED code
  /\ UNCHANGED <<wire, taken, full, reset, input, ended, record>>

(* Slip: EPOLLOUT calls trigger_write without setting write_available.     *)
HandleEventStale ==
  /\ registered /\ edge /\ at = "idle" /\ ~reading
  /\ edge' = FALSE
  /\ \/ /\ safe_close \/ reset
        /\ at' = "closed"
        /\ UNCHANGED reading
     \/ /\ ~safe_close /\ ~reset
        /\ at' = IF Room > 0 /\ EnterLoop(write_available, size, buffers)
                    THEN "loop" ELSE "idle"
        /\ reading' = input
  /\ UNCHANGED <<tls, pushed, buffers, size, write_available, safe_close, refused, record>>
  /\ UNCHANGED <<registered, wire, taken, full, reset, input, ended>>

(* Slip: EPOLLHUP and EPOLLERR are left to the next read or write.         *)
HandleEventNoHup ==
  /\ registered /\ edge /\ at = "idle" /\ ~reading
  /\ edge' = FALSE
  /\ \/ /\ safe_close
        /\ at' = "closed"
        /\ UNCHANGED <<write_available, reading>>
     \/ /\ ~safe_close
        /\ IF Room > 0 THEN write_available' = TRUE ELSE UNCHANGED write_available
        /\ at' = IF Room > 0 /\ EnterLoop(TRUE, size, buffers) THEN "loop" ELSE "idle"
        /\ reading' = input
  /\ UNCHANGED <<tls, pushed, buffers, size, safe_close, refused, record>>
  /\ UNCHANGED <<registered, wire, taken, full, reset, input, ended>>

(* The worker handles an event of this sub_conn.  A connection marked      *)
(* safe_close or reported dead is closed; otherwise EPOLLOUT, present      *)
(* whenever the socket has room, runs trigger_write, and EPOLLIN, present  *)
(* whenever something is unread, has the read half follow it.              *)
HandleEvent ==
  /\ registered /\ edge /\ at = "idle" /\ ~reading
  /\ edge' = FALSE
  /\ \/ /\ safe_close \/ reset
        /\ at' = "closed"
        /\ UNCHANGED <<write_available, reading>>
     \/ /\ ~safe_close /\ ~reset
        /\ Room > 0
        /\ write_available' = TRUE
        /\ at' = IF EnterLoop(TRUE, size, buffers) THEN "loop" ELSE "idle"
        /\ reading' = input
     \/ /\ ~safe_close /\ ~reset
        /\ Room = 0
        /\ reading' = input
        /\ UNCHANGED <<write_available, at>>
  /\ UNCHANGED <<tls, pushed, buffers, size, safe_close, refused, record>>
  /\ UNCHANGED <<registered, wire, taken, full, reset, input, ended>>

(* The read half finds the end, or an error: on_closed frees the sub_conn  *)
(* with the bytes still in its buffer.  What was sent before the end goes  *)
(* unhandled.                                                              *)
ReadFails ==
  /\ reading /\ at = "idle"
  /\ ended \/ reset
  /\ at' = "closed"
  /\ reading' = FALSE
  /\ UNCHANGED <<tls, pushed, buffers, size, write_available, safe_close, refused, record>>
  /\ UNCHANGED kernel

(* The read half hands what it read to the handler, which may push, and    *)
(* then returns 1, upon which on_closed frees the sub_conn, or 0.  SSL_read *)
(* failing closes it just the same.                                        *)
ReadDone ==
  /\ reading /\ at = "idle"
  /\ ~ended /\ ~reset
  /\ reading' = FALSE
  /\ input' = FALSE
  /\ \/ /\ refused' = TRUE
        /\ at' = "closed"
     \/ UNCHANGED <<refused, at>>
  /\ UNCHANGED <<tls, pushed, buffers, size, write_available, safe_close, record>>
  /\ UNCHANGED <<registered, wire, taken, full, edge, reset, ended>>

ReadHalf == ReadFails \/ ReadDone

(* The peer reads n bytes; room after a refusal is an EPOLLOUT edge.       *)
PeerRead(n) ==
  /\ ~reset
  /\ taken + n <= Len(wire)
  /\ taken' = taken + n
  /\ IF full THEN edge' = TRUE ELSE UNCHANGED edge
  /\ full' = FALSE
  /\ UNCHANGED code
  /\ UNCHANGED <<registered, wire, reset, input, ended, record>>

(* The peer sends something, or shuts its sending half and goes on         *)
(* reading: an edge of its own.                                            *)
PeerSend ==
  /\ ~reset /\ ~ended /\ at # "closed"
  /\ input' = TRUE
  /\ ended' \in BOOLEAN
  /\ edge' = (edge \/ registered)
  /\ UNCHANGED code
  /\ UNCHANGED <<registered, wire, taken, full, reset, record>>

(* The peer goes away.                                                     *)
PeerReset ==
  /\ ~reset /\ at # "closed"
  /\ reset' = TRUE
  /\ edge' = registered
  /\ UNCHANGED code
  /\ UNCHANGED <<registered, wire, taken, full, input, ended, record>>

Loop == PlainWrite \/ PlainAgain \/ TlsWrite \/ TlsWant \/ TlsAgain \/ WriteError

Next ==
  \/ \E n \in 1 .. MaxEntry : Push(n)
  \/ Loop
  \/ Register
  \/ HandleEvent
  \/ ReadHalf
  \/ \E n \in 1 .. SndBuf : PeerRead(n)
  \/ PeerSend
  \/ PeerReset

(* The worker thread never stops: it runs its loop to the end and handles  *)
(* every edge, both halves of it.  That the fd gets registered is the      *)
(* handoff's promise.                                                      *)
WorkerFairness ==
  /\ WF_vars(Loop) /\ WF_vars(HandleEvent) /\ WF_vars(ReadHalf)
  /\ WF_vars(Register)

(* A peer that stays connected keeps reading.                              *)
PeerFairness == WF_vars(\E n \in 1 .. SndBuf : PeerRead(n))

Spec == Init /\ [][Next]_vars
FairSpec == Spec /\ WorkerFairness /\ PeerFairness

-----------------------------------------------------------------------------
InboundOK ==
  /\ reading \in BOOLEAN
  /\ refused \in BOOLEAN
  /\ input \in BOOLEAN
  /\ ended \in BOOLEAN

TypeOK ==
  /\ tls \in BOOLEAN
  /\ pushed \in Nat
  /\ buffers \in Seq(Entry)
  /\ size \in Int
  /\ write_available \in BOOLEAN
  /\ safe_close \in BOOLEAN
  /\ at \in {"idle", "loop", "closed"}
  /\ registered \in BOOLEAN
  /\ wire \in Seq(Nat)
  /\ taken \in 0 .. Len(wire)
  /\ full \in BOOLEAN
  /\ edge \in BOOLEAN
  /\ reset \in BOOLEAN
  /\ InboundOK
  /\ record \in [lo : Nat, hi : Nat, total : Nat]

(* Whatever trigger_write and the socket do, with TLS or without, no byte  *)
(* goes out twice and none overtakes an earlier one.                       *)
InOrder == \A i, j \in 1 .. Len(wire) : i < j => wire[i] < wire[j]

(* Without TLS nothing is skipped either: the socket has accepted exactly  *)
(* a prefix of what the handlers pushed, across short writes, EAGAIN and   *)
(* the freeing of entries.                                                 *)
NoGap == ~tls => /\ Len(wire) <= pushed
                 /\ \A i \in 1 .. Len(wire) : wire[i] = i

(* Without TLS write_buffer.size, on which trigger_write decides whether   *)
(* there is anything to do, is what is pushed and not yet written.         *)
Accounting == ~tls => size = pushed - Len(wire)

(* Without TLS bytes never wait for nothing: when the worker has left      *)
(* trigger_write with entries in the buffer, either an edge is already     *)
(* waiting or the socket owes one.  Were it otherwise the response would   *)
(* stay where it is until the client happened to send something.           *)
NoLostWakeup ==
  ~tls /\ registered /\ at = "idle" /\ buffers # <<>> => edge \/ full

(* Without TLS the buffer and the socket together are an ordered, lossless *)
(* channel, up to the moment on_closed frees what is queued.               *)
Channel == INSTANCE ByteChannel WITH
             sent <- IF tls THEN 0 ELSE pushed,
             delivered <- IF tls THEN <<>> ELSE SubSeq(wire, 1, taken),
             open <- (tls \/ at # "closed")
ChannelSpec == Channel!Spec

(* Why a connection whose peer is still there is closed without TLS: the   *)
(* peer has sent all it will, or something the handler refuses.            *)
ClosedForInput == at = "closed" /\ (ended \/ refused)

(* Without TLS every pushed byte reaches a peer that stays connected,      *)
(* unless its own sending half has the read half close the connection with *)
(* the bytes still queued.                                                 *)
AllDelivered ==
  \A i \in 1 .. MaxPushed :
    (pushed >= i /\ ~tls) ~> (taken >= i \/ reset \/ ClosedForInput)

(* Without TLS a connection whose write failed is eventually closed,       *)
(* although trigger_write only marks it and leaves closing to its next     *)
(* event.                                                                  *)
FailedIsClosed == (safe_close /\ ~tls) ~> at = "closed"
=============================================================================
