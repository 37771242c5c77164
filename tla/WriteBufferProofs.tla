------------------------- MODULE WriteBufferProofs -------------------------
(***************************************************************************)
(* Theorems about WriteBuffer for every size of the pushes, the socket and *)
(* the TLS records, checked by TLAPS.                                      *)
(***************************************************************************)
EXTENDS WriteBuffer, SequenceTheorems, TLAPS

-----------------------------------------------------------------------------
(* Appending a run of n consecutive positions to a stream.                 *)
LEMMA AppendSeq ==
  ASSUME NEW w \in Seq(Nat), NEW b \in Seq(Nat), NEW lo \in Nat, NEW n \in Nat,
         Len(b) = n, \A i \in 1 .. n : b[i] = lo + i - 1
  PROVE  /\ w \o b \in Seq(Nat)
         /\ Len(w \o b) = Len(w) + n
         /\ \A i \in 1 .. Len(w) : (w \o b)[i] = w[i]
         /\ \A i \in Len(w) + 1 .. Len(w) + n : (w \o b)[i] = lo + i - Len(w) - 1
OBVIOUS

LEMMA AppendRun ==
  ASSUME NEW w \in Seq(Nat), NEW lo \in Nat, NEW n \in Nat, lo >= 1
  PROVE  /\ w \o Bytes(lo, n) \in Seq(Nat)
         /\ Len(w \o Bytes(lo, n)) = Len(w) + n
         /\ \A i \in 1 .. Len(w) : (w \o Bytes(lo, n))[i] = w[i]
         /\ \A i \in Len(w) + 1 .. Len(w) + n :
              (w \o Bytes(lo, n))[i] = lo + i - Len(w) - 1
<1>1. \A i \in 1 .. n : lo + i - 1 \in Nat
  OBVIOUS
<1>2. Bytes(lo, n) \in [1 .. n -> Nat]
  BY <1>1 DEF Bytes
<1>3. Bytes(lo, n) \in Seq(Nat)
  BY <1>2
<1>4. Len(Bytes(lo, n)) = n
  BY <1>2
<1>5. \A i \in 1 .. n : Bytes(lo, n)[i] = lo + i - 1
  BY DEF Bytes
<1> QED
  BY <1>3, <1>4, <1>5, AppendSeq, Zenon

(* Freeing the head entry and cutting it short.                            *)
LEMMA TailOfBuffers ==
  ASSUME NEW q \in Seq(Entry), q # <<>>
  PROVE  /\ Tail(q) \in Seq(Entry)
         /\ Len(Tail(q)) = Len(q) - 1
         /\ \A i \in 1 .. Len(Tail(q)) : Tail(q)[i] = q[i + 1]
         /\ Len(q) >= 1
         /\ Head(q) = q[1]
         /\ q[1] \in Entry
OBVIOUS

LEMMA CutHead ==
  ASSUME NEW q \in Seq(Entry), q # <<>>, NEW n \in Nat, n < q[1].hi - q[1].lo + 1,
         NEW c, c = [lo |-> q[1].lo + n, hi |-> q[1].hi]
  PROVE  /\ <<c>> \o Tail(q) \in Seq(Entry)
         /\ Len(<<c>> \o Tail(q)) = Len(q)
         /\ (<<c>> \o Tail(q))[1] = c
         /\ \A i \in 2 .. Len(q) : (<<c>> \o Tail(q))[i] = q[i]
<1>1. c \in Entry
  BY TailOfBuffers DEF Entry
<1>2. <<c>> \in Seq(Entry) /\ Tail(q) \in Seq(Entry)
  BY <1>1
<1> QED
  BY <1>2, TailOfBuffers

-----------------------------------------------------------------------------
(* The inductive invariant.                                                *)

(* Everything still to be written lies ahead of what is on the wire, in    *)
(* increasing order: first the TLS record the session owes, then the       *)
(* entries.                                                                *)
Ahead ==
  /\ \A i \in 1 .. Len(buffers) : buffers[i].lo >= 1 /\ buffers[i].hi <= pushed
  /\ \A i, j \in 1 .. Len(buffers) : i < j => buffers[i].hi < buffers[j].lo
  /\ \A k \in 1 .. Len(wire) : wire[k] <= pushed
  /\ \A k \in 1 .. Len(wire), i \in 1 .. Len(buffers) : wire[k] < buffers[i].lo
  /\ record # NoRecord =>
       /\ 1 <= record.lo /\ record.lo <= record.hi /\ record.hi <= pushed
       /\ record.total >= 1
       /\ \A k \in 1 .. Len(wire) : wire[k] < record.lo
       /\ \A i \in 1 .. Len(buffers) : record.hi < buffers[i].lo

(* Without TLS the entries continue the wire without a gap and end at the  *)
(* last byte pushed, and no TLS record is owed.                            *)
Contiguous ==
  ~tls =>
    /\ record = NoRecord
    /\ IF buffers = <<>>
         THEN Len(wire) = pushed
         ELSE buffers[1].lo = Len(wire) + 1 /\ buffers[Len(buffers)].hi = pushed
    /\ \A i \in 1 .. Len(buffers) - 1 : buffers[i + 1].lo = buffers[i].hi + 1

(* The loop runs only with something to write on a writable sub_conn, and  *)
(* only a registered one is ever writable.                                 *)
LoopGuard ==
  /\ at = "loop" => write_available /\ buffers # <<>>
  /\ write_available => registered
  /\ ~registered => Len(wire) = 0

(* Without TLS a sub_conn that is not writable, or left the loop with      *)
(* entries, is owed an edge, or has one that will set write_available.     *)
Owed ==
  /\ Len(wire) - taken <= SndBuf
  /\ ~tls /\ registered /\ at = "idle" /\ (~write_available \/ buffers # <<>>)
       => full \/ (edge /\ (Room > 0 \/ reset))
  /\ reset /\ registered /\ at # "closed" => edge

IInv == TypeOK /\ InOrder /\ NoGap /\ Accounting /\ Ahead /\ Contiguous /\ LoopGuard /\ Owed

-----------------------------------------------------------------------------
LEMMA InitIInv == Init => IInv
<1> SUFFICES ASSUME Init PROVE IInv
  OBVIOUS
<1>1. /\ buffers = <<>> /\ wire = <<>>
      /\ pushed = 0 /\ size = 0 /\ taken = 0
      /\ record = NoRecord
      /\ at = "idle" /\ write_available = FALSE /\ registered = FALSE
  BY DEF Init
<1>2. Len(buffers) = 0 /\ Len(wire) = 0
  BY <1>1
<1>3. TypeOK
  <2>1. buffers \in Seq(Entry) /\ wire \in Seq(Nat)
    BY <1>1
  <2>2. record \in [lo : Nat, hi : Nat, total : Nat]
    BY <1>1 DEF NoRecord
  <2>3. taken \in 0 .. Len(wire) /\ pushed \in Nat /\ size \in Int
    BY <1>1, <1>2
  <2> QED
    BY <2>1, <2>2, <2>3 DEF Init, TypeOK, InboundOK
<1>4. InOrder
  BY <1>2 DEF InOrder
<1>5. NoGap
  BY <1>1, <1>2 DEF NoGap
<1>6. Accounting
  <2>1. 0 = 0 - 0
    OBVIOUS
  <2> QED
    BY <2>1, <1>1, <1>2 DEF Accounting
<1>7. Contiguous
  BY <1>1, <1>2 DEF Contiguous
<1>8. Ahead /\ LoopGuard
  BY <1>1, <1>2 DEF Ahead, LoopGuard
<1>9. Owed
  BY <1>1, <1>2, SizesAssumption DEF Init, Owed
<1> QED
  BY <1>3, <1>4, <1>5, <1>6, <1>7, <1>8, <1>9 DEF IInv

(* What Advance leaves of the buffer, position by position.                *)
LEMMA AdvanceEffect ==
  ASSUME TypeOK, buffers # <<>>, NEW n \in Nat, Advance(n)
  PROVE  /\ buffers' \in Seq(Entry)
         /\ \/ /\ n < buffers[1].hi - buffers[1].lo + 1
               /\ Len(buffers') = Len(buffers)
               /\ buffers'[1].lo = buffers[1].lo + n
               /\ buffers'[1].hi = buffers[1].hi
               /\ \A i \in 2 .. Len(buffers) : buffers'[i] = buffers[i]
               /\ at' = "idle" /\ write_available' = TRUE
            \/ /\ n >= buffers[1].hi - buffers[1].lo + 1
               /\ Len(buffers') = Len(buffers) - 1
               /\ \A i \in 1 .. Len(buffers') : buffers'[i] = buffers[i + 1]
               /\ at' = IF buffers' = <<>> THEN "idle" ELSE "loop"
               /\ IF buffers' = <<>> THEN write_available' = TRUE ELSE UNCHANGED write_available
<1> DEFINE c == [lo |-> buffers[1].lo + n, hi |-> buffers[1].hi]
<1>1. Head(buffers) = buffers[1] /\ buffers[1] \in Entry /\ buffers \in Seq(Entry)
  BY TailOfBuffers DEF TypeOK
<1>0. /\ Length(Head(buffers)) = buffers[1].hi - buffers[1].lo + 1
      /\ Length(Head(buffers)) \in Nat
      /\ buffers[1].hi - buffers[1].lo + 1 \in Nat
  BY <1>1 DEF Entry, Length
<1>2. CASE n < buffers[1].hi - buffers[1].lo + 1
  <2>1. buffers' = <<c>> \o Tail(buffers) /\ at' = "idle" /\ write_available' = TRUE
    BY <1>0, <1>1, <1>2 DEF Advance
  <2> HIDE DEF c
  <2>2. /\ buffers' \in Seq(Entry)
        /\ Len(buffers') = Len(buffers)
        /\ buffers'[1] = c
        /\ \A i \in 2 .. Len(buffers) : buffers'[i] = buffers[i]
    BY <1>1, <1>2, <2>1, CutHead DEF c
  <2> QED
    BY <1>2, <2>1, <2>2 DEF c
<1>3. CASE n >= buffers[1].hi - buffers[1].lo + 1
  <2>1. /\ buffers' = Tail(buffers)
        /\ at' = IF Tail(buffers) = <<>> THEN "idle" ELSE "loop"
        /\ IF Tail(buffers) = <<>> THEN write_available' = TRUE ELSE UNCHANGED write_available
    BY <1>0, <1>1, <1>3 DEF Advance
  <2> QED
    BY <1>3, <2>1, <1>1, TailOfBuffers
<1>4. n < buffers[1].hi - buffers[1].lo + 1 \/ n >= buffers[1].hi - buffers[1].lo + 1
  BY <1>0
<1> QED
  BY <1>2, <1>3, <1>4, Zenon

-----------------------------------------------------------------------------
(* Steps that move no byte: only the flags can be disturbed.               *)
LEMMA DataUnchanged ==
  ASSUME IInv, UNCHANGED <<tls, pushed, buffers, size, wire, record>>
  PROVE  InOrder' /\ NoGap' /\ Accounting' /\ Ahead' /\ Contiguous'
BY DEF IInv, InOrder, NoGap, Accounting, Ahead, Contiguous

(* Every step leaves the flags of the inbound half Booleans.               *)
LEMMA InboundStep ==
  ASSUME TypeOK, [Next]_vars
  PROVE  InboundOK'
<1> USE DEF TypeOK, InboundOK
<1>1. CASE \E n \in 1 .. MaxEntry : Push(n)
  BY <1>1, Zenon DEF Push, kernel
<1>2. CASE PlainWrite \/ PlainAgain
  BY <1>2, Zenon DEF PlainWrite, PlainAgain, inbound
<1>3. CASE TlsWrite \/ TlsWant \/ TlsAgain
  BY <1>3, Zenon DEF TlsWrite, TlsWant, TlsAgain, inbound
<1>4. CASE WriteError
  BY <1>4, Zenon DEF WriteError, kernel
<1>5. CASE Register
  BY <1>5, Zenon DEF Register, code
<1>6. CASE HandleEvent
  BY <1>6, Zenon DEF HandleEvent
<1>7. CASE ReadHalf
  BY <1>7, Zenon DEF ReadHalf, ReadFails, ReadDone, kernel
<1>8. CASE \E n \in 1 .. SndBuf : PeerRead(n)
  BY <1>8, Zenon DEF PeerRead, code
<1>9. CASE PeerSend
  BY <1>9, Zenon DEF PeerSend, code
<1>10. CASE PeerReset
  BY <1>10, Zenon DEF PeerReset, code
<1>11. CASE UNCHANGED vars
  BY <1>11, Zenon DEF vars
<1> QED
  BY <1>1, <1>2, <1>3, <1>4, <1>5, <1>6, <1>7, <1>8, <1>9, <1>10, <1>11 DEF Next, Loop

LEMMA QuietSteps ==
  ASSUME IInv,
         \/ PlainAgain \/ TlsAgain \/ WriteError \/ Register \/ HandleEvent \/ ReadHalf
         \/ (\E n \in 1 .. SndBuf : PeerRead(n)) \/ PeerSend \/ PeerReset
         \/ UNCHANGED vars
  PROVE  IInv'
<1> USE SizesAssumption
<1> SUFFICES /\ UNCHANGED <<tls, pushed, buffers, size, wire, record>>
             /\ TypeOK' /\ LoopGuard' /\ Owed'
  BY DataUnchanged DEF IInv
<1>0. InboundOK'
  BY InboundStep DEF IInv, Next, Loop
<1>1. CASE PlainAgain \/ TlsAgain
  <2>1. /\ at = "loop" /\ at' = "idle" /\ write_available' = FALSE /\ full' = TRUE
        /\ UNCHANGED <<tls, pushed, buffers, size, safe_close>>
        /\ UNCHANGED <<registered, wire, taken, edge, reset, record>>
    BY <1>1 DEF PlainAgain, TlsAgain
  <2>2. TypeOK'
    BY <1>0, <2>1 DEF IInv, TypeOK
  <2> QED
    BY <2>1, <2>2 DEF IInv, LoopGuard, Owed, Room
<1>2. CASE WriteError
  BY <1>0, <1>2 DEF WriteError, kernel, IInv, TypeOK, LoopGuard, Owed, Room
<1>3. CASE Register
  <2>1. Len(wire) = 0 /\ taken = 0 /\ Room' > 0
    BY <1>3 DEF Register, IInv, TypeOK, LoopGuard, Room
  <2>2. TypeOK' /\ LoopGuard' /\ UNCHANGED <<tls, pushed, buffers, size, wire, record>>
    BY <1>0, <1>3 DEF Register, code, IInv, TypeOK, LoopGuard
  <2>3. Owed'
    BY <1>3, <2>1 DEF Register, code, IInv, Owed
  <2> QED
    BY <2>2, <2>3
<1>4. CASE HandleEvent
  <2>1. /\ UNCHANGED <<tls, pushed, buffers, size, wire, record, taken, full>>
        /\ UNCHANGED <<registered, reset, safe_close>>
        /\ registered /\ edge' = FALSE
    BY <1>4 DEF HandleEvent
  <2>2. CASE at' = "closed" /\ UNCHANGED write_available
    BY <1>0, <2>1, <2>2 DEF IInv, TypeOK, LoopGuard, Owed
  <2>3. CASE /\ ~reset /\ write_available' = TRUE
             /\ at' = IF EnterLoop(TRUE, size, buffers) THEN "loop" ELSE "idle"
    <3>1. ~tls /\ buffers # <<>> => at' = "loop"
      <4> SUFFICES ASSUME ~tls, buffers # <<>> PROVE at' = "loop"
        OBVIOUS
      <4>1. Len(buffers) >= 1
        BY DEF IInv, TypeOK
      <4>2. /\ buffers[1] \in Entry /\ buffers[1].lo = Len(wire) + 1
            /\ buffers[1].hi <= pushed
        BY <4>1 DEF IInv, TypeOK, Contiguous, Ahead
      <4>3. size = pushed - Len(wire)
        BY DEF IInv, Accounting
      <4>4. size > 0
        BY <4>2, <4>3 DEF IInv, TypeOK, Entry
      <4> QED
        BY <2>3, <4>4 DEF EnterLoop
    <3>2. at' = "loop" => buffers # <<>>
      BY <2>3 DEF EnterLoop
    <3>3. at' \in {"idle", "loop"}
      BY <2>3
    <3> QED
      BY <1>0, <2>1, <2>3, <3>1, <3>2, <3>3 DEF IInv, TypeOK, LoopGuard, Owed
  <2>4. CASE /\ ~reset /\ Room = 0
             /\ UNCHANGED <<write_available, at>>
    <3>1. Room' = Room
      BY <2>1 DEF Room
    <3>2. TypeOK' /\ LoopGuard'
      BY <1>0, <2>1, <2>4 DEF IInv, TypeOK, LoopGuard
    <3>3. Owed'
      BY <2>1, <2>4, <3>1 DEF IInv, Owed
    <3> QED
      BY <2>1, <3>2, <3>3
  <2> QED
    BY <1>4, <2>2, <2>3, <2>4 DEF HandleEvent
<1>5. CASE \E n \in 1 .. SndBuf : PeerRead(n)
  <2> PICK n \in 1 .. SndBuf : PeerRead(n)
    BY <1>5
  <2>1. /\ UNCHANGED <<tls, pushed, buffers, size, write_available, safe_close, at>>
        /\ UNCHANGED <<registered, wire, reset, record>>
        /\ ~reset /\ full' = FALSE
        /\ taken' = taken + n /\ taken + n <= Len(wire)
        /\ IF full THEN edge' = TRUE ELSE UNCHANGED edge
    BY DEF PeerRead, code
  <2>2. TypeOK' /\ LoopGuard'
    <3>1. edge' \in BOOLEAN
      BY <2>1, Zenon DEF IInv, TypeOK
    <3>2. taken' \in 0 .. Len(wire')
      BY <2>1 DEF IInv, TypeOK
    <3>3. LoopGuard'
      BY <2>1 DEF IInv, LoopGuard
    <3> QED
      BY <1>0, <2>1, <3>1, <3>2, <3>3 DEF IInv, TypeOK
  <2>3. Room' > 0
    BY <2>1 DEF IInv, TypeOK, Owed, Room
  <2>4. full => edge' = TRUE
    BY <2>1
  <2>5. ~full => edge' = edge
    BY <2>1
  <2>6. Len(wire') - taken' <= SndBuf
    BY <2>1 DEF IInv, TypeOK, Owed
  <2>7. Owed'
    BY <2>1, <2>3, <2>4, <2>5, <2>6 DEF IInv, Owed
  <2> QED
    BY <2>1, <2>2, <2>7
<1>9. CASE ReadHalf
  <2>1. /\ UNCHANGED <<tls, pushed, buffers, size, write_available, safe_close, record>>
        /\ UNCHANGED <<registered, wire, taken, full, edge, reset>>
        /\ at' \in {at, "closed"} /\ at = "idle"
    BY <1>9 DEF ReadHalf, ReadFails, ReadDone, kernel
  <2>2. TypeOK'
    BY <1>0, <2>1 DEF IInv, TypeOK
  <2>3. LoopGuard'
    BY <2>1 DEF IInv, LoopGuard
  <2>4. Owed'
    BY <2>1 DEF IInv, Owed, Room
  <2> QED
    BY <2>1, <2>2, <2>3, <2>4
<1>6. CASE PeerSend
  BY <1>0, <1>6 DEF PeerSend, code, IInv, TypeOK, LoopGuard, Owed, Room
<1>7. CASE PeerReset
  BY <1>0, <1>7 DEF PeerReset, code, IInv, TypeOK, LoopGuard, Owed, Room
<1>8. CASE UNCHANGED vars
  BY <1>0, <1>8 DEF vars, IInv, TypeOK, LoopGuard, Owed, Room
<1> QED
  BY <1>1, <1>2, <1>3, <1>4, <1>5, <1>6, <1>7, <1>8, <1>9

-----------------------------------------------------------------------------
(* The elements of the state, typed one by one.                            *)
Elements ==
  /\ pushed \in Nat /\ Len(wire) \in Nat /\ Len(buffers) \in Nat
  /\ \A i \in 1 .. Len(buffers) :
       buffers[i].lo \in Nat /\ buffers[i].hi \in Nat /\ buffers[i].lo <= buffers[i].hi
  /\ \A k \in 1 .. Len(wire) : wire[k] \in Nat
  /\ record.lo \in Nat /\ record.hi \in Nat /\ record.total \in Nat

LEMMA TypedElements == TypeOK => Elements
<1> SUFFICES ASSUME TypeOK PROVE Elements
  OBVIOUS
<1>1. \A i \in 1 .. Len(buffers) : buffers[i] \in Entry
  BY DEF TypeOK
<1>2. \A i \in 1 .. Len(buffers) :
        buffers[i].lo \in Nat /\ buffers[i].hi \in Nat /\ buffers[i].lo <= buffers[i].hi
  BY <1>1 DEF Entry
<1>3. \A k \in 1 .. Len(wire) : wire[k] \in Nat
  BY DEF TypeOK
<1> QED
  BY <1>2, <1>3 DEF TypeOK, Elements

LEMMA PushStep ==
  ASSUME IInv, NEW n \in 1 .. MaxEntry, Push(n)
  PROVE  IInv'
<1> USE SizesAssumption
<1> DEFINE e == [lo |-> pushed + 1, hi |-> pushed + n]
<1>1. /\ at = "idle"
      /\ pushed' = pushed + n
      /\ buffers' = Append(buffers, e)
      /\ size' = size + n
      /\ at' = IF EnterLoop(write_available, size', buffers') THEN "loop" ELSE "idle"
      /\ UNCHANGED <<tls, write_available, safe_close, record>>
      /\ UNCHANGED <<registered, wire, taken, full, edge, reset>>
  BY DEF Push, kernel
<1>2. e \in Entry /\ e.lo = pushed + 1 /\ e.hi = pushed + n /\ n \in Nat /\ n >= 1
  BY DEF IInv, TypeOK, Entry
<1> HIDE DEF e
<1>3. /\ buffers' \in Seq(Entry)
      /\ Len(buffers') = Len(buffers) + 1
      /\ \A i \in 1 .. Len(buffers) : buffers'[i] = buffers[i]
      /\ buffers'[Len(buffers) + 1] = e
      /\ Len(buffers) \in Nat
      /\ buffers \in Seq(Entry)
  BY <1>1, <1>2 DEF IInv, TypeOK
<1>4. buffers' # <<>>
  BY <1>3
<1>5. at' \in {"idle", "loop"} /\ (at' = "loop" => write_available)
  BY <1>1 DEF EnterLoop
<1>i. InboundOK'
  BY InboundStep DEF IInv, Next
<1>6. TypeOK'
  BY <1>1, <1>2, <1>3, <1>5, <1>i DEF IInv, TypeOK
<1>0. Elements
  BY TypedElements DEF IInv
<1>7. InOrder' /\ NoGap' /\ Accounting'
  <2>1. InOrder'
    BY <1>1 DEF IInv, InOrder
  <2>2. NoGap'
    BY <1>1, <1>2 DEF IInv, TypeOK, NoGap
  <2>3. Accounting'
    <3> SUFFICES ASSUME ~tls PROVE size' = pushed' - Len(wire')
      BY <1>1 DEF Accounting
    <3>1. size = pushed - Len(wire)
      BY DEF IInv, Accounting
    <3> QED
      BY <1>0, <1>1, <1>2, <3>1 DEF Elements
  <2> QED
    BY <2>1, <2>2, <2>3
<1>8. Ahead'
  <2>1. \A i \in 1 .. Len(buffers') : buffers'[i].lo >= 1 /\ buffers'[i].hi <= pushed'
    BY <1>0, <1>1, <1>2, <1>3 DEF IInv, Elements, Ahead
  <2>2. ASSUME NEW i \in 1 .. Len(buffers'), NEW j \in 1 .. Len(buffers'), i < j
        PROVE  buffers'[i].hi < buffers'[j].lo
    <3>1. i \in 1 .. Len(buffers) /\ buffers'[i] = buffers[i] /\ buffers[i].hi <= pushed
      BY <1>3, <2>2 DEF IInv, Ahead
    <3>2. CASE j = Len(buffers) + 1
      BY <1>0, <1>2, <1>3, <3>1, <3>2 DEF Elements
    <3>3. CASE j \in 1 .. Len(buffers)
      BY <1>3, <2>2, <3>1, <3>3 DEF IInv, Ahead
    <3> QED
      BY <1>3, <3>2, <3>3
  <2>3. \A k \in 1 .. Len(wire') : wire'[k] <= pushed'
    BY <1>0, <1>1, <1>2 DEF IInv, Elements, Ahead
  <2>4. \A k \in 1 .. Len(wire'), i \in 1 .. Len(buffers') : wire'[k] < buffers'[i].lo
    BY <1>0, <1>1, <1>2, <1>3 DEF IInv, Elements, Ahead
  <2>5. record' # NoRecord =>
          /\ 1 <= record'.lo /\ record'.lo <= record'.hi /\ record'.hi <= pushed'
          /\ record'.total >= 1
          /\ \A k \in 1 .. Len(wire') : wire'[k] < record'.lo
          /\ \A i \in 1 .. Len(buffers') : record'.hi < buffers'[i].lo
    BY <1>0, <1>1, <1>2, <1>3 DEF IInv, Elements, Ahead
  <2> QED
    BY <2>1, <2>2, <2>3, <2>4, <2>5 DEF Ahead
<1>9. Contiguous'
  <2> SUFFICES ASSUME ~tls PROVE Contiguous'
    BY <1>1 DEF Contiguous
  <2>1. buffers'[Len(buffers')].hi = pushed'
    BY <1>1, <1>2, <1>3
  <2>2. CASE buffers = <<>>
    BY <1>1, <1>2, <1>3, <1>4, <2>1, <2>2 DEF IInv, Contiguous
  <2>3. CASE buffers # <<>>
    <3>1. Len(buffers) >= 1
      BY <2>3, <1>3
    <3>2. buffers'[1].lo = Len(wire') + 1
      BY <1>1, <1>3, <2>3, <3>1 DEF IInv, Contiguous
    <3>3. \A i \in 1 .. Len(buffers') - 1 : buffers'[i + 1].lo = buffers'[i].hi + 1
      <4> SUFFICES ASSUME NEW i \in 1 .. Len(buffers)
                   PROVE  buffers'[i + 1].lo = buffers'[i].hi + 1
        BY <1>3
      <4>1. CASE i = Len(buffers)
        BY <4>1, <1>2, <1>3, <2>3 DEF IInv, Contiguous
      <4>2. CASE i < Len(buffers)
        BY <4>2, <1>3 DEF IInv, Contiguous
      <4> QED
        BY <4>1, <4>2, <1>3
    <3> QED
      BY <1>1, <1>4, <2>1, <3>2, <3>3 DEF IInv, Contiguous
  <2> QED
    BY <2>2, <2>3
<1>10. LoopGuard'
  BY <1>1, <1>4, <1>5 DEF IInv, LoopGuard
<1>11. Owed'
  <2>1. ~tls /\ write_available => at' = "loop"
    <3> SUFFICES ASSUME ~tls, write_available PROVE at' = "loop"
      OBVIOUS
    <3>1. size' > 0
      BY <1>1, <1>2 DEF IInv, TypeOK, Accounting, NoGap
    <3> QED
      BY <1>1, <1>4, <3>1 DEF EnterLoop
  <2>2. Room' = Room
    BY <1>1 DEF Room
  <2> QED
    BY <1>1, <2>1, <2>2 DEF IInv, Owed
<1> QED
  BY <1>6, <1>7, <1>8, <1>9, <1>10, <1>11 DEF IInv

-----------------------------------------------------------------------------
(* Advance keeps the entries increasing and never moves one back; when it  *)
(* counts no more than the head entry holds, all that is left lies behind  *)
(* the counted bytes.                                                      *)
LEMMA AdvanceOrder ==
  ASSUME IInv, buffers # <<>>, NEW n \in Nat, Advance(n)
  PROVE  /\ \A i \in 1 .. Len(buffers') : buffers'[i].lo >= 1 /\ buffers'[i].hi <= pushed
         /\ \A i, j \in 1 .. Len(buffers') : i < j => buffers'[i].hi < buffers'[j].lo
         /\ \A x \in Nat : (\A i \in 1 .. Len(buffers) : x < buffers[i].lo)
                             => \A i \in 1 .. Len(buffers') : x < buffers'[i].lo
         /\ n <= buffers[1].hi - buffers[1].lo + 1 =>
              \A i \in 1 .. Len(buffers') : buffers'[i].lo >= buffers[1].lo + n
<1>1. Elements /\ Len(buffers) >= 1
  BY TypedElements, TailOfBuffers DEF IInv, TypeOK
<1>2. /\ \A i \in 1 .. Len(buffers) : buffers[i].lo >= 1 /\ buffers[i].hi <= pushed
      /\ \A i, j \in 1 .. Len(buffers) : i < j => buffers[i].hi < buffers[j].lo
  BY DEF IInv, Ahead
<1>3. CASE /\ n < buffers[1].hi - buffers[1].lo + 1
           /\ Len(buffers') = Len(buffers)
           /\ buffers'[1].lo = buffers[1].lo + n
           /\ buffers'[1].hi = buffers[1].hi
           /\ \A i \in 2 .. Len(buffers) : buffers'[i] = buffers[i]
  <2>0. /\ \A i \in 1 .. Len(buffers) :
             buffers[i].lo \in Nat /\ buffers[i].hi \in Nat /\ buffers[i].lo <= buffers[i].hi
        /\ pushed \in Nat /\ 1 \in 1 .. Len(buffers)
    BY <1>1 DEF Elements
  <2>1. ASSUME NEW i \in 1 .. Len(buffers')
        PROVE  /\ i \in 1 .. Len(buffers)
               /\ buffers'[i].lo \in Nat /\ buffers'[i].lo >= buffers[i].lo
               /\ buffers'[i].hi = buffers[i].hi
    <3>1. CASE i = 1
      BY <2>0, <1>3, <3>1
    <3>2. CASE i # 1
      <4>1. i \in 2 .. Len(buffers) /\ i \in 1 .. Len(buffers)
        BY <1>1, <1>3, <3>2 DEF Elements
      <4>2. buffers'[i] = buffers[i]
        BY <4>1, <1>3
      <4> QED
        BY <4>1, <4>2, <2>0
    <3> QED
      BY <3>1, <3>2
  <2>3. ASSUME NEW i \in 1 .. Len(buffers')
        PROVE  buffers'[i].lo >= 1 /\ buffers'[i].hi <= pushed
    <3>1. buffers[i].lo >= 1 /\ buffers[i].hi <= pushed /\ buffers[i].lo \in Nat
      BY <2>0, <2>1, <1>2
    <3> QED
      BY <2>1, <3>1
  <2>4. ASSUME NEW i \in 1 .. Len(buffers'), NEW j \in 1 .. Len(buffers'), i < j
        PROVE  buffers'[i].hi < buffers'[j].lo
    <3>1. buffers[i].hi < buffers[j].lo /\ buffers[i].hi \in Nat /\ buffers[j].lo \in Nat
      BY <2>0, <2>1, <2>4, <1>2
    <3> QED
      BY <2>1, <3>1
  <2>5. ASSUME NEW x \in Nat, \A i \in 1 .. Len(buffers) : x < buffers[i].lo,
               NEW i \in 1 .. Len(buffers')
        PROVE  x < buffers'[i].lo
    <3>1. x < buffers[i].lo /\ buffers[i].lo \in Nat
      BY <2>0, <2>1, <2>5
    <3> QED
      BY <2>1, <3>1
  <2>6. ASSUME NEW i \in 1 .. Len(buffers')
        PROVE  buffers'[i].lo >= buffers[1].lo + n
    <3>1. CASE i = 1
      BY <2>0, <1>3, <3>1
    <3>2. CASE i # 1
      <4>1. 1 < i /\ i \in 1 .. Len(buffers)
        BY <2>1, <3>2
      <4>2. buffers[1].hi < buffers[i].lo
        BY <4>1, <1>2, <2>0
      <4> QED
        BY <4>1, <4>2, <2>0, <2>1, <1>3
    <3> QED
      BY <3>1, <3>2
  <2> QED
    BY <2>3, <2>4, <2>5, <2>6
<1>4. CASE /\ n >= buffers[1].hi - buffers[1].lo + 1
           /\ Len(buffers') = Len(buffers) - 1
           /\ \A i \in 1 .. Len(buffers') : buffers'[i] = buffers[i + 1]
  <2>1. \A i \in 1 .. Len(buffers') : i + 1 \in 1 .. Len(buffers)
    BY <1>1, <1>4 DEF Elements
  <2>2. \A i \in 1 .. Len(buffers') : buffers'[i].lo >= 1 /\ buffers'[i].hi <= pushed
    BY <1>2, <1>4, <2>1
  <2>3. ASSUME NEW i \in 1 .. Len(buffers'), NEW j \in 1 .. Len(buffers'), i < j
        PROVE  buffers'[i].hi < buffers'[j].lo
    <3>1. i + 1 \in 1 .. Len(buffers) /\ j + 1 \in 1 .. Len(buffers) /\ i + 1 < j + 1
      BY <2>1, <2>3
    <3>2. buffers[i + 1].hi < buffers[j + 1].lo
      BY <3>1, <1>2
    <3> QED
      BY <1>4, <3>2
  <2>4. ASSUME NEW x \in Nat, \A i \in 1 .. Len(buffers) : x < buffers[i].lo
        PROVE  \A i \in 1 .. Len(buffers') : x < buffers'[i].lo
    BY <1>4, <2>1, <2>4
  <2>5. ASSUME n <= buffers[1].hi - buffers[1].lo + 1, NEW i \in 1 .. Len(buffers')
        PROVE  buffers'[i].lo >= buffers[1].lo + n
    <3>1. i + 1 \in 1 .. Len(buffers) /\ 1 \in 1 .. Len(buffers) /\ 1 < i + 1
      BY <2>1
    <3>2. buffers[1].hi < buffers[i + 1].lo
      BY <1>2, <3>1
    <3> DEFINE l == buffers[1].lo
               h == buffers[1].hi
               x == buffers[i + 1].lo
    <3>3. l \in Nat /\ h \in Nat /\ x \in Nat /\ buffers'[i].lo = x
      BY <1>1, <1>4, <3>1 DEF Elements
    <3>4. n <= h - l + 1 /\ h < x
      BY <2>5, <3>2
    <3> HIDE DEF l, h, x
    <3>5. x >= l + n
      BY <3>3, <3>4
    <3> QED
      BY <3>3, <3>5 DEF l
  <2> QED
    BY <2>2, <2>3, <2>4, <2>5
<1> QED
  BY <1>3, <1>4, AdvanceEffect, Zenon DEF IInv

(* Sending a run that starts behind everything on the wire keeps the wire  *)
(* increasing.                                                             *)
LEMMA SendRun ==
  ASSUME IInv, NEW lo \in Nat, NEW m \in Nat, lo >= 1, lo + m <= pushed + 1,
         \A k \in 1 .. Len(wire) : wire[k] < lo,
         wire' = wire \o Bytes(lo, m)
  PROVE  /\ wire' \in Seq(Nat)
         /\ Len(wire') = Len(wire) + m
         /\ \A k \in 1 .. Len(wire) : wire'[k] = wire[k]
         /\ \A k \in Len(wire) + 1 .. Len(wire) + m : wire'[k] = lo + k - Len(wire) - 1
         /\ InOrder'
         /\ \A k \in 1 .. Len(wire') : wire'[k] <= pushed /\ wire'[k] < lo + m
<1>1. wire \in Seq(Nat) /\ Len(wire) \in Nat /\ pushed \in Nat
  BY DEF IInv, TypeOK
<1>2. /\ wire' \in Seq(Nat)
      /\ Len(wire') = Len(wire) + m
      /\ \A k \in 1 .. Len(wire) : wire'[k] = wire[k]
      /\ \A k \in Len(wire) + 1 .. Len(wire) + m : wire'[k] = lo + k - Len(wire) - 1
  <2> DEFINE w == wire \o Bytes(lo, m)
  <2>1. wire' = w
    OBVIOUS
  <2>2. /\ w \in Seq(Nat)
        /\ Len(w) = Len(wire) + m
        /\ \A k \in 1 .. Len(wire) : w[k] = wire[k]
        /\ \A k \in Len(wire) + 1 .. Len(wire) + m : w[k] = lo + k - Len(wire) - 1
    BY <1>1, AppendRun
  <2> HIDE DEF w
  <2> QED
    BY <2>1, <2>2
<1>3. \A k \in 1 .. Len(wire) : wire[k] \in Nat
  BY <1>1
<1>4. ASSUME NEW k \in 1 .. Len(wire')
      PROVE  wire'[k] <= pushed /\ wire'[k] < lo + m
  <2>1. CASE k \in 1 .. Len(wire)
    BY <1>1, <1>2, <1>3, <2>1
  <2>2. CASE k \in Len(wire) + 1 .. Len(wire) + m
    BY <1>1, <1>2, <2>2
  <2> QED
    BY <1>1, <1>2, <2>1, <2>2
<1>5. ASSUME NEW i \in 1 .. Len(wire'), NEW j \in 1 .. Len(wire'), i < j
      PROVE  wire'[i] < wire'[j]
  <2>1. CASE j \in 1 .. Len(wire)
    BY <1>1, <1>2, <1>5, <2>1 DEF IInv, InOrder
  <2>2. CASE i \in 1 .. Len(wire) /\ j \in Len(wire) + 1 .. Len(wire) + m
    <3> DEFINE x == wire[i]
               y == wire'[j]
    <3>1. x \in Nat /\ x < lo /\ wire'[i] = x
      BY <1>1, <1>2, <1>3, <2>2
    <3>2. y = lo + j - Len(wire) - 1
      BY <1>2, <2>2
    <3>3. j >= Len(wire) + 1 /\ j \in Nat /\ Len(wire) \in Nat
      BY <1>1, <2>2
    <3> HIDE DEF x, y
    <3>4. x < y
      BY <1>1, <3>1, <3>2, <3>3
    <3> QED
      BY <3>1, <3>4 DEF y
  <2>3. CASE i \in Len(wire) + 1 .. Len(wire) + m /\ j \in Len(wire) + 1 .. Len(wire) + m
    BY <1>1, <1>2, <1>5, <2>3
  <2> QED
    BY <1>1, <1>2, <1>5, <2>1, <2>2, <2>3
<1>6. InOrder'
  BY <1>5 DEF InOrder
<1> QED
  BY <1>2, <1>4, <1>6

-----------------------------------------------------------------------------
LEMMA PlainWriteStep ==
  ASSUME IInv, PlainWrite
  PROVE  IInv'
<1> USE SizesAssumption
<1> DEFINE n == AtMost(Length(Head(buffers)), Room)
           L == buffers[1].hi - buffers[1].lo + 1
<1>1. /\ at = "loop" /\ ~tls /\ Room > 0
      /\ wire' = wire \o Bytes(Head(buffers).lo, n)
      /\ IF n < Length(Head(buffers)) THEN full' = TRUE ELSE UNCHANGED full
      /\ Advance(n)
      /\ UNCHANGED <<registered, taken, edge, reset, record>>
  BY DEF PlainWrite
<1>2. buffers # <<>> /\ write_available = TRUE /\ registered
  BY <1>1 DEF IInv, TypeOK, LoopGuard
<1>3. /\ Elements /\ Len(buffers) >= 1 /\ Head(buffers) = buffers[1]
      /\ buffers[1].lo \in Nat /\ buffers[1].hi \in Nat /\ buffers[1].lo <= buffers[1].hi
      /\ Len(wire) \in Nat /\ pushed \in Nat
  BY <1>2, TypedElements, TailOfBuffers DEF IInv, TypeOK, Elements
<1>4. /\ L \in Nat /\ L >= 1 /\ Room \in Nat /\ Length(Head(buffers)) = L
      /\ n \in Nat /\ n >= 1 /\ n <= L /\ n <= Room
  <2>1. Room \in Int
    BY <1>3 DEF IInv, TypeOK, Room
  <2> QED
    BY <1>1, <1>3, <2>1 DEF AtMost, Length
<1>0. L = buffers[1].hi - buffers[1].lo + 1
  OBVIOUS
<1> HIDE DEF n, L
<1>5. /\ tls' = tls /\ pushed' = pushed /\ size' = size - n /\ safe_close' = safe_close
  BY <1>1 DEF Advance
<1>6. /\ buffers[1].lo = Len(wire) + 1 /\ buffers[Len(buffers)].hi = pushed
      /\ \A i \in 1 .. Len(buffers) - 1 : buffers[i + 1].lo = buffers[i].hi + 1
      /\ record = NoRecord
      /\ size = pushed - Len(wire)
      /\ \A i \in 1 .. Len(wire) : wire[i] = i
  BY <1>1, <1>2 DEF IInv, Contiguous, Accounting, NoGap
<1>7. buffers[1].hi <= pushed
  BY <1>3 DEF IInv, Ahead
<1>8. /\ wire' \in Seq(Nat)
      /\ Len(wire') = Len(wire) + n
      /\ \A k \in 1 .. Len(wire) : wire'[k] = wire[k]
      /\ \A k \in Len(wire) + 1 .. Len(wire) + n :
           wire'[k] = buffers[1].lo + k - Len(wire) - 1
      /\ InOrder'
      /\ \A k \in 1 .. Len(wire') : wire'[k] <= pushed /\ wire'[k] < buffers[1].lo + n
  <2>1. \A k \in 1 .. Len(wire) : wire[k] < buffers[1].lo
    BY <1>3 DEF IInv, Ahead
  <2>2. buffers[1].lo >= 1 /\ buffers[1].lo + n <= pushed + 1
    BY <1>0, <1>3, <1>4, <1>6, <1>7
  <2> QED
    BY <1>1, <1>3, <1>4, <2>1, <2>2, SendRun
<1>9. /\ buffers' \in Seq(Entry)
      /\ \/ /\ n < L
            /\ Len(buffers') = Len(buffers)
            /\ buffers'[1].lo = buffers[1].lo + n
            /\ buffers'[1].hi = buffers[1].hi
            /\ \A i \in 2 .. Len(buffers) : buffers'[i] = buffers[i]
            /\ at' = "idle" /\ write_available' = TRUE
         \/ /\ n >= L
            /\ Len(buffers') = Len(buffers) - 1
            /\ \A i \in 1 .. Len(buffers') : buffers'[i] = buffers[i + 1]
            /\ at' = IF buffers' = <<>> THEN "idle" ELSE "loop"
            /\ IF buffers' = <<>> THEN write_available' = TRUE ELSE UNCHANGED write_available
  BY <1>0, <1>1, <1>2, <1>4, AdvanceEffect DEF IInv
<1>10. /\ \A i \in 1 .. Len(buffers') : buffers'[i].lo >= 1 /\ buffers'[i].hi <= pushed
       /\ \A i, j \in 1 .. Len(buffers') : i < j => buffers'[i].hi < buffers'[j].lo
       /\ \A i \in 1 .. Len(buffers') : buffers'[i].lo >= buffers[1].lo + n
  BY <1>0, <1>1, <1>2, <1>4, AdvanceOrder
<1>11. write_available' = TRUE /\ at' \in {"idle", "loop"}
  BY <1>2, <1>9, Zenon
<1>i. InboundOK'
  BY InboundStep DEF IInv, Next, Loop
<1>12. TypeOK'
  <2>1. full' \in BOOLEAN
    BY <1>1, Zenon DEF IInv, TypeOK
  <2>2. size' \in Int /\ taken' \in 0 .. Len(wire')
    BY <1>1, <1>4, <1>5, <1>8, <1>3 DEF IInv, TypeOK
  <2> QED
    BY <1>1, <1>5, <1>8, <1>9, <1>11, <1>i, <2>1, <2>2 DEF IInv, TypeOK
<1>13. NoGap'
  <2>1. Len(wire') <= pushed
    <3> DEFINE l == buffers[1].lo
               h == buffers[1].hi
               old == Len(wire)
               new == Len(wire')
    <3>1. l = old + 1 /\ new = old + n /\ h <= pushed /\ L = h - l + 1 /\ n <= L
      BY <1>0, <1>4, <1>6, <1>7, <1>8
    <3>2. l \in Nat /\ h \in Nat /\ old \in Nat /\ pushed \in Nat /\ n \in Nat
      BY <1>3, <1>4
    <3> HIDE DEF l, h, old, new
    <3>3. new <= pushed
      BY <3>1, <3>2
    <3> QED
      BY <3>3 DEF new
  <2>2. ASSUME NEW k \in 1 .. Len(wire')
        PROVE  wire'[k] = k
    <3>1. CASE k \in 1 .. Len(wire)
      BY <1>6, <1>8, <3>1
    <3>2. CASE k \in Len(wire) + 1 .. Len(wire) + n
      BY <1>3, <1>6, <1>8, <3>2
    <3> QED
      BY <1>3, <1>4, <1>8, <3>1, <3>2
  <2> QED
    BY <1>5, <2>1, <2>2 DEF NoGap
<1>14. Accounting'
  <2>1. size' = pushed' - Len(wire')
    BY <1>3, <1>4, <1>5, <1>6, <1>8
  <2> QED
    BY <2>1 DEF Accounting
<1>15. Ahead'
  <2>1. \A k \in 1 .. Len(wire'), i \in 1 .. Len(buffers') : wire'[k] < buffers'[i].lo
    <3> SUFFICES ASSUME NEW k \in 1 .. Len(wire'), NEW i \in 1 .. Len(buffers')
                 PROVE  wire'[k] < buffers'[i].lo
      OBVIOUS
    <3> DEFINE l == buffers[1].lo
               x == wire'[k]
               y == buffers'[i].lo
    <3>1. x < l + n /\ x \in Nat /\ l \in Nat
      BY <1>3, <1>8
    <3>2. y >= l + n /\ y \in Nat
      <4>1. buffers'[i] \in Entry
        BY <1>9
      <4> QED
        BY <1>10, <4>1 DEF Entry
    <3> HIDE DEF l, x, y
    <3>3. x < y
      BY <1>4, <3>1, <3>2
    <3> QED
      BY <3>3 DEF x, y
  <2> QED
    BY <1>1, <1>5, <1>6, <1>8, <1>10, <2>1 DEF Ahead
<1>16. Contiguous'
  <2>1. CASE n < L
    <3>1. /\ Len(buffers') = Len(buffers)
          /\ buffers'[1].lo = buffers[1].lo + n
          /\ buffers'[1].hi = buffers[1].hi
          /\ \A i \in 2 .. Len(buffers) : buffers'[i] = buffers[i]
      BY <1>4, <1>9, <2>1
    <3>2. buffers' # <<>> /\ buffers'[1].lo = Len(wire') + 1
      <4>1. Len(buffers') >= 1 /\ buffers' \in Seq(Entry)
        BY <1>3, <1>9, <3>1
      <4>2. buffers' # <<>>
        BY <4>1
      <4>3. buffers'[1].lo = Len(wire') + 1
        BY <1>3, <1>4, <1>6, <1>8, <3>1
      <4> QED
        BY <4>2, <4>3
    <3>3. buffers'[Len(buffers')].hi = pushed'
      BY <1>3, <1>5, <1>6, <3>1
    <3>4. ASSUME NEW i \in 1 .. Len(buffers') - 1
          PROVE  buffers'[i + 1].lo = buffers'[i].hi + 1
      <4>1. buffers'[i].hi = buffers[i].hi /\ buffers'[i + 1] = buffers[i + 1]
        BY <1>3, <3>1
      <4> QED
        BY <1>6, <3>1, <4>1
    <3> QED
      BY <1>1, <1>6, <3>2, <3>3, <3>4 DEF Contiguous
  <2>2. CASE n >= L
    <3>1. /\ Len(buffers') = Len(buffers) - 1
          /\ \A i \in 1 .. Len(buffers') : buffers'[i] = buffers[i + 1]
      BY <1>4, <1>9, <2>2
    <3>2. Len(wire') = buffers[1].hi
      <4>1. Len(wire') = Len(wire) + n /\ n = L /\ L = buffers[1].hi - buffers[1].lo + 1
        BY <1>0, <1>4, <1>8, <2>2
      <4>2. buffers[1].lo = Len(wire) + 1
        BY <1>6
      <4> QED
        BY <1>3, <4>1, <4>2
    <3>3. CASE Len(buffers) = 1
      <4>1. buffers' = <<>> /\ Len(wire') = pushed'
        BY <1>5, <1>6, <1>9, <3>1, <3>2, <3>3
      <4>2. \A i \in 1 .. Len(buffers') - 1 : buffers'[i + 1].lo = buffers'[i].hi + 1
        BY <3>1, <3>3
      <4> QED
        BY <1>1, <1>6, <4>1, <4>2 DEF Contiguous
    <3>4. CASE Len(buffers) > 1
      <4>1. buffers' # <<>> /\ Len(buffers') >= 1 /\ Len(buffers') \in Nat
        BY <3>1, <3>4, <1>9
      <4>2. buffers'[1] = buffers[2] /\ buffers[2].lo = buffers[1].hi + 1
        BY <1>6, <3>1, <3>4, <4>1
      <4>3. buffers'[Len(buffers')] = buffers[Len(buffers)]
        BY <1>3, <3>1, <4>1
      <4>4. ASSUME NEW i \in 1 .. Len(buffers') - 1
            PROVE  buffers'[i + 1].lo = buffers'[i].hi + 1
        <5>1. i + 1 \in 1 .. Len(buffers) - 1
          BY <3>1, <4>1
        <5>2. buffers'[i] = buffers[i + 1] /\ buffers'[i + 1] = buffers[i + 2]
          BY <3>1, <4>1
        <5>3. buffers[(i + 1) + 1].lo = buffers[i + 1].hi + 1
          BY <1>6, <5>1
        <5> QED
          BY <5>2, <5>3
      <4> QED
        BY <1>1, <1>5, <1>6, <3>2, <4>1, <4>2, <4>3, <4>4 DEF Contiguous
    <3>5. Len(buffers) # 1 => Len(buffers) > 1
      <4>1. \A k \in Nat : k >= 1 /\ k # 1 => k > 1
        OBVIOUS
      <4> QED
        BY <1>3, <4>1, Zenon DEF Elements
    <3> QED
      BY <3>3, <3>4, <3>5, Zenon
  <2>3. n < L \/ n >= L
    BY <1>4
  <2> QED
    BY <2>1, <2>2, <2>3, Zenon
<1>17. LoopGuard'
  <2>1. at' = "loop" => buffers' # <<>>
    BY <1>9, Zenon
  <2> QED
    BY <1>1, <1>2, <1>11, <2>1 DEF LoopGuard
<1>18. Owed'
  <2>1. Len(wire') - taken' <= SndBuf
    BY <1>1, <1>3, <1>4, <1>8 DEF IInv, TypeOK, Room
  <2>2. at' = "idle" /\ buffers' # <<>> => full'
    <3> SUFFICES ASSUME at' = "idle", buffers' # <<>> PROVE full'
      OBVIOUS
    <3>1. n < L
      BY <1>4, <1>9
    <3> QED
      BY <1>1, <1>4, <3>1
  <2>3. reset' /\ registered' /\ at' # "closed" => edge'
    BY <1>1, <1>2 DEF IInv, Owed
  <2> QED
    BY <1>11, <2>1, <2>2, <2>3 DEF Owed
<1> QED
  BY <1>8, <1>12, <1>13, <1>14, <1>15, <1>16, <1>17, <1>18 DEF IInv

-----------------------------------------------------------------------------
(* The record SSL_write is about to flush lies behind the wire and ahead   *)
(* of the entries: it is the one owed, or the front of the head entry.     *)
LEMMA RecordAhead ==
  ASSUME IInv, at = "loop", NEW r, r = CurrentRecord
  PROVE  /\ r \in [lo : Nat, hi : Nat, total : Nat]
         /\ r.lo >= 1 /\ r.lo <= r.hi /\ r.hi <= pushed /\ r.total >= 1
         /\ \A k \in 1 .. Len(wire) : wire[k] < r.lo
         /\ \/ /\ r.lo = buffers[1].lo /\ r.hi = buffers[1].lo + r.total - 1
               /\ r.total <= buffers[1].hi - buffers[1].lo + 1
            \/ \A i \in 1 .. Len(buffers) : r.hi < buffers[i].lo
<1> USE SizesAssumption
<1>1. buffers # <<>> /\ Elements
  BY TypedElements DEF IInv, LoopGuard
<1>2. Len(buffers) >= 1 /\ Head(buffers) = buffers[1] /\ 1 \in 1 .. Len(buffers)
  BY <1>1, TailOfBuffers DEF IInv, TypeOK
<1>3. /\ buffers[1].lo \in Nat /\ buffers[1].hi \in Nat /\ buffers[1].lo <= buffers[1].hi
      /\ buffers[1].lo >= 1 /\ buffers[1].hi <= pushed /\ pushed \in Nat
  BY <1>1, <1>2 DEF IInv, Ahead, Elements
<1>4. CASE record = NoRecord
  <2> DEFINE n == AtMost(Length(Head(buffers)), MaxRecord)
  <2>1. r = [lo |-> buffers[1].lo, hi |-> buffers[1].lo + n - 1, total |-> n]
    BY <1>2, <1>4 DEF CurrentRecord
  <2>2. n \in Nat /\ n >= 1 /\ n <= buffers[1].hi - buffers[1].lo + 1
    BY <1>2, <1>3 DEF AtMost, Length
  <2> HIDE DEF n
  <2>3. r.lo = buffers[1].lo /\ r.hi = buffers[1].lo + n - 1 /\ r.total = n
    BY <2>1
  <2>4. buffers[1].lo + n - 1 \in Nat
    BY <1>3, <2>2
  <2>5. r \in [lo : Nat, hi : Nat, total : Nat]
    BY <1>3, <2>1, <2>2, <2>4
  <2>6. \A k \in 1 .. Len(wire) : wire[k] < buffers[1].lo
    BY <1>2 DEF IInv, Ahead
  <2>7. r.lo >= 1 /\ r.lo <= r.hi /\ r.hi <= pushed /\ r.total >= 1
    BY <1>3, <2>2, <2>3
  <2> QED
    BY <2>2, <2>3, <2>5, <2>6, <2>7
<1>5. CASE record # NoRecord
  <2>1. r = record
    BY <1>5 DEF CurrentRecord
  <2> QED
    BY <1>5, <2>1 DEF IInv, TypeOK, Ahead
<1> QED
  BY <1>4, <1>5

(* With TLS the conjuncts about plain sub_conns say nothing.               *)
LEMMA TlsOnly ==
  ASSUME tls' = TRUE
  PROVE  NoGap' /\ Accounting' /\ Contiguous'
BY DEF NoGap, Accounting, Contiguous

LEMMA TlsWriteStep ==
  ASSUME IInv, TlsWrite
  PROVE  IInv'
<1> USE SizesAssumption
<1> DEFINE r == CurrentRecord
           m == Length(CurrentRecord)
<1>1. /\ at = "loop" /\ tls = TRUE /\ ~reset
      /\ m <= Room
      /\ wire' = wire \o Bytes(r.lo, m)
      /\ record' = NoRecord
      /\ Advance(r.total)
      /\ UNCHANGED <<registered, taken, full, edge, reset>>
  BY DEF TlsWrite
<1>2. buffers # <<>> /\ write_available = TRUE /\ registered /\ Elements
  BY <1>1, TypedElements DEF IInv, TypeOK, LoopGuard
<1>3. /\ r \in [lo : Nat, hi : Nat, total : Nat]
      /\ r.lo >= 1 /\ r.lo <= r.hi /\ r.hi <= pushed /\ r.total >= 1
      /\ \A k \in 1 .. Len(wire) : wire[k] < r.lo
      /\ \/ /\ r.lo = buffers[1].lo /\ r.hi = buffers[1].lo + r.total - 1
            /\ r.total <= buffers[1].hi - buffers[1].lo + 1
         \/ \A i \in 1 .. Len(buffers) : r.hi < buffers[i].lo
  BY <1>1, RecordAhead
<1>4. m = r.hi - r.lo + 1
  BY DEF Length
<1> HIDE DEF r, m
<1>5. /\ r.lo \in Nat /\ r.hi \in Nat /\ r.total \in Nat /\ pushed \in Nat
      /\ m \in Nat /\ r.lo + m = r.hi + 1 /\ Len(wire) \in Nat
  <2>1. r.lo \in Nat /\ r.hi \in Nat /\ r.total \in Nat /\ r.lo <= r.hi
    BY <1>3
  <2>2. pushed \in Nat /\ Len(wire) \in Nat
    BY <1>2, Zenon DEF Elements
  <2>3. m \in Nat /\ r.lo + m = r.hi + 1
    BY <1>4, <2>1
  <2> QED
    BY <2>1, <2>2, <2>3
<1>6. /\ wire' \in Seq(Nat)
      /\ Len(wire') = Len(wire) + m
      /\ InOrder'
      /\ \A k \in 1 .. Len(wire') : wire'[k] <= pushed /\ wire'[k] < r.lo + m
  <2>1. r.lo + m <= pushed + 1
    BY <1>3, <1>5
  <2> QED
    BY <1>1, <1>3, <1>5, <2>1, SendRun
<1>7. /\ tls' = tls /\ pushed' = pushed /\ size' = size - r.total /\ safe_close' = safe_close
  BY <1>1 DEF Advance
<1>8. /\ buffers' \in Seq(Entry)
      /\ write_available' = TRUE /\ at' \in {"idle", "loop"}
      /\ at' = "loop" => buffers' # <<>>
  <2>1. /\ buffers' \in Seq(Entry)
        /\ \/ at' = "idle" /\ write_available' = TRUE
           \/ /\ at' = IF buffers' = <<>> THEN "idle" ELSE "loop"
              /\ IF buffers' = <<>> THEN write_available' = TRUE ELSE UNCHANGED write_available
    BY <1>1, <1>2, <1>5, AdvanceEffect, Zenon DEF IInv
  <2> QED
    BY <1>2, <2>1, Zenon
<1>9. /\ \A i \in 1 .. Len(buffers') : buffers'[i].lo >= 1 /\ buffers'[i].hi <= pushed
      /\ \A i, j \in 1 .. Len(buffers') : i < j => buffers'[i].hi < buffers'[j].lo
      /\ \A x \in Nat : (\A i \in 1 .. Len(buffers) : x < buffers[i].lo)
                          => \A i \in 1 .. Len(buffers') : x < buffers'[i].lo
      /\ r.total <= buffers[1].hi - buffers[1].lo + 1 =>
           \A i \in 1 .. Len(buffers') : buffers'[i].lo >= buffers[1].lo + r.total
  BY <1>1, <1>2, <1>5, AdvanceOrder
<1>10. \A i \in 1 .. Len(buffers') : r.hi < buffers'[i].lo
  <2>1. CASE \A i \in 1 .. Len(buffers) : r.hi < buffers[i].lo
    BY <1>5, <1>9, <2>1
  <2>2. CASE /\ r.lo = buffers[1].lo /\ r.hi = buffers[1].lo + r.total - 1
             /\ r.total <= buffers[1].hi - buffers[1].lo + 1
    <3> SUFFICES ASSUME NEW i \in 1 .. Len(buffers')
                 PROVE  r.hi < buffers'[i].lo
      OBVIOUS
    <3>1. buffers'[i] \in Entry
      BY <1>8
    <3>2. buffers'[i].lo >= buffers[1].lo + r.total /\ buffers'[i].lo \in Nat
      BY <1>9, <2>2, <3>1 DEF Entry
    <3>3. buffers[1].lo \in Nat
      BY <1>5, <2>2
    <3>4. r.hi = buffers[1].lo + r.total - 1 /\ r.hi \in Nat /\ r.total \in Nat
      BY <1>5, <2>2
    <3> QED
      BY <3>2, <3>3, <3>4
  <2> QED
    BY <1>3, <2>1, <2>2, Zenon
<1>11. Ahead'
  <2>1. ASSUME NEW k \in 1 .. Len(wire'), NEW i \in 1 .. Len(buffers')
        PROVE  wire'[k] < buffers'[i].lo
    <3> DEFINE x == wire'[k]
               y == buffers'[i].lo
               h == r.hi
    <3>1. buffers'[i] \in Entry /\ x \in Nat
      BY <1>6, <1>8
    <3>2. y \in Nat /\ h \in Nat
      BY <1>5, <3>1 DEF Entry
    <3>3. x < r.lo + m /\ r.lo + m = h + 1 /\ h < y
      BY <1>5, <1>6, <1>10
    <3> HIDE DEF x, y, h
    <3>4. x < y
      BY <3>1, <3>2, <3>3
    <3> QED
      BY <3>4 DEF x, y
  <2> QED
    BY <1>1, <1>6, <1>7, <1>9, <2>1 DEF Ahead
<1>i. InboundOK'
  BY InboundStep DEF IInv, Next, Loop
<1>12. TypeOK'
  <2>1. taken' \in 0 .. Len(wire')
    <3>1. taken \in 0 .. Len(wire) /\ taken' = taken
      BY <1>1 DEF IInv, TypeOK
    <3> QED
      BY <1>5, <1>6, <3>1
  <2>3. size' \in Int
    <3>1. size \in Int /\ size' = size - r.total /\ r.total \in Nat
      BY <1>5, <1>7 DEF IInv, TypeOK
    <3> QED
      BY <3>1
  <2>2. record' \in [lo : Nat, hi : Nat, total : Nat]
    BY <1>1 DEF NoRecord
  <2> QED
    BY <1>1, <1>6, <1>7, <1>8, <1>i, <2>1, <2>2, <2>3 DEF IInv, TypeOK
<1>13. LoopGuard'
  BY <1>1, <1>2, <1>8 DEF LoopGuard
<1>14. Owed'
  <2>1. Len(wire') - taken' <= SndBuf
    BY <1>1, <1>5, <1>6 DEF IInv, TypeOK, Room
  <2> QED
    BY <1>1, <1>7, <2>1 DEF Owed
<1> QED
  BY <1>1, <1>6, <1>7, <1>11, <1>12, <1>13, <1>14, TlsOnly DEF IInv

LEMMA TlsWantStep ==
  ASSUME IInv, TlsWant
  PROVE  IInv'
<1> USE SizesAssumption
<1> DEFINE r == CurrentRecord
           rest == [lo |-> r.lo + Room, hi |-> r.hi, total |-> r.total]
<1>1. /\ at = "loop" /\ tls = TRUE /\ ~reset
      /\ Length(r) > Room
      /\ wire' = wire \o Bytes(r.lo, Room)
      /\ record' = [r EXCEPT !.lo = @ + Room]
      /\ size' = size + 1
      /\ buffers' = Tail(buffers)
      /\ at' = IF Tail(buffers) = <<>> THEN "idle" ELSE "loop"
      /\ IF Tail(buffers) = <<>> THEN write_available' = TRUE ELSE UNCHANGED write_available
      /\ UNCHANGED <<tls, pushed, safe_close>>
      /\ UNCHANGED <<registered, taken, edge, reset>>
      /\ full' = TRUE
  BY DEF TlsWant
<1>2. buffers # <<>> /\ write_available = TRUE /\ registered /\ Elements
  BY <1>1, TypedElements DEF IInv, TypeOK, LoopGuard
<1>3. /\ r \in [lo : Nat, hi : Nat, total : Nat]
      /\ r.lo >= 1 /\ r.lo <= r.hi /\ r.hi <= pushed /\ r.total >= 1
      /\ \A k \in 1 .. Len(wire) : wire[k] < r.lo
      /\ \/ /\ r.lo = buffers[1].lo /\ r.hi = buffers[1].lo + r.total - 1
            /\ r.total <= buffers[1].hi - buffers[1].lo + 1
         \/ \A i \in 1 .. Len(buffers) : r.hi < buffers[i].lo
  BY <1>1, RecordAhead
<1>4. Room < r.hi - r.lo + 1
  BY <1>1 DEF Length
<1> HIDE DEF r
<1>5. /\ r.lo \in Nat /\ r.hi \in Nat /\ r.total \in Nat /\ pushed \in Nat
      /\ Len(wire) \in Nat
  BY <1>2, <1>3 DEF Elements
<1>6. Room \in Nat /\ Room = SndBuf - (Len(wire) - taken) /\ taken \in Int
  <2>1. taken \in Nat /\ Len(wire) - taken <= SndBuf
    BY DEF IInv, TypeOK, Owed
  <2> QED
    BY <1>5, <2>1 DEF Room
<1>7. record' = rest
  BY <1>1, <1>3
<1>8. /\ wire' \in Seq(Nat)
      /\ Len(wire') = Len(wire) + Room
      /\ InOrder'
      /\ \A k \in 1 .. Len(wire') : wire'[k] <= pushed /\ wire'[k] < r.lo + Room
  <2>1. r.lo + Room <= pushed + 1
    BY <1>3, <1>4, <1>5, <1>6
  <2> QED
    BY <1>1, <1>3, <1>5, <1>6, <2>1, SendRun
<1>9. /\ buffers' \in Seq(Entry)
      /\ Len(buffers') = Len(buffers) - 1
      /\ \A i \in 1 .. Len(buffers') : buffers'[i] = buffers[i + 1]
      /\ Len(buffers) \in Nat
  BY <1>1, <1>2, TailOfBuffers DEF IInv, TypeOK, Elements
<1>10. /\ write_available' = TRUE /\ at' \in {"idle", "loop"}
       /\ at' = "loop" => buffers' # <<>>
  BY <1>1, <1>2, Zenon
<1>11. ASSUME NEW i \in 1 .. Len(buffers')
       PROVE  /\ i + 1 \in 1 .. Len(buffers) /\ i + 1 > 1
              /\ buffers'[i] = buffers[i + 1]
              /\ buffers[i + 1].lo \in Nat /\ r.hi < buffers[i + 1].lo
  <2>1. i + 1 \in 1 .. Len(buffers) /\ i + 1 > 1 /\ 1 \in 1 .. Len(buffers)
    BY <1>9
  <2>2. /\ buffers[i + 1].lo \in Nat /\ buffers[1].lo \in Nat /\ buffers[1].hi \in Nat
        /\ buffers[1].hi < buffers[i + 1].lo
    BY <1>2, <2>1 DEF IInv, Ahead, Elements
  <2>3. r.hi < buffers[i + 1].lo
    <3>1. CASE \A l \in 1 .. Len(buffers) : r.hi < buffers[l].lo
      BY <2>1, <3>1
    <3>2. CASE /\ r.lo = buffers[1].lo /\ r.hi = buffers[1].lo + r.total - 1
               /\ r.total <= buffers[1].hi - buffers[1].lo + 1
      <4> DEFINE l == buffers[1].lo
                 h == buffers[1].hi
                 x == buffers[i + 1].lo
                 t == r.total
      <4>1. /\ r.hi = l + t - 1 /\ t <= h - l + 1 /\ h < x
            /\ l \in Nat /\ h \in Nat /\ x \in Nat /\ t \in Nat
        BY <1>5, <2>2, <3>2
      <4> HIDE DEF l, h, x, t
      <4>2. r.hi < x
        BY <4>1
      <4> QED
        BY <4>2 DEF x
    <3> QED
      BY <1>3, <3>1, <3>2, Zenon
  <2> QED
    BY <1>9, <2>1, <2>2, <2>3
<1>12. Ahead'
  <2>1. \A i \in 1 .. Len(buffers') : buffers'[i].lo >= 1 /\ buffers'[i].hi <= pushed
    BY <1>11 DEF IInv, Ahead
  <2>2. ASSUME NEW i \in 1 .. Len(buffers'), NEW j \in 1 .. Len(buffers'), i < j
        PROVE  buffers'[i].hi < buffers'[j].lo
    <3>1. i + 1 < j + 1
      BY <2>2
    <3> QED
      BY <1>11, <3>1 DEF IInv, Ahead
  <2>3. ASSUME NEW k \in 1 .. Len(wire'), NEW i \in 1 .. Len(buffers')
        PROVE  wire'[k] < buffers'[i].lo
    <3> DEFINE x == wire'[k]
               y == buffers'[i].lo
               l == r.lo
               h == r.hi
               room == Room
    <3>1. x \in Nat /\ x < l + room
      BY <1>8
    <3>2. y \in Nat /\ h < y
      BY <1>11
    <3>3. l \in Nat /\ h \in Nat /\ room \in Nat /\ room < h - l + 1
      BY <1>4, <1>5, <1>6
    <3> HIDE DEF x, y, l, h, room
    <3>4. x < y
      BY <3>1, <3>2, <3>3
    <3> QED
      BY <3>4 DEF x, y
  <2>4. rest.lo = r.lo + Room /\ rest.hi = r.hi /\ rest.total = r.total
    OBVIOUS
  <2>5. 1 <= r.lo + Room /\ r.lo + Room <= r.hi /\ r.hi <= pushed /\ r.total >= 1
    BY <1>3, <1>4, <1>5, <1>6
  <2>6. \A i \in 1 .. Len(buffers') : r.hi < buffers'[i].lo
    BY <1>11
  <2> HIDE DEF rest
  <2> QED
    BY <1>1, <1>7, <1>8, <2>1, <2>2, <2>3, <2>4, <2>5, <2>6 DEF Ahead
<1>i. InboundOK'
  BY InboundStep DEF IInv, Next, Loop
<1>13. TypeOK'
  <2>1. taken' \in 0 .. Len(wire')
    <3>1. taken \in 0 .. Len(wire) /\ taken' = taken
      BY <1>1 DEF IInv, TypeOK
    <3> QED
      BY <1>5, <1>6, <1>8, <3>1
  <2>3. size' \in Int
    BY <1>1 DEF IInv, TypeOK
  <2>2. record' \in [lo : Nat, hi : Nat, total : Nat]
    <3>1. r.lo + Room \in Nat
      BY <1>5, <1>6
    <3> QED
      BY <1>5, <1>7, <3>1
  <2> QED
    BY <1>1, <1>8, <1>9, <1>10, <1>i, <2>1, <2>2, <2>3 DEF IInv, TypeOK
<1>14. LoopGuard'
  BY <1>1, <1>2, <1>10 DEF LoopGuard
<1>15. Owed'
  <2>1. Len(wire') - taken' <= SndBuf
    BY <1>1, <1>5, <1>6, <1>8
  <2> QED
    BY <1>1, <2>1 DEF Owed
<1> QED
  BY <1>1, <1>8, <1>12, <1>13, <1>14, <1>15, TlsOnly DEF IInv


-----------------------------------------------------------------------------
LEMMA StepIInv == IInv /\ [Next]_vars => IInv'
<1> SUFFICES ASSUME IInv, [Next]_vars PROVE IInv'
  OBVIOUS
<1>1. CASE \E n \in 1 .. MaxEntry : Push(n)
  BY <1>1, PushStep
<1>2. CASE PlainWrite
  BY <1>2, PlainWriteStep
<1>3. CASE TlsWrite
  BY <1>3, TlsWriteStep
<1>4. CASE TlsWant
  BY <1>4, TlsWantStep
<1>5. CASE \/ PlainAgain \/ TlsAgain \/ WriteError \/ Register \/ HandleEvent \/ ReadHalf
           \/ (\E n \in 1 .. SndBuf : PeerRead(n)) \/ PeerSend \/ PeerReset
           \/ UNCHANGED vars
  BY <1>5, QuietSteps
<1> QED
  BY <1>1, <1>2, <1>3, <1>4, <1>5 DEF Next, Loop

THEOREM Invariance == Spec => []IInv
BY InitIInv, StepIInv, PTL DEF Spec

(* Every variable keeps its type; in particular the buffer never holds an  *)
(* empty entry and the peer never reads more than was written.             *)
THEOREM TypeCorrect == Spec => []TypeOK
<1>1. IInv => TypeOK
  BY DEF IInv
<1> QED
  BY Invariance, <1>1, PTL

(* For any sizes of pushes, socket and TLS records, and through any        *)
(* sequence of short writes, EAGAIN, WANT_WRITE and errors, bytes leave in *)
(* the order they were pushed and none leaves twice.                       *)
THEOREM Order == Spec => []InOrder
<1>1. IInv => InOrder
  BY DEF IInv
<1> QED
  BY Invariance, <1>1, PTL

(* Without TLS the socket has always accepted a prefix of what was pushed. *)
THEOREM Prefix == Spec => []NoGap
<1>1. IInv => NoGap
  BY DEF IInv
<1> QED
  BY Invariance, <1>1, PTL

(* Without TLS write_buffer.size counts exactly what is still to write.    *)
THEOREM SizeIsBacklog == Spec => []Accounting
<1>1. IInv => Accounting
  BY DEF IInv
<1> QED
  BY Invariance, <1>1, PTL

(* Without TLS the worker never leaves bytes behind in trigger_write       *)
(* without an edge waiting or owed that will bring it back.                *)
THEOREM Wakeup == Spec => []NoLostWakeup
<1>1. IInv => NoLostWakeup
  BY DEF IInv, TypeOK, Owed, NoLostWakeup
<1> QED
  BY Invariance, <1>1, PTL

-----------------------------------------------------------------------------
(* What the peer has read, as a sequence.                                  *)
Read == SubSeq(wire, 1, taken)

LEMMA ReadFacts ==
  ASSUME IInv
  PROVE  /\ Read \in Seq(Nat) /\ Len(Read) = taken /\ taken \in Nat
         /\ \A i \in 1 .. taken : Read[i] = wire[i]
<1>1. wire \in Seq(Nat) /\ taken \in 0 .. Len(wire)
  BY DEF IInv, TypeOK
<1> QED
  BY <1>1 DEF Read

LEMMA SameReading ==
  ASSUME NEW p \in Seq(Nat), NEW q \in Seq(Nat), Len(p) = Len(q),
         \A i \in 1 .. Len(p) : p[i] = q[i]
  PROVE  p = q
OBVIOUS

(* Reading n more bytes of the gapless stream extends what was read by the *)
(* next n positions.                                                       *)
LEMMA ReadMore ==
  ASSUME NEW w \in Seq(Nat), NEW t \in Nat, NEW n \in Nat, t + n <= Len(w),
         \A i \in 1 .. Len(w) : w[i] = i
  PROVE  SubSeq(w, 1, t + n)
           = SubSeq(w, 1, t) \o [i \in 1 .. n |-> Len(SubSeq(w, 1, t)) + i]
<1> DEFINE p == SubSeq(w, 1, t)
           q == SubSeq(w, 1, t + n)
           run == [i \in 1 .. n |-> Len(p) + i]
<1>1. p \in Seq(Nat) /\ Len(p) = t /\ \A i \in 1 .. t : p[i] = i
  OBVIOUS
<1>2. q \in Seq(Nat) /\ Len(q) = t + n /\ \A i \in 1 .. t + n : q[i] = i
  OBVIOUS
<1>3. run \in Seq(Nat) /\ Len(run) = n /\ \A i \in 1 .. n : run[i] = t + i
  BY <1>1
<1> HIDE DEF p, q, run
<1>4. /\ p \o run \in Seq(Nat) /\ Len(p \o run) = t + n
      /\ \A i \in 1 .. t : (p \o run)[i] = p[i]
      /\ \A i \in t + 1 .. t + n : (p \o run)[i] = run[i - t]
  <2>1. p \in Seq(Nat) /\ run \in Seq(Nat) /\ Len(p) = t /\ Len(run) = n
    BY <1>1, <1>3
  <2>2. /\ p \o run \in Seq(Nat) /\ Len(p \o run) = Len(p) + Len(run)
        /\ \A i \in 1 .. Len(p) + Len(run) :
             (p \o run)[i] = IF i <= Len(p) THEN p[i] ELSE run[i - Len(p)]
    BY <2>1, ConcatProperties
  <2>3. ASSUME NEW i \in 1 .. t
        PROVE  (p \o run)[i] = p[i]
    <3>1. i \in 1 .. Len(p) + Len(run) /\ i <= Len(p)
      BY <2>1
    <3> QED
      BY <2>2, <3>1
  <2>4. ASSUME NEW i \in t + 1 .. t + n
        PROVE  (p \o run)[i] = run[i - t]
    <3>1. i \in 1 .. Len(p) + Len(run) /\ ~(i <= Len(p)) /\ Len(p) = t
      BY <2>1
    <3> QED
      BY <2>2, <3>1
  <2> QED
    BY <2>1, <2>2, <2>3, <2>4
<1>5. ASSUME NEW i \in 1 .. t + n
      PROVE  (p \o run)[i] = i
  <2>1. CASE i <= t
    BY <1>1, <1>4, <2>1
  <2>2. CASE i > t
    <3>1. i - t \in 1 .. n /\ i \in t + 1 .. t + n /\ t + (i - t) = i
      BY <2>2
    <3> QED
      BY <1>3, <1>4, <3>1
  <2>3. i <= t \/ i > t
    OBVIOUS
  <2> QED
    BY <2>1, <2>2, <2>3, Zenon
<1>6. q = p \o run
  BY <1>2, <1>4, <1>5, SameReading
<1> QED
  BY <1>6 DEF p, q, run

(* Writing more leaves what was read as it is.                             *)
LEMMA WriteReads ==
  ASSUME IInv, IInv', tls = FALSE, tls' = FALSE, taken' = taken, Len(wire') >= Len(wire)
  PROVE  Read' = Read
<1>1. /\ Read \in Seq(Nat) /\ Len(Read) = taken
      /\ \A i \in 1 .. taken : Read[i] = wire[i]
  BY ReadFacts
<1>2. /\ Read' \in Seq(Nat) /\ Len(Read') = taken'
      /\ \A i \in 1 .. taken' : Read'[i] = wire'[i]
  <2>1. wire' \in Seq(Nat) /\ taken' \in 0 .. Len(wire')
    BY DEF IInv, TypeOK
  <2> QED
    BY <2>1 DEF Read
<1>3. /\ \A i \in 1 .. taken : wire[i] = i
      /\ \A i \in 1 .. taken' : wire'[i] = i
  <2>1. NoGap /\ NoGap' /\ taken \in 0 .. Len(wire) /\ taken' \in 0 .. Len(wire')
    BY Zenon DEF IInv, TypeOK
  <2>2. Len(wire) \in Nat /\ Len(wire') \in Nat
    BY DEF IInv, TypeOK
  <2> QED
    BY <2>1, <2>2 DEF NoGap
<1> QED
  BY <1>1, <1>2, <1>3, SameReading

(* What a step may do to the channel without TLS: nothing, hand over more  *)
(* bytes, close it, or deliver the next bytes of those handed over.        *)
Plain ==
  \/ pushed' = pushed /\ Read' = Read /\ (at' = "closed" <=> at = "closed")
  \/ at = "idle" /\ at' # "closed" /\ pushed' > pushed /\ pushed' \in Nat /\ Read' = Read
  \/ at # "closed" /\ at' = "closed" /\ pushed' = pushed /\ Read' = Read
  \/ \E n \in 1 .. (pushed - Len(Read)) :
       /\ pushed' = pushed /\ at' = at
       /\ Read' = Read \o [i \in 1 .. n |-> Len(Read) + i]

LEMMA TlsKept == [Next]_vars => tls' = tls
BY DEF Next, Loop, Push, PlainWrite, PlainAgain, TlsWrite, TlsWant, TlsAgain, Advance,
       WriteError, Register, HandleEvent, ReadHalf, ReadFails, ReadDone, PeerRead,
       PeerSend, PeerReset, code, vars

(* Without TLS write_buffer, trigger_write and the socket together         *)
(* implement an ordered channel that loses and duplicates nothing, up to   *)
(* the moment on_closed frees what is queued.                              *)
THEOREM Refinement == Spec => ChannelSpec
<1> USE SizesAssumption
<1>1. Init => Channel!Init
  <2> SUFFICES ASSUME Init PROVE Channel!Init
    OBVIOUS
  <2>1. wire = <<>> /\ taken = 0 /\ pushed = 0 /\ at = "idle"
    BY DEF Init
  <2>2. SubSeq(wire, 1, taken) = <<>>
    BY <2>1
  <2> QED
    BY <2>1, <2>2, Zenon DEF Channel!Init
<1>2. IInv /\ IInv' /\ [Next]_vars => [Channel!Next]_(Channel!chan)
  <2> SUFFICES ASSUME IInv, IInv', [Next]_vars
               PROVE  [Channel!Next]_(Channel!chan)
    OBVIOUS
  <2>t. tls' = tls
    BY TlsKept
  <2>s. CASE tls
    BY <2>s, <2>t, Zenon DEF Channel!chan
  <2>p. ASSUME ~tls PROVE Plain => [Channel!Next]_(Channel!chan)
    <3>1. ASSUME pushed' = pushed, Read' = Read, at' = "closed" <=> at = "closed"
          PROVE  UNCHANGED Channel!chan
      BY <2>t, <2>p, <3>1, Zenon DEF Channel!chan, Read
    <3>2. ASSUME at = "idle", at' # "closed", pushed' > pushed, pushed' \in Nat, Read' = Read
          PROVE  Channel!Send
      BY <2>t, <2>p, <3>2, Zenon DEF Channel!Send, Read
    <3>3. ASSUME at # "closed", at' = "closed", pushed' = pushed, Read' = Read
          PROVE  Channel!Close
      BY <2>t, <2>p, <3>3, Zenon DEF Channel!Close, Read
    <3>4. ASSUME NEW n \in 1 .. (pushed - Len(Read)), pushed' = pushed, at' = at,
                 Read' = Read \o [i \in 1 .. n |-> Len(Read) + i]
          PROVE  Channel!Deliver
      BY <2>t, <2>p, <3>4, Zenon DEF Channel!Deliver, Read
    <3> QED
      BY <3>1, <3>2, <3>3, <3>4, Zenon DEF Plain, Channel!Next
  <2> SUFFICES ASSUME tls = FALSE
               PROVE  Plain
    BY <2>s, <2>p, Zenon DEF IInv, TypeOK
  <2>1. CASE \E n \in 1 .. MaxEntry : Push(n)
    <3> PICK n \in 1 .. MaxEntry : Push(n)
      BY <2>1
    <3>1. /\ pushed' = pushed + n /\ n \in Nat /\ n >= 1 /\ pushed \in Nat
          /\ at = "idle" /\ at' # "closed"
          /\ UNCHANGED <<wire, taken>>
      BY DEF Push, kernel, IInv, TypeOK
    <3>2. pushed' > pushed /\ pushed' \in Nat
      BY <3>1
    <3>3. Read' = Read
      BY <3>1 DEF Read
    <3> QED
      BY <3>1, <3>2, <3>3 DEF Plain
  <2>2. CASE PlainWrite
    <3>1. /\ UNCHANGED <<pushed, taken>> /\ at = "loop" /\ at' \in {"idle", "loop"}
      <4>1. /\ Advance(AtMost(Length(Head(buffers)), Room)) /\ at = "loop" /\ taken' = taken
        BY <2>2 DEF PlainWrite
      <4> QED
        BY <4>1 DEF Advance
    <3>2. Len(wire') >= Len(wire)
      <4>1. /\ at = "loop" /\ Room > 0
            /\ wire' = wire \o Bytes(Head(buffers).lo, AtMost(Length(Head(buffers)), Room))
        BY <2>2 DEF PlainWrite
      <4>2. buffers # <<>> /\ wire \in Seq(Nat) /\ Len(wire) \in Nat /\ Room \in Int
        BY <4>1 DEF IInv, LoopGuard, TypeOK, Room
      <4>3. Head(buffers) \in Entry /\ Head(buffers).lo >= 1
        BY <4>2, TailOfBuffers DEF IInv, TypeOK, Ahead
      <4>4. Head(buffers).lo \in Nat /\ Length(Head(buffers)) \in Nat
        BY <4>3 DEF Entry, Length
      <4>5. AtMost(Length(Head(buffers)), Room) \in Nat
        BY <4>1, <4>2, <4>4 DEF AtMost
      <4>6. Len(wire') = Len(wire) + AtMost(Length(Head(buffers)), Room)
        BY <4>1, <4>2, <4>3, <4>4, <4>5, AppendRun
      <4> QED
        BY <4>2, <4>5, <4>6
    <3>3. Read' = Read
      BY <2>t, <3>1, <3>2, WriteReads
    <3> QED
      BY <3>1, <3>3 DEF Plain
  <2>3. CASE PlainAgain \/ WriteError
    <3>1. UNCHANGED <<pushed, wire, taken>> /\ at = "loop" /\ at' = "idle"
      BY <2>3 DEF PlainAgain, WriteError, kernel
    <3> QED
      BY <3>1 DEF Read, Plain
  <2>4. CASE Register \/ PeerSend \/ PeerReset \/ UNCHANGED vars
    <3>1. UNCHANGED <<pushed, wire, taken, at>>
      BY <2>4 DEF Register, PeerSend, PeerReset, code, vars
    <3> QED
      BY <3>1 DEF Read, Plain
  <2>5. CASE HandleEvent \/ ReadHalf
    <3>1. UNCHANGED <<pushed, wire, taken>> /\ at = "idle"
      BY <2>5 DEF HandleEvent, ReadHalf, ReadFails, ReadDone, kernel
    <3>2. Read' = Read
      BY <3>1 DEF Read
    <3> QED
      BY <3>1, <3>2 DEF Plain
  <2>6. CASE \E n \in 1 .. SndBuf : PeerRead(n)
    <3> PICK n \in 1 .. SndBuf : PeerRead(n)
      BY <2>6
    <3>1. /\ UNCHANGED <<pushed, wire, at>>
          /\ taken' = taken + n /\ taken + n <= Len(wire)
          /\ n \in Nat /\ n >= 1 /\ Len(wire) <= pushed /\ pushed \in Nat
          /\ \A i \in 1 .. Len(wire) : wire[i] = i
          /\ wire \in Seq(Nat) /\ Len(wire) \in Nat
      BY DEF PeerRead, code, IInv, TypeOK, NoGap
    <3>2. /\ Read \in Seq(Nat) /\ Len(Read) = taken /\ taken \in Nat
          /\ \A i \in 1 .. taken : Read[i] = wire[i]
      BY ReadFacts
    <3>3. n \in 1 .. (pushed - Len(Read))
      BY <3>1, <3>2
    <3>4. Read' = Read \o [i \in 1 .. n |-> Len(Read) + i]
      BY <3>1, <3>2, ReadMore DEF Read
    <3> QED
      BY <3>1, <3>3, <3>4 DEF Plain
  <2>7. CASE TlsWrite \/ TlsWant \/ TlsAgain
    BY <2>7 DEF TlsWrite, TlsWant, TlsAgain
  <2> QED
    BY <2>1, <2>2, <2>3, <2>4, <2>5, <2>6, <2>7 DEF Next, Loop
<1> QED
  BY <1>1, <1>2, Invariance, PTL DEF Spec, ChannelSpec, Channel!Spec

=============================================================================
