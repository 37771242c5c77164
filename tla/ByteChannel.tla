---------------------------- MODULE ByteChannel ----------------------------
(***************************************************************************)
(* What one direction of an open connection promises to its user: the      *)
(* bytes handed over come out at the other end in the order they went in,  *)
(* each once, none skipped.  The sending end may go away at any time: what *)
(* was sent before may still come out.  Bytes are named by their position  *)
(* in the stream.                                                          *)
(***************************************************************************)
EXTENDS Naturals, Sequences

VARIABLES
  sent,       \* how many bytes have been handed over
  delivered,  \* the positions that came out, in the order they came out
  open        \* FALSE once the sending end is gone

chan == <<sent, delivered, open>>

Init ==
  /\ sent = 0
  /\ delivered = <<>>
  /\ open = TRUE

Send ==
  /\ open
  /\ sent' > sent
  /\ sent' \in Nat
  /\ UNCHANGED <<delivered, open>>

(* A run of n bytes comes out: the next n, and only bytes already sent.    *)
Deliver ==
  \E n \in 1 .. (sent - Len(delivered)) :
    /\ delivered' = delivered \o [i \in 1 .. n |-> Len(delivered) + i]
    /\ UNCHANGED <<sent, open>>

Close ==
  /\ open
  /\ open' = FALSE
  /\ UNCHANGED <<sent, delivered>>

Next == Send \/ Deliver \/ Close

Spec == Init /\ [][Next]_chan
=============================================================================
