---------------------------- MODULE StreamedBody ----------------------------
(***************************************************************************)
(* What a client may rely on when a response body is streamed to it: the   *)
(* body comes out from its first byte on, nothing repeated or skipped, and *)
(* once it has ended nothing follows.  The response may also break off.    *)
(* Body bytes are named by their position in the body.                     *)
(***************************************************************************)
EXTENDS Naturals, Sequences

VARIABLES
  produced,   \* bytes of the body the source has handed over
  delivered,  \* positions written to the client, in order
  open        \* FALSE once the response has ended or broken off

body == <<produced, delivered, open>>

Init == produced = 0 /\ delivered = <<>> /\ open = TRUE

Produce ==
  /\ produced' \in Nat /\ produced' > produced
  /\ UNCHANGED <<delivered, open>>

Deliver ==
  /\ open
  /\ \E n \in 1 .. (produced - Len(delivered)) :
       delivered' = delivered \o [i \in 1 .. n |-> Len(delivered) + i]
  /\ UNCHANGED <<produced, open>>

(* A regular end comes after everything; BreakOff does not promise that.   *)
End ==
  /\ open /\ open' = FALSE
  /\ Len(delivered) = produced
  /\ UNCHANGED <<produced, delivered>>

BreakOff ==
  /\ open /\ open' = FALSE
  /\ UNCHANGED <<produced, delivered>>

Next == Produce \/ Deliver \/ End \/ BreakOff

Spec == Init /\ [][Next]_body
=============================================================================
