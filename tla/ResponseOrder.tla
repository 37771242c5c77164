--------------------------- MODULE ResponseOrder ---------------------------
(***************************************************************************)
(* What a client of one HTTP/1.1 connection may rely on: responses come    *)
(* back one at a time and in the order of the requests, so that a response *)
(* can be matched to its request by position.  A response is either        *)
(* written whole, or opened, written in parts, and ended or broken off.    *)
(***************************************************************************)
EXTENDS Naturals, Sequences

VARIABLES
  log,      \* what was written to the client: [req, what] in order
  current   \* the request whose response is open, 0 when there is none

order == <<log, current>>

Later(k) == \A i \in 1 .. Len(log) : log[i].req < k

Init == log = <<>> /\ current = 0

Whole ==
  /\ current = 0
  /\ \E k \in {e.req : e \in {log'[i] : i \in DOMAIN log'}} :
       /\ k # 0 /\ Later(k)
       /\ log' = Append(log, [req |-> k, what |-> "whole"])
  /\ UNCHANGED current

(* The header may go out with the opening or later.                        *)
Open ==
  /\ current = 0
  /\ current' \in Nat \ {0}
  /\ Later(current')
  /\ log' \in {log, Append(log, [req |-> current', what |-> "head"])}

Part ==
  /\ current # 0
  /\ log' \in {Append(log, [req |-> current, what |-> w]) : w \in {"head", "data"}}
  /\ UNCHANGED current

End ==
  /\ current # 0
  /\ log' \in {log, Append(log, [req |-> current, what |-> "end"])}
  /\ current' = 0

Next == Whole \/ Open \/ Part \/ End

Spec == Init /\ [][Next]_order
=============================================================================
