------------------------------ MODULE OnceCache ------------------------------
(***************************************************************************)
(* What the readers of a cache may rely on from which nothing is removed.  *)
(* A key has the answers a lookup may get, None if it may find nothing:    *)
(* each fits the key, and stays one.  The first answer of a key is its     *)
(* only one for good, unless the key is lent: known to the cache by memory *)
(* that is not its own.                                                    *)
(***************************************************************************)
CONSTANTS Keys, None, Fits(_, _)
VARIABLES answers, lent

Init == answers = [k \in Keys |-> {None}] /\ lent = {}

Next ==
  /\ lent \subseteq lent'
  /\ \A k \in Keys :
       /\ \A a \in answers'[k] : a = None \/ Fits(k, a)
       /\ answers[k] \ {None} \subseteq answers'[k]
       /\ k \notin lent' /\ answers[k] # {None} => answers'[k] = answers[k]

Spec == Init /\ [][Next]_<<answers, lent>>
=============================================================================
