-------------------------- MODULE MCConnectionLife --------------------------
(***************************************************************************)
(* Instances of ConnectionLife for TLC: two connections, two workers, one  *)
(* or two accept threads.                                                  *)
(***************************************************************************)
EXTENDS ConnectionLife
=============================================================================
