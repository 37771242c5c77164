--------------------------- MODULE MCWriteBuffer ---------------------------
(***************************************************************************)
(* Instances of WriteBuffer for TLC.  Entries of up to four bytes, a       *)
(* socket of three: a push can be written whole, in part, or not at all, and *)
(* a second entry can wait behind a half-written one.                      *)
(***************************************************************************)
EXTENDS WriteBuffer
=============================================================================
