---------------------------- MODULE MCFcgiStream ----------------------------
(***************************************************************************)
(* Instances of FcgiStream for TLC: one header byte, the two halves of the *)
(* headers' end and up to three body bytes, cut into frames in every way,  *)
(* with up to one frame of standard error or of another request between.   *)
(*                                                                         *)
(* Octets have 16 values: a length takes one octet below 8 and a frame     *)
(* holds at most 255 octets.  The letters a, b are 10, 11, above A, B.     *)
(***************************************************************************)
EXTENDS FcgiStream

Digit(n) == [i \in 1 .. n |-> i % 10]

Names ==
  [CONTENT_LENGTH |-> <<8, 1>>, CONTENT_TYPE |-> <<8, 2>>, PATH_INFO |-> <<8, 3>>,
   PATH_TRANSLATED |-> <<8, 8, 8, 8, 8, 8, 8, 8>>, SCRIPT_NAME |-> <<8, 4>>,
   SERVER_NAME |-> <<8, 5>>, DOCUMENT_ROOT |-> <<8, 6>>, SCRIPT_FILENAME |-> <<8, 7>>,
   HTTP_ |-> <<9, 13>>, AcceptEncoding |-> <<9, 12, 11>>]

Root == <<14, 8, 14>>

(* The request's lengths are at and behind each limit.                     *)
Request(id, body, long) ==
  [id |-> id, body |-> body,
   content_type |-> IF body = 0 THEN None ELSE Digit(8),
   given |-> <<[name |-> Digit(7), value |-> Digit(long)], [name |-> Digit(long), value |-> <<>>]>>,
   extra_path |-> IF long = 7 THEN None ELSE <<14, 10>>,
   htpath |-> IF long = 7 THEN <<14, 8>> ELSE Root \o Digit(5),
   host |-> IF long = 7 THEN None ELSE <<10>>,
   headers |-> <<[name |-> <<9, 12, 11>>, value |-> <<1>>],
                 [name |-> <<9, 12, 8, 11>>, value |-> <<2>>],
                 [name |-> <<9, 12, 10, 11>>, value |-> Digit(long)]>>]

AnyRequest ==
  {Request(0, 0, 7), Request(1, 255, 8), Request(17, 256, 17), Request(255, 600, 123)}
OneRequest == {Request(1, 0, 7)}

ASSUME Fitting == RecordsFit
=============================================================================
