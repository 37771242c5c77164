-------------------------- MODULE MCHttpConnection --------------------------
(***************************************************************************)
(* Instances of HttpConnection for TLC: short scripts of plain requests,   *)
(* POSTs with a body of two bytes, and requests answered by a stream.      *)
(***************************************************************************)
EXTENDS HttpConnection

Get == [body |-> 0, resp |-> "whole"]
Post == [body |-> 2, resp |-> "whole"]
GetStream == [body |-> 0, resp |-> "stream"]
PostDelayed == [body |-> 2, resp |-> "delayed"]

Pairs == [1 .. 2 -> {Get, Post, GetStream, PostDelayed}]
Setting(requests0, unawaited, shortest, limit, character) ==
  [script |-> requests0, pipelining |-> unawaited, min_read |-> shortest,
   max_post |-> limit, beyond |-> character]

(* Reads of any length, and nothing is waited for.                         *)
Pipelined ==
  {Setting(s, Responses, 1, 0, "CR") : s \in Pairs \union {<<GetStream, Get, Get>>}}

(* Reads of three bytes or more, and streamed responses are waited for.    *)
Awaited0 ==
  {Setting(s, {"whole"}, 3, 3, b) :
     s \in Pairs \union {<<Get, Get, Get>>, <<Get, Post, Get>>, <<PostDelayed, GetStream, Get>>},
     b \in {"h", "CR", "LF"}}

Any == Pipelined \union Awaited0
Gets == {Setting(<<Get, Get>>, {"whole"}, 1, 0, "h")}
=============================================================================
