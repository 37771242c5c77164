------------------------------- MODULE MCHttp2 -------------------------------
(* Header names: a has an entry in the static table with a value, b one    *)
(* without; c has none.                                                    *)
EXTENDS Http2Connection

MCHeader(n, v) == [name |-> n, value |-> v]
MCStatic == <<MCHeader("a", "1"), MCHeader("b", None)>>
MCHeaders == {MCHeader("b", "1"), MCHeader("c", "1"), MCHeader("c", "22"), MCHeader("d", "1")}
MCAnyHeader == {MCHeader(n, v) : n \in {"a", "b", "c", "d"}, v \in {"1", "22"}}
MCEntrySize == [h \in MCAnyHeader |-> IF h.value = "22" THEN 3 ELSE 1]
MCNeverIndex == {"b"}
MCMask == [indexed |-> 3, adding |-> 1, literal |-> 1, resize |-> 1]
MCResponses == {<<MCHeader("c", "1"), MCHeader("b", "1"), MCHeader("c", "1")>>,
                <<MCHeader("b", "1")>>, <<MCHeader("d", "1")>>}
MCStreams == 1 .. 3
MCProfiles == {[table |-> TRUE, streams |-> 3, work |-> 4],
               [table |-> FALSE, streams |-> 2, work |-> 5]}
=============================================================================
