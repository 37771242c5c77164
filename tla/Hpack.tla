-------------------------------- MODULE Hpack --------------------------------
(***************************************************************************)
(* Header compression (src/src/hpack.c, RFC 7541): the decoder of the      *)
(* requests' headers, the encoder of the responses' headers and the        *)
(* dynamic table under both.  A block of headers is a sequence of          *)
(* representations, whose integers are in octets; those of the texts and   *)
(* the Huffman code are left out.                                          *)
(*                                                                         *)
(* The peer's side is the RFC's: a table whose newest entry is first, from *)
(* which entries go as soon as they exceed its limit.                      *)
(***************************************************************************)
EXTENDS Integers, Sequences, FiniteSets, SequencesExt

CONSTANTS
  Static,      \* static_entries: a sequence of headers, their value may be None
  Headers,     \* headers: records of a name and a value
  EntrySize,   \* the size of a header, or one read of another's name, as an entry of
               \* the table
  NeverIndex,  \* never_index_headers: names
  Mask,        \* prefix_mask of an "indexed", "adding", "literal" or "resize"
  Group,       \* what a further octet of an integer counts up to: 2^7
  None

Names == {h.name : h \in Headers \union Range(Static)}
Values == {h.value : h \in Headers \union Range(Static)}
AnyHeader == [name : Names, value : Values \ {None}]

ASSUME HpackAssumption ==
  /\ Static # <<>> /\ Static \in Seq([name : Names, value : Values])
  /\ Headers # {} /\ Headers \subseteq AnyHeader
  /\ EntrySize \in [AnyHeader -> Nat \ {0}]
  /\ Mask \in [{"indexed", "adding", "literal", "resize"} -> Nat \ {0}]
  /\ Group \in Nat \ {0, 1}
  /\ None \notin [name : Names, value : Values]
                    \union [name : Names, value : Values, size : Nat]


(* The sizes of a table's entries together.                                *)
Weight(table) ==
  LET upto[k \in 0 .. Len(table)] == IF k = 0 THEN 0 ELSE upto[k - 1] + table[k].size
  IN  upto[Len(table)]

(* hpack_init.  The table is kept with its newest entry first.             *)
hpack_init(max) ==
  [table |-> <<>>, size |-> 0, max |-> max, pushed |-> 0,
   lookup |-> [n \in Names |-> <<>>]]

-----------------------------------------------------------------------------
(* Slip: what is gone still counts.                                        *)
EvictUncounted(ctx, kept) == [ctx EXCEPT !.table = SubSeq(@, 1, kept)]

(* A list without the nodes that the entries in gone remember.             *)
WithoutNodes(entries, gone) ==
  LET Deleted(e) == e.node /\ \E i \in DOMAIN gone : gone[i].push = e.push
      list[i \in 0 .. Len(entries)] ==
        IF i = 0 THEN <<>>
        ELSE list[i - 1] \o IF Deleted(entries[i]) THEN <<>> ELSE <<entries[i]>>
  IN  list[Len(entries)]

(* hpack_fix with the number of entries that stay.  Of an entry in the     *)
(* lookup lists only the node that it remembers is deleted.                *)
Evict(ctx, kept) ==
  LET gone == SubSeq(ctx.table, kept + 1, Len(ctx.table))
  IN [ctx EXCEPT !.table = SubSeq(@, 1, kept), !.size = @ - Weight(gone),
                 !.lookup = [n \in Names |-> WithoutNodes(@[n], gone)]]

(* The oldest entries go until extra more fits, or none is left.           *)
hpack_fix(ctx, extra) ==
  LET Fits(k) == ctx.size - Weight(SubSeq(ctx.table, k + 1, Len(ctx.table)))
                   + extra <= ctx.max
  IN Evict(ctx, Max({0} \union {k \in 0 .. Len(ctx.table) : Fits(k)}))

(* An entry larger than the table is added all the same.                   *)
hpack_add_entry(ctx, e) ==
  LET c == hpack_fix(ctx, e.size)
  IN [c EXCEPT !.table = <<e>> \o @, !.size = @ + e.size]

Entry(h) == [name |-> h.name, value |-> h.value, size |-> EntrySize[h]]

(* queue_index, counted from the newest entry.                             *)
QueueIndex(table, i) == IF i \in DOMAIN table THEN table[i] ELSE None

(* Slip: the static table is taken for one entry shorter.                  *)
hpack_lookup_61(ctx, index) ==
  IF index \in DOMAIN Static
    THEN [ctx |-> ctx, entry |-> Static[index]]
    ELSE LET c == IF index = 0 THEN ctx ELSE hpack_fix(ctx, 0)
         IN [ctx |-> c, entry |-> QueueIndex(c.table, index - Len(Static) + 1)]

(* The static table's entries come first, then the dynamic table's.        *)
hpack_lookup(ctx, index) ==
  IF index \in DOMAIN Static
    THEN [ctx |-> ctx, entry |-> Static[index]]
    ELSE LET c == IF index = 0 THEN ctx ELSE hpack_fix(ctx, 0)
         IN [ctx |-> c, entry |-> QueueIndex(c.table, index - Len(Static))]

-----------------------------------------------------------------------------
(* Integers: the mask's value says that octets follow, the highest bit of  *)
(* one of these that there is one more.                                    *)
hpack_encode_integer(prefix_mask, integer) ==
  LET octets[n \in 0 .. integer] ==
        IF n < Group THEN <<n>> ELSE <<Group + (n % Group)>> \o octets[n \div Group]
  IN  IF integer < prefix_mask THEN <<integer>>
        ELSE <<prefix_mask>> \o octets[integer - prefix_mask]

(* Both ends read them so.                                                 *)
hpack_decode_integer(prefix_mask, input) ==
  LET ret[i \in 2 .. Len(input)] ==
        (input[i] % Group)
          + IF input[i] < Group \/ i = Len(input) THEN 0 ELSE Group * ret[i + 1]
  IN  IF input[1] # prefix_mask THEN input[1] ELSE prefix_mask + ret[2]

(* The representations.                                                    *)
LiteralMask(add) == IF add THEN Mask.adding ELSE Mask.literal
Indexed(i) == [rep |-> "indexed", octets |-> hpack_encode_integer(Mask.indexed, i)]
Literal(i, h, add) ==
  [rep |-> "literal", octets |-> hpack_encode_integer(LiteralMask(add), i), h |-> h, add |-> add]
Resize(n) == [rep |-> "resize", octets |-> hpack_encode_integer(Mask.resize, n)]

(* The index, or the limit, that a representation has.                     *)
IntegerOf(r) ==
  hpack_decode_integer(IF r.rep = "literal" THEN LiteralMask(r.add) ELSE Mask[r.rep], r.octets)

(* hpack_decode's loop body.  A change of the table's size evicts nothing. *)
DecodeOne(d, r) ==
  LET index == IntegerOf(r)
      at == hpack_lookup(d.ctx, IF r.rep = "resize" THEN 0 ELSE index)
      With(ctx, h) == [d EXCEPT !.ctx = ctx, !.headers = Append(@, h)]
  IN IF d.error THEN d ELSE
     CASE r.rep = "indexed" ->
            IF at.entry = None THEN [d EXCEPT !.error = TRUE]
              ELSE With(at.ctx, [name |-> at.entry.name, value |-> at.entry.value])
       [] r.rep = "literal" ->
            LET h == [name |-> IF index = 0 THEN r.h.name ELSE at.entry.name,
                      value |-> r.h.value]
            IN IF index # 0 /\ at.entry = None THEN [d EXCEPT !.error = TRUE]
                 ELSE With(IF r.add THEN hpack_add_entry(at.ctx, Entry(h)) ELSE at.ctx, h)
       [] r.rep = "resize" -> [d EXCEPT !.error = index > d.ctx.max]

hpack_decode(ctx, block) ==
  LET after[i \in 0 .. Len(block)] ==
        IF i = 0 THEN [ctx |-> ctx, headers |-> <<>>, error |-> FALSE]
                 ELSE DecodeOne(after[i - 1], block[i])
  IN  after[Len(block)]

-----------------------------------------------------------------------------
(* _hpack_entry_in_list: where it may stop, 0 for nowhere.  The value of   *)
(* an entry whose owner is freed compares as it happens to.                *)
Comparisons(e, value, alive) ==
  IF e.owner \in alive THEN {e.value = value} ELSE BOOLEAN

EntryInList(entries, value, alive) ==
  LET Can(k, b) == b \in Comparisons(entries[k], value, alive)
  IN {k \in 0 .. Len(entries) : /\ k # 0 => Can(k, TRUE)
                                /\ \A j \in 1 .. Len(entries) :
                                     (k = 0 \/ j < k) => Can(j, FALSE)}

(* What a header is encoded as.                                            *)
Forms(ctx, h, alive) ==
  LET same == {i \in DOMAIN Static : Static[i].name = h.name}
      full == {i \in same : Static[i].value = h.value}
      entries == ctx.lookup[h.name]
      Index(e) == ctx.pushed - e.push + Len(Static)
      add == h.name \notin NeverIndex
  IN IF full # {} THEN {Indexed(Min(full))}
     ELSE IF same # {} /\ Static[Min(same)].value # None
       THEN {Literal(Min(same), h, add)}
     ELSE {IF k # 0 THEN Indexed(Index(entries[k]))
             ELSE Literal(IF same # {} THEN Min(same)
                            ELSE IF entries # <<>> THEN Index(entries[1]) ELSE 0, h, add) :
             k \in EntryInList(entries, h.value, alive)}

(* An entry, by one of its two nodes.                                      *)
ListEntry(h, push, owner, node) ==
  [name |-> h.name, value |-> h.value, size |-> EntrySize[h],
   push |-> push, owner |-> owner, node |-> node]

(* Slip: the entry does not count.                                         *)
NewEntryUncounted(ctx, h, owner) ==
  LET Node(b) == ListEntry(h, ctx.pushed, owner, b)
      c == hpack_add_entry(ctx, Node(TRUE))
  IN [c EXCEPT !.lookup[h.name] = @ \o <<Node(FALSE), Node(TRUE)>>]

(* A new entry is numbered and listed, twice: it remembers the second node.*)
(* Its key and value are in the memory of the request, its owner.          *)
NewEntry(ctx, h, owner) ==
  LET Node(b) == ListEntry(h, ctx.pushed, owner, b)
      c == hpack_add_entry(ctx, Node(TRUE))
  IN [c EXCEPT !.pushed = @ + 1, !.lookup[h.name] = @ \o <<Node(FALSE), Node(TRUE)>>]

EncodeOne(e, h, owner, alive) ==
  {[reps |-> Append(e.reps, r),
    ctx |-> IF r.rep = "literal" /\ r.add THEN NewEntry(e.ctx, h, owner) ELSE e.ctx] :
     r \in Forms(e.ctx, h, alive)}

(* hpack_encode: what it may give for the headers of an owner.             *)
hpack_encode(ctx, headers, owner, alive) ==
  LET after[i \in 0 .. Len(headers)] ==
        IF i = 0 THEN {[ctx |-> ctx, reps |-> <<Resize(ctx.max)>>]}
                 ELSE UNION {EncodeOne(e, headers[i], owner, alive) : e \in after[i - 1]}
  IN  after[Len(headers)]

-----------------------------------------------------------------------------
(* The peer, as an encoder and as a decoder: a table and its limit.        *)
PeerKeeps(table, room) ==
  SubSeq(table, 1, Max({0} \union
                       {k \in 0 .. Len(table) : Weight(SubSeq(table, 1, k)) <= room}))

PeerAdds(table, limit, h) ==
  IF EntrySize[h] > limit THEN <<>>
    ELSE <<Entry(h)>> \o PeerKeeps(table, limit - EntrySize[h])

(* The name and value behind an index, None where there is nothing.        *)
PeerLookup(table, i) ==
  IF i \in DOMAIN Static THEN Static[i]
    ELSE LET e == QueueIndex(table, i - Len(Static))
         IN IF e = None THEN None ELSE [name |-> e.name, value |-> e.value]

PeerDecodeOne(d, r) ==
  LET index == IntegerOf(r) IN
  CASE r.rep = "resize" -> [d EXCEPT !.table = PeerKeeps(@, index), !.limit = index]
    [] r.rep = "indexed" -> [d EXCEPT !.headers = Append(@, PeerLookup(d.table, index))]
    [] r.rep = "literal" ->
         LET named == PeerLookup(d.table, index)
             h == [r.h EXCEPT !.name = IF index = 0 \/ named = None THEN @ ELSE named.name]
             lost == index # 0 /\ named = None
         IN [d EXCEPT !.headers = Append(@, IF lost THEN None ELSE h),
                      !.table = IF r.add /\ ~lost /\ h \in Headers
                                  THEN PeerAdds(@, d.limit, h) ELSE @]

PeerDecodes(peer, reps) ==
  LET after[i \in 0 .. Len(reps)] ==
        IF i = 0 THEN [table |-> peer.table, limit |-> peer.limit, headers |-> <<>>]
                 ELSE PeerDecodeOne(after[i - 1], reps[i])
  IN  after[Len(reps)]
=============================================================================
