----------------------------- MODULE StaticCache -----------------------------
(***************************************************************************)
(* The static cache of a virtual host (src/src/cache.c): a map from paths  *)
(* to lists of entries, here the entries of all lists in the order of      *)
(* their insertion, each with the place of the first entry of its list.    *)
(*                                                                         *)
(* The key of a list is the path of its first entry, by its address.  If   *)
(* the address is in the memory of a request (key, else 0), the key is     *)
(* gone with the request.  The map is outside this repository: here, as it *)
(* compares hashes before names, a lookup may miss a list whose key is     *)
(* gone, and never takes it for that of another path.                      *)
(*                                                                         *)
(* Its reader-writer lock makes each call one step; a lookup and the       *)
(* insertion that follows a miss are two.                                  *)
(***************************************************************************)
EXTENDS Naturals, Sequences

CONSTANT None

cache_new == <<>>

(* Slip: the entries of all paths are in one list.                         *)
ListsAll(entries, request_path) == {i \in DOMAIN entries : entries[i].list = i}

(* The lists a path was inserted under, by their first entries.            *)
Lists(entries, request_path) ==
  {i \in DOMAIN entries : entries[i].list = i /\ entries[i].request_path = request_path}

(* What hashmap_get may come upon, 0 for none, if held are the requests    *)
(* whose memory is there.                                                  *)
hashmap_get(entries, request_path, held) ==
  LET lists == Lists(entries, request_path) IN
  IF \E l \in lists : entries[l].key \in {0} \union held THEN lists ELSE lists \union {0}

(* Slip: the newest entry is looked at first.                              *)
NewestServing(entries, list, content_encoding) ==
  LET hits == {i \in DOMAIN entries :
                 /\ list # 0 /\ entries[i].list = list
                 /\ content_encoding \/ ~entries[i].content_encoding} IN
  IF hits = {} THEN None ELSE entries[CHOOSE i \in hits : \A j \in hits : j <= i]

(* The first entry of a list that serves: one with an encoding serves only *)
(* who asks for one.                                                       *)
FirstServing(entries, list, content_encoding) ==
  LET hits == {i \in DOMAIN entries :
                 /\ list # 0 /\ entries[i].list = list
                 /\ content_encoding \/ ~entries[i].content_encoding} IN
  IF hits = {} THEN None ELSE entries[CHOOSE i \in hits : \A j \in hits : i <= j]

(* What a lookup may return, and what the caches may be after an insertion. *)
cache_get(entries, request_path, content_encoding, held) ==
  {FirstServing(entries, list, content_encoding) :
     list \in hashmap_get(entries, request_path, held)}

cache_add(entries, scache, held) ==
  {Append(entries, [scache EXCEPT !.list = IF list = 0 THEN Len(entries) + 1 ELSE list]) :
     list \in hashmap_get(entries, scache.request_path, held)}
=============================================================================
