------------------------------- MODULE Headers -------------------------------
(***************************************************************************)
(* The header container of requests and responses (src/src/headers.c): the *)
(* entries in order, and a map from names to lists of them.                *)
(*                                                                         *)
(* A name is stored in lower case, but only header_get and header_del look *)
(* it up so; the others look for the name as it was given.  For a name     *)
(* with a capital they find nothing: header_add starts a new list, which   *)
(* hides the entries before it from header_get, and header_set never       *)
(* replaces a value.                                                       *)
(***************************************************************************)
EXTENDS Naturals, Sequences

(* The names with capitals that the server uses.                           *)
str_tolower(name) ==
  CASE name = "Location"          -> "location"
    [] name = "ETag"              -> "etag"
    [] name = "Content-Type"      -> "content-type"
    [] name = "Content-Length"    -> "content-length"
    [] name = "Cache-Control"     -> "cache-control"
    [] name = "Transfer-Encoding" -> "transfer-encoding"
    [] OTHER                      -> name

(* list holds the entries, map the identities of the entries under a name. *)
header_new == [list |-> <<>>, map |-> <<>>, made |-> 0]

Under(h, name) == IF name \in DOMAIN h.map THEN h.map[name] ELSE <<>>
Entry(h, id) == CHOOSE i \in DOMAIN h.list : h.list[i].id = id

(* The map with the list ids under a key.                                  *)
hashmap_put(map, key, ids) ==
  [name \in DOMAIN map \union {key} |-> IF name = key THEN ids ELSE map[name]]

(* The values of a name, by their places in the order of serialisation.    *)
Values(h, name) ==
  LET places == {i \in DOMAIN h.list : h.list[i].name = str_tolower(name)} IN
  [i \in places |-> h.list[i].value]

header_get(h, name, default) ==
  LET ids == Under(h, str_tolower(name)) IN
  IF ids = <<>> THEN default ELSE h.list[Entry(h, Head(ids))].value

header_add(h, name, value) ==
  LET id == h.made + 1
      key == str_tolower(name) IN
  [list |-> Append(h.list, [id |-> id, name |-> key, value |-> value]),
   map |-> hashmap_put(h.map, key, Append(Under(h, name), id)),
   made |-> id]

header_prepend(h, name, value) ==
  LET id == h.made + 1
      key == str_tolower(name) IN
  [list |-> <<[id |-> id, name |-> key, value |-> value]>> \o h.list,
   map |-> hashmap_put(h.map, key, <<id>> \o Under(h, name)),
   made |-> id]

header_setoradd(h, name, value) ==
  IF Under(h, name) = <<>>
    THEN header_add(h, name, value)
    ELSE [h EXCEPT !.list[Entry(h, Head(Under(h, name)))].value = value]

header_del(h, name) ==
  LET ids == Under(h, str_tolower(name)) IN
  IF ids = <<>>
    THEN h
    ELSE [h EXCEPT
            !.list = SelectSeq(@, LAMBDA e : \A i \in DOMAIN ids : ids[i] # e.id),
            !.map = hashmap_put(@, str_tolower(name), <<>>)]
=============================================================================
