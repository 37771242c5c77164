------------------------------ MODULE Documents ------------------------------
(***************************************************************************)
(* How the htdocs virtual host finds the file of a request's path          *)
(* (src/modules/htdocs/src/vhost_htdocs.c).                                *)
(*                                                                         *)
(* Paths are sequences of characters, as in Vhosts; a name is a non-empty  *)
(* sequence without "/".  The file system is a function from the names     *)
(* that lead from "/" to a file or directory:                              *)
(*   kind      "dir" or "file"; "denied" where stat fails with EACCES,     *)
(*             "broken" where it fails otherwise                           *)
(*   readable  what access says                                            *)
(*   outside   realpath leads out of the document root                     *)
(*   linked    there is more than one hard link                            *)
(*   size      "empty", "small", "zippable" (more than 1024 octets) or     *)
(*             "large" (from 1 MiB on)                                     *)
(*   type      its MIME type, and ver, which of its contents it has        *)
(* A virtual host is [htdocs: its root, index: names, symlock, nohardlinks *)
(* and more].                                                              *)
(***************************************************************************)
EXTENDS Naturals, Sequences, FiniteSets

NUL == "NUL"

(* The path without "#" and "?" and what follows.                          *)
Bare(path) ==
  LET marks == {i \in DOMAIN path : path[i] \in {"#", "?"}} IN
  IF marks = {} THEN path
  ELSE SubSeq(path, 1, (CHOOSE i \in marks : \A j \in marks : i <= j) - 1)

(***************************************************************************)
(* The loop that splits at "/".  A "/" directly behind the last one is cut *)
(* out, and the character that takes its place is not looked at.  The      *)
(* first character counts as a last "/" whatever it is.                    *)
(***************************************************************************)
Split(text) ==
  LET from[s \in (1 .. Len(text) + 2) \X BOOLEAN] ==
        LET i == s[1]
            behind == s[2] IN
        IF i > Len(text) THEN <<>>
        ELSE IF text[i] # "/" THEN <<text[i]>> \o from[<<i + 1, i = 1>>]
        ELSE IF ~behind THEN <<NUL>> \o from[<<i + 1, TRUE>>]
        ELSE IF i = Len(text) THEN <<>>
        ELSE <<text[i + 1]>> \o from[<<i + 2, TRUE>>]
  IN  from[<<1, FALSE>>]

(* Where a string of a text that begins at i ends: the place behind it.    *)
EndOf(text, sep, i) ==
  LET ends == {j \in i .. Len(text) : text[j] = sep} \union {Len(text) + 1} IN
  CHOOSE j \in ends : \A k \in ends : j <= k

(* The strings between the separators of a text, without the empty ones.   *)
Pieces(text, sep) ==
  LET from[i \in 1 .. Len(text) + 2] ==
        IF i > Len(text) THEN <<>>
        ELSE IF EndOf(text, sep, i) = i THEN from[i + 1]
        ELSE <<SubSeq(text, i, EndOf(text, sep, i) - 1)>> \o from[EndOf(text, sep, i) + 1]
  IN  from[1]

(* A text up to the first of its strings that is empty.                    *)
UpToEmpty(text) ==
  LET empty == {i \in DOMAIN text : text[i] = NUL /\ (i = 1 \/ text[i - 1] = NUL)} IN
  IF empty = {} THEN text
  ELSE SubSeq(text, 1, (CHOOSE i \in empty : \A j \in empty : i <= j) - 1)

(* A request's path below the document root htdocs, which begins and ends  *)
(* with "/", and the segments it is split into.                            *)
Below(htdocs, path) == Tail(htdocs) \o Tail(Bare(path))
Segments(htdocs, path) == Pieces(UpToEmpty(Split(Below(htdocs, path))), NUL)

(* The names the first k segments lead through: a "/" that a cut has left  *)
(* in a segment is one to the file system.                                 *)
Led(segments) ==
  LET led[k \in 0 .. Len(segments)] ==
        IF k = 0 THEN <<>> ELSE led[k - 1] \o Pieces(segments[k], "/")
  IN  led

-----------------------------------------------------------------------------
Stat(files, names) == IF names \in DOMAIN files THEN files[names].kind ELSE "missing"

Readable(files, names) == names \in DOMAIN files /\ files[names].readable

(* The code that a failed stat is answered with.                           *)
Failures == {"missing", "denied", "broken"}
StatError(kind) ==
  CASE kind = "missing" -> "404" [] kind = "denied" -> "403" [] OTHER -> "500"

(* stat is asked after each segment until what it finds is no directory.   *)
Walk(files, segments) ==
  LET led == Led(segments)
      other == {k \in DOMAIN segments : Stat(files, led[k]) # "dir"} IN
  IF other = {} THEN [kind |-> "dir", names |-> led[Len(segments)]]
  ELSE LET k == CHOOSE i \in other : \A j \in other : i <= j IN
       [kind |-> Stat(files, led[k]), names |-> led[k]]

(* The first index that can be read, or no file.                           *)
Index(files, vhost, names) ==
  LET good == {i \in DOMAIN vhost.index : Readable(files, Append(names, vhost.index[i]))} IN
  IF ~Readable(files, names) \/ good = {} THEN <<>>
  ELSE Append(names, vhost.index[CHOOSE i \in good : \A j \in good : i <= j])

(* What follows the last "/" of a path, parameters included.               *)
LastSlash(path) ==
  CHOOSE i \in DOMAIN path : path[i] = "/" /\ \A j \in i + 1 .. Len(path) : path[j] # "/"
AfterLastSlash(path) == SubSeq(path, LastSlash(path) + 1, Len(path))

WithoutSlash(path) ==
  AfterLastSlash(path) # <<>> /\ Head(AfterLastSlash(path)) \notin {"?", "#"}

(***************************************************************************)
(* The Location of a directory asked for without the slash.  Parameters    *)
(* lose the mark and their first character to it.                          *)
(***************************************************************************)
ExpandedPath(path) ==
  LET marks == {i \in LastSlash(path) .. Len(path) : path[i] \in {"?", "#"}} IN
  IF marks = {} THEN Append(path, "/")
  ELSE LET at == CHOOSE i \in marks : \A j \in marks : i <= j IN
       Append(SubSeq(path, 1, at - 1), "/") \o SubSeq(path, at + 2, Len(path))

(***************************************************************************)
(* What a path leads to: [found: "file", names], [found: "error", code] or *)
(* [found: "redirect", path].                                              *)
(***************************************************************************)
Resolve(files, vhost, path) ==
  LET walk == Walk(files, Segments(vhost.htdocs, path))
      index == Index(files, vhost, walk.names) IN
  IF walk.kind \in Failures THEN [found |-> "error", code |-> StatError(walk.kind)]
  ELSE IF walk.kind = "file" THEN [found |-> "file", names |-> walk.names]
  ELSE IF WithoutSlash(path) THEN [found |-> "redirect", path |-> ExpandedPath(path)]
  ELSE IF index = <<>> THEN [found |-> "error", code |-> "404"]
  ELSE [found |-> "file", names |-> index]

(***************************************************************************)
(* realpath and a second stat, which fails with 500 whatever the reason,   *)
(* and what the configuration forbids: the codes of the errors, or "200".  *)
(***************************************************************************)
Admitted(files, vhost, names) ==
  LET kind == Stat(files, names) IN
  IF kind \in Failures THEN {StatError(kind), "500"}
  ELSE IF vhost.symlock /\ files[names].outside THEN {"404"}
  ELSE IF vhost.nohardlinks /\ files[names].linked /\ kind # "dir" THEN {"403"}
  ELSE {"200"}
=============================================================================
