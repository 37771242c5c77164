------------------------------- MODULE Vhosts --------------------------------
(***************************************************************************)
(* Which site answers a request: the hosts of the virtual hosts            *)
(* (determine_vhost in src/src/http_network.c, domeq in                    *)
(* src/src/http_pipeline.c) and the mount points                           *)
(* (src/modules/mount/src/vhost_mount.c).                                  *)
(*                                                                         *)
(* A host is the sequence of its labels.  A path is a sequence of tokens,  *)
(* of which "/", "?" and "#" are themselves and any other a part of a name. *)
(***************************************************************************)
EXTENDS Naturals, Sequences

CONSTANT None

(***************************************************************************)
(* strtok_r on a host, m.k being the label it returned last, 0 for NULL.   *)
(* domeq starts anew after a NULL, with the first label only: the rest has *)
(* been cut off.                                                           *)
(***************************************************************************)
strtok_r(host, m) ==
  IF m.k = 0
    THEN [m EXCEPT !.k = IF host = <<>> THEN 0 ELSE 1]
    ELSE IF m.k < Len(host) /\ ~m.cut THEN [m EXCEPT !.k = @ + 1]
                                      ELSE [k |-> 0, cut |-> TRUE]

(***************************************************************************)
(* dom1 is a configured host, dom2 that of a request.  The loop ends with  *)
(* the labels of dom1, whatever is left of dom2, and a double star takes   *)
(* the first label that fits.                                              *)
(***************************************************************************)
domeq(dom1, dom2) ==
  LET same[i \in 1 .. Len(dom1) + 2, m \in [k : 0 .. Len(dom2), cut : BOOLEAN]] ==
        LET m2 == strtok_r(dom2, m) IN
        IF i > Len(dom1) THEN TRUE
        ELSE IF dom1[i] = "*" THEN same[i + 1, m2]
        ELSE IF dom1[i] = "**"
          THEN IF m2.k = 0 THEN i = Len(dom1)
               ELSE IF i < Len(dom1) /\ dom1[i + 1] \notin {"*", dom2[m2.k]}
                 THEN same[i, m2] ELSE same[i + 2, m2]
        ELSE m2.k # 0 /\ dom1[i] = dom2[m2.k] /\ same[i + 1, m2]
  IN  dom1 \in {<<"@">>, <<"*">>} \/ same[1, [k |-> 0, cut |-> FALSE]]

(* The first of the virtual hosts that takes the host, or None.            *)
Takes(vhost, authority) ==
  vhost.hosts = <<>> \/ \E x \in DOMAIN vhost.hosts : domeq(vhost.hosts[x], authority)

determine_vhost(vhosts, authority) ==
  LET taking == {i \in DOMAIN vhosts : Takes(vhosts[i], authority)} IN
  IF taking = {} THEN None ELSE vhosts[CHOOSE i \in taking : \A j \in taking : i <= j].name

Vhost(vhosts, name) == vhosts[CHOOSE i \in DOMAIN vhosts : vhosts[i].name = name]

-----------------------------------------------------------------------------
Prefixes(prefix, path) ==
  Len(prefix) <= Len(path) /\ SubSeq(path, 1, Len(prefix)) = prefix

(* The prefix of a mount point is cut off, but for a "/" in front.         *)
Stripped(path, prefix) ==
  LET rest == SubSeq(path, Len(prefix) + 1, Len(path)) IN
  IF rest # <<>> /\ Head(rest) = "/" THEN rest ELSE <<"/">> \o rest

(* Slip: the virtual host that is asked is not passed over.                *)
LeadsOnBack(vhosts, vhost, point, path) ==
  /\ Prefixes(point.path, path)
  /\ \E x \in DOMAIN vhosts : vhosts[x].name = point.vhost

(* A mount point is a prefix of the path, as text, and leads to another    *)
(* virtual host that exists.                                               *)
LeadsOn(vhosts, vhost, point, path) ==
  /\ Prefixes(point.path, path)
  /\ point.vhost # vhost.name
  /\ \E x \in DOMAIN vhosts : vhosts[x].name = point.vhost

(* The path and virtual host a request goes on with, those of the first    *)
(* mount point that leads on, and whether the path has been copied to cut  *)
(* its front off.  Without one the request stays where it is.              *)
Mounted(vhosts, vhost, path) ==
  LET leading == {i \in DOMAIN vhost.mounts : LeadsOn(vhosts, vhost, vhost.mounts[i], path)}
      first == CHOOSE i \in leading : \A j \in leading : i <= j IN
  IF leading = {}
    THEN [vhost |-> vhost.name, path |-> path, copied |-> FALSE]
    ELSE [vhost |-> vhost.mounts[first].vhost, copied |-> ~vhost.keep_prefix,
          path |-> IF vhost.keep_prefix THEN path
                   ELSE Stripped(path, vhost.mounts[first].path)]
=============================================================================
