------------------------------- MODULE MCSite --------------------------------
(***************************************************************************)
(* A server with a mount point in front of a second one, a redirect, an    *)
(* htdocs virtual host with a cache and one without, and no virtual host   *)
(* for the host "nowhere".                                                 *)
(***************************************************************************)
EXTENDS Site, TLC

Docs == <<"r", "r">>
Doc(name) == <<Docs, <<name>>>>
File(size, type) ==
  [kind |-> "file", readable |-> TRUE, outside |-> FALSE, linked |-> FALSE,
   size |-> size, type |-> type, ver |-> 0]
Directory == [File("small", "none") EXCEPT !.kind = "dir"]

Documents0 ==
  <<Docs>> :> Directory @@ Doc("f") :> File("zippable", "text/css")
  @@ Doc("d") :> Directory @@ <<Docs, <<"d">>, <<"i">>>> :> File("small", "text/html")
  @@ Doc("p") :> File("small", "php") @@ Doc("l") :> File("large", "video")
  @@ Doc("h") :> [File("empty", "text/html") EXCEPT !.linked = TRUE]
  @@ Doc("b") :> [File("small", "text/html") EXCEPT !.kind = "broken"]
  @@ <<Docs, <<"d", "i">>>> :> File("small", "text/html")
  @@ Doc("u") :> [File("small", "text/html") EXCEPT !.readable = FALSE]

Htdocs(name, host, cached) ==
  [name |-> name, hosts |-> <<host>>, type |-> "htdocs", htdocs |-> <<"/", "r", "r", "/">>,
   index |-> <<<<"j">>, <<"i">>>>, symlock |-> cached, nohardlinks |-> cached,
   scache |-> cached, max_size |-> 0, max_age |-> IF cached THEN 1 ELSE 0,
   cache_types |-> {"text/css"}, providers |-> {"php"}, error_pages |-> "404" :> "/d/"]

MountAt(name, host, keep, points) ==
  [name |-> name, hosts |-> <<host>>, type |-> "mount", keep_prefix |-> keep, mounts |-> points]

Sites0 ==
  <<MountAt("first", <<"m", "*">>, TRUE,
            <<[path |-> <<"/", "m">>, vhost |-> "second"], [path |-> <<"/">>, vhost |-> "main"]>>),
    MountAt("second", <<"n">>, FALSE,
            <<[path |-> <<"/", "m">>, vhost |-> "second"], [path |-> <<"/", "m">>, vhost |-> "plain"]>>),
    MountAt("third", <<"k">>, FALSE, <<[path |-> <<"/", "k">>, vhost |-> "main"]>>),
    [name |-> "redir", hosts |-> <<<<"r">>>>, type |-> "redirect", redir |-> "elsewhere"],
    Htdocs("plain", <<"p">>, FALSE),
    Htdocs("main", <<"**", "main">>, TRUE)>>

H1 == "HTTP/1.1"
www == <<"www", "main">>
Ask(proto, host, path) ==
  [method |-> "GET", proto |-> proto, host |-> host, path |-> path, gzip |-> FALSE, tag |-> None]

Asked0 ==
  {[Ask(H1, www, <<"/", "f">>) EXCEPT !.tag = [file |-> Doc("f"), ver |-> 0]],
   [Ask("HTTP/2", www, <<"/", "f">>) EXCEPT !.gzip = TRUE],
   Ask(H1, <<"k">>, <<"/", "k", "/", "f">>),
   Ask(H1, <<"m", "a">>, <<"/", "m", "/", "d">>), Ask(H1, <<"m", "a">>, <<"/", "m", "l">>),
   [Ask(H1, www, <<"/", "/", "d", "/", "i">>) EXCEPT !.method = "HEAD"],
   Ask("HTTP/2", www, <<"/", "d", "/">>),
   [Ask("HTTP/2", www, <<"/", "p", "/", "f">>) EXCEPT !.gzip = TRUE],
   Ask(H1, www, <<"/", "p">>), Ask(H1, www, <<"/", "h">>),
   Ask(H1, <<"p">>, <<"/", "u">>), Ask(H1, <<"p">>, <<"f">>),
   Ask(H1, <<"nowhere">>, <<"/">>), Ask(H1, <<"r">>, <<"/">>)}

Volatile0 == {Doc("f")}

Paths0 == {<<"/", "f">>, <<"/", "h">>}
=============================================================================
