--------------------------- MODULE MCCrawlEngine ---------------------------
(* Small instances of CrawlEngine for TLC. *)
EXTENDS CrawlEngine, TLC

CONSTANTS home, www, other,               \* hosts; www is the alias of home
          s, a, b, c, d, wwwA, o1, o2    \* urls; wwwA is a under the alias

\* Links to one page under two spellings, from two pages, some of them bad;
\* and a page that is one link away from s through b, two through a and d.
Dead(urls) == [u \in urls |-> <<>>]
Twins == (s :> <<a, b, Malformed>>) @@ (a :> <<wwwA, c>>) @@ (b :> <<c, wwwA, o1, s>>) @@ Dead(Urls)
Depths == (s :> <<a, b>>) @@ (a :> <<d>>) @@ (d :> <<c>>) @@ (b :> <<c, o1>>) @@ Dead(Urls)
Bad == (s :> <<a, b>>) @@ (a :> <<Unjoinable, c>>) @@ (b :> <<c>>) @@ Dead(Urls)

\* A site with many pages next to one with few.
Uneven == (s :> <<a, b, c, d, o1>>) @@ (o1 :> <<o2>>) @@ Dead(Urls)

MCHost == [u \in Urls |-> IF u = wwwA THEN www ELSE IF u \in {o1, o2} THEN other ELSE home]
MCSite == [g \in Hosts |-> IF g = www THEN home ELSE g]
MCFingerprint == [u \in Urls |-> IF u = wwwA THEN a ELSE u]
AllUrls == Urls
Home == Urls \ {o1, o2}
BadSite == {Bad}
AnySite == {Twins, Depths, Bad}
UnevenSite == {Uneven}
Symmetric == Permutations(Workers)
=============================================================================
