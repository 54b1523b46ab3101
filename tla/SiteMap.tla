------------------------------- MODULE SiteMap -------------------------------
(* POST /map of the crawler (yozh-crawler/src/api/map.py): a walk of the    *)
(* site's sitemaps (sitemap.py) next to one fetch of the seed page, merged  *)
(* into one list. A loc is a record: the page it leads to (two spellings    *)
(* have one), whether it is in scope, whether the search text stands in it  *)
(* as written and as canonicalised, and its date, 0 for none.               *)
EXTENDS Naturals, Sequences, FiniteSets, Arrangement

CONSTANTS
  Sites,       \* external: seed, robots, doc (by name), links and hrefs of the seed page
  Fallback,    \* the names of the common locations
  Asked,       \* what callers ask for
  MaxUrls, MaxSitemaps, MaxRedirects

VARIABLES
  site, ask,
  walk,    \* the sitemap leg: where it is, queue, seen, found, and which were read
  links,   \* the seed leg: what it came back with
  answer

mvars == <<site, ask, walk, links, answer>>

Among(list) == {list[i] : i \in DOMAIN list}
PageDocs(s) == {n \in DOMAIN s.doc : s.doc[n].kind = "pages"}
Locs(s) == {s.seed} \cup Among(s.links) \cup UNION {Among(s.doc[n].entries) : n \in PageDocs(s)}

(* Scope and search are decided of the page, in its canonical spelling.    *)
ASSUME SiteAssumption ==
  /\ MaxUrls \in Nat
  /\ \A s \in Sites :
       /\ s.links \in Seq(Locs(s)) /\ \A n \in PageDocs(s) : s.doc[n].entries \in Seq(Locs(s))
       /\ \A loc \in Locs(s) : loc.date \in Nat
       /\ \A loc, other \in Locs(s) :
            loc.page = other.page => loc.inScope = other.inScope /\ loc.canon = other.canon
  /\ \A a \in Asked : a.limit \in Nat /\ a.since \in Nat

NotBack == [done |-> FALSE, found |-> <<>>]

MapInit ==
  /\ site \in Sites /\ ask \in Asked
  /\ walk = [at |-> "discover", queue |-> <<>>, seen |-> {}, found |-> <<>>, read |-> {}]
  /\ links = NotBack
  /\ answer = [status |-> 0, urls |-> <<>>]

Running == answer.status = 0 /\ walk.at # "done"

(* safe_get: every hop to a public host and not too many of them, unless a *)
(* proxy carries the request.                                              *)
Fetchable(n) ==
  /\ n \in DOMAIN site.doc /\ site.doc[n].kind \in {"pages", "index"}
  /\ \/ ask.proxied
     \/ Len(site.doc[n].hops) <= MaxRedirects + 1 /\ \A i \in DOMAIN site.doc[n].hops : site.doc[n].hops[i] = "public"

Unparsable(n) == n \in DOMAIN site.doc /\ site.doc[n].kind = "broken"

Mentions(loc) == ~ask.search \/ loc.raw

(* create_map: a proxy that cannot be had fails the request.               *)
ProxyRefused ==
  /\ ask.proxied /\ answer.status = 0 /\ walk.at = "discover" /\ ~links.done
  /\ answer' = [answer EXCEPT !.status = 502]
  /\ UNCHANGED <<site, ask, walk, links>>

(* discover_sitemap_urls; robots.txt may not answer. A name in it that     *)
(* urljoin refuses ends the leg before anything is read.                   *)
Discover ==
  /\ Running /\ walk.at = "discover"
  /\ \E declared \in {site.robots, <<>>} :
       walk' = IF ~ask.sitemap \/ \E n \in Among(declared) : Unparsable(n) THEN [walk EXCEPT !.at = "done"]
               ELSE [walk EXCEPT !.at = "walk", !.queue = IF declared # <<>> THEN declared ELSE Fallback]
  /\ UNCHANGED <<site, ask, links, answer>>

HasNext == walk.queue # <<>> /\ Cardinality(walk.read) < MaxSitemaps /\ Len(walk.found) < MaxUrls

(* A document cut at the body cap loses its last entry.                    *)
Whole(n) ==
  LET doc == site.doc[n]
  IN IF doc.cut /\ doc.entries # <<>> THEN AtMost(doc.entries, Len(doc.entries) - 1) ELSE doc.entries

TakenWhole(n) == Whole(n)

TakenLocs(n) == Picked(Whole(n), {i \in DOMAIN Whole(n) : Mentions(Whole(n)[i])})

(* The loop of collect_sitemap_urls, one turn per action. Only what was    *)
(* fetched counts against the limit of documents.                          *)
Doc == Head(walk.queue)
Visited == [walk EXCEPT !.queue = Tail(@), !.seen = @ \cup {Doc}]

Turn(next) == walk' = next /\ UNCHANGED <<site, ask, links, answer>>
Walking == Running /\ walk.at = "walk" /\ HasNext
Unseen == Walking /\ Doc \notin walk.seen

SkipSeen == Walking /\ Doc \in walk.seen /\ Turn([walk EXCEPT !.queue = Tail(@)])

FetchFails == Unseen /\ ~Unparsable(Doc) /\ ~Fetchable(Doc) /\ Turn(Visited)

(* A name urlparse refuses is no fetch error: it ends the leg, which       *)
(* answers nothing.                                                        *)
WalkRaises == Unseen /\ Unparsable(Doc) /\ Turn([Visited EXCEPT !.at = "done", !.found = <<>>])

ReadPages ==
  /\ Unseen /\ Fetchable(Doc) /\ site.doc[Doc].kind = "pages"
  /\ Turn([Visited EXCEPT !.found = @ \o TakenLocs(Doc), !.read = @ \cup {Doc}])

ReadIndex ==
  /\ Unseen /\ Fetchable(Doc) /\ site.doc[Doc].kind = "index"
  /\ LET names == Whole(Doc)
         children == Picked(names, {i \in DOMAIN names : names[i] \notin Visited.seen})
     IN Turn([Visited EXCEPT !.queue = @ \o children, !.read = @ \cup {Doc}])

WalkEnds ==
  /\ Running /\ walk.at = "walk" /\ ~HasNext
  /\ walk' = [walk EXCEPT !.at = "done", !.found = AtMost(@, MaxUrls)]
  /\ UNCHANGED <<site, ask, links, answer>>

(* The seed page, plain or rendered; it may fail or time out. Only its     *)
(* fetch is guarded: an href that urljoin refuses fails the request.       *)
SeedLeg ==
  /\ answer.status = 0 /\ ~links.done
  /\ \/ links' = [done |-> TRUE, found |-> <<>>] /\ UNCHANGED answer
     \/ ask.links /\ "unjoinable" \in site.hrefs /\ answer' = [answer EXCEPT !.status = 500] /\ UNCHANGED links
     \/ /\ ask.links /\ "unjoinable" \notin site.hrefs
        /\ links' = [done |-> TRUE, found |-> site.links] /\ UNCHANGED answer
  /\ UNCHANGED <<site, ask, walk>>

(* add_if_in_scope: the first spelling met stays, and so does its date.    *)
FirstSpellings(locs) ==
  LET InScope == {i \in DOMAIN locs : locs[i].inScope}
  IN Picked(locs, {i \in InScope : \A j \in InScope : j < i => locs[j].page # locs[i].page})

Passes(loc) == (ask.search => loc.canon) /\ (ask.since > 0 => loc.date >= ask.since)

Filtered(locs) == Picked(locs, {i \in DOMAIN locs : Passes(locs[i])})

(* A stable sort, the undated last.                                        *)
NewestFirst(locs) ==
  {ij \in (DOMAIN locs) \X (DOMAIN locs) :
     \/ locs[ij[1]].date > locs[ij[2]].date
     \/ locs[ij[1]].date = locs[ij[2]].date /\ ij[1] <= ij[2]}

Sorted(locs) ==
  LET order == InOrder(DOMAIN locs, NewestFirst(locs))
  IN IF ask.newest THEN [k \in DOMAIN order |-> locs[order[k]]] ELSE locs

MapAnswers ==
  /\ answer.status = 0 /\ walk.at = "done" /\ links.done
  /\ answer' = [status |-> 200,
                urls |-> AtMost(Sorted(Filtered(FirstSpellings(<<site.seed>> \o walk.found \o links.found))), ask.limit)]
  /\ UNCHANGED <<site, ask, walk, links>>

MapNext == ProxyRefused \/ Discover \/ SkipSeen \/ FetchFails \/ WalkRaises \/ ReadPages \/ ReadIndex
           \/ WalkEnds \/ SeedLeg \/ MapAnswers

MapSpec == MapInit /\ [][MapNext]_mvars

-----------------------------------------------------------------------------
Listed == UNION {Among(Whole(n)) : n \in walk.read \cap PageDocs(site)}
LookedFor(loc) == loc.inScope /\ (ask.search => loc.raw /\ loc.canon) /\ loc.date >= ask.since
Erased == \E n \in walk.seen : Unparsable(n)

(* Whatever else the sitemaps and the page are full of, a page that was    *)
(* asked for is in the answer, once, unless the cap on matching urls was   *)
(* reached, or the answer is full and no older page took its place. (A     *)
(* page met before with another date or none keeps that one.)              *)
MapIsComplete ==
  (answer.status = 200 /\ ~Erased) =>
    /\ \A i, j \in DOMAIN answer.urls : answer.urls[i].page = answer.urls[j].page => i = j
    /\ \A i \in DOMAIN answer.urls :
         answer.urls[i].inScope /\ (ask.search => answer.urls[i].canon) /\ answer.urls[i].date >= ask.since
    /\ Cardinality({i \in DOMAIN walk.found : Mentions(walk.found[i])}) < MaxUrls =>
         \A loc \in {l \in Listed : LookedFor(l)} :
           \/ \E i \in DOMAIN answer.urls : answer.urls[i].page = loc.page
           \/ /\ Len(answer.urls) = ask.limit
              /\ ask.newest => \A i \in DOMAIN answer.urls : answer.urls[i].date >= loc.date
           \/ \E other \in Listed \cup Among(links.found) \cup {site.seed} :
                other.page = loc.page /\ other.date # loc.date

(* What the sitemaps read so far said is not lost to a later one.          *)
ChildErasesNothing ==
  (answer.status = 200 /\ ~ask.search /\ Listed # {}) => walk.found # <<>>
=============================================================================
