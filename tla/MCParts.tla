------------------------------- MODULE MCParts -------------------------------
(* The components that stand alone, one at a time, for TLC: every behaviour *)
(* drives one of them (`under`) by any calls and leaves the others as they  *)
(* start.                                                                   *)
EXTENDS WorkerBrowser, RedirectResolve, PresetStore, PageFetch, SessionStore,
        RowExtraction, NumberParsing, SearchResults, SiteMap, ManagedSession, FrontierFairness,
        DomainLimiter, TLC

CONSTANT Driven  \* the components a run drives

VARIABLE under

-----------------------------------------------------------------------------
(* Two fields, three selectors; presets that differ in everything a repair *)
(* must not touch, plans that cover both fields or one, inside and out.    *)
Field(selector, required, coerce, base) ==
  [selector |-> selector, required |-> required, coerce |-> coerce, base |-> base]
TheContents == {
  [rest |-> "r1", version |-> 1, recipe |-> [scoped |-> FALSE, fields |->
     [title |-> Field("old", TRUE, TRUE, "no link"), urls |-> Field("old", FALSE, FALSE, "empty")]]],
  [rest |-> "r2", version |-> 1, recipe |-> [scoped |-> TRUE, fields |->
     [title |-> Field("old", TRUE, FALSE, "no link"), urls |-> Field("old", TRUE, FALSE, "author")]]]}
Healing(selector) == Field(selector, FALSE, FALSE, "no link")
ThePlans == {[scoped |-> FALSE, fields |-> fields] : fields \in {
  [title |-> Healing("new"), urls |-> Healing("new")],
  [title |-> Healing("outside"), urls |-> Healing("new")]}}
  \cup {[scoped |-> FALSE, fields |-> [title |-> Healing("new")]], [scoped |-> FALSE, fields |-> [urls |-> Healing("new")]]}
ThePages == {[s \in {"old", "new", "outside"} |-> IF s = "old" THEN "nothing" ELSE v] : v \in {"label", "value"}}

(* Node 1 is the page; 2, 5 and 7 are rows, 7 an empty one; rows may nest. *)
TheParents == [n \in 2..7 |-> CASE n \in {2, 5, 7} -> 1 [] n \in {3, 4} -> 2 [] n = 6 -> 5]
TheRows == {<<>>, <<2>>, <<2, 5, 7>>, <<2, 3>>}

(* Rows of a result page: plain, an ad the preset refused, a stub it could *)
(* not resolve, one behind a tracker, untitled, without html.              *)
NoLink == [form |-> "none", to |-> "nowhere"]
Row(title, link, anchor) == [parses |-> TRUE, titled |-> title, link |-> link, anchor |-> anchor]
TheResults == {
  Row(TRUE, [form |-> "direct", to |-> "s1"], NoLink),
  Row(TRUE, [form |-> "stub", to |-> "s1"], [form |-> "direct", to |-> "ads"]),
  Row(TRUE, NoLink, [form |-> "wrapped", to |-> "s2"]),
  Row(TRUE, [form |-> "wrapped", to |-> "s1"], [form |-> "direct", to |-> "s1"]),
  Row(TRUE, [form |-> "opaque", to |-> "s2"], NoLink),
  Row(FALSE, [form |-> "direct", to |-> "s1"], NoLink),
  [Row(TRUE, [form |-> "direct", to |-> "s2"], NoLink) EXCEPT !.parses = FALSE]}

(* Requests that leave fields open, fit, or contradict.                    *)
Desktop == [device |-> "desktop", viewport |-> "wide", proxy_type |-> "none", pool |-> Unset, geo |-> Unset]
ThePins == {Desktop, [Desktop EXCEPT !.proxy_type = "res_rotating"]}
Asking(pin, cookies) ==
  [device |-> pin.device, viewport |-> pin.viewport, proxy_type |-> pin.proxy_type, pool |-> pin.pool,
   geo |-> pin.geo, cookies |-> cookies]
TheRequests == {Asking([Desktop EXCEPT !.viewport = Unset], FALSE), Asking([Desktop EXCEPT !.device = "mobile"], FALSE),
  Asking(Desktop, FALSE), Asking(Desktop, TRUE)}

OwnHost == [u \in Hosts |-> u]  \* one url per host

(* An index that names itself and three documents, one of them missing, or *)
(* with a name no url parser takes, or cut, or behind a private hop.       *)
Loc(page, inScope, raw, canon, date) ==
  [page |-> page, inScope |-> inScope, raw |-> raw, canon |-> canon, date |-> date]
Document(kind, entries, hops) == [kind |-> kind, entries |-> entries, hops |-> hops, cut |-> FALSE]
About == Loc("about", TRUE, TRUE, TRUE, 2)
Undated == Loc("undated", TRUE, TRUE, TRUE, 0)
Foreign == Loc("foreign", FALSE, TRUE, TRUE, 3)
ASite == [
  seed |-> Loc("home", TRUE, FALSE, FALSE, 0), robots |-> <<"index">>, links |-> <<Undated, Foreign>>, hrefs |-> {},
  doc |-> [index |-> Document("index", <<"one", "index", "gone", "two">>, <<"public">>),
           one |-> Document("pages", <<Loc("other", TRUE, FALSE, FALSE, 1), Foreign, About>>, <<"public", "public">>),
           two |-> Document("pages", <<About, Undated, Loc("new", TRUE, TRUE, TRUE, 3)>>, <<"public">>),
           gone |-> Document("missing", <<>>, <<"public">>)]]
TheSites == {ASite, [ASite EXCEPT !.doc.gone.kind = "broken", !.hrefs = {"unjoinable"}],
  [ASite EXCEPT !.doc.gone.kind = "broken", !.robots = <<"index", "gone">>],
  [ASite EXCEPT !.doc.two.cut = TRUE, !.doc.one.hops = <<"private">>]}
TheAsked == [sitemap : BOOLEAN, links : BOOLEAN, search : BOOLEAN, since : {0, 2}, newest : BOOLEAN,
             limit : {2, 9}, proxied : BOOLEAN]
TheFallback == <<"one", "two">>

-----------------------------------------------------------------------------
Some(S) == CHOOSE x \in S : TRUE

(* What is not driven starts in one state only.                            *)
PartsInit ==
  /\ under \in Driven
  /\ FInit
  /\ PInit /\ (under = "presets" \/ file = Some(TheContents))
  /\ WInit /\ RowInit /\ NumInit /\ ResolveInit
  /\ QInit
  /\ SInit /\ (under = "sessions" \/ record = [s \in Sids |-> IF s \in Existing THEN NewRecord(Desktop) ELSE Missing])
  /\ Init /\ RInit
  /\ LInit /\ (under = "limiter" \/ interval = Min(Intervals))
  /\ MapInit /\ (under = "map" \/ (site = ASite /\ ask = Some(TheAsked)))

Rests(part, state) == IF under = part THEN TRUE ELSE UNCHANGED state

Drive ==
  \/ under = "fetch" /\ FNext
  \/ under = "presets" /\ PNext
  \/ under = "browser" /\ WNext
  \/ under = "rows" /\ Extract
  \/ under = "numbers" /\ Shows
  \/ under = "redirects" /\ ResolveNext
  \/ under = "search" /\ QNext
  \/ under = "sessions" /\ SNext
  \/ under = "session" /\ Next
  \/ under = "frontier" /\ RNext
  \/ under = "limiter" /\ LNext
  \/ under = "map" /\ MapNext

PartsNext ==
  /\ Drive
  /\ Rests("fetch", <<fetch, place, open>>)
  /\ Rests("presets", <<file, inode, holder, actor, last>>)
  /\ Rests("browser", <<browser, driver, task, tick, pages, activity, clock>>)
  /\ Rests("rows", column) /\ Rests("numbers", text)
  /\ Rests("redirects", <<cell, flying, result, stage>>)
  /\ Rests("search", <<search, slot>>)
  /\ Rests("sessions", <<record, index, due, lock, rmw, caller, mail, gone, crashed, torn>>)
  /\ Rests("session", <<session, current, holds>>)
  /\ Rests("frontier", <<frontier, overtaken>>)
  /\ Rests("limiter", <<interval, ready, throttled, factor, sleeper, since, gap>>)
  /\ Rests("map", <<site, ask, walk, links, answer>>)
  /\ UNCHANGED under

parts == <<under, fetch, place, open, file, inode, holder, actor, last, browser, driver, task, tick, pages,
           activity, clock, column, text, cell, flying, result, stage, search, slot, record, index, due, lock,
           rmw, caller, mail, gone, crashed, torn, session, current, holds, frontier, overtaken, interval, ready,
           throttled, factor, sleeper, since, gap, site, ask, walk, links, answer>>

PartsSpec == PartsInit /\ [][PartsNext]_parts

=============================================================================
