---------------------------- MODULE CrawlEngine ----------------------------
(***************************************************************************)
(* One crawl (yozh-crawler/src/engine.py): asyncio workers share a         *)
(* frontier, a set of seen pages and counters.  One action runs from one   *)
(* await of a task to its next one; the loop head is an action boundary    *)
(* too, which allows every schedule of the event loop and some more.       *)
(*                                                                         *)
(* The site is external: which links a page holds is a function chosen in  *)
(* Init, how a fetch ends is chosen by every fetch.  Proxy sessions and    *)
(* the rate limiter only delay or dress a fetch and are not here.          *)
(***************************************************************************)
EXTENDS Frontier, FiniteSets, SequencesExt

CONSTANTS
  Workers,      \* the tasks of run(): max(1, min(20, 4 * concurrency))
  Seed,         \* the url the crawl starts from
  Fingerprint,  \* url -> page identity: www.X and X are one page
  Site,         \* host -> site: the host without a leading www.
  InScope,      \* urls the mode and the patterns of the scope admit
  MaxDepth,     \* scope.max_depth
  MaxPages,     \* scope.max_pages
  MaxRetries,   \* MAX_RETRIES
  Concurrency,  \* scope.per_domain_concurrency
  Malformed,    \* an href canonicalize_url raises on
  Unjoinable,   \* an href urljoin raises on
  SiteMaps,     \* the sites considered: url -> sequence of hrefs
  Stops         \* how the crawl may be stopped: "soft", "hard", "timeout"

ASSUME EngineAssumption ==
  /\ Seed \in Urls
  /\ IsFiniteSet(Workers) /\ Workers # {}
  /\ InScope \subseteq Urls
  /\ {MaxDepth, MaxPages, MaxRetries} \subseteq Nat
  /\ Concurrency \in Nat \ {0}
  /\ SiteMaps \subseteq [Urls -> Seq(Urls \cup {Malformed, Unjoinable})]
  /\ {Malformed, Unjoinable} \cap Urls = {}
  /\ Stops \subseteq {"soft", "hard", "timeout"}

VARIABLES
  links,     \* the site
  frontier,  \* self._frontier
  seen,      \* self._dedup
  worker,    \* worker -> where its task is, the request it works on
  inFlight,  \* self._in_flight
  stats,     \* the page counters of self._stats
  linkStats, \* the link counters of self._stats
  pages,     \* the page records handed to on_page
  stopped    \* "no", or how the crawl was stopped

vars == <<links, frontier, seen, worker, inFlight, stats, linkStats, pages, stopped>>

NoRequest == [url |-> "none"]
Idle == [at |-> "loop", req |-> NoRequest]

\* A task of the loop is in its loop, waits for the site's semaphore or for
\* the fetch, or is over: it returned, was cancelled, or let an exception out.
Running == {"loop", "semaphore", "fetch"}
Over    == {"returned", "cancelled", "raised"}

Page(url) == Fingerprint[url]
SiteOf(req) == Site[Host[req.url]]
Cancelled == stopped \in {"soft", "hard"}
\* Mutant: pages in hand reserve nothing.
CapReachedByVisits == stats.visited >= MaxPages
CapReached == stats.visited + inFlight >= MaxPages

Init ==
  /\ links \in SiteMaps
  /\ frontier = Push(EmptyFrontier, [url |-> Seed, depth |-> 0, attempts |-> 0, due |-> TRUE])
  /\ seen = {Page(Seed)}
  /\ worker = [w \in Workers |-> Idle]
  /\ inFlight = 0
  /\ stats = [visited |-> 0, failed |-> 0, retries |-> 0]
  /\ linkStats = [dedupSkipped |-> 0, outOfScope |-> 0, linksDropped |-> 0]
  /\ pages = {}
  /\ stopped = "no"

-----------------------------------------------------------------------------
(* The worker loop.  An iteration that finds nothing to do sleeps 50 ms    *)
(* and changes nothing.                                                    *)

\* Mutants: an empty frontier is taken for the end; the cap is not an end.
ReturnEarly(w) ==
  /\ worker[w].at = "loop"
  /\ Cancelled \/ (CapReached /\ inFlight = 0) \/ (~CapReached /\ frontier.size = 0)
  /\ worker' = [worker EXCEPT ![w].at = "returned"]
  /\ UNCHANGED <<links, frontier, seen, inFlight, stats, linkStats, pages, stopped>>
ReturnNotAtCap(w) ==
  /\ worker[w].at = "loop"
  /\ Cancelled \/ (inFlight = 0 /\ frontier.size = 0)
  /\ worker' = [worker EXCEPT ![w].at = "returned"]
  /\ UNCHANGED <<links, frontier, seen, inFlight, stats, linkStats, pages, stopped>>
Return(w) ==
  /\ worker[w].at = "loop"
  /\ \/ Cancelled
     \/ CapReached /\ inFlight = 0
     \/ /\ ~CapReached
        /\ NextHosts(frontier) = {}
        /\ inFlight = 0
        /\ frontier.size = 0
  /\ worker' = [worker EXCEPT ![w].at = "returned"]
  /\ UNCHANGED <<links, frontier, seen, inFlight, stats, linkStats, pages, stopped>>

Dispatch(w) ==
  /\ worker[w].at = "loop"
  /\ ~Cancelled
  /\ ~CapReached
  /\ \E i \in NextHosts(frontier) :
       /\ worker' = [worker EXCEPT ![w] = [at |-> "semaphore", req |-> Taken(frontier, i)]]
       /\ frontier' = Popped(frontier, i)
  /\ inFlight' = inFlight + 1
  /\ UNCHANGED <<links, seen, stats, linkStats, pages, stopped>>

(* async with domain_semaphore; what follows up to the end of the fetch    *)
(* (rate limiter, proxy session, the scraper's answer) holds the permit.   *)
Fetching(site) ==
  {w \in Workers : worker[w].at = "fetch" /\ SiteOf(worker[w].req) = site}

Enter(w) ==
  /\ worker[w].at = "semaphore"
  /\ Cardinality(Fetching(SiteOf(worker[w].req))) < Concurrency
  /\ worker' = [worker EXCEPT ![w].at = "fetch"]
  /\ UNCHANGED <<links, frontier, seen, inFlight, stats, linkStats, pages, stopped>>

\* _process is left: the finally of the loop.
Leave(w, at) ==
  /\ worker' = [worker EXCEPT ![w] = [at |-> at,
                  req |-> IF at = "raised" THEN @.req ELSE NoRequest]]
  /\ inFlight' = inFlight - 1

-----------------------------------------------------------------------------
(* _handle_failure: an error of the scraper client, or an answer that      *)
(* carries no genuine page.  A status the error has must be one of         *)
(* RETRY_HTTP_CODES (retryCode) for a retry.                               *)
Failed(w, retryable, retryCode) ==
  LET req == [worker[w].req EXCEPT !.attempts = @ + 1] IN
    /\ worker[w].at = "fetch"
    /\ IF retryable /\ req.attempts <= MaxRetries /\ retryCode
         THEN /\ frontier' = Push(frontier, [req EXCEPT !.due = FALSE])
              /\ stats' = [stats EXCEPT !.retries = @ + 1]
              /\ UNCHANGED pages
         ELSE /\ stats' = [stats EXCEPT !.failed = @ + 1]
              /\ pages' = pages \cup {[url |-> req.url, depth |-> req.depth, ok |-> FALSE]}
              /\ UNCHANGED frontier
    /\ Leave(w, "loop")
    /\ UNCHANGED <<links, seen, linkStats, stopped>>

\* Mutants: a page is marked only when it is refused; the depth limit is one short.
FollowLinkUnmarked(acc, href, depth) ==
  IF href = Malformed \/ Page(href) \in acc.seen
    THEN acc
  ELSE IF depth > MaxDepth \/ href \notin InScope
    THEN [acc EXCEPT !.seen = @ \cup {Page(href)}, !.counts.outOfScope = @ + 1]
  ELSE [acc EXCEPT
          !.frontier = Push(@, [url |-> href, depth |-> depth, attempts |-> 0, due |-> TRUE])]
FollowLinkShallow(acc, href, depth) ==
  IF href = Malformed
    THEN [acc EXCEPT !.counts.linksDropped = @ + 1]
  ELSE IF Page(href) \in acc.seen
    THEN [acc EXCEPT !.counts.dedupSkipped = @ + 1]
  ELSE IF depth >= MaxDepth \/ href \notin InScope
    THEN [acc EXCEPT !.seen = @ \cup {Page(href)}, !.counts.outOfScope = @ + 1]
  ELSE [acc EXCEPT !.seen = @ \cup {Page(href)},
          !.frontier = Push(@, [url |-> href, depth |-> depth, attempts |-> 0, due |-> TRUE])]

(* One href of a fetched page at the given depth, after the earlier ones:  *)
(* a malformed one is dropped; the page is marked as seen before the scope *)
(* is asked about the link.                                                *)
FollowLink(acc, href, depth) ==
  IF href = Malformed
    THEN [acc EXCEPT !.counts.linksDropped = @ + 1]
  ELSE IF Page(href) \in acc.seen
    THEN [acc EXCEPT !.counts.dedupSkipped = @ + 1]
  ELSE IF depth > MaxDepth \/ href \notin InScope
    THEN [acc EXCEPT !.seen = @ \cup {Page(href)}, !.counts.outOfScope = @ + 1]
  ELSE [acc EXCEPT !.seen = @ \cup {Page(href)},
          !.frontier = Push(@, [url |-> href, depth |-> depth, attempts |-> 0, due |-> TRUE])]

(* What is known after the first n hrefs, for every n, and after all.      *)
Following(start, hrefs, depth) ==
  LET after[n \in 0..Len(hrefs)] ==
        IF n = 0 THEN start ELSE FollowLink(after[n - 1], hrefs[n], depth)
  IN after

FollowLinks(w) ==
  LET hrefs == links[worker[w].req.url] IN
  Following([seen |-> seen, frontier |-> frontier, counts |-> linkStats],
            hrefs, worker[w].req.depth + 1)[Len(hrefs)]

Unreadable(url) == Contains(links[url], Unjoinable)

(* A genuine page: its record goes out, its links are followed.            *)
Visited(w) ==
  LET req  == worker[w].req
      next == FollowLinks(w)
  IN
    /\ worker[w].at = "fetch"
    /\ ~Unreadable(req.url)
    /\ stats' = [stats EXCEPT !.visited = @ + 1]
    /\ linkStats' = next.counts
    /\ pages' = pages \cup {[url |-> req.url, depth |-> req.depth, ok |-> TRUE]}
    /\ seen' = next.seen
    /\ frontier' = next.frontier
    /\ Leave(w, "loop")
    /\ UNCHANGED <<links, stopped>>

(* extract_links is called outside any try: what urljoin raises on an href *)
(* like http://[x ends the task, and gather keeps the exception.           *)
Raises(w) ==
  /\ worker[w].at = "fetch"
  /\ Unreadable(worker[w].req.url)
  /\ Leave(w, "raised")
  /\ UNCHANGED <<links, frontier, seen, stats, linkStats, pages, stopped>>

-----------------------------------------------------------------------------
(* cancel(hard=False) only sets the flag.  cancel(hard=True) and the job's *)
(* timeout also cancel every task at the await where it is; the finally    *)
(* clauses run, the requests they hold go nowhere.                         *)
Interrupted(w) ==
  IF worker[w].at \in Running THEN [worker[w] EXCEPT !.at = "cancelled"] ELSE worker[w]

Stop(how) ==
  /\ how \in Stops
  /\ \E w \in Workers : worker[w].at \in Running
  /\ stopped = "no" \/ (stopped = "soft" /\ how # "soft")
  /\ stopped' = how
  /\ IF how = "soft"
       THEN UNCHANGED <<worker, inFlight>>
       ELSE /\ worker' = [w \in Workers |-> Interrupted(w)]
            /\ inFlight' = 0
  /\ UNCHANGED <<links, frontier, seen, stats, linkStats, pages>>

Elapse ==
  /\ \E p \in Places(frontier) :
       /\ ~RequestAt(frontier, p).due
       /\ frontier' = Elapsed(frontier, p)
  /\ UNCHANGED <<links, seen, worker, inFlight, stats, linkStats, pages, stopped>>

FetchEnds(w) ==
  \/ \E retryable, retryCode \in BOOLEAN : Failed(w, retryable, retryCode)
  \/ Visited(w)
  \/ Raises(w)

Step(w) == Return(w) \/ Dispatch(w) \/ Enter(w) \/ FetchEnds(w)

Next ==
  \/ \E w \in Workers : Step(w)
  \/ \E how \in Stops : Stop(how)
  \/ Elapse

Spec == Init /\ [][Next]_vars

(* The event loop runs every task that can go on, a fetch ends at the      *)
(* latest at its polling deadline, and a backoff is at most 30 s.  The     *)
(* event loop wakes semaphore waiters in turn, so a waiter that is let in  *)
(* again and again is let in eventually.                                   *)
Fairness ==
  /\ \A w \in Workers : WF_vars(Return(w) \/ Dispatch(w)) /\ SF_vars(Enter(w))
                        /\ WF_vars(FetchEnds(w))
  /\ WF_vars(Elapse)

FairSpec == Spec /\ Fairness

-----------------------------------------------------------------------------
Held == {w \in Workers : worker[w].at \in {"semaphore", "fetch"}}
Lost == {w \in Workers : worker[w].at \in Over /\ worker[w].req # NoRequest}
AllOver == \A w \in Workers : worker[w].at \in Over
VisitedPages == {p \in pages : p.ok}

(* "visited + in-flight already reserves a slot per active worker, so we   *)
(* never dispatch past max_pages" (_worker): the counter that reserves is  *)
(* the number of pages in hand, and the cap holds with them included.      *)
PageCap ==
  /\ inFlight = Cardinality(Held)
  /\ stats.visited + inFlight <= MaxPages

(* A worker that returns from an unstopped crawl has seen its end: no page *)
(* is in hand any more, and none waits unless the cap is reached.          *)
NoWorkAfterReturn ==
  stopped = "no" /\ (\E w \in Workers : worker[w].at = "returned")
    => Held = {} /\ (frontier.size = 0 \/ stats.visited >= MaxPages)

(* Links of page p that lead to page q and that the scope refuses.         *)
RefusedAt(p, page) ==
  \E href \in Range(links[p.url]) \cap Urls :
    Page(href) = page /\ (p.depth + 1 > MaxDepth \/ href \notin InScope)

(* When a crawl ends by itself below its cap, every admissible link of a   *)
(* visited page has been fetched, unless its page was first met through a  *)
(* link the scope refuses: too deep, or another spelling of the host.      *)
NoLinkLost ==
  stopped = "no" /\ AllOver /\ Lost = {} /\ stats.visited < MaxPages =>
    \A p \in VisitedPages : \A href \in Range(links[p.url]) \cap InScope :
      p.depth < MaxDepth =>
        \/ \E q \in pages : Page(q.url) = Page(href)
        \/ \E q \in VisitedPages : RefusedAt(q, Page(href))

(* Each page goes through the life PageLife allows.  A page found in two   *)
(* places shows as the one still being worked on.                          *)
PhaseOf(page) ==
  IF \E w \in Held : Page(worker[w].req.url) = page THEN "held"
  ELSE IF \E p \in Places(frontier) : Page(RequestAt(frontier, p).url) = page THEN "waiting"
  ELSE IF \E p \in pages : Page(p.url) = page /\ p.ok THEN "visited"
  ELSE IF \E p \in pages : Page(p.url) = page THEN "failed"
  ELSE IF \E w \in Lost : Page(worker[w].req.url) = page THEN "lost"
  ELSE IF page \in seen THEN "skipped" ELSE "unseen"

Life == INSTANCE PageLife WITH
          Pages <- {Page(u) : u \in Urls}, First <- Page(Seed),
          phase <- [page \in {Page(u) : u \in Urls} |-> PhaseOf(page)]
LifeSpec == Life!Spec

(* Every crawl ends, with all its tasks over, however its fetches end and  *)
(* whenever it is stopped.                                                 *)
Finishes == <>AllOver

(* "One malformed href costs one link, never the worker" (_process).       *)
BadHrefKeepsWorker == \A w \in Workers : worker[w].at # "raised"

(* "one slow host can't starve others" (README): a host with a request     *)
(* ready to go out and nothing of its own in hand never finds every worker *)
(* held by one other site.                                                 *)
NoHostStarved ==
  ~ \E h \in Hosts, site \in {Site[g] : g \in Hosts} :
      /\ HeadReady(frontier, h) /\ Site[h] # site
      /\ \A w \in Workers : w \in Held /\ SiteOf(worker[w].req) = site
=============================================================================
