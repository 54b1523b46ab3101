---------------------------- MODULE SearchResults ----------------------------
(* POST /search (src/api/search.py): one job fetches the page of a search  *)
(* engine, its rows become results, and a second job, if asked for, scrapes *)
(* the page of each result. run_and_wait (src/scrape_service.py) polls the *)
(* second job and takes what is there at its deadline.                     *)
(*                                                                         *)
(* A link has a form: none (the preset refused it), a stub nobody resolved, *)
(* direct, wrapped in a tracker that says where it leads, or opaque; and   *)
(* the site it leads to.                                                   *)
EXTENDS Naturals, Sequences, FiniteSets, Arrangement

CONSTANTS
  ResultRows,  \* rows of a result page: [parses, titled, anchor, link]
  Length,      \* how many of them
  Limit,       \* results asked for
  NoPage

VARIABLES
  search,  \* where the call is, what the engine answered, its results
  slot     \* the slots of the second job

qvars == <<search, slot>>

Link(form, to) == [form |-> form, to |-> to]
Usable(link) == link.form \in {"direct", "wrapped", "opaque"}

ASSUME SearchAssumption == Length \in Nat /\ Limit \in Nat

Unwrapped(link) == IF link.form = "wrapped" THEN Link("direct", link.to) ELSE link

LinkOrAnchor(serp, i) ==
  IF serp.aligned /\ Usable(serp.rows[i].link) THEN serp.rows[i].link ELSE serp.rows[i].anchor

(* A column of links as long as the rows is the only source; without one   *)
(* it is the first anchor of the row's own html.                           *)
LinkOf(serp, i) == IF serp.aligned THEN serp.rows[i].link ELSE serp.rows[i].anchor

Kept(serp) == {i \in DOMAIN serp.rows : serp.rows[i].parses /\ serp.rows[i].titled /\ Usable(LinkOf(serp, i))}
Url(serp, i) == Unwrapped(LinkOf(serp, i))
Fresh(serp) == {i \in Kept(serp) : \A j \in Kept(serp) : j < i => Url(serp, j) # Url(serp, i)}

(* The first of them, in the order of their rows.                          *)
Results(serp) ==
  LET first == AtMost(Ascending(Fresh(serp)), Limit)
  IN [k \in DOMAIN first |-> [of |-> first[k], url |-> Url(serp, first[k]), page |-> NoPage]]

Nowhere == [rows |-> <<>>, aligned |-> FALSE]

QInit ==
  /\ search = [at |-> "called", serp |-> Nowhere, results |-> <<>>, status |-> 0, incomplete |-> FALSE]
  /\ slot = <<>>

(* An unknown locale or a wrong override (400), no room in the queue (503), *)
(* a preset that is not there (500); for the second job, its session.      *)
Fails ==
  /\ search.at \in {"called", "submit"}
  /\ \E status \in {400, 503} \cup (IF search.at = "called" THEN {500} ELSE {404, 410, 422}) :
       search' = [search EXCEPT !.at = "answered", !.status = status]
  /\ UNCHANGED slot

(* A job that did not end leaves no rows, and a warning.                   *)
Serp ==
  /\ search.at = "called"
  /\ \E rows \in [1..Length -> ResultRows] \cup {<<>>}, aligned, scrape \in BOOLEAN :
       LET serp == [rows |-> rows, aligned |-> aligned]
           results == Results(serp)
           more == scrape /\ results # <<>>
       IN search' = [search EXCEPT !.serp = serp, !.results = results,
                       !.at = IF more THEN "submit" ELSE "answered", !.status = IF more THEN 0 ELSE 200]
  /\ UNCHANGED slot

Submit ==
  /\ search.at = "submit"
  /\ search' = [search EXCEPT !.at = "waiting"]
  /\ slot' = [k \in DOMAIN search.results |-> NoPage]

(* Pages end in any order, some of them after the call has been answered.  *)
(* A slot may hold a blob that does not decode.                            *)
PageEnds ==
  /\ \E k \in DOMAIN slot, readable \in BOOLEAN :
       /\ slot[k] = NoPage
       /\ slot' = [slot EXCEPT ![k] = IF readable THEN search.results[k].url ELSE Link("unreadable", NoPage)]
  /\ UNCHANGED search

Decodes(k) == slot[k] # NoPage /\ slot[k].form # "unreadable"

(* All slots are filled or the deadline has passed: what is there by then  *)
(* is attached by position; nothing, if the job cannot be read.            *)
Attach ==
  /\ search.at = "waiting"
  /\ \E snapshot \in {DOMAIN slot, {}} :
       LET pages == [k \in DOMAIN search.results |->
                       IF k \in snapshot /\ Decodes(k) THEN slot[k] ELSE NoPage]
       IN search' = [search EXCEPT !.at = "answered", !.status = 200,
            !.results = [k \in DOMAIN @ |-> [@[k] EXCEPT !.page = pages[k]]],
            !.incomplete = \E k \in DOMAIN pages : pages[k] = NoPage]
  /\ UNCHANGED slot

QNext == Fails \/ Serp \/ Submit \/ PageEnds \/ Attach

QSpec == QInit /\ [][QNext]_qvars

-----------------------------------------------------------------------------
(* A result leads where its row's own link leads: nothing the preset       *)
(* refused or left unresolved comes back through the row's html, no address *)
(* stands twice, and a page that is attached is the page of that result;   *)
(* when one is missing the answer says so.                                 *)
OwnResults ==
  search.at = "answered" =>
    LET found == search.results IN
    /\ \A k, l \in DOMAIN found : found[k].url = found[l].url => k = l
    /\ search.serp.aligned => \A k \in DOMAIN found :
         LET link == search.serp.rows[found[k].of].link IN Usable(link) /\ found[k].url.to = link.to
    /\ \A k \in DOMAIN found : found[k].page \in {NoPage, found[k].url}
    /\ (slot # <<>> /\ ~search.incomplete) => \A k \in DOMAIN found : found[k].page # NoPage
=============================================================================
