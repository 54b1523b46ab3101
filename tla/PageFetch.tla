----------------------------- MODULE PageFetch -----------------------------
(* One fetch of a page by a runner of src/browser: PlaywrightRunner        *)
(* (pooled), EphemeralPlaywrightRunner, which wraps one around each fetch, *)
(* and CamoufoxRunner. Every step is an await at which the fetch may also  *)
(* fail or be cancelled. What a page shows is one of a few kinds of pages. *)
EXTENDS Naturals, Sequences, FiniteSets

VARIABLES
  fetch,  \* the request, how far it got, and what it returns
  place,  \* the page the browser is on
  open    \* what the fetch has opened and not yet closed

fvars == <<fetch, place, open>>

(* The pages a navigation may end on: refused ones lie in an internal      *)
(* network; path is where a redirect led, status what it was served with;  *)
(* large pages are above _MAX_BLOCK_PAGE_BYTES; grows says that the        *)
(* selector appears. A page may navigate itself to any other at any time.  *)
Content == [refused |-> FALSE, path |-> "asked", status |-> 200, large |-> TRUE, phrase |-> FALSE, grows |-> TRUE]
PageKinds ==
  {Content, [Content EXCEPT !.grows = FALSE, !.path = "elsewhere"],
   [Content EXCEPT !.phrase = TRUE], [Content EXCEPT !.phrase = TRUE, !.large = FALSE, !.grows = FALSE],
   [Content EXCEPT !.refused = TRUE, !.path = "elsewhere"],
   [Content EXCEPT !.status = 429, !.grows = FALSE], [Content EXCEPT !.status = 503]} \cup
  {[Content EXCEPT !.path = p, !.grows = FALSE] : p \in {"/sorry", "/showcaptcha"}}

(* classify_fetch and the heuristics it relies on: where and what the page *)
(* is when it is read, and the status its navigation was answered with.    *)
RedirectedToBlock(p) == p.path \in {"/sorry", "/sorry/index", "/showcaptcha"}
LooksBlocked(p) == p.path \in {"/sorry/index", "/showcaptcha"} \/ (~p.large /\ p.phrase)
BanStatuses == {401, 403, 407, 429}
TransientStatuses == {413, 500, 502, 503, 504, 520, 521, 522, 523, 524, 525, 526}
NoStatus == 0

Classified(p, status) ==
  CASE LooksBlocked(p)               -> [ok |-> FALSE, blocked |-> TRUE, error |-> "captcha"]
    [] status \in BanStatuses        -> [ok |-> FALSE, blocked |-> TRUE, error |-> "ban"]
    [] status \in TransientStatuses  -> [ok |-> FALSE, blocked |-> FALSE, error |-> "transient"]
    [] OTHER                         -> [ok |-> TRUE, blocked |-> FALSE, error |-> "none"]

(* A page without the selector it was asked to grow never counts as ok;    *)
(* the reason the classifier found stays.                                  *)
VerdictByClass(p, status, missing) == Classified(p, status)
Verdict(p, status, missing) ==
  LET c == Classified(p, status) IN
  IF ~missing THEN c
  ELSE [c EXCEPT !.ok = FALSE, !.error = IF @ = "none" THEN "selector_not_found" ELSE @]

(* The clip rectangle of an element, one axis: its padding is cut at the   *)
(* edges of the document.                                                  *)
Padding == 24
Clip(pos, size, doc) ==
  LET left == IF pos > Padding THEN pos - Padding ELSE 0
      right == IF pos + size + Padding < doc THEN pos + size + Padding ELSE doc
  IN IF size <= 0 \/ right <= left THEN {} ELSE {<<left, right>>}

Elements ==
  {[found |-> e, pos |-> 0, size |-> 0] : e \in {"invalid", "not_found", "timeout"}} \cup
  [found : {"visible"}, pos : {0, 300}, size : {0, 40}]
DocumentSize == 200

ShotFallback(e) ==
  CASE e.found = "invalid"   -> "fallback_invalid"
    [] e.found = "not_found" -> "fallback_not_found"
    [] e.found = "timeout"   -> "fallback_timeout"
    [] OTHER                 -> "fallback_zero_size"

Shot(png, status) == [png |-> png, status |-> status]
NoShot == Shot(FALSE, "no_screenshot")

(* _capture_screenshot: e is what became of the element, taken and full    *)
(* whether the two kinds of screenshots succeed.                           *)
Captured(mode, e, taken, full) ==
  CASE mode = "none" -> NoShot
    [] mode = "page" -> IF full THEN Shot(TRUE, "not_requested") ELSE NoShot
    [] mode = "element" ->
         IF e.found = "visible" /\ taken /\ Clip(e.pos, e.size, DocumentSize) # {}
         THEN Shot(TRUE, "element")
         ELSE IF full THEN Shot(TRUE, ShotFallback(e)) ELSE NoShot

Asks ==
  {a \in [engine : {"pooled", "ephemeral", "camoufox"}, selector : BOOLEAN,
          shot : {"none", "page", "element"}, warmup : {"none", "homepage", "unusable"}, state : BOOLEAN] :
     a.engine = "camoufox" => ~a.state}

NoResult == [kind |-> "pending", ok |-> FALSE, blocked |-> FALSE, error |-> "none", shot |-> NoShot,
            state |-> FALSE, warm |-> "none", seen |-> "no", status |-> NoStatus, of |-> Content]

(* What a fetch opens, in order, and what it closes, in order. Camoufox's  *)
(* browser takes its pages with it; an ephemeral runner stops its browser  *)
(* and driver whatever happened.                                           *)
Opens(a) ==
  CASE a.engine = "pooled"    -> <<"bridge", "context", "page">>
    [] a.engine = "ephemeral" -> <<"driver", "browser", "bridge", "context", "page">>
    [] a.engine = "camoufox"  -> <<"browser", "page">>

ClosesWithPage(a) == <<"page", "bridge">> \o (IF a.engine = "ephemeral" THEN <<"browser", "driver">> ELSE <<>>)
Closes(a) ==
  CASE a.engine = "pooled"    -> <<"page", "context", "bridge">>
    [] a.engine = "ephemeral" -> <<"page", "context", "bridge", "browser", "driver">>
    [] a.engine = "camoufox"  -> <<"browser">>

TakenAlong(what) ==
  CASE what = "browser" -> {"browser", "context", "lost context", "page"}
    [] what = "context" -> {"context", "page"}
    [] OTHER            -> {what}

FInit ==
  /\ fetch = [at |-> "idle", ask |-> [engine |-> "pooled"], todo |-> <<>>, missing |-> FALSE, result |-> NoResult, late |-> FALSE]
  /\ place = Content /\ open = {}

Wanted == fetch.ask
Ends(kind) == [fetch EXCEPT !.at = "closing", !.todo = Closes(Wanted), !.result.kind = kind]

(* An exception gives a result that carries nothing of the page, only what *)
(* the warmup did.                                                         *)
Empty(kind) == [Ends(kind) EXCEPT !.result = [NoResult EXCEPT !.kind = kind, !.warm = fetch.result.warm]]

(* Preflight: a refused url ends the fetch; the ephemeral runner has       *)
(* started its browser by then.                                            *)
Begin ==
  /\ fetch.at = "idle"
  /\ \E a \in Asks, refused \in BOOLEAN :
       /\ refused => a.engine # "ephemeral"
       /\ fetch' = [fetch EXCEPT !.ask = a, !.at = IF refused THEN "done" ELSE "opening",
                                 !.todo = Opens(a), !.result.kind = IF refused THEN "egress" ELSE @]
  /\ UNCHANGED <<place, open>>

(* A plain proxy needs no bridge. Setting a context up takes more awaits   *)
(* after it exists; when one of them fails nobody holds the context.       *)
Opened == IF Len(fetch.todo) = 1 THEN "warmup" ELSE "opening"

OpenNext ==
  /\ fetch.at = "opening"
  /\ \/ open' = open \cup {Head(fetch.todo)}
     \/ Head(fetch.todo) = "bridge" /\ open' = open
  /\ fetch' = [fetch EXCEPT !.todo = Tail(@), !.at = Opened]
  /\ UNCHANGED place

Refuse ==
  /\ fetch.at = "opening" /\ Wanted.engine = "ephemeral" /\ Head(fetch.todo) = "bridge"
  /\ fetch' = Empty("egress")
  /\ UNCHANGED <<place, open>>

Raises == IF Wanted.engine = "camoufox" THEN "error" ELSE "raised"

OpenFails ==
  /\ fetch.at = "opening"
  /\ \E kind \in {Raises, "cancelled"} :
       \/ fetch' = Ends(kind) /\ open' = open
       \/ /\ Head(fetch.todo) = "context" /\ open' = open \cup {"lost context"}
          /\ fetch' = [Ends(kind) EXCEPT !.late = TRUE]
  /\ UNCHANGED place

(* The warmup visit: nothing it does can fail the fetch.                   *)
Warmup ==
  /\ fetch.at = "warmup"
  /\ \/ Wanted.warmup # "homepage" /\ fetch' = [fetch EXCEPT !.at = "goto"] /\ UNCHANGED place
     \/ /\ Wanted.warmup = "homepage"
        /\ \E p \in PageKinds :
             /\ place' = p
             /\ \E warm \in {"error"} \cup
                  (IF p.refused THEN {} ELSE {IF RedirectedToBlock(p) THEN "applied, blocked" ELSE "applied"}) :
                  fetch' = [fetch EXCEPT !.at = "goto", !.result.warm = warm]
  /\ UNCHANGED open

(* The navigation, and a check of every hop it took. Its response, when it *)
(* has one, gives the status the fetch is judged by and reports.           *)
Goto ==
  /\ fetch.at = "goto"
  /\ place' \in PageKinds
  /\ \E status \in {NoStatus, place'.status} :
       fetch' = IF place'.refused THEN Empty("egress")
                ELSE [fetch EXCEPT !.at = "selector", !.result.status = status]
  /\ UNCHANGED open

(* The wait for the selector is given up at its deadline, and not begun on *)
(* an address that only serves blocks.                                     *)
WaitForSelector ==
  /\ fetch.at = "selector"
  /\ IF ~Wanted.selector \/ RedirectedToBlock(place)
     THEN fetch' = [fetch EXCEPT !.at = "read", !.result.seen = "not awaited"] /\ UNCHANGED place
     ELSE /\ place' \in PageKinds
          /\ fetch' = [fetch EXCEPT !.at = "read", !.missing = ~place'.grows, 
               !.result.seen = IF place'.grows THEN "yes" ELSE "no"]
  /\ UNCHANGED open

(* The page is read wherever it has settled, and that is what is checked   *)
(* and returned; it is classified together with the status of the          *)
(* navigation, whatever status the settled page came with.                 *)
ReadPage ==
  /\ fetch.at = "read"
  /\ place' \in PageKinds
  /\ fetch' = IF place'.refused THEN Empty("egress")
              ELSE LET v == Verdict(place', fetch.result.status, fetch.missing) IN
                [fetch EXCEPT !.at = "shot",
                   !.result = [@ EXCEPT !.ok = v.ok, !.blocked = v.blocked, !.error = v.error, !.of = place']]
  /\ UNCHANGED open

(* A screenshot shows the page as it is by then, so it is checked again.   *)
TakeShot ==
  /\ fetch.at = "shot"
  /\ place' \in {place} \cup (IF Wanted.shot = "none" THEN {} ELSE {p \in PageKinds : p.refused})
  /\ \E e \in Elements, taken, full \in BOOLEAN :
       LET shot == Captured(Wanted.shot, e, taken, full) IN
       fetch' = IF shot.png /\ place'.refused THEN Empty("egress")
                ELSE [fetch EXCEPT !.at = "state", !.result.shot = shot]
  /\ UNCHANGED open

(* Cookies are handed back only to a session, and may fail to be read.     *)
ReadState ==
  /\ fetch.at = "state"
  /\ \E got \in BOOLEAN :
       /\ got => Wanted.state
       /\ fetch' = [Ends("page") EXCEPT !.result.state = got]
  /\ UNCHANGED <<place, open>>

(* Camoufox survives a failing screenshot.                                 *)
StepFails ==
  /\ fetch.at \in {"goto", "selector", "read", "shot"} \/ (fetch.at = "state" /\ Wanted.state)
  /\ fetch' = IF fetch.at = "shot" /\ Wanted.engine = "camoufox" THEN [fetch EXCEPT !.at = "state"] ELSE Empty("error")
  /\ UNCHANGED <<place, open>>

Interrupted ==
  /\ fetch.at \in {"warmup", "goto", "selector", "read", "shot", "state"}
  /\ fetch' = Empty("cancelled")
  /\ UNCHANGED <<place, open>>

(* Teardown: each close is bounded and its failure swallowed, so the next  *)
(* one is always tried; only a cancellation goes through. The finally of   *)
(* an ephemeral runner still stops its browser then.                       *)
Close ==
  /\ fetch.at = "closing" /\ fetch.todo # <<>>
  /\ open' = open \ TakenAlong(Head(fetch.todo))
  /\ fetch' = [fetch EXCEPT !.todo = Tail(@)]
  /\ UNCHANGED place

CloseInterrupted ==
  /\ fetch.at = "closing" /\ fetch.todo # <<>> /\ Head(fetch.todo) \in open
  /\ fetch' = [fetch EXCEPT !.result = [NoResult EXCEPT !.kind = "cancelled"], !.late = TRUE,
       !.todo = IF Wanted.engine = "ephemeral" /\ Head(@) \in {"page", "context", "bridge"}
                THEN <<"browser", "driver">> ELSE <<>>]
  /\ UNCHANGED <<place, open>>

Done ==
  /\ fetch.at = "closing" /\ fetch.todo = <<>>
  /\ fetch' = [fetch EXCEPT !.at = "done"]
  /\ UNCHANGED <<place, open>>

FNext ==
  \/ Begin \/ OpenNext \/ Refuse \/ OpenFails \/ Warmup \/ Goto \/ WaitForSelector \/ ReadPage \/ TakeShot
  \/ ReadState \/ StepFails \/ Interrupted \/ Close \/ CloseInterrupted \/ Done

FSpec == FInit /\ [][FNext]_fvars

-----------------------------------------------------------------------------
Returned == fetch.at = "done" /\ fetch.result.kind = "page"

(* A fetch that reports ok had a navigation whose own status was no ban,   *)
(* read a page that is public and no block, though the page may have       *)
(* navigated itself in between, and if it waited for a selector it saw it. *)
(* (The status of a page it navigated itself to is not known to the code.) *)
OkIsGenuine ==
  (Returned /\ fetch.result.ok) =>
    /\ ~LooksBlocked(fetch.result.of) /\ ~fetch.result.of.refused
    /\ fetch.result.status \notin BanStatuses \cup TransientStatuses
    /\ fetch.result.seen # "no"

(* Whatever went wrong, and wherever it was cancelled, a fetch closes what *)
(* it opened. (Known gaps, in late: a cancellation during the teardown     *)
(* itself, and a context whose set-up fails.)                              *)
ClosedAtTheEnd == (fetch.at = "done" /\ ~fetch.late) => open = {}
=============================================================================
