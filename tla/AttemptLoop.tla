----------------------------- MODULE AttemptLoop -----------------------------
(***************************************************************************)
(* One page task's attempts: run_scrape (src/queue/scrape_runner.py) under *)
(* the ceiling scrape_page puts over it (src/queue/tasks.py).              *)
(*                                                                         *)
(* The task opens a proxy session, sizes every attempt against what is     *)
(* left of its time, fetches, decides whether a fresh exit is worth buying,*)
(* and reports the attempt that best explains the outcome. The clock is    *)
(* `left`, the time to attempt_deadline; the ceiling itself is Slack later *)
(* and destroys everything the task has learned.                           *)
(***************************************************************************)
EXTENDS ProxySession, Integers, Sequences

CONSTANTS Requests,       \* the requests a task may be given
          Whys,           \* the kinds of fetch result considered
          Budgets,        \* time to attempt_deadline when run_scrape is entered
          Slack,          \* attempt_slack_s: attempt_deadline to the ceiling
          MinAttempt,     \* _MIN_ATTEMPT_TIMEOUT_MS
          Dwell,          \* the dwell of a warmup
          ExcessMax       \* the most one await may take beyond what bounds it

Request == [attempts: Nat \ {0}, timeout: Nat \ {0},
            selector: BOOLEAN, warmup: BOOLEAN, parses: BOOLEAN]

AllWhys == {"ok", "captcha", "ban", "transient", "selector",
            "transport", "deadline", "other"}

\* Nothing relates ExcessMax to Slack: the slack is meant for what no phase
\* accounts for (launch, settling, screenshot, teardown; the comment on
\* _ATTEMPT_SLACK_FRACTION), and any of these may take longer.
ASSUME AttemptAssumption ==
    /\ Requests \subseteq Request
    /\ Whys \subseteq AllWhys
    /\ Budgets \subseteq Int
    /\ MinAttempt \in Nat \ {0}
    /\ Dwell \in Nat /\ Slack \in Nat /\ ExcessMax \in Nat

VARIABLES req,           \* the request
          left,          \* attempt_deadline minus now
          unbudgeted,    \* time spent that nothing the loop sizes accounts for
          pc,            \* where the task is; where it was when it ended
          attempt,       \* attempt
          seen,          \* the fetch results, in order; the last: fetch_result
          used,          \* the exit each of them went through
          reported,      \* reported_result, as an index of seen (0: none)
          retries_used,  \* retries_used
          data,          \* whether the page's parsed data is in the response
          result         \* the envelope: none yet, ok, err, or cut off

loopVars == <<req, left, unbudgeted, pc, attempt, seen, used, reported,
              retries_used, data, result>>
clock == <<left, unbudgeted>>
vars == <<sessionVars, loopVars>>

-----------------------------------------------------------------------------
(* What a fetch result says.                                               *)

Outcome == [why: Whys, denied: BOOLEAN]

Ok(o) == o.why = "ok"
Blocked(o) == o.why \in {"captcha", "ban"}
RetryableStatus(o) == o.why \in {"ban", "transient"}
HasHtml(o) == o.why \in {"ok", "captcha", "ban", "transient", "selector"}
NotGenuine(o) == Blocked(o) \/ RetryableStatus(o)

\* _evidence_rank
EvidenceRank(o) ==
    CASE ~HasHtml(o) -> 0
      [] HasHtml(o) /\ NotGenuine(o) -> 1
      [] OTHER -> 2

\* should_rotate_for: never for a target the egress guard refused; otherwise
\* for a block, a selector miss or what looks like a proxy failure.
ShouldRotateFor(o) ==
    /\ ~o.denied
    /\ \/ Blocked(o) \/ RetryableStatus(o)
       \/ o.why \in {"selector", "transport"}

MaxAttempts == IF kind = "direct" THEN 1 ELSE req.attempts

\* One rotation is granted to a bare navigation deadline, on the first attempt.
DeadlineRetry(o) ==
    /\ attempt = 1
    /\ MaxAttempts > 1
    /\ o.why = "deadline"

(* A tie that goes to the earlier attempt.                                 *)
MutReport(s, i, n) ==
    IF i = 0 \/ Ok(s[n]) \/ EvidenceRank(s[n]) > EvidenceRank(s[i]) THEN n ELSE i

\* better_failure_evidence, and a success over everything: the new result is
\* at index n, the incumbent at index i of s.
Report(s, i, n) ==
    IF i = 0 \/ Ok(s[n]) \/ EvidenceRank(s[n]) >= EvidenceRank(s[i])
    THEN n ELSE i

-----------------------------------------------------------------------------
(* The budget.                                                             *)

Phases == 1 + (IF req.selector THEN 1 ELSE 0) + (IF req.warmup THEN 1 ELSE 0)
DwellTime == IF req.warmup THEN Dwell ELSE 0

(* The budget is not divided by the phases that spend it.                  *)
MutAffordable(t) == t - DwellTime

\* affordable_attempt_timeout_ms
Affordable(t) == (t - DwellTime) \div Phases
CanAfford(t) == Affordable(t) >= MinAttempt
Promise(t) == IF req.timeout <= Affordable(t) THEN req.timeout ELSE Affordable(t)

\* What the loop grants the await at hand: the promised timeout for every phase
\* of a fetch and the sleep of its dwell; for the work after it, what is left.
Granted ==
    CASE pc = "attempt" /\ CanAfford(left) -> Phases * Promise(left) + DwellTime
      [] pc \in {"parse", "pack"} /\ left > 0 -> left
      [] OTHER -> 0

\* Where an await may take longer: a call to the provider (none for a direct
\* session, nor for the recovery of a premium one), the parts of a fetch that no
\* timeout governs, and work after it that does not yield.
MayExceed ==
    CASE pc = "open" -> kind # "direct"
      [] pc = "recover" -> kind \notin {"direct", "prem"}
      [] pc = "attempt" -> CanAfford(left)
      [] OTHER -> pc \in {"parse", "pack"}

Excess == IF MayExceed THEN 0 .. ExcessMax ELSE {0}

\* d of the time granted and e more go by.
Spend(d, e) ==
    /\ left' = left - d - e
    /\ unbudgeted' = unbudgeted + e

\* The await at hand returns before the ceiling fires.
Returns(d, e) == Spend(d, e) /\ left' > -Slack

Init ==
    /\ req \in Requests
    /\ left \in Budgets
    /\ unbudgeted = (IF left < 0 THEN -left ELSE 0)
    /\ kind \in Kinds
    /\ pinned \in Pins
    /\ lease = NoLease
    /\ exclude_ids = {}
    /\ minted = 0
    /\ pc = "open"
    /\ attempt = 1
    /\ seen = <<>>
    /\ used = <<>>
    /\ reported = 0
    /\ retries_used = 0
    /\ data = FALSE
    /\ result = "none"

Running(label) == pc = label /\ result = "none"

(* open_session: acquires the first exit.                                  *)
OpenSession ==
    /\ Running("open")
    /\ \E e \in Excess : Returns(0, e)
    /\ Acquire
    /\ pc' = "attempt"
    /\ UNCHANGED <<req, attempt, seen, used, reported, retries_used, data, result>>

\* No credentials, no proxy to be had, or targeting that cannot be met.
OpenSessionFails ==
    /\ Running("open")
    /\ kind # "direct"
    /\ result' = "err"
    /\ UNCHANGED <<sessionVars, req, clock, pc, attempt, seen, used, reported,
                   retries_used, data>>

(* The top of the loop: no budget for even the shortest attempt.           *)
NotStarted ==
    /\ Running("attempt")
    /\ ~CanAfford(left)
    /\ pc' = "parse"
    /\ UNCHANGED <<sessionVars, req, clock, attempt, seen, used, reported,
                   retries_used, data, result>>

(* runner.fetch returns, and the loop keeps the better evidence.           *)
Fetch(o) ==
    /\ Running("attempt")
    /\ CanAfford(left)
    /\ \E d \in 0 .. Granted, e \in Excess : Returns(d, e)
    /\ seen' = Append(seen, o)
    /\ used' = Append(used, lease)
    /\ reported' = Report(seen', reported, Len(seen'))
    /\ pc' = "decide"
    /\ UNCHANGED <<sessionVars, req, attempt, retries_used, data, result>>

\* The browser would not start, or refused the context: an exception, which
\* takes the evidence of the earlier attempts with it.
FetchRaises ==
    /\ Running("attempt")
    /\ CanAfford(left)
    /\ result' = "err"
    /\ UNCHANGED <<sessionVars, req, clock, pc, attempt, seen, used, reported,
                   retries_used, data>>

(* What the loop does with the attempt it just made.                       *)
StopHere ==
    LET o == seen[Len(seen)]
    IN  Ok(o) \/ ~(ShouldRotateFor(o) \/ DeadlineRetry(o))

Stop ==
    /\ Running("decide")
    /\ StopHere
    /\ pc' = "parse"
    /\ UNCHANGED <<sessionVars, req, clock, attempt, seen, used, reported,
                   retries_used, data, result>>

(* The rotation is not vetted against the budget.                          *)
MutMayRotate == attempt < MaxAttempts

\* Both reasons the next attempt cannot happen are settled before an exit is
\* bought for it.
MayRotate == attempt < MaxAttempts /\ CanAfford(left)

(* The parser's gate forgets the retryable statuses.                       *)
MutMayParse ==
    /\ req.parses
    /\ reported # 0
    /\ HasHtml(seen[reported])
    /\ ~Blocked(seen[reported])

Rotate ==
    /\ Running("decide")
    /\ ~StopHere
    /\ retries_used' = attempt
    /\ pc' = IF MayRotate THEN "recover" ELSE "parse"
    /\ UNCHANGED <<sessionVars, req, clock, attempt, seen, used, reported,
                   data, result>>

(* session.on_failure.                                                     *)
OnFailure ==
    /\ Running("recover")
    /\ \E e \in Excess : Returns(0, e)
    /\ \/ /\ Recovered
          /\ pc' = "attempt"
          /\ attempt' = attempt + 1
       \/ /\ NotRecovered
          /\ pc' = "parse"
          /\ UNCHANGED attempt
    /\ UNCHANGED <<req, seen, used, reported, retries_used, data, result>>

-----------------------------------------------------------------------------
(* After the loop, on the reported attempt. within_deadline gives the      *)
(* parser what is left before attempt_deadline, skips it when nothing is,  *)
(* and stops it there otherwise.                                           *)

MayParse ==
    /\ req.parses
    /\ reported # 0
    /\ HasHtml(seen[reported])
    /\ ~NotGenuine(seen[reported])

Parse ==
    /\ Running("parse")
    /\ MayParse /\ left > 0
    /\ \E d \in 1 .. Granted, e \in Excess : Returns(d, e)
    /\ data' \in (IF left' > 0 THEN {TRUE} ELSE BOOLEAN)
    /\ pc' = "pack"
    /\ UNCHANGED <<sessionVars, req, attempt, seen, used, reported, retries_used,
                   result>>

SkipParse ==
    /\ Running("parse")
    /\ ~(MayParse /\ left > 0)
    /\ pc' = "pack"
    /\ UNCHANGED <<sessionVars, req, clock, attempt, seen, used, reported,
                   retries_used, data, result>>

\* The response is built, or rejected by its own schema.
Pack ==
    /\ Running("pack")
    /\ result' \in {"ok", "err"}
    /\ UNCHANGED <<sessionVars, req, clock, pc, attempt, seen, used, reported,
                   retries_used, data>>

\* asyncio.wait_for cancels the task in an await that outlives the ceiling.
CeilingFires ==
    /\ result = "none"
    /\ \E d \in 0 .. Granted, e \in Excess : left - d - e <= -Slack /\ Spend(d, e)
    /\ result' = "cut"
    /\ UNCHANGED <<sessionVars, req, pc, attempt, seen, used, reported,
                   retries_used, data>>

Next ==
    \/ OpenSession \/ OpenSessionFails
    \/ NotStarted \/ (\E o \in Outcome : Fetch(o)) \/ FetchRaises
    \/ Stop \/ Rotate \/ OnFailure
    \/ Parse \/ SkipParse \/ Pack
    \/ CeilingFires

Spec == Init /\ [][Next]_vars

-----------------------------------------------------------------------------
(* Properties.                                                             *)

\* The state stays in its types: one result per fetch, the reported attempt is
\* one of them, no more attempts than the session allows.
TypeOK ==
    /\ SessionTypeOK
    /\ req \in Requests
    /\ left \in Int /\ unbudgeted \in Nat
    /\ pc \in {"open", "attempt", "decide", "recover", "parse", "pack"}
    /\ attempt \in 1 .. MaxAttempts
    /\ seen \in Seq(Outcome)
    /\ used \in Seq(Exit)
    /\ Len(used) = Len(seen)
    /\ reported \in 0 .. Len(seen)
    /\ retries_used \in 0 .. attempt
    /\ data \in BOOLEAN
    /\ result \in {"none", "ok", "err", "cut"}

\* What the loop grants it never overdraws: over all attempts, phases and dwells,
\* and the work after them, the ceiling takes a task (and its html, block verdict
\* and retry count with it) only when what the loop does not size (a provider's
\* call, a launch, a screenshot, a teardown) has used up the whole slack. "Dividing
\* by the phase count is what makes the promise honest"
\* (affordable_attempt_timeout_ms).
BudgetKept == result = "cut" => unbudgeted >= Slack

\* Whatever order the attempts come back in, the reported one is a success if
\* there was one, and otherwise explains at least as much as every other, the
\* latest of its rank (better_failure_evidence): a captcha is not lost to the
\* dead connection of a shortened last attempt.
EvidenceKept ==
    /\ reported = 0 <=> seen = <<>>
    /\ \A i \in 1 .. Len(seen) :
         /\ Ok(seen[i]) => reported = i
         /\ ~Ok(seen[reported]) =>
              /\ EvidenceRank(seen[i]) <= EvidenceRank(seen[reported])
              /\ i > reported => EvidenceRank(seen[i]) < EvidenceRank(seen[reported])

\* No exit that failed is fetched through again: every attempt has its own
\* purchase, and static and shared mobile attempts each their own proxy
\* (exclude_ids, shared by the session and its provider).
BurnedExitsStayOut ==
    kind # "direct" =>
        \A i, j \in 1 .. Len(used) : i < j =>
            /\ used[i] # used[j]
            /\ kind \in {"static", "mobile_shared"} => used[i].source # used[j].source

\* A purchase during recovery is never thrown away: every exit bought before it
\* was fetched through, and unless the provider's call itself spent the budget
\* the loop can start the attempt it was bought for (comment above on_failure:
\* "otherwise the exit is bought and thrown away").
ExitsAreNotWasted ==
    [][ (pc = "recover" /\ minted' > minted) =>
            /\ Len(seen) = minted
            /\ left' = left => (pc' = "attempt" /\ CanAfford(left'))
            /\ attempt' <= MaxAttempts ]_vars

\* If any attempt brought back a genuine page, the response carries its parsed
\* data unless the time ran out; and nothing else is ever parsed: the gate of
\* the parser and the ranking of the evidence agree on what a page is.
GenuinePageParsed ==
    /\ data => EvidenceRank(seen[reported]) = 2
    /\ (/\ result = "ok" /\ req.parses /\ left > 0
        /\ \E i \in 1 .. Len(seen) : EvidenceRank(seen[i]) = 2) => data
=============================================================================
