---------------------------- MODULE MCAttemptLoop ----------------------------
(***************************************************************************)
(* A small instance of AttemptLoop: two proxies, one of them a modem with a *)
(* change-ip link, requests of one and of three attempts.                  *)
(***************************************************************************)
EXTENDS AttemptLoop

CONSTANTS p1, p2

MCPool == {p1, p2}
MCChangeLinks == {p1}

\* Any proxy, or the modem by its id.
MCPins == {NoProxy, p1}

\* Nothing but the page, a selector to wait for, a warmup before both: one, two
\* and three phases that spend the budget.
MCRequests ==
    {r \in [attempts: {3}, timeout: {2}, selector: BOOLEAN, warmup: BOOLEAN,
            parses: {TRUE}] : r.warmup => r.selector}

\* Time for three attempts, and a task that waited its time away.
MCBudgets == {4, 0}
=============================================================================
