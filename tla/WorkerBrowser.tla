---------------------------- MODULE WorkerBrowser ----------------------------
(* The browser one worker process keeps warm for an engine: the tasks that *)
(* use it (_get_runner, _browser_guard and _record_page of                 *)
(* src/queue/tasks.py), its start and stop (src/browser/runner.py) and the *)
(* loop that retires or closes it (src/queue/worker.py). The process runs  *)
(* one task at a time. Steps end where the code yields to the event loop.  *)
EXTENDS Naturals, FiniteSetsExt

CONSTANTS
  MaxPages,  \* browser_max_pages, 0: never retired
  MaxClock   \* bound of the clock; the idle window is one tick of it

VARIABLES
  browser,   \* "none", "up", or "dead": a handle to a browser that has gone
  driver,    \* whether the runner has a Playwright driver
  task,      \* the task's progress: where it is, whether it uses this browser
  tick,      \* the lifecycle pass: where it is, the time it started at
  pages,     \* pages_since_launch, counted up to one past MaxPages
  activity,  \* last_activity
  clock

wvars == <<browser, driver, task, tick, pages, activity, clock>>

Held == task.at \in {"start", "launch", "render"} \/ tick.at \in {"closing", "closed"}

WInit ==
  /\ browser = "none" /\ driver = FALSE
  /\ task = [at |-> "away", pooled |-> TRUE] /\ tick = [at |-> "asleep", now |-> 0, retire |-> FALSE]
  /\ pages = 0 /\ activity = 0 /\ clock = 0

Later ==
  /\ clock < MaxClock /\ clock' = clock + 1
  /\ UNCHANGED <<browser, driver, task, tick, pages, activity>>

(* A task takes the guard. A run in the other launch mode, and Camoufox,   *)
(* bring a browser of their own; a login always uses this one.             *)
Enter ==
  /\ task.at = "away" /\ ~Held /\ tick.at # "over"
  /\ \E pooled \in BOOLEAN : task' = [at |-> IF pooled THEN "start" ELSE "render", pooled |-> pooled]
  /\ UNCHANGED <<browser, driver, tick, pages, activity, clock>>

(* start(): with a handle it is done, whatever became of the browser.      *)
StartDriver ==
  /\ task.at = "start"
  /\ IF browser # "none" THEN task' = [task EXCEPT !.at = "render"] /\ UNCHANGED driver
     ELSE task' = [task EXCEPT !.at = "launch"] /\ driver' = TRUE
  /\ UNCHANGED <<browser, tick, pages, activity, clock>>

Launch ==
  /\ task.at = "launch"
  /\ browser' = "up" /\ task' = [task EXCEPT !.at = "render"]
  /\ UNCHANGED <<driver, tick, pages, activity, clock>>

(* The launch fails, or the task's deadline or a caller's cancel ends it   *)
(* here; its finally clause still counts the page.                         *)
Abandon ==
  /\ task.at \in {"start", "launch"}
  /\ task' = [task EXCEPT !.at = "left"]
  /\ UNCHANGED <<browser, driver, tick, pages, activity, clock>>

Render ==
  /\ task.at = "render"
  /\ task' = [task EXCEPT !.at = "left"]
  /\ UNCHANGED <<browser, driver, tick, pages, activity, clock>>

(* The guard is free before the page is counted: wait_for runs the scrape  *)
(* as a task of its own and hears of its end an iteration later.           *)
RecordPage ==
  /\ task.at = "left"
  /\ task' = [task EXCEPT !.at = "away"]
  /\ IF task.pooled THEN pages' = Min({pages + 1, MaxPages + 1}) /\ activity' = clock
     ELSE UNCHANGED <<pages, activity>>
  /\ UNCHANGED <<browser, driver, tick, clock>>

(* The pass reads the clock, then waits for the guard.                     *)
Wake ==
  /\ tick.at = "asleep" /\ tick' = [tick EXCEPT !.at = "waiting", !.now = clock]
  /\ UNCHANGED <<browser, driver, task, pages, activity, clock>>

LookUnguarded ==
  /\ tick.at = "waiting"
  /\ LET retire == MaxPages > 0 /\ pages >= MaxPages
         idle == tick.now > activity + 1
     IN tick' = IF browser # "none" /\ (retire \/ idle)
                THEN [tick EXCEPT !.at = "closing", !.retire = retire] ELSE [tick EXCEPT !.at = "asleep"]
  /\ UNCHANGED <<browser, driver, task, pages, activity, clock>>

Look ==
  /\ tick.at = "waiting" /\ ~Held
  /\ LET retire == MaxPages > 0 /\ pages >= MaxPages
         idle == tick.now > activity + 1
     IN tick' = IF browser # "none" /\ (retire \/ idle)
                THEN [tick EXCEPT !.at = "closing", !.retire = retire] ELSE [tick EXCEPT !.at = "asleep"]
  /\ UNCHANGED <<browser, driver, task, pages, activity, clock>>

(* stop(): the handles go first, so that a close that fails leaves a       *)
(* runner that starts afresh; only a retirement starts a new count, and    *)
(* not when the driver fails to stop.                                      *)
Stop ==
  /\ tick.at = "closing"
  /\ browser' = "none" /\ driver' = FALSE
  /\ tick' = [tick EXCEPT !.at = "closed"]
  /\ UNCHANGED <<task, pages, activity, clock>>

Closed ==
  /\ tick.at = "closed"
  /\ \E fails \in BOOLEAN : pages' = IF tick.retire /\ ~fails THEN 0 ELSE pages
  /\ tick' = [tick EXCEPT !.at = "asleep"]
  /\ UNCHANGED <<browser, driver, task, activity, clock>>

(* The worker drains: the loop is cancelled, then the runners are stopped. *)
Drain ==
  /\ task.at \in {"away", "left"} /\ tick.at # "over"
  /\ browser' = "none" /\ driver' = FALSE
  /\ tick' = [tick EXCEPT !.at = "over"]
  /\ UNCHANGED <<task, pages, activity, clock>>

Die ==
  /\ browser = "up" /\ browser' = "dead"
  /\ UNCHANGED <<driver, task, tick, pages, activity, clock>>

WNext == \/ Later \/ Enter \/ StartDriver \/ Launch \/ Abandon \/ Render \/ RecordPage
         \/ Wake \/ Look \/ Stop \/ Closed \/ Drain \/ Die
WSpec == WInit /\ [][WNext]_wvars

-----------------------------------------------------------------------------
(* No pass takes a browser, or its driver, from under a task: what start() *)
(* found or launched is there until the task has left.                     *)
NeverClosedInUse ==
  (task.at = "render" /\ task.pooled) => browser # "none" /\ driver
=============================================================================
