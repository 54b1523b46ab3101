---------------------------- MODULE ScrapeQueue ----------------------------
(***************************************************************************)
(* The scrape job pipeline: the API process fans a batch out onto a Redis  *)
(* stream, workers run one page per delivery and write its slot into the   *)
(* Redis job store, a reaper re-adds entries whose consumer died, clients  *)
(* cancel and read results.                                                *)
(*                                                                         *)
(* Sources: src/scrape_service.py, src/queue/store.py,            *)
(* src/queue/tasks.py (scrape_page), src/queue/reaper.py,                  *)
(* src/queue/broker.py.  One action is one Redis round trip (a Lua script  *)
(* and a MULTI block are atomic); every await between two of them is a     *)
(* point where any other process may run.                                  *)
(***************************************************************************)
EXTENDS Integers, FiniteSets

CONSTANTS
  Jobs,        \* job ids the store may hand out
  Workers,     \* worker processes, each running one task at a time
  Clients,     \* callers of the cancel and results endpoints
  MaxPages,    \* largest batch submitted
  Sessions,    \* session ids a page may carry
  NoSession,   \* session_id = None
  QueueMax,    \* QUEUE_MAXSIZE, the submit backpressure threshold; 0 disables it
  MaxMsgs,     \* bound on stream ids
  MaxFaults,   \* bound on crashes, Redis errors and slow deliveries
  RedisErrors, \* may a Redis call made by a worker task raise?
  SchemaSkew,  \* may stored page specs be unreadable to a newer API build?
  ClientOps    \* which of "cancel", "results" the clients call

ASSUME QueueAssumption ==
  /\ MaxPages \in Nat
  /\ MaxMsgs \in Nat
  /\ MaxFaults \in Nat
  /\ QueueMax \in Nat
  /\ RedisErrors \in BOOLEAN
  /\ SchemaSkew \in BOOLEAN
  /\ ClientOps \subseteq {"cancel", "results"}

Pages == 0 .. MaxPages - 1
Ids == 1 .. MaxMsgs
None == 0                          \* no stream entry: stream ids start at 1
NoMsg == [job |-> "none", page |-> 0]
Active == {"queued", "running"}
Terminal == {"done", "cancelled"}  \* nothing in the code sets "failed"
Live == Active \cup Terminal       \* the job's keys exist

VARIABLES
  \* --- the job store, one entry per job id
  status,    \* "absent", queued, running, done, cancelled, "expired"
  total, done, cancelled,
  links,     \* chain_next, as the set of pairs <<i, chain_next[i]>>
  slot,      \* results hash: "empty", "ok", "error" or "stub" per page
  \* --- the stream and its consumer group
  msg,       \* id -> entry
  lastId,    \* last generated id
  delivered, \* last-delivered-id of the group
  pending,   \* the pending entries list
  \* --- processes
  sub,       \* job -> state of the API coroutine that submits it
  heads,     \* job -> chain heads that coroutine has still to enqueue
  stubs,     \* job -> unfilled pages it saw before cancelling a failed fan-out
  pc, held, out,  \* worker -> next step, entry being executed, outcome
  reaper,    \* the reclaim pass: claimed ids still to re-add, and its step
  client,    \* client -> its current request
  faults     \* faults so far

store == <<status, total, done, cancelled, links, slot>>
stream == <<msg, lastId, delivered, pending>>
api == <<sub, heads, stubs>>
worker == <<pc, held, out>>
vars == <<store, stream, api, worker, reaper, client, faults>>

JobPages(j) == 0 .. total[j] - 1
Filled(j) == {p \in Pages : slot[j][p] # "empty"}

\* The pages still waiting for a result, as get_full reports them.
Unfilled(j) == {p \in JobPages(j) : slot[j][p] = "empty"}
-----------------------------------------------------------------------------
(***************************************************************************)
(* plan_chains: pages of one session form an index-ordered chain, only its *)
(* first page is enqueued at submit.  s maps the batch's indexes to        *)
(* session ids.                                                            *)
(***************************************************************************)
ChainLinks(s) ==
  {l \in (DOMAIN s) \X (DOMAIN s) :
     /\ l[1] < l[2]
     /\ s[l[1]] = s[l[2]]
     /\ s[l[1]] # NoSession
     /\ \A k \in DOMAIN s : l[1] < k /\ k < l[2] => s[k] # s[l[1]]}

\* Mutant: every page is enqueued at submit.
ChainHeadsAll(s) == DOMAIN s

ChainHeads(s) == {p \in DOMAIN s : \A m \in DOMAIN s : <<m, p>> \notin ChainLinks(s)}
-----------------------------------------------------------------------------
(***************************************************************************)
(* Stream commands.                                                        *)
(***************************************************************************)

\* XADD of the task message for page p of job j.
Kiq(j, p) ==
  /\ lastId < MaxMsgs
  /\ lastId' = lastId + 1
  /\ msg' = [msg EXCEPT ![lastId + 1] = [job |-> j, page |-> p]]
  /\ UNCHANGED <<delivered, pending>>

\* Entries some process still owes work to: undelivered, or not yet acked.
Outstanding == {id \in Ids : (delivered < id /\ id <= lastId) \/ id \in pending}

Executing == {held[w] : w \in Workers}

\* lag + pending, the depth submit backpressure looks at.
QueueDepth == (lastId - delivered) + Cardinality(pending)

\* Each of the budgeted events counts as one fault.
Fault == faults < MaxFaults /\ faults' = faults + 1
-----------------------------------------------------------------------------
(***************************************************************************)
(* Lua scripts of the job store.                                           *)
(***************************************************************************)

\* Mutants: every delivery is counted; the last page but one finalizes.
WriteSlotRecounts(j, p, o) ==
  /\ slot' = [slot EXCEPT ![j][p] = o]
  /\ done' = [done EXCEPT ![j] = @ + 1]
  /\ status' = [status EXCEPT ![j] = IF @ \in Active /\ done[j] + 1 >= total[j] THEN "done" ELSE @]
  /\ UNCHANGED <<total, cancelled, links>>

WriteSlotEarly(j, p, o) ==
  LET count == IF slot[j][p] = "empty" THEN done[j] + 1 ELSE done[j]
  IN /\ slot' = [slot EXCEPT ![j][p] = o]
     /\ done' = [done EXCEPT ![j] = count]
     /\ status' = [status EXCEPT ![j] = IF @ \in Active /\ count + 1 >= total[j] THEN "done" ELSE @]
     /\ UNCHANGED <<total, cancelled, links>>

\* _WRITE_SLOT on a live job: the slot is overwritten whatever it held, only
\* a new field is counted, the write that completes the count finalizes.
WriteSlot(j, p, o) ==
  LET new == slot[j][p] = "empty"
      count == IF new THEN done[j] + 1 ELSE done[j]
      final == status[j] \notin Terminal /\ new /\ count >= total[j]
  IN /\ slot' = [slot EXCEPT ![j][p] = o]
     /\ done' = [done EXCEPT ![j] = count]
     /\ status' = [status EXCEPT ![j] = IF ~final THEN @
                                        ELSE IF cancelled[j] THEN "cancelled"
                                        ELSE "done"]
     /\ UNCHANGED <<total, cancelled, links>>

\* Mutants of the cancel script: no stubs; HSET for HSETNX; no
\* terminal check.
CancelFillBare(j, S) ==
  /\ cancelled' = [cancelled EXCEPT ![j] = @ \/ status[j] \in Active]
  /\ status' = [status EXCEPT ![j] = IF @ \in Active THEN "cancelled" ELSE @]
  /\ UNCHANGED <<total, done, links, slot>>

CancelFillOverwrites(j, S) ==
  IF status[j] \notin Active
  THEN UNCHANGED store
  ELSE /\ cancelled' = [cancelled EXCEPT ![j] = TRUE]
       /\ slot' = [slot EXCEPT ![j] = [p \in Pages |-> IF p \in S THEN "stub" ELSE @[p]]]
       /\ done' = [done EXCEPT ![j] = Cardinality({p \in Pages : slot'[j][p] # "empty"})]
       /\ status' = [status EXCEPT ![j] = "cancelled"]
       /\ UNCHANGED <<total, links>>

CancelFillAnytime(j, S) ==
  /\ cancelled' = [cancelled EXCEPT ![j] = status[j] \in Live]
  /\ status' = [status EXCEPT ![j] = IF @ \in Live THEN "cancelled" ELSE @]
  /\ UNCHANGED <<total, done, links, slot>>

\* _CANCEL_FILL: nothing on a missing or terminal job, else stub every page of
\* S that is still empty, recount and finalize as cancelled.
CancelFill(j, S) ==
  IF status[j] \notin Active
  THEN UNCHANGED store
  ELSE LET filled == [p \in Pages |->
                        IF p \in S /\ slot[j][p] = "empty" THEN "stub" ELSE slot[j][p]]
       IN /\ cancelled' = [cancelled EXCEPT ![j] = TRUE]
          /\ slot' = [slot EXCEPT ![j] = filled]
          /\ done' = [done EXCEPT ![j] = Cardinality({p \in Pages : filled[p] # "empty"})]
          /\ status' = [status EXCEPT ![j] = "cancelled"]
          /\ UNCHANGED <<total, links>>
-----------------------------------------------------------------------------
(***************************************************************************)
(* The API: ScrapeService._enqueue.                                        *)
(***************************************************************************)

\* The depth check. It is not atomic with the fan-out that follows it.
SubmitCheck(j) ==
  /\ sub[j] = "new"
  /\ sub' = [sub EXCEPT ![j] = IF QueueMax > 0 /\ QueueDepth > QueueMax
                                     THEN "rejected" ELSE "create"]
  /\ UNCHANGED <<store, stream, heads, stubs, worker, reaper, client, faults>>

\* The MULTI block of RedisJobStore.create, for a batch of n pages with session
\* ids s.  An empty batch is born done.
CreateBatch(j, n, s) ==
  /\ total' = [total EXCEPT ![j] = n]
  /\ links' = [links EXCEPT ![j] = ChainLinks(s)]
  /\ status' = [status EXCEPT ![j] = IF n = 0 THEN "done" ELSE "queued"]
  /\ UNCHANGED <<done, cancelled, slot>>

SubmitCreate(j) ==
  /\ sub[j] = "create"
  /\ \E n \in 0 .. MaxPages : \E s \in [0 .. n - 1 -> Sessions \cup {NoSession}] :
       /\ CreateBatch(j, n, s)
       /\ heads' = [heads EXCEPT ![j] = ChainHeads(s)]
  /\ sub' = [sub EXCEPT ![j] = "fanout"]
  /\ UNCHANGED <<stream, stubs, worker, reaper, client, faults>>

\* create raises, outside the try of _enqueue: nothing converges what Redis may
\* have stored before the connection failed, and no caller learns the job's id.
SubmitCreateRaises(j) ==
  /\ Fault
  /\ sub[j] = "create"
  /\ \/ UNCHANGED store
     \/ \E n \in 0 .. MaxPages : \E s \in [0 .. n - 1 -> Sessions \cup {NoSession}] :
          CreateBatch(j, n, s)
  /\ sub' = [sub EXCEPT ![j] = "lost"]
  /\ UNCHANGED <<stream, heads, stubs, worker, reaper, client>>

\* One kiq of the loop over the heads, in index order.
SubmitKiq(j) ==
  /\ sub[j] = "fanout"
  /\ \E h \in heads[j] :
       /\ \A g \in heads[j] : h <= g
       /\ Kiq(j, h)
       /\ heads' = [heads EXCEPT ![j] = @ \ {h}]
  /\ UNCHANGED <<store, sub, stubs, worker, reaper, client, faults>>

\* The fan-out is complete and the caller gets its job id.
SubmitReturn(j) ==
  /\ sub[j] = "fanout"
  /\ heads[j] = {}
  /\ sub' = [sub EXCEPT ![j] = "accepted"]
  /\ UNCHANGED <<store, stream, heads, stubs, worker, reaper, client, faults>>

\* A kiq raises; the broker may have stored the entry all the same.
SubmitKiqRaises(j) ==
  /\ Fault
  /\ sub[j] = "fanout"
  /\ \E h \in heads[j] :
       /\ \A g \in heads[j] : h <= g
       /\ Kiq(j, h) \/ UNCHANGED stream
  /\ sub' = [sub EXCEPT ![j] = "converge"]
  /\ heads' = [heads EXCEPT ![j] = {}]
  /\ UNCHANGED <<store, stubs, worker, reaper, client>>

\* Mutant: the enqueue error is surfaced without converging the job.
SubmitConvergeDrops(j) ==
  /\ sub[j] = "converge"
  /\ sub' = [sub EXCEPT ![j] = "failed"]
  /\ UNCHANGED <<store, stream, heads, stubs, worker, reaper, client, faults>>

\* _cancel_unfilled, first half: get_full, None when the job's keys are gone.
\* Page specs this process cannot read mean cancelling without stubs.
SubmitConverge(j) ==
  /\ sub[j] = "converge"
  /\ IF status[j] \notin Live
     THEN /\ sub' = [sub EXCEPT ![j] = "failed"]
          /\ UNCHANGED stubs
     ELSE /\ sub' = [sub EXCEPT ![j] = "cancel"]
          /\ \E S \in {Unfilled(j)} \cup (IF SchemaSkew THEN {{}} ELSE {}) :
               stubs' = [stubs EXCEPT ![j] = S]
  /\ UNCHANGED <<store, stream, heads, worker, reaper, client, faults>>

\* _cancel_unfilled, second half: the Lua script; the submit error re-raises.
SubmitCancel(j) ==
  /\ sub[j] = "cancel"
  /\ CancelFill(j, stubs[j])
  /\ sub' = [sub EXCEPT ![j] = "failed"]
  /\ stubs' = [stubs EXCEPT ![j] = {}]
  /\ UNCHANGED <<stream, heads, worker, reaper, client, faults>>

\* _cancel_unfilled catches JobPagesUnreadable only: a Redis error of get_full,
\* or of the script (which may have run), replaces the submit error.
SubmitConvergeRaises(j) ==
  /\ Fault
  /\ \/ sub[j] \in {"converge", "cancel"} /\ UNCHANGED store
     \/ sub[j] = "cancel" /\ CancelFill(j, stubs[j])
  /\ sub' = [sub EXCEPT ![j] = "failed"]
  /\ stubs' = [stubs EXCEPT ![j] = {}]
  /\ UNCHANGED <<stream, heads, worker, reaper, client>>

\* The API process dies inside _enqueue, or the request's coroutine is cancelled,
\* which except Exception does not see (external: not the code's own step).
ApiCrash(j) ==
  /\ Fault
  /\ sub[j] \in {"create", "fanout", "converge", "cancel"}
  /\ sub' = [sub EXCEPT ![j] = "crashed"]
  /\ heads' = [heads EXCEPT ![j] = {}]
  /\ stubs' = [stubs EXCEPT ![j] = {}]
  /\ UNCHANGED <<store, stream, worker, reaper, client>>
-----------------------------------------------------------------------------
(***************************************************************************)
(* The worker: _scrape_page_task.                                          *)
(***************************************************************************)
Job(w) == msg[held[w]].job
Page(w) == msg[held[w]].page

Goto(w, step) == pc' = [pc EXCEPT ![w] = step]

\* What a task step that only reads leaves alone.
ReadOnly == UNCHANGED <<store, stream, api, held, reaper, client, faults>>

\* XREADGROUP with count 1: the oldest undelivered entry becomes pending.
Deliver(w) ==
  /\ pc[w] = "idle"
  /\ delivered < lastId
  /\ delivered' = delivered + 1
  /\ pending' = pending \cup {delivered + 1}
  /\ held' = [held EXCEPT ![w] = delivered + 1]
  /\ Goto(w, "meta")
  /\ UNCHANGED <<store, msg, lastId, api, out, reaper, client, faults>>

\* get_meta: a missing, terminal or cancelled job needs nothing from us.
TaskMeta(w) ==
  /\ pc[w] = "meta"
  /\ Goto(w, IF status[Job(w)] \in Active /\ ~cancelled[Job(w)] THEN "slot" ELSE "ack")
  /\ UNCHANGED out /\ ReadOnly

\* Mutant: a redelivery of a finished page does nothing.
TaskSlotStops(w) ==
  /\ pc[w] = "slot"
  /\ Goto(w, IF slot[Job(w)][Page(w)] # "empty" THEN "ack" ELSE "mark")
  /\ UNCHANGED out /\ ReadOnly

\* slot_filled: a redelivery of a finished page only re-issues the chain.
TaskSlot(w) ==
  /\ pc[w] = "slot"
  /\ Goto(w, IF slot[Job(w)][Page(w)] # "empty" THEN "chain" ELSE "mark")
  /\ UNCHANGED out /\ ReadOnly

\* _MARK_RUNNING.
TaskMark(w) ==
  /\ pc[w] = "mark"
  /\ status' = [status EXCEPT ![Job(w)] = IF @ = "queued" THEN "running" ELSE @]
  /\ Goto(w, "page")
  /\ UNCHANGED <<total, done, cancelled, links, slot>>
  /\ UNCHANGED <<stream, api, held, out, reaper, client, faults>>

\* get_page: without its payload the page becomes an error slot at once.  The
\* pages hash expires with the rest of the job, so that write finds no job.
TaskPage(w) ==
  /\ pc[w] = "page"
  /\ IF status[Job(w)] \in Live
     THEN Goto(w, "scrape") /\ UNCHANGED out
     ELSE Goto(w, "write") /\ out' = [out EXCEPT ![w] = "error"]
  /\ ReadOnly

\* The guarded run: a result, or any exception or timeout made an error.
TaskScrape(w) ==
  /\ pc[w] = "scrape"
  /\ \E o \in {"ok", "error"} : out' = [out EXCEPT ![w] = o]
  /\ Goto(w, "write")
  /\ ReadOnly

\* write_slot; JobNotInStore ends the task.
TaskWrite(w) ==
  /\ pc[w] = "write"
  /\ IF status[Job(w)] \in Live
     THEN WriteSlot(Job(w), Page(w), out[w]) /\ Goto(w, "remeta")
     ELSE UNCHANGED store /\ Goto(w, "ack")
  /\ UNCHANGED <<stream, api, held, out, reaper, client, faults>>

\* The second get_meta: a cancelled job stops its chains.
TaskRemeta(w) ==
  /\ pc[w] = "remeta"
  /\ Goto(w, IF status[Job(w)] \in Live /\ ~cancelled[Job(w)] THEN "chain" ELSE "ack")
  /\ UNCHANGED out /\ ReadOnly

\* _kiq_chain_next: the link is immutable, so reading it and adding the entry
\* are one step; an expired job has no link.
TaskChain(w) ==
  /\ pc[w] = "chain"
  /\ Goto(w, "ack")
  /\ \/ \E n \in Pages : <<Page(w), n>> \in links[Job(w)] /\ Kiq(Job(w), n)
     \/ /\ \A n \in Pages : <<Page(w), n>> \notin links[Job(w)]
        /\ UNCHANGED stream
  /\ UNCHANGED <<store, api, held, out, reaper, client, faults>>

\* The task returned, taskiq acknowledges the entry.
Ack(w) ==
  /\ pc[w] = "ack"
  /\ pending' = pending \ {held[w]}
  /\ held' = [held EXCEPT ![w] = None]
  /\ out' = [out EXCEPT ![w] = "error"]
  /\ Goto(w, "idle")
  /\ UNCHANGED <<store, msg, lastId, delivered, api, reaper, client, faults>>

\* A Redis call outside the guarded run raises out of the task body.  taskiq
\* acknowledges a task that raised like one that returned (external).
TaskRaises(w) ==
  /\ RedisErrors /\ Fault
  /\ pc[w] \in {"meta", "slot", "mark", "page", "write", "remeta", "chain"}
  /\ Goto(w, "ack")
  /\ UNCHANGED <<store, stream, api, held, out, reaper, client>>

\* The worker process dies; its entry stays pending and a new process starts.
WorkerCrash(w) ==
  /\ Fault
  /\ pc[w] # "idle"
  /\ held' = [held EXCEPT ![w] = None]
  /\ out' = [out EXCEPT ![w] = "error"]
  /\ Goto(w, "idle")
  /\ UNCHANGED <<store, stream, api, reaper, client>>
-----------------------------------------------------------------------------
(***************************************************************************)
(* The reaper: one reclaim_once pass at a time.                            *)
(***************************************************************************)
IdleReaper == [at |-> "idle", todo |-> {}]

\* Pending entries no process works on: the dead consumers' ones.
Orphans == pending \ Executing

\* XAUTOCLAIM of entries idle past reclaim_idle_s.  Which orphans have been
\* idle that long is left open.
ReaperClaim ==
  /\ reaper.at = "idle"
  /\ \E S \in SUBSET Orphans \ {{}} : reaper' = [at |-> "xadd", todo |-> S]
  /\ UNCHANGED <<store, stream, api, worker, client, faults>>

\* A delivery that outlives reclaim_idle_s (a stalled worker) is claimed too.
ReaperClaimSlow(w) ==
  /\ Fault
  /\ reaper.at = "idle"
  /\ held[w] \in pending
  /\ reaper' = [at |-> "xadd", todo |-> {held[w]}]
  /\ UNCHANGED <<store, stream, api, worker, client>>

Oldest(id) == id \in reaper.todo /\ \A i \in reaper.todo : id <= i

\* Re-add before ack ...
ReaperXadd ==
  /\ reaper.at = "xadd"
  /\ \E id \in Ids : Oldest(id) /\ Kiq(msg[id].job, msg[id].page)
  /\ reaper' = [reaper EXCEPT !.at = "xack"]
  /\ UNCHANGED <<store, api, worker, client, faults>>

\* Mutant: claimed entries are re-added but never acknowledged.
ReaperXackForgets ==
  /\ reaper.at = "xack"
  /\ reaper' = IdleReaper
  /\ UNCHANGED <<store, stream, api, worker, client, faults>>

\* ... then ack, and on to the next claimed entry.
ReaperXack ==
  /\ reaper.at = "xack"
  /\ \E id \in Ids :
       /\ Oldest(id)
       /\ pending' = pending \ {id}
       /\ reaper' = IF reaper.todo = {id} THEN IdleReaper
                    ELSE [at |-> "xadd", todo |-> reaper.todo \ {id}]
  /\ UNCHANGED <<store, msg, lastId, delivered, api, worker, client, faults>>

\* The process running the pass dies: what it claimed stays pending.
ReaperCrash ==
  /\ Fault
  /\ reaper.at # "idle"
  /\ reaper' = IdleReaper
  /\ UNCHANGED <<store, stream, api, worker, client>>
-----------------------------------------------------------------------------
(***************************************************************************)
(* Clients: get_full is three reads (meta, pages, results), and cancel     *)
(* follows it with the Lua script.                                         *)
(***************************************************************************)
IdleClient == [at |-> "idle", op |-> "none", job |-> "none", seen |-> "absent", empty |-> {}]

ClientIs(c, step) == client[c].at = step
Wanted(c) == client[c].job

ClientGoes(c, to) == client' = [client EXCEPT ![c] = to]
ClientUnchanged == UNCHANGED <<stream, api, worker, reaper, faults>>

\* A request for a job whose id the client was given.
ClientStart(c) ==
  /\ ClientIs(c, "idle")
  /\ \E op \in ClientOps, j \in Jobs :
       /\ sub[j] = "accepted"
       /\ ClientGoes(c, [IdleClient EXCEPT !.at = "meta", !.op = op, !.job = j])
  /\ UNCHANGED store /\ ClientUnchanged

\* get_meta: 404 when there is no such job.
ClientMeta(c) ==
  /\ ClientIs(c, "meta")
  /\ ClientGoes(c, IF status[Wanted(c)] \in Live
                   THEN [client[c] EXCEPT !.at = "pages", !.seen = status[Wanted(c)]]
                   ELSE IdleClient)
  /\ UNCHANGED store /\ ClientUnchanged

\* The pages hash: gone with the job (404), unless the batch was empty and
\* there is nothing to miss.
ClientPages(c) ==
  /\ ClientIs(c, "pages")
  /\ ClientGoes(c, IF status[Wanted(c)] \in Live \/ total[Wanted(c)] = 0
                   THEN [client[c] EXCEPT !.at = "results"]
                   ELSE IdleClient)
  /\ UNCHANGED store /\ ClientUnchanged

\* JobPagesUnreadable: an error answer for results, a cancel without stubs.
ClientUnreadable(c) ==
  /\ SchemaSkew
  /\ ClientIs(c, "pages")
  /\ status[Wanted(c)] \in Live /\ total[Wanted(c)] > 0
  /\ ClientGoes(c, IF client[c].op = "cancel" THEN [client[c] EXCEPT !.at = "fill"]
                   ELSE IdleClient)
  /\ UNCHANGED store /\ ClientUnchanged

\* The results hash; a slot without a value is null in the snapshot.
ClientResults(c) ==
  /\ ClientIs(c, "results")
  /\ ClientGoes(c, [client[c] EXCEPT
                      !.at = IF client[c].op = "cancel" THEN "fill" ELSE "answer",
                      !.empty = Unfilled(Wanted(c))])
  /\ UNCHANGED store /\ ClientUnchanged

\* The snapshot goes out to the caller.
ClientAnswer(c) ==
  /\ ClientIs(c, "answer")
  /\ ClientGoes(c, IdleClient)
  /\ UNCHANGED store /\ ClientUnchanged

\* The cancel script, with stubs for the slots the snapshot saw empty.
ClientCancel(c) ==
  /\ ClientIs(c, "fill")
  /\ CancelFill(Wanted(c), client[c].empty)
  /\ ClientGoes(c, IdleClient)
  /\ ClientUnchanged
-----------------------------------------------------------------------------
\* Key TTLs: meta and pages are armed together, by create (SAFETY_TTL_S) and again
\* when the job is finalized (job_result_ttl_s).  The write of a new slot re-arms
\* the results key alone, which may outlive them: it is read through the meta hash
\* only, but for slot_filled, whose answer then leads to a chain without links.
\* total is kept: requests that read the meta hash before remember it.
Expire(j) ==
  /\ status[j] \in Live
  /\ status' = [status EXCEPT ![j] = "expired"]
  /\ done' = [done EXCEPT ![j] = 0]
  /\ links' = [links EXCEPT ![j] = {}]
  /\ slot' = [slot EXCEPT ![j] = [p \in Pages |-> "empty"]]
  /\ cancelled' = [cancelled EXCEPT ![j] = FALSE]
  /\ UNCHANGED <<total, stream, api, worker, reaper, client, faults>>
-----------------------------------------------------------------------------
Init ==
  /\ status = [j \in Jobs |-> "absent"]
  /\ total = [j \in Jobs |-> 0]
  /\ done = [j \in Jobs |-> 0]
  /\ cancelled = [j \in Jobs |-> FALSE]
  /\ links = [j \in Jobs |-> {}]
  /\ slot = [j \in Jobs |-> [p \in Pages |-> "empty"]]
  /\ msg = [id \in Ids |-> NoMsg]
  /\ lastId = 0 /\ delivered = 0 /\ pending = {}
  /\ sub = [j \in Jobs |-> "new"]
  /\ heads = [j \in Jobs |-> {}]
  /\ stubs = [j \in Jobs |-> {}]
  /\ pc = [w \in Workers |-> "idle"]
  /\ held = [w \in Workers |-> None]
  /\ out = [w \in Workers |-> "error"]
  /\ reaper = IdleReaper
  /\ client = [c \in Clients |-> IdleClient]
  /\ faults = 0

SubmitStep(j) == SubmitCheck(j) \/ SubmitCreate(j) \/ SubmitKiq(j) \/ SubmitReturn(j)
                   \/ SubmitConverge(j) \/ SubmitCancel(j)

SubmitRaises(j) == SubmitCreateRaises(j) \/ SubmitKiqRaises(j) \/ SubmitConvergeRaises(j)

TaskStep(w) == TaskMeta(w) \/ TaskSlot(w) \/ TaskMark(w) \/ TaskPage(w) \/ TaskScrape(w)
                 \/ TaskWrite(w) \/ TaskRemeta(w) \/ TaskChain(w) \/ Ack(w)

ReaperStep == ReaperClaim \/ ReaperXadd \/ ReaperXack

ClientStep(c) == ClientStart(c) \/ ClientMeta(c) \/ ClientPages(c) \/ ClientUnreadable(c)
                   \/ ClientResults(c) \/ ClientAnswer(c) \/ ClientCancel(c)

Next ==
  \/ \E j \in Jobs : SubmitStep(j) \/ SubmitRaises(j) \/ ApiCrash(j) \/ Expire(j)
  \/ \E w \in Workers : Deliver(w) \/ TaskStep(w) \/ TaskRaises(w) \/ WorkerCrash(w)
                           \/ ReaperClaimSlow(w)
  \/ ReaperStep \/ ReaperCrash
  \/ \E c \in Clients : ClientStep(c)

Spec == Init /\ [][Next]_vars

(***************************************************************************)
(* A worker loop that is alive reads and finishes deliveries (its run has  *)
(* a hard timeout), the scheduler fires the reaper every 60 seconds, and   *)
(* the submit coroutine runs to its end.  Nothing obliges a client, a      *)
(* fault or an expiry.                                                     *)
(***************************************************************************)
Fairness ==
  /\ \A j \in Jobs : WF_vars(SubmitStep(j))
  /\ \A w \in Workers : WF_vars(Deliver(w) \/ TaskStep(w))
  /\ WF_vars(ReaperStep)

FairSpec == Spec /\ Fairness
-----------------------------------------------------------------------------
(***************************************************************************)
(* Properties.                                                             *)
(***************************************************************************)
Entry == [job : Jobs, page : Pages] \cup {NoMsg}
TaskSteps == {"meta", "slot", "mark", "page", "scrape", "write", "remeta", "chain", "ack"}

StoreTypeOK ==
  /\ status \in [Jobs -> Live \cup {"absent", "expired"}]
  /\ total \in [Jobs -> 0 .. MaxPages]
  /\ done \in [Jobs -> Nat]
  /\ cancelled \in [Jobs -> BOOLEAN]
  /\ links \in [Jobs -> SUBSET (Pages \X Pages)]
  /\ slot \in [Jobs -> [Pages -> {"empty", "ok", "error", "stub"}]]

StreamTypeOK ==
  /\ msg \in [Ids -> Entry]
  /\ lastId \in 0 .. MaxMsgs
  /\ delivered \in 0 .. lastId
  /\ pending \in SUBSET (1 .. delivered)

ApiTypeOK ==
  /\ sub \in [Jobs -> {"new", "create", "fanout", "converge", "cancel",
                       "accepted", "rejected", "failed", "lost", "crashed"}]
  /\ heads \in [Jobs -> SUBSET Pages]
  /\ stubs \in [Jobs -> SUBSET Pages]

ProcessTypeOK ==
  /\ pc \in [Workers -> TaskSteps \cup {"idle"}]
  /\ held \in [Workers -> 0 .. delivered]
  /\ out \in [Workers -> {"ok", "error"}]
  /\ reaper \in [at : {"idle", "xadd", "xack"}, todo : SUBSET (1 .. delivered)]
  /\ faults \in 0 .. MaxFaults

ClientTypeOK ==
  client \in [Clients ->
    [at : {"idle", "meta", "pages", "results", "answer", "fill"},
     op : {"none", "cancel", "results"}, job : Jobs \cup {"none"},
     seen : Live \cup {"absent"}, empty : SUBSET Pages]]

\* Every variable has its type; what a process holds refers to entries that
\* were delivered.
TypeOK == StoreTypeOK /\ StreamTypeOK /\ ApiTypeOK /\ ProcessTypeOK /\ ClientTypeOK

\* "Exactly-once done-counting" (store.py): whatever is delivered twice,
\* cancelled or raced, the counter equals the number of slots that exist.
DoneCountsSlots == \A j \in Jobs : done[j] = Cardinality(Filled(j))

\* A job reported done has a result in every slot.
DoneIsFull == \A j \in Jobs : status[j] = "done" => Unfilled(j) = {}

\* As long as the API can read the page specs, a cancelled job is full too:
\* the stubs computed from a snapshot still fit when the script runs.
CancelledIsFull == \A j \in Jobs : status[j] = "cancelled" => Unfilled(j) = {}

\* The cancelled flag and the cancelled status never part, so a task that
\* looks at one may ignore the other.
FlagIsStatus == \A j \in Jobs : cancelled[j] <=> status[j] = "cancelled"

\* Pages of one session are started in index order: an entry for a page is on
\* the stream only when its predecessor's slot has been written.
ChainInOrder ==
  \A id \in Outstanding : \A m \in Pages :
    <<m, msg[id].page>> \in links[msg[id].job] => slot[msg[id].job][m] # "empty"

\* Entries that will still be worked on: undelivered, or pending with a task
\* that has not yet decided to acknowledge.
Productive(id) == /\ id \in Outstanding
                  /\ \A w \in Workers : held[w] = id => pc[w] # "ack"

Carries(id, j, p) == msg[id] = [job |-> j, page |-> p] /\ Productive(id)

Submitted(j) == sub[j] = "accepted" /\ status[j] \in Active

\* No head of an accepted job is lost: until its slot is written some entry
\* carries it.
HeadsCovered ==
  \A j \in Jobs : Submitted(j) =>
    \A p \in JobPages(j) :
      \/ slot[j][p] # "empty"
      \/ \E m \in Pages : <<m, p>> \in links[j]
      \/ \E id \in Ids : Carries(id, j, p)

\* No chain is cut: once a page's slot is written, its successor is written or
\* carried, or an entry for the page itself will still re-issue it.
LinksCovered ==
  \A j \in Jobs : status[j] \in Active =>
    \A l \in links[j] :
      \/ slot[j][l[1]] = "empty"
      \/ slot[j][l[2]] # "empty"
      \/ \E id \in Ids : Carries(id, j, l[1]) \/ Carries(id, j, l[2])

\* No page of an accepted job is lost, through any crash of workers and of the
\* reaper: entries carry the heads, and written pages carry their chains on.
PagesCovered == HeadsCovered /\ LinksCovered

\* A kiq that fails half-way leaves no active job behind waiting for pages nobody
\* will scrape, whatever the pages already enqueued do meanwhile: for that a
\* second call, of the convergence itself, has to fail as well.
FailedSubmitConverges ==
  \A j \in Jobs : sub[j] = "failed" /\ status[j] \in Active => faults > 1

\* A terminal status is final: it only ever goes away with the keys.
TerminalIsFinal ==
  [][\A j \in Jobs : status[j] \in Terminal => status'[j] \in {status[j], "expired"}]_vars

\* A written slot is never emptied, and a page's own result never gives way to
\* a cancel stub computed from an older snapshot.
ResultsKept ==
  [][\A j \in Jobs : status'[j] \in Live => \A p \in Pages :
       /\ slot[j][p] # "empty" => slot'[j][p] # "empty"
       /\ slot[j][p] \in {"ok", "error"} => slot'[j][p] # "stub"]_vars

\* Every accepted job reaches a terminal status (or its safety TTL).
AcceptedConverges ==
  \A j \in Jobs : sub[j] = "accepted" ~> status[j] \notin Active

\* The depth submit backpressure measures drains back to 0, so a full queue
\* is not full for ever.
DepthDrains == []<>(QueueDepth = 0)

\* The client's view of the jobs, which ScrapeQueue implements.
Promise == INSTANCE ScrapeJob WITH Partial <- SchemaSkew
PromiseSpec == Promise!Spec
=============================================================================
