----------------------------- MODULE CrawlJobs -----------------------------
(***************************************************************************)
(* The crawler service around its engines (yozh-crawler/src/jobs.py and    *)
(* src/api/crawl.py): a bounded queue of jobs, workers that run one engine *)
(* each, cancellation, and event streams with replay.  Everything lives in *)
(* one event loop; one action runs from one real suspension to the next    *)
(* (an await that cannot block, such as that of set_status, is none).  An  *)
(* engine shows here as what it calls back: pages, and its end.  Periodic  *)
(* stats events carry nothing a subscriber relies on and are left out.     *)
(***************************************************************************)
EXTENDS Integers, Sequences, FiniteSets, SequencesExt

CONSTANTS
  Jobs,      \* ids the store may hand out
  Workers,   \* worker tasks of the runner
  Streams,   \* event streams clients may open, one request each
  QueueMax,  \* QUEUE_MAXSIZE (0 would mean an unbounded asyncio.Queue)
  MaxPages,  \* pages an engine may hand out
  NoJob

ASSUME JobsAssumption ==
  /\ QueueMax \in Nat \ {0}
  /\ MaxPages \in Nat
  /\ NoJob \notin Jobs

VARIABLES
  status,    \* job -> status of its record, "none" before it exists
  pages,     \* job -> number of pages in its record
  final,     \* job -> type of the remembered final event, "none"
  queue,     \* the asyncio.Queue of job ids
  running,   \* worker -> job whose engine it runs, NoJob, or NoJob once over
  cancelled, \* jobs whose engine was told to stop: "no", "soft", "hard"
  accepted,  \* history: jobs for which a cancel was answered with True
  stream,    \* stream -> its generator: job, state, events to come and sent
  stopping   \* JobRunner.stop was called

vars == <<status, pages, final, queue, running, cancelled, accepted, stream, stopping>>

Terminal == {"done", "failed", "cancelled"}
Statuses == Terminal \cup {"none", "queued", "running"}

\* Jobs with an engine in self._engines.
Engines == {running[w] : w \in Workers} \ {NoJob}

PageEvent(n) == [type |-> "page", n |-> n]
Event(type) == [type |-> type, n |-> 0]
Events == {PageEvent(n) : n \in 1..MaxPages}
          \cup {Event(t) : t \in Terminal \cup {"stats", "__close__"}}

TypeOK ==
  /\ status \in [Jobs -> Statuses]
  /\ pages \in [Jobs -> 0..MaxPages]
  /\ final \in [Jobs -> {"none", "done", "cancelled"}]
  /\ queue \in Seq(Jobs) /\ Len(queue) <= QueueMax
  /\ running \in [Workers -> Jobs \cup {NoJob}]
  /\ cancelled \in [Jobs -> {"no", "soft", "hard"}]
  /\ accepted \subseteq Jobs
  /\ stream \in [Streams -> [job: Jobs \cup {NoJob},
                             at: {"none", "live", "replay", "over", "gone"},
                             next: Seq(Events), sent: Seq(Events)]]
  /\ stopping \in BOOLEAN

Init ==
  /\ status = [j \in Jobs |-> "none"]
  /\ pages = [j \in Jobs |-> 0]
  /\ final = [j \in Jobs |-> "none"]
  /\ queue = <<>>
  /\ running = [w \in Workers |-> NoJob]
  /\ cancelled = [j \in Jobs |-> "no"]
  /\ accepted = {}
  /\ stream = [k \in Streams |-> [job |-> NoJob, at |-> "none", next |-> <<>>, sent |-> <<>>]]
  /\ stopping = FALSE

-----------------------------------------------------------------------------
\* publish: the event goes to every stream subscribed to the job.
Published(j, events) ==
  [k \in Streams |->
     IF stream[k].at = "live" /\ stream[k].job = j
       THEN [stream[k] EXCEPT !.next = @ \o events] ELSE stream[k]]

\* Mutant: the final event is remembered and not published.
SettleQuietly(j, newStatus, type) ==
  /\ status' = [status EXCEPT ![j] = newStatus]
  /\ final' = [final EXCEPT ![j] = type]
  /\ UNCHANGED stream

\* A job reaches its end: status, publish_final with an event of this type.
Settle(j, newStatus, type) ==
  /\ status' = [status EXCEPT ![j] = newStatus]
  /\ final' = [final EXCEPT ![j] = type]
  /\ stream' = Published(j, <<Event(type), Event("__close__")>>)

(* POST /crawl: create and submit run without a suspension.                *)
Submit(j) ==
  /\ status[j] = "none"
  /\ ~stopping
  /\ IF Len(queue) < QueueMax
       THEN /\ queue' = Append(queue, j)
            /\ status' = [status EXCEPT ![j] = "queued"]
       ELSE /\ status' = [status EXCEPT ![j] = "failed"]
            /\ UNCHANGED queue
  /\ UNCHANGED <<pages, final, running, cancelled, accepted, stream, stopping>>

\* Mutant: without an engine, any job is cancelled.
RequestCancelAny(j, how) ==
  /\ status[j] # "none"
  /\ IF j \in Engines
       THEN /\ cancelled' = [cancelled EXCEPT ![j] = IF @ = "hard" THEN @ ELSE how]
            /\ UNCHANGED <<status, final, stream>>
       ELSE /\ Settle(j, "cancelled", "cancelled")
            /\ UNCHANGED cancelled
  /\ accepted' = accepted \cup {j}
  /\ UNCHANGED <<pages, queue, running, stopping>>

(* DELETE /crawl/{id}.                                                     *)
RequestCancel(j, how) ==
  /\ status[j] # "none"
  /\ IF j \in Engines
       THEN /\ cancelled' = [cancelled EXCEPT ![j] = IF @ = "hard" THEN @ ELSE how]
            /\ accepted' = accepted \cup {j}
            /\ UNCHANGED <<status, final, stream>>
       ELSE /\ status[j] \in {"queued", "running"}
            /\ Settle(j, "cancelled", "cancelled")
            /\ accepted' = accepted \cup {j}
            /\ UNCHANGED cancelled
  /\ UNCHANGED <<pages, queue, running, stopping>>

-----------------------------------------------------------------------------
\* Mutant: a job whose engine cannot be built is forgotten.
TakeForgets(w, buildable) ==
  /\ running[w] = NoJob /\ ~stopping
  /\ queue # <<>>
  /\ queue' = Tail(queue)
  /\ IF status[Head(queue)] = "cancelled" \/ ~buildable
       THEN UNCHANGED <<status, running>>
       ELSE /\ running' = [running EXCEPT ![w] = Head(queue)]
            /\ status' = [status EXCEPT ![Head(queue)] = "running"]
  /\ UNCHANGED <<pages, final, cancelled, accepted, stream, stopping>>

(* A worker takes the next job.  One cancelled in the queue is passed over *)
(* and one whose engine cannot be built fails; otherwise the engine is     *)
(* registered, then the job shows as running, and the engine starts.       *)
Take(w, buildable) ==
  /\ running[w] = NoJob /\ ~stopping
  /\ queue # <<>>
  /\ queue' = Tail(queue)
  /\ LET j == Head(queue) IN
       IF status[j] = "cancelled"
         THEN UNCHANGED <<status, final, running, stream>>
       ELSE IF buildable
         THEN /\ running' = [running EXCEPT ![w] = j]
              /\ status' = [status EXCEPT ![j] = "running"]
              /\ UNCHANGED <<final, stream>>
       ELSE Settle(j, "failed", "done") /\ UNCHANGED running
  /\ UNCHANGED <<pages, cancelled, accepted, stopping>>

(* The engine hands out a page: on_page.  A hard cancel ends its tasks.    *)
PageOut(w) ==
  LET j == running[w] IN
    /\ j # NoJob
    /\ cancelled[j] # "hard"
    /\ pages[j] < MaxPages
    /\ pages' = [pages EXCEPT ![j] = @ + 1]
    /\ stream' = Published(j, <<PageEvent(pages[j] + 1)>>)
    /\ UNCHANGED <<status, final, queue, running, cancelled, accepted, stopping>>

\* The engine is removed from self._engines and the worker goes on.
Released(w) == running' = [running EXCEPT ![w] = NoJob]

\* Mutant: an engine that returned has finished its crawl.
EngineDoneAlways(w) ==
  /\ running[w] # NoJob
  /\ Settle(running[w], "done", "done")
  /\ Released(w)
  /\ UNCHANGED <<pages, queue, cancelled, accepted, stopping>>

(* engine.run() returned: what the record says by then stands, otherwise   *)
(* the engine's flag tells a cancelled crawl from a finished one.          *)
EngineDone(w) ==
  LET j == running[w]
      outcome == IF status[j] \in {"cancelled", "failed"} THEN status[j]
                 ELSE IF cancelled[j] # "no" THEN "cancelled" ELSE "done"
  IN
    /\ j # NoJob
    /\ Settle(j, outcome, outcome)
    /\ Released(w)
    /\ UNCHANGED <<pages, queue, cancelled, accepted, stopping>>

(* The job's timeout, or an exception out of the engine.                   *)
EngineFails(w) ==
  /\ running[w] # NoJob
  /\ Settle(running[w], "failed", "done")
  /\ Released(w)
  /\ UNCHANGED <<pages, queue, cancelled, accepted, stopping>>

(* JobRunner.stop cancels every worker task; each settles the job it runs. *)
Stop ==
  /\ ~stopping
  /\ stopping' = TRUE
  /\ status' = [j \in Jobs |-> IF j \in Engines THEN "cancelled" ELSE status[j]]
  /\ final' = [j \in Jobs |-> IF j \in Engines THEN "cancelled" ELSE final[j]]
  /\ stream' = [k \in Streams |->
       IF stream[k].at = "live" /\ stream[k].job \in Engines
         THEN [stream[k] EXCEPT !.next = @ \o <<Event("cancelled"), Event("__close__")>>]
         ELSE stream[k]]
  /\ running' = [w \in Workers |-> NoJob]
  /\ UNCHANGED <<pages, queue, cancelled, accepted>>

-----------------------------------------------------------------------------
\* Mutant: a new stream starts with the pages to come.
ReplayNothing(j) == <<Event("stats")>>
Replay(j) == <<Event("stats")>> \o [n \in 1..pages[j] |-> PageEvent(n)]

\* The remembered final event, or the one made up where there is none.
FinalEvent(j) == IF final[j] = "none" THEN Event("done") ELSE Event(final[j])

(* GET /crawl/{id}/events: the replay and the subscription are one step.   *)
Subscribe(k, j) ==
  /\ stream[k].at = "none"
  /\ status[j] # "none"
  /\ stream' = [stream EXCEPT ![k] =
       IF status[j] \in Terminal
         THEN [job |-> j, at |-> "replay", sent |-> <<>>,
               next |-> Replay(j) \o <<FinalEvent(j), Event("__close__")>>]
         ELSE [job |-> j, at |-> "live", sent |-> <<>>, next |-> Replay(j)]]
  /\ UNCHANGED <<status, pages, final, queue, running, cancelled, accepted, stopping>>

\* Events after which the endpoint ends the response by itself.
EndsResponse(event) == event.type \in {"done", "cancelled", "__close__"}

(* The generator sends the next event; the sentinel is not sent.           *)
Send(k) ==
  /\ stream[k].at \in {"live", "replay"}
  /\ stream[k].next # <<>>
  /\ LET event == Head(stream[k].next) IN
       stream' = [stream EXCEPT
         ![k].next = IF EndsResponse(event) THEN <<>> ELSE Tail(@),
         ![k].sent = IF event.type = "__close__" THEN @ ELSE Append(@, event),
         ![k].at   = IF EndsResponse(event) THEN "over" ELSE @]
  /\ UNCHANGED <<status, pages, final, queue, running, cancelled, accepted, stopping>>

(* The client goes away; the generator is closed and unsubscribed.         *)
Disconnect(k) ==
  /\ stream[k].at \in {"live", "replay"}
  /\ stream' = [stream EXCEPT ![k].at = "gone", ![k].next = <<>>]
  /\ UNCHANGED <<status, pages, final, queue, running, cancelled, accepted, stopping>>

Work(w) == (\E buildable \in BOOLEAN : Take(w, buildable)) \/ EngineDone(w) \/ EngineFails(w)

Next ==
  \/ \E j \in Jobs : Submit(j) \/ \E how \in {"soft", "hard"} : RequestCancel(j, how)
  \/ \E w \in Workers : Work(w) \/ PageOut(w)
  \/ Stop
  \/ \E k \in Streams : (\E j \in Jobs : Subscribe(k, j)) \/ Send(k) \/ Disconnect(k)

Spec == Init /\ [][Next]_vars

(* Workers run whenever they can and an engine ends at the latest at the   *)
(* job's timeout; a client that stays reads its stream.                    *)
Fairness ==
  /\ \A w \in Workers : WF_vars(Work(w))
  /\ \A k \in Streams : WF_vars(Send(k))

FairSpec == Spec /\ Fairness

-----------------------------------------------------------------------------
(* A job that has ended never gets another status: no cancel, timeout or   *)
(* late worker changes what a client was told.                             *)
SettledStays == [][\A j \in Jobs : status[j] \in Terminal => status'[j] = status[j]]_vars

(* A job shows as running exactly while an engine is registered for it,    *)
(* and one worker runs it: a cancel always finds the one that can stop.    *)
RunningHasEngine ==
  \A j \in Jobs :
    Cardinality({w \in Workers : running[w] = j}) = IF status[j] = "running" THEN 1 ELSE 0

(* A cancel that was answered with True is honoured: the job does not end  *)
(* as done, even when its last page came out meanwhile.                    *)
CancelHonoured == \A j \in accepted : status[j] # "done"

\* What the record of a job amounts to as events: its pages, in order, and
\* its end once it has ended.
Recorded(j) == <<Event("stats")>> \o [n \in 1..pages[j] |-> PageEvent(n)]
EndOf(j) == Event(IF status[j] = "cancelled" THEN "cancelled" ELSE "done")

(* A stream that is still connected carries, sent or about to be sent,     *)
(* every page of the record exactly once and in order, wherever in the     *)
(* crawl it was opened; the final event comes once, after the last page,   *)
(* if and only if the job has ended, and says how the record says it did.  *)
StreamComplete ==
  \A k \in Streams : stream[k].at \in {"live", "replay", "over"} =>
    LET j == stream[k].job IN
    stream[k].sent \o stream[k].next =
      Recorded(j) \o (IF status[j] \notin Terminal THEN <<>>
                      ELSE IF stream[k].at = "over" THEN <<EndOf(j)>>
                      ELSE <<EndOf(j), Event("__close__")>>)

(* A submitted job ends, unless the service shuts down first.              *)
JobsSettle == \A j \in Jobs : status[j] = "queued" ~> status[j] \in Terminal \/ stopping

(* A client that stays connected is told the end, unless the service shuts *)
(* down first.                                                             *)
StreamsEnd == \A k \in Streams : stream[k].at = "live" ~> stream[k].at \in {"over", "gone"} \/ stopping
=============================================================================
