----------------------------- MODULE ScrapeJob -----------------------------
(***************************************************************************)
(* What the scrape API promises a client about a job, with no queue, no    *)
(* workers and no Redis: a job is accepted, runs, gets each page's slot    *)
(* filled once, ends done or cancelled, stays so until its keys expire.    *)
(* ScrapeQueue implements it.                                              *)
(***************************************************************************)
EXTENDS Integers

CONSTANTS Jobs, MaxPages, Partial  \* Partial: may a cancelled job keep empty slots?

Pages == 0 .. MaxPages - 1
Active == {"queued", "running"}
Terminal == {"done", "cancelled"}
Result == {"ok", "error"}

VARIABLES status, total, slot
vars == <<status, total, slot>>

Empty(j) == {p \in 0 .. total[j] - 1 : slot[j][p] = "empty"}

Init ==
  /\ status = [j \in Jobs |-> "absent"]
  /\ total = [j \in Jobs |-> 0]
  /\ slot = [j \in Jobs |-> [p \in Pages |-> "empty"]]

\* The batch is stored, queued; an empty one is done at once.
Create(j) ==
  /\ status[j] = "absent"
  /\ \E n \in 0 .. MaxPages :
       /\ total' = [total EXCEPT ![j] = n]
       /\ status' = [status EXCEPT ![j] = IF n = 0 THEN "done" ELSE "queued"]
  /\ UNCHANGED slot

Run(j) ==
  /\ status[j] = "queued"
  /\ status' = [status EXCEPT ![j] = "running"]
  /\ UNCHANGED <<total, slot>>

\* A page of a running job finishes; the last one finishes the job.
Finish(j) ==
  /\ status[j] = "running"
  /\ \E p \in Empty(j), r \in Result :
       /\ slot' = [slot EXCEPT ![j][p] = r]
       /\ status' = [status EXCEPT ![j] = IF Empty(j) = {p} THEN "done" ELSE @]
  /\ UNCHANGED total

\* At-least-once delivery: a page may finish again, with another result, and
\* a page in flight when its job was cancelled replaces what cancel left.
FinishAgain(j) ==
  /\ status[j] \in Active \cup Terminal
  /\ \E p \in 0 .. total[j] - 1, r \in Result :
       /\ slot[j][p] # "empty" \/ status[j] = "cancelled"
       /\ slot' = [slot EXCEPT ![j][p] = r]
  /\ UNCHANGED <<status, total>>

\* Cancelling fills the empty slots with stubs and keeps every result.
Cancel(j) ==
  /\ status[j] \in Active
  /\ \E S \in SUBSET Empty(j) :
       /\ Partial \/ S = Empty(j)
       /\ slot' = [slot EXCEPT ![j] =
                     [p \in Pages |-> IF p \in S THEN "stub" ELSE slot[j][p]]]
  /\ status' = [status EXCEPT ![j] = "cancelled"]
  /\ UNCHANGED total

\* The job's keys expire.
Forget(j) ==
  /\ status[j] \in Active \cup Terminal
  /\ status' = [status EXCEPT ![j] = "expired"]
  /\ slot' = [slot EXCEPT ![j] = [p \in Pages |-> "empty"]]
  /\ UNCHANGED total

Next == \E j \in Jobs : \/ Create(j) \/ Run(j) \/ Finish(j) \/ FinishAgain(j)
                        \/ Cancel(j) \/ Forget(j)

Spec == Init /\ [][Next]_vars
=============================================================================
