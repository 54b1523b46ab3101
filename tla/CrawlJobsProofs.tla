-------------------------- MODULE CrawlJobsProofs --------------------------
(***************************************************************************)
(* What CrawlJobs promises to a client, for every number of jobs, workers, *)
(* streams and every queue length.                                         *)
(***************************************************************************)
EXTENDS CrawlJobs, FiniteSetTheorems, SequenceTheorems, TLAPS

Typed ==
  /\ status \in [Jobs -> Statuses]
  /\ running \in [Workers -> Jobs \cup {NoJob}]
  /\ cancelled \in [Jobs -> {"no", "soft", "hard"}]
  /\ queue \in Seq(Jobs)
  /\ accepted \subseteq Jobs

\* What waits in the queue waits once, and nobody has run it.
QueueFresh ==
  /\ \A i \in 1..Len(queue) : status[queue[i]] \in {"queued", "cancelled"}
  /\ \A i, k \in 1..Len(queue) : queue[i] = queue[k] => i = k

\* Engines and running jobs are in one-to-one correspondence.
EngineOfJob ==
  /\ \A w \in Workers : running[w] # NoJob => status[running[w]] = "running"
  /\ \A w, v \in Workers : running[w] = running[v] /\ running[w] # NoJob => w = v
  /\ \A j \in Jobs : status[j] = "running" => \E w \in Workers : running[w] = j

\* An accepted cancel has taken effect or is known to the engine.
CancelPending ==
  \A j \in accepted : \/ status[j] \in {"cancelled", "failed"}
                      \/ status[j] = "running" /\ cancelled[j] # "no"

JobsInv == Typed /\ QueueFresh /\ EngineOfJob /\ CancelPending

Frozen(j) == status[j] \in Terminal => status'[j] = status[j]

LEMMA JobsInit == Init => JobsInv
  BY JobsAssumption DEF Init, JobsInv, Typed, QueueFresh, EngineOfJob, CancelPending, Statuses

LEMMA SubmitInv ==
  ASSUME JobsInv, NEW j \in Jobs, Submit(j)
  PROVE  JobsInv' /\ \A i \in Jobs : Frozen(i)
  <1> USE DEF JobsInv
  <1>1. /\ status[j] = "none"
        /\ running' = running /\ cancelled' = cancelled /\ accepted' = accepted
        /\ \/ queue' = Append(queue, j) /\ status' = [status EXCEPT ![j] = "queued"]
           \/ queue' = queue /\ status' = [status EXCEPT ![j] = "failed"]
    BY DEF Submit
  <1>2. \A i \in 1..Len(queue) : queue[i] \in Jobs /\ queue[i] # j
    BY <1>1 DEF QueueFresh, Typed
  <1>3. Typed'
    <2>1. queue' \in Seq(Jobs)
      BY <1>1 DEF Typed
    <2>2. status' \in [Jobs -> Statuses]
      BY <1>1 DEF Typed, Statuses, Terminal
    <2> QED
      BY <1>1, <2>1, <2>2 DEF Typed
  <1>4. QueueFresh'
    <2>1. CASE queue' = queue /\ status' = [status EXCEPT ![j] = "failed"]
      BY <1>2, <2>1 DEF QueueFresh, Typed
    <2>2. CASE queue' = Append(queue, j) /\ status' = [status EXCEPT ![j] = "queued"]
      <3>1. /\ Len(queue') = Len(queue) + 1 /\ Len(queue) \in Nat
            /\ queue'[Len(queue) + 1] = j
            /\ \A i \in 1..Len(queue) : queue'[i] = queue[i]
        BY <2>2 DEF Typed
      <3>2. \A i \in 1..Len(queue') : i \in 1..Len(queue) \/ i = Len(queue) + 1
        BY <3>1
      <3>3. \A i \in 1..Len(queue) : status'[queue[i]] = status[queue[i]]
        BY <1>2, <2>2 DEF Typed
      <3>4. status'[j] = "queued"
        BY <2>2 DEF Typed
      <3> QED
        BY <1>2, <3>1, <3>2, <3>3, <3>4 DEF QueueFresh
    <2> QED
      BY <1>1, <2>1, <2>2
  <1>5. EngineOfJob'
    BY <1>1, JobsAssumption DEF EngineOfJob, Typed
  <1>6. CancelPending'
    BY <1>1 DEF CancelPending, Typed
  <1>7. \A i \in Jobs : Frozen(i)
    BY <1>1 DEF Frozen, Terminal, Typed
  <1> QED
    BY <1>3, <1>4, <1>5, <1>6, <1>7

LEMMA RequestCancelInv ==
  ASSUME JobsInv, NEW j \in Jobs, NEW how \in {"soft", "hard"}, RequestCancel(j, how)
  PROVE  JobsInv' /\ \A i \in Jobs : Frozen(i)
  <1> USE DEF JobsInv
  <1>0. queue' = queue /\ running' = running /\ accepted' = accepted \cup {j}
    BY DEF RequestCancel
  <1>1. CASE j \in Engines
    <2>1. /\ status' = status
          /\ \E c \in {"soft", "hard"} : cancelled' = [cancelled EXCEPT ![j] = c]
      BY <1>1 DEF RequestCancel
    <2>2. status[j] = "running"
      BY <1>1 DEF Engines, EngineOfJob
    <2> QED
      BY <1>0, <2>1, <2>2 DEF Typed, QueueFresh, EngineOfJob, CancelPending, Frozen
  <1>2. CASE j \notin Engines
    <2>1. /\ status[j] \in {"queued", "running"}
          /\ status' = [status EXCEPT ![j] = "cancelled"]
          /\ cancelled' = cancelled
      BY <1>2 DEF RequestCancel, Settle
    <2>2. \A w \in Workers : running[w] # j
      BY <1>2, JobsAssumption DEF Engines
    <2>3. Typed'
      BY <1>0, <2>1 DEF Typed, Statuses, Terminal
    <2>4. QueueFresh'
      BY <1>0, <2>1 DEF QueueFresh, Typed
    <2>5. EngineOfJob'
      BY <1>0, <2>1, <2>2 DEF EngineOfJob, Typed
    <2>6. CancelPending'
      BY <1>0, <2>1 DEF CancelPending, Typed
    <2>7. \A i \in Jobs : Frozen(i)
      BY <2>1 DEF Frozen, Terminal, Typed
    <2> QED
      BY <2>3, <2>4, <2>5, <2>6, <2>7
  <1> QED
    BY <1>1, <1>2

LEMMA TakeInv ==
  ASSUME JobsInv, NEW w \in Workers, NEW buildable \in BOOLEAN, Take(w, buildable)
  PROVE  JobsInv' /\ \A i \in Jobs : Frozen(i)
  <1> USE DEF JobsInv
  <1> PICK j \in Jobs : j = Head(queue)
    BY DEF Take, Typed
  <1>1. /\ running[w] = NoJob /\ queue # <<>> /\ queue' = Tail(queue)
        /\ cancelled' = cancelled /\ accepted' = accepted
    BY DEF Take
  <1>2. \/ status' = status /\ running' = running
        \/ /\ status[j] # "cancelled" /\ status' = [status EXCEPT ![j] = "running"]
           /\ running' = [running EXCEPT ![w] = j]
        \/ /\ status[j] # "cancelled" /\ status' = [status EXCEPT ![j] = "failed"]
           /\ running' = running
    BY DEF Take, Settle
  <1>3. /\ status[j] \in {"queued", "cancelled"}
        /\ \A i \in 1..Len(queue') : queue'[i] = queue[i + 1] /\ queue'[i] \in Jobs
        /\ Len(queue') = Len(queue) - 1
        /\ \A i \in 1..Len(queue') : queue'[i] # j
        /\ queue' \in Seq(Jobs)
    <2>1. j = queue[1] /\ 1 \in 1..Len(queue)
      BY <1>1 DEF Typed
    <2>2. /\ \A i \in 1..Len(queue') : queue'[i] = queue[i + 1] /\ queue'[i] \in Jobs
          /\ Len(queue') = Len(queue) - 1
          /\ queue' \in Seq(Jobs)
      BY <1>1 DEF Typed
    <2> QED
      BY <2>1, <2>2 DEF QueueFresh, Typed
  <1>4. \A v \in Workers : running[v] # j
    BY <1>3, JobsAssumption DEF EngineOfJob
  <1>5. Typed'
    <2>1. status' \in [Jobs -> Statuses]
      BY <1>2 DEF Typed, Statuses, Terminal
    <2>2. running' \in [Workers -> Jobs \cup {NoJob}]
      BY <1>2 DEF Typed
    <2> QED
      BY <1>1, <1>3, <2>1, <2>2 DEF Typed
  <1>6. \A i \in 1..Len(queue') : status'[queue'[i]] = status[queue'[i]]
    BY <1>2, <1>3 DEF Typed
  <1>7. QueueFresh'
    <2>1. \A i \in 1..Len(queue') : i + 1 \in 1..Len(queue)
      BY <1>3 DEF Typed
    <2>2. ASSUME NEW i \in 1..Len(queue')
          PROVE  status'[queue'[i]] \in {"queued", "cancelled"}
      <3>1. status[queue[i + 1]] \in {"queued", "cancelled"}
        BY <2>1 DEF QueueFresh
      <3>2. queue'[i] = queue[i + 1]
        BY <1>3
      <3> QED
        BY <1>6, <3>1, <3>2
    <2>3. ASSUME NEW i \in 1..Len(queue'), NEW k \in 1..Len(queue'), queue'[i] = queue'[k]
          PROVE  i = k
      <3>1. queue[i + 1] = queue[k + 1]
        BY <1>3, <2>3
      <3>2. i + 1 = k + 1
        BY <2>1, <3>1 DEF QueueFresh
      <3> QED
        BY <3>2
    <2> QED
      BY <2>2, <2>3 DEF QueueFresh
  <1>8. EngineOfJob'
    BY <1>1, <1>2, <1>3, <1>4, JobsAssumption DEF EngineOfJob, Typed
  <1>9. CancelPending'
    BY <1>1, <1>2, <1>3 DEF CancelPending, Typed
  <1>10. \A i \in Jobs : Frozen(i)
    BY <1>2, <1>3 DEF Frozen, Terminal, Typed
  <1> QED
    BY <1>5, <1>7, <1>8, <1>9, <1>10

\* The engine of a running job ends: with a cancel pending, not as done.
LEMMA SettleInv ==
  ASSUME JobsInv, NEW w \in Workers, EngineDone(w) \/ EngineFails(w)
  PROVE  JobsInv' /\ \A i \in Jobs : Frozen(i)
  <1> USE DEF JobsInv
  <1>0. running[w] # NoJob
    BY DEF EngineDone, EngineFails
  <1> PICK j \in Jobs : j = running[w]
    BY <1>0 DEF Typed
  <1>1. status[j] = "running"
    BY <1>0 DEF EngineOfJob
  <1>2. /\ running' = [running EXCEPT ![w] = NoJob]
        /\ queue' = queue /\ cancelled' = cancelled /\ accepted' = accepted
    BY DEF EngineDone, EngineFails, Released
  <1>3. PICK outcome \in Terminal :
          /\ status' = [status EXCEPT ![j] = outcome]
          /\ cancelled[j] # "no" => outcome # "done"
    BY <1>1 DEF EngineDone, EngineFails, Settle, Terminal
  <1>4. Typed'
    BY <1>2, <1>3 DEF Typed, Statuses, Terminal
  <1>5. QueueFresh'
    BY <1>1, <1>2, <1>3 DEF QueueFresh, Typed
  <1>6. EngineOfJob'
    BY <1>0, <1>2, <1>3 DEF EngineOfJob, Typed, Terminal
  <1>7. CancelPending'
    BY <1>1, <1>2, <1>3 DEF CancelPending, Typed, Terminal
  <1>8. \A i \in Jobs : Frozen(i)
    BY <1>1, <1>3 DEF Frozen, Terminal, Typed
  <1> QED
    BY <1>4, <1>5, <1>6, <1>7, <1>8

LEMMA StopInv == ASSUME JobsInv, Stop PROVE JobsInv' /\ \A i \in Jobs : Frozen(i)
  <1> USE DEF JobsInv
  <1>1. /\ status' = [j \in Jobs |-> IF j \in Engines THEN "cancelled" ELSE status[j]]
        /\ running' = [w \in Workers |-> NoJob]
        /\ queue' = queue /\ cancelled' = cancelled /\ accepted' = accepted
    BY DEF Stop
  <1>2. \A j \in Engines : status[j] = "running"
    BY DEF Engines, EngineOfJob
  <1>3. \A j \in Jobs : status[j] = "running" => j \in Engines
    BY JobsAssumption DEF Engines, EngineOfJob
  <1>4. Typed'
    BY <1>1 DEF Typed, Statuses, Terminal
  <1>5. QueueFresh'
    BY <1>1, <1>2 DEF QueueFresh, Typed
  <1>6. EngineOfJob'
    BY <1>1, <1>3 DEF EngineOfJob
  <1>7. CancelPending'
    BY <1>1, <1>3 DEF CancelPending, Typed
  <1>8. \A i \in Jobs : Frozen(i)
    BY <1>1, <1>2 DEF Frozen, Terminal
  <1> QED
    BY <1>4, <1>5, <1>6, <1>7, <1>8

\* One step keeps the invariant and every ended job as it is.
LEMMA JobsStep == JobsInv /\ [Next]_vars => JobsInv' /\ \A i \in Jobs : Frozen(i)
  <1> SUFFICES ASSUME JobsInv, [Next]_vars PROVE JobsInv' /\ \A i \in Jobs : Frozen(i)
    OBVIOUS
  <1>1. ASSUME UNCHANGED <<status, queue, running, cancelled, accepted>>
        PROVE  JobsInv' /\ \A i \in Jobs : Frozen(i)
    BY <1>1 DEF JobsInv, Typed, QueueFresh, EngineOfJob, CancelPending, Frozen
  <1>2. ASSUME NEW w \in Workers, Work(w) \/ PageOut(w)
        PROVE  JobsInv' /\ \A i \in Jobs : Frozen(i)
    <2>1. CASE Work(w)
      BY <2>1, TakeInv, SettleInv DEF Work
    <2>2. CASE PageOut(w)
      BY <2>2, <1>1 DEF PageOut
    <2> QED
      BY <1>2, <2>1, <2>2
  <1>3. ASSUME NEW j \in Jobs, Submit(j) \/ \E how \in {"soft", "hard"} : RequestCancel(j, how)
        PROVE  JobsInv' /\ \A i \in Jobs : Frozen(i)
    BY <1>3, SubmitInv, RequestCancelInv
  <1>4. ASSUME NEW k \in Streams,
               (\E j \in Jobs : Subscribe(k, j)) \/ Send(k) \/ Disconnect(k)
        PROVE  JobsInv' /\ \A i \in Jobs : Frozen(i)
    BY <1>4, <1>1 DEF Subscribe, Send, Disconnect
  <1>5. CASE UNCHANGED vars
    BY <1>5, <1>1 DEF vars
  <1> QED
    BY <1>2, <1>3, <1>4, <1>5, StopInv DEF Next

LEMMA JobsInvariant == Spec => []JobsInv
  BY JobsInit, JobsStep, PTL DEF Spec

\* No cancel, timeout or late worker changes the status of an ended job.
THEOREM EndedStaysEnded == Spec => SettledStays
  <1>1. JobsInv /\ [Next]_vars
          => [\A j \in Jobs : status[j] \in Terminal => status'[j] = status[j]]_vars
    BY JobsStep DEF Frozen
  <1> QED
    BY <1>1, JobsInvariant, PTL DEF Spec, SettledStays

\* A cancel answered with True never ends as a finished crawl.
THEOREM CancelIsHonoured == Spec => []CancelHonoured
  <1>1. JobsInv => CancelHonoured
    BY DEF JobsInv, CancelPending, CancelHonoured
  <1> QED
    BY <1>1, JobsInvariant, PTL

\* A running job has exactly one engine, an ended or waiting one has none.
THEOREM OneEnginePerRunningJob == Spec => []RunningHasEngine
  <1>1. ASSUME JobsInv, NEW j \in Jobs
        PROVE  Cardinality({w \in Workers : running[w] = j})
                 = IF status[j] = "running" THEN 1 ELSE 0
    <2>1. CASE status[j] = "running"
      <3>1. PICK w \in Workers : running[w] = j
        BY <1>1, <2>1 DEF JobsInv, EngineOfJob
      <3>2. {v \in Workers : running[v] = j} = {w}
        BY <1>1, <3>1, JobsAssumption DEF JobsInv, EngineOfJob
      <3> QED
        BY <2>1, <3>2, FS_Singleton
    <2>2. CASE status[j] # "running"
      <3>1. {v \in Workers : running[v] = j} = {}
        BY <1>1, <2>2, JobsAssumption DEF JobsInv, EngineOfJob
      <3> QED
        BY <2>2, <3>1, FS_EmptySet
    <2> QED
      BY <2>1, <2>2
  <1>2. JobsInv => RunningHasEngine
    BY <1>1 DEF RunningHasEngine
  <1> QED
    BY <1>2, JobsInvariant, PTL

-----------------------------------------------------------------------------
(* Completeness of streams. What a stream was sent and what it is about to *)
(* be sent are one sequence; the facts besides StreamComplete say that a   *)
(* generator stops at the first final event, that the remembered event     *)
(* agrees with the record, and that only a running job has more pages.     *)
Word == [type : Terminal \cup {"page", "stats", "__close__"}, n : Nat]
All(k) == stream[k].sent \o stream[k].next
Connected(k) == stream[k].at \in {"live", "replay", "over"}

Closing(k) ==
  LET j == stream[k].job IN
  IF status[j] \notin Terminal THEN <<>>
  ELSE IF stream[k].at = "over" THEN <<EndOf(j)>>
  ELSE <<EndOf(j), Event("__close__")>>

StreamTyped(k) ==
  stream[k] \in [job : Jobs \cup {NoJob}, at : {"none", "live", "replay", "over", "gone"},
                 next : Seq(Word), sent : Seq(Word)]

StreamTold(k) ==
  /\ StreamTyped(k)
  /\ Connected(k) =>
       /\ stream[k].job \in Jobs
       /\ status[stream[k].job] # "none"
       /\ stream[k].at # "live" => status[stream[k].job] \in Terminal
       /\ stream[k].at # "over" => Len(stream[k].sent) <= pages[stream[k].job] + 1
       /\ All(k) = Recorded(stream[k].job) \o Closing(k)

RecordTold(j) ==
  /\ pages[j] \in Nat
  /\ status[j] \in Terminal => FinalEvent(j) = EndOf(j)
  /\ status[j] \notin Terminal => final[j] = "none"

Told ==
  /\ pages \in [Jobs -> Nat] /\ final \in [Jobs -> {"none", "done", "cancelled"}]
  /\ stream = [k \in Streams |-> stream[k]]
  /\ \A j \in Jobs : RecordTold(j)
  /\ \A k \in Streams : StreamTold(k)

LEMMA Words ==
  /\ \A t \in Terminal \cup {"stats", "__close__"} : Event(t) \in Word
  /\ \A n \in Nat : PageEvent(n) \in Word
  /\ \A j : EndOf(j) \in Word /\ EndsResponse(EndOf(j))
  /\ ~EndsResponse(Event("stats")) /\ EndsResponse(Event("__close__"))
  /\ \A n \in Nat : ~EndsResponse(PageEvent(n))
  BY DEF Word, Event, PageEvent, EndOf, EndsResponse, Terminal

LEMMA RecordedWords ==
  ASSUME NEW j \in Jobs, pages[j] \in Nat
  PROVE  /\ Recorded(j) \in Seq(Word) /\ Len(Recorded(j)) = pages[j] + 1
         /\ \A i \in 1..pages[j] + 1 :
              Recorded(j)[i] = IF i = 1 THEN Event("stats") ELSE PageEvent(i - 1)
  <1> DEFINE P == [n \in 1..pages[j] |-> PageEvent(n)]
  <1>1. P \in Seq(Word) /\ Len(P) = pages[j] /\ \A i \in 1..pages[j] : P[i] = PageEvent(i)
    <2>1. P \in [1..pages[j] -> Word]
      BY Words
    <2>2. P \in Seq(Word)
      BY <2>1, SeqDef
    <2>3. Len(P) = pages[j]
      BY <2>1, <2>2, LenProperties
    <2> QED
      BY <2>2, <2>3
  <1>2. <<Event("stats")>> \in Seq(Word) /\ Len(<<Event("stats")>>) = 1 /\ <<Event("stats")>>[1] = Event("stats")
    BY Words
  <1> HIDE DEF P
  <1>3. Recorded(j) = <<Event("stats")>> \o P
    BY DEF Recorded, P
  <1>4. /\ <<Event("stats")>> \o P \in Seq(Word)
        /\ Len(<<Event("stats")>> \o P) = 1 + pages[j]
        /\ \A i \in 1..1 + pages[j] : (<<Event("stats")>> \o P)[i] =
             IF i <= 1 THEN <<Event("stats")>>[i] ELSE P[i - 1]
    BY <1>1, <1>2, ConcatProperties
  <1> QED
    BY <1>1, <1>2, <1>3, <1>4

LEMMA RecordedGrows ==
  ASSUME NEW j \in Jobs, pages[j] \in Nat, pages'[j] = pages[j] + 1
  PROVE  Recorded(j)' = Recorded(j) \o <<PageEvent(pages[j] + 1)>>
  <1>1. /\ Recorded(j) \in Seq(Word) /\ Len(Recorded(j)) = pages[j] + 1
        /\ \A i \in 1..pages[j] + 1 :
              Recorded(j)[i] = IF i = 1 THEN Event("stats") ELSE PageEvent(i - 1)
    BY RecordedWords
  <1>2. /\ Recorded(j)' \in Seq(Word) /\ Len(Recorded(j)') = pages[j] + 2
        /\ \A i \in 1..pages[j] + 2 :
              Recorded(j)'[i] = IF i = 1 THEN Event("stats") ELSE PageEvent(i - 1)
    <2> DEFINE Q == [n \in 1..pages'[j] |-> PageEvent(n)]
    <2>1. Q \in Seq(Word) /\ Len(Q) = pages[j] + 1 /\ \A i \in 1..pages[j] + 1 : Q[i] = PageEvent(i)
      <3>1. Q \in [1..pages[j] + 1 -> Word]
        BY Words
      <3>2. Q \in Seq(Word)
        BY <3>1, SeqDef
      <3>3. Len(Q) = pages[j] + 1
        BY <3>1, <3>2, LenProperties
      <3> QED
        BY <3>2, <3>3
    <2>2. <<Event("stats")>> \in Seq(Word) /\ Len(<<Event("stats")>>) = 1 /\ <<Event("stats")>>[1] = Event("stats")
      BY Words
    <2> HIDE DEF Q
    <2>3. Recorded(j)' = <<Event("stats")>> \o Q
      BY DEF Recorded, Q
    <2>4. /\ <<Event("stats")>> \o Q \in Seq(Word)
          /\ Len(<<Event("stats")>> \o Q) = 1 + (pages[j] + 1)
          /\ \A i \in 1..1 + (pages[j] + 1) : (<<Event("stats")>> \o Q)[i] =
               IF i <= 1 THEN <<Event("stats")>>[i] ELSE Q[i - 1]
      BY <2>1, <2>2, ConcatProperties
    <2> QED
      BY <2>1, <2>2, <2>3, <2>4
  <1> DEFINE e == PageEvent(pages[j] + 1)
  <1>3. <<e>> \in Seq(Word) /\ Len(<<e>>) = 1 /\ <<e>>[1] = e
    BY Words
  <1>4. /\ Recorded(j) \o <<e>> \in Seq(Word)
        /\ Len(Recorded(j) \o <<e>>) = pages[j] + 2
        /\ \A i \in 1..pages[j] + 2 : (Recorded(j) \o <<e>>)[i] =
             IF i <= pages[j] + 1 THEN Recorded(j)[i] ELSE <<e>>[i - (pages[j] + 1)]
    BY <1>1, <1>3, ConcatProperties
  <1>5. \A i \in 1..pages[j] + 2 : (Recorded(j) \o <<e>>)[i] = Recorded(j)'[i]
    BY <1>1, <1>2, <1>3, <1>4
  <1> QED
    BY <1>2, <1>4, <1>5, SeqEqual

\* A generator moves an event from what is to come to what was sent.
LEMMA SentMoves ==
  ASSUME NEW a \in Seq(Word), NEW b \in Seq(Word), b # <<>>
  PROVE  /\ Append(a, Head(b)) \in Seq(Word) /\ Tail(b) \in Seq(Word)
         /\ Append(a, Head(b)) \o Tail(b) = a \o b
         /\ Len(a) + 1 <= Len(a \o b) /\ (a \o b)[Len(a) + 1] = Head(b)
  <1>1. /\ Head(b) \in Word /\ Tail(b) \in Seq(Word) /\ Len(Tail(b)) = Len(b) - 1
        /\ \A i \in 1..Len(Tail(b)) : Tail(b)[i] = b[i + 1]
        /\ Len(a) \in Nat /\ Len(b) \in Nat /\ Len(b) >= 1 /\ Head(b) = b[1]
    BY HeadTailProperties, EmptySeq, LenProperties
  <1> DEFINE c == Append(a, Head(b))
  <1>2. /\ c \in Seq(Word) /\ Len(c) = Len(a) + 1
        /\ \A i \in 1..Len(a) : c[i] = a[i]
        /\ c[Len(a) + 1] = b[1]
    BY <1>1, AppendProperties
  <1> HIDE DEF c
  <1>3. /\ a \o b \in Seq(Word) /\ Len(a \o b) = Len(a) + Len(b)
        /\ \A i \in 1..Len(a) + Len(b) : (a \o b)[i] = IF i <= Len(a) THEN a[i] ELSE b[i - Len(a)]
    BY ConcatProperties
  <1>4. /\ c \o Tail(b) \in Seq(Word) /\ Len(c \o Tail(b)) = Len(c) + Len(Tail(b))
        /\ \A i \in 1..Len(c) + Len(Tail(b)) :
             (c \o Tail(b))[i] = IF i <= Len(c) THEN c[i] ELSE Tail(b)[i - Len(c)]
    BY <1>1, <1>2, ConcatProperties
  <1>5. Len(c \o Tail(b)) = Len(a \o b)
    BY <1>1, <1>2, <1>3, <1>4
  <1>6. \A i \in 1..Len(c \o Tail(b)) : (c \o Tail(b))[i] = (a \o b)[i]
    <2> SUFFICES ASSUME NEW i \in 1..Len(a) + Len(b) PROVE (c \o Tail(b))[i] = (a \o b)[i]
      BY <1>3, <1>5
    <2>1. CASE i <= Len(a)
      BY <1>1, <1>2, <1>3, <1>4, <2>1
    <2>2. CASE i = Len(a) + 1
      BY <1>1, <1>2, <1>3, <1>4, <2>2
    <2>3. CASE i > Len(a) + 1
      <3>1. i - Len(c) \in 1..Len(Tail(b))
        BY <1>1, <1>2, <2>3
      <3>2. Tail(b)[i - Len(c)] = b[i - Len(c) + 1]
        BY <1>1, <3>1
      <3> QED
        BY <1>1, <1>2, <1>3, <1>4, <2>3, <3>2
    <2>4. i <= Len(a) \/ i = Len(a) + 1 \/ i > Len(a) + 1
      BY <1>1
    <2> QED
      BY <2>1, <2>2, <2>3, <2>4
  <1>7. c \o Tail(b) = a \o b
    BY <1>3, <1>4, <1>5, <1>6, SeqEqual
  <1> QED
    BY <1>1, <1>2, <1>3, <1>7 DEF c

LEMMA Association ==
  ASSUME NEW a \in Seq(Word), NEW b \in Seq(Word), NEW c \in Seq(Word)
  PROVE  (a \o b) \o c = a \o (b \o c)
  <1> DEFINE S == Word
  <1>1. a \in Seq(S) /\ b \in Seq(S) /\ c \in Seq(S)
    OBVIOUS
  <1> HIDE DEF S
  <1> QED
    BY <1>1, ConcatAssociative

\* An event published to a stream comes after all that it has.
LEMMA Extended ==
  ASSUME NEW k \in Streams, StreamTyped(k), NEW events \in Seq(Word),
         stream'[k] = [stream[k] EXCEPT !.next = @ \o events]
  PROVE  /\ StreamTyped(k)' /\ All(k)' = All(k) \o events
         /\ stream'[k].at = stream[k].at /\ stream'[k].job = stream[k].job
         /\ stream'[k].sent = stream[k].sent
  <1>1. stream[k].sent \in Seq(Word) /\ stream[k].next \in Seq(Word)
    BY DEF StreamTyped
  <1>2. stream[k].next \o events \in Seq(Word)
    BY <1>1, ConcatProperties
  <1>3. /\ stream'[k].next = stream[k].next \o events /\ stream'[k].sent = stream[k].sent
        /\ stream'[k].at = stream[k].at /\ stream'[k].job = stream[k].job
    BY DEF StreamTyped
  <1>4. StreamTyped(k)'
    BY <1>2 DEF StreamTyped
  <1>5. All(k)' = All(k) \o events
    <2>1. All(k)' = stream[k].sent \o (stream[k].next \o events)
      BY <1>3 DEF All
    <2>2. (stream[k].sent \o stream[k].next) \o events = stream[k].sent \o (stream[k].next \o events)
      BY <1>1, Association
    <2> QED
      BY <2>1, <2>2 DEF All
  <1> QED
    BY <1>3, <1>4, <1>5

\* A stream to which nothing happens, while its job's record stays.
LEMMA StreamRests ==
  ASSUME NEW k \in Streams, StreamTold(k), stream'[k] = stream[k],
         Connected(k) => LET j == stream[k].job IN
           pages'[j] = pages[j] /\ status'[j] # "none"
           /\ (status'[j] = status[j] \/ (status[j] \notin Terminal /\ status'[j] \notin Terminal))
  PROVE  StreamTold(k)'
  <1>1. StreamTyped(k)' /\ All(k)' = All(k) /\ (Connected(k)' <=> Connected(k))
    BY DEF StreamTold, StreamTyped, All, Connected
  <1>2. ASSUME Connected(k)
        PROVE  LET j == stream[k].job IN Recorded(j)' = Recorded(j) /\ Closing(k)' = Closing(k)
    BY <1>2 DEF Recorded, Closing, EndOf
  <1> QED
    BY <1>1, <1>2 DEF StreamTold

\* A job that ends says so to every stream that listens.
LEMMA StreamEnds ==
  ASSUME NEW k \in Streams, StreamTold(k), NEW j \in Jobs, RecordTold(j),
         status[j] \notin Terminal, status'[j] \in Terminal,
         pages'[j] = pages[j],
         stream[k].job = j,
         stream'[k] = IF stream[k].at = "live"
                      THEN [stream[k] EXCEPT !.next = @ \o <<EndOf(j)', Event("__close__")>>] ELSE stream[k]
  PROVE  StreamTold(k)'
  <1>1. CASE stream[k].at = "live"
    <2> DEFINE e == <<EndOf(j)', Event("__close__")>>
    <2>1. e \in Seq(Word)
      BY Words DEF EndOf, Event, Word, Terminal
    <2>2. stream'[k] = [stream[k] EXCEPT !.next = @ \o e]
      BY <1>1
    <2>3. StreamTyped(k)
      BY DEF StreamTold
    <2> HIDE DEF e
    <2>4. /\ StreamTyped(k)' /\ All(k)' = All(k) \o e
          /\ stream'[k].at = "live" /\ stream'[k].job = j
          /\ stream'[k].sent = stream[k].sent
      BY <1>1, <2>1, <2>2, <2>3, Extended
    <2>5. Connected(k) /\ Connected(k)'
      BY <1>1, <2>4 DEF Connected
    <2>6. All(k) = Recorded(j) \o <<>>
      BY <2>5 DEF StreamTold, Closing
    <2>7. All(k) = Recorded(j) /\ Recorded(j) = Recorded(j)'
      BY <2>6, RecordedWords, ConcatEmptySeq DEF RecordTold, Recorded
    <2>8. Closing(k)' = e
      BY <2>4 DEF Closing, e
    <2>9. All(k)' = Recorded(j)' \o Closing(k)'
      BY <2>4, <2>7, <2>8
    <2>10. status'[j] # "none" /\ Len(stream'[k].sent) <= pages'[j] + 1
      BY <1>1, <2>4, <2>5 DEF StreamTold, Terminal
    <2> QED
      BY <2>4, <2>5, <2>9, <2>10 DEF StreamTold
  <1>2. CASE stream[k].at # "live"
    <2>1. ~Connected(k)
      BY <1>2 DEF StreamTold
    <2> QED
      BY <1>2, <2>1, StreamRests
  <1> QED
    BY <1>1, <1>2

\* Whatever is sent, the whole stays as it was; a final event is the last.
LEMMA SendTold ==
  ASSUME Told, NEW k \in Streams, Send(k)
  PROVE  Told'
  <1>1. /\ UNCHANGED <<status, pages, final>>
        /\ Connected(k) /\ stream[k].at # "over" /\ stream[k].next # <<>>
        /\ StreamTold(k)
    BY DEF Send, Connected, Told
  <1>j. PICK j \in Jobs : j = stream[k].job
    BY <1>1 DEF Told, StreamTold
  <1> DEFINE h == Head(stream[k].next)
             a == stream[k].sent
             b == stream[k].next
             n == Len(a) + 1
  <1>2. /\ RecordTold(j) /\ a \in Seq(Word) /\ b \in Seq(Word) /\ b # <<>>
        /\ Len(a) <= pages[j] + 1 /\ a \o b = Recorded(j) \o Closing(k)
    BY <1>1, <1>j DEF Told, StreamTold, StreamTyped, All
  <1>3. /\ Append(a, h) \in Seq(Word) /\ Tail(b) \in Seq(Word)
        /\ Append(a, h) \o Tail(b) = a \o b
        /\ n <= Len(a \o b) /\ (a \o b)[n] = h
    BY <1>2, SentMoves
  <1>4. /\ pages[j] \in Nat
        /\ Recorded(j) \in Seq(Word) /\ Len(Recorded(j)) = pages[j] + 1
        /\ \A i \in 1..pages[j] + 1 : Recorded(j)[i] \in Word /\ ~EndsResponse(Recorded(j)[i])
    <2>1. pages[j] \in Nat
      BY <1>2 DEF RecordTold
    <2>2. /\ Recorded(j) \in Seq(Word) /\ Len(Recorded(j)) = pages[j] + 1
          /\ \A i \in 1..pages[j] + 1 :
              Recorded(j)[i] = IF i = 1 THEN Event("stats") ELSE PageEvent(i - 1)
      BY <1>2, <2>1, RecordedWords
    <2>3. \A i \in 1..pages[j] + 1 : i = 1 \/ i - 1 \in Nat
      BY <2>1
    <2> QED
      BY <2>1, <2>2, <2>3, Words
  <1>5. Len(a) \in Nat /\ n \in Nat
    BY <1>2, LenProperties
  <1>6. /\ stream'[k] = [stream[k] EXCEPT
              !.next = IF EndsResponse(h) THEN <<>> ELSE Tail(b),
              !.sent = IF h.type = "__close__" THEN a ELSE Append(a, h),
              !.at   = IF EndsResponse(h) THEN "over" ELSE stream[k].at]
        /\ \A i \in Streams \ {k} : stream'[i] = stream[i]
        /\ stream' = [i \in Streams |-> stream'[i]]
    <2>1. stream = [i \in Streams |-> stream[i]]
      BY DEF Told
    <2>2. stream' = [stream EXCEPT
              ![k].next = IF EndsResponse(h) THEN <<>> ELSE Tail(@),
              ![k].sent = IF h.type = "__close__" THEN @ ELSE Append(@, h),
              ![k].at   = IF EndsResponse(h) THEN "over" ELSE @]
      BY DEF Send
    <2>3. \A i \in Streams \ {k} : stream'[i] = stream[i]
      BY <2>1, <2>2
    <2>4. stream' = [i \in Streams |-> stream'[i]]
      BY <2>1, <2>2
    <2>5. stream'[k] = [stream[k] EXCEPT
              !.next = IF EndsResponse(h) THEN <<>> ELSE Tail(b),
              !.sent = IF h.type = "__close__" THEN a ELSE Append(a, h),
              !.at   = IF EndsResponse(h) THEN "over" ELSE stream[k].at]
      BY <2>1, <2>2
    <2> QED
      BY <2>3, <2>4, <2>5
  <1>7. /\ Closing(k) \in Seq(Word)
        /\ Closing(k) # <<>> => /\ status[j] \in Terminal /\ Closing(k) = <<EndOf(j), Event("__close__")>>
                               /\ Closing(k)[1] = EndOf(j) /\ Len(Closing(k)) = 2
        /\ Closing(k) = <<>> => Len(Closing(k)) = 0
    BY <1>1, <1>j, Words DEF Closing
  <1>n. n = Len(a) + 1
    OBVIOUS
  <1> HIDE DEF h, a, b, n
  <1>8. /\ Len(a \o b) = pages[j] + 1 + Len(Closing(k))
        /\ \A i \in 1..pages[j] + 1 : (a \o b)[i] = Recorded(j)[i]
        /\ Closing(k) # <<>> => (a \o b)[pages[j] + 2] = Closing(k)[1]
    <2> DEFINE R == Recorded(j)
               C == Closing(k)
    <2>1. R \in Seq(Word) /\ C \in Seq(Word) /\ Len(R) = pages[j] + 1 /\ a \o b = R \o C /\ Len(C) \in Nat
          /\ (C # <<>> => Len(C) = 2)
      BY <1>2, <1>4, <1>7
    <2> HIDE DEF R, C
    <2>2. /\ Len(R \o C) = Len(R) + Len(C)
          /\ \A i \in 1..Len(R) + Len(C) : (R \o C)[i] = IF i <= Len(R) THEN R[i] ELSE C[i - Len(R)]
      BY <2>1, ConcatProperties
    <2>3. \A i \in 1..Len(R) : (R \o C)[i] = R[i]
      BY <1>4, <2>1, <2>2
    <2>4. ASSUME C # <<>> PROVE (R \o C)[Len(R) + 1] = C[1]
      <3>1. Len(R) + 1 \in 1..Len(R) + Len(C) /\ ~(Len(R) + 1 <= Len(R)) /\ (Len(R) + 1) - Len(R) = 1
        BY <1>4, <2>1, <2>4
      <3> QED
        BY <2>2, <3>1
    <2>5. Len(R) + 1 = pages[j] + 2
      BY <1>4, <2>1
    <2> QED
      BY <2>1, <2>2, <2>3, <2>4, <2>5 DEF R, C
  <1>9. StreamTold(k)'
    <2>1. CASE ~EndsResponse(h)
      <3>1. h.type # "__close__"
        BY <2>1 DEF EndsResponse
      <3>2. /\ stream'[k].next = Tail(b) /\ stream'[k].sent = Append(a, h)
            /\ stream'[k].at = stream[k].at /\ stream'[k].job = j
            /\ StreamTyped(k)'
        BY <1>1, <1>3, <1>6, <1>n, <1>j, <2>1, <3>1 DEF StreamTold, StreamTyped, a, b
      <3>3. All(k)' = Recorded(j) \o Closing(k)
        BY <1>2, <1>3, <3>2 DEF All
      <3>4. Recorded(j)' = Recorded(j) /\ Closing(k)' = Closing(k)
        BY <1>1, <1>j, <3>2 DEF Recorded, Closing, EndOf
      <3>5. n <= pages[j] + 1
        <4>1. CASE Len(a) = pages[j] + 1
          <5>1. n = pages[j] + 2
            BY <1>4, <1>5, <1>n, <1>j, <4>1
          <5>2. Closing(k) # <<>>
            BY <1>3, <1>4, <1>7, <1>8, <5>1
          <5>3. h = Closing(k)[1]
            BY <1>3, <1>8, <5>1, <5>2
          <5> QED
            BY <1>7, <2>1, <5>2, <5>3, Words
        <4> QED
          BY <1>2, <1>4, <1>5, <1>n, <1>j, <4>1
      <3>6. Len(Append(a, h)) = n
        BY <1>2, <1>5, <1>n, <1>j, AppendProperties, HeadTailProperties DEF h
      <3>7. All(k)' = Recorded(j)' \o Closing(k)'
        BY <3>3, <3>4
      <3>8. /\ status'[j] # "none" /\ (stream'[k].at # "live" => status'[j] \in Terminal)
            /\ Len(stream'[k].sent) <= pages'[j] + 1
        BY <1>1, <1>n, <1>j, <3>2, <3>5, <3>6 DEF StreamTold
      <3> QED
        BY <1>2, <3>2, <3>7, <3>8 DEF StreamTold
    <2>2. CASE EndsResponse(h)
      <3>1. n = pages[j] + 2 /\ h = EndOf(j) /\ status[j] \in Terminal
        <4>1. ~(n <= pages[j] + 1)
          BY <1>3, <1>4, <1>5, <1>8, <1>n, <1>j, <2>2
        <4>2. n = pages[j] + 2
          <5>1. n \in Nat /\ n <= pages[j] + 2 /\ pages[j] \in Nat
            BY <1>2, <1>4, <1>5, <1>n, <1>j
          <5> QED
            BY <4>1, <5>1
        <4>3. Closing(k) # <<>>
          BY <1>3, <1>4, <1>7, <1>8, <4>2
        <4>4. h = Closing(k)[1]
          BY <1>3, <1>8, <4>2, <4>3
        <4> QED
          BY <1>7, <4>2, <4>3, <4>4
      <3>2. a = Recorded(j)
        <4>1. \A i \in 1..Len(a) : a[i] = (a \o b)[i]
          BY <1>2, <1>5, LenProperties, ConcatProperties
        <4>2. Len(a) = Len(Recorded(j)) /\ \A i \in 1..Len(a) : a[i] = Recorded(j)[i]
          <5>1. Len(a) = pages[j] + 1 /\ Len(Recorded(j)) = pages[j] + 1
            BY <1>4, <1>5, <1>n, <1>j, <3>1
          <5> QED
            BY <1>8, <4>1, <5>1
        <4> QED
          BY <1>2, <1>4, <4>2, SeqEqual
      <3>3. h.type # "__close__" /\ h \in Word
        BY <3>1, Words DEF EndOf, Event
      <3>4. /\ stream'[k].next = <<>> /\ stream'[k].sent = Append(a, h)
            /\ stream'[k].at = "over" /\ stream'[k].job = j
            /\ StreamTyped(k)'
        <4>1. stream[k] \in [job : Jobs \cup {NoJob}, at : {"none", "live", "replay", "over", "gone"},
                             next : Seq(Word), sent : Seq(Word)]
          BY <1>1 DEF StreamTold, StreamTyped
        <4>2. stream'[k] = [stream[k] EXCEPT !.next = <<>>, !.sent = Append(a, h), !.at = "over"]
          BY <1>6, <2>2, <3>3
        <4>3. <<>> \in Seq(Word) /\ Append(a, h) \in Seq(Word)
          BY <1>3
        <4> QED
          BY <1>n, <1>j, <4>1, <4>2, <4>3 DEF StreamTyped
      <3>5. Append(a, h) \o <<>> = Append(a, h) /\ Append(a, h) = a \o <<h>>
        BY <1>2, <1>3, <3>3, ConcatEmptySeq, AppendIsConcat
      <3>6. All(k)' = Recorded(j) \o <<EndOf(j)>>
        BY <3>1, <3>2, <3>4, <3>5 DEF All
      <3>7. Recorded(j)' = Recorded(j) /\ Closing(k)' = <<EndOf(j)>>
        BY <1>1, <1>j, <3>1, <3>4 DEF Recorded, Closing, EndOf
      <3>8. All(k)' = Recorded(j)' \o Closing(k)'
        BY <3>6, <3>7
      <3>9. status'[j] \in Terminal /\ status'[j] # "none"
        BY <1>1, <3>1 DEF Terminal
      <3> QED
        BY <1>2, <3>4, <3>8, <3>9 DEF StreamTold
    <2> QED
      BY <2>1, <2>2
  <1>10. \A i \in Streams \ {k} : StreamTold(i)'
    BY <1>1, <1>6, StreamRests DEF Told, StreamTold
  <1>11. \A i \in Jobs : RecordTold(i)'
    BY <1>1 DEF Told, RecordTold, FinalEvent, EndOf
  <1> QED
    BY <1>1, <1>6, <1>9, <1>10, <1>11 DEF Told

\* A job reaches its end by one Settle.
LEMMA SettleTold ==
  ASSUME Told, JobsInv, NEW j \in Jobs, status[j] \in {"queued", "running"},
         NEW newStatus \in Terminal, NEW type, type = (IF newStatus = "cancelled" THEN "cancelled" ELSE "done"),
         Settle(j, newStatus, type), pages' = pages
  PROVE  Told'
  <1>1. /\ status'[j] = newStatus /\ \A i \in Jobs \ {j} : status'[i] = status[i]
        /\ final'[j] = type /\ \A i \in Jobs \ {j} : final'[i] = final[i]
        /\ final' \in [Jobs -> {"none", "done", "cancelled"}]
    <2>1. status' = [status EXCEPT ![j] = newStatus] /\ final' = [final EXCEPT ![j] = type]
      BY DEF Settle
    <2>2. status \in [Jobs -> Statuses] /\ final \in [Jobs -> {"none", "done", "cancelled"}]
      BY DEF JobsInv, Typed, Told
    <2> QED
      BY <2>1, <2>2
  <1>2. EndOf(j)' = Event(type) /\ FinalEvent(j)' = Event(type)
    BY <1>1 DEF EndOf, FinalEvent
  <1>3. /\ stream' = [k \in Streams |-> stream'[k]]
        /\ \A k \in Streams :
             stream'[k] = IF stream[k].at = "live" /\ stream[k].job = j
                          THEN [stream[k] EXCEPT !.next = @ \o <<EndOf(j)', Event("__close__")>>] ELSE stream[k]
    BY <1>2 DEF Settle, Published
  <1>4. status[j] \notin Terminal
    BY DEF Terminal
  <1>5. ASSUME NEW i \in Jobs PROVE RecordTold(i)'
    <2>1. CASE i = j
      BY <1>1, <1>2, <2>1 DEF Told, RecordTold
    <2>2. CASE i # j
      BY <1>1, <2>2 DEF Told, RecordTold, FinalEvent, EndOf
    <2> QED
      BY <2>1, <2>2
  <1>6. ASSUME NEW k \in Streams PROVE StreamTold(k)'
    <2>1. StreamTold(k) /\ RecordTold(j)
      BY DEF Told
    <2>2. CASE stream[k].job = j
      BY <1>1, <1>3, <1>4, <2>1, <2>2, StreamEnds
    <2>3. CASE stream[k].job # j
      <3>1. Connected(k) => stream[k].job \in Jobs /\ status[stream[k].job] # "none"
        BY <2>1 DEF StreamTold
      <3> QED
        BY <1>1, <1>3, <2>1, <2>3, <3>1, StreamRests
    <2> QED
      BY <2>2, <2>3
  <1> QED
    BY <1>1, <1>3, <1>5, <1>6 DEF Told

\* Streams are left alone by whatever ends no job.
LEMMA RecordsRest ==
  ASSUME Told, UNCHANGED <<pages, final, stream>>,
         \A j \in Jobs : \/ status'[j] = status[j]
                         \/ status[j] \notin Terminal /\ status'[j] \notin Terminal \cup {"none"}
                         \/ status[j] = "none" /\ status'[j] = "failed" /\ final[j] = "none"
  PROVE  Told'
  <1>1. ASSUME NEW j \in Jobs PROVE RecordTold(j)'
    <2>1. CASE status[j] = "none" /\ status'[j] = "failed" /\ final[j] = "none"
      BY <2>1 DEF Told, RecordTold, FinalEvent, EndOf
    <2>2. CASE ~(status[j] = "none" /\ status'[j] = "failed" /\ final[j] = "none")
      BY <2>2 DEF Told, RecordTold, FinalEvent, EndOf
    <2> QED
      BY <2>1, <2>2
  <1>2. ASSUME NEW k \in Streams PROVE StreamTold(k)'
    <2>1. StreamTold(k)
      BY DEF Told
    <2>2. Connected(k) => stream[k].job \in Jobs /\ status[stream[k].job] # "none"
      BY <2>1 DEF StreamTold
    <2>3. Connected(k) => LET j == stream[k].job IN
            /\ pages'[j] = pages[j] /\ status'[j] # "none"
            /\ (status'[j] = status[j] \/ (status[j] \notin Terminal /\ status'[j] \notin Terminal))
      BY <2>2
    <2> QED
      BY <2>1, <2>3, StreamRests
  <1> QED
    BY <1>1, <1>2 DEF Told

\* A page that comes out is the next one of every stream that listens.
LEMMA PageOutTold ==
  ASSUME Told, JobsInv, NEW w \in Workers, PageOut(w)
  PROVE  Told'
  <1>1. PICK j \in Jobs : j = running[w]
    BY DEF PageOut, JobsInv, Typed
  <1>2. status[j] = "running" /\ status[j] \notin Terminal
    BY <1>1 DEF PageOut, JobsInv, EngineOfJob, Terminal
  <1>3. pages[j] \in Nat
    BY DEF Told, RecordTold
  <1> DEFINE e == <<PageEvent(pages[j] + 1)>>
  <1>4. /\ UNCHANGED <<status, final>>
        /\ pages' \in [Jobs -> Nat]
        /\ pages'[j] = pages[j] + 1 /\ \A i \in Jobs \ {j} : pages'[i] = pages[i]
        /\ stream' = [k \in Streams |-> stream'[k]]
        /\ \A k \in Streams :
             stream'[k] = IF stream[k].at = "live" /\ stream[k].job = j
                          THEN [stream[k] EXCEPT !.next = @ \o e] ELSE stream[k]
    BY <1>1, <1>3 DEF PageOut, Published, Told
  <1>5. e \in Seq(Word)
    BY <1>3, Words
  <1>6. Recorded(j)' = Recorded(j) \o e
    BY <1>3, <1>4, RecordedGrows
  <1> HIDE DEF e
  <1>7. ASSUME NEW k \in Streams PROVE StreamTold(k)'
    <2>1. StreamTold(k) /\ StreamTyped(k)
      BY DEF Told, StreamTold
    <2>2. CASE stream[k].at = "live" /\ stream[k].job = j
      <3>1. /\ StreamTyped(k)' /\ All(k)' = All(k) \o e
            /\ stream'[k].at = "live" /\ stream'[k].job = j
            /\ stream'[k].sent = stream[k].sent
        BY <1>4, <1>5, <2>1, <2>2, Extended
      <3>2. /\ All(k) = Recorded(j) \o Closing(k) /\ Closing(k) = <<>> /\ Closing(k)' = <<>>
            /\ Len(stream[k].sent) <= pages[j] + 1 /\ Len(stream[k].sent) \in Nat
        <4>1. Connected(k)
          BY <2>2 DEF Connected
        <4>2. stream[k].sent \in Seq(Word)
          BY <2>1 DEF StreamTyped
        <4> QED
          BY <1>2, <1>4, <2>1, <2>2, <3>1, <4>1, <4>2 DEF StreamTold, Closing
      <3>3. Recorded(j) \o <<>> = Recorded(j) /\ (Recorded(j) \o e) \o <<>> = Recorded(j) \o e
        BY <1>3, <1>5, RecordedWords, ConcatProperties, ConcatEmptySeq
      <3>4. All(k)' = Recorded(j)' \o Closing(k)'
        BY <1>6, <3>1, <3>2, <3>3
      <3>5. status'[j] # "none" /\ Len(stream'[k].sent) <= pages'[j] + 1
        BY <1>2, <1>3, <1>4, <3>1, <3>2
      <3> QED
        BY <3>1, <3>4, <3>5 DEF StreamTold
    <2>3. CASE ~(stream[k].at = "live" /\ stream[k].job = j)
      <3>1. Connected(k) => stream[k].job \in Jobs /\ status[stream[k].job] # "none" /\ stream[k].job # j
        BY <1>2, <2>1, <2>3 DEF StreamTold
      <3> QED
        BY <1>4, <2>1, <2>3, <3>1, StreamRests
    <2> QED
      BY <2>2, <2>3
  <1>8. ASSUME NEW i \in Jobs PROVE RecordTold(i)'
    BY <1>4 DEF Told, RecordTold, FinalEvent, EndOf
  <1> QED
    BY <1>4, <1>7, <1>8 DEF Told

\* A stream opens with what the record holds by then.
LEMMA SubscribeTold ==
  ASSUME Told, NEW k \in Streams, NEW j \in Jobs, Subscribe(k, j)
  PROVE  Told'
  <1>1. UNCHANGED <<status, pages, final>> /\ status[j] # "none" /\ RecordTold(j)
    BY DEF Subscribe, Told
  <1> DEFINE ended == status[j] \in Terminal
             rest == IF ended THEN <<EndOf(j), Event("__close__")>> ELSE <<>>
  <1>2. pages[j] \in Nat /\ Recorded(j) \in Seq(Word) /\ Replay(j) = Recorded(j) /\ rest \in Seq(Word)
    <2>1. pages[j] \in Nat
      BY <1>1 DEF RecordTold
    <2>2. <<EndOf(j), Event("__close__")>> \in Seq(Word)
      BY Words
    <2> QED
      BY <2>1, <2>2, RecordedWords DEF Replay, Recorded
  <1>3. Recorded(j) \o rest \in Seq(Word) /\ Recorded(j) \o <<>> = Recorded(j)
    BY <1>2, ConcatProperties, ConcatEmptySeq
  <1>4. /\ stream' = [i \in Streams |-> stream'[i]]
        /\ \A i \in Streams \ {k} : stream'[i] = stream[i]
        /\ stream'[k] = [job |-> j, at |-> IF ended THEN "replay" ELSE "live", sent |-> <<>>,
                         next |-> Recorded(j) \o rest]
    <2>1. ended => FinalEvent(j) = EndOf(j)
      BY <1>1 DEF RecordTold
    <2>2. stream = [i \in Streams |-> stream[i]]
      BY DEF Told
    <2>3. stream' = [stream EXCEPT ![k] =
            [job |-> j, at |-> IF ended THEN "replay" ELSE "live", sent |-> <<>>, next |-> Recorded(j) \o rest]]
      BY <1>2, <1>3, <2>1 DEF Subscribe
    <2> QED
      BY <2>2, <2>3
  <1>5. StreamTold(k)'
    <2>1. <<>> \in Seq(Word) /\ <<>> \o (Recorded(j) \o rest) = Recorded(j) \o rest
      BY <1>3, ConcatEmptySeq
    <2>2. StreamTyped(k)'
      BY <1>3, <1>4, <2>1 DEF StreamTyped
    <2>3. All(k)' = Recorded(j) \o rest
      BY <1>4, <2>1 DEF All
    <2>4. Recorded(j)' = Recorded(j) /\ Closing(k)' = rest
      BY <1>1, <1>4 DEF Recorded, Closing, EndOf
    <2>5. All(k)' = Recorded(j)' \o Closing(k)'
      BY <2>3, <2>4
    <2>6. Len(stream'[k].sent) <= pages'[j] + 1
      BY <1>1, <1>2, <1>4
    <2> QED
      BY <1>1, <1>4, <2>2, <2>5, <2>6 DEF StreamTold
  <1>6. ASSUME NEW i \in Streams \ {k} PROVE StreamTold(i)'
    <2>1. StreamTold(i) /\ (Connected(i) => status[stream[i].job] # "none")
      BY DEF Told, StreamTold
    <2> QED
      BY <1>1, <1>4, <2>1, StreamRests
  <1>7. \A i \in Jobs : RecordTold(i)'
    BY <1>1 DEF Told, RecordTold, FinalEvent, EndOf
  <1> QED
    BY <1>1, <1>4, <1>5, <1>6, <1>7 DEF Told

LEMMA DisconnectTold ==
  ASSUME Told, NEW k \in Streams, Disconnect(k)
  PROVE  Told'
  <1>1. /\ UNCHANGED <<status, pages, final>>
        /\ stream' = [i \in Streams |-> stream'[i]]
        /\ \A i \in Streams \ {k} : stream'[i] = stream[i]
        /\ stream'[k] = [stream[k] EXCEPT !.at = "gone", !.next = <<>>]
    <2>1. stream = [i \in Streams |-> stream[i]]
      BY DEF Told
    <2>2. stream' = [stream EXCEPT ![k].at = "gone", ![k].next = <<>>] /\ UNCHANGED <<status, pages, final>>
      BY DEF Disconnect
    <2> QED
      BY <2>1, <2>2
  <1>2. StreamTold(k)'
    <2>1. StreamTyped(k) /\ <<>> \in Seq(Word)
      BY DEF Told, StreamTold
    <2>2. StreamTyped(k)' /\ stream'[k].at = "gone"
      BY <1>1, <2>1 DEF StreamTyped
    <2> QED
      BY <2>2 DEF StreamTold, Connected
  <1>3. ASSUME NEW i \in Streams \ {k} PROVE StreamTold(i)'
    <2>1. StreamTold(i) /\ (Connected(i) => status[stream[i].job] # "none")
      BY DEF Told, StreamTold
    <2> QED
      BY <1>1, <2>1, StreamRests
  <1>4. \A i \in Jobs : RecordTold(i)'
    BY <1>1 DEF Told, RecordTold, FinalEvent, EndOf
  <1> QED
    BY <1>1, <1>2, <1>3, <1>4 DEF Told

\* The shutdown ends every running job at once, and no other.
LEMMA StopTold ==
  ASSUME Told, JobsInv, Stop
  PROVE  Told'
  <1>1. /\ pages' = pages
        /\ final' \in [Jobs -> {"none", "done", "cancelled"}]
        /\ \A j \in Jobs : status'[j] = (IF j \in Engines THEN "cancelled" ELSE status[j])
        /\ \A j \in Jobs : final'[j] = (IF j \in Engines THEN "cancelled" ELSE final[j])
        /\ stream' = [k \in Streams |-> stream'[k]]
        /\ \A k \in Streams :
             stream'[k] = IF stream[k].at = "live" /\ stream[k].job \in Engines
                          THEN [stream[k] EXCEPT !.next = @ \o <<Event("cancelled"), Event("__close__")>>] ELSE stream[k]
    BY DEF Stop, Told
  <1>2. \A j \in Engines : j \in Jobs /\ status[j] = "running" /\ status[j] \notin Terminal
    BY DEF Engines, JobsInv, EngineOfJob, Typed, Terminal
  <1>3. ASSUME NEW j \in Jobs PROVE RecordTold(j)'
    <2>1. CASE j \in Engines
      BY <1>1, <2>1 DEF Told, RecordTold, FinalEvent, EndOf, Terminal
    <2>2. CASE j \notin Engines
      BY <1>1, <2>2 DEF Told, RecordTold, FinalEvent, EndOf
    <2> QED
      BY <2>1, <2>2
  <1>4. ASSUME NEW k \in Streams PROVE StreamTold(k)'
    <2>1. StreamTold(k)
      BY DEF Told
    <2>2. CASE stream[k].job \in Engines
      <3>1. PICK j \in Jobs : j = stream[k].job
        BY <1>2, <2>2
      <3>2. status[j] \notin Terminal /\ status'[j] = "cancelled" /\ status'[j] \in Terminal
        BY <1>1, <1>2, <2>2, <3>1 DEF Terminal
      <3>3. EndOf(j)' = Event("cancelled")
        BY <3>2 DEF EndOf
      <3> QED
        BY <1>1, <2>1, <2>2, <3>1, <3>2, <3>3, StreamEnds DEF Told
    <2>3. CASE stream[k].job \notin Engines
      <3>1. Connected(k) => stream[k].job \in Jobs /\ status[stream[k].job] # "none"
        BY <2>1 DEF StreamTold
      <3> QED
        BY <1>1, <2>1, <2>3, <3>1, StreamRests
    <2> QED
      BY <2>2, <2>3
  <1> QED
    BY <1>1, <1>3, <1>4 DEF Told

LEMMA ToldInit == Init => Told
  <1> SUFFICES ASSUME Init PROVE Told
    OBVIOUS
  <1>1. \A k \in Streams : StreamTyped(k) /\ ~Connected(k)
    BY DEF Init, StreamTyped, Connected
  <1> QED
    BY <1>1 DEF Init, Told, StreamTold, RecordTold, Terminal

LEMMA ToldStep == JobsInv /\ Told /\ [Next]_vars => Told'
  <1> SUFFICES ASSUME JobsInv, Told, [Next]_vars PROVE Told'
    OBVIOUS
  <1>0. status \in [Jobs -> Statuses]
    BY DEF JobsInv, Typed
  <1>1. ASSUME NEW j \in Jobs, Submit(j) PROVE Told'
    <2>1. \A i \in Jobs \ {j} : status'[i] = status[i]
      BY <1>0, <1>1 DEF Submit
    <2>2. status[j] = "none" /\ status'[j] \in {"queued", "failed"} /\ final[j] = "none"
      BY <1>0, <1>1 DEF Submit, Told, RecordTold, Terminal
    <2>3. UNCHANGED <<pages, final, stream>>
      BY <1>1 DEF Submit
    <2> QED
      BY <2>1, <2>2, <2>3, RecordsRest DEF Terminal
  <1>2. ASSUME NEW j \in Jobs, NEW how \in {"soft", "hard"}, RequestCancel(j, how) PROVE Told'
    <2>1. CASE j \in Engines
      BY <1>2, <2>1, RecordsRest DEF RequestCancel
    <2>2. CASE j \notin Engines
      <3>1. status[j] \in {"queued", "running"} /\ Settle(j, "cancelled", "cancelled") /\ pages' = pages
        BY <1>2, <2>2 DEF RequestCancel
      <3>2. "cancelled" \in Terminal
        BY DEF Terminal
      <3> QED
        BY <3>1, <3>2, SettleTold
    <2> QED
      BY <2>1, <2>2
  <1>3. ASSUME NEW w \in Workers, NEW buildable \in BOOLEAN, Take(w, buildable) PROVE Told'
    <2>1. PICK j \in Jobs : j = Head(queue) /\ status[j] \in {"queued", "cancelled"}
      BY <1>3, HeadTailProperties, EmptySeq DEF Take, JobsInv, Typed, QueueFresh
    <2>2. CASE status[j] = "cancelled"
      BY <1>3, <2>1, <2>2, RecordsRest DEF Take
    <2>3. CASE status[j] = "queued" /\ buildable
      <3>1. UNCHANGED <<pages, final, stream>> /\ status' = [status EXCEPT ![j] = "running"]
        BY <1>3, <2>1, <2>3 DEF Take
      <3>2. \A i \in Jobs : status'[i] = IF i = j THEN "running" ELSE status[i]
        BY <1>0, <3>1
      <3> QED
        BY <2>3, <3>1, <3>2, RecordsRest DEF Terminal
    <2>4. CASE status[j] = "queued" /\ ~buildable
      <3>1. Settle(j, "failed", "done") /\ pages' = pages
        BY <1>3, <2>1, <2>4 DEF Take
      <3>2. "failed" \in Terminal
        BY DEF Terminal
      <3> QED
        BY <2>4, <3>1, <3>2, SettleTold
    <2> QED
      BY <2>1, <2>2, <2>3, <2>4
  <1>4. ASSUME NEW w \in Workers, EngineDone(w) \/ EngineFails(w) PROVE Told'
    <2>1. PICK j \in Jobs : j = running[w] /\ status[j] = "running"
      BY <1>4 DEF EngineDone, EngineFails, JobsInv, Typed, EngineOfJob
    <2>2. /\ \/ Settle(j, "done", "done") \/ Settle(j, "cancelled", "cancelled") \/ Settle(j, "failed", "done")
          /\ pages' = pages
      BY <1>4, <2>1 DEF EngineDone, EngineFails
    <2>3. {"done", "cancelled", "failed"} \subseteq Terminal
      BY DEF Terminal
    <2> QED
      BY <2>1, <2>2, <2>3, SettleTold
  <1>5. CASE UNCHANGED vars
    BY <1>5, RecordsRest DEF vars
  <1> QED
    BY <1>1, <1>2, <1>3, <1>4, <1>5, StopTold, PageOutTold, SubscribeTold, SendTold, DisconnectTold DEF Next, Work

\* A stream that is still connected carries the record of its job, page by
\* page, and its end once: wherever in the crawl it was opened, for any
\* number of jobs, pages and streams.
THEOREM StreamsAreComplete == Spec => []StreamComplete
  <1>1. Told => StreamComplete
    BY DEF Told, StreamTold, StreamComplete, Connected, All, Closing
  <1> QED
    BY <1>1, ToldInit, ToldStep, JobsInvariant, PTL DEF Spec
=============================================================================
