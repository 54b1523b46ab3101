-------------------------- MODULE ScrapeQueueProofs --------------------------
(***************************************************************************)
(* TLAPS proofs about ScrapeQueue, for every number of jobs, workers,      *)
(* clients, pages and faults.                                              *)
(***************************************************************************)
EXTENDS ScrapeQueue, FiniteSetTheorems, TLAPS

NotCreated(j) == sub[j] \in {"new", "create", "rejected"}

\* Every entry ever added is a page of a stored batch.
MsgShape ==
  \A id \in 1 .. lastId : /\ msg[id] \in [job : Jobs, page : Pages]
                          /\ msg[id].page < total[msg[id].job]
                          /\ ~NotCreated(msg[id].job)

\* A busy worker holds a delivered entry.
HeldShape == \A w \in Workers : pc[w] # "idle" => held[w] > 0

\* A job whose keys do not exist has no slots and no links; the store only
\* knows pages of the batch.
StoreShape ==
  \A j \in Jobs :
    /\ status[j] \notin Live => Filled(j) = {} /\ done[j] = 0 /\ ~cancelled[j] /\ links[j] = {}
    /\ Filled(j) \subseteq JobPages(j)
    /\ links[j] \subseteq JobPages(j) \X JobPages(j)

\* The submit coroutine handles pages of its own batch, which exists only once
\* create has run.
ApiShape ==
  \A j \in Jobs :
    /\ NotCreated(j) => status[j] = "absent" /\ total[j] = 0
    /\ heads[j] \subseteq JobPages(j)
    /\ stubs[j] \subseteq JobPages(j)

\* A request is about a job whose submission was accepted.
ClientShape ==
  \A c \in Clients :
    client[c].at # "idle" => /\ client[c].job \in Jobs
                             /\ sub[client[c].job] = "accepted"
                             /\ client[c].empty \subseteq JobPages(client[c].job)

\* The inductive strengthening of TypeOK.
Shape == TypeOK /\ MsgShape /\ HeldShape /\ StoreShape /\ ApiShape /\ ClientShape
-----------------------------------------------------------------------------
LEMMA LinksType ==
  ASSUME NEW n \in 0 .. MaxPages, NEW s, DOMAIN s = 0 .. n - 1
  PROVE  /\ ChainLinks(s) \subseteq (0 .. n - 1) \X (0 .. n - 1)
         /\ ChainHeads(s) \subseteq 0 .. n - 1
BY DEF ChainLinks, ChainHeads

\* What a busy worker works on.
LEMMA HeldEntry ==
  ASSUME TypeOK, MsgShape, HeldShape, NEW w \in Workers, pc[w] # "idle"
  PROVE  /\ held[w] \in 1 .. lastId
         /\ held[w] \in Ids
         /\ Job(w) \in Jobs
         /\ Page(w) \in JobPages(Job(w))
         /\ Page(w) \in Pages
         /\ ~NotCreated(Job(w))
<1>1. held[w] \in 1 .. lastId /\ held[w] \in Ids
  BY QueueAssumption DEF TypeOK, StreamTypeOK, ProcessTypeOK, HeldShape, Ids
<1>2. /\ Job(w) \in Jobs /\ Page(w) \in Pages
      /\ Page(w) < total[Job(w)] /\ ~NotCreated(Job(w))
  BY <1>1 DEF MsgShape, Job, Page
<1> QED BY <1>1, <1>2 DEF JobPages, Pages, TypeOK, StoreTypeOK

\* What one XADD does to the stream.
LEMMA KiqFacts ==
  ASSUME StreamTypeOK, NEW j \in Jobs, NEW p \in Pages, Kiq(j, p)
  PROVE  /\ StreamTypeOK'
         /\ lastId' = lastId + 1 /\ delivered' = delivered /\ pending' = pending
         /\ lastId' \in Ids /\ lastId' \notin 1 .. lastId
         /\ msg'[lastId'] = [job |-> j, page |-> p]
         /\ \A id \in 1 .. lastId : id \in Ids /\ msg'[id] = msg[id]
<1>1. lastId + 1 \in Ids /\ \A id \in 1 .. lastId : id \in Ids /\ id # lastId + 1
  BY QueueAssumption DEF StreamTypeOK, Kiq, Ids
<1>2. [job |-> j, page |-> p] \in Entry
  BY DEF Entry
<1>3. StreamTypeOK'
  BY <1>1, <1>2, QueueAssumption DEF StreamTypeOK, Kiq
<1>4. msg' = [msg EXCEPT ![lastId + 1] = [job |-> j, page |-> p]] /\ DOMAIN msg = Ids
  BY DEF Kiq, StreamTypeOK
<1> QED BY <1>1, <1>3, <1>4 DEF Kiq, StreamTypeOK

\* Sets of pages are finite.
LEMMA PagesFinite ==
  /\ IsFiniteSet(Pages)
  /\ \A T \in SUBSET Pages : IsFiniteSet(T) /\ Cardinality(T) \in Nat
<1>1. MaxPages - 1 \in Int
  BY QueueAssumption
<1>2. IsFiniteSet(Pages)
  BY <1>1, FS_Interval DEF Pages
<1> QED BY <1>2, FS_Subset, FS_CardinalityType

\* What the cancel script does to the store.
LEMMA CancelFacts ==
  ASSUME StoreTypeOK, StoreShape, NEW j \in Jobs, NEW S \in SUBSET JobPages(j),
         CancelFill(j, S)
  PROVE  /\ StoreTypeOK' /\ StoreShape'
         /\ total' = total /\ links' = links
         /\ \A k \in Jobs : \/ status'[k] = status[k]
                            \/ k = j /\ status[j] \in Active /\ status'[j] = "cancelled"
<1>1. CASE UNCHANGED store
  BY <1>1 DEF store, StoreTypeOK, StoreShape, JobPages, Filled
<1>2. CASE status[j] \in Active
  <2> DEFINE filled == [p \in Pages |->
                          IF p \in S /\ slot[j][p] = "empty" THEN "stub" ELSE slot[j][p]]
  <2>1. /\ cancelled' = [cancelled EXCEPT ![j] = TRUE]
        /\ slot' = [slot EXCEPT ![j] = filled]
        /\ done' = [done EXCEPT ![j] = Cardinality({p \in Pages : filled[p] # "empty"})]
        /\ status' = [status EXCEPT ![j] = "cancelled"]
        /\ total' = total /\ links' = links
    BY <1>2 DEF CancelFill
  <2>2. filled \in [Pages -> {"empty", "ok", "error", "stub"}]
    BY DEF StoreTypeOK
  <2>3. Cardinality({p \in Pages : filled[p] # "empty"}) \in Nat
    BY PagesFinite
  <2>4. StoreTypeOK'
    BY <2>1, <2>2, <2>3 DEF StoreTypeOK, Live, Terminal
  <2>5. \A p \in Pages : filled[p] # "empty" => p \in S \/ slot[j][p] # "empty"
    OBVIOUS
  <2>6. \A k \in Jobs : Filled(k)' \subseteq Filled(k) \cup (IF k = j THEN S ELSE {})
    BY <2>1, <2>2, <2>5 DEF StoreTypeOK, Filled
  <2>7. \A k \in Jobs : /\ status'[k] = IF k = j THEN "cancelled" ELSE status[k]
                        /\ k # j => /\ Filled(k)' = Filled(k) /\ done'[k] = done[k]
                                    /\ cancelled'[k] = cancelled[k]
    BY <2>1 DEF StoreTypeOK, Filled
  <2>8. StoreShape'
    BY <2>1, <2>6, <2>7, <1>2 DEF StoreShape, JobPages, Live, Terminal
  <2> QED BY <2>1, <2>4, <2>7, <2>8, <1>2
<1> QED BY <1>1, <1>2 DEF CancelFill

\* What the slot write does to the store.
LEMMA WriteFacts ==
  ASSUME StoreTypeOK, StoreShape, NEW j \in Jobs, NEW p \in Pages, p \in JobPages(j),
         NEW o \in {"ok", "error"}, status[j] \in Live, WriteSlot(j, p, o)
  PROVE  /\ StoreTypeOK' /\ StoreShape'
         /\ total' = total /\ links' = links /\ cancelled' = cancelled
         /\ \A k \in Jobs : \/ status'[k] = status[k]
                            \/ k = j /\ status[j] \in Active /\ status'[j] \in Terminal
<1>1. /\ slot' = [slot EXCEPT ![j][p] = o]
      /\ total' = total /\ links' = links /\ cancelled' = cancelled
  BY DEF WriteSlot
<1>2. slot' \in [Jobs -> [Pages -> {"empty", "ok", "error", "stub"}]]
  BY <1>1 DEF StoreTypeOK
<1> DEFINE count == IF slot[j][p] = "empty" THEN done[j] + 1 ELSE done[j]
<1>3. done' = [done EXCEPT ![j] = count] /\ count \in Nat
  BY DEF WriteSlot, StoreTypeOK
<1> HIDE DEF count
<1>4. PICK t \in Live : /\ status' = [status EXCEPT ![j] = t]
                        /\ t = status[j] \/ (status[j] \in Active /\ t \in Terminal)
  BY DEF WriteSlot, StoreTypeOK, Live, Active, Terminal
<1>5. StoreTypeOK'
  BY <1>1, <1>2, <1>3, <1>4 DEF StoreTypeOK, Live
<1>6. \A k \in Jobs : Filled(k)' \subseteq Filled(k) \cup (IF k = j THEN {p} ELSE {})
  BY <1>1, <1>2 DEF Filled, StoreTypeOK
<1>7. \A k \in Jobs : /\ status'[k] = IF k = j THEN t ELSE status[k]
                      /\ k # j => Filled(k)' = Filled(k) /\ done'[k] = done[k]
  BY <1>1, <1>3, <1>4 DEF StoreTypeOK, Filled
<1>8. StoreShape'
  BY <1>1, <1>4, <1>6, <1>7 DEF StoreShape, JobPages
<1>9. \A k \in Jobs : \/ status'[k] = status[k]
                      \/ k = j /\ status[j] \in Active /\ status'[j] \in Terminal
  <2> TAKE k \in Jobs
  <2>1. CASE k = j
    BY <2>1, <1>4, <1>7
  <2>2. CASE k # j
    BY <2>2, <1>7
  <2> QED BY <2>1, <2>2
<1> QED BY <1>1, <1>5, <1>8, <1>9
-----------------------------------------------------------------------------
(***************************************************************************)
(* Frame lemmas: the parts of Shape that a step leaves alone.              *)
(***************************************************************************)
LEMMA FrameStore ==
  ASSUME StoreTypeOK, StoreShape, UNCHANGED store
  PROVE  StoreTypeOK' /\ StoreShape'
BY DEF store, StoreTypeOK, StoreShape, JobPages, Filled

\* A stored batch stays stored, with its size.
Stored == \A j \in Jobs : ~NotCreated(j) => ~NotCreated(j)' /\ total'[j] = total[j]

LEMMA FrameMsg ==
  ASSUME MsgShape, msg' = msg, lastId' = lastId, Stored
  PROVE  MsgShape'
BY DEF MsgShape, Stored

LEMMA KiqMsg ==
  ASSUME StreamTypeOK, MsgShape, NEW j \in Jobs, NEW p \in Pages, Kiq(j, p),
         p < total[j], ~NotCreated(j), Stored
  PROVE  MsgShape'
<1>1. /\ lastId' = lastId + 1 /\ lastId \in Nat
      /\ msg'[lastId'] = [job |-> j, page |-> p]
      /\ \A id \in 1 .. lastId : msg'[id] = msg[id]
  BY KiqFacts, QueueAssumption DEF StreamTypeOK
<1>2. ASSUME NEW id \in 1 .. lastId'
      PROVE  (/\ msg[id] \in [job : Jobs, page : Pages]
              /\ msg[id].page < total[msg[id].job]
              /\ ~NotCreated(msg[id].job))'
  <2>1. CASE id = lastId'
    BY <2>1, <1>1 DEF Stored
  <2>2. CASE id # lastId'
    <3>1. id \in 1 .. lastId /\ msg'[id] = msg[id]
      BY <2>2, <1>1
    <3>2. /\ msg[id] \in [job : Jobs, page : Pages]
          /\ msg[id].page < total[msg[id].job] /\ ~NotCreated(msg[id].job)
      BY <3>1 DEF MsgShape
    <3>3. msg[id].job \in Jobs
      BY <3>2
    <3> QED BY <3>1, <3>2, <3>3 DEF Stored
  <2> QED BY <2>1, <2>2
<1> QED BY <1>2 DEF MsgShape

LEMMA FrameApi ==
  ASSUME ApiTypeOK, ApiShape, UNCHANGED api, total' = total,
         \A j \in Jobs : status[j] = "absent" => status'[j] = "absent"
  PROVE  ApiTypeOK' /\ ApiShape' /\ Stored
BY DEF api, ApiTypeOK, ApiShape, JobPages, NotCreated, Stored

LEMMA FrameProcess ==
  ASSUME ProcessTypeOK, HeldShape, UNCHANGED worker, UNCHANGED <<reaper, delivered>>,
         faults' \in 0 .. MaxFaults
  PROVE  ProcessTypeOK' /\ HeldShape'
BY DEF worker, ProcessTypeOK, HeldShape, TaskSteps

LEMMA FrameClient ==
  ASSUME ClientTypeOK, ClientShape, UNCHANGED client, total' = total,
         \A j \in Jobs : sub[j] = "accepted" => sub'[j] = "accepted"
  PROVE  ClientTypeOK' /\ ClientShape'
BY DEF ClientTypeOK, ClientShape, JobPages, Live, Terminal, Active

\* One more fault stays within the bound.
LEMMA FaultType ==
  ASSUME ProcessTypeOK, Fault
  PROVE  faults' \in 0 .. MaxFaults
BY QueueAssumption DEF ProcessTypeOK, Fault
-----------------------------------------------------------------------------
(***************************************************************************)
(* Shape is inductive: first the initial state, then one lemma for the     *)
(* actions of each process.                                                *)
(***************************************************************************)
LEMMA ShapeInit == Init => Shape
<1> SUFFICES ASSUME Init PROVE Shape
  OBVIOUS
<1>1. StoreTypeOK
  BY QueueAssumption DEF Init, StoreTypeOK, Live, Pages
<1>2. StreamTypeOK
  BY QueueAssumption DEF Init, StreamTypeOK, Entry, NoMsg
<1>3. ApiTypeOK
  BY DEF Init, ApiTypeOK
<1>4. ProcessTypeOK
  BY QueueAssumption DEF Init, ProcessTypeOK, IdleReaper, None
<1>5. ClientTypeOK
  BY DEF Init, ClientTypeOK, IdleClient
<1>6. MsgShape /\ HeldShape
  BY DEF Init, MsgShape, HeldShape
<1>7. StoreShape
  BY DEF Init, StoreShape, Filled
<1>8. ApiShape
  BY DEF Init, ApiShape
<1>9. ClientShape
  BY DEF Init, ClientShape, IdleClient
<1> QED BY <1>1, <1>2, <1>3, <1>4, <1>5, <1>6, <1>7, <1>8, <1>9 DEF Shape, TypeOK

\* create stores a batch: the coroutine goes on to the fan-out, with heads among
\* the batch's pages, or ends because the call raised all the same.
LEMMA ShapeBatch ==
  ASSUME Shape, NEW j \in Jobs, sub[j] = "create",
         NEW n \in 0 .. MaxPages, NEW s \in [0 .. n - 1 -> Sessions \cup {NoSession}],
         CreateBatch(j, n, s),
         NEW H \in SUBSET (0 .. n - 1), heads' = [heads EXCEPT ![j] = H],
         NEW t \in {"fanout", "lost"}, sub' = [sub EXCEPT ![j] = t],
         UNCHANGED <<stream, stubs, worker, reaper, client>>, faults' \in 0 .. MaxFaults
  PROVE  Shape'
<1> USE DEF Shape, TypeOK
<1>1. /\ total' = [total EXCEPT ![j] = n]
      /\ links' = [links EXCEPT ![j] = ChainLinks(s)]
      /\ status' = [status EXCEPT ![j] = IF n = 0 THEN "done" ELSE "queued"]
  BY DEF CreateBatch
<1>2. /\ ChainLinks(s) \subseteq (0 .. n - 1) \X (0 .. n - 1)
      /\ ChainHeads(s) \subseteq 0 .. n - 1
  BY LinksType
<1>3. 0 .. n - 1 \subseteq Pages
  BY QueueAssumption DEF Pages
<1>4. /\ sub[j] = "create" /\ UNCHANGED <<done, cancelled, slot, stubs, client>>
      /\ UNCHANGED <<stream, worker, reaper>>
  BY DEF CreateBatch
<1>5. StoreTypeOK'
  BY <1>1, <1>2, <1>3, <1>4 DEF StoreTypeOK, Live, Active, Terminal
<1>6. \A k \in Jobs :
        /\ status'[k] = IF k = j THEN (IF n = 0 THEN "done" ELSE "queued") ELSE status[k]
        /\ total'[k] = IF k = j THEN n ELSE total[k]
        /\ links'[k] = IF k = j THEN ChainLinks(s) ELSE links[k]
        /\ heads'[k] = IF k = j THEN H ELSE heads[k]
        /\ sub'[k] = IF k = j THEN t ELSE sub[k]
        /\ Filled(k)' = Filled(k)
  BY <1>1, <1>4 DEF StoreTypeOK, ApiTypeOK, Filled
<1>7. status[j] = "absent" /\ NotCreated(j)
  BY <1>4 DEF ApiShape, NotCreated
<1>8. Filled(j) = {} /\ done[j] = 0 /\ ~cancelled[j]
  BY <1>7 DEF StoreShape, Live, Active, Terminal
<1>9. StoreShape'
  BY <1>2, <1>4, <1>6, <1>8 DEF StoreShape, JobPages, Live, Active, Terminal
<1>10. StreamTypeOK'
  BY <1>4 DEF stream, StreamTypeOK
<1>11. Stored
  BY <1>6, <1>7 DEF Stored, NotCreated
<1>12. MsgShape'
  BY <1>4, <1>11, FrameMsg DEF stream
<1>13. ApiTypeOK'
  BY <1>3, <1>4 DEF ApiTypeOK
<1>14. stubs[j] \subseteq 0 .. n - 1
  BY <1>7 DEF ApiShape, JobPages, StoreTypeOK
<1>15. ApiShape'
  BY <1>2, <1>4, <1>6, <1>14 DEF ApiShape, JobPages, NotCreated
<1>16. ProcessTypeOK' /\ HeldShape'
  BY <1>4, FrameProcess DEF stream, ProcessTypeOK
<1>17. ClientTypeOK'
  BY <1>4 DEF ClientTypeOK, Live, Active, Terminal
<1>18. ClientShape'
  BY <1>4, <1>6 DEF ClientShape, JobPages
<1> QED BY <1>5, <1>9, <1>10, <1>12, <1>13, <1>15, <1>16, <1>17, <1>18

LEMMA ShapeCreate ==
  ASSUME Shape, NEW j \in Jobs, SubmitCreate(j)
  PROVE  Shape'
<1>1. PICK n \in 0 .. MaxPages : \E s \in [0 .. n - 1 -> Sessions \cup {NoSession}] :
        CreateBatch(j, n, s) /\ heads' = [heads EXCEPT ![j] = ChainHeads(s)]
  BY DEF SubmitCreate
<1>2. PICK s \in [0 .. n - 1 -> Sessions \cup {NoSession}] :
        CreateBatch(j, n, s) /\ heads' = [heads EXCEPT ![j] = ChainHeads(s)]
  BY <1>1
<1>3. ChainHeads(s) \subseteq 0 .. n - 1
  BY LinksType
<1>4. /\ sub[j] = "create" /\ sub' = [sub EXCEPT ![j] = "fanout"]
      /\ UNCHANGED <<stream, stubs, worker, reaper, client>> /\ faults' \in 0 .. MaxFaults
  BY DEF SubmitCreate, Shape, TypeOK, ProcessTypeOK
<1> QED BY <1>2, <1>3, <1>4, ShapeBatch

\* A step of a submit coroutine that may only shrink the heads, and choose
\* stubs among the pages of its own batch.
ApiMoves ==
  /\ ApiTypeOK'
  /\ \A k \in Jobs : /\ NotCreated(k)' => NotCreated(k)
                     /\ heads'[k] \subseteq heads[k]
                     /\ stubs'[k] \subseteq JobPages(k)
                     /\ sub[k] = "accepted" => sub'[k] = "accepted"

LEMMA ShapeApi ==
  ASSUME Shape, ApiMoves, total' = total, UNCHANGED client,
         \A k \in Jobs : status[k] = "absent" => status'[k] = "absent"
  PROVE  /\ ApiTypeOK' /\ ApiShape' /\ ClientTypeOK' /\ ClientShape' /\ Stored
<1>1. ApiTypeOK' /\ Stored
  BY DEF ApiMoves, Stored
<1>2. ApiShape'
  BY DEF Shape, ApiMoves, ApiShape, JobPages
<1>3. ClientTypeOK' /\ ClientShape'
  BY FrameClient DEF Shape, TypeOK, ApiMoves
<1> QED BY <1>1, <1>2, <1>3

\* It touches nothing outside the API process ...
LEMMA ShapeApiOnly ==
  ASSUME Shape, ApiMoves, UNCHANGED <<store, stream, worker, reaper, client>>,
         faults' \in 0 .. MaxFaults
  PROVE  Shape'
<1>1. StoreTypeOK' /\ StoreShape' /\ total' = total /\ status' = status
  BY FrameStore DEF Shape, TypeOK, store
<1>2. ApiTypeOK' /\ ApiShape' /\ ClientTypeOK' /\ ClientShape' /\ Stored
  BY <1>1, ShapeApi
<1>3. StreamTypeOK' /\ MsgShape'
  BY <1>2, FrameMsg DEF Shape, TypeOK, stream, StreamTypeOK
<1>4. ProcessTypeOK' /\ HeldShape'
  BY FrameProcess DEF Shape, TypeOK, stream
<1> QED BY <1>1, <1>2, <1>3, <1>4 DEF Shape, TypeOK

\* ... or adds the entry of one of the heads.
LEMMA ShapeApiKiq ==
  ASSUME Shape, ApiMoves, UNCHANGED <<store, worker, reaper, client>>,
         faults' \in 0 .. MaxFaults,
         NEW j \in Jobs, sub[j] = "fanout", NEW h \in heads[j], Kiq(j, h)
  PROVE  Shape'
<1>1. StoreTypeOK' /\ StoreShape' /\ total' = total /\ status' = status
  BY FrameStore DEF Shape, TypeOK, store
<1>2. ApiTypeOK' /\ ApiShape' /\ ClientTypeOK' /\ ClientShape' /\ Stored
  BY <1>1, ShapeApi
<1>3. h \in Pages /\ h < total[j] /\ ~NotCreated(j)
  BY DEF Shape, TypeOK, ApiTypeOK, StoreTypeOK, ApiShape, JobPages, NotCreated
<1>4. StreamTypeOK' /\ delivered' = delivered
  BY <1>3, KiqFacts DEF Shape, TypeOK
<1>5. MsgShape'
  BY <1>2, <1>3, KiqMsg DEF Shape, TypeOK
<1>6. ProcessTypeOK' /\ HeldShape'
  BY <1>4, FrameProcess DEF Shape, TypeOK
<1> QED BY <1>1, <1>2, <1>4, <1>5, <1>6 DEF Shape, TypeOK

\* ... or runs the cancel script.
LEMMA ShapeApiCancel ==
  ASSUME Shape, ApiMoves, NEW j \in Jobs, NEW S \in SUBSET JobPages(j), CancelFill(j, S),
         UNCHANGED <<stream, worker, reaper, client>>, faults' \in 0 .. MaxFaults
  PROVE  Shape'
<1>1. /\ StoreTypeOK' /\ StoreShape' /\ total' = total
      /\ \A k \in Jobs : status[k] = "absent" => status'[k] = "absent"
  BY CancelFacts DEF Shape, TypeOK, Active
<1>2. ApiTypeOK' /\ ApiShape' /\ ClientTypeOK' /\ ClientShape' /\ Stored
  BY <1>1, ShapeApi
<1>3. StreamTypeOK' /\ MsgShape'
  BY <1>2, FrameMsg DEF Shape, TypeOK, stream, StreamTypeOK
<1>4. ProcessTypeOK' /\ HeldShape'
  BY FrameProcess DEF Shape, TypeOK, stream
<1> QED BY <1>1, <1>2, <1>3, <1>4 DEF Shape, TypeOK

LEMMA ShapeSubmit ==
  ASSUME Shape, NEW j \in Jobs,
         SubmitCheck(j) \/ SubmitKiq(j) \/ SubmitReturn(j) \/ SubmitKiqRaises(j)
           \/ SubmitConverge(j) \/ SubmitCancel(j) \/ SubmitConvergeRaises(j) \/ ApiCrash(j)
  PROVE  Shape'
<1> DEFINE Steps == {"new", "create", "fanout", "converge", "cancel",
                     "accepted", "rejected", "failed", "lost", "crashed"}
<1>1. /\ sub \in [Jobs -> Steps] /\ heads \in [Jobs -> SUBSET Pages]
      /\ stubs \in [Jobs -> SUBSET Pages]
      /\ \A k \in Jobs : JobPages(k) \subseteq Pages /\ stubs[k] \subseteq JobPages(k)
      /\ Unfilled(j) \subseteq JobPages(j)
      /\ faults \in 0 .. MaxFaults
  <2>1. \A k \in Jobs : JobPages(k) \subseteq Pages
    BY QueueAssumption DEF Shape, TypeOK, StoreTypeOK, JobPages, Pages
  <2>2. Unfilled(j) \subseteq JobPages(j)
    BY DEF Unfilled
  <2> QED BY <2>1, <2>2 DEF Shape, TypeOK, ApiTypeOK, ApiShape, ProcessTypeOK
<1>2. CASE SubmitCheck(j)
  <2>1. /\ sub[j] = "new" /\ heads' = heads /\ stubs' = stubs
        /\ UNCHANGED <<store, stream, worker, reaper, client, faults>>
    BY <1>2 DEF SubmitCheck
  <2>2. ApiMoves
    <3>1. CASE sub' = [sub EXCEPT ![j] = "create"]
      BY <1>1, <2>1, <3>1 DEF ApiMoves, ApiTypeOK, NotCreated
    <3>2. CASE sub' = [sub EXCEPT ![j] = "rejected"]
      BY <1>1, <2>1, <3>2 DEF ApiMoves, ApiTypeOK, NotCreated
    <3> QED BY <1>2, <3>1, <3>2 DEF SubmitCheck
  <2> QED BY <1>1, <2>1, <2>2, ShapeApiOnly
<1>3. CASE SubmitKiq(j)
  <2>1. PICK h \in heads[j] : Kiq(j, h) /\ heads' = [heads EXCEPT ![j] = heads[j] \ {h}]
    BY <1>3 DEF SubmitKiq
  <2>2. sub[j] = "fanout" /\ UNCHANGED <<store, sub, stubs, worker, reaper, client, faults>>
    BY <1>3 DEF SubmitKiq
  <2>3. ApiMoves
    BY <1>1, <2>1, <2>2 DEF ApiMoves, ApiTypeOK, NotCreated
  <2> QED BY <1>1, <2>1, <2>2, <2>3, ShapeApiKiq
<1>4. CASE SubmitReturn(j)
  <2>1. ApiMoves
    BY <1>1, <1>4 DEF SubmitReturn, ApiMoves, ApiTypeOK, NotCreated
  <2> QED BY <1>1, <1>4, <2>1, ShapeApiOnly DEF SubmitReturn
<1>5. CASE SubmitKiqRaises(j)
  <2>1. PICK h \in heads[j] : Kiq(j, h) \/ UNCHANGED stream
    BY <1>5 DEF SubmitKiqRaises
  <2>2. /\ sub[j] = "fanout" /\ sub' = [sub EXCEPT ![j] = "converge"]
        /\ heads' = [heads EXCEPT ![j] = {}]
        /\ UNCHANGED <<store, stubs, worker, reaper, client>>
        /\ faults' \in 0 .. MaxFaults
    BY <1>5, FaultType DEF SubmitKiqRaises, Shape, TypeOK
  <2>3. ApiMoves
    BY <1>1, <2>2 DEF ApiMoves, ApiTypeOK, NotCreated
  <2>4. CASE Kiq(j, h)
    BY <2>2, <2>3, <2>4, ShapeApiKiq
  <2>5. CASE UNCHANGED stream
    BY <2>2, <2>3, <2>5, ShapeApiOnly
  <2> QED BY <2>1, <2>4, <2>5
<1>6. CASE SubmitConverge(j)
  <2>1. PICK s \in {"failed", "cancel"} : sub' = [sub EXCEPT ![j] = s]
    BY <1>6 DEF SubmitConverge
  <2>2. stubs' = stubs \/ \E S \in SUBSET JobPages(j) : stubs' = [stubs EXCEPT ![j] = S]
    BY <1>1, <1>6 DEF SubmitConverge
  <2>3. /\ sub[j] = "converge" /\ heads' = heads
        /\ UNCHANGED <<store, stream, worker, reaper, client, faults>>
    BY <1>6 DEF SubmitConverge
  <2>4. ApiMoves
    BY <1>1, <2>1, <2>2, <2>3 DEF ApiMoves, ApiTypeOK, NotCreated
  <2> QED BY <1>1, <2>3, <2>4, ShapeApiOnly
<1>7. CASE SubmitCancel(j)
  <2>1. /\ sub[j] = "cancel" /\ CancelFill(j, stubs[j])
        /\ sub' = [sub EXCEPT ![j] = "failed"] /\ stubs' = [stubs EXCEPT ![j] = {}]
        /\ heads' = heads /\ UNCHANGED <<stream, worker, reaper, client, faults>>
    BY <1>7 DEF SubmitCancel
  <2>2. ApiMoves
    BY <1>1, <2>1 DEF ApiMoves, ApiTypeOK, NotCreated
  <2> QED BY <1>1, <2>1, <2>2, ShapeApiCancel
<1>8. CASE SubmitConvergeRaises(j)
  <2>1. /\ sub[j] \in {"converge", "cancel"} /\ (UNCHANGED store \/ CancelFill(j, stubs[j]))
        /\ sub' = [sub EXCEPT ![j] = "failed"] /\ stubs' = [stubs EXCEPT ![j] = {}]
        /\ heads' = heads /\ UNCHANGED <<stream, worker, reaper, client>>
    BY <1>8 DEF SubmitConvergeRaises
  <2>2. ApiMoves
    BY <1>1, <2>1 DEF ApiMoves, ApiTypeOK, NotCreated
  <2>3. faults' \in 0 .. MaxFaults
    BY <1>8, FaultType DEF SubmitConvergeRaises, Shape, TypeOK
  <2> QED BY <1>1, <2>1, <2>2, <2>3, ShapeApiCancel, ShapeApiOnly
<1>9. CASE ApiCrash(j)
  <2>1. faults' \in 0 .. MaxFaults
    BY <1>9, FaultType DEF ApiCrash, Shape, TypeOK
  <2>2. ApiMoves
    BY <1>1, <1>9 DEF ApiCrash, ApiMoves, ApiTypeOK, NotCreated
  <2> QED BY <1>9, <2>1, <2>2, ShapeApiOnly DEF ApiCrash
<1> QED BY <1>2, <1>3, <1>4, <1>5, <1>6, <1>7, <1>8, <1>9

LEMMA ShapeCreateRaises ==
  ASSUME Shape, NEW j \in Jobs, SubmitCreateRaises(j)
  PROVE  Shape'
<1>1. /\ sub[j] = "create" /\ sub' = [sub EXCEPT ![j] = "lost"] /\ heads' = heads
      /\ UNCHANGED <<stream, stubs, worker, reaper, client>> /\ faults' \in 0 .. MaxFaults
  BY FaultType DEF SubmitCreateRaises, Shape, TypeOK
<1>2. CASE UNCHANGED store
  <2>1. ApiMoves
    BY <1>1 DEF ApiMoves, ApiTypeOK, ApiShape, Shape, TypeOK, NotCreated
  <2> QED BY <1>1, <1>2, <2>1, ShapeApiOnly
<1>3. ASSUME NEW n \in 0 .. MaxPages, NEW s \in [0 .. n - 1 -> Sessions \cup {NoSession}],
             CreateBatch(j, n, s)
      PROVE  Shape'
  <2>1. heads[j] = {}
    BY <1>1 DEF Shape, TypeOK, StoreTypeOK, ApiShape, NotCreated, JobPages
  <2>2. heads' = [heads EXCEPT ![j] = {}]
    BY <1>1, <2>1 DEF Shape, TypeOK, ApiTypeOK
  <2> QED BY <1>1, <1>3, <2>2, ShapeBatch
<1> QED BY <1>2, <1>3 DEF SubmitCreateRaises

LEMMA FrameApiClient ==
  ASSUME Shape, UNCHANGED <<api, client>>, total' = total,
         \A j \in Jobs : status[j] = "absent" => status'[j] = "absent"
  PROVE  ApiTypeOK' /\ ApiShape' /\ ClientTypeOK' /\ ClientShape' /\ Stored
<1>1. ApiTypeOK' /\ ApiShape' /\ Stored
  BY FrameApi DEF Shape, TypeOK
<1>2. ClientTypeOK' /\ ClientShape'
  BY FrameClient DEF Shape, TypeOK, api
<1> QED BY <1>1, <1>2

\* A step of a busy worker that stays busy with the same entry.
LEMMA GotoShape ==
  ASSUME ProcessTypeOK, HeldShape, NEW w \in Workers, NEW s \in TaskSteps,
         pc[w] # "idle", Goto(w, s), UNCHANGED <<held, reaper, delivered>>,
         out' \in [Workers -> {"ok", "error"}], faults' \in 0 .. MaxFaults
  PROVE  ProcessTypeOK' /\ HeldShape'
BY DEF ProcessTypeOK, HeldShape, Goto

\* The steps that only read.
LEMMA ShapeTaskRead ==
  ASSUME Shape, NEW w \in Workers,
         TaskMeta(w) \/ TaskSlot(w) \/ TaskPage(w) \/ TaskScrape(w) \/ TaskRemeta(w)
           \/ TaskRaises(w)
  PROVE  Shape'
<1>1. /\ UNCHANGED <<store, stream, api, held, reaper, client>>
      /\ pc[w] # "idle"
      /\ out' \in [Workers -> {"ok", "error"}]
  BY DEF TaskMeta, TaskSlot, TaskPage, TaskScrape, TaskRemeta, TaskRaises, ReadOnly,
         Shape, TypeOK, ProcessTypeOK
<1>2. \E s \in TaskSteps : Goto(w, s)
  BY DEF TaskMeta, TaskSlot, TaskPage, TaskScrape, TaskRemeta, TaskRaises, TaskSteps
<1>3. faults' \in 0 .. MaxFaults
  BY FaultType DEF TaskMeta, TaskSlot, TaskPage, TaskScrape, TaskRemeta, TaskRaises, ReadOnly,
                   Shape, TypeOK, ProcessTypeOK
<1>4. StoreTypeOK' /\ StoreShape' /\ total' = total /\ status' = status
  BY <1>1, FrameStore DEF Shape, TypeOK, store
<1>5. ApiTypeOK' /\ ApiShape' /\ ClientTypeOK' /\ ClientShape' /\ Stored
  BY <1>1, <1>4, FrameApiClient
<1>6. StreamTypeOK' /\ MsgShape' /\ delivered' = delivered
  BY <1>1, <1>5, FrameMsg DEF Shape, TypeOK, stream, StreamTypeOK
<1>7. ProcessTypeOK' /\ HeldShape'
  BY <1>1, <1>2, <1>3, <1>6, GotoShape DEF Shape, TypeOK
<1> QED BY <1>4, <1>5, <1>6, <1>7 DEF Shape, TypeOK

\* The two steps that write to the store.
LEMMA ShapeTaskStore ==
  ASSUME Shape, NEW w \in Workers, TaskMark(w) \/ TaskWrite(w)
  PROVE  Shape'
<1>1. /\ UNCHANGED <<stream, api, held, out, reaper, client, faults>>
      /\ pc[w] # "idle" /\ \E s \in TaskSteps : Goto(w, s)
  BY DEF TaskMark, TaskWrite, TaskSteps
<1>2. Job(w) \in Jobs /\ Page(w) \in JobPages(Job(w)) /\ Page(w) \in Pages
  BY <1>1, HeldEntry DEF Shape
<1>3. /\ StoreTypeOK' /\ StoreShape' /\ total' = total
      /\ \A k \in Jobs : status[k] = "absent" => status'[k] = "absent"
  <2>1. CASE TaskMark(w)
    <3>1. /\ status' = [status EXCEPT ![Job(w)] = IF status[Job(w)] = "queued" THEN "running"
                                                  ELSE status[Job(w)]]
          /\ UNCHANGED <<total, done, cancelled, links, slot>>
      BY <2>1 DEF TaskMark
    <3>2. \A k \in Jobs : /\ status'[k] \in Live <=> status[k] \in Live
                          /\ status[k] = "absent" => status'[k] = "absent"
                          /\ Filled(k)' = Filled(k)
      BY <3>1 DEF Shape, TypeOK, StoreTypeOK, Live, Active, Filled
    <3>3. StoreTypeOK'
      BY <3>1, <1>2 DEF Shape, TypeOK, StoreTypeOK, Live, Active
    <3> QED BY <3>1, <3>2, <3>3 DEF Shape, StoreShape, JobPages
  <2>2. CASE TaskWrite(w) /\ status[Job(w)] \in Live
    <3>1. WriteSlot(Job(w), Page(w), out[w]) /\ out[w] \in {"ok", "error"}
      BY <2>2 DEF TaskWrite, Shape, TypeOK, ProcessTypeOK
    <3> QED BY <1>2, <2>2, <3>1, WriteFacts DEF Shape, TypeOK, Active
  <2>3. CASE TaskWrite(w) /\ status[Job(w)] \notin Live
    <3>1. UNCHANGED store
      BY <2>3 DEF TaskWrite
    <3> QED BY <3>1, FrameStore DEF Shape, TypeOK, store
  <2> QED BY <2>1, <2>2, <2>3
<1>4. ApiTypeOK' /\ ApiShape' /\ ClientTypeOK' /\ ClientShape' /\ Stored
  BY <1>1, <1>3, FrameApiClient
<1>5. StreamTypeOK' /\ MsgShape' /\ delivered' = delivered
  BY <1>1, <1>4, FrameMsg DEF Shape, TypeOK, stream, StreamTypeOK
<1>6. out' \in [Workers -> {"ok", "error"}] /\ faults' \in 0 .. MaxFaults
  BY <1>1 DEF Shape, TypeOK, ProcessTypeOK
<1>7. ProcessTypeOK' /\ HeldShape'
  BY <1>1, <1>5, <1>6, GotoShape DEF Shape, TypeOK
<1> QED BY <1>3, <1>4, <1>5, <1>7 DEF Shape, TypeOK

\* The steps that touch the stream.
LEMMA ShapeTaskStream ==
  ASSUME Shape, NEW w \in Workers,
         Deliver(w) \/ TaskChain(w) \/ Ack(w) \/ WorkerCrash(w)
  PROVE  Shape'
<1>1. UNCHANGED <<store, api, reaper, client>>
  BY DEF Deliver, TaskChain, Ack, WorkerCrash, stream, api
<1>2. StoreTypeOK' /\ StoreShape' /\ total' = total /\ status' = status
  BY <1>1, FrameStore DEF Shape, TypeOK, store
<1>3. ApiTypeOK' /\ ApiShape' /\ ClientTypeOK' /\ ClientShape' /\ Stored
  BY <1>1, <1>2, FrameApiClient
<1>4. CASE Deliver(w)
  <2>1. /\ delivered' = delivered + 1 /\ delivered < lastId
        /\ pending' = pending \cup {delivered + 1}
        /\ held' = [held EXCEPT ![w] = delivered + 1]
        /\ pc' = [pc EXCEPT ![w] = "meta"]
        /\ UNCHANGED <<msg, lastId, out, faults>>
    BY <1>4 DEF Deliver, Goto
  <2>2. delivered \in Nat /\ lastId \in Nat /\ 1 .. delivered \subseteq 1 .. delivered'
    BY <2>1, QueueAssumption DEF Shape, TypeOK, StreamTypeOK
  <2>3. StreamTypeOK' /\ MsgShape'
    BY <1>3, <2>1, <2>2, FrameMsg DEF Shape, TypeOK, StreamTypeOK
  <2>4. 0 .. delivered \subseteq 0 .. delivered' /\ delivered + 1 \in 1 .. delivered'
    BY <2>1, <2>2
  <2>5. ProcessTypeOK'
    BY <1>1, <2>1, <2>2, <2>4 DEF Shape, TypeOK, ProcessTypeOK, TaskSteps
  <2>6. HeldShape'
    BY <2>1, <2>2 DEF Shape, TypeOK, ProcessTypeOK, HeldShape
  <2> QED BY <1>2, <1>3, <2>3, <2>5, <2>6 DEF Shape, TypeOK
<1>5. CASE TaskChain(w)
  <2>1. /\ pc[w] # "idle" /\ Goto(w, "ack") /\ UNCHANGED <<held, out, faults>>
        /\ UNCHANGED stream \/ \E n \in Pages : <<Page(w), n>> \in links[Job(w)] /\ Kiq(Job(w), n)
    BY <1>5 DEF TaskChain
  <2>2. Job(w) \in Jobs /\ ~NotCreated(Job(w))
    BY <2>1, HeldEntry DEF Shape
  <2>3. StreamTypeOK' /\ MsgShape' /\ delivered' = delivered
    <3>1. CASE UNCHANGED stream
      BY <1>3, <3>1, FrameMsg DEF Shape, TypeOK, stream, StreamTypeOK
    <3>2. ASSUME NEW n \in Pages, <<Page(w), n>> \in links[Job(w)], Kiq(Job(w), n)
          PROVE  StreamTypeOK' /\ MsgShape' /\ delivered' = delivered
      <4>1. n < total[Job(w)]
        BY <2>2, <3>2 DEF Shape, TypeOK, StoreTypeOK, StoreShape, JobPages
      <4>2. MsgShape'
        BY <1>3, <2>2, <3>2, <4>1, KiqMsg DEF Shape, TypeOK
      <4>3. StreamTypeOK' /\ delivered' = delivered
        BY <2>2, <3>2, KiqFacts DEF Shape, TypeOK
      <4> QED BY <4>2, <4>3
    <3> QED BY <2>1, <3>1, <3>2
  <2>4. out' \in [Workers -> {"ok", "error"}] /\ faults' \in 0 .. MaxFaults /\ "ack" \in TaskSteps
    BY <2>1 DEF Shape, TypeOK, ProcessTypeOK, TaskSteps
  <2>5. ProcessTypeOK' /\ HeldShape'
    BY <1>1, <2>1, <2>3, <2>4, GotoShape DEF Shape, TypeOK
  <2> QED BY <1>2, <1>3, <2>3, <2>5 DEF Shape, TypeOK
<1>6. CASE Ack(w) \/ WorkerCrash(w)
  <2>1. /\ held' = [held EXCEPT ![w] = None] /\ out' = [out EXCEPT ![w] = "error"]
        /\ pc' = [pc EXCEPT ![w] = "idle"]
        /\ UNCHANGED <<msg, lastId, delivered>> /\ pending' \subseteq pending
    BY <1>6 DEF Ack, WorkerCrash, Goto, stream
  <2>2. faults' \in 0 .. MaxFaults
    BY <1>6, FaultType DEF Ack, WorkerCrash, Shape, TypeOK, ProcessTypeOK
  <2>3. StreamTypeOK' /\ MsgShape'
    BY <1>3, <2>1, FrameMsg DEF Shape, TypeOK, StreamTypeOK
  <2>4. ProcessTypeOK' /\ HeldShape'
    BY <1>1, <2>1, <2>2 DEF Shape, TypeOK, StreamTypeOK, ProcessTypeOK, HeldShape, None
  <2> QED BY <1>2, <1>3, <2>3, <2>4 DEF Shape, TypeOK
<1> QED BY <1>4, <1>5, <1>6

LEMMA ShapeReaper ==
  ASSUME Shape,
         ReaperClaim \/ ReaperXadd \/ ReaperXack \/ ReaperCrash
           \/ \E w \in Workers : ReaperClaimSlow(w)
  PROVE  Shape'
<1>1. UNCHANGED <<store, api, worker, client>>
  BY DEF ReaperClaim, ReaperXadd, ReaperXack, ReaperCrash, ReaperClaimSlow
<1>2. StoreTypeOK' /\ StoreShape' /\ total' = total /\ status' = status
  BY <1>1, FrameStore DEF Shape, TypeOK, store
<1>3. ApiTypeOK' /\ ApiShape' /\ ClientTypeOK' /\ ClientShape' /\ Stored
  BY <1>1, <1>2, FrameApiClient
<1>4. StreamTypeOK' /\ MsgShape' /\ delivered' = delivered
  <2>1. CASE ReaperXadd
    <3>1. PICK id \in Ids : Oldest(id) /\ Kiq(msg[id].job, msg[id].page)
      BY <2>1 DEF ReaperXadd
    <3>2. id \in 1 .. lastId
      BY <3>1, QueueAssumption DEF Oldest, Shape, TypeOK, ProcessTypeOK, StreamTypeOK
    <3>3. /\ msg[id].job \in Jobs /\ msg[id].page \in Pages
          /\ msg[id].page < total[msg[id].job] /\ ~NotCreated(msg[id].job)
      BY <3>2 DEF Shape, MsgShape
    <3> QED BY <1>3, <3>1, <3>3, KiqMsg, KiqFacts DEF Shape, TypeOK
  <2>2. CASE UNCHANGED <<msg, lastId, delivered>> /\ pending' \subseteq pending
    BY <1>3, <2>2, FrameMsg DEF Shape, TypeOK, StreamTypeOK
  <2> QED BY <2>1, <2>2 DEF ReaperClaim, ReaperXack, ReaperCrash, ReaperClaimSlow, stream
<1>5. reaper' \in [at : {"idle", "xadd", "xack"}, todo : SUBSET (1 .. delivered)]
  <2>1. CASE ReaperClaim
    BY <2>1 DEF ReaperClaim, Orphans, Shape, TypeOK, StreamTypeOK
  <2>2. ASSUME NEW w \in Workers, ReaperClaimSlow(w)
        PROVE  reaper' \in [at : {"idle", "xadd", "xack"}, todo : SUBSET (1 .. delivered)]
    <3>1. {held[w]} \in SUBSET (1 .. delivered)
      BY <2>2 DEF ReaperClaimSlow, Shape, TypeOK, StreamTypeOK
    <3> QED BY <2>2, <3>1 DEF ReaperClaimSlow
  <2>3. CASE ReaperXadd
    BY <2>3 DEF ReaperXadd, Shape, TypeOK, ProcessTypeOK
  <2>4. CASE ReaperXack
    BY <2>4 DEF ReaperXack, IdleReaper, Shape, TypeOK, ProcessTypeOK
  <2>5. CASE ReaperCrash
    BY <2>5 DEF ReaperCrash, IdleReaper
  <2> QED BY <2>1, <2>2, <2>3, <2>4, <2>5
<1>6. faults' \in 0 .. MaxFaults
  BY FaultType DEF ReaperClaim, ReaperXadd, ReaperXack, ReaperCrash, ReaperClaimSlow,
                   Shape, TypeOK, ProcessTypeOK
<1>7. ProcessTypeOK' /\ HeldShape'
  BY <1>1, <1>4, <1>5, <1>6 DEF Shape, TypeOK, ProcessTypeOK, HeldShape, worker, TaskSteps
<1> QED BY <1>2, <1>3, <1>4, <1>7 DEF Shape, TypeOK

LEMMA ShapeClient ==
  ASSUME Shape, NEW c \in Clients, ClientStep(c)
  PROVE  Shape'
<1>1. UNCHANGED <<stream, api, worker, reaper, faults>>
  BY DEF ClientStep, ClientStart, ClientMeta, ClientPages, ClientUnreadable, ClientResults,
         ClientAnswer, ClientCancel, ClientUnchanged
<1> DEFINE Steps == {"idle", "meta", "pages", "results", "answer", "fill"}
           Ops == {"none", "cancel", "results"}
           Requests == [at : Steps, op : Ops, job : Jobs \cup {"none"},
                        seen : Live \cup {"absent"}, empty : SUBSET Pages]
<1>2. /\ client \in [Clients -> Requests] /\ client[c] \in Requests
      /\ client[c].at # "idle" => /\ client[c].job \in Jobs
                                  /\ sub[client[c].job] = "accepted"
                                  /\ client[c].empty \subseteq JobPages(client[c].job)
  BY DEF Shape, TypeOK, ClientTypeOK, ClientShape
\* The request after the step is well-formed and about an accepted job.
<1>3. /\ client' = [client EXCEPT ![c] = client'[c]]
      /\ client'[c] \in Requests
      /\ client'[c].at # "idle" => /\ client'[c].job \in Jobs
                                   /\ sub[client'[c].job] = "accepted"
                                   /\ client'[c].empty \subseteq JobPages(client'[c].job)
  <2> USE <1>2 DEF ClientGoes, ClientIs, Wanted
  <2>1. IdleClient \in Requests /\ IdleClient.at = "idle"
    BY DEF IdleClient
  <2>2. CASE ClientStart(c)
    <3>1. PICK op \in ClientOps, j \in Jobs :
            /\ sub[j] = "accepted"
            /\ client' = [client EXCEPT ![c] =
                 [IdleClient EXCEPT !.at = "meta", !.op = op, !.job = j]]
      BY <2>2 DEF ClientStart
    <3> DEFINE request == [IdleClient EXCEPT !.at = "meta", !.op = op, !.job = j]
    <3>2. request \in Requests /\ request.job = j /\ request.empty = {}
      BY QueueAssumption DEF IdleClient
    <3> QED BY <3>1, <3>2
  <2>3. CASE ClientMeta(c)
    <3>1. CASE status[Wanted(c)] \in Live
      BY <2>3, <3>1 DEF ClientMeta
    <3>2. CASE status[Wanted(c)] \notin Live
      BY <2>1, <2>3, <3>2 DEF ClientMeta
    <3> QED BY <3>1, <3>2
  <2>4. CASE ClientPages(c)
    BY <2>1, <2>4 DEF ClientPages
  <2>5. CASE ClientUnreadable(c)
    BY <2>1, <2>5 DEF ClientUnreadable
  <2>6. CASE ClientResults(c)
    <3>1. Wanted(c) \in Jobs /\ Unfilled(Wanted(c)) \subseteq JobPages(Wanted(c))
      BY <2>6 DEF ClientResults, Unfilled
    <3>2. Unfilled(Wanted(c)) \subseteq Pages
      BY <3>1, QueueAssumption DEF Shape, TypeOK, StoreTypeOK, JobPages, Pages
    <3> QED BY <2>6, <3>1, <3>2 DEF ClientResults
  <2>7. CASE ClientAnswer(c)
    BY <2>1, <2>7 DEF ClientAnswer
  <2>8. CASE ClientCancel(c)
    BY <2>1, <2>8 DEF ClientCancel
  <2> QED BY <2>2, <2>3, <2>4, <2>5, <2>6, <2>7, <2>8 DEF ClientStep
<1>4. /\ StoreTypeOK' /\ StoreShape' /\ total' = total
      /\ \A k \in Jobs : status[k] = "absent" => status'[k] = "absent"
  <2>1. CASE UNCHANGED store
    BY <2>1, FrameStore DEF Shape, TypeOK, store
  <2>2. CASE ClientCancel(c)
    <3>1. /\ Wanted(c) \in Jobs /\ client[c].empty \in SUBSET JobPages(Wanted(c))
          /\ CancelFill(Wanted(c), client[c].empty)
      BY <1>2, <2>2 DEF ClientCancel, ClientIs, Wanted
    <3> QED BY <3>1, CancelFacts DEF Shape, TypeOK, Active
  <2> QED BY <2>1, <2>2 DEF ClientStep, ClientStart, ClientMeta, ClientPages, ClientUnreadable,
                            ClientResults, ClientAnswer
<1>5. ApiTypeOK' /\ ApiShape' /\ Stored
  BY <1>1, <1>4, FrameApi DEF Shape, TypeOK
<1>6. StreamTypeOK' /\ MsgShape'
  BY <1>1, <1>5, FrameMsg DEF Shape, TypeOK, stream, StreamTypeOK
<1>7. ProcessTypeOK' /\ HeldShape'
  BY <1>1, FrameProcess DEF Shape, TypeOK, stream, ProcessTypeOK
<1>8. ClientTypeOK'
  BY <1>2, <1>3 DEF ClientTypeOK
<1>9. ClientShape'
  BY <1>1, <1>2, <1>3, <1>4 DEF Shape, ClientShape, JobPages, api
<1> QED BY <1>4, <1>5, <1>6, <1>7, <1>8, <1>9 DEF Shape, TypeOK

LEMMA ShapeExpire ==
  ASSUME Shape, NEW j \in Jobs, Expire(j)
  PROVE  Shape'
<1>1. UNCHANGED <<stream, api, worker, reaper, client, faults>> /\ total' = total
  BY DEF Expire
<1>2. StoreTypeOK'
  BY DEF Expire, Shape, TypeOK, StoreTypeOK
<1>3. \A k \in Jobs :
        IF k = j
        THEN /\ Filled(k)' = {} /\ done'[k] = 0 /\ ~cancelled'[k] /\ links'[k] = {}
             /\ status'[k] = "expired" /\ status[k] # "absent"
        ELSE /\ Filled(k)' = Filled(k) /\ done'[k] = done[k] /\ cancelled'[k] = cancelled[k]
             /\ links'[k] = links[k] /\ status'[k] = status[k]
  BY DEF Expire, Shape, TypeOK, StoreTypeOK, Filled, Live, Active, Terminal
<1>4. StoreShape'
  BY <1>1, <1>3 DEF Shape, StoreShape, JobPages
<1>5. ApiTypeOK' /\ ApiShape' /\ ClientTypeOK' /\ ClientShape' /\ Stored
  BY <1>1, <1>3, FrameApiClient
<1>6. StreamTypeOK' /\ MsgShape'
  BY <1>1, <1>5, FrameMsg DEF Shape, TypeOK, stream, StreamTypeOK
<1>7. ProcessTypeOK' /\ HeldShape'
  BY <1>1, FrameProcess DEF Shape, TypeOK, stream, ProcessTypeOK
<1> QED BY <1>2, <1>4, <1>5, <1>6, <1>7 DEF Shape, TypeOK

LEMMA ShapeStutter == Shape /\ UNCHANGED vars => Shape'
<1> SUFFICES ASSUME Shape, UNCHANGED vars PROVE Shape'
  OBVIOUS
<1>1. UNCHANGED <<store, stream, api, worker, reaper, client, faults>>
  BY DEF vars
<1>2. StoreTypeOK' /\ StoreShape' /\ total' = total /\ status' = status
  BY <1>1, FrameStore DEF Shape, TypeOK, store
<1>3. ApiTypeOK' /\ ApiShape' /\ ClientTypeOK' /\ ClientShape' /\ Stored
  BY <1>1, <1>2, FrameApiClient
<1>4. StreamTypeOK' /\ MsgShape'
  BY <1>1, <1>3, FrameMsg DEF Shape, TypeOK, stream, StreamTypeOK
<1>5. ProcessTypeOK' /\ HeldShape'
  BY <1>1, FrameProcess DEF Shape, TypeOK, stream, ProcessTypeOK
<1> QED BY <1>2, <1>3, <1>4, <1>5 DEF Shape, TypeOK

LEMMA ShapeNext == Shape /\ [Next]_vars => Shape'
<1> SUFFICES ASSUME Shape, [Next]_vars PROVE Shape'
  OBVIOUS
<1>1. ASSUME NEW j \in Jobs, SubmitStep(j) \/ SubmitRaises(j) \/ ApiCrash(j) \/ Expire(j)
      PROVE  Shape'
  BY <1>1, ShapeCreate, ShapeCreateRaises, ShapeSubmit, ShapeExpire DEF SubmitStep, SubmitRaises
<1>2. ASSUME NEW w \in Workers, Deliver(w) \/ TaskStep(w) \/ TaskRaises(w) \/ WorkerCrash(w)
      PROVE  Shape'
  BY <1>2, ShapeTaskRead, ShapeTaskStore, ShapeTaskStream DEF TaskStep
<1>3. ASSUME ReaperStep \/ ReaperCrash \/ \E w \in Workers : ReaperClaimSlow(w)
      PROVE  Shape'
  BY <1>3, ShapeReaper DEF ReaperStep
<1>4. ASSUME NEW c \in Clients, ClientStep(c)
      PROVE  Shape'
  BY <1>4, ShapeClient
<1> QED BY <1>1, <1>2, <1>3, <1>4, ShapeStutter DEF Next

\* In every reachable state every variable has its type, and what a process
\* holds refers to entries that were delivered, whatever the constants are.
THEOREM TypeCorrect == Spec => []TypeOK
<1>1. Shape => TypeOK
  BY DEF Shape
<1> QED BY <1>1, ShapeInit, ShapeNext, PTL DEF Spec
-----------------------------------------------------------------------------
(***************************************************************************)
(* The job store.  Every step of the pipeline does to it one of six        *)
(* things, and its invariants are preserved by each.                       *)
(***************************************************************************)

\* Nothing about job k changes in the store.
Same(k) == /\ status'[k] = status[k] /\ total'[k] = total[k] /\ done'[k] = done[k]
           /\ cancelled'[k] = cancelled[k] /\ slot'[k] = slot[k]

Created(j) == /\ NotCreated(j) /\ ~NotCreated(j)' /\ sub'[j] # "failed"
              /\ slot'[j] = slot[j] /\ done'[j] = done[j] /\ cancelled'[j] = cancelled[j]
              /\ \/ status'[j] = "queued" /\ total'[j] # 0
                 \/ status'[j] = "done" /\ total'[j] = 0

Marked(j) == /\ total'[j] = total[j] /\ slot'[j] = slot[j] /\ done'[j] = done[j]
             /\ cancelled'[j] = cancelled[j]
             /\ status[j] = "queued" /\ status'[j] = "running"

Written(j) ==
  \E p \in JobPages(j), o \in {"ok", "error"} :
    /\ status[j] \in Live /\ total'[j] = total[j] /\ cancelled'[j] = cancelled[j]
    /\ p \in Pages /\ slot'[j] = [slot[j] EXCEPT ![p] = o]
    /\ done'[j] = IF slot[j][p] = "empty" THEN done[j] + 1 ELSE done[j]
    /\ status'[j] = IF /\ status[j] \in Active /\ slot[j][p] = "empty"
                       /\ done'[j] >= total[j]
                    THEN IF cancelled[j] THEN "cancelled" ELSE "done"
                    ELSE status[j]

CancelledWith(j, S) ==
  /\ status[j] \in Active /\ total'[j] = total[j]
  /\ slot'[j] = [p \in Pages |-> IF p \in S /\ slot[j][p] = "empty" THEN "stub" ELSE slot[j][p]]
  /\ done'[j] = Cardinality(Filled(j)')
  /\ status'[j] = "cancelled" /\ cancelled'[j] = TRUE

\* The stubs the two cancelling processes bring along.
Stubs(j) == (IF sub[j] = "cancel" THEN {stubs[j]} ELSE {})
              \cup {client[c].empty : c \in {d \in Clients : /\ client[d].at = "fill"
                                                             /\ client[d].job = j}}

Expired(j) == /\ status[j] \in Live /\ status'[j] = "expired" /\ total'[j] = total[j]
              /\ done'[j] = 0 /\ cancelled'[j] = FALSE
              /\ slot'[j] = [p \in Pages |-> "empty"]

StoreEffect(j) == \/ Same(j) \/ Created(j) \/ Marked(j) \/ Written(j) \/ Expired(j)
                  \/ \E S \in Stubs(j) : CancelledWith(j, S)

LEMMA CancelEffect ==
  ASSUME TypeOK, NEW j \in Jobs, NEW S \in Stubs(j), CancelFill(j, S), NEW k \in Jobs
  PROVE  Same(k) \/ (k = j /\ CancelledWith(k, S))
<1>1. CASE status[j] \notin Active
  BY <1>1 DEF CancelFill, store, Same
<1>2. CASE status[j] \in Active
  <2> DEFINE filled == [p \in Pages |->
                          IF p \in S /\ slot[j][p] = "empty" THEN "stub" ELSE slot[j][p]]
  <2>1. /\ cancelled' = [cancelled EXCEPT ![j] = TRUE]
        /\ slot' = [slot EXCEPT ![j] = filled]
        /\ done' = [done EXCEPT ![j] = Cardinality({p \in Pages : filled[p] # "empty"})]
        /\ status' = [status EXCEPT ![j] = "cancelled"]
        /\ total' = total
    BY <1>2 DEF CancelFill
  <2> HIDE DEF filled
  <2>2. CASE k # j
    BY <2>1, <2>2 DEF TypeOK, StoreTypeOK, Same
  <2>3. CASE k = j
    <3>1. slot'[k] = filled
      BY <2>1, <2>3 DEF TypeOK, StoreTypeOK
    <3>2. Filled(k)' = {p \in Pages : filled[p] # "empty"}
      BY <3>1 DEF Filled
    <3>3. /\ cancelled'[k] = TRUE /\ status'[k] = "cancelled" /\ total'[k] = total[k]
          /\ done'[k] = Cardinality(Filled(k)')
      BY <2>1, <2>3, <3>2 DEF TypeOK, StoreTypeOK
    <3> QED BY <1>2, <2>3, <3>1, <3>3 DEF CancelledWith, filled
  <2> QED BY <2>2, <2>3
<1> QED BY <1>1, <1>2

LEMMA WriteEffect ==
  ASSUME TypeOK, NEW j \in Jobs, NEW p \in JobPages(j), p \in Pages, NEW o \in {"ok", "error"},
         status[j] \in Live, WriteSlot(j, p, o), NEW k \in Jobs
  PROVE  Same(k) \/ (k = j /\ Written(k))
<1>1. CASE k # j
  BY <1>1 DEF WriteSlot, TypeOK, StoreTypeOK, Same
<1>2. CASE k = j
  <2>1. /\ total'[k] = total[k] /\ cancelled'[k] = cancelled[k]
        /\ slot'[k] = [slot[k] EXCEPT ![p] = o]
        /\ done'[k] = IF slot[k][p] = "empty" THEN done[k] + 1 ELSE done[k]
    BY <1>2 DEF WriteSlot, TypeOK, StoreTypeOK
  <2>2. status'[k] = IF /\ status[k] \notin Terminal /\ slot[k][p] = "empty"
                        /\ done'[k] >= total[k]
                     THEN IF cancelled[k] THEN "cancelled" ELSE "done"
                     ELSE status[k]
    BY <1>2 DEF WriteSlot, TypeOK, StoreTypeOK
  <2>3. status[k] \notin Terminal <=> status[k] \in Active
    BY <1>2 DEF Live, Active, Terminal
  <2> QED BY <1>2, <2>1, <2>2, <2>3 DEF Written
<1> QED BY <1>1, <1>2

LEMMA StoreEffects ==
  ASSUME Shape, [Next]_vars, NEW k \in Jobs
  PROVE  StoreEffect(k)
<1>1. CASE UNCHANGED store
  BY <1>1 DEF store, StoreEffect, Same
<1>2. ASSUME NEW j \in Jobs, sub[j] = "create", NEW n \in 0 .. MaxPages, NEW s, CreateBatch(j, n, s),
             NEW t \in {"fanout", "lost"}, sub' = [sub EXCEPT ![j] = t]
      PROVE  StoreEffect(k)
  <2>1. UNCHANGED <<done, cancelled, slot>>
    BY <1>2 DEF CreateBatch
  <2>2. /\ total' = [total EXCEPT ![j] = n]
        /\ status' = [status EXCEPT ![j] = IF n = 0 THEN "done" ELSE "queued"]
    BY <1>2 DEF CreateBatch
  <2>3. CASE k # j
    BY <2>1, <2>2, <2>3 DEF Shape, TypeOK, StoreTypeOK, StoreEffect, Same
  <2>4. CASE k = j
    BY <1>2, <2>1, <2>2, <2>4
       DEF Shape, TypeOK, StoreTypeOK, ApiTypeOK, StoreEffect, Created, NotCreated
  <2> QED BY <2>3, <2>4
<1>3. ASSUME NEW w \in Workers, TaskMark(w)
      PROVE  StoreEffect(k)
  <2>1. Job(w) \in Jobs
    BY <1>3, HeldEntry DEF Shape, TaskMark
  <2>2. UNCHANGED <<total, done, cancelled, slot>>
    BY <1>3 DEF TaskMark
  <2>3. status'[k] = status[k] \/ (status[k] = "queued" /\ status'[k] = "running")
    BY <1>3, <2>1 DEF TaskMark, Shape, TypeOK, StoreTypeOK
  <2> QED BY <2>2, <2>3 DEF StoreEffect, Same, Marked
<1>4. ASSUME NEW w \in Workers, TaskWrite(w)
      PROVE  StoreEffect(k)
  <2>1. Job(w) \in Jobs /\ Page(w) \in JobPages(Job(w)) /\ Page(w) \in Pages
        /\ out[w] \in {"ok", "error"}
    BY <1>4, HeldEntry DEF Shape, TypeOK, ProcessTypeOK, TaskWrite
  <2>2. CASE status[Job(w)] \in Live
    <3>1. WriteSlot(Job(w), Page(w), out[w])
      BY <1>4, <2>2 DEF TaskWrite
    <3> QED BY <2>1, <2>2, <3>1, WriteEffect DEF Shape, StoreEffect
  <2>3. CASE status[Job(w)] \notin Live
    BY <1>1, <1>4, <2>3 DEF TaskWrite
  <2> QED BY <2>2, <2>3
<1>5. ASSUME NEW j \in Jobs, NEW S \in Stubs(j), CancelFill(j, S)
      PROVE  StoreEffect(k)
  BY <1>5, CancelEffect DEF Shape, StoreEffect
<1>6. ASSUME NEW j \in Jobs, Expire(j)
      PROVE  StoreEffect(k)
  BY <1>6 DEF Expire, Shape, TypeOK, StoreTypeOK, StoreEffect, Same, Expired
<1>7. ASSUME NEW j \in Jobs, SubmitCancel(j) \/ SubmitConvergeRaises(j)
      PROVE  StoreEffect(k)
  BY <1>1, <1>5, <1>7 DEF SubmitCancel, SubmitConvergeRaises, Stubs
<1>8. ASSUME NEW c \in Clients, ClientCancel(c)
      PROVE  StoreEffect(k)
  <2>1. /\ client[c].at = "fill" /\ client[c].job \in Jobs
        /\ CancelFill(client[c].job, client[c].empty)
    BY <1>8 DEF ClientCancel, ClientIs, Wanted, Shape, ClientShape
  <2>2. client[c].empty \in Stubs(client[c].job)
    BY <2>1 DEF Stubs
  <2> QED BY <1>5, <2>1, <2>2
<1>9. ASSUME NEW j \in Jobs, SubmitStep(j) \/ SubmitRaises(j) \/ ApiCrash(j)
      PROVE  StoreEffect(k)
  <2>1. CASE SubmitCreate(j)
    BY <1>2, <2>1 DEF SubmitCreate
  <2>2. CASE SubmitCreateRaises(j)
    BY <1>1, <1>2, <2>2 DEF SubmitCreateRaises
  <2> QED BY <1>1, <1>7, <1>9, <2>1, <2>2
          DEF SubmitStep, SubmitCheck, SubmitKiq, SubmitReturn, SubmitConverge, SubmitRaises,
              SubmitKiqRaises, ApiCrash
<1>10. ASSUME NEW w \in Workers, Deliver(w) \/ TaskStep(w) \/ TaskRaises(w) \/ WorkerCrash(w)
                                   \/ ReaperClaimSlow(w)
       PROVE  StoreEffect(k)
  BY <1>1, <1>3, <1>4, <1>10 DEF TaskStep, Deliver, TaskMeta, TaskSlot, TaskPage, TaskScrape,
                         TaskRemeta, TaskChain, Ack, TaskRaises, WorkerCrash, ReaperClaimSlow,
                         ReadOnly
<1>11. ASSUME ReaperStep \/ ReaperCrash
       PROVE  StoreEffect(k)
  BY <1>1, <1>11 DEF ReaperStep, ReaperClaim, ReaperXadd, ReaperXack, ReaperCrash
<1>12. ASSUME NEW c \in Clients, ClientStep(c)
       PROVE  StoreEffect(k)
  BY <1>1, <1>8, <1>12 DEF ClientStep, ClientStart, ClientMeta, ClientPages, ClientUnreadable,
                           ClientResults, ClientAnswer
<1>13. CASE UNCHANGED vars
  BY <1>1, <1>13 DEF vars
<1> QED BY <1>6, <1>9, <1>10, <1>11, <1>12, <1>13 DEF Next

\* The counter and the flag agree with the slots and the status, and a job
\* that is done has no empty slot.
StoreInv == DoneCountsSlots /\ DoneIsFull /\ FlagIsStatus

LEMMA IntervalSize ==
  ASSUME NEW n \in Nat
  PROVE  IsFiniteSet(0 .. n - 1) /\ Cardinality(0 .. n - 1) = n
<1>1. n - 1 \in Int
  OBVIOUS
<1> QED BY <1>1, FS_Interval

\* A job with as many slots as pages has no empty one.
LEMMA FilledFacts ==
  ASSUME TypeOK, NEW j \in Jobs, Filled(j) \subseteq JobPages(j)
  PROVE  /\ IsFiniteSet(JobPages(j)) /\ Cardinality(JobPages(j)) = total[j]
         /\ IsFiniteSet(Filled(j)) /\ Cardinality(Filled(j)) \in Nat
         /\ Cardinality(Filled(j)) <= total[j]
         /\ Cardinality(Filled(j)) >= total[j] => Unfilled(j) = {}
<1>1. total[j] \in Nat /\ total[j] <= MaxPages
  BY QueueAssumption DEF TypeOK, StoreTypeOK
<1>2. IsFiniteSet(JobPages(j)) /\ Cardinality(JobPages(j)) = total[j]
  BY <1>1, IntervalSize DEF JobPages
<1>3. /\ IsFiniteSet(Filled(j)) /\ Cardinality(Filled(j)) <= Cardinality(JobPages(j))
      /\ Cardinality(Filled(j)) = Cardinality(JobPages(j)) => Filled(j) = JobPages(j)
  BY <1>2, FS_Subset
<1>4. Cardinality(Filled(j)) \in Nat
  BY <1>3, FS_CardinalityType
<1>5. Filled(j) = JobPages(j) => Unfilled(j) = {}
  BY DEF Filled, Unfilled
<1> QED BY <1>1, <1>2, <1>3, <1>4, <1>5

\* Effect of a slot write on the counter and on the filled pages.
LEMMA WrittenFacts ==
  ASSUME Shape, Shape', NEW j \in Jobs, DoneCountsSlots, Written(j)
  PROVE  /\ done'[j] = Cardinality(Filled(j)')
         /\ Unfilled(j)' \subseteq Unfilled(j)
         /\ done'[j] >= total[j] => Unfilled(j)' = {}
<1>1. PICK p \in JobPages(j), o \in {"ok", "error"} :
        /\ status[j] \in Live /\ total'[j] = total[j]
        /\ p \in Pages /\ slot'[j] = [slot[j] EXCEPT ![p] = o]
        /\ done'[j] = IF slot[j][p] = "empty" THEN done[j] + 1 ELSE done[j]
  BY DEF Written
<1>2. /\ Filled(j)' = Filled(j) \cup {p}
      /\ p \in Filled(j) <=> slot[j][p] # "empty"
  BY <1>1 DEF Filled, Shape, TypeOK, StoreTypeOK
<1>3. IsFiniteSet(Filled(j)) /\ done[j] = Cardinality(Filled(j))
  BY FilledFacts DEF Shape, StoreShape, DoneCountsSlots
<1>4. done'[j] = Cardinality(Filled(j)')
  <2>1. Cardinality(Filled(j) \cup {p}) = IF p \in Filled(j) THEN Cardinality(Filled(j))
                                          ELSE Cardinality(Filled(j)) + 1
    BY <1>3, FS_AddElement
  <2> QED BY <1>1, <1>2, <1>3, <2>1
<1>5. (Cardinality(Filled(j)) >= total[j] => Unfilled(j) = {})'
  <2>1. TypeOK' /\ (Filled(j) \subseteq JobPages(j))'
    BY DEF Shape, StoreShape
  <2>2. /\ total'[j] \in Nat /\ total'[j] <= MaxPages
        /\ IsFiniteSet(JobPages(j)') /\ Cardinality(JobPages(j)') = total'[j]
    <3>1. total'[j] \in Nat /\ total'[j] <= MaxPages
      BY <2>1, QueueAssumption DEF TypeOK, StoreTypeOK
    <3> QED BY <3>1, IntervalSize DEF JobPages
  <2>3. /\ Cardinality(Filled(j)') <= Cardinality(JobPages(j)')
        /\ Cardinality(Filled(j)') = Cardinality(JobPages(j)') => Filled(j)' = JobPages(j)'
        /\ IsFiniteSet(Filled(j)')
    BY <2>1, <2>2, FS_Subset
  <2>4. Cardinality(Filled(j)') \in Nat
    BY <2>3, FS_CardinalityType
  <2>5. Filled(j)' = JobPages(j)' => Unfilled(j)' = {}
    BY DEF Filled, Unfilled
  <2> QED BY <2>2, <2>3, <2>4, <2>5
<1>6. Unfilled(j)' \subseteq Unfilled(j)
  BY <1>1 DEF Unfilled, JobPages, Pages, Shape, TypeOK, StoreTypeOK
<1> QED BY <1>1, <1>4, <1>5, <1>6

LEMMA StoreInvStep ==
  ASSUME Shape, Shape', StoreInv, \A k \in Jobs : StoreEffect(k)
  PROVE  StoreInv'
<1> SUFFICES ASSUME NEW j \in Jobs
             PROVE  /\ done'[j] = Cardinality(Filled(j)')
                    /\ status'[j] = "done" => Unfilled(j)' = {}
                    /\ cancelled'[j] <=> status'[j] = "cancelled"
  BY DEF StoreInv, DoneCountsSlots, DoneIsFull, FlagIsStatus
<1>1. /\ done[j] = Cardinality(Filled(j))
      /\ status[j] = "done" => Unfilled(j) = {}
      /\ cancelled[j] <=> status[j] = "cancelled"
  BY DEF StoreInv, DoneCountsSlots, DoneIsFull, FlagIsStatus
<1>2. CASE Same(j)
  BY <1>1, <1>2 DEF Same, Filled, Unfilled, JobPages
<1>3. CASE Created(j)
  <2>1. status[j] = "absent"
    BY <1>3 DEF Created, Shape, ApiShape
  <2>2. total'[j] = 0 => JobPages(j)' = {}
    BY DEF JobPages
  <2> QED BY <1>1, <1>3, <2>1, <2>2 DEF Created, Filled, Unfilled
<1>4. CASE Marked(j)
  BY <1>1, <1>4 DEF Marked, Filled, Unfilled, JobPages
<1>5. CASE Written(j)
  <2>1. /\ done'[j] = Cardinality(Filled(j)') /\ Unfilled(j)' \subseteq Unfilled(j)
        /\ done'[j] >= total[j] => Unfilled(j)' = {}
    BY <1>5, WrittenFacts DEF StoreInv
  <2>2. /\ cancelled'[j] = cancelled[j]
        /\ \/ status'[j] = status[j]
           \/ /\ status[j] \in Active /\ done'[j] >= total[j]
              /\ status'[j] = IF cancelled[j] THEN "cancelled" ELSE "done"
    BY <1>5 DEF Written
  <2> QED BY <1>1, <2>1, <2>2 DEF Active
<1>6. CASE \E S \in Stubs(j) : CancelledWith(j, S)
  BY <1>6 DEF CancelledWith
<1>7. CASE Expired(j)
  <2>1. Filled(j)' = {}
    BY <1>7 DEF Expired, Filled
  <2> QED BY <1>7, <2>1, FS_EmptySet DEF Expired
<1> QED BY <1>2, <1>3, <1>4, <1>5, <1>6, <1>7 DEF StoreEffect

LEMMA StoreInvInit == Init => StoreInv
<1> SUFFICES ASSUME Init PROVE StoreInv
  OBVIOUS
<1>1. \A j \in Jobs : Filled(j) = {} /\ done[j] = 0 /\ ~cancelled[j] /\ status[j] = "absent"
  BY DEF Init, Filled
<1> QED BY <1>1, FS_EmptySet DEF StoreInv, DoneCountsSlots, DoneIsFull, FlagIsStatus

\* Shape and the store's invariants, together.
Sound == Shape /\ StoreInv

LEMMA SoundInvariant == Spec => []Sound
<1>1. Init => Sound
  BY ShapeInit, StoreInvInit DEF Sound
<1>2. Sound /\ [Next]_vars => Sound'
  BY ShapeNext, StoreEffects, StoreInvStep DEF Sound
<1> QED BY <1>1, <1>2, PTL DEF Spec

\* Exactly-once counting: whatever is delivered twice, cancelled or raced, the
\* counter is the number of slots.
THEOREM CountsAreExact == Spec => []DoneCountsSlots
<1>1. Sound => DoneCountsSlots
  BY DEF Sound, StoreInv
<1> QED BY <1>1, SoundInvariant, PTL

\* The write that finalizes a job is the one that fills its last slot: a job
\* reported done has them all.
THEOREM DoneJobsAreFull == Spec => []DoneIsFull
<1>1. Sound => DoneIsFull
  BY DEF Sound, StoreInv
<1> QED BY <1>1, SoundInvariant, PTL

\* The flag the tasks look at and the status the clients look at never part.
THEOREM FlagFollowsStatus == Spec => []FlagIsStatus
<1>1. Sound => FlagIsStatus
  BY DEF Sound, StoreInv
<1> QED BY <1>1, SoundInvariant, PTL

\* No step takes a job out of a terminal status, except the expiry of its keys.
THEOREM TerminalStays == Spec => TerminalIsFinal
<1>1. Sound /\ [Next]_vars =>
        [\A j \in Jobs : status[j] \in Terminal => status'[j] \in {status[j], "expired"}]_vars
  <2> SUFFICES ASSUME Sound, [Next]_vars, NEW j \in Jobs, status[j] \in Terminal
               PROVE  status'[j] \in {status[j], "expired"}
    OBVIOUS
  <2>1. StoreEffect(j)
    BY StoreEffects DEF Sound
  <2>2. ~Created(j)
    BY DEF Sound, Shape, ApiShape, Created, Terminal
  <2>3. CASE Written(j)
    BY <2>3 DEF Written, Active, Terminal
  <2> QED BY <2>1, <2>2, <2>3
          DEF StoreEffect, Same, Marked, CancelledWith, Expired, Active, Terminal
<1> QED BY <1>1, SoundInvariant, PTL DEF Spec, TerminalIsFinal

\* Results survive: no step empties a slot of a live job or puts a stub over a
\* page's own result.
THEOREM ResultsSurvive == Spec => ResultsKept
<1>1. Sound /\ [Next]_vars =>
        [\A j \in Jobs : status'[j] \in Live => \A p \in Pages :
           /\ slot[j][p] # "empty" => slot'[j][p] # "empty"
           /\ slot[j][p] \in {"ok", "error"} => slot'[j][p] # "stub"]_vars
  <2> SUFFICES ASSUME Sound, [Next]_vars, NEW j \in Jobs, status'[j] \in Live, NEW p \in Pages
               PROVE  /\ slot[j][p] # "empty" => slot'[j][p] # "empty"
                      /\ slot[j][p] \in {"ok", "error"} => slot'[j][p] # "stub"
    OBVIOUS
  <2>1. StoreEffect(j)
    BY StoreEffects DEF Sound
  <2>2. CASE Same(j) \/ Created(j) \/ Marked(j)
    BY <2>2 DEF Same, Created, Marked
  <2>3. CASE Written(j)
    BY <2>3 DEF Written, Sound, Shape, TypeOK, StoreTypeOK
  <2>4. CASE \E S \in Stubs(j) : CancelledWith(j, S)
    BY <2>4 DEF CancelledWith
  <2>5. ~Expired(j)
    BY DEF Expired, Live, Active, Terminal
  <2> QED BY <2>1, <2>2, <2>3, <2>4, <2>5 DEF StoreEffect
<1> QED BY <1>1, SoundInvariant, PTL DEF Spec, ResultsKept
-----------------------------------------------------------------------------
(***************************************************************************)
(* Cancelling.  The stubs a cancelling process brings along were computed  *)
(* from a snapshot; they still cover every empty slot when the script runs *)
(* because slots are only ever filled in between.                          *)
(***************************************************************************)

\* Where the stubs of a submit coroutine about to cancel come from.
LEMMA SubmitSnapshot ==
  ASSUME Shape, [Next]_vars, NEW j \in Jobs, sub'[j] = "cancel"
  PROVE  \/ sub[j] = "cancel" /\ stubs'[j] = stubs[j]
         \/ /\ UNCHANGED store /\ status[j] \in Live
            /\ SchemaSkew \/ stubs'[j] = Unfilled(j)
<1>1. CASE UNCHANGED api
  BY <1>1 DEF api
<1>2. ASSUME NEW k \in Jobs, SubmitStep(k) \/ SubmitRaises(k) \/ ApiCrash(k)
      PROVE  \/ sub[j] = "cancel" /\ stubs'[j] = stubs[j]
             \/ /\ UNCHANGED store /\ status[j] \in Live
                /\ SchemaSkew \/ stubs'[j] = Unfilled(j)
  <2>1. /\ sub \in [Jobs -> {"new", "create", "fanout", "converge", "cancel",
                             "accepted", "rejected", "failed", "lost", "crashed"}]
        /\ stubs \in [Jobs -> SUBSET Pages]
    BY DEF Shape, TypeOK, ApiTypeOK
  <2>2. CASE k # j
    BY <1>2, <2>1, <2>2 DEF SubmitStep, SubmitCheck, SubmitCreate, SubmitKiq, SubmitReturn,
                            SubmitConverge, SubmitCancel, ApiCrash,
                            SubmitRaises, SubmitCreateRaises, SubmitKiqRaises, SubmitConvergeRaises
  <2>3. CASE k = j /\ ~SubmitConverge(k)
    <3>1. sub'[j] # "cancel" \/ (sub'[j] = sub[j] /\ stubs'[j] = stubs[j])
      BY <1>2, <2>1, <2>3 DEF SubmitStep, SubmitCheck, SubmitCreate, SubmitKiq, SubmitReturn,
                              SubmitCancel, ApiCrash, SubmitRaises, SubmitCreateRaises,
                              SubmitKiqRaises, SubmitConvergeRaises
    <3> QED BY <3>1
  <2>4. CASE k = j /\ SubmitConverge(k)
    BY <2>1, <2>4 DEF SubmitConverge
  <2> QED BY <2>2, <2>3, <2>4
<1>3. ASSUME NEW k \in Jobs, Expire(k)
      PROVE  UNCHANGED api
  BY <1>3 DEF Expire
<1>4. ASSUME NEW w \in Workers, Deliver(w) \/ TaskStep(w) \/ TaskRaises(w) \/ WorkerCrash(w)
                                  \/ ReaperClaimSlow(w)
      PROVE  UNCHANGED api
  BY <1>4 DEF TaskStep, Deliver, TaskMeta, TaskSlot, TaskMark, TaskPage, TaskScrape, TaskWrite,
              TaskRemeta, TaskChain, Ack, TaskRaises, WorkerCrash, ReaperClaimSlow, ReadOnly
<1>5. ASSUME ReaperStep \/ ReaperCrash
      PROVE  UNCHANGED api
  BY <1>5 DEF ReaperStep, ReaperClaim, ReaperXadd, ReaperXack, ReaperCrash
<1>6. ASSUME NEW c \in Clients, ClientStep(c)
      PROVE  UNCHANGED api
  BY <1>6 DEF ClientStep, ClientStart, ClientMeta, ClientPages, ClientUnreadable,
              ClientResults, ClientAnswer, ClientCancel, ClientUnchanged
<1>7. UNCHANGED vars => UNCHANGED api
  BY DEF vars
<1> QED BY <1>1, <1>2, <1>3, <1>4, <1>5, <1>6, <1>7 DEF Next

\* Where the stubs of a client about to cancel come from.
LEMMA ClientSnapshot ==
  ASSUME Shape, [Next]_vars, NEW c \in Clients, client'[c].at = "fill"
  PROVE  \/ client[c].at = "fill" /\ client'[c] = client[c]
         \/ /\ UNCHANGED store
            /\ client'[c].job = client[c].job /\ client[c].at # "idle"
            /\ SchemaSkew \/ client'[c].empty = Unfilled(client[c].job)
<1>1. CASE UNCHANGED client
  BY <1>1
<1>2. ASSUME NEW d \in Clients, ClientStep(d)
      PROVE  \/ client[c].at = "fill" /\ client'[c] = client[c]
             \/ /\ UNCHANGED store
                /\ client'[c].job = client[c].job /\ client[c].at # "idle"
                /\ SchemaSkew \/ client'[c].empty = Unfilled(client[c].job)
  <2> USE DEF ClientGoes, ClientIs, Wanted
  <2> DEFINE Steps == {"idle", "meta", "pages", "results", "answer", "fill"}
             Requests == [at : Steps, op : {"none", "cancel", "results"}, job : Jobs \cup {"none"},
                          seen : Live \cup {"absent"}, empty : SUBSET Pages]
  <2>1. client \in [Clients -> Requests]
    BY DEF Shape, TypeOK, ClientTypeOK
  <2>2. IdleClient.at = "idle"
    BY DEF IdleClient
  <2>3. CASE d # c
    <3>1. client'[c] = client[c]
      BY <1>2, <2>1, <2>3 DEF ClientStep, ClientStart, ClientMeta, ClientPages, ClientUnreadable,
                         ClientResults, ClientAnswer, ClientCancel
    <3> QED BY <3>1
  <2>4. CASE d = c /\ ClientResults(d)
    BY <2>1, <2>4 DEF ClientResults
  <2>5. CASE d = c /\ ClientUnreadable(d)
    BY <2>1, <2>2, <2>5 DEF ClientUnreadable
  <2>6. CASE d = c /\ (ClientAnswer(d) \/ ClientCancel(d))
    BY <2>1, <2>2, <2>6 DEF ClientAnswer, ClientCancel
  <2>7. CASE d = c /\ (ClientMeta(d) \/ ClientPages(d))
    <3>1. CASE ClientMeta(d)
      BY <2>1, <2>2, <2>7, <3>1 DEF ClientMeta
    <3>2. CASE ClientPages(d)
      BY <2>1, <2>2, <2>7, <3>2 DEF ClientPages
    <3> QED BY <2>7, <3>1, <3>2
  <2>8. CASE d = c /\ ClientStart(d)
    <3>1. PICK op \in ClientOps, j \in Jobs :
            client' = [client EXCEPT ![c] = [IdleClient EXCEPT !.at = "meta", !.op = op, !.job = j]]
      BY <2>8 DEF ClientStart
    <3> QED BY <2>1, <3>1 DEF IdleClient
  <2> QED BY <1>2, <2>3, <2>4, <2>5, <2>6, <2>7, <2>8 DEF ClientStep
<1>3. ASSUME NEW k \in Jobs, SubmitStep(k) \/ SubmitRaises(k) \/ ApiCrash(k) \/ Expire(k)
      PROVE  UNCHANGED client
  BY <1>3 DEF SubmitStep, SubmitCheck, SubmitCreate, SubmitKiq, SubmitReturn, SubmitRaises,
              SubmitCreateRaises, SubmitKiqRaises, SubmitConvergeRaises, SubmitConverge, SubmitCancel, ApiCrash, Expire
<1>4. ASSUME NEW w \in Workers, Deliver(w) \/ TaskStep(w) \/ TaskRaises(w) \/ WorkerCrash(w)
                                  \/ ReaperClaimSlow(w)
      PROVE  UNCHANGED client
  BY <1>4 DEF TaskStep, Deliver, TaskMeta, TaskSlot, TaskMark, TaskPage, TaskScrape, TaskWrite,
              TaskRemeta, TaskChain, Ack, TaskRaises, WorkerCrash, ReaperClaimSlow, ReadOnly
<1>5. ASSUME ReaperStep \/ ReaperCrash
      PROVE  UNCHANGED client
  BY <1>5 DEF ReaperStep, ReaperClaim, ReaperXadd, ReaperXack, ReaperCrash
<1>6. UNCHANGED vars => UNCHANGED client
  BY DEF vars
<1> QED BY <1>1, <1>2, <1>3, <1>4, <1>5, <1>6 DEF Next

\* While a job lives its empty slots only become fewer.
LEMMA UnfilledShrinks ==
  ASSUME Shape, Shape', NEW j \in Jobs, StoreEffect(j), ~NotCreated(j), status'[j] \in Live
  PROVE  status[j] \in Live /\ Unfilled(j)' \subseteq Unfilled(j)
<1>1. CASE Same(j) \/ Marked(j)
  BY <1>1 DEF Same, Marked, Unfilled, JobPages, Live, Active
<1>2. CASE Written(j)
  BY <1>2 DEF Written, Unfilled, JobPages, Pages, Shape, TypeOK, StoreTypeOK
<1>3. CASE \E S \in Stubs(j) : CancelledWith(j, S)
  <2>1. JobPages(j) \subseteq Pages /\ total'[j] = total[j] /\ status[j] \in Live
    BY <1>3, QueueAssumption
       DEF CancelledWith, JobPages, Pages, Shape, TypeOK, StoreTypeOK, Live
  <2> QED BY <1>3, <2>1 DEF CancelledWith, Unfilled, JobPages
<1>4. ~Created(j) /\ ~Expired(j)
  BY DEF Created, Expired, Live, Active, Terminal
<1> QED BY <1>1, <1>2, <1>3, <1>4 DEF StoreEffect

\* What is about to be stubbed covers what is empty.
Snapshots ==
  /\ \A j \in Jobs : sub[j] = "cancel" /\ status[j] \in Live => Unfilled(j) \subseteq stubs[j]
  /\ \A c \in Clients : client[c].at = "fill" /\ status[client[c].job] \in Live =>
                          Unfilled(client[c].job) \subseteq client[c].empty

LEMMA SnapshotsStep ==
  ASSUME ~SchemaSkew, Shape, Shape', Snapshots, [Next]_vars
  PROVE  Snapshots'
<1>1. ASSUME NEW j \in Jobs, sub'[j] = "cancel", status'[j] \in Live
      PROVE  Unfilled(j)' \subseteq stubs'[j]
  <2>1. CASE sub[j] = "cancel" /\ stubs'[j] = stubs[j]
    <3>1. status[j] \in Live /\ Unfilled(j)' \subseteq Unfilled(j)
      BY <1>1, <2>1, StoreEffects, UnfilledShrinks DEF NotCreated
    <3> QED BY <2>1, <3>1 DEF Snapshots
  <2>2. CASE UNCHANGED store /\ stubs'[j] = Unfilled(j)
    BY <2>2 DEF store, Unfilled, JobPages
  <2> QED BY <1>1, <2>1, <2>2, SubmitSnapshot
<1>2. ASSUME NEW c \in Clients, client'[c].at = "fill", status'[client'[c].job] \in Live
      PROVE  (Unfilled(client[c].job) \subseteq client[c].empty)'
  <2>1. client'[c].job = client[c].job /\ client[c].at # "idle"
    BY <1>2, ClientSnapshot
  <2>2. PICK j \in Jobs : j = client[c].job /\ ~NotCreated(j)
    BY <2>1 DEF Shape, ClientShape, NotCreated
  <2>3. CASE client[c].at = "fill" /\ client'[c] = client[c]
    <3>1. status[j] \in Live /\ Unfilled(j)' \subseteq Unfilled(j)
      BY <1>2, <2>1, <2>2, StoreEffects, UnfilledShrinks
    <3>2. Unfilled(j) \subseteq client[c].empty
      BY <2>2, <2>3, <3>1 DEF Snapshots
    <3> QED BY <2>1, <2>2, <2>3, <3>1, <3>2
  <2>4. CASE UNCHANGED store /\ client'[c].empty = Unfilled(j)
    <3>1. Unfilled(j)' = Unfilled(j)
      BY <2>4 DEF store, Unfilled, JobPages
    <3> QED BY <2>1, <2>2, <2>4, <3>1
  <2> QED BY <1>2, <2>2, <2>3, <2>4, ClientSnapshot
<1> QED BY <1>1, <1>2 DEF Snapshots

LEMMA CancelledIsFullStep ==
  ASSUME Sound, Shape', Snapshots, CancelledIsFull, [Next]_vars
  PROVE  CancelledIsFull'
<1> SUFFICES ASSUME NEW j \in Jobs, status'[j] = "cancelled"
             PROVE  Unfilled(j)' = {}
  BY DEF CancelledIsFull
<1>1. StoreEffect(j)
  BY StoreEffects DEF Sound
<1>2. ~Created(j) /\ ~Marked(j) /\ ~Expired(j) /\ status'[j] \in Live
  BY DEF Created, Marked, Expired, Live, Terminal
<1>3. CASE Same(j) \/ Written(j)
  <2>1. status[j] = "cancelled"
    BY <1>3 DEF Same, Written, Sound, StoreInv, FlagIsStatus, Active
  <2>2. ~NotCreated(j)
    BY <2>1 DEF Sound, Shape, ApiShape
  <2>3. Unfilled(j)' \subseteq Unfilled(j)
    BY <1>1, <1>2, <2>2, UnfilledShrinks DEF Sound
  <2> QED BY <2>1, <2>3 DEF CancelledIsFull
<1>4. ASSUME NEW S \in Stubs(j), CancelledWith(j, S)
      PROVE  Unfilled(j)' = {}
  <2>1. status[j] \in Live
    BY <1>4 DEF CancelledWith, Live
  <2>2. Unfilled(j) \subseteq S
    BY <1>4, <2>1 DEF Stubs, Snapshots
  <2>3. JobPages(j) \subseteq Pages /\ JobPages(j)' = JobPages(j)
    BY <1>4, QueueAssumption
       DEF CancelledWith, JobPages, Pages, Sound, Shape, TypeOK, StoreTypeOK
  <2>4. \A p \in JobPages(j) : slot'[j][p] # "empty"
    BY <1>4, <2>2, <2>3 DEF CancelledWith, Unfilled
  <2> QED BY <2>3, <2>4 DEF Unfilled
<1> QED BY <1>1, <1>2, <1>3, <1>4 DEF StoreEffect

\* As long as the API can read the page specs, a cancelled job is full: the
\* stubs computed from an older snapshot still cover what is empty.
THEOREM CancelledJobsAreFull ==
  ASSUME ~SchemaSkew
  PROVE  Spec => []CancelledIsFull
<1> DEFINE Inv == Sound /\ Snapshots /\ CancelledIsFull
<1>1. Init => Inv
  <2>1. Init => Sound
    BY ShapeInit, StoreInvInit DEF Sound
  <2>2. Init => Snapshots /\ CancelledIsFull
    BY DEF Init, Snapshots, CancelledIsFull, IdleClient
  <2> QED BY <2>1, <2>2
<1>2. Inv /\ [Next]_vars => Inv'
  <2> SUFFICES ASSUME Inv, [Next]_vars PROVE Inv'
    OBVIOUS
  <2>1. Sound'
    BY ShapeNext, StoreEffects, StoreInvStep DEF Sound
  <2> QED BY <2>1, SnapshotsStep, CancelledIsFullStep DEF Sound
<1>3. Inv => CancelledIsFull
  OBVIOUS
<1> QED BY <1>1, <1>2, <1>3, PTL DEF Spec
-----------------------------------------------------------------------------
\* Faults are counted and never forgotten.
LEMMA FaultsGrow ==
  ASSUME Shape, [Next]_vars
  PROVE  faults \in Nat /\ faults' \in Nat /\ faults' >= faults
<1>0. faults \in Nat
  BY QueueAssumption DEF Shape, TypeOK, ProcessTypeOK
<1>1. CASE Fault \/ UNCHANGED faults
  BY <1>0, <1>1 DEF Fault
<1>2. ASSUME NEW k \in Jobs, SubmitStep(k) \/ SubmitRaises(k) \/ ApiCrash(k) \/ Expire(k)
      PROVE  Fault \/ UNCHANGED faults
  BY <1>2 DEF SubmitStep, SubmitCheck, SubmitCreate, SubmitKiq, SubmitReturn, SubmitConverge,
              SubmitCancel, SubmitRaises, SubmitCreateRaises, SubmitKiqRaises,
              SubmitConvergeRaises, ApiCrash, Expire
<1>3. ASSUME NEW w \in Workers, Deliver(w) \/ TaskStep(w) \/ TaskRaises(w) \/ WorkerCrash(w)
                                  \/ ReaperClaimSlow(w)
      PROVE  Fault \/ UNCHANGED faults
  BY <1>3 DEF TaskStep, Deliver, TaskMeta, TaskSlot, TaskMark, TaskPage, TaskScrape, TaskWrite,
              TaskRemeta, TaskChain, Ack, TaskRaises, WorkerCrash, ReaperClaimSlow, ReadOnly
<1>4. ASSUME ReaperStep \/ ReaperCrash
      PROVE  Fault \/ UNCHANGED faults
  BY <1>4 DEF ReaperStep, ReaperClaim, ReaperXadd, ReaperXack, ReaperCrash
<1>5. ASSUME NEW c \in Clients, ClientStep(c)
      PROVE  Fault \/ UNCHANGED faults
  BY <1>5 DEF ClientStep, ClientStart, ClientMeta, ClientPages, ClientUnreadable,
              ClientResults, ClientAnswer, ClientCancel, ClientUnchanged
<1>6. UNCHANGED vars => UNCHANGED faults
  BY DEF vars
<1> QED BY <1>1, <1>2, <1>3, <1>4, <1>5, <1>6 DEF Next

Converging(j) == sub[j] \in {"converge", "cancel"}

\* How a submission comes to converge, and how it comes to fail: converged, or by
\* a second fault.
SubmitFate(j) ==
  /\ Converging(j)' => Converging(j) \/ faults' = faults + 1
  /\ sub'[j] = "failed" => \/ sub[j] = "failed" \/ status'[j] \notin Active
                           \/ Converging(j) /\ faults' = faults + 1

LEMMA SubmitFails ==
  ASSUME Shape, [Next]_vars, NEW j \in Jobs
  PROVE  SubmitFate(j)
<1>1. /\ sub \in [Jobs -> {"new", "create", "fanout", "converge", "cancel",
                           "accepted", "rejected", "failed", "lost", "crashed"}]
      /\ status \in [Jobs -> Live \cup {"absent", "expired"}]
  BY DEF Shape, TypeOK, ApiTypeOK, StoreTypeOK
<1>2. ASSUME NEW k \in Jobs, SubmitStep(k) \/ SubmitRaises(k) \/ ApiCrash(k)
      PROVE  SubmitFate(j)
  <2>1. CASE k # j
    BY <1>1, <1>2, <2>1 DEF SubmitStep, SubmitCheck, SubmitCreate, SubmitKiq, SubmitReturn,
                            SubmitConverge, SubmitCancel, ApiCrash, SubmitRaises, SubmitCreateRaises,
                            SubmitKiqRaises, SubmitConvergeRaises, SubmitFate, Converging
  <2>2. CASE k = j /\ SubmitConverge(k)
    BY <1>1, <2>2 DEF SubmitConverge, store, Live, SubmitFate, Converging
  <2>3. CASE k = j /\ SubmitCancel(k)
    BY <1>1, <2>3 DEF SubmitCancel, CancelFill, store, Active, SubmitFate, Converging
  <2>4. CASE k = j /\ SubmitRaises(k)
    BY <1>1, <2>4 DEF SubmitRaises, SubmitCreateRaises, SubmitKiqRaises, SubmitConvergeRaises,
                      Fault, SubmitFate, Converging
  <2>5. CASE k = j /\ ~SubmitConverge(k) /\ ~SubmitCancel(k) /\ ~SubmitRaises(k)
    BY <1>1, <1>2, <2>5 DEF SubmitStep, SubmitCheck, SubmitCreate, SubmitKiq, SubmitReturn,
                            ApiCrash, SubmitFate, Converging
  <2> QED BY <1>2, <2>1, <2>2, <2>3, <2>4, <2>5
<1>0. CASE UNCHANGED api
  BY <1>0 DEF api, SubmitFate, Converging
<1>3. ASSUME NEW k \in Jobs, Expire(k)
      PROVE  UNCHANGED api
  BY <1>3 DEF Expire
<1>4. ASSUME NEW w \in Workers, Deliver(w) \/ TaskStep(w) \/ TaskRaises(w) \/ WorkerCrash(w)
                                  \/ ReaperClaimSlow(w)
      PROVE  UNCHANGED api
  BY <1>4 DEF TaskStep, Deliver, TaskMeta, TaskSlot, TaskMark, TaskPage, TaskScrape, TaskWrite,
              TaskRemeta, TaskChain, Ack, TaskRaises, WorkerCrash, ReaperClaimSlow, ReadOnly
<1>5. ASSUME ReaperStep \/ ReaperCrash
      PROVE  UNCHANGED api
  BY <1>5 DEF ReaperStep, ReaperClaim, ReaperXadd, ReaperXack, ReaperCrash
<1>6. ASSUME NEW c \in Clients, ClientStep(c)
      PROVE  UNCHANGED api
  BY <1>6 DEF ClientStep, ClientStart, ClientMeta, ClientPages, ClientUnreadable,
              ClientResults, ClientAnswer, ClientCancel, ClientUnchanged
<1>7. UNCHANGED vars => UNCHANGED api
  BY DEF vars
<1> QED BY <1>0, <1>2, <1>3, <1>4, <1>5, <1>6, <1>7 DEF Next

\* A submit whose enqueue failed leaves no job behind that waits for pages nobody
\* will scrape, unless a call of the convergence failed as well.
THEOREM FailedSubmitsConverge == Spec => []FailedSubmitConverges
<1> DEFINE Twice == \A j \in Jobs : Converging(j) => faults >= 1
           Inv == Sound /\ Twice /\ FailedSubmitConverges
<1>1. Init => Inv
  <2>1. Init => Sound
    BY ShapeInit, StoreInvInit DEF Sound
  <2>2. Init => Twice /\ FailedSubmitConverges
    BY DEF Init, FailedSubmitConverges, Converging
  <2> QED BY <2>1, <2>2
<1>2. Inv /\ [Next]_vars => Inv'
  <2> SUFFICES ASSUME Inv, [Next]_vars PROVE Inv'
    OBVIOUS
  <2>1. Sound'
    BY ShapeNext, StoreEffects, StoreInvStep DEF Sound
  <2>2. faults \in Nat /\ faults' \in Nat /\ faults' >= faults
    BY FaultsGrow DEF Sound
  <2>3. ASSUME NEW j \in Jobs, Converging(j)'
        PROVE  faults' >= 1
    BY <2>2, <2>3, SubmitFails DEF Sound, SubmitFate
  <2>4. ASSUME NEW j \in Jobs, sub'[j] = "failed", status'[j] \in Active
        PROVE  faults' > 1
    <3>1. CASE sub[j] = "failed"
      <4>1. StoreEffect(j) /\ ~Created(j)
        BY <3>1, StoreEffects DEF Sound, Created, NotCreated
      <4>2. status[j] \in Active
        BY <2>4, <4>1 DEF StoreEffect, Same, Marked, Written, CancelledWith, Expired, Active
      <4>3. faults > 1
        BY <3>1, <4>2 DEF FailedSubmitConverges
      <4> QED BY <2>2, <4>3
    <3>2. CASE Converging(j) /\ faults' = faults + 1
      BY <2>2, <3>2
    <3> QED BY <2>4, <3>1, <3>2, SubmitFails DEF Sound, SubmitFate
  <2> QED BY <2>1, <2>3, <2>4 DEF FailedSubmitConverges
<1>3. Inv => FailedSubmitConverges
  OBVIOUS
<1> QED BY <1>1, <1>2, <1>3, PTL DEF Spec
-----------------------------------------------------------------------------
(***************************************************************************)
(* Session chains keep their order, no page of an accepted job is lost,    *)
(* and the pipeline implements ScrapeJob, the client's view of a job.      *)
(***************************************************************************)

EntryFor(j, p) == \E id \in 1 .. lastId : msg[id] = [job |-> j, page |-> p]

\* A page has at most one successor and at most one predecessor.
ChainsAreLines ==
  \A j \in Jobs : \A l, k \in links[j] : l[1] = k[1] \/ l[2] = k[2] => l = k

HeadsAreFirst ==
  \A j \in Jobs : \A h \in heads[j], m \in Pages : <<m, h>> \notin links[j]

\* A task goes on along the chain only from a page whose slot exists.
ChainedAreWritten ==
  \A w \in Workers : pc[w] \in {"remeta", "chain"} /\ status[Job(w)] \in Live
                       => slot[Job(w)][Page(w)] # "empty"

\* ChainInOrder for every entry there ever was.
EntriesInOrder ==
  \A id \in 1 .. lastId : \A m \in Pages :
    <<m, msg[id].page>> \in links[msg[id].job] => slot[msg[id].job][m] # "empty"

Order == ChainsAreLines /\ HeadsAreFirst /\ ChainedAreWritten /\ EntriesInOrder
-----------------------------------------------------------------------------
LEMMA LinksAreLines ==
  ASSUME NEW n \in 0 .. MaxPages, NEW s, DOMAIN s = 0 .. n - 1
  PROVE  /\ \A l, k \in ChainLinks(s) : l[1] = k[1] \/ l[2] = k[2] => l = k
         /\ \A h \in ChainHeads(s) : \A m : <<m, h>> \notin ChainLinks(s)
         /\ \A p \in 0 .. n - 1 : p \in ChainHeads(s) \/ \E m \in 0 .. n - 1 : <<m, p>> \in ChainLinks(s)
<1>1. ASSUME NEW l \in ChainLinks(s), NEW k \in ChainLinks(s), l[1] = k[1] \/ l[2] = k[2]
      PROVE  l = k
  <2>1. /\ l \in (0 .. n - 1) \X (0 .. n - 1) /\ k \in (0 .. n - 1) \X (0 .. n - 1)
        /\ l[1] < l[2] /\ k[1] < k[2] /\ s[l[1]] = s[l[2]] /\ s[k[1]] = s[k[2]]
        /\ \A i \in 0 .. n - 1 : l[1] < i /\ i < l[2] => s[i] # s[l[1]]
        /\ \A i \in 0 .. n - 1 : k[1] < i /\ i < k[2] => s[i] # s[k[1]]
    BY DEF ChainLinks
  <2>2. l[1] = k[1] /\ l[2] = k[2]
    BY <1>1, <2>1
  <2> QED BY <2>1, <2>2
<1>2. ChainLinks(s) \subseteq (0 .. n - 1) \X (0 .. n - 1)
  BY LinksType
<1>3. \A h \in ChainHeads(s) : \A m : <<m, h>> \notin ChainLinks(s)
  BY <1>2 DEF ChainHeads
<1>4. \A p \in 0 .. n - 1 : p \in ChainHeads(s) \/ \E m \in 0 .. n - 1 : <<m, p>> \in ChainLinks(s)
  BY DEF ChainHeads
<1> QED BY <1>1, <1>3, <1>4

\* What a step does to the links of a job that is stored: nothing, until they
\* go with the job; and a slot that exists stays as long as they do.
LinksKept(j) ==
  \/ links'[j] = links[j] /\ Filled(j) \subseteq Filled(j)'
  \/ links'[j] = {} /\ status'[j] \notin Live

LEMMA LinksUnchanged ==
  ASSUME Shape, [Next]_vars, NEW j \in Jobs, ~NotCreated(j)
  PROVE  links'[j] = links[j] \/ (links'[j] = {} /\ status'[j] \notin Live)
<1>1. CASE UNCHANGED links
  BY <1>1
<1>2. ASSUME NEW k \in Jobs, SubmitCreate(k) \/ SubmitCreateRaises(k)
      PROVE  links'[j] = links[j]
  BY <1>2 DEF SubmitCreate, SubmitCreateRaises, CreateBatch, store, NotCreated, Shape, TypeOK,
              StoreTypeOK
<1>3. ASSUME NEW k \in Jobs, Expire(k)
      PROVE  links'[j] = links[j] \/ (links'[j] = {} /\ status'[j] \notin Live)
  BY <1>3 DEF Expire, Live, Active, Terminal, Shape, TypeOK, StoreTypeOK
<1>4. ASSUME NEW k \in Jobs, SubmitStep(k) \/ SubmitRaises(k) \/ ApiCrash(k),
             ~SubmitCreate(k), ~SubmitCreateRaises(k)
      PROVE  UNCHANGED links
  BY <1>4 DEF SubmitStep, SubmitCheck, SubmitKiq, SubmitReturn, SubmitConverge, SubmitCancel,
              CancelFill, SubmitRaises, SubmitKiqRaises, SubmitConvergeRaises, ApiCrash, store
<1>5. ASSUME NEW w \in Workers, Deliver(w) \/ TaskStep(w) \/ TaskRaises(w) \/ WorkerCrash(w)
                                  \/ ReaperClaimSlow(w)
      PROVE  UNCHANGED links
  BY <1>5 DEF TaskStep, Deliver, TaskMeta, TaskSlot, TaskMark, TaskPage, TaskScrape, TaskWrite,
              WriteSlot, TaskRemeta, TaskChain, Ack, TaskRaises, WorkerCrash, ReaperClaimSlow,
              ReadOnly, store
<1>6. ASSUME ReaperStep \/ ReaperCrash
      PROVE  UNCHANGED links
  BY <1>6 DEF ReaperStep, ReaperClaim, ReaperXadd, ReaperXack, ReaperCrash, store
<1>7. ASSUME NEW c \in Clients, ClientStep(c)
      PROVE  UNCHANGED links
  BY <1>7 DEF ClientStep, ClientStart, ClientMeta, ClientPages, ClientUnreadable,
              ClientResults, ClientAnswer, ClientCancel, CancelFill, store
<1>8. UNCHANGED vars => UNCHANGED links
  BY DEF vars, store
<1> QED BY <1>1, <1>2, <1>3, <1>4, <1>5, <1>6, <1>7, <1>8 DEF Next

LEMMA StoreKept ==
  ASSUME Shape, [Next]_vars, NEW j \in Jobs, ~NotCreated(j)
  PROVE  /\ LinksKept(j) /\ total'[j] = total[j]
         /\ status'[j] \in Active => status[j] \in Active /\ Filled(j) \subseteq Filled(j)'
         /\ status'[j] \in Live => status[j] \in Live /\ Filled(j) \subseteq Filled(j)'
         /\ status'[j] = "queued" => status[j] = "queued"
<1>1. StoreEffect(j) /\ ~Created(j)
  BY StoreEffects DEF Created
<1>2. total'[j] = total[j]
  BY <1>1 DEF StoreEffect, Same, Marked, Written, CancelledWith, Expired
<1>3. CASE Same(j) \/ Marked(j)
  BY <1>2, <1>3, LinksUnchanged DEF Same, Marked, LinksKept, Filled, Live, Active
<1>4. CASE Written(j)
  <2>1. Filled(j) \subseteq Filled(j)'
    BY <1>4 DEF Written, Filled, Shape, TypeOK, StoreTypeOK
  <2> QED BY <1>2, <1>4, <2>1, LinksUnchanged DEF Written, LinksKept, Live, Active
<1>5. CASE \E S \in Stubs(j) : CancelledWith(j, S)
  <2>1. Filled(j) \subseteq Filled(j)'
    BY <1>5 DEF CancelledWith, Filled, Shape, TypeOK, StoreTypeOK
  <2> QED BY <1>2, <1>5, <2>1, LinksUnchanged DEF CancelledWith, LinksKept, Live, Active
<1>6. CASE Expired(j)
  <2>1. status'[j] \notin Live /\ status'[j] \notin Active
    BY <1>6 DEF Expired, Live, Active, Terminal
  <2>2. links'[j] = {}
    <3>1. status[j] \in Live /\ status'[j] = "expired"
      BY <1>6 DEF Expired
    <3>2. Shape'
      BY ShapeNext
    <3> QED BY <2>1, <3>2 DEF Shape, StoreShape
  <2> QED BY <1>2, <1>6, <2>1, <2>2 DEF LinksKept, Expired
<1> QED BY <1>1, <1>3, <1>4, <1>5, <1>6 DEF StoreEffect
-----------------------------------------------------------------------------
(***************************************************************************)
(* The stream: entries are only added, by whom, and for which page.        *)
(***************************************************************************)

\* The entry a step adds is for a head still to be enqueued, for the page
\* after one a task has finished, or for the page of an older entry.
Adds(j, p) ==
  /\ lastId' = lastId + 1
  /\ msg'[lastId'] = [job |-> j, page |-> p]
  /\ \/ sub[j] = "fanout" /\ p \in heads[j]
     \/ \E w \in Workers : pc[w] = "chain" /\ Job(w) = j /\ <<Page(w), p>> \in links[j]
     \/ \E id \in 1 .. lastId : msg[id] = [job |-> j, page |-> p]

LEMMA Additions ==
  ASSUME Shape, [Next]_vars
  PROVE  /\ lastId \in Nat
         /\ \A id \in 1 .. lastId : id \in 1 .. lastId' /\ msg'[id] = msg[id]
         /\ \/ lastId' = lastId
            \/ \E j \in Jobs, p \in Pages : Adds(j, p)
<1>0. lastId \in Nat /\ StreamTypeOK
  BY QueueAssumption DEF Shape, TypeOK, StreamTypeOK
<1>1. CASE UNCHANGED <<msg, lastId>>
  BY <1>0, <1>1
<1>2. ASSUME NEW j \in Jobs, NEW p \in Pages, Kiq(j, p),
             \/ sub[j] = "fanout" /\ p \in heads[j]
             \/ \E w \in Workers : pc[w] = "chain" /\ Job(w) = j /\ <<Page(w), p>> \in links[j]
             \/ \E id \in 1 .. lastId : msg[id] = [job |-> j, page |-> p]
      PROVE  /\ \A id \in 1 .. lastId : id \in 1 .. lastId' /\ msg'[id] = msg[id]
             /\ Adds(j, p)
  BY <1>0, <1>2, KiqFacts DEF Adds
<1>3. ASSUME NEW j \in Jobs, SubmitKiq(j) \/ SubmitKiqRaises(j)
      PROVE  \/ UNCHANGED <<msg, lastId>>
             \/ \E p \in heads[j] : p \in Pages /\ sub[j] = "fanout" /\ Kiq(j, p)
  BY <1>3 DEF SubmitKiq, SubmitKiqRaises, stream, Shape, TypeOK, ApiTypeOK
<1>4. ASSUME NEW j \in Jobs, SubmitStep(j) \/ SubmitRaises(j) \/ ApiCrash(j) \/ Expire(j),
             ~SubmitKiq(j), ~SubmitKiqRaises(j)
      PROVE  UNCHANGED <<msg, lastId>>
  BY <1>4 DEF SubmitStep, SubmitCheck, SubmitCreate, SubmitReturn, SubmitConverge, SubmitCancel,
              SubmitRaises, SubmitCreateRaises, SubmitConvergeRaises, ApiCrash, Expire, stream
<1>5. ASSUME NEW w \in Workers, TaskChain(w)
      PROVE  \/ UNCHANGED <<msg, lastId>>
             \/ \E p \in Pages : /\ Job(w) \in Jobs /\ pc[w] = "chain"
                                 /\ <<Page(w), p>> \in links[Job(w)] /\ Kiq(Job(w), p)
  BY <1>5, HeldEntry DEF TaskChain, stream, Shape
<1>6. ASSUME NEW w \in Workers, Deliver(w) \/ TaskStep(w) \/ TaskRaises(w) \/ WorkerCrash(w)
                                  \/ ReaperClaimSlow(w), ~TaskChain(w)
      PROVE  UNCHANGED <<msg, lastId>>
  BY <1>6 DEF TaskStep, Deliver, TaskMeta, TaskSlot, TaskMark, TaskPage, TaskScrape, TaskWrite,
              TaskRemeta, Ack, TaskRaises, WorkerCrash, ReaperClaimSlow, ReadOnly, stream
<1>7. ASSUME ReaperXadd
      PROVE  \E id \in 1 .. lastId : /\ msg[id].job \in Jobs /\ msg[id].page \in Pages
                                     /\ msg[id] = [job |-> msg[id].job, page |-> msg[id].page]
                                     /\ Kiq(msg[id].job, msg[id].page)
  <2>1. PICK id \in Ids : Oldest(id) /\ Kiq(msg[id].job, msg[id].page)
    BY <1>7 DEF ReaperXadd
  <2>2. id \in 1 .. lastId
    BY <2>1, QueueAssumption DEF Oldest, Shape, TypeOK, ProcessTypeOK, StreamTypeOK
  <2> QED BY <2>1, <2>2 DEF Shape, MsgShape
<1>8. ASSUME ReaperStep \/ ReaperCrash, ~ReaperXadd
      PROVE  UNCHANGED <<msg, lastId>>
  BY <1>8 DEF ReaperStep, ReaperClaim, ReaperXack, ReaperCrash, stream
<1>9. ASSUME NEW c \in Clients, ClientStep(c)
      PROVE  UNCHANGED <<msg, lastId>>
  BY <1>9 DEF ClientStep, ClientStart, ClientMeta, ClientPages, ClientUnreadable,
              ClientResults, ClientAnswer, ClientCancel, ClientUnchanged, stream
<1>10. UNCHANGED vars => UNCHANGED <<msg, lastId>>
  BY DEF vars, stream
<1>11. CASE \E j \in Jobs : SubmitKiq(j) \/ SubmitKiqRaises(j)
  BY <1>0, <1>1, <1>2, <1>3, <1>11
<1>12. CASE \E w \in Workers : TaskChain(w)
  BY <1>0, <1>1, <1>2, <1>5, <1>12
<1>13. CASE ReaperXadd
  BY <1>0, <1>2, <1>7, <1>13
<1> QED BY <1>1, <1>4, <1>6, <1>8, <1>9, <1>10, <1>11, <1>12, <1>13 DEF Next
LEMMA OneAtATime ==
  ASSUME Shape, [Next]_vars
  PROVE  lastId \in Nat /\ (lastId' = lastId \/ lastId' = lastId + 1)
<1>1. lastId \in Nat /\ (lastId' = lastId \/ \E j \in Jobs, p \in Pages : Adds(j, p))
  BY Additions
<1>2. \A j \in Jobs, p \in Pages : Adds(j, p) => lastId' = lastId + 1
  BY DEF Adds
<1> QED BY <1>1, <1>2
-----------------------------------------------------------------------------
(***************************************************************************)
(* Where tasks are, and on which entry.                                    *)
(***************************************************************************)

\* A worker stays where it is unless the step is its own.
LEMMA OwnSteps ==
  ASSUME Shape, [Next]_vars, NEW w \in Workers
  PROVE  \/ pc'[w] = pc[w] /\ held'[w] = held[w]
         \/ Deliver(w) \/ TaskStep(w) \/ TaskRaises(w) \/ WorkerCrash(w)
<1>0. pc \in [Workers -> TaskSteps \cup {"idle"}] /\ held \in [Workers -> 0 .. delivered]
  BY DEF Shape, TypeOK, ProcessTypeOK
<1>1. CASE UNCHANGED worker
  BY <1>1 DEF worker
<1>2. ASSUME NEW v \in Workers, Deliver(v) \/ TaskStep(v) \/ TaskRaises(v) \/ WorkerCrash(v), v # w
      PROVE  pc'[w] = pc[w] /\ held'[w] = held[w]
  BY <1>0, <1>2
     DEF TaskStep, Deliver, TaskMeta, TaskSlot, TaskMark, TaskPage, TaskScrape, TaskWrite,
         TaskRemeta, TaskChain, Ack, TaskRaises, WorkerCrash, ReadOnly, Goto
<1>3. ASSUME NEW v \in Workers, ReaperClaimSlow(v)
      PROVE  UNCHANGED worker
  BY <1>3 DEF ReaperClaimSlow
<1>4. ASSUME NEW j \in Jobs, SubmitStep(j) \/ SubmitRaises(j) \/ ApiCrash(j) \/ Expire(j)
      PROVE  UNCHANGED worker
  BY <1>4 DEF SubmitStep, SubmitCheck, SubmitCreate, SubmitKiq, SubmitReturn, SubmitConverge,
              SubmitCancel, SubmitRaises, SubmitCreateRaises, SubmitKiqRaises,
              SubmitConvergeRaises, ApiCrash, Expire
<1>5. ASSUME ReaperStep \/ ReaperCrash
      PROVE  UNCHANGED worker
  BY <1>5 DEF ReaperStep, ReaperClaim, ReaperXadd, ReaperXack, ReaperCrash
<1>6. ASSUME NEW c \in Clients, ClientStep(c)
      PROVE  UNCHANGED worker
  BY <1>6 DEF ClientStep, ClientStart, ClientMeta, ClientPages, ClientUnreadable,
              ClientResults, ClientAnswer, ClientCancel, ClientUnchanged
<1>7. UNCHANGED vars => UNCHANGED worker
  BY DEF vars
<1> QED BY <1>1, <1>2, <1>3, <1>4, <1>5, <1>6, <1>7 DEF Next

\* While a task keeps its entry, its job is a stored one and its page's slot,
\* once written, stays written.
LEMMA SameEntry ==
  ASSUME Shape, [Next]_vars, NEW w \in Workers, pc[w] # "idle", held'[w] = held[w]
  PROVE  /\ Job(w)' = Job(w) /\ Page(w)' = Page(w)
         /\ Job(w) \in Jobs /\ Page(w) \in Pages /\ ~NotCreated(Job(w))
         /\ status'[Job(w)] \in Live =>
              /\ status[Job(w)] \in Live
              /\ slot[Job(w)][Page(w)] # "empty" => slot'[Job(w)][Page(w)] # "empty"
<1>1. /\ held[w] \in 1 .. lastId /\ Job(w) \in Jobs /\ Page(w) \in Pages /\ ~NotCreated(Job(w))
  BY HeldEntry DEF Shape
<1>2. Job(w)' = Job(w) /\ Page(w)' = Page(w)
  BY <1>1, Additions DEF Job, Page
<1>3. ASSUME status'[Job(w)] \in Live
      PROVE  /\ status[Job(w)] \in Live
             /\ slot[Job(w)][Page(w)] # "empty" => slot'[Job(w)][Page(w)] # "empty"
  <2>1. status[Job(w)] \in Live /\ Filled(Job(w)) \subseteq Filled(Job(w))'
    BY <1>1, <1>2, <1>3, StoreKept
  <2>2. slot[Job(w)][Page(w)] # "empty" => slot'[Job(w)][Page(w)] # "empty"
    BY <1>1, <1>2, <2>1 DEF Filled
  <2> QED BY <2>1, <2>2
<1> QED BY <1>1, <1>2, <1>3

\* The steps of a task that comes to know that its page has a slot.
LEMMA ChainedStep ==
  ASSUME Shape, [Next]_vars, ChainedAreWritten
  PROVE  ChainedAreWritten'
<1> SUFFICES ASSUME NEW w \in Workers, pc'[w] \in {"remeta", "chain"}, status'[Job(w)'] \in Live
             PROVE  slot'[Job(w)'][Page(w)'] # "empty"
  BY DEF ChainedAreWritten
<1>0. pc \in [Workers -> TaskSteps \cup {"idle"}] /\ held \in [Workers -> 0 .. delivered]
  BY DEF Shape, TypeOK, ProcessTypeOK
<1>1. ASSUME pc[w] \in {"remeta", "chain"}, held'[w] = held[w]
      PROVE  slot'[Job(w)'][Page(w)'] # "empty"
  BY <1>1, SameEntry DEF ChainedAreWritten
<1>2. ASSUME TaskSlot(w)
      PROVE  slot'[Job(w)'][Page(w)'] # "empty"
  <2>1. pc[w] = "slot" /\ held'[w] = held[w]
    BY <1>2 DEF TaskSlot, ReadOnly
  <2>2. slot[Job(w)][Page(w)] # "empty"
    BY <1>0, <1>2 DEF TaskSlot, Goto
  <2> QED BY <2>1, <2>2, SameEntry
<1>3. ASSUME TaskWrite(w)
      PROVE  slot'[Job(w)'][Page(w)'] # "empty"
  <2>1. pc[w] = "write" /\ held'[w] = held[w]
    BY <1>3 DEF TaskWrite
  <2>2. /\ Job(w)' = Job(w) /\ Page(w)' = Page(w)
        /\ status[Job(w)] \in Live /\ Job(w) \in Jobs /\ Page(w) \in Pages
    BY <2>1, SameEntry
  <2>3. WriteSlot(Job(w), Page(w), out[w]) /\ out[w] \in {"ok", "error"}
    BY <1>3, <2>2 DEF TaskWrite, Shape, TypeOK, ProcessTypeOK
  <2>4. slot'[Job(w)][Page(w)] = out[w]
    BY <2>2, <2>3 DEF WriteSlot, Shape, TypeOK, StoreTypeOK
  <2> QED BY <2>2, <2>3, <2>4
<1>4. ASSUME TaskRemeta(w)
      PROVE  slot'[Job(w)'][Page(w)'] # "empty"
  <2>1. pc[w] = "remeta" /\ held'[w] = held[w]
    BY <1>4 DEF TaskRemeta, ReadOnly
  <2> QED BY <1>1, <2>1
<1>5. ASSUME \/ TaskMeta(w) \/ TaskMark(w) \/ TaskPage(w) \/ TaskScrape(w) \/ TaskChain(w) \/ Ack(w)
             \/ Deliver(w) \/ TaskRaises(w) \/ WorkerCrash(w)
      PROVE  FALSE
  BY <1>0, <1>5 DEF Deliver, TaskMeta, TaskMark, TaskPage, TaskScrape, TaskChain, Ack,
                    TaskRaises, WorkerCrash, Goto
<1> QED BY <1>1, <1>2, <1>3, <1>4, <1>5, OwnSteps DEF TaskStep

\* A task that has got past mark_running does not work on a queued job.
ScrapedAreMarked ==
  \A w \in Workers : pc[w] \in {"page", "scrape", "write"} => status[Job(w)] # "queued"

LEMMA ScrapedStep ==
  ASSUME Shape, [Next]_vars, ScrapedAreMarked
  PROVE  ScrapedAreMarked'
<1> SUFFICES ASSUME NEW w \in Workers, pc'[w] \in {"page", "scrape", "write"}
             PROVE  status'[Job(w)'] # "queued"
  BY DEF ScrapedAreMarked
<1>0. pc \in [Workers -> TaskSteps \cup {"idle"}] /\ held \in [Workers -> 0 .. delivered]
  BY DEF Shape, TypeOK, ProcessTypeOK
<1>1. ASSUME pc[w] \in {"page", "scrape", "write"}, held'[w] = held[w]
      PROVE  status'[Job(w)'] # "queued"
  <2>1. Job(w)' = Job(w) /\ Job(w) \in Jobs /\ ~NotCreated(Job(w))
    BY <1>1, SameEntry
  <2>2. status[Job(w)] # "queued"
    BY <1>1 DEF ScrapedAreMarked
  <2> QED BY <2>1, <2>2, StoreKept
<1>2. ASSUME TaskMark(w)
      PROVE  status'[Job(w)'] # "queued"
  <2>1. pc[w] = "mark" /\ held'[w] = held[w]
    BY <1>2 DEF TaskMark
  <2>2. Job(w)' = Job(w) /\ Job(w) \in Jobs
    BY <2>1, SameEntry
  <2> QED BY <1>2, <2>2 DEF TaskMark, Shape, TypeOK, StoreTypeOK
<1>3. ASSUME TaskPage(w) \/ TaskScrape(w)
      PROVE  status'[Job(w)'] # "queued"
  <2>1. pc[w] \in {"page", "scrape"} /\ held'[w] = held[w]
    BY <1>3 DEF TaskPage, TaskScrape, ReadOnly
  <2> QED BY <1>1, <2>1
<1>4. ASSUME \/ TaskMeta(w) \/ TaskSlot(w) \/ TaskWrite(w) \/ TaskRemeta(w) \/ TaskChain(w)
             \/ Ack(w) \/ Deliver(w) \/ TaskRaises(w) \/ WorkerCrash(w)
      PROVE  FALSE
  BY <1>0, <1>4 DEF Deliver, TaskMeta, TaskSlot, TaskWrite, TaskRemeta, TaskChain, Ack,
                    TaskRaises, WorkerCrash, Goto
<1> QED BY <1>1, <1>2, <1>3, <1>4, OwnSteps DEF TaskStep
-----------------------------------------------------------------------------
(***************************************************************************)
(* Session chains.                                                         *)
(***************************************************************************)

\* A batch comes with chains that are lines; what a submit coroutine still has
\* to enqueue only becomes less.
LEMMA CreatedChains ==
  ASSUME Shape, [Next]_vars, NEW j \in Jobs, NotCreated(j)
  PROVE  /\ \A l, k \in links'[j] : l[1] = k[1] \/ l[2] = k[2] => l = k
         /\ \A h \in heads'[j], m \in Pages : <<m, h>> \notin links'[j]
         /\ sub'[j] = "fanout" =>
              \A p \in JobPages(j)' : \/ p \in heads'[j]
                                      \/ \E m \in Pages : <<m, p>> \in links'[j]
         /\ Filled(j)' = {} /\ sub'[j] # "accepted"
<1> DEFINE Chains ==
      /\ \A l, k \in links'[j] : l[1] = k[1] \/ l[2] = k[2] => l = k
      /\ \A h \in heads'[j], m \in Pages : <<m, h>> \notin links'[j]
      /\ sub'[j] = "fanout" =>
           \A p \in JobPages(j)' : \/ p \in heads'[j]
                                   \/ \E m \in Pages : <<m, p>> \in links'[j]
<1>1. /\ status[j] = "absent" /\ total[j] = 0 /\ links[j] = {} /\ Filled(j) = {}
      /\ heads[j] \subseteq JobPages(j)
  BY DEF Shape, ApiShape, StoreShape, Live, Active, Terminal
<1>2. CASE NotCreated(j)'
  <2>1. Shape'
    BY ShapeNext
  <2>2. /\ status'[j] = "absent" /\ total'[j] = 0 /\ links'[j] = {} /\ Filled(j)' = {}
        /\ heads'[j] \subseteq JobPages(j)'
    BY <1>2, <2>1 DEF Shape, ApiShape, StoreShape, Live, Active, Terminal
  <2>3. JobPages(j)' = {}
    BY <2>2 DEF JobPages
  <2>4. sub'[j] # "accepted"
    BY <1>2 DEF NotCreated
  <2> QED BY <2>2, <2>3, <2>4
<1>3. ASSUME SubmitCreate(j)
      PROVE  Chains /\ Filled(j)' = {} /\ sub'[j] # "accepted"
  <2>1. PICK n \in 0 .. MaxPages : \E s \in [0 .. n - 1 -> Sessions \cup {NoSession}] :
          /\ total' = [total EXCEPT ![j] = n]
          /\ links' = [links EXCEPT ![j] = ChainLinks(s)]
          /\ heads' = [heads EXCEPT ![j] = ChainHeads(s)]
    BY <1>3 DEF SubmitCreate, CreateBatch
  <2>2. PICK s \in [0 .. n - 1 -> Sessions \cup {NoSession}] :
          /\ total' = [total EXCEPT ![j] = n]
          /\ links' = [links EXCEPT ![j] = ChainLinks(s)]
          /\ heads' = [heads EXCEPT ![j] = ChainHeads(s)]
    BY <2>1
  <2>3. total'[j] = n /\ links'[j] = ChainLinks(s) /\ heads'[j] = ChainHeads(s)
    BY <2>2 DEF Shape, TypeOK, StoreTypeOK, ApiTypeOK
  <2>4. DOMAIN s = 0 .. n - 1 /\ 0 .. n - 1 \subseteq Pages
    BY QueueAssumption DEF Pages
  <2>5. Filled(j)' = {} /\ sub'[j] # "accepted"
    BY <1>1, <1>3 DEF SubmitCreate, CreateBatch, Filled, Shape, TypeOK, ApiTypeOK
  <2>6. JobPages(j)' = 0 .. n - 1
    BY <2>3 DEF JobPages
  <2>7. /\ \A l, k \in ChainLinks(s) : l[1] = k[1] \/ l[2] = k[2] => l = k
        /\ \A h \in ChainHeads(s), m \in Pages : <<m, h>> \notin ChainLinks(s)
        /\ \A p \in 0 .. n - 1 : p \in ChainHeads(s) \/ \E m \in Pages : <<m, p>> \in ChainLinks(s)
    BY <2>4, LinksAreLines
  <2>8. Chains
    <3>1. \A l, k \in links'[j] : l[1] = k[1] \/ l[2] = k[2] => l = k
      BY <2>3, <2>7
    <3>2. ASSUME NEW h \in heads'[j], NEW m \in Pages
          PROVE  <<m, h>> \notin links'[j]
      <4>1. h \in ChainHeads(s)
        BY <2>3
      <4>2. <<m, h>> \notin ChainLinks(s)
        BY <2>7, <4>1
      <4> QED BY <2>3, <4>2
    <3>3. \A p \in JobPages(j)' : p \in heads'[j] \/ \E m \in Pages : <<m, p>> \in links'[j]
      BY <2>3, <2>6, <2>7
    <3> QED BY <3>1, <3>2, <3>3
  <2> QED BY <2>5, <2>8
\* A crash before create leaves a job nobody knows.
<1>4. ASSUME ApiCrash(j)
      PROVE  Chains /\ Filled(j)' = {} /\ sub'[j] # "accepted"
  <2>1. /\ links'[j] = {} /\ total'[j] = 0 /\ Filled(j)' = {} /\ heads'[j] = {}
        /\ sub'[j] # "accepted"
    BY <1>1, <1>4 DEF ApiCrash, store, Filled, Shape, TypeOK, ApiTypeOK
  <2>2. JobPages(j)' = {}
    BY <2>1 DEF JobPages
  <2> QED BY <2>1, <2>2
\* Nor does anybody know one whose create raised: it has no heads.
<1>6. ASSUME SubmitCreateRaises(j)
      PROVE  Chains /\ Filled(j)' = {} /\ sub'[j] # "accepted"
  <2>1. heads'[j] = {} /\ Filled(j)' = {} /\ sub'[j] = "lost"
    <3>1. heads[j] = {}
      BY <1>1 DEF JobPages
    <3>2. slot' = slot
      BY <1>6 DEF SubmitCreateRaises, CreateBatch, store
    <3> QED BY <1>1, <1>6, <3>1, <3>2 DEF SubmitCreateRaises, Filled, Shape, TypeOK, ApiTypeOK
  <2>2. CASE UNCHANGED store
    BY <1>1, <2>1, <2>2 DEF store
  <2>3. ASSUME NEW n \in 0 .. MaxPages, NEW s \in [0 .. n - 1 -> Sessions \cup {NoSession}],
               CreateBatch(j, n, s)
        PROVE  \A l, k \in links'[j] : l[1] = k[1] \/ l[2] = k[2] => l = k
    <3>1. links'[j] = ChainLinks(s)
      BY <2>3 DEF CreateBatch, Shape, TypeOK, StoreTypeOK
    <3>2. \A l, k \in ChainLinks(s) : l[1] = k[1] \/ l[2] = k[2] => l = k
      <4>1. DOMAIN s = 0 .. n - 1 /\ 0 .. n - 1 \subseteq Pages
        BY QueueAssumption DEF Pages
      <4> QED BY <4>1, LinksAreLines
    <3> QED BY <3>1, <3>2
  <2> QED BY <1>6, <2>1, <2>2, <2>3 DEF SubmitCreateRaises
<1>5. ASSUME ~NotCreated(j)', ~SubmitCreate(j), ~SubmitCreateRaises(j), ~ApiCrash(j)
      PROVE  FALSE
  <2>1. CASE UNCHANGED sub
    BY <1>5, <2>1 DEF NotCreated
  <2>2. ASSUME NEW k \in Jobs, SubmitStep(k) \/ SubmitRaises(k) \/ ApiCrash(k)
        PROVE  FALSE
    <3>1. sub \in [Jobs -> {"new", "create", "fanout", "converge", "cancel",
                            "accepted", "rejected", "failed", "lost", "crashed"}]
      BY DEF Shape, TypeOK, ApiTypeOK
    <3>2. CASE k = j /\ SubmitCheck(k)
      BY <1>5, <3>1, <3>2 DEF SubmitCheck, NotCreated
    <3>4. CASE k # j
      BY <1>5, <2>2, <3>1, <3>4
         DEF SubmitStep, SubmitCheck, SubmitCreate, SubmitKiq, SubmitReturn, SubmitConverge,
             SubmitCancel, SubmitRaises, SubmitCreateRaises, SubmitKiqRaises,
             SubmitConvergeRaises, ApiCrash, NotCreated
    <3>5. CASE k = j /\ ~SubmitCheck(k)
      BY <1>5, <2>2, <3>1, <3>5
         DEF SubmitStep, SubmitKiq, SubmitReturn, SubmitConverge,
             SubmitCancel, SubmitRaises, SubmitKiqRaises, SubmitConvergeRaises, NotCreated
    <3> QED BY <1>5, <3>2, <3>4, <3>5
  <2>3. ASSUME NEW k \in Jobs, Expire(k)
        PROVE  UNCHANGED sub
    BY <2>3 DEF Expire, api
  <2>4. ASSUME NEW w \in Workers, Deliver(w) \/ TaskStep(w) \/ TaskRaises(w) \/ WorkerCrash(w)
                                    \/ ReaperClaimSlow(w)
        PROVE  UNCHANGED sub
    BY <2>4 DEF TaskStep, Deliver, TaskMeta, TaskSlot, TaskMark, TaskPage, TaskScrape, TaskWrite,
                TaskRemeta, TaskChain, Ack, TaskRaises, WorkerCrash, ReaperClaimSlow, ReadOnly, api
  <2>5. ASSUME ReaperStep \/ ReaperCrash
        PROVE  UNCHANGED sub
    BY <2>5 DEF ReaperStep, ReaperClaim, ReaperXadd, ReaperXack, ReaperCrash, api
  <2>6. ASSUME NEW c \in Clients, ClientStep(c)
        PROVE  UNCHANGED sub
    BY <2>6 DEF ClientStep, ClientStart, ClientMeta, ClientPages, ClientUnreadable,
                ClientResults, ClientAnswer, ClientCancel, ClientUnchanged, api
  <2>7. UNCHANGED vars => UNCHANGED sub
    BY DEF vars, api
  <2> QED BY <2>1, <2>2, <2>3, <2>4, <2>5, <2>6, <2>7 DEF Next
<1> QED BY <1>2, <1>3, <1>4, <1>5, <1>6

\* The steps after create only enqueue: a head leaves the list with its entry.
LEMMA HeadsStep ==
  ASSUME Shape, [Next]_vars, NEW j \in Jobs, ~NotCreated(j)
  PROVE  /\ heads'[j] \subseteq heads[j]
         /\ sub'[j] \in {"fanout", "accepted"} =>
              /\ sub[j] \in {"fanout", "accepted"}
              /\ sub'[j] = "accepted" => sub[j] = "accepted" \/ heads[j] = {}
              /\ \A h \in heads[j] \ heads'[j] :
                   lastId' = lastId + 1 /\ msg'[lastId'] = [job |-> j, page |-> h]
<1>0. /\ sub \in [Jobs -> {"new", "create", "fanout", "converge", "cancel",
                           "accepted", "rejected", "failed", "lost", "crashed"}]
      /\ heads \in [Jobs -> SUBSET Pages] /\ StreamTypeOK
  BY DEF Shape, TypeOK, ApiTypeOK
<1>1. CASE UNCHANGED <<sub, heads>>
  BY <1>1
<1>2. ASSUME NEW k \in Jobs, SubmitKiq(k)
      PROVE  /\ sub' = sub /\ heads'[j] \subseteq heads[j]
             /\ k = j => sub[j] = "fanout"
             /\ \A h \in heads[j] \ heads'[j] :
                  lastId' = lastId + 1 /\ msg'[lastId'] = [job |-> j, page |-> h]
  <2>1. PICK h \in heads[k] : Kiq(k, h) /\ heads' = [heads EXCEPT ![k] = heads[k] \ {h}]
    BY <1>2 DEF SubmitKiq
  <2>2. lastId' = lastId + 1 /\ msg'[lastId'] = [job |-> k, page |-> h]
    BY <1>0, <2>1, KiqFacts
  <2> QED BY <1>0, <1>2, <2>1, <2>2 DEF SubmitKiq
<1>3. ASSUME NEW k \in Jobs, SubmitReturn(k)
      PROVE  /\ heads' = heads
             /\ sub'[j] = sub[j] \/ (sub[j] = "fanout" /\ sub'[j] = "accepted" /\ heads[j] = {})
  BY <1>0, <1>3 DEF SubmitReturn
<1>4. ASSUME NEW k \in Jobs, SubmitCheck(k) \/ SubmitCreate(k) \/ SubmitConverge(k) \/ SubmitCancel(k)
                               \/ SubmitRaises(k) \/ ApiCrash(k)
      PROVE  /\ heads'[j] \subseteq heads[j]
             /\ \/ sub'[j] = sub[j] /\ heads'[j] = heads[j]
                \/ sub'[j] \notin {"fanout", "accepted"}
  <2>1. CASE k # j
    BY <1>0, <1>4, <2>1 DEF SubmitCheck, SubmitCreate, SubmitConverge, SubmitCancel, SubmitRaises,
                            SubmitCreateRaises, SubmitKiqRaises, SubmitConvergeRaises, ApiCrash
  <2>2. CASE k = j
    BY <1>0, <1>4, <2>2 DEF SubmitCheck, SubmitCreate, SubmitConverge, SubmitCancel, SubmitRaises,
                            SubmitCreateRaises, SubmitKiqRaises, SubmitConvergeRaises, ApiCrash,
                            NotCreated
  <2> QED BY <2>1, <2>2
<1>5. ASSUME NEW k \in Jobs, Expire(k)
      PROVE  UNCHANGED <<sub, heads>>
  BY <1>5 DEF Expire, api
<1>6. ASSUME NEW w \in Workers, Deliver(w) \/ TaskStep(w) \/ TaskRaises(w) \/ WorkerCrash(w)
                                  \/ ReaperClaimSlow(w)
      PROVE  UNCHANGED <<sub, heads>>
  BY <1>6 DEF TaskStep, Deliver, TaskMeta, TaskSlot, TaskMark, TaskPage, TaskScrape, TaskWrite,
              TaskRemeta, TaskChain, Ack, TaskRaises, WorkerCrash, ReaperClaimSlow, ReadOnly, api
<1>7. ASSUME ReaperStep \/ ReaperCrash
      PROVE  UNCHANGED <<sub, heads>>
  BY <1>7 DEF ReaperStep, ReaperClaim, ReaperXadd, ReaperXack, ReaperCrash, api
<1>8. ASSUME NEW c \in Clients, ClientStep(c)
      PROVE  UNCHANGED <<sub, heads>>
  BY <1>8 DEF ClientStep, ClientStart, ClientMeta, ClientPages, ClientUnreadable,
              ClientResults, ClientAnswer, ClientCancel, ClientUnchanged, api
<1>9. UNCHANGED vars => UNCHANGED <<sub, heads>>
  BY DEF vars, api
<1>10. CASE \E k \in Jobs : SubmitKiq(k)
  BY <1>2, <1>10
<1>11. CASE \E k \in Jobs : SubmitReturn(k)
  BY <1>3, <1>11
<1>12. CASE \E k \in Jobs : SubmitCheck(k) \/ SubmitCreate(k) \/ SubmitConverge(k) \/ SubmitCancel(k)
                              \/ SubmitRaises(k) \/ ApiCrash(k)
  BY <1>4, <1>12
<1> QED BY <1>1, <1>5, <1>6, <1>7, <1>8, <1>9, <1>10, <1>11, <1>12 DEF Next, SubmitStep

LEMMA OrderStep ==
  ASSUME Shape, Order, [Next]_vars
  PROVE  Order'
<1>0. Shape'
  BY ShapeNext
<1>1. ChainsAreLines'
  <2> SUFFICES ASSUME NEW j \in Jobs
               PROVE  \A l, k \in links'[j] : l[1] = k[1] \/ l[2] = k[2] => l = k
    BY DEF ChainsAreLines
  <2>1. CASE NotCreated(j)
    BY <2>1, CreatedChains
  <2>2. CASE ~NotCreated(j)
    BY <2>2, StoreKept DEF Order, ChainsAreLines, LinksKept
  <2> QED BY <2>1, <2>2
<1>2. HeadsAreFirst'
  <2> SUFFICES ASSUME NEW j \in Jobs
               PROVE  \A h \in heads'[j], m \in Pages : <<m, h>> \notin links'[j]
    BY DEF HeadsAreFirst
  <2>1. CASE NotCreated(j)
    BY <2>1, CreatedChains
  <2>2. CASE ~NotCreated(j)
    BY <2>2, StoreKept, HeadsStep DEF Order, HeadsAreFirst, LinksKept
  <2> QED BY <2>1, <2>2
<1>3. ChainedAreWritten'
  BY ChainedStep DEF Order
\* An old entry keeps its place, a new one takes one whose predecessor is written.
<1>4. EntriesInOrder'
  <2> SUFFICES ASSUME NEW id \in 1 .. lastId', NEW m \in Pages,
                      NEW j \in Jobs, NEW p \in Pages,
                      msg'[id] = [job |-> j, page |-> p], <<m, p>> \in links'[j]
               PROVE  slot'[j][m] # "empty"
    <3>1. \A id \in 1 .. lastId' : msg'[id] \in [job : Jobs, page : Pages]
      BY <1>0 DEF Shape, MsgShape
    <3> QED BY <3>1 DEF EntriesInOrder
  <2>1. ASSUME ~NotCreated(j), <<m, p>> \in links[j] => slot[j][m] # "empty"
        PROVE  slot'[j][m] # "empty"
    <3>1. links'[j] = links[j] /\ Filled(j) \subseteq Filled(j)'
      BY <2>1, StoreKept DEF LinksKept
    <3>2. m \in Filled(j)
      BY <2>1, <3>1 DEF Filled
    <3> QED BY <3>1, <3>2 DEF Filled
  <2>2. ASSUME NEW i \in 1 .. lastId, msg[i] = [job |-> j, page |-> p]
        PROVE  slot'[j][m] # "empty"
    <3>1. <<m, p>> \in links[j] => slot[j][m] # "empty"
      BY <2>2 DEF Order, EntriesInOrder
    <3>2. ~NotCreated(j)
      BY <2>2 DEF Shape, MsgShape
    <3> QED BY <2>1, <3>1, <3>2
  <2>3. CASE id \in 1 .. lastId
    BY <2>2, <2>3, Additions
  <2>4. CASE id \notin 1 .. lastId
    <3>1. PICK k \in Jobs, q \in Pages : Adds(k, q)
      BY <2>4, Additions
    <3>2. id = lastId' /\ k = j /\ q = p
      BY <2>4, <3>1, Additions DEF Adds
    <3>3. CASE sub[j] = "fanout" /\ p \in heads[j]
      BY <2>1, <3>3 DEF NotCreated, Order, HeadsAreFirst
    <3>4. ASSUME NEW w \in Workers, pc[w] = "chain", Job(w) = j, <<Page(w), p>> \in links[j]
          PROVE  slot'[j][m] # "empty"
      <4>1. ~NotCreated(j) /\ status[j] \in Live
        BY <3>4, HeldEntry DEF Shape, StoreShape
      <4>2. slot[j][Page(w)] # "empty"
        BY <3>4, <4>1 DEF Order, ChainedAreWritten
      <4>3. <<m, p>> \in links[j] => m = Page(w)
        BY <3>4 DEF Order, ChainsAreLines
      <4> QED BY <2>1, <4>1, <4>2, <4>3
    <3> QED BY <2>2, <3>1, <3>2, <3>3, <3>4 DEF Adds
  <2> QED BY <2>3, <2>4
<1> QED BY <1>1, <1>2, <1>3, <1>4 DEF Order

LEMMA OrderInit == Init => Order
BY DEF Init, Order, ChainsAreLines, HeadsAreFirst, ChainedAreWritten, EntriesInOrder

\* The pages of one session are started in index order: whatever is delivered
\* twice, re-added or re-issued, an entry of a page is on the stream only once
\* the slot of the page before it exists.
THEOREM SessionsInOrder == Spec => []ChainInOrder
<1> DEFINE Inv == Shape /\ Order
<1>1. Init => Inv
  BY ShapeInit, OrderInit
<1>2. Inv /\ [Next]_vars => Inv'
  BY ShapeNext, OrderStep
<1>3. Inv => ChainInOrder
  <2>1. Shape => Outstanding \subseteq 1 .. lastId
    BY DEF Outstanding, Ids, Shape, TypeOK, StreamTypeOK
  <2> QED BY <2>1 DEF Order, EntriesInOrder, ChainInOrder
<1> QED BY <1>1, <1>2, <1>3, PTL DEF Spec
-----------------------------------------------------------------------------
(***************************************************************************)
(* Coverage.  An entry bears its page while somebody will still work on    *)
(* it: it is outstanding, no task has decided to acknowledge it, and the   *)
(* reaper has not added it again.                                          *)
(***************************************************************************)
Bearing(id) == Productive(id) /\ ~(reaper.at = "xack" /\ Oldest(id))

\* An entry just added bears its page.
LEMMA NewBears ==
  ASSUME Shape, [Next]_vars, lastId' = lastId + 1
  PROVE  (\E id \in 1 .. lastId : id = lastId /\ Bearing(id))'
<1>0. Shape'
  BY ShapeNext
<1>1. /\ lastId \in Nat /\ lastId' \in 1 .. lastId' /\ lastId' \in Ids
      /\ delivered \in 0 .. lastId /\ held \in [Workers -> 0 .. delivered]
      /\ reaper.todo \subseteq 1 .. delivered
  BY <1>0, QueueAssumption DEF Shape, TypeOK, StreamTypeOK, ProcessTypeOK, Ids
<1>2. delivered' = delivered
  <2>1. ASSUME NEW j \in Jobs, SubmitStep(j) \/ SubmitRaises(j) \/ ApiCrash(j) \/ Expire(j)
        PROVE  delivered' = delivered
    BY <2>1 DEF SubmitStep, SubmitCheck, SubmitCreate, SubmitKiq, SubmitReturn, SubmitConverge,
                SubmitCancel, SubmitRaises, SubmitCreateRaises, SubmitKiqRaises,
                SubmitConvergeRaises, ApiCrash, Expire, Kiq, stream
  <2>2. ASSUME NEW w \in Workers, Deliver(w)
        PROVE  FALSE
    BY <1>1, <2>2 DEF Deliver
  <2>3. ASSUME NEW w \in Workers, TaskStep(w) \/ TaskRaises(w) \/ WorkerCrash(w) \/ ReaperClaimSlow(w)
        PROVE  delivered' = delivered
    BY <2>3 DEF TaskStep, TaskMeta, TaskSlot, TaskMark, TaskPage, TaskScrape, TaskWrite,
                TaskRemeta, TaskChain, Ack, TaskRaises, WorkerCrash, ReaperClaimSlow, ReadOnly,
                Kiq, stream
  <2>4. ASSUME ReaperStep \/ ReaperCrash
        PROVE  delivered' = delivered
    BY <2>4 DEF ReaperStep, ReaperClaim, ReaperXadd, ReaperXack, ReaperCrash, Kiq, stream
  <2>5. ASSUME NEW c \in Clients, ClientStep(c)
        PROVE  delivered' = delivered
    BY <2>5 DEF ClientStep, ClientStart, ClientMeta, ClientPages, ClientUnreadable,
                ClientResults, ClientAnswer, ClientCancel, ClientUnchanged, stream
  <2>6. UNCHANGED vars => delivered' = delivered
    BY DEF vars, stream
  <2> QED BY <2>1, <2>2, <2>3, <2>4, <2>5, <2>6 DEF Next
<1>3. /\ held' \in [Workers -> 0 .. delivered] /\ reaper'.todo \subseteq 1 .. delivered
  BY <1>0, <1>2 DEF Shape, TypeOK, ProcessTypeOK
<1>4. lastId' > delivered /\ \A w \in Workers : held'[w] # lastId'
  BY <1>1, <1>3
<1>5. lastId' \notin reaper'.todo
  BY <1>1, <1>3
<1>6. (\E id \in 1 .. lastId : id = lastId /\ Productive(id))'
  BY <1>1, <1>2, <1>4 DEF Productive, Outstanding
<1> QED BY <1>5, <1>6 DEF Bearing, Oldest

\* How a task comes to acknowledge its entry: the job needs nothing any more,
\* or the page has its slot and the next page of the chain its entry.
LEMMA TaskLetsGo ==
  ASSUME ~RedisErrors, Sound, Order, NEW w \in Workers, TaskStep(w), ~Ack(w),
         NEW j \in Jobs, NEW p \in Pages, msg[held[w]] = [job |-> j, page |-> p],
         status'[j] \in Active, pc'[w] = "ack"
  PROVE  /\ slot[j][p] # "empty"
         /\ \A n \in Pages : <<p, n>> \in links[j] =>
              lastId' = lastId + 1 /\ msg'[lastId'] = [job |-> j, page |-> n]
<1>0. /\ pc \in [Workers -> TaskSteps \cup {"idle"}] /\ Job(w) = j /\ Page(w) = p
      /\ StreamTypeOK /\ (cancelled[j] => status[j] = "cancelled")
  BY DEF Sound, Shape, TypeOK, ProcessTypeOK, Job, Page, StoreInv, FlagIsStatus
<1>1. CASE TaskChain(w)
  <2>1. pc[w] = "chain" /\ status[j] \in Live /\ slot[j][p] # "empty"
    <3>1. pc[w] = "chain"
      BY <1>1 DEF TaskChain
    <3>2. status' = status
      BY <1>1 DEF TaskChain, store
    <3>3. status[j] \in Live
      BY <3>2 DEF Live
    <3> QED BY <1>0, <3>1, <3>3 DEF Order, ChainedAreWritten
  <2>2. ASSUME NEW n \in Pages, <<p, n>> \in links[j]
        PROVE  lastId' = lastId + 1 /\ msg'[lastId'] = [job |-> j, page |-> n]
    <3>1. PICK m \in Pages : <<p, m>> \in links[j] /\ Kiq(j, m)
      BY <1>0, <1>1, <2>2 DEF TaskChain
    <3>2. m = n
      BY <2>2, <3>1 DEF Order, ChainsAreLines
    <3> QED BY <1>0, <3>1, <3>2, KiqFacts
  <2> QED BY <2>1, <2>2
<1>2. CASE TaskMeta(w) \/ TaskRemeta(w)
  <2>1. status' = status
    BY <1>2 DEF TaskMeta, TaskRemeta, ReadOnly, store
  <2>2. status[j] \in Active /\ status[j] \in Live /\ ~cancelled[j]
    BY <1>0, <2>1 DEF Active, Live
  <2> QED BY <1>0, <1>2, <2>2 DEF TaskMeta, TaskRemeta, Goto
<1>3. CASE TaskWrite(w)
  <2>1. CASE status[j] \in Live
    BY <1>0, <1>3, <2>1 DEF TaskWrite, Goto
  <2>2. CASE status[j] \notin Live
    BY <1>0, <1>3, <2>2 DEF TaskWrite, store, Live
  <2> QED BY <2>1, <2>2
<1>4. CASE TaskSlot(w) \/ TaskMark(w) \/ TaskPage(w) \/ TaskScrape(w)
  BY <1>0, <1>4 DEF TaskSlot, TaskMark, TaskPage, TaskScrape, Goto
<1> QED BY <1>1, <1>2, <1>3, <1>4 DEF TaskStep

LEMMA BearingStep ==
  ASSUME ~RedisErrors, Sound, Order, [Next]_vars,
         NEW id \in 1 .. lastId, NEW j \in Jobs, NEW p \in Pages,
         msg[id] = [job |-> j, page |-> p], Bearing(id), status'[j] \in Active
  PROVE  \/ Bearing(id)'
         \/ lastId' = lastId + 1 /\ msg'[lastId'] = [job |-> j, page |-> p]
         \/ /\ slot[j][p] # "empty"
            /\ \A n \in Pages : <<p, n>> \in links[j] =>
                 lastId' = lastId + 1 /\ msg'[lastId'] = [job |-> j, page |-> n]
<1> DEFINE Goal == \/ Bearing(id)'
                   \/ lastId' = lastId + 1 /\ msg'[lastId'] = [job |-> j, page |-> p]
                   \/ /\ slot[j][p] # "empty"
                      /\ \A n \in Pages : <<p, n>> \in links[j] =>
                           lastId' = lastId + 1 /\ msg'[lastId'] = [job |-> j, page |-> n]
<1>0. /\ pc \in [Workers -> TaskSteps \cup {"idle"}] /\ held \in [Workers -> 0 .. delivered]
      /\ StreamTypeOK /\ lastId \in Nat /\ delivered \in Nat /\ id \in Nat
      /\ id \in Outstanding /\ \A w \in Workers : held[w] = id => pc[w] # "ack"
      /\ ~(reaper.at = "xack" /\ Oldest(id))
  BY QueueAssumption DEF Sound, Shape, TypeOK, ProcessTypeOK, StreamTypeOK, Bearing, Productive
<1>a. lastId' \in lastId .. lastId + 1
  BY <1>0, OneAtATime DEF Sound
<1>1. ASSUME UNCHANGED <<worker, reaper, delivered, pending>>
      PROVE  Bearing(id)'
  BY <1>0, <1>a, <1>1 DEF Bearing, Productive, Outstanding, Oldest, worker
<1>2. ASSUME NEW k \in Jobs, SubmitStep(k) \/ SubmitRaises(k) \/ ApiCrash(k) \/ Expire(k)
      PROVE  Bearing(id)'
  <2>1. UNCHANGED <<worker, reaper, delivered, pending>>
    BY <1>2 DEF SubmitStep, SubmitCheck, SubmitCreate, SubmitKiq, SubmitReturn, SubmitConverge,
                SubmitCancel, SubmitRaises, SubmitCreateRaises, SubmitKiqRaises,
                SubmitConvergeRaises, ApiCrash, Expire, Kiq, stream
  <2> QED BY <1>1, <2>1
<1>3. ASSUME NEW c \in Clients, ClientStep(c)
      PROVE  Bearing(id)'
  <2>1. UNCHANGED <<worker, reaper, delivered, pending>>
    BY <1>3 DEF ClientStep, ClientStart, ClientMeta, ClientPages, ClientUnreadable,
                ClientResults, ClientAnswer, ClientCancel, ClientUnchanged, stream
  <2> QED BY <1>1, <2>1
<1>4. ASSUME UNCHANGED vars
      PROVE  Bearing(id)'
  BY <1>1, <1>4 DEF vars, stream
<1>5. ASSUME NEW w \in Workers, Deliver(w)
      PROVE  Bearing(id)'
  <2>1. /\ delivered' = delivered + 1 /\ lastId' = lastId /\ reaper' = reaper
        /\ pending' = pending \cup {delivered + 1}
        /\ held' = [held EXCEPT ![w] = delivered + 1] /\ pc' = [pc EXCEPT ![w] = "meta"]
    BY <1>5 DEF Deliver, Goto
  <2>2. id \in Outstanding'
    BY <1>0, <2>1 DEF Outstanding
  <2>3. \A v \in Workers : held'[v] = id => pc'[v] # "ack"
    BY <1>0, <2>1
  <2> QED BY <1>0, <2>1, <2>2, <2>3 DEF Bearing, Productive, Oldest
<1>6. ASSUME NEW w \in Workers, TaskStep(w), ~Ack(w)
      PROVE  Goal
  <2>1. /\ UNCHANGED <<held, reaper, delivered, pending>>
        /\ \A v \in Workers : v # w => pc'[v] = pc[v]
    BY <1>0, <1>6
       DEF TaskStep, TaskMeta, TaskSlot, TaskMark, TaskPage, TaskScrape, TaskWrite,
           TaskRemeta, TaskChain, ReadOnly, Kiq, stream, Goto
  <2>2. id \in Outstanding' /\ ~(reaper'.at = "xack" /\ Oldest(id)')
    BY <1>0, <1>a, <2>1 DEF Outstanding, Oldest
  <2>3. CASE held[w] = id /\ pc'[w] = "ack"
    BY <1>6, <2>3, TaskLetsGo
  <2>4. CASE ~(held[w] = id /\ pc'[w] = "ack")
    <3>1. \A v \in Workers : held'[v] = id => pc'[v] # "ack"
      BY <1>0, <2>1, <2>4
    <3> QED BY <2>1, <2>2, <3>1 DEF Bearing, Productive
  <2> QED BY <2>3, <2>4
<1>7. ASSUME NEW w \in Workers, Ack(w) \/ WorkerCrash(w)
      PROVE  Bearing(id)'
  <2>1. /\ UNCHANGED <<lastId, reaper, delivered>>
        /\ held' = [held EXCEPT ![w] = None] /\ pc' = [pc EXCEPT ![w] = "idle"]
        /\ pending' = pending \/ (pc[w] = "ack" /\ pending' = pending \ {held[w]})
    BY <1>7 DEF Ack, WorkerCrash, Goto, stream
  <2>2. id \in Outstanding'
    BY <1>0, <2>1 DEF Outstanding
  <2>3. \A v \in Workers : held'[v] = id => pc'[v] # "ack"
    BY <1>0, <2>1 DEF None
  <2> QED BY <1>0, <2>1, <2>2, <2>3 DEF Bearing, Productive, Oldest
<1>8. ASSUME NEW w \in Workers, TaskRaises(w)
      PROVE  FALSE
  BY <1>8 DEF TaskRaises
<1>9. ASSUME ReaperClaim \/ ReaperCrash \/ \E w \in Workers : ReaperClaimSlow(w)
      PROVE  Bearing(id)'
  <2>1. UNCHANGED <<worker, lastId, delivered, pending>> /\ reaper'.at # "xack"
    BY <1>9 DEF ReaperClaim, ReaperCrash, ReaperClaimSlow, IdleReaper, stream
  <2> QED BY <1>0, <2>1 DEF Bearing, Productive, Outstanding, worker
<1>10. ASSUME ReaperXadd
       PROVE  Goal
  <2>1. PICK i \in Ids : Oldest(i) /\ Kiq(msg[i].job, msg[i].page)
    BY <1>10 DEF ReaperXadd
  <2>2. /\ reaper.at = "xadd" /\ reaper' = [reaper EXCEPT !.at = "xack"] /\ UNCHANGED worker
        /\ UNCHANGED <<delivered, pending>> /\ lastId' = lastId + 1
        /\ reaper'.todo = reaper.todo
    BY <1>10, <2>1 DEF ReaperXadd, Kiq, Sound, Shape, TypeOK, ProcessTypeOK
  <2>3. CASE i = id
    <3>1. Kiq(j, p)
      BY <2>1, <2>3
    <3> QED BY <1>0, <3>1, KiqFacts
  <2>4. CASE i # id
    <3>1. ~Oldest(id)
      BY <1>0, <2>1, <2>4 DEF Oldest, Ids
    <3> QED BY <1>0, <2>2, <3>1 DEF Bearing, Productive, Outstanding, Oldest, worker
  <2> QED BY <2>3, <2>4
<1>11. ASSUME ReaperXack
       PROVE  Bearing(id)'
  <2>1. PICK i \in Ids : /\ Oldest(i) /\ pending' = pending \ {i}
                         /\ reaper' = IF reaper.todo = {i} THEN IdleReaper
                                      ELSE [at |-> "xadd", todo |-> reaper.todo \ {i}]
    BY <1>11 DEF ReaperXack
  <2>2. /\ reaper.at = "xack" /\ UNCHANGED <<worker, lastId, delivered>> /\ reaper'.at # "xack"
    BY <1>11, <2>1 DEF ReaperXack, IdleReaper
  <2>3. i # id
    BY <1>0, <2>1, <2>2
  <2> QED BY <1>0, <2>1, <2>2, <2>3 DEF Bearing, Productive, Outstanding, worker
<1> HIDE DEF Goal
<1>12. Bearing(id)' => Goal
  BY DEF Goal
<1>13. Goal
  BY <1>2, <1>3, <1>4, <1>5, <1>6, <1>7, <1>8, <1>9, <1>10, <1>11, <1>12 DEF Next, TaskStep, ReaperStep
<1> QED BY <1>13 DEF Goal
-----------------------------------------------------------------------------
(***************************************************************************)
(* No page is lost.  An entry of an active job is either still carried, or *)
(* its page is written and the page after it written or carried: the       *)
(* invariant follows the entry, not the page, because a redelivery of a    *)
(* written page is what re-issues a chain.                                 *)
(***************************************************************************)
Carried(j, p) == \E id \in 1 .. lastId : msg[id] = [job |-> j, page |-> p] /\ Bearing(id)

CaredFor(j, p) ==
  \/ Carried(j, p)
  \/ /\ slot[j][p] # "empty"
     /\ \A n \in Pages : <<p, n>> \in links[j] => slot[j][n] # "empty" \/ Carried(j, n)

EntriesCaredFor ==
  \A j \in Jobs, p \in Pages : status[j] \in Active /\ EntryFor(j, p) => CaredFor(j, p)

\* Only a delivered page is written, until a cancel brings its stubs.
WrittenHaveEntries ==
  \A j \in Jobs : status[j] \in Active => \A p \in Filled(j) : EntryFor(j, p)

\* The fan-out returns when every head has its entry.
HeadsHaveEntries ==
  \A j \in Jobs : sub[j] \in {"fanout", "accepted"} =>
    /\ sub[j] = "accepted" => heads[j] = {}
    /\ status[j] \in Active => \A p \in JobPages(j) :
         p \in heads[j] \/ EntryFor(j, p) \/ \E m \in Pages : <<m, p>> \in links[j]

Coverage == EntriesCaredFor /\ WrittenHaveEntries /\ HeadsHaveEntries

LEMMA EntriesStay ==
  ASSUME Shape, [Next]_vars, NEW j \in Jobs, NEW p \in Pages, EntryFor(j, p)
  PROVE  EntryFor(j, p)' /\ ~NotCreated(j)
<1>1. PICK id \in 1 .. lastId : msg[id] = [job |-> j, page |-> p]
  BY DEF EntryFor
<1>2. id \in 1 .. lastId' /\ msg'[id] = [job |-> j, page |-> p]
  BY <1>1, Additions
<1>3. EntryFor(j, p)'
  BY <1>2 DEF EntryFor
<1>4. ~NotCreated(j)
  BY <1>1 DEF Shape, MsgShape
<1> QED BY <1>3, <1>4

\* An entry just added is carried.
LEMMA NewIsCarried ==
  ASSUME Shape, [Next]_vars, NEW j \in Jobs, NEW p \in Pages,
         lastId' = lastId + 1, msg'[lastId'] = [job |-> j, page |-> p]
  PROVE  EntryFor(j, p)' /\ Carried(j, p)'
BY NewBears DEF EntryFor, Carried

\* Nobody lets go of a page of an active job before it is written and its
\* successor carried.
LEMMA CarriedStep ==
  ASSUME ~RedisErrors, Sound, Order, [Next]_vars, NEW j \in Jobs, NEW p \in Pages,
         Carried(j, p), status'[j] \in Active
  PROVE  \/ Carried(j, p)'
         \/ /\ slot[j][p] # "empty"
            /\ \A n \in Pages : <<p, n>> \in links[j] => Carried(j, n)'
<1>1. PICK id \in 1 .. lastId : msg[id] = [job |-> j, page |-> p] /\ Bearing(id)
  BY DEF Carried
<1>2. CASE Bearing(id)'
  <2>1. id \in 1 .. lastId' /\ msg'[id] = [job |-> j, page |-> p]
    BY <1>1, Additions DEF Sound
  <2> QED BY <1>2, <2>1 DEF Carried
<1>3. CASE lastId' = lastId + 1 /\ msg'[lastId'] = [job |-> j, page |-> p]
  BY <1>3, NewIsCarried DEF Sound
<1>4. ASSUME slot[j][p] # "empty",
             \A n \in Pages : <<p, n>> \in links[j] =>
               lastId' = lastId + 1 /\ msg'[lastId'] = [job |-> j, page |-> n]
      PROVE  \A n \in Pages : <<p, n>> \in links[j] => Carried(j, n)'
  BY <1>4, NewIsCarried DEF Sound
<1> QED BY <1>1, <1>2, <1>3, <1>4, BearingStep

LEMMA CaredForStep ==
  ASSUME ~RedisErrors, Sound, Order, [Next]_vars, NEW j \in Jobs, NEW p \in Pages,
         ~NotCreated(j), CaredFor(j, p), status'[j] \in Active
  PROVE  CaredFor(j, p)'
<1>1. links'[j] = links[j] /\ \A n \in Pages : slot[j][n] # "empty" => slot'[j][n] # "empty"
  <2>1. LinksKept(j) /\ Filled(j) \subseteq Filled(j)'
    BY StoreKept DEF Sound
  <2> QED BY <2>1 DEF LinksKept, Filled, Live
<1>2. CASE Carried(j, p)
  BY <1>1, <1>2, CarriedStep DEF CaredFor
<1>3. ASSUME slot[j][p] # "empty", NEW n \in Pages, slot[j][n] # "empty" \/ Carried(j, n)
      PROVE  slot'[j][n] # "empty" \/ Carried(j, n)'
  BY <1>1, <1>3, CarriedStep
<1> QED BY <1>1, <1>2, <1>3 DEF CaredFor

\* A task is about to write page p of job j.
Writing(j, p) ==
  \E w \in Workers : /\ pc[w] = "write" /\ Job(w) = j
                     /\ held[w] \in 1 .. lastId /\ msg[held[w]] = [job |-> j, page |-> p]

LEMMA WhoWrites ==
  ASSUME Shape, [Next]_vars, NEW j \in Jobs, NEW p \in Pages,
         slot[j][p] = "empty", slot'[j][p] # "empty",
         status'[j] \in Active \/ slot'[j][p] # "stub"
  PROVE  Writing(j, p)
<1>1. CASE UNCHANGED slot
  BY <1>1
<1>2. ASSUME NEW w \in Workers, TaskWrite(w)
      PROVE  Writing(j, p)
  <2>1. /\ held[w] \in 1 .. lastId /\ Job(w) \in Jobs /\ Page(w) \in Pages
        /\ msg[held[w]] = [job |-> Job(w), page |-> Page(w)]
    <3>1. held[w] \in 1 .. lastId /\ Job(w) \in Jobs /\ Page(w) \in Pages
      BY <1>2, HeldEntry DEF TaskWrite, Shape
    <3>2. msg[held[w]] \in [job : Jobs, page : Pages]
      BY <3>1 DEF Shape, MsgShape
    <3> QED BY <3>1, <3>2 DEF Job, Page
  <2>2. slot' = [slot EXCEPT ![Job(w)][Page(w)] = out[w]]
    BY <1>1, <1>2 DEF TaskWrite, WriteSlot, store
  <2>3. Job(w) = j /\ Page(w) = p
    BY <2>1, <2>2 DEF Shape, TypeOK, StoreTypeOK
  <2> QED BY <1>2, <2>1, <2>3 DEF Writing, TaskWrite
<1>3. ASSUME NEW k \in Jobs, NEW S, CancelFill(k, S)
      PROVE  FALSE
  <2>1. CASE k = j
    BY <1>3, <2>1 DEF CancelFill, store, Active, Shape, TypeOK, StoreTypeOK
  <2>2. CASE k # j
    BY <1>3, <2>2 DEF CancelFill, store, Shape, TypeOK, StoreTypeOK
  <2> QED BY <2>1, <2>2
<1>4. ASSUME NEW k \in Jobs, Expire(k)
      PROVE  FALSE
  BY <1>4 DEF Expire, Shape, TypeOK, StoreTypeOK
<1>5. ASSUME NEW k \in Jobs, SubmitStep(k) \/ SubmitRaises(k) \/ ApiCrash(k)
      PROVE  Writing(j, p)
  BY <1>1, <1>3, <1>5 DEF SubmitStep, SubmitCheck, SubmitCreate, SubmitKiq, SubmitReturn,
                          SubmitConverge, SubmitCancel, SubmitRaises, SubmitCreateRaises,
                          SubmitKiqRaises, SubmitConvergeRaises, CreateBatch, ApiCrash, store
<1>6. ASSUME NEW w \in Workers, Deliver(w) \/ TaskStep(w) \/ TaskRaises(w) \/ WorkerCrash(w)
                                  \/ ReaperClaimSlow(w)
      PROVE  Writing(j, p)
  BY <1>1, <1>2, <1>6 DEF TaskStep, Deliver, TaskMeta, TaskSlot, TaskMark, TaskPage, TaskScrape,
                          TaskRemeta, TaskChain, Ack, TaskRaises, WorkerCrash, ReaperClaimSlow,
                          ReadOnly, store
<1>7. ASSUME ReaperStep \/ ReaperCrash
      PROVE  Writing(j, p)
  BY <1>1, <1>7 DEF ReaperStep, ReaperClaim, ReaperXadd, ReaperXack, ReaperCrash, store
<1>8. ASSUME NEW c \in Clients, ClientStep(c), ~ClientCancel(c)
      PROVE  Writing(j, p)
  BY <1>1, <1>8 DEF ClientStep, ClientStart, ClientMeta, ClientPages, ClientUnreadable,
                    ClientResults, ClientAnswer, store
<1>9. ASSUME NEW c \in Clients, ClientCancel(c)
      PROVE  FALSE
  <2>1. client[c].job \in Jobs /\ CancelFill(client[c].job, client[c].empty)
    BY <1>9 DEF ClientCancel, ClientIs, Wanted, Shape, ClientShape
  <2> QED BY <1>3, <2>1
<1>10. UNCHANGED vars => UNCHANGED slot
  BY DEF vars, store
<1> QED BY <1>1, <1>4, <1>5, <1>6, <1>7, <1>8, <1>9, <1>10 DEF Next

LEMMA CoverageStep ==
  ASSUME ~RedisErrors, Sound, Order, Coverage, [Next]_vars
  PROVE  Coverage'
<1>0. Shape /\ Shape'
  BY ShapeNext DEF Sound
<1>1. EntriesCaredFor'
  <2> SUFFICES ASSUME NEW j \in Jobs, NEW p \in Pages, status'[j] \in Active, EntryFor(j, p)'
               PROVE  CaredFor(j, p)'
    BY DEF EntriesCaredFor
  <2>1. CASE EntryFor(j, p)
    <3>1. ~NotCreated(j)
      BY <1>0, <2>1, EntriesStay
    <3>2. status[j] \in Active
      BY <1>0, <3>1, StoreKept
    <3>3. CaredFor(j, p)
      BY <2>1, <3>2 DEF Coverage, EntriesCaredFor
    <3> QED BY <3>1, <3>3, CaredForStep
  <2>2. CASE ~EntryFor(j, p)
    <3>1. PICK id \in 1 .. lastId' : msg'[id] = [job |-> j, page |-> p]
      BY DEF EntryFor
    <3>2. id \notin 1 .. lastId
      BY <1>0, <2>2, <3>1, Additions DEF EntryFor
    <3>3. lastId' = lastId + 1 /\ id = lastId'
      BY <1>0, <3>2, OneAtATime
    <3> QED BY <1>0, <3>1, <3>3, NewIsCarried DEF CaredFor
  <2> QED BY <2>1, <2>2
<1>2. WrittenHaveEntries'
  <2> SUFFICES ASSUME NEW j \in Jobs, NEW p \in Pages, status'[j] \in Active, slot'[j][p] # "empty"
               PROVE  EntryFor(j, p)'
    BY DEF WrittenHaveEntries, Filled
  <2>1. CASE NotCreated(j)
    BY <1>0, <2>1, CreatedChains DEF Filled
  <2>2. CASE ~NotCreated(j)
    <3>1. status[j] \in Active
      BY <1>0, <2>2, StoreKept
    <3>2. EntryFor(j, p)
      BY <1>0, <3>1, WhoWrites DEF Writing, EntryFor, Coverage, WrittenHaveEntries, Filled
    <3> QED BY <1>0, <3>2, EntriesStay
  <2> QED BY <2>1, <2>2
<1>3. HeadsHaveEntries'
  <2> SUFFICES ASSUME NEW j \in Jobs, sub'[j] \in {"fanout", "accepted"}
               PROVE  /\ sub'[j] = "accepted" => heads'[j] = {}
                      /\ status'[j] \in Active => \A p \in JobPages(j)' :
                           \/ p \in heads'[j] \/ EntryFor(j, p)'
                           \/ \E m \in Pages : <<m, p>> \in links'[j]
    BY DEF HeadsHaveEntries
  <2>1. CASE NotCreated(j)
    BY <1>0, <2>1, CreatedChains
  <2>2. CASE ~NotCreated(j)
    <3>1. /\ sub[j] \in {"fanout", "accepted"} /\ heads'[j] \subseteq heads[j]
          /\ sub'[j] = "accepted" => sub[j] = "accepted" \/ heads[j] = {}
          /\ \A h \in heads[j] \ heads'[j] :
               lastId' = lastId + 1 /\ msg'[lastId'] = [job |-> j, page |-> h]
      BY <1>0, <2>2, HeadsStep
    <3>2. sub'[j] = "accepted" => heads'[j] = {}
      BY <3>1 DEF Coverage, HeadsHaveEntries
    <3>3. ASSUME status'[j] \in Active, NEW p \in JobPages(j)'
          PROVE  \/ p \in heads'[j] \/ EntryFor(j, p)'
                 \/ \E m \in Pages : <<m, p>> \in links'[j]
      <4>1. status[j] \in Active /\ JobPages(j)' = JobPages(j) /\ links'[j] = links[j]
        BY <1>0, <2>2, <3>3, StoreKept DEF JobPages, LinksKept, Live
      <4>2. p \in Pages
        BY <1>0, <4>1, QueueAssumption DEF JobPages, Pages, Shape, TypeOK, StoreTypeOK
      <4>3. p \in heads[j] \/ EntryFor(j, p) \/ \E m \in Pages : <<m, p>> \in links[j]
        BY <3>1, <4>1 DEF Coverage, HeadsHaveEntries
      <4>4. CASE p \in heads[j] \ heads'[j]
        BY <1>0, <3>1, <4>2, <4>4, NewIsCarried
      <4> QED BY <1>0, <4>1, <4>2, <4>3, <4>4, EntriesStay
    <3> QED BY <3>2, <3>3
  <2> QED BY <2>1, <2>2
<1> QED BY <1>1, <1>2, <1>3 DEF Coverage

LEMMA CoverageInit == Init => Coverage
BY DEF Init, Coverage, EntriesCaredFor, WrittenHaveEntries, HeadsHaveEntries, Active

\* Coverage gives both halves of PagesCovered.
LEMMA CoverageCovers ==
  ASSUME Shape, Coverage
  PROVE  PagesCovered
<1>0. 1 .. lastId \subseteq Ids
  BY QueueAssumption DEF Ids, Shape, TypeOK, StreamTypeOK
<1>1. ASSUME NEW j, NEW p, Carried(j, p)
      PROVE  \E id \in Ids : Carries(id, j, p)
  BY <1>0, <1>1 DEF Carried, Carries, Bearing
<1>2. HeadsCovered
  <2> SUFFICES ASSUME NEW j \in Jobs, Submitted(j), NEW p \in JobPages(j), slot[j][p] = "empty",
                      ~\E m \in Pages : <<m, p>> \in links[j]
               PROVE  \E id \in Ids : Carries(id, j, p)
    BY DEF HeadsCovered
  <2>1. EntryFor(j, p)
    BY DEF Submitted, Coverage, HeadsHaveEntries
  <2>2. p \in Pages
    BY QueueAssumption DEF JobPages, Pages, Shape, TypeOK, StoreTypeOK
  <2>3. Carried(j, p)
    BY <2>1, <2>2 DEF Submitted, Coverage, EntriesCaredFor, CaredFor
  <2> QED BY <1>1, <2>3
<1>3. LinksCovered
  <2> SUFFICES ASSUME NEW j \in Jobs, status[j] \in Active, NEW l \in links[j],
                      slot[j][l[1]] # "empty", slot[j][l[2]] = "empty"
               PROVE  \E id \in Ids : Carries(id, j, l[1]) \/ Carries(id, j, l[2])
    BY DEF LinksCovered
  <2>1. l[1] \in Pages /\ l[2] \in Pages /\ l = <<l[1], l[2]>>
    BY DEF Shape, TypeOK, StoreTypeOK
  <2>2. EntryFor(j, l[1])
    BY <2>1 DEF Coverage, WrittenHaveEntries, Filled
  <2>3. Carried(j, l[1]) \/ Carried(j, l[2])
    BY <2>1, <2>2 DEF Coverage, EntriesCaredFor, CaredFor
  <2> QED BY <1>1, <2>3
<1> QED BY <1>2, <1>3 DEF PagesCovered

\* No page of an accepted job is lost through any crash of workers or of the
\* reaper.  A Redis call that raises out of a task is left out: taskiq
\* acknowledges such a task, and the page may be gone.
THEOREM PagesAreCovered ==
  ASSUME ~RedisErrors
  PROVE  Spec => []PagesCovered
<1> DEFINE Inv == Sound /\ Order /\ Coverage
<1>1. Init => Inv
  BY ShapeInit, StoreInvInit, OrderInit, CoverageInit DEF Sound
<1>2. Inv /\ [Next]_vars => Inv'
  <2> SUFFICES ASSUME Inv, [Next]_vars PROVE Inv'
    OBVIOUS
  <2>1. Sound'
    BY ShapeNext, StoreEffects, StoreInvStep DEF Sound
  <2> QED BY <2>1, OrderStep, CoverageStep DEF Sound
<1>3. Inv => PagesCovered
  BY CoverageCovers DEF Sound
<1> QED BY <1>1, <1>2, <1>3, PTL DEF Spec
-----------------------------------------------------------------------------
(***************************************************************************)
(* Refinement.  Under the identity on status, total and slot every step is *)
(* one of ScrapeJob's for one job, or none.  Queue, workers, reaper and    *)
(* clients disappear: what is left of them are the invariants that say why *)
(* their writes are allowed.                                               *)
(***************************************************************************)

\* A step changes at most one job.
Only(j) ==
  \A k \in Jobs \ {j} : status'[k] = status[k] /\ total'[k] = total[k] /\ slot'[k] = slot[k]

OneJob == \/ UNCHANGED <<status, total, slot>>
          \/ \E j \in Jobs : Only(j)

LEMMA OneJobMoves ==
  ASSUME Shape, [Next]_vars
  PROVE  OneJob
<1>1. CASE UNCHANGED store
  BY <1>1 DEF store, OneJob
<1>2. ASSUME NEW j \in Jobs, NEW S, CancelFill(j, S)
      PROVE  OneJob
  BY <1>2 DEF CancelFill, store, OneJob, Only, Shape, TypeOK, StoreTypeOK
<1>3. ASSUME NEW j \in Jobs, NEW n, NEW s, CreateBatch(j, n, s)
      PROVE  OneJob
  <2>1. Only(j)
    BY <1>3 DEF CreateBatch, Only, Shape, TypeOK, StoreTypeOK
  <2> QED BY <2>1 DEF OneJob
<1>4. ASSUME NEW j \in Jobs, Expire(j)
      PROVE  OneJob
  BY <1>4 DEF Expire, OneJob, Only, Shape, TypeOK, StoreTypeOK
<1>5. ASSUME NEW w \in Workers, TaskMark(w) \/ TaskWrite(w)
      PROVE  OneJob
  <2>1. Job(w) \in Jobs
    BY <1>5, HeldEntry DEF Shape, TaskMark, TaskWrite
  <2>2. CASE TaskMark(w)
    BY <2>1, <2>2 DEF TaskMark, OneJob, Only, Shape, TypeOK, StoreTypeOK
  <2>3. CASE TaskWrite(w)
    BY <1>1, <2>1, <2>3 DEF TaskWrite, WriteSlot, OneJob, Only, Shape, TypeOK, StoreTypeOK
  <2> QED BY <1>5, <2>2, <2>3
<1>6. ASSUME NEW j \in Jobs, SubmitStep(j) \/ SubmitRaises(j) \/ ApiCrash(j)
      PROVE  OneJob
  <2>1. CASE SubmitCreate(j)
    BY <1>3, <2>1 DEF SubmitCreate
  <2>2. CASE SubmitRaises(j)
    BY <1>1, <1>2, <1>3, <2>2 DEF SubmitRaises, SubmitCreateRaises, SubmitKiqRaises,
                                  SubmitConvergeRaises
  <2> QED BY <1>1, <1>2, <1>6, <2>1, <2>2
          DEF SubmitStep, SubmitCheck, SubmitKiq, SubmitReturn, SubmitConverge, SubmitCancel, ApiCrash
<1>7. ASSUME NEW w \in Workers, Deliver(w) \/ TaskStep(w) \/ TaskRaises(w) \/ WorkerCrash(w)
                                  \/ ReaperClaimSlow(w)
      PROVE  OneJob
  BY <1>1, <1>5, <1>7 DEF TaskStep, Deliver, TaskMeta, TaskSlot, TaskPage, TaskScrape,
                          TaskRemeta, TaskChain, Ack, TaskRaises, WorkerCrash, ReaperClaimSlow,
                          ReadOnly
<1>8. ASSUME ReaperStep \/ ReaperCrash
      PROVE  OneJob
  BY <1>1, <1>8 DEF ReaperStep, ReaperClaim, ReaperXadd, ReaperXack, ReaperCrash
<1>9. ASSUME NEW c \in Clients, ClientStep(c), ~ClientCancel(c)
      PROVE  OneJob
  BY <1>1, <1>9 DEF ClientStep, ClientStart, ClientMeta, ClientPages, ClientUnreadable,
                    ClientResults, ClientAnswer
<1>10. ASSUME NEW c \in Clients, ClientCancel(c)
       PROVE  OneJob
  <2>1. client[c].job \in Jobs /\ CancelFill(client[c].job, client[c].empty)
    BY <1>10 DEF ClientCancel, ClientIs, Wanted, Shape, ClientShape
  <2> QED BY <1>2, <2>1
<1>11. UNCHANGED vars => UNCHANGED store
  BY DEF vars
<1> QED BY <1>1, <1>4, <1>6, <1>7, <1>8, <1>9, <1>10, <1>11 DEF Next

\* A step that changes only job j, as updates of the three functions.
LEMMA OnlyUpdates ==
  ASSUME Shape, Shape', NEW j \in Jobs, Only(j)
  PROVE  /\ status' = [status EXCEPT ![j] = status'[j]]
         /\ total' = [total EXCEPT ![j] = total'[j]]
         /\ slot' = [slot EXCEPT ![j] = slot'[j]]
<1>1. /\ status \in [Jobs -> Live \cup {"absent", "expired"}]
      /\ status' \in [Jobs -> Live \cup {"absent", "expired"}]
  BY DEF Shape, TypeOK, StoreTypeOK
<1>2. total \in [Jobs -> 0 .. MaxPages] /\ total' \in [Jobs -> 0 .. MaxPages]
  BY DEF Shape, TypeOK, StoreTypeOK
<1>3. /\ slot \in [Jobs -> [Pages -> {"empty", "ok", "error", "stub"}]]
      /\ slot' \in [Jobs -> [Pages -> {"empty", "ok", "error", "stub"}]]
  BY DEF Shape, TypeOK, StoreTypeOK
<1>4. status' = [status EXCEPT ![j] = status'[j]]
  BY <1>1 DEF Only
<1>5. total' = [total EXCEPT ![j] = total'[j]]
  BY <1>2 DEF Only
<1>6. slot' = [slot EXCEPT ![j] = slot'[j]]
  BY <1>3 DEF Only
<1> QED BY <1>4, <1>5, <1>6

\* The counter reaches the size of the batch when no page waits any more.
LEMMA CountIsFull ==
  ASSUME Shape, Shape', NEW j \in Jobs, DoneCountsSlots, Written(j)
  PROVE  done'[j] >= total[j] <=> Unfilled(j)' = {}
<1>1. /\ done'[j] = Cardinality(Filled(j)') /\ total'[j] = total[j]
      /\ done'[j] >= total[j] => Unfilled(j)' = {}
  BY WrittenFacts DEF Written
<1>2. ASSUME Unfilled(j)' = {}
      PROVE  done'[j] >= total[j]
  <2>1. Filled(j)' \subseteq JobPages(j)' /\ total'[j] \in 0 .. MaxPages
    BY DEF Shape, StoreShape, TypeOK, StoreTypeOK
  <2>2. JobPages(j)' \subseteq Filled(j)'
    BY <1>2, <2>1, QueueAssumption DEF Unfilled, Filled, JobPages, Pages
  <2>3. Filled(j)' = 0 .. total'[j] - 1 /\ total'[j] \in Nat
    <3>1. Filled(j)' = JobPages(j)'
      BY <2>1, <2>2
    <3> QED BY <2>1, <3>1, QueueAssumption DEF JobPages
  <2>4. Cardinality(Filled(j)') = total'[j]
    BY <2>3, IntervalSize
  <2> QED BY <1>1, <2>3, <2>4
<1> QED BY <1>1, <1>2

\* What each of a job's store effects is to the client.
LEMMA CreatedIsCreate ==
  ASSUME Shape, Shape', NEW j \in Jobs, Only(j), Created(j)
  PROVE  Promise!Create(j)
<1>1. status[j] = "absent" /\ slot'[j] = slot[j] /\ total'[j] \in 0 .. MaxPages
  BY DEF Created, Shape, ApiShape, TypeOK, StoreTypeOK
<1>2. status'[j] = IF total'[j] = 0 THEN "done" ELSE "queued"
  BY DEF Created
<1>3. slot' = slot
  BY <1>1, OnlyUpdates DEF Shape, TypeOK, StoreTypeOK
<1> QED BY <1>1, <1>2, <1>3, OnlyUpdates DEF Promise!Create

LEMMA MarkedIsRun ==
  ASSUME Shape, Shape', NEW j \in Jobs, Only(j), Marked(j)
  PROVE  Promise!Run(j)
<1>1. slot' = slot /\ total' = total
  BY OnlyUpdates DEF Marked, Shape, TypeOK, StoreTypeOK
<1> QED BY <1>1, OnlyUpdates DEF Marked, Promise!Run

LEMMA ExpiredIsForget ==
  ASSUME Shape, Shape', NEW j \in Jobs, Only(j), Expired(j)
  PROVE  Promise!Forget(j)
<1>1. total' = total
  BY OnlyUpdates DEF Expired, Shape, TypeOK, StoreTypeOK
<1>2. status[j] \in {"queued", "running"} \cup {"done", "cancelled"}
  BY DEF Expired, Live, Active, Terminal
<1> QED BY <1>1, <1>2, OnlyUpdates
        DEF Expired, Pages, Promise!Forget, Promise!Active, Promise!Terminal, Promise!Pages

LEMMA CancelIsCancel ==
  ASSUME Shape, Shape', SchemaSkew \/ Snapshots, NEW j \in Jobs, Only(j),
         NEW S \in Stubs(j), CancelledWith(j, S)
  PROVE  Promise!Cancel(j)
<1>1. total' = total /\ status[j] \in Active /\ status[j] \in Live
  BY OnlyUpdates DEF CancelledWith, Shape, TypeOK, StoreTypeOK, Live
<1>2. S \subseteq JobPages(j)
  BY DEF Stubs, Shape, ApiShape, ClientShape
<1>3. SchemaSkew \/ Unfilled(j) \subseteq S
  BY <1>1 DEF Stubs, Snapshots
<1>4. Promise!Empty(j) = Unfilled(j)
  BY DEF Promise!Empty, Unfilled, JobPages
<1> DEFINE T == S \cap Unfilled(j)
<1>5. T \in SUBSET Promise!Empty(j) /\ (SchemaSkew \/ T = Promise!Empty(j))
  BY <1>3, <1>4
<1>6. slot'[j] = [p \in Pages |-> IF p \in T THEN "stub" ELSE slot[j][p]]
  <2>1. \A p \in Pages : p \in T <=> p \in S /\ slot[j][p] = "empty"
    BY <1>2 DEF Unfilled
  <2> QED BY <2>1 DEF CancelledWith
<1>7. /\ slot' = [slot EXCEPT ![j] = [p \in Promise!Pages |-> IF p \in T THEN "stub" ELSE slot[j][p]]]
      /\ status' = [status EXCEPT ![j] = "cancelled"]
  BY <1>6, OnlyUpdates DEF CancelledWith, Pages, Promise!Pages
<1> HIDE DEF T
<1>8. status[j] \in Promise!Active
  BY <1>1 DEF Active, Promise!Active
<1> QED BY <1>1, <1>5, <1>7, <1>8 DEF Promise!Cancel

\* The write of a task: the first result of a page of a running job, or one
\* more result of a page that has its slot, or one that comes after a cancel.
LEMMA WrittenIsFinish ==
  ASSUME Sound, Shape', NEW j \in Jobs, Only(j), Written(j),
         status[j] = "queued" => \A p \in Pages : slot'[j][p] # "empty" => slot[j][p] # "empty"
  PROVE  Promise!Finish(j) \/ Promise!FinishAgain(j)
<1>1. PICK p \in JobPages(j), o \in {"ok", "error"} :
        /\ status[j] \in Live /\ total'[j] = total[j]
        /\ p \in Pages /\ slot'[j] = [slot[j] EXCEPT ![p] = o]
        /\ status'[j] = IF /\ status[j] \in Active /\ slot[j][p] = "empty"
                           /\ done'[j] >= total[j]
                        THEN IF cancelled[j] THEN "cancelled" ELSE "done"
                        ELSE status[j]
  BY DEF Written
<1>2. /\ Shape /\ Promise!Empty(j) = Unfilled(j) /\ p \in 0 .. total[j] - 1
      /\ cancelled[j] <=> status[j] = "cancelled"
      /\ status[j] = "done" => Unfilled(j) = {}
  BY DEF Sound, StoreInv, DoneIsFull, FlagIsStatus, Promise!Empty, Unfilled, JobPages
<1>3. slot' = [slot EXCEPT ![j][p] = o] /\ total' = total
  BY <1>1, <1>2, OnlyUpdates DEF Shape, TypeOK, StoreTypeOK
<1>4. CASE slot[j][p] = "empty" /\ status[j] # "cancelled"
  <2>1. p \in Unfilled(j) /\ Unfilled(j)' = Unfilled(j) \ {p}
    BY <1>1, <1>3, <1>4 DEF Unfilled, JobPages, Shape, TypeOK, StoreTypeOK
  <2>2. slot'[j][p] # "empty"
    BY <1>1, <1>2 DEF Shape, TypeOK, StoreTypeOK
  <2>3. status[j] = "running" /\ status[j] \in Active /\ ~cancelled[j]
    BY <1>1, <1>2, <1>4, <2>1, <2>2 DEF Live, Active, Terminal
  <2>4. done'[j] >= total[j] <=> Unfilled(j)' = {}
    BY <1>2, CountIsFull DEF Sound, StoreInv
  <2>5. Unfilled(j)' = {} <=> Unfilled(j) = {p}
    BY <2>1
  <2>6. status'[j] = IF Promise!Empty(j) = {p} THEN "done" ELSE status[j]
    BY <1>1, <1>2, <1>4, <2>3, <2>4, <2>5
  <2>7. status' = [status EXCEPT ![j] = IF Promise!Empty(j) = {p} THEN "done" ELSE @]
    BY <1>2, <2>6, OnlyUpdates DEF Shape, TypeOK, StoreTypeOK
  <2>8. p \in Promise!Empty(j) /\ o \in Promise!Result
    BY <1>2, <2>1 DEF Promise!Result
  <2> QED BY <1>3, <2>3, <2>7, <2>8 DEF Promise!Finish
<1>5. CASE slot[j][p] # "empty" \/ status[j] = "cancelled"
  <2>1. status'[j] = status[j]
    BY <1>1, <1>5 DEF Active
  <2>2. status' = status
    BY <1>2, <2>1, OnlyUpdates DEF Shape, TypeOK, StoreTypeOK
  <2>3. status[j] \in Promise!Active \cup Promise!Terminal /\ o \in Promise!Result
    BY <1>1 DEF Live, Active, Terminal, Promise!Active, Promise!Terminal, Promise!Result
  <2> QED BY <1>2, <1>3, <1>5, <2>2, <2>3 DEF Promise!FinishAgain
<1> QED BY <1>4, <1>5

\* What the steps of the pipeline need to be steps of the promise.
Promised == Sound /\ ScrapedAreMarked /\ (SchemaSkew \/ Snapshots)

LEMMA PromiseStep ==
  ASSUME Promised, Shape', [Next]_vars
  PROVE  [Promise!Next]_(Promise!vars)
<1>0. Shape /\ OneJob
  BY OneJobMoves DEF Promised, Sound
<1>1. CASE UNCHANGED <<status, total, slot>>
  BY <1>1 DEF Promise!vars
<1>2. ASSUME NEW j \in Jobs, Only(j)
      PROVE  [Promise!Next]_(Promise!vars)
  <2>1. CASE Same(j)
    <3>1. UNCHANGED <<status, total, slot>>
      BY <1>0, <1>2, <2>1, OnlyUpdates DEF Same, Shape, TypeOK, StoreTypeOK
    <3> QED BY <1>1, <3>1
  <2>2. CASE Created(j)
    BY <1>0, <1>2, <2>2, CreatedIsCreate DEF Promise!Next
  <2>3. CASE Marked(j)
    BY <1>0, <1>2, <2>3, MarkedIsRun DEF Promise!Next
  <2>4. CASE Written(j)
    <3>1. ASSUME status[j] = "queued", NEW p \in Pages, slot'[j][p] # "empty", slot[j][p] = "empty"
          PROVE  FALSE
      <4>1. slot'[j][p] # "stub"
        BY <1>0, <2>4, <3>1 DEF Written, Shape, TypeOK, StoreTypeOK
      <4>2. Writing(j, p)
        BY <1>0, <3>1, <4>1, WhoWrites
      <4> QED BY <3>1, <4>2 DEF Writing, Promised, ScrapedAreMarked
    <3> QED BY <1>2, <2>4, <3>1, WrittenIsFinish DEF Promised, Promise!Next
  <2>5. CASE \E S \in Stubs(j) : CancelledWith(j, S)
    BY <1>0, <1>2, <2>5, CancelIsCancel DEF Promised, Promise!Next
  <2>6. CASE Expired(j)
    BY <1>0, <1>2, <2>6, ExpiredIsForget DEF Promise!Next
  <2> QED BY <1>0, <2>1, <2>2, <2>3, <2>4, <2>5, <2>6, StoreEffects DEF StoreEffect
<1> QED BY <1>0, <1>1, <1>2 DEF OneJob

\* The pipeline keeps what it promises a client: with its queue, its workers,
\* the reaper, crashes and redeliveries, a job looks like one that is created,
\* runs, gets its slots filled and ends.
THEOREM ImplementsPromise == Spec => PromiseSpec
<1>1. Init => Promised /\ Promise!Init
  <2>1. Init => Sound
    BY ShapeInit, StoreInvInit DEF Sound
  <2>2. Init => ScrapedAreMarked /\ Snapshots
    BY DEF Init, ScrapedAreMarked, Snapshots, IdleClient
  <2>3. Init => Promise!Init
    BY DEF Init, Promise!Init, Pages, Promise!Pages
  <2> QED BY <2>1, <2>2, <2>3 DEF Promised
<1>2. Promised /\ [Next]_vars => Promised' /\ [Promise!Next]_(Promise!vars)
  <2> SUFFICES ASSUME Promised, [Next]_vars
               PROVE  Promised' /\ [Promise!Next]_(Promise!vars)
    OBVIOUS
  <2>1. Shape /\ Shape' /\ Sound'
    BY ShapeNext, StoreEffects, StoreInvStep DEF Promised, Sound
  <2>2. ScrapedAreMarked'
    BY <2>1, ScrapedStep DEF Promised
  <2>3. SchemaSkew \/ Snapshots'
    BY <2>1, SnapshotsStep DEF Promised
  <2> QED BY <2>1, <2>2, <2>3, PromiseStep DEF Promised
<1> QED BY <1>1, <1>2, PTL DEF Spec, PromiseSpec, Promise!Spec
=============================================================================
