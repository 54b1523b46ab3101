------------------------- MODULE CrawlEngineProofs -------------------------
(***************************************************************************)
(* CrawlEngine's page cap, its end, its completeness and the life of each  *)
(* page, for every site, every number of workers and every choice of the   *)
(* limits.                                                                 *)
(***************************************************************************)
EXTENDS CrawlEngine, FiniteSetTheorems, SequenceTheorems, WellFoundedInduction, TLAPS

\* What the cap rests on: the counter that reserves slots is exact.
WorkersTyped ==
  /\ worker = [w \in Workers |-> [at |-> worker[w].at, req |-> worker[w].req]]
  /\ \A w \in Workers : worker[w].at \in Running \cup Over
  /\ stats \in [visited: Nat, failed: Nat, retries: Nat]
InFlightIsExact == inFlight = Cardinality(Held)
SlotsReserved == stats.visited + inFlight <= MaxPages
CapInv == WorkersTyped /\ InFlightIsExact /\ SlotsReserved

LEMMA CapInit == Init => CapInv
  <1> SUFFICES ASSUME Init PROVE CapInv
    OBVIOUS
  <1>1. WorkersTyped
    BY DEF Init, WorkersTyped, Idle, Running, Over
  <1>2. Held = {}
    BY DEF Init, Held, Idle
  <1>3. InFlightIsExact
    BY <1>2, FS_EmptySet DEF Init, InFlightIsExact
  <1>4. SlotsReserved
    BY EngineAssumption DEF Init, SlotsReserved
  <1> QED
    BY <1>1, <1>3, <1>4 DEF CapInv

\* The workers with a page in hand are finitely many, before and after a step.
LEMMA HeldFinite ==
  /\ IsFiniteSet(Held) /\ Cardinality(Held) \in Nat
  /\ IsFiniteSet(Held') /\ Cardinality(Held') \in Nat
  <1>1. /\ Held \subseteq Workers
        /\ Held' \subseteq Workers
    BY DEF Held
  <1> QED
    BY <1>1, EngineAssumption, FS_Subset, FS_CardinalityType

\* A page is taken up: one more in hand, one more slot reserved.
LEMMA DispatchCap == ASSUME CapInv, NEW w \in Workers, Dispatch(w) PROVE CapInv'
  <1> USE DEF CapInv
  <1>1. /\ worker[w].at = "loop"
        /\ inFlight' = inFlight + 1
        /\ ~CapReached
        /\ stats' = stats
    BY DEF Dispatch
  <1>2. PICK i \in NextHosts(frontier) :
          worker' = [worker EXCEPT ![w] = [at |-> "semaphore", req |-> Taken(frontier, i)]]
    BY DEF Dispatch
  <1>3. WorkersTyped'
    BY <1>1, <1>2 DEF WorkersTyped, Running
  <1>4. Held' = Held \cup {w} /\ w \notin Held
    BY <1>1, <1>2 DEF WorkersTyped, Held
  <1>5. Cardinality(Held') = Cardinality(Held) + 1
    BY <1>4, HeldFinite, FS_AddElement
  <1>6. InFlightIsExact'
    BY <1>1, <1>5 DEF InFlightIsExact
  <1>7. SlotsReserved'
    BY <1>1, HeldFinite, EngineAssumption DEF InFlightIsExact, SlotsReserved, CapReached, WorkersTyped
  <1> QED
    BY <1>3, <1>6, <1>7

\* A worker that moves on without taking up or giving back a page.
LEMMA SameHandsCap ==
  ASSUME CapInv, NEW w \in Workers, Return(w) \/ Enter(w)
  PROVE  CapInv'
  <1> USE DEF CapInv
  <1>1. \/ worker[w].at = "loop" /\ worker' = [worker EXCEPT ![w].at = "returned"]
        \/ worker[w].at = "semaphore" /\ worker' = [worker EXCEPT ![w].at = "fetch"]
    BY DEF Return, Enter
  <1>2. inFlight' = inFlight /\ stats' = stats
    BY DEF Return, Enter
  <1>3. WorkersTyped'
    BY <1>1, <1>2 DEF WorkersTyped, Running, Over
  <1>4. Held' = Held
    BY <1>1 DEF WorkersTyped, Held
  <1> QED
    BY <1>2, <1>3, <1>4 DEF InFlightIsExact, SlotsReserved

\* The page in hand is given back; at most this page is newly visited.
LEMMA LeaveCap ==
  ASSUME CapInv, NEW w \in Workers, NEW at \in Running \cup Over,
         worker[w].at = "fetch", at \notin {"semaphore", "fetch"}, Leave(w, at),
         stats' \in [visited: Nat, failed: Nat, retries: Nat],
         stats'.visited <= stats.visited + 1
  PROVE  CapInv'
  <1> USE DEF CapInv
  <1>1. PICK req : worker' = [worker EXCEPT ![w] = [at |-> at, req |-> req]]
    BY DEF Leave
  <1>2. inFlight' = inFlight - 1
    BY DEF Leave
  <1>3. WorkersTyped'
    BY <1>1 DEF WorkersTyped
  <1>4. Held' = Held \ {w} /\ w \in Held
    BY <1>1 DEF WorkersTyped, Held
  <1>5. Cardinality(Held') = Cardinality(Held) - 1
    BY <1>4, HeldFinite, FS_RemoveElement
  <1>6. InFlightIsExact'
    BY <1>2, <1>5 DEF InFlightIsExact
  <1>7. SlotsReserved'
    BY <1>2, HeldFinite, EngineAssumption DEF InFlightIsExact, SlotsReserved, WorkersTyped
  <1> QED
    BY <1>3, <1>6, <1>7

LEMMA FetchEndsCap == ASSUME CapInv, NEW w \in Workers, FetchEnds(w) PROVE CapInv'
  <1>0. stats \in [visited: Nat, failed: Nat, retries: Nat]
    BY DEF CapInv, WorkersTyped
  <1>1. ASSUME NEW retryable \in BOOLEAN, NEW retryCode \in BOOLEAN,
               Failed(w, retryable, retryCode)
        PROVE  CapInv'
    <2>1. \/ stats' = [stats EXCEPT !.retries = @ + 1]
          \/ stats' = [stats EXCEPT !.failed = @ + 1]
      BY <1>1 DEF Failed
    <2>2. stats' \in [visited: Nat, failed: Nat, retries: Nat] /\ stats'.visited = stats.visited
      BY <1>0, <2>1
    <2>3. worker[w].at = "fetch" /\ Leave(w, "loop")
      BY <1>1 DEF Failed
    <2> QED
      BY <1>0, <2>2, <2>3, LeaveCap DEF Running
  <1>2. ASSUME Visited(w) PROVE CapInv'
    <2>1. stats' = [stats EXCEPT !.visited = @ + 1]
      BY <1>2 DEF Visited
    <2>2. /\ stats' \in [visited: Nat, failed: Nat, retries: Nat]
          /\ stats'.visited = stats.visited + 1
      BY <1>0, <2>1
    <2>3. worker[w].at = "fetch" /\ Leave(w, "loop")
      BY <1>2 DEF Visited
    <2> QED
      BY <1>0, <2>2, <2>3, LeaveCap DEF Running
  <1>3. ASSUME Raises(w) PROVE CapInv'
    <2>1. worker[w].at = "fetch" /\ Leave(w, "raised") /\ stats' = stats
      BY <1>3 DEF Raises
    <2> QED
      BY <1>0, <2>1, LeaveCap DEF Over
  <1> QED
    BY <1>1, <1>2, <1>3 DEF FetchEnds

\* A hard stop empties every hand and releases every slot.
LEMMA StopCap == ASSUME CapInv, NEW how \in Stops, Stop(how) PROVE CapInv'
  <1> USE DEF CapInv
  <1>0. stats' = stats
    BY DEF Stop
  <1>1. CASE how = "soft"
    <2>1. worker' = worker /\ inFlight' = inFlight
      BY <1>1 DEF Stop
    <2> QED
      BY <1>0, <2>1 DEF WorkersTyped, InFlightIsExact, SlotsReserved, Held
  <1>2. CASE how # "soft"
    <2>1. worker' = [w \in Workers |-> Interrupted(w)] /\ inFlight' = 0
      BY <1>2 DEF Stop
    <2>2. \A w \in Workers :
            /\ Interrupted(w) = [at |-> Interrupted(w).at, req |-> worker[w].req]
            /\ Interrupted(w).at \in Over
      BY DEF WorkersTyped, Interrupted, Over
    <2>3. WorkersTyped'
      BY <1>0, <2>1, <2>2 DEF WorkersTyped
    <2>4. Held' = {}
      BY <2>1, <2>2 DEF Held, Over
    <2>5. InFlightIsExact'
      BY <2>1, <2>4, FS_EmptySet DEF InFlightIsExact
    <2>6. SlotsReserved'
      BY <1>0, <2>1, HeldFinite, EngineAssumption DEF InFlightIsExact, SlotsReserved, WorkersTyped
    <2> QED
      BY <2>3, <2>5, <2>6
  <1> QED
    BY <1>1, <1>2

LEMMA CapStep == ASSUME CapInv, [Next]_vars PROVE CapInv'
  <1>1. ASSUME NEW w \in Workers, Step(w) PROVE CapInv'
    BY <1>1, DispatchCap, SameHandsCap, FetchEndsCap DEF Step
  <1>2. ASSUME NEW how \in Stops, Stop(how) PROVE CapInv'
    BY <1>2, StopCap
  <1>3. CASE Elapse
    BY <1>3 DEF Elapse, CapInv, WorkersTyped, InFlightIsExact, SlotsReserved, Held
  <1>4. CASE UNCHANGED vars
    BY <1>4 DEF vars, CapInv, WorkersTyped, InFlightIsExact, SlotsReserved, Held
  <1> QED
    BY <1>1, <1>2, <1>3, <1>4 DEF Next

\* The cap holds with the pages in hand counted in, and the counter that
\* reserves them is exact: engine.py's "we never dispatch past max_pages".
THEOREM NeverPastMaxPages == Spec => []PageCap
  <1>1. CapInv /\ [Next]_vars => CapInv'
    BY CapStep
  <1>2. CapInv => PageCap
    BY DEF CapInv, InFlightIsExact, SlotsReserved, PageCap
  <1> QED
    BY <1>1, <1>2, CapInit, PTL DEF Spec

-----------------------------------------------------------------------------
(* Recursion over the links of a page.                                     *)

\* Induction on numbers, as a fact about sets.
LEMMA SetInduction ==
  ASSUME NEW S, 0 \in S, \A n \in Nat : n \in S => n + 1 \in S
  PROVE  Nat \subseteq S
<1> DEFINE Less == {ss \in Nat \X Nat : ss[1] < ss[2]}
           Missing == Nat \ S
<1>1. IsWellFoundedOn(Less, Nat)
  BY NatLessThanWellFounded DEF OpToRel
<1>2. SUFFICES ASSUME Missing # {} PROVE FALSE
  OBVIOUS
<1>3. \E x \in Missing : \A y \in Missing : <<y, x>> \notin Less
  <2> HIDE DEF Less, Missing
  <2>1. Missing \subseteq Nat
    BY DEF Missing
  <2> QED BY <1>1, <1>2, <2>1, WFMin
<1>4. PICK x \in Missing : \A y \in Missing : <<y, x>> \notin Less
  BY <1>3
<1>5. x # 0 /\ x - 1 \in Nat
  BY <1>4
<1>6. <<x - 1, x>> \in Less
  BY <1>5
<1>7. x - 1 \in S
  BY <1>4, <1>5, <1>6
<1> QED BY <1>4, <1>5, <1>7

\* Following is the function its equation describes.
LEMMA FollowingIs ==
  ASSUME NEW start, NEW hrefs, Len(hrefs) \in Nat, NEW depth, NEW f, f = Following(start, hrefs, depth)
  PROVE  f = [n \in 0..Len(hrefs) |-> IF n = 0 THEN start ELSE FollowLink(f[n - 1], hrefs[n], depth)]
<1> DEFINE Fits(g, N) == g = [n \in 0..N |-> IF n = 0 THEN start ELSE FollowLink(g[n - 1], hrefs[n], depth)]
           S == {N \in Nat : \E g : Fits(g, N)}
<1>1. 0 \in S
  <2>1. Fits([n \in 0..0 |-> start], 0)
    OBVIOUS
  <2> QED BY <2>1
<1>2. ASSUME NEW N \in Nat, N \in S PROVE N + 1 \in S
  <2>1. PICK g : Fits(g, N)
    BY <1>2
  <2> DEFINE h == [n \in 0..N + 1 |-> IF n = N + 1 THEN FollowLink(g[N], hrefs[N + 1], depth) ELSE g[n]]
  <2>2. ASSUME NEW n \in 0..N + 1
        PROVE  h[n] = IF n = 0 THEN start ELSE FollowLink(h[n - 1], hrefs[n], depth)
    <3>1. CASE n = 0
      <4>1. 0 \in 0..N /\ 0 # N + 1 /\ 0 \in 0..N + 1
        OBVIOUS
      <4>2. g[0] = start
        BY <2>1, <4>1
      <4> QED BY <3>1, <4>1, <4>2
    <3>2. CASE n = N + 1
      <4>1. n # 0 /\ n - 1 = N /\ N \in 0..N + 1 /\ N # N + 1
        BY <3>2
      <4>2. h[n] = FollowLink(g[N], hrefs[N + 1], depth) /\ h[N] = g[N]
        BY <3>2, <4>1
      <4> QED BY <3>2, <4>1, <4>2
    <3>3. CASE n # 0 /\ n # N + 1
      <4>1. n \in 0..N /\ n - 1 \in 0..N + 1 /\ n - 1 # N + 1
        BY <3>3
      <4>2. h[n] = g[n] /\ h[n - 1] = g[n - 1]
        BY <3>3, <4>1
      <4>3. g[n] = FollowLink(g[n - 1], hrefs[n], depth)
        BY <2>1, <3>3, <4>1
      <4> QED BY <3>3, <4>2, <4>3
    <3> QED BY <3>1, <3>2, <3>3
  <2>3. Fits(h, N + 1)
    <3>1. h = [n \in 0..N + 1 |-> h[n]]
      OBVIOUS
    <3> HIDE DEF h
    <3> QED BY <2>2, <3>1
  <2> HIDE DEF h, Fits
  <2>4. \E k : Fits(k, N + 1)
    BY <2>3
  <2> QED BY <2>4
<1>3. Len(hrefs) \in S
  <2> HIDE DEF S
  <2> QED BY <1>1, <1>2, SetInduction
<1>4. \E g : Fits(g, Len(hrefs))
  BY <1>3
<1>5. f = CHOOSE g : Fits(g, Len(hrefs))
  BY DEF Following
<1> HIDE DEF Fits
<1>6. Fits(f, Len(hrefs))
  BY <1>4, <1>5, Zenon
<1> QED BY <1>6 DEF Fits

-----------------------------------------------------------------------------
(* The frontier: its size counts its places, and a place holds a request.  *)
FrontierOK(f) ==
  /\ f \in [queues : [Hosts -> Seq(Request)], order : Seq(Hosts), size : Nat]
  /\ IsFiniteSet(Places(f)) /\ f.size = Cardinality(Places(f))

LEMMA PlaceOf ==
  ASSUME NEW f, FrontierOK(f), NEW p
  PROVE  /\ p \in Places(f) <=> \E h \in Hosts : \E i \in 1..Len(f.queues[h]) : p = <<h, i>>
         /\ p \in Places(f) => RequestAt(f, p) \in Request
  <1>1. \A h \in Hosts : f.queues[h] \in Seq(Request)
    BY DEF FrontierOK
  <1>2. \A h \in Hosts : DOMAIN f.queues[h] = 1..Len(f.queues[h])
    BY <1>1
  <1>3. p \in Places(f) <=> \E h \in Hosts : \E i \in 1..Len(f.queues[h]) : p = <<h, i>>
    BY <1>2 DEF Places
  <1>4. ASSUME NEW h \in Hosts, NEW i \in 1..Len(f.queues[h]), p = <<h, i>>
        PROVE  RequestAt(f, p) \in Request
    BY <1>1, <1>4 DEF RequestAt
  <1> QED
    BY <1>3, <1>4

LEMMA EmptyOK == FrontierOK(EmptyFrontier) /\ Places(EmptyFrontier) = {}
  <1>1. EmptyFrontier \in [queues : [Hosts -> Seq(Request)], order : Seq(Hosts), size : Nat]
    BY DEF EmptyFrontier
  <1>2. Places(EmptyFrontier) = {}
    BY DEF EmptyFrontier, Places
  <1> QED
    BY <1>1, <1>2, FS_EmptySet DEF FrontierOK, EmptyFrontier

\* push() adds one place, at the end of the host's sub-queue.
LEMMA PushOK ==
  ASSUME NEW f, FrontierOK(f), NEW r \in Request
  PROVE  /\ FrontierOK(Push(f, r))
         /\ \A p \in Places(f) : p \in Places(Push(f, r)) /\ RequestAt(Push(f, r), p) = RequestAt(f, p)
         /\ \E p \in Places(Push(f, r)) : p \notin Places(f) /\ RequestAt(Push(f, r), p) = r
         /\ \A p \in Places(Push(f, r)) : p \in Places(f) \/ RequestAt(Push(f, r), p) = r
         /\ \A p, q \in Places(Push(f, r)) \ Places(f) : p = q
  <1> DEFINE h == Host[r.url]
             g == Push(f, r)
             n == Len(f.queues[h]) + 1
             new == <<h, n>>
  <1>1. h \in Hosts /\ f.queues \in [Hosts -> Seq(Request)] /\ f.size \in Nat /\ f.order \in Seq(Hosts)
    BY HostAssumption DEF Request, FrontierOK
  <1>2. /\ g.queues = [f.queues EXCEPT ![h] = Append(@, r)] /\ g.size = f.size + 1
        /\ g = [queues |-> g.queues, order |-> g.order, size |-> g.size]
        /\ g.order \in Seq(Hosts)
    BY <1>1 DEF Push
  <1>3. /\ g.queues[h] = Append(f.queues[h], r) /\ \A k \in Hosts \ {h} : g.queues[k] = f.queues[k]
        /\ \A k \in Hosts : g.queues[k] \in Seq(Request)
        /\ g.queues \in [Hosts -> Seq(Request)]
    <2>0. f.queues[h] \in Seq(Request)
      BY <1>1
    <2> PICK q \in Seq(Request) : q = Append(f.queues[h], r)
      BY <2>0, AppendProperties
    <2>1. g.queues = [f.queues EXCEPT ![h] = q]
      BY <1>2
    <2> HIDE DEF g, h
    <2> QED
      BY <1>1, <2>1
  <1>4. /\ Len(f.queues[h]) \in Nat /\ Len(g.queues[h]) = n
        /\ \A i \in 1..Len(f.queues[h]) : g.queues[h][i] = f.queues[h][i]
        /\ g.queues[h][n] = r
    <2> PICK q \in Seq(Request) : q = f.queues[h]
      BY <1>1
    <2> HIDE DEF g, h
    <2>1. g.queues[h] = Append(q, r) /\ n = Len(q) + 1
      BY <1>3
    <2> QED
      BY <2>1, AppendProperties
  <1> HIDE DEF g, h, n
  <1>5. g \in [queues : [Hosts -> Seq(Request)], order : Seq(Hosts), size : Nat]
    <2>1. g.size \in Nat
      BY <1>1, <1>2
    <2> QED
      BY <1>2, <1>3, <2>1
  <1>6. \A p : p \in Places(f) <=> \E k \in Hosts : \E i \in 1..Len(f.queues[k]) : p = <<k, i>>
    BY PlaceOf
  <1>7. \A p : p \in Places(g) <=> \E k \in Hosts : \E i \in 1..Len(g.queues[k]) : p = <<k, i>>
    <2>1. \A k \in Hosts : DOMAIN g.queues[k] = 1..Len(g.queues[k])
      BY <1>3
    <2> QED
      BY <2>1 DEF Places
  <1>8. n = Len(f.queues[h]) + 1
    BY DEF n
  <1>9. new \in Places(g) /\ new \notin Places(f)
    <2>1. n \in 1..Len(g.queues[h]) /\ n \notin 1..Len(f.queues[h])
      BY <1>4, <1>8
    <2>2. new \in Places(g)
      BY <1>1, <1>7, <2>1
    <2>3. ASSUME NEW k \in Hosts, NEW i \in 1..Len(f.queues[k]), new = <<k, i>> PROVE FALSE
      BY <2>1, <2>3
    <2> QED
      BY <1>6, <2>2, <2>3
  <1>10. ASSUME NEW p \in Places(f) PROVE p \in Places(g) /\ RequestAt(g, p) = RequestAt(f, p)
    <2>0. PICK k \in Hosts : \E i \in 1..Len(f.queues[k]) : p = <<k, i>>
      BY <1>6
    <2>1. PICK i \in 1..Len(f.queues[k]) : p = <<k, i>>
      BY <2>0
    <2>2. i \in 1..Len(g.queues[k]) /\ g.queues[k][i] = f.queues[k][i]
      <3>1. CASE k = h
        BY <1>4, <1>8, <3>1
      <3>2. CASE k # h
        BY <1>3, <3>2
      <3> QED
        BY <3>1, <3>2
    <2> QED
      BY <1>7, <2>1, <2>2 DEF RequestAt
  <1>11. ASSUME NEW p \in Places(g) PROVE p \in Places(f) \/ p = new
    <2>0. PICK k \in Hosts : \E i \in 1..Len(g.queues[k]) : p = <<k, i>>
      BY <1>7
    <2>1. PICK i \in 1..Len(g.queues[k]) : p = <<k, i>>
      BY <2>0
    <2>2. i \in 1..Len(f.queues[k]) \/ (k = h /\ i = n)
      BY <1>3, <1>4, <1>8
    <2> QED
      BY <1>6, <2>1, <2>2
  <1>12. Places(g) = Places(f) \cup {new}
    BY <1>9, <1>10, <1>11
  <1>13. RequestAt(g, new) = r
    BY <1>4 DEF RequestAt
  <1>14. IsFiniteSet(Places(g)) /\ Cardinality(Places(g)) = Cardinality(Places(f)) + 1
    <2>1. IsFiniteSet(Places(f))
      BY DEF FrontierOK
    <2> HIDE DEF new
    <2> QED
      BY <1>9, <1>12, <2>1, FS_AddElement
  <1>15. FrontierOK(g)
    BY <1>2, <1>5, <1>14 DEF FrontierOK
  <1> QED
    BY <1>9, <1>10, <1>11, <1>13, <1>15 DEF g

\* The request at a place of the sub-queue before its head is taken.
Before(h, p) == IF p[1] = h THEN <<h, p[2] + 1>> ELSE p

\* pop() takes the place at the head of a sub-queue and shifts the others of it.
LEMMA PopOK ==
  ASSUME NEW f, FrontierOK(f), NEW i \in NextHosts(f), NEW h, h = f.order[i]
  PROVE  /\ FrontierOK(Popped(f, i))
         /\ h \in Hosts /\ <<h, 1>> \in Places(f)
         /\ Taken(f, i) = RequestAt(f, <<h, 1>>) /\ Taken(f, i) \in Request /\ Taken(f, i).due
         /\ \A q \in Places(Popped(f, i)) :
              /\ Before(h, q) \in Places(f) \ {<<h, 1>>}
              /\ RequestAt(Popped(f, i), q) = RequestAt(f, Before(h, q))
         /\ \A p \in Places(f) \ {<<h, 1>>} : \E q \in Places(Popped(f, i)) : p = Before(h, q)
         /\ \A p, q \in Places(Popped(f, i)) : Before(h, p) = Before(h, q) => p = q
  <1> DEFINE g == Popped(f, i)
             n == Len(f.queues[h])
             last == <<h, n>>
  <1>1. /\ i \in 1..Len(f.order) /\ h \in Hosts /\ f.queues \in [Hosts -> Seq(Request)]
        /\ f.size \in Nat /\ f.order \in Seq(Hosts)
    BY DEF NextHosts, FrontierOK
  <1>2. f.queues[h] \in Seq(Request) /\ f.queues[h] # <<>> /\ Head(f.queues[h]).due
    BY <1>1 DEF NextHosts, HeadReady
  <1>3. n \in Nat /\ n >= 1
    BY <1>2
  <1>4. Rotated(f, i) \in Seq(Hosts)
    <2> DEFINE back == SubSeq(f.order, i + 1, Len(f.order))
               front == SubSeq(f.order, 1, i - 1)
    <2>1. back \in Seq(Hosts) /\ front \in Seq(Hosts)
      BY <1>1
    <2>2. back \o front \in Seq(Hosts)
      <3> HIDE DEF back, front
      <3> QED BY <2>1
    <2>3. Append(back \o front, h) \in Seq(Hosts)
      <3> HIDE DEF back, front
      <3> QED BY <1>1, <2>2
    <2> QED BY <2>2, <2>3 DEF Rotated
  <1>5. /\ g.queues = [f.queues EXCEPT ![h] = Tail(@)] /\ g.size = f.size - 1
        /\ g = [queues |-> g.queues, order |-> g.order, size |-> g.size]
        /\ g.order \in Seq(Hosts)
    BY <1>4 DEF Popped
  <1>6. /\ g.queues[h] = Tail(f.queues[h]) /\ \A k \in Hosts \ {h} : g.queues[k] = f.queues[k]
        /\ \A k \in Hosts : g.queues[k] \in Seq(Request)
        /\ g.queues \in [Hosts -> Seq(Request)]
    BY <1>1, <1>2, <1>5
  <1>7. /\ Len(g.queues[h]) = n - 1
        /\ \A j \in 1..(n - 1) : g.queues[h][j] = f.queues[h][j + 1]
        /\ Head(f.queues[h]) = f.queues[h][1] /\ f.queues[h][1] \in Request
    BY <1>2, <1>6
  <1>8. \A p : p \in Places(f) <=> \E k \in Hosts : \E j \in 1..Len(f.queues[k]) : p = <<k, j>>
    BY PlaceOf
  <1>9. \A p : p \in Places(g) <=> \E k \in Hosts : \E j \in 1..Len(g.queues[k]) : p = <<k, j>>
    <2>1. \A k \in Hosts : DOMAIN g.queues[k] = 1..Len(g.queues[k])
      BY <1>6
    <2> QED
      BY <2>1 DEF Places
  <1>10. Taken(f, i) = f.queues[h][1] /\ RequestAt(f, <<h, 1>>) = f.queues[h][1]
    BY <1>7 DEF Taken, RequestAt
  <1>11. n = Len(f.queues[h])
    OBVIOUS
  <1> HIDE DEF g, n
  <1>12. <<h, 1>> \in Places(f) /\ last \in Places(f)
    BY <1>1, <1>3, <1>8, <1>11
  <1>13. ASSUME NEW q \in Places(g)
         PROVE  /\ Before(h, q) \in Places(f) \ {<<h, 1>>}
                /\ RequestAt(g, q) = RequestAt(f, Before(h, q))
                /\ q \in Places(f) \ {last}
    <2>0. PICK k \in Hosts : \E j \in 1..Len(g.queues[k]) : q = <<k, j>>
      BY <1>9
    <2>1. PICK j \in 1..Len(g.queues[k]) : q = <<k, j>>
      BY <2>0
    <2>2. CASE k = h
      <3>1. j \in 1..(n - 1) /\ j + 1 \in 1..n /\ j \in 1..n /\ j # n /\ j + 1 # 1
        BY <1>3, <1>7, <2>1, <2>2
      <3>2. Before(h, q) = <<h, j + 1>>
        BY <2>1, <2>2 DEF Before
      <3>3. <<h, j + 1>> \in Places(f) /\ <<h, j>> \in Places(f)
        BY <1>1, <1>8, <1>11, <3>1
      <3>4. RequestAt(g, q) = f.queues[h][j + 1] /\ RequestAt(f, <<h, j + 1>>) = f.queues[h][j + 1]
        BY <1>7, <2>1, <2>2, <3>1 DEF RequestAt
      <3> QED BY <2>1, <2>2, <3>1, <3>2, <3>3, <3>4
    <2>3. CASE k # h
      <3>1. Before(h, q) = q /\ q # <<h, 1>> /\ q # last
        BY <2>1, <2>3 DEF Before
      <3>2. g.queues[k] = f.queues[k]
        BY <1>6, <2>3
      <3>3. q \in Places(f)
        BY <1>8, <2>1, <3>2
      <3> QED BY <2>1, <3>1, <3>2, <3>3 DEF RequestAt
    <2> QED BY <2>2, <2>3
  <1>14. ASSUME NEW p \in Places(f), p # <<h, 1>>
         PROVE  \E q \in Places(g) : p = Before(h, q)
    <2>0. PICK k \in Hosts : \E j \in 1..Len(f.queues[k]) : p = <<k, j>>
      BY <1>8
    <2>1. PICK j \in 1..Len(f.queues[k]) : p = <<k, j>>
      BY <2>0
    <2>2. CASE k = h
      <3>1. j - 1 \in 1..Len(g.queues[h]) /\ (j - 1) + 1 = j
        BY <1>3, <1>7, <1>11, <1>14, <2>1, <2>2
      <3>2. <<h, j - 1>> \in Places(g)
        BY <1>1, <1>9, <3>1
      <3>3. p = Before(h, <<h, j - 1>>)
        BY <2>1, <2>2, <3>1 DEF Before
      <3> QED BY <3>2, <3>3
    <2>3. CASE k # h
      <3>1. p \in Places(g)
        BY <1>6, <1>9, <2>1, <2>3
      <3>2. p = Before(h, p)
        BY <2>1, <2>3 DEF Before
      <3> QED BY <3>1, <3>2
    <2> QED BY <2>2, <2>3
  <1>15. ASSUME NEW p \in Places(f), p # last PROVE p \in Places(g)
    <2>0. PICK k \in Hosts : \E j \in 1..Len(f.queues[k]) : p = <<k, j>>
      BY <1>8
    <2>1. PICK j \in 1..Len(f.queues[k]) : p = <<k, j>>
      BY <2>0
    <2>2. CASE k = h
      <3>1. j # n
        BY <1>15, <2>1, <2>2
      <3>2. j \in 1..Len(g.queues[h])
        BY <1>3, <1>7, <1>11, <2>1, <2>2, <3>1
      <3> QED BY <1>9, <2>1, <2>2, <3>2
    <2>3. CASE k # h
      BY <1>6, <1>9, <2>1, <2>3
    <2> QED BY <2>2, <2>3
  <1>16. Places(g) = Places(f) \ {last}
    BY <1>13, <1>15
  <1>17. IsFiniteSet(Places(g)) /\ Cardinality(Places(g)) = Cardinality(Places(f)) - 1
    <2>1. IsFiniteSet(Places(f))
      BY DEF FrontierOK
    <2> HIDE DEF last
    <2> QED
      BY <1>12, <1>16, <2>1, FS_RemoveElement
  <1>18. f.size >= 1 /\ f.size = Cardinality(Places(f))
    <2>1. IsFiniteSet(Places(f)) /\ f.size = Cardinality(Places(f))
      BY DEF FrontierOK
    <2>2. Cardinality(Places(f)) # 0
      BY <1>12, <2>1, FS_EmptySet
    <2> QED
      BY <1>1, <2>1, <2>2
  <1>19. FrontierOK(g)
    <2>1. g.size \in Nat
      BY <1>1, <1>5, <1>18
    <2>2. g \in [queues : [Hosts -> Seq(Request)], order : Seq(Hosts), size : Nat]
      BY <1>5, <1>6, <2>1
    <2> QED
      BY <1>5, <1>17, <1>18, <2>2 DEF FrontierOK
  <1>20. ASSUME NEW p \in Places(g), NEW q \in Places(g), Before(h, p) = Before(h, q)
         PROVE  p = q
    <2>1. \A x \in Places(g) : \E k \in Hosts : \E j \in Nat : x = <<k, j>>
      BY <1>9
    <2> QED
      BY <1>20, <2>1 DEF Before
  <1> QED
    BY <1>1, <1>2, <1>7, <1>10, <1>12, <1>13, <1>14, <1>19, <1>20 DEF g

\* The end of a backoff changes only the flag of the request it is about.
LEMMA ElapsedOK ==
  ASSUME NEW f, FrontierOK(f), NEW p \in Places(f)
  PROVE  /\ FrontierOK(Elapsed(f, p))
         /\ Places(Elapsed(f, p)) = Places(f)
         /\ \A q \in Places(f) : RequestAt(Elapsed(f, p), q).url = RequestAt(f, q).url
         /\ Elapsed(f, p).size = f.size
  <1> DEFINE g == Elapsed(f, p)
  <1>0. PICK h \in Hosts : \E i \in 1..Len(f.queues[h]) : p = <<h, i>>
    BY PlaceOf
  <1>1. PICK i \in 1..Len(f.queues[h]) : p = <<h, i>>
    BY <1>0
  <1>2. f.queues \in [Hosts -> Seq(Request)] /\ f.queues[h] \in Seq(Request)
    BY DEF FrontierOK
  <1> DEFINE line == [f.queues[h] EXCEPT ![i].due = TRUE]
  <1>3. /\ g.queues = [f.queues EXCEPT ![h] = line]
        /\ g.size = f.size /\ g.order = f.order
        /\ g = [queues |-> g.queues, order |-> g.order, size |-> g.size]
    BY <1>1, <1>2 DEF Elapsed
  <1>4. f.queues[h][i] \in Request
    BY <1>2
  <1>5. [f.queues[h][i] EXCEPT !.due = TRUE] \in Request
    BY <1>4 DEF Request
  <1>6. /\ line \in Seq(Request) /\ Len(line) = Len(f.queues[h])
        /\ \A j \in 1..Len(line) : line[j].url = f.queues[h][j].url
    <2> DEFINE r == [f.queues[h][i] EXCEPT !.due = TRUE]
    <2>1. line = [f.queues[h] EXCEPT ![i] = r]
      BY <1>2
    <2>2. r \in Request /\ r.url = f.queues[h][i].url
      BY <1>4, <1>5 DEF Request
    <2> HIDE DEF r, line
    <2> QED BY <1>2, <2>1, <2>2
  <1> HIDE DEF g, line
  <1>7. /\ g.queues \in [Hosts -> Seq(Request)]
        /\ \A k \in Hosts : Len(g.queues[k]) = Len(f.queues[k])
        /\ \A k \in Hosts : \A j \in 1..Len(f.queues[k]) : g.queues[k][j].url = f.queues[k][j].url
    BY <1>2, <1>3, <1>6
  <1>8. \A k \in Hosts : DOMAIN g.queues[k] = DOMAIN f.queues[k]
    BY <1>2, <1>7
  <1>9. Places(g) = Places(f)
    BY <1>8 DEF Places
  <1>10. g \in [queues : [Hosts -> Seq(Request)], order : Seq(Hosts), size : Nat]
    BY <1>3, <1>7 DEF FrontierOK
  <1>11. FrontierOK(g)
    BY <1>3, <1>9, <1>10 DEF FrontierOK
  <1>12. ASSUME NEW q \in Places(f) PROVE RequestAt(g, q).url = RequestAt(f, q).url
    <2>0. PICK k \in Hosts : \E j \in 1..Len(f.queues[k]) : q = <<k, j>>
      BY PlaceOf
    <2>1. PICK j \in 1..Len(f.queues[k]) : q = <<k, j>>
      BY <2>0
    <2> QED BY <1>7, <2>1 DEF RequestAt
  <1> QED
    BY <1>3, <1>9, <1>11, <1>12 DEF g

\* An empty frontier has no host to serve.
LEMMA NothingWaits ==
  ASSUME NEW f, FrontierOK(f), f.size = 0
  PROVE  Places(f) = {} /\ NextHosts(f) = {}
  <1>1. Places(f) = {}
    BY FS_EmptySet DEF FrontierOK
  <1>2. ASSUME NEW i \in NextHosts(f) PROVE FALSE
    BY <1>1, PopOK
  <1> QED
    BY <1>1, <1>2

-----------------------------------------------------------------------------
(* The links of a page, one after the other.                               *)

\* Every request of f waits in g where it waited in f; a page waits in f.
Keeps(f, g) == \A p \in Places(f) : p \in Places(g) /\ RequestAt(g, p) = RequestAt(f, p)
Awaits(f, page) == \E p \in Places(f) : Page(RequestAt(f, p).url) = page

\* A place that next adds is about a page newly seen, each about another one.
NewPlaces(start, next) ==
  /\ \A p \in Places(next.frontier) \ Places(start.frontier) :
       Page(RequestAt(next.frontier, p).url) \in next.seen \ start.seen
  /\ \A p, q \in Places(next.frontier) \ Places(start.frontier) :
       Page(RequestAt(next.frontier, p).url) = Page(RequestAt(next.frontier, q).url) => p = q

\* What a visit has gathered: from start to next, over hrefs 1 to n at a depth.
Gathered(start, next, hrefs, n, depth) ==
  /\ next = [seen |-> next.seen, frontier |-> next.frontier, counts |-> next.counts]
  /\ FrontierOK(next.frontier) /\ Keeps(start.frontier, next.frontier)
  /\ start.seen \subseteq next.seen
  /\ \A m \in 1..n : hrefs[m] \in Urls => Page(hrefs[m]) \in next.seen
  /\ \A page \in next.seen \ start.seen :
       \/ Awaits(next.frontier, page)
       \/ \E m \in 1..n : /\ hrefs[m] \in Urls /\ Page(hrefs[m]) = page
                          /\ depth > MaxDepth \/ hrefs[m] \notin InScope
  /\ NewPlaces(start, next)

LEMMA FollowLinkOK ==
  ASSUME NEW acc, acc = [seen |-> acc.seen, frontier |-> acc.frontier, counts |-> acc.counts],
         FrontierOK(acc.frontier), NEW href \in Urls \cup {Malformed}, NEW depth \in Nat,
         NEW next, next = FollowLink(acc, href, depth)
  PROVE  /\ next = [seen |-> next.seen, frontier |-> next.frontier, counts |-> next.counts]
         /\ FrontierOK(next.frontier) /\ Keeps(acc.frontier, next.frontier)
         /\ acc.seen \subseteq next.seen
         /\ href \in Urls => Page(href) \in next.seen
         /\ \A page \in next.seen \ acc.seen :
              /\ page = Page(href) /\ href \in Urls
              /\ Awaits(next.frontier, page) \/ depth > MaxDepth \/ href \notin InScope
         /\ NewPlaces(acc, next)
  <1>0. Malformed \notin Urls
    BY EngineAssumption
  <1>1. CASE href = Malformed
    <2>1. /\ next = [acc EXCEPT !.counts.linksDropped = @ + 1]
      BY <1>1 DEF FollowLink
    <2>2. /\ next = [seen |-> next.seen, frontier |-> next.frontier, counts |-> next.counts]
          /\ next.seen = acc.seen /\ next.frontier = acc.frontier
      BY <2>1
    <2> QED BY <1>0, <1>1, <2>2 DEF Keeps, NewPlaces
  <1>2. CASE href # Malformed /\ Page(href) \in acc.seen
    <2>1. /\ next = [acc EXCEPT !.counts.dedupSkipped = @ + 1]
      BY <1>2 DEF FollowLink
    <2>2. /\ next = [seen |-> next.seen, frontier |-> next.frontier, counts |-> next.counts]
          /\ next.seen = acc.seen /\ next.frontier = acc.frontier
      BY <2>1
    <2> QED BY <1>2, <2>2 DEF Keeps, NewPlaces
  <1>3. CASE href # Malformed /\ Page(href) \notin acc.seen /\ (depth > MaxDepth \/ href \notin InScope)
    <2>1. /\ next = [acc EXCEPT !.seen = @ \cup {Page(href)}, !.counts.outOfScope = @ + 1]
      BY <1>3 DEF FollowLink
    <2>2. /\ next = [seen |-> next.seen, frontier |-> next.frontier, counts |-> next.counts]
          /\ next.seen = acc.seen \cup {Page(href)} /\ next.frontier = acc.frontier
      BY <2>1
    <2> QED BY <1>3, <2>2 DEF Keeps, NewPlaces
  <1>4. CASE href # Malformed /\ Page(href) \notin acc.seen /\ ~(depth > MaxDepth \/ href \notin InScope)
    <2> DEFINE r == [url |-> href, depth |-> depth, attempts |-> 0, due |-> TRUE]
    <2>0. href \in Urls /\ r \in Request /\ r.url = href
      BY <1>4 DEF Request
    <2>1. next = [acc EXCEPT !.seen = @ \cup {Page(href)}, !.frontier = Push(@, r)]
      BY <1>4 DEF FollowLink
    <2> HIDE DEF r
    <2>2. /\ next = [seen |-> next.seen, frontier |-> next.frontier, counts |-> next.counts]
          /\ next.seen = acc.seen \cup {Page(href)} /\ next.frontier = Push(acc.frontier, r)
      BY <2>1
    <2>3. FrontierOK(next.frontier) /\ Keeps(acc.frontier, next.frontier)
      BY <2>0, <2>2, PushOK DEF Keeps
    <2>4. PICK p \in Places(next.frontier) : RequestAt(next.frontier, p) = r
      BY <2>0, <2>2, PushOK
    <2>5. Awaits(next.frontier, Page(href))
      BY <2>0, <2>4 DEF Awaits
    <2>6. \A q \in Places(next.frontier) \ Places(acc.frontier) :
            Page(RequestAt(next.frontier, q).url) \in next.seen \ acc.seen
      BY <1>4, <2>0, <2>2, PushOK
    <2>7. \A q, t \in Places(next.frontier) \ Places(acc.frontier) : q = t
      BY <2>0, <2>2, PushOK
    <2>8. NewPlaces(acc, next)
      BY <2>6, <2>7 DEF NewPlaces
    <2> QED BY <2>0, <2>2, <2>3, <2>5, <2>8
  <1> QED BY <1>1, <1>2, <1>3, <1>4

LEMMA GatheredStep ==
  ASSUME NEW start, NEW acc, NEW hrefs, NEW n \in Nat, NEW depth \in Nat,
         Gathered(start, acc, hrefs, n, depth), hrefs[n + 1] \in Urls \cup {Malformed},
         NEW next, next = FollowLink(acc, hrefs[n + 1], depth)
  PROVE  Gathered(start, next, hrefs, n + 1, depth)
  <1>1. /\ acc = [seen |-> acc.seen, frontier |-> acc.frontier, counts |-> acc.counts]
        /\ FrontierOK(acc.frontier) /\ Keeps(start.frontier, acc.frontier)
        /\ start.seen \subseteq acc.seen
        /\ \A m \in 1..n : hrefs[m] \in Urls => Page(hrefs[m]) \in acc.seen
    BY DEF Gathered
  <1>2. \A page \in acc.seen \ start.seen :
          \/ Awaits(acc.frontier, page)
          \/ \E m \in 1..n : /\ hrefs[m] \in Urls /\ Page(hrefs[m]) = page
                             /\ depth > MaxDepth \/ hrefs[m] \notin InScope
    BY DEF Gathered
  <1>3. /\ next = [seen |-> next.seen, frontier |-> next.frontier, counts |-> next.counts]
        /\ FrontierOK(next.frontier) /\ Keeps(acc.frontier, next.frontier)
        /\ acc.seen \subseteq next.seen
        /\ hrefs[n + 1] \in Urls => Page(hrefs[n + 1]) \in next.seen
    BY <1>1, FollowLinkOK
  <1>4. \A page \in next.seen \ acc.seen :
          /\ page = Page(hrefs[n + 1]) /\ hrefs[n + 1] \in Urls
          /\ Awaits(next.frontier, page) \/ depth > MaxDepth \/ hrefs[n + 1] \notin InScope
    BY <1>1, FollowLinkOK
  <1>5. Keeps(start.frontier, next.frontier)
    BY <1>1, <1>3 DEF Keeps
  <1>6. \A m \in 1..(n + 1) : m \in 1..n \/ m = n + 1
    OBVIOUS
  <1>7. \A m \in 1..(n + 1) : hrefs[m] \in Urls => Page(hrefs[m]) \in next.seen
    BY <1>1, <1>3, <1>6
  <1>8. \A page : Awaits(acc.frontier, page) => Awaits(next.frontier, page)
    BY <1>3 DEF Awaits, Keeps
  <1>9. n + 1 \in 1..(n + 1) /\ 1..n \subseteq 1..(n + 1)
    OBVIOUS
  <1>10. ASSUME NEW page \in next.seen \ start.seen
         PROVE  \/ Awaits(next.frontier, page)
                \/ \E m \in 1..(n + 1) : /\ hrefs[m] \in Urls /\ Page(hrefs[m]) = page
                                         /\ depth > MaxDepth \/ hrefs[m] \notin InScope
    <2>1. CASE page \in acc.seen
      BY <1>2, <1>8, <1>9, <2>1
    <2>2. CASE page \notin acc.seen
      BY <1>4, <1>9, <2>2
    <2> QED BY <2>1, <2>2
  <1>11. NewPlaces(start, acc)
    BY DEF Gathered
  <1>12. NewPlaces(acc, next)
    BY <1>1, FollowLinkOK
  <1>13. \A p \in Places(acc.frontier) \ Places(start.frontier) :
           Page(RequestAt(next.frontier, p).url) \in acc.seen \ start.seen
    BY <1>3, <1>11 DEF NewPlaces, Keeps
  <1>14. NewPlaces(start, next)
    <2>1. \A p \in Places(next.frontier) \ Places(start.frontier) :
            Page(RequestAt(next.frontier, p).url) \in next.seen \ start.seen
      BY <1>1, <1>3, <1>12, <1>13 DEF NewPlaces
    <2>2. ASSUME NEW p \in Places(next.frontier) \ Places(start.frontier),
                 NEW q \in Places(next.frontier) \ Places(start.frontier),
                 Page(RequestAt(next.frontier, p).url) = Page(RequestAt(next.frontier, q).url)
          PROVE  p = q
      <3>1. CASE p \in Places(acc.frontier) /\ q \in Places(acc.frontier)
        BY <1>3, <1>11, <2>2, <3>1 DEF NewPlaces, Keeps
      <3>2. CASE p \in Places(acc.frontier) /\ q \notin Places(acc.frontier)
        BY <1>12, <1>13, <2>2, <3>2 DEF NewPlaces
      <3>3. CASE p \notin Places(acc.frontier) /\ q \in Places(acc.frontier)
        BY <1>12, <1>13, <2>2, <3>3 DEF NewPlaces
      <3>4. CASE p \notin Places(acc.frontier) /\ q \notin Places(acc.frontier)
        BY <1>12, <2>2, <3>4 DEF NewPlaces
      <3> QED BY <3>1, <3>2, <3>3, <3>4
    <2> QED BY <2>1, <2>2 DEF NewPlaces
  <1> QED
    BY <1>1, <1>3, <1>5, <1>7, <1>10, <1>14 DEF Gathered

LEMMA FollowingOK ==
  ASSUME NEW start, NEW hrefs, Len(hrefs) \in Nat, NEW depth \in Nat,
         start = [seen |-> start.seen, frontier |-> start.frontier, counts |-> start.counts],
         FrontierOK(start.frontier),
         \A n \in 1..Len(hrefs) : hrefs[n] \in Urls \cup {Malformed}
  PROVE  Gathered(start, Following(start, hrefs, depth)[Len(hrefs)], hrefs, Len(hrefs), depth)
  <1> DEFINE N == Len(hrefs)
             f == Following(start, hrefs, depth)
             S == {n \in Nat : n <= N => Gathered(start, f[n], hrefs, n, depth)}
  <1>1. f = [n \in 0..N |-> IF n = 0 THEN start ELSE FollowLink(f[n - 1], hrefs[n], depth)]
    BY FollowingIs
  <1> HIDE DEF f
  <1>2. 0 \in S
    <2>1. f[0] = start
      <3>1. 0 \in 0..N
        OBVIOUS
      <3> QED BY <1>1, <3>1
    <2>2. Keeps(start.frontier, start.frontier)
      BY DEF Keeps
    <2>3. NewPlaces(start, start)
      BY DEF NewPlaces
    <2> QED BY <2>1, <2>2, <2>3 DEF Gathered
  <1>3. ASSUME NEW n \in Nat, n \in S PROVE n + 1 \in S
    <2>1. CASE n + 1 <= N
      <3>1. n + 1 \in 0..N /\ n + 1 # 0 /\ (n + 1) - 1 = n /\ n + 1 \in 1..N /\ n <= N
        BY <2>1
      <3>2. f[n + 1] = FollowLink(f[n], hrefs[n + 1], depth)
        BY <1>1, <3>1
      <3>3. Gathered(start, f[n], hrefs, n, depth)
        BY <1>3, <3>1
      <3>4. hrefs[n + 1] \in Urls \cup {Malformed}
        BY <3>1
      <3>5. Gathered(start, f[n + 1], hrefs, n + 1, depth)
        BY <3>2, <3>3, <3>4, GatheredStep
      <3> QED BY <3>5
    <2>2. CASE ~(n + 1 <= N)
      BY <2>2
    <2> QED BY <2>1, <2>2
  <1>4. N \in S
    <2> HIDE DEF S
    <2> QED BY <1>2, <1>3, SetInduction
  <1> QED
    BY <1>4 DEF f

-----------------------------------------------------------------------------
(* Where every page that was ever seen has gone.                           *)

HandsOK ==
  /\ FrontierOK(frontier) /\ links \in SiteMaps
  /\ \A w \in Workers : /\ worker[w].at \in {"semaphore", "fetch"} => worker[w].req \in Request
                        /\ worker[w].at = "cancelled" => stopped # "no"
                        /\ worker[w].at = "raised" => worker[w].req # NoRequest

InHand(page) == \E w \in Held \cup Lost : Page(worker[w].req.url) = page
Recorded(page) == \E q \in pages : Page(q.url) = page
Refused(page) == \E q \in VisitedPages : RefusedAt(q, page)
Accounted == stopped = "no" => \A page \in seen :
               InHand(page) \/ Awaits(frontier, page) \/ Recorded(page) \/ Refused(page)
LinksSeen == \A p \in VisitedPages :
               p.url \in Urls /\ \A href \in Range(links[p.url]) \cap Urls : Page(href) \in seen

CrawlInv == CapInv /\ HandsOK /\ NoWorkAfterReturn /\ Accounted /\ LinksSeen

LEMMA NoRequestIsNone == NoRequest \notin Request
  <1>1. ASSUME NEW r \in Request PROVE "depth" \in DOMAIN r
    BY DEF Request
  <1>2. "depth" \notin DOMAIN NoRequest
    BY DEF NoRequest
  <1> QED
    BY <1>1, <1>2

\* A retry of a request is a request for the same url.
LEMMA RetryIsRequest ==
  ASSUME NEW r \in Request, NEW more, more = [r EXCEPT !.attempts = @ + 1]
  PROVE  [more EXCEPT !.due = FALSE] \in Request /\ more.url = r.url /\ more.depth = r.depth
  <1>1. r.attempts \in Nat /\ r.attempts + 1 \in Nat
    BY DEF Request
  <1>2. more \in Request /\ more.url = r.url /\ more.depth = r.depth
    BY <1>1 DEF Request
  <1> QED
    BY <1>2 DEF Request

\* A visit gathers the links of its page.
LEMMA VisitGathers ==
  ASSUME HandsOK, NEW w \in Workers, Visited(w), NEW hrefs, hrefs = links[worker[w].req.url]
  PROVE  /\ worker[w].req \in Request
         /\ hrefs \in Seq(Urls \cup {Malformed, Unjoinable})
         /\ Gathered([seen |-> seen, frontier |-> frontier, counts |-> linkStats],
                     [seen |-> seen', frontier |-> frontier', counts |-> linkStats'],
                     hrefs, Len(hrefs), worker[w].req.depth + 1)
  <1> DEFINE start == [seen |-> seen, frontier |-> frontier, counts |-> linkStats]
             depth == worker[w].req.depth + 1
             next == Following(start, hrefs, depth)[Len(hrefs)]
  <1>1. worker[w].at = "fetch" /\ worker[w].req \in Request
    BY DEF Visited, HandsOK
  <1>2. worker[w].req.url \in Urls /\ depth \in Nat
    BY <1>1 DEF Request
  <1>3. hrefs \in Seq(Urls \cup {Malformed, Unjoinable})
    BY <1>2, EngineAssumption DEF HandsOK
  <1>4. \A n \in 1..Len(hrefs) : hrefs[n] # Unjoinable
    BY DEF Visited, Unreadable, Contains
  <1>5. Len(hrefs) \in Nat /\ \A n \in 1..Len(hrefs) : hrefs[n] \in Urls \cup {Malformed}
    BY <1>3, <1>4
  <1>6. /\ start = [seen |-> start.seen, frontier |-> start.frontier, counts |-> start.counts]
        /\ FrontierOK(start.frontier)
    BY DEF HandsOK
  <1>7. seen' = next.seen /\ frontier' = next.frontier /\ linkStats' = next.counts
    BY DEF Visited, FollowLinks
  <1> HIDE DEF start, depth, next
  <1>8. Gathered(start, next, hrefs, Len(hrefs), depth)
    BY <1>2, <1>5, <1>6, FollowingOK DEF next
  <1>9. next = [seen |-> next.seen, frontier |-> next.frontier, counts |-> next.counts]
    BY <1>8 DEF Gathered
  <1>10. [seen |-> seen', frontier |-> frontier', counts |-> linkStats'] = next
    BY <1>7, <1>9
  <1> QED
    BY <1>1, <1>3, <1>8, <1>10 DEF start, depth

LEMMA NextHands == ASSUME CapInv, HandsOK, [Next]_vars PROVE HandsOK'
  <1>0. /\ FrontierOK(frontier) /\ links \in SiteMaps
        /\ worker = [w \in Workers |-> [at |-> worker[w].at, req |-> worker[w].req]]
        /\ \A w \in Workers : worker[w].at \in Running \cup Over
    BY DEF HandsOK, CapInv, WorkersTyped
  <1>1. ASSUME NEW w \in Workers, Return(w) \/ Enter(w) PROVE HandsOK'
    BY <1>0, <1>1 DEF HandsOK, Return, Enter
  <1>2. ASSUME NEW w \in Workers, Dispatch(w) PROVE HandsOK'
    <2>1. PICK i \in NextHosts(frontier) :
            /\ worker' = [worker EXCEPT ![w] = [at |-> "semaphore", req |-> Taken(frontier, i)]]
            /\ frontier' = Popped(frontier, i)
      BY <1>2 DEF Dispatch
    <2>2. Taken(frontier, i) \in Request /\ FrontierOK(frontier')
      BY <1>0, <2>1, PopOK
    <2>3. links' = links /\ stopped' = stopped
      BY <1>2 DEF Dispatch
    <2> QED
      BY <1>0, <2>1, <2>2, <2>3 DEF HandsOK
  <1>3. ASSUME NEW w \in Workers, NEW at \in {"loop", "raised"}, worker[w].at = "fetch",
               Leave(w, at), FrontierOK(frontier'), links' = links, stopped' = stopped
        PROVE  HandsOK'
    <2>1. worker[w].req # NoRequest
      BY <1>3, NoRequestIsNone DEF HandsOK
    <2>2. \A v \in Workers \ {w} : worker'[v] = worker[v]
      BY <1>0, <1>3 DEF Leave
    <2>3. worker'[w].at = at /\ (at = "raised" => worker'[w].req # NoRequest)
      BY <1>0, <1>3, <2>1 DEF Leave
    <2> QED
      BY <1>3, <2>2, <2>3 DEF HandsOK
  <1>4. ASSUME NEW w \in Workers, FetchEnds(w) PROVE HandsOK'
    <2>1. ASSUME NEW retryable \in BOOLEAN, NEW retryCode \in BOOLEAN,
                 Failed(w, retryable, retryCode)
          PROVE  HandsOK'
      <3> DEFINE more == [worker[w].req EXCEPT !.attempts = @ + 1]
                 req == [more EXCEPT !.due = FALSE]
      <3>1. /\ worker[w].at = "fetch" /\ Leave(w, "loop") /\ links' = links /\ stopped' = stopped
            /\ frontier' = frontier \/ frontier' = Push(frontier, req)
        BY <2>1 DEF Failed
      <3>0. worker[w].req \in Request
        BY <3>1 DEF HandsOK
      <3>2. req \in Request
        BY <3>0, RetryIsRequest
      <3> HIDE DEF req, more
      <3>3. FrontierOK(frontier')
        BY <1>0, <3>1, <3>2, PushOK
      <3> QED BY <1>3, <3>1, <3>3
    <2>2. ASSUME Visited(w) PROVE HandsOK'
      <3>1. /\ worker[w].at = "fetch" /\ Leave(w, "loop") /\ links' = links /\ stopped' = stopped
        BY <2>2 DEF Visited
      <3>2. FrontierOK(frontier')
        BY <2>2, VisitGathers DEF Gathered
      <3> QED BY <1>3, <3>1, <3>2
    <2>3. ASSUME Raises(w) PROVE HandsOK'
      BY <1>0, <1>3, <2>3 DEF Raises
    <2> QED BY <1>4, <2>1, <2>2, <2>3 DEF FetchEnds
  <1>5. ASSUME NEW how \in Stops, Stop(how) PROVE HandsOK'
    <2>1. stopped' # "no" /\ frontier' = frontier /\ links' = links
      BY <1>5, EngineAssumption DEF Stop
    <2>2. \A w \in Workers : \/ worker'[w] = worker[w]
                             \/ worker'[w].at = "cancelled"
      BY <1>0, <1>5 DEF Stop, Interrupted
    <2> QED
      BY <1>0, <2>1, <2>2 DEF HandsOK
  <1>6. CASE Elapse
    <2>1. PICK p \in Places(frontier) : frontier' = Elapsed(frontier, p)
      BY <1>6 DEF Elapse
    <2>2. FrontierOK(frontier')
      BY <1>0, <2>1, ElapsedOK
    <2> QED
      BY <1>6, <2>2 DEF Elapse, HandsOK
  <1>7. CASE UNCHANGED vars
    BY <1>7 DEF vars, HandsOK
  <1> QED
    BY <1>1, <1>2, <1>4, <1>5, <1>6, <1>7 DEF Next, Step

\* The end that a worker has seen stays the end.
LEMMA NextReturned ==
  ASSUME CapInv, HandsOK, NoWorkAfterReturn, [Next]_vars
  PROVE  NoWorkAfterReturn'
  <1>0. /\ FrontierOK(frontier)
        /\ worker = [w \in Workers |-> [at |-> worker[w].at, req |-> worker[w].req]]
        /\ inFlight = Cardinality(Held)
    BY DEF HandsOK, CapInv, WorkersTyped, InFlightIsExact
  <1> DEFINE SomeReturned == \E w \in Workers : worker[w].at = "returned"
             AtEnd == frontier.size = 0 \/ stats.visited >= MaxPages
  <1>1. ASSUME NEW w \in Workers, Return(w), stopped' = "no" PROVE Held' = {} /\ AtEnd'
    <2>1. stopped = "no" /\ inFlight = 0 /\ (CapReached \/ frontier.size = 0)
      BY <1>1 DEF Return, Cancelled
    <2>2. Held = {}
      BY <1>0, <2>1, HeldFinite, FS_EmptySet
    <2>3. Held' = {}
      BY <1>0, <1>1, <2>2 DEF Return, Held
    <2>4. AtEnd
      BY <2>1, EngineAssumption DEF CapReached, CapInv, WorkersTyped
    <2>5. frontier' = frontier /\ stats' = stats
      BY <1>1 DEF Return
    <2> QED BY <2>3, <2>4, <2>5
  <1>2. ASSUME NEW w \in Workers, Dispatch(w), stopped' = "no" PROVE ~SomeReturned'
    <2>1. stopped = "no" /\ ~CapReached
      BY <1>2 DEF Dispatch
    <2>2. PICK i \in NextHosts(frontier) :
            worker' = [worker EXCEPT ![w] = [at |-> "semaphore", req |-> Taken(frontier, i)]]
      BY <1>2 DEF Dispatch
    <2>3. frontier.size # 0
      BY <1>0, <2>2, NothingWaits
    <2>4. Held = {} => ~(stats.visited >= MaxPages)
      <3>1. Held = {} => inFlight = 0
        BY <1>0, FS_EmptySet
      <3> QED BY <2>1, <3>1, EngineAssumption DEF CapReached, CapInv, WorkersTyped
    <2>5. ~SomeReturned
      BY <2>1, <2>3, <2>4 DEF NoWorkAfterReturn
    <2> QED BY <1>0, <2>2, <2>5
  <1>3. ASSUME NEW w \in Workers, Enter(w) \/ FetchEnds(w), stopped' = "no" PROVE ~SomeReturned'
    <2>1. w \in Held /\ stopped = "no"
      BY <1>3 DEF Held, Enter, FetchEnds, Failed, Visited, Raises
    <2>2. ~SomeReturned
      BY <2>1 DEF NoWorkAfterReturn
    <2>3. \A v \in Workers : worker'[v].at \in {worker[v].at, "fetch", "loop", "raised"}
      BY <1>0, <1>3 DEF Enter, FetchEnds, Failed, Visited, Raises, Leave
    <2> QED BY <2>2, <2>3
  <1>4. ASSUME NEW how \in Stops, Stop(how) PROVE stopped' # "no"
    BY <1>4, EngineAssumption DEF Stop
  <1>5. ASSUME Elapse \/ UNCHANGED vars PROVE NoWorkAfterReturn'
    <2>1. frontier'.size = frontier.size
      BY <1>0, <1>5, ElapsedOK DEF Elapse, vars
    <2> QED
      BY <1>5, <2>1 DEF Elapse, vars, NoWorkAfterReturn, Held
  <1>6. (\E w \in Workers : Step(w)) /\ stopped' = "no" => (SomeReturned' => Held' = {} /\ AtEnd')
    <2> HIDE DEF SomeReturned, AtEnd
    <2> QED BY <1>1, <1>2, <1>3 DEF Step
  <1>7. (SomeReturned /\ stopped = "no" => Held = {} /\ AtEnd)'
        => NoWorkAfterReturn'
    BY DEF NoWorkAfterReturn
  <1> QED
    <2> HIDE DEF SomeReturned, AtEnd
    <2> QED BY <1>4, <1>5, <1>6, <1>7 DEF Next

-----------------------------------------------------------------------------
\* A worker that moves on keeps its request.
LEMMA MovesOn ==
  ASSUME CapInv, NEW w \in Workers, NEW at
  PROVE  [worker EXCEPT ![w].at = at] = [worker EXCEPT ![w] = [at |-> at, req |-> worker[w].req]]
  <1>1. worker[w] = [at |-> worker[w].at, req |-> worker[w].req]
    BY DEF CapInv, WorkersTyped
  <1>2. [worker[w] EXCEPT !.at = at] = [at |-> at, req |-> worker[w].req]
    BY <1>1
  <1> QED
    BY <1>2

\* A page in hand stays in hand, unless it is the one its worker gives back.
LEMMA HandsKept ==
  ASSUME CapInv, HandsOK, NEW w \in Workers, NEW at, NEW req, NEW page,
         worker' = [worker EXCEPT ![w] = [at |-> at, req |-> req]], InHand(page)
  PROVE  \/ InHand(page)'
         \/ /\ worker[w].at \notin {"loop"} /\ Page(worker[w].req.url) = page
            /\ ~(at \in {"semaphore", "fetch"} /\ req = worker[w].req)
            /\ ~(at = "raised" /\ req = worker[w].req /\ req # NoRequest)
  <1>1. PICK v \in Held \cup Lost : Page(worker[v].req.url) = page
    BY DEF InHand
  <1>2. v \in Workers /\ w \in DOMAIN worker
    BY DEF Held, Lost, CapInv, WorkersTyped
  <1>3. CASE v # w
    <2>1. worker'[v] = worker[v]
      BY <1>2, <1>3
    <2>2. v \in Held' \cup Lost'
      BY <1>1, <1>2, <2>1 DEF Held, Lost
    <2> QED BY <1>1, <2>1, <2>2 DEF InHand
  <1>4. CASE v = w
    <2>1. worker[w].at \notin {"loop"}
      BY <1>1, <1>4 DEF Held, Lost, Over
    <2>2. worker'[w] = [at |-> at, req |-> req]
      BY <1>2
    <2>3. ASSUME at \in {"semaphore", "fetch"} /\ req = worker[w].req PROVE InHand(page)'
      <3>1. w \in Held' \cup Lost'
        BY <2>2, <2>3 DEF Held
      <3> QED BY <1>1, <1>4, <2>2, <2>3, <3>1 DEF InHand
    <2>4. ASSUME at = "raised" /\ req = worker[w].req /\ req # NoRequest PROVE InHand(page)'
      <3>1. w \in Held' \cup Lost'
        BY <2>2, <2>4 DEF Lost, Over
      <3> QED BY <1>1, <1>4, <2>2, <2>4, <3>1 DEF InHand
    <2> QED BY <1>1, <1>4, <2>1, <2>3, <2>4
  <1> QED
    BY <1>3, <1>4

\* What a record settles stays settled.
LEMMA RecordsKept ==
  ASSUME pages \subseteq pages', links' = links, NEW page
  PROVE  (Recorded(page) => Recorded(page)') /\ (Refused(page) => Refused(page)')
  <1>1. VisitedPages \subseteq VisitedPages'
    BY DEF VisitedPages
  <1> QED
    BY <1>1 DEF Recorded, Refused, RefusedAt

LEMMA HrefsOf ==
  ASSUME NEW S, NEW hrefs \in Seq(S), NEW href
  PROVE  href \in Range(hrefs) <=> \E m \in 1..Len(hrefs) : hrefs[m] = href
  BY DEF Range

\* A visit: its page is recorded, the pages it links to are seen, and each one
\* newly seen waits or is refused there.
LEMMA VisitedFacts ==
  ASSUME HandsOK, LinksSeen, NEW w \in Workers, Visited(w), NEW req, req = worker[w].req
  PROVE  /\ LinksSeen'
         /\ \A page : Awaits(frontier, page) => Awaits(frontier', page)
         /\ \A page \in seen' \ seen : Awaits(frontier', page) \/ Refused(page)'
         /\ Recorded(Page(req.url))'
         /\ pages \subseteq pages' /\ links' = links
  <1> DEFINE hrefs == links[req.url]
             q == [url |-> req.url, depth |-> req.depth, ok |-> TRUE]
  <1>1. /\ req \in Request /\ hrefs \in Seq(Urls \cup {Malformed, Unjoinable})
        /\ Gathered([seen |-> seen, frontier |-> frontier, counts |-> linkStats],
                    [seen |-> seen', frontier |-> frontier', counts |-> linkStats'],
                    hrefs, Len(hrefs), req.depth + 1)
    BY VisitGathers
  <1>2. pages' = pages \cup {q} /\ links' = links
    BY DEF Visited
  <1>3. /\ Keeps(frontier, frontier') /\ seen \subseteq seen'
        /\ \A m \in 1..Len(hrefs) : hrefs[m] \in Urls => Page(hrefs[m]) \in seen'
        /\ \A page \in seen' \ seen :
             \/ Awaits(frontier', page)
             \/ \E m \in 1..Len(hrefs) : /\ hrefs[m] \in Urls /\ Page(hrefs[m]) = page
                                         /\ req.depth + 1 > MaxDepth \/ hrefs[m] \notin InScope
    BY <1>1 DEF Gathered
  <1>4. VisitedPages' = VisitedPages \cup {q} /\ q.url = req.url /\ q.depth = req.depth
    BY <1>2 DEF VisitedPages
  <1>5. req.url \in Urls
    BY <1>1 DEF Request
  <1> HIDE DEF q
  <1>6. \A href \in Range(hrefs) \cap Urls : Page(href) \in seen'
    <2> SUFFICES ASSUME NEW href \in Range(hrefs) \cap Urls PROVE Page(href) \in seen'
      OBVIOUS
    <2>1. PICK m \in 1..Len(hrefs) : hrefs[m] = href
      BY <1>1, HrefsOf
    <2> QED
      BY <1>3, <2>1
  <1>7. LinksSeen'
    BY <1>2, <1>3, <1>4, <1>5, <1>6 DEF LinksSeen
  <1>8. ASSUME NEW page \in seen' \ seen PROVE Awaits(frontier', page) \/ Refused(page)'
    <2>1. CASE ~Awaits(frontier', page)
      <3>1. PICK m \in 1..Len(hrefs) : /\ hrefs[m] \in Urls /\ Page(hrefs[m]) = page
                                       /\ req.depth + 1 > MaxDepth \/ hrefs[m] \notin InScope
        BY <1>3, <2>1
      <3>2. hrefs[m] \in Range(hrefs) \cap Urls
        BY <1>1, <3>1, HrefsOf
      <3>3. RefusedAt(q, page)'
        BY <1>2, <1>4, <3>1, <3>2 DEF RefusedAt
      <3> QED BY <1>4, <3>3 DEF Refused
    <2> QED BY <2>1
  <1>9. \A page : Awaits(frontier, page) => Awaits(frontier', page)
    BY <1>3 DEF Awaits, Keeps
  <1>10. Recorded(Page(req.url))'
    BY <1>2, <1>4 DEF Recorded
  <1> QED
    BY <1>2, <1>7, <1>8, <1>9, <1>10

LEMMA NextLinksSeen == ASSUME HandsOK, LinksSeen, [Next]_vars PROVE LinksSeen'
  <1>1. ASSUME NEW w \in Workers, Visited(w) PROVE LinksSeen'
    BY <1>1, VisitedFacts
  <1>2. ASSUME links' = links, seen' = seen, VisitedPages' = VisitedPages PROVE LinksSeen'
    BY <1>2 DEF LinksSeen
  <1>3. ASSUME NEW w \in Workers, Return(w) \/ Dispatch(w) \/ Enter(w) \/ Raises(w) PROVE LinksSeen'
    BY <1>2, <1>3 DEF Return, Dispatch, Enter, Raises, VisitedPages
  <1>4. ASSUME NEW w \in Workers, NEW retryable \in BOOLEAN, NEW retryCode \in BOOLEAN,
               Failed(w, retryable, retryCode)
        PROVE  LinksSeen'
    <2>1. /\ links' = links /\ seen' = seen
          /\ \/ pages' = pages
             \/ \E url, depth : pages' = pages \cup {[url |-> url, depth |-> depth, ok |-> FALSE]}
      BY <1>4 DEF Failed
    <2>2. VisitedPages' = VisitedPages
      BY <2>1 DEF VisitedPages
    <2> QED BY <1>2, <2>1, <2>2
  <1>5. ASSUME (\E how \in Stops : Stop(how)) \/ Elapse \/ UNCHANGED vars PROVE LinksSeen'
    BY <1>2, <1>5 DEF Stop, Elapse, vars, VisitedPages
  <1> QED
    BY <1>1, <1>3, <1>4, <1>5 DEF Next, Step, FetchEnds

LEMMA NextAccounted ==
  ASSUME CapInv, HandsOK, Accounted, LinksSeen, [Next]_vars
  PROVE  Accounted'
  <1>0. /\ FrontierOK(frontier)
        /\ worker = [w \in Workers |-> [at |-> worker[w].at, req |-> worker[w].req]]
    BY DEF HandsOK, CapInv, WorkersTyped
  <1> DEFINE Known(page) == InHand(page) \/ Awaits(frontier, page) \/ Recorded(page) \/ Refused(page)
  <1>1. SUFFICES ASSUME stopped' = "no", NEW page \in seen' PROVE Known(page)'
    BY DEF Accounted
  <1>2. ASSUME NEW how \in Stops, Stop(how) PROVE FALSE
    BY <1>1, <1>2, EngineAssumption DEF Stop
  <1>3. stopped = "no"
    BY <1>1, <1>2 DEF Next, Step, Return, Dispatch, Enter, FetchEnds, Failed, Visited, Raises, Elapse, vars
  <1>4. page \in seen => Known(page)
    BY <1>3 DEF Accounted
  <1>5. ASSUME NEW w \in Workers, Return(w) PROVE Known(page)'
    <2>1. /\ worker' = [worker EXCEPT ![w] = [at |-> "returned", req |-> worker[w].req]]
          /\ worker[w].at = "loop"
      BY <1>5, MovesOn DEF Return
    <2>2. InHand(page) => InHand(page)'
      BY <2>1, HandsKept
    <2>3. frontier' = frontier /\ pages' = pages /\ links' = links /\ seen' = seen
      BY <1>5 DEF Return
    <2> QED BY <1>4, <2>2, <2>3, RecordsKept
  <1>6. ASSUME NEW w \in Workers, Enter(w) PROVE Known(page)'
    <2>1. worker' = [worker EXCEPT ![w] = [at |-> "fetch", req |-> worker[w].req]]
      BY <1>6, MovesOn DEF Enter
    <2>2. InHand(page) => InHand(page)'
      BY <2>1, HandsKept
    <2>3. frontier' = frontier /\ pages' = pages /\ links' = links /\ seen' = seen
      BY <1>6 DEF Enter
    <2> QED BY <1>4, <2>2, <2>3, RecordsKept
  <1>7. ASSUME NEW w \in Workers, Dispatch(w) PROVE Known(page)'
    <2>1. PICK i \in NextHosts(frontier) :
            /\ worker' = [worker EXCEPT ![w] = [at |-> "semaphore", req |-> Taken(frontier, i)]]
            /\ frontier' = Popped(frontier, i)
      BY <1>7 DEF Dispatch
    <2>2. pages' = pages /\ links' = links /\ seen' = seen /\ worker[w].at = "loop"
      BY <1>7 DEF Dispatch
    <2>3. InHand(page) => InHand(page)'
      BY <2>1, <2>2, HandsKept
    <2>4. ASSUME Awaits(frontier, page) PROVE Known(page)'
      <3>1. PICK p \in Places(frontier) : Page(RequestAt(frontier, p).url) = page
        BY <2>4 DEF Awaits
      <3>2. CASE RequestAt(frontier, p) = Taken(frontier, i)
        <4>1. worker'[w] = [at |-> "semaphore", req |-> Taken(frontier, i)]
          BY <2>1 DEF CapInv, WorkersTyped
        <4>2. InHand(page)'
          BY <3>1, <3>2, <4>1 DEF InHand, Held
        <4> QED BY <4>2
      <3>3. CASE RequestAt(frontier, p) # Taken(frontier, i)
        <4>0. PICK h : h = frontier.order[i]
          OBVIOUS
        <4>1. /\ Taken(frontier, i) = RequestAt(frontier, <<h, 1>>)
              /\ \A q \in Places(Popped(frontier, i)) :
                   RequestAt(Popped(frontier, i), q) = RequestAt(frontier, Before(h, q))
              /\ \A q \in Places(frontier) \ {<<h, 1>>} :
                   \E r \in Places(Popped(frontier, i)) : q = Before(h, r)
          BY <1>0, <4>0, PopOK
        <4>3. PICK r \in Places(Popped(frontier, i)) : p = Before(h, r)
          BY <3>3, <4>1
        <4>4. r \in Places(frontier') /\ RequestAt(frontier', r) = RequestAt(frontier, p)
          BY <2>1, <4>1, <4>3
        <4>2. Awaits(frontier', page)
          BY <3>1, <4>4 DEF Awaits
        <4> QED BY <4>2
      <3> QED BY <3>2, <3>3
    <2> QED BY <1>4, <2>2, <2>3, <2>4, RecordsKept
  <1>8. ASSUME NEW w \in Workers, NEW retryable \in BOOLEAN, NEW retryCode \in BOOLEAN,
               Failed(w, retryable, retryCode)
        PROVE  Known(page)'
    <2>0. PICK req : req = worker[w].req
      OBVIOUS
    <2> DEFINE more == [req EXCEPT !.attempts = @ + 1]
               retry == [more EXCEPT !.due = FALSE]
    <2>1. worker[w].at = "fetch" /\ req \in Request
      BY <1>8, <2>0 DEF Failed, HandsOK
    <2>2. /\ retry \in Request /\ more.url = req.url /\ more.depth = req.depth
          /\ retry.url = req.url
      <3>1. retry \in Request /\ more.url = req.url /\ more.depth = req.depth
        BY <2>1, RetryIsRequest
      <3>2. retry.url = more.url
        BY <2>1 DEF Request
      <3> QED BY <3>1, <3>2
    <2>3. \/ frontier' = Push(frontier, retry) /\ pages' = pages
          \/ /\ pages' = pages \cup {[url |-> more.url, depth |-> more.depth, ok |-> FALSE]}
             /\ frontier' = frontier
      BY <1>8, <2>0 DEF Failed
    <2>4. /\ worker' = [worker EXCEPT ![w] = [at |-> "loop", req |-> NoRequest]]
          /\ links' = links /\ seen' = seen
      BY <1>8 DEF Failed, Leave
    <2> HIDE DEF more, retry
    <2>5. InHand(page) => InHand(page)' \/ page = Page(req.url)
      BY <2>0, <2>4, HandsKept
    <2>6. Awaits(frontier, page) => Awaits(frontier', page)
      BY <1>0, <2>2, <2>3, PushOK DEF Awaits
    <2>7. page = Page(req.url) => Awaits(frontier', page) \/ Recorded(page)'
      <3>1. ASSUME frontier' = Push(frontier, retry) PROVE Awaits(frontier', Page(req.url))
        BY <1>0, <2>2, <3>1, PushOK DEF Awaits
      <3>2. ASSUME pages' = pages \cup {[url |-> more.url, depth |-> more.depth, ok |-> FALSE]}
            PROVE  Recorded(Page(req.url))'
        <4>1. PICK q : q = [url |-> more.url, depth |-> more.depth, ok |-> FALSE]
          OBVIOUS
        <4>2. q \in pages' /\ q.url = req.url
          BY <2>2, <3>2, <4>1
        <4> QED BY <4>2 DEF Recorded
      <3> QED BY <2>3, <3>1, <3>2
    <2>8. pages \subseteq pages'
      BY <2>3
    <2> QED BY <1>4, <2>4, <2>5, <2>6, <2>7, <2>8, RecordsKept
  <1>9. ASSUME NEW w \in Workers, Visited(w) PROVE Known(page)'
    <2>0. PICK req : req = worker[w].req
      OBVIOUS
    <2>1. worker' = [worker EXCEPT ![w] = [at |-> "loop", req |-> NoRequest]]
      BY <1>9 DEF Visited, Leave
    <2>2. InHand(page) => InHand(page)' \/ page = Page(req.url)
      BY <2>0, <2>1, HandsKept
    <2>3. /\ \A x : Awaits(frontier, x) => Awaits(frontier', x)
          /\ page \notin seen => Awaits(frontier', page) \/ Refused(page)'
          /\ Recorded(Page(req.url))'
          /\ pages \subseteq pages' /\ links' = links
      BY <1>1, <1>9, <2>0, VisitedFacts
    <2> QED BY <1>4, <2>2, <2>3, RecordsKept
  <1>10. ASSUME NEW w \in Workers, Raises(w) PROVE Known(page)'
    <2>1. /\ worker' = [worker EXCEPT ![w] = [at |-> "raised", req |-> worker[w].req]]
          /\ worker[w].at = "fetch"
          /\ frontier' = frontier /\ pages' = pages /\ links' = links /\ seen' = seen
      BY <1>10 DEF Raises, Leave, CapInv, WorkersTyped
    <2>2. worker[w].req # NoRequest
      BY <2>1, NoRequestIsNone DEF HandsOK
    <2>3. InHand(page) => InHand(page)'
      BY <2>1, <2>2, HandsKept
    <2> QED BY <1>4, <2>1, <2>3, RecordsKept
  <1>11. CASE Elapse
    <2>1. PICK p \in Places(frontier) : frontier' = Elapsed(frontier, p)
      BY <1>11 DEF Elapse
    <2>2. Awaits(frontier, page) => Awaits(frontier', page)
      BY <1>0, <2>1, ElapsedOK DEF Awaits
    <2>3. worker' = worker /\ pages' = pages /\ links' = links /\ seen' = seen
      BY <1>11 DEF Elapse
    <2>4. InHand(page) => InHand(page)'
      BY <2>3 DEF InHand, Held, Lost
    <2> QED BY <1>4, <2>2, <2>3, <2>4, RecordsKept
  <1>12. CASE UNCHANGED vars
    BY <1>4, <1>12 DEF vars, InHand, Held, Lost, Recorded, Refused, VisitedPages, RefusedAt
  <1> HIDE DEF Known
  <1> QED
    BY <1>2, <1>5, <1>6, <1>7, <1>8, <1>9, <1>10, <1>11, <1>12 DEF Next, Step, FetchEnds

LEMMA CrawlInit == Init => CrawlInv
  <1> SUFFICES ASSUME Init PROVE CrawlInv
    OBVIOUS
  <1> DEFINE r == [url |-> Seed, depth |-> 0, attempts |-> 0, due |-> TRUE]
  <1>1. r \in Request /\ r.url = Seed
    BY EngineAssumption DEF Request
  <1>2. \A w \in Workers : worker[w].at = "loop"
    BY DEF Init, Idle
  <1> HIDE DEF r
  <1>3. frontier = Push(EmptyFrontier, r)
    BY DEF Init, r
  <1>4. FrontierOK(frontier) /\ Awaits(frontier, Page(Seed))
    BY <1>1, <1>3, EmptyOK, PushOK DEF Awaits
  <1>5. HandsOK
    BY <1>2, <1>4 DEF Init, HandsOK
  <1>6. NoWorkAfterReturn
    BY <1>2 DEF NoWorkAfterReturn
  <1>7. Accounted
    BY <1>4 DEF Init, Accounted
  <1>8. LinksSeen
    BY DEF Init, LinksSeen, VisitedPages
  <1> QED
    BY <1>5, <1>6, <1>7, <1>8, CapInit DEF CrawlInv

LEMMA Crawls == Spec => []CrawlInv
  <1>1. CrawlInv /\ [Next]_vars => CrawlInv'
    BY CapStep, NextHands, NextReturned, NextAccounted, NextLinksSeen DEF CrawlInv
  <1> QED
    BY <1>1, CrawlInit, PTL DEF Spec

\* A worker of an unstopped crawl returns only at its end: engine.py's _worker
\* leaves its loop while no page is in hand and nothing waits that the cap admits.
THEOREM ReturnsOnlyAtTheEnd == Spec => []NoWorkAfterReturn
  <1>1. CrawlInv => NoWorkAfterReturn
    BY DEF CrawlInv
  <1> QED
    BY <1>1, Crawls, PTL

\* A crawl that ends by itself below its cap has fetched every link it may
\* follow, on every site and in every schedule of its workers: _process marks
\* a page as seen once, and what it marked goes on to a worker or a record.
THEOREM EveryLinkIsFollowed == Spec => []NoLinkLost
  <1>1. ASSUME CrawlInv PROVE NoLinkLost
    <2>1. SUFFICES ASSUME stopped = "no", AllOver, Lost = {}, stats.visited < MaxPages,
                          NEW p \in VisitedPages, NEW href \in Range(links[p.url]) \cap InScope
                   PROVE  Recorded(Page(href)) \/ Refused(Page(href))
      BY DEF NoLinkLost, Recorded, Refused
    <2>2. PICK w \in Workers : worker[w].at \in Over
      BY <2>1, EngineAssumption DEF AllOver
    <2>3. worker[w].at = "returned"
      BY <1>1, <2>1, <2>2 DEF CrawlInv, HandsOK, Lost, Over
    <2>4. Held = {} /\ frontier.size = 0
      <3>1. Held = {} /\ (frontier.size = 0 \/ stats.visited >= MaxPages)
        BY <1>1, <2>1, <2>3 DEF CrawlInv, NoWorkAfterReturn
      <3>2. ~(stats.visited >= MaxPages)
        BY <1>1, <2>1, EngineAssumption DEF CrawlInv, CapInv, WorkersTyped
      <3> QED BY <3>1, <3>2
    <2>5. ~InHand(Page(href))
      BY <2>1, <2>4 DEF InHand
    <2>6. ~Awaits(frontier, Page(href))
      BY <1>1, <2>4, NothingWaits DEF CrawlInv, HandsOK, Awaits
    <2>7. Page(href) \in seen
      BY <1>1, EngineAssumption DEF CrawlInv, LinksSeen
    <2> QED
      BY <1>1, <2>1, <2>5, <2>6, <2>7 DEF CrawlInv, Accounted
  <1> QED
    BY <1>1, Crawls, PTL

-----------------------------------------------------------------------------
(* One home for each page: the pages in hand, lost, waiting and recorded.  *)

AllPages == {Page(u) : u \in Urls}
HeldPage(page) == \E w \in Held : Page(worker[w].req.url) = page
LostPage(page) == \E w \in Lost : Page(worker[w].req.url) = page
Waiting(page) == Awaits(frontier, page)
VisitedPage(page) == \E q \in pages : Page(q.url) = page /\ q.ok

OnePlace(f) == \A p, q \in Places(f) :
                 Page(RequestAt(f, p).url) = Page(RequestAt(f, q).url) => p = q
OneHand == \A v, w \in Held \cup Lost :
             Page(worker[v].req.url) = Page(worker[w].req.url) => v = w
HandsEmpty ==
  \A w \in Workers : /\ worker[w].at \in {"loop", "returned"} => worker[w].req = NoRequest
                     /\ worker[w].at \in {"raised", "cancelled"} =>
                          worker[w].req \in Request \cup {NoRequest}
Single == OnePlace(frontier) /\ OneHand /\ HandsEmpty

OneHome ==
  \A page :
    /\ HeldPage(page) => page \in seen /\ ~LostPage(page) /\ ~Waiting(page) /\ ~Recorded(page)
    /\ LostPage(page) => page \in seen /\ ~Waiting(page) /\ ~Recorded(page)
    /\ Waiting(page) => page \in seen /\ ~Recorded(page)
    /\ Recorded(page) => page \in seen
    /\ page \in seen => page \in AllPages

\* What a step may leave alone about a page.
KeepsHands(page) == (HeldPage(page)' <=> HeldPage(page)) /\ (LostPage(page)' <=> LostPage(page))
KeepsRecord(page) == (Recorded(page)' <=> Recorded(page)) /\ (VisitedPage(page)' <=> VisitedPage(page))
KeepsWaiting(page) == Waiting(page)' <=> Waiting(page)
KeepsHome(page) == KeepsHands(page) /\ KeepsRecord(page) /\ KeepsWaiting(page)
                   /\ (page \in seen' <=> page \in seen)

\* Only the hands of worker w change.
LEMMA HandsOf ==
  ASSUME CapInv, NEW w \in Workers, NEW at, NEW req,
         worker' = [worker EXCEPT ![w] = [at |-> at, req |-> req]]
  PROVE  /\ worker'[w].req = req /\ worker'[w].at = at
         /\ w \in Held' <=> at \in {"semaphore", "fetch"}
         /\ w \in Lost' <=> at \in Over /\ req # NoRequest
         /\ \A v \in Workers \ {w} :
              worker'[v] = worker[v] /\ (v \in Held' <=> v \in Held) /\ (v \in Lost' <=> v \in Lost)
  <1>1. worker'[w] = [at |-> at, req |-> req]
    BY DEF CapInv, WorkersTyped
  <1>2. \A v \in Workers \ {w} : worker'[v] = worker[v]
    BY DEF CapInv, WorkersTyped
  <1> QED
    BY <1>1, <1>2 DEF Held, Lost

\* The same hands, with the same requests.
LEMMA SameHands ==
  ASSUME Held' = Held, Lost' = Lost, \A v \in Held \cup Lost : worker'[v].req = worker[v].req
  PROVE  (OneHand => OneHand') /\ \A page : KeepsHands(page)
  BY DEF OneHand, KeepsHands, HeldPage, LostPage

LEMMA SameRecords ==
  ASSUME pages' = pages
  PROVE  \A page : KeepsRecord(page)
  BY DEF KeepsRecord, Recorded, VisitedPage

\* Steps that move no page.
LEMMA StaySingle ==
  ASSUME CapInv, HandsOK, Single,
         \/ \E w \in Workers : Return(w) \/ Enter(w)
         \/ Elapse
         \/ UNCHANGED vars
  PROVE  Single' /\ \A page : KeepsHome(page)
  <1> USE DEF Single
  <1>1. seen' = seen /\ pages' = pages
    BY DEF Return, Enter, Elapse, vars
  <1>2. \A page : KeepsRecord(page)
    BY <1>1, SameRecords
  <1>3. OnePlace(frontier') /\ \A page : KeepsWaiting(page)
    <2>1. CASE frontier' = frontier
      BY <2>1 DEF KeepsWaiting, Waiting
    <2>2. CASE Elapse
      <3>1. PICK p \in Places(frontier) : frontier' = Elapsed(frontier, p)
        BY <2>2 DEF Elapse
      <3>2. /\ Places(frontier') = Places(frontier)
            /\ \A q \in Places(frontier) : RequestAt(frontier', q).url = RequestAt(frontier, q).url
        BY <3>1, ElapsedOK DEF HandsOK
      <3> QED BY <3>2 DEF OnePlace, KeepsWaiting, Waiting, Awaits
    <2> QED BY <2>1, <2>2 DEF Return, Enter, vars
  <1>4. HandsEmpty' /\ OneHand' /\ \A page : KeepsHands(page)
    <2>1. ASSUME NEW w \in Workers, Return(w) PROVE HandsEmpty' /\ OneHand' /\ \A page : KeepsHands(page)
      <3>1. /\ worker' = [worker EXCEPT ![w] = [at |-> "returned", req |-> worker[w].req]]
            /\ worker[w].at = "loop" /\ worker[w].req = NoRequest
        BY <2>1, MovesOn DEF Return, HandsEmpty
      <3>2. /\ worker'[w].req = NoRequest /\ worker'[w].at = "returned"
            /\ w \notin Held' /\ w \notin Lost'
            /\ \A v \in Workers \ {w} :
                 worker'[v] = worker[v] /\ (v \in Held' <=> v \in Held) /\ (v \in Lost' <=> v \in Lost)
        BY <3>1, HandsOf
      <3>3. w \notin Held /\ w \notin Lost
        BY <3>1 DEF Held, Lost
      <3>4. Held' = Held /\ Lost' = Lost
        <4>1. Held \subseteq Workers /\ Lost \subseteq Workers /\ Held' \subseteq Workers /\ Lost' \subseteq Workers
          BY DEF Held, Lost
        <4> QED BY <3>2, <3>3, <4>1
      <3>5. \A v \in Held \cup Lost : worker'[v].req = worker[v].req
        BY <3>2, <3>3 DEF Held, Lost
      <3>6. HandsEmpty'
        BY <3>2 DEF HandsEmpty
      <3> QED BY <3>4, <3>5, <3>6, SameHands
    <2>2. ASSUME NEW w \in Workers, Enter(w) PROVE HandsEmpty' /\ OneHand' /\ \A page : KeepsHands(page)
      <3>1. /\ worker' = [worker EXCEPT ![w] = [at |-> "fetch", req |-> worker[w].req]]
            /\ worker[w].at = "semaphore"
        BY <2>2, MovesOn DEF Enter
      <3>2. /\ worker'[w].req = worker[w].req /\ worker'[w].at = "fetch"
            /\ w \in Held' /\ w \notin Lost'
            /\ \A v \in Workers \ {w} :
                 worker'[v] = worker[v] /\ (v \in Held' <=> v \in Held) /\ (v \in Lost' <=> v \in Lost)
        BY <3>1, HandsOf DEF Over
      <3>3. w \in Held /\ w \notin Lost
        BY <3>1 DEF Held, Lost, Over
      <3>4. Held' = Held /\ Lost' = Lost
        <4>1. Held \subseteq Workers /\ Lost \subseteq Workers /\ Held' \subseteq Workers /\ Lost' \subseteq Workers
          BY DEF Held, Lost
        <4> QED BY <3>2, <3>3, <4>1
      <3>5. \A v \in Held \cup Lost : worker'[v].req = worker[v].req
        BY <3>2 DEF Held, Lost
      <3>6. HandsEmpty'
        BY <3>2 DEF HandsEmpty
      <3> QED BY <3>4, <3>5, <3>6, SameHands
    <2>3. ASSUME worker' = worker PROVE HandsEmpty' /\ OneHand' /\ \A page : KeepsHands(page)
      BY <2>3, SameHands DEF HandsEmpty, Held, Lost
    <2> QED BY <2>1, <2>2, <2>3 DEF Elapse, vars
  <1> QED
    BY <1>1, <1>2, <1>3, <1>4 DEF KeepsHome

\* A page is taken up: it no longer waits.
LEMMA DispatchSingle ==
  ASSUME CapInv, HandsOK, Single, OneHome, NEW w \in Workers, Dispatch(w)
  PROVE  /\ Single'
         /\ \E P : /\ \A page : page # P => KeepsHome(page)
                   /\ Waiting(P) /\ HeldPage(P)' /\ ~Waiting(P)'
                   /\ LostPage(P)' <=> LostPage(P)
                   /\ KeepsRecord(P) /\ (P \in seen' <=> P \in seen)
  <1> USE DEF Single
  <1>0. FrontierOK(frontier)
    BY DEF HandsOK
  <1>1. PICK i \in NextHosts(frontier) :
          /\ worker' = [worker EXCEPT ![w] = [at |-> "semaphore", req |-> Taken(frontier, i)]]
          /\ frontier' = Popped(frontier, i)
    BY DEF Dispatch
  <1>2. PICK h : h = frontier.order[i]
    OBVIOUS
  <1>3. PICK req : req = Taken(frontier, i)
    OBVIOUS
  <1>4. PICK P : P = Page(req.url)
    OBVIOUS
  <1>5. /\ <<h, 1>> \in Places(frontier)
        /\ req = RequestAt(frontier, <<h, 1>>)
        /\ \A q \in Places(frontier') :
             /\ Before(h, q) \in Places(frontier) \ {<<h, 1>>}
             /\ RequestAt(frontier', q) = RequestAt(frontier, Before(h, q))
        /\ \A p \in Places(frontier) \ {<<h, 1>>} : \E q \in Places(frontier') : p = Before(h, q)
        /\ \A p, q \in Places(frontier') : Before(h, p) = Before(h, q) => p = q
    <2>1. PICK g : g = Popped(frontier, i)
      OBVIOUS
    <2>2. /\ <<h, 1>> \in Places(frontier)
          /\ req = RequestAt(frontier, <<h, 1>>)
          /\ \A q \in Places(g) :
               /\ Before(h, q) \in Places(frontier) \ {<<h, 1>>}
               /\ RequestAt(g, q) = RequestAt(frontier, Before(h, q))
          /\ \A p \in Places(frontier) \ {<<h, 1>>} : \E q \in Places(g) : p = Before(h, q)
          /\ \A p, q \in Places(g) : Before(h, p) = Before(h, q) => p = q
      BY <1>0, <1>2, <1>3, <2>1, PopOK
    <2>3. frontier' = g
      BY <1>1, <2>1
    <2> QED BY <2>2, <2>3
  <1>6. Waiting(P)
    BY <1>4, <1>5 DEF Waiting, Awaits
  <1>7. OnePlace(frontier')
    BY <1>5 DEF OnePlace
  <1>8. ~Waiting(P)'
    BY <1>4, <1>5 DEF OnePlace, Waiting, Awaits
  <1>9. ASSUME NEW page, page # P PROVE KeepsWaiting(page)
    <2>1. ASSUME Waiting(page) PROVE Waiting(page)'
      <3>1. PICK p \in Places(frontier) : Page(RequestAt(frontier, p).url) = page
        BY <2>1 DEF Waiting, Awaits
      <3>2. p # <<h, 1>>
        BY <1>4, <1>5, <1>9, <3>1
      <3> QED BY <1>5, <3>1, <3>2 DEF Waiting, Awaits
    <2>2. ASSUME Waiting(page)' PROVE Waiting(page)
      BY <1>5, <2>2 DEF Waiting, Awaits
    <2> QED BY <2>1, <2>2 DEF KeepsWaiting
  <1>10. worker[w].at = "loop" /\ seen' = seen /\ pages' = pages
    BY DEF Dispatch
  <1>11. /\ worker'[w].req = req /\ worker'[w].at = "semaphore"
         /\ w \in Held' /\ w \notin Lost' /\ w \notin Held /\ w \notin Lost
         /\ \A v \in Workers \ {w} :
              worker'[v] = worker[v] /\ (v \in Held' <=> v \in Held) /\ (v \in Lost' <=> v \in Lost)
    <2>1. w \notin Held /\ w \notin Lost
      BY <1>10 DEF Held, Lost, Over
    <2>2. worker' = [worker EXCEPT ![w] = [at |-> "semaphore", req |-> req]]
      BY <1>1, <1>3
    <2>3. "semaphore" \notin Over
      BY DEF Over
    <2> QED BY <2>1, <2>2, <2>3, HandsOf
  <1>12. /\ Held \subseteq Workers /\ Lost \subseteq Workers
         /\ Held' \subseteq Workers /\ Lost' \subseteq Workers
    BY DEF Held, Lost
  <1>13. HeldPage(P)'
    BY <1>4, <1>11 DEF HeldPage
  <1>14. \A page : page # P => KeepsHands(page)
    BY <1>4, <1>11, <1>12 DEF KeepsHands, HeldPage, LostPage
  <1>15. LostPage(P)' <=> LostPage(P)
    BY <1>11, <1>12 DEF LostPage
  <1>16. \A v \in Held \cup Lost : Page(worker[v].req.url) # P
    BY <1>6 DEF OneHome, HeldPage, LostPage
  <1>17. OneHand'
    BY <1>4, <1>11, <1>12, <1>16 DEF OneHand
  <1>18. HandsEmpty'
    BY <1>11 DEF HandsEmpty
  <1>19. \A page : KeepsRecord(page)
    BY <1>10, SameRecords
  <1>20. \A page : page # P => KeepsHome(page)
    BY <1>9, <1>10, <1>14, <1>19 DEF KeepsHome
  <1> QED
    BY <1>6, <1>7, <1>8, <1>10, <1>13, <1>15, <1>17, <1>18, <1>19, <1>20

\* The hand of worker w is empty afterwards; nobody else had its page.
LEMMA LeaveSingle ==
  ASSUME CapInv, HandsOK, Single, NEW w \in Workers, worker[w].at = "fetch", Leave(w, "loop"),
         NEW P, P = Page(worker[w].req.url)
  PROVE  /\ OneHand' /\ HandsEmpty'
         /\ \A page : page # P => KeepsHands(page)
         /\ HeldPage(P) /\ ~HeldPage(P)' /\ (LostPage(P)' <=> LostPage(P))
  <1> USE DEF Single
  <1>1. worker' = [worker EXCEPT ![w] = [at |-> "loop", req |-> NoRequest]]
    BY DEF Leave
  <1>2. /\ worker'[w].req = NoRequest /\ worker'[w].at = "loop"
        /\ w \notin Held' /\ w \notin Lost' /\ w \in Held /\ w \notin Lost
        /\ \A v \in Workers \ {w} :
             worker'[v] = worker[v] /\ (v \in Held' <=> v \in Held) /\ (v \in Lost' <=> v \in Lost)
    <2>1. w \in Held /\ w \notin Lost
      BY DEF Held, Lost, Over
    <2>2. "loop" \notin Over
      BY DEF Over
    <2> QED BY <1>1, <2>1, <2>2, HandsOf
  <1>3. /\ Held \subseteq Workers /\ Lost \subseteq Workers
        /\ Held' \subseteq Workers /\ Lost' \subseteq Workers
    BY DEF Held, Lost
  <1>4. HeldPage(P)
    BY <1>2 DEF HeldPage
  <1>5. \A v \in (Held \cup Lost) \ {w} : Page(worker[v].req.url) # P
    BY <1>2 DEF OneHand
  <1>6. ~HeldPage(P)'
    BY <1>2, <1>3, <1>5 DEF HeldPage
  <1>7. LostPage(P)' <=> LostPage(P)
    BY <1>2, <1>3 DEF LostPage
  <1>8. \A page : page # P => KeepsHands(page)
    BY <1>2, <1>3 DEF KeepsHands, HeldPage, LostPage
  <1>9. OneHand'
    BY <1>2, <1>3 DEF OneHand
  <1>10. HandsEmpty'
    BY <1>2 DEF HandsEmpty
  <1> QED
    BY <1>4, <1>6, <1>7, <1>8, <1>9, <1>10

\* A fetch that failed: its page waits again, or is recorded.
LEMMA FailedSingle ==
  ASSUME CapInv, HandsOK, Single, OneHome, NEW w \in Workers,
         NEW retryable \in BOOLEAN, NEW retryCode \in BOOLEAN, Failed(w, retryable, retryCode)
  PROVE  /\ Single'
         /\ \E P : /\ \A page : page # P => KeepsHome(page)
                   /\ HeldPage(P) /\ ~HeldPage(P)' /\ (LostPage(P)' <=> LostPage(P))
                   /\ P \in seen' <=> P \in seen
                   /\ \/ Waiting(P)' /\ KeepsRecord(P)
                      \/ KeepsWaiting(P) /\ Recorded(P)' /\ (VisitedPage(P)' <=> VisitedPage(P))
  <1>0. FrontierOK(frontier) /\ worker[w].at = "fetch" /\ worker[w].req \in Request
    BY DEF HandsOK, Failed
  <1>1. PICK req : req = worker[w].req
    OBVIOUS
  <1>2. PICK P : P = Page(req.url)
    OBVIOUS
  <1>3. PICK more : more = [req EXCEPT !.attempts = @ + 1]
    OBVIOUS
  <1>4. PICK retry : retry = [more EXCEPT !.due = FALSE]
    OBVIOUS
  <1>5. retry \in Request /\ more.url = req.url /\ retry.url = req.url
    <2>1. retry \in Request /\ more.url = req.url
      BY <1>0, <1>1, <1>3, <1>4, RetryIsRequest
    <2>2. retry.url = more.url
      BY <1>0, <1>1, <1>3, <1>4 DEF Request
    <2> QED BY <2>1, <2>2
  <1>6. PICK record : record = [url |-> more.url, depth |-> more.depth, ok |-> FALSE]
    OBVIOUS
  <1>7. \/ frontier' = Push(frontier, retry) /\ pages' = pages
        \/ pages' = pages \cup {record} /\ frontier' = frontier
    BY <1>1, <1>3, <1>4, <1>6 DEF Failed
  <1>8. seen' = seen /\ Leave(w, "loop")
    BY DEF Failed
  <1>9. /\ OneHand' /\ HandsEmpty'
        /\ \A page : page # P => KeepsHands(page)
        /\ HeldPage(P) /\ ~HeldPage(P)' /\ (LostPage(P)' <=> LostPage(P))
    BY <1>0, <1>1, <1>2, <1>8, LeaveSingle
  <1>10. ~Waiting(P)
    BY <1>9 DEF OneHome
  <1>11. ASSUME frontier' = Push(frontier, retry), pages' = pages
         PROVE  /\ OnePlace(frontier') /\ Waiting(P)'
                /\ \A page : KeepsRecord(page)
                /\ \A page : page # P => KeepsWaiting(page)
    <2>1. /\ \A p \in Places(frontier) :
               p \in Places(frontier') /\ RequestAt(frontier', p) = RequestAt(frontier, p)
          /\ \E p \in Places(frontier') : RequestAt(frontier', p) = retry
          /\ \A p \in Places(frontier') : p \in Places(frontier) \/ RequestAt(frontier', p) = retry
          /\ \A p, q \in Places(frontier') \ Places(frontier) : p = q
      <3>1. PICK g : g = Push(frontier, retry)
        OBVIOUS
      <3>2. /\ \A p \in Places(frontier) :
                 p \in Places(g) /\ RequestAt(g, p) = RequestAt(frontier, p)
            /\ \E p \in Places(g) : RequestAt(g, p) = retry
            /\ \A p \in Places(g) : p \in Places(frontier) \/ RequestAt(g, p) = retry
            /\ \A p, q \in Places(g) \ Places(frontier) : p = q
        BY <1>0, <1>5, <3>1, PushOK
      <3>3. frontier' = g
        BY <1>11, <3>1
      <3> QED BY <3>2, <3>3
    <2>2. Page(retry.url) = P
      BY <1>2, <1>5
    <2>3. \A p \in Places(frontier) : Page(RequestAt(frontier, p).url) # P
      BY <1>10 DEF Waiting, Awaits
    <2>4. \A p \in Places(frontier') \ Places(frontier) : Page(RequestAt(frontier', p).url) = P
      BY <2>1, <2>2
    <2>5. OnePlace(frontier')
      <3>1. SUFFICES ASSUME NEW p \in Places(frontier'), NEW q \in Places(frontier'),
                            Page(RequestAt(frontier', p).url) = Page(RequestAt(frontier', q).url)
                     PROVE  p = q
        BY DEF OnePlace
      <3>2. CASE p \in Places(frontier) /\ q \in Places(frontier)
        BY <2>1, <3>1, <3>2 DEF Single, OnePlace
      <3>3. CASE p \notin Places(frontier) /\ q \notin Places(frontier)
        BY <2>1, <3>3
      <3>4. CASE (p \in Places(frontier)) # (q \in Places(frontier))
        BY <2>1, <2>3, <2>4, <3>1, <3>4
      <3> QED BY <3>2, <3>3, <3>4
    <2>6. Waiting(P)'
      BY <2>1, <2>2 DEF Waiting, Awaits
    <2>7. \A page : page # P => KeepsWaiting(page)
      BY <2>1, <2>2 DEF KeepsWaiting, Waiting, Awaits
    <2>8. \A page : KeepsRecord(page)
      BY <1>11, SameRecords
    <2> QED BY <2>5, <2>6, <2>7, <2>8
  <1>12. ASSUME pages' = pages \cup {record}, frontier' = frontier
         PROVE  /\ OnePlace(frontier') /\ (\A page : KeepsWaiting(page))
                /\ Recorded(P)' /\ (VisitedPage(P)' <=> VisitedPage(P))
                /\ \A page : page # P => KeepsRecord(page)
    <2>1. record.url = req.url /\ record.ok = FALSE
      BY <1>5, <1>6
    <2>2. \A page : KeepsWaiting(page)
      BY <1>12 DEF KeepsWaiting, Waiting
    <2>3. OnePlace(frontier')
      BY <1>12 DEF Single
    <2>4. record \in pages' /\ Page(record.url) = P
      BY <1>2, <1>12, <2>1
    <2>5. Recorded(P)'
      BY <2>4 DEF Recorded
    <2>6. \A page : VisitedPage(page)' <=> VisitedPage(page)
      BY <1>12, <2>1 DEF VisitedPage
    <2>7. \A page : page # P => (Recorded(page)' <=> Recorded(page))
      BY <1>12, <2>4 DEF Recorded
    <2> QED BY <2>2, <2>3, <2>5, <2>6, <2>7 DEF KeepsRecord
  <1>13. CASE frontier' = Push(frontier, retry) /\ pages' = pages
    <2>1. \A page : page # P => KeepsHome(page)
      BY <1>8, <1>9, <1>11, <1>13 DEF KeepsHome
    <2> QED BY <1>8, <1>9, <1>11, <1>13, <2>1 DEF Single
  <1>14. CASE pages' = pages \cup {record} /\ frontier' = frontier
    <2>1. \A page : page # P => KeepsHome(page)
      BY <1>8, <1>9, <1>12, <1>14 DEF KeepsHome
    <2> QED BY <1>8, <1>9, <1>12, <1>14, <2>1 DEF Single
  <1> QED
    BY <1>7, <1>13, <1>14

\* A visit: its page is recorded as visited, pages newly seen may wait.
LEMMA VisitedSingle ==
  ASSUME CapInv, HandsOK, HandsOK', LinksSeen, Single, OneHome, NEW w \in Workers, Visited(w)
  PROVE  /\ Single' /\ seen \subseteq seen'
         /\ \A page \in seen' \ seen : page \in AllPages
         /\ \E P : /\ \A page : page # P /\ (page \in seen \/ page \notin seen') => KeepsHome(page)
                   /\ \A page : page # P => KeepsHands(page) /\ KeepsRecord(page)
                   /\ HeldPage(P) /\ ~HeldPage(P)' /\ (LostPage(P)' <=> LostPage(P))
                   /\ KeepsWaiting(P) /\ VisitedPage(P)' /\ Recorded(P)'
  <1>0. FrontierOK(frontier) /\ FrontierOK(frontier') /\ worker[w].at = "fetch" /\ Leave(w, "loop")
    BY DEF HandsOK, Visited
  <1>1. PICK req : req = worker[w].req
    OBVIOUS
  <1>2. PICK P : P = Page(req.url)
    OBVIOUS
  <1>3. PICK record : record = [url |-> req.url, depth |-> req.depth, ok |-> TRUE]
    OBVIOUS
  <1>4. pages' = pages \cup {record} /\ record.url = req.url /\ record.ok
    BY <1>1, <1>3 DEF Visited
  <1>5. /\ Keeps(frontier, frontier') /\ seen \subseteq seen'
        /\ \A p \in Places(frontier') \ Places(frontier) :
             Page(RequestAt(frontier', p).url) \in seen' \ seen
        /\ \A p, q \in Places(frontier') \ Places(frontier) :
             Page(RequestAt(frontier', p).url) = Page(RequestAt(frontier', q).url) => p = q
    <2>1. PICK hrefs : hrefs = links[worker[w].req.url]
      OBVIOUS
    <2>2. Gathered([seen |-> seen, frontier |-> frontier, counts |-> linkStats],
                   [seen |-> seen', frontier |-> frontier', counts |-> linkStats'],
                   hrefs, Len(hrefs), worker[w].req.depth + 1)
      BY <2>1, VisitGathers
    <2> QED BY <2>2 DEF Gathered, NewPlaces
  <1>6. /\ OneHand' /\ HandsEmpty'
        /\ \A page : page # P => KeepsHands(page)
        /\ HeldPage(P) /\ ~HeldPage(P)' /\ (LostPage(P)' <=> LostPage(P))
    BY <1>0, <1>1, <1>2, LeaveSingle
  <1>7. \A p \in Places(frontier) : Page(RequestAt(frontier, p).url) \in seen
    BY DEF OneHome, Waiting, Awaits
  <1>8. OnePlace(frontier')
    <2>1. SUFFICES ASSUME NEW p \in Places(frontier'), NEW q \in Places(frontier'),
                          Page(RequestAt(frontier', p).url) = Page(RequestAt(frontier', q).url)
                   PROVE  p = q
      BY DEF OnePlace
    <2>2. CASE p \in Places(frontier) /\ q \in Places(frontier)
      BY <1>5, <2>1, <2>2 DEF Single, OnePlace, Keeps
    <2>3. CASE p \notin Places(frontier) /\ q \notin Places(frontier)
      BY <1>5, <2>1, <2>3
    <2>4. CASE (p \in Places(frontier)) # (q \in Places(frontier))
      BY <1>5, <1>7, <2>1, <2>4 DEF Keeps
    <2> QED BY <2>2, <2>3, <2>4
  <1>9. \A page : (page \in seen \/ page \notin seen') => KeepsWaiting(page)
    <2>1. ASSUME NEW page, page \in seen \/ page \notin seen', Waiting(page)' PROVE Waiting(page)
      <3>1. PICK p \in Places(frontier') : Page(RequestAt(frontier', p).url) = page
        BY <2>1 DEF Waiting, Awaits
      <3>2. p \in Places(frontier)
        BY <1>5, <2>1, <3>1
      <3> QED BY <1>5, <3>1, <3>2 DEF Waiting, Awaits, Keeps
    <2>2. \A page : Waiting(page) => Waiting(page)'
      BY <1>5 DEF Waiting, Awaits, Keeps
    <2> QED BY <2>1, <2>2 DEF KeepsWaiting
  <1>10. VisitedPage(P)' /\ Recorded(P)'
    <2>1. record \in pages' /\ Page(record.url) = P
      BY <1>2, <1>4
    <2> QED BY <1>4, <2>1 DEF VisitedPage, Recorded
  <1>11. \A page : page # P => KeepsRecord(page)
    BY <1>2, <1>4 DEF KeepsRecord, VisitedPage, Recorded
  <1>12. KeepsWaiting(P)
    BY <1>6, <1>9 DEF OneHome
  <1>13. ASSUME NEW page \in seen' \ seen PROVE page \in AllPages
    <2>1. Awaits(frontier', page) \/ Refused(page)'
      BY VisitedFacts
    <2>2. ASSUME Awaits(frontier', page) PROVE page \in AllPages
      <3>1. PICK p \in Places(frontier') : Page(RequestAt(frontier', p).url) = page
        BY <2>2 DEF Awaits
      <3>2. RequestAt(frontier', p) \in Request
        BY <1>0, PlaceOf
      <3> QED BY <3>1, <3>2 DEF AllPages, Request
    <2>3. ASSUME Refused(page)' PROVE page \in AllPages
      BY <2>3 DEF Refused, RefusedAt, AllPages
    <2> QED BY <2>1, <2>2, <2>3
  <1>14. \A page : page # P /\ (page \in seen \/ page \notin seen') => KeepsHome(page)
    BY <1>5, <1>6, <1>9, <1>11 DEF KeepsHome
  <1>15. Single'
    BY <1>6, <1>8 DEF Single
  <1> QED
    BY <1>5, <1>6, <1>10, <1>11, <1>12, <1>13, <1>14, <1>15

\* A worker that an href ends keeps its page with it.
LEMMA RaisesSingle ==
  ASSUME CapInv, HandsOK, Single, NEW w \in Workers, Raises(w)
  PROVE  /\ Single'
         /\ \E P : /\ \A page : page # P => KeepsHome(page)
                   /\ HeldPage(P) /\ ~HeldPage(P)' /\ LostPage(P)'
                   /\ KeepsWaiting(P) /\ KeepsRecord(P) /\ (P \in seen' <=> P \in seen)
  <1> USE DEF Single
  <1>1. /\ worker' = [worker EXCEPT ![w] = [at |-> "raised", req |-> worker[w].req]]
        /\ worker[w].at = "fetch"
        /\ frontier' = frontier /\ pages' = pages /\ seen' = seen
    BY DEF Raises, Leave
  <1>2. PICK P : P = Page(worker[w].req.url)
    OBVIOUS
  <1>3. worker[w].req \in Request /\ worker[w].req # NoRequest
    BY <1>1, NoRequestIsNone DEF HandsOK
  <1>4. /\ worker'[w].req = worker[w].req /\ worker'[w].at = "raised"
        /\ w \notin Held' /\ w \in Lost' /\ w \in Held /\ w \notin Lost
        /\ \A v \in Workers \ {w} :
             worker'[v] = worker[v] /\ (v \in Held' <=> v \in Held) /\ (v \in Lost' <=> v \in Lost)
    <2>1. w \in Held /\ w \notin Lost /\ "raised" \in Over
      BY <1>1 DEF Held, Lost, Over
    <2> QED BY <1>1, <1>3, <2>1, HandsOf
  <1>5. /\ Held \subseteq Workers /\ Lost \subseteq Workers
        /\ Held' \subseteq Workers /\ Lost' \subseteq Workers
    BY DEF Held, Lost
  <1>6. HeldPage(P) /\ LostPage(P)'
    BY <1>2, <1>4 DEF HeldPage, LostPage
  <1>7. ~HeldPage(P)'
    BY <1>2, <1>4, <1>5 DEF HeldPage, OneHand
  <1>8. \A page : page # P => KeepsHands(page)
    BY <1>2, <1>4, <1>5 DEF KeepsHands, HeldPage, LostPage
  <1>9. OneHand'
    BY <1>4, <1>5 DEF OneHand
  <1>10. HandsEmpty'
    BY <1>3, <1>4 DEF HandsEmpty
  <1>11. \A page : KeepsRecord(page) /\ KeepsWaiting(page)
    BY <1>1, SameRecords DEF KeepsWaiting, Waiting
  <1>12. \A page : page # P => KeepsHome(page)
    BY <1>1, <1>8, <1>11 DEF KeepsHome
  <1> QED
    BY <1>1, <1>6, <1>7, <1>9, <1>10, <1>11, <1>12

\* A hard stop: every page in hand is lost.  A soft one moves nothing.
LEMMA StopSingle ==
  ASSUME CapInv, HandsOK, Single, NEW how \in Stops, Stop(how)
  PROVE  /\ Single'
         /\ \A page : /\ KeepsRecord(page) /\ KeepsWaiting(page) /\ (page \in seen' <=> page \in seen)
                      /\ \/ KeepsHands(page)
                         \/ ~HeldPage(page)' /\ (LostPage(page)' <=> LostPage(page) \/ HeldPage(page))
  <1> USE DEF Single
  <1>1. frontier' = frontier /\ pages' = pages /\ seen' = seen
    BY DEF Stop
  <1>2. \A page : KeepsRecord(page) /\ KeepsWaiting(page) /\ (page \in seen' <=> page \in seen)
    BY <1>1, SameRecords DEF KeepsWaiting, Waiting
  <1>3. CASE how = "soft"
    <2>1. worker' = worker
      BY <1>3 DEF Stop
    <2>2. HandsEmpty' /\ OneHand' /\ \A page : KeepsHands(page)
      BY <2>1, SameHands DEF HandsEmpty, Held, Lost
    <2> QED BY <1>1, <1>2, <2>2
  <1>4. CASE how # "soft"
    <2>1. worker' = [w \in Workers |-> Interrupted(w)]
      BY <1>4 DEF Stop
    <2>2. \A w \in Workers : /\ worker[w] = [at |-> worker[w].at, req |-> worker[w].req]
                             /\ worker[w].at \in Running \cup Over
      BY DEF CapInv, WorkersTyped
    <2>3. \A w \in Workers :
            /\ worker'[w].req = worker[w].req
            /\ worker[w].at \in Running => worker'[w].at = "cancelled"
            /\ worker[w].at \notin Running => worker'[w].at = worker[w].at
      BY <2>1, <2>2 DEF Interrupted
    <2>4. Held' = {}
      BY <2>2, <2>3 DEF Held, Running, Over
    <2>5. \A w \in Held : worker[w].req \in Request /\ worker[w].req # NoRequest
      BY NoRequestIsNone DEF Held, HandsOK
    <2>6. Lost' = Held \cup Lost
      <3>1. ASSUME NEW w \in Lost' PROVE w \in Held \cup Lost
        BY <2>2, <2>3, <3>1 DEF Held, Lost, Running, Over, HandsEmpty
      <3>2. ASSUME NEW w \in Held PROVE w \in Lost'
        BY <2>3, <2>5, <3>2 DEF Held, Lost, Running, Over
      <3>3. ASSUME NEW w \in Lost PROVE w \in Lost'
        BY <2>3, <3>3 DEF Lost, Running, Over
      <3> QED BY <3>1, <3>2, <3>3
    <2>7. Held \subseteq Workers /\ Lost \subseteq Workers
      BY DEF Held, Lost
    <2>8. OneHand'
      BY <2>3, <2>4, <2>6, <2>7 DEF OneHand
    <2>9. HandsEmpty'
      <3>1. ASSUME NEW w \in Workers, worker'[w].at \in {"loop", "returned"} PROVE worker'[w].req = NoRequest
        BY <2>3, <3>1 DEF HandsEmpty, Running
      <3>2. ASSUME NEW w \in Workers, worker'[w].at \in {"raised", "cancelled"}
            PROVE  worker'[w].req \in Request \cup {NoRequest}
        <4>1. CASE worker[w].at \in {"semaphore", "fetch"}
          BY <2>3, <4>1 DEF HandsOK
        <4>2. CASE worker[w].at \notin {"semaphore", "fetch"}
          BY <2>2, <2>3, <3>2, <4>2 DEF HandsEmpty, Running, Over
        <4> QED BY <4>1, <4>2
      <3> QED BY <3>1, <3>2 DEF HandsEmpty
    <2>10. \A page : /\ ~HeldPage(page)'
                     /\ LostPage(page)' <=> LostPage(page) \/ HeldPage(page)
      BY <2>3, <2>4, <2>6, <2>7 DEF HeldPage, LostPage
    <2> QED BY <1>1, <1>2, <2>8, <2>9, <2>10
  <1> QED
    BY <1>3, <1>4

-----------------------------------------------------------------------------
(* The life of each page is the one PageLife allows.                       *)

LEMMA PhaseIs ==
  \A page :
    /\ PhaseOf(page) =
         IF HeldPage(page) THEN "held" ELSE IF Waiting(page) THEN "waiting"
         ELSE IF VisitedPage(page) THEN "visited" ELSE IF Recorded(page) THEN "failed"
         ELSE IF LostPage(page) THEN "lost" ELSE IF page \in seen THEN "skipped" ELSE "unseen"
    /\ PhaseOf(page)' =
         IF HeldPage(page)' THEN "held" ELSE IF Waiting(page)' THEN "waiting"
         ELSE IF VisitedPage(page)' THEN "visited" ELSE IF Recorded(page)' THEN "failed"
         ELSE IF LostPage(page)' THEN "lost" ELSE IF page \in seen' THEN "skipped" ELSE "unseen"
  BY DEF PhaseOf, HeldPage, Waiting, Awaits, VisitedPage, Recorded, LostPage

\* A page that keeps its home keeps its phase.
LEMMA HomeIsPhase == ASSUME NEW page, KeepsHome(page) PROVE PhaseOf(page)' = PhaseOf(page)
  BY PhaseIs DEF KeepsHome, KeepsHands, KeepsRecord, KeepsWaiting

\* What a step may do to the phase of a page besides the one it is about.
Quiet(page) ==
  \/ PhaseOf(page)' = PhaseOf(page)
  \/ PhaseOf(page) = "held" /\ PhaseOf(page)' = "lost"
Discovered(page) == PhaseOf(page) = "unseen" /\ PhaseOf(page)' \in {"waiting", "skipped"}

LEMMA OneMoves ==
  ASSUME NEW P,
         \A page \in AllPages : page # P => Quiet(page) \/ Discovered(page),
         P \in AllPages =>
           \/ Quiet(P)
           \/ <<PhaseOf(P), PhaseOf(P)'>> \in
                {<<"waiting", "held">>, <<"held", "waiting">>, <<"held", "visited">>, <<"held", "failed">>},
         \A page \in AllPages : Discovered(page) =>
           P \in AllPages /\ PhaseOf(P) = "held" /\ PhaseOf(P)' = "visited"
  PROVE  Life!Next
  <1> DEFINE before == [page \in AllPages |-> PhaseOf(page)]
             after == [page \in AllPages |-> PhaseOf(page)']
             Moves(from, to) == {page \in AllPages : before[page] = from /\ after[page] = to}
  <1>1. \A page \in AllPages : before[page] = PhaseOf(page) /\ after[page] = PhaseOf(page)'
    OBVIOUS
  <1>2. after \in [AllPages -> Life!Phases]
    BY PhaseIs DEF Life!Phases
  <1>3. \A page \in AllPages : after[page] # before[page] =>
          <<before[page], after[page]>> \in Life!Allowed
    BY <1>1 DEF Life!Allowed, Quiet, Discovered
  <1>4. Moves("waiting", "held") \subseteq {P}
    BY <1>1 DEF Quiet, Discovered
  <1>6. ASSUME NEW page \in AllPages, after[page] # before[page], before[page] = "unseen"
        PROVE  P \in AllPages /\ Moves("held", "visited") = {P}
    <2>1. Discovered(page)
      BY <1>1, <1>6 DEF Quiet, Discovered
    <2>2. P \in AllPages /\ PhaseOf(P) = "held" /\ PhaseOf(P)' = "visited"
      BY <2>1
    <2> QED
      BY <1>1, <2>2 DEF Quiet, Discovered
  <1>7. Life!Changed = {page \in AllPages : after[page] # before[page]}
    BY DEF Life!Changed, AllPages
  <1>8. \A from, to : Life!Moved(from, to) = Moves(from, to)
    BY DEF Life!Moved, AllPages
  <1>9. [page \in {Page(u) : u \in Urls} |-> PhaseOf(page)]' \in [{Page(u) : u \in Urls} -> Life!Phases]
    BY <1>2 DEF AllPages
  <1>10. \A page \in Life!Changed :
           <<[x \in {Page(u) : u \in Urls} |-> PhaseOf(x)][page],
             [x \in {Page(u) : u \in Urls} |-> PhaseOf(x)]'[page]>> \in Life!Allowed
    BY <1>3, <1>7 DEF AllPages
  <1>11. (\E page \in Life!Changed : [x \in {Page(u) : u \in Urls} |-> PhaseOf(x)][page] = "unseen")
           => \E p \in {Page(u) : u \in Urls} : Life!Moved("held", "visited") = {p}
    <2> HIDE DEF Moves
    <2> QED BY <1>6, <1>7, <1>8 DEF AllPages
  <1>12. \A p, q \in Life!Moved("waiting", "held") : p = q
    <2> HIDE DEF Moves
    <2> QED BY <1>4, <1>8
  <1> QED
    <2> HIDE DEF before, after, Moves
    <2> QED BY <1>9, <1>10, <1>11, <1>12 DEF Life!Next

LEMMA OneHomeInit == Init => Single /\ OneHome /\ Life!Init
  <1> SUFFICES ASSUME Init PROVE Single /\ OneHome /\ Life!Init
    OBVIOUS
  <1> DEFINE r == [url |-> Seed, depth |-> 0, attempts |-> 0, due |-> TRUE]
  <1>1. r \in Request /\ r.url = Seed
    BY EngineAssumption DEF Request
  <1>2. \A w \in Workers : worker[w].at = "loop" /\ worker[w].req = NoRequest
    BY DEF Init, Idle
  <1>3. Held = {} /\ Lost = {}
    BY <1>2 DEF Held, Lost, Over
  <1> HIDE DEF r
  <1>4. frontier = Push(EmptyFrontier, r)
    BY DEF Init, r
  <1>5. /\ \E p \in Places(frontier) : RequestAt(frontier, p) = r
        /\ \A p \in Places(frontier) : RequestAt(frontier, p) = r
        /\ \A p, q \in Places(frontier) : p = q
    BY <1>1, <1>4, EmptyOK, PushOK
  <1>6. \A page : Waiting(page) <=> page = Page(Seed)
    BY <1>1, <1>5 DEF Waiting, Awaits
  <1>7. \A page : ~HeldPage(page) /\ ~LostPage(page) /\ ~Recorded(page) /\ ~VisitedPage(page)
    BY <1>3 DEF Init, HeldPage, LostPage, Recorded, VisitedPage
  <1>8. Single
    BY <1>2, <1>3, <1>5 DEF Single, OnePlace, OneHand, HandsEmpty
  <1>9. OneHome
    BY <1>6, <1>7, EngineAssumption DEF OneHome, Init, AllPages
  <1>10. \A page : PhaseOf(page) = IF page = Page(Seed) THEN "waiting" ELSE "unseen"
    BY <1>6, <1>7, PhaseIs DEF Init
  <1>11. Life!Init
    BY <1>10 DEF Life!Init
  <1> QED
    BY <1>8, <1>9, <1>11

\* Every step keeps one home for each page, and is a step of the pages' lives.
LEMMA LifeStep ==
  ASSUME CapInv, HandsOK, HandsOK', LinksSeen, Single, OneHome, [Next]_vars
  PROVE  /\ Single' /\ OneHome'
         /\ Life!Next
  <1>1. ASSUME (\E w \in Workers : Return(w) \/ Enter(w)) \/ Elapse \/ UNCHANGED vars
        PROVE  Single' /\ OneHome' /\ Life!Next
    <2>1. Single' /\ \A page : KeepsHome(page)
      BY <1>1, StaySingle
    <2>2. OneHome'
      BY <2>1 DEF OneHome, KeepsHome, KeepsHands, KeepsRecord, KeepsWaiting
    <2>3. \A page : Quiet(page) /\ ~Discovered(page)
      BY <2>1, HomeIsPhase DEF Quiet, Discovered
    <2> QED BY <2>1, <2>2, <2>3, OneMoves
  <1>2. ASSUME NEW w \in Workers, Dispatch(w) PROVE Single' /\ OneHome' /\ Life!Next
    <2>1. Single'
      BY <1>2, DispatchSingle
    <2>2. PICK P : /\ \A page : page # P => KeepsHome(page)
                   /\ Waiting(P) /\ HeldPage(P)' /\ ~Waiting(P)'
                   /\ LostPage(P)' <=> LostPage(P)
                   /\ KeepsRecord(P) /\ (P \in seen' <=> P \in seen)
      BY <1>2, DispatchSingle
    <2>3. OneHome'
      BY <2>2 DEF OneHome, KeepsHome, KeepsHands, KeepsRecord, KeepsWaiting
    <2>4. PhaseOf(P) = "waiting" /\ PhaseOf(P)' = "held"
      BY <2>2, PhaseIs DEF OneHome
    <2>5. \A page : page # P => Quiet(page) /\ ~Discovered(page)
      BY <2>2, HomeIsPhase DEF Quiet, Discovered
    <2>6. ~Discovered(P)
      BY <2>4 DEF Discovered
    <2> QED BY <2>1, <2>3, <2>4, <2>5, <2>6, OneMoves
  <1>3. ASSUME NEW w \in Workers, NEW retryable \in BOOLEAN, NEW retryCode \in BOOLEAN,
               Failed(w, retryable, retryCode)
        PROVE  Single' /\ OneHome' /\ Life!Next
    <2>1. Single'
      BY <1>3, FailedSingle
    <2>2. PICK P : /\ \A page : page # P => KeepsHome(page)
                   /\ HeldPage(P) /\ ~HeldPage(P)' /\ (LostPage(P)' <=> LostPage(P))
                   /\ P \in seen' <=> P \in seen
                   /\ \/ Waiting(P)' /\ KeepsRecord(P)
                      \/ KeepsWaiting(P) /\ Recorded(P)' /\ (VisitedPage(P)' <=> VisitedPage(P))
      BY <1>3, FailedSingle
    <2>3. ~LostPage(P) /\ ~Waiting(P) /\ ~Recorded(P) /\ ~VisitedPage(P) /\ P \in seen /\ P \in AllPages
      BY <2>2 DEF OneHome, VisitedPage, Recorded
    <2>4. OneHome'
      BY <2>2, <2>3 DEF OneHome, KeepsHome, KeepsHands, KeepsRecord, KeepsWaiting
    <2>5. PhaseOf(P) = "held" /\ PhaseOf(P)' \in {"waiting", "failed"}
      BY <2>2, <2>3, PhaseIs DEF KeepsRecord, KeepsWaiting
    <2>6. \A page : page # P => Quiet(page) /\ ~Discovered(page)
      BY <2>2, HomeIsPhase DEF Quiet, Discovered
    <2>7. ~Discovered(P)
      BY <2>5 DEF Discovered
    <2> QED BY <2>1, <2>4, <2>5, <2>6, <2>7, OneMoves
  <1>4. ASSUME NEW w \in Workers, Visited(w) PROVE Single' /\ OneHome' /\ Life!Next
    <2>1. Single' /\ seen \subseteq seen' /\ \A page \in seen' \ seen : page \in AllPages
      BY <1>4, VisitedSingle
    <2>2. PICK P : /\ \A page : page # P /\ (page \in seen \/ page \notin seen') => KeepsHome(page)
                   /\ \A page : page # P => KeepsHands(page) /\ KeepsRecord(page)
                   /\ HeldPage(P) /\ ~HeldPage(P)' /\ (LostPage(P)' <=> LostPage(P))
                   /\ KeepsWaiting(P) /\ VisitedPage(P)' /\ Recorded(P)'
      BY <1>4, VisitedSingle
    <2>3. ~LostPage(P) /\ ~Waiting(P) /\ P \in seen /\ P \in AllPages
      BY <2>2 DEF OneHome
    <2>4. \A page : VisitedPage(page) => Recorded(page)
      BY DEF VisitedPage, Recorded
    <2>5. OneHome'
      <3>1. ASSUME NEW page
            PROVE  /\ HeldPage(page)' => page \in seen' /\ ~LostPage(page)' /\ ~Waiting(page)' /\ ~Recorded(page)'
                   /\ LostPage(page)' => page \in seen' /\ ~Waiting(page)' /\ ~Recorded(page)'
                   /\ Waiting(page)' => page \in seen' /\ ~Recorded(page)'
                   /\ Recorded(page)' => page \in seen'
                   /\ page \in seen' => page \in AllPages
        <4>1. CASE page = P
          BY <2>1, <2>2, <2>3, <4>1 DEF KeepsWaiting
        <4>2. CASE page # P /\ (page \in seen \/ page \notin seen')
          BY <2>2, <4>2 DEF OneHome, KeepsHome, KeepsHands, KeepsRecord, KeepsWaiting
        <4>3. CASE page # P /\ page \in seen' /\ page \notin seen
          BY <2>1, <2>2, <4>3 DEF OneHome, KeepsHands, KeepsRecord
        <4> QED BY <4>1, <4>2, <4>3
      <3> QED BY <3>1 DEF OneHome
    <2>6. PhaseOf(P) = "held" /\ PhaseOf(P)' = "visited"
      BY <2>2, <2>3, PhaseIs DEF KeepsWaiting
    <2>7. ASSUME NEW page, page # P PROVE Quiet(page) \/ Discovered(page)
      <3>1. CASE page \in seen \/ page \notin seen'
        BY <2>2, <2>7, <3>1, HomeIsPhase DEF Quiet
      <3>2. CASE page \in seen' /\ page \notin seen
        <4>1. ~HeldPage(page) /\ ~LostPage(page) /\ ~Waiting(page) /\ ~Recorded(page) /\ ~VisitedPage(page)
          BY <2>4, <3>2 DEF OneHome
        <4>2. PhaseOf(page) = "unseen"
          BY <3>2, <4>1, PhaseIs
        <4>3. ~HeldPage(page)' /\ ~LostPage(page)' /\ ~Recorded(page)' /\ ~VisitedPage(page)'
          BY <2>2, <2>7, <4>1 DEF KeepsHands, KeepsRecord
        <4>4. PhaseOf(page)' \in {"waiting", "skipped"}
          BY <3>2, <4>3, PhaseIs
        <4> QED BY <4>2, <4>4 DEF Discovered
      <3> QED BY <3>1, <3>2
    <2> QED BY <2>1, <2>3, <2>5, <2>6, <2>7, OneMoves
  <1>5. ASSUME NEW w \in Workers, Raises(w) PROVE Single' /\ OneHome' /\ Life!Next
    <2>1. Single'
      BY <1>5, RaisesSingle
    <2>2. PICK P : /\ \A page : page # P => KeepsHome(page)
                   /\ HeldPage(P) /\ ~HeldPage(P)' /\ LostPage(P)'
                   /\ KeepsWaiting(P) /\ KeepsRecord(P) /\ (P \in seen' <=> P \in seen)
      BY <1>5, RaisesSingle
    <2>3. ~Waiting(P) /\ ~Recorded(P) /\ ~VisitedPage(P) /\ P \in seen
      BY <2>2 DEF OneHome, VisitedPage, Recorded
    <2>4. OneHome'
      BY <2>2, <2>3 DEF OneHome, KeepsHome, KeepsHands, KeepsRecord, KeepsWaiting
    <2>5. PhaseOf(P) = "held" /\ PhaseOf(P)' = "lost"
      BY <2>2, <2>3, PhaseIs DEF KeepsRecord, KeepsWaiting
    <2>6. \A page : Quiet(page) /\ ~Discovered(page)
      BY <2>2, <2>5, HomeIsPhase DEF Quiet, Discovered
    <2> QED BY <2>1, <2>4, <2>6, OneMoves
  <1>6. ASSUME NEW how \in Stops, Stop(how) PROVE Single' /\ OneHome' /\ Life!Next
    <2>1. Single'
      BY <1>6, StopSingle
    <2>2. \A page : /\ KeepsRecord(page) /\ KeepsWaiting(page) /\ (page \in seen' <=> page \in seen)
                    /\ \/ KeepsHands(page)
                       \/ ~HeldPage(page)' /\ (LostPage(page)' <=> LostPage(page) \/ HeldPage(page))
      BY <1>6, StopSingle
    <2>3. OneHome'
      BY <2>2 DEF OneHome, KeepsHands, KeepsRecord, KeepsWaiting
    <2>4. ASSUME NEW page PROVE Quiet(page) /\ ~Discovered(page)
      <3>1. CASE KeepsHands(page)
        <4>1. KeepsHome(page)
          BY <2>2, <3>1 DEF KeepsHome
        <4> QED BY <4>1, HomeIsPhase DEF Quiet, Discovered
      <3>2. CASE ~KeepsHands(page) /\ HeldPage(page)
        <4>1. ~HeldPage(page)' /\ LostPage(page)' /\ ~Waiting(page) /\ ~Recorded(page) /\ ~VisitedPage(page)
          BY <2>2, <3>2 DEF OneHome, VisitedPage, Recorded
        <4>2. PhaseOf(page) = "held" /\ PhaseOf(page)' = "lost"
          BY <2>2, <3>2, <4>1, PhaseIs DEF KeepsRecord, KeepsWaiting
        <4> QED BY <4>2 DEF Quiet, Discovered
      <3>3. CASE ~KeepsHands(page) /\ ~HeldPage(page)
        BY <2>2, <3>3 DEF KeepsHands
      <3> QED BY <3>1, <3>2, <3>3
    <2> QED BY <2>1, <2>3, <2>4, OneMoves
  <1> QED
    BY <1>1, <1>2, <1>3, <1>4, <1>5, <1>6 DEF Next, Step, FetchEnds

\* Each page of a crawl lives the life PageLife allows: it is discovered once,
\* by a visit, is in one worker's hands at a time and is settled once.  engine.py
\* promises it with one dedup set, one frontier and one counter.
THEOREM PagesLiveOnce == Spec => LifeSpec
  <1> DEFINE Inv == CrawlInv /\ Single /\ OneHome
  <1>1. Init => Inv /\ Life!Init
    BY CrawlInit, OneHomeInit
  <1>2. Inv /\ [Next]_vars => Inv' /\ Life!Next
    <2> SUFFICES ASSUME Inv, [Next]_vars PROVE Inv' /\ Life!Next
      OBVIOUS
    <2>1. CrawlInv'
      BY CapStep, NextHands, NextReturned, NextAccounted, NextLinksSeen DEF CrawlInv
    <2>2. Single' /\ OneHome' /\ Life!Next
      BY <2>1, LifeStep DEF CrawlInv
    <2> QED BY <2>1, <2>2
  <1> HIDE DEF Inv
  <1> QED
    BY <1>1, <1>2, PTL DEF Spec, LifeSpec, Life!Spec
=============================================================================
