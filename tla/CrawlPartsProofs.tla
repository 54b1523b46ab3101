-------------------------- MODULE CrawlPartsProofs --------------------------
(* Theorems about components of the crawler that stand alone, for every    *)
(* value of their constants: the session its fetches share, the bucket of  *)
(* a domain, and the rotation of the frontier.                             *)
EXTENDS ManagedSession, FrontierFairness, DomainLimiter, FiniteSetTheorems, WellFoundedInduction, TLAPS

(***** ManagedSession *****)

\* Sessions not created yet are untouched and nobody holds one.
Untouched ==
  \A i \in Ids : i > current =>
    /\ session[i] = [score |-> 0, usage |-> 0, retired |-> FALSE]
    /\ \A f \in Fetches : holds[f] # i

SessionInv == TypeOK /\ Untouched /\ UsageBounded /\ HealthyUnlessRetired

\* The users of a session are some of the fetches.
LEMMA UsersFinite ==
  \A i \in Ids : /\ IsFiniteSet(Users(i)) /\ Cardinality(Users(i)) \in Nat
                 /\ IsFiniteSet(Users(i)') /\ Cardinality(Users(i)') \in Nat
  <1> TAKE i \in Ids
  <1>1. Users(i) \subseteq Fetches /\ Users(i)' \subseteq Fetches
    BY DEF Users
  <1> QED
    BY <1>1, SessionAssumption, FS_Subset, FS_CardinalityType

LEMMA SessionInit == Init => SessionInv
  <1> SUFFICES ASSUME Init PROVE SessionInv
    OBVIOUS
  <1>1. TypeOK
    BY SessionAssumption DEF Init, TypeOK, Ids, Session
  <1>2. Untouched
    BY DEF Init, Untouched, Ids
  <1>3. \A i \in Ids : Users(i) = {}
    BY DEF Init, Users, Ids
  <1>4. Cardinality(Fetches) \in Nat
    BY SessionAssumption, FS_CardinalityType
  <1>5. UsageBounded
    BY <1>4, SessionAssumption DEF Init, UsageBounded, Ids
  <1>6. HealthyUnlessRetired
    <2>1. \A i \in Ids : session[i].score = 0 /\ session[i].usage = 0
      BY DEF Init
    <2>2. \A i \in Ids : Cardinality(Users(i)) = 0
      BY <1>3, FS_EmptySet
    <2> QED
      BY <2>1, <2>2, SessionAssumption DEF HealthyUnlessRetired
  <1> QED
    BY <1>1, <1>2, <1>5, <1>6 DEF SessionInv

\* Taking a session: at most the other fetches use it already.
LEMMA AcquireInv == ASSUME SessionInv, NEW f \in Fetches, Acquire(f) PROVE SessionInv'
  <1> USE DEF SessionInv
  <1> PICK i \in Ids : i = IF Stale THEN current + 1 ELSE current
    BY SessionAssumption DEF Acquire, Stale, TypeOK, Ids
  <1>1. /\ holds[f] = 0 /\ current' = i
        /\ holds' = [holds EXCEPT ![f] = i]
        /\ session' = [session EXCEPT ![i].usage = @ + 1]
    BY DEF Acquire
  <1>2. /\ session[i] \in Session /\ ~session[i].retired /\ i >= current
    <2>1. CASE Stale
      BY <2>1 DEF Stale, TypeOK, Untouched, Ids, Session
    <2>2. CASE ~Stale
      BY <2>2 DEF Stale, TypeOK, Ids
    <2> QED
      BY <2>1, <2>2
  <1>3. /\ session'[i] = [score |-> session[i].score, usage |-> session[i].usage + 1,
                          retired |-> FALSE]
        /\ \A j \in Ids \ {i} : session'[j] = session[j]
    BY <1>1, <1>2 DEF TypeOK, Session
  <1>4. TypeOK'
    <2>1. session' \in [Ids -> Session]
      BY <1>1, <1>2, <1>3 DEF TypeOK, Session
    <2> QED
      BY <1>1, <2>1 DEF TypeOK, Ids
  <1>5. Untouched'
    <2> SUFFICES ASSUME NEW j \in Ids, j > current'
                 PROVE  /\ session'[j] = [score |-> 0, usage |-> 0, retired |-> FALSE]
                        /\ \A g \in Fetches : holds'[g] # j
      BY DEF Untouched
    <2>1. j > current /\ j # i
      BY <1>1, <1>2 DEF TypeOK, Ids
    <2>2. \A g \in Fetches : holds'[g] = i \/ holds'[g] = holds[g]
      BY <1>1 DEF TypeOK
    <2> QED
      BY <1>3, <2>1, <2>2 DEF Untouched
  <1>6. /\ f \notin Users(i) /\ Users(i)' = Users(i) \cup {f}
        /\ \A j \in Ids \ {i} : Users(j)' = Users(j)
    BY <1>1 DEF Users, TypeOK, Ids
  <1>7. Cardinality(Users(i)') = Cardinality(Users(i)) + 1
    BY <1>6, UsersFinite, FS_AddElement
  <1>8. Cardinality(Users(i)') <= Cardinality(Fetches) /\ Cardinality(Fetches) \in Nat
    BY SessionAssumption, FS_Subset, FS_CardinalityType DEF Users
  <1>9. session[i].usage - Cardinality(Users(i)) < MaxUsage /\ session[i].score < MaxScore
    BY <1>2 DEF HealthyUnlessRetired
  <1>10. UsageBounded'
    BY <1>2, <1>3, <1>7, <1>8, <1>9, UsersFinite, SessionAssumption
       DEF UsageBounded, Session
  <1>11. HealthyUnlessRetired'
    BY <1>2, <1>3, <1>6, <1>7, <1>9, UsersFinite, SessionAssumption
       DEF HealthyUnlessRetired, Session
  <1> QED
    BY <1>4, <1>5, <1>10, <1>11

\* Giving a session back: it stays in use only within both limits.
LEMMA ReleaseInv ==
  ASSUME SessionInv, NEW f \in Fetches, NEW ok \in BOOLEAN, NEW blocked \in BOOLEAN,
         Release(f, ok, blocked)
  PROVE  SessionInv'
  <1> USE DEF SessionInv
  <1> PICK i \in Ids : i = holds[f]
    BY DEF Release, TypeOK, Ids
  <1>1. /\ holds' = [holds EXCEPT ![f] = 0] /\ current' = current
        /\ session' = [session EXCEPT ![i] =
             [score   |-> Scored(session[i], ok),
              usage   |-> session[i].usage,
              retired |-> session[i].retired
                          \/ Retires(session[i], Scored(session[i], ok), blocked)]]
    BY DEF Release
  <1>2. Scored(session[i], ok) \in Nat
    BY DEF Scored, TypeOK, Session
  <1>3. TypeOK'
    <2>1. (session[i].retired \/ Retires(session[i], Scored(session[i], ok), blocked)) \in BOOLEAN
      OBVIOUS
    <2>2. session[i].usage \in Nat
      BY DEF TypeOK, Session
    <2>3. [score   |-> Scored(session[i], ok),
           usage   |-> session[i].usage,
           retired |-> session[i].retired
                       \/ Retires(session[i], Scored(session[i], ok), blocked)] \in Session
      BY <1>2, <2>1, <2>2 DEF Session
    <2>4. session' \in [Ids -> Session]
      BY <1>1, <2>3 DEF TypeOK
    <2>5. holds' \in [Fetches -> 0..MaxCreated]
      BY <1>1, SessionAssumption DEF TypeOK
    <2> QED
      BY <1>1, <2>4, <2>5 DEF TypeOK
  <1>4. Untouched'
    <2> SUFFICES ASSUME NEW j \in Ids, j > current'
                 PROVE  /\ session'[j] = [score |-> 0, usage |-> 0, retired |-> FALSE]
                        /\ \A g \in Fetches : holds'[g] # j
      BY DEF Untouched
    <2>1. j > current /\ j # i /\ j # 0
      BY <1>1 DEF Untouched, Ids
    <2>2. \A g \in Fetches : holds'[g] = 0 \/ holds'[g] = holds[g]
      BY <1>1 DEF TypeOK
    <2>3. session'[j] = session[j]
      BY <1>1, <2>1 DEF TypeOK
    <2> QED
      BY <2>1, <2>2, <2>3 DEF Untouched
  <1>5. \A j \in Ids \ {i} : Users(j)' = Users(j) /\ session'[j] = session[j]
    BY <1>1 DEF Users, TypeOK, Ids
  <1>6. /\ session'[i].usage = session[i].usage
        /\ session'[i].score = Scored(session[i], ok)
        /\ ~session'[i].retired => ~Retires(session[i], Scored(session[i], ok), blocked)
    BY <1>1 DEF TypeOK
  <1>7. UsageBounded'
    BY <1>5, <1>6 DEF UsageBounded
  <1>8. HealthyUnlessRetired'
    <2> SUFFICES ASSUME NEW j \in Ids, ~session'[j].retired
                 PROVE  /\ session'[j].score < MaxScore
                        /\ session'[j].usage - Cardinality(Users(j)') < MaxUsage
      BY DEF HealthyUnlessRetired
    <2>1. CASE j = i
      BY <1>2, <1>6, <2>1, UsersFinite, SessionAssumption DEF Retires, TypeOK, Session
    <2>2. CASE j # i
      BY <1>5, <2>2 DEF HealthyUnlessRetired
    <2> QED
      BY <2>1, <2>2
  <1> QED
    BY <1>3, <1>4, <1>7, <1>8

LEMMA SessionInvariant == Spec => []SessionInv
  <1>1. SessionInv /\ [Next]_vars => SessionInv'
    <2> SUFFICES ASSUME SessionInv, [Next]_vars PROVE SessionInv'
      OBVIOUS
    <2>1. CASE Next
      BY <2>1, AcquireInv, ReleaseInv DEF Next
    <2>2. CASE UNCHANGED vars
      BY <2>2 DEF vars, SessionInv, TypeOK, Untouched, UsageBounded, HealthyUnlessRetired, Users
    <2> QED
      BY <2>1, <2>2
  <1> QED
    BY <1>1, SessionInit, PTL DEF Spec

\* A session is used at most MaxUsage - 1 times plus once per overlapping
\* fetch: `release` is the only place that looks at the limit.
THEOREM UsageNeverRunsAway == Spec => []UsageBounded
  BY SessionInvariant, PTL DEF SessionInv

\* A session handed out is within its error and usage limits.
THEOREM OnlyHealthySessionsServe == Spec => []HealthyUnlessRetired
  BY SessionInvariant, PTL DEF SessionInv

-----------------------------------------------------------------------------
(***** DomainLimiter *****)

(* The fastest of the jobs, and the shortest wait its jittered interval is. *)
Shortest == Min(Intervals)
Floor == (Shortest * 4) \div 5

LimiterTyped ==
  /\ interval \in Intervals
  /\ ready \in Nat /\ throttled \in Nat /\ sleeper \in Nat /\ since \in Nat /\ gap \in Nat
  /\ factor \in 2..20

(* What is still to wait makes up for what has passed since the last token. *)
WaitsEnough == since >= Floor \/ ready + since >= Floor

(* Whoever sleeps will charge an interval of some job.                     *)
ChargesEnough == sleeper > 0 => sleeper >= Floor

LimiterInv == LimiterTyped /\ WaitsEnough /\ ChargesEnough /\ RateKept

(* A nonempty set of naturals has a least element.                         *)
LEMMA MinIsLeast ==
  ASSUME NEW S \in SUBSET Nat, S # {}
  PROVE  Min(S) \in S /\ \A x \in S : Min(S) <= x
  <1> DEFINE Before == {ss \in Nat \X Nat : ss[1] < ss[2]}
  <1>1. \E x \in S : \A y \in S : x <= y
    <2>1. IsWellFoundedOn(Before, Nat)
      BY NatLessThanWellFounded DEF OpToRel
    <2>2. PICK x \in S : \A y \in S : <<y, x>> \notin Before
      <3> HIDE DEF Before
      <3> QED BY <2>1, WFMin
    <2>3. ASSUME NEW y \in S PROVE x <= y
      <3>1. x \in Nat /\ y \in Nat /\ <<y, x>> \notin Before
        BY <2>2
      <3>2. ~(y < x)
        BY <3>1
      <3> QED BY <3>1, <3>2
    <2> QED BY <2>3
  <1> QED
    BY <1>1 DEF Min

LEMMA ShortestIs == Shortest \in Intervals /\ Shortest \in Nat /\ \A i \in Intervals : i \in Nat /\ Shortest <= i
  BY MinIsLeast, LimiterAssumption DEF Shortest

LEMMA MinOfTwo == \A a, b \in Nat : Min({a, b}) = IF a <= b THEN a ELSE b
  <1> TAKE a, b \in Nat
  <1>1. {a, b} \in SUBSET Nat /\ {a, b} # {}
    OBVIOUS
  <1>2. Min({a, b}) \in {a, b} /\ \A x \in {a, b} : Min({a, b}) <= x
    BY <1>1, MinIsLeast
  <1> QED
    BY <1>2

(* Throttling makes intervals longer, never shorter.                       *)
LEMMA ThrottledIsLonger ==
  ASSUME NEW i \in Nat, NEW k \in 2..20
  PROVE  (i * 20) \div k \in Nat /\ (i * 20) \div k >= i
  <1>1. CASE k \in 2..8
    BY <1>1, SMTT(30)
  <1>2. CASE k \in 9..14
    BY <1>2, SMTT(30)
  <1>3. CASE k \in 15..20
    BY <1>3, SMTT(30)
  <1> QED
    BY <1>1, <1>2, <1>3

LEMMA ChargedIsLong ==
  ASSUME LimiterTyped, NEW fifths \in 4..6
  PROVE  Charged(fifths) \in Nat /\ Charged(fifths) >= Floor
  <1> DEFINE throttledTo == IF throttled > 0 THEN (interval * 20) \div factor ELSE interval
  <1>1. interval \in Nat /\ Shortest \in Nat /\ Shortest <= interval /\ MaxInterval \in Nat /\ Shortest <= MaxInterval
    BY ShortestIs, LimiterAssumption DEF LimiterTyped
  <1>2. throttledTo \in Nat /\ throttledTo >= Shortest
    BY <1>1, ThrottledIsLonger DEF LimiterTyped
  <1> HIDE DEF throttledTo
  <1>3. Min({throttledTo, MaxInterval}) \in Nat /\ Min({throttledTo, MaxInterval}) >= Shortest
    BY <1>1, <1>2, MinOfTwo
  <1>4. PICK m \in Nat : m = Min({throttledTo, MaxInterval})
    BY <1>3
  <1>5. Charged(fifths) = (m * fifths) \div 5
    BY <1>4 DEF Charged, throttledTo
  <1>6. m >= Shortest
    BY <1>3, <1>4
  <1>7. (m * fifths) \div 5 \in Nat /\ (m * fifths) \div 5 >= (Shortest * 4) \div 5
    <2>1. fifths = 4 \/ fifths = 5 \/ fifths = 6
      OBVIOUS
    <2> QED
      BY <1>1, <1>6, <2>1, SMTT(30)
  <1> QED
    BY <1>5, <1>7 DEF Floor

LEMMA MaxOfTwo == \A a, b \in Nat : Max({a, b}) = IF a >= b THEN a ELSE b
  <1> TAKE a, b \in Nat
  <1>1. \E x \in {a, b} : \A y \in {a, b} : x >= y
    OBVIOUS
  <1>2. Max({a, b}) \in {a, b} /\ \A y \in {a, b} : Max({a, b}) >= y
    BY <1>1 DEF Max
  <1> QED
    BY <1>2

LEMMA FloorIs == Floor \in Nat /\ Floor <= Shortest
  BY ShortestIs, SMTT(30) DEF Floor

LEMMA LimiterInit == LInit => LimiterInv
  <1> SUFFICES ASSUME LInit PROVE LimiterInv
    OBVIOUS
  <1>1. since = Shortest /\ gap = Shortest
    BY DEF LInit, Shortest
  <1> QED
    BY <1>1, ShortestIs, FloorIs
       DEF LInit, LimiterInv, LimiterTyped, WaitsEnough, ChargesEnough, RateKept, Floor, Shortest

(* A token taken when nothing is left to wait for comes late enough, and   *)
(* charging an interval makes the next one wait.                           *)
LEMMA TokenKeeps ==
  ASSUME LimiterInv, ready = 0, NEW charge \in Nat, charge >= Floor, Token(charge),
         UNCHANGED <<interval, throttled, factor>>
  PROVE  LimiterInv'
  <1>1. ready' = charge /\ sleeper' = 0 /\ since' = 0 /\ gap' = since
    BY DEF Token
  <1>2. since >= Floor
    BY FloorIs DEF LimiterInv, LimiterTyped, WaitsEnough
  <1>3. LimiterTyped'
    BY <1>1 DEF LimiterInv, LimiterTyped
  <1>4. WaitsEnough' /\ ChargesEnough'
    BY <1>1, FloorIs DEF WaitsEnough, ChargesEnough, Floor, Shortest
  <1>5. RateKept'
    BY <1>1, <1>2 DEF RateKept, Floor, Shortest
  <1> QED
    BY <1>3, <1>4, <1>5 DEF LimiterInv

LEMMA LimiterStep == LimiterInv /\ [LNext]_lvars => LimiterInv'
  <1> SUFFICES ASSUME LimiterInv, [LNext]_lvars PROVE LimiterInv'
    OBVIOUS
  <1> USE FloorIs DEF LimiterInv
  <1>1. CASE EnterBucket
    <2>1. PICK fifths \in 4..6 :
            IF ready = 0 THEN Token(Charged(fifths))
            ELSE sleeper' = Charged(fifths) /\ UNCHANGED <<ready, since, gap>>
      BY <1>1 DEF EnterBucket
    <2>2. Charged(fifths) \in Nat /\ Charged(fifths) >= Floor
      BY ChargedIsLong
    <2>3. UNCHANGED <<interval, throttled, factor>>
      BY <1>1 DEF EnterBucket
    <2>4. CASE ready = 0
      BY <2>1, <2>2, <2>3, <2>4, TokenKeeps
    <2>5. CASE ready # 0
      BY <2>1, <2>2, <2>3, <2>5
         DEF LimiterTyped, WaitsEnough, ChargesEnough, RateKept, Floor, Shortest
    <2> QED
      BY <2>4, <2>5
  <1>2. CASE WakeUp
    BY <1>2, TokenKeeps DEF WakeUp, LimiterTyped, ChargesEnough
  <1>3. CASE WaitCancelled
    BY <1>3 DEF WaitCancelled, LimiterTyped, WaitsEnough, ChargesEnough, RateKept, Floor, Shortest
  <1>4. CASE On429
    <2>1. factor \div 2 \in 1..10
      BY SMTT(30) DEF LimiterTyped
    <2>2. factor' \in 2..20
      BY <1>4, <2>1, MaxOfTwo DEF On429
    <2> QED
      BY <1>4, <2>2, LimiterAssumption
         DEF On429, LimiterTyped, WaitsEnough, ChargesEnough, RateKept, Floor, Shortest
  <1>5. CASE OnSuccess
    <2>1. (factor * 3) \div 2 \in Nat /\ (factor * 3) \div 2 >= 2
      BY SMTT(30) DEF LimiterTyped
    <2>2. factor' \in 2..20
      BY <1>5, <2>1, MinOfTwo DEF OnSuccess
    <2> QED
      BY <1>5, <2>2
         DEF OnSuccess, LimiterTyped, WaitsEnough, ChargesEnough, RateKept, Floor, Shortest
  <1>6. CASE SetRps
    BY <1>6 DEF SetRps, LimiterTyped, WaitsEnough, ChargesEnough, RateKept, Floor, Shortest
  <1>7. CASE Elapse
    <2>1. since' = IF since + 1 <= Shortest THEN since + 1 ELSE Shortest
      BY <1>7, MinOfTwo, ShortestIs DEF Elapse, Shortest, LimiterTyped
    <2>2. ready' = Less(ready) /\ throttled' = Less(throttled) /\ UNCHANGED <<interval, factor, sleeper, gap>>
      BY <1>7 DEF Elapse
    <2>3. LimiterTyped'
      BY <2>1, <2>2, ShortestIs DEF LimiterTyped, Less
    <2>4. WaitsEnough'
      <3>1. since' >= Floor \/ ready' + since' >= Floor
        BY <2>1, <2>2, ShortestIs DEF WaitsEnough, LimiterTyped, Less
      <3> QED BY <3>1 DEF WaitsEnough, Floor, Shortest
    <2> QED
      BY <2>2, <2>3, <2>4 DEF ChargesEnough, RateKept, Floor, Shortest
  <1>8. CASE UNCHANGED lvars
    BY <1>8 DEF lvars, LimiterTyped, WaitsEnough, ChargesEnough, RateKept, Floor, Shortest
  <1> QED
    BY <1>1, <1>2, <1>3, <1>4, <1>5, <1>6, <1>7, <1>8 DEF LNext

\* Whatever waits, is cancelled, is throttled or has its rate changed, two
\* tokens of a domain are never closer than its fastest job allows.
THEOREM TokensKeepTheirDistance == LSpec => []RateKept
  <1>1. LimiterInv => RateKept
    BY DEF LimiterInv
  <1> QED
    BY LimiterInit, LimiterStep, <1>1, PTL DEF LSpec

-----------------------------------------------------------------------------
(***** The rotation of the frontier *****)

Order == frontier.order
Queue(h) == frontier.queues[h]
Ready(h) == HeadReady(frontier, h)

RotationTyped ==
  /\ frontier.queues \in [Hosts -> Seq(Request)]
  /\ Order \in Seq(Hosts)
  /\ overtaken \in [Hosts -> Nat]

(* A host is in the rotation once, and only while it has requests.         *)
OnceEach == \A i, j \in DOMAIN Order : Order[i] = Order[j] => i = j
Rotating == \A h \in Hosts : Queue(h) # <<>> <=> \E i \in DOMAIN Order : Order[i] = h

(* Only a host that could go is overtaken, and the nearer its turn the     *)
(* oftener it may have been: each pop brings it one place forward or more. *)
NotWaiting == \A h \in Hosts : ~Ready(h) => overtaken[h] = 0
InTurn ==
  \A i \in DOMAIN Order : Ready(Order[i]) => overtaken[Order[i]] + i <= Cardinality(Hosts)

RotationInv == RotationTyped /\ OnceEach /\ Rotating /\ NotWaiting /\ InTurn

(* A sequence that names no host twice is no longer than the hosts are many. *)
LEMMA OrderIsShort ==
  ASSUME NEW o \in Seq(Hosts), \A i, j \in DOMAIN o : o[i] = o[j] => i = j
  PROVE  Len(o) <= Cardinality(Hosts)
  <1>1. o \in [1..Len(o) -> Hosts] /\ Len(o) \in Nat
    OBVIOUS
  <1>2. o \in Injection(1..Len(o), Hosts)
    BY <1>1 DEF Injection, IsInjective
  <1>3. Cardinality(1..Len(o)) <= Cardinality(Hosts)
    BY <1>2, FS_Injection, FairnessAssumption
  <1>4. \A n \in Nat : Cardinality(1..n) = n
    <2> TAKE n \in Nat
    <2>1. Cardinality(1..n) = IF 1 > n THEN 0 ELSE n - 1 + 1
      BY FS_Interval
    <2> QED BY <2>1
  <1> QED
    BY <1>3, <1>4

(* Where the host at a place of the new rotation was before the pop at k.  *)
From(n, k, j) == IF j <= n - k THEN j + k ELSE j - (n - k)

LEMMA RotatedIs ==
  ASSUME NEW f, f.order \in Seq(Hosts), NEW k \in DOMAIN f.order
  PROVE  LET n == Len(f.order)
             m == IF Len(f.queues[f.order[k]]) = 1 THEN n - 1 ELSE n
         IN /\ Rotated(f, k) \in Seq(Hosts) /\ Len(Rotated(f, k)) = m
            /\ \A j \in 1..m : Rotated(f, k)[j] = f.order[From(n, k, j)]
  <1> DEFINE o == f.order
             n == Len(o)
             back == SubSeq(o, k + 1, n)
             front == SubSeq(o, 1, k - 1)
             after == back \o front
  <1>1. n \in Nat /\ k \in 1..n /\ o \in Seq(Hosts)
    OBVIOUS
  <1>2. back \in Seq(Hosts) /\ Len(back) = n - k /\ \A j \in 1..(n - k) : back[j] = o[k + j]
    BY <1>1
  <1>3. front \in Seq(Hosts) /\ Len(front) = k - 1 /\ \A j \in 1..(k - 1) : front[j] = o[j]
    BY <1>1
  <1>4. after \in Seq(Hosts) /\ Len(after) = n - 1
        /\ \A j \in 1..(n - 1) : after[j] = o[From(n, k, j)]
    <2> HIDE DEF back, front, n, o
    <2>1. PICK b \in Seq(Hosts), t \in Seq(Hosts) : b = back /\ t = front
      BY <1>2, <1>3
    <2>2. PICK N \in Nat : N = n
      BY <1>1
    <2>3. Len(b) = N - k /\ Len(t) = k - 1 /\ k \in 1..N
      BY <1>1, <1>2, <1>3, <2>1, <2>2
    <2>4. /\ b \o t \in Seq(Hosts) /\ Len(b \o t) = N - 1
          /\ \A j \in 1..(N - 1) : (b \o t)[j] = IF j <= N - k THEN b[j] ELSE t[j - (N - k)]
      <3>1. b \o t \in Seq(Hosts) /\ Len(b \o t) = Len(b) + Len(t)
        OBVIOUS
      <3>2. \A j \in 1..(Len(b) + Len(t)) :
              (b \o t)[j] = IF j <= Len(b) THEN b[j] ELSE t[j - Len(b)]
        OBVIOUS
      <3>3. Len(b) + Len(t) = N - 1
        BY <2>3
      <3> QED
        BY <2>3, <3>1, <3>2, <3>3
    <2>5. \A j \in 1..(N - k) : b[j] = o[k + j]
      BY <1>2, <2>1, <2>2
    <2>6. \A j \in 1..(k - 1) : t[j] = o[j]
      BY <1>3, <2>1
    <2>7. ASSUME NEW j \in 1..(N - 1) PROVE (b \o t)[j] = o[From(N, k, j)]
      <3>1. CASE j <= N - k
        <4>1. j \in 1..(N - k) /\ k + j = From(N, k, j)
          BY <2>3, <3>1 DEF From
        <4>2. (b \o t)[j] = b[j] /\ b[j] = o[k + j]
          BY <2>4, <2>5, <3>1, <4>1
        <4> QED
          BY <4>1, <4>2
      <3>2. CASE j > N - k
        <4>1. j - (N - k) \in 1..(k - 1) /\ j - (N - k) = From(N, k, j) /\ ~(j <= N - k)
          BY <2>3, <3>2 DEF From
        <4>2. (b \o t)[j] = t[j - (N - k)] /\ t[j - (N - k)] = o[j - (N - k)]
          BY <2>4, <2>6, <4>1
        <4> QED
          BY <4>1, <4>2
      <3> QED
        BY <2>3, <3>1, <3>2
    <2> QED
      BY <2>1, <2>2, <2>4, <2>7
  <1>5. Rotated(f, k) = IF Len(f.queues[o[k]]) = 1 THEN after ELSE Append(after, o[k])
    BY DEF Rotated
  <1> HIDE DEF after, back, front
  <1>6. o[k] \in Hosts /\ From(n, k, n) = k
    BY <1>1 DEF From
  <1> QED
    BY <1>1, <1>4, <1>5, <1>6

LEMMA RotationInit == RInit => RotationInv
  BY DEF RInit, EmptyFrontier, RotationInv, RotationTyped, OnceEach, Rotating, NotWaiting, InTurn,
         Order, Queue, Ready, HeadReady

LEMMA PushKeeps ==
  ASSUME RotationInv, NEW url \in Urls, NEW due \in BOOLEAN, DoPush(url, due)
  PROVE  RotationInv'
  <1> PICK r : r = [url |-> url, depth |-> 0, attempts |-> IF due THEN 0 ELSE 1, due |-> due]
    OBVIOUS
  <1> PICK h \in Hosts : h = Host[url]
    BY HostAssumption
  <1>1. r \in Request /\ r.url = url
    BY DEF Request
  <1>2. /\ frontier'.queues = [frontier.queues EXCEPT ![h] = Append(@, r)]
        /\ Order' = IF Queue(h) = <<>> THEN Append(Order, h) ELSE Order
        /\ overtaken' = overtaken
    BY <1>1 DEF DoPush, Push, Order, Queue
  <1>3. RotationTyped'
    BY <1>1, <1>2 DEF RotationInv, RotationTyped, Order
  <1>4. \A g \in Hosts : Queue(g)' = IF g = h THEN Append(Queue(h), r) ELSE Queue(g)
    BY <1>2 DEF RotationInv, RotationTyped, Queue
  <1>5. \A g \in Hosts : Queue(g) \in Seq(Request)
    BY DEF RotationInv, RotationTyped, Queue
  <1>6. Queue(h)' # <<>> /\ (Queue(h) # <<>> => Head(Queue(h)') = Head(Queue(h)))
    BY <1>1, <1>4, <1>5
  <1>7. \A g \in Hosts : g # h \/ Queue(h) # <<>> => (Ready(g)' <=> Ready(g))
    BY <1>4, <1>6 DEF Ready, HeadReady, Queue
  <1>8. Queue(h) = <<>> => ~Ready(h) /\ \A i \in DOMAIN Order : Order[i] # h
    BY DEF Ready, HeadReady, Queue, RotationInv, Rotating
  <1>9. Order \in Seq(Hosts)
    BY DEF RotationInv, RotationTyped
  <1>10. OnceEach'
    BY <1>2, <1>8, <1>9 DEF RotationInv, OnceEach
  <1>11. Rotating'
    <2>1. CASE Queue(h) = <<>>
      <3>1. Order' = Append(Order, h) /\ DOMAIN Order' = 1..(Len(Order) + 1) /\ DOMAIN Order = 1..Len(Order)
            /\ Order'[Len(Order) + 1] = h /\ \A i \in DOMAIN Order : Order'[i] = Order[i]
        BY <1>2, <1>9, <2>1
      <3>2. \A g \in Hosts : (\E i \in DOMAIN Order' : Order'[i] = g) <=> (g = h \/ \E i \in DOMAIN Order : Order[i] = g)
        BY <1>9, <3>1
      <3>3. \A g \in Hosts : (Queue(g)' # <<>>) <=> (g = h \/ Queue(g) # <<>>)
        BY <1>4, <1>6
      <3> QED BY <3>2, <3>3 DEF RotationInv, Rotating
    <2>2. CASE Queue(h) # <<>>
      <3>1. \A g \in Hosts : (Queue(g)' # <<>>) <=> (Queue(g) # <<>>)
        BY <1>4, <1>6, <2>2
      <3> QED BY <1>2, <2>2, <3>1 DEF RotationInv, Rotating
    <2> QED BY <2>1, <2>2
  <1>12. NotWaiting'
    BY <1>2, <1>7, <1>8 DEF RotationInv, NotWaiting
  <1>13. InTurn'
    <2> SUFFICES ASSUME NEW i \in DOMAIN Order', Ready(Order[i])'
                 PROVE  overtaken[Order'[i]] + i <= Cardinality(Hosts)
      BY <1>2 DEF InTurn
    <2>1. CASE i \in DOMAIN Order
      <3>1. Order'[i] = Order[i] /\ Order[i] \in Hosts
        BY <1>2, <1>9, <2>1
      <3>2. Order[i] # h \/ Queue(h) # <<>>
        BY <1>8, <2>1
      <3>3. Ready(Order[i])
        <4>1. PICK g \in Hosts : g = Order[i]
          BY <3>1
        <4>2. Ready(g)'
          BY <3>1, <4>1
        <4> QED BY <1>7, <3>2, <4>1, <4>2
      <3> QED BY <2>1, <3>1, <3>3 DEF RotationInv, InTurn
    <2>2. CASE i \notin DOMAIN Order
      <3>1. Queue(h) = <<>> /\ i = Len(Order') /\ Order'[i] = h
        BY <1>2, <1>9, <2>2
      <3>2. overtaken[h] = 0
        BY <1>8, <3>1 DEF RotationInv, NotWaiting
      <3>3. PICK o \in Seq(Hosts) : o = Order'
        BY <1>3 DEF RotationTyped
      <3>4. Len(o) <= Cardinality(Hosts)
        BY <1>10, <3>3, OrderIsShort DEF OnceEach
      <3> QED BY <1>9, <3>1, <3>2, <3>3, <3>4, FairnessAssumption, FS_CardinalityType
    <2> QED BY <2>1, <2>2
  <1> QED
    BY <1>3, <1>10, <1>11, <1>12, <1>13 DEF RotationInv

(* From is a permutation of 1..n that sends n to k.                        *)
Permutes(n, k) ==
  /\ \A j \in 1..n : From(n, k, j) \in 1..n /\ ((From(n, k, j) = k) <=> (j = n))
  /\ \A i, j \in 1..n : From(n, k, i) = From(n, k, j) => i = j
  /\ \A j \in 1..n : From(n, k, j) > k => j = From(n, k, j) - k
  /\ \A i \in 1..n : i # k => \E j \in 1..(n - 1) : From(n, k, j) = i

LEMMA FromIs == \A n \in Nat : \A k \in 1..n : Permutes(n, k)
  <1> TAKE n \in Nat
  <1> TAKE k \in 1..n
  <1>1. \A j \in 1..n : From(n, k, j) \in 1..n /\ ((From(n, k, j) = k) <=> (j = n))
    BY DEF From
  <1>2. \A i, j \in 1..n : From(n, k, i) = From(n, k, j) => i = j
    BY DEF From
  <1>3. \A j \in 1..n : From(n, k, j) > k => j = From(n, k, j) - k
    BY DEF From
  <1>4. ASSUME NEW i \in 1..n, i # k PROVE \E j \in 1..(n - 1) : From(n, k, j) = i
    <2>1. CASE i > k
      <3>1. i - k \in 1..(n - 1) /\ From(n, k, i - k) = i
        BY <2>1 DEF From
      <3> QED BY <3>1
    <2>2. CASE i < k
      <3>1. i + (n - k) \in 1..(n - 1) /\ From(n, k, i + (n - k)) = i
        BY <2>2 DEF From
      <3> QED BY <3>1
    <2> QED BY <1>4, <2>1, <2>2
  <1> QED
    BY <1>1, <1>2, <1>3, <1>4 DEF Permutes

LEMMA PopKeeps ==
  ASSUME RotationInv, DoPop
  PROVE  RotationInv'
  <1> PICK k \in NextHosts(frontier) :
        /\ frontier' = Popped(frontier, k)
        /\ overtaken' = [g \in Hosts |->
             IF g # frontier.order[k] /\ HeadReady(frontier, g) THEN overtaken[g] + 1 ELSE 0]
    BY DEF DoPop
  <1> PICK n \in Nat : n = Len(Order)
    BY DEF RotationInv, RotationTyped
  <1>0. Order \in Seq(Hosts) /\ DOMAIN Order = 1..n /\ k \in 1..n
    BY DEF RotationInv, RotationTyped, NextHosts, Order
  <1> PICK h \in Hosts : h = Order[k]
    BY <1>0
  <1> PICK m \in Nat : m = IF Len(Queue(h)) = 1 THEN n - 1 ELSE n
    <2>1. n - 1 \in Nat
      BY <1>0
    <2> QED
      BY <2>1, Zenon
  <1>from. Permutes(n, k)
    BY <1>0, FromIs
  <1>1. Ready(h) /\ \A i \in 1..(k - 1) : ~Ready(Order[i])
    BY DEF NextHosts, Ready, Order
  <1>2. \A g \in Hosts : Queue(g) \in Seq(Request)
    BY DEF RotationInv, RotationTyped, Queue
  <1>3. Queue(h) # <<>> /\ Tail(Queue(h)) \in Seq(Request) /\ ((Tail(Queue(h)) = <<>>) <=> (Len(Queue(h)) = 1))
    <2>1. PICK q \in Seq(Request) : q = Queue(h)
      BY <1>2
    <2>2. q # <<>>
      BY <1>1, <2>1 DEF Ready, HeadReady, Queue
    <2>3. Tail(q) \in Seq(Request) /\ Len(Tail(q)) = Len(q) - 1 /\ Len(q) \in Nat
      BY <2>2
    <2>4. PICK t \in Seq(Request) : t = Tail(q)
      BY <2>3
    <2>5. (t = <<>>) <=> (Len(t) = 0)
      OBVIOUS
    <2> QED BY <2>1, <2>2, <2>3, <2>4, <2>5
  <1>4. frontier'.queues = [frontier.queues EXCEPT ![h] = Tail(@)] /\ Order' = Rotated(frontier, k)
    BY DEF Popped, Order
  <1>5. \A g \in Hosts : Queue(g)' = IF g = h THEN Tail(Queue(h)) ELSE Queue(g)
    BY <1>4 DEF RotationInv, RotationTyped, Queue
  <1>6. /\ Order' \in Seq(Hosts) /\ Len(Order') = m /\ DOMAIN Order' = 1..m
        /\ \A j \in 1..m : Order'[j] = Order[From(n, k, j)]
    <2>1. LET N == Len(frontier.order)
              M == IF Len(frontier.queues[frontier.order[k]]) = 1 THEN N - 1 ELSE N
          IN /\ Rotated(frontier, k) \in Seq(Hosts) /\ Len(Rotated(frontier, k)) = M
             /\ \A j \in 1..M : Rotated(frontier, k)[j] = frontier.order[From(N, k, j)]
      BY <1>0, RotatedIs DEF Order
    <2>2. Order' \in Seq(Hosts) /\ Len(Order') = m /\ \A j \in 1..m : Order'[j] = Order[From(n, k, j)]
      BY <1>4, <2>1 DEF Order, Queue
    <2> QED BY <2>2
  <1>7. m <= n /\ \A j \in 1..m : j \in 1..n
    BY <1>0
  <1>8. RotationTyped'
    <2>1. frontier'.queues \in [Hosts -> Seq(Request)]
      BY <1>3, <1>4 DEF RotationInv, RotationTyped, Queue
    <2>2. overtaken' \in [Hosts -> Nat]
      BY DEF RotationInv, RotationTyped
    <2> QED BY <1>6, <2>1, <2>2 DEF RotationTyped
  <1>9. \A g \in Hosts : g # h => (Ready(g)' <=> Ready(g))
    BY <1>5 DEF Ready, HeadReady, Queue
  <1>10. \A g \in Hosts : overtaken'[g] = IF g # h /\ Ready(g) THEN overtaken[g] + 1 ELSE 0
    BY DEF Ready, Order
  <1>11. \A i, j \in 1..n : Order[i] = Order[j] => i = j
    BY <1>0 DEF RotationInv, OnceEach
  <1>12. \A g \in Hosts : (Queue(g) # <<>>) <=> (\E i \in 1..n : Order[i] = g)
    BY <1>0 DEF RotationInv, Rotating
  <1>13. OnceEach'
    <2>1. ASSUME NEW i \in 1..m, NEW j \in 1..m, Order'[i] = Order'[j] PROVE i = j
      <3>1. Order[From(n, k, i)] = Order[From(n, k, j)] /\ i \in 1..n /\ j \in 1..n
        BY <1>6, <1>7, <2>1
      <3>2. From(n, k, i) = From(n, k, j)
        BY <1>11, <1>from, <3>1 DEF Permutes
      <3> QED BY <1>from, <3>1, <3>2 DEF Permutes
    <2> QED BY <1>6, <2>1 DEF OnceEach
  <1>14. Rotating'
    <2>1. ASSUME NEW g \in Hosts, NEW j \in 1..m, g = Order[From(n, k, j)] PROVE Queue(g)' # <<>>
      <3>1. From(n, k, j) \in 1..n /\ ((From(n, k, j) = k) <=> (j = n))
        BY <1>0, <1>7, <1>from DEF Permutes
      <3>3. CASE g = h
        <4>1. From(n, k, j) = k
          BY <1>0, <1>11, <2>1, <3>1, <3>3
        <4>2. Len(Queue(h)) # 1
          BY <3>1, <4>1
        <4> QED BY <1>3, <1>5, <3>3, <4>2
      <3>4. CASE g # h
        BY <1>5, <1>12, <2>1, <3>1, <3>4
      <3> QED BY <3>3, <3>4
    <2>2. ASSUME NEW g \in Hosts, Queue(g)' # <<>> PROVE \E j \in 1..m : Order[From(n, k, j)] = g
      <3>1. CASE g = h
        <4>1. m = n /\ n \in 1..n
          BY <1>0, <1>3, <1>5, <2>2, <3>1
        <4>2. From(n, k, n) = k
          BY <1>0, <4>1, <1>from DEF Permutes
        <4> QED BY <3>1, <4>1, <4>2
      <3>2. CASE g # h
        <4>1. Queue(g) # <<>>
          BY <1>5, <2>2, <3>2
        <4>2. PICK i \in 1..n : Order[i] = g
          BY <1>12, <4>1
        <4>3. PICK j \in 1..(n - 1) : From(n, k, j) = i
          BY <1>0, <3>2, <4>2, <1>from DEF Permutes
        <4> QED BY <4>2, <4>3
      <3> QED BY <3>1, <3>2
    <2>3. \A j \in 1..m : From(n, k, j) \in 1..n
      BY <1>0, <1>7, <1>from DEF Permutes
    <2>4. \A g \in Hosts : (Queue(g)' # <<>>) <=> (\E j \in 1..m : Order'[j] = g)
      <3> TAKE g \in Hosts
      <3>1. ASSUME NEW j \in 1..m, Order'[j] = g PROVE Queue(g)' # <<>>
        <4>1. Order[From(n, k, j)] = g
          BY <1>6, <3>1
        <4> QED BY <2>1, <4>1
      <3>2. ASSUME Queue(g)' # <<>> PROVE \E j \in 1..m : Order'[j] = g
        BY <1>6, <2>2, <3>2
      <3> QED BY <3>1, <3>2
    <2> QED BY <1>6, <2>4 DEF Rotating
  <1>15. NotWaiting'
    BY <1>9, <1>10 DEF RotationInv, NotWaiting
  <1>16. InTurn'
    <2> SUFFICES ASSUME NEW j \in 1..m, NEW g \in Hosts, g = Order'[j], Ready(g)'
                 PROVE  overtaken'[g] + j <= Cardinality(Hosts)
      <3>1. \A j \in 1..m : Order'[j] \in Hosts
        BY <1>6
      <3> QED BY <1>6, <3>1 DEF InTurn
    <2>1. PICK i \in 1..n : i = From(n, k, j)
      BY <1>0, <1>7, <1>from DEF Permutes
    <2>2. g = Order[i]
      BY <1>6, <2>1
    <2>3. Ready(g)'
      OBVIOUS
    <2>4. n <= Cardinality(Hosts) /\ Cardinality(Hosts) \in Nat
      BY <1>0, <1>11, OrderIsShort, FairnessAssumption, FS_CardinalityType
    <2>5. CASE g = h
      <3>1. overtaken'[g] = 0
        BY <1>10, <2>5
      <3> QED BY <1>7, <2>1, <2>2, <2>4, <3>1
    <2>6. CASE g # h
      <3>1. Ready(g) /\ i # k
        BY <1>9, <2>2, <2>3, <2>6
      <3>2. i > k
        BY <1>0, <1>1, <2>2, <3>1
      <3>3. j = i - k
        BY <1>0, <1>7, <2>1, <3>2, <1>from DEF Permutes
      <3>4. overtaken'[g] = overtaken[g] + 1 /\ overtaken[g] \in Nat
        BY <1>10, <2>6, <3>1 DEF RotationInv, RotationTyped
      <3>5. overtaken[g] + i <= Cardinality(Hosts)
        BY <1>0, <2>2, <3>1 DEF RotationInv, InTurn
      <3>6. overtaken'[g] + j <= Cardinality(Hosts)
        BY <1>0, <2>4, <3>2, <3>3, <3>4, <3>5
      <3> QED BY <2>1, <2>2, <3>6
    <2> QED BY <2>5, <2>6
  <1> QED
    BY <1>8, <1>13, <1>14, <1>15, <1>16 DEF RotationInv

LEMMA BackoffKeeps ==
  ASSUME RotationInv, BackoffEnds
  PROVE  RotationInv'
  <1> PICK p \in Places(frontier) :
        ~RequestAt(frontier, p).due /\ frontier' = Elapsed(frontier, p) /\ UNCHANGED overtaken
    BY DEF BackoffEnds
  <1>0. PICK h \in Hosts : \E i \in DOMAIN Queue(h) : p = <<h, i>>
    BY DEF Places, Queue
  <1>1. PICK i \in DOMAIN Queue(h) : p = <<h, i>>
    BY <1>0
  <1>2. \A g \in Hosts : Queue(g) \in Seq(Request)
    BY DEF RotationInv, RotationTyped, Queue
  <1>3. PICK q \in Seq(Request) : q = [Queue(h) EXCEPT ![i].due = TRUE] /\ Len(q) = Len(Queue(h))
                                  /\ (i # 1 => q[1] = Queue(h)[1])
    <2>1. PICK r \in Request : r = Queue(h)[i]
      BY <1>1, <1>2
    <2>2. PICK c : c = [r EXCEPT !.due = TRUE]
      OBVIOUS
    <2>3. c \in Request
      BY <2>2 DEF Request
    <2>4. [Queue(h) EXCEPT ![i].due = TRUE] = [Queue(h) EXCEPT ![i] = c]
      BY <2>1, <2>2
    <2>5. PICK s \in Seq(Request) : s = Queue(h)
      BY <1>2
    <2>6. i \in 1..Len(s)
      BY <1>1, <2>5
    <2>7. [s EXCEPT ![i] = c] \in Seq(Request) /\ Len([s EXCEPT ![i] = c]) = Len(s)
          /\ (i # 1 => [s EXCEPT ![i] = c][1] = s[1])
      BY <2>3, <2>6
    <2> QED BY <2>4, <2>5, <2>7
  <1>4. frontier'.queues = [frontier.queues EXCEPT ![h] = q] /\ Order' = Order /\ overtaken' = overtaken
    BY <1>1, <1>3 DEF Elapsed, Queue, Order
  <1>5. \A g \in Hosts : Queue(g)' = IF g = h THEN q ELSE Queue(g)
    BY <1>4 DEF RotationInv, RotationTyped, Queue
  <1>6. Len(q) \in Nat /\ i \in 1..Len(q) /\ Queue(h) # <<>> /\ q # <<>>
    BY <1>1, <1>2, <1>3
  <1>7. \A g \in Hosts : (Queue(g)' # <<>>) <=> (Queue(g) # <<>>)
    BY <1>5, <1>6
  <1>8. ASSUME NEW g \in Hosts PROVE Ready(g) => Ready(g)'
    <2>1. CASE g # h
      BY <1>5, <2>1 DEF Ready, HeadReady, Queue
    <2>2. CASE g = h
      <3>1. RequestAt(frontier, p) = Queue(h)[i]
        BY <1>1 DEF RequestAt, Queue
      <3>2. Ready(h) => i # 1
        BY <1>2, <1>6, <3>1 DEF Ready, HeadReady, Queue
      <3>3. i # 1 => Head(q) = Head(Queue(h))
        BY <1>2, <1>3, <1>6
      <3>4. Ready(h) => Head(Queue(h)).due
        BY DEF Ready, HeadReady, Queue
      <3>5. Queue(h)' = q
        BY <1>5
      <3> QED BY <1>6, <2>2, <3>2, <3>3, <3>4, <3>5 DEF Ready, HeadReady, Queue
    <2> QED BY <2>1, <2>2
  <1>9. RotationTyped'
    BY <1>4 DEF RotationInv, RotationTyped
  <1>10. OnceEach' /\ Rotating'
    BY <1>4, <1>7 DEF RotationInv, OnceEach, Rotating
  <1>11. NotWaiting'
    BY <1>4, <1>8 DEF RotationInv, NotWaiting
  <1>12. InTurn'
    <2> SUFFICES ASSUME NEW j \in DOMAIN Order, Ready(Order[j])'
                 PROVE  overtaken[Order[j]] + j <= Cardinality(Hosts)
      BY <1>4 DEF InTurn
    <2>1. PICK o \in Seq(Hosts) : o = Order
      BY DEF RotationInv, RotationTyped
    <2>2. PICK g \in Hosts : g = Order[j]
      BY <2>1
    <2>3. CASE Ready(g)
      BY <2>2, <2>3 DEF RotationInv, InTurn
    <2>4. CASE ~Ready(g)
      <3>1. overtaken[g] = 0
        BY <2>4 DEF RotationInv, NotWaiting
      <3>2. Len(o) <= Cardinality(Hosts) /\ Cardinality(Hosts) \in Nat
        BY <2>1, OrderIsShort, FairnessAssumption, FS_CardinalityType DEF RotationInv, OnceEach
      <3> QED BY <2>1, <2>2, <3>1, <3>2
    <2> QED BY <2>3, <2>4
  <1> QED
    BY <1>9, <1>10, <1>11, <1>12 DEF RotationInv

LEMMA RotationInvariant == RSpec => []RotationInv
  <1>1. ASSUME RotationInv, [RNext]_rotation PROVE RotationInv'
    <2>1. CASE \E url \in Urls, due \in BOOLEAN : DoPush(url, due)
      BY <1>1, <2>1, PushKeeps
    <2>2. CASE DoPop
      BY <1>1, <2>2, PopKeeps
    <2>3. CASE BackoffEnds
      BY <1>1, <2>3, BackoffKeeps
    <2>4. CASE UNCHANGED rotation
      BY <1>1, <2>4 DEF rotation, RotationInv, RotationTyped, OnceEach, Rotating, NotWaiting, InTurn,
         Order, Queue, Ready, HeadReady
    <2> QED
      BY <1>1, <2>1, <2>2, <2>3, <2>4 DEF RNext
  <1> QED
    BY RotationInit, <1>1, PTL DEF RSpec

\* While the head of a host is ready, the host waits for at most one pop of
\* each other host, whatever is pushed and popped meanwhile.
THEOREM NoHostStarves == RSpec => []BoundedOvertaking
  <1>1. RotationInv => BoundedOvertaking
    <2> SUFFICES ASSUME RotationInv, NEW h \in Hosts
                 PROVE  overtaken[h] <= Cardinality(Hosts) - 1
      BY DEF BoundedOvertaking
    <2>1. Cardinality(Hosts) \in Nat \ {0}
      BY FairnessAssumption, FS_CardinalityType, FS_EmptySet
    <2>2. CASE ~Ready(h)
      BY <2>1, <2>2 DEF RotationInv, NotWaiting
    <2>3. CASE Ready(h)
      <3>1. PICK i \in DOMAIN Order : Order[i] = h
        BY <2>3 DEF RotationInv, Rotating, Ready, HeadReady, Queue
      <3>2. i \in Nat \ {0} /\ overtaken[h] \in Nat
        BY <3>1 DEF RotationInv, RotationTyped
      <3>3. overtaken[h] + i <= Cardinality(Hosts)
        BY <2>3, <3>1 DEF RotationInv, InTurn
      <3> QED BY <2>1, <3>2, <3>3
    <2> QED BY <2>2, <2>3
  <1> QED
    BY <1>1, RotationInvariant, PTL

=============================================================================
