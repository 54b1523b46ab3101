-------------------------- MODULE AttemptLoopProofs --------------------------
(***************************************************************************)
(* What a page task keeps, for every pool, request, budget and outcome.    *)
(***************************************************************************)
EXTENDS AttemptLoop, TLAPS

\* An exit is asked for only when an attempt is left for it.
AttemptLeft == pc = "recover" => attempt < MaxAttempts

TypeInv == TypeOK /\ AttemptLeft

LEMMA MaxAttemptsNat == ASSUME TypeOK PROVE MaxAttempts \in Nat \ {0}
  BY AttemptAssumption DEF TypeOK, MaxAttempts, Request

LEMMA TypeInit == Init => TypeInv
  <1> SUFFICES ASSUME Init PROVE TypeInv
    OBVIOUS
  <1>1. SessionTypeOK
    BY ProxyAssumption DEF Init, SessionTypeOK, Exit, NoLease
  <1>2. MaxAttempts \in Nat \ {0}
    BY AttemptAssumption DEF Init, MaxAttempts, Request
  <1>3. left \in Int /\ unbudgeted \in Nat
    BY AttemptAssumption DEF Init
  <1>4. data \in BOOLEAN
    BY DEF Init
  <1>5. /\ seen \in Seq(Outcome) /\ used \in Seq(Exit)
        /\ Len(seen) = 0 /\ Len(used) = 0
    BY DEF Init
  <1>6. attempt \in 1 .. MaxAttempts /\ retries_used \in 0 .. attempt /\ reported = 0
    BY <1>2 DEF Init
  <1> QED
    BY <1>1, <1>3, <1>4, <1>5, <1>6 DEF Init, TypeInv, TypeOK, AttemptLeft

\* What the session may do to its own state in one step of the task.
LEMMA SessionStep ==
  ASSUME SessionTypeOK,
         Acquire \/ Recovered \/ NotRecovered \/ UNCHANGED sessionVars
  PROVE  SessionTypeOK' /\ kind' = kind /\ pinned' = pinned
  <1>1. ASSUME NEW src \in Pool \cup {NoProxy}, Mint(src)
        PROVE  lease' \in Exit /\ minted' \in Nat
    BY <1>1 DEF Mint, Exit, SessionTypeOK
  <1>2. \A listed \in SUBSET Pool, E \in SUBSET Pool :
           Candidates(listed, pinned, E) \subseteq Pool
    BY DEF Candidates
  <1>3. Given \in SUBSET Pool
    BY DEF Given, SessionTypeOK
  <1>4. CASE Acquire
    BY <1>1, <1>2, <1>4 DEF Acquire, SessionTypeOK
  <1>5. CASE Recovered
    <2>1. ChangeIp \/ RotateNext \/ Reconnect => lease' \in Exit /\ minted' \in Nat
      BY <1>1, <1>2, <1>3, ProxyAssumption
      DEF ChangeIp, RotateNext, Reconnect, CanChangeIp
    <2> QED
      BY <1>3, <1>5, <2>1 DEF Recovered, SessionTypeOK
  <1>6. CASE NotRecovered
    BY <1>3, <1>6 DEF NotRecovered, SessionTypeOK
  <1>7. CASE UNCHANGED sessionVars
    BY <1>7 DEF sessionVars, SessionTypeOK
  <1> QED
    BY <1>4, <1>5, <1>6, <1>7

\* Every step keeps the request, and moves the session as a session moves.
LEMMA Steady ==
  ASSUME [Next]_vars
  PROVE  req' = req /\ (Acquire \/ Recovered \/ NotRecovered \/ UNCHANGED sessionVars)
  BY DEF Next, vars, loopVars, OpenSession, OpenSessionFails, NotStarted, Fetch,
         FetchRaises, Stop, Rotate, OnFailure, Parse, SkipParse, Pack, CeilingFires

LEMMA PhasesFit ==
  ASSUME NEW P \in {1, 2, 3}, NEW T \in Int
  PROVE  T \div P \in Int /\ P * (T \div P) <= T
  <1>1. CASE P = 1
    BY <1>1
  <1>2. CASE P = 2
    BY <1>2
  <1>3. CASE P = 3
    BY <1>3
  <1> QED
    BY <1>1, <1>2, <1>3

\* What the loop grants an await is within the time it has left.
LEMMA GrantFits ==
  ASSUME TypeInv
  PROVE  Granted \in Nat /\ (Granted = 0 \/ Granted <= left)
  <1>1. /\ req.timeout \in Nat \ {0} /\ req.selector \in BOOLEAN
        /\ req.warmup \in BOOLEAN /\ left \in Int
    BY AttemptAssumption DEF TypeInv, TypeOK, Request
  <1>2. Phases \in {1, 2, 3} /\ DwellTime \in Nat
    BY <1>1, AttemptAssumption DEF Phases, DwellTime
  <1>3. CASE pc = "attempt" /\ CanAfford(left)
    <2>1. /\ Affordable(left) \in Int
          /\ Phases * Affordable(left) <= left - DwellTime
      BY <1>1, <1>2, PhasesFit DEF Affordable
    <2>2. /\ Promise(left) \in Nat \ {0} /\ Promise(left) <= Affordable(left)
      BY <1>1, <1>3, <2>1, AttemptAssumption DEF Promise, CanAfford
    <2>3. /\ Phases * Promise(left) \in Nat
          /\ Phases * Promise(left) <= Phases * Affordable(left)
          /\ Phases * Affordable(left) \in Int
      BY <1>2, <2>1, <2>2
    <2>4. Granted = Phases * Promise(left) + DwellTime
      BY <1>3 DEF Granted
    <2> QED
      BY <1>1, <1>2, <2>1, <2>3, <2>4
  <1>4. CASE ~(pc = "attempt" /\ CanAfford(left))
    <2>1. Granted = 0 \/ (Granted = left /\ left > 0)
      <3>1. CASE pc \in {"parse", "pack"} /\ left > 0
        BY <1>4, <3>1 DEF Granted
      <3>2. CASE ~(pc \in {"parse", "pack"} /\ left > 0)
        BY <1>4, <3>2 DEF Granted
      <3> QED
        BY <3>1, <3>2
    <2> QED
      BY <1>1, <2>1
  <1> QED
    BY <1>3, <1>4

\* What an await does to the clock: the time left falls by no more than what is
\* granted and what is booked as unbudgeted.
LEMMA SpendFacts ==
  ASSUME TypeInv, NEW d \in 0 .. Granted, NEW e \in Excess, Spend(d, e)
  PROVE  /\ left' \in Int /\ unbudgeted' \in Nat
         /\ left + unbudgeted >= 0 => left' + unbudgeted' >= 0
         /\ d > 0 => left' < left
         /\ left' <= left
  <1>1. left \in Int /\ unbudgeted \in Nat
    BY DEF TypeInv, TypeOK
  <1>2. e \in Nat
    BY AttemptAssumption DEF Excess
  <1>3. d \in Nat /\ (d = 0 \/ d <= left)
    BY <1>1, GrantFits
  <1> QED
    BY <1>1, <1>2, <1>3 DEF Spend

\* Every step either leaves the clock alone or is an await.
LEMMA ClockStep ==
  ASSUME [Next]_vars
  PROVE  \/ UNCHANGED clock
         \/ \E d \in 0 .. Granted, e \in Excess : Spend(d, e)
  <1>1. CASE OpenSession \/ OnFailure \/ Parse \/ CeilingFires
             \/ \E o \in Outcome : Fetch(o)
    <2>1. CASE OpenSession \/ OnFailure
      <3>1. \E e \in Excess : Spend(0, e)
        BY <2>1 DEF OpenSession, OnFailure, Returns
      <3>2. Granted = 0
        BY <2>1 DEF OpenSession, OnFailure, Running, Granted
      <3> QED
        BY <3>1, <3>2
    <2>2. CASE Parse
      <3>1. PICK d \in 1 .. Granted : \E e \in Excess : Spend(d, e)
        BY <2>2 DEF Parse, Returns
      <3>2. d \in 0 .. Granted
        BY <3>1
      <3> QED
        BY <3>1, <3>2
    <2>3. CASE CeilingFires \/ \E o \in Outcome : Fetch(o)
      BY <2>3 DEF CeilingFires, Fetch, Returns
    <2> QED
      BY <1>1, <2>1, <2>2, <2>3
  <1>2. CASE OpenSessionFails \/ NotStarted \/ FetchRaises \/ Stop \/ Rotate
             \/ SkipParse \/ Pack \/ UNCHANGED vars
    BY <1>2 DEF OpenSessionFails, NotStarted, FetchRaises, Stop, Rotate, SkipParse,
                Pack, vars, loopVars, clock
  <1> QED
    BY <1>1, <1>2 DEF Next

LEMMA ClockTyped ==
  ASSUME TypeInv, [Next]_vars
  PROVE  /\ left' \in Int /\ unbudgeted' \in Nat
         /\ left + unbudgeted >= 0 => left' + unbudgeted' >= 0
         /\ left' <= left
  <1>1. CASE UNCHANGED clock
    BY <1>1 DEF clock, TypeInv, TypeOK
  <1>2. CASE \E d \in 0 .. Granted, e \in Excess : Spend(d, e)
    BY <1>2, SpendFacts
  <1> QED
    BY <1>1, <1>2, ClockStep

LEMMA TypeStep ==
  ASSUME TypeInv, [Next]_vars
  PROVE  TypeInv'
  <1> USE DEF TypeInv
  <1>1. /\ SessionTypeOK' /\ req' \in Requests
        /\ MaxAttempts' = MaxAttempts /\ MaxAttempts \in Nat \ {0}
    BY SessionStep, Steady, MaxAttemptsNat DEF TypeOK, MaxAttempts
  <1> DEFINE Loop ==
        /\ left \in Int /\ unbudgeted \in Nat
        /\ pc \in {"open", "attempt", "decide", "recover", "parse", "pack"}
        /\ attempt \in 1 .. MaxAttempts
        /\ seen \in Seq(Outcome)
        /\ used \in Seq(Exit)
        /\ Len(used) = Len(seen)
        /\ reported \in 0 .. Len(seen)
        /\ retries_used \in 0 .. attempt
        /\ data \in BOOLEAN
        /\ result \in {"none", "ok", "err", "cut"}
        /\ AttemptLeft
  <1>2. SUFFICES Loop'
    BY <1>1, <1>2 DEF TypeOK
  <1>3. Loop
    BY DEF TypeOK
  <1>4. left' \in Int /\ unbudgeted' \in Nat
    BY ClockTyped
  <1>6. CASE OpenSession
    BY <1>1, <1>3, <1>4, <1>6 DEF OpenSession, AttemptLeft
  <1>7. CASE OpenSessionFails \/ NotStarted \/ FetchRaises \/ Stop \/ SkipParse
             \/ Pack \/ CeilingFires \/ UNCHANGED vars
    BY <1>1, <1>3, <1>4, <1>7
    DEF OpenSessionFails, NotStarted, FetchRaises, Stop, SkipParse, Pack,
        CeilingFires, vars, loopVars, AttemptLeft
  <1>8. ASSUME NEW o \in Outcome, Fetch(o)
        PROVE  Loop'
    <2>1. /\ seen' \in Seq(Outcome) /\ Len(seen') = Len(seen) + 1
          /\ Len(seen) \in Nat
      BY <1>3, <1>8 DEF Fetch
    <2>2. /\ used' \in Seq(Exit) /\ Len(used') = Len(used) + 1
      BY <1>3, <1>8 DEF Fetch, TypeOK, SessionTypeOK
    <2>3. reported' \in 0 .. Len(seen')
      <3>1. reported' \in {reported, Len(seen')}
        BY <1>8 DEF Fetch, Report
      <3> QED
        BY <1>3, <2>1, <3>1
    <2> QED
      BY <1>1, <1>3, <1>8, <2>1, <2>2, <2>3, <1>4 DEF Fetch, AttemptLeft
  <1>9. CASE Rotate
    BY <1>1, <1>3, <1>4, <1>9 DEF Rotate, MayRotate, AttemptLeft
  <1>10. CASE OnFailure
    <2>1. /\ attempt' \in 1 .. MaxAttempts /\ retries_used' \in 0 .. attempt'
          /\ pc' \in {"attempt", "parse"}
      BY <1>1, <1>3, <1>10 DEF OnFailure, AttemptLeft, Running
    <2> QED
      BY <1>1, <1>3, <1>4, <1>10, <2>1 DEF OnFailure, AttemptLeft
  <1>11. CASE Parse
    <2>1. data' \in BOOLEAN /\ result' = result
      BY <1>11 DEF Parse
    <2>2. /\ pc' = "pack"
          /\ UNCHANGED <<attempt, seen, used, reported, retries_used>>
      BY <1>11 DEF Parse
    <2> QED
      BY <1>1, <1>3, <1>4, <2>1, <2>2 DEF AttemptLeft
  <1> QED
    BY <1>6, <1>7, <1>8, <1>9, <1>10, <1>11 DEF Next

(***************************************************************************)
(* The state stays in its types, whatever the pool, the requests and the   *)
(* budgets are.                                                            *)
(***************************************************************************)
THEOREM TypeCorrect == Spec => []TypeOK
  <1>1. TypeInv => TypeOK
    BY DEF TypeInv
  <1> QED
    BY <1>1, TypeInit, TypeStep, PTL DEF Spec

LEMMA AlwaysTyped == Spec => []TypeInv
  BY TypeInit, TypeStep, PTL DEF Spec

-----------------------------------------------------------------------------
(* The evidence.                                                           *)

\* A success ends the loop: only the last result can be one, and the loop has
\* stopped or is about to.
SuccessIsLast ==
    \A i \in 1 .. Len(seen) :
        Ok(seen[i]) => i = Len(seen) /\ pc \in {"decide", "parse", "pack"}

EvidenceInv == TypeInv /\ SuccessIsLast /\ EvidenceKept

LEMMA RankRange == \A o \in Outcome : EvidenceRank(o) \in {0, 1, 2}
  BY DEF EvidenceRank

\* Of two results the one reported ranks no lower, and a tie goes to the later.
LEMMA FetchEvidence ==
  ASSUME EvidenceInv, NEW o \in Outcome, Fetch(o), TypeInv'
  PROVE  (SuccessIsLast /\ EvidenceKept)'
  <1> USE DEF EvidenceInv
  <1>1. /\ seen \in Seq(Outcome) /\ Len(seen) \in Nat
        /\ reported \in 0 .. Len(seen) /\ pc = "attempt" /\ pc' = "decide"
        /\ seen' = Append(seen, o)
    BY DEF Fetch, Running, TypeInv, TypeOK
  <1>2. /\ Len(seen') = Len(seen) + 1
        /\ seen'[Len(seen')] = o
        /\ \A i \in 1 .. Len(seen) : seen'[i] = seen[i] /\ seen[i] \in Outcome
    BY <1>1
  <1>3. \A i \in 1 .. Len(seen) : ~Ok(seen[i])
    BY <1>1 DEF SuccessIsLast
  <1>4. \A i \in 1 .. Len(seen) : ~Ok(seen'[i])
    BY <1>2, <1>3
  <1>5. SuccessIsLast'
    BY <1>1, <1>2, <1>4 DEF SuccessIsLast
  <1>6. /\ reported = 0 <=> Len(seen) = 0
        /\ \A i \in 1 .. Len(seen) :
              /\ EvidenceRank(seen[i]) <= EvidenceRank(seen[reported])
              /\ i > reported => EvidenceRank(seen[i]) < EvidenceRank(seen[reported])
    <2>1. reported = 0 <=> Len(seen) = 0
      BY <1>1 DEF EvidenceKept
    <2>2. seen # <<>> => reported \in 1 .. Len(seen)
      BY <1>1 DEF EvidenceKept
    <2>3. ASSUME NEW i \in 1 .. Len(seen)
          PROVE  /\ EvidenceRank(seen[i]) <= EvidenceRank(seen[reported])
                 /\ i > reported => EvidenceRank(seen[i]) < EvidenceRank(seen[reported])
      <3>1. reported \in 1 .. Len(seen)
        BY <1>1, <2>1
      <3> QED
        BY <1>3, <3>1 DEF EvidenceKept
    <2> QED
      BY <2>1, <2>3
  <1>7. reported' = IF reported = 0 \/ Ok(o) \/ EvidenceRank(o) >= EvidenceRank(seen'[reported])
                    THEN Len(seen') ELSE reported
    BY <1>2 DEF Fetch, Report
  <1>8. /\ EvidenceRank(o) \in {0, 1, 2}
        /\ \A i \in 1 .. Len(seen) : EvidenceRank(seen[i]) \in {0, 1, 2}
    BY <1>2, RankRange
  <1>9. reported' \in 1 .. Len(seen')
    BY <1>1, <1>2, <1>7
  <1>10. Len(seen') # 0 /\ reported' # 0 /\ seen' # <<>>
    BY <1>1, <1>2, <1>9
  <1>11. ASSUME NEW i \in 1 .. Len(seen')
         PROVE  Ok(seen'[i]) => reported' = i
    BY <1>1, <1>2, <1>4, <1>7
  <1>12. ASSUME NEW i \in 1 .. Len(seen'), ~Ok(seen'[reported'])
         PROVE  /\ EvidenceRank(seen'[i]) <= EvidenceRank(seen'[reported'])
                /\ i > reported' =>
                     EvidenceRank(seen'[i]) < EvidenceRank(seen'[reported'])
    <2>1. CASE reported' = Len(seen')
      <3>1. CASE i = Len(seen')
        BY <1>1, <1>2, <1>8, <2>1, <3>1
      <3>2. CASE i # Len(seen')
        <4>1. i \in 1 .. Len(seen) /\ ~(i > reported')
          BY <1>1, <1>2, <1>12, <2>1, <3>2
        <4>2. reported \in 1 .. Len(seen)
          BY <1>1, <1>6, <4>1
        <4>3. ~Ok(o)
          BY <1>2, <1>12, <2>1
        <4>4. EvidenceRank(o) >= EvidenceRank(seen[reported])
          BY <1>1, <1>2, <1>7, <2>1, <4>2, <4>3
        <4> QED
          BY <1>2, <1>6, <1>8, <2>1, <4>1, <4>2, <4>4
      <3> QED
        BY <3>1, <3>2
    <2>2. CASE reported' # Len(seen')
      <3>1. /\ reported' = reported /\ reported \in 1 .. Len(seen)
            /\ EvidenceRank(o) < EvidenceRank(seen[reported])
        <4>1. reported \in 1 .. Len(seen)
          BY <1>1, <1>7, <2>2
        <4> QED
          BY <1>2, <1>7, <1>8, <2>2, <4>1
      <3>2. CASE i = Len(seen')
        BY <1>2, <1>8, <3>1, <3>2
      <3>3. CASE i # Len(seen')
        <4>1. i \in 1 .. Len(seen)
          BY <1>1, <1>2, <3>3
        <4> QED
          BY <1>2, <1>6, <3>1, <4>1
      <3> QED
        BY <3>2, <3>3
    <2> QED
      BY <2>1, <2>2
  <1> QED
    BY <1>5, <1>10, <1>11, <1>12 DEF EvidenceKept

LEMMA EvidenceStep ==
  ASSUME EvidenceInv, [Next]_vars
  PROVE  EvidenceInv'
  <1> USE DEF EvidenceInv
  <1>1. TypeInv'
    BY TypeStep
  <1>2. CASE \E o \in Outcome : Fetch(o)
    BY <1>1, <1>2, FetchEvidence
  <1>3. CASE ~ \E o \in Outcome : Fetch(o)
    <2>1. seen' = seen /\ reported' = reported
      BY <1>3 DEF Next, vars, loopVars, OpenSession, OpenSessionFails, NotStarted,
         FetchRaises, Stop, Rotate, OnFailure, Parse, SkipParse, Pack, CeilingFires
    <2>2. EvidenceKept'
      BY <2>1 DEF EvidenceKept, Ok, EvidenceRank, HasHtml, NotGenuine, Blocked,
                  RetryableStatus
    <2>3. \A i \in 1 .. Len(seen) :
             Ok(seen[i]) => i = Len(seen) /\ pc' \in {"decide", "parse", "pack"}
      <3>1. SUFFICES ASSUME NEW i \in 1 .. Len(seen), Ok(seen[i])
                     PROVE  pc' \in {"decide", "parse", "pack"}
        BY DEF SuccessIsLast
      <3>2. i = Len(seen) /\ pc \in {"decide", "parse", "pack"}
        BY <3>1 DEF SuccessIsLast
      <3>3. ~Rotate
        BY <3>1, <3>2 DEF Rotate, StopHere
      <3> QED
        BY <1>3, <3>2, <3>3
        DEF Next, vars, loopVars, OpenSession, OpenSessionFails, NotStarted,
            FetchRaises, Stop, OnFailure, Parse, SkipParse, Pack, CeilingFires,
            Running
    <2> QED
      BY <1>1, <2>1, <2>2, <2>3 DEF SuccessIsLast, Ok
  <1> QED
    BY <1>2, <1>3

(***************************************************************************)
(* The reported attempt is a success if there was one, and otherwise no    *)
(* other attempt explains more, nor as much and later.                     *)
(***************************************************************************)
THEOREM EvidenceIsKept == Spec => []EvidenceKept
  <1>1. Init => EvidenceInv
    <2> SUFFICES ASSUME Init PROVE EvidenceInv
      OBVIOUS
    <2>1. Len(seen) = 0 /\ seen = <<>> /\ reported = 0
      BY DEF Init
    <2> QED
      BY <2>1, TypeInit DEF EvidenceInv, SuccessIsLast, EvidenceKept
  <1>2. EvidenceInv => EvidenceKept
    BY DEF EvidenceInv
  <1> QED
    BY <1>1, <1>2, EvidenceStep, PTL DEF Spec

-----------------------------------------------------------------------------
(* The parser's gate.                                                      *)

\* What the gate lets through is exactly what the ranking calls a page.
LEMMA GateIsRank ==
  ASSUME NEW o \in Outcome
  PROVE  EvidenceRank(o) = 2 <=> HasHtml(o) /\ ~NotGenuine(o)
  BY DEF EvidenceRank

\* Data exists only of a page, and a page is parsed before the response is
\* packed unless the parser ran out of time.
Parsed ==
    /\ data => pc = "pack" /\ MayParse
    /\ pc = "pack" /\ MayParse /\ left > 0 => data
    /\ result = "ok" => pc = "pack"

LEMMA ParsedStep ==
  ASSUME TypeInv, Parsed, [Next]_vars
  PROVE  Parsed'
  <1>0. /\ req' = req /\ left \in Int /\ data \in BOOLEAN
    BY Steady DEF TypeInv, TypeOK
  <1>1. ASSUME UNCHANGED <<req, seen, reported>>
        PROVE  MayParse' = MayParse
    BY <1>1 DEF MayParse, HasHtml, NotGenuine, Blocked, RetryableStatus
  <1>2. CASE OpenSession \/ NotStarted \/ Stop \/ Rotate \/ OnFailure
             \/ (\E o \in Outcome : Fetch(o))
    <2>1. ~data /\ data' = data /\ result' = "none" /\ pc' # "pack"
      BY <1>2 DEF Parsed, OpenSession, NotStarted, Stop, Rotate, OnFailure, Fetch, Running
    <2> QED
      BY <2>1 DEF Parsed
  <1>3. CASE Parse
    <2>1. MayParse /\ MayParse' = MayParse /\ pc' = "pack" /\ result' = "none"
      BY <1>0, <1>1, <1>3 DEF Parse, Running
    <2>2. left' > 0 => data'
      BY <1>3 DEF Parse
    <2> QED
      BY <2>1, <2>2 DEF Parsed
  <1>4. CASE SkipParse
    <2>1. ~(MayParse /\ left > 0) /\ MayParse' = MayParse /\ pc' = "pack"
          /\ result' = "none" /\ ~data /\ data' = data /\ left' = left
      BY <1>0, <1>1, <1>4 DEF SkipParse, Running, Parsed, clock
    <2> QED
      BY <2>1 DEF Parsed
  <1>5. CASE OpenSessionFails \/ FetchRaises \/ Pack \/ CeilingFires \/ UNCHANGED vars
    <2>1. /\ UNCHANGED <<req, seen, reported, data, pc>>
          /\ result' = "ok" => pc = "pack"
      BY <1>5 DEF Parsed, OpenSessionFails, FetchRaises, Pack, CeilingFires, vars, loopVars, Running
    <2>2. MayParse' = MayParse
      BY <1>1, <2>1
    <2>3. left' > 0 => left > 0
      BY <1>0, ClockTyped
    <2> QED
      BY <2>1, <2>2, <2>3 DEF Parsed
  <1> QED
    BY <1>2, <1>3, <1>4, <1>5 DEF Next

(***************************************************************************)
(* A genuine page brought back by any attempt is parsed unless the time    *)
(* ran out, and nothing else is: whatever was fetched, in whatever order.  *)
(***************************************************************************)
THEOREM GenuinePagesAreParsed == Spec => []GenuinePageParsed
  <1>1. Init => EvidenceInv /\ Parsed
    <2> SUFFICES ASSUME Init PROVE EvidenceInv /\ Parsed
      OBVIOUS
    <2>1. Len(seen) = 0 /\ seen = <<>> /\ reported = 0
      BY DEF Init
    <2> QED
      BY <2>1, TypeInit DEF EvidenceInv, SuccessIsLast, EvidenceKept, Parsed, Init
  <1>2. EvidenceInv /\ Parsed => GenuinePageParsed
    <2> SUFFICES ASSUME EvidenceInv, Parsed PROVE GenuinePageParsed
      OBVIOUS
    <2>1. \A i \in 1 .. Len(seen) : seen[i] \in Outcome /\ EvidenceRank(seen[i]) \in {0, 1, 2}
      BY RankRange DEF EvidenceInv, TypeInv, TypeOK
    <2>2. reported \in 0 .. Len(seen) /\ Len(seen) \in Nat
      BY DEF EvidenceInv, TypeInv, TypeOK
    <2>3. data => EvidenceRank(seen[reported]) = 2
      <3> SUFFICES ASSUME data PROVE EvidenceRank(seen[reported]) = 2
        OBVIOUS
      <3>1. reported \in 1 .. Len(seen) /\ HasHtml(seen[reported]) /\ ~NotGenuine(seen[reported])
        BY <2>2 DEF Parsed, MayParse
      <3> QED
        BY <2>1, <3>1, GateIsRank
    <2>4. ASSUME result = "ok", req.parses, left > 0,
                 NEW i \in 1 .. Len(seen), EvidenceRank(seen[i]) = 2
          PROVE  data
      <3>1. reported \in 1 .. Len(seen)
        <4>1. seen # <<>>
          BY <2>2, <2>4 DEF EvidenceInv, TypeInv, TypeOK
        <4> QED
          BY <2>2, <4>1 DEF EvidenceInv, EvidenceKept
      <3>2. EvidenceRank(seen[reported]) = 2
        <4>1. CASE Ok(seen[reported])
          BY <4>1 DEF Ok, EvidenceRank, HasHtml, NotGenuine, Blocked, RetryableStatus
        <4>2. CASE ~Ok(seen[reported])
          <5>1. EvidenceRank(seen[i]) <= EvidenceRank(seen[reported])
            BY <4>2 DEF EvidenceInv, EvidenceKept
          <5> QED
            BY <2>1, <2>4, <3>1, <5>1
        <4> QED
          BY <4>1, <4>2
      <3>3. HasHtml(seen[reported]) /\ ~NotGenuine(seen[reported])
        BY <2>1, <3>1, <3>2, GateIsRank
      <3>4. MayParse
        BY <2>4, <3>1, <3>3 DEF MayParse
      <3> QED
        BY <2>4, <3>4 DEF Parsed
    <2> QED
      BY <2>3, <2>4 DEF GenuinePageParsed
  <1>3. EvidenceInv /\ Parsed /\ [Next]_vars => (EvidenceInv /\ Parsed)'
    BY EvidenceStep, ParsedStep DEF EvidenceInv
  <1> QED
    BY <1>1, <1>2, <1>3, PTL DEF Spec

-----------------------------------------------------------------------------
(* The budget.                                                             *)

\* The time that has gone by beyond the deadline is booked as unbudgeted.
Accounted == left + unbudgeted >= 0

BudgetInv == TypeInv /\ Accounted /\ BudgetKept

LEMMA BudgetStep ==
  ASSUME BudgetInv, [Next]_vars
  PROVE  BudgetInv'
  <1> USE DEF BudgetInv
  <1>1. TypeInv' /\ Accounted'
    BY TypeStep, ClockTyped DEF Accounted
  <1>2. CASE CeilingFires
    <2>1. left' <= -Slack
      <3>1. PICK d \in 0 .. Granted : \E e \in Excess : left - d - e <= -Slack /\ Spend(d, e)
        BY <1>2 DEF CeilingFires
      <3> QED
        BY <3>1 DEF Spend
    <2>2. left' \in Int /\ unbudgeted' \in Nat /\ Slack \in Nat
      BY ClockTyped, AttemptAssumption
    <2>3. left' + unbudgeted' >= 0
      BY <1>1 DEF Accounted
    <2>4. \A l \in Int, u, k \in Nat : l <= -k /\ l + u >= 0 => u >= k
      OBVIOUS
    <2>5. unbudgeted' >= Slack
      BY <2>1, <2>2, <2>3, <2>4
    <2> QED
      BY <1>1, <2>5 DEF BudgetKept
  <1>3. CASE ~CeilingFires
    <2>1. result' = "cut" => result = "cut" /\ UNCHANGED vars
      BY <1>3 DEF Next, vars, loopVars, OpenSession, OpenSessionFails, NotStarted,
         Fetch, FetchRaises, Stop, Rotate, OnFailure, Parse, SkipParse, Pack, Running
    <2>2. BudgetKept'
      <3>1. CASE result' = "cut"
        BY <2>1, <3>1 DEF BudgetKept, vars, loopVars
      <3>2. CASE result' # "cut"
        BY <3>2 DEF BudgetKept
      <3> QED
        BY <3>1, <3>2
    <2> QED
      BY <1>1, <2>2
  <1> QED
    BY <1>2, <1>3

(***************************************************************************)
(* What the loop grants an attempt, its phases and its dwell, and what it  *)
(* leaves the parser, never spends the slack: where the ceiling fires, the *)
(* slack has gone to what no timeout of the loop governs.                  *)
(***************************************************************************)
THEOREM BudgetIsKept == Spec => []BudgetKept
  <1>1. Init => BudgetInv
    <2>1. Init => Accounted /\ BudgetKept
      BY AttemptAssumption DEF Init, Accounted, BudgetKept
    <2> QED
      BY <2>1, TypeInit DEF BudgetInv
  <1>2. BudgetInv => BudgetKept
    BY DEF BudgetInv
  <1> QED
    BY <1>1, <1>2, BudgetStep, PTL DEF Spec

-----------------------------------------------------------------------------
(* The exits.                                                              *)

Excluding == kind \in {"static", "mobile", "mobile_shared"}
OneProxyEach == kind \in {"static", "mobile_shared"}

\* Each fetch went through a purchase of its own, in order of purchase, and one
\* purchase at most, the lease held at the top of the loop, is still unused.
Bought ==
    kind # "direct" /\ pc # "open" =>
        /\ lease.serial = minted
        /\ \A i \in 1 .. Len(used) : used[i].serial \in 1 .. minted
        /\ \A i, j \in 1 .. Len(used) : i < j => used[i].serial < used[j].serial
        /\ pc = "attempt" => \A i \in 1 .. Len(used) : used[i].serial < minted
        /\ pc = "attempt" => minted = Len(used) + 1
        /\ pc \in {"decide", "recover"} => minted = Len(used)

\* The pools that rotate by excluding hold a lease of the pool; all but the
\* latest of the proxies fetched through are excluded, and so is the latest
\* once a new one is held.
Excluded ==
    OneProxyEach /\ pc # "open" =>
        /\ lease.source \in Pool
        /\ pc = "attempt" => lease.source \notin exclude_ids
        /\ \A i \in 1 .. Len(used) :
              /\ used[i].source \in exclude_ids \/ (i = Len(used) /\ pc # "attempt")
              /\ pc \in {"decide", "recover"} /\ i = Len(used) =>
                    used[i].source = lease.source
        /\ \A i, j \in 1 .. Len(used) : i < j => used[i].source # used[j].source

\* A rotation is begun only with the budget and the attempt for it.
Vetted ==
    pc = "recover" => kind # "direct" /\ (result = "none" => CanAfford(left))

\* Before the session is open nothing has been bought or used.
Unopened ==
    pc = "open" => used = <<>> /\ exclude_ids = {} /\ minted = 0 /\ lease = NoLease

ExitInv == TypeInv /\ Unopened /\ Bought /\ Excluded /\ Vetted

LEMMA MintFacts ==
  ASSUME SessionTypeOK, NEW src \in Pool \cup {NoProxy}, Mint(src)
  PROVE  /\ minted' = minted + 1 /\ minted \in Nat
         /\ lease'.serial = minted' /\ lease'.source = src
  BY DEF Mint, SessionTypeOK

\* A rotating purchase: a proxy of the pool that is not excluded.
LEMMA AcquireFacts ==
  ASSUME ExitInv, Acquire, kind # "direct"
  PROVE  /\ minted' = minted + 1 /\ lease'.serial = minted' /\ exclude_ids' = exclude_ids
         /\ OneProxyEach => lease'.source \in Pool
  <1>1. SessionTypeOK
    BY DEF ExitInv, TypeInv, TypeOK
  <1>2. CASE kind = "prem"
    BY <1>1, <1>2, MintFacts DEF Acquire, OneProxyEach
  <1>3. CASE kind # "prem"
    <2>1. PICK src \in Pool : Mint(src)
      BY <1>3 DEF Acquire, Candidates
    <2> QED
      BY <1>1, <2>1, MintFacts DEF Acquire
  <1> QED
    BY <1>2, <1>3

LEMMA RecoverFacts ==
  ASSUME ExitInv, Recovered
  PROVE  /\ minted' = minted + 1 /\ lease'.serial = minted' /\ exclude_ids' = Given
         /\ OneProxyEach => lease'.source \in Pool \ Given
  <1>1. SessionTypeOK
    BY DEF ExitInv, TypeInv, TypeOK
  <1>2. CASE ChangeIp
    <2>1. lease.source \in Pool /\ kind = "mobile"
      BY <1>2, ProxyAssumption DEF ChangeIp, CanChangeIp
    <2> QED
      BY <1>1, <1>2, <2>1, MintFacts DEF ChangeIp, Recovered, OneProxyEach
  <1>3. CASE RotateNext
    <2>1. PICK listed \in SUBSET Pool :
             \E src \in Candidates(listed, pinned, Given) : Mint(src)
      BY <1>3 DEF RotateNext
    <2>2. PICK src \in Candidates(listed, pinned, Given) : Mint(src)
      BY <2>1
    <2>3. src \in Pool \ Given
      BY <2>1, <2>2 DEF Candidates
    <2> QED
      BY <1>1, <2>2, <2>3, MintFacts DEF Recovered
  <1>4. CASE Reconnect
    BY <1>1, <1>4, MintFacts DEF Reconnect, Recovered, OneProxyEach
  <1> QED
    BY <1>2, <1>3, <1>4 DEF Recovered

LEMMA OpenExits ==
  ASSUME ExitInv, OpenSession, kind' = kind
  PROVE  (Bought /\ Excluded)'
  <1>1. /\ used' = used /\ used = <<>> /\ Len(used) = 0 /\ pc' = "attempt"
        /\ minted = 0 /\ exclude_ids = {} /\ Acquire
    BY DEF OpenSession, Running, ExitInv, Unopened
  <1>2. Bought'
    BY <1>1, AcquireFacts DEF Bought
  <1>3. Excluded'
    BY <1>1, AcquireFacts DEF Excluded, OneProxyEach
  <1> QED
    BY <1>2, <1>3

LEMMA FetchExits ==
  ASSUME ExitInv, NEW o \in Outcome, Fetch(o)
  PROVE  (Bought /\ Excluded)'
  <1>1. /\ used \in Seq(Exit) /\ Len(used) \in Nat /\ lease \in Exit /\ minted \in Nat
        /\ pc = "attempt" /\ pc' = "decide" /\ UNCHANGED sessionVars
        /\ used' = Append(used, lease)
    BY DEF Fetch, Running, ExitInv, TypeInv, TypeOK, SessionTypeOK
  <1>2. /\ Len(used') = Len(used) + 1
        /\ used'[Len(used')] = lease
        /\ \A i \in 1 .. Len(used) : used'[i] = used[i]
        /\ \A i \in 1 .. Len(used) : used[i].serial \in Nat
        /\ \A i \in 1 .. Len(used') : i \in 1 .. Len(used) \/ i = Len(used')
    <2>1. \A i \in 1 .. Len(used) : used[i] \in Exit
      BY <1>1
    <2>2. \A i \in 1 .. Len(used) : used[i].serial \in Nat
      BY <2>1 DEF Exit
    <2>3. Len(used') = Len(used) + 1 /\ used'[Len(used')] = lease
      BY <1>1
    <2>4. \A i \in 1 .. Len(used) : used'[i] = used[i]
      BY <1>1
    <2>5. \A i \in 1 .. Len(used') : i \in 1 .. Len(used) \/ i = Len(used')
      BY <1>1, <2>3
    <2> QED
      BY <2>2, <2>3, <2>4, <2>5
  <1>3. Bought'
    <2>1. SUFFICES ASSUME kind # "direct" PROVE Bought'
      BY <1>1 DEF Bought, sessionVars
    <2>2. /\ lease.serial = minted /\ minted = Len(used) + 1
          /\ \A i \in 1 .. Len(used) : used[i].serial \in 1 .. minted
          /\ \A i \in 1 .. Len(used) : used[i].serial < minted
          /\ \A i, j \in 1 .. Len(used) : i < j => used[i].serial < used[j].serial
      BY <1>1, <2>1 DEF ExitInv, Bought
    <2>3. \A i \in 1 .. Len(used') : used'[i].serial \in 1 .. minted
      BY <1>1, <1>2, <2>2
    <2>4. \A i, j \in 1 .. Len(used') : i < j => used'[i].serial < used'[j].serial
      BY <1>1, <1>2, <2>2
    <2> QED
      BY <1>1, <1>2, <2>2, <2>3, <2>4 DEF Bought, sessionVars
  <1>4. Excluded'
    <2>1. SUFFICES ASSUME OneProxyEach PROVE Excluded'
      BY <1>1 DEF Excluded, OneProxyEach, sessionVars
    <2>2. /\ lease.source \in Pool \ exclude_ids
          /\ \A i \in 1 .. Len(used) : used[i].source \in exclude_ids
          /\ \A i, j \in 1 .. Len(used) : i < j => used[i].source # used[j].source
      BY <1>1, <2>1 DEF ExitInv, Excluded
    <2>3. \A i, j \in 1 .. Len(used') : i < j => used'[i].source # used'[j].source
      BY <1>1, <1>2, <2>2
    <2>4. \A i \in 1 .. Len(used') :
             /\ used'[i].source \in exclude_ids \/ i = Len(used')
             /\ i = Len(used') => used'[i].source = lease.source
      BY <1>1, <1>2, <2>2
    <2> QED
      BY <1>1, <2>2, <2>3, <2>4 DEF Excluded, sessionVars
  <1> QED
    BY <1>3, <1>4

LEMMA RecoverExits ==
  ASSUME ExitInv, OnFailure, Recovered, kind' = kind
  PROVE  (Bought /\ Excluded)'
  <1>1. /\ used' = used /\ Len(used) \in Nat /\ pc = "recover" /\ minted \in Nat
        /\ used \in Seq(Exit)
    BY DEF OnFailure, Running, ExitInv, TypeInv, TypeOK, SessionTypeOK
  <1>2. minted' = minted + 1 /\ lease'.serial = minted' /\ exclude_ids' = Given
    BY RecoverFacts
  <1>3. pc' \in {"attempt", "parse"}
    BY DEF OnFailure
  <1>4. /\ kind # "direct" /\ minted = Len(used)
        /\ \A i \in 1 .. Len(used) : used[i].serial \in 1 .. minted
        /\ \A i, j \in 1 .. Len(used) : i < j => used[i].serial < used[j].serial
    BY <1>1 DEF ExitInv, Vetted, Bought
  <1>5. Bought'
    BY <1>1, <1>2, <1>3, <1>4 DEF Bought
  <1>6. Excluded'
    <2>1. SUFFICES ASSUME OneProxyEach PROVE Excluded'
      BY DEF Excluded, OneProxyEach
    <2>2. /\ lease.source \in Pool
          /\ \A i \in 1 .. Len(used) :
                used[i].source \in exclude_ids \/ used[i].source = lease.source
          /\ \A i, j \in 1 .. Len(used) : i < j => used[i].source # used[j].source
      BY <1>1, <2>1 DEF ExitInv, Excluded
    <2>3. Given = exclude_ids \cup {lease.source}
      BY <2>1, <2>2 DEF Given, OneProxyEach
    <2>4. lease'.source \in Pool \ Given
      BY <2>1, RecoverFacts
    <2>5. pc' = "attempt"
      BY <1>2, <1>1 DEF OnFailure, NotRecovered
    <2> QED
      BY <1>1, <1>2, <2>2, <2>3, <2>4, <2>5 DEF Excluded
  <1> QED
    BY <1>5, <1>6

LEMMA ExitStep ==
  ASSUME ExitInv, [Next]_vars
  PROVE  ExitInv'
  <1> USE DEF ExitInv
  <1>1. TypeInv' /\ kind' = kind /\ req' = req
    BY TypeStep, Steady, SessionStep DEF TypeInv, TypeOK
  <1>2. Unopened' /\ Vetted'
    <2>1. Unopened'
      BY DEF Next, vars, loopVars, sessionVars, OpenSession, OpenSessionFails, NotStarted,
         Fetch, FetchRaises, Stop, Rotate, OnFailure, Parse, SkipParse, Pack,
         CeilingFires, Unopened, Running
    <2>2. pc' = "recover" => kind # "direct"
      BY <1>1 DEF TypeInv, TypeOK, AttemptLeft, MaxAttempts
    <2>3. pc' = "recover" /\ result' = "none" => CanAfford(left) /\ left' = left
      BY DEF Next, vars, loopVars, sessionVars, OpenSession, OpenSessionFails, NotStarted,
         Fetch, FetchRaises, Stop, Rotate, OnFailure, Parse, SkipParse, Pack,
         CeilingFires, Vetted, Running, MayRotate, clock
    <2>4. left' = left => (CanAfford(left))' = CanAfford(left)
      BY <1>1 DEF CanAfford, Affordable, Phases, DwellTime
    <2> QED
      BY <1>1, <2>1, <2>2, <2>3, <2>4 DEF Vetted
  <1>3. Bought' /\ Excluded'
    <2>1. CASE OpenSession
      BY <1>1, <2>1, OpenExits
    <2>2. CASE \E o \in Outcome : Fetch(o)
      BY <2>2, FetchExits
    <2>3. CASE OnFailure /\ Recovered
      BY <1>1, <2>3, RecoverExits
    <2>4. CASE OnFailure /\ NotRecovered /\ ~Recovered
      <3>1. /\ pc = "recover" /\ pc' = "parse" /\ used' = used /\ lease' = lease
            /\ minted' = minted /\ exclude_ids' = Given
        BY <2>4 DEF OnFailure, NotRecovered, Running
      <3>2. exclude_ids \subseteq Given
        BY DEF Given
      <3>3. Bought'
        BY <1>1, <3>1 DEF Bought
      <3>4. Excluded'
        BY <1>1, <3>1, <3>2 DEF Excluded, OneProxyEach
      <3> QED
        BY <3>3, <3>4
    <2>5. CASE NotStarted \/ Stop \/ Rotate \/ Parse \/ SkipParse
      <3>1. /\ UNCHANGED sessionVars /\ used' = used
            /\ pc # "open" /\ pc' \notin {"open", "attempt"}
            /\ pc' \in {"decide", "recover"} => pc \in {"decide", "recover"}
            /\ pc' \in {"recover", "parse", "pack"}
        BY <2>5 DEF NotStarted, Stop, Rotate, Parse, SkipParse, Running
      <3>2. Bought'
        BY <3>1 DEF Bought, sessionVars
      <3>3. Excluded'
        BY <3>1 DEF Excluded, OneProxyEach, sessionVars
      <3> QED
        BY <3>2, <3>3
    <2>6. CASE OpenSessionFails \/ FetchRaises \/ Pack \/ CeilingFires \/ UNCHANGED vars
      <3>1. UNCHANGED sessionVars /\ used' = used /\ pc' = pc
        BY <2>6 DEF OpenSessionFails, FetchRaises, Pack, CeilingFires, vars, loopVars
      <3>2. Bought'
        BY <3>1 DEF Bought, sessionVars
      <3>3. Excluded'
        BY <3>1 DEF Excluded, OneProxyEach, sessionVars
      <3> QED
        BY <3>2, <3>3
    <2> QED
      BY <2>1, <2>2, <2>3, <2>4, <2>5, <2>6 DEF Next, OnFailure
  <1> QED
    BY <1>1, <1>2, <1>3

LEMMA ExitInit == Init => ExitInv
  BY TypeInit DEF Init, ExitInv, Unopened, Bought, Excluded, Vetted

(***************************************************************************)
(* Every fetch goes through an exit of its own, and a static or a shared   *)
(* mobile pool never gives the same proxy to two attempts of a task.       *)
(***************************************************************************)
THEOREM BurnedExitsAreOut == Spec => []BurnedExitsStayOut
  <1>1. ExitInv => BurnedExitsStayOut
    <2>1. SUFFICES ASSUME ExitInv, kind # "direct", NEW i \in 1 .. Len(used),
                          NEW j \in 1 .. Len(used), i < j
                   PROVE  /\ used[i] # used[j]
                          /\ OneProxyEach => used[i].source # used[j].source
      BY DEF BurnedExitsStayOut, OneProxyEach
    <2>2. pc # "open"
      <3>1. used = <<>> => Len(used) = 0
        OBVIOUS
      <3> QED
        BY <2>1, <3>1 DEF ExitInv, Unopened
    <2>3. used[i].serial < used[j].serial /\ used[i].serial \in 1 .. minted
      BY <2>1, <2>2 DEF ExitInv, Bought
    <2>4. used[i] # used[j]
      BY <2>3
    <2>5. OneProxyEach => used[i].source # used[j].source
      BY <2>1, <2>2 DEF ExitInv, Excluded
    <2> QED
      BY <2>4, <2>5
  <1> QED
    BY <1>1, ExitInit, ExitStep, PTL DEF Spec

(***************************************************************************)
(* An exit is bought in recovery only when every earlier one was fetched   *)
(* through, and when nothing but the purchase itself can keep the attempt  *)
(* it is for from starting.                                                *)
(***************************************************************************)
THEOREM ExitsAreFetchedThrough == Spec => ExitsAreNotWasted
  <1>1. ASSUME ExitInv, [Next]_vars, pc = "recover", minted' > minted
        PROVE  /\ Len(seen) = minted
               /\ left' = left => (pc' = "attempt" /\ CanAfford(left'))
               /\ attempt' <= MaxAttempts
    <2>1. OnFailure
      <3>1. minted \in Nat /\ minted' # minted
        BY <1>1 DEF ExitInv, TypeInv, TypeOK, SessionTypeOK
      <3> QED
        BY <1>1, <3>1
        DEF Next, vars, loopVars, sessionVars, OpenSession, OpenSessionFails, NotStarted,
            Fetch, FetchRaises, Stop, Rotate, Parse, SkipParse, Pack, CeilingFires, Running
    <2>2. pc' = "attempt" /\ attempt' = attempt + 1
      <3>1. minted' # minted
        BY <1>1 DEF ExitInv, TypeInv, TypeOK, SessionTypeOK
      <3> QED
        BY <2>1, <3>1 DEF OnFailure, NotRecovered
    <2>3. Len(seen) = minted
      BY <1>1 DEF ExitInv, Vetted, Bought, TypeInv, TypeOK
    <2>4. CanAfford(left)
      BY <1>1, <2>1 DEF ExitInv, Vetted, OnFailure, Running
    <2>5. attempt + 1 <= MaxAttempts
      <3>1. attempt \in 1 .. MaxAttempts /\ MaxAttempts \in Nat /\ attempt < MaxAttempts
        BY <1>1, MaxAttemptsNat DEF ExitInv, TypeInv, TypeOK, AttemptLeft
      <3> QED
        BY <3>1
    <2> QED
      BY <2>2, <2>3, <2>4, <2>5
  <1>2. ExitInv /\ [Next]_vars =>
          [ (pc = "recover" /\ minted' > minted) =>
              /\ Len(seen) = minted
              /\ left' = left => (pc' = "attempt" /\ CanAfford(left'))
              /\ attempt' <= MaxAttempts ]_vars
    BY <1>1
  <1> QED
    BY <1>2, ExitInit, ExitStep, PTL DEF Spec, ExitsAreNotWasted
=============================================================================
