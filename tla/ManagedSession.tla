--------------------------- MODULE ManagedSession ---------------------------
(***************************************************************************)
(* The proxy session the fetches of one crawl share                        *)
(* (yozh-crawler/src/session.py): usage is counted when a fetch takes the  *)
(* session, health is judged when it comes back, and the fetches of one    *)
(* crawl overlap.  Scores count half points, so that a success is 1 and an *)
(* error 2.  A fetch cancelled with its task never gives its session back: *)
(* it just takes no further step.                                          *)
(***************************************************************************)
EXTENDS Integers, FiniteSets

CONSTANTS
  Fetches,      \* fetches that may overlap: the permits of all sites
  MaxScore,     \* twice SESSION_MAX_ERROR_SCORE
  MaxUsage,     \* SESSION_MAX_USAGE
  MaxCreated   \* bound on the sessions created

ASSUME SessionAssumption ==
  /\ IsFiniteSet(Fetches)
  /\ {MaxScore, MaxUsage} \subseteq Nat \ {0}
  /\ MaxCreated \in Nat

VARIABLES
  session,  \* sessions created so far, by number
  current,  \* self._current, 0 for None
  holds     \* the session a fetch is using, 0 for none

vars == <<session, current, holds>>

Ids == 1..MaxCreated
Session == [score: Nat, usage: Nat, retired: BOOLEAN]

TypeOK ==
  /\ session \in [Ids -> Session]
  /\ current \in 0..MaxCreated
  /\ holds \in [Fetches -> 0..MaxCreated]

Init ==
  /\ session = [i \in Ids |-> [score |-> 0, usage |-> 0, retired |-> FALSE]]
  /\ current = 0
  /\ holds = [f \in Fetches |-> 0]

\* acquire() makes a new session when there is none it may hand out.
Stale == current = 0 \/ session[current].retired

Acquire(f) ==
  /\ holds[f] = 0
  /\ LET i == IF Stale THEN current + 1 ELSE current IN
       /\ i <= MaxCreated
       /\ current' = i
       /\ holds' = [holds EXCEPT ![f] = i]
       /\ session' = [session EXCEPT ![i].usage = @ + 1]

Scored(s, ok) ==
  IF ok THEN (IF s.score > 0 THEN s.score - 1 ELSE 0) ELSE s.score + 2

\* Mutant: one of the limits is not looked at.
RetiresByUsage(s, score, blocked) == blocked \/ s.usage >= MaxUsage
Retires(s, score, blocked) ==
  blocked \/ score >= MaxScore \/ s.usage >= MaxUsage

Release(f, ok, blocked) ==
  /\ holds[f] # 0
  /\ holds' = [holds EXCEPT ![f] = 0]
  /\ LET i == holds[f]
         s == session[i]
     IN session' = [session EXCEPT ![i] =
          [score   |-> Scored(s, ok),
           usage   |-> s.usage,
           retired |-> s.retired \/ Retires(s, Scored(s, ok), blocked)]]
  /\ UNCHANGED current

Next ==
  \E f \in Fetches :
    \/ Acquire(f)
    \/ \E ok, blocked \in BOOLEAN : ~(ok /\ blocked) /\ Release(f, ok, blocked)

Spec == Init /\ [][Next]_vars

-----------------------------------------------------------------------------
Users(i) == {f \in Fetches : holds[f] = i}

(* The usage limit is looked at when a session comes back, so fetches that *)
(* overlap may overshoot it - but each of them only once.                  *)
UsageBounded ==
  \A i \in Ids : session[i].usage <= MaxUsage - 1 + Cardinality(Fetches)

(* No fetch starts on a session that has earned its retirement: what is    *)
(* left of the limit covers the uses that have come back.                  *)
HealthyUnlessRetired ==
  \A i \in Ids : ~session[i].retired =>
    /\ session[i].score < MaxScore
    /\ session[i].usage - Cardinality(Users(i)) < MaxUsage
=============================================================================
