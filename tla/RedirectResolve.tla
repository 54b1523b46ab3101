--------------------------- MODULE RedirectResolve ---------------------------
(* resolve_redirect_fields of src/extract/resolve.py: the redirect stubs   *)
(* in some fields of a parsed page are asked where they lead, a few at a   *)
(* time and under one deadline, and the destinations are put in their      *)
(* place. A hop is the cell its stub stands in.                            *)
EXTENDS Naturals, FiniteSets

CONSTANTS
  Cells,        \* the values of the wanted fields, in order
  MaxLinks,     \* stubs asked at most
  Concurrency

VARIABLES
  cell,     \* what each cell holds
  flying,   \* hops whose request is under way
  result,   \* outcome of each hop, by its place
  stage

rvars == <<cell, flying, result, stage>>

Values == {"stub", "link_elsewhere", "no_link"}
Found(value, i) == [holds |-> value, of |-> i]
Destination(i) == Found("destination", i)
Answered(outcome, i) == [outcome |-> outcome, of |-> i]
Unanswered == Answered("timed_out", 0)

ResolveInit ==
  /\ cell = [i \in 1..Cells |-> Found("no_link", i)] /\ flying = {} /\ result = <<>>
  /\ stage = "parsed"

(* _collect_hops and the cap: only what stands on the page's own host.     *)
Collect ==
  /\ stage = "parsed"
  /\ \E found \in [1..Cells -> Values] :
       LET stubs == {i \in 1..Cells : found[i] = "stub"}
           attempted == {i \in stubs : Cardinality({j \in stubs : j < i}) < MaxLinks}
       IN /\ cell' = [i \in 1..Cells |-> Found(found[i], i)]
          /\ result' = [i \in attempted |-> Unanswered]
  /\ stage' = "asking"
  /\ UNCHANGED flying

Pending == {i \in DOMAIN result : result[i] = Unanswered} \ flying

Ask(i) ==
  /\ stage = "asking" /\ i \in Pending /\ Cardinality(flying) < Concurrency
  /\ \A j \in Pending : i <= j
  /\ flying' = flying \cup {i}
  /\ UNCHANGED <<cell, result, stage>>

(* _resolve_one and _accept_location.                                      *)
Outcomes == {"resolved", "refused", "failed", "no_location", "blocked", "still_on_host", "still_a_stub"}

AnswerByArrival(i) ==
  /\ stage = "asking" /\ i \in flying
  /\ \E outcome \in Outcomes :
       LET place == CHOOSE j \in DOMAIN result : result[j] = Unanswered /\ \A k \in DOMAIN result : k < j => result[k] # Unanswered
       IN result' = [result EXCEPT ![place] = Answered(outcome, i)]
  /\ flying' = flying \ {i}
  /\ UNCHANGED <<cell, stage>>

Answer(i) ==
  /\ stage = "asking" /\ i \in flying
  /\ \E outcome \in Outcomes : result' = [result EXCEPT ![i] = Answered(outcome, i)]
  /\ flying' = flying \ {i}
  /\ UNCHANGED <<cell, stage>>

(* All have answered, or the deadline has cancelled the rest.              *)
Settle ==
  /\ stage = "asking"
  /\ flying' = {} /\ stage' = "settled"
  /\ UNCHANGED <<cell, result>>

Rewrite ==
  /\ stage = "settled"
  /\ cell' = [i \in 1..Cells |->
       IF i \in DOMAIN result /\ result[i].outcome = "resolved" THEN Destination(result[i].of) ELSE cell[i]]
  /\ stage' = "done"
  /\ UNCHANGED <<flying, result>>

ResolveNext == Collect \/ Settle \/ Rewrite \/ \E i \in DOMAIN result : Ask(i) \/ Answer(i)
ResolveSpec == ResolveInit /\ [][ResolveNext]_rvars

-----------------------------------------------------------------------------
(* Whatever the order of the answers and whenever the deadline falls, a    *)
(* cell keeps its value or gets the destination of its own stub; and where *)
(* nothing stood on the page's own host, nothing is put.                   *)
OwnDestination ==
  \A i \in 1..Cells :
    /\ cell[i] \in {Found(v, i) : v \in Values} \cup {Destination(i)}
    /\ cell[i] = Destination(i) => i \in DOMAIN result /\ result[i] = Answered("resolved", i)
=============================================================================
