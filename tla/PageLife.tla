------------------------------ MODULE PageLife ------------------------------
(***************************************************************************)
(* What a crawl promises about one page, whatever its workers do: a page   *)
(* is discovered once, by the visit of another page; it is worked on by    *)
(* one worker at a time, may go back to wait for a retry, and is settled   *)
(* once: visited, failed, skipped by the scope, or lost with its worker.   *)
(***************************************************************************)
CONSTANTS Pages, First

VARIABLE phase

Phases == {"unseen", "waiting", "held", "visited", "failed", "skipped", "lost"}

Allowed == {<<"unseen", "waiting">>, <<"unseen", "skipped">>,
            <<"waiting", "held">>, <<"held", "waiting">>,
            <<"held", "visited">>, <<"held", "failed">>, <<"held", "lost">>}

Init == phase = [p \in Pages |-> IF p = First THEN "waiting" ELSE "unseen"]

Changed == {p \in Pages : phase'[p] # phase[p]}
Moved(from, to) == {p \in Pages : phase[p] = from /\ phase'[p] = to}

Next ==
  /\ phase' \in [Pages -> Phases]
  /\ \A p \in Changed : <<phase[p], phase'[p]>> \in Allowed
  /\ \A p, q \in Moved("waiting", "held") : p = q
  /\ (\E p \in Changed : phase[p] = "unseen") => \E p \in Pages : Moved("held", "visited") = {p}

Spec == Init /\ [][Next]_phase
=============================================================================
