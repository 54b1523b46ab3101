-------------------------- MODULE FrontierFairness --------------------------
(***************************************************************************)
(* The frontier on its own, driven by any sequence of calls: what the      *)
(* rotation promises to a host, whatever the engine does.                  *)
(***************************************************************************)
EXTENDS Frontier, FiniteSets

CONSTANT MaxSize  \* bound on the requests waiting at once

ASSUME FairnessAssumption == IsFiniteSet(Hosts)

VARIABLES
  frontier,
  overtaken  \* history: pops given to other hosts since the host's head
             \* became ready and stayed so

rotation == <<frontier, overtaken>>

RInit ==
  /\ frontier = EmptyFrontier
  /\ overtaken = [h \in Hosts |-> 0]

(* A new request or, with a backoff to wait for, a retry. *)
DoPush(url, due) ==
  /\ frontier.size < MaxSize
  /\ frontier' = Push(frontier, [url |-> url, depth |-> 0,
                                attempts |-> IF due THEN 0 ELSE 1, due |-> due])
  /\ UNCHANGED overtaken

DoPop ==
  \E i \in NextHosts(frontier) :
    /\ frontier' = Popped(frontier, i)
    /\ overtaken' = [h \in Hosts |->
         IF h # frontier.order[i] /\ HeadReady(frontier, h) THEN overtaken[h] + 1 ELSE 0]

BackoffEnds ==
  \E p \in Places(frontier) :
    /\ ~RequestAt(frontier, p).due
    /\ frontier' = Elapsed(frontier, p)
    /\ UNCHANGED overtaken

RNext ==
  \/ \E url \in Urls, due \in BOOLEAN : DoPush(url, due)
  \/ DoPop
  \/ BackoffEnds

RSpec == RInit /\ [][RNext]_rotation

-----------------------------------------------------------------------------
(* "pop() cycles domains so a single slow host can't starve others": while *)
(* its head is ready, a host waits for at most one pop of each other host, *)
(* however much they are given in the meantime.                            *)
BoundedOvertaking ==
  \A h \in Hosts : overtaken[h] <= Cardinality(Hosts) - 1
=============================================================================
