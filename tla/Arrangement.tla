---------------------------- MODULE Arrangement ----------------------------
(* Lists that keep some elements of another list, or bring them in order,  *)
(* defined by counting. An order is a set of pairs.                        *)
EXTENDS Naturals, Sequences, FiniteSets

(* The members of S in the order R: at place k stands the one with k       *)
(* members up to it. This is list.sort, where R says who goes first.       *)
InOrder(S, R) ==
  [k \in 1..Cardinality(S) |-> CHOOSE i \in S : Cardinality({j \in S : <<j, i>> \in R}) = k]

Ascending(S) == InOrder(S, {ij \in S \X S : ij[1] <= ij[2]})

(* The elements of a list at the positions S, as a comprehension keeps     *)
(* them.                                                                   *)
Picked(list, S) == LET at == Ascending(S) IN [k \in DOMAIN at |-> list[at[k]]]

(* A slice: the first n elements at most.                                  *)
AtMost(list, n) == [k \in 1..(IF Len(list) > n THEN n ELSE Len(list)) |-> list[k]]
=============================================================================
