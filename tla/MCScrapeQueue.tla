--------------------------- MODULE MCScrapeQueue ---------------------------
(* Small instances of ScrapeQueue for TLC. *)
EXTENDS ScrapeQueue, TLC

Symmetric == Permutations(Workers)
=============================================================================
