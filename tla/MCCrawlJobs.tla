---------------------------- MODULE MCCrawlJobs ----------------------------
(* Small instances of CrawlJobs for TLC. *)
EXTENDS CrawlJobs, TLC

Symmetric == Permutations(Workers) \cup Permutations(Jobs) \cup Permutations(Streams)
=============================================================================
