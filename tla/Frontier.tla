------------------------------ MODULE Frontier ------------------------------
(***************************************************************************)
(* The crawl frontier (yozh-crawler/src/frontier.py): one FIFO sub-queue   *)
(* per host, hosts served in rotation, a retry deferred until its backoff  *)
(* is over.  A frontier is a record of the three fields of the class;      *)
(* `queues` is total here and a host the code has no sub-queue for maps to *)
(* the empty sequence.  next_attempt_at <= now is the flag `due`.          *)
(***************************************************************************)
EXTENDS Integers, Sequences

CONSTANTS
  Urls,    \* canonical urls
  Hosts,   \* host names as they are spelled in urls
  Host     \* the host of a url

ASSUME HostAssumption == Host \in [Urls -> Hosts]

Request == [url: Urls, depth: Nat, attempts: Nat, due: BOOLEAN]

EmptyFrontier == [queues |-> [h \in Hosts |-> <<>>], order |-> <<>>, size |-> 0]

Push(f, r) ==
  LET h == Host[r.url] IN
    [queues |-> [f.queues EXCEPT ![h] = Append(@, r)],
     order  |-> IF f.queues[h] = <<>> THEN Append(f.order, h) ELSE f.order,
     size   |-> f.size + 1]

\* The request at the front of a host's sub-queue exists and may go out.
HeadReady(f, h) == f.queues[h] # <<>> /\ Head(f.queues[h]).due

\* pop() looks at each host of the rotation once; it takes the first ready one.
NextHosts(f) ==
  {i \in DOMAIN f.order : /\ HeadReady(f, f.order[i])
                          /\ \A j \in 1..(i - 1) : ~HeadReady(f, f.order[j])}

\* Mutant: the served host stays first.
RotatedSticky(f, i) ==
  LET after == SubSeq(f.order, i + 1, Len(f.order)) \o SubSeq(f.order, 1, i - 1)
  IN IF Len(f.queues[f.order[i]]) = 1 THEN after ELSE <<f.order[i]>> \o after
\* The hosts found not ready on the way went to the back; the served host
\* follows them, unless it has nothing left.
Rotated(f, i) ==
  LET h     == f.order[i]
      after == SubSeq(f.order, i + 1, Len(f.order)) \o SubSeq(f.order, 1, i - 1)
  IN IF Len(f.queues[h]) = 1 THEN after ELSE Append(after, h)

Popped(f, i) ==
  [queues |-> [f.queues EXCEPT ![f.order[i]] = Tail(@)],
   order  |-> Rotated(f, i),
   size   |-> f.size - 1]

Taken(f, i) == Head(f.queues[f.order[i]])

\* Requests waiting in the frontier, as places: host and position.
Places(f) == UNION {{h} \X DOMAIN f.queues[h] : h \in Hosts}
RequestAt(f, p) == f.queues[p[1]][p[2]]

\* Time reaches the next_attempt_at of the request at place p.
Elapsed(f, p) ==
  [queues |-> [f.queues EXCEPT ![p[1]][p[2]].due = TRUE],
   order  |-> f.order,
   size   |-> f.size]
=============================================================================
