---------------------------- MODULE SessionStore ----------------------------
(* Browser sessions in Redis: src/sessions/redis_store.py and service.py,  *)
(* the lock of src/queue/locks.py, and the two tasks that work on a        *)
(* session, _scrape_with_session and login_task of src/queue/tasks.py.     *)
(* An API call or a scrape is a caller with the list of round trips it     *)
(* still has to make; every round trip is a step of its own. Which session *)
(* is the least recently used one is left open: an eviction picks any.     *)
EXTENDS Naturals, Sequences, FiniteSets, FiniteSetsExt

CONSTANTS
  Sids,         \* session ids, each created at most once (they are random)
  Existing,     \* the sessions that exist at the start
  Callers,      \* API calls and scrapes, one call each
  Pins,         \* device, viewport and proxy a session may be created with
  Requests,     \* the same fields of a scrape request, and whether it brings cookies
  MaxSessions,  \* sessions_max
  Missing       \* no value

VARIABLES
  record,   \* session:{id}
  index,    \* members of sessions:index
  due,      \* sessions whose expires_at has passed
  lock,     \* session:{id}:lock
  rmw,      \* session:{id}:rmw
  caller,   \* what each caller has left to do
  mail,     \* login payload, result and task of each caller's login
  gone,     \* history: sessions deleted or evicted at some time
  crashed,  \* history: sessions a caller crashed on, or Redis failed it
  torn      \* history: sessions whose short lock lapsed under its holder

Unset == "unset"
Nobody == "no one"

(* Cookies, by the form of their expiry; "text" is any string, which only  *)
(* an injection brings, and which no browser context loads. They are       *)
(* converted one by one, so a context gives one cookie for several.        *)
Lifetimes == {"none", "negative", "float", "session", "dated", "text"}
Exported == {{}, {"negative"}, {"float"}}  \* context.storage_state()
Jars == SUBSET {"session", "dated", "text"}          \* what is stored

ASSUME StoreAssumption == Existing \subseteq Sids /\ Nobody \notin Callers /\ \A jar \in Jars : jar # Missing

svars == <<record, index, due, lock, rmw, caller, mail, gone, crashed, torn>>

Cookies(jar) == IF jar = Missing THEN {} ELSE jar

Normalized(jar) ==
  {IF c \in {"none", "negative"} THEN "session" ELSE IF c = "float" THEN "dated" ELSE c : c \in jar}

NewRecord(pin) == [status |-> "created", state |-> Missing, pin |-> pin]

Refused(pin) ==
  \/ pin.device = "legacy_wap"
  \/ pin.proxy_type = "res_rotating" /\ pin.pool = Unset

Compatible(pin, req) ==
  /\ ~req.cookies
  /\ req.device = pin.device /\ req.proxy_type = pin.proxy_type
  /\ req.viewport \in {Unset, pin.viewport}
  /\ req.pool \in {Unset, pin.pool}
  /\ pin.geo = Unset \/ req.geo \in {Unset, pin.geo}

InjectReadyFirst == <<"get", "bump", "ready", "store">>
Inject == <<"get", "bump", "store", "ready">>

Trips(call) ==
  CASE call = "create" -> <<"save", "count", "evict", "drop">>
    [] call = "read"   -> <<"get", "bump">>
    [] call = "delete" -> <<"exists", "drop">>
    [] call = "inject" -> Inject
    [] call = "sweep"  -> <<"peek">>
    [] call = "login"  -> <<"get", "bump", "lock", "logging_in", "enqueue", "await">>
    [] call = "scrape" -> <<"get", "bump", "check", "lock", "get", "bump", "run">>

AtRest == [call |-> "none", sid |-> Missing, todo |-> <<>>, jar |-> {}, copy |-> Missing,
           page |-> Missing, excess |-> 0, victims |-> {}, held |-> FALSE]

SInit ==
  /\ \E pin \in Pins :
       ~Refused(pin) /\ record = [s \in Sids |-> IF s \in Existing THEN NewRecord(pin) ELSE Missing]
  /\ index = Existing /\ due = {} /\ gone = {} /\ crashed = {} /\ torn = {}
  /\ lock = [s \in Sids |-> Nobody] /\ rmw = [s \in Sids |-> Nobody]
  /\ caller = [p \in Callers |-> AtRest]
  /\ mail = [p \in Callers |-> [task |-> "none", payload |-> Missing, result |-> Missing]]

Sid(p) == caller[p].sid
Rec(p) == record[Sid(p)]
AtTrip(p, op) == caller[p].todo # <<>> /\ Head(caller[p].todo) = op

Start(p) ==
  /\ caller[p] = AtRest
  /\ \E call \in {"create", "read", "delete", "inject", "sweep", "login", "scrape"}, s \in Sids :
       /\ call = "create" => record[s] = Missing /\ s \notin gone \cup Existing
                             /\ \A q \in Callers : caller[q].call = "create" => Sid(q) # s
       /\ call = "sweep" => s \in index
       /\ caller' = [caller EXCEPT ![p].call = call, ![p].sid = s, ![p].todo = Trips(call)]
  /\ UNCHANGED <<record, index, due, lock, rmw, mail, gone, crashed, torn>>

(* The caller goes on with other operations. An exception leaves the lock  *)
(* through its __aexit__.                                                  *)
Resumes(p, ops) == caller' = [caller EXCEPT ![p].todo = ops]
Next1(p) == Tail(caller[p].todo)
Out(p) == IF caller[p].held THEN <<"unlock">> ELSE <<>>
Untouched == UNCHANGED <<record, index, due, lock, rmw, mail, gone, crashed, torn>>

Save(p) ==
  /\ AtTrip(p, "save")
  /\ \E pin \in Pins :
       IF Refused(pin) THEN Resumes(p, <<>>) /\ UNCHANGED <<record, index>>
       ELSE /\ record' = [record EXCEPT ![Sid(p)] = NewRecord(pin)]
            /\ index' = index \cup {Sid(p)}
            /\ Resumes(p, Next1(p))
  /\ UNCHANGED <<due, lock, rmw, mail, gone, crashed, torn>>

(* The number of sessions to evict is counted first, which ones they are   *)
(* is read when others may have come or gone; each goes in a transaction.  *)
Count(p) ==
  /\ AtTrip(p, "count")
  /\ IF Cardinality(index) <= MaxSessions THEN Resumes(p, <<>>)
     ELSE caller' = [caller EXCEPT ![p].excess = Cardinality(index) - MaxSessions, ![p].todo = Next1(p)]
  /\ Untouched

Evict(p) ==
  /\ AtTrip(p, "evict")
  /\ \E victims \in SUBSET index :
       /\ Cardinality(victims) = Min({caller[p].excess, Cardinality(index)})
       /\ caller' = [caller EXCEPT ![p].victims = victims, ![p].todo = IF victims = {} THEN <<>> ELSE Next1(p)]
  /\ Untouched

Present(p) ==
  /\ AtTrip(p, "exists")
  /\ IF Rec(p) = Missing THEN Resumes(p, <<>>)
     ELSE caller' = [caller EXCEPT ![p].victims = {Sid(p)}, ![p].todo = Next1(p)]
  /\ Untouched

Drop(p) ==
  /\ AtTrip(p, "drop")
  /\ \E s \in caller[p].victims :
       /\ record' = [record EXCEPT ![s] = Missing]
       /\ index' = index \ {s}
       /\ gone' = gone \cup {s}
       /\ caller' = [caller EXCEPT ![p].victims = @ \ {s},
                                   ![p].todo = IF caller[p].victims = {s} THEN Next1(p) ELSE @]
  /\ UNCHANGED <<due, lock, rmw, mail, crashed, torn>>

(* A read fixes what the caller knows of the session: its cookies and, for *)
(* a scrape that has not compared them with its request yet, its pins.     *)
Get(p) ==
  /\ AtTrip(p, "get")
  /\ IF Rec(p) = Missing \/ Sid(p) \in due THEN Resumes(p, Out(p))
     ELSE caller' = [caller EXCEPT ![p].todo = Next1(p),
            ![p].jar = Rec(p).state,
            ![p].page = IF caller[p].call = "scrape" /\ ~caller[p].held THEN Rec(p).pin ELSE Missing]
  /\ Untouched

Bump(p) ==
  /\ AtTrip(p, "bump")
  /\ index' = index \cup {Sid(p)}
  /\ Resumes(p, Next1(p))
  /\ UNCHANGED <<record, due, lock, rmw, mail, gone, crashed, torn>>

Check(p) ==
  /\ AtTrip(p, "check")
  /\ \E req \in Requests :
       Resumes(p, IF Compatible(caller[p].page, req) THEN Next1(p) ELSE <<>>)
  /\ Untouched

AcquireLock(p) ==
  /\ AtTrip(p, "lock") /\ lock[Sid(p)] = Nobody
  /\ lock' = [lock EXCEPT ![Sid(p)] = p]
  /\ caller' = [caller EXCEPT ![p].held = TRUE, ![p].todo = Next1(p)]
  /\ UNCHANGED <<record, index, due, rmw, mail, gone, crashed, torn>>

GiveUp(p) ==  \* LockTimeout
  /\ AtTrip(p, "lock") /\ lock[Sid(p)] # Nobody
  /\ Resumes(p, <<>>) /\ Untouched

Unlock(p) ==
  /\ AtTrip(p, "unlock")
  /\ lock' = IF lock[Sid(p)] = p THEN [lock EXCEPT ![Sid(p)] = Nobody] ELSE lock
  /\ caller' = [caller EXCEPT ![p].held = FALSE, ![p].todo = Next1(p)]
  /\ UNCHANGED <<record, index, due, rmw, mail, gone, crashed, torn>>

(* A renewal that fails with anything but LockError ends the watchdog; the *)
(* key expires while its holder works on.                                  *)
Lapse(s) ==
  /\ lock[s] # Nobody
  /\ lock' = [lock EXCEPT ![s] = Nobody]
  /\ UNCHANGED <<record, index, due, rmw, caller, mail, gone, crashed, torn>>

(* So may the short lock, of five seconds: its holder saves all the same   *)
(* what it has read, and releases only a lock that is its own.             *)
LapseShort(s) ==
  /\ rmw[s] # Nobody
  /\ rmw' = [rmw EXCEPT ![s] = Nobody] /\ torn' = torn \cup {s}
  /\ UNCHANGED <<record, index, due, lock, caller, mail, gone, crashed>>

(* Read-modify-write under the short lock, in two round trips. sweep skips *)
(* a session that has meanwhile gone, the others fail with not found. An   *)
(* injection adds any cookies to those it read, or none.                   *)
Modifies == {"store", "logging_in", "ready", "failed", "expire"}

Changed(p, rec) ==
  CASE AtTrip(p, "store")  -> [rec EXCEPT !.state = Normalized(Cookies(caller[p].jar))]
    [] AtTrip(p, "expire") -> [rec EXCEPT !.status = "expired", !.state = Missing]
    [] OTHER              -> [rec EXCEPT !.status = Head(caller[p].todo)]

ReadUnderLock(p) ==
  /\ caller[p].todo # <<>> /\ Head(caller[p].todo) \in Modifies
  /\ caller[p].copy = Missing /\ rmw[Sid(p)] = Nobody
  /\ IF Rec(p) = Missing THEN Resumes(p, Out(p)) /\ UNCHANGED rmw
     ELSE /\ rmw' = [rmw EXCEPT ![Sid(p)] = p]
          /\ \E more \in {{}, {"none"}, {"text"}} :
               caller' = [caller EXCEPT ![p].copy = Rec(p),
                 ![p].jar = IF caller[p].call = "inject" /\ AtTrip(p, "store")
                            THEN Cookies(@) \cup more ELSE @]
  /\ UNCHANGED <<record, index, due, lock, mail, gone, crashed, torn>>

WriteUnderLock(p) ==
  /\ caller[p].copy # Missing
  /\ record' = [record EXCEPT ![Sid(p)] = Changed(p, caller[p].copy)]
  /\ index' = index \cup {Sid(p)}
  /\ rmw' = IF rmw[Sid(p)] = p THEN [rmw EXCEPT ![Sid(p)] = Nobody] ELSE rmw
  /\ caller' = [caller EXCEPT ![p].copy = Missing, ![p].todo = Next1(p)]
  /\ UNCHANGED <<due, lock, mail, gone, crashed, torn>>

TooLargeRaises(p) ==
  /\ AtTrip(p, "store") /\ caller[p].copy = Missing
  /\ Resumes(p, Out(p))
  /\ Untouched

TooLarge(p) ==  \* storage_state above its limit, checked before anything is read
  /\ AtTrip(p, "store") /\ caller[p].copy = Missing
  /\ Resumes(p, IF caller[p].call = "login" THEN <<"failed", "unlock">> ELSE Out(p))
  /\ Untouched

(* sweep_expired, one member of the index.                                 *)
Peek(p) ==
  /\ AtTrip(p, "peek")
  /\ Resumes(p, IF Rec(p) = Missing THEN <<"unindex">> ELSE IF Sid(p) \in due THEN <<"expire">> ELSE <<>>)
  /\ Untouched

Unindex(p) ==
  /\ AtTrip(p, "unindex")
  /\ index' = index \ {Sid(p)} /\ Resumes(p, <<>>)
  /\ UNCHANGED <<record, due, lock, rmw, mail, gone, crashed, torn>>

(* The scrape itself: the cookies of its context are kept only from a page *)
(* that was really fetched with a 2xx status, and only if it was given a   *)
(* storage state, be it one without cookies.                               *)
Run(p) ==
  /\ AtTrip(p, "run")
  /\ \E fetch_ok, ok2xx \in BOOLEAN, new \in Exported \cup {Missing} :
       /\ new # Missing => caller[p].jar # Missing /\ "text" \notin caller[p].jar
       /\ IF fetch_ok /\ ok2xx /\ new # Missing
          THEN caller' = [caller EXCEPT ![p].jar = new, ![p].todo = <<"store", "unlock">>]
          ELSE Resumes(p, <<"unlock">>)
  /\ Untouched

(* The login. Its payload carries the cookies read before the lock was     *)
(* taken; enqueueing it may fail half-way.                                 *)
Enqueue(p) ==
  /\ AtTrip(p, "enqueue")
  /\ \E sent \in {"payload and task", "payload", "nothing"} :
       /\ mail' = [mail EXCEPT ![p].payload = IF sent = "nothing" THEN @ ELSE caller[p].jar,
                               ![p].task = IF sent = "payload and task" THEN "queued" ELSE @]
       /\ Resumes(p, IF sent = "payload and task" THEN Next1(p) ELSE <<"failed", "unlock">>)
  /\ UNCHANGED <<record, index, due, lock, rmw, gone, crashed, torn>>

Await(p) ==
  /\ AtTrip(p, "await")
  /\ \/ /\ mail[p].result # Missing
        /\ mail' = [mail EXCEPT ![p].result = Missing]
        /\ IF mail[p].result.ok
           THEN caller' = [caller EXCEPT ![p].jar = mail[p].result.jar,
                                         ![p].todo = <<"store", "ready", "unlock">>]
           ELSE Resumes(p, <<"failed", "unlock">>)
     \/ Resumes(p, <<"failed", "unlock">>) /\ UNCHANGED mail  \* past the deadline
  /\ UNCHANGED <<record, index, due, lock, rmw, gone, crashed, torn>>

(* The worker: the payload is consumed by the first delivery, so a second  *)
(* one, after a crash, can only report that; so can one that comes when    *)
(* the key has expired. A step that fails, is refused, or a check of the   *)
(* outcome that does not hold yields no cookies, a working script those of *)
(* its browser context, which may be none.                                 *)
Replayed(jar) ==
  {[ok |-> FALSE, jar |-> {}]}
    \cup {[ok |-> TRUE, jar |-> new] : new \in IF "text" \in Cookies(jar) THEN {} ELSE Exported}

TakeLogin(p) ==
  /\ \/ mail[p].task = "queued" /\ mail' = [mail EXCEPT ![p].task = "running"]
     \/ /\ mail[p].task \in {"queued", "again"}
        /\ mail' = [mail EXCEPT ![p].task = "over", ![p].result = [ok |-> FALSE, jar |-> {}]]
  /\ UNCHANGED <<record, index, due, lock, rmw, caller, gone, crashed, torn>>

EndLogin(p) ==
  /\ mail[p].task = "running"
  /\ \E result \in Replayed(mail[p].payload) :
       mail' = [mail EXCEPT ![p].task = "over", ![p].result = result]
  /\ UNCHANGED <<record, index, due, lock, rmw, caller, gone, crashed, torn>>

Redeliver(p) ==  \* the worker died with the login in hand
  /\ mail[p].task = "running"
  /\ mail' = [mail EXCEPT ![p].task = "again"]
  /\ UNCHANGED <<record, index, due, lock, rmw, caller, gone, crashed, torn>>

(* The process of a caller dies, its locks expire; or Redis fails a round  *)
(* trip, the exception ends the call and what it held is released.         *)
Crash(p) ==
  /\ caller[p].todo # <<>>
  /\ caller' = [caller EXCEPT ![p].todo = <<>>, ![p].copy = Missing, ![p].held = FALSE]
  /\ lock' = [s \in Sids |-> IF lock[s] = p THEN Nobody ELSE lock[s]]
  /\ rmw' = [s \in Sids |-> IF rmw[s] = p THEN Nobody ELSE rmw[s]]
  /\ crashed' = crashed \cup {Sid(p)}
  /\ UNCHANGED <<record, index, due, mail, gone, torn>>

Age(s) ==
  /\ record[s] # Missing /\ due' = due \cup {s} /\ s \notin due
  /\ UNCHANGED <<record, index, lock, rmw, caller, mail, gone, crashed, torn>>

Calls(p) ==
  \/ Start(p) \/ Save(p) \/ Count(p) \/ Evict(p) \/ Present(p) \/ Drop(p) \/ Get(p) \/ Bump(p) \/ Check(p)
  \/ AcquireLock(p) \/ GiveUp(p) \/ Unlock(p) \/ ReadUnderLock(p) \/ WriteUnderLock(p)
  \/ TooLarge(p) \/ Peek(p) \/ Unindex(p) \/ Run(p) \/ Enqueue(p) \/ Await(p)
  \/ TakeLogin(p) \/ EndLogin(p) \/ Redeliver(p) \/ Crash(p)

SNext == (\E p \in Callers : Calls(p)) \/ (\E s \in Sids : Lapse(s) \/ LapseShort(s) \/ Age(s))

SSpec == SInit /\ [][SNext]_svars

-----------------------------------------------------------------------------
(* A session that says logging_in has a login call at work on it, which    *)
(* will set another status: no way out of login() leaves it behind, unless *)
(* the process of the call died, Redis failed it, or a short lock lapsed.  *)
LoggingInHasLogin ==
  \A s \in Sids \ (crashed \cup torn) :
    (record[s] # Missing /\ record[s].status = "logging_in")
      => \E p \in Callers : Sid(p) = s /\ caller[p].call = "login" /\ caller[p].todo # <<>>

(* Until it expires, a session that says ready has a storage state, though *)
(* maybe one without cookies, whoever wrote status and cookies last; and   *)
(* no cookie is stored with a null, a negative or a fractional expiry.     *)
ReadyHasState ==
  \A s \in Sids \ (due \cup torn) : record[s] # Missing =>
    /\ record[s].status = "ready" => record[s].state # Missing
    /\ record[s].state \in Jars \cup {Missing}
=============================================================================
