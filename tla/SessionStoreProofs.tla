------------------------- MODULE SessionStoreProofs -------------------------
(* The sessions of the store, for any sessions, callers and limits: none   *)
(* stays logging_in, and none says ready without a storage state.                  *)
EXTENDS SessionStore, TLAPS

Names == {"none", "create", "read", "delete", "inject", "sweep", "login", "scrape"}

(* What a caller may still have to do.                                     *)
Lines(call) ==
  CASE call = "none"   -> {<<>>}
    [] call = "create" -> {<<"save", "count", "evict", "drop">>, <<"count", "evict", "drop">>, <<"evict", "drop">>,
                           <<"drop">>, <<>>}
    [] call = "read"   -> {<<"get", "bump">>, <<"bump">>, <<>>}
    [] call = "delete" -> {<<"exists", "drop">>, <<"drop">>, <<>>}
    [] call = "inject" -> {<<"get", "bump", "store", "ready">>, <<"bump", "store", "ready">>,
                           <<"store", "ready">>, <<"ready">>, <<>>}
    [] call = "sweep"  -> {<<"peek">>, <<"unindex">>, <<"expire">>, <<>>}
    [] call = "login"  -> {<<"get", "bump", "lock", "logging_in", "enqueue", "await">>,
                           <<"bump", "lock", "logging_in", "enqueue", "await">>,
                           <<"lock", "logging_in", "enqueue", "await">>,
                           <<"logging_in", "enqueue", "await">>, <<"enqueue", "await">>, <<"await">>,
                           <<"failed", "unlock">>, <<"store", "ready", "unlock">>, <<"ready", "unlock">>,
                           <<"unlock">>, <<>>}
    [] call = "scrape" -> {<<"get", "bump", "check", "lock", "get", "bump", "run">>,
                           <<"bump", "check", "lock", "get", "bump", "run">>,
                           <<"check", "lock", "get", "bump", "run">>,
                           <<"lock", "get", "bump", "run">>, <<"get", "bump", "run">>, <<"bump", "run">>,
                           <<"run">>, <<"store", "unlock">>, <<"unlock">>, <<>>}

Op(todo) == IF todo = <<>> THEN "rest" ELSE Head(todo)
Ahead(p) == Op(caller[p].todo)

Record == [status : {"created", "ready", "logging_in", "failed", "expired"}, state : Jars \cup {Missing}, pin : Pins]

Todos == UNION {Lines(call) : call \in Names}

Loaded == (SUBSET Lifetimes) \cup {Missing}
Excess == {Cardinality(S) - MaxSessions : S \in SUBSET Sids} \cup {0}

CallerType ==
  [call : Names, sid : Sids \cup {Missing}, todo : Todos, jar : Loaded, copy : Record \cup {Missing},
   page : Pins \cup {Missing}, excess : Excess, victims : SUBSET Sids, held : BOOLEAN]

(* The letters of a login.                                                 *)
Letters ==
  [task : {"none", "queued", "running", "again", "over"}, payload : Loaded,
   result : [ok : BOOLEAN, jar : SUBSET Lifetimes] \cup {Missing}]

TypeOK ==
  /\ record \in [Sids -> Record \cup {Missing}]
  /\ rmw \in [Sids -> Callers \cup {Nobody}]
  /\ caller \in [Callers -> CallerType]
  /\ index \subseteq Sids
  /\ mail \in [Callers -> Letters]

(* Callers follow their programs.                                          *)
OnLine(c) ==
  /\ c.todo \in Lines(c.call)
  /\ c.call # "none" => c.sid \in Sids
  /\ c.held => c.call \in {"login", "scrape"}

OnTheLine == \A p \in Callers : OnLine(caller[p])

(* The short lock: whoever has a copy is about to write, and holds the     *)
(* lock unless it lapsed.                                                  *)
Exclusive ==
  \A p \in Callers : caller[p].copy # Missing =>
    Ahead(p) \in Modifies /\ (Sid(p) \notin torn => rmw[Sid(p)] = p)

Copied(p, s) == Sid(p) = s /\ caller[p].copy # Missing

(* A login that has yet to set another status than logging_in.             *)
Obliged(p, s) ==
  Sid(p) = s /\ caller[p].call = "login" /\ Ahead(p) \in {"enqueue", "await", "failed", "store", "ready"}

Says(s, status) ==
  \/ record[s] # Missing /\ record[s].status = status
  \/ \E p \in Callers : Copied(p, s) /\ caller[p].copy.status = status

SomeoneObliged ==
  \A s \in Sids \ (crashed \cup torn) : Says(s, "logging_in") => \E p \in Callers : Obliged(p, s)

(* A session without a storage state, in the store or in a copy.           *)
Bare(s) ==
  \/ record[s] # Missing /\ record[s].state = Missing
  \/ \E p \in Callers : Copied(p, s) /\ caller[p].copy.state = Missing

Past(p, s) == Sid(p) = s /\ Ahead(p) = "ready"

StoredFirst ==
  \A s \in Sids \ (due \cup torn) :
    /\ \A p \in Callers : Past(p, s) => ~Bare(s)
    /\ record[s] # Missing /\ record[s].status = "ready" => record[s].state # Missing
    /\ \A p \in Callers : Copied(p, s) /\ caller[p].copy.status = "ready" => caller[p].copy.state # Missing

ExpiresWhatIsDue == \A p \in Callers : Ahead(p) = "expire" => Sid(p) \in due

(* A session no create has saved yet is nobody's business.                 *)
Unborn(s) ==
  s \notin Existing /\ \A p \in Callers : caller[p].call = "create" /\ Sid(p) = s => Ahead(p) = "save"

NothingBeforeBirth ==
  \A s \in Sids : Unborn(s) =>
    record[s] = Missing /\ \A p \in Callers : ~Copied(p, s) /\ ~Past(p, s)

CreatedOnce ==
  \A p \in Callers : caller[p].call = "create" =>
    Sid(p) \notin Existing /\ \A q \in Callers : caller[q].call = "create" /\ Sid(q) = Sid(p) => q = p

StoreInv ==
  TypeOK /\ OnTheLine /\ Exclusive /\ SomeoneObliged /\ StoredFirst /\ ExpiresWhatIsDue
    /\ NothingBeforeBirth /\ CreatedOnce

LEMMA LinesAreTodos == \A call \in Names : \A todo \in Lines(call) : todo \in Todos
  BY DEF Todos

(* A caller with another value in one of its fields is a caller.            *)
LEMMA FieldTyped ==
  ASSUME NEW me \in CallerType
  PROVE  /\ \A call \in Names : [me EXCEPT !.call = call] \in CallerType
         /\ \A sid \in Sids : [me EXCEPT !.sid = sid] \in CallerType
         /\ \A todo \in Todos : [me EXCEPT !.todo = todo] \in CallerType
         /\ \A jar \in Loaded : [me EXCEPT !.jar = jar] \in CallerType
         /\ \A copy \in Record \cup {Missing} : [me EXCEPT !.copy = copy] \in CallerType
         /\ \A page \in Pins \cup {Missing} : [me EXCEPT !.page = page] \in CallerType
         /\ \A excess \in Excess : [me EXCEPT !.excess = excess] \in CallerType
         /\ \A victims \in SUBSET Sids : [me EXCEPT !.victims = victims] \in CallerType
         /\ \A held \in BOOLEAN : [me EXCEPT !.held = held] \in CallerType
  <1> DEFINE J == Loaded
             X == Excess
             C == Record \cup {Missing}
             P == Pins \cup {Missing}
             V == SUBSET Sids
             S == Sids \cup {Missing}
             B == BOOLEAN
  <1>0. CallerType = [call : Names, sid : S, todo : Todos, jar : J, copy : C, page : P, excess : X, victims : V, held : B]
    BY DEF CallerType
  <1> HIDE DEF J, X, C, P, V, S, B
  <1>1. \A todo \in Todos : [me EXCEPT !.todo = todo] \in CallerType
    BY <1>0
  <1>2. \A jar \in J : [me EXCEPT !.jar = jar] \in CallerType
    BY <1>0
  <1>3. \A copy \in C : [me EXCEPT !.copy = copy] \in CallerType
    BY <1>0
  <1>4. \A page \in P : [me EXCEPT !.page = page] \in CallerType
    BY <1>0
  <1>5. \A victims \in V : [me EXCEPT !.victims = victims] \in CallerType
    BY <1>0
  <1>6. \A held \in B : [me EXCEPT !.held = held] \in CallerType
    BY <1>0
  <1>7. \A call \in Names : [me EXCEPT !.call = call] \in CallerType
    BY <1>0
  <1>8. \A sid \in S : [me EXCEPT !.sid = sid] \in CallerType
    BY <1>0
  <1>9. \A excess \in X : [me EXCEPT !.excess = excess] \in CallerType
    BY <1>0
  <1> QED
    BY <1>1, <1>2, <1>3, <1>4, <1>5, <1>6, <1>7, <1>8, <1>9, Zenon DEF J, X, C, P, V, S, B

(* A todo taken one step further is a todo of the same call; what follows  *)
(* what, and who does what.                                                *)
Follows(call, todo) ==
  /\ Op(todo) = "save" => call = "create"
  /\ Op(todo) \in {"peek", "expire"} => call = "sweep"
  /\ Op(todo) \in {"logging_in", "enqueue", "await"} => call = "login"
  /\ Op(todo) = "run" => call = "scrape"
  /\ Op(todo) = "lock" => call \in {"login", "scrape"}
  /\ todo # <<>> =>
       /\ Tail(todo) \in Lines(call)
       /\ Op(Tail(todo)) \notin {"save", "expire"}
       /\ Op(Tail(todo)) = "ready" => Op(todo) = "store"
       /\ Op(todo) = "logging_in" => Op(Tail(todo)) = "enqueue"
       /\ Op(todo) = "enqueue" => Op(Tail(todo)) = "await"
       /\ Op(todo) = "store" /\ call = "login" => Op(Tail(todo)) = "ready"

LEMMA LinesFollow == \A call \in Names : \A todo \in Lines(call) : Follows(call, todo)
  <1> SUFFICES ASSUME NEW call \in Names, NEW todo \in Lines(call) PROVE Follows(call, todo)
    OBVIOUS
  <1>1. CASE call = "none"
    <2>1. CASE todo = <<>>
      BY <1>1, <2>1 DEF Follows, Op, Lines
    <2> QED
      BY <1>1, <2>1 DEF Lines
  <1>2. CASE call = "create"
    <2>1. CASE todo = <<"save", "count", "evict", "drop">>
      BY <1>2, <2>1 DEF Follows, Op, Lines
    <2>5. CASE todo = <<"count", "evict", "drop">>
      BY <1>2, <2>5 DEF Follows, Op, Lines
    <2>2. CASE todo = <<"evict", "drop">>
      BY <1>2, <2>2 DEF Follows, Op, Lines
    <2>3. CASE todo = <<"drop">>
      BY <1>2, <2>3 DEF Follows, Op, Lines
    <2>4. CASE todo = <<>>
      BY <1>2, <2>4 DEF Follows, Op, Lines
    <2> QED
      BY <1>2, <2>1, <2>2, <2>3, <2>4, <2>5 DEF Lines
  <1>3. CASE call = "read"
    <2>1. CASE todo = <<"get", "bump">>
      BY <1>3, <2>1 DEF Follows, Op, Lines
    <2>2. CASE todo = <<"bump">>
      BY <1>3, <2>2 DEF Follows, Op, Lines
    <2>3. CASE todo = <<>>
      BY <1>3, <2>3 DEF Follows, Op, Lines
    <2> QED
      BY <1>3, <2>1, <2>2, <2>3 DEF Lines
  <1>4. CASE call = "delete"
    <2>1. CASE todo = <<"exists", "drop">>
      BY <1>4, <2>1 DEF Follows, Op, Lines
    <2>2. CASE todo = <<"drop">>
      BY <1>4, <2>2 DEF Follows, Op, Lines
    <2>3. CASE todo = <<>>
      BY <1>4, <2>3 DEF Follows, Op, Lines
    <2> QED
      BY <1>4, <2>1, <2>2, <2>3 DEF Lines
  <1>5. CASE call = "inject"
    <2>1. CASE todo = <<"get", "bump", "store", "ready">>
      BY <1>5, <2>1 DEF Follows, Op, Lines
    <2>2. CASE todo = <<"bump", "store", "ready">>
      BY <1>5, <2>2 DEF Follows, Op, Lines
    <2>3. CASE todo = <<"store", "ready">>
      BY <1>5, <2>3 DEF Follows, Op, Lines
    <2>4. CASE todo = <<"ready">>
      BY <1>5, <2>4 DEF Follows, Op, Lines
    <2>5. CASE todo = <<>>
      BY <1>5, <2>5 DEF Follows, Op, Lines
    <2> QED
      BY <1>5, <2>1, <2>2, <2>3, <2>4, <2>5 DEF Lines
  <1>6. CASE call = "sweep"
    <2>1. CASE todo = <<"peek">>
      BY <1>6, <2>1 DEF Follows, Op, Lines
    <2>2. CASE todo = <<"unindex">>
      BY <1>6, <2>2 DEF Follows, Op, Lines
    <2>3. CASE todo = <<"expire">>
      BY <1>6, <2>3 DEF Follows, Op, Lines
    <2>4. CASE todo = <<>>
      BY <1>6, <2>4 DEF Follows, Op, Lines
    <2> QED
      BY <1>6, <2>1, <2>2, <2>3, <2>4 DEF Lines
  <1>7. CASE call = "login"
    <2>1. CASE todo = <<"get", "bump", "lock", "logging_in", "enqueue", "await">>
      BY <1>7, <2>1 DEF Follows, Op, Lines
    <2>2. CASE todo = <<"bump", "lock", "logging_in", "enqueue", "await">>
      BY <1>7, <2>2 DEF Follows, Op, Lines
    <2>3. CASE todo = <<"lock", "logging_in", "enqueue", "await">>
      BY <1>7, <2>3 DEF Follows, Op, Lines
    <2>4. CASE todo = <<"logging_in", "enqueue", "await">>
      BY <1>7, <2>4 DEF Follows, Op, Lines
    <2>5. CASE todo = <<"enqueue", "await">>
      BY <1>7, <2>5 DEF Follows, Op, Lines
    <2>6. CASE todo = <<"await">>
      BY <1>7, <2>6 DEF Follows, Op, Lines
    <2>7. CASE todo = <<"failed", "unlock">>
      BY <1>7, <2>7 DEF Follows, Op, Lines
    <2>8. CASE todo = <<"store", "ready", "unlock">>
      BY <1>7, <2>8 DEF Follows, Op, Lines
    <2>9. CASE todo = <<"ready", "unlock">>
      BY <1>7, <2>9 DEF Follows, Op, Lines
    <2>10. CASE todo = <<"unlock">>
      BY <1>7, <2>10 DEF Follows, Op, Lines
    <2>11. CASE todo = <<>>
      BY <1>7, <2>11 DEF Follows, Op, Lines
    <2> QED
      BY <1>7, <2>1, <2>2, <2>3, <2>4, <2>5, <2>6, <2>7, <2>8, <2>9, <2>10, <2>11 DEF Lines
  <1>8. CASE call = "scrape"
    <2>1. CASE todo = <<"get", "bump", "check", "lock", "get", "bump", "run">>
      BY <1>8, <2>1 DEF Follows, Op, Lines
    <2>2. CASE todo = <<"bump", "check", "lock", "get", "bump", "run">>
      BY <1>8, <2>2 DEF Follows, Op, Lines
    <2>3. CASE todo = <<"check", "lock", "get", "bump", "run">>
      BY <1>8, <2>3 DEF Follows, Op, Lines
    <2>4. CASE todo = <<"lock", "get", "bump", "run">>
      BY <1>8, <2>4 DEF Follows, Op, Lines
    <2>5. CASE todo = <<"get", "bump", "run">>
      BY <1>8, <2>5 DEF Follows, Op, Lines
    <2>6. CASE todo = <<"bump", "run">>
      BY <1>8, <2>6 DEF Follows, Op, Lines
    <2>7. CASE todo = <<"run">>
      BY <1>8, <2>7 DEF Follows, Op, Lines
    <2>8. CASE todo = <<"store", "unlock">>
      BY <1>8, <2>8 DEF Follows, Op, Lines
    <2>9. CASE todo = <<"unlock">>
      BY <1>8, <2>9 DEF Follows, Op, Lines
    <2>10. CASE todo = <<>>
      BY <1>8, <2>10 DEF Follows, Op, Lines
    <2> QED
      BY <1>8, <2>1, <2>2, <2>3, <2>4, <2>5, <2>6, <2>7, <2>8, <2>9, <2>10 DEF Lines
  <1> QED
    BY <1>1, <1>2, <1>3, <1>4, <1>5, <1>6, <1>7, <1>8 DEF Names

LEMMA StoreInit == SInit => StoreInv
  <1> SUFFICES ASSUME SInit PROVE StoreInv
    OBVIOUS
  <1> USE DEF SInit
  <1>1. PICK pin \in Pins : record = [s \in Sids |-> IF s \in Existing THEN NewRecord(pin) ELSE Missing]
    OBVIOUS
  <1>2. \A p \in Callers : /\ caller[p] = AtRest /\ caller[p].call = "none" /\ caller[p].todo = <<>>
                           /\ caller[p].copy = Missing /\ caller[p].held = FALSE /\ Ahead(p) = "rest"
    BY DEF AtRest, Ahead, Op
  <1>3. NewRecord(pin) \in Record
    BY DEF NewRecord, Record
  <1>4. <<>> \in Lines("none") /\ "none" \in Names
    BY DEF Lines, Names
  <1>5. TypeOK
    <2>1. {} \in Loaded /\ Missing \in Loaded /\ 0 \in Excess
      BY DEF Loaded, Excess
    <2>2. AtRest \in CallerType
      BY <1>4, <2>1, LinesAreTodos DEF CallerType, AtRest
    <2> QED
      BY <1>1, <1>3, <2>1, <2>2, StoreAssumption DEF TypeOK, Letters
  <1>6. OnTheLine
    BY <1>2, <1>4 DEF OnTheLine, OnLine
  <1>7. Exclusive /\ ExpiresWhatIsDue /\ CreatedOnce
    BY <1>2 DEF Exclusive, ExpiresWhatIsDue, CreatedOnce
  <1>8. \A s \in Sids : record[s] = Missing \/ (s \in Existing /\ record[s].status = "created")
    BY <1>1 DEF NewRecord
  <1>9. SomeoneObliged /\ StoredFirst
    BY <1>2, <1>8 DEF SomeoneObliged, StoredFirst, Says, Copied, Past
  <1>10. NothingBeforeBirth
    BY <1>1, <1>2 DEF NothingBeforeBirth, Unborn, Copied, Past
  <1> QED
    BY <1>5, <1>6, <1>7, <1>9, <1>10 DEF StoreInv

-----------------------------------------------------------------------------
(* Every step keeps the types and its caller's program.                    *)

Duties == {"enqueue", "await", "failed", "store", "ready"}

(* c is what becomes of caller p by a step on which no record depends.     *)
GoesOn(p, c) ==
  /\ c \in CallerType /\ OnLine(c)
  /\ c.sid = caller[p].sid /\ c.call = caller[p].call
  /\ c.copy = Missing /\ caller[p].copy = Missing
  /\ Op(c.todo) \notin {"ready", "save"}
  /\ Op(c.todo) = "expire" => c.sid \in due
  /\ c.call = "login" /\ Ahead(p) \in Duties => Op(c.todo) \in Duties

(* A step that is nobody's business: caller p goes on, records may go.     *)
Walks(p) ==
  /\ \E c \in CallerType : GoesOn(p, c) /\ caller' = [caller EXCEPT ![p] = c]
  /\ \A s \in Sids : record'[s] \in {record[s], Missing}
  /\ record' \in [Sids -> Record \cup {Missing}] /\ index' \subseteq Sids
  /\ mail' \in [Callers -> Letters]
  /\ UNCHANGED <<rmw, due, crashed, torn>>

LEMMA AtWork ==
  ASSUME TypeOK, OnTheLine, Exclusive, NEW p \in Callers
  PROVE  /\ Follows(caller[p].call, caller[p].todo) /\ caller[p] \in CallerType /\ OnLine(caller[p])
         /\ caller[p].todo # <<>> =>
              caller[p].call # "none" /\ Sid(p) \in Sids /\ Ahead(p) = Head(caller[p].todo)
         /\ Ahead(p) \notin Modifies => caller[p].copy = Missing
  <1>1. caller[p] \in CallerType /\ OnLine(caller[p])
    BY DEF TypeOK, OnTheLine
  <1>2. caller[p].call \in Names /\ caller[p].todo \in Lines(caller[p].call)
    BY <1>1 DEF CallerType, OnLine
  <1>3. caller[p].todo # <<>> => caller[p].call # "none"
    BY <1>2 DEF Lines
  <1>4. caller[p].call # "none" => Sid(p) \in Sids
    BY <1>1 DEF OnLine, Sid
  <1> QED
    BY <1>1, <1>2, <1>3, <1>4, LinesFollow DEF Ahead, Op, Exclusive

(* What may be left of a call that is cut short.                           *)
LEMMA CutShort ==
  /\ \A call \in Names : <<>> \in Lines(call)
  /\ \A call \in {"login", "scrape"} : <<"unlock">> \in Lines(call)
  /\ <<"failed", "unlock">> \in Lines("login") /\ <<"store", "ready", "unlock">> \in Lines("login")
  /\ <<"store", "unlock">> \in Lines("scrape")
  /\ <<"unindex">> \in Lines("sweep") /\ <<"expire">> \in Lines("sweep")
  /\ Op(<<>>) = "rest" /\ Op(<<"unlock">>) = "unlock" /\ Op(<<"failed", "unlock">>) = "failed"
  /\ Op(<<"store", "ready", "unlock">>) = "store" /\ Op(<<"store", "unlock">>) = "store"
  /\ Op(<<"unindex">>) = "unindex" /\ Op(<<"expire">>) = "expire"
  <1>1. \A call \in Names : <<>> \in Lines(call)
    BY DEF Names, Lines
  <1>2. \A call \in {"login", "scrape"} : <<"unlock">> \in Lines(call)
    BY DEF Lines
  <1>3. <<"failed", "unlock">> \in Lines("login") /\ <<"store", "ready", "unlock">> \in Lines("login")
    BY DEF Lines
  <1>4. <<"store", "unlock">> \in Lines("scrape")
    BY DEF Lines
  <1>5. <<"unindex">> \in Lines("sweep") /\ <<"expire">> \in Lines("sweep")
    BY DEF Lines
  <1>6. Op(<<>>) = "rest" /\ Op(<<"unlock">>) = "unlock" /\ Op(<<"failed", "unlock">>) = "failed"
    BY DEF Op
  <1>7. Op(<<"store", "ready", "unlock">>) = "store" /\ Op(<<"store", "unlock">>) = "store"
    BY DEF Op
  <1>8. Op(<<"unindex">>) = "unindex" /\ Op(<<"expire">>) = "expire"
    BY DEF Op
  <1> QED
    BY <1>1, <1>2, <1>3, <1>4, <1>5, <1>6, <1>7, <1>8

(* A step that only changes one caller's todo, and at most its jar, page,  *)
(* victims and lock: where it may lead.                                    *)
LEMMA WhereToGo ==
  ASSUME TypeOK, OnTheLine, Exclusive, NEW p \in Callers, caller[p].todo # <<>>, caller[p].copy = Missing
  PROVE  /\ Ahead(p) \notin {"store", "failed", "ready", "await"} =>
              /\ Tail(caller[p].todo) \in Lines(caller[p].call)
              /\ Op(Tail(caller[p].todo)) \notin {"ready", "save", "expire"}
              /\ Ahead(p) \in Duties => Op(Tail(caller[p].todo)) \in Duties
         /\ <<>> \in Lines(caller[p].call) /\ Out(p) \in Lines(caller[p].call)
         /\ Op(Out(p)) \in {"rest", "unlock"}
  <1>1. Tail(caller[p].todo) \in Lines(caller[p].call)
    BY AtWork DEF Follows
  <1>2. Ahead(p) \notin {"store", "failed", "ready", "await"} =>
          /\ Op(Tail(caller[p].todo)) \notin {"ready", "save", "expire"}
          /\ Ahead(p) \in Duties => Op(Tail(caller[p].todo)) \in Duties
    BY AtWork DEF Follows, Duties, Ahead
  <1>3. caller[p].call \in Names /\ (caller[p].held => caller[p].call \in {"login", "scrape"})
    BY AtWork DEF CallerType, OnLine
  <1> QED
    BY <1>1, <1>2, <1>3, CutShort DEF Out

(* A step to c, with the records and the letters as they were.             *)
LEMMA QuietWalk ==
  ASSUME TypeOK, NEW p \in Callers, NEW c \in CallerType, GoesOn(p, c), caller' = [caller EXCEPT ![p] = c],
         UNCHANGED <<record, due, rmw, mail, crashed, torn>>, index' \subseteq Sids
  PROVE  Walks(p)
  BY DEF Walks, TypeOK

(* A create whose pins are refused.                                        *)
SaveRefused(p) == AtTrip(p, "save") /\ Resumes(p, <<>>) /\ index' = index /\ Untouched

LEMMA CallWalks ==
  ASSUME TypeOK, OnTheLine, Exclusive, NEW p \in Callers,
         \/ SaveRefused(p) \/ Count(p) \/ Evict(p) \/ Present(p) \/ Drop(p) \/ Get(p) \/ Bump(p) \/ Check(p)
         \/ AcquireLock(p) \/ GiveUp(p) \/ Unlock(p) \/ TooLarge(p) \/ Peek(p) \/ Unindex(p) \/ Run(p)
         \/ Enqueue(p) \/ Await(p)
  PROVE  Walks(p)
  <1> DEFINE me == caller[p]
             rest == Tail(me.todo)
  <1>0. /\ me.todo # <<>> /\ me.copy = Missing /\ Sid(p) \in Sids /\ me \in CallerType /\ OnLine(me)
        /\ me.call # "none" /\ me.call \in Names /\ Ahead(p) = Head(me.todo)
    BY AtWork DEF SaveRefused, Count, Evict, Present, Drop, Get, Bump, Check, AcquireLock, GiveUp, Unlock, TooLarge, Peek,
      Unindex, Run, Enqueue, Await, AtTrip, Modifies, CallerType
  <1>1. /\ Ahead(p) \notin {"store", "failed", "ready", "await"} =>
              /\ rest \in Lines(me.call) /\ rest \in UNION {Lines(c) : c \in Names}
              /\ Op(rest) \notin {"ready", "save", "expire"} /\ (Ahead(p) \in Duties => Op(rest) \in Duties)
        /\ <<>> \in Lines(me.call) /\ <<>> \in UNION {Lines(c) : c \in Names}
        /\ Out(p) \in Lines(me.call) /\ Out(p) \in UNION {Lines(c) : c \in Names}
        /\ Op(Out(p)) \in {"rest", "unlock"} /\ Op(<<>>) = "rest"
    BY <1>0, WhereToGo, CutShort
  <1>2. index \subseteq Sids /\ record \in [Sids -> Record \cup {Missing}]
    BY DEF TypeOK
  <1>3. Follows(me.call, me.todo)
    BY AtWork
  <1>4. CASE SaveRefused(p)
    <2>1. Ahead(p) = "save"
      BY <1>0, <1>4 DEF SaveRefused, AtTrip
    <2>2. caller' = [caller EXCEPT ![p].todo = <<>>]
      BY <1>0, <1>4, <2>1 DEF SaveRefused, Resumes, Next1
    <2> DEFINE c == [me EXCEPT !.todo = <<>>]
    <2>3. c \in CallerType
      BY <1>0, <1>1, <1>2, <2>1, FieldTyped, LinesAreTodos
    <2>4. GoesOn(p, c)
      BY <1>0, <1>1, <2>1, <2>3 DEF GoesOn, OnLine, CallerType, Duties
    <2>5. caller' = [caller EXCEPT ![p] = c]
      BY <2>2
    <2> QED
      BY <1>0, <1>2, <1>4, <2>3, <2>4, <2>5, QuietWalk DEF SaveRefused, Untouched
  <1>5. CASE Evict(p)
    <2>1. Ahead(p) = "evict"
      BY <1>0, <1>5 DEF Evict, AtTrip
    <2>2. PICK victims \in SUBSET index, todo \in {<<>>, rest} :
            caller' = [caller EXCEPT ![p].victims = victims, ![p].todo = todo]
      BY <1>5 DEF Evict, Next1
    <2> DEFINE c == [me EXCEPT !.victims = victims, !.todo = todo]
    <2>3. c \in CallerType
      <3>1. victims \in SUBSET Sids /\ todo \in Todos
        BY <1>0, <1>1, <1>2, <2>1, LinesAreTodos
      <3> QED
        BY <1>0, <3>1, FieldTyped
    <2>4. GoesOn(p, c)
      BY <1>0, <1>1, <2>1, <2>3 DEF GoesOn, OnLine, CallerType, Duties
    <2>5. caller' = [caller EXCEPT ![p] = c]
      BY <2>2
    <2> QED
      BY <1>0, <1>2, <1>5, <2>3, <2>4, <2>5, QuietWalk DEF Evict, Untouched
  <1>20. CASE Count(p)
    <2>1. Ahead(p) = "count"
      BY <1>0, <1>20 DEF Count, AtTrip
    <2>2. CASE Resumes(p, <<>>)
      <3> DEFINE c == [me EXCEPT !.todo = <<>>]
      <3>1. c \in CallerType
        BY <1>0, <1>1, <1>2, <2>1, FieldTyped, LinesAreTodos
      <3>2. GoesOn(p, c)
        BY <1>0, <1>1, <2>1, <3>1 DEF GoesOn, OnLine, CallerType, Duties
      <3>3. caller' = [caller EXCEPT ![p] = c]
        BY <2>2 DEF Resumes
      <3> QED
        BY <1>0, <1>2, <1>20, <3>1, <3>2, <3>3, QuietWalk DEF Count, Untouched
    <2>3. CASE caller' = [caller EXCEPT ![p].excess = Cardinality(index) - MaxSessions, ![p].todo = rest]
      <3>1. Cardinality(index) - MaxSessions \in Excess
        BY <1>2 DEF Excess
      <3>2. PICK excess \in Excess : excess = Cardinality(index) - MaxSessions
        BY <3>1
      <3> DEFINE c == [me EXCEPT !.excess = excess, !.todo = rest]
      <3>3. c \in CallerType
        BY <1>0, <1>1, <1>2, <2>1, FieldTyped, LinesAreTodos
      <3>4. GoesOn(p, c)
        BY <1>0, <1>1, <2>1, <3>3 DEF GoesOn, OnLine, CallerType, Duties
      <3>5. caller' = [caller EXCEPT ![p] = c]
        BY <2>3, <3>2
      <3> QED
        BY <1>0, <1>2, <1>20, <3>3, <3>4, <3>5, QuietWalk DEF Count, Untouched
    <2> QED
      BY <1>20, <2>2, <2>3 DEF Count, Next1
  <1>6. CASE Bump(p)
    <2>1. Ahead(p) = "bump"
      BY <1>0, <1>6 DEF Bump, AtTrip
    <2>2. caller' = [caller EXCEPT ![p].todo = rest]
      BY <1>0, <1>6, <2>1 DEF Bump, Resumes, Next1
    <2> DEFINE c == [me EXCEPT !.todo = rest]
    <2>3. c \in CallerType
      BY <1>0, <1>1, <1>2, <2>1, FieldTyped, LinesAreTodos
    <2>4. GoesOn(p, c)
      BY <1>0, <1>1, <2>1, <2>3 DEF GoesOn, OnLine, CallerType, Duties
    <2>5. caller' = [caller EXCEPT ![p] = c]
      BY <2>2
    <2> QED
      BY <1>0, <1>2, <1>6, <2>3, <2>4, <2>5, QuietWalk DEF Bump, Untouched
  <1>7. CASE Check(p)
    <2>1. Ahead(p) = "check"
      BY <1>0, <1>7 DEF Check, AtTrip
    <2>2. PICK todo \in {rest, <<>>} : caller' = [caller EXCEPT ![p].todo = todo]
      BY <1>7 DEF Check, Resumes, Next1
    <2> DEFINE c == [me EXCEPT !.todo = todo]
    <2>3. c \in CallerType
      BY <1>0, <1>1, <1>2, <2>1, FieldTyped, LinesAreTodos
    <2>4. GoesOn(p, c)
      BY <1>0, <1>1, <2>1, <2>3 DEF GoesOn, OnLine, CallerType, Duties
    <2>5. caller' = [caller EXCEPT ![p] = c]
      BY <2>2
    <2> QED
      BY <1>0, <1>2, <1>7, <2>3, <2>4, <2>5, QuietWalk DEF Check, Untouched
  <1>8. CASE AcquireLock(p)
    <2>1. Ahead(p) = "lock"
      BY <1>0, <1>8 DEF AcquireLock, AtTrip
    <2>2. caller' = [caller EXCEPT ![p].held = TRUE, ![p].todo = rest]
      BY <1>0, <1>8, <2>1 DEF AcquireLock, Resumes, Next1
    <2> DEFINE c == [me EXCEPT !.held = TRUE, !.todo = rest]
    <2>3. c \in CallerType
      BY <1>0, <1>1, <1>2, <2>1, FieldTyped, LinesAreTodos
    <2>4. GoesOn(p, c)
      BY <1>0, <1>1, <1>3, <2>1, <2>3 DEF Follows, Ahead, GoesOn, OnLine, CallerType, Duties
    <2>5. caller' = [caller EXCEPT ![p] = c]
      BY <2>2
    <2> QED
      BY <1>0, <1>2, <1>8, <2>3, <2>4, <2>5, QuietWalk DEF AcquireLock, Untouched
  <1>9. CASE GiveUp(p)
    <2>1. Ahead(p) = "lock"
      BY <1>0, <1>9 DEF GiveUp, AtTrip
    <2>2. caller' = [caller EXCEPT ![p].todo = <<>>]
      BY <1>0, <1>9, <2>1 DEF GiveUp, Resumes, Next1
    <2> DEFINE c == [me EXCEPT !.todo = <<>>]
    <2>3. c \in CallerType
      BY <1>0, <1>1, <1>2, <2>1, FieldTyped, LinesAreTodos
    <2>4. GoesOn(p, c)
      BY <1>0, <1>1, <2>1, <2>3 DEF GoesOn, OnLine, CallerType, Duties
    <2>5. caller' = [caller EXCEPT ![p] = c]
      BY <2>2
    <2> QED
      BY <1>0, <1>2, <1>9, <2>3, <2>4, <2>5, QuietWalk DEF GiveUp, Untouched
  <1>10. CASE Unlock(p)
    <2>1. Ahead(p) = "unlock"
      BY <1>0, <1>10 DEF Unlock, AtTrip
    <2>2. caller' = [caller EXCEPT ![p].held = FALSE, ![p].todo = rest]
      BY <1>0, <1>10, <2>1 DEF Unlock, Resumes, Next1
    <2> DEFINE c == [me EXCEPT !.held = FALSE, !.todo = rest]
    <2>3. c \in CallerType
      BY <1>0, <1>1, <1>2, <2>1, FieldTyped, LinesAreTodos
    <2>4. GoesOn(p, c)
      BY <1>0, <1>1, <2>1, <2>3 DEF GoesOn, OnLine, CallerType, Duties
    <2>5. caller' = [caller EXCEPT ![p] = c]
      BY <2>2
    <2> QED
      BY <1>0, <1>2, <1>10, <2>3, <2>4, <2>5, QuietWalk DEF Unlock, Untouched
  <1>11. CASE Unindex(p)
    <2>1. Ahead(p) = "unindex"
      BY <1>0, <1>11 DEF Unindex, AtTrip
    <2>2. caller' = [caller EXCEPT ![p].todo = <<>>]
      BY <1>0, <1>11, <2>1 DEF Unindex, Resumes, Next1
    <2> DEFINE c == [me EXCEPT !.todo = <<>>]
    <2>3. c \in CallerType
      BY <1>0, <1>1, <1>2, <2>1, FieldTyped, LinesAreTodos
    <2>4. GoesOn(p, c)
      BY <1>0, <1>1, <2>1, <2>3 DEF GoesOn, OnLine, CallerType, Duties
    <2>5. caller' = [caller EXCEPT ![p] = c]
      BY <2>2
    <2> QED
      BY <1>0, <1>2, <1>11, <2>3, <2>4, <2>5, QuietWalk DEF Unindex, Untouched
  <1>12. CASE Present(p)
    <2>1. Ahead(p) = "exists"
      BY <1>0, <1>12 DEF Present, AtTrip
    <2>2. CASE Rec(p) = Missing
      <3> DEFINE c == [me EXCEPT !.todo = <<>>]
      <3>1. c \in CallerType
        BY <1>0, <1>1, <1>2, <2>1, <2>2, FieldTyped, LinesAreTodos
      <3>2. GoesOn(p, c)
        BY <1>0, <1>1, <1>3, <2>1, <2>2, <3>1, CutShort
        DEF GoesOn, OnLine, CallerType, Duties, Follows, Ahead, Sid, Rec
      <3>3. caller' = [caller EXCEPT ![p] = c]
        BY <1>0, <1>12, <2>1, <2>2 DEF Present, Resumes, Next1
      <3> QED
        BY <1>0, <1>2, <1>12, <3>1, <3>2, <3>3, QuietWalk DEF Present, Untouched
    <2>3. CASE Rec(p) # Missing
      <3> DEFINE c == [me EXCEPT !.victims = {Sid(p)}, !.todo = rest]
      <3>1. c \in CallerType
        BY <1>0, <1>1, <1>2, <2>1, <2>3, FieldTyped, LinesAreTodos
      <3>2. GoesOn(p, c)
        BY <1>0, <1>1, <1>3, <2>1, <2>3, <3>1, CutShort
        DEF GoesOn, OnLine, CallerType, Duties, Follows, Ahead, Sid, Rec
      <3>3. caller' = [caller EXCEPT ![p] = c]
        BY <1>0, <1>12, <2>1, <2>3 DEF Present, Resumes, Next1
      <3> QED
        BY <1>0, <1>2, <1>12, <3>1, <3>2, <3>3, QuietWalk DEF Present, Untouched
    <2> QED
      BY <2>2, <2>3
  <1>13. CASE Get(p)
    <2>1. Ahead(p) = "get"
      BY <1>0, <1>13 DEF Get, AtTrip
    <2>2. CASE Rec(p) = Missing \/ Sid(p) \in due
      <3> DEFINE c == [me EXCEPT !.todo = Out(p)]
      <3>1. c \in CallerType
        BY <1>0, <1>1, <1>2, <2>1, <2>2, FieldTyped, LinesAreTodos
      <3>2. GoesOn(p, c)
        BY <1>0, <1>1, <1>3, <2>1, <2>2, <3>1, CutShort
        DEF GoesOn, OnLine, CallerType, Duties, Follows, Ahead, Sid, Rec
      <3>3. caller' = [caller EXCEPT ![p] = c]
        BY <1>0, <1>13, <2>1, <2>2 DEF Get, Resumes, Next1
      <3> QED
        BY <1>0, <1>2, <1>13, <3>1, <3>2, <3>3, QuietWalk DEF Get, Untouched
    <2>3. CASE ~(Rec(p) = Missing \/ Sid(p) \in due)
      <3> DEFINE c == [me EXCEPT !.todo = rest,
                                 !.jar = Rec(p).state,
                                 !.page = IF me.call = "scrape" /\ ~me.held THEN Rec(p).pin ELSE Missing]
      <3>1. c \in CallerType
        <4>1. Rec(p) \in Record
          BY <1>0, <1>2, <2>3 DEF Rec, Sid
        <4> DEFINE jar == Rec(p).state
                   page == IF me.call = "scrape" /\ ~me.held THEN Rec(p).pin ELSE Missing
        <4>2. jar \in Loaded
          BY <4>1 DEF Record, Loaded, Jars, Lifetimes
        <4>3. page \in Pins \cup {Missing}
          BY <4>1 DEF Record
        <4> HIDE DEF jar, page
        <4>4. [me EXCEPT !.todo = rest, !.jar = jar, !.page = page] \in CallerType
          BY <1>0, <1>1, <2>1, <4>2, <4>3, FieldTyped, LinesAreTodos
        <4> QED
          BY <4>4 DEF jar, page
      <3>2. GoesOn(p, c)
        <4>1. c.todo = rest /\ c.sid = me.sid /\ c.call = me.call /\ c.copy = me.copy /\ c.held = me.held
          BY <1>0 DEF CallerType
        <4> HIDE DEF c, rest
        <4> QED
          BY <1>0, <1>1, <2>1, <3>1, <4>1 DEF GoesOn, OnLine, Duties, rest
      <3>3. caller' = [caller EXCEPT ![p] = c]
        BY <1>0, <1>13, <2>1, <2>3 DEF Get, Resumes, Next1
      <3> QED
        BY <1>0, <1>2, <1>13, <3>1, <3>2, <3>3, QuietWalk DEF Get, Untouched
    <2> QED
      BY <2>2, <2>3
  <1>14. CASE TooLarge(p)
    <2>1. Ahead(p) = "store"
      BY <1>0, <1>14 DEF TooLarge, AtTrip
    <2>2. CASE me.call = "login"
      <3> DEFINE c == [me EXCEPT !.todo = <<"failed", "unlock">>]
      <3>1. c \in CallerType
        BY <1>0, <1>1, <1>2, <2>1, <2>2, CutShort, FieldTyped, LinesAreTodos
      <3>2. GoesOn(p, c)
        BY <1>0, <1>1, <1>3, <2>1, <2>2, <3>1, CutShort
        DEF GoesOn, OnLine, CallerType, Duties, Follows, Ahead, Sid, Rec
      <3>3. caller' = [caller EXCEPT ![p] = c]
        BY <1>0, <1>14, <2>1, <2>2 DEF TooLarge, Resumes, Next1
      <3> QED
        BY <1>0, <1>2, <1>14, <3>1, <3>2, <3>3, QuietWalk DEF TooLarge, Untouched
    <2>3. CASE me.call # "login"
      <3> DEFINE c == [me EXCEPT !.todo = Out(p)]
      <3>1. c \in CallerType
        BY <1>0, <1>1, <1>2, <2>1, <2>3, FieldTyped, LinesAreTodos
      <3>2. GoesOn(p, c)
        BY <1>0, <1>1, <1>3, <2>1, <2>3, <3>1, CutShort
        DEF GoesOn, OnLine, CallerType, Duties, Follows, Ahead, Sid, Rec
      <3>3. caller' = [caller EXCEPT ![p] = c]
        BY <1>0, <1>14, <2>1, <2>3 DEF TooLarge, Resumes, Next1
      <3> QED
        BY <1>0, <1>2, <1>14, <3>1, <3>2, <3>3, QuietWalk DEF TooLarge, Untouched
    <2> QED
      BY <2>2, <2>3
  <1>15. CASE Peek(p)
    <2>1. Ahead(p) = "peek"
      BY <1>0, <1>15 DEF Peek, AtTrip
    <2>2. CASE Rec(p) = Missing
      <3> DEFINE c == [me EXCEPT !.todo = <<"unindex">>]
      <3>1. c \in CallerType
        BY <1>0, <1>1, <1>2, <2>1, <2>2, <1>3, CutShort, FieldTyped, LinesAreTodos DEF Follows, Ahead, Op
      <3>2. GoesOn(p, c)
        BY <1>0, <1>1, <1>3, <2>1, <2>2, <3>1, CutShort
        DEF GoesOn, OnLine, CallerType, Duties, Follows, Ahead, Sid, Rec
      <3>3. caller' = [caller EXCEPT ![p] = c]
        BY <1>0, <1>15, <2>1, <2>2 DEF Peek, Resumes, Next1
      <3> QED
        BY <1>0, <1>2, <1>15, <3>1, <3>2, <3>3, QuietWalk DEF Peek, Untouched
    <2>3. CASE Rec(p) # Missing /\ Sid(p) \in due
      <3> DEFINE c == [me EXCEPT !.todo = <<"expire">>]
      <3>1. c \in CallerType
        BY <1>0, <1>1, <1>2, <2>1, <2>3, <1>3, CutShort, FieldTyped, LinesAreTodos DEF Follows, Ahead, Op
      <3>2. GoesOn(p, c)
        BY <1>0, <1>1, <1>3, <2>1, <2>3, <3>1, CutShort
        DEF GoesOn, OnLine, CallerType, Duties, Follows, Ahead, Sid, Rec
      <3>3. caller' = [caller EXCEPT ![p] = c]
        BY <1>0, <1>15, <2>1, <2>3 DEF Peek, Resumes, Next1
      <3> QED
        BY <1>0, <1>2, <1>15, <3>1, <3>2, <3>3, QuietWalk DEF Peek, Untouched
    <2>4. CASE Rec(p) # Missing /\ Sid(p) \notin due
      <3> DEFINE c == [me EXCEPT !.todo = <<>>]
      <3>1. c \in CallerType
        BY <1>0, <1>1, <1>2, <2>1, <2>4, FieldTyped, LinesAreTodos
      <3>2. GoesOn(p, c)
        BY <1>0, <1>1, <1>3, <2>1, <2>4, <3>1, CutShort
        DEF GoesOn, OnLine, CallerType, Duties, Follows, Ahead, Sid, Rec
      <3>3. caller' = [caller EXCEPT ![p] = c]
        BY <1>0, <1>15, <2>1, <2>4 DEF Peek, Resumes, Next1
      <3> QED
        BY <1>0, <1>2, <1>15, <3>1, <3>2, <3>3, QuietWalk DEF Peek, Untouched
    <2> QED
      BY <2>2, <2>3, <2>4
  <1>16. CASE Drop(p)
    <2>1. Ahead(p) = "drop"
      BY <1>0, <1>16 DEF Drop, AtTrip
    <2>2. PICK s \in me.victims, todo \in {me.todo, rest} :
            /\ caller' = [caller EXCEPT ![p].victims = @ \ {s}, ![p].todo = todo]
            /\ record' = [record EXCEPT ![s] = Missing]
            /\ index' = index \ {s}
      BY <1>16 DEF Drop, Next1
    <2> DEFINE c == [me EXCEPT !.victims = @ \ {s}, !.todo = todo]
    <2>3. c \in CallerType
      <3>1. me.victims \ {s} \in SUBSET Sids /\ todo \in Todos
        BY <1>0, <1>1, <2>1, LinesAreTodos DEF CallerType
      <3> HIDE DEF me
      <3> QED
        BY <1>0, <3>1, FieldTyped
    <2>4. GoesOn(p, c)
      <3>1. c.todo = todo /\ c.sid = me.sid /\ c.call = me.call /\ c.copy = me.copy /\ c.held = me.held
        BY <1>0 DEF CallerType
      <3>2. todo \in Lines(me.call) /\ Op(todo) \notin {"ready", "save", "expire"}
        BY <1>0, <1>1, <2>1 DEF OnLine, Ahead
      <3> HIDE DEF c, rest
      <3> QED
        BY <1>0, <2>1, <2>3, <3>1, <3>2 DEF GoesOn, OnLine, Duties
    <2>5. caller' = [caller EXCEPT ![p] = c]
      BY <2>2
    <2>6. record' \in [Sids -> Record \cup {Missing}] /\ \A x \in Sids : record'[x] \in {record[x], Missing}
      BY <1>2, <2>2
    <2>7. index' \subseteq Sids /\ mail' \in [Callers -> Letters] /\ UNCHANGED <<rmw, due, crashed, torn>>
      BY <1>2, <1>16, <2>2 DEF Drop, TypeOK
    <2> QED
      BY <2>3, <2>4, <2>5, <2>6, <2>7 DEF Walks
  <1>17. CASE Run(p)
    <2>1. Ahead(p) = "run" /\ me.call = "scrape"
      BY <1>0, <1>3, <1>17 DEF Run, AtTrip, Follows, Ahead
    <2>2. PICK todo \in {<<"store", "unlock">>, <<"unlock">>}, jar \in Loaded :
            caller' = [caller EXCEPT ![p].jar = jar, ![p].todo = todo]
      <3>1. me.jar \in Loaded
        BY <1>0 DEF CallerType
      <3>2. Exported \cup {Missing} \subseteq Loaded
        BY DEF Exported, Lifetimes, Loaded
      <3>3. CASE Resumes(p, <<"unlock">>)
        <4>1. caller' = [caller EXCEPT ![p].jar = me.jar, ![p].todo = <<"unlock">>]
          BY <1>0, <3>3 DEF Resumes, TypeOK, CallerType
        <4> QED
          BY <3>1, <4>1
      <3>4. CASE \E new \in Exported \cup {Missing} :
                   caller' = [caller EXCEPT ![p].jar = new, ![p].todo = <<"store", "unlock">>]
        BY <3>2, <3>4
      <3> QED
        BY <1>17, <3>3, <3>4 DEF Run
    <2> DEFINE c == [me EXCEPT !.jar = jar, !.todo = todo]
    <2>3. todo \in Lines("scrape") /\ Op(todo) \in {"store", "unlock"} /\ "scrape" \in Names
      BY CutShort DEF Names
    <2> HIDE DEF me
    <2>4. c \in CallerType
      <3>1. todo \in Todos /\ me \in CallerType
        BY <1>0, <2>3, LinesAreTodos
      <3> QED
        BY <3>1, FieldTyped
    <2>5. GoesOn(p, c)
      BY <1>0, <2>1, <2>3, <2>4 DEF GoesOn, OnLine, CallerType, me
    <2>6. caller' = [caller EXCEPT ![p] = c]
      BY <2>2 DEF me
    <2> QED
      BY <1>2, <1>17, <2>4, <2>5, <2>6, QuietWalk DEF Run, Untouched
  <1>18. CASE Enqueue(p)
    <2>1. Ahead(p) = "enqueue" /\ me.call = "login" /\ "login" \in Names
      BY <1>0, <1>3, <1>18 DEF Enqueue, AtTrip, Follows, Ahead, Names
    <2>2. PICK sent \in {"payload and task", "payload", "nothing"} :
            /\ mail' = [mail EXCEPT ![p].payload = IF sent = "nothing" THEN @ ELSE me.jar,
                                    ![p].task = IF sent = "payload and task" THEN "queued" ELSE @]
            /\ Resumes(p, IF sent = "payload and task" THEN Next1(p) ELSE <<"failed", "unlock">>)
      BY <1>18 DEF Enqueue
    <2> DEFINE todo == IF sent = "payload and task" THEN rest ELSE <<"failed", "unlock">>
               c == [me EXCEPT !.todo = todo]
    <2>3. todo \in Lines("login") /\ Op(todo) \in {"await", "failed"}
      BY <1>0, <1>1, <1>3, <2>1, CutShort DEF Follows, Ahead
    <2>4. c \in CallerType
      BY <1>0, <2>1, <2>3, FieldTyped, LinesAreTodos
    <2>5. GoesOn(p, c)
      BY <1>0, <2>1, <2>3, <2>4 DEF GoesOn, OnLine, CallerType, Duties
    <2>6. caller' = [caller EXCEPT ![p] = c]
      BY <2>2 DEF Resumes, Next1
    <2>7. mail' \in [Callers -> Letters]
      <3>1. PICK old \in Letters : old = mail[p]
        BY DEF TypeOK
      <3>2. PICK jar \in Loaded : jar = me.jar
        BY <1>0 DEF CallerType
      <3> DEFINE sentAway == [old EXCEPT !.payload = IF sent = "nothing" THEN @ ELSE jar,
                                         !.task = IF sent = "payload and task" THEN "queued" ELSE @]
      <3>3. sentAway \in Letters
        BY DEF Letters
      <3>4. mail' = [mail EXCEPT ![p] = sentAway]
        BY <2>2, <3>1, <3>2
      <3> QED
        BY <3>3, <3>4 DEF TypeOK
    <2> QED
      BY <1>2, <1>18, <2>4, <2>5, <2>6, <2>7 DEF Enqueue, Walks
  <1>19. CASE Await(p)
    <2>1. Ahead(p) = "await" /\ me.call = "login" /\ "login" \in Names
      BY <1>0, <1>3, <1>19 DEF Await, AtTrip, Follows, Ahead, Names
    <2>2. mail' \in [Callers -> Letters] /\ index' = index /\ UNCHANGED <<record, rmw, due, crashed, torn>>
      <3>1. PICK old \in Letters : old = mail[p]
        BY DEF TypeOK
      <3>2. [old EXCEPT !.result = Missing] \in Letters
        BY DEF Letters
      <3>3. mail' = mail \/ mail' = [mail EXCEPT ![p] = [old EXCEPT !.result = Missing]]
        BY <1>19, <3>1 DEF Await
      <3> QED
        BY <1>19, <3>2, <3>3 DEF Await, TypeOK
    <2>3. CASE Resumes(p, <<"failed", "unlock">>)
      <3> DEFINE c == [me EXCEPT !.todo = <<"failed", "unlock">>]
      <3>1. c \in CallerType
        BY <1>0, <2>1, CutShort, FieldTyped, LinesAreTodos
      <3>2. GoesOn(p, c)
        BY <1>0, <2>1, <3>1, CutShort DEF GoesOn, OnLine, CallerType, Duties
      <3>3. caller' = [caller EXCEPT ![p] = c]
        BY <2>3 DEF Resumes
      <3> QED
        BY <1>2, <2>2, <3>1, <3>2, <3>3 DEF Walks
    <2>4. CASE /\ mail[p].result # Missing
               /\ caller' = [caller EXCEPT ![p].jar = mail[p].result.jar,
                                           ![p].todo = <<"store", "ready", "unlock">>]
      <3>1. PICK jar \in Loaded : jar = mail[p].result.jar
        BY <2>4 DEF Letters, Loaded, TypeOK
      <3> DEFINE c == [me EXCEPT !.jar = jar, !.todo = <<"store", "ready", "unlock">>]
      <3>2. c \in CallerType
        BY <1>0, <2>1, CutShort, FieldTyped, LinesAreTodos
      <3>3. GoesOn(p, c)
        BY <1>0, <2>1, <3>2, CutShort DEF GoesOn, OnLine, CallerType, Duties
      <3>4. caller' = [caller EXCEPT ![p] = c]
        BY <2>4, <3>1
      <3> QED
        BY <1>2, <2>2, <3>2, <3>3, <3>4 DEF Walks
    <2> QED
      BY <1>19, <2>3, <2>4 DEF Await
  <1> QED
    BY <1>4, <1>5, <1>6, <1>7, <1>8, <1>9, <1>10, <1>11, <1>12, <1>13, <1>14, <1>15, <1>16, <1>17, <1>18, <1>19, <1>20

-----------------------------------------------------------------------------
(* A step that is nobody's business keeps the invariant.                   *)
LEMMA WalksKeep ==
  ASSUME StoreInv, NEW p \in Callers, Walks(p)
  PROVE  StoreInv'
  <1> USE DEF StoreInv
  <1>1. PICK c \in CallerType : GoesOn(p, c) /\ caller' = [caller EXCEPT ![p] = c]
    BY DEF Walks
  <1>2. /\ OnLine(c) /\ c.sid = Sid(p) /\ c.call = caller[p].call /\ c.copy = Missing /\ caller[p].copy = Missing
        /\ Op(c.todo) \notin {"ready", "save"} /\ (Op(c.todo) = "expire" => c.sid \in due)
        /\ c.call = "login" /\ Ahead(p) \in Duties => Op(c.todo) \in Duties
    BY <1>1 DEF GoesOn, Sid
  <1>3. caller' \in [Callers -> CallerType] /\ \A q \in Callers : caller'[q] = IF q = p THEN c ELSE caller[q]
    BY <1>1 DEF TypeOK
  <1>4. /\ \A q \in Callers : Sid(q)' = Sid(q) /\ caller'[q].call = caller[q].call /\ caller'[q].copy = caller[q].copy
        /\ \A q \in Callers \ {p} : Ahead(q)' = Ahead(q)
        /\ Ahead(p)' = Op(c.todo)
    BY <1>2, <1>3 DEF Sid, Ahead
  <1>5. rmw' = rmw /\ due' = due /\ crashed' = crashed /\ torn' = torn /\ \A s \in Sids : record'[s] \in {record[s], Missing}
    BY DEF Walks
  <1>6. TypeOK' /\ OnTheLine'
    BY <1>2, <1>3 DEF Walks, TypeOK, OnTheLine
  <1>7. Exclusive'
    BY <1>2, <1>4, <1>5 DEF Exclusive
  <1>8. \A s \in Sids : \A q \in Callers : Copied(q, s)' <=> Copied(q, s)
    BY <1>4 DEF Copied
  <1>9. SomeoneObliged'
    <2> SUFFICES ASSUME NEW s \in Sids \ (crashed \cup torn), Says(s, "logging_in")'
                 PROVE  \E q \in Callers : Obliged(q, s)'
      BY <1>5 DEF SomeoneObliged
    <2>1. Says(s, "logging_in")
      BY <1>4, <1>5, <1>8 DEF Says
    <2>2. PICK q \in Callers : Obliged(q, s)
      BY <2>1 DEF SomeoneObliged
    <2>3. Obliged(q, s)'
      BY <1>2, <1>4, <2>2 DEF Obliged, Duties
    <2> QED
      BY <2>3
  <1>10. \A s \in Sids : /\ Bare(s)' => Bare(s)
                         /\ \A q \in Callers : Past(q, s)' => Past(q, s)
    BY <1>2, <1>4, <1>5, <1>8 DEF Bare, Past
  <1>11. StoredFirst'
    BY <1>4, <1>5, <1>8, <1>10 DEF StoredFirst
  <1>12. ExpiresWhatIsDue'
    BY <1>2, <1>4, <1>5 DEF ExpiresWhatIsDue
  <1>13. NothingBeforeBirth'
    <2> SUFFICES ASSUME NEW s \in Sids, Unborn(s)'
                 PROVE  record'[s] = Missing /\ \A q \in Callers : ~Copied(q, s)' /\ ~Past(q, s)'
      BY DEF NothingBeforeBirth
    <2>1. Unborn(s)
      BY <1>2, <1>4 DEF Unborn
    <2> QED
      BY <1>5, <1>8, <1>10, <2>1 DEF NothingBeforeBirth
  <1>14. CreatedOnce'
    BY <1>4 DEF CreatedOnce
  <1> QED
    BY <1>6, <1>7, <1>9, <1>11, <1>12, <1>13, <1>14

(* So does a step of a login's worker, the end of a lock, or time; a short *)
(* lock may end only with its session torn.                                *)
LEMMA AroundKeeps ==
  ASSUME StoreInv, UNCHANGED <<record, index, caller, crashed>>, mail' \in [Callers -> Letters],
         due \subseteq due', torn \subseteq torn', rmw' \in [Sids -> Callers \cup {Nobody}],
         \A s \in Sids \ torn' : rmw'[s] = rmw[s]
  PROVE  StoreInv'
  <1> USE DEF StoreInv
  <1>1. \A p \in Callers : Ahead(p)' = Ahead(p) /\ Sid(p)' = Sid(p)
    BY DEF Ahead, Sid
  <1>2. \A s \in Sids : /\ (Bare(s)' <=> Bare(s)) /\ (Unborn(s)' <=> Unborn(s))
                        /\ Says(s, "logging_in")' <=> Says(s, "logging_in")
                        /\ \A p \in Callers : /\ (Copied(p, s)' <=> Copied(p, s)) /\ (Past(p, s)' <=> Past(p, s))
                                              /\ Obliged(p, s)' <=> Obliged(p, s)
    BY <1>1 DEF Bare, Says, Unborn, Copied, Past, Obliged
  <1>3. TypeOK' /\ OnTheLine' /\ CreatedOnce' /\ ExpiresWhatIsDue'
    BY <1>1 DEF TypeOK, OnTheLine, CreatedOnce, ExpiresWhatIsDue
  <1>6. Exclusive'
    <2> SUFFICES ASSUME NEW p \in Callers, caller[p].copy # Missing
                 PROVE  Ahead(p) \in Modifies /\ (Sid(p) \notin torn' => rmw'[Sid(p)] = p)
      BY <1>1 DEF Exclusive
    <2>1. Ahead(p) \in Modifies /\ (Sid(p) \notin torn => rmw[Sid(p)] = p)
      BY DEF Exclusive
    <2>2. Sid(p) \in Sids
      BY <2>1, AtWork DEF Ahead, Op, Modifies
    <2> QED
      BY <2>1, <2>2
  <1>4. SomeoneObliged' /\ NothingBeforeBirth'
    BY <1>2 DEF SomeoneObliged, NothingBeforeBirth
  <1>5. StoredFirst'
    BY <1>2 DEF StoredFirst
  <1> QED
    BY <1>3, <1>4, <1>5, <1>6

-----------------------------------------------------------------------------
(* The steps on which a record depends, one by one.                        *)

(* Caller p becomes c, the others stay.                                    *)
LEMMA Becomes ==
  ASSUME TypeOK, OnTheLine, NEW p \in Callers, NEW c \in CallerType, OnLine(c), caller' = [caller EXCEPT ![p] = c]
  PROVE  /\ caller' \in [Callers -> CallerType] /\ OnTheLine'
         /\ caller'[p] = c /\ Sid(p)' = c.sid /\ Ahead(p)' = Op(c.todo)
         /\ \A q \in Callers \ {p} : caller'[q] = caller[q] /\ Sid(q)' = Sid(q) /\ Ahead(q)' = Ahead(q)
  <1>1. caller' \in [Callers -> CallerType] /\ \A q \in Callers : caller'[q] = IF q = p THEN c ELSE caller[q]
    BY DEF TypeOK
  <1> QED
    BY <1>1 DEF Sid, Ahead, OnTheLine

LEMMA StartKeeps ==
  ASSUME StoreInv, NEW p \in Callers, Start(p)
  PROVE  StoreInv'
  <1> USE DEF StoreInv
  <1>1. PICK call \in {"create", "read", "delete", "inject", "sweep", "login", "scrape"}, s0 \in Sids :
          /\ call = "create" => record[s0] = Missing /\ s0 \notin gone \cup Existing
                                /\ \A q \in Callers : caller[q].call = "create" => Sid(q) # s0
          /\ caller' = [caller EXCEPT ![p].call = call, ![p].sid = s0, ![p].todo = Trips(call)]
    BY DEF Start
  <1>2. caller[p] = AtRest /\ Ahead(p) = "rest"
    BY DEF Start, AtRest, Ahead, Op
  <1>3. /\ call \in Names /\ Trips(call) \in Lines(call)
        /\ Op(Trips(call)) \notin {"ready", "expire"} \cup Modifies
        /\ call = "create" => Op(Trips(call)) = "save"
    BY DEF Names, Lines, Trips, Inject, Op, Modifies
  <1> DEFINE c == [AtRest EXCEPT !.call = call, !.sid = s0, !.todo = Trips(call)]
  <1>4. c \in CallerType /\ OnLine(c) /\ caller' = [caller EXCEPT ![p] = c]
    <2>1. caller' = [caller EXCEPT ![p] = c]
      BY <1>1, <1>2
    <2>2. c \in CallerType /\ OnLine(c)
      <3>1. AtRest \in CallerType /\ Trips(call) \in Todos
        BY <1>2, <1>3, LinesAreTodos DEF TypeOK
      <3>2. c \in CallerType
        BY <1>3, <3>1, FieldTyped
      <3>3. c.todo = Trips(call) /\ c.sid = s0 /\ c.call = call /\ c.held = FALSE
        BY DEF AtRest
      <3> QED
        BY <1>3, <3>2, <3>3 DEF OnLine
    <2> QED
      BY <2>1, <2>2
  <1>5. c.sid = s0 /\ c.call = call /\ c.copy = Missing /\ c.todo = Trips(call)
    BY DEF AtRest
  <1> HIDE DEF c
  <1>6. /\ TypeOK' /\ OnTheLine'
        /\ caller'[p] = c /\ Sid(p)' = s0 /\ Ahead(p)' = Op(Trips(call))
        /\ \A q \in Callers \ {p} : caller'[q] = caller[q] /\ Sid(q)' = Sid(q) /\ Ahead(q)' = Ahead(q)
    <2>1. /\ caller' \in [Callers -> CallerType] /\ OnTheLine'
          /\ caller'[p] = c /\ Sid(p)' = c.sid /\ Ahead(p)' = Op(c.todo)
          /\ \A q \in Callers \ {p} : caller'[q] = caller[q] /\ Sid(q)' = Sid(q) /\ Ahead(q)' = Ahead(q)
      BY <1>4, Becomes
    <2>2. TypeOK'
      BY <2>1 DEF Start, TypeOK
    <2> QED
      BY <1>5, <2>1, <2>2
  <1>7. \A s \in Sids : \A q \in Callers :
          /\ (Copied(q, s)' <=> Copied(q, s)) /\ (Past(q, s)' => Past(q, s)) /\ (Obliged(q, s) => Obliged(q, s)')
          /\ Copied(q, s) => caller'[q].copy = caller[q].copy
    BY <1>2, <1>3, <1>5, <1>6 DEF Copied, Past, Obliged, AtRest
  <1>8. record' = record /\ rmw' = rmw /\ due' = due /\ crashed' = crashed /\ torn' = torn
    BY DEF Start
  <1>9. Exclusive' /\ ExpiresWhatIsDue'
    BY <1>3, <1>5, <1>6, <1>8 DEF Exclusive, ExpiresWhatIsDue
  <1>10. SomeoneObliged'
    BY <1>7, <1>8 DEF SomeoneObliged, Says
  <1>11. StoredFirst'
    BY <1>7, <1>8 DEF StoredFirst, Bare
  <1>12. NothingBeforeBirth'
    <2> SUFFICES ASSUME NEW s \in Sids, Unborn(s)'
                 PROVE  record[s] = Missing /\ \A q \in Callers : ~Copied(q, s)' /\ ~Past(q, s)'
      BY <1>8 DEF NothingBeforeBirth
    <2>1. Unborn(s)
      BY <1>2, <1>6 DEF Unborn, AtRest
    <2> QED
      BY <1>7, <2>1 DEF NothingBeforeBirth
  <1>13. CreatedOnce'
    <2>1. \A q \in Callers \ {p} : Sid(q)' = Sid(q) /\ caller'[q].call = caller[q].call
      BY <1>6
    <2>2. Sid(p)' = s0 /\ caller'[p].call = call
      BY <1>5, <1>6
    <2>3. \A q \in Callers \ {p} : caller[q].call = "create" /\ call = "create" => Sid(q) # s0
      BY <1>1
    <2>4. call = "create" => s0 \notin Existing
      BY <1>1
    <2> QED
      BY <2>1, <2>2, <2>3, <2>4 DEF CreatedOnce
  <1> QED
    BY <1>6, <1>9, <1>10, <1>11, <1>12, <1>13

LEMMA SaveKeeps ==
  ASSUME StoreInv, NEW p \in Callers, Save(p)
  PROVE  StoreInv'
  <1> USE DEF StoreInv
  <1>1. PICK pin \in Pins :
          IF Refused(pin) THEN Resumes(p, <<>>) /\ UNCHANGED <<record, index>>
          ELSE /\ record' = [record EXCEPT ![Sid(p)] = NewRecord(pin)]
               /\ index' = index \cup {Sid(p)}
               /\ Resumes(p, Next1(p))
    BY DEF Save
  <1>2. CASE Refused(pin)
    <2>1. SaveRefused(p)
      BY <1>1, <1>2 DEF SaveRefused, Save, Untouched
    <2> QED
      BY <2>1, CallWalks, WalksKeep
  <1>3. CASE ~Refused(pin)
    <2> DEFINE rest == Tail(caller[p].todo)
               c == [caller[p] EXCEPT !.todo = rest]
    <2>1. /\ Ahead(p) = "save" /\ caller[p].todo # <<>> /\ caller[p].call = "create" /\ caller[p].copy = Missing
          /\ Sid(p) \in Sids /\ caller[p] \in CallerType /\ OnLine(caller[p])
      BY AtWork DEF Save, AtTrip, Ahead, Follows, Modifies
    <2>2. rest \in Lines("create") /\ Op(rest) \notin {"ready", "save", "expire"} /\ "create" \in Names
      BY <2>1, AtWork DEF Follows, Ahead, Names
    <2>3. c \in CallerType /\ OnLine(c) /\ caller' = [caller EXCEPT ![p] = c]
      <3>1. c \in CallerType
        BY <2>1, <2>2, FieldTyped, LinesAreTodos
      <3>2. c.todo = rest /\ c.sid = caller[p].sid /\ c.call = caller[p].call /\ c.held = caller[p].held
        BY <2>1 DEF CallerType
      <3>3. OnLine(c)
        BY <2>1, <2>2, <3>2 DEF OnLine
      <3> QED
        BY <1>1, <1>3, <3>1, <3>3 DEF Resumes, Next1
    <2>4. c.sid = Sid(p) /\ c.call = "create" /\ c.copy = Missing /\ c.todo = rest
      BY <2>1 DEF CallerType, Sid
    <2> HIDE DEF c, rest
    <2>5. NewRecord(pin) \in Record /\ NewRecord(pin).status = "created" /\ NewRecord(pin).state = Missing
      BY DEF NewRecord, Record
    <2>6. /\ \A s \in Sids : record'[s] = IF s = Sid(p) THEN NewRecord(pin) ELSE record[s]
          /\ record' \in [Sids -> Record \cup {Missing}] /\ index' \subseteq Sids
      BY <1>1, <1>3, <2>1, <2>5 DEF TypeOK
    <2>7. UNCHANGED <<due, rmw, mail, crashed, torn>>
      BY DEF Save
    <2>8. /\ TypeOK' /\ OnTheLine' /\ caller'[p] = c /\ Sid(p)' = Sid(p) /\ Ahead(p)' = Op(rest)
          /\ \A q \in Callers \ {p} : caller'[q] = caller[q] /\ Sid(q)' = Sid(q) /\ Ahead(q)' = Ahead(q)
      <3>1. /\ caller' \in [Callers -> CallerType] /\ OnTheLine'
            /\ caller'[p] = c /\ Sid(p)' = c.sid /\ Ahead(p)' = Op(c.todo)
            /\ \A q \in Callers \ {p} : caller'[q] = caller[q] /\ Sid(q)' = Sid(q) /\ Ahead(q)' = Ahead(q)
        BY <2>3, Becomes
      <3>2. TypeOK'
        BY <2>6, <2>7, <3>1 DEF TypeOK
      <3> QED
        BY <2>4, <3>1, <3>2
    <2>9. Unborn(Sid(p))
      BY <2>1 DEF Unborn, CreatedOnce
    <2>10. \A q \in Callers : ~Copied(q, Sid(p)) /\ ~Past(q, Sid(p))
      BY <2>1, <2>9 DEF NothingBeforeBirth
    <2>11. \A s \in Sids : \A q \in Callers :
             /\ (Copied(q, s)' <=> Copied(q, s)) /\ (Past(q, s)' => Past(q, s)) /\ (Obliged(q, s) => Obliged(q, s)')
             /\ Copied(q, s) => caller'[q].copy = caller[q].copy
      BY <2>1, <2>2, <2>4, <2>8 DEF Copied, Past, Obliged
    <2>12. Exclusive' /\ ExpiresWhatIsDue'
      BY <2>2, <2>4, <2>7, <2>8 DEF Exclusive, ExpiresWhatIsDue
    <2>13. SomeoneObliged'
      <3> SUFFICES ASSUME NEW s \in Sids \ (crashed \cup torn), Says(s, "logging_in")'
                   PROVE  \E q \in Callers : Obliged(q, s)'
        BY <2>7 DEF SomeoneObliged
      <3>1. s # Sid(p)
        BY <2>5, <2>6, <2>10, <2>11 DEF Says
      <3>2. Says(s, "logging_in")
        BY <2>6, <2>11, <3>1 DEF Says
      <3> QED
        BY <2>11, <3>2 DEF SomeoneObliged
    <2>14. StoredFirst'
      <3>1. \A s \in Sids \ {Sid(p)} : Bare(s)' => Bare(s)
        BY <2>6, <2>11 DEF Bare
      <3> QED
        BY <2>5, <2>6, <2>7, <2>10, <2>11, <3>1 DEF StoredFirst
    <2>15. NothingBeforeBirth'
      <3> SUFFICES ASSUME NEW s \in Sids, Unborn(s)'
                   PROVE  record'[s] = Missing /\ \A q \in Callers : ~Copied(q, s)' /\ ~Past(q, s)'
        BY DEF NothingBeforeBirth
      <3>1. s # Sid(p)
        BY <2>2, <2>4, <2>8 DEF Unborn
      <3>2. Unborn(s)
        BY <2>8, <3>1 DEF Unborn
      <3> QED
        BY <2>6, <2>11, <3>1, <3>2 DEF NothingBeforeBirth
    <2>16. CreatedOnce'
      BY <2>1, <2>4, <2>8 DEF CreatedOnce
    <2> QED
      BY <2>8, <2>12, <2>13, <2>14, <2>15, <2>16
  <1> QED
    BY <1>2, <1>3

(* While the short lock is free and never lapsed, nobody has a copy of its *)
(* session.                                                                *)
LEMMA FreeMeansNoCopy ==
  ASSUME TypeOK, Exclusive, NEW s \in Sids \ torn, rmw[s] = Nobody
  PROVE  \A q \in Callers : ~Copied(q, s)
  BY StoreAssumption DEF Exclusive, Copied

LEMMA ReadKeeps ==
  ASSUME StoreInv, NEW p \in Callers, ReadUnderLock(p)
  PROVE  StoreInv'
  <1> USE DEF StoreInv
  <1>1. /\ Ahead(p) \in Modifies /\ caller[p].todo # <<>> /\ caller[p].copy = Missing /\ Sid(p) \in Sids
        /\ caller[p] \in CallerType /\ OnLine(caller[p]) /\ caller[p].call \in Names
    BY AtWork DEF ReadUnderLock, CallerType
  <1>2. rmw[Sid(p)] = Nobody /\ (Sid(p) \notin torn => \A q \in Callers : ~Copied(q, Sid(p)))
    BY <1>1, FreeMeansNoCopy DEF ReadUnderLock
  <1>3. UNCHANGED <<record, index, due, mail, crashed, torn>>
    BY DEF ReadUnderLock
  <1>4. CASE Rec(p) = Missing
    <2> DEFINE c == [caller[p] EXCEPT !.todo = Out(p)]
    <2>1. Out(p) \in Lines(caller[p].call) /\ Op(Out(p)) \in {"rest", "unlock"}
      BY <1>1, WhereToGo
    <2>2. c \in CallerType /\ OnLine(c) /\ caller' = [caller EXCEPT ![p] = c] /\ rmw' = rmw
      <3>1. c \in CallerType
        BY <1>1, <2>1, FieldTyped, LinesAreTodos
      <3>2. c.todo = Out(p) /\ c.sid = caller[p].sid /\ c.call = caller[p].call /\ c.held = caller[p].held
        BY <1>1 DEF CallerType
      <3>3. OnLine(c)
        BY <1>1, <2>1, <3>2 DEF OnLine
      <3> QED
        BY <1>4, <3>1, <3>3 DEF ReadUnderLock, Resumes
    <2>3. c.sid = Sid(p) /\ c.call = caller[p].call /\ c.copy = Missing /\ c.todo = Out(p)
      BY <1>1 DEF CallerType, Sid
    <2> HIDE DEF c
    <2>4. /\ TypeOK' /\ OnTheLine' /\ caller'[p] = c /\ Sid(p)' = Sid(p) /\ Ahead(p)' = Op(Out(p))
          /\ \A q \in Callers \ {p} : caller'[q] = caller[q] /\ Sid(q)' = Sid(q) /\ Ahead(q)' = Ahead(q)
      <3>1. /\ caller' \in [Callers -> CallerType] /\ OnTheLine'
            /\ caller'[p] = c /\ Sid(p)' = c.sid /\ Ahead(p)' = Op(c.todo)
            /\ \A q \in Callers \ {p} : caller'[q] = caller[q] /\ Sid(q)' = Sid(q) /\ Ahead(q)' = Ahead(q)
        BY <2>2, Becomes
      <3>2. TypeOK'
        BY <1>3, <2>2, <3>1 DEF TypeOK
      <3> QED
        BY <2>3, <3>1, <3>2
    <2>5. \A s \in Sids : \A q \in Callers :
             /\ (Copied(q, s)' <=> Copied(q, s)) /\ (Past(q, s)' => Past(q, s))
             /\ s # Sid(p) => (Obliged(q, s) => Obliged(q, s)')
             /\ Copied(q, s) => caller'[q].copy = caller[q].copy
      BY <1>1, <2>1, <2>3, <2>4 DEF Copied, Past, Obliged
    <2>6. Exclusive' /\ ExpiresWhatIsDue' /\ CreatedOnce'
      BY <1>3, <2>1, <2>2, <2>3, <2>4 DEF Exclusive, ExpiresWhatIsDue, CreatedOnce
    <2>7. Sid(p) \notin torn => ~Says(Sid(p), "logging_in")
      BY <1>2, <1>4 DEF Says, Rec
    <2>8. SomeoneObliged'
      BY <1>3, <2>5, <2>7 DEF SomeoneObliged, Says
    <2>9. StoredFirst'
      BY <1>3, <2>5 DEF StoredFirst, Bare
    <2>10. NothingBeforeBirth'
      <3> SUFFICES ASSUME NEW s \in Sids, Unborn(s)'
                   PROVE  record'[s] = Missing /\ \A q \in Callers : ~Copied(q, s)' /\ ~Past(q, s)'
        BY DEF NothingBeforeBirth
      <3>1. Unborn(s)
        BY <2>1, <2>3, <2>4 DEF Unborn
      <3> QED
        BY <1>3, <2>5, <3>1 DEF NothingBeforeBirth
    <2> QED
      BY <2>4, <2>6, <2>8, <2>9, <2>10
  <1>5. CASE Rec(p) # Missing
    <2>1. PICK jar \in Loaded :
            /\ rmw' = [rmw EXCEPT ![Sid(p)] = p]
            /\ caller' = [caller EXCEPT ![p].copy = Rec(p), ![p].jar = jar]
      <3>1. PICK more \in {{}, {"none"}, {"text"}} :
              caller' = [caller EXCEPT ![p].copy = Rec(p),
                ![p].jar = IF caller[p].call = "inject" /\ AtTrip(p, "store")
                           THEN Cookies(caller[p].jar) \cup more ELSE caller[p].jar]
        BY <1>5 DEF ReadUnderLock
      <3> DEFINE jar == IF caller[p].call = "inject" /\ AtTrip(p, "store")
                        THEN Cookies(caller[p].jar) \cup more ELSE caller[p].jar
      <3>2. caller[p].jar \in Loaded
        BY <1>1 DEF CallerType
      <3>3. jar \in Loaded
        BY <3>2 DEF Loaded, Cookies, Lifetimes
      <3> QED
        BY <1>5, <3>1, <3>3 DEF ReadUnderLock
    <2> DEFINE c == [caller[p] EXCEPT !.copy = Rec(p), !.jar = jar]
    <2>2. Rec(p) \in Record
      BY <1>1, <1>5 DEF Rec, TypeOK
    <2>3. c \in CallerType /\ OnLine(c) /\ caller' = [caller EXCEPT ![p] = c]
      BY <1>1, <2>1, <2>2 DEF CallerType, OnLine
    <2>4. c.sid = Sid(p) /\ c.call = caller[p].call /\ c.copy = Rec(p) /\ c.todo = caller[p].todo
      BY <1>1 DEF CallerType, Sid
    <2> HIDE DEF c
    <2>5. rmw' \in [Sids -> Callers \cup {Nobody}] /\ \A s \in Sids : rmw'[s] = IF s = Sid(p) THEN p ELSE rmw[s]
      BY <1>1, <2>1 DEF TypeOK
    <2>6. /\ TypeOK' /\ OnTheLine' /\ caller'[p] = c /\ Sid(p)' = Sid(p) /\ Ahead(p)' = Ahead(p)
          /\ \A q \in Callers \ {p} : caller'[q] = caller[q] /\ Sid(q)' = Sid(q) /\ Ahead(q)' = Ahead(q)
      <3>1. /\ caller' \in [Callers -> CallerType] /\ OnTheLine'
            /\ caller'[p] = c /\ Sid(p)' = c.sid /\ Ahead(p)' = Op(c.todo)
            /\ \A q \in Callers \ {p} : caller'[q] = caller[q] /\ Sid(q)' = Sid(q) /\ Ahead(q)' = Ahead(q)
        BY <2>3, Becomes
      <3>2. TypeOK'
        BY <1>3, <2>5, <3>1 DEF TypeOK
      <3> QED
        BY <2>4, <3>1, <3>2 DEF Ahead
    <2>7. \A s \in Sids : \A q \in Callers :
             /\ (Past(q, s)' => Past(q, s)) /\ (Obliged(q, s) => Obliged(q, s)')
             /\ Copied(q, s)' => \/ q # p /\ Copied(q, s) /\ caller'[q].copy = caller[q].copy
                                 \/ q = p /\ s = Sid(p) /\ caller'[q].copy = record[s]
      BY <2>4, <2>6 DEF Copied, Past, Obliged, Rec
    <2>8. Exclusive'
      <3> SUFFICES ASSUME NEW q \in Callers, caller'[q].copy # Missing
                   PROVE  Ahead(q)' \in Modifies /\ (Sid(q)' \notin torn => rmw'[Sid(q)'] = q)
        BY <1>3 DEF Exclusive
      <3>1. CASE q = p
        BY <1>1, <2>5, <2>6, <3>1
      <3>2. CASE q # p
        <4>1. Ahead(q) \in Modifies /\ (Sid(q) \notin torn => rmw[Sid(q)] = q)
          BY <2>6, <3>2 DEF Exclusive
        <4>2. Sid(q) \in Sids
          BY <4>1, AtWork DEF Ahead, Op, Modifies
        <4>3. Sid(q) \notin torn => Sid(q) # Sid(p)
          BY <1>2, <4>1, StoreAssumption
        <4> QED
          BY <2>5, <2>6, <3>2, <4>1, <4>2, <4>3
      <3> QED
        BY <3>1, <3>2
    <2>9. ExpiresWhatIsDue' /\ CreatedOnce'
      BY <1>3, <2>4, <2>6 DEF ExpiresWhatIsDue, CreatedOnce
    <2>10. \A s \in Sids : (Says(s, "logging_in")' => Says(s, "logging_in")) /\ (Bare(s)' => Bare(s))
      BY <1>3, <1>5, <2>7 DEF Says, Bare, Rec
    <2>11. SomeoneObliged'
      BY <1>3, <2>7, <2>10 DEF SomeoneObliged
    <2>12. StoredFirst'
      BY <1>3, <1>5, <2>7, <2>10 DEF StoredFirst, Rec
    <2>13. NothingBeforeBirth'
      <3> SUFFICES ASSUME NEW s \in Sids, Unborn(s)'
                   PROVE  record'[s] = Missing /\ \A q \in Callers : ~Copied(q, s)' /\ ~Past(q, s)'
        BY DEF NothingBeforeBirth
      <3>1. Unborn(s)
        BY <2>4, <2>6 DEF Unborn
      <3> QED
        BY <1>3, <1>5, <2>7, <3>1 DEF NothingBeforeBirth, Rec
    <2> QED
      BY <2>6, <2>8, <2>9, <2>11, <2>12, <2>13
  <1> QED
    BY <1>4, <1>5

(* What a write puts into the store.                                       *)
LEMMA WhatIsWritten ==
  ASSUME NEW p \in Callers, NEW rec \in Record, caller[p].todo # <<>>, Ahead(p) \in Modifies,
         caller[p].jar \in Loaded
  PROVE  /\ Changed(p, rec) \in Record
         /\ Ahead(p) = "store" => Changed(p, rec).status = rec.status /\ Changed(p, rec).state # Missing
         /\ Ahead(p) = "expire" => Changed(p, rec).status = "expired"
         /\ Ahead(p) \notin {"store", "expire"} =>
              Changed(p, rec).status = Ahead(p) /\ Changed(p, rec).state = rec.state
  <1>1. Ahead(p) = Head(caller[p].todo)
    BY DEF Ahead, Op
  <1>2. CASE Ahead(p) = "store"
    <2>1. Changed(p, rec) = [rec EXCEPT !.state = Normalized(Cookies(caller[p].jar))]
      BY <1>1, <1>2 DEF Changed, AtTrip
    <2>4. PICK jar \in SUBSET Lifetimes : jar = Cookies(caller[p].jar)
      BY DEF Cookies, Loaded
    <2>2. Normalized(Cookies(caller[p].jar)) \in Jars
      BY <2>4 DEF Normalized, Jars, Lifetimes
    <2>3. Normalized(Cookies(caller[p].jar)) # Missing
      BY <2>2, StoreAssumption
    <2> HIDE DEF Jars
    <2> QED
      BY <1>2, <2>1, <2>2, <2>3 DEF Record
  <1>3. CASE Ahead(p) = "expire"
    <2>1. Changed(p, rec) = [rec EXCEPT !.status = "expired", !.state = Missing]
      BY <1>1, <1>3 DEF Changed, AtTrip
    <2> QED
      BY <1>3, <2>1 DEF Record
  <1>4. CASE Ahead(p) \in {"logging_in", "ready", "failed"}
    <2>1. Changed(p, rec) = [rec EXCEPT !.status = Ahead(p)]
      BY <1>1, <1>4 DEF Changed, AtTrip
    <2> QED
      BY <1>4, <2>1 DEF Record
  <1> QED
    BY <1>2, <1>3, <1>4 DEF Modifies

LEMMA WriteKeeps ==
  ASSUME StoreInv, NEW p \in Callers, WriteUnderLock(p)
  PROVE  StoreInv'
  <1> USE DEF StoreInv
  <1> DEFINE rest == Tail(caller[p].todo)
             c == [caller[p] EXCEPT !.copy = Missing, !.todo = rest]
  <1>1. Ahead(p) \in Modifies /\ (Sid(p) \notin torn => rmw[Sid(p)] = p) /\ caller[p].copy # Missing
    BY DEF Exclusive, WriteUnderLock
  <1>2. /\ caller[p].todo # <<>> /\ Sid(p) \in Sids /\ caller[p] \in CallerType /\ OnLine(caller[p])
        /\ caller[p].call \in Names /\ caller[p].copy \in Record /\ caller[p].jar \in Loaded
    BY <1>1, AtWork DEF Ahead, Op, Modifies, CallerType
  <1>3. /\ rest \in Lines(caller[p].call) /\ Op(rest) \notin {"save", "expire"}
        /\ Op(rest) = "ready" => Ahead(p) = "store"
        /\ Ahead(p) = "logging_in" => caller[p].call = "login" /\ Op(rest) = "enqueue"
        /\ Ahead(p) = "store" /\ caller[p].call = "login" => Op(rest) = "ready"
    BY <1>2, AtWork DEF Follows, Ahead
  <1>4. PICK new \in Record :
          /\ new = Changed(p, caller[p].copy)
          /\ Ahead(p) = "store" => new.status = caller[p].copy.status /\ new.state # Missing
          /\ Ahead(p) = "expire" => new.status = "expired"
          /\ Ahead(p) \notin {"store", "expire"} => new.status = Ahead(p) /\ new.state = caller[p].copy.state
    BY <1>1, <1>2, WhatIsWritten
  <1>5. c \in CallerType /\ OnLine(c) /\ caller' = [caller EXCEPT ![p] = c]
    <2>1. c \in CallerType
      BY <1>2, <1>3, FieldTyped, LinesAreTodos
    <2>2. c.todo = rest /\ c.sid = caller[p].sid /\ c.call = caller[p].call /\ c.held = caller[p].held
      BY <1>2 DEF CallerType
    <2>3. OnLine(c)
      BY <1>2, <1>3, <2>2 DEF OnLine
    <2> QED
      BY <2>1, <2>3 DEF WriteUnderLock, Next1
  <1>6. c.sid = Sid(p) /\ c.call = caller[p].call /\ c.copy = Missing /\ c.todo = rest
    BY <1>2 DEF CallerType, Sid
  <1> HIDE DEF c, rest
  <1>7. /\ \A s \in Sids : /\ record'[s] = IF s = Sid(p) THEN new ELSE record[s]
                           /\ s # Sid(p) => rmw'[s] = rmw[s]
        /\ record' \in [Sids -> Record \cup {Missing}] /\ rmw' \in [Sids -> Callers \cup {Nobody}]
        /\ index' \subseteq Sids
    BY <1>2, <1>4 DEF WriteUnderLock, TypeOK
  <1>8. UNCHANGED <<due, mail, crashed, torn>>
    BY DEF WriteUnderLock
  <1>9. /\ TypeOK' /\ OnTheLine' /\ caller'[p] = c /\ Sid(p)' = Sid(p) /\ Ahead(p)' = Op(rest)
        /\ \A q \in Callers \ {p} : caller'[q] = caller[q] /\ Sid(q)' = Sid(q) /\ Ahead(q)' = Ahead(q)
    <2>1. /\ caller' \in [Callers -> CallerType] /\ OnTheLine'
          /\ caller'[p] = c /\ Sid(p)' = c.sid /\ Ahead(p)' = Op(c.todo)
          /\ \A q \in Callers \ {p} : caller'[q] = caller[q] /\ Sid(q)' = Sid(q) /\ Ahead(q)' = Ahead(q)
      BY <1>5, Becomes
    <2>2. TypeOK'
      BY <1>7, <1>8, <2>1 DEF TypeOK
    <2> QED
      BY <1>6, <2>1, <2>2
  <1>10. Sid(p) \notin torn => \A q \in Callers \ {p} : ~Copied(q, Sid(p))
    BY <1>1 DEF Exclusive, Copied
  <1>11. \A s \in Sids : \A q \in Callers : Copied(q, s)' =>
           /\ q # p /\ Copied(q, s) /\ caller'[q].copy = caller[q].copy
           /\ s \notin torn => s # Sid(p)
    BY <1>6, <1>9, <1>10 DEF Copied
  <1>12. Copied(p, Sid(p))
    BY <1>1 DEF Copied
  <1>13. Exclusive'
    <2> SUFFICES ASSUME NEW q \in Callers, caller'[q].copy # Missing
                 PROVE  Ahead(q)' \in Modifies /\ (Sid(q)' \notin torn => rmw'[Sid(q)'] = q)
      BY <1>8 DEF Exclusive
    <2>1. q # p /\ caller[q].copy # Missing
      BY <1>6, <1>9
    <2>2. Ahead(q) \in Modifies /\ (Sid(q) \notin torn => rmw[Sid(q)] = q)
      BY <2>1 DEF Exclusive
    <2>3. Sid(q) \in Sids /\ (Sid(q) \notin torn => Sid(q) # Sid(p))
      BY <1>1, <2>1, <2>2, AtWork DEF Ahead, Op, Modifies
    <2> QED
      BY <1>7, <1>9, <2>1, <2>2, <2>3
  <1>14. SomeoneObliged'
    <2> SUFFICES ASSUME NEW s \in Sids \ (crashed \cup torn), Says(s, "logging_in")'
                 PROVE  \E q \in Callers : Obliged(q, s)'
      BY <1>8 DEF SomeoneObliged
    <2>1. \A q \in Callers \ {p} : Obliged(q, s) => Obliged(q, s)'
      BY <1>9 DEF Obliged
    <2>2. CASE s # Sid(p)
      <3>1. Says(s, "logging_in")
        BY <1>7, <1>11, <2>2 DEF Says
      <3>2. ~Obliged(p, s)
        BY <2>2 DEF Obliged
      <3> QED
        BY <2>1, <3>1, <3>2 DEF SomeoneObliged
    <2>3. CASE s = Sid(p)
      <3>1. new.status = "logging_in"
        BY <1>7, <1>11, <2>3 DEF Says
      <3>2. CASE Ahead(p) = "logging_in"
        BY <1>3, <1>6, <1>9, <2>3, <3>2 DEF Obliged
      <3>3. CASE Ahead(p) = "store"
        <4>1. Says(s, "logging_in")
          BY <1>4, <1>12, <2>3, <3>1, <3>3 DEF Says
        <4>2. PICK q \in Callers : Obliged(q, s)
          BY <4>1 DEF SomeoneObliged
        <4>3. q = p => Obliged(p, s)'
          BY <1>3, <1>6, <1>9, <3>3, <4>2 DEF Obliged
        <4> QED
          BY <2>1, <4>2, <4>3
      <3> QED
        BY <1>4, <3>1, <3>2, <3>3
    <2> QED
      BY <2>2, <2>3
  <1>15. StoredFirst'
    <2> SUFFICES ASSUME NEW s \in Sids \ (due \cup torn)
                 PROVE  /\ \A q \in Callers : Past(q, s)' => ~Bare(s)'
                        /\ record'[s] # Missing /\ record'[s].status = "ready" => record'[s].state # Missing
                        /\ \A q \in Callers : Copied(q, s)' /\ caller'[q].copy.status = "ready"
                                                => caller'[q].copy.state # Missing
      BY <1>8 DEF StoredFirst
    <2>1. \A q \in Callers : Copied(q, s)' /\ caller'[q].copy.status = "ready" => caller'[q].copy.state # Missing
      BY <1>11 DEF StoredFirst
    <2>2. \A q \in Callers \ {p} : Past(q, s)' => Past(q, s)
      BY <1>9 DEF Past
    <2>3. CASE s # Sid(p)
      <3>1. (Bare(s)' => Bare(s)) /\ ~Past(p, s)' /\ record'[s] = record[s]
        BY <1>7, <1>9, <1>11, <2>3 DEF Bare, Past
      <3> QED
        BY <2>1, <2>2, <3>1 DEF StoredFirst
    <2>4. CASE s = Sid(p)
      <3>1. record'[s] = new /\ (Bare(s)' => new.state = Missing)
        BY <1>7, <1>11, <2>4 DEF Bare
      <3>2. Ahead(p) # "expire"
        BY <2>4 DEF ExpiresWhatIsDue
      <3>3. \A q \in Callers : Past(q, s) => new.state # Missing
        BY <1>4, <1>12, <2>4, <3>2 DEF StoredFirst, Bare
      <3>4. Past(p, s)' => new.state # Missing
        BY <1>3, <1>4, <1>9, <2>4 DEF Past
      <3>5. new.status = "ready" => new.state # Missing
        <4>1. CASE Ahead(p) = "store"
          BY <1>4, <4>1
        <4>2. CASE Ahead(p) = "ready"
          BY <2>4, <3>3, <4>2 DEF Past
        <4> QED
          BY <1>4, <3>2, <4>1, <4>2
      <3> QED
        BY <2>1, <2>2, <3>1, <3>3, <3>4, <3>5
    <2> QED
      BY <2>3, <2>4
  <1>16. ExpiresWhatIsDue' /\ CreatedOnce'
    BY <1>3, <1>6, <1>8, <1>9 DEF ExpiresWhatIsDue, CreatedOnce
  <1>17. NothingBeforeBirth'
    <2> SUFFICES ASSUME NEW s \in Sids, Unborn(s)'
                 PROVE  record'[s] = Missing /\ \A q \in Callers : ~Copied(q, s)' /\ ~Past(q, s)'
      BY DEF NothingBeforeBirth
    <2>1. Unborn(s)
      BY <1>3, <1>6, <1>9 DEF Unborn
    <2>2. s # Sid(p)
      BY <1>12, <2>1 DEF NothingBeforeBirth
    <2> QED
      BY <1>7, <1>9, <1>11, <2>1, <2>2 DEF NothingBeforeBirth, Past
  <1> QED
    BY <1>9, <1>13, <1>14, <1>15, <1>16, <1>17

LEMMA CrashKeeps ==
  ASSUME StoreInv, NEW p \in Callers, Crash(p)
  PROVE  StoreInv'
  <1> USE DEF StoreInv
  <1> DEFINE c == [caller[p] EXCEPT !.todo = <<>>, !.copy = Missing, !.held = FALSE]
  <1>1. /\ Sid(p) \in Sids /\ caller[p] \in CallerType /\ OnLine(caller[p]) /\ caller[p].call \in Names
    BY AtWork DEF Crash, CallerType
  <1>2. c \in CallerType /\ OnLine(c) /\ caller' = [caller EXCEPT ![p] = c]
    <2>1. <<>> \in Todos
      BY <1>1, CutShort, LinesAreTodos
    <2>3. c \in CallerType
      BY <1>1, <2>1, FieldTyped
    <2>4. c.todo = <<>> /\ c.call = caller[p].call /\ c.sid = caller[p].sid /\ c.held = FALSE
      BY <1>1 DEF CallerType
    <2>5. OnLine(c)
      BY <1>1, <2>4, CutShort DEF OnLine
    <2> QED
      BY <2>3, <2>5 DEF Crash
  <1>3. c.sid = Sid(p) /\ c.call = caller[p].call /\ c.copy = Missing /\ c.todo = <<>>
    BY <1>1 DEF CallerType, Sid
  <1> HIDE DEF c
  <1>4. UNCHANGED <<record, index, due, mail, torn>> /\ crashed' = crashed \cup {Sid(p)}
    BY DEF Crash
  <1>5. /\ \A s \in Sids : rmw'[s] = IF rmw[s] = p THEN Nobody ELSE rmw[s]
        /\ rmw' \in [Sids -> Callers \cup {Nobody}]
    BY DEF Crash, TypeOK
  <1>6. /\ TypeOK' /\ OnTheLine' /\ caller'[p] = c /\ Sid(p)' = Sid(p) /\ Ahead(p)' = "rest"
        /\ \A q \in Callers \ {p} : caller'[q] = caller[q] /\ Sid(q)' = Sid(q) /\ Ahead(q)' = Ahead(q)
    <2>1. /\ caller' \in [Callers -> CallerType] /\ OnTheLine'
          /\ caller'[p] = c /\ Sid(p)' = c.sid /\ Ahead(p)' = Op(c.todo)
          /\ \A q \in Callers \ {p} : caller'[q] = caller[q] /\ Sid(q)' = Sid(q) /\ Ahead(q)' = Ahead(q)
      BY <1>2, Becomes
    <2>2. TypeOK'
      BY <1>4, <1>5, <2>1 DEF TypeOK
    <2>3. Op(c.todo) = "rest"
      BY <1>3, CutShort
    <2> QED
      BY <1>3, <2>1, <2>2, <2>3
  <1>7. \A s \in Sids : \A q \in Callers :
          /\ Copied(q, s)' => Copied(q, s) /\ caller'[q].copy = caller[q].copy
          /\ Past(q, s)' => Past(q, s)
          /\ s # Sid(p) => (Obliged(q, s) => Obliged(q, s)')
    BY <1>3, <1>6 DEF Copied, Past, Obliged
  <1>8. Exclusive'
    <2> SUFFICES ASSUME NEW q \in Callers, caller'[q].copy # Missing
                 PROVE  Ahead(q)' \in Modifies /\ (Sid(q)' \notin torn => rmw'[Sid(q)'] = q)
      BY <1>4 DEF Exclusive
    <2>1. q # p /\ caller[q].copy # Missing
      BY <1>3, <1>6
    <2>2. Ahead(q) \in Modifies /\ (Sid(q) \notin torn => rmw[Sid(q)] = q)
      BY <2>1 DEF Exclusive
    <2>3. Sid(q) \in Sids
      BY <2>2, AtWork DEF Ahead, Op, Modifies
    <2> QED
      BY <1>5, <1>6, <2>1, <2>2, <2>3
  <1>9. \A s \in Sids : (Says(s, "logging_in")' => Says(s, "logging_in")) /\ (Bare(s)' => Bare(s))
    BY <1>4, <1>7 DEF Says, Bare
  <1>10. SomeoneObliged'
    BY <1>4, <1>7, <1>9 DEF SomeoneObliged
  <1>11. StoredFirst'
    BY <1>4, <1>7, <1>9 DEF StoredFirst
  <1>12. ExpiresWhatIsDue' /\ CreatedOnce'
    BY <1>3, <1>4, <1>6 DEF ExpiresWhatIsDue, CreatedOnce
  <1>13. NothingBeforeBirth'
    <2> SUFFICES ASSUME NEW s \in Sids, Unborn(s)'
                 PROVE  record'[s] = Missing /\ \A q \in Callers : ~Copied(q, s)' /\ ~Past(q, s)'
      BY DEF NothingBeforeBirth
    <2>1. Unborn(s)
      BY <1>3, <1>6 DEF Unborn
    <2> QED
      BY <1>4, <1>7, <2>1 DEF NothingBeforeBirth
  <1> QED
    BY <1>6, <1>8, <1>10, <1>11, <1>12, <1>13

-----------------------------------------------------------------------------
LEMMA StoreStep == StoreInv /\ [SNext]_svars => StoreInv'
  <1> SUFFICES ASSUME StoreInv, [SNext]_svars PROVE StoreInv'
    OBVIOUS
  <1>0. TypeOK /\ OnTheLine /\ Exclusive
    BY DEF StoreInv
  <1>1. CASE UNCHANGED svars
    BY <1>0, <1>1, AroundKeeps DEF svars, TypeOK
  <1>2. ASSUME NEW p \in Callers, Calls(p) PROVE StoreInv'
    <2>1. CASE Start(p) \/ Save(p) \/ ReadUnderLock(p) \/ WriteUnderLock(p) \/ Crash(p)
      BY <2>1, StartKeeps, SaveKeeps, ReadKeeps, WriteKeeps, CrashKeeps
    <2>2. CASE TakeLogin(p) \/ EndLogin(p) \/ Redeliver(p)
      <3>1. PICK letter \in Letters : letter = mail[p]
        BY <1>0 DEF TypeOK
      <3>2. \E new \in Letters : mail' = [mail EXCEPT ![p] = new]
        <4>1. CASE TakeLogin(p)
          <5>1. \/ /\ letter.task = "queued"
                   /\ mail' = [mail EXCEPT ![p] = [letter EXCEPT !.task = "running"]]
                \/ /\ letter.task \in {"queued", "again"}
                   /\ mail' = [mail EXCEPT ![p] = [letter EXCEPT !.task = "over",
                                                                 !.result = [ok |-> FALSE, jar |-> {}]]]
            BY <3>1, <4>1 DEF TakeLogin
          <5> QED
            BY <5>1 DEF Letters
        <4>2. CASE EndLogin(p)
          <5>1. PICK result \in Replayed(letter.payload) :
                  /\ mail' = [mail EXCEPT ![p] = [letter EXCEPT !.task = "over", !.result = result]]
                  /\ letter.task = "running"
            BY <3>1, <4>2 DEF EndLogin
          <5>2. \A new \in Exported : new \in SUBSET Lifetimes
            BY DEF Exported, Lifetimes
          <5>3. result \in [ok : BOOLEAN, jar : SUBSET Lifetimes]
            <6>1. CASE result = [ok |-> FALSE, jar |-> {}]
              BY <6>1
            <6>2. CASE \E new \in Exported : result = [ok |-> TRUE, jar |-> new]
              BY <5>2, <6>2
            <6> QED
              BY <5>1, <6>1, <6>2 DEF Replayed
          <5>4. [letter EXCEPT !.task = "over", !.result = result] \in Letters
            BY <5>3 DEF Letters
          <5> QED
            BY <5>1, <5>4
        <4>3. CASE Redeliver(p)
          <5>1. mail' = [mail EXCEPT ![p] = [letter EXCEPT !.task = "again"]] /\ letter.task = "running"
            BY <3>1, <4>3 DEF Redeliver
          <5> QED
            BY <5>1 DEF Letters
        <4> QED
          BY <2>2, <4>1, <4>2, <4>3
      <3>3. mail' \in [Callers -> Letters]
        BY <1>0, <3>2 DEF TypeOK
      <3> QED
        BY <1>0, <2>2, <3>3, AroundKeeps DEF TakeLogin, EndLogin, Redeliver, TypeOK
    <2> QED
      BY <1>0, <1>2, <2>1, <2>2, CallWalks, WalksKeep DEF Calls
  <1>3. ASSUME NEW s \in Sids, Lapse(s) \/ LapseShort(s) \/ Age(s) PROVE StoreInv'
    <2>1. CASE Lapse(s) \/ Age(s)
      BY <1>0, <2>1, AroundKeeps DEF Lapse, Age, TypeOK
    <2>2. CASE LapseShort(s)
      <3>1. /\ rmw' \in [Sids -> Callers \cup {Nobody}] /\ \A x \in Sids \ torn' : rmw'[x] = rmw[x]
            /\ mail' \in [Callers -> Letters]
        BY <1>0, <2>2 DEF LapseShort, TypeOK
      <3> QED
        BY <1>0, <2>2, <3>1, AroundKeeps DEF LapseShort
    <2> QED
      BY <1>3, <2>1, <2>2
  <1> QED
    BY <1>1, <1>2, <1>3 DEF SNext

(* Callers follow their programs, and the store holds what it should.      *)
THEOREM StoreIsTyped == SSpec => []TypeOK
  <1>1. StoreInv => TypeOK
    BY DEF StoreInv
  <1> QED
    BY StoreInit, StoreStep, <1>1, PTL DEF SSpec

(* No way out of a login leaves its session logging_in behind: whenever a  *)
(* session says so, some login call at work on it has still to set another *)
(* status, for any number of sessions and callers, lapsed session locks    *)
(* and evictions included; unless its process died, Redis failed it, or    *)
(* the short lock of the session lapsed.                                   *)
THEOREM NobodyIsLeftLoggingIn == SSpec => []LoggingInHasLogin
  <1>1. StoreInv => LoggingInHasLogin
    BY DEF StoreInv, SomeoneObliged, Says, Obliged, LoggingInHasLogin, Ahead, Op
  <1> QED
    BY StoreInit, StoreStep, <1>1, PTL DEF SSpec

(* A session says ready only with a storage state, until it expires or its *)
(* short lock lapses, whoever wrote status and cookies last; and what is   *)
(* stored was normalized, empty lists and string expiries included.        *)
THEOREM ReadySessionsHaveState == SSpec => []ReadyHasState
  <1>1. StoreInv => ReadyHasState
    BY DEF StoreInv, StoredFirst, ReadyHasState, TypeOK, Record
  <1> QED
    BY StoreInit, StoreStep, <1>1, PTL DEF SSpec


=============================================================================
