----------------------------- MODULE PresetStore -----------------------------
(* One preset file: src/presets/store.py, the service and the endpoints in *)
(* front of it, and the jobs that read it (src/api/scrape_preset.py) and   *)
(* minutes later store a repaired recipe (_persist_self_heal). Threads of  *)
(* the API and workers in other containers share the directory, so every   *)
(* system call is a step of its own. A file is absent, blank (created, not *)
(* written yet), or holds a preset; its bytes are its content.             *)
EXTENDS SelfHeal, Sequences

CONSTANTS
  People,     \* API calls that write, one each
  Jobs,       \* scrape jobs off the preset
  Contents,   \* the presets people may send: [rest, recipe, version]
  Plans,      \* the recipes a model may answer with
  Pages,      \* what the selectors find on a page
  Absent, Blank

VARIABLES
  file,    \* the file: Absent, Blank or its content
  inode,   \* who created the blank file
  holder,  \* who holds its lock file
  actor,   \* what each call or job has left to do
  last     \* history: what people stored or removed last

pvars == <<file, inode, holder, actor, last>>

NoOne == "no one"
Actors == People \cup Jobs

(* What a preset may be: what people send passed the validator that keeps  *)
(* selectors in their row (ExtractRule).                                   *)
Rules == [selector : Selectors, required : BOOLEAN, coerce : BOOLEAN, base : Bases]
Recipes == [scoped : BOOLEAN, fields : UNION {[F -> Rules] : F \in SUBSET Fields}]
Stored == [rest : {c.rest : c \in Contents}, version : Nat, recipe : Recipes]

ASSUME PresetAssumption ==
  /\ Contents \subseteq Stored /\ \A c \in Contents : InScope(c.recipe)
  /\ Plans \subseteq Recipes
  /\ Absent \notin Stored /\ Blank \notin Stored /\ Absent # Blank
  /\ People \cap Jobs = {} /\ NoOne \notin Actors
Idle == [call |-> "none", todo |-> <<>>, content |-> Absent, stamp |-> Absent, plan |-> Absent,
         injected |-> {}, result |-> Nothing]

PInit ==
  /\ file \in Contents /\ last = file
  /\ inode = NoOne /\ holder = NoOne
  /\ actor = [p \in Actors |-> Idle]

Readable == file \notin {Absent, Blank}
Doing(p, op) == actor[p].todo # <<>> /\ Head(actor[p].todo) = op
Goes(p, ops) == actor' = [actor EXCEPT ![p].todo = ops]
Onward(p) == Goes(p, Tail(actor[p].todo))

Program(call) ==
  CASE call = "put"      -> <<"exists", "lock", "stat", "replace">>
    [] call = "delete"   -> <<"exists", "lock", "unlink">>
    [] call = "create"   -> <<"open", "write">>
    [] call = "generate" -> <<"vacant", "open", "write">>

PersistUnlocked == <<"load", "exists", "stat", "compare", "lock", "replace">>
Persist == <<"load", "exists", "lock", "stat", "compare", "replace">>

Call(p) ==
  /\ actor[p] = Idle
  /\ \E call \in {"put", "delete", "create", "generate"}, c \in Contents :
       actor' = [actor EXCEPT ![p] = [Idle EXCEPT !.call = call, !.todo = Program(call), !.content = c]]
  /\ UNCHANGED <<file, inode, holder, last>>

(* materialize(): the plan of a job with a preset's recipe, or the         *)
(* caller's own, filled in for its request.                                *)
ParserPlan(call, recipe) ==
  [Idle EXCEPT !.call = call, !.todo = <<"parse">>, !.plan = Materialized(recipe), !.injected = Injected(recipe)]

(* A job reads the preset with its stamp.                                  *)
Read(j) ==
  /\ actor[j] = Idle /\ Readable
  /\ \E plan \in {ParserPlan("scrape", file.recipe)} \cup {ParserPlan("scrape, own recipe", c.recipe) : c \in Contents} :
       actor' = [actor EXCEPT ![j] = [plan EXCEPT !.stamp = file]]
  /\ UNCHANGED <<file, inode, holder, last>>

(* No such preset or locale, a parameter missing, two sessions named, an   *)
(* override the request has no field for: no job is made.                  *)
Reject(j) ==
  /\ actor[j] = Idle
  /\ actor' = [actor EXCEPT ![j].call = "rejected"]
  /\ UNCHANGED <<file, inode, holder, last>>

Completion == {"fails", "answers"}  \* a model without a key, or that returns no text, fails
Generated == {{}} \cup {{healed} : healed \in Plans}
Extraction == {"off"} \cup Completion

(* apply(): only a repair of the preset's own recipe is stored.            *)
Parse(j) ==
  /\ Doing(j, "parse")
  /\ \E page \in Pages, plan \in Generated, heal \in BOOLEAN, ai \in Extraction :
       LET r == Parsed(actor[j].plan, page, plan, heal, ai)
       IN actor' = [actor EXCEPT
            ![j].result = [mode |-> r.mode, filled |-> r.filled],
            ![j].content = IF r.store = {} THEN Absent
                           ELSE [recipe |-> Stripped(CHOOSE h \in r.store : TRUE, actor[j].injected)],
            ![j].todo = IF r.store = {} \/ actor[j].call # "scrape" THEN <<>> ELSE Persist]
  /\ UNCHANGED <<file, inode, holder, last>>

(* store.get and the copy that is to be written.                           *)
Load(j) ==
  /\ Doing(j, "load")
  /\ IF ~Readable THEN Goes(j, <<>>)
     ELSE actor' = [actor EXCEPT ![j].todo = Tail(@),
            ![j].content = [file EXCEPT !.recipe = actor[j].content.recipe, !.version = @ + 1]]
  /\ UNCHANGED <<file, inode, holder, last>>

Exists(p) ==
  /\ Doing(p, "exists")
  /\ IF file = Absent THEN Goes(p, <<>>) ELSE Onward(p)
  /\ UNCHANGED <<file, inode, holder, last>>

Vacant(p) ==
  /\ Doing(p, "vacant")
  /\ IF file # Absent THEN Goes(p, <<>>) ELSE Onward(p)
  /\ UNCHANGED <<file, inode, holder, last>>

(* A job does not wait for the lock, people do, for ten seconds.           *)
Lock(p) ==
  /\ Doing(p, "lock")
  /\ \/ holder = NoOne /\ holder' = p /\ Onward(p)
     \/ holder # NoOne /\ UNCHANGED holder /\ Goes(p, <<>>)
  /\ UNCHANGED <<file, inode, last>>

Unlocks(p) == holder' = IF holder = p THEN NoOne ELSE holder

Stat(p) ==
  /\ Doing(p, "stat")
  /\ IF file = Absent THEN Goes(p, <<>>) /\ Unlocks(p) ELSE Onward(p) /\ UNCHANGED holder
  /\ UNCHANGED <<file, inode, last>>

Compare(j) ==
  /\ Doing(j, "compare")
  /\ IF file # actor[j].stamp THEN Goes(j, <<>>) /\ Unlocks(j) ELSE Onward(j) /\ UNCHANGED holder
  /\ UNCHANGED <<file, inode, last>>

Replace(p) ==
  /\ Doing(p, "replace")
  /\ file' = actor[p].content
  /\ last' = IF p \in People THEN actor[p].content ELSE last
  /\ inode' = NoOne
  /\ Unlocks(p) /\ Onward(p)

Unlink(p) ==
  /\ Doing(p, "unlink")
  /\ IF file = Absent THEN UNCHANGED <<file, last>> ELSE file' = Absent /\ last' = Absent
  /\ inode' = NoOne
  /\ Unlocks(p) /\ Onward(p)

(* create: exclusive, in two steps and without the lock. What is written   *)
(* after the file was replaced or removed goes to an inode nobody sees.    *)
Open(p) ==
  /\ Doing(p, "open")
  /\ IF file # Absent THEN Goes(p, <<>>) /\ UNCHANGED <<file, inode, last>>
     ELSE file' = Blank /\ last' = Blank /\ inode' = p /\ Onward(p)
  /\ UNCHANGED holder

Write(p) ==
  /\ Doing(p, "write")
  /\ IF inode = p THEN file' = actor[p].content /\ last' = actor[p].content /\ inode' = NoOne
     ELSE UNCHANGED <<file, inode, last>>
  /\ Onward(p)
  /\ UNCHANGED holder

(* The process dies, or its write fails; the descriptor of the lock goes   *)
(* with it.                                                                *)
Fail(p) ==
  /\ actor[p].todo # <<>>
  /\ Goes(p, <<>>) /\ Unlocks(p)
  /\ UNCHANGED <<file, inode, last>>

PNext ==
  \/ \E p \in People : Call(p)
  \/ \E j \in Jobs : Read(j) \/ Reject(j) \/ Parse(j) \/ Load(j) \/ Compare(j)
  \/ \E p \in Actors : \/ Exists(p) \/ Vacant(p) \/ Lock(p) \/ Stat(p) \/ Replace(p)
                       \/ Unlink(p) \/ Open(p) \/ Write(p) \/ Fail(p)

PSpec == PInit /\ [][PNext]_pvars

-----------------------------------------------------------------------------
(* The stored recipe is the one people stored last, but for its selectors: *)
(* no repair brings back a removed preset, drops, adds or relaxes a field, *)
(* or leaves a value of one request in it.                                 *)
EditSurvives ==
  IF last \in {Absent, Blank} THEN file = last
  ELSE Readable /\ Contract(file.recipe) = Contract(last.recipe) /\ InScope(file.recipe)

(* A job that says self_healed has every field the caller's recipe         *)
(* requires.                                                               *)
HealedIsWhole ==
  \A j \in Jobs : actor[j].result.mode = "self_healed" => Required(actor[j].plan) \subseteq actor[j].result.filled

(* What a repair does not concern stays as people stored it last.          *)
RestSurvives == Readable => file.rest = last.rest
=============================================================================
