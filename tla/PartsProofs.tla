----------------------------- MODULE PartsProofs -----------------------------
(* Theorems about components of the scraper that stand alone, for every    *)
(* value of their constants: the browser a worker keeps warm, the redirect *)
(* stubs of a page, the presets that people edit and jobs repair, the fetch *)
(* of a page, and the rows its recipe takes from it.                       *)
EXTENDS WorkerBrowser, RedirectResolve, PresetStore, PageFetch, RowExtraction,
        FiniteSetTheorems, WellFoundedInduction, TLAPS

(***** WorkerBrowser *****)

(* Why no pass closes a browser in use: while a pass is closing, no task   *)
(* holds the guard; a task past start() has a handle and its driver, and a *)
(* handle never is without a driver.                                       *)
AtGuard == task.at \in {"start", "launch", "render"}
Closing == tick.at \in {"closing", "closed"}

BrowserShape ==
  /\ task \in [at : {"away", "start", "launch", "render", "left"}, pooled : BOOLEAN]
  /\ tick \in [at : {"asleep", "waiting", "closing", "closed", "over"}, now : Nat, retire : BOOLEAN]
  /\ clock \in Nat

OneHolder == ~(AtGuard /\ Closing) /\ (AtGuard => tick.at # "over")
HandleHasDriver == browser # "none" => driver
LaunchHasDriver == task.at = "launch" => driver

Guarded == BrowserShape /\ OneHolder /\ HandleHasDriver /\ LaunchHasDriver /\ NeverClosedInUse

LEMMA GuardedInit == WInit => Guarded
BY DEF WInit, Guarded, BrowserShape, OneHolder, AtGuard, Closing, HandleHasDriver, LaunchHasDriver, NeverClosedInUse

LEMMA GuardedStep == Guarded /\ [WNext]_wvars => Guarded'
<1> SUFFICES ASSUME Guarded, [WNext]_wvars PROVE Guarded'
  OBVIOUS
<1> USE DEF Guarded, BrowserShape, OneHolder, AtGuard, Closing, HandleHasDriver, LaunchHasDriver, NeverClosedInUse
<1>1. CASE Later
  BY <1>1 DEF Later
<1>2. CASE Enter
  BY <1>2 DEF Enter, Held
<1>3. CASE StartDriver
  BY <1>3 DEF StartDriver
<1>4. CASE Launch
  BY <1>4 DEF Launch
<1>5. CASE Abandon
  BY <1>5 DEF Abandon
<1>6. CASE Render
  BY <1>6 DEF Render
<1>7. CASE RecordPage
  BY <1>7 DEF RecordPage
<1>8. CASE Wake
  BY <1>8 DEF Wake
<1>9. CASE Look
  BY <1>9 DEF Look, Held
<1>10. CASE Stop
  BY <1>10 DEF Stop
<1>11. CASE Closed
  BY <1>11 DEF Closed
<1>12. CASE Drain
  BY <1>12 DEF Drain
<1>13. CASE Die
  BY <1>13 DEF Die
<1>14. CASE UNCHANGED wvars
  BY <1>14 DEF wvars
<1>15. QED
  BY <1>1, <1>2, <1>3, <1>4, <1>5, <1>6, <1>7, <1>8, <1>9, <1>10, <1>11, <1>12, <1>13, <1>14 DEF WNext

(* The pass that retires or closes a browser never takes it, or its        *)
(* driver, from under a task: for every limit of pages.                    *)
THEOREM NoBrowserIsTakenAway == WSpec => []NeverClosedInUse
<1>1. Guarded => NeverClosedInUse
  BY DEF Guarded
<1>2. QED
  BY GuardedInit, GuardedStep, <1>1, PTL DEF WSpec

(***** RedirectResolve *****)

(* Why no answer reaches another cell: an answer that has arrived stands   *)
(* in the place of its own hop, and cells are rewritten from there only.   *)
OwnAnswer ==
  \A i \in DOMAIN result : result[i] = Unanswered \/ \E o \in Outcomes : result[i] = Answered(o, i)

OwnCell ==
  \A i \in 1..Cells :
    \/ \E v \in Values : cell[i] = Found(v, i)
    \/ stage = "done" /\ cell[i] = Destination(i) /\ i \in DOMAIN result /\ result[i] = Answered("resolved", i)

CellShape == DOMAIN cell = 1..Cells /\ result = [i \in DOMAIN result |-> result[i]]

Placed == CellShape /\ OwnAnswer /\ OwnCell

LEMMA PlacedInit == ResolveInit => Placed
<1> SUFFICES ASSUME ResolveInit PROVE Placed
  OBVIOUS
<1>1. DOMAIN result = {} /\ result = [i \in DOMAIN result |-> result[i]]
  BY DEF ResolveInit
<1>2. \A i \in 1..Cells : cell[i] = Found("no_link", i)
  BY DEF ResolveInit
<1>3. QED
  BY <1>1, <1>2 DEF ResolveInit, Placed, CellShape, OwnAnswer, OwnCell, Values

LEMMA PlacedStep == Placed /\ [ResolveNext]_rvars => Placed'
<1> SUFFICES ASSUME Placed, [ResolveNext]_rvars PROVE Placed'
  OBVIOUS
<1>1. CASE Collect
  <2>1. PICK found \in [1..Cells -> Values] :
          LET stubs == {i \in 1..Cells : found[i] = "stub"}
              attempted == {i \in stubs : Cardinality({j \in stubs : j < i}) < MaxLinks}
          IN /\ cell' = [i \in 1..Cells |-> Found(found[i], i)]
             /\ result' = [i \in attempted |-> Unanswered]
    BY <1>1 DEF Collect
  <2>2. CellShape' /\ \A i \in DOMAIN result' : result'[i] = Unanswered
    BY <2>1 DEF CellShape
  <2>3. \A i \in 1..Cells : found[i] \in Values /\ cell'[i] = Found(found[i], i)
    BY <2>1
  <2>4. QED
    BY <2>2, <2>3 DEF Placed, OwnAnswer, OwnCell
<1>2. CASE Settle
  BY <1>2 DEF Settle, Placed, CellShape, OwnAnswer, OwnCell
<1>3. CASE Rewrite
  <2>1. UNCHANGED result /\ stage' = "done" /\ stage # "done"
    BY <1>3 DEF Rewrite
  <2>2. DOMAIN cell' = 1..Cells
    BY <1>3 DEF Rewrite
  <2>3. ASSUME NEW i \in 1..Cells
        PROVE \/ \E v \in Values : cell'[i] = Found(v, i)
              \/ cell'[i] = Destination(i) /\ i \in DOMAIN result /\ result[i] = Answered("resolved", i)
    <3>1. cell'[i] = IF i \in DOMAIN result /\ result[i].outcome = "resolved"
                     THEN Destination(result[i].of) ELSE cell[i]
      BY <1>3 DEF Rewrite
    <3>2. \E v \in Values : cell[i] = Found(v, i)
      BY <2>1 DEF Placed, OwnCell
    <3>3. CASE i \in DOMAIN result /\ result[i].outcome = "resolved"
      <4>1. Unanswered.outcome # "resolved"
        BY DEF Unanswered, Answered
      <4>2. PICK o \in Outcomes : result[i] = Answered(o, i)
        BY <3>3, <4>1 DEF Placed, OwnAnswer
      <4>3. o = "resolved" /\ result[i].of = i
        BY <3>3, <4>2 DEF Answered
      <4>4. QED
        BY <3>1, <3>3, <4>2, <4>3
    <3>4. QED
      BY <3>1, <3>2, <3>3
  <2>4. QED
    BY <2>1, <2>2, <2>3 DEF Placed, CellShape, OwnAnswer, OwnCell
<1>4. ASSUME NEW i \in DOMAIN result, Ask(i) PROVE Placed'
  BY <1>4 DEF Ask, Placed, CellShape, OwnAnswer, OwnCell
<1>5. ASSUME NEW i \in DOMAIN result, Answer(i) PROVE Placed'
  <2>1. UNCHANGED <<cell, stage>> /\ stage = "asking"
    BY <1>5 DEF Answer
  <2>2. PICK o \in Outcomes : result' = [result EXCEPT ![i] = Answered(o, i)]
    BY <1>5 DEF Answer
  <2>3. DOMAIN result' = DOMAIN result
    BY <2>2
  <2>4. \A j \in DOMAIN result : result'[j] = IF j = i THEN Answered(o, i) ELSE result[j]
    BY <2>2 DEF Placed, CellShape
  <2>5. result' = [j \in DOMAIN result' |-> result'[j]]
    BY <2>2
  <2>6. QED
    BY <2>1, <2>3, <2>4, <2>5 DEF Placed, CellShape, OwnAnswer, OwnCell
<1>6. CASE UNCHANGED rvars
  BY <1>6 DEF rvars, Placed, CellShape, OwnAnswer, OwnCell
<1>7. QED
  BY <1>1, <1>2, <1>3, <1>4, <1>5, <1>6 DEF ResolveNext

LEMMA PlacedIsOwn == Placed => OwnDestination
<1> SUFFICES ASSUME Placed, NEW i \in 1..Cells
             PROVE /\ cell[i] \in {Found(v, i) : v \in Values} \cup {Destination(i)}
                   /\ cell[i] = Destination(i) => i \in DOMAIN result /\ result[i] = Answered("resolved", i)
  BY DEF OwnDestination
<1>1. CASE \E v \in Values : cell[i] = Found(v, i)
  <2>1. \A v \in Values : Found(v, i) # Destination(i)
    BY DEF Values, Found, Destination
  <2>2. QED
    BY <1>1, <2>1
<1>2. CASE cell[i] = Destination(i) /\ i \in DOMAIN result /\ result[i] = Answered("resolved", i)
  BY <1>2
<1>3. QED
  BY <1>1, <1>2 DEF Placed, OwnCell

(* A destination lands in the cell of its own stub and nowhere else, for   *)
(* any number of cells, links and requests under way, in any order.        *)
THEOREM DestinationsLandAtHome == ResolveSpec => []OwnDestination
<1>1. QED
  BY PlacedInit, PlacedStep, PlacedIsOwn, PTL DEF ResolveSpec

-----------------------------------------------------------------------------
(***** PresetStore *****)

(* What a repair may do to a recipe.                                       *)
Keeps(new, old) == new \in Recipes /\ Contract(new) = Contract(old) /\ InScope(new)

-----------------------------------------------------------------------------
(* A recipe filled in for a request, repaired, and stripped again has the  *)
(* contract of the recipe it came from.                                    *)
LEMMA RecipeShape ==
  ASSUME NEW R \in Recipes
  PROVE  /\ R = [scoped |-> R.scoped, fields |-> R.fields]
         /\ Names(R) \subseteq Fields
         /\ R.fields = [f \in Names(R) |-> R.fields[f]]
         /\ \A f \in Names(R) : R.fields[f] \in Rules
         /\ R.scoped \in BOOLEAN
<1>1. PICK F \in SUBSET Fields : R.fields \in [F -> Rules]
  BY DEF Recipes
<1>2. QED
  BY <1>1 DEF Recipes, Names

LEMMA NewFields ==
  ASSUME NEW R \in Recipes, NEW fields
  PROVE  [R EXCEPT !.fields = fields] = [scoped |-> R.scoped, fields |-> fields]
BY DEF Recipes

LEMMA MadeRecipe ==
  ASSUME NEW b \in BOOLEAN, NEW F \in SUBSET Fields, NEW fields \in [F -> Rules]
  PROVE  /\ [scoped |-> b, fields |-> fields] \in Recipes
         /\ Names([scoped |-> b, fields |-> fields]) = F
BY DEF Recipes, Names

LEMMA MaterializedShape ==
  ASSUME NEW R \in Recipes
  PROVE  /\ Materialized(R) \in Recipes
         /\ Names(Materialized(R)) = Names(R)
         /\ Materialized(R).scoped = R.scoped
         /\ \A f \in Names(R) : Materialized(R).fields[f] =
              IF f \in Injected(R) THEN [R.fields[f] EXCEPT !.base = "this request"] ELSE R.fields[f]
<1> DEFINE fields == [f \in Names(R) |->
              IF f \in Injected(R) THEN [R.fields[f] EXCEPT !.base = "this request"] ELSE R.fields[f]]
<1>1. Materialized(R) = [scoped |-> R.scoped, fields |-> fields]
  BY NewFields DEF Materialized
<1>2. \A f \in Names(R) : fields[f] \in Rules
  <2> TAKE f \in Names(R)
  <2>1. PICK rule \in Rules : rule = R.fields[f]
    BY RecipeShape
  <2>2. [rule EXCEPT !.base = "this request"] \in Rules
    BY DEF Rules, Bases
  <2> QED BY <2>1, <2>2
<1>3. Names(R) \in SUBSET Fields /\ fields \in [Names(R) -> Rules]
  BY <1>2, RecipeShape
<1>4. \A f \in Names(R) : fields[f] =
              IF f \in Injected(R) THEN [R.fields[f] EXCEPT !.base = "this request"] ELSE R.fields[f]
  OBVIOUS
<1>5. R.scoped \in BOOLEAN
  BY RecipeShape
<1> HIDE DEF fields
<1>6. [scoped |-> R.scoped, fields |-> fields] \in Recipes /\ Names([scoped |-> R.scoped, fields |-> fields]) = Names(R)
  BY <1>3, <1>5, MadeRecipe
<1>7. Materialized(R) \in Recipes /\ Names(Materialized(R)) = Names(R)
  BY <1>1, <1>6
<1>8. Materialized(R).scoped = R.scoped /\ Materialized(R).fields = fields
  BY <1>1
<1>9. QED
  BY <1>4, <1>7, <1>8

LEMMA MergedShape ==
  ASSUME NEW M \in Recipes, NEW h \in Recipes, Covers(h, M)
  PROVE  /\ Merged(M, h) \in Recipes
         /\ Names(Merged(M, h)) = Names(M)
         /\ Merged(M, h).scoped = M.scoped
         /\ \A f \in Names(M) : Merged(M, h).fields[f] = [M.fields[f] EXCEPT !.selector = h.fields[f].selector]
<1> DEFINE fields == [f \in Names(M) |-> [M.fields[f] EXCEPT !.selector = h.fields[f].selector]]
<1>1. Merged(M, h) = [scoped |-> M.scoped, fields |-> fields]
  BY NewFields DEF Merged
<1>2. \A f \in Names(M) : h.fields[f] \in Rules /\ M.fields[f] \in Rules
  BY RecipeShape DEF Covers
<1>3. \A f \in Names(M) : fields[f] \in Rules
  BY <1>2 DEF Rules
<1>4. Names(M) \in SUBSET Fields /\ fields \in [Names(M) -> Rules]
  BY <1>3, RecipeShape
<1>5. \A f \in Names(M) : fields[f] = [M.fields[f] EXCEPT !.selector = h.fields[f].selector]
  OBVIOUS
<1>6. M.scoped \in BOOLEAN
  BY RecipeShape
<1> HIDE DEF fields
<1>7. [scoped |-> M.scoped, fields |-> fields] \in Recipes /\ Names([scoped |-> M.scoped, fields |-> fields]) = Names(M)
  BY <1>4, <1>6, MadeRecipe
<1>8. Merged(M, h) \in Recipes /\ Names(Merged(M, h)) = Names(M)
  BY <1>1, <1>7
<1>9. Merged(M, h).scoped = M.scoped /\ Merged(M, h).fields = fields
  BY <1>1
<1>10. QED
  BY <1>5, <1>8, <1>9

LEMMA StrippedShape ==
  ASSUME NEW M \in Recipes, NEW I
  PROVE  /\ Stripped(M, I) \in Recipes
         /\ Names(Stripped(M, I)) = Names(M)
         /\ Stripped(M, I).scoped = M.scoped
         /\ \A f \in Names(M) : Stripped(M, I).fields[f] =
              IF f \in I THEN [M.fields[f] EXCEPT !.base = "empty"] ELSE M.fields[f]
<1> DEFINE fields == [f \in Names(M) |-> IF f \in I THEN [M.fields[f] EXCEPT !.base = "empty"] ELSE M.fields[f]]
<1>1. Stripped(M, I) = [scoped |-> M.scoped, fields |-> fields]
  BY NewFields DEF Stripped
<1>2. \A f \in Names(M) : fields[f] \in Rules
  <2> TAKE f \in Names(M)
  <2>1. PICK rule \in Rules : rule = M.fields[f]
    BY RecipeShape
  <2>2. [rule EXCEPT !.base = "empty"] \in Rules
    BY DEF Rules, Bases
  <2> QED BY <2>1, <2>2
<1>3. Names(M) \in SUBSET Fields /\ fields \in [Names(M) -> Rules]
  BY <1>2, RecipeShape
<1>4. \A f \in Names(M) : fields[f] = IF f \in I THEN [M.fields[f] EXCEPT !.base = "empty"] ELSE M.fields[f]
  OBVIOUS
<1>5. M.scoped \in BOOLEAN
  BY RecipeShape
<1> HIDE DEF fields
<1>6. [scoped |-> M.scoped, fields |-> fields] \in Recipes /\ Names([scoped |-> M.scoped, fields |-> fields]) = Names(M)
  BY <1>3, <1>5, MadeRecipe
<1>7. Stripped(M, I) \in Recipes /\ Names(Stripped(M, I)) = Names(M)
  BY <1>1, <1>6
<1>8. Stripped(M, I).scoped = M.scoped /\ Stripped(M, I).fields = fields
  BY <1>1
<1>9. QED
  BY <1>4, <1>7, <1>8

LEMMA RepairKeeps ==
  ASSUME NEW R \in Recipes, NEW h \in Recipes, Covers(h, Materialized(R)),
         InScope(Merged(Materialized(R), h))
  PROVE  Keeps(Stripped(Merged(Materialized(R), h), Injected(R)), R)
<1> DEFINE M == Materialized(R)
           G == Merged(M, h)
           S == Stripped(G, Injected(R))
<1>1. /\ M \in Recipes /\ Names(M) = Names(R) /\ M.scoped = R.scoped
      /\ \A f \in Names(R) : M.fields[f] =
           IF f \in Injected(R) THEN [R.fields[f] EXCEPT !.base = "this request"] ELSE R.fields[f]
  BY MaterializedShape
<1>2. /\ G \in Recipes /\ Names(G) = Names(M) /\ G.scoped = M.scoped
      /\ \A f \in Names(M) : G.fields[f] = [M.fields[f] EXCEPT !.selector = h.fields[f].selector]
  BY <1>1, MergedShape
<1>3. /\ S \in Recipes /\ Names(S) = Names(G) /\ S.scoped = G.scoped
      /\ \A f \in Names(G) : S.fields[f] = IF f \in Injected(R) THEN [G.fields[f] EXCEPT !.base = "empty"] ELSE G.fields[f]
  BY <1>2, StrippedShape
<1>4. ASSUME NEW f \in Names(R)
      PROVE  /\ S.fields[f].required = R.fields[f].required
             /\ S.fields[f].coerce = R.fields[f].coerce
             /\ S.fields[f].base = R.fields[f].base
             /\ S.fields[f].selector = G.fields[f].selector
  <2>1. R.fields[f] \in Rules /\ M.fields[f] \in Rules /\ G.fields[f] \in Rules
    BY <1>1, <1>2, RecipeShape
  <2>2. M.fields[f].required = R.fields[f].required /\ M.fields[f].coerce = R.fields[f].coerce
    BY <1>1, <2>1 DEF Rules
  <2>3. f \notin Injected(R) => M.fields[f].base = R.fields[f].base
    BY <1>1
  <2>4. /\ G.fields[f].required = M.fields[f].required /\ G.fields[f].coerce = M.fields[f].coerce
        /\ G.fields[f].base = M.fields[f].base
    BY <1>1, <1>2, <2>1 DEF Rules
  <2>5. f \in Injected(R) => R.fields[f].base = "empty"
    BY DEF Injected
  <2>6. S.fields[f] = IF f \in Injected(R) THEN [G.fields[f] EXCEPT !.base = "empty"] ELSE G.fields[f]
    BY <1>1, <1>2, <1>3
  <2>7. CASE f \in Injected(R)
    BY <2>1, <2>2, <2>4, <2>5, <2>6, <2>7 DEF Rules
  <2>8. CASE f \notin Injected(R)
    BY <2>1, <2>2, <2>3, <2>4, <2>6, <2>8
  <2>9. QED
    BY <2>7, <2>8
<1>5. Contract(S) = Contract(R)
  <2>1. Names(S) = Names(R) /\ S.scoped = R.scoped
    BY <1>1, <1>2, <1>3
  <2>2. [f \in Names(S) |-> [required |-> S.fields[f].required, coerce |-> S.fields[f].coerce, base |-> S.fields[f].base]]
        = [f \in Names(R) |-> [required |-> R.fields[f].required, coerce |-> R.fields[f].coerce, base |-> R.fields[f].base]]
    BY <1>4, <2>1
  <2>3. QED
    BY <2>1, <2>2 DEF Contract
<1>6. InScope(S)
  BY <1>1, <1>2, <1>3, <1>4 DEF InScope
<1>7. QED
  BY <1>3, <1>5, <1>6 DEF Keeps

(* What the parser says is to be stored is the plan of a model that covers *)
(* every field, in the scope of the recipe, under that recipe's contract.  *)
LEMMA StoreIsRepair ==
  ASSUME NEW R, NEW page, NEW plan, NEW heal, NEW ai,
         Parsed(R, page, plan, heal, ai).store # {}
  PROVE  \E h \in plan : /\ Covers(h, R) /\ InScope(Merged(R, h))
                         /\ Parsed(R, page, plan, heal, ai).store = {Merged(R, h)}
<1> DEFINE repairs == {Repair(R, h) : h \in plan}
           good == {r \in repairs : r.usable /\ Recovers(R, r.run, page)}
<1>1. PICK r \in good : r.complete /\ Parsed(R, page, plan, heal, ai).store = {r.run}
  <2>1. /\ good # {} /\ (CHOOSE r \in good : TRUE).complete
        /\ Parsed(R, page, plan, heal, ai).store = {(CHOOSE r \in good : TRUE).run}
    BY DEF Parsed
  <2>2. QED
    BY <2>1
<1>2. PICK h \in plan : r = Repair(R, h)
  BY <1>1
<1>3. Covers(h, R)
  BY <1>1, <1>2 DEF Repair
<1>4. Repair(R, h) = [usable |-> InScope(Merged(R, h)), run |-> Merged(R, h), complete |-> TRUE]
  BY <1>3 DEF Repair
<1>5. r.run = Merged(R, h) /\ r.usable = InScope(Merged(R, h))
  BY <1>2, <1>4
<1>6. QED
  BY <1>1, <1>2, <1>3, <1>5

-----------------------------------------------------------------------------
(* What is left of a call, and what may follow what in it.                 *)
PersonTodos ==
  {<<"exists", "lock", "stat", "replace">>, <<"lock", "stat", "replace">>, <<"stat", "replace">>,
   <<"replace">>, <<"exists", "lock", "unlink">>, <<"lock", "unlink">>, <<"unlink">>,
   <<"vacant", "open", "write">>, <<"open", "write">>, <<"write">>}
JobTodos ==
  {<<"parse">>, <<"load", "exists", "lock", "stat", "compare", "replace">>,
   <<"exists", "lock", "stat", "compare", "replace">>, <<"lock", "stat", "compare", "replace">>,
   <<"stat", "compare", "replace">>, <<"compare", "replace">>, <<"replace">>}
Locked == {"stat", "compare", "replace", "unlink"}

LEMMA Programs ==
  /\ <<>> \notin PersonTodos \cup JobTodos
  /\ \A call \in {"put", "delete", "create", "generate"} :
       Program(call) \in PersonTodos /\ Head(Program(call)) \in {"exists", "open", "vacant"}
  /\ Persist \in JobTodos /\ Head(Persist) = "load"
  /\ <<"parse">> \in JobTodos /\ Head(<<"parse">>) = "parse"
BY DEF PersonTodos, JobTodos, Program, Persist

LEMMA PersonTodo ==
  ASSUME NEW t \in PersonTodos
  PROVE  \/ Head(t) \in {"exists", "vacant"} /\ Tail(t) \in PersonTodos /\ Head(Tail(t)) \in {"lock", "open"}
         \/ Head(t) = "lock" /\ Tail(t) \in PersonTodos
         \/ Head(t) = "stat" /\ Tail(t) \in PersonTodos /\ Head(Tail(t)) = "replace"
         \/ Head(t) = "open" /\ Tail(t) \in PersonTodos /\ Head(Tail(t)) = "write"
         \/ Head(t) \in {"replace", "unlink", "write"} /\ Tail(t) = <<>>
<1>1. CASE t = <<"exists", "lock", "stat", "replace">>
  BY <1>1 DEF PersonTodos
<1>2. CASE t = <<"lock", "stat", "replace">>
  BY <1>2 DEF PersonTodos
<1>3. CASE t = <<"stat", "replace">>
  BY <1>3 DEF PersonTodos
<1>4. CASE t = <<"replace">>
  BY <1>4 DEF PersonTodos
<1>5. CASE t = <<"exists", "lock", "unlink">>
  BY <1>5 DEF PersonTodos
<1>6. CASE t = <<"lock", "unlink">>
  BY <1>6 DEF PersonTodos
<1>7. CASE t = <<"unlink">>
  BY <1>7 DEF PersonTodos
<1>8. CASE t = <<"vacant", "open", "write">>
  BY <1>8 DEF PersonTodos
<1>9. CASE t = <<"open", "write">>
  BY <1>9 DEF PersonTodos
<1>10. CASE t = <<"write">>
  BY <1>10 DEF PersonTodos
<1>11. QED
  BY <1>1, <1>2, <1>3, <1>4, <1>5, <1>6, <1>7, <1>8, <1>9, <1>10 DEF PersonTodos

LEMMA JobTodo ==
  ASSUME NEW t \in JobTodos
  PROVE  \/ t = <<"parse">> /\ Head(t) = "parse"
         \/ Head(t) = "load" /\ Tail(t) \in JobTodos /\ Head(Tail(t)) = "exists"
         \/ Head(t) = "exists" /\ Tail(t) \in JobTodos /\ Head(Tail(t)) = "lock"
         \/ Head(t) = "lock" /\ Tail(t) \in JobTodos /\ Head(Tail(t)) = "stat"
         \/ Head(t) = "stat" /\ Tail(t) \in JobTodos /\ Head(Tail(t)) = "compare"
         \/ Head(t) = "compare" /\ Tail(t) \in JobTodos /\ Head(Tail(t)) = "replace"
         \/ Head(t) = "replace" /\ Tail(t) = <<>>
<1>1. CASE t \in {<<"parse">>, <<"replace">>}
  BY <1>1
<1>2. CASE t = <<"load", "exists", "lock", "stat", "compare", "replace">>
  BY <1>2 DEF JobTodos
<1>3. CASE t = <<"exists", "lock", "stat", "compare", "replace">>
  BY <1>3 DEF JobTodos
<1>4. CASE t = <<"lock", "stat", "compare", "replace">>
  BY <1>4 DEF JobTodos
<1>5. CASE t = <<"stat", "compare", "replace">>
  BY <1>5 DEF JobTodos
<1>6. CASE t = <<"compare", "replace">>
  BY <1>6 DEF JobTodos
<1>7. QED
  BY <1>1, <1>2, <1>3, <1>4, <1>5, <1>6 DEF JobTodos

-----------------------------------------------------------------------------
(* What holds of a call or job a, of whoever p, given who holds the lock   *)
(* and what the file is. A job that writes holds a repair of the recipe it *)
(* read, and after its comparison the file is the one it read.             *)
Shaped(a) == a = [x \in {"call", "todo", "content", "stamp", "plan", "injected", "result"} |-> a[x]]

JobInv(a, f) ==
  /\ a.todo \in JobTodos /\ a.stamp \in Stored
  /\ Head(a.todo) = "parse" /\ a.call = "scrape" =>
       a.plan = Materialized(a.stamp.recipe) /\ a.injected = Injected(a.stamp.recipe)
  /\ Head(a.todo) # "parse" => Keeps(a.content.recipe, a.stamp.recipe)
  /\ Head(a.todo) \notin {"parse", "load"} => a.content \in Stored
  /\ Head(a.todo) = "replace" => f = a.stamp

ActorInv(p, a, h, f) ==
  /\ Shaped(a)
  /\ a.todo # <<>> =>
       /\ Head(a.todo) \in Locked => h = p
       /\ p \in People => a.todo \in PersonTodos /\ a.content \in Contents
       /\ p \in Jobs => JobInv(a, f)

PresetInv ==
  /\ file \in Stored \cup {Absent, Blank} /\ last \in Contents \cup {Absent, Blank}
  /\ inode # NoOne => file = Blank
  /\ EditSurvives
  /\ actor = [p \in Actors |-> actor[p]]
  /\ \A p \in Actors : ActorInv(p, actor[p], holder, file)

LEMMA NewTodo ==
  ASSUME NEW a, Shaped(a), NEW ops
  PROVE  LET b == [a EXCEPT !.todo = ops]
         IN /\ Shaped(b) /\ b.todo = ops /\ b.call = a.call /\ b.content = a.content
            /\ b.stamp = a.stamp /\ b.plan = a.plan /\ b.injected = a.injected
BY DEF Shaped

(* A call that is over keeps its promises, whatever happens.               *)
LEMMA Over ==
  ASSUME NEW p, NEW a, Shaped(a), NEW h, NEW f
  PROVE  ActorInv(p, [a EXCEPT !.todo = <<>>], h, f)
BY NewTodo DEF ActorInv

(* A call goes on to its next step.                                        *)
LEMMA GoesOn ==
  ASSUME NEW p \in Actors, NEW a, NEW h, NEW f, NEW newH, NEW newF,
         ActorInv(p, a, h, f), a.todo # <<>>, Head(a.todo) \notin {"parse", "load"},
         Head(a.todo) = "lock" => newH = p,
         Head(a.todo) # "lock" /\ Tail(a.todo) # <<>> => newH = h,
         p \in Jobs /\ Tail(a.todo) # <<>> => newF = f,
         Head(a.todo) = "compare" => f = a.stamp
  PROVE  ActorInv(p, [a EXCEPT !.todo = Tail(a.todo)], newH, newF)
<1> DEFINE b == [a EXCEPT !.todo = Tail(a.todo)]
<1>1. /\ Shaped(b) /\ b.todo = Tail(a.todo) /\ b.call = a.call /\ b.content = a.content
      /\ b.stamp = a.stamp /\ b.plan = a.plan /\ b.injected = a.injected
  BY NewTodo DEF ActorInv
<1> HIDE DEF b
<1>2. ASSUME Tail(a.todo) = <<>> PROVE ActorInv(p, b, newH, newF)
  BY <1>1, <1>2 DEF ActorInv
<1>3. ASSUME Tail(a.todo) # <<>> /\ p \in People PROVE ActorInv(p, b, newH, newF)
  <2>1. a.todo \in PersonTodos /\ a.content \in Contents /\ p \notin Jobs
    BY <1>3, PresetAssumption DEF ActorInv
  <2>2. b.todo \in PersonTodos
    BY <1>1, <1>3, <2>1, PersonTodo
  <2>3. Head(b.todo) \in Locked => newH = p
    BY <1>1, <1>3, <2>1, PersonTodo DEF Locked, ActorInv
  <2>4. QED
    BY <1>1, <2>1, <2>2, <2>3 DEF ActorInv
<1>4. ASSUME Tail(a.todo) # <<>> /\ p \in Jobs PROVE ActorInv(p, b, newH, newF)
  <2>1. JobInv(a, f) /\ p \notin People /\ newF = f
    BY <1>4, PresetAssumption DEF ActorInv
  <2>2. a.todo \in JobTodos
    BY <2>1 DEF JobInv
  <2>3. /\ b.todo \in JobTodos /\ Head(b.todo) \notin {"parse", "load"}
        /\ Head(b.todo) = "replace" => Head(a.todo) = "compare"
    BY <1>1, <1>4, <2>2, JobTodo
  <2>4. Head(b.todo) \in Locked => newH = p
    BY <1>1, <1>4, <2>2, JobTodo DEF Locked, ActorInv
  <2>5. JobInv(b, newF)
    BY <1>1, <2>1, <2>3 DEF JobInv
  <2>6. QED
    BY <1>1, <2>1, <2>4, <2>5 DEF ActorInv
<1>5. QED
  BY <1>2, <1>3, <1>4 DEF b, Actors

-----------------------------------------------------------------------------
(* What one actor's step leaves to the others.                             *)
KeepsLock(p) == \A q \in Actors : q # p /\ holder = q => holder' = q

LEMMA Bystander ==
  ASSUME NEW q \in Actors, NEW a, NEW h, NEW f, NEW newH, NEW newF, ActorInv(q, a, h, f),
         h = q => newH = q,
         newF = f \/ h # q \/ f \in {Absent, Blank}
  PROVE  ActorInv(q, a, newH, newF)
<1> SUFFICES ASSUME a.todo # <<>>, q \in Jobs, JobInv(a, f)
             PROVE  Head(a.todo) = "replace" => newF = a.stamp
  BY DEF ActorInv, JobInv
<1> SUFFICES ASSUME Head(a.todo) = "replace"
             PROVE  newF = a.stamp
  OBVIOUS
<1>1. h = q
  BY DEF ActorInv, Locked
<1>2. f = a.stamp /\ a.stamp \in Stored
  BY DEF JobInv
<1>3. QED
  BY <1>1, <1>2, PresetAssumption

LEMMA Others ==
  ASSUME PresetInv, NEW p \in Actors, NEW b, actor' = [actor EXCEPT ![p] = b],
         ActorInv(p, b, holder', file'), KeepsLock(p),
         file' = file \/ holder = p \/ file \in {Absent, Blank}
  PROVE  /\ actor' = [q \in Actors |-> actor'[q]]
         /\ \A q \in Actors : ActorInv(q, actor'[q], holder', file')
<1>1. /\ actor' = [q \in Actors |-> actor'[q]]
      /\ actor'[p] = b /\ \A q \in Actors : q # p => actor'[q] = actor[q]
  BY DEF PresetInv
<1>2. ASSUME NEW q \in Actors, q # p
      PROVE  ActorInv(q, actor[q], holder', file')
  <2>1. ActorInv(q, actor[q], holder, file)
    BY DEF PresetInv
  <2>2. holder = q => holder' = q
    BY <1>2 DEF KeepsLock
  <2>3. QED
    BY <1>2, <2>1, <2>2, Bystander
<1>3. QED
  BY <1>1, <1>2

LEMMA Quiet ==
  ASSUME PresetInv, NEW p \in Actors, NEW b, actor' = [actor EXCEPT ![p] = b],
         ActorInv(p, b, holder', file'), KeepsLock(p), UNCHANGED <<file, inode, last>>
  PROVE  PresetInv'
<1>1. /\ actor' = [q \in Actors |-> actor'[q]]
      /\ \A q \in Actors : ActorInv(q, actor'[q], holder', file')
  BY Others
<1>2. EditSurvives'
  BY DEF PresetInv, EditSurvives, Readable
<1>3. QED
  BY <1>1, <1>2 DEF PresetInv

LEMMA Stops ==
  ASSUME PresetInv, NEW p \in Actors, Goes(p, <<>>), KeepsLock(p), UNCHANGED <<file, inode, last>>
  PROVE  PresetInv'
<1>1. actor' = [actor EXCEPT ![p] = [actor[p] EXCEPT !.todo = <<>>]]
  BY DEF Goes
<1>2. ActorInv(p, [actor[p] EXCEPT !.todo = <<>>], holder', file')
  BY Over DEF PresetInv, ActorInv
<1>3. QED
  BY <1>1, <1>2, Quiet

LEMMA Continues ==
  ASSUME PresetInv, NEW p \in Actors, actor[p].todo # <<>>, Onward(p), KeepsLock(p), UNCHANGED <<file, inode, last>>,
         Head(actor[p].todo) \notin {"parse", "load"},
         Head(actor[p].todo) = "lock" => holder' = p,
         Head(actor[p].todo) # "lock" => holder' = holder,
         Head(actor[p].todo) = "compare" => file = actor[p].stamp
  PROVE  PresetInv'
<1>1. actor' = [actor EXCEPT ![p] = [actor[p] EXCEPT !.todo = Tail(actor[p].todo)]]
  BY DEF Onward, Goes
<1>2. ActorInv(p, actor[p], holder, file)
  BY DEF PresetInv
<1>3. ActorInv(p, [actor[p] EXCEPT !.todo = Tail(actor[p].todo)], holder', file')
  BY <1>2, GoesOn
<1>4. QED
  BY <1>1, <1>3, Quiet

(* The steps that only look.                                               *)
LEMMA LookingStep ==
  ASSUME PresetInv, NEW p \in Actors, Exists(p) \/ Vacant(p) \/ Lock(p) \/ Stat(p) \/ Fail(p)
  PROVE  PresetInv'
<1>1. KeepsLock(p)
  BY PresetAssumption DEF Exists, Vacant, Lock, Stat, Fail, KeepsLock, Unlocks
<1>2. UNCHANGED <<file, inode, last>>
  BY DEF Exists, Vacant, Lock, Stat, Fail
<1>3. CASE Goes(p, <<>>)
  BY <1>1, <1>2, <1>3, Stops
<1>4. CASE ~Goes(p, <<>>)
  <2>1. /\ actor[p].todo # <<>> /\ Onward(p)
        /\ Head(actor[p].todo) \in {"exists", "vacant", "lock", "stat"}
        /\ Head(actor[p].todo) = "lock" => holder' = p
        /\ Head(actor[p].todo) # "lock" => holder' = holder
    BY <1>4 DEF Exists, Vacant, Lock, Stat, Fail, Doing
  <2>2. QED
    BY <1>1, <1>2, <2>1, Continues
<1>5. QED
  BY <1>3, <1>4

LEMMA CompareStep ==
  ASSUME PresetInv, NEW j \in Jobs, Compare(j)
  PROVE  PresetInv'
<1>1. j \in Actors /\ UNCHANGED <<file, inode, last>> /\ actor[j].todo # <<>> /\ Head(actor[j].todo) = "compare"
  BY DEF Actors, Compare, Doing
<1>2. KeepsLock(j)
  BY PresetAssumption DEF Compare, KeepsLock, Unlocks
<1>3. CASE file # actor[j].stamp
  BY <1>1, <1>2, <1>3, Stops DEF Compare
<1>4. CASE file = actor[j].stamp
  BY <1>1, <1>2, <1>4, Continues DEF Compare
<1>5. QED
  BY <1>3, <1>4

(* The steps that begin a call.                                            *)
LEMMA CallStep ==
  ASSUME PresetInv, NEW p \in People, Call(p)
  PROVE  PresetInv'
<1>1. PICK call \in {"put", "delete", "create", "generate"}, c \in Contents :
        actor' = [actor EXCEPT ![p] = [Idle EXCEPT !.call = call, !.todo = Program(call), !.content = c]]
  BY DEF Call
<1> DEFINE b == [Idle EXCEPT !.call = call, !.todo = Program(call), !.content = c]
<1>2. Shaped(b) /\ b.todo = Program(call) /\ b.content = c
  BY DEF Shaped, Idle
<1> HIDE DEF b
<1>3. p \in Actors /\ p \notin Jobs
  BY PresetAssumption DEF Actors
<1>4. ActorInv(p, b, holder', file')
  BY <1>2, <1>3, Programs DEF ActorInv, Locked
<1>5. KeepsLock(p) /\ UNCHANGED <<file, inode, last>>
  BY DEF Call, KeepsLock
<1>6. actor' = [actor EXCEPT ![p] = b]
  BY <1>1 DEF b
<1>7. QED
  BY <1>3, <1>4, <1>5, <1>6, Quiet

LEMMA RejectStep ==
  ASSUME PresetInv, NEW j \in Jobs, Reject(j)
  PROVE  PresetInv'
<1> DEFINE b == [actor[j] EXCEPT !.call = "rejected"]
<1>1. j \in Actors /\ actor' = [actor EXCEPT ![j] = b] /\ actor[j] = Idle
  BY DEF Actors, Reject
<1>2. Shaped(actor[j]) /\ actor[j].todo = <<>>
  BY <1>1 DEF PresetInv, ActorInv, Idle
<1>2a. Shaped(b) /\ b.todo = <<>>
  BY <1>2 DEF Shaped
<1> HIDE DEF b
<1>3. ActorInv(j, b, holder', file') /\ KeepsLock(j) /\ UNCHANGED <<file, inode, last>>
  BY <1>2a DEF ActorInv, KeepsLock, Reject
<1>4. QED
  BY <1>1, <1>3, Quiet

LEMMA ReadStep ==
  ASSUME PresetInv, NEW j \in Jobs, Read(j)
  PROVE  PresetInv'
<1>1. PICK plan \in {ParserPlan("scrape", file.recipe)} \cup {ParserPlan("scrape, own recipe", c.recipe) : c \in Contents} :
        actor' = [actor EXCEPT ![j] = [plan EXCEPT !.stamp = file]]
  BY DEF Read
<1> DEFINE b == [plan EXCEPT !.stamp = file]
<1>2. j \in Actors /\ j \notin People /\ file \in Stored /\ KeepsLock(j) /\ UNCHANGED <<file, inode, last>>
  BY PresetAssumption DEF Actors, Read, Readable, PresetInv, KeepsLock
<1>3. /\ Shaped(b) /\ b.todo = <<"parse">> /\ b.stamp = file
      /\ b.call = "scrape" => b.plan = Materialized(file.recipe) /\ b.injected = Injected(file.recipe)
  <2>1. CASE plan = ParserPlan("scrape", file.recipe)
    BY <2>1 DEF ParserPlan, Idle, Shaped
  <2>2. CASE plan \in {ParserPlan("scrape, own recipe", c.recipe) : c \in Contents}
    BY <2>2 DEF ParserPlan, Idle, Shaped
  <2>3. QED
    BY <1>1, <2>1, <2>2
<1> HIDE DEF b
<1>3a. b.todo \in JobTodos /\ Head(b.todo) = "parse"
  BY <1>3, Programs
<1>4. JobInv(b, file')
  BY <1>2, <1>3, <1>3a DEF JobInv
<1>5. ActorInv(j, b, holder', file')
  BY <1>2, <1>3, <1>3a, <1>4 DEF ActorInv, Locked
<1>6. actor' = [actor EXCEPT ![j] = b]
  BY <1>1 DEF b
<1>7. QED
  BY <1>2, <1>5, <1>6, Quiet

(* The steps that make a repair.                                           *)
LEMMA ParseStep ==
  ASSUME PresetInv, NEW j \in Jobs, Parse(j)
  PROVE  PresetInv'
<1>1. PICK page \in Pages, plan \in Generated, heal \in BOOLEAN, ai \in Extraction :
        LET r == Parsed(actor[j].plan, page, plan, heal, ai)
        IN actor' = [actor EXCEPT
             ![j].result = [mode |-> r.mode, filled |-> r.filled],
             ![j].content = IF r.store = {} THEN Absent
                            ELSE [recipe |-> Stripped(CHOOSE h \in r.store : TRUE, actor[j].injected)],
             ![j].todo = IF r.store = {} \/ actor[j].call # "scrape" THEN <<>> ELSE Persist]
  BY DEF Parse
<1> DEFINE a == actor[j]
           r == Parsed(a.plan, page, plan, heal, ai)
           stored == Stripped(CHOOSE h \in r.store : TRUE, a.injected)
           content == IF r.store = {} THEN Absent ELSE [recipe |-> stored]
           todo == IF r.store = {} \/ a.call # "scrape" THEN <<>> ELSE Persist
           b == [[[a EXCEPT !.result = [mode |-> r.mode, filled |-> r.filled]] EXCEPT !.content = content] EXCEPT !.todo = todo]
<1>2. j \in Actors /\ j \notin People /\ ActorInv(j, a, holder, file) /\ KeepsLock(j) /\ UNCHANGED <<file, inode, holder, last>>
  <2>1. UNCHANGED <<file, inode, holder, last>>
    BY DEF Parse
  <2>2. QED
    BY <2>1, PresetAssumption DEF Actors, PresetInv, KeepsLock
<1>3. a.todo # <<>> /\ Head(a.todo) = "parse"
  BY DEF Parse, Doing
<1>4. Shaped(a) /\ JobInv(a, file)
  BY <1>2, <1>3 DEF ActorInv
<1>5. Shaped(b) /\ b.todo = todo /\ b.content = content /\ b.stamp = a.stamp
  BY <1>4 DEF Shaped
<1>6. actor' = [actor EXCEPT ![j] = b]
  BY <1>1, <1>2, <1>4 DEF PresetInv, Shaped
<1>7. ASSUME todo # <<>>
      PROVE  Keeps(content.recipe, a.stamp.recipe)
  <2>1. r.store # {} /\ a.call = "scrape"
    BY <1>7
  <2>2. a.plan = Materialized(a.stamp.recipe) /\ a.injected = Injected(a.stamp.recipe) /\ a.stamp.recipe \in Recipes
    BY <1>3, <1>4, <2>1 DEF JobInv, Stored
  <2>3. PICK h \in plan : Covers(h, a.plan) /\ InScope(Merged(a.plan, h)) /\ r.store = {Merged(a.plan, h)}
    BY <2>1, StoreIsRepair
  <2>4. h \in Recipes
    BY PresetAssumption DEF Generated
  <2>5. stored = Stripped(Merged(a.plan, h), a.injected)
    BY <2>3
  <2>6. Keeps(Stripped(Merged(a.plan, h), a.injected), a.stamp.recipe)
    BY <2>2, <2>3, <2>4, RepairKeeps
  <2>7. content.recipe = stored
    BY <2>1
  <2>8. QED
    BY <2>5, <2>6, <2>7
<1>8. todo \in {<<>>, Persist}
  OBVIOUS
<1> HIDE DEF r, stored, content, todo, b
<1>9. ActorInv(j, b, holder', file')
  <2>1. CASE todo = <<>>
    BY <1>5, <2>1 DEF ActorInv
  <2>2. CASE todo # <<>>
    <3>1. b.todo \in JobTodos /\ Head(b.todo) = "load"
      BY <1>5, <1>8, <2>2, Programs
    <3>2. Keeps(b.content.recipe, b.stamp.recipe) /\ b.stamp \in Stored
      BY <1>4, <1>5, <1>7, <2>2 DEF JobInv
    <3>3. JobInv(b, file')
      BY <3>1, <3>2 DEF JobInv
    <3>4. QED
      BY <1>2, <1>5, <3>1, <3>3 DEF ActorInv, Locked
  <2>3. QED
    BY <2>1, <2>2
<1>10. QED
  BY <1>2, <1>6, <1>9, Quiet

WithRecipe(f, r) == [f EXCEPT !.recipe = r, !.version = @ + 1]

LEMMA NewRecipe ==
  ASSUME NEW f \in Stored, NEW r \in Recipes
  PROVE  WithRecipe(f, r) \in Stored /\ WithRecipe(f, r).recipe = r
<1> DEFINE g == WithRecipe(f, r)
<1>1. f = [x \in {"rest", "version", "recipe"} |-> f[x]]
  BY DEF Stored
<1>2. /\ g = [x \in {"rest", "version", "recipe"} |-> g[x]]
      /\ g.rest = f.rest /\ g.version = f.version + 1 /\ g.recipe = r
  BY <1>1 DEF WithRecipe
<1>3. f.rest \in {c.rest : c \in Contents} /\ f.version + 1 \in Nat
  BY DEF Stored
<1> HIDE DEF g
<1>4. g \in Stored
  BY <1>2, <1>3 DEF Stored
<1>5. QED
  BY <1>2, <1>4 DEF g

LEMMA LoadStep ==
  ASSUME PresetInv, NEW j \in Jobs, Load(j)
  PROVE  PresetInv'
<1> DEFINE a == actor[j]
<1>1. j \in Actors /\ j \notin People /\ ActorInv(j, a, holder, file) /\ KeepsLock(j) /\ UNCHANGED <<file, inode, holder, last>>
  BY PresetAssumption DEF Actors, PresetInv, KeepsLock, Load
<1>2. a.todo # <<>> /\ Head(a.todo) = "load"
  BY DEF Load, Doing
<1>3. CASE ~Readable
  BY <1>1, <1>3, Stops DEF Load
<1>4. CASE Readable
  <2> DEFINE content == [file EXCEPT !.recipe = a.content.recipe, !.version = @ + 1]
             b == [[a EXCEPT !.todo = Tail(a.todo)] EXCEPT !.content = content]
  <2>1. Shaped(a) /\ JobInv(a, file)
    BY <1>1, <1>2 DEF ActorInv
  <2>2. actor' = [actor EXCEPT ![j] = b]
    BY <1>1, <1>4, <2>1 DEF Load, PresetInv, Shaped
  <2>3. Shaped(b) /\ b.todo = Tail(a.todo) /\ b.content = content /\ b.stamp = a.stamp
    BY <2>1 DEF Shaped
  <2>4. file \in Stored /\ Keeps(a.content.recipe, a.stamp.recipe) /\ a.stamp \in Stored
    BY <1>2, <1>4, <2>1 DEF PresetInv, Readable, JobInv
  <2>5. content \in Stored /\ content.recipe = a.content.recipe
    <3>1. content = WithRecipe(file, a.content.recipe)
      BY DEF WithRecipe
    <3> HIDE DEF content
    <3>2. QED
      BY <2>4, <3>1, NewRecipe DEF Keeps
  <2>6. b.todo \in JobTodos /\ Head(b.todo) = "exists"
    BY <1>2, <2>1, <2>3, JobTodo DEF JobInv
  <2> HIDE DEF content, b
  <2>7. JobInv(b, file')
    BY <2>3, <2>4, <2>5, <2>6 DEF JobInv
  <2>8. ActorInv(j, b, holder', file')
    BY <1>1, <2>3, <2>6, <2>7 DEF ActorInv, Locked
  <2>9. QED
    BY <1>1, <2>2, <2>8, Quiet
<1>5. QED
  BY <1>3, <1>4

(* The steps that write.                                                   *)
LEMMA ReplaceStep ==
  ASSUME PresetInv, NEW p \in Actors, Replace(p)
  PROVE  PresetInv'
<1> DEFINE a == actor[p]
<1>1. ActorInv(p, a, holder, file) /\ a.todo # <<>> /\ Head(a.todo) = "replace" /\ holder = p
  BY DEF PresetInv, Replace, Doing, ActorInv, Locked
<1>2. Shaped(a) /\ Tail(a.todo) = <<>>
  BY <1>1, PersonTodo, JobTodo DEF ActorInv, JobInv, Actors
<1>3. KeepsLock(p)
  BY DEF Replace, KeepsLock, Unlocks
<1>4. actor' = [actor EXCEPT ![p] = [a EXCEPT !.todo = <<>>]]
  BY <1>2 DEF Replace, Onward, Goes
<1>5. ActorInv(p, [a EXCEPT !.todo = <<>>], holder', file')
  BY <1>2, Over
<1>6. /\ actor' = [q \in Actors |-> actor'[q]]
      /\ \A q \in Actors : ActorInv(q, actor'[q], holder', file')
  BY <1>1, <1>3, <1>4, <1>5, Others
<1>7. file' = a.content /\ inode' = NoOne
  BY DEF Replace
<1>8. CASE p \in People
  <2>1. a.content \in Contents /\ last' = a.content
    BY <1>1, <1>8 DEF ActorInv, Replace
  <2>2. file' \in Stored /\ last' = file' /\ InScope(file'.recipe)
    BY <1>7, <2>1, PresetAssumption
  <2>3. EditSurvives'
    BY <2>2, PresetAssumption DEF EditSurvives, Readable
  <2>4. QED
    BY <1>6, <1>7, <2>1, <2>2, <2>3 DEF PresetInv
<1>9. CASE p \in Jobs
  <2>1. JobInv(a, file) /\ last' = last
    BY <1>1, <1>9, PresetAssumption DEF ActorInv, Replace
  <2>2. file = a.stamp /\ file \in Stored /\ a.content \in Stored /\ Keeps(a.content.recipe, file.recipe)
    BY <1>1, <2>1 DEF JobInv
  <2>3. last \notin {Absent, Blank} /\ Contract(file.recipe) = Contract(last.recipe)
    BY <2>2, PresetAssumption DEF PresetInv, EditSurvives
  <2>4. EditSurvives'
    BY <1>7, <2>1, <2>2, <2>3, PresetAssumption DEF EditSurvives, Readable, Keeps
  <2>5. QED
    BY <1>6, <1>7, <2>1, <2>2, <2>4 DEF PresetInv
<1>10. QED
  BY <1>8, <1>9 DEF Actors

LEMMA UnlinkStep ==
  ASSUME PresetInv, NEW p \in Actors, Unlink(p)
  PROVE  PresetInv'
<1> DEFINE a == actor[p]
<1>1. ActorInv(p, a, holder, file) /\ a.todo # <<>> /\ Head(a.todo) = "unlink" /\ holder = p
  BY DEF PresetInv, Unlink, Doing, ActorInv, Locked
<1>2. Shaped(a) /\ Tail(a.todo) = <<>>
  BY <1>1, PersonTodo, JobTodo DEF ActorInv, JobInv, Actors
<1>3. KeepsLock(p)
  BY DEF Unlink, KeepsLock, Unlocks
<1>4. actor' = [actor EXCEPT ![p] = [a EXCEPT !.todo = <<>>]]
  BY <1>2 DEF Unlink, Onward, Goes
<1>5. ActorInv(p, [a EXCEPT !.todo = <<>>], holder', file')
  BY <1>2, Over
<1>6. /\ actor' = [q \in Actors |-> actor'[q]]
      /\ \A q \in Actors : ActorInv(q, actor'[q], holder', file')
  BY <1>1, <1>3, <1>4, <1>5, Others
<1>7. file' = Absent /\ inode' = NoOne /\ last' \in {last, Absent}
  BY DEF Unlink
<1>8. EditSurvives'
  BY <1>7 DEF Unlink, PresetInv, EditSurvives, Readable
<1>9. QED
  BY <1>6, <1>7, <1>8 DEF PresetInv

LEMMA OpenStep ==
  ASSUME PresetInv, NEW p \in Actors, Open(p)
  PROVE  PresetInv'
<1> DEFINE a == actor[p]
<1>1. ActorInv(p, a, holder, file) /\ a.todo # <<>> /\ Head(a.todo) = "open" /\ holder' = holder
  BY DEF PresetInv, Open, Doing
<1>2. KeepsLock(p)
  BY <1>1 DEF KeepsLock
<1>3. CASE file # Absent
  BY <1>2, <1>3, Stops DEF Open
<1>4. CASE file = Absent
  <2>1. p \in People
    BY <1>1, JobTodo DEF ActorInv, JobInv, Actors
  <2>2. ActorInv(p, [a EXCEPT !.todo = Tail(a.todo)], holder', file')
    BY <1>1, <2>1, GoesOn, PresetAssumption
  <2>3. actor' = [actor EXCEPT ![p] = [a EXCEPT !.todo = Tail(a.todo)]]
    BY <1>4 DEF Open, Onward, Goes
  <2>4. /\ actor' = [q \in Actors |-> actor'[q]]
        /\ \A q \in Actors : ActorInv(q, actor'[q], holder', file')
    BY <1>2, <1>4, <2>2, <2>3, Others
  <2>5. file' = Blank /\ last' = Blank
    BY <1>4 DEF Open
  <2>6. EditSurvives'
    BY <2>5 DEF EditSurvives
  <2>7. QED
    BY <2>4, <2>5, <2>6 DEF PresetInv
<1>5. QED
  BY <1>3, <1>4

LEMMA WriteStep ==
  ASSUME PresetInv, NEW p \in Actors, Write(p)
  PROVE  PresetInv'
<1> DEFINE a == actor[p]
<1>1. ActorInv(p, a, holder, file) /\ a.todo # <<>> /\ Head(a.todo) = "write" /\ holder' = holder
  BY DEF PresetInv, Write, Doing
<1>2. KeepsLock(p)
  BY <1>1 DEF KeepsLock
<1>3. p \in People /\ a.content \in Contents
  BY <1>1, JobTodo DEF ActorInv, JobInv, Actors
<1>4. Shaped(a) /\ Tail(a.todo) = <<>>
  BY <1>1, <1>3, PersonTodo DEF ActorInv
<1>5. actor' = [actor EXCEPT ![p] = [a EXCEPT !.todo = <<>>]]
  BY <1>4 DEF Write, Onward, Goes
<1>6. CASE inode # p
  <2>1. Goes(p, <<>>) /\ UNCHANGED <<file, inode, last>>
    BY <1>4, <1>6 DEF Write, Onward
  <2>2. QED
    BY <1>2, <2>1, Stops
<1>7. CASE inode = p
  <2>1. file = Blank
    BY <1>7, PresetAssumption DEF PresetInv
  <2>2. ActorInv(p, [a EXCEPT !.todo = <<>>], holder', file')
    BY <1>4, Over
  <2>3. /\ actor' = [q \in Actors |-> actor'[q]]
        /\ \A q \in Actors : ActorInv(q, actor'[q], holder', file')
    BY <1>2, <1>5, <2>1, <2>2, Others
  <2>4. file' = a.content /\ last' = a.content /\ inode' = NoOne
    BY <1>7 DEF Write
  <2>5. file' \in Stored /\ InScope(file'.recipe)
    BY <1>3, <2>4, PresetAssumption
  <2>6. EditSurvives'
    BY <2>4, <2>5, PresetAssumption DEF EditSurvives, Readable
  <2>7. QED
    BY <1>3, <2>3, <2>4, <2>5, <2>6 DEF PresetInv
<1>8. QED
  BY <1>6, <1>7

-----------------------------------------------------------------------------
LEMMA PresetInvariant == PSpec => []PresetInv
<1>1. PInit => PresetInv
  <2> SUFFICES ASSUME PInit PROVE PresetInv
    OBVIOUS
  <2>1. file \in Contents /\ last = file /\ file \in Stored /\ InScope(file.recipe) /\ inode = NoOne
    BY PresetAssumption DEF PInit
  <2>2. EditSurvives
    BY <2>1, PresetAssumption DEF EditSurvives, Readable
  <2>3. Shaped(Idle) /\ Idle.todo = <<>>
    BY DEF Shaped, Idle
  <2>4. actor = [p \in Actors |-> actor[p]] /\ \A p \in Actors : ActorInv(p, actor[p], holder, file)
    BY <2>3 DEF PInit, ActorInv
  <2>5. QED
    BY <2>1, <2>2, <2>4 DEF PresetInv
<1>2. PresetInv /\ [PNext]_pvars => PresetInv'
  <2> SUFFICES ASSUME PresetInv, [PNext]_pvars PROVE PresetInv'
    OBVIOUS
  <2>1. ASSUME NEW p \in People, Call(p) PROVE PresetInv'
    BY <2>1, CallStep
  <2>2. ASSUME NEW j \in Jobs, Read(j) \/ Reject(j) \/ Parse(j) \/ Load(j) \/ Compare(j) PROVE PresetInv'
    BY <2>2, ReadStep, RejectStep, ParseStep, LoadStep, CompareStep
  <2>3. ASSUME NEW p \in Actors, Exists(p) \/ Vacant(p) \/ Lock(p) \/ Stat(p) \/ Fail(p) PROVE PresetInv'
    BY <2>3, LookingStep
  <2>4. ASSUME NEW p \in Actors, Replace(p) \/ Unlink(p) \/ Open(p) \/ Write(p) PROVE PresetInv'
    BY <2>4, ReplaceStep, UnlinkStep, OpenStep, WriteStep
  <2>5. CASE UNCHANGED pvars
    BY <2>5 DEF pvars, PresetInv, EditSurvives, Readable
  <2>6. QED
    BY <2>1, <2>2, <2>3, <2>4, <2>5 DEF PNext
<1>3. QED
  BY <1>1, <1>2, PTL DEF PSpec

(* A repair of a recipe that a job stores minutes after it read the preset *)
(* never undoes what people stored or removed meanwhile, and changes only  *)
(* selectors: src/presets/store.py and _persist_self_heal.                 *)
THEOREM PeopleHaveTheLastWord == PSpec => []EditSurvives
<1>1. PresetInv => EditSurvives
  BY DEF PresetInv
<1> QED
  BY <1>1, PresetInvariant, PTL

-----------------------------------------------------------------------------
(* What a job reports.                                                     *)
Healed(a) == a.result.mode = "self_healed" => Required(a.plan) \subseteq a.result.filled

SameReport(b, a) == b.plan = a.plan /\ b.result = a.result

(* Only reading the preset and parsing the page touch a job's report.      *)
LEMMA ReportStays ==
  ASSUME PresetInv, NEW p \in Actors,
         \/ Exists(p) \/ Vacant(p) \/ Lock(p) \/ Stat(p) \/ Replace(p) \/ Unlink(p) \/ Open(p) \/ Write(p) \/ Fail(p)
         \/ Reject(p) \/ Load(p) \/ Compare(p)
  PROVE  \A q \in Actors : SameReport(actor'[q], actor[q])
<1>1. Shaped(actor[p]) /\ actor = [q \in Actors |-> actor[q]]
  BY DEF PresetInv, ActorInv
<1>2. ASSUME NEW b, actor' = [actor EXCEPT ![p] = b], SameReport(b, actor[p])
      PROVE  \A q \in Actors : SameReport(actor'[q], actor[q])
  BY <1>1, <1>2 DEF SameReport
<1>3. ASSUME NEW ops, Goes(p, ops) PROVE \A q \in Actors : SameReport(actor'[q], actor[q])
  <2>1. PICK b : b = [actor[p] EXCEPT !.todo = ops]
    OBVIOUS
  <2>2. actor' = [actor EXCEPT ![p] = b]
    BY <1>3, <2>1 DEF Goes
  <2>3. SameReport(b, actor[p])
    BY <1>1, <2>1 DEF Shaped, SameReport
  <2> QED BY <1>2, <2>2, <2>3
<1>4. CASE Reject(p)
  <2>1. PICK b : b = [actor[p] EXCEPT !.call = "rejected"]
    OBVIOUS
  <2>2. actor' = [actor EXCEPT ![p] = b]
    BY <1>4, <2>1 DEF Reject
  <2>3. SameReport(b, actor[p])
    BY <1>1, <2>1 DEF Shaped, SameReport
  <2> QED BY <1>2, <2>2, <2>3
<1>5. CASE Load(p) /\ Readable
  <2>1. PICK content : content = [file EXCEPT !.recipe = actor[p].content.recipe, !.version = @ + 1]
    OBVIOUS
  <2>2. PICK b : b = [[actor[p] EXCEPT !.todo = Tail(actor[p].todo)] EXCEPT !.content = content]
    OBVIOUS
  <2>3. actor' = [actor EXCEPT ![p] = b]
    BY <1>1, <1>5, <2>1, <2>2 DEF Load, Shaped
  <2>4. SameReport(b, actor[p])
    BY <1>1, <2>2 DEF Shaped, SameReport
  <2> QED BY <1>2, <2>3, <2>4
<1>6. CASE Load(p) /\ ~Readable
  BY <1>3, <1>6 DEF Load
<1>7. CASE Exists(p) \/ Vacant(p) \/ Lock(p) \/ Stat(p) \/ Replace(p) \/ Unlink(p) \/ Open(p) \/ Write(p)
           \/ Fail(p) \/ Compare(p)
  BY <1>3, <1>7 DEF Exists, Vacant, Lock, Stat, Replace, Unlink, Open, Write, Fail, Compare, Onward
<1> QED
  BY <1>4, <1>5, <1>6, <1>7

(* A repaired recipe is used only if it fills what the original requires.  *)
LEMMA HealedRecovers ==
  ASSUME NEW recipe, NEW page, NEW plan, NEW heal, NEW ai,
         Parsed(recipe, page, plan, heal, ai).mode = "self_healed"
  PROVE  Required(recipe) \subseteq Parsed(recipe, page, plan, heal, ai).filled
<1> DEFINE repairs == {Repair(recipe, healed) : healed \in plan}
           good == {r \in repairs : r.usable /\ Recovers(recipe, r.run, page)}
           chosen == CHOOSE r \in good : TRUE
           asIs == [mode |-> "deterministic", filled |-> Filled(recipe, page), store |-> {}]
           alone == IF ai = "answers" THEN [mode |-> "llm_extracted", filled |-> {}, store |-> {}]
                    ELSE IF ai = "fails" THEN [mode |-> "none", filled |-> {}, store |-> {}]
                    ELSE asIs
           healedRun == [mode |-> "self_healed", filled |-> Filled(chosen.run, page),
                         store |-> IF chosen.complete THEN {chosen.run} ELSE {}]
           parsed == Parsed(recipe, page, plan, heal, ai)
<1>1. good # {} /\ parsed.filled = Filled(chosen.run, page)
  <2>1. parsed = CASE Recovers(recipe, recipe, page) -> asIs
                   [] heal /\ plan = {} -> asIs
                   [] heal /\ good # {} -> healedRun
                   [] OTHER -> alone
    BY DEF Parsed
  <2>2. asIs.mode # "self_healed" /\ alone.mode # "self_healed"
    OBVIOUS
  <2>3. healedRun.filled = Filled(chosen.run, page)
    OBVIOUS
  <2> HIDE DEF asIs, alone, healedRun, good, repairs, parsed
  <2>4. parsed = asIs \/ parsed = alone \/ (good # {} /\ parsed = healedRun)
    BY <2>1
  <2>5. parsed.mode = "self_healed"
    BY DEF parsed
  <2> QED
    BY <2>2, <2>3, <2>4, <2>5
<1>2. chosen \in good
  BY <1>1
<1>3. Recovers(recipe, chosen.run, page)
  BY <1>2
<1> QED
  BY <1>1, <1>3 DEF Recovers

LEMMA ParseReports ==
  ASSUME PresetInv, NEW j \in Jobs, Parse(j), HealedIsWhole
  PROVE  HealedIsWhole'
<1>1. PICK page \in Pages, plan \in Generated, heal \in BOOLEAN, ai \in Extraction :
        LET r == Parsed(actor[j].plan, page, plan, heal, ai)
        IN actor' = [actor EXCEPT
             ![j].result = [mode |-> r.mode, filled |-> r.filled],
             ![j].content = IF r.store = {} THEN Absent
                            ELSE [recipe |-> Stripped(CHOOSE h \in r.store : TRUE, actor[j].injected)],
             ![j].todo = IF r.store = {} \/ actor[j].call # "scrape" THEN <<>> ELSE Persist]
  BY DEF Parse
<1>2. j \in Actors /\ Shaped(actor[j]) /\ actor = [q \in Actors |-> actor[q]]
  BY DEF PresetInv, ActorInv, Actors
<1>3. PICK r : r = Parsed(actor[j].plan, page, plan, heal, ai)
  OBVIOUS
<1>4. PICK content : content = IF r.store = {} THEN Absent
                               ELSE [recipe |-> Stripped(CHOOSE h \in r.store : TRUE, actor[j].injected)]
  OBVIOUS
<1>5. PICK todo : todo = IF r.store = {} \/ actor[j].call # "scrape" THEN <<>> ELSE Persist
  OBVIOUS
<1>6. PICK b : b = [[[actor[j] EXCEPT !.result = [mode |-> r.mode, filled |-> r.filled]]
                      EXCEPT !.content = content] EXCEPT !.todo = todo]
  OBVIOUS
<1>7. actor' = [actor EXCEPT ![j] = b]
  BY <1>1, <1>2, <1>3, <1>4, <1>5, <1>6 DEF Shaped
<1>8. b.plan = actor[j].plan /\ b.result = [mode |-> r.mode, filled |-> r.filled]
  BY <1>2, <1>6 DEF Shaped
<1>9. r.mode = "self_healed" => Required(actor[j].plan) \subseteq r.filled
  BY <1>3, HealedRecovers
<1>10. \A q \in Actors : actor'[q] = IF q = j THEN b ELSE actor[q]
  BY <1>2, <1>7
<1> QED
  BY <1>8, <1>9, <1>10 DEF HealedIsWhole, Actors

LEMMA ReadReports ==
  ASSUME PresetInv, NEW j \in Jobs, Read(j), HealedIsWhole
  PROVE  HealedIsWhole'
<1>1. PICK plan : /\ plan \in {ParserPlan("scrape", file.recipe)} \cup {ParserPlan("scrape, own recipe", c.recipe) : c \in Contents}
                  /\ actor' = [actor EXCEPT ![j] = [plan EXCEPT !.stamp = file]]
  BY DEF Read
<1>2. j \in Actors /\ actor = [q \in Actors |-> actor[q]]
  BY DEF PresetInv, Actors
<1>3. PICK b : b = [plan EXCEPT !.stamp = file]
  OBVIOUS
<1>4. b.result.mode = "none"
  <2>1. ASSUME NEW call, NEW recipe, plan = ParserPlan(call, recipe) PROVE b.result = Nothing
    <3>1. PICK m, i : m = Materialized(recipe) /\ i = Injected(recipe)
      OBVIOUS
    <3>2. plan = [Idle EXCEPT !.call = call, !.todo = <<"parse">>, !.plan = m, !.injected = i]
      BY <2>1, <3>1 DEF ParserPlan
    <3>3. plan = [call |-> call, todo |-> <<"parse">>, content |-> Absent, stamp |-> Absent, plan |-> m,
                  injected |-> i, result |-> Nothing]
      BY <3>2 DEF Idle
    <3> QED BY <1>3, <3>3
  <2>2. Nothing.mode = "none"
    BY DEF Nothing
  <2> QED BY <1>1, <2>1, <2>2
<1>5. \A q \in Actors : actor'[q] = IF q = j THEN b ELSE actor[q]
  BY <1>1, <1>2, <1>3
<1> QED
  BY <1>4, <1>5 DEF HealedIsWhole, Actors

\* A job that reports itself self-healed filled every field its caller's
\* recipe requires, and no later step of it or of another changes that.
THEOREM SelfHealedIsNotPartial == PSpec => []HealedIsWhole
<1>1. PInit => HealedIsWhole
  BY DEF PInit, HealedIsWhole, Idle, Nothing, Actors
<1>2. ASSUME PresetInv, HealedIsWhole, [PNext]_pvars PROVE HealedIsWhole'
  <2>1. ASSUME NEW p \in People, Call(p) PROVE HealedIsWhole'
    <3>1. \A j \in Jobs : actor'[j] = actor[j]
      BY <1>2, <2>1, PresetAssumption DEF PresetInv, Call, Actors
    <3> QED BY <1>2, <3>1 DEF HealedIsWhole
  <2>2. ASSUME NEW p \in Actors,
               \/ Exists(p) \/ Vacant(p) \/ Lock(p) \/ Stat(p) \/ Replace(p) \/ Unlink(p) \/ Open(p) \/ Write(p) \/ Fail(p)
               \/ Reject(p) \/ Load(p) \/ Compare(p)
        PROVE HealedIsWhole'
    <3>1. \A q \in Actors : SameReport(actor'[q], actor[q])
      BY <1>2, <2>2, ReportStays
    <3> QED BY <1>2, <3>1 DEF HealedIsWhole, SameReport, Actors
  <2>3. ASSUME NEW j \in Jobs, Read(j) \/ Parse(j) PROVE HealedIsWhole'
    BY <1>2, <2>3, ReadReports, ParseReports
  <2>4. CASE UNCHANGED pvars
    BY <1>2, <2>4 DEF pvars, HealedIsWhole
  <2> QED
    BY <1>2, <2>1, <2>2, <2>3, <2>4 DEF PNext, Actors
<1> QED
  BY PresetInvariant, <1>1, <1>2, PTL DEF PSpec

-----------------------------------------------------------------------------
(***** PageFetch *****)

(* The fetch and its result are records of their fields.                   *)
ResultShape(r) ==
  r = [kind |-> r.kind, ok |-> r.ok, blocked |-> r.blocked, error |-> r.error, shot |-> r.shot,
       state |-> r.state, warm |-> r.warm, seen |-> r.seen, status |-> r.status, of |-> r.of]
FetchShape ==
  /\ fetch = [at |-> fetch.at, ask |-> fetch.ask, todo |-> fetch.todo, missing |-> fetch.missing,
              result |-> fetch.result, late |-> fetch.late]
  /\ ResultShape(fetch.result)

(* Nothing is ok before the page was read, a selector that was not seen is *)
(* known to be missing by then, and what is ok was read like that.         *)
Unread == {"idle", "opening", "warmup", "goto", "selector", "read"}
ReadWell(r) ==
  /\ ~LooksBlocked(r.of) /\ ~r.of.refused
  /\ r.status \notin BanStatuses \cup TransientStatuses
  /\ r.seen # "no"
Honest ==
  /\ fetch.at \in Unread => fetch.result.ok = FALSE
  /\ fetch.at = "read" => fetch.missing = TRUE \/ fetch.result.seen # "no"
  /\ fetch.result.ok = TRUE => ReadWell(fetch.result)
  /\ fetch.result.ok \in BOOLEAN /\ fetch.missing \in BOOLEAN /\ fetch.late \in BOOLEAN

(* What a fetch holds is what it opened; from then on, unless it is late,  *)
(* what is still to be closed covers what is open.                         *)
Things(a) == {Opens(a)[i] : i \in DOMAIN Opens(a)}
Covered(todo) == UNION {TakenAlong(todo[i]) : i \in DOMAIN todo}
Engaged == {"opening", "warmup", "goto", "selector", "read", "shot", "state"}
AllThings == {"driver", "browser", "bridge", "context", "page"}
Tidy ==
  /\ fetch.at = "idle" => open = {}
  /\ fetch.at \in Engaged => fetch.ask \in Asks /\ open \subseteq Things(fetch.ask)
  /\ fetch.at = "opening" => fetch.todo \in Seq(Things(fetch.ask)) /\ fetch.todo # <<>>
  /\ fetch.at = "closing" => fetch.todo \in Seq(AllThings) /\ (fetch.late = FALSE => open \subseteq Covered(fetch.todo))
  /\ fetch.at = "done" => (fetch.late = FALSE => open = {})

FetchInv == FetchShape /\ Honest /\ Tidy

-----------------------------------------------------------------------------
LEMMA VerdictIsHonest ==
  ASSUME NEW p, NEW status, NEW missing \in BOOLEAN
  PROVE  /\ Verdict(p, status, missing).ok \in BOOLEAN
         /\ Verdict(p, status, missing).ok =>
              /\ ~LooksBlocked(p) /\ ~missing
              /\ status \notin BanStatuses \cup TransientStatuses
BY DEF Verdict, Classified

(* Closing everything in the order of a runner leaves nothing it opened.   *)
LEMMA ClosesCover ==
  ASSUME NEW a \in Asks
  PROVE  /\ Closes(a) \in Seq(AllThings) /\ Things(a) \subseteq Covered(Closes(a))
         /\ Opens(a) \in Seq(Things(a)) /\ Opens(a) # <<>>
<1>1. a.engine \in {"pooled", "ephemeral", "camoufox"}
  BY DEF Asks
<1>2. CASE a.engine = "pooled"
  <2>1. Opens(a) = <<"bridge", "context", "page">>
    BY <1>2 DEF Opens
  <2>2. Closes(a) = <<"page", "context", "bridge">>
    BY <1>2 DEF Closes
  <2>3. Things(a) = {"bridge", "context", "page"}
    BY <2>1 DEF Things
  <2>4. \A t \in Things(a) : \E i \in DOMAIN Closes(a) : t \in TakenAlong(Closes(a)[i])
    <3>1. 1 \in DOMAIN Closes(a) /\ "page" \in TakenAlong(Closes(a)[1])
      BY <2>2 DEF TakenAlong
    <3>2. 2 \in DOMAIN Closes(a) /\ "context" \in TakenAlong(Closes(a)[2])
      BY <2>2 DEF TakenAlong
    <3>3. 3 \in DOMAIN Closes(a) /\ "bridge" \in TakenAlong(Closes(a)[3])
      BY <2>2 DEF TakenAlong
    <3> QED BY <2>3, <3>1, <3>2, <3>3
  <2>5. Closes(a) \in Seq(AllThings)
    BY <2>2 DEF AllThings
  <2>6. Opens(a) \in Seq(Things(a)) /\ Opens(a) # <<>>
    BY <2>1, <2>3
  <2> QED
    BY <2>4, <2>5, <2>6 DEF Covered
<1>3. CASE a.engine = "ephemeral"
  <2>1. Opens(a) = <<"driver", "browser", "bridge", "context", "page">>
    BY <1>3 DEF Opens
  <2>2. Closes(a) = <<"page", "context", "bridge", "browser", "driver">>
    BY <1>3 DEF Closes
  <2>3. Things(a) = {"driver", "browser", "bridge", "context", "page"}
    BY <2>1 DEF Things
  <2>4. \A t \in Things(a) : \E i \in DOMAIN Closes(a) : t \in TakenAlong(Closes(a)[i])
    <3>1. 1 \in DOMAIN Closes(a) /\ "page" \in TakenAlong(Closes(a)[1])
      BY <2>2 DEF TakenAlong
    <3>2. 2 \in DOMAIN Closes(a) /\ "context" \in TakenAlong(Closes(a)[2])
      BY <2>2 DEF TakenAlong
    <3>3. 3 \in DOMAIN Closes(a) /\ "bridge" \in TakenAlong(Closes(a)[3])
      BY <2>2 DEF TakenAlong
    <3>4. 4 \in DOMAIN Closes(a) /\ "browser" \in TakenAlong(Closes(a)[4])
      BY <2>2 DEF TakenAlong
    <3>5. 5 \in DOMAIN Closes(a) /\ "driver" \in TakenAlong(Closes(a)[5])
      BY <2>2 DEF TakenAlong
    <3> QED BY <2>3, <3>1, <3>2, <3>3, <3>4, <3>5
  <2>5. Closes(a) \in Seq(AllThings)
    BY <2>2 DEF AllThings
  <2>6. Opens(a) \in Seq(Things(a)) /\ Opens(a) # <<>>
    BY <2>1, <2>3
  <2> QED
    BY <2>4, <2>5, <2>6 DEF Covered
<1>4. CASE a.engine = "camoufox"
  <2>1. Opens(a) = <<"browser", "page">>
    BY <1>4 DEF Opens
  <2>2. Closes(a) = <<"browser">>
    BY <1>4 DEF Closes
  <2>3. Things(a) = {"browser", "page"}
    BY <2>1 DEF Things
  <2>4. \A t \in Things(a) : \E i \in DOMAIN Closes(a) : t \in TakenAlong(Closes(a)[i])
    <3>1. 1 \in DOMAIN Closes(a) /\ "page" \in TakenAlong(Closes(a)[1])
      BY <2>2 DEF TakenAlong
    <3>2. 1 \in DOMAIN Closes(a) /\ "browser" \in TakenAlong(Closes(a)[1])
      BY <2>2 DEF TakenAlong
    <3> QED BY <2>3, <3>1, <3>2
  <2>5. Closes(a) \in Seq(AllThings)
    BY <2>2 DEF AllThings
  <2>6. Opens(a) \in Seq(Things(a)) /\ Opens(a) # <<>>
    BY <2>1, <2>3
  <2> QED
    BY <2>4, <2>5, <2>6 DEF Covered
<1> QED
  BY <1>1, <1>2, <1>3, <1>4

LEMMA CoveredByRest ==
  ASSUME NEW todo \in Seq(AllThings), todo # <<>>
  PROVE  Covered(todo) \subseteq TakenAlong(Head(todo)) \cup Covered(Tail(todo))
<1> SUFFICES ASSUME NEW i \in DOMAIN todo, i # 1
             PROVE  \E k \in DOMAIN Tail(todo) : Tail(todo)[k] = todo[i]
  BY DEF Covered
<1>1. i - 1 \in DOMAIN Tail(todo) /\ Tail(todo)[i - 1] = todo[i]
  OBVIOUS
<1> QED
  BY <1>1

LEMMA FetchInit == FInit => FetchInv
<1> SUFFICES ASSUME FInit PROVE FetchInv
  OBVIOUS
<1>1. fetch.at = "idle" /\ fetch.result = NoResult /\ fetch.missing = FALSE /\ fetch.late = FALSE /\ open = {}
  BY DEF FInit
<1>2. fetch.result.ok = FALSE
  BY <1>1 DEF NoResult
<1>3. FetchShape
  BY DEF FInit, NoResult, FetchShape, ResultShape
<1>4. Honest
  BY <1>1, <1>2 DEF Honest
<1>5. Tidy
  BY <1>1 DEF Tidy, Engaged
<1> QED
  BY <1>3, <1>4, <1>5 DEF FetchInv

FetchRecord(at, todo, missing, ends, late) ==
  [at |-> at, ask |-> fetch.ask, todo |-> todo, missing |-> missing, result |-> ends, late |-> late]

(* What a result must be to be kept.                                       *)
Sound(r) == ResultShape(r) /\ r.ok \in BOOLEAN /\ (r.ok = TRUE => ReadWell(r))

(* A fetch that turns to closing keeps the promises, and so does one that  *)
(* goes on to another of its steps.                                        *)
LEMMA ToClosing ==
  ASSUME FetchInv, fetch.at \in Engaged, NEW r, Sound(r), NEW late \in BOOLEAN,
         fetch' = FetchRecord("closing", Closes(fetch.ask), fetch.missing, r, late),
         late = FALSE => open' \subseteq Things(fetch.ask)
  PROVE  FetchInv'
<1>1. /\ fetch'.at = "closing" /\ fetch'.todo = Closes(fetch.ask) /\ fetch'.missing = fetch.missing
      /\ fetch'.result = r /\ fetch'.late = late
  BY DEF FetchRecord
<1>2. FetchShape'
  BY DEF FetchShape, FetchRecord, Sound
<1>3. Honest'
  BY <1>1 DEF FetchInv, Honest, Sound, Unread
<1>4. Closes(fetch.ask) \in Seq(AllThings) /\ Things(fetch.ask) \subseteq Covered(Closes(fetch.ask))
  BY ClosesCover DEF FetchInv, Tidy
<1>5. Tidy'
  BY <1>1, <1>4 DEF Tidy, Engaged
<1> QED
  BY <1>2, <1>3, <1>5 DEF FetchInv

LEMMA Proceeds ==
  ASSUME FetchInv, fetch.at \in Engaged, NEW at \in Engaged \ {"opening"}, NEW todo, NEW missing \in BOOLEAN,
         NEW r, Sound(r), fetch' = FetchRecord(at, todo, missing, r, fetch.late),
         open' \subseteq Things(fetch.ask),
         at \in Unread => r.ok = FALSE,
         at = "read" => missing = TRUE \/ r.seen # "no"
  PROVE  FetchInv'
<1>1. /\ fetch'.at = at /\ fetch'.ask = fetch.ask /\ fetch'.missing = missing
      /\ fetch'.result = r /\ fetch'.late = fetch.late
  BY DEF FetchRecord
<1>2. FetchShape'
  BY DEF FetchShape, FetchRecord, Sound
<1>3. Honest'
  BY <1>1 DEF FetchInv, Honest, Sound, Unread
<1>4. Tidy'
  BY <1>1 DEF FetchInv, Tidy, Engaged
<1> QED
  BY <1>2, <1>3, <1>4 DEF FetchInv

LEMMA ResultIsSound == FetchInv => Sound(fetch.result)
  BY DEF FetchInv, FetchShape, Honest, Sound

(* Only the kind of a result changes.                                      *)
LEMMA KindOnly ==
  ASSUME NEW r, Sound(r), NEW kind
  PROVE  LET q == [r EXCEPT !.kind = kind] IN Sound(q) /\ q.ok = r.ok /\ q.seen = r.seen
<1>1. PICK q : q = [r EXCEPT !.kind = kind]
  OBVIOUS
<1>2. ResultShape(r)
  BY DEF Sound
<1>3. q = [kind |-> kind, ok |-> r.ok, blocked |-> r.blocked, error |-> r.error, shot |-> r.shot,
           state |-> r.state, warm |-> r.warm, seen |-> r.seen, status |-> r.status, of |-> r.of]
  BY <1>1, <1>2 DEF ResultShape
<1>4. ResultShape(q) /\ q.ok = r.ok /\ q.of = r.of /\ q.seen = r.seen /\ q.status = r.status
  BY <1>3 DEF ResultShape
<1> QED
  BY <1>1, <1>4 DEF Sound, ReadWell

LEMMA EndsIs ==
  ASSUME FetchInv, NEW kind
  PROVE  Ends(kind)
           = FetchRecord("closing", Closes(fetch.ask), fetch.missing, [fetch.result EXCEPT !.kind = kind], fetch.late)
<1>1. PICK q : q = [fetch.result EXCEPT !.kind = kind]
  OBVIOUS
<1>2. PICK c : c = Closes(fetch.ask)
  OBVIOUS
<1>3. FetchShape
  BY DEF FetchInv
<1>4. Ends(kind) = [fetch EXCEPT !.at = "closing", !.todo = c, !.result.kind = kind]
  BY <1>2 DEF Ends, Wanted
<1>5. [fetch EXCEPT !.at = "closing", !.todo = c, !.result.kind = kind]
        = [fetch EXCEPT !.at = "closing", !.todo = c, !.result = q]
  BY <1>1, <1>3 DEF FetchShape
<1>6. PICK at, ask, todo, missing, ends, late :
        /\ fetch = [at |-> at, ask |-> ask, todo |-> todo, missing |-> missing, result |-> ends, late |-> late]
        /\ ask = fetch.ask /\ missing = fetch.missing /\ late = fetch.late
  BY <1>3 DEF FetchShape
<1>7. [fetch EXCEPT !.at = "closing", !.todo = c, !.result = q]
        = [at |-> "closing", ask |-> ask, todo |-> c, missing |-> missing, result |-> q, late |-> late]
  <2>1. PICK f : f = [at |-> at, ask |-> ask, todo |-> todo, missing |-> missing, result |-> ends, late |-> late]
    OBVIOUS
  <2>2. PICK g : g = [f EXCEPT !.at = "closing"]
    OBVIOUS
  <2>3. g = [at |-> "closing", ask |-> ask, todo |-> todo, missing |-> missing, result |-> ends, late |-> late]
    BY <2>1, <2>2
  <2>4. PICK h : h = [g EXCEPT !.todo = c]
    OBVIOUS
  <2>5. h = [at |-> "closing", ask |-> ask, todo |-> c, missing |-> missing, result |-> ends, late |-> late]
    BY <2>3, <2>4
  <2>6. [h EXCEPT !.result = q]
          = [at |-> "closing", ask |-> ask, todo |-> c, missing |-> missing, result |-> q, late |-> late]
    BY <2>5
  <2>7. f = fetch
    BY <1>6, <2>1
  <2> QED BY <2>2, <2>4, <2>6, <2>7
<1> QED
  BY <1>1, <1>2, <1>4, <1>5, <1>6, <1>7 DEF FetchRecord

LEMMA EmptyIs ==
  ASSUME FetchInv, NEW kind
  PROVE  \E r : /\ Sound(r) /\ r.ok = FALSE
                /\ Empty(kind)
                     = FetchRecord("closing", Closes(fetch.ask), fetch.missing, r, fetch.late)
<1>1. PICK r : r = [NoResult EXCEPT !.kind = kind, !.warm = fetch.result.warm]
  OBVIOUS
<1>2. ResultShape(r) /\ r.ok = FALSE
  BY <1>1 DEF NoResult, ResultShape
<1>3. PICK e : e = Ends(kind)
  OBVIOUS
<1>4. Empty(kind) = [e EXCEPT !.result = r]
  BY <1>1, <1>3 DEF Empty
<1>5. PICK c, q : /\ c = Closes(fetch.ask)
                  /\ e = [at |-> "closing", ask |-> fetch.ask, todo |-> c, missing |-> fetch.missing, result |-> q,
                          late |-> fetch.late]
  BY <1>3, EndsIs DEF FetchRecord
<1>6. [e EXCEPT !.result = r] = [at |-> "closing", ask |-> fetch.ask, todo |-> c, missing |-> fetch.missing, result |-> r,
                                 late |-> fetch.late]
  BY <1>5
<1> QED
  BY <1>2, <1>4, <1>5, <1>6 DEF FetchRecord, Sound

(* A fetch given up for good keeps them too.                               *)
LEMMA EmptyKeeps ==
  ASSUME FetchInv, fetch.at \in Engaged, NEW kind, fetch' = Empty(kind), open' = open
  PROVE  FetchInv'
<1>1. PICK r : /\ Sound(r)
               /\ fetch' = FetchRecord("closing", Closes(fetch.ask), fetch.missing, r, fetch.late)
  BY EmptyIs
<1>2. open \subseteq Things(fetch.ask) /\ fetch.late \in BOOLEAN
  BY DEF FetchInv, Tidy, Honest
<1> QED
  BY <1>1, <1>2, ToClosing

LEMMA EndsKeeps ==
  ASSUME FetchInv, fetch.at \in Engaged, NEW kind, fetch' = Ends(kind), open' = open
  PROVE  FetchInv'
<1>1. PICK r : r = [fetch.result EXCEPT !.kind = kind]
  OBVIOUS
<1>2. Sound(r) /\ fetch' = FetchRecord("closing", Closes(fetch.ask), fetch.missing, r, fetch.late)
  BY <1>1, EndsIs, KindOnly, ResultIsSound
<1>3. open \subseteq Things(fetch.ask) /\ fetch.late \in BOOLEAN
  BY DEF FetchInv, Tidy, Honest
<1> QED
  BY <1>2, <1>3, ToClosing

(* The updates a step makes, as whole records.                             *)
LEMMA Updates ==
  ASSUME FetchInv, NEW at, NEW todo, NEW missing, NEW r
  PROVE  /\ [fetch EXCEPT !.at = at] = FetchRecord(at, fetch.todo, fetch.missing, fetch.result, fetch.late)
         /\ [fetch EXCEPT !.todo = todo] = FetchRecord(fetch.at, todo, fetch.missing, fetch.result, fetch.late)
         /\ [fetch EXCEPT !.todo = todo, !.at = at] = FetchRecord(at, todo, fetch.missing, fetch.result, fetch.late)
         /\ [fetch EXCEPT !.at = at, !.result = r] = FetchRecord(at, fetch.todo, fetch.missing, r, fetch.late)
         /\ [fetch EXCEPT !.at = at, !.missing = missing, !.result = r] = FetchRecord(at, fetch.todo, missing, r, fetch.late)
<1>1. PICK a, k, t, m, q, l : fetch = [at |-> a, ask |-> k, todo |-> t, missing |-> m, result |-> q, late |-> l]
  BY DEF FetchInv, FetchShape
<1>2. a = fetch.at /\ k = fetch.ask /\ t = fetch.todo /\ m = fetch.missing /\ q = fetch.result /\ l = fetch.late
  BY <1>1
<1>3. PICK atIt : atIt = [fetch EXCEPT !.at = at]
  OBVIOUS
<1>4. PICK rest : rest = [fetch EXCEPT !.todo = todo]
  OBVIOUS
<1>5. atIt = [at |-> at, ask |-> k, todo |-> t, missing |-> m, result |-> q, late |-> l]
  BY <1>1, <1>3
<1>6. rest = [at |-> a, ask |-> k, todo |-> todo, missing |-> m, result |-> q, late |-> l]
  BY <1>1, <1>4
<1>9. [rest EXCEPT !.at = at] = [at |-> at, ask |-> k, todo |-> todo, missing |-> m, result |-> q, late |-> l]
  BY <1>6
<1>10. [atIt EXCEPT !.result = r] = [at |-> at, ask |-> k, todo |-> t, missing |-> m, result |-> r, late |-> l]
  BY <1>5
<1>11. PICK lacks : lacks = [atIt EXCEPT !.missing = missing]
  OBVIOUS
<1>a. lacks = [at |-> at, ask |-> k, todo |-> t, missing |-> missing, result |-> q, late |-> l]
  BY <1>5, <1>11
<1>b. [lacks EXCEPT !.result = r] = [at |-> at, ask |-> k, todo |-> t, missing |-> missing, result |-> r, late |-> l]
  BY <1>a
<1>12. /\ [fetch EXCEPT !.at = at] = FetchRecord(at, fetch.todo, fetch.missing, fetch.result, fetch.late)
       /\ [fetch EXCEPT !.todo = todo] = FetchRecord(fetch.at, todo, fetch.missing, fetch.result, fetch.late)
  BY <1>2, <1>3, <1>4, <1>5, <1>6 DEF FetchRecord
<1>13. [fetch EXCEPT !.todo = todo, !.at = at] = FetchRecord(at, todo, fetch.missing, fetch.result, fetch.late)
  BY <1>2, <1>4, <1>9 DEF FetchRecord
<1>14. [fetch EXCEPT !.at = at, !.result = r] = FetchRecord(at, fetch.todo, fetch.missing, r, fetch.late)
  BY <1>2, <1>3, <1>10 DEF FetchRecord
<1>15. [fetch EXCEPT !.at = at, !.missing = missing, !.result = r] = FetchRecord(at, fetch.todo, missing, r, fetch.late)
  BY <1>2, <1>3, <1>11, <1>b DEF FetchRecord
<1> QED
  BY <1>12, <1>13, <1>14, <1>15

LEMMA LateUpdate ==
  ASSUME FetchInv, NEW todo, NEW r, NEW late
  PROVE  [fetch EXCEPT !.result = r, !.late = late, !.todo = todo]
           = FetchRecord(fetch.at, todo, fetch.missing, r, late)
<1>1. PICK a, k, t, m, q, l : fetch = [at |-> a, ask |-> k, todo |-> t, missing |-> m, result |-> q, late |-> l]
  BY DEF FetchInv, FetchShape
<1>2. a = fetch.at /\ k = fetch.ask /\ m = fetch.missing
  BY <1>1
<1>3. PICK told : told = [fetch EXCEPT !.result = r]
  OBVIOUS
<1>4. told = [at |-> a, ask |-> k, todo |-> t, missing |-> m, result |-> r, late |-> l]
  BY <1>1, <1>3
<1>5. PICK toldLate : toldLate = [told EXCEPT !.late = late]
  OBVIOUS
<1>6. toldLate = [at |-> a, ask |-> k, todo |-> t, missing |-> m, result |-> r, late |-> late]
  BY <1>4, <1>5
<1>7. [toldLate EXCEPT !.todo = todo]
        = [at |-> a, ask |-> k, todo |-> todo, missing |-> m, result |-> r, late |-> late]
  BY <1>6
<1>8. [fetch EXCEPT !.result = r, !.late = late, !.todo = todo] = [toldLate EXCEPT !.todo = todo]
  BY <1>3, <1>5
<1> QED
  BY <1>2, <1>7, <1>8 DEF FetchRecord

(* What changes in a result besides its kind.                              *)
LEMMA SeenUpdate ==
  ASSUME NEW r, Sound(r), r.ok = FALSE, NEW x, NEW q, q = [r EXCEPT !.seen = x]
  PROVE  Sound(q) /\ q.ok = FALSE /\ q.seen = x
<1>1. r = [kind |-> r.kind, ok |-> r.ok, blocked |-> r.blocked, error |-> r.error, shot |-> r.shot,
           state |-> r.state, warm |-> r.warm, seen |-> r.seen, status |-> r.status, of |-> r.of]
  BY DEF Sound, ResultShape
<1>2. ResultShape(q) /\ q.ok = FALSE /\ q.seen = x
  BY <1>1 DEF Sound, ResultShape
<1> QED BY <1>2 DEF Sound

LEMMA StatusUpdate ==
  ASSUME NEW r, Sound(r), r.ok = FALSE, NEW x, NEW q, q = [r EXCEPT !.status = x]
  PROVE  Sound(q) /\ q.ok = FALSE
<1>1. r = [kind |-> r.kind, ok |-> r.ok, blocked |-> r.blocked, error |-> r.error, shot |-> r.shot,
           state |-> r.state, warm |-> r.warm, seen |-> r.seen, status |-> r.status, of |-> r.of]
  BY DEF Sound, ResultShape
<1>2. ResultShape(q) /\ q.ok = FALSE
  BY <1>1 DEF Sound, ResultShape
<1> QED BY <1>2 DEF Sound

LEMMA ResultUpdates ==
  ASSUME NEW r, Sound(r), NEW x
  PROVE  /\ LET q == [r EXCEPT !.warm = x] IN Sound(q) /\ q.ok = r.ok /\ q.seen = r.seen
         /\ LET q == [r EXCEPT !.shot = x] IN Sound(q) /\ q.ok = r.ok /\ q.seen = r.seen
         /\ LET q == [r EXCEPT !.state = x] IN Sound(q) /\ q.ok = r.ok /\ q.seen = r.seen
<1>1. r = [kind |-> r.kind, ok |-> r.ok, blocked |-> r.blocked, error |-> r.error, shot |-> r.shot,
           state |-> r.state, warm |-> r.warm, seen |-> r.seen, status |-> r.status, of |-> r.of]
  BY DEF Sound, ResultShape
<1>2. ASSUME NEW q, q = [r EXCEPT !.warm = x] \/ q = [r EXCEPT !.shot = x] \/ q = [r EXCEPT !.state = x]
      PROVE  Sound(q) /\ q.ok = r.ok /\ q.seen = r.seen
  <2>1. ResultShape(q) /\ q.ok = r.ok /\ q.seen = r.seen /\ q.of = r.of /\ q.status = r.status
    BY <1>1, <1>2 DEF ResultShape
  <2> QED BY <2>1 DEF Sound, ReadWell
<1> QED
  BY <1>2

LEMMA EngagedHolds ==
  ASSUME FetchInv, fetch.at \in Engaged
  PROVE  open \subseteq Things(fetch.ask) /\ fetch.ask \in Asks /\ fetch.missing \in BOOLEAN
         /\ fetch.late \in BOOLEAN /\ Sound(fetch.result)
  BY ResultIsSound DEF FetchInv, Tidy, Honest

LEMMA BeginKeeps ==
  ASSUME FetchInv, Begin
  PROVE  FetchInv'
<1>1. PICK a \in Asks, refused \in BOOLEAN :
        fetch' = [fetch EXCEPT !.ask = a, !.at = IF refused THEN "done" ELSE "opening",
                               !.todo = Opens(a), !.result.kind = IF refused THEN "egress" ELSE @]
  BY DEF Begin
<1>2. fetch.at = "idle" /\ open = {} /\ open' = open /\ fetch.result.ok = FALSE /\ Sound(fetch.result)
  BY ResultIsSound DEF Begin, FetchInv, Tidy, Honest, Unread
<1>3. PICK at : at = IF refused THEN "done" ELSE "opening"
  OBVIOUS
<1>4. PICK kind : kind = IF refused THEN "egress" ELSE fetch.result.kind
  OBVIOUS
<1>5. PICK todo : todo = Opens(a)
  OBVIOUS
<1>6. PICK r : r = [fetch.result EXCEPT !.kind = kind]
  OBVIOUS
<1>7. Sound(r) /\ r.ok = FALSE
  BY <1>2, <1>6, KindOnly
<1>8. fetch'.at = at /\ fetch'.ask = a /\ fetch'.todo = todo /\ fetch'.missing = fetch.missing
      /\ fetch'.result = r /\ fetch'.late = fetch.late
      /\ fetch' = [at |-> at, ask |-> a, todo |-> todo, missing |-> fetch.missing, result |-> r, late |-> fetch.late]
  <2>1. fetch' = [[[[fetch EXCEPT !.ask = a] EXCEPT !.at = at] EXCEPT !.todo = todo] EXCEPT !.result.kind = kind]
    BY <1>1, <1>3, <1>4, <1>5 DEF FetchInv, FetchShape
  <2>2. PICK e : e = [fetch EXCEPT !.ask = a]
    OBVIOUS
  <2>3. e = [at |-> fetch.at, ask |-> a, todo |-> fetch.todo, missing |-> fetch.missing, result |-> fetch.result,
             late |-> fetch.late]
    BY <2>2 DEF FetchInv, FetchShape
  <2>4. PICK g : g = [e EXCEPT !.at = at]
    OBVIOUS
  <2>5. g = [at |-> at, ask |-> a, todo |-> fetch.todo, missing |-> fetch.missing, result |-> fetch.result,
             late |-> fetch.late]
    BY <2>3, <2>4
  <2>6. PICK h : h = [g EXCEPT !.todo = todo]
    OBVIOUS
  <2>7. h = [at |-> at, ask |-> a, todo |-> todo, missing |-> fetch.missing, result |-> fetch.result,
             late |-> fetch.late]
    BY <2>5, <2>6
  <2>8. [h EXCEPT !.result.kind = kind]
          = [at |-> at, ask |-> a, todo |-> todo, missing |-> fetch.missing, result |-> r, late |-> fetch.late]
    BY <1>6, <2>7
  <2>9. fetch' = [h EXCEPT !.result.kind = kind]
    BY <2>1, <2>2, <2>4, <2>6
  <2> QED BY <2>8, <2>9
<1>9. FetchShape'
  BY <1>7, <1>8 DEF FetchShape, Sound
<1>10. Honest'
  BY <1>2, <1>3, <1>7, <1>8 DEF FetchInv, Honest, Unread
<1>11. todo \in Seq(Things(a)) /\ todo # <<>>
  BY <1>5, ClosesCover
<1>12. Tidy'
  BY <1>2, <1>3, <1>8, <1>11 DEF Tidy, Engaged
<1> QED
  BY <1>9, <1>10, <1>12 DEF FetchInv

LEMMA OpenKeeps ==
  ASSUME FetchInv, OpenNext
  PROVE  FetchInv'
<1>1. fetch.at = "opening" /\ fetch.at \in Engaged
  BY DEF OpenNext, Engaged
<1>2. open \subseteq Things(fetch.ask) /\ fetch.todo \in Seq(Things(fetch.ask)) /\ fetch.todo # <<>>
  BY <1>1 DEF FetchInv, Tidy, Engaged
<1>3. /\ Head(fetch.todo) \in Things(fetch.ask) /\ Tail(fetch.todo) \in Seq(Things(fetch.ask))
      /\ Len(fetch.todo) # 1 => Tail(fetch.todo) # <<>>
  <2>1. PICK T : T = Things(fetch.ask)
    OBVIOUS
  <2>2. PICK s \in Seq(T) : s = fetch.todo
    BY <1>2, <2>1
  <2>3. s # <<>> => Head(s) \in T /\ Tail(s) \in Seq(T) /\ Len(Tail(s)) = Len(s) - 1 /\ Len(s) \in Nat \ {0}
    OBVIOUS
  <2>4. Len(<<>>) = 0
    OBVIOUS
  <2>5. s # <<>>
    BY <1>2, <2>2
  <2>6. Head(s) \in T /\ Tail(s) \in Seq(T) /\ Len(Tail(s)) = Len(s) - 1 /\ Len(s) \in Nat \ {0}
    BY <2>3, <2>5
  <2>7. Len(s) # 1 => Len(Tail(s)) # 0
    BY <2>6
  <2>8. Len(s) # 1 => Tail(s) # <<>>
    BY <2>4, <2>7
  <2> QED BY <2>1, <2>2, <2>6, <2>8
<1>4. open' \subseteq Things(fetch.ask)
  BY <1>2, <1>3 DEF OpenNext
<1>5. PICK todo, at : todo = Tail(fetch.todo) /\ at = Opened
  OBVIOUS
<1>6. fetch' = FetchRecord(at, todo, fetch.missing, fetch.result, fetch.late)
  <2>1. fetch' = [fetch EXCEPT !.todo = todo, !.at = at]
    BY <1>5 DEF OpenNext
  <2> QED BY <2>1, Updates
<1>7. at = "opening" => todo # <<>>
  BY <1>3, <1>5 DEF Opened
<1>8. at \in {"opening", "warmup"}
  BY <1>5 DEF Opened
<1>9. fetch.result.ok = FALSE /\ fetch.missing \in BOOLEAN /\ fetch.late \in BOOLEAN /\ Sound(fetch.result)
      /\ fetch.ask \in Asks
  BY <1>1, EngagedHolds DEF FetchInv, Honest, Unread
<1>10. CASE at = "warmup"
  BY <1>1, <1>4, <1>6, <1>9, <1>10, Proceeds DEF Engaged, Unread
<1>11. CASE at = "opening"
  <2>1. /\ fetch'.at = at /\ fetch'.ask = fetch.ask /\ fetch'.todo = todo /\ fetch'.missing = fetch.missing
        /\ fetch'.result = fetch.result /\ fetch'.late = fetch.late
    BY <1>6 DEF FetchRecord
  <2>2. FetchShape'
    BY <1>6, <1>9 DEF FetchRecord, FetchShape, Sound
  <2>3. Honest'
    BY <1>9, <1>11, <2>1 DEF Honest, Unread
  <2>4. Tidy'
    BY <1>3, <1>4, <1>5, <1>7, <1>9, <1>11, <2>1 DEF Tidy, Engaged
  <2> QED BY <2>2, <2>3, <2>4 DEF FetchInv
<1> QED
  BY <1>8, <1>10, <1>11

LEMMA OpenFailsKeeps ==
  ASSUME FetchInv, OpenFails
  PROVE  FetchInv'
<1>1. fetch.at = "opening" /\ fetch.at \in Engaged
  BY DEF OpenFails, Engaged
<1>2. PICK kind : \/ fetch' = Ends(kind) /\ open' = open
                  \/ fetch' = [Ends(kind) EXCEPT !.late = TRUE]
  BY DEF OpenFails
<1>3. CASE fetch' = [Ends(kind) EXCEPT !.late = TRUE]
  <2>1. PICK r, c : r = [fetch.result EXCEPT !.kind = kind] /\ c = Closes(fetch.ask)
    OBVIOUS
  <2>2. Ends(kind) = [at |-> "closing", ask |-> fetch.ask, todo |-> c, missing |-> fetch.missing,
                               result |-> r, late |-> fetch.late]
    BY <2>1, EndsIs DEF FetchRecord
  <2>3. PICK e : e = Ends(kind)
    OBVIOUS
  <2>4. [e EXCEPT !.late = TRUE] = [at |-> "closing", ask |-> fetch.ask, todo |-> c, missing |-> fetch.missing,
                                    result |-> r, late |-> TRUE]
    <3>1. PICK l : l = TRUE
      OBVIOUS
    <3>2. e = [at |-> "closing", ask |-> fetch.ask, todo |-> c, missing |-> fetch.missing, result |-> r,
               late |-> fetch.late]
      BY <2>2, <2>3
    <3>3. [e EXCEPT !.late = l] = [at |-> "closing", ask |-> fetch.ask, todo |-> c, missing |-> fetch.missing,
                                   result |-> r, late |-> l]
      BY <3>2
    <3> QED BY <3>1, <3>3
  <2>5. fetch' = FetchRecord("closing", Closes(fetch.ask), fetch.missing, r, TRUE)
    BY <1>3, <2>1, <2>3, <2>4 DEF FetchRecord
  <2>6. Sound(r)
    BY <2>1, KindOnly, ResultIsSound
  <2> QED BY <1>1, <2>5, <2>6, ToClosing
<1> QED
  BY <1>1, <1>2, <1>3, EndsKeeps

LEMMA VisitKeeps ==
  ASSUME FetchInv, Warmup \/ Goto \/ WaitForSelector
  PROVE  FetchInv'
<1>1. fetch.at \in Engaged /\ fetch.at \in Unread /\ fetch.result.ok = FALSE /\ open' = open
  BY DEF Warmup, Goto, WaitForSelector, Engaged, Unread, FetchInv, Honest
<1>2. open \subseteq Things(fetch.ask) /\ fetch.missing \in BOOLEAN /\ Sound(fetch.result)
  BY <1>1, EngagedHolds
<1>3. ASSUME NEW at \in {"goto", "selector"}, NEW r, Sound(r), r.ok = FALSE,
             fetch' = FetchRecord(at, fetch.todo, fetch.missing, r, fetch.late)
      PROVE  FetchInv'
  BY <1>1, <1>2, <1>3, Proceeds DEF Engaged
<1>4. CASE Warmup
  <2>1. \/ fetch' = [fetch EXCEPT !.at = "goto"]
        \/ \E warm : fetch' = [fetch EXCEPT !.at = "goto", !.result.warm = warm]
    BY <1>4 DEF Warmup
  <2>2. CASE fetch' = [fetch EXCEPT !.at = "goto"]
    BY <1>1, <1>2, <1>3, <2>2, Updates
  <2>3. CASE \E warm : fetch' = [fetch EXCEPT !.at = "goto", !.result.warm = warm]
    <3>1. PICK warm : fetch' = [fetch EXCEPT !.at = "goto", !.result.warm = warm]
      BY <2>3
    <3>2. PICK r : r = [fetch.result EXCEPT !.warm = warm]
      OBVIOUS
    <3>3. Sound(r) /\ r.ok = FALSE
      BY <1>1, <1>2, <3>2, ResultUpdates
    <3>4. fetch' = [fetch EXCEPT !.at = "goto", !.result = r]
      BY <3>1, <3>2 DEF FetchInv, FetchShape
    <3>5. fetch' = FetchRecord("goto", fetch.todo, fetch.missing, r, fetch.late)
      BY <3>4, Updates
    <3> QED BY <1>3, <3>3, <3>5
  <2> QED BY <2>1, <2>2, <2>3
<1>5. CASE Goto
  <2>1. \/ fetch' = Empty("egress")
        \/ \E status : fetch' = [fetch EXCEPT !.at = "selector", !.result.status = status]
    BY <1>5 DEF Goto
  <2>2. CASE \E status : fetch' = [fetch EXCEPT !.at = "selector", !.result.status = status]
    <3>1. PICK status : fetch' = [fetch EXCEPT !.at = "selector", !.result.status = status]
      BY <2>2
    <3>2. PICK r : r = [fetch.result EXCEPT !.status = status]
      OBVIOUS
    <3>3. Sound(r) /\ r.ok = FALSE
      <4>1. PICK old : old = fetch.result
        OBVIOUS
      <4>2. Sound(old) /\ old.ok = FALSE /\ r = [old EXCEPT !.status = status]
        BY <1>1, <1>2, <3>2, <4>1
      <4> QED BY <4>2, StatusUpdate, Zenon
    <3>4. fetch' = [fetch EXCEPT !.at = "selector", !.result = r]
      BY <3>1, <3>2 DEF FetchInv, FetchShape
    <3>5. fetch' = FetchRecord("selector", fetch.todo, fetch.missing, r, fetch.late)
      BY <3>4, Updates
    <3> QED BY <1>3, <3>3, <3>5
  <2> QED BY <1>1, <2>1, <2>2, EmptyKeeps
<1>6. CASE WaitForSelector
  <2>1. \/ fetch' = [fetch EXCEPT !.at = "read", !.result.seen = "not awaited"]
        \/ fetch' = [fetch EXCEPT !.at = "read", !.missing = ~place'.grows,
                                  !.result.seen = IF place'.grows THEN "yes" ELSE "no"]
    BY <1>6 DEF WaitForSelector
  <2>2. ASSUME NEW seen, NEW missing \in BOOLEAN, missing = TRUE \/ seen # "no",
               NEW r, r = [fetch.result EXCEPT !.seen = seen],
               fetch' = FetchRecord("read", fetch.todo, missing, r, fetch.late)
        PROVE  FetchInv'
    <3>1. Sound(r) /\ r.ok = FALSE /\ r.seen = seen
      <4>1. fetch.result.ok = FALSE /\ r = [fetch.result EXCEPT !.seen = seen] /\ Sound(fetch.result)
        BY <1>1, <1>2, <2>2
      <4>2. PICK old : old = fetch.result
        OBVIOUS
      <4>3. Sound(old) /\ old.ok = FALSE /\ r = [old EXCEPT !.seen = seen]
        BY <4>1, <4>2
      <4> QED BY <4>3, SeenUpdate, Zenon
    <3> QED BY <1>1, <1>2, <2>2, <3>1, Proceeds DEF Engaged
  <2>3. CASE fetch' = [fetch EXCEPT !.at = "read", !.result.seen = "not awaited"]
    <3>1. PICK r : r = [fetch.result EXCEPT !.seen = "not awaited"]
      OBVIOUS
    <3>2. fetch' = [fetch EXCEPT !.at = "read", !.result = r]
      BY <2>3, <3>1 DEF FetchInv, FetchShape
    <3>3. fetch' = FetchRecord("read", fetch.todo, fetch.missing, r, fetch.late)
      BY <3>2, Updates
    <3> QED BY <1>2, <2>2, <3>1, <3>3
  <2>4. CASE fetch' = [fetch EXCEPT !.at = "read", !.missing = ~place'.grows,
                                    !.result.seen = IF place'.grows THEN "yes" ELSE "no"]
    <3>1. PICK missing \in BOOLEAN : missing = ~place'.grows
      OBVIOUS
    <3>2. PICK seen : seen = IF place'.grows THEN "yes" ELSE "no"
      OBVIOUS
    <3>3. PICK r : r = [fetch.result EXCEPT !.seen = seen]
      OBVIOUS
    <3>4. fetch' = [fetch EXCEPT !.at = "read", !.missing = missing, !.result = r]
      BY <2>4, <3>1, <3>2, <3>3 DEF FetchInv, FetchShape
    <3>5. fetch' = FetchRecord("read", fetch.todo, missing, r, fetch.late)
      BY <3>4, Updates
    <3>6. missing = TRUE \/ seen # "no"
      BY <3>1, <3>2
    <3> QED BY <2>2, <3>3, <3>5, <3>6
  <2> QED BY <2>1, <2>3, <2>4
<1> QED
  BY <1>4, <1>5, <1>6

LEMMA ReadKeeps ==
  ASSUME FetchInv, ReadPage
  PROVE  FetchInv'
<1>1. fetch.at = "read" /\ fetch.at \in Engaged /\ open' = open
  BY DEF ReadPage, Engaged
<1>2. /\ open \subseteq Things(fetch.ask) /\ fetch.missing \in BOOLEAN /\ Sound(fetch.result)
      /\ fetch.missing = TRUE \/ fetch.result.seen # "no"
  BY <1>1, EngagedHolds DEF FetchInv, Honest
<1>3. CASE fetch' = Empty("egress")
  BY <1>1, <1>3, EmptyKeeps
<1>4. CASE fetch' # Empty("egress")
  <2>1. PICK p, v, status : /\ p = place' /\ status = fetch.result.status
                            /\ v = Verdict(place', fetch.result.status, fetch.missing)
    OBVIOUS
  <2>2. PICK r : r = [fetch.result EXCEPT !.ok = v.ok, !.blocked = v.blocked, !.error = v.error, !.of = p]
    OBVIOUS
  <2>3. fetch' = [fetch EXCEPT !.at = "shot", !.result = r]
    BY <1>4, <2>1, <2>2 DEF ReadPage, FetchInv, FetchShape
  <2>4. fetch' = FetchRecord("shot", fetch.todo, fetch.missing, r, fetch.late)
    BY <2>3, Updates
  <2>5. ResultShape(r) /\ r.ok = v.ok /\ r.of = p /\ r.seen = fetch.result.seen /\ r.status = status
    <3>1. PICK ok, blocked, error : ok = v.ok /\ blocked = v.blocked /\ error = v.error
      OBVIOUS
    <3>2. ResultShape(fetch.result)
      BY <1>2 DEF Sound
    <3>3. r = [kind |-> fetch.result.kind, ok |-> ok, blocked |-> blocked, error |-> error, shot |-> fetch.result.shot,
               state |-> fetch.result.state, warm |-> fetch.result.warm, seen |-> fetch.result.seen,
               status |-> status, of |-> p]
      BY <2>1, <2>2, <3>1, <3>2 DEF ResultShape
    <3> QED BY <3>1, <3>3 DEF ResultShape
  <2>6. v.ok \in BOOLEAN /\ (v.ok = TRUE => /\ ~LooksBlocked(p) /\ ~fetch.missing
                                            /\ status \notin BanStatuses \cup TransientStatuses)
    BY <1>2, <2>1, VerdictIsHonest
  <2>7. r.ok = TRUE => ReadWell(r)
    <3>1. ~p.refused
      BY <1>4, <2>1 DEF ReadPage
    <3> QED BY <1>2, <2>5, <2>6, <3>1 DEF ReadWell
  <2>8. Sound(r)
    BY <2>5, <2>6, <2>7 DEF Sound
  <2> QED
    BY <1>1, <1>2, <2>4, <2>8, Proceeds DEF Engaged, Unread
<1> QED
  BY <1>3, <1>4

LEMMA FinishKeeps ==
  ASSUME FetchInv, TakeShot \/ ReadState \/ StepFails
                   \/ Interrupted \/ Refuse
  PROVE  FetchInv'
<1>1. fetch.at \in Engaged /\ open' = open
  BY DEF TakeShot, ReadState, StepFails, Interrupted, Refuse, Engaged
<1>2. /\ open \subseteq Things(fetch.ask) /\ fetch.missing \in BOOLEAN /\ fetch.late \in BOOLEAN
      /\ Sound(fetch.result)
  BY <1>1, EngagedHolds
<1>3. ASSUME NEW r, Sound(r), fetch' = FetchRecord("state", fetch.todo, fetch.missing, r, fetch.late)
      PROVE  FetchInv'
  BY <1>1, <1>2, <1>3, Proceeds DEF Engaged, Unread
<1>4. ASSUME NEW kind, fetch' = Empty(kind) PROVE FetchInv'
  BY <1>1, <1>4, EmptyKeeps
<1>5. CASE TakeShot
  <2>1. \/ fetch' = Empty("egress")
        \/ \E shot : fetch' = [fetch EXCEPT !.at = "state", !.result.shot = shot]
    BY <1>5 DEF TakeShot
  <2>2. CASE \E shot : fetch' = [fetch EXCEPT !.at = "state", !.result.shot = shot]
    <3>1. PICK shot : fetch' = [fetch EXCEPT !.at = "state", !.result.shot = shot]
      BY <2>2
    <3>2. PICK r : r = [fetch.result EXCEPT !.shot = shot]
      OBVIOUS
    <3>3. Sound(r)
      BY <1>2, <3>2, ResultUpdates
    <3>4. fetch' = [fetch EXCEPT !.at = "state", !.result = r]
      BY <3>1, <3>2 DEF FetchInv, FetchShape
    <3> QED BY <1>3, <3>3, <3>4, Updates
  <2> QED BY <1>4, <2>1, <2>2
<1>6. CASE ReadState
  <2>1. PICK got \in BOOLEAN : fetch' = [Ends("page") EXCEPT !.result.state = got]
    BY <1>6 DEF ReadState
  <2>2. PICK c, q : c = Closes(fetch.ask) /\ q = [fetch.result EXCEPT !.kind = "page"]
    OBVIOUS
  <2>3. Sound(q)
    BY <1>2, <2>2, KindOnly
  <2>4. PICK e : e = Ends("page")
    OBVIOUS
  <2>5. e = [at |-> "closing", ask |-> fetch.ask, todo |-> c, missing |-> fetch.missing, result |-> q, late |-> fetch.late]
    BY <2>2, <2>4, EndsIs DEF FetchRecord
  <2>6. PICK r : r = [q EXCEPT !.state = got]
    OBVIOUS
  <2>7. Sound(r)
    BY <2>3, <2>6, ResultUpdates
  <2>8. [e EXCEPT !.result.state = got]
          = [at |-> "closing", ask |-> fetch.ask, todo |-> c, missing |-> fetch.missing, result |-> r, late |-> fetch.late]
    BY <2>5, <2>6
  <2>9. fetch' = FetchRecord("closing", Closes(fetch.ask), fetch.missing, r, fetch.late)
    BY <2>1, <2>2, <2>4, <2>8 DEF FetchRecord
  <2> QED BY <1>1, <1>2, <2>7, <2>9, ToClosing
<1>7. CASE StepFails
  <2>1. fetch' = [fetch EXCEPT !.at = "state"] \/ fetch' = Empty("error")
    BY <1>7 DEF StepFails
  <2>2. CASE fetch' = [fetch EXCEPT !.at = "state"]
    BY <1>2, <1>3, <2>2, Updates
  <2> QED BY <1>4, <2>1, <2>2
<1>8. CASE Interrupted
  BY <1>4, <1>8 DEF Interrupted
<1>9. CASE Refuse
  BY <1>4, <1>9 DEF Refuse
<1> QED
  BY <1>5, <1>6, <1>7, <1>8, <1>9

LEMMA CloseKeeps ==
  ASSUME FetchInv, Close \/ CloseInterrupted \/ Done
  PROVE  FetchInv'
<1>1. fetch.at = "closing" /\ Sound(fetch.result) /\ fetch.missing \in BOOLEAN /\ fetch.late \in BOOLEAN
  BY ResultIsSound DEF Close, CloseInterrupted, Done, FetchInv, Honest
<1>2. fetch.todo \in Seq(AllThings) /\ (fetch.late = FALSE => open \subseteq Covered(fetch.todo))
  BY <1>1 DEF FetchInv, Tidy
<1>3. ASSUME NEW at \in {"closing", "done"}, NEW todo, NEW r, Sound(r), NEW late \in BOOLEAN,
             fetch' = FetchRecord(at, todo, fetch.missing, r, late),
             at = "closing" => todo \in Seq(AllThings) /\ (late = FALSE => open' \subseteq Covered(todo)),
             at = "done" => (late = FALSE => open' = {})
      PROVE  FetchInv'
  <2>1. /\ fetch'.at = at /\ fetch'.todo = todo /\ fetch'.missing = fetch.missing
        /\ fetch'.result = r /\ fetch'.late = late
    BY <1>3 DEF FetchRecord
  <2>2. FetchShape'
    BY <1>3 DEF FetchShape, FetchRecord, Sound
  <2>3. Honest'
    BY <1>1, <1>3, <2>1 DEF Honest, Sound, Unread
  <2>4. Tidy'
    BY <1>3, <2>1 DEF Tidy, Engaged
  <2> QED BY <2>2, <2>3, <2>4 DEF FetchInv
<1>4. CASE Close
  <2>1. PICK todo : todo = Tail(fetch.todo)
    OBVIOUS
  <2>2. fetch' = FetchRecord("closing", todo, fetch.missing, fetch.result, fetch.late)
    <3>1. fetch' = [fetch EXCEPT !.todo = todo]
      BY <1>4, <2>1 DEF Close
    <3> QED BY <1>1, <3>1, Updates
  <2>3. todo \in Seq(AllThings) /\ Covered(fetch.todo) \subseteq TakenAlong(Head(fetch.todo)) \cup Covered(todo)
    <3>1. fetch.todo # <<>>
      BY <1>4 DEF Close
    <3>2. todo \in Seq(AllThings)
      BY <1>2, <2>1, <3>1
    <3> QED BY <1>2, <2>1, <3>1, <3>2, CoveredByRest
  <2>4. fetch.late = FALSE => open' \subseteq Covered(todo)
    BY <1>2, <1>4, <2>3 DEF Close
  <2> QED BY <1>1, <1>3, <2>2, <2>3, <2>4
<1>5. CASE CloseInterrupted
  <2>1. PICK todo : todo = IF Wanted.engine = "ephemeral" /\ Head(fetch.todo) \in {"page", "context", "bridge"}
                           THEN <<"browser", "driver">> ELSE <<>>
    OBVIOUS
  <2>2. todo \in Seq(AllThings)
    <3>1. <<"browser", "driver">> \in Seq(AllThings) /\ <<>> \in Seq(AllThings)
      BY DEF AllThings
    <3> QED BY <2>1, <3>1, Zenon
  <2>3. PICK r : r = [NoResult EXCEPT !.kind = "cancelled"]
    OBVIOUS
  <2>4. Sound(r)
    BY <2>3 DEF NoResult, Sound, ResultShape
  <2>5. fetch' = [fetch EXCEPT !.result = r, !.late = TRUE, !.todo = todo]
    BY <1>5, <2>1, <2>3 DEF CloseInterrupted, FetchInv, FetchShape
  <2>6. fetch' = FetchRecord("closing", todo, fetch.missing, r, TRUE)
    <3>1. PICK l : l = TRUE
      OBVIOUS
    <3>2. fetch' = [fetch EXCEPT !.result = r, !.late = l, !.todo = todo]
      BY <2>5, <3>1
    <3>3. fetch' = FetchRecord(fetch.at, todo, fetch.missing, r, l)
      <4>1. [fetch EXCEPT !.result = r, !.late = l, !.todo = todo] = FetchRecord(fetch.at, todo, fetch.missing, r, l)
        BY LateUpdate, Zenon
      <4> QED BY <3>2, <4>1
    <3> QED BY <1>1, <3>1, <3>3
  <2> QED BY <1>3, <2>2, <2>4, <2>6
<1>6. CASE Done
  <2>1. fetch' = FetchRecord("done", fetch.todo, fetch.missing, fetch.result, fetch.late)
    BY <1>6, Updates DEF Done
  <2>2. fetch.todo = <<>> /\ open' = open
    BY <1>6 DEF Done
  <2>3. Covered(<<>>) = {}
    BY DEF Covered
  <2> QED BY <1>1, <1>2, <1>3, <2>1, <2>2, <2>3
<1> QED
  BY <1>4, <1>5, <1>6

LEMMA FetchInvariant == FSpec => []FetchInv
<1>1. ASSUME FetchInv, [FNext]_fvars PROVE FetchInv'
  <2>1. CASE UNCHANGED fvars
    BY <1>1, <2>1 DEF fvars, FetchInv, FetchShape, ResultShape, Honest, ReadWell, Tidy, Covered, Things
  <2>2. CASE FNext
    BY <1>1, <2>2, BeginKeeps, OpenKeeps, OpenFailsKeeps, VisitKeeps, ReadKeeps, FinishKeeps, CloseKeeps
       DEF FNext
  <2> QED BY <1>1, <2>1, <2>2
<1> QED
  BY FetchInit, <1>1, PTL DEF FSpec

\* Whatever page a fetch lands on and wherever it settles, it reports ok only
\* for a page it read that is no block, no ban and has the selector awaited.
THEOREM OkPagesAreGenuine == FSpec => []OkIsGenuine
<1>1. FetchInv => OkIsGenuine
  BY DEF FetchInv, Honest, ReadWell, OkIsGenuine, Returned
<1> QED
  BY <1>1, FetchInvariant, PTL

\* However a fetch ends, and whichever await it fails or is cancelled at, it
\* has closed what it opened, the two known gaps apart.
THEOREM FetchesCloseUp == FSpec => []ClosedAtTheEnd
<1>1. FetchInv => ClosedAtTheEnd
  BY DEF FetchInv, Honest, Tidy, ClosedAtTheEnd
<1> QED
  BY <1>1, FetchInvariant, PTL

(***** RowExtraction *****)

(* Induction on numbers, as a fact about sets.                             *)
LEMMA SetInduction ==
  ASSUME NEW S, 0 \in S, \A n \in Nat : n \in S => n + 1 \in S
  PROVE  Nat \subseteq S
<1> DEFINE Less == {ss \in Nat \X Nat : ss[1] < ss[2]}
           Rest == Nat \ S
<1>1. IsWellFoundedOn(Less, Nat)
  BY NatLessThanWellFounded DEF OpToRel
<1>2. SUFFICES ASSUME Rest # {} PROVE FALSE
  OBVIOUS
<1>3. \E x \in Rest : \A y \in Rest : <<y, x>> \notin Less
  <2> HIDE DEF Less, Rest
  <2>1. Rest \subseteq Nat
    BY DEF Rest
  <2> QED BY <1>1, <1>2, <2>1, WFMin
<1>4. PICK x \in Rest : \A y \in Rest : <<y, x>> \notin Less
  BY <1>3
<1>5. x # 0 /\ x - 1 \in Nat
  BY <1>4
<1>6. <<x - 1, x>> \in Less
  BY <1>5
<1>7. x - 1 \in S
  BY <1>4, <1>5, <1>6
<1> QED BY <1>4, <1>5, <1>7

(* The least of some numbers is one of them.                               *)
LEMMA LeastIsIn ==
  ASSUME NEW S \in SUBSET Nat, S # {}
  PROVE  Least(S) \in S
<1> DEFINE Before == {ss \in Nat \X Nat : ss[1] < ss[2]}
<1>1. \E x \in S : \A y \in S : x <= y
  <2>1. IsWellFoundedOn(Before, Nat)
    BY NatLessThanWellFounded DEF OpToRel
  <2>2. PICK x \in S : \A y \in S : <<y, x>> \notin Before
    <3> HIDE DEF Before
    <3> QED BY <2>1, WFMin
  <2>3. ASSUME NEW y \in S PROVE x <= y
    <3>1. x \in Nat /\ y \in Nat /\ <<y, x>> \notin Before
      BY <2>2
    <3>2. ~(y < x)
      BY <3>1
    <3> QED BY <3>1, <3>2
  <2> QED BY <2>3
<1> QED BY <1>1 DEF Least

(* What the recursive functions of the model are.                          *)
LEMMA AncestorsAre ==
  ancestors = [n \in Nodes |-> IF n = Root THEN {} ELSE {Parent[n]} \cup ancestors[Parent[n]]]
<1>1. PICK size \in Nat : Nodes = 1..size
  BY RowAssumption, FS_CardinalityType
<1> DEFINE Fits(g, N) == g = [n \in 1..N |-> IF n = Root THEN {} ELSE {Parent[n]} \cup g[Parent[n]]]
           S == {N \in Nat : N <= size => \E g : Fits(g, N)}
<1>2. 0 \in S
  <2>1. Fits([n \in 1..0 |-> {}], 0)
    OBVIOUS
  <2> QED BY <2>1
<1>3. ASSUME NEW N \in Nat, N \in S PROVE N + 1 \in S
  <2>1. SUFFICES ASSUME N + 1 <= size PROVE \E z : Fits(z, N + 1)
    OBVIOUS
  <2>2. PICK g : Fits(g, N)
    BY <1>3, <2>1
  <2> DEFINE Last == IF N + 1 = Root THEN {} ELSE {Parent[N + 1]} \cup g[Parent[N + 1]]
             h == [n \in 1..N + 1 |-> IF n = N + 1 THEN Last ELSE g[n]]
  <2>3. ASSUME NEW n \in 1..N + 1, n # Root
        PROVE  Parent[n] \in 1..N /\ h[Parent[n]] = g[Parent[n]]
    <3>1. n \in Nodes
      BY <1>1, <2>1
    <3>2. Parent[n] \in Nodes /\ Parent[n] < n
      BY <2>3, <3>1, RowAssumption
    <3>3. Parent[n] \in 1..N
      BY <1>1, <3>2
    <3>4. Parent[n] \in 1..N + 1 /\ Parent[n] # N + 1
      BY <3>3
    <3> HIDE DEF Last
    <3> QED BY <3>3, <3>4
  <2>4. ASSUME NEW n \in 1..N + 1
        PROVE  h[n] = IF n = Root THEN {} ELSE {Parent[n]} \cup h[Parent[n]]
    <3>1. CASE n = N + 1
      <4>1. h[n] = Last
        BY <3>1
      <4> HIDE DEF h
      <4> QED BY <2>3, <3>1, <4>1
    <3>2. CASE n # N + 1
      <4>1. n \in 1..N
        BY <3>2
      <4>2. h[n] = g[n]
        BY <3>2
      <4>3. g[n] = IF n = Root THEN {} ELSE {Parent[n]} \cup g[Parent[n]]
        BY <2>2, <4>1
      <4> HIDE DEF h
      <4> QED BY <2>3, <4>2, <4>3
    <3> QED BY <3>1, <3>2
  <2>5. Fits(h, N + 1)
    <3>1. h = [n \in 1..N + 1 |-> h[n]]
      OBVIOUS
    <3> HIDE DEF h
    <3> QED BY <2>4, <3>1
  <2> QED BY <2>5
<1>4. size \in S
  <2> HIDE DEF S
  <2> QED BY <1>2, <1>3, SetInduction
<1>5. \E g : g = [n \in Nodes |-> IF n = Root THEN {} ELSE {Parent[n]} \cup g[Parent[n]]]
  BY <1>1, <1>4
<1> QED BY <1>5 DEF ancestors

LEMMA ReachedIs ==
  ASSUME NEW selector, Len(selector) \in Nat, NEW n, NEW f, f = Reached(selector, n)
  PROVE  f = [k \in 0..Len(selector) |->
                IF k = 0 THEN {n} ELSE UNION {Axis(selector[k], m) : m \in f[k - 1]}]
<1> DEFINE Fits(g, N) == g = [k \in 0..N |-> IF k = 0 THEN {n} ELSE UNION {Axis(selector[k], m) : m \in g[k - 1]}]
           S == {N \in Nat : \E g : Fits(g, N)}
<1>1. 0 \in S
  <2>1. Fits([k \in 0..0 |-> {n}], 0)
    OBVIOUS
  <2> QED BY <2>1
<1>2. ASSUME NEW N \in Nat, N \in S PROVE N + 1 \in S
  <2>1. PICK g : Fits(g, N)
    BY <1>2
  <2> DEFINE Led == UNION {Axis(selector[N + 1], m) : m \in g[N]}
             h == [k \in 0..N + 1 |-> IF k = N + 1 THEN Led ELSE g[k]]
  <2>2. ASSUME NEW k \in 0..N + 1
        PROVE  h[k] = IF k = 0 THEN {n} ELSE UNION {Axis(selector[k], m) : m \in h[k - 1]}
    <3>1. CASE k = 0
      <4>1. 0 \in 0..N /\ 0 # N + 1 /\ 0 \in 0..N + 1
        OBVIOUS
      <4>2. g[0] = {n}
        BY <2>1, <4>1
      <4> QED BY <3>1, <4>1, <4>2
    <3>2. CASE k = N + 1
      <4>1. k # 0 /\ k - 1 = N /\ N \in 0..N + 1 /\ N # N + 1
        BY <3>2
      <4>2. h[k] = Led /\ h[N] = g[N]
        BY <3>2, <4>1
      <4> HIDE DEF h
      <4> QED BY <3>2, <4>1, <4>2
    <3>3. CASE k # 0 /\ k # N + 1
      <4>1. k \in 0..N /\ k - 1 \in 0..N + 1 /\ k - 1 # N + 1
        BY <3>3
      <4>2. h[k] = g[k] /\ h[k - 1] = g[k - 1]
        BY <3>3, <4>1
      <4>3. g[k] = UNION {Axis(selector[k], m) : m \in g[k - 1]}
        BY <2>1, <3>3, <4>1
      <4> HIDE DEF h
      <4> QED BY <3>3, <4>2, <4>3
    <3> QED BY <3>1, <3>2, <3>3
  <2>3. Fits(h, N + 1)
    <3>1. h = [k \in 0..N + 1 |-> h[k]]
      OBVIOUS
    <3> HIDE DEF h
    <3> QED BY <2>2, <3>1
  <2>4. \E z : Fits(z, N + 1)
    <3> HIDE DEF h
    <3> QED BY <2>3
  <2> HIDE DEF Fits
  <2> QED BY <2>4
<1>3. Len(selector) \in S
  <2> HIDE DEF S
  <2> QED BY <1>1, <1>2, SetInduction
<1>4. \E g : Fits(g, Len(selector))
  BY <1>3
<1> QED BY <1>4 DEF Reached

-----------------------------------------------------------------------------
(* The ancestors of an ancestor are ancestors.                             *)
LEMMA AncestorsGoUp ==
  ASSUME NEW n \in Nodes, NEW m \in ancestors[n]
  PROVE  m \in Nodes /\ ancestors[m] \subseteq ancestors[n]
<1>1. PICK size \in Nat : Nodes = 1..size
  BY RowAssumption, FS_CardinalityType
<1> DEFINE Holds(i) == \A j \in ancestors[i] : j \in Nodes /\ ancestors[j] \subseteq ancestors[i]
           S == {N \in Nat : \A i \in Nodes : i <= N => Holds(i)}
<1>2. 0 \in S
  BY <1>1
<1>3. ASSUME NEW N \in Nat, N \in S PROVE N + 1 \in S
  <2>1. SUFFICES ASSUME NEW i \in Nodes, i = N + 1 PROVE Holds(i)
    <3> HIDE DEF Holds
    <3>1. \A i \in Nodes : i <= N + 1 => i <= N \/ i = N + 1
      BY <1>1
    <3> QED BY <1>3, <3>1
  <2>2. CASE i = Root
    BY <2>2, AncestorsAre
  <2>3. CASE i # Root
    <3>1. ancestors[i] = {Parent[i]} \cup ancestors[Parent[i]]
      BY <2>3, AncestorsAre
    <3>2. Parent[i] \in Nodes /\ Parent[i] <= N
      BY <1>1, <2>1, <2>3, RowAssumption
    <3>3. Holds(Parent[i])
      <4> HIDE DEF Holds
      <4> QED BY <1>3, <3>2
    <3> QED BY <3>1, <3>2, <3>3
  <2> QED BY <2>2, <2>3
<1>4. n \in S
  <2>1. n \in Nat
    BY <1>1
  <2> HIDE DEF S
  <2> QED BY <1>2, <1>3, <2>1, SetInduction
<1> QED BY <1>1, <1>4

(* A safe step never leaves the subtree it is in.                          *)
LEMMA SafeStepsStay ==
  ASSUME NEW row \in Nodes, NEW m \in Subtree(row), NEW step \in SafeSteps
  PROVE  Axis(step, m) \subseteq Subtree(row)
<1>1. m \in Nodes
  BY DEF Subtree, Descendants
<1>2. ASSUME NEW d \in Descendants(m) PROVE d \in Subtree(row)
  <2>1. d \in Nodes /\ m \in ancestors[d]
    BY DEF Descendants
  <2>2. ancestors[m] \subseteq ancestors[d]
    BY <2>1, AncestorsGoUp
  <2> QED BY <2>1, <2>2 DEF Subtree, Descendants
<1>3. CASE step = "child"
  <2>1. ASSUME NEW c \in Nodes \ {Root}, Parent[c] = m PROVE c \in Descendants(m)
    BY <2>1, AncestorsAre DEF Descendants
  <2> QED BY <1>2, <1>3, <2>1 DEF Axis
<1>4. CASE step = "self"
  BY <1>4 DEF Axis
<1>5. CASE step = "descendant"
  BY <1>2, <1>5 DEF Axis
<1>6. CASE step = "descendant-or-self"
  BY <1>2, <1>6 DEF Axis, Subtree
<1> QED BY <1>3, <1>4, <1>5, <1>6 DEF SafeSteps

(* What a selector of safe steps finds lies in its row.                    *)
LEMMA SafeSelectorsStay ==
  ASSUME NEW selector, Len(selector) \in Nat, NEW row \in Nodes,
         \A k \in 1..Len(selector) : selector[k] \in SafeSteps
  PROVE  Matches(selector, row) \subseteq Subtree(row)
<1> DEFINE f == Reached(selector, row)
           N == Len(selector)
           S == {k \in Nat : k <= N => f[k] \subseteq Subtree(row)}
<1>1. f = [k \in 0..N |-> IF k = 0 THEN {row} ELSE UNION {Axis(selector[k], m) : m \in f[k - 1]}]
  BY ReachedIs
<1>2. Matches(selector, row) = f[N]
  BY DEF Matches
<1> HIDE DEF f
<1>3. 0 \in S
  <2>1. f[0] = {row}
    BY <1>1
  <2> QED BY <2>1 DEF Subtree
<1>4. ASSUME NEW k \in Nat, k \in S PROVE k + 1 \in S
  <2>1. SUFFICES ASSUME k + 1 <= N PROVE f[k + 1] \subseteq Subtree(row)
    OBVIOUS
  <2>2. k + 1 \in 0..N /\ k + 1 # 0 /\ (k + 1) - 1 = k /\ k + 1 \in 1..N /\ k <= N
    BY <2>1
  <2>3. f[k + 1] = UNION {Axis(selector[k + 1], m) : m \in f[k]}
    BY <1>1, <2>2
  <2>4. f[k] \subseteq Subtree(row)
    BY <1>4, <2>2
  <2>5. \A m \in f[k] : Axis(selector[k + 1], m) \subseteq Subtree(row)
    BY <2>2, <2>4, SafeStepsStay
  <2> HIDE DEF N
  <2> QED BY <2>3, <2>5
<1>5. N \in S
  <2> HIDE DEF S
  <2> QED BY <1>3, <1>4, SetInduction
<1> QED BY <1>2, <1>5

-----------------------------------------------------------------------------
(* One value for each row, from that row.                                  *)
LEMMA OneFromEachRow ==
  ASSUME NEW selector, NEW rows \in Seq(Nodes)
  PROVE  /\ DOMAIN OnePerRow(selector, rows) = 1..Len(rows)
         /\ \A i \in 1..Len(rows) : OnePerRow(selector, rows)[i] \in {Null} \cup Subtree(rows[i])
<1>1. DOMAIN rows = 1..Len(rows)
  OBVIOUS
<1>2. ASSUME NEW i \in 1..Len(rows)
      PROVE  OnePerRow(selector, rows)[i] \in {Null} \cup Subtree(rows[i])
  <2> DEFINE inside == Matches(selector, rows[i]) \cap Subtree(rows[i])
  <2>1. OnePerRow(selector, rows)[i] = IF inside = {} THEN Null ELSE Least(inside)
    BY <1>1 DEF OnePerRow
  <2>2. rows[i] \in Nodes
    OBVIOUS
  <2>3. inside \in SUBSET Nat
    <3>1. Nodes \subseteq Nat
      BY RowAssumption, FS_CardinalityType
    <3> QED BY <2>2, <3>1 DEF Subtree, Descendants
  <2>4. CASE inside = {}
    <3> HIDE DEF inside
    <3> QED BY <2>1, <2>4
  <2>5. CASE inside # {}
    <3>1. Least(inside) \in inside
      <4> HIDE DEF inside
      <4> QED BY <2>3, <2>5, LeastIsIn
    <3>2. OnePerRow(selector, rows)[i] = Least(inside)
      <4> HIDE DEF inside
      <4> QED BY <2>1, <2>5
    <3>3. Least(inside) \in Subtree(rows[i])
      BY <3>1
    <3> HIDE DEF inside
    <3> QED BY <3>2, <3>3
  <2> QED BY <2>4, <2>5
<1> QED BY <1>1, <1>2 DEF OnePerRow

LEMMA ColumnIsAligned == Extract => RowsAligned'
<1> SUFFICES ASSUME Extract PROVE RowsAligned'
  OBVIOUS
<1>1. PICK selector \in SelectorPaths, rows \in Rows, raises \in BOOLEAN :
        \E fate \in [DOMAIN rows -> Fates] :
          LET raw == IF raises THEN <<>> ELSE OnePerRow(selector, rows)
              values == Processed(raw, fate)
          IN /\ RowSafe(selector)
             /\ column' = [rows |-> rows, selector |-> selector, raw |-> raw, values |-> values,
                  blank |-> Emptied(raw, fate),
                  warned |-> \/ raises \/ Escaped(selector, rows)
                             \/ Complained(raw, fate) \/ SilentNulls(raw, values)]
  BY DEF Extract
<1>2. PICK fate \in [DOMAIN rows -> Fates] :
        LET raw == IF raises THEN <<>> ELSE OnePerRow(selector, rows)
            values == Processed(raw, fate)
        IN /\ RowSafe(selector)
           /\ column' = [rows |-> rows, selector |-> selector, raw |-> raw, values |-> values,
                blank |-> Emptied(raw, fate),
                warned |-> \/ raises \/ Escaped(selector, rows)
                           \/ Complained(raw, fate) \/ SilentNulls(raw, values)]
  BY <1>1
<1>3. PICK raw : raw = IF raises THEN <<>> ELSE OnePerRow(selector, rows)
  OBVIOUS
<1>4. PICK values : values = Processed(raw, fate)
  OBVIOUS
<1>5. PICK warned \in BOOLEAN :
        warned = (raises \/ Escaped(selector, rows) \/ Complained(raw, fate) \/ SilentNulls(raw, values))
  OBVIOUS
<1>6. RowSafe(selector)
  BY <1>2
<1>a. PICK blank : blank = Emptied(raw, fate)
  OBVIOUS
<1>7. column' = [rows |-> rows, selector |-> selector, raw |-> raw, values |-> values, blank |-> blank,
                 warned |-> warned]
  BY <1>2, <1>3, <1>4, <1>5, <1>a
<1>8. /\ column'.rows = rows /\ column'.selector = selector /\ column'.raw = raw
      /\ column'.values = values /\ column'.blank = blank /\ column'.warned = warned
  BY <1>7
<1>9. rows \in Seq(Nodes) /\ DOMAIN rows = 1..Len(rows) /\ Len(rows) \in Nat
  BY RowAssumption
<1>10. PICK size \in 1..MaxSteps : DOMAIN selector = 1..size /\ Len(selector) = size
  BY RowAssumption DEF SelectorPaths
<1>11. DOMAIN values = DOMAIN raw
       /\ \A i \in DOMAIN raw : values[i] = raw[i] \/ values[i] = Null
  BY <1>4 DEF Processed
<1>12. \/ values = <<>> /\ (rows # <<>> => warned)
       \/ /\ Len(values) = Len(rows)
          /\ \A i \in DOMAIN rows : values[i] \in {Null} \cup Subtree(rows[i])
  <2>1. CASE raises
    <3>1. DOMAIN raw = {}
      BY <1>3, <2>1
    <3>2. values = [i \in {} |-> Null]
      BY <1>4, <3>1 DEF Processed
    <3>3. values = <<>>
      BY <3>2
    <3> QED BY <1>5, <2>1, <3>3
  <2>2. CASE ~raises
    <3>1. raw = OnePerRow(selector, rows)
      BY <1>3, <2>2
    <3>2. DOMAIN raw = 1..Len(rows) /\ \A i \in 1..Len(rows) : raw[i] \in {Null} \cup Subtree(rows[i])
      BY <1>9, <3>1, OneFromEachRow
    <3>3. values = [i \in 1..Len(rows) |-> values[i]]
      BY <1>4, <3>2 DEF Processed
    <3>4. Len(values) = Len(rows)
      BY <1>9, <3>3
    <3>5. \A i \in DOMAIN rows : values[i] \in {Null} \cup Subtree(rows[i])
      BY <1>9, <1>11, <3>2
    <3> QED BY <3>4, <3>5
  <2> QED BY <2>1, <2>2
<1>13. ASSUME Len(raw) > 1, \A i \in DOMAIN values : HasContent(values[i]) => i \in blank,
              \E i \in DOMAIN raw : HasContent(raw[i]),
              ~ \E i \in blank : HasContent(raw[i])
       PROVE  warned
  <2> DEFINE had == {i \in DOMAIN raw : HasContent(raw[i])}
  <2>1. ~raises
    <3>1. CASE raises
      <4>1. DOMAIN raw = {}
        BY <1>3, <3>1
      <4> QED BY <1>13, <4>1
    <3> QED BY <3>1
  <2>2. ASSUME NEW i \in had PROVE values[i] = Null
    <3>1. i \in DOMAIN values /\ HasContent(raw[i])
      BY <1>11
    <3>2. i \notin blank
      BY <1>13, <3>1
    <3>3. ~HasContent(values[i])
      BY <1>13, <3>1, <3>2
    <3> QED BY <1>11, <3>1, <3>3
  <2>3. Len(raw) >= 2
    <3>1. raw = OnePerRow(selector, rows)
      BY <1>3, <2>1
    <3>2. DOMAIN raw = 1..Len(rows) /\ raw = [i \in DOMAIN rows |-> raw[i]]
      BY <1>9, <3>1 DEF OnePerRow
    <3>3. Len(raw) = Len(rows)
      BY <1>9, <3>2
    <3> QED BY <1>9, <1>13, <3>3
  <2>4. SilentNulls(raw, values)
    BY <1>13, <2>2, <2>3 DEF SilentNulls
  <2> QED BY <1>5, <2>4
<1>14. ASSUME \A i \in DOMAIN selector : selector[i] # "function" PROVE ~Escaped(selector, rows)
  <2>1. \A k \in 1..Len(selector) : selector[k] \in SafeSteps
    BY <1>6, <1>10, <1>14 DEF RowSafe
  <2>2. \A i \in DOMAIN rows : Matches(selector, rows[i]) \subseteq Subtree(rows[i])
    <3> TAKE i \in DOMAIN rows
    <3>1. rows[i] \in Nodes
      BY <1>9
    <3>2. Len(selector) \in Nat
      BY <1>10
    <3> QED BY <2>1, <3>1, <3>2, SafeSelectorsStay
  <2> QED BY <2>2 DEF Escaped
<1> QED
  BY <1>8, <1>12, <1>13, <1>14 DEF RowsAligned

(* Every column the extractor yields stays with its rows, or says why not: *)
(* for any page, any rows in it, and any selector its validator let through. *)
THEOREM ColumnsLineUp == RowSpec => []RowsAligned
<1>1. RowInit => RowsAligned
  <2> SUFFICES ASSUME RowInit PROVE RowsAligned
    OBVIOUS
  <2>1. /\ column.rows = <<>> /\ column.raw = <<>> /\ column.values = <<>> /\ column.selector = <<>>
    BY DEF RowInit
  <2>2. DOMAIN column.raw = {}
    BY <2>1
  <2> QED BY <2>1, <2>2 DEF RowsAligned
<1>2. RowsAligned /\ [Extract]_column => RowsAligned'
  <2> SUFFICES ASSUME RowsAligned, [Extract]_column PROVE RowsAligned'
    OBVIOUS
  <2>1. CASE Extract
    BY <2>1, ColumnIsAligned
  <2>2. CASE column' = column
    BY <2>2 DEF RowsAligned
  <2> QED BY <2>1, <2>2
<1> QED
  BY <1>1, <1>2, PTL DEF RowSpec
==============================================================================
