------------------------------- MODULE SelfHeal -------------------------------
(* From a preset to a parsed page: what src/presets/materializer.py puts   *)
(* into the recipe of one request, what src/presets/parser_pipeline.py     *)
(* makes of a page with it, and what of a repaired recipe may be stored    *)
(* (strip_materializer_injected, worker_parse.apply).                      *)
(*                                                                         *)
(* A recipe has a row scope (its container) or none, and fields; a field   *)
(* has a selector, may be required, may coerce what it matched (parse_     *)
(* price and the like) and may resolve links (urljoin), its base left      *)
(* empty, written by the author or filled in for one request. What a       *)
(* selector finds on the page is nothing, a label, or a value that         *)
(* survives coercion. A language model's plan has the same shape.          *)
EXTENDS Naturals, FiniteSets

CONSTANTS
  Fields,      \* names of fields
  Selectors,   \* selectors
  Outside      \* those that leave the row they are evaluated in

Bases == {"no link", "empty", "author", "this request"}

Names(recipe) == DOMAIN recipe.fields

(* inject_url_base and _inject_price_locale: an empty argument, and no     *)
(* other, is filled in for this request.                                   *)
Injected(recipe) == {f \in Names(recipe) : recipe.fields[f].base = "empty"}

Materialized(recipe) ==
  [recipe EXCEPT !.fields = [f \in Names(recipe) |->
     IF f \in Injected(recipe) THEN [recipe.fields[f] EXCEPT !.base = "this request"] ELSE recipe.fields[f]]]

Stripped(recipe, injected) ==
  [recipe EXCEPT !.fields = [f \in Names(recipe) |->
     IF f \in injected THEN [recipe.fields[f] EXCEPT !.base = "empty"] ELSE recipe.fields[f]]]

(* extract_fields: the fields that come back with a usable value.          *)
Filled(recipe, page) ==
  {f \in Names(recipe) : page[recipe.fields[f].selector] \in
     IF recipe.fields[f].coerce THEN {"value"} ELSE {"label", "value"}}

Required(recipe) == {f \in Names(recipe) : recipe.fields[f].required}

RecoversByItself(original, run, page) == Required(run) \subseteq Filled(run, page)
Recovers(original, run, page) == Required(original) \subseteq Filled(run, page)

InScope(recipe) ==
  recipe.scoped => \A f \in Names(recipe) : recipe.fields[f].selector \notin Outside

Covers(healed, original) == Names(original) \subseteq Names(healed)

Merged(original, healed) ==
  [original EXCEPT !.fields = [f \in Names(original) |->
     [original.fields[f] EXCEPT !.selector = healed.fields[f].selector]]]

(* The repaired recipe, whether it may be used at all, and what of it may  *)
(* be stored: an incomplete plan serves its own request only, one that     *)
(* leaves the rows of the recipe none.                                     *)
Repair(original, healed) ==
  IF ~Covers(healed, original)
  THEN [usable |-> ~original.scoped, run |-> healed, complete |-> FALSE]
  ELSE [usable |-> InScope(Merged(original, healed)), run |-> Merged(original, healed), complete |-> TRUE]

Nothing == [mode |-> "none", filled |-> {}]

(* run(): the recipe as it stands; a repair when the model is asked and    *)
(* answers (plan # {}); the model alone when it is configured for that.    *)
(* `store` is the singleton of the recipe to be persisted, or empty.       *)
Parsed(recipe, page, plan, heal, ai) ==
  LET asIs == [mode |-> "deterministic", filled |-> Filled(recipe, page), store |-> {}]
      alone == IF ai = "answers" THEN [mode |-> "llm_extracted", filled |-> {}, store |-> {}]
               ELSE IF ai = "fails" THEN [mode |-> "none", filled |-> {}, store |-> {}]
               ELSE asIs
      repairs == {Repair(recipe, healed) : healed \in plan}
      good == {r \in repairs : r.usable /\ Recovers(recipe, r.run, page)}
  IN CASE Recovers(recipe, recipe, page) -> asIs
       [] heal /\ plan = {}              -> asIs   \* LLMError: no plan came back
       [] heal /\ good # {} ->
            LET r == CHOOSE r \in good : TRUE
            IN [mode |-> "self_healed", filled |-> Filled(r.run, page),
                store |-> IF r.complete THEN {r.run} ELSE {}]
       [] OTHER -> alone

(* What of a recipe only its author decides.                               *)
Contract(recipe) ==
  [scoped |-> recipe.scoped,
   fields |-> [f \in Names(recipe) |-> [required |-> recipe.fields[f].required,
                                        coerce |-> recipe.fields[f].coerce,
                                        base |-> recipe.fields[f].base]]]
=============================================================================
