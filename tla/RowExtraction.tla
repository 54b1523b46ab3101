---------------------------- MODULE RowExtraction ----------------------------
(* Row-scoped recipes: which selectors a recipe with a container may use   *)
(* (row_safe_xpath, src/extract/models.py) and what the extractor makes of *)
(* them (_select_rows, _inside, _one_per_row, src/extract/extractor.py).   *)
(* A page is a tree of nodes numbered in document order; a selector is the *)
(* sequence of the axes of its steps. A CSS selector is judged and         *)
(* evaluated as the XPath it compiles to.                                  *)
EXTENDS Naturals, Sequences, FiniteSets

CONSTANTS
  Nodes,   \* 1..n, in document order
  Parent,  \* the parent of each node but the root
  Root,
  Rows,    \* the rows a page may have, as sequences of nodes
  Bare,    \* nodes without text
  MaxSteps \* steps of a selector

VARIABLE column  \* what one field of one page yielded

Null == 0

ASSUME RowAssumption ==
  /\ IsFiniteSet(Nodes) /\ Nodes = 1..Cardinality(Nodes)
  /\ Root \in Nodes
  /\ \A n \in Nodes \ {Root} : Parent[n] \in Nodes /\ Parent[n] < n
  /\ Rows \subseteq Seq(Nodes)
  /\ MaxSteps \in Nat

ancestors[n \in Nodes] == IF n = Root THEN {} ELSE {Parent[n]} \cup ancestors[Parent[n]]

Descendants(n) == {m \in Nodes : n \in ancestors[m]}
Subtree(n) == {n} \cup Descendants(n)
Siblings(n) == {m \in Nodes \ {n, Root} : n # Root /\ Parent[m] = Parent[n]}

(* Where a step leads from a node. "function" stands for a call such as    *)
(* id() in a later step, which the syntax check does not recognise.        *)
Axis(step, n) ==
  CASE step = "self"               -> {n}
    [] step = "child"              -> {m \in Nodes \ {Root} : Parent[m] = n}
    [] step = "descendant"         -> Descendants(n)
    [] step = "descendant-or-self" -> Subtree(n)
    [] step = "parent"             -> IF n = Root THEN {} ELSE {Parent[n]}
    [] step = "ancestor"           -> ancestors[n]
    [] step = "following-sibling"  -> {m \in Siblings(n) : m > n}
    [] step = "absolute"           -> {Root}
    [] step = "function"           -> Nodes

Steps == {"self", "child", "descendant", "descendant-or-self", "parent", "ancestor",
          "following-sibling", "absolute", "function"}
SafeSteps == {"self", "child", "descendant", "descendant-or-self"}

(* What the first k steps of a selector lead to, for every k.              *)
Reached(selector, n) ==
  LET after[k \in 0..Len(selector)] ==
        IF k = 0 THEN {n} ELSE UNION {Axis(selector[k], m) : m \in after[k - 1]}
  IN after

Matches(selector, n) == Reached(selector, n)[Len(selector)]

RowSafe(selector) ==
  /\ selector[1] \in SafeSteps
  /\ \A i \in DOMAIN selector : selector[i] \in SafeSteps \cup {"function"}

Least(S) == CHOOSE n \in S : \A m \in S : n <= m

FirstMatchPerRow(selector, rows) ==
  [i \in DOMAIN rows |-> LET found == Matches(selector, rows[i])
                         IN IF found = {} THEN Null ELSE Least(found)]

(* One value per row: the first match that lies in the row.                *)
OnePerRow(selector, rows) ==
  [i \in DOMAIN rows |-> LET inside == Matches(selector, rows[i]) \cap Subtree(rows[i])
                         IN IF inside = {} THEN Null ELSE Least(inside)]

Escaped(selector, rows) == \E i \in DOMAIN rows : ~(Matches(selector, rows[i]) \subseteq Subtree(rows[i]))

(* A step of the pipeline drops a value and says why ("complains"), or     *)
(* without a word; or it only remarks on one that a later step drops; or   *)
(* the steps leave "" of it (a regex with an empty group, replace, strip   *)
(* of given characters), which is a value, and no null, to all that follows. *)
Fates == {"keeps", "empties", "complains", "drops", "remarks, then drops"}

Processed(raw, fate) ==
  [i \in DOMAIN raw |-> IF fate[i] \in {"keeps", "empties"} THEN raw[i] ELSE Null]
Emptied(raw, fate) == {i \in DOMAIN raw : raw[i] # Null /\ fate[i] = "empties"}
Complained(raw, fate) == \E i \in DOMAIN raw : raw[i] # Null /\ fate[i] = "complains"

HasContent(node) == node \notin Bare \cup {Null}

SilentNulls(raw, values) ==
  LET had == {i \in DOMAIN raw : HasContent(raw[i])}
  IN Len(raw) >= 2 /\ had # {} /\ \A i \in had : values[i] = Null

SelectorPaths == UNION {[1..k -> Steps] : k \in 1..MaxSteps}

RowInit == column = [rows |-> <<>>, raw |-> <<>>, values |-> <<>>, blank |-> {}, warned |-> FALSE, selector |-> <<>>]

(* extract_fields, one column of a recipe its validator let through; a     *)
(* selector that raises on some row yields an empty column and a warning.  *)
Extract ==
  /\ column.selector = <<>>
  /\ \E selector \in SelectorPaths, rows \in Rows, raises \in BOOLEAN :
     \E fate \in [DOMAIN rows -> Fates] :
       LET raw == IF raises THEN <<>> ELSE OnePerRow(selector, rows)
           values == Processed(raw, fate)
       IN /\ RowSafe(selector)
          /\ column' = [rows |-> rows, selector |-> selector, raw |-> raw, values |-> values,
               blank |-> Emptied(raw, fate),
               warned |-> \/ raises \/ Escaped(selector, rows)
                          \/ Complained(raw, fate) \/ SilentNulls(raw, values)]

RowSpec == RowInit /\ [][Extract]_column

-----------------------------------------------------------------------------
(* A column has one entry for each row, from that row and no other, or is  *)
(* empty with a warning; when the text of several rows is all gone there   *)
(* is a warning too, unless some of it was emptied rather than dropped;    *)
(* and what a selector without a call finds is never discarded as lying    *)
(* outside the row.                                                        *)
RowsAligned ==
  /\ \/ column.values = <<>> /\ (column.rows # <<>> => column.warned)
     \/ /\ Len(column.values) = Len(column.rows)
        /\ \A i \in DOMAIN column.rows : column.values[i] \in {Null} \cup Subtree(column.rows[i])
  /\ (/\ Len(column.raw) > 1
      /\ \E i \in DOMAIN column.raw : HasContent(column.raw[i])
      /\ \A i \in DOMAIN column.values : HasContent(column.values[i]) => i \in column.blank)
       => column.warned \/ \E i \in column.blank : HasContent(column.raw[i])
  /\ (column.selector # <<>> /\ \A i \in DOMAIN column.selector : column.selector[i] # "function")
       => ~Escaped(column.selector, column.rows)
=============================================================================
