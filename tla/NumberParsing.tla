---------------------------- MODULE NumberParsing ----------------------------
(* How the numbers of a page are read back: _parse_price_detail and        *)
(* _parse_int of src/extract/extractor.py. A text is a sequence of digits  *)
(* ("d") and separators; which digits they are does not matter, only how   *)
(* many belong to the number and how many stand behind its point.          *)
EXTENDS Naturals, Sequences, FiniteSets

CONSTANTS MaxDigits  \* digits before the point

VARIABLE text  \* a number as a page prints it, with what it meant

ASSUME NumberAssumption == MaxDigits \in Nat

Groupings == {"none", "dot", "comma", "space"}

(* A page's rendering: groups of three, none or one of three separators,   *)
(* and behind them the decimals with their point, or without it.           *)
Width(n, group) == IF group = "none" THEN n ELSE n + (n - 1) \div 3

Decimals(k, point) == [i \in 1..(IF k = 0 THEN 0 ELSE k + 1) |-> IF i = 1 THEN point ELSE "d"]

Rendered(n, group, tail) ==
  LET w == Width(n, group)
  IN [i \in 1..(w + Len(tail)) |->
       IF i > w THEN tail[i - w] ELSE IF group # "none" /\ (w - i) % 4 = 3 THEN group ELSE "d"]

PlacesOf(t, symbol) == {i \in DOMAIN t : t[i] = symbol}
LastOf(t, symbol) == IF PlacesOf(t, symbol) = {} THEN 0
                     ELSE CHOOSE i \in PlacesOf(t, symbol) : \A j \in PlacesOf(t, symbol) : j <= i
Digits(t) == Cardinality(PlacesOf(t, "d"))

(* How much stands behind a position; grouping spaces go first.            *)
Behind(t, i) == Cardinality({j \in DOMAIN t : j > i /\ t[j] # "space"})

PointOfLastSeparator(t) ==
  LET dot == LastOf(t, "dot")  comma == LastOf(t, "comma")
  IN IF dot > comma THEN dot ELSE comma

(* With both separators the last one is the point; a single one is, if    *)
(* one or two digits follow it.                                            *)
PointOf(t) ==
  LET dot == LastOf(t, "dot")  comma == LastOf(t, "comma")
      last == IF dot > comma THEN dot ELSE comma
  IN IF dot > 0 /\ comma > 0 THEN last
     ELSE IF last > 0 /\ Cardinality(PlacesOf(t, t[last])) = 1 /\ Behind(t, last) \in {1, 2} THEN last ELSE 0

Price(t) ==
  LET point == PointOf(t)
  IN [digits |-> Digits(t), decimals |-> IF point = 0 THEN 0 ELSE Behind(t, point)]

(* _INT_RE: groups of three behind one and the same separator, not         *)
(* followed by another digit or by that separator and a digit; or else the *)
(* first run of digits.                                                    *)
LeadingDigits(t) == Cardinality({i \in DOMAIN t : \A j \in 1..i : t[j] = "d"})

IsGrouped(t, m) ==
  LET at == LeadingDigits(t) + 1 + 4 * m
      sep == t[LeadingDigits(t) + 1]
  IN /\ LeadingDigits(t) <= 3 /\ at - 1 <= Len(t)
     /\ \A g \in 0..(m - 1) : /\ t[LeadingDigits(t) + 1 + 4 * g] = sep
                              /\ \A d \in 1..3 : t[LeadingDigits(t) + 1 + 4 * g + d] = "d"
     /\ at <= Len(t) => t[at] # "d" /\ ~(t[at] = sep /\ at < Len(t) /\ t[at + 1] = "d")

IntDigits(t) ==
  LET groups == {m \in 1..Len(t) : LeadingDigits(t) < Len(t) /\ IsGrouped(t, m)}
  IN IF groups = {} THEN LeadingDigits(t) ELSE LeadingDigits(t) + 3 * (CHOOSE m \in groups : \A k \in groups : k <= m)

(* Four figures and no separator between any two of them, in a currency    *)
(* known to write cents: the price is left as it is, with a warning.       *)
Ungrouped(t) == Digits(t) >= 4 /\ \A i \in DOMAIN t : t[i] = "d"

NumInit == text = [printed |-> <<>>, whole |-> 0, decimals |-> 0, lost |-> FALSE, warned |-> FALSE, cents |-> FALSE]

(* A page may lose the point, of cents set in superscript.                 *)
Shows ==
  /\ text.whole = 0
  /\ \E n \in 1..MaxDigits, k \in 0..2, group \in Groupings, point \in {"dot", "comma"}, lost, cents \in BOOLEAN :
       /\ group # point
       /\ lost => k = 2
       /\ LET printed == Rendered(n, group, IF lost THEN <<"d", "d">> ELSE Decimals(k, point))
          IN text' = [printed |-> printed, whole |-> n, decimals |-> k, lost |-> lost,
                      warned |-> cents /\ Ungrouped(printed), cents |-> cents]

NumSpec == NumInit /\ [][Shows]_text

-----------------------------------------------------------------------------
(* Whatever convention a page follows, no price is off by a factor of ten  *)
(* and no integer swallows its decimals or loses a group; and a price of   *)
(* four figures whose point the page lost has a warning, when nothing      *)
(* groups it either.                                                       *)
NumbersReadBack ==
  text.whole > 0 =>
    /\ ~text.lost =>
         /\ Price(text.printed) = [digits |-> text.whole + text.decimals, decimals |-> text.decimals]
         /\ IntDigits(text.printed) = text.whole
    /\ (text.lost /\ text.cents /\ text.whole \in {2, 3}) => text.warned
=============================================================================
