------------------------------ MODULE ListProofs ------------------------------
(* Theorems about the components that pick and arrange lists, for every     *)
(* value of their constants: the results of /search, the numbers a page     *)
(* prints, and the map of a site.                                           *)
EXTENDS SearchResults, NumberParsing, SiteMap, FiniteSetTheorems, FunctionTheorems,
        SequenceTheorems, TLAPS

(***** Arrangement *****)

(* What it takes of R to order S.                                          *)
Orders(R, S) ==
  /\ \A i, j \in S : <<i, j>> \in R \/ <<j, i>> \in R
  /\ \A i, j \in S : <<i, j>> \in R /\ <<j, i>> \in R => i = j
  /\ \A i, j, k \in S : <<i, j>> \in R /\ <<j, k>> \in R => <<i, k>> \in R

(* Counting brings every member of a finite set to one place, in order.    *)
LEMMA InOrderIs ==
  ASSUME NEW S, IsFiniteSet(S), NEW R, Orders(R, S), NEW f, f = InOrder(S, R)
  PROVE  /\ f \in [1..Cardinality(S) -> S] /\ Cardinality(S) \in Nat
         /\ \A i \in S : \E k \in 1..Cardinality(S) : f[k] = i
         /\ \A k, l \in 1..Cardinality(S) : f[k] = f[l] => k = l
         /\ \A k, l \in 1..Cardinality(S) : k <= l => <<f[k], f[l]>> \in R
<1> DEFINE n == Cardinality(S)
           Below(i) == {j \in S : <<j, i>> \in R}
           rank == [i \in S |-> Cardinality(Below(i))]
<1>1. n \in Nat
  BY FS_CardinalityType
<1>2. \A i \in S : Below(i) \in SUBSET S /\ IsFiniteSet(Below(i)) /\ Cardinality(Below(i)) \in Nat
  BY FS_Subset, FS_CardinalityType
<1>3. ASSUME NEW i \in S PROVE rank[i] \in 1..n
  <2>1. Cardinality(Below(i)) <= n
    BY <1>2, FS_Subset
  <2>2. i \in Below(i)
    BY DEF Orders
  <2>3. Below(i) # {}
    BY <2>2
  <2>4. Cardinality(Below(i)) # 0
    <3> HIDE DEF Below
    <3> QED BY <1>2, <2>3, FS_EmptySet
  <2>5. rank[i] = Cardinality(Below(i))
    OBVIOUS
  <2> HIDE DEF Below, rank
  <2> QED BY <1>1, <1>2, <2>1, <2>4, <2>5
<1>4. ASSUME NEW i \in S, NEW j \in S, <<i, j>> \in R
      PROVE  rank[i] <= rank[j] /\ (rank[i] = rank[j] => i = j)
  <2>1. Below(i) \in SUBSET Below(j)
    BY <1>4 DEF Orders
  <2>2. j \in Below(j) /\ (j \in Below(i) => i = j)
    BY <1>4 DEF Orders
  <2>3. IsFiniteSet(Below(j))
    BY <1>2
  <2>4. rank[i] = Cardinality(Below(i)) /\ rank[j] = Cardinality(Below(j))
    OBVIOUS
  <2> HIDE DEF Below, rank
  <2>5. Cardinality(Below(i)) <= Cardinality(Below(j)) /\ (Cardinality(Below(j)) = Cardinality(Below(i)) => Below(j) = Below(i))
    BY <2>1, <2>3, FS_Subset
  <2> QED BY <2>2, <2>4, <2>5
<1>5. ASSUME NEW i \in S, NEW j \in S, rank[i] = rank[j] PROVE i = j
  <2>1. <<i, j>> \in R \/ <<j, i>> \in R
    BY DEF Orders
  <2> HIDE DEF rank
  <2> QED BY <1>4, <1>5, <2>1
<1>6. \A k \in 1..n : \E i \in S : rank[i] = k
  <2>1. rank \in Injection(S, 1..n)
    <3>1. rank \in [S -> 1..n]
      <4>1. rank = [i \in S |-> rank[i]]
        OBVIOUS
      <4> HIDE DEF rank
      <4> QED BY <1>3, <4>1
    <3>2. \A i, j \in S : rank[i] = rank[j] => i = j
      BY <1>5
    <3> HIDE DEF rank
    <3> QED BY <3>1, <3>2 DEF Injection, IsInjective
  <2>2. IsFiniteSet(1..n) /\ Cardinality(1..n) = n
    <3>1. 1 \in Int /\ n \in Int
      BY <1>1
    <3>2. IsFiniteSet(1..n) /\ Cardinality(1..n) = IF 1 > n THEN 0 ELSE n - 1 + 1
      BY <3>1, FS_Interval
    <3> QED BY <1>1, <3>2
  <2>3. rank \in Surjection(S, 1..n)
    <3> HIDE DEF rank
    <3> QED BY <2>1, <2>2, FS_Injection
  <2> HIDE DEF rank
  <2> QED BY <2>3 DEF Surjection
<1>7. ASSUME NEW k \in 1..n PROVE f[k] \in S /\ rank[f[k]] = k
  <2>1. f[k] = CHOOSE i \in S : Cardinality(Below(i)) = k
    BY DEF InOrder
  <2>2. \E i \in S : Cardinality(Below(i)) = k
    BY <1>6
  <2>3. f[k] \in S /\ Cardinality(Below(f[k])) = k
    BY <2>1, <2>2
  <2> QED BY <2>3
<1>8. f \in [1..n -> S]
  <2> DEFINE At(k) == CHOOSE i \in S : Cardinality({j \in S : <<j, i>> \in R}) = k
  <2>1. f = [k \in 1..n |-> At(k)]
    BY DEF InOrder
  <2> HIDE DEF At
  <2>2. f = [k \in 1..n |-> f[k]]
    BY <2>1
  <2> QED BY <1>7, <2>2
<1> HIDE DEF rank
<1>9. ASSUME NEW i \in S PROVE \E k \in 1..n : f[k] = i
  <2>1. rank[i] \in 1..n
    BY <1>3
  <2>2. f[rank[i]] = i
    BY <1>5, <1>7, <2>1
  <2> QED BY <2>1, <2>2
<1>10. ASSUME NEW k \in 1..n, NEW l \in 1..n, k <= l PROVE <<f[k], f[l]>> \in R
  <2>1. f[k] \in S /\ f[l] \in S /\ rank[f[k]] = k /\ rank[f[l]] = l
    BY <1>7
  <2>2. CASE <<f[l], f[k]>> \in R
    <3>1. l <= k
      BY <1>4, <2>1, <2>2
    <3>2. l = k
      BY <1>10, <3>1
    <3> QED BY <2>2, <3>2
  <2> QED BY <2>1, <2>2 DEF Orders
<1> QED BY <1>1, <1>7, <1>8, <1>9, <1>10

LEMMA AscendingIs ==
  ASSUME NEW S \in SUBSET Nat, IsFiniteSet(S), NEW f, f = Ascending(S)
  PROVE  /\ f \in [1..Cardinality(S) -> S] /\ Cardinality(S) \in Nat
         /\ \A i \in S : \E k \in 1..Cardinality(S) : f[k] = i
         /\ \A k, l \in 1..Cardinality(S) : f[k] = f[l] => k = l
<1> DEFINE R == {ij \in S \X S : ij[1] <= ij[2]}
<1>2. Orders(R, S)
  <2>1. \A i, j \in S : <<i, j>> \in R <=> i <= j
    OBVIOUS
  <2>2. \A i \in S : i \in Nat
    OBVIOUS
  <2> HIDE DEF R
  <2> QED BY <2>1, <2>2 DEF Orders
<1>3. f = InOrder(S, R)
  BY DEF Ascending
<1> HIDE DEF R
<1> QED BY <1>2, <1>3, InOrderIs

(* What a comprehension keeps, of what it takes from, each place once.      *)
Places(f, picked, list, S) ==
  /\ f \in [DOMAIN picked -> S]
  /\ \A k \in DOMAIN picked : picked[k] = list[f[k]]
  /\ \A k, l \in DOMAIN picked : f[k] = f[l] => k = l

LEMMA PickedKeeps ==
  ASSUME NEW T, NEW list \in Seq(T), NEW S \in SUBSET (DOMAIN list), NEW picked, picked = Picked(list, S)
  PROVE  /\ picked \in Seq(T)
         /\ \A i \in S : \E k \in DOMAIN picked : picked[k] = list[i]
         /\ \E f : Places(f, picked, list, S)
<1>1. PICK n \in Nat : DOMAIN list = 1..n
  OBVIOUS
<1>2. S \in SUBSET Nat /\ IsFiniteSet(S)
  <2>1. IsFiniteSet(1..n)
    BY FS_Interval
  <2> QED BY <1>1, <2>1, FS_Subset
<1>3. PICK f : f = Ascending(S)
  OBVIOUS
<1>4. /\ f \in [1..Cardinality(S) -> S] /\ Cardinality(S) \in Nat
      /\ \A i \in S : \E k \in 1..Cardinality(S) : f[k] = i
      /\ \A k, l \in 1..Cardinality(S) : f[k] = f[l] => k = l
  BY <1>2, <1>3, AscendingIs
<1>5. picked = [k \in 1..Cardinality(S) |-> list[f[k]]]
  BY <1>3, <1>4 DEF Picked
<1>6. PICK m \in Nat : m = Cardinality(S)
  BY <1>4
<1>7. /\ f \in [1..m -> S] /\ picked = [k \in 1..m |-> list[f[k]]]
      /\ \A i \in S : \E k \in 1..m : f[k] = i
      /\ \A k, l \in 1..m : f[k] = f[l] => k = l
  BY <1>4, <1>5, <1>6
<1>8. DOMAIN picked = 1..m /\ \A k \in 1..m : picked[k] = list[f[k]]
  BY <1>7
<1>9. picked \in Seq(T)
  <2>1. \A k \in 1..m : list[f[k]] \in T
    BY <1>7
  <2> QED BY <1>7, <2>1
<1>10. Places(f, picked, list, S)
  BY <1>7, <1>8 DEF Places
<1>11. ASSUME NEW i \in S PROVE \E k \in DOMAIN picked : picked[k] = list[i]
  <2>1. PICK k \in 1..m : f[k] = i
    BY <1>7
  <2> QED BY <1>8, <2>1
<1> QED
  BY <1>9, <1>10, <1>11

(***** SearchResults *****)

Serps == [rows : [1..Length -> ResultRows] \cup {<<>>}, aligned : BOOLEAN]

SearchShape ==
  /\ search = [at |-> search.at, serp |-> search.serp, results |-> search.results,
               status |-> search.status, incomplete |-> search.incomplete]
  /\ search.serp \in Serps \cup {Nowhere}
  /\ search.incomplete \in BOOLEAN

(* A result is of a row of its own, and leads where that row's link does.  *)
OfRows(serp, found) ==
  /\ \A k \in DOMAIN found : found[k].of \in Fresh(serp) /\ found[k].url = Url(serp, found[k].of)
  /\ \A k, l \in DOMAIN found : found[k].of = found[l].of => k = l
  /\ \A k \in DOMAIN found : found[k] = [of |-> found[k].of, url |-> found[k].url, page |-> found[k].page]

(* Slots stand at the places of the results, and hold their attached.         *)
Slotted ==
  /\ search.at \in {"called", "submit"} => slot = <<>>
  /\ slot # <<>> => DOMAIN slot = DOMAIN search.results
  /\ \A k \in DOMAIN slot : slot[k] \in {NoPage, search.results[k].url, Link("unreadable", NoPage)}

Attached ==
  /\ \A k \in DOMAIN search.results : search.results[k].page \in {NoPage, search.results[k].url}
  /\ search.at = "answered" /\ slot # <<>> /\ search.incomplete = FALSE =>
       \A k \in DOMAIN search.results : search.results[k].page # NoPage

SearchInv == SearchShape /\ OfRows(search.serp, search.results) /\ Slotted /\ Attached

(* The places of rows that are kept, each of them once.                    *)
LEMMA ResultsAreOfRows ==
  ASSUME NEW serp \in Serps
  PROVE  /\ OfRows(serp, Results(serp))
         /\ \A k \in DOMAIN Results(serp) : Results(serp)[k].page = NoPage
<1>1. PICK N \in Nat : DOMAIN serp.rows = 1..N
  <2>1. serp.rows \in [1..Length -> ResultRows] \/ serp.rows = <<>>
    BY DEF Serps
  <2>2. CASE serp.rows = <<>>
    <3>1. DOMAIN serp.rows = 1..0
      BY <2>2
    <3> QED BY <3>1
  <2>3. CASE serp.rows \in [1..Length -> ResultRows]
    BY <2>3, SearchAssumption
  <2> QED BY <2>1, <2>2, <2>3
<1>2. Fresh(serp) \in SUBSET Nat /\ IsFiniteSet(Fresh(serp))
  <2>1. Fresh(serp) \in SUBSET (1..N)
    BY <1>1 DEF Fresh, Kept
  <2>2. IsFiniteSet(1..N)
    BY FS_Interval
  <2> QED BY <2>1, <2>2, FS_Subset
<1>3. PICK f : f = Ascending(Fresh(serp))
  OBVIOUS
<1>4. PICK m \in Nat : m = Cardinality(Fresh(serp))
  BY <1>2, FS_CardinalityType
<1>5. f \in [1..m -> Fresh(serp)] /\ \A k, l \in 1..m : f[k] = f[l] => k = l
  BY <1>2, <1>3, <1>4, AscendingIs
<1>6. Len(f) = m
  BY <1>5
<1>7. PICK n \in Nat : n <= m /\ AtMost(f, Limit) = [k \in 1..n |-> f[k]]
  BY <1>6, SearchAssumption DEF AtMost
<1>8. Results(serp) = [k \in 1..n |-> [of |-> f[k], url |-> Url(serp, f[k]), page |-> NoPage]]
  BY <1>3, <1>7 DEF Results
<1>9. \A k \in 1..n : k \in 1..m
  BY <1>7
<1> QED
  BY <1>5, <1>8, <1>9 DEF OfRows

LEMMA SearchInit == QInit => SearchInv
<1> SUFFICES ASSUME QInit PROVE SearchInv
  OBVIOUS
<1>1. /\ search.at = "called" /\ search.serp = Nowhere /\ search.results = <<>> /\ slot = <<>>
      /\ search.incomplete = FALSE
  BY DEF QInit
<1>2. DOMAIN search.results = {} /\ DOMAIN slot = {}
  BY <1>1
<1>3. SearchShape
  BY <1>1 DEF QInit, SearchShape
<1> QED
  BY <1>1, <1>2, <1>3 DEF SearchInv, OfRows, Slotted, Attached

LEMMA SearchStep == SearchInv /\ [QNext]_qvars => SearchInv'
<1> SUFFICES ASSUME SearchInv, [QNext]_qvars PROVE SearchInv'
  OBVIOUS
<1>0. SearchShape /\ OfRows(search.serp, search.results) /\ Slotted /\ Attached
  BY DEF SearchInv
<1>1. CASE Fails
  <2>1. PICK status : search' = [search EXCEPT !.at = "answered", !.status = status]
    <3> DEFINE Codes == {400, 503} \cup (IF search.at = "called" THEN {500} ELSE {404, 410, 422})
    <3>1. \E status \in Codes : search' = [search EXCEPT !.at = "answered", !.status = status]
      BY <1>1 DEF Fails
    <3> HIDE DEF Codes
    <3> QED BY <3>1
  <2>2. search.at \in {"called", "submit"} /\ slot' = slot
    BY <1>1 DEF Fails
  <2>3. /\ search'.at = "answered" /\ search'.serp = search.serp /\ search'.results = search.results
        /\ search'.incomplete = search.incomplete
        /\ SearchShape'
    BY <1>0, <2>1 DEF SearchShape
  <2>4. slot = <<>> /\ slot' = <<>>
    BY <1>0, <2>2 DEF Slotted
  <2>5. OfRows(search.serp, search.results)'
    BY <1>0, <2>3
  <2>6. Slotted' /\ Attached'
    BY <1>0, <2>3, <2>4 DEF Slotted, Attached
  <2> QED BY <2>3, <2>5, <2>6 DEF SearchInv
<1>2. CASE Serp
  <2>1. PICK rows \in [1..Length -> ResultRows] \cup {<<>>}, aligned \in BOOLEAN, scrape \in BOOLEAN :
          LET serp == [rows |-> rows, aligned |-> aligned]
              results == Results(serp)
              more == scrape /\ results # <<>>
          IN search' = [search EXCEPT !.serp = serp, !.results = results,
                          !.at = IF more THEN "submit" ELSE "answered", !.status = IF more THEN 0 ELSE 200]
    BY <1>2 DEF Serp
  <2>2. PICK serp \in Serps : serp = [rows |-> rows, aligned |-> aligned]
    BY DEF Serps
  <2>3. PICK found : found = Results(serp)
    OBVIOUS
  <2>4. PICK at \in {"submit", "answered"}, status \in {0, 200} :
          search' = [search EXCEPT !.serp = serp, !.results = found, !.at = at, !.status = status]
    BY <2>1, <2>2, <2>3
  <2>5. slot = <<>> /\ slot' = <<>>
    BY <1>0, <1>2 DEF Serp, Slotted
  <2>6. /\ search'.at = at /\ search'.serp = serp /\ search'.results = found
        /\ SearchShape'
    BY <1>0, <2>4 DEF SearchShape
  <2>7. OfRows(serp, found) /\ \A k \in DOMAIN found : found[k].page = NoPage
    BY <2>3, ResultsAreOfRows
  <2>8. OfRows(search.serp, search.results)'
    BY <2>6, <2>7
  <2>9. Slotted' /\ Attached'
    BY <2>5, <2>6, <2>7 DEF Slotted, Attached
  <2> QED BY <2>6, <2>8, <2>9 DEF SearchInv
<1>3. CASE Submit
  <2>1. search.at = "submit" /\ search' = [search EXCEPT !.at = "waiting"]
        /\ slot' = [k \in DOMAIN search.results |-> NoPage]
    BY <1>3 DEF Submit
  <2>2. /\ search'.at = "waiting" /\ search'.serp = search.serp /\ search'.results = search.results
        /\ SearchShape'
    BY <1>0, <2>1 DEF SearchShape
  <2>3. OfRows(search.serp, search.results)'
    BY <1>0, <2>2
  <2>4. Slotted' /\ Attached'
    BY <1>0, <2>1, <2>2 DEF Slotted, Attached
  <2> QED BY <2>2, <2>3, <2>4 DEF SearchInv
<1>4. CASE PageEnds
  <2>1. PICK k \in DOMAIN slot :
          \E page \in {search.results[k].url, Link("unreadable", NoPage)} : slot' = [slot EXCEPT ![k] = page]
    BY <1>4 DEF PageEnds
  <2>1a. PICK page \in {search.results[k].url, Link("unreadable", NoPage)} : slot' = [slot EXCEPT ![k] = page]
    BY <2>1
  <2>2. search' = search
    BY <1>4 DEF PageEnds
  <2>3. slot # <<>> /\ search.at \notin {"called", "submit"}
    BY <1>0, <2>1 DEF Slotted
  <2>4. DOMAIN slot' = DOMAIN slot /\ \A j \in DOMAIN slot : slot'[j] = IF j = k THEN page ELSE slot[j]
    BY <2>1a
  <2>5. Slotted'
    BY <1>0, <2>2, <2>3, <2>4, <2>1a DEF Slotted
  <2>6. SearchShape' /\ OfRows(search.serp, search.results)' /\ Attached'
    BY <1>0, <2>2, <2>3 DEF SearchShape, Attached
  <2> QED BY <2>5, <2>6 DEF SearchInv
<1>5. CASE Attach
  <2>1. PICK snapshot \in {DOMAIN slot, {}} :
          LET attached == [k \in DOMAIN search.results |->
                          IF k \in snapshot /\ Decodes(k) THEN slot[k] ELSE NoPage]
          IN search' = [search EXCEPT !.at = "answered", !.status = 200,
               !.results = [k \in DOMAIN @ |-> [@[k] EXCEPT !.page = attached[k]]],
               !.incomplete = \E k \in DOMAIN attached : attached[k] = NoPage]
    BY <1>5 DEF Attach
  <2>2. PICK attached : attached = [k \in DOMAIN search.results |->
                                IF k \in snapshot /\ Decodes(k) THEN slot[k] ELSE NoPage]
    OBVIOUS
  <2>3. PICK found : found = [k \in DOMAIN search.results |-> [search.results[k] EXCEPT !.page = attached[k]]]
    OBVIOUS
  <2>4. PICK short \in BOOLEAN : short = (\E k \in DOMAIN attached : attached[k] = NoPage)
    OBVIOUS
  <2>5. search' = [search EXCEPT !.at = "answered", !.status = 200, !.results = found, !.incomplete = short]
    BY <2>1, <2>2, <2>3, <2>4
  <2>6. /\ search'.at = "answered" /\ search'.serp = search.serp /\ search'.results = found
        /\ search'.incomplete = short
        /\ SearchShape'
    BY <1>0, <2>5 DEF SearchShape
  <2>7. slot' = slot /\ search.at = "waiting"
    BY <1>5 DEF Attach
  <2>8. \A k \in DOMAIN search.results :
          search.results[k] = [of |-> search.results[k].of, url |-> search.results[k].url,
                               page |-> search.results[k].page]
    BY <1>0 DEF OfRows
  <2>9. DOMAIN found = DOMAIN search.results
        /\ \A k \in DOMAIN found : /\ found[k].of = search.results[k].of /\ found[k].url = search.results[k].url
                                   /\ found[k].page = attached[k]
                                   /\ found[k] = [of |-> found[k].of, url |-> found[k].url, page |-> found[k].page]
    <3>1. DOMAIN found = DOMAIN search.results
      BY <2>3
    <3>2. ASSUME NEW k \in DOMAIN search.results
          PROVE  found[k] = [of |-> search.results[k].of, url |-> search.results[k].url, page |-> attached[k]]
      <4>1. PICK r, o, u, v : /\ r = search.results[k] /\ r = [of |-> o, url |-> u, page |-> v]
                              /\ o = r.of /\ u = r.url
        BY <2>8
      <4>2. found[k] = [r EXCEPT !.page = attached[k]]
        BY <2>3, <4>1
      <4> QED BY <4>1, <4>2
    <3>3. ASSUME NEW k \in DOMAIN search.results
          PROVE  /\ found[k].of = search.results[k].of /\ found[k].url = search.results[k].url
                 /\ found[k].page = attached[k]
                 /\ found[k] = [of |-> found[k].of, url |-> found[k].url, page |-> found[k].page]
      <4>1. PICK o, u, v : o = search.results[k].of /\ u = search.results[k].url /\ v = attached[k]
        OBVIOUS
      <4>2. found[k] = [of |-> o, url |-> u, page |-> v]
        BY <3>2, <4>1
      <4> QED BY <4>1, <4>2
    <3> QED BY <3>1, <3>3
  <2>10. \A k \in DOMAIN found : attached[k] \in {NoPage, found[k].url}
    <3> TAKE k \in DOMAIN found
    <3>1. CASE k \in snapshot /\ Decodes(k)
      <4>1. k \in DOMAIN slot /\ slot[k] # NoPage /\ slot[k].form # "unreadable"
        BY <2>1, <3>1 DEF Decodes
      <4>2. slot[k] \in {NoPage, search.results[k].url, Link("unreadable", NoPage)}
        BY <1>0, <4>1 DEF Slotted
      <4>3. slot[k] = search.results[k].url
        BY <4>1, <4>2 DEF Link
      <4> QED BY <2>2, <2>9, <3>1, <4>3
    <3>2. CASE ~(k \in snapshot /\ Decodes(k))
      BY <2>2, <2>9, <3>2
    <3> QED BY <3>1, <3>2
  <2>11. OfRows(search.serp, search.results)'
    <3>1. OfRows(search.serp, found)
      BY <1>0, <2>9 DEF OfRows
    <3> QED BY <2>6, <3>1
  <2>12. Slotted'
    <3>1. DOMAIN slot = DOMAIN search.results \/ slot = <<>>
      BY <1>0 DEF Slotted
    <3>2. \A k \in DOMAIN slot : slot[k] \in {NoPage, found[k].url, Link("unreadable", NoPage)}
      <4> TAKE k \in DOMAIN slot
      <4>1. DOMAIN slot = DOMAIN search.results
        BY <3>1
      <4>2. slot[k] \in {NoPage, search.results[k].url, Link("unreadable", NoPage)}
        BY <1>0 DEF Slotted
      <4> QED BY <2>9, <4>1, <4>2
    <3>3. DOMAIN found = DOMAIN search.results
      BY <2>9
    <3> HIDE DEF Link
    <3> QED BY <2>6, <2>7, <3>1, <3>2, <3>3 DEF Slotted
  <2>13. Attached'
    <3>1. short = FALSE => \A k \in DOMAIN found : attached[k] # NoPage
      BY <2>2, <2>4, <2>9
    <3>2. \A k \in DOMAIN found : found[k].page \in {NoPage, found[k].url}
      BY <2>9, <2>10
    <3>3. short = FALSE => \A k \in DOMAIN found : found[k].page # NoPage
      BY <2>9, <3>1
    <3> QED BY <2>6, <3>2, <3>3 DEF Attached
  <2> QED BY <2>6, <2>11, <2>12, <2>13 DEF SearchInv
<1>6. CASE UNCHANGED qvars
  <2>1. search' = search /\ slot' = slot
    BY <1>6 DEF qvars
  <2> QED BY <1>0, <2>1 DEF SearchInv, SearchShape, Slotted, Attached
<1> QED BY <1>1, <1>2, <1>3, <1>4, <1>5, <1>6 DEF QNext

LEMMA InvariantIsOwn == SearchInv => OwnResults
<1> SUFFICES ASSUME SearchInv, search.at = "answered" PROVE OwnResults
  BY DEF OwnResults
<1> DEFINE found == search.results
           serp == search.serp
<1>0. SearchShape /\ OfRows(serp, found) /\ Slotted /\ Attached
  BY DEF SearchInv
<1>0a. (serp.rows \in [1..Length -> ResultRows] \/ serp.rows = <<>>) /\ serp.aligned \in BOOLEAN
  <2>1. PICK page \in Serps \cup {Nowhere} : page = serp
    BY <1>0 DEF SearchShape
  <2>2. (page.rows \in [1..Length -> ResultRows] \/ page.rows = <<>>) /\ page.aligned \in BOOLEAN
    <3>1. CASE page \in Serps
      BY <3>1 DEF Serps
    <3>2. CASE page = Nowhere
      BY <3>2 DEF Nowhere
    <3> QED BY <3>1, <3>2
  <2> HIDE DEF serp
  <2> QED BY <2>1, <2>2
<1>1. ASSUME NEW k \in DOMAIN found, NEW l \in DOMAIN found, found[k].url = found[l].url PROVE k = l
  <2> DEFINE i == found[k].of
             j == found[l].of
  <2>1. i \in Fresh(serp) /\ j \in Fresh(serp) /\ Url(serp, i) = Url(serp, j)
    BY <1>0, <1>1 DEF OfRows
  <2>2. i \in Nat /\ j \in Nat
    <3>1. DOMAIN serp.rows \subseteq Nat
      BY <1>0a, SearchAssumption
    <3> QED BY <2>1, <3>1 DEF Fresh, Kept
  <2>3. ~(i < j) /\ ~(j < i)
    BY <2>1 DEF Fresh
  <2>4. i = j
    <3> HIDE DEF i, j
    <3> QED BY <2>2, <2>3
  <2> QED BY <1>0, <1>1, <2>4 DEF OfRows
<1>2. ASSUME serp.aligned = TRUE, NEW k \in DOMAIN found
      PROVE  /\ Usable(serp.rows[found[k].of].link)
             /\ found[k].url.to = serp.rows[found[k].of].link.to
  <2>1. PICK i : i = found[k].of
    OBVIOUS
  <2>2. i \in Fresh(serp) /\ found[k].url = Url(serp, i)
    BY <1>0, <2>1 DEF OfRows
  <2>3. i \in DOMAIN serp.rows /\ Usable(LinkOf(serp, i))
    BY <2>2 DEF Fresh, Kept
  <2>4. LinkOf(serp, i) = serp.rows[i].link
    BY <1>2 DEF LinkOf
  <2>5. found[k].url.to = serp.rows[i].link.to
    BY <2>2, <2>4 DEF Url, Unwrapped, Link
  <2> QED BY <2>1, <2>3, <2>4, <2>5
<1>3. \A k \in DOMAIN found : found[k].page \in {NoPage, found[k].url}
  BY <1>0 DEF Attached
<1>4. (slot # <<>> /\ ~search.incomplete) => \A k \in DOMAIN found : found[k].page # NoPage
  <2>1. PICK l \in BOOLEAN : l = search.incomplete
    BY <1>0 DEF SearchShape
  <2> QED BY <1>0, <2>1 DEF Attached
<1>5. serp.aligned => \A k \in DOMAIN found :
        LET link == serp.rows[found[k].of].link IN Usable(link) /\ found[k].url.to = link.to
  <2>1. PICK l \in BOOLEAN : l = serp.aligned
    BY <1>0a
  <2> QED BY <1>2, <2>1
<1> QED
  BY <1>1, <1>3, <1>4, <1>5 DEF OwnResults

(* A search result is that of its own row, and has its own page, in any    *)
(* order in which the pages of the second job end.                         *)
THEOREM ResultsAreOwn == QSpec => []OwnResults
<1> QED
  BY SearchInit, SearchStep, InvariantIsOwn, PTL DEF QSpec

(***** NumberParsing *****)

(* A printed number: lead figures, q groups of three each behind their     *)
(* separator, and k decimals behind the point.                             *)
Separators(lead, q) == {lead + 1 + 4 * m : m \in 0..(q - 1)}

Printed(t, lead, q, group, k, point) ==
  /\ lead \in Nat /\ lead > 0 /\ q \in Nat /\ k \in 0..2
  /\ q > 0 => lead <= 3 /\ group # "none"
  /\ group \in Groupings /\ point \in {"dot", "comma"} /\ group # point
  /\ DOMAIN t = 1..(lead + 4 * q + (IF k = 0 THEN 0 ELSE k + 1))
  /\ \A i \in DOMAIN t : t[i] = IF i \in Separators(lead, q) THEN group
                                ELSE IF i = lead + 4 * q + 1 THEN point ELSE "d"

(* Three figures to a group from the right are lead figures and q groups.  *)
LEMMA RenderedIsPrinted ==
  ASSUME NEW n \in Nat, n > 0, NEW k \in 0..2, NEW group \in Groupings, NEW point \in {"dot", "comma"}, group # point
  PROVE  \E lead, q \in Nat : /\ Printed(Rendered(n, group, Decimals(k, point)), lead, q, group, k, point)
                              /\ n = lead + 3 * q
<1> DEFINE w == Width(n, group)
           t == Rendered(n, group, Decimals(k, point))
           e == IF k = 0 THEN 0 ELSE k + 1
<1>1. Decimals(k, point) = [i \in 1..e |-> IF i = 1 THEN point ELSE "d"]
  BY DEF Decimals
<1>2. e \in Nat /\ Len(Decimals(k, point)) = e
  BY <1>1
<1>3. PICK lead \in Nat, q \in Nat :
        /\ lead > 0 /\ n = lead + 3 * q /\ w = lead + 4 * q
        /\ q > 0 => lead <= 3 /\ group # "none"
        /\ group # "none" => lead <= 3
  <2>1. CASE group = "none"
    BY <2>1 DEF Width
  <2>2. CASE group # "none"
    <3>1. PICK q \in Nat : q = (n - 1) \div 3
      OBVIOUS
    <3>2. (n - 1) - 3 * q \in 0..2
      BY <3>1
    <3>3. PICK lead \in Nat : lead = n - 3 * q
      BY <3>2
    <3>4. w = n + q
      BY <2>2, <3>1 DEF Width
    <3> HIDE DEF w
    <3> QED BY <2>2, <3>2, <3>3, <3>4
  <2> QED BY <2>1, <2>2
<1> HIDE DEF w
<1>4. /\ DOMAIN t = 1..(w + e)
      /\ \A i \in DOMAIN t : t[i] = IF i > w THEN (IF i - w = 1 THEN point ELSE "d")
                                    ELSE IF group # "none" /\ (w - i) % 4 = 3 THEN group ELSE "d"
  <2>1. t = [i \in 1..(w + e) |-> IF i > w THEN Decimals(k, point)[i - w]
                                  ELSE IF group # "none" /\ (w - i) % 4 = 3 THEN group ELSE "d"]
    BY <1>2 DEF Rendered, w
  <2> HIDE DEF t, e
  <2>2. ASSUME NEW i \in 1..(w + e), i > w PROVE Decimals(k, point)[i - w] = IF i - w = 1 THEN point ELSE "d"
    <3>1. i - w \in 1..e
      BY <1>2, <1>3, <2>2
    <3> QED BY <1>1, <3>1
  <2> QED BY <2>1, <2>2
<1>5. ASSUME NEW i \in 1..w, group # "none" PROVE (w - i) % 4 = 3 <=> i \in Separators(lead, q)
  <2>1. CASE (w - i) % 4 = 3
    <3>1. PICK c \in Nat : w - i = 4 * c + 3
      <4>1. w - i \in Nat
        BY <1>3
      <4>2. (w - i) \div 4 \in Nat /\ w - i = (4 * ((w - i) \div 4)) + ((w - i) % 4)
        BY <4>1
      <4> QED BY <2>1, <4>2
    <3>2. q - 1 - c \in 0..(q - 1) /\ i = lead + 1 + 4 * (q - 1 - c)
      BY <1>3, <1>5, <3>1
    <3> QED BY <2>1, <3>2 DEF Separators
  <2>2. CASE i \in Separators(lead, q)
    <3>1. PICK m \in 0..(q - 1) : i = lead + 1 + 4 * m
      BY <2>2 DEF Separators
    <3>2. PICK c \in Nat : c = q - 1 - m
      BY <3>1, <1>3
    <3>3. w - i = 4 * c + 3
      BY <1>3, <3>1, <3>2
    <3>4. (4 * c + 3) % 4 = 3
      OBVIOUS
    <3> QED BY <2>2, <3>3, <3>4
  <2> QED BY <2>1, <2>2
<1>6. ASSUME NEW i \in Separators(lead, q) PROVE i \in 1..w /\ group # "none"
  <2>1. PICK m \in 0..(q - 1) : i = lead + 1 + 4 * m
    BY DEF Separators
  <2> QED BY <1>3, <2>1
<1> HIDE DEF t, e
<1>7. \A i \in DOMAIN t : t[i] = IF i \in Separators(lead, q) THEN group
                                 ELSE IF i = lead + 4 * q + 1 THEN point ELSE "d"
  <2> TAKE i \in DOMAIN t
  <2>1. i \in Nat /\ w \in Nat /\ i > 0
    BY <1>2, <1>3, <1>4
  <2>2. CASE i > w
    <3>1. i \notin Separators(lead, q)
      BY <1>6, <2>1, <2>2
    <3>2. i - w = 1 <=> i = lead + 4 * q + 1
      BY <1>3, <2>1
    <3> QED BY <1>4, <2>2, <3>1, <3>2
  <2>3. CASE ~(i > w)
    <3>1. i \in 1..w /\ i # lead + 4 * q + 1
      BY <1>3, <2>1, <2>3
    <3>2. i \in Separators(lead, q) <=> group # "none" /\ (w - i) % 4 = 3
      BY <1>5, <1>6, <3>1
    <3> QED BY <1>4, <2>3, <3>1, <3>2
  <2> QED BY <2>2, <2>3
<1> QED
  BY <1>2, <1>3, <1>4, <1>7 DEF Printed, t, e

LEMMA Separated ==
  ASSUME NEW lead \in Nat, NEW q \in Nat, NEW S, S = Separators(lead, q)
  PROVE  /\ S \in SUBSET Nat /\ IsFiniteSet(S) /\ Cardinality(S) = q
         /\ \A m \in 0..(q - 1) : lead + 1 + 4 * m \in S
         /\ \A i \in S : \E m \in 0..(q - 1) : i = lead + 1 + 4 * m
<1>1. /\ \A m \in 0..(q - 1) : lead + 1 + 4 * m \in S
      /\ \A i \in S : \E m \in 0..(q - 1) : i = lead + 1 + 4 * m
  BY DEF Separators
<1>2. S \in SUBSET Nat
  BY <1>1
<1> DEFINE f == [c \in 1..q |-> lead + 1 + 4 * (c - 1)]
<1>3. f \in [1..q -> S]
  <2>1. \A c \in 1..q : c - 1 \in 0..(q - 1)
    OBVIOUS
  <2> QED BY <1>1, <2>1
<1>4. \A c, d \in 1..q : f[c] = f[d] => c = d
  OBVIOUS
<1>5. ASSUME NEW i \in S PROVE \E c \in 1..q : f[c] = i
  <2>1. PICK m \in 0..(q - 1) : i = lead + 1 + 4 * m
    BY <1>1
  <2>2. m + 1 \in 1..q /\ f[m + 1] = i
    BY <2>1
  <2> QED BY <2>2
<1> HIDE DEF f
<1>6. f \in Bijection(1..q, S)
  BY <1>3, <1>4, <1>5 DEF Bijection, Injection, Surjection, IsInjective
<1>7. IsFiniteSet(S) /\ Cardinality(S) = q
  <2>1. ExistsBijection(1..q, S)
    BY <1>6 DEF ExistsBijection
  <2>2. IsFiniteSet(1..q)
    BY FS_Interval
  <2> QED BY <2>1, <2>2, FS_Bijection, FS_CountingElements
<1> QED BY <1>1, <1>2, <1>7

(* The last place of a symbol.                                             *)
LEMMA LastOfIs ==
  ASSUME NEW t, NEW symbol
  PROVE  /\ PlacesOf(t, symbol) = {} => LastOf(t, symbol) = 0
         /\ \A i \in PlacesOf(t, symbol) :
              (PlacesOf(t, symbol) \in SUBSET Nat /\ \A j \in PlacesOf(t, symbol) : j <= i) => LastOf(t, symbol) = i
<1> DEFINE P == PlacesOf(t, symbol)
<1>1. P = {} => LastOf(t, symbol) = 0
  BY DEF LastOf
<1>2. ASSUME NEW i \in P, P \in SUBSET Nat, \A j \in P : j <= i PROVE LastOf(t, symbol) = i
  <2>1. LastOf(t, symbol) = CHOOSE c \in P : \A j \in P : j <= c
    BY <1>2 DEF LastOf
  <2> HIDE DEF P
  <2>2. LastOf(t, symbol) \in P /\ \A j \in P : j <= LastOf(t, symbol)
    BY <1>2, <2>1
  <2>3. i <= LastOf(t, symbol) /\ LastOf(t, symbol) <= i /\ i \in Nat /\ LastOf(t, symbol) \in Nat
    BY <1>2, <2>2
  <2> QED BY <2>3
<1> QED BY <1>1, <1>2

(* Which symbol stands where.                                              *)
LEMMA PlacesAre ==
  ASSUME NEW t, NEW lead, NEW q, NEW group, NEW k, NEW point, Printed(t, lead, q, group, k, point),
         NEW w, w = lead + 4 * q, NEW e, e = IF k = 0 THEN 0 ELSE k + 1, NEW S, S = Separators(lead, q)
  PROVE  /\ w \in Nat /\ w > 0 /\ e \in 0..3 /\ DOMAIN t = 1..(w + e) /\ Len(t) = w + e
         /\ \A i \in S : i \in 1..(w - 3) /\ i > lead /\ t[i] = group
         /\ k > 0 => w + 1 \in DOMAIN t /\ t[w + 1] = point /\ w + 1 \notin S
         /\ \A i \in DOMAIN t : i \notin S /\ i # w + 1 => t[i] = "d"
         /\ PlacesOf(t, point) = IF k > 0 THEN {w + 1} ELSE {}
         /\ PlacesOf(t, group) = S
         /\ \A symbol \in {"dot", "comma"} \ {group, point} : PlacesOf(t, symbol) = {}
         /\ PlacesOf(t, "d") = (1..(w + e)) \ (S \cup (IF k > 0 THEN {w + 1} ELSE {}))
<1>1. /\ lead \in Nat /\ lead > 0 /\ q \in Nat /\ k \in 0..2
      /\ group \in Groupings /\ point \in {"dot", "comma"} /\ group # point
      /\ DOMAIN t = 1..(w + e)
      /\ \A i \in DOMAIN t : t[i] = IF i \in S THEN group ELSE IF i = w + 1 THEN point ELSE "d"
  BY DEF Printed
<1>2. w \in Nat /\ w > 0 /\ e \in 0..3
  BY <1>1
<1>3. ASSUME NEW i \in S PROVE i \in 1..(w - 3) /\ i > lead
  <2>1. PICK m \in 0..(q - 1) : i = lead + 1 + 4 * m
    BY <1>1, Separated
  <2> QED BY <1>1, <2>1
<1>4. \A i \in S : i \in DOMAIN t /\ i # w + 1 /\ t[i] = group
  BY <1>1, <1>2, <1>3
<1>5. k > 0 => w + 1 \in DOMAIN t /\ t[w + 1] = point /\ w + 1 \notin S
  BY <1>1, <1>2, <1>4
<1>6. \A i \in DOMAIN t : i \notin S /\ i # w + 1 => t[i] = "d"
  BY <1>1
<1>7. k = 0 => w + 1 \notin DOMAIN t
  BY <1>1, <1>2
<1>8. group # "d" /\ point # "d"
  BY <1>1 DEF Groupings
<1>9. PlacesOf(t, point) = IF k > 0 THEN {w + 1} ELSE {}
  BY <1>1, <1>4, <1>5, <1>6, <1>7, <1>8 DEF PlacesOf
<1>10. PlacesOf(t, group) = S
  BY <1>1, <1>4, <1>5, <1>6, <1>7, <1>8 DEF PlacesOf
<1>11. \A symbol \in {"dot", "comma"} \ {group, point} : PlacesOf(t, symbol) = {}
  BY <1>1 DEF PlacesOf
<1>12. PlacesOf(t, "d") = (1..(w + e)) \ (S \cup (IF k > 0 THEN {w + 1} ELSE {}))
  BY <1>1, <1>4, <1>5, <1>6, <1>7, <1>8 DEF PlacesOf
<1>13. Len(t) = w + e
  BY <1>1, <1>2
<1> QED
  BY <1>1, <1>2, <1>3, <1>4, <1>5, <1>6, <1>9, <1>10, <1>11, <1>12, <1>13

(* Every figure is counted once.                                           *)
LEMMA DigitsAre ==
  ASSUME NEW t, NEW lead, NEW q, NEW group, NEW k, NEW point, Printed(t, lead, q, group, k, point)
  PROVE  Digits(t) = lead + 3 * q + k
<1> PICK w, e, S : w = lead + 4 * q /\ e = (IF k = 0 THEN 0 ELSE k + 1) /\ S = Separators(lead, q)
  OBVIOUS
<1>1. lead \in Nat /\ q \in Nat /\ k \in 0..2
  BY DEF Printed
<1>2. /\ w \in Nat /\ e \in 0..3 /\ \A i \in S : i \in 1..(w - 3)
      /\ k > 0 => w + 1 \notin S
      /\ PlacesOf(t, "d") = (1..(w + e)) \ (S \cup (IF k > 0 THEN {w + 1} ELSE {}))
  BY PlacesAre
<1>3. IsFiniteSet(S) /\ Cardinality(S) = q
  BY <1>1, Separated
<1>4. PICK n \in Nat : n = w + e
  BY <1>2
<1>5. PICK A : A = 1..n
  OBVIOUS
<1>6. IsFiniteSet(A) /\ Cardinality(A) = n
  BY <1>5, FS_Interval
<1>7. PICK T : T = S \cup (IF k > 0 THEN {w + 1} ELSE {})
  OBVIOUS
<1>8. PICK c \in Nat : c = (IF k > 0 THEN 1 ELSE 0)
  OBVIOUS
<1>9. Cardinality(T) = q + c
  <2>1. CASE k > 0
    BY <1>1, <1>2, <1>3, <1>7, <1>8, <2>1, FS_AddElement
  <2>2. CASE ~(k > 0)
    <3>1. T = S
      BY <1>7, <2>2
    <3> QED BY <1>1, <1>3, <1>8, <2>2, <3>1
  <2> QED BY <2>1, <2>2
<1>10. T \subseteq A
  BY <1>1, <1>2, <1>4, <1>5, <1>7
<1>11. A \cap T = T
  BY <1>10
<1>12. Cardinality(A \ T) = Cardinality(A) - Cardinality(A \cap T)
  BY <1>6, FS_Difference
<1>13. Cardinality(A \ T) = n - (q + c)
  BY <1>6, <1>9, <1>11, <1>12
<1>14. Digits(t) = n - (q + c)
  BY <1>2, <1>4, <1>5, <1>7, <1>13 DEF Digits
<1>15. e - c = k
  BY <1>1, <1>8
<1> QED
  BY <1>1, <1>2, <1>4, <1>8, <1>14, <1>15

(* The point of a printed number is found, and what stands behind it.      *)
LEMMA PriceIs ==
  ASSUME NEW t, NEW lead, NEW q, NEW group, NEW k, NEW point, Printed(t, lead, q, group, k, point)
  PROVE  Price(t) = [digits |-> lead + 3 * q + k, decimals |-> k]
<1> PICK w, e, S : w = lead + 4 * q /\ e = (IF k = 0 THEN 0 ELSE k + 1) /\ S = Separators(lead, q)
  OBVIOUS
<1>1. /\ lead \in Nat /\ q \in Nat /\ k \in 0..2 /\ lead > 0
      /\ group \in Groupings /\ point \in {"dot", "comma"} /\ group # point
  BY DEF Printed
<1>2. /\ w \in Nat /\ w > 0 /\ e \in 0..3 /\ DOMAIN t = 1..(w + e)
      /\ \A i \in S : i \in 1..(w - 3) /\ i > lead /\ t[i] = group
      /\ k > 0 => w + 1 \in DOMAIN t /\ t[w + 1] = point /\ w + 1 \notin S
      /\ \A i \in DOMAIN t : i \notin S /\ i # w + 1 => t[i] = "d"
      /\ PlacesOf(t, point) = (IF k > 0 THEN {w + 1} ELSE {})
      /\ PlacesOf(t, group) = S
      /\ \A symbol \in {"dot", "comma"} \ {group, point} : PlacesOf(t, symbol) = {}
  BY PlacesAre
<1>3. /\ S \in SUBSET Nat /\ IsFiniteSet(S) /\ Cardinality(S) = q
      /\ \A m \in 0..(q - 1) : lead + 1 + 4 * m \in S
  <2>1. lead \in Nat /\ q \in Nat /\ S = Separators(lead, q)
    BY <1>1
  <2>2. S \in SUBSET Nat /\ IsFiniteSet(S) /\ Cardinality(S) = q
    BY <2>1, Separated
  <2>3. \A m \in 0..(q - 1) : lead + 1 + 4 * m \in S
    BY <2>1, Separated
  <2> QED BY <2>2, <2>3
<1>4. LastOf(t, point) = IF k > 0 THEN w + 1 ELSE 0
  <2>1. CASE k > 0
    <3>1. PlacesOf(t, point) = {w + 1} /\ w + 1 \in Nat /\ w + 1 <= w + 1
      BY <1>2, <2>1
    <3>2. w + 1 \in PlacesOf(t, point) /\ PlacesOf(t, point) \in SUBSET Nat /\ \A j \in PlacesOf(t, point) : j <= w + 1
      BY <3>1
    <3> QED BY <2>1, <3>2, LastOfIs
  <2>2. CASE ~(k > 0)
    BY <1>2, <2>2, LastOfIs
  <2> QED BY <2>1, <2>2
<1>5. PICK other \in {"dot", "comma"} : other # point
  BY <1>1
<1>6. LastOf(t, other) = IF group = other /\ q > 0 THEN w - 3 ELSE 0
  <2>1. CASE group = other /\ q > 0
    <3>1. w - 3 \in S
      BY <1>1, <1>3, <2>1
    <3>2. PlacesOf(t, other) \in SUBSET Nat /\ \A j \in PlacesOf(t, other) : j <= w - 3
      BY <1>2, <1>3, <2>1
    <3> QED BY <1>2, <2>1, <3>1, <3>2, LastOfIs
  <2>2. CASE ~(group = other /\ q > 0)
    <3>1. PlacesOf(t, other) = {}
      BY <1>1, <1>2, <1>3, <1>5, <2>2, FS_EmptySet
    <3> QED BY <2>2, <3>1, LastOfIs
  <2> QED BY <2>1, <2>2
<1>7. k > 0 => Behind(t, w + 1) = k
  <2> SUFFICES ASSUME k > 0 PROVE Behind(t, w + 1) = k
    OBVIOUS
  <2>1. \A j \in DOMAIN t : j > w + 1 => t[j] = "d"
    BY <1>2
  <2>2. {j \in DOMAIN t : j > w + 1 /\ t[j] # "space"} = (w + 2)..(w + 1 + k)
    BY <1>1, <1>2, <2>1
  <2>3. w + 2 \in Int /\ w + 1 + k \in Int
    BY <1>1, <1>2
  <2>4. Cardinality((w + 2)..(w + 1 + k)) = k
    BY <1>1, <1>2, <2>3, FS_Interval
  <2> QED BY <2>2, <2>4 DEF Behind
<1>8. k = 0 /\ q > 0 => Behind(t, w - 3) = 3
  <2> SUFFICES ASSUME k = 0, q > 0 PROVE Behind(t, w - 3) = 3
    OBVIOUS
  <2>1. \A j \in DOMAIN t : j > w - 3 => t[j] = "d"
    BY <1>1, <1>2
  <2>2. {j \in DOMAIN t : j > w - 3 /\ t[j] # "space"} = (w - 2)..w
    BY <1>1, <1>2, <2>1
  <2>3. w - 2 \in Int /\ w \in Int
    BY <1>2
  <2>4. Cardinality((w - 2)..w) = 3
    BY <1>2, <2>3, FS_Interval
  <2> QED BY <2>2, <2>4 DEF Behind
<1>9. PointOf(t) = IF k > 0 THEN w + 1 ELSE 0
  <2> DEFINE dot == LastOf(t, "dot")
             comma == LastOf(t, "comma")
             last == IF dot > comma THEN dot ELSE comma
  <2>1. PointOf(t) = IF dot > 0 /\ comma > 0 THEN last
                     ELSE IF last > 0 /\ Cardinality(PlacesOf(t, t[last])) = 1 /\ Behind(t, last) \in {1, 2}
                     THEN last ELSE 0
    BY DEF PointOf
  <2>2. w - 3 \in Nat \/ q = 0
    BY <1>1
  <2>3. CASE k > 0
    <3>1. last = w + 1
      BY <1>1, <1>2, <1>4, <1>5, <1>6, <2>2, <2>3
    <3>2. PlacesOf(t, t[last]) = {w + 1}
      BY <1>2, <2>3, <3>1
    <3>3. Cardinality(PlacesOf(t, t[last])) = 1
      <4>1. Cardinality({w + 1}) = 1
        BY FS_Singleton
      <4> QED BY <3>2, <4>1
    <3>4. Behind(t, last) \in {1, 2}
      BY <1>1, <1>7, <2>3, <3>1
    <3> HIDE DEF dot, comma, last
    <3> QED BY <1>2, <2>1, <2>3, <3>1, <3>3, <3>4
  <2>4. CASE k = 0 /\ group = other /\ q > 0
    <3>1. last = w - 3 /\ ~(dot > 0 /\ comma > 0)
      BY <1>1, <1>2, <1>4, <1>5, <1>6, <2>2, <2>4
    <3>2. Behind(t, last) = 3
      BY <1>8, <2>4, <3>1
    <3> HIDE DEF dot, comma, last
    <3> QED BY <2>1, <2>4, <3>1, <3>2
  <2>5. CASE k = 0 /\ ~(group = other /\ q > 0)
    <3>1. dot = 0 /\ comma = 0
      BY <1>1, <1>4, <1>5, <1>6, <2>5
    <3> QED BY <2>1, <2>5, <3>1
  <2> QED BY <1>1, <2>3, <2>4, <2>5
<1>10. (IF PointOf(t) = 0 THEN 0 ELSE Behind(t, PointOf(t))) = k
  BY <1>1, <1>2, <1>7, <1>9
<1> QED
  BY <1>10, DigitsAre DEF Price

(* The leading figures and every group are read, and nothing behind them.  *)
LEMMA IntDigitsIs ==
  ASSUME NEW t, NEW lead, NEW q, NEW group, NEW k, NEW point, Printed(t, lead, q, group, k, point)
  PROVE  IntDigits(t) = lead + 3 * q
<1> PICK w, e, S : w = lead + 4 * q /\ e = (IF k = 0 THEN 0 ELSE k + 1) /\ S = Separators(lead, q)
  OBVIOUS
<1>1. /\ lead \in Nat /\ q \in Nat /\ k \in 0..2 /\ lead > 0
      /\ group \in Groupings /\ point \in {"dot", "comma"} /\ group # point
      /\ q > 0 => lead <= 3
  BY DEF Printed
<1>2. /\ w \in Nat /\ w > 0 /\ e \in 0..3 /\ DOMAIN t = 1..(w + e) /\ Len(t) = w + e
      /\ \A i \in S : i \in 1..(w - 3) /\ i > lead /\ t[i] = group
      /\ k > 0 => w + 1 \in DOMAIN t /\ t[w + 1] = point /\ w + 1 \notin S
      /\ \A i \in DOMAIN t : i \notin S /\ i # w + 1 => t[i] = "d"
  BY PlacesAre
<1>3. /\ \A m \in 0..(q - 1) : lead + 1 + 4 * m \in S
      /\ \A i \in S : \E m \in 0..(q - 1) : i = lead + 1 + 4 * m
  <2>1. lead \in Nat /\ q \in Nat /\ S = Separators(lead, q)
    BY <1>1
  <2>2. \A m \in 0..(q - 1) : lead + 1 + 4 * m \in S
    BY <2>1, Separated
  <2>3. \A i \in S : \E m \in 0..(q - 1) : i = lead + 1 + 4 * m
    BY <2>1, Separated
  <2> QED BY <2>2, <2>3
<1>4. group # "d" /\ point # "d"
  BY <1>1 DEF Groupings
<1>5. \A i \in 1..lead : i \in DOMAIN t /\ t[i] = "d"
  BY <1>1, <1>2
<1>6. lead < Len(t) => lead + 1 \in DOMAIN t /\ t[lead + 1] # "d"
  <2>1. CASE q > 0
    <3>1. 0 \in 0..(q - 1) /\ lead + 1 + 4 * 0 = lead + 1
      BY <1>1, <2>1
    <3>2. lead + 1 \in S
      BY <1>3, <3>1
    <3> QED BY <1>1, <1>2, <1>4, <3>2
  <2>2. CASE ~(q > 0)
    BY <1>1, <1>2, <1>4, <2>2
  <2> QED BY <2>1, <2>2
<1>7. LeadingDigits(t) = lead
  <2>1. \A i \in DOMAIN t : (\A j \in 1..i : t[j] = "d") <=> i \in 1..lead
    <3> TAKE i \in DOMAIN t
    <3>1. i \in Nat /\ i > 0 /\ i <= Len(t)
      BY <1>2
    <3>2. CASE i <= lead
      BY <1>1, <1>5, <3>1, <3>2
    <3>3. CASE i > lead
      <4>1. lead + 1 \in 1..i /\ lead < Len(t)
        BY <1>1, <1>2, <3>1, <3>3
      <4> QED BY <1>1, <1>6, <3>3, <4>1
    <3> QED BY <1>1, <3>1, <3>2, <3>3
  <2>2. {i \in DOMAIN t : \A j \in 1..i : t[j] = "d"} = 1..lead
    BY <1>5, <2>1
  <2>3. Cardinality(1..lead) = lead
    BY <1>1, FS_Interval
  <2> QED BY <2>2, <2>3 DEF LeadingDigits
<1>8. PICK n \in Nat : n = w + e /\ Len(t) = n /\ DOMAIN t = 1..n
  BY <1>2
<1> DEFINE Fits(m) ==
      /\ lead <= 3 /\ lead + 4 * m <= n
      /\ \A g \in 0..(m - 1) : /\ t[lead + 1 + 4 * g] = t[lead + 1]
                               /\ \A d \in 1..3 : t[lead + 1 + 4 * g + d] = "d"
      /\ lead + 1 + 4 * m <= n =>
           /\ t[lead + 1 + 4 * m] # "d"
           /\ ~(t[lead + 1 + 4 * m] = t[lead + 1] /\ lead + 1 + 4 * m < n /\ t[lead + 1 + 4 * m + 1] = "d")
<1>9. ASSUME NEW m \in 1..n PROVE IsGrouped(t, m) <=> Fits(m)
  <2>1. (lead + 1 + 4 * m) - 1 = lead + 4 * m
    BY <1>1
  <2> QED BY <1>7, <1>8, <2>1 DEF IsGrouped
<1> HIDE DEF Fits
<1>10. ASSUME NEW m \in 1..n, lead < n, q = 0 PROVE ~Fits(m)
  <2>1. lead + 4 * m > n
    BY <1>1, <1>2, <1>8, <1>10
  <2> QED BY <1>1, <1>8, <2>1 DEF Fits
<1>11. ASSUME NEW m \in 1..n, m < q PROVE ~Fits(m)
  <2>1. m \in 0..(q - 1) /\ 0 \in 0..(q - 1)
    BY <1>1, <1>11
  <2>2. lead + 1 + 4 * m \in S /\ lead + 1 + 4 * 0 \in S
    BY <1>3, <2>1
  <2>3. lead + 1 + 4 * 0 = lead + 1
    BY <1>1
  <2>4. t[lead + 1 + 4 * m] = t[lead + 1]
    BY <1>2, <2>2, <2>3
  <2>5. lead + 1 + 4 * m + 1 \in DOMAIN t /\ lead + 1 + 4 * m < n /\ lead + 1 + 4 * m + 1 # w + 1
    BY <1>1, <1>2, <1>8, <1>11
  <2>6. lead + 1 + 4 * m + 1 \notin S
    <3> SUFFICES ASSUME lead + 1 + 4 * m + 1 \in S PROVE FALSE
      OBVIOUS
    <3>1. PICK c \in 0..(q - 1) : lead + 1 + 4 * m + 1 = lead + 1 + 4 * c
      BY <1>3
    <3> QED BY <1>1, <3>1
  <2>7. t[lead + 1 + 4 * m + 1] = "d"
    BY <1>2, <2>5, <2>6
  <2> QED BY <1>1, <1>8, <2>4, <2>5, <2>7 DEF Fits
<1>12. ASSUME NEW m \in 1..n, m > q PROVE ~Fits(m)
  <2>1. lead + 4 * m > n
    BY <1>1, <1>2, <1>8, <1>12
  <2> QED BY <1>1, <1>8, <2>1 DEF Fits
<1>13. ASSUME q > 0 PROVE q \in 1..n /\ Fits(q)
  <2>1. q \in 1..n /\ lead + 4 * q <= n /\ lead <= 3
    BY <1>1, <1>2, <1>8, <1>13
  <2>2. 0 \in 0..(q - 1) /\ lead + 1 + 4 * 0 = lead + 1
    BY <1>1, <1>13
  <2>3. lead + 1 \in S
    BY <1>3, <2>2
  <2>4. t[lead + 1] = group
    BY <1>2, <2>3
  <2>5. ASSUME NEW g \in 0..(q - 1) PROVE /\ t[lead + 1 + 4 * g] = t[lead + 1]
                                          /\ \A d \in 1..3 : t[lead + 1 + 4 * g + d] = "d"
    <3>1. lead + 1 + 4 * g \in S
      BY <1>3
    <3>2. t[lead + 1 + 4 * g] = group
      BY <1>2, <3>1
    <3>3. ASSUME NEW d \in 1..3 PROVE t[lead + 1 + 4 * g + d] = "d"
      <4>1. lead + 1 + 4 * g + d \in DOMAIN t /\ lead + 1 + 4 * g + d # w + 1
        BY <1>1, <1>2, <1>8, <2>5
      <4>2. lead + 1 + 4 * g + d \notin S
        <5> SUFFICES ASSUME lead + 1 + 4 * g + d \in S PROVE FALSE
          OBVIOUS
        <5>1. PICK c \in 0..(q - 1) : lead + 1 + 4 * g + d = lead + 1 + 4 * c
          BY <1>3
        <5> QED BY <1>1, <3>3, <5>1
      <4> QED BY <1>2, <4>1, <4>2
    <3> QED BY <2>4, <3>2, <3>3
  <2>6. lead + 1 + 4 * q <= n => t[lead + 1 + 4 * q] = point
    <3> SUFFICES ASSUME lead + 1 + 4 * q <= n PROVE t[lead + 1 + 4 * q] = point
      OBVIOUS
    <3>1. lead + 1 + 4 * q = w + 1 /\ k > 0
      BY <1>1, <1>2, <1>8
    <3> QED BY <1>2, <3>1
  <2>7. point # t[lead + 1]
    BY <1>1, <2>4
  <2> QED BY <1>4, <2>1, <2>5, <2>6, <2>7 DEF Fits
<1> DEFINE groups == {m \in 1..Len(t) : LeadingDigits(t) < Len(t) /\ IsGrouped(t, m)}
<1>14. IntDigits(t) = IF groups = {} THEN lead ELSE lead + 3 * (CHOOSE m \in groups : \A c \in groups : c <= m)
  BY <1>7 DEF IntDigits
<1>15. groups = {m \in 1..n : lead < n /\ IsGrouped(t, m)}
  BY <1>7, <1>8
<1>16. CASE q = 0
  <2>1. groups = {}
    BY <1>9, <1>10, <1>15, <1>16
  <2> HIDE DEF groups
  <2> QED BY <1>1, <1>14, <1>16, <2>1
<1>17. CASE q > 0
  <2>1. lead < n
    BY <1>1, <1>2, <1>8, <1>17
  <2>2. q \in groups
    BY <1>9, <1>13, <1>15, <1>17, <2>1
  <2>3. ASSUME NEW m \in groups PROVE m = q
    <3>1. m \in 1..n /\ Fits(m)
      BY <1>9, <1>15, <2>3
    <3>2. ~(m < q) /\ ~(m > q) /\ m \in Nat
      BY <1>11, <1>12, <3>1
    <3> QED BY <1>1, <3>2
  <2> HIDE DEF groups
  <2>4. groups = {q}
    BY <2>2, <2>3
  <2>5. (CHOOSE m \in groups : \A c \in groups : c <= m) = q
    <3>1. q <= q
      BY <1>1
    <3> QED BY <2>4, <3>1
  <2> QED BY <1>14, <2>4, <2>5
<1> QED
  BY <1>1, <1>16, <1>17

(* Two or three figures and the cents behind them are four figures in one. *)
LEMMA LostOnes ==
  ASSUME NEW n \in {2, 3}, NEW group \in Groupings
  PROVE  Ungrouped(Rendered(n, group, <<"d", "d">>))
<1> DEFINE t == Rendered(n, group, <<"d", "d">>)
<1>1. Width(n, group) = n
  <2>1. (n - 1) \div 3 = 0
    OBVIOUS
  <2> QED BY <2>1 DEF Width
<1>2. Len(<<"d", "d">>) = 2
  OBVIOUS
<1>3. t = [i \in 1..(n + 2) |-> IF i > n THEN <<"d", "d">>[i - n]
                                 ELSE IF group # "none" /\ (n - i) % 4 = 3 THEN group ELSE "d"]
  BY <1>1, <1>2 DEF Rendered
<1>4. \A i \in 1..n : (n - i) % 4 # 3
  OBVIOUS
<1>5. \A i \in 1..(n + 2) : i > n => i - n \in {1, 2} /\ <<"d", "d">>[i - n] = "d"
  OBVIOUS
<1> HIDE DEF t
<1>6. DOMAIN t = 1..(n + 2)
  BY <1>3
<1>7. \A i \in DOMAIN t : t[i] = "d"
  BY <1>3, <1>4, <1>5
<1>8. PICK m \in Nat : m = n + 2
  OBVIOUS
<1>9. PlacesOf(t, "d") = 1..m
  BY <1>6, <1>7, <1>8 DEF PlacesOf
<1>10. Digits(t) = m
  BY <1>8, <1>9, FS_Interval DEF Digits
<1>11. Ungrouped(t)
  BY <1>7, <1>8, <1>10 DEF Ungrouped
<1> QED BY <1>11 DEF t

(* Every price a page prints, in any of its conventions, is read back      *)
(* whole (_parse_price_detail, _parse_int).                                *)
THEOREM NumbersAreReadBack == NumSpec => []NumbersReadBack
<1>1. NumInit => NumbersReadBack
  BY DEF NumInit, NumbersReadBack
<1>2. ASSUME NumbersReadBack, [Shows]_text PROVE NumbersReadBack'
  <2>1. CASE UNCHANGED text
    BY <1>2, <2>1 DEF NumbersReadBack
  <2>2. CASE Shows
    <3>1. PICK n \in 1..MaxDigits, k \in 0..2, group \in Groupings, point \in {"dot", "comma"}, lost, cents \in BOOLEAN :
            /\ group # point
            /\ lost => k = 2
            /\ LET printed == Rendered(n, group, IF lost THEN <<"d", "d">> ELSE Decimals(k, point))
               IN text' = [printed |-> printed, whole |-> n, decimals |-> k, lost |-> lost,
                           warned |-> cents /\ Ungrouped(printed), cents |-> cents]
      BY <2>2 DEF Shows
    <3>2. PICK t : t = Rendered(n, group, IF lost THEN <<"d", "d">> ELSE Decimals(k, point))
      OBVIOUS
    <3>3. /\ text'.printed = t /\ text'.whole = n /\ text'.decimals = k
          /\ (text'.lost <=> lost) /\ (text'.cents <=> cents) /\ (text'.warned <=> cents /\ Ungrouped(t))
      BY <3>1, <3>2
    <3>4. n \in Nat /\ n > 0
      BY NumberAssumption
    <3>5. ~lost => Price(t) = [digits |-> n + k, decimals |-> k] /\ IntDigits(t) = n
      <4> SUFFICES ASSUME ~lost PROVE Price(t) = [digits |-> n + k, decimals |-> k] /\ IntDigits(t) = n
        OBVIOUS
      <4>1. t = Rendered(n, group, Decimals(k, point))
        BY <3>2
      <4>2. PICK lead \in Nat, q \in Nat : Printed(t, lead, q, group, k, point) /\ n = lead + 3 * q
        BY <3>1, <3>4, <4>1, RenderedIsPrinted
      <4> QED BY <4>2, PriceIs, IntDigitsIs
    <3>6. lost /\ n \in {2, 3} => Ungrouped(t)
      BY <3>2, LostOnes
    <3> QED BY <3>3, <3>5, <3>6 DEF NumbersReadBack
  <2> QED BY <1>2, <2>1, <2>2
<1> QED
  BY <1>1, <1>2, PTL DEF NumSpec

(***** SiteMap *****)

(* A slice and a concatenation.                                            *)
LEMMA AtMostKeeps ==
  ASSUME NEW T, NEW list \in Seq(T), NEW n \in Nat, NEW slice, slice = AtMost(list, n)
  PROVE  /\ slice \in Seq(T) /\ Len(slice) \in Nat
         /\ DOMAIN slice = 1..Len(slice) /\ DOMAIN slice \subseteq DOMAIN list
         /\ \A k \in DOMAIN slice : slice[k] = list[k]
         /\ \A k \in DOMAIN list : k \in DOMAIN slice \/ (Len(slice) = n /\ k > n)
         /\ Len(list) <= n => slice = list
         /\ Len(list) > n => Len(slice) = n
<1>1. PICK length \in Nat : length = Len(list) /\ DOMAIN list = 1..length
  OBVIOUS
<1>2. PICK m \in Nat : m = (IF length > n THEN n ELSE length)
  OBVIOUS
<1>3. slice = [k \in 1..m |-> list[k]]
  BY <1>1, <1>2 DEF AtMost
<1>4. \A k \in 1..m : k \in DOMAIN list /\ list[k] \in T
  BY <1>1, <1>2
<1>5. slice \in Seq(T) /\ Len(slice) = m /\ DOMAIN slice = 1..m
  BY <1>3, <1>4
<1>6. ASSUME length <= n PROVE slice = list
  <2>1. m = length
    BY <1>2, <1>6
  <2>2. \A i \in 1..Len(slice) : slice[i] = list[i]
    BY <1>3, <1>5
  <2> QED BY <1>1, <1>5, <2>1, <2>2, SeqEqual
<1>7. \A k \in 1..length : k \in 1..m \/ (m = n /\ k > n)
  BY <1>2
<1>8. \A k \in DOMAIN slice : slice[k] = list[k]
  BY <1>3, <1>5
<1>9. length > n => m = n
  BY <1>2
<1> QED
  BY <1>1, <1>4, <1>5, <1>6, <1>7, <1>8, <1>9

Joined(p, q) == p \o q

LEMMA JoinedIs ==
  ASSUME NEW T, NEW p \in Seq(T), NEW q \in Seq(T), NEW r, r = Joined(p, q)
  PROVE  r \in Seq(T) /\ Among(r) = Among(p) \cup Among(q)
<1>1. /\ p \o q \in Seq(T) /\ Len(p \o q) = Len(p) + Len(q)
      /\ \A i \in 1..(Len(p) + Len(q)) : (p \o q)[i] = IF i <= Len(p) THEN p[i] ELSE q[i - Len(p)]
  BY ConcatProperties
<1>2. r = p \o q
  BY DEF Joined
<1>3. PICK m \in Nat, n \in Nat : m = Len(p) /\ n = Len(q)
  OBVIOUS
<1>4. DOMAIN r = 1..(m + n) /\ DOMAIN p = 1..m /\ DOMAIN q = 1..n
  BY <1>1, <1>2, <1>3
<1>5. \A i \in 1..(m + n) : r[i] = IF i <= m THEN p[i] ELSE q[i - m]
  BY <1>1, <1>2, <1>3
<1>6. ASSUME NEW i \in DOMAIN r PROVE r[i] \in Among(p) \cup Among(q)
  <2>1. CASE i <= m
    BY <1>3, <1>4, <1>5, <2>1 DEF Among
  <2>2. CASE ~(i <= m)
    <3>1. i - m \in DOMAIN q /\ r[i] = q[i - m]
      BY <1>3, <1>4, <1>5, <2>2
    <3> QED BY <3>1 DEF Among
  <2> QED BY <2>1, <2>2
<1>7. \A i \in DOMAIN p : i \in DOMAIN r /\ r[i] = p[i]
  BY <1>3, <1>4, <1>5
<1>8. ASSUME NEW i \in DOMAIN q PROVE q[i] \in Among(r)
  <2>1. i + m \in DOMAIN r /\ ~(i + m <= m) /\ (i + m) - m = i
    BY <1>3, <1>4
  <2>2. r[i + m] = q[i]
    BY <1>4, <1>5, <2>1
  <2> QED BY <2>1, <2>2 DEF Among
<1>9. Among(r) = Among(p) \cup Among(q)
  <2>1. \A v \in Among(r) : v \in Among(p) \cup Among(q)
    BY <1>6 DEF Among
  <2>2. \A v \in Among(p) : v \in Among(r)
    BY <1>7 DEF Among
  <2>3. \A v \in Among(q) : v \in Among(r)
    BY <1>8 DEF Among
  <2> QED BY <2>1, <2>2, <2>3
<1> QED BY <1>1, <1>2, <1>9

LEMMA JoinedIsLonger ==
  ASSUME NEW T, NEW p \in Seq(T), NEW q \in Seq(T), NEW r, r = Joined(p, q)
  PROVE  Len(r) \in Nat /\ Len(p) <= Len(r)
<1>1. Len(p \o q) = Len(p) + Len(q)
  BY ConcatProperties
<1> QED BY <1>1 DEF Joined

Everything(seed, found, linked) == <<seed>> \o found \o linked

LEMMA EverythingIs ==
  ASSUME NEW T, NEW seed \in T, NEW found \in Seq(T), NEW linked \in Seq(T), NEW all,
         all = Everything(seed, found, linked)
  PROVE  all \in Seq(T) /\ Among(all) = {seed} \cup Among(found) \cup Among(linked)
<1>1. PICK first : first = <<seed>>
  OBVIOUS
<1>2. first \in Seq(T) /\ Among(first) = {seed}
  BY <1>1 DEF Among
<1>3. PICK head : head = Joined(first, found)
  OBVIOUS
<1>4. all = Joined(head, linked)
  BY <1>1, <1>3 DEF Joined, Everything
<1>5. head \in Seq(T) /\ Among(head) = Among(first) \cup Among(found)
  BY <1>2, <1>3, JoinedIs
<1>6. all \in Seq(T) /\ Among(all) = Among(head) \cup Among(linked)
  BY <1>4, <1>5, JoinedIs
<1> QED BY <1>2, <1>5, <1>6

(* The first of any positions.                                             *)
LEMMA FirstOf ==
  ASSUME NEW S \in SUBSET Nat, IsFiniteSet(S), S # {}
  PROVE  \E i \in S : \A j \in S : ~(j < i)
<1> DEFINE R == {ij \in S \X S : ij[1] <= ij[2]}
<1>1. \A i, j \in S : <<i, j>> \in R <=> i <= j
  OBVIOUS
<1>2. \A i \in S : i \in Nat
  OBVIOUS
<1> HIDE DEF R
<1>3. Orders(R, S)
  BY <1>1, <1>2 DEF Orders
<1>4. PICK f : f = InOrder(S, R)
  OBVIOUS
<1>5. /\ f \in [1..Cardinality(S) -> S] /\ Cardinality(S) \in Nat
      /\ \A i \in S : \E k \in 1..Cardinality(S) : f[k] = i
      /\ \A k, l \in 1..Cardinality(S) : k <= l => <<f[k], f[l]>> \in R
  BY <1>3, <1>4, InOrderIs
<1>6. PICK n \in Nat : n = Cardinality(S)
  BY <1>5
<1>7. 1 \in 1..n
  <2>1. PICK i \in S : TRUE
    OBVIOUS
  <2>2. PICK k \in 1..n : f[k] = i
    BY <1>5, <1>6
  <2> QED BY <2>2
<1>8. ASSUME NEW j \in S PROVE ~(j < f[1])
  <2>1. PICK l \in 1..n : f[l] = j
    BY <1>5, <1>6
  <2>2. <<f[1], f[l]>> \in R
    BY <1>5, <1>6, <1>7
  <2>3. f[1] \in S /\ f[1] <= j
    BY <1>1, <1>5, <1>6, <1>7, <2>1, <2>2
  <2>4. f[1] \in Nat /\ j \in Nat
    BY <1>2, <2>3
  <2> QED BY <2>3, <2>4
<1>9. f[1] \in S
  BY <1>5, <1>6, <1>7
<1> QED BY <1>8, <1>9

(* One spelling of every page in scope.                                    *)
LEMMA FirstSpellingsAre ==
  ASSUME NEW T, NEW list \in Seq(T), NEW firsts, firsts = FirstSpellings(list)
  PROVE  /\ firsts \in Seq(T) /\ Among(firsts) \subseteq Among(list)
         /\ \A k \in DOMAIN firsts : firsts[k].inScope
         /\ \A k, l \in DOMAIN firsts : firsts[k].page = firsts[l].page => k = l
         /\ \A i \in DOMAIN list : list[i].inScope => \E k \in DOMAIN firsts : firsts[k].page = list[i].page
<1> DEFINE InScope == {i \in DOMAIN list : list[i].inScope}
           First == {i \in InScope : \A j \in InScope : j < i => list[j].page # list[i].page}
<1>1. firsts = Picked(list, First) /\ First \in SUBSET (DOMAIN list)
  BY DEF FirstSpellings
<1>2. InScope \in SUBSET Nat /\ IsFiniteSet(InScope)
  <2>1. PICK n \in Nat : DOMAIN list = 1..n
    OBVIOUS
  <2>2. IsFiniteSet(1..n)
    BY FS_Interval
  <2> QED BY <2>1, <2>2, FS_Subset
<1>3. \A i \in First : i \in InScope /\ \A j \in InScope : j < i => list[j].page # list[i].page
  OBVIOUS
<1>4. \A i \in InScope : i \in DOMAIN list /\ list[i].inScope
  OBVIOUS
<1>5. ASSUME NEW i \in InScope PROVE \E c \in First : list[c].page = list[i].page
  <2> DEFINE Same == {j \in InScope : list[j].page = list[i].page}
  <2>1. Same \in SUBSET Nat /\ IsFiniteSet(Same) /\ Same # {}
    BY <1>2, FS_Subset
  <2>2. PICK c \in Same : \A j \in Same : ~(j < c)
    BY <2>1, FirstOf
  <2>3. c \in First
    BY <2>2
  <2> QED BY <2>2, <2>3
<1>6. \A i \in DOMAIN list : list[i].inScope => i \in InScope
  OBVIOUS
<1> HIDE DEF InScope, First
<1>7. /\ firsts \in Seq(T)
      /\ \A i \in First : \E k \in DOMAIN firsts : firsts[k] = list[i]
  BY <1>1, PickedKeeps
<1>8. PICK f : Places(f, firsts, list, First)
  BY <1>1, PickedKeeps
<1>9. /\ \A k \in DOMAIN firsts : f[k] \in First /\ firsts[k] = list[f[k]]
      /\ \A k, l \in DOMAIN firsts : f[k] = f[l] => k = l
  BY <1>8 DEF Places
<1>10. Among(firsts) \subseteq Among(list)
  BY <1>1, <1>9 DEF Among
<1>11. \A k \in DOMAIN firsts : firsts[k].inScope
  BY <1>3, <1>4, <1>9
<1>12. ASSUME NEW k \in DOMAIN firsts, NEW l \in DOMAIN firsts, firsts[k].page = firsts[l].page PROVE k = l
  <2>1. PICK i, j : i = f[k] /\ j = f[l]
    OBVIOUS
  <2>2. i \in First /\ j \in First /\ list[i].page = list[j].page
    BY <1>9, <1>12, <2>1
  <2>3. i \in InScope /\ j \in InScope /\ ~(i < j) /\ ~(j < i)
    BY <1>3, <2>2
  <2>4. i = j
    BY <1>2, <2>3
  <2> QED BY <1>9, <2>1, <2>4
<1>13. ASSUME NEW i \in DOMAIN list, list[i].inScope PROVE \E k \in DOMAIN firsts : firsts[k].page = list[i].page
  <2>1. PICK c \in First : list[c].page = list[i].page
    BY <1>5, <1>6, <1>13
  <2> QED BY <1>7, <2>1
<1> QED
  BY <1>7, <1>10, <1>11, <1>12, <1>13

(* The sort keeps every element and puts them in order.                    *)
LEMMA SortedIs ==
  ASSUME NEW T, NEW list \in Seq(T), \A loc \in T : loc.date \in Nat, NEW sorted, sorted = Sorted(list)
  PROVE  /\ sorted \in Seq(T)
         /\ \A i \in DOMAIN list : \E k \in DOMAIN sorted : sorted[k] = list[i]
         /\ \E f : Places(f, sorted, list, DOMAIN list)
         /\ ask.newest => \A k, l \in DOMAIN sorted : k <= l => sorted[k].date >= sorted[l].date
<1> DEFINE R == NewestFirst(list)
           order == InOrder(DOMAIN list, R)
<1>1. sorted = IF ask.newest THEN [k \in DOMAIN order |-> list[order[k]]] ELSE list
  BY DEF Sorted
<1>2. PICK n \in Nat : DOMAIN list = 1..n
  OBVIOUS
<1>3. \A i \in 1..n : list[i] \in T /\ list[i].date \in Nat
  BY <1>2
<1>4. PICK date \in [1..n -> Nat] : \A i \in 1..n : date[i] = list[i].date
  <2> DEFINE dates == [i \in 1..n |-> list[i].date]
  <2>1. dates \in [1..n -> Nat] /\ \A i \in 1..n : dates[i] = list[i].date
    BY <1>3
  <2> HIDE DEF dates
  <2> QED BY <2>1
<1>5. PICK P : P = 1..n
  OBVIOUS
<1>6. \A i, j \in P : <<i, j>> \in R <=> (date[i] > date[j] \/ (date[i] = date[j] /\ i <= j))
  <2> TAKE i, j \in P
  <2>1. <<i, j>> \in (DOMAIN list) \X (DOMAIN list)
    BY <1>2, <1>5
  <2>2. date[i] = list[i].date /\ date[j] = list[j].date
    BY <1>4, <1>5
  <2>3. <<i, j>> \in R <=> (list[i].date > list[j].date \/ (list[i].date = list[j].date /\ i <= j))
    BY <2>1 DEF NewestFirst
  <2> QED BY <2>2, <2>3
<1> HIDE DEF R
<1>7. Orders(R, P)
  <2>1. \A i \in P : i \in Nat /\ date[i] \in Nat
    BY <1>4, <1>5
  <2>2. ASSUME NEW i \in P, NEW j \in P PROVE <<i, j>> \in R \/ <<j, i>> \in R
    <3>1. date[i] \in Nat /\ date[j] \in Nat /\ i \in Nat /\ j \in Nat
      BY <2>1
    <3>2. \/ date[i] > date[j] \/ (date[i] = date[j] /\ i <= j)
          \/ date[j] > date[i] \/ (date[j] = date[i] /\ j <= i)
      BY <3>1
    <3> QED BY <1>6, <3>2
  <2>3. \A i, j \in P : <<i, j>> \in R /\ <<j, i>> \in R => i = j
    BY <1>6, <2>1
  <2>4. ASSUME NEW i \in P, NEW j \in P, NEW k \in P, <<i, j>> \in R, <<j, k>> \in R PROVE <<i, k>> \in R
    <3>1. /\ date[i] > date[j] \/ (date[i] = date[j] /\ i <= j)
          /\ date[j] > date[k] \/ (date[j] = date[k] /\ j <= k)
      BY <1>6, <2>4
    <3>2. date[i] > date[k] \/ (date[i] = date[k] /\ i <= k)
      BY <2>1, <3>1
    <3> QED BY <1>6, <3>2
  <2> QED BY <2>2, <2>3, <2>4 DEF Orders
<1>8. IsFiniteSet(P) /\ Cardinality(P) = n
  BY <1>5, FS_Interval
<1>9. PICK f : f = InOrder(P, R)
  OBVIOUS
<1>10. /\ f \in [1..Cardinality(P) -> P]
       /\ \A i \in P : \E k \in 1..Cardinality(P) : f[k] = i
       /\ \A k, l \in 1..Cardinality(P) : f[k] = f[l] => k = l
       /\ \A k, l \in 1..Cardinality(P) : k <= l => <<f[k], f[l]>> \in R
  <2>1. IsFiniteSet(P)
    BY <1>8
  <2>2. f \in [1..Cardinality(P) -> P]
    BY <1>7, <1>9, <2>1, InOrderIs
  <2>3. \A i \in P : \E k \in 1..Cardinality(P) : f[k] = i
    BY <1>7, <1>9, <2>1, InOrderIs
  <2>4. \A k, l \in 1..Cardinality(P) : f[k] = f[l] => k = l
    BY <1>7, <1>9, <2>1, InOrderIs
  <2>5. \A k, l \in 1..Cardinality(P) : k <= l => <<f[k], f[l]>> \in R
    BY <1>7, <1>9, <2>1, InOrderIs
  <2> QED BY <2>2, <2>3, <2>4, <2>5
<1>11. /\ f \in [1..n -> 1..n] /\ f = order
       /\ \A i \in 1..n : \E k \in 1..n : f[k] = i
       /\ \A k, l \in 1..n : f[k] = f[l] => k = l
       /\ \A k, l \in 1..n : k <= l => <<f[k], f[l]>> \in R
  BY <1>2, <1>5, <1>8, <1>9, <1>10
<1> HIDE DEF order
<1>12. CASE ask.newest
  <2>1. sorted = [k \in 1..n |-> list[f[k]]]
    BY <1>1, <1>11, <1>12
  <2>2. DOMAIN sorted = 1..n /\ \A k \in 1..n : sorted[k] = list[f[k]] /\ f[k] \in 1..n
    BY <1>11, <2>1
  <2>3. sorted \in Seq(T)
    <3>1. \A k \in 1..n : list[f[k]] \in T
      BY <1>3, <2>2
    <3> QED BY <2>1, <3>1
  <2>4. Places(f, sorted, list, DOMAIN list)
    BY <1>2, <1>11, <2>2 DEF Places
  <2>5. ASSUME NEW i \in DOMAIN list PROVE \E k \in DOMAIN sorted : sorted[k] = list[i]
    <3>1. PICK k \in 1..n : f[k] = i
      BY <1>2, <1>11
    <3> QED BY <2>2, <3>1
  <2>6. ASSUME NEW k \in 1..n, NEW l \in 1..n, k <= l PROVE sorted[k].date >= sorted[l].date
    <3>1. PICK i \in 1..n, j \in 1..n : i = f[k] /\ j = f[l]
      BY <2>2
    <3>2. <<i, j>> \in R
      BY <1>11, <2>6, <3>1
    <3>3. date[i] > date[j] \/ (date[i] = date[j] /\ i <= j)
      BY <1>5, <1>6, <3>2
    <3>4. date[i] \in Nat /\ date[j] \in Nat
      BY <1>4
    <3>5. list[i].date >= list[j].date
      BY <1>4, <3>3, <3>4
    <3> QED BY <2>2, <3>1, <3>5
  <2> QED BY <1>12, <2>2, <2>3, <2>4, <2>5, <2>6
<1>13. CASE ~ask.newest
  <2>1. sorted = list
    BY <1>1, <1>13
  <2> DEFINE same == [k \in DOMAIN list |-> k]
  <2>2. Places(same, sorted, list, DOMAIN list)
    BY <2>1 DEF Places
  <2> HIDE DEF same
  <2> QED BY <1>13, <2>1, <2>2
<1> QED
  BY <1>12, <1>13

(* What is asked of every url holds of an answer, and what is not in it    *)
(* gave way to the limit.                                                  *)
Fitting(list) ==
  /\ \A k, l \in DOMAIN list : list[k].page = list[l].page => k = l
  /\ \A k \in DOMAIN list : list[k].inScope /\ Passes(list[k])

LEMMA FittingPlaces ==
  ASSUME NEW list, NEW picked, NEW S \in SUBSET (DOMAIN list), NEW f, Places(f, picked, list, S),
         \A k, l \in DOMAIN list : list[k].page = list[l].page => k = l,
         \A i \in S : list[i].inScope /\ Passes(list[i])
  PROVE  Fitting(picked)
<1>1. /\ \A k \in DOMAIN picked : f[k] \in S /\ picked[k] = list[f[k]]
      /\ \A k, l \in DOMAIN picked : f[k] = f[l] => k = l
  BY DEF Places
<1>2. ASSUME NEW k \in DOMAIN picked, NEW l \in DOMAIN picked, picked[k].page = picked[l].page PROVE k = l
  <2>1. PICK i, j : i = f[k] /\ j = f[l]
    OBVIOUS
  <2>2. i \in DOMAIN list /\ j \in DOMAIN list /\ list[i].page = list[j].page
    BY <1>1, <1>2, <2>1
  <2>3. i = j
    BY <2>2
  <2> QED BY <1>1, <2>1, <2>3
<1>3. \A k \in DOMAIN picked : picked[k].inScope /\ Passes(picked[k])
  <2> TAKE k \in DOMAIN picked
  <2>1. PICK i \in S : picked[k] = list[i]
    BY <1>1
  <2> QED BY <2>1
<1> QED
  BY <1>2, <1>3 DEF Fitting

Served(urls, all, n) ==
  \A i \in DOMAIN all : all[i].inScope =>
    \E met \in Among(all) :
      /\ met.page = all[i].page
      /\ Passes(met) => \/ \E k \in DOMAIN urls : urls[k].page = met.page
                        \/ /\ Len(urls) = n
                           /\ ask.newest => \A k \in DOMAIN urls : urls[k].date >= met.date

LEMMA AnswerIs ==
  ASSUME NEW T, \A loc \in T : loc.date \in Nat, NEW all \in Seq(T), NEW n \in Nat, NEW urls,
         urls = AtMost(Sorted(Filtered(FirstSpellings(all))), n)
  PROVE  urls \in Seq(T) /\ Fitting(urls) /\ Served(urls, all, n)
<1>1. PICK firsts : firsts = FirstSpellings(all)
  OBVIOUS
<1>2. /\ firsts \in Seq(T) /\ Among(firsts) \subseteq Among(all)
      /\ \A k \in DOMAIN firsts : firsts[k].inScope
      /\ \A k, l \in DOMAIN firsts : firsts[k].page = firsts[l].page => k = l
      /\ \A i \in DOMAIN all : all[i].inScope => \E k \in DOMAIN firsts : firsts[k].page = all[i].page
  BY <1>1, FirstSpellingsAre
<1>3. PICK S : S = {i \in DOMAIN firsts : Passes(firsts[i])}
  OBVIOUS
<1>4. PICK kept : kept = Picked(firsts, S)
  OBVIOUS
<1>5. S \in SUBSET (DOMAIN firsts)
  BY <1>3
<1>6. /\ kept \in Seq(T)
      /\ \A i \in S : \E k \in DOMAIN kept : kept[k] = firsts[i]
      /\ \E f : Places(f, kept, firsts, S)
  BY <1>2, <1>4, <1>5, PickedKeeps
<1>7. Fitting(kept)
  <2>1. \A i \in S : firsts[i].inScope /\ Passes(firsts[i])
    BY <1>2, <1>3
  <2> QED BY <1>2, <1>5, <1>6, <2>1, FittingPlaces
<1>8. PICK sorted : sorted = Sorted(kept)
  OBVIOUS
<1>9. /\ sorted \in Seq(T)
      /\ \A i \in DOMAIN kept : \E k \in DOMAIN sorted : sorted[k] = kept[i]
      /\ \E f : Places(f, sorted, kept, DOMAIN kept)
      /\ ask.newest => \A k, l \in DOMAIN sorted : k <= l => sorted[k].date >= sorted[l].date
  BY <1>6, <1>8, SortedIs
<1>10. Fitting(sorted)
  <2>1. /\ \A k, l \in DOMAIN kept : kept[k].page = kept[l].page => k = l
        /\ \A i \in DOMAIN kept : kept[i].inScope /\ Passes(kept[i])
    BY <1>7 DEF Fitting
  <2> QED BY <1>9, <2>1, FittingPlaces
<1>11. urls = AtMost(sorted, n)
  BY <1>1, <1>3, <1>4, <1>8 DEF Filtered
<1>12. /\ urls \in Seq(T) /\ DOMAIN urls = 1..Len(urls) /\ DOMAIN urls \subseteq DOMAIN sorted
       /\ \A k \in DOMAIN urls : urls[k] = sorted[k]
       /\ \A k \in DOMAIN sorted : k \in DOMAIN urls \/ (Len(urls) = n /\ k > n)
  BY <1>9, <1>11, AtMostKeeps
<1>13. Fitting(urls)
  BY <1>10, <1>12 DEF Fitting
<1>14. ASSUME NEW i \in DOMAIN all, all[i].inScope
       PROVE  \E met \in Among(all) :
                /\ met.page = all[i].page
                /\ Passes(met) => \/ \E k \in DOMAIN urls : urls[k].page = met.page
                                  \/ /\ Len(urls) = n
                                     /\ ask.newest => \A k \in DOMAIN urls : urls[k].date >= met.date
  <2>1. PICK k \in DOMAIN firsts : firsts[k].page = all[i].page
    BY <1>2, <1>14
  <2>2. PICK met : met = firsts[k]
    OBVIOUS
  <2>3. met \in Among(all) /\ met.page = all[i].page
    <3>1. met \in Among(firsts)
      BY <2>2 DEF Among
    <3> QED BY <1>2, <2>1, <2>2, <3>1
  <2>4. ASSUME Passes(met)
        PROVE  \/ \E c \in DOMAIN urls : urls[c].page = met.page
               \/ /\ Len(urls) = n
                  /\ ask.newest => \A c \in DOMAIN urls : urls[c].date >= met.date
    <3>1. k \in S
      BY <1>3, <2>2, <2>4
    <3>2. PICK d \in DOMAIN sorted : sorted[d] = met
      BY <1>6, <1>9, <2>2, <3>1
    <3>3. CASE d \in DOMAIN urls
      BY <1>12, <3>2, <3>3
    <3>4. CASE d \notin DOMAIN urls
      <4>1. Len(urls) = n /\ d > n
        BY <1>12, <3>4
      <4>2. d \in Nat
        BY <1>9
      <4>3. ASSUME ask.newest, NEW c \in DOMAIN urls PROVE urls[c].date >= met.date
        <5>1. c \in DOMAIN sorted /\ c <= d
          BY <1>12, <4>1, <4>2
        <5> QED BY <1>9, <1>12, <3>2, <4>3, <5>1
      <4> QED BY <4>1, <4>3
    <3> QED BY <3>3, <3>4
  <2> QED BY <2>3, <2>4
<1> QED
  BY <1>12, <1>13, <1>14 DEF Served

(* What the sitemaps said and asked for is found, and nothing else, as     *)
(* long as the cap on matching urls is not reached.                        *)
Heard(found, listed, erased) ==
  /\ Among(found) \subseteq listed
  /\ \A i \in DOMAIN found : Mentions(found[i])
  /\ (~erased /\ Len(found) < MaxUrls) => \A loc \in listed : Mentions(loc) => loc \in Among(found)

MapShape ==
  /\ site \in Sites /\ ask \in Asked
  /\ DOMAIN walk = {"at", "queue", "seen", "found", "read"}
  /\ DOMAIN links = {"done", "found"}
  /\ DOMAIN answer = {"status", "urls"}
  /\ walk.found \in Seq(Locs(site)) /\ links.found \in Seq(Locs(site))
  /\ Heard(walk.found, Listed, Erased)

MapInv == MapShape /\ MapIsComplete

(* What the answer says of what is listed and what the page links to.      *)
CompleteFor(urls, asked, listed, capped, known) ==
  /\ \A i, j \in DOMAIN urls : urls[i].page = urls[j].page => i = j
  /\ \A i \in DOMAIN urls :
       urls[i].inScope /\ (asked.search => urls[i].canon) /\ urls[i].date >= asked.since
  /\ ~capped =>
       \A loc \in listed :
         (loc.inScope /\ (asked.search => loc.raw /\ loc.canon) /\ loc.date >= asked.since) =>
           \/ \E i \in DOMAIN urls : urls[i].page = loc.page
           \/ /\ Len(urls) = asked.limit
              /\ asked.newest => \A i \in DOMAIN urls : urls[i].date >= loc.date
           \/ \E other \in known : other.page = loc.page /\ other.date # loc.date

Kinship == Listed \cup Among(links.found) \cup {site.seed}
Matching == {i \in DOMAIN walk.found : ~ask.search \/ walk.found[i].raw}

LEMMA CompleteMeans ==
  MapIsComplete <=>
    ((answer.status = 200 /\ ~Erased) =>
       CompleteFor(answer.urls, ask, Listed, ~(Cardinality(Matching) < MaxUrls), Kinship))
<1>1. Matching = {i \in DOMAIN walk.found : Mentions(walk.found[i])}
  BY DEF Matching, Mentions
<1>2. \A loc \in Listed : loc \in {l \in Listed : LookedFor(l)} <=>
        (loc.inScope /\ (ask.search => loc.raw /\ loc.canon) /\ loc.date >= ask.since)
  BY DEF LookedFor
<1> QED
  BY <1>1, <1>2 DEF MapIsComplete, CompleteFor, Kinship

LEMMA LocsAre ==
  ASSUME NEW s \in Sites
  PROVE  /\ s.seed \in Locs(s) /\ s.links \in Seq(Locs(s))
         /\ \A n \in PageDocs(s) : s.doc[n].entries \in Seq(Locs(s))
         /\ \A loc \in Locs(s) : loc.date \in Nat
         /\ \A loc, other \in Locs(s) :
              loc.page = other.page => (loc.inScope <=> other.inScope) /\ (loc.canon <=> other.canon)
  BY SiteAssumption DEF Locs

(* What MapAnswers answers with.                                           *)
LEMMA AnswerIsComplete ==
  ASSUME MapShape, ~Erased, NEW all \in Seq(Locs(site)),
         Among(all) = {site.seed} \cup Among(walk.found) \cup Among(links.found),
         NEW urls, urls = AtMost(Sorted(Filtered(FirstSpellings(all))), ask.limit)
  PROVE  CompleteFor(urls, ask, Listed, ~(Cardinality(Matching) < MaxUrls), Kinship)
<1>1. PICK T : T = Locs(site)
  OBVIOUS
<1>2. /\ site.seed \in T /\ \A loc \in T : loc.date \in Nat
      /\ \A loc, other \in T : loc.page = other.page => (loc.canon <=> other.canon)
  BY <1>1, LocsAre DEF MapShape
<1>3. walk.found \in Seq(T) /\ links.found \in Seq(T)
  BY <1>1 DEF MapShape
<1>4. ask.limit \in Nat /\ ask.since \in Nat
  BY SiteAssumption DEF MapShape
<1>5. all \in Seq(T)
  BY <1>1
<1>6. Among(all) = {site.seed} \cup Among(walk.found) \cup Among(links.found)
  OBVIOUS
<1>7. PICK limit \in Nat : limit = ask.limit
  BY <1>4
<1>8. urls = AtMost(Sorted(Filtered(FirstSpellings(all))), limit)
  BY <1>7
<1>9. urls \in Seq(T) /\ Fitting(urls) /\ Served(urls, all, limit)
  BY <1>2, <1>5, <1>8, AnswerIs
<1>10. \A k \in DOMAIN urls : urls[k] \in T
  BY <1>9
<1>11. \A i \in DOMAIN urls : urls[i].inScope /\ (ask.search => urls[i].canon) /\ urls[i].date >= ask.since
  <2> TAKE i \in DOMAIN urls
  <2>1. urls[i].inScope /\ Passes(urls[i]) /\ urls[i].date \in Nat
    BY <1>2, <1>9, <1>10 DEF Fitting
  <2>2. (ask.search => urls[i].canon) /\ (ask.since > 0 => urls[i].date >= ask.since)
    BY <2>1 DEF Passes
  <2> QED BY <1>4, <2>1, <2>2
<1>12. Cardinality(Matching) < MaxUrls => Len(walk.found) < MaxUrls
  <2>1. PICK n \in Nat : n = Len(walk.found) /\ DOMAIN walk.found = 1..n
    BY <1>3
  <2>2. Matching = 1..n
    BY <2>1 DEF Matching, MapShape, Heard, Mentions
  <2>3. Cardinality(1..n) = n
    BY FS_Interval
  <2> QED BY <2>1, <2>2, <2>3
<1>13. ASSUME Len(walk.found) < MaxUrls, NEW loc \in Listed,
              loc.inScope, ask.search => loc.raw /\ loc.canon, loc.date >= ask.since
       PROVE  \/ \E i \in DOMAIN urls : urls[i].page = loc.page
              \/ /\ Len(urls) = ask.limit
                 /\ ask.newest => \A i \in DOMAIN urls : urls[i].date >= loc.date
              \/ \E other \in Kinship : other.page = loc.page /\ other.date # loc.date
  <2>1. Mentions(loc)
    BY <1>13 DEF Mentions
  <2>2. loc \in Among(walk.found)
    BY <1>13, <2>1 DEF MapShape, Heard
  <2>3. PICK i \in DOMAIN all : all[i] = loc
    <3>1. loc \in Among(all)
      BY <1>6, <2>2
    <3> QED BY <3>1 DEF Among
  <2>4. PICK met \in Among(all) :
          /\ met.page = loc.page
          /\ Passes(met) => \/ \E k \in DOMAIN urls : urls[k].page = met.page
                            \/ /\ Len(urls) = ask.limit
                               /\ ask.newest => \A k \in DOMAIN urls : urls[k].date >= met.date
    BY <1>9, <1>13, <1>7, <2>3 DEF Served
  <2>5. met \in Kinship
    BY <1>6 DEF Kinship, MapShape, Heard
  <2>6. loc \in T /\ met \in T
    <3>1. Among(all) \subseteq T
      BY <1>5 DEF Among
    <3> QED BY <1>6, <2>2, <2>4, <3>1
  <2>7. ASSUME met.date = loc.date PROVE Passes(met)
    <3>1. ask.search => met.canon
      BY <1>2, <1>13, <2>4, <2>6
    <3> QED BY <1>13, <2>7, <3>1 DEF Passes
  <2>8. CASE met.date = loc.date
    BY <2>4, <2>7, <2>8
  <2>9. CASE met.date # loc.date
    BY <2>4, <2>5, <2>9
  <2> QED BY <2>8, <2>9
<1>14. \A i, j \in DOMAIN urls : urls[i].page = urls[j].page => i = j
  BY <1>9 DEF Fitting
<1> HIDE DEF Kinship, Matching
<1> QED
  BY <1>11, <1>12, <1>13, <1>14 DEF CompleteFor

LEMMA WholeKept ==
  ASSUME site' = site, NEW n PROVE Whole(n)' = Whole(n) /\ (Unparsable(n)' <=> Unparsable(n))
  BY DEF Whole, Unparsable

LEMMA ListedKept ==
  ASSUME site' = site, walk'.read \cap PageDocs(site) = walk.read \cap PageDocs(site) PROVE Listed' = Listed
<1>1. \A n : Whole(n)' = Whole(n)
  BY WholeKept
<1> QED BY <1>1 DEF Listed

LEMMA ListedGrows ==
  ASSUME site' = site, NEW d \in PageDocs(site), walk'.read = walk.read \cup {d}
  PROVE  Listed' = Listed \cup Among(Whole(d))
<1>1. \A n : Whole(n)' = Whole(n)
  BY WholeKept
<1>2. PageDocs(site)' = PageDocs(site)
  OBVIOUS
<1>3. Listed' = UNION {Among(Whole(n)) : n \in walk'.read \cap PageDocs(site)}
  BY <1>1, <1>2 DEF Listed
<1>4. walk'.read \cap PageDocs(site) = (walk.read \cap PageDocs(site)) \cup {d}
  OBVIOUS
<1> QED BY <1>3, <1>4 DEF Listed

LEMMA ErasedStays ==
  ASSUME site' = site, walk.seen \subseteq walk'.seen, Erased PROVE Erased'
  BY WholeKept DEF Erased

LEMMA ShapeKept ==
  ASSUME MapShape, site' = site, ask' = ask,
         DOMAIN walk' = {"at", "queue", "seen", "found", "read"}, DOMAIN links' = {"done", "found"},
         DOMAIN answer' = {"status", "urls"},
         walk'.found \in Seq(Locs(site)), links'.found \in Seq(Locs(site)),
         Heard(walk'.found, Listed', Erased')
  PROVE  MapShape'
<1>1. \A loc : Mentions(loc)' <=> Mentions(loc)
  BY DEF Mentions
<1> QED BY <1>1 DEF MapShape, Heard

LEMMA HeardKept ==
  ASSUME MapShape, walk'.found = walk.found, Listed' = Listed, Erased => Erased'
  PROVE  Heard(walk'.found, Listed', Erased')
  BY DEF MapShape, Heard

LEMMA TakenAre ==
  ASSUME MapShape, NEW d \in PageDocs(site)
  PROVE  /\ TakenLocs(d) \in Seq(Locs(site)) /\ Among(TakenLocs(d)) \subseteq Among(Whole(d))
         /\ \A loc \in Among(TakenLocs(d)) : Mentions(loc)
         /\ \A loc \in Among(Whole(d)) : Mentions(loc) => loc \in Among(TakenLocs(d))
<1>1. PICK T, entries : T = Locs(site) /\ entries = site.doc[d].entries
  OBVIOUS
<1>2. entries \in Seq(T)
  BY <1>1, LocsAre DEF MapShape
<1>3. PICK whole : whole = Whole(d)
  OBVIOUS
<1>4. whole \in Seq(T)
  <2>1. CASE site.doc[d].cut /\ entries # <<>>
    <3>1. Len(entries) - 1 \in Nat
      BY <1>2, <2>1
    <3>2. whole = AtMost(entries, Len(entries) - 1)
      BY <1>1, <1>3, <2>1 DEF Whole
    <3> QED BY <1>2, <3>1, <3>2, AtMostKeeps
  <2>2. CASE ~(site.doc[d].cut /\ entries # <<>>)
    BY <1>1, <1>2, <1>3, <2>2 DEF Whole
  <2> QED BY <2>1, <2>2
<1>5. PICK S : S = {i \in DOMAIN whole : Mentions(whole[i])}
  OBVIOUS
<1>6. PICK taken : taken = Picked(whole, S)
  OBVIOUS
<1>7. taken = TakenLocs(d) /\ S \in SUBSET (DOMAIN whole) /\ \A i \in S : Mentions(whole[i])
  BY <1>3, <1>5, <1>6 DEF TakenLocs
<1>8. /\ taken \in Seq(T)
      /\ \A i \in S : \E k \in DOMAIN taken : taken[k] = whole[i]
      /\ \E f : Places(f, taken, whole, S)
  BY <1>4, <1>6, <1>7, PickedKeeps
<1>9. ASSUME NEW k \in DOMAIN taken PROVE \E i \in S : taken[k] = whole[i]
  BY <1>8 DEF Places
<1>10. ASSUME NEW loc \in Among(taken) PROVE loc \in Among(whole) /\ Mentions(loc)
  <2>1. PICK k \in DOMAIN taken : loc = taken[k]
    BY DEF Among
  <2>2. PICK i \in S : loc = whole[i]
    BY <1>9, <2>1
  <2> QED BY <1>7, <2>2 DEF Among
<1>11. ASSUME NEW loc \in Among(whole), Mentions(loc) PROVE loc \in Among(taken)
  <2>1. PICK i \in DOMAIN whole : loc = whole[i]
    BY DEF Among
  <2>2. i \in S
    BY <1>5, <1>11, <2>1
  <2> QED BY <1>8, <2>1, <2>2 DEF Among
<1> QED
  BY <1>1, <1>3, <1>7, <1>8, <1>10, <1>11

LEMMA CompleteMeansNext ==
  (MapIsComplete <=>
    ((answer.status = 200 /\ ~Erased) =>
       CompleteFor(answer.urls, ask, Listed, ~(Cardinality(Matching) < MaxUrls), Kinship)))'
  BY CompleteMeans, PTL

LEMMA MapStarts == MapInit => MapInv
<1> SUFFICES ASSUME MapInit PROVE MapInv
  OBVIOUS
<1>1. /\ site \in Sites /\ ask \in Asked
      /\ DOMAIN walk = {"at", "queue", "seen", "found", "read"} /\ walk.found = <<>> /\ walk.read = {}
      /\ DOMAIN links = {"done", "found"} /\ links.found = <<>>
      /\ DOMAIN answer = {"status", "urls"} /\ answer.status = 0
  BY DEF MapInit, NotBack
<1>2. Listed = {} /\ Among(<<>>) = {}
  BY <1>1 DEF Listed, Among
<1>3. Heard(walk.found, Listed, Erased)
  BY <1>1, <1>2 DEF Heard
<1>4. MapShape
  BY <1>1, <1>3 DEF MapShape
<1> QED
  BY <1>1, <1>4 DEF MapInv, MapIsComplete

LEMMA MapMoves == MapInv /\ [MapNext]_mvars => MapInv'
<1> SUFFICES ASSUME MapInv, [MapNext]_mvars PROVE MapInv'
  OBVIOUS
<1>0. MapShape /\ MapIsComplete
  BY DEF MapInv
<1>1. /\ DOMAIN walk = {"at", "queue", "seen", "found", "read"}
      /\ DOMAIN links = {"done", "found"} /\ DOMAIN answer = {"status", "urls"}
      /\ walk.found \in Seq(Locs(site)) /\ links.found \in Seq(Locs(site)) /\ site \in Sites
  BY <1>0 DEF MapShape
<1>2. MaxUrls \in Nat
  BY SiteAssumption
<1>3. ASSUME answer'.status # 200 PROVE MapIsComplete'
  BY <1>3 DEF MapIsComplete
<1>4. CASE UNCHANGED mvars
  <2>1. site' = site /\ ask' = ask /\ walk' = walk /\ links' = links /\ answer' = answer
    BY <1>4 DEF mvars
  <2>2. Listed' = Listed /\ (Erased <=> Erased')
    BY <2>1, ListedKept, WholeKept DEF Erased
  <2>3. MapShape'
    BY <1>0, <1>1, <2>1, <2>2, HeardKept, ShapeKept
  <2>4. Matching' = Matching /\ Kinship' = Kinship
    BY <2>1, <2>2 DEF Matching, Kinship
  <2>5. MapIsComplete'
    BY <1>0, <2>1, <2>2, <2>4, CompleteMeans, CompleteMeansNext
  <2> QED BY <2>3, <2>5 DEF MapInv
<1>5. ASSUME site' = site, ask' = ask, links' = links, answer' = answer, answer.status = 0,
             DOMAIN walk' = {"at", "queue", "seen", "found", "read"},
             walk'.found \in Seq(Locs(site)), Heard(walk'.found, Listed', Erased')
      PROVE  MapInv'
  <2>1. MapShape'
    BY <1>0, <1>1, <1>5, ShapeKept
  <2>2. MapIsComplete'
    BY <1>3, <1>5
  <2> QED BY <2>1, <2>2 DEF MapInv
<1>6. ASSUME site' = site, ask' = ask, walk' = walk, DOMAIN links' = {"done", "found"},
             links'.found \in Seq(Locs(site)), DOMAIN answer' = {"status", "urls"}, MapIsComplete'
      PROVE  MapInv'
  <2>1. Listed' = Listed /\ (Erased => Erased')
    BY <1>6, ListedKept, ErasedStays
  <2>2. MapShape'
    BY <1>0, <1>1, <1>6, <2>1, HeardKept, ShapeKept
  <2> QED BY <1>6, <2>2 DEF MapInv
<1>7. ASSUME site' = site, ask' = ask, links' = links, answer' = answer, answer.status = 0,
             DOMAIN walk' = {"at", "queue", "seen", "found", "read"}, walk'.found = walk.found,
             walk.seen \subseteq walk'.seen, walk'.read \cap PageDocs(site) = walk.read \cap PageDocs(site)
      PROVE  MapInv'
  <2>1. Listed' = Listed /\ (Erased => Erased')
    BY <1>7, ListedKept, ErasedStays
  <2>2. Heard(walk'.found, Listed', Erased')
    BY <1>0, <1>7, <2>1, HeardKept
  <2> QED BY <1>1, <1>5, <1>7, <2>2
<1>8. ASSUME Running PROVE answer.status = 0
  BY <1>8 DEF Running
<1>9. CASE ProxyRefused
  <2>1. /\ site' = site /\ ask' = ask /\ walk' = walk /\ links' = links
        /\ answer' = [answer EXCEPT !.status = 502]
    BY <1>9 DEF ProxyRefused
  <2>2. DOMAIN answer' = {"status", "urls"} /\ answer'.status # 200
    BY <1>1, <2>1
  <2> QED BY <1>1, <1>3, <1>6, <2>1, <2>2
<1>10. CASE Discover
  <2>1. /\ Running /\ UNCHANGED <<site, ask, links, answer>>
        /\ \/ walk' = [walk EXCEPT !.at = "done"]
           \/ \E names \in {site.robots, Fallback} : walk' = [walk EXCEPT !.at = "walk", !.queue = names]
    BY <1>10 DEF Discover
  <2>2. /\ DOMAIN walk' = {"at", "queue", "seen", "found", "read"} /\ walk'.found = walk.found
        /\ walk'.seen = walk.seen /\ walk'.read = walk.read
    BY <1>1, <2>1
  <2> QED BY <1>7, <1>8, <2>1, <2>2
<1>11. CASE SkipSeen
  <2>1. Running /\ UNCHANGED <<site, ask, links, answer>> /\ walk' = [walk EXCEPT !.queue = Tail(@)]
    BY <1>11 DEF SkipSeen, Walking, Turn
  <2>2. /\ DOMAIN walk' = {"at", "queue", "seen", "found", "read"} /\ walk'.found = walk.found
        /\ walk'.seen = walk.seen /\ walk'.read = walk.read
    BY <1>1, <2>1
  <2> QED BY <1>7, <1>8, <2>1, <2>2
<1>12. PICK d : d = Doc
  OBVIOUS
<1>13. PICK visited : visited = Visited
  OBVIOUS
<1>14. /\ DOMAIN visited = {"at", "queue", "seen", "found", "read"} /\ visited.found = walk.found
       /\ visited.seen = walk.seen \cup {d} /\ visited.read = walk.read
  BY <1>1, <1>12, <1>13 DEF Visited
<1>15. CASE FetchFails
  <2>1. Running /\ UNCHANGED <<site, ask, links, answer>> /\ walk' = visited
    BY <1>13, <1>15 DEF FetchFails, Unseen, Walking, Turn
  <2> QED BY <1>7, <1>8, <1>14, <2>1
<1>16. CASE WalkRaises
  <2>1. /\ Running /\ UNCHANGED <<site, ask, links, answer>> /\ Unparsable(d)
        /\ walk' = [visited EXCEPT !.at = "done", !.found = <<>>]
    BY <1>12, <1>13, <1>16 DEF WalkRaises, Unseen, Walking, Turn
  <2>2. /\ DOMAIN walk' = {"at", "queue", "seen", "found", "read"} /\ walk'.found = <<>>
        /\ walk'.seen = walk.seen \cup {d}
    BY <1>14, <2>1
  <2>3. Erased'
    BY <2>1, <2>2, WholeKept DEF Erased
  <2>4. Heard(walk'.found, Listed', Erased')
    BY <2>2, <2>3 DEF Heard, Among
  <2> QED BY <1>5, <1>8, <2>1, <2>2, <2>4
<1>17. CASE ReadPages
  <2>1. PICK taken : taken = TakenLocs(d)
    OBVIOUS
  <2>2. /\ Running /\ UNCHANGED <<site, ask, links, answer>>
        /\ d \in DOMAIN site.doc /\ site.doc[d].kind = "pages"
        /\ walk' = [visited EXCEPT !.found = @ \o taken, !.read = @ \cup {d}]
    BY <1>12, <1>13, <1>17, <2>1 DEF ReadPages, Unseen, Walking, Turn, Fetchable
  <2>3. PICK found : found = Joined(walk.found, taken)
    OBVIOUS
  <2>4. /\ DOMAIN walk' = {"at", "queue", "seen", "found", "read"} /\ walk'.found = found
        /\ walk'.seen = walk.seen \cup {d} /\ walk'.read = walk.read \cup {d}
    BY <1>14, <2>2, <2>3 DEF Joined
  <2>5. d \in PageDocs(site)
    BY <2>2 DEF PageDocs
  <2>6. /\ taken \in Seq(Locs(site)) /\ Among(taken) \subseteq Among(Whole(d))
        /\ \A loc \in Among(taken) : Mentions(loc)
        /\ \A loc \in Among(Whole(d)) : Mentions(loc) => loc \in Among(taken)
    BY <1>0, <2>1, <2>5, TakenAre
  <2>7. Listed' = Listed \cup Among(Whole(d))
    BY <2>2, <2>4, <2>5, ListedGrows
  <2>8. Erased => Erased'
    BY <2>2, <2>4, ErasedStays
  <2>9. found \in Seq(Locs(site)) /\ Among(found) = Among(walk.found) \cup Among(taken)
    BY <1>1, <2>3, <2>6, JoinedIs
  <2>10. Len(found) < MaxUrls => Len(walk.found) < MaxUrls
    BY <1>1, <1>2, <2>3, <2>6, JoinedIsLonger
  <2>11. Heard(walk.found, Listed, Erased)
    BY <1>0 DEF MapShape
  <2>12. Heard(found, Listed', Erased')
    <3>1. Among(found) \subseteq Listed'
      BY <2>6, <2>7, <2>9, <2>11 DEF Heard
    <3>2. \A i \in DOMAIN found : Mentions(found[i])
      <4>1. \A loc \in Among(walk.found) : Mentions(loc)
        BY <2>11 DEF Heard, Among
      <4>2. \A loc \in Among(found) : Mentions(loc)
        BY <2>6, <2>9, <4>1
      <4> QED BY <4>2 DEF Among
    <3>3. ASSUME ~Erased', Len(found) < MaxUrls, NEW loc \in Listed', Mentions(loc) PROVE loc \in Among(found)
      BY <2>6, <2>7, <2>8, <2>9, <2>10, <2>11, <3>3 DEF Heard
    <3> QED BY <3>1, <3>2, <3>3 DEF Heard
  <2> QED BY <1>5, <1>8, <2>2, <2>4, <2>9, <2>12
<1>18. CASE ReadIndex
  <2>1. \E children :
          /\ Running /\ UNCHANGED <<site, ask, links, answer>> /\ site.doc[d].kind = "index"
          /\ walk' = [visited EXCEPT !.queue = @ \o children, !.read = @ \cup {d}]
    BY <1>12, <1>13, <1>18 DEF ReadIndex, Unseen, Walking, Turn
  <2>2. /\ DOMAIN walk' = {"at", "queue", "seen", "found", "read"} /\ walk'.found = walk.found
        /\ walk'.seen = walk.seen \cup {d} /\ walk'.read = walk.read \cup {d}
    BY <1>14, <2>1
  <2>3. d \notin PageDocs(site)
    BY <2>1 DEF PageDocs
  <2>4. walk'.read \cap PageDocs(site) = walk.read \cap PageDocs(site)
    BY <2>2, <2>3
  <2>5. Running /\ UNCHANGED <<site, ask, links, answer>> /\ walk.seen \subseteq walk'.seen
    BY <2>1, <2>2
  <2> QED BY <1>7, <1>8, <2>2, <2>4, <2>5
<1>19. CASE WalkEnds
  <2>1. /\ Running /\ UNCHANGED <<site, ask, links, answer>>
        /\ walk' = [walk EXCEPT !.at = "done", !.found = AtMost(@, MaxUrls)]
    BY <1>19 DEF WalkEnds
  <2>2. PICK found, kept : found = walk.found /\ kept = AtMost(found, MaxUrls)
    OBVIOUS
  <2>3. /\ DOMAIN walk' = {"at", "queue", "seen", "found", "read"} /\ walk'.found = kept
        /\ walk'.seen = walk.seen /\ walk'.read = walk.read
    BY <1>1, <2>1, <2>2
  <2>4. /\ kept \in Seq(Locs(site)) /\ DOMAIN kept \subseteq DOMAIN found
        /\ \A k \in DOMAIN kept : kept[k] = found[k]
        /\ Len(found) <= MaxUrls => kept = found
        /\ Len(found) > MaxUrls => Len(kept) = MaxUrls
    BY <1>1, <1>2, <2>2, AtMostKeeps
  <2>5. Listed' = Listed /\ (Erased => Erased')
    BY <2>1, <2>3, ListedKept, ErasedStays
  <2>6. Heard(found, Listed, Erased)
    BY <1>0, <2>2 DEF MapShape
  <2>7. Len(kept) < MaxUrls => kept = found
    BY <1>1, <1>2, <2>2, <2>4
  <2>8. Heard(kept, Listed', Erased')
    <3>1. Among(kept) \subseteq Among(found)
      BY <2>4 DEF Among
    <3>2. \A i \in DOMAIN kept : Mentions(kept[i])
      BY <2>4, <2>6 DEF Heard
    <3> QED BY <2>5, <2>6, <2>7, <3>1, <3>2 DEF Heard
  <2> QED BY <1>5, <1>8, <2>1, <2>3, <2>4, <2>8
<1>20. CASE SeedLeg
  <2>1. site' = site /\ ask' = ask /\ walk' = walk /\ answer.status = 0
    BY <1>20 DEF SeedLeg
  <2>2. CASE links' = [done |-> TRUE, found |-> <<>>] /\ UNCHANGED answer
    <3>1. DOMAIN links' = {"done", "found"} /\ links'.found \in Seq(Locs(site)) /\ answer' = answer
      BY <2>2
    <3> QED BY <1>1, <1>3, <1>6, <2>1, <3>1
  <2>3. CASE answer' = [answer EXCEPT !.status = 500] /\ UNCHANGED links
    <3>1. DOMAIN answer' = {"status", "urls"} /\ answer'.status # 200 /\ links' = links
      BY <1>1, <2>3
    <3> QED BY <1>1, <1>3, <1>6, <2>1, <3>1
  <2>4. CASE links' = [done |-> TRUE, found |-> site.links] /\ UNCHANGED answer
    <3>1. DOMAIN links' = {"done", "found"} /\ links'.found = site.links /\ answer' = answer
      BY <2>4
    <3>2. links'.found \in Seq(Locs(site))
      BY <1>1, <3>1, LocsAre
    <3> QED BY <1>1, <1>3, <1>6, <2>1, <3>1, <3>2
  <2> QED BY <1>20, <2>2, <2>3, <2>4 DEF SeedLeg
<1>21. CASE MapAnswers
  <2>1. /\ site' = site /\ ask' = ask /\ walk' = walk /\ links' = links /\ answer.status = 0
    BY <1>21 DEF MapAnswers
  <2>2. PICK all : all = <<site.seed>> \o walk.found \o links.found
    OBVIOUS
  <2>3. PICK urls : urls = AtMost(Sorted(Filtered(FirstSpellings(all))), ask.limit)
    OBVIOUS
  <2>4. answer' = [status |-> 200, urls |-> urls]
    BY <1>21, <2>2, <2>3 DEF MapAnswers
  <2>5. DOMAIN answer' = {"status", "urls"} /\ answer'.urls = urls
    BY <2>4
  <2>6. all \in Seq(Locs(site)) /\ Among(all) = {site.seed} \cup Among(walk.found) \cup Among(links.found)
    <3>1. site.seed \in Locs(site)
      BY <1>1, LocsAre
    <3>2. PICK T, seed, found, linked : T = Locs(site) /\ seed = site.seed /\ found = walk.found /\ linked = links.found
      OBVIOUS
    <3>3. seed \in T /\ found \in Seq(T) /\ linked \in Seq(T)
      BY <1>1, <3>1, <3>2
    <3>4. all = Everything(seed, found, linked)
      BY <2>2, <3>2 DEF Everything
    <3>5. all \in Seq(T) /\ Among(all) = {seed} \cup Among(found) \cup Among(linked)
      BY <3>3, <3>4, EverythingIs
    <3> QED BY <3>2, <3>5
  <2>7. ~Erased => CompleteFor(urls, ask, Listed, ~(Cardinality(Matching) < MaxUrls), Kinship)
    BY <1>0, <2>3, <2>6, AnswerIsComplete
  <2>8. Listed' = Listed /\ (Erased => Erased')
    BY <2>1, ListedKept, ErasedStays
  <2>9. Matching' = Matching /\ Kinship' = Kinship
    BY <2>1, <2>8 DEF Matching, Kinship
  <2>10. MapIsComplete'
    BY <2>1, <2>5, <2>7, <2>8, <2>9, CompleteMeansNext
  <2> QED BY <1>1, <1>6, <2>1, <2>5, <2>10
<1> QED
  BY <1>4, <1>9, <1>10, <1>11, <1>15, <1>16, <1>17, <1>18, <1>19, <1>20, <1>21 DEF MapNext

(* No page the sitemaps list and the caller asks for is missing from a     *)
(* map, whatever else they are full of (collect_sitemap_urls, create_map). *)
THEOREM MapsAreComplete == MapSpec => []MapIsComplete
<1>1. MapInv => MapIsComplete
  BY DEF MapInv
<1> QED
  BY <1>1, MapStarts, MapMoves, PTL DEF MapSpec
=============================================================================
