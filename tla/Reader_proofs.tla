---------------------------- MODULE Reader_proofs ----------------------------
(* Proofs about what a reader is given: the text of a page, what another    *)
(* reader shares, what is shown of a briefing's stored answer, and how a    *)
(* briefing is made.                                                        *)
EXTENDS BriefingBudget, PageFetch, BriefingPipeline, Shares, FiniteSetTheorems, SequenceTheorems,
        NaturalsInduction, WellFoundedInduction, TLAPS

-----------------------------------------------------------------------------
(* Numbers and finite sets                                                 *)

\* A set of natural numbers that is not empty has a least member.
LEMMA LeastNatural ==
  ASSUME NEW S \in SUBSET Nat, S # {}
  PROVE  \E x \in S : \A y \in S : x <= y
<1> DEFINE R == {ss \in Nat \X Nat : ss[1] < ss[2]}
<1>1. IsWellFoundedOn(R, Nat)
  BY NatLessThanWellFounded, Zenon DEF OpToRel
<1>2. PICK x \in S : \A y \in S : <<y, x>> \notin R
  BY <1>1, WFMin
<1>3. \A y \in S : ~(y < x)
  BY <1>2
<1> QED
  BY <1>3

\* A set of natural numbers that is bounded has a greatest member.
LEMMA MaxIsGreatest ==
  ASSUME NEW n \in Nat, NEW S \in SUBSET (0 .. n), S # {}
  PROVE  Max(S) \in S /\ \A y \in S : Max(S) >= y
<1> DEFINE T == {n - x : x \in S}
<1>1. PICK y \in T : \A z \in T : y <= z
  <2>1. \A x \in S : n - x \in Nat
    OBVIOUS
  <2>2. T \in SUBSET Nat /\ T # {}
    BY <2>1
  <2> HIDE DEF T
  <2> QED
    BY <2>2, LeastNatural
<1>2. PICK x \in S : y = n - x
  OBVIOUS
<1>3. \A z \in S : n - x <= n - z
  BY <1>1, <1>2
<1>4. \A z \in S : x >= z
  BY <1>3
<1> QED
  BY <1>4 DEF Max

\* What a function makes of a finite set is finite.
LEMMA ImageFinite ==
  ASSUME NEW f, NEW S, IsFiniteSet(S)
  PROVE  IsFiniteSet({f[x] : x \in S}) /\ Cardinality({f[x] : x \in S}) <= Cardinality(S)
<1> DEFINE T == {f[x] : x \in S}
           g == [x \in S |-> f[x]]
<1>1. g \in Surjection(S, T)
  BY DEF Surjection
<1> HIDE DEF T, g
<1>2. IsFiniteSet(T) /\ Cardinality(T) <= Cardinality(S)
  BY <1>1, FS_Surjection
<1> QED
  BY <1>2 DEF T

LEMMA CardinalityOfTwo ==
  ASSUME NEW S, NEW T, IsFiniteSet(S), IsFiniteSet(T), S \cap T = {}
  PROVE  /\ IsFiniteSet(S \cup T)
         /\ Cardinality(S \cup T) = Cardinality(S) + Cardinality(T)
<1>1. Cardinality(S \cup T) = Cardinality(S) + Cardinality(T) - Cardinality(S \cap T)
      /\ IsFiniteSet(S \cup T)
  BY FS_Union
<1>2. Cardinality(S \cap T) = 0
  BY FS_EmptySet
<1>3. Cardinality(S) \in Nat /\ Cardinality(T) \in Nat
  BY FS_CardinalityType
<1> QED
  BY <1>1, <1>2, <1>3

\* Of a set that is ordered strictly by R, every element has a place of its own,
\* the number of those before it, and there are no other places.
PlaceOf(S, R, x) == Cardinality({y \in S : <<y, x>> \in R})
StrictlyOrders(R, S) ==
  /\ \A x, y \in S : x # y => <<x, y>> \in R \/ <<y, x>> \in R
  /\ \A x, y, z \in S : <<x, y>> \in R /\ <<y, z>> \in R => <<x, z>> \in R
  /\ \A x \in S : <<x, x>> \notin R

LEMMA PlacesAscend ==
  ASSUME NEW S, IsFiniteSet(S), NEW R, StrictlyOrders(R, S), NEW x \in S
  PROVE  /\ PlaceOf(S, R, x) \in 0 .. Cardinality(S) - 1
         /\ \A y \in S : <<x, y>> \in R <=> PlaceOf(S, R, x) < PlaceOf(S, R, y)
         /\ \A y \in S : PlaceOf(S, R, x) = PlaceOf(S, R, y) => x = y
<1> DEFINE P(y) == {z \in S : <<z, y>> \in R}
<1>1. ASSUME NEW y \in S
      PROVE  IsFiniteSet(P(y)) /\ Cardinality(P(y)) \in Nat /\ PlaceOf(S, R, y) = Cardinality(P(y))
  <2>1. P(y) \in SUBSET S
    OBVIOUS
  <2>2. IsFiniteSet(P(y))
    BY <2>1, FS_Subset
  <2> QED
    BY <2>2, FS_CardinalityType DEF PlaceOf
<1>2. ASSUME NEW y \in S, NEW z \in S, <<y, z>> \in R
      PROVE  PlaceOf(S, R, y) < PlaceOf(S, R, z)
  <2>1. P(y) \cup {y} \in SUBSET P(z) /\ y \notin P(y)
    BY <1>2 DEF StrictlyOrders
  <2> HIDE DEF P
  <2>2. Cardinality(P(y) \cup {y}) = Cardinality(P(y)) + 1
    BY <1>1, <2>1, FS_AddElement
  <2>3. Cardinality(P(y) \cup {y}) <= Cardinality(P(z))
    BY <1>1, <2>1, FS_Subset
  <2> QED
    BY <1>1, <2>2, <2>3
<1>3. PlaceOf(S, R, x) <= Cardinality(S) - 1
  <2>1. P(x) \in SUBSET (S \ {x})
    BY DEF StrictlyOrders
  <2>2. IsFiniteSet(S \ {x}) /\ Cardinality(S \ {x}) = Cardinality(S) - 1
    BY FS_RemoveElement
  <2> HIDE DEF P
  <2>3. Cardinality(P(x)) <= Cardinality(S \ {x})
    BY <2>1, <2>2, FS_Subset
  <2> QED
    BY <1>1, <2>2, <2>3
<1>4. Cardinality(S) \in Nat
  BY FS_CardinalityType
<1>5. \A y \in S : PlaceOf(S, R, y) \in Nat
  BY <1>1
<1>6. ASSUME NEW y \in S
      PROVE  /\ <<x, y>> \in R <=> PlaceOf(S, R, x) < PlaceOf(S, R, y)
             /\ PlaceOf(S, R, x) = PlaceOf(S, R, y) => x = y
  <2>1. x = y \/ <<x, y>> \in R \/ <<y, x>> \in R
    BY DEF StrictlyOrders
  <2>2. PlaceOf(S, R, x) \in Nat /\ PlaceOf(S, R, y) \in Nat
    BY <1>5
  <2>3. CASE x = y
    BY <2>2, <2>3 DEF StrictlyOrders
  <2>4. CASE <<x, y>> \in R
    BY <1>2, <2>2, <2>4
  <2>5. CASE <<y, x>> \in R
    <3>1. PlaceOf(S, R, y) < PlaceOf(S, R, x)
      BY <1>2, <2>5
    <3> QED
      BY <1>2, <2>2, <3>1
  <2> QED
    BY <2>1, <2>3, <2>4, <2>5
<1>7. PlaceOf(S, R, x) \in 0 .. Cardinality(S) - 1
  BY <1>3, <1>4, <1>5
<1> QED
  BY <1>6, <1>7

LEMMA EveryPlaceIsTaken ==
  ASSUME NEW S, IsFiniteSet(S), NEW R, StrictlyOrders(R, S), NEW i \in 0 .. Cardinality(S) - 1
  PROVE  \E x \in S : PlaceOf(S, R, x) = i
<1> DEFINE n == Cardinality(S)
           T == 0 .. n - 1
           f == [x \in S |-> PlaceOf(S, R, x)]
<1>1. n \in Nat
  BY FS_CardinalityType
<1>2. f \in Injection(S, T)
  BY PlacesAscend DEF Injection, IsInjective
<1>3. IsFiniteSet(T) /\ Cardinality(T) = n
  <2>1. 0 \in Int /\ n - 1 \in Int
    BY <1>1
  <2>2. IsFiniteSet(T) /\ Cardinality(T) = IF 0 > n - 1 THEN 0 ELSE (n - 1) - 0 + 1
    BY <2>1, FS_Interval, Zenon
  <2> QED
    BY <1>1, <2>2
<1> HIDE DEF f
<1>4. f \in Surjection(S, T)
  BY <1>2, <1>3, FS_Injection
<1>5. \E x \in S : f[x] = i
  BY <1>4 DEF Surjection
<1> QED
  BY <1>5 DEF f

\* The greatest of a set of numbers and the order of their places.
LEMMA NumbersAreOrdered ==
  ASSUME NEW S \in SUBSET Int
  PROVE  /\ StrictlyOrders({p \in S \X S : p[1] < p[2]}, S)
         /\ \A x \in S : PlaceOf(S, {p \in S \X S : p[1] < p[2]}, x) = Cardinality({y \in S : y < x})
<1> DEFINE R == {p \in S \X S : p[1] < p[2]}
<1>1. \A x, y \in S : <<x, y>> \in R <=> x < y
  OBVIOUS
<1> HIDE DEF R
<1>2. StrictlyOrders(R, S)
  BY <1>1 DEF StrictlyOrders
<1>3. ASSUME NEW x \in S PROVE {y \in S : <<y, x>> \in R} = {y \in S : y < x}
  BY <1>1
<1>4. \A x \in S : PlaceOf(S, R, x) = Cardinality({y \in S : y < x})
  BY <1>3, Zenon DEF PlaceOf
<1> QED
  BY <1>2, <1>4, Zenon DEF R
\* The elements of a set in the order R.
InOrder(S, R) == [i \in 1 .. Cardinality(S) |-> CHOOSE x \in S : PlaceOf(S, R, x) = i - 1]

LEMMA Enumerated ==
  ASSUME NEW S, IsFiniteSet(S), NEW R, StrictlyOrders(R, S)
  PROVE  /\ Cardinality(S) \in Nat
         /\ InOrder(S, R) \in [1 .. Cardinality(S) -> S]
         /\ \A i, j \in 1 .. Cardinality(S) : i < j => <<InOrder(S, R)[i], InOrder(S, R)[j]>> \in R
         /\ \A i, j \in 1 .. Cardinality(S) : InOrder(S, R)[i] = InOrder(S, R)[j] => i = j
         /\ \A x \in S : \E i \in 1 .. Cardinality(S) : InOrder(S, R)[i] = x
<1> DEFINE n == Cardinality(S)
           e == InOrder(S, R)
<1>1. n \in Nat
  BY FS_CardinalityType
<1>2. ASSUME NEW i \in 1 .. n PROVE e[i] \in S /\ PlaceOf(S, R, e[i]) = i - 1
  <2>1. i - 1 \in 0 .. Cardinality(S) - 1
    BY <1>1
  <2>2. \E x \in S : PlaceOf(S, R, x) = i - 1
    BY <2>1, EveryPlaceIsTaken
  <2>3. e[i] = CHOOSE x \in S : PlaceOf(S, R, x) = i - 1
    BY DEF InOrder
  <2> QED
    BY <2>2, <2>3
<1>3. e \in [1 .. n -> S]
  BY <1>2 DEF InOrder
<1> HIDE DEF e, n
<1>4. \A i, j \in 1 .. n : i < j => <<e[i], e[j]>> \in R
  BY <1>1, <1>2, PlacesAscend
<1>5. \A i, j \in 1 .. n : e[i] = e[j] => i = j
  BY <1>1, <1>2
<1>6. ASSUME NEW x \in S PROVE \E i \in 1 .. n : e[i] = x
  <2>1. PlaceOf(S, R, x) \in 0 .. n - 1
    BY PlacesAscend DEF n
  <2> DEFINE i == PlaceOf(S, R, x) + 1
  <2>2. i \in 1 .. n /\ PlaceOf(S, R, x) = i - 1
    BY <1>1, <2>1
  <2>3. PlaceOf(S, R, e[i]) = PlaceOf(S, R, x) /\ e[i] \in S
    BY <1>2, <2>2
  <2>4. e[i] = x
    BY <2>3, PlacesAscend
  <2> QED
    BY <2>2, <2>4
<1> QED
  BY <1>1, <1>3, <1>4, <1>5, <1>6 DEF e, n

(***************************************************************************)
(* The text of a page                                                      *)
(***************************************************************************)

MethodNames == {"static", "selenium", "crawl4ai", "ai"}
Turns == {"resolve", "connect", "amp", "page", "skip", "next", "over"}
Results == [status: {"none", "ok", "error"}, text: PageText, reason: Reasons \cup {"none"}]
PageTyped ==
  /\ setting \in Setting /\ method \in MethodNames /\ at \in Turns
  /\ hop \in 0 .. MaxHops /\ pinned = "public" /\ dialled \subseteq {"public"}
  /\ tries \in Seq(Attempt) /\ got \in Results

\* While a method is at work it has not been tried, nothing was accepted and nothing
\* is given; the first method is the server's own request.
TriedOnce ==
  /\ \A i, j \in DOMAIN tries : tries[i].method = tries[j].method => i = j
  /\ (tries # <<>> => tries[1].method = "static")
AtWork ==
  /\ got = NoResult
  /\ \A i \in DOMAIN tries : tries[i].status # "accepted"
  /\ (at # "next" => \A i \in DOMAIN tries : tries[i].method # method)
  /\ (method = "static" /\ at # "next" => tries = <<>>)
  /\ (method # "static" \/ at = "next" => tries # <<>>)
GaveUp ==
  /\ tries # <<>>
  /\ (tries[1].reason \in Final \cup {"blocked"} => got.reason = tries[1].reason)
  /\ (got.reason \notin Final => Left = {})
Ended ==
  /\ \A i \in DOMAIN tries : tries[i].status = "accepted" => i = Len(tries) /\ got.status = "ok"
  /\ (got.status = "ok" => Accepted(got.text))
  /\ (got.status = "error" => GaveUp)

PageGood == PageTyped /\ TriedOnce /\ (at # "over" => AtWork) /\ (at = "over" => Ended)

LEMMA PageBounds ==
  /\ {MinCharacters, MinBlocks, MinSingleBlock, FailurePageMax, MaxCharacters, MaxBlocks, MaxHops} \subseteq Nat
  /\ Empty \in PageText /\ NoResult \in Results
<1>1. {MinCharacters, MinBlocks, MinSingleBlock, FailurePageMax, MaxCharacters, MaxBlocks, MaxHops} \subseteq Nat
  BY PageAssumption
<1>2. Empty \in PageText
  BY <1>1 DEF Empty, PageText
<1> QED
  BY <1>1, <1>2 DEF NoResult, Results

LEMMA PageInitGood == PageInit => PageGood
<1> SUFFICES ASSUME PageInit PROVE PageGood
  OBVIOUS
<1>1. PageTyped
  BY PageBounds DEF PageInit, PageTyped, MethodNames, Turns
<1> QED
  BY <1>1 DEF PageInit, PageGood, TriedOnce, AtWork

\* There are four methods.
LEMMA FourTries == ASSUME PageTyped, TriedOnce PROVE Len(tries) <= 4
<1>1. tries \in Seq(Attempt) /\ Len(tries) \in Nat /\ DOMAIN tries = 1 .. Len(tries)
  BY DEF PageTyped
<1> DEFINE f == [i \in 1 .. Len(tries) |-> tries[i].method]
<1>2. IsFiniteSet(MethodNames) /\ Cardinality(MethodNames) <= 4
  <2>1. IsFiniteSet({"static"}) /\ Cardinality({"static"}) = 1
    BY FS_Singleton
  <2>2. IsFiniteSet({"static", "selenium"}) /\ Cardinality({"static", "selenium"}) = 2
    <3>1. {"static", "selenium"} = {"static"} \cup {"selenium"} /\ "selenium" \notin {"static"}
      OBVIOUS
    <3> QED
      BY <2>1, <3>1, FS_AddElement
  <2>3. IsFiniteSet({"static", "selenium", "crawl4ai"}) /\ Cardinality({"static", "selenium", "crawl4ai"}) = 3
    <3>1. /\ {"static", "selenium", "crawl4ai"} = {"static", "selenium"} \cup {"crawl4ai"}
          /\ "crawl4ai" \notin {"static", "selenium"}
      OBVIOUS
    <3> QED
      BY <2>2, <3>1, FS_AddElement
  <2>4. /\ MethodNames = {"static", "selenium", "crawl4ai"} \cup {"ai"}
        /\ "ai" \notin {"static", "selenium", "crawl4ai"}
    BY DEF MethodNames
  <2> QED
    BY <2>3, <2>4, FS_AddElement
<1>3. f \in Injection(1 .. Len(tries), MethodNames)
  <2>1. \A i \in 1 .. Len(tries) : f[i] \in MethodNames
    <3>1. \A i \in 1 .. Len(tries) : tries[i] \in Attempt
      BY <1>1
    <3> QED
      BY <3>1 DEF Attempt, MethodNames
  <2>2. \A i, j \in 1 .. Len(tries) : f[i] = f[j] => i = j
    BY <1>1 DEF TriedOnce
  <2> HIDE DEF f
  <2>3. f \in [1 .. Len(tries) -> MethodNames]
    BY <2>1 DEF f
  <2> QED
    BY <2>2, <2>3 DEF Injection, IsInjective
<1>4. Cardinality(1 .. Len(tries)) <= Cardinality(MethodNames)
  BY <1>2, <1>3, FS_Injection
<1>5. Cardinality(1 .. Len(tries)) = Len(tries)
  BY <1>1, FS_Interval
<1> QED
  BY <1>1, <1>2, <1>4, <1>5, FS_CardinalityType

-----------------------------------------------------------------------------
(* The end of an attempt                                                   *)

\* What an attempt leaves of the list of attempts.
LEMMA OneMoreTry ==
  ASSUME PageGood, at \notin {"next", "over"}, NEW t \in Attempt, t.method = method, tries' = Append(tries, t)
  PROVE  /\ tries' \in Seq(Attempt) /\ TriedOnce' /\ Len(tries') = Len(tries) + 1 /\ DOMAIN tries' = 1 .. Len(tries) + 1
         /\ tries' # <<>> /\ tries'[Len(tries) + 1] = t /\ Len(tries) \in Nat
         /\ \A i \in 1 .. Len(tries) : tries'[i] = tries[i] /\ tries[i].status # "accepted"
         /\ (method = "static" => tries'[1] = t)
<1>1. /\ tries \in Seq(Attempt) /\ Len(tries) \in Nat /\ DOMAIN tries = 1 .. Len(tries) /\ AtWork /\ TriedOnce
  BY DEF PageGood, PageTyped
<1>2. /\ tries' \in Seq(Attempt) /\ Len(tries') = Len(tries) + 1 /\ DOMAIN tries' = 1 .. Len(tries) + 1
      /\ tries'[Len(tries) + 1] = t /\ \A i \in 1 .. Len(tries) : tries'[i] = tries[i]
  BY <1>1, AppendProperties
<1>3. \A i \in 1 .. Len(tries) : tries[i].method # method /\ tries[i].status # "accepted"
  BY <1>1 DEF AtWork
<1>4. TriedOnce'
  <2>1. tries' # <<>> /\ tries'[1].method = "static"
    <3>1. CASE tries = <<>>
      BY <1>1, <1>2, <3>1 DEF AtWork
    <3>2. CASE tries # <<>>
      <4>1. 1 \in 1 .. Len(tries)
        BY <1>1, <3>2
      <4> QED
        BY <1>1, <1>2, <3>2, <4>1 DEF TriedOnce
    <3> QED
      BY <3>1, <3>2
  <2> QED
    BY <1>1, <1>2, <1>3, <2>1 DEF TriedOnce
<1>5. method = "static" => tries'[1] = t
  <2>1. method = "static" => tries = <<>>
    BY <1>1 DEF AtWork
  <2> QED
    BY <1>2, <2>1
<1> QED
  BY <1>1, <1>2, <1>3, <1>4, <1>5

LEMMA FailTryGood ==
  ASSUME PageGood, at \notin {"next", "over"}, NEW r \in Reasons, FailTry(r), PageTyped', setting' = setting, method' = method
  PROVE  PageGood'
<1> DEFINE t == [method |-> method, status |-> "failed", reason |-> r]
<1>1. t \in Attempt /\ t.method = method /\ t.status = "failed" /\ t.reason = r /\ tries' = Append(tries, t)
  BY DEF FailTry, Attempt, PageGood, PageTyped, MethodNames
<1> HIDE DEF t
<1>2. /\ tries' \in Seq(Attempt) /\ TriedOnce' /\ Len(tries') = Len(tries) + 1 /\ DOMAIN tries' = 1 .. Len(tries) + 1
      /\ tries' # <<>> /\ tries'[Len(tries) + 1] = t /\ Len(tries) \in Nat
      /\ \A i \in 1 .. Len(tries) : tries'[i] = tries[i] /\ tries[i].status # "accepted"
      /\ (method = "static" => tries'[1] = t)
  BY <1>1, OneMoreTry
<1>3. \A i \in DOMAIN tries' : tries'[i].status # "accepted"
  BY <1>1, <1>2
<1>4. CASE method = "static" /\ r \in Final
  <2>1. at' = "over" /\ got' = [status |-> "error", text |-> Empty, reason |-> r]
    BY <1>4 DEF FailTry, Conclude
  <2>2. GaveUp'
    BY <1>1, <1>2, <1>4, <2>1 DEF GaveUp
  <2> QED
    BY <1>2, <1>3, <2>1, <2>2 DEF PageGood, Ended
<1>5. CASE ~(method = "static" /\ r \in Final)
  <2>1. at' = "next" /\ got' = got
    BY <1>5 DEF FailTry
  <2> QED
    BY <1>2, <1>3, <2>1 DEF PageGood, AtWork
<1> QED
  BY <1>4, <1>5

LEMMA JudgeTryGood ==
  ASSUME PageGood, at \notin {"next", "over"}, NEW x \in PageText, JudgeTry(x), PageTyped', setting' = setting, method' = method
  PROVE  PageGood'
<1>m. method \in MethodNames
  BY DEF PageGood, PageTyped
<1>1. CASE Accepted(x)
  <2> DEFINE t == [method |-> method, status |-> "accepted", reason |-> "none"]
  <2>1. t \in Attempt /\ t.method = method /\ tries' = Append(tries, t) /\ at' = "over"
        /\ got' = [status |-> "ok", text |-> x, reason |-> "none"]
    BY <1>m, <1>1 DEF JudgeTry, Attempt, MethodNames, Conclude
  <2> HIDE DEF t
  <2>2. /\ TriedOnce' /\ Len(tries') = Len(tries) + 1 /\ DOMAIN tries' = 1 .. Len(tries) + 1 /\ Len(tries) \in Nat
        /\ \A i \in 1 .. Len(tries) : tries'[i] = tries[i] /\ tries[i].status # "accepted"
    BY <2>1, OneMoreTry
  <2>3. got'.status = "ok" /\ got'.text = x
    BY <2>1
  <2>4. Accepted(got.text)'
    BY <1>1, <2>3 DEF Accepted, Substantial
  <2>5. \A i \in DOMAIN tries' : tries'[i].status = "accepted" => i = Len(tries')
    BY <2>2
  <2> QED
    BY <2>1, <2>2, <2>3, <2>4, <2>5 DEF PageGood, Ended
<1>2. CASE ~Accepted(x)
  <2> DEFINE t == [method |-> method, status |-> "rejected", reason |-> "no_readable_content"]
  <2>1. t \in Attempt /\ t.method = method /\ t.status = "rejected" /\ tries' = Append(tries, t) /\ at' = "next" /\ got' = got
    BY <1>m, <1>2 DEF JudgeTry, Attempt, MethodNames, Reasons
  <2> HIDE DEF t
  <2>2. /\ TriedOnce' /\ Len(tries') = Len(tries) + 1 /\ DOMAIN tries' = 1 .. Len(tries) + 1 /\ Len(tries) \in Nat
        /\ \A i \in 1 .. Len(tries) : tries'[i] = tries[i] /\ tries[i].status # "accepted"
        /\ tries' # <<>> /\ tries'[Len(tries) + 1] = t
    BY <2>1, OneMoreTry
  <2>3. \A i \in DOMAIN tries' : tries'[i].status # "accepted"
    BY <2>1, <2>2
  <2> QED
    BY <2>1, <2>2, <2>3 DEF PageGood, AtWork
<1> QED
  BY <1>1, <1>2

-----------------------------------------------------------------------------
(* Types of a step                                                         *)

LEMMA FailTryTyped ==
  ASSUME PageTyped, NEW r \in Reasons, FailTry(r)
  PROVE  tries' \in Seq(Attempt) /\ got' \in Results /\ at' \in Turns
<1>1. [method |-> method, status |-> "failed", reason |-> r] \in Attempt
  BY DEF PageTyped, Attempt, MethodNames
<1>2. tries' \in Seq(Attempt)
  BY <1>1, AppendProperties DEF FailTry, PageTyped
<1>3. got' \in Results /\ at' \in Turns
  BY PageBounds DEF FailTry, Conclude, PageTyped, Results, Turns
<1> QED
  BY <1>2, <1>3

LEMMA JudgeTryTyped ==
  ASSUME PageTyped, NEW x \in PageText, JudgeTry(x)
  PROVE  tries' \in Seq(Attempt) /\ got' \in Results /\ at' \in Turns
<1>1. /\ [method |-> method, status |-> "accepted", reason |-> "none"] \in Attempt
      /\ [method |-> method, status |-> "rejected", reason |-> "no_readable_content"] \in Attempt
  BY DEF PageTyped, Attempt, MethodNames, Reasons
<1>2. tries' \in Seq(Attempt)
  <2>1. PICK t \in Attempt : tries' = Append(tries, t)
    BY <1>1 DEF JudgeTry
  <2>2. tries \in Seq(Attempt)
    BY DEF PageTyped
  <2> QED
    BY <2>1, <2>2, AppendProperties
<1>3. got' \in Results /\ at' \in Turns
  BY DEF JudgeTry, Conclude, PageTyped, Results, Turns
<1> QED
  BY <1>2, <1>3

-----------------------------------------------------------------------------
(* The steps                                                               *)

\* The reason that the first attempt gives is the one that tells most.
LEMMA FirstReasonTells ==
  ASSUME NEW ts \in Seq(Attempt), ts # <<>>, ts[1].reason \in Final \cup {"blocked"}
  PROVE  ResultReason(ts) = ts[1].reason
<1>1. 1 \in DOMAIN ts /\ DOMAIN ts = 1 .. Len(ts) /\ Len(ts) \in Nat
  OBVIOUS
<1> DEFINE P(i) == /\ ts[i].reason \in Final \cup {"blocked"}
                   /\ \A j \in 1 .. i - 1 : ts[j].reason \notin Final \cup {"blocked"}
<1>2. P(1)
  OBVIOUS
<1>3. \A i \in DOMAIN ts : P(i) => i = 1
  <2>1. \A i \in DOMAIN ts : i # 1 => 1 \in 1 .. i - 1
    BY <1>1
  <2> QED
    BY <2>1
<1>4. (CHOOSE i \in DOMAIN ts : P(i)) = 1
  BY <1>1, <1>2, <1>3
<1> QED
  BY <1>1, <1>4 DEF ResultReason

LEMMA ResultReasonType ==
  ASSUME NEW ts \in Seq(Attempt) PROVE ResultReason(ts) \in Reasons
<1> DEFINE P(i) == /\ ts[i].reason \in Final \cup {"blocked"}
                   /\ \A j \in 1 .. i - 1 : ts[j].reason \notin Final \cup {"blocked"}
<1>1. CASE \E i \in DOMAIN ts : ts[i].reason \in Final \cup {"blocked"}
  <2> DEFINE S == {i \in DOMAIN ts : ts[i].reason \in Final \cup {"blocked"}}
  <2>1. S \in SUBSET Nat /\ S # {}
    BY <1>1
  <2>2. PICK i \in S : \A j \in S : i <= j
    BY <2>1, LeastNatural
  <2>3. i \in DOMAIN ts /\ P(i)
    BY <2>2
  <2>4. P(CHOOSE k \in DOMAIN ts : P(k))
    BY <2>3
  <2> QED
    BY <1>1, <2>4 DEF ResultReason, Final, Reasons
<1>2. CASE ~\E i \in DOMAIN ts : ts[i].reason \in Final \cup {"blocked"}
  BY <1>2 DEF ResultReason, Reasons
<1> QED
  BY <1>1, <1>2

\* The next method is one that has not been tried, and is not the first.
LEMMA FollowingIsNew ==
  ASSUME PageGood, at = "next", Left # {}
  PROVE  /\ Following \in MethodNames
         /\ \A i \in DOMAIN tries : tries[i].method # Following
<1>1. DOMAIN Methods = 1 .. 4 /\ \A k \in 1 .. 4 : Methods[k] \in MethodNames
  BY DEF Methods, MethodNames
<1>2. Left \in SUBSET Nat
  BY <1>1 DEF Left
<1>3. PICK k \in Left : \A j \in Left : k <= j
  BY <1>2, LeastNatural
<1>4. (CHOOSE i \in Left : \A j \in Left : i <= j) \in Left
  BY <1>3
<1> QED
  BY <1>1, <1>4 DEF Left, Following

LEMMA NextMethodGood == ASSUME PageGood, NextMethod PROVE PageGood'
<1>1. /\ at = "next" /\ AtWork /\ PageTyped /\ TriedOnce /\ tries' = tries /\ setting' = setting /\ tries \in Seq(Attempt)
      /\ hop' = 0 /\ pinned' = pinned /\ dialled' = dialled
  BY DEF PageGood, NextMethod, PageTyped
<1>2. CASE Left = {}
  <2>1. at' = "over" /\ method' = method /\ got' = [status |-> "error", text |-> Empty, reason |-> ResultReason(tries)]
    BY <1>2 DEF NextMethod, Conclude
  <2>2. ResultReason(tries) \in Reasons
    BY <1>1, ResultReasonType
  <2>3. PageTyped'
    BY <1>1, <2>1, <2>2, PageBounds DEF PageTyped, Results, Turns
  <2>4. tries # <<>>
    BY <1>1 DEF AtWork
  <2>5. Left' = {}
    BY <1>1, <1>2 DEF Left, Allowed
  <2>6. GaveUp'
    BY <1>1, <2>1, <2>4, <2>5, FirstReasonTells DEF GaveUp
  <2> QED
    BY <1>1, <2>1, <2>3, <2>6 DEF PageGood, Ended, AtWork, TriedOnce
<1>3. CASE Left # {}
  <2>1. /\ method' = Following /\ got' = got
        /\ at' = CASE Following = "selenium" -> (IF ~setting.proxy THEN "skip"
                                                    ELSE IF setting.amp THEN "amp" ELSE "page")
                     [] Following = "ai" -> (IF setting.key THEN "resolve" ELSE "skip")
                     [] OTHER -> "skip"
    BY <1>3 DEF NextMethod
  <2>2. at' \in Turns \ {"next", "over"}
    BY <2>1 DEF Turns
  <2>3. Following \in MethodNames /\ \A i \in DOMAIN tries : tries[i].method # Following
    BY <1>1, <1>3, FollowingIsNew
  <2>4. PageTyped'
    BY <1>1, <2>1, <2>2, <2>3, PageBounds DEF PageTyped
  <2>5. tries # <<>>
    BY <1>1 DEF AtWork
  <2>6. Following # "static"
    BY <1>1, <2>3, <2>5 DEF TriedOnce
  <2> QED
    BY <1>1, <2>1, <2>2, <2>3, <2>4, <2>5, <2>6 DEF PageGood, AtWork, TriedOnce
<1> QED
  BY <1>2, <1>3

\* Whatever a method is at, it goes on, fails, or has its text judged.
LEMMA MethodGoesOn ==
  ASSUME PageGood, at \notin {"next", "over"}, at' \in Turns \ {"next", "over"},
         setting' = setting, method' = method, tries' = tries, got' = got, PageTyped'
  PROVE  PageGood'
BY DEF PageGood, AtWork, TriedOnce

LEMMA TryGood ==
  ASSUME PageGood, at \notin {"next", "over"}, setting' = setting, method' = method, hop' \in 0 .. MaxHops,
         pinned' = "public", dialled' \subseteq {"public"},
         \/ \E r \in Reasons : FailTry(r)
         \/ \E x \in PageText : JudgeTry(x)
         \/ at' \in Turns \ {"next", "over"} /\ tries' = tries /\ got' = got
  PROVE  PageGood'
<1>0. PageTyped
  BY DEF PageGood
<1>1. ASSUME NEW r \in Reasons, FailTry(r) PROVE PageGood'
  <2>1. PageTyped'
    BY <1>0, <1>1, FailTryTyped DEF PageTyped
  <2> QED
    BY <1>1, <2>1, FailTryGood
<1>2. ASSUME NEW x \in PageText, JudgeTry(x) PROVE PageGood'
  <2>1. PageTyped'
    BY <1>0, <1>2, JudgeTryTyped DEF PageTyped
  <2> QED
    BY <1>2, <2>1, JudgeTryGood
<1>3. ASSUME at' \in Turns \ {"next", "over"}, tries' = tries, got' = got PROVE PageGood'
  <2>1. PageTyped'
    BY <1>0, <1>3 DEF PageTyped
  <2> QED
    BY <1>3, <2>1, MethodGoesOn
<1> QED
  BY <1>1, <1>2, <1>3

LEMMA RequestReason ==
  ASSUME NEW r \in Reasons, RequestFails(r) PROVE \E s \in Reasons : FailTry(s)
<1>1. (IF method = "ai" THEN "fetch_failed" ELSE r) \in Reasons
  BY DEF Reasons
<1> QED
  BY <1>1 DEF RequestFails

LEMMA RequestGood ==
  ASSUME PageGood, SkipMethod \/ Resolve \/ Redirected \/ Refused \/ Answered PROVE PageGood'
<1>0. PageTyped
  BY DEF PageGood
<1>1. CASE SkipMethod
  <2>1. (IF method = "selenium" THEN "render_failed" ELSE "fetch_failed") \in Reasons
    BY DEF Reasons
  <2>2. \E r \in Reasons : FailTry(r)
    BY <1>1, <2>1 DEF SkipMethod
  <2> QED
    BY <1>0, <1>1, <2>2, TryGood DEF SkipMethod, PageTyped
<1>2. CASE Resolve
  <2>1. PICK looked \in SUBSET {"public", "inside"} :
          IF looked = {"public"}
          THEN at' = "connect" /\ pinned' = "public" /\ UNCHANGED <<tries, got>>
          ELSE RequestFails("unsafe_url") /\ UNCHANGED pinned
    BY <1>2 DEF Resolve
  <2>2. at = "resolve" /\ UNCHANGED <<setting, method, hop, dialled>>
    BY <1>2 DEF Resolve
  <2>3. CASE looked = {"public"}
    BY <1>0, <2>1, <2>2, <2>3, TryGood DEF PageTyped, Turns
  <2>4. CASE looked # {"public"}
    <3>1. \E r \in Reasons : FailTry(r)
      <4>1. "unsafe_url" \in Reasons
        BY DEF Reasons
      <4> QED
        BY <2>1, <2>4, <4>1, RequestReason
    <3> QED
      BY <1>0, <2>1, <2>2, <2>4, <3>1, TryGood DEF PageTyped
  <2> QED
    BY <2>3, <2>4
<1>3. CASE Redirected
  <2>1. hop' \in 0 .. MaxHops
    BY <1>0, <1>3, PageBounds DEF Redirected, PageTyped
  <2> QED
    BY <1>0, <1>3, <2>1, TryGood DEF Redirected, Dial, PageTyped, Turns
<1>4. CASE Refused
  <2>1. {"not_found", "blocked", "fetch_failed", "non_html"} \subseteq Reasons
    BY DEF Reasons
  <2>2. \E r \in Reasons : FailTry(r)
    BY <1>4, <2>1, RequestReason DEF Refused
  <2> QED
    BY <1>0, <1>4, <2>2, TryGood DEF Refused, Dial, PageTyped
<1>5. CASE Answered
  <2>1. PICK x \in (IF method = "ai" THEN Written \cup {Empty} ELSE Parsed) :
          IF x = Empty THEN RequestFails("no_readable_content") ELSE JudgeTry(x)
    BY <1>5 DEF Answered
  <2>2. x \in PageText
    BY <2>1, PageBounds DEF Written, Parsed
  <2>3. (\E r \in Reasons : FailTry(r)) \/ (\E y \in PageText : JudgeTry(y))
    <3>1. "no_readable_content" \in Reasons
      BY DEF Reasons
    <3> QED
      BY <2>1, <2>2, <3>1, RequestReason
  <2> QED
    BY <1>0, <1>5, <2>3, TryGood DEF Answered, Dial, PageTyped
<1> QED
  BY <1>1, <1>2, <1>3, <1>4, <1>5

LEMMA RenderGood == ASSUME PageGood, RenderFails \/ Rendered PROVE PageGood'
<1>0. PageTyped /\ "render_failed" \in Reasons
  BY DEF PageGood, Reasons
<1>1. at \in {"amp", "page"} /\ UNCHANGED <<setting, method, hop, pinned, dialled>>
  BY DEF RenderFails, Rendered
<1>2. \/ \E r \in Reasons : FailTry(r)
      \/ \E x \in PageText : JudgeTry(x)
      \/ at' \in Turns \ {"next", "over"} /\ tries' = tries /\ got' = got
  <2>1. CASE RenderFails
    BY <1>0, <2>1 DEF RenderFails, Turns
  <2>2. CASE Rendered
    <3>1. PICK x \in Parsed : IF x = Empty THEN FailTry("render_failed") ELSE JudgeTry(x)
      BY <2>2 DEF Rendered
    <3>2. x \in PageText
      BY PageBounds DEF Parsed
    <3> QED
      BY <1>0, <3>1, <3>2
  <2> QED
    BY <2>1, <2>2
<1> QED
  BY <1>0, <1>1, <1>2, TryGood DEF PageTyped

LEMMA PageStepGood == PageGood /\ [PageNext]_pageVars => PageGood'
<1> SUFFICES ASSUME PageGood, [PageNext]_pageVars PROVE PageGood'
  OBVIOUS
<1>1. CASE UNCHANGED pageVars
  <2>1. PageTyped' /\ TriedOnce'
    BY <1>1 DEF PageGood, pageVars, PageTyped, TriedOnce
  <2>2. at # "over" => AtWork'
    BY <1>1 DEF PageGood, pageVars, AtWork
  <2>3. at = "over" => Ended'
    <3>1. Left' = Left /\ got' = got /\ tries' = tries
      BY <1>1 DEF pageVars, Left, Allowed
    <3>2. Accepted(got.text)' <=> Accepted(got.text)
      BY <3>1 DEF Accepted, Substantial
    <3> QED
      BY <3>1, <3>2 DEF PageGood, Ended, GaveUp
  <2> QED
    BY <1>1, <2>1, <2>2, <2>3 DEF PageGood, pageVars
<1>2. CASE PageNext
  BY <1>2, NextMethodGood, RequestGood, RenderGood DEF PageNext
<1> QED
  BY <1>1, <1>2

LEMMA PageParts == PageGood => PageTypeOK /\ PageInv
<1> SUFFICES ASSUME PageGood PROVE PageTypeOK /\ PageInv
  OBVIOUS
<1>1. PageTyped /\ TriedOnce
  BY DEF PageGood
<1>2. Len(tries) <= Len(Methods)
  BY <1>1, FourTries DEF Methods
<1>3. PageTypeOK
  BY <1>1, <1>2 DEF PageTypeOK, PageTyped, Results, Turns, MethodNames
<1>4. got.status = "ok" => Accepted(got.text)
  BY DEF PageGood, AtWork, Ended, NoResult
<1>5. Accepted(got.text) => (got.text.refusal => got.text.characters >= FailurePageMax)
  <2>1. got.text.characters \in Nat /\ FailurePageMax \in Nat
    BY <1>1, PageBounds DEF PageTyped, Results, PageText
  <2> QED
    BY <2>1 DEF Accepted
<1>6. \A i \in DOMAIN tries : tries[i].status = "accepted" => i = Len(tries) /\ got.status = "ok"
  BY DEF PageGood, AtWork, Ended
<1>7. got.status = "error" => GaveUp
  BY DEF PageGood, AtWork, Ended, NoResult
<1> QED
  BY <1>1, <1>3, <1>4, <1>5, <1>6, <1>7 DEF PageInv, PageTyped, GaveUp

\* The text that a fetch of a page gives is one that its last try was accepted for.
\* Without one every allowed method was tried in its order, unless the first try
\* settled that there is no such page; a page that turned the reader away is told as
\* such; and nothing but public addresses is dialled (body_fetch.py).
THEOREM PagesAreGiven == PageSpec => []PageInv
<1> QED
  BY PageInitGood, PageStepGood, PageParts, PTL DEF PageSpec

(***************************************************************************)
(* Shares                                                                  *)
(***************************************************************************)

ShareRow == [from: Readers, to: Readers, read: BOOLEAN, revoked: BOOLEAN, marks: 0 .. MaxMarks,
             messages: 0 .. MaxMarks, context: -1 .. MaxMarks, steady: BOOLEAN, readThen: BOOLEAN, late: Int]
ErrandRow == [pc: {"in"}, by: Readers, share: Nat, why: Errands]
ChoreRow == [share: Nat, mark: 0 .. MaxMarks, pc: {"tell", "read", "answer"}, saw: 0 .. MaxMarks]

SharesTyped ==
  /\ shares \in Seq(ShareRow) /\ Len(shares) <= MaxShares
  /\ visits \in [Visits -> ErrandRow \cup {Away}]
  /\ chores \in SUBSET ChoreRow

\* Who comes through a share, and what waits to be answered of it.
ShareFits(i) ==
  /\ shares[i].from # shares[i].to
  /\ shares[i].marks + shares[i].messages <= MaxMarks
  /\ shares[i].context <= shares[i].marks
  /\ shares[i].revoked =>
       shares[i].late = Cardinality(Pending(shares[i].to, i)) /\ shares[i].read = shares[i].readThen
VisitFits(v) ==
  visits[v] # Away =>
    visits[v].share \in Sent /\ visits[v].by \in {shares[visits[v].share].from, shares[visits[v].share].to}

\* While a share is steady, an answer that is to come is about all its marks, and
\* each of its marks is answered or has a task of its own.
ChoreFits(k) ==
  /\ k.share \in Sent /\ k.mark <= shares[k.share].marks /\ k.saw <= shares[k.share].marks
  /\ shares[k.share].steady /\ k.pc = "answer" => k.saw = shares[k.share].marks
Answered1(i) == shares[i].steady /\ ChoresOf(i) = {} => shares[i].context = shares[i].marks

SharesGood ==
  /\ SharesTyped
  /\ \A i \in Sent : ShareFits(i) /\ Answered1(i)
  /\ \A v \in Visits : VisitFits(v)
  /\ \A k \in chores : ChoreFits(k)

LEMMA SharesBounds ==
  /\ MaxInbox \in Nat /\ MaxShares \in Nat /\ MaxMarks \in Nat /\ MaxChores \in Nat
  /\ IsFiniteSet(Visits)
  BY SharesAssumption

LEMMA SharesInitGood == SharesInit => SharesGood
<1> SUFFICES ASSUME SharesInit PROVE SharesGood
  OBVIOUS
<1>1. shares = <<>> /\ chores = {} /\ visits = [v \in Visits |-> Away] /\ <<>> \in Seq(ShareRow) /\ Len(<<>>) = 0
  BY DEF SharesInit
<1>2. Sent = {}
  BY <1>1 DEF Sent
<1>3. \A v \in Visits : VisitFits(v)
  BY <1>1 DEF VisitFits
<1> QED
  BY <1>1, <1>2, <1>3, SharesBounds DEF SharesGood, SharesTyped

LEMMA ShareTypes ==
  ASSUME SharesGood
  PROVE  /\ Len(shares) \in Nat /\ DOMAIN shares = Sent /\ Sent = 1 .. Len(shares)
         /\ \A i \in Sent : shares[i] \in ShareRow /\ ShareFits(i) /\ Answered1(i)
         /\ \A v \in Visits : visits[v] \in ErrandRow \cup {Away} /\ VisitFits(v)
         /\ \A k \in chores : k \in ChoreRow /\ ChoreFits(k)
         /\ \A r, i : IsFiniteSet(Pending(r, i)) /\ Cardinality(Pending(r, i)) \in Nat
<1>1. \A r, i : Pending(r, i) \subseteq Visits
  BY DEF Pending
<1>2. \A r, i : IsFiniteSet(Pending(r, i)) /\ Cardinality(Pending(r, i)) \in Nat
  BY <1>1, SharesBounds, FS_Subset, FS_CardinalityType
<1>3. Len(shares) \in Nat /\ DOMAIN shares = Sent /\ Sent = 1 .. Len(shares) /\ \A i \in Sent : shares[i] \in ShareRow
  BY DEF SharesGood, SharesTyped, Sent
<1> QED
  BY <1>2, <1>3 DEF SharesGood, SharesTyped

\* There is room for one more mark or message on each share.
LEMMA RoomForMark ==
  ASSUME SharesGood, Marks < MaxMarks, NEW i \in Sent
  PROVE  shares[i].marks + shares[i].messages + 1 <= MaxMarks
<1>0. shares[i] \in ShareRow /\ ShareFits(i) /\ Len(shares) \in Nat
  BY ShareTypes
<1>p. PICK n \in Nat : n = shares[i].marks + shares[i].messages
  BY <1>0, SharesBounds DEF ShareRow
<1> DEFINE S == {m \in Sent \X (1 .. MaxMarks) : m[2] <= shares[m[1]].marks + shares[m[1]].messages}
           T == {i} \X (1 .. n)
<1>1. n \in Nat /\ n <= MaxMarks
  BY <1>0, <1>p DEF ShareFits
<1>2. IsFiniteSet(Sent \X (1 .. MaxMarks))
  <2>1. Len(shares) \in Nat
    BY DEF SharesGood, SharesTyped
  <2>2. IsFiniteSet(Sent) /\ IsFiniteSet(1 .. MaxMarks)
    BY <2>1, SharesBounds, FS_Interval DEF Sent
  <2> QED
    BY <2>2, FS_Product
<1>3. IsFiniteSet(S) /\ Cardinality(S) \in Nat
  BY <1>2, FS_Subset, FS_CardinalityType
<1>4. T \subseteq S
  BY <1>1, <1>p, SharesBounds
<1>5. Cardinality(T) = n
  <2>1. Cardinality({i}) = 1 /\ IsFiniteSet({i})
    BY FS_Singleton
  <2>2. IsFiniteSet(1 .. n) /\ Cardinality(1 .. n) = n
    BY <1>1, FS_Interval
  <2>3. Cardinality(T) = Cardinality({i}) * Cardinality(1 .. n)
    BY <2>1, <2>2, FS_Product
  <2> QED
    BY <1>1, <2>1, <2>2, <2>3
<1>6. n <= Cardinality(S)
  BY <1>3, <1>4, <1>5, FS_Subset
<1>7. Cardinality(S) < MaxMarks
  BY DEF Marks
<1> QED
  BY <1>1, <1>p, <1>3, <1>6, <1>7, SharesBounds

LEMMA ShareArticleGood ==
  ASSUME SharesGood, NEW r \in Readers, NEW q \in Readers, ShareArticle(r, q)
  PROVE  SharesGood'
<1>n. PICK n \in Nat : n = Len(shares) + 1
  BY ShareTypes
<1> DEFINE row == [from |-> r, to |-> q, read |-> FALSE, revoked |-> FALSE,
                   marks |-> 0, messages |-> 0, context |-> -1, steady |-> TRUE,
                   readThen |-> FALSE, late |-> 0]
           k0 == Chore(n, 0, "tell")
<1>1. row \in ShareRow /\ row.from # row.to /\ row.marks = 0 /\ row.messages = 0 /\ row.context = -1
      /\ row.revoked = FALSE
  BY SharesBounds DEF ShareArticle, ShareRow
<1>2. k0 \in ChoreRow /\ k0.share = n /\ k0.mark = 0 /\ k0.saw = 0 /\ k0.pc = "tell"
  BY SharesBounds, ShareTypes DEF Chore, ChoreRow
<1>3. /\ shares' = Append(shares, row) /\ chores' = chores \cup {k0} /\ visits' = visits /\ Len(shares) < MaxShares
  BY <1>n DEF ShareArticle
<1> HIDE DEF row, k0
<1>4. /\ shares' \in Seq(ShareRow) /\ Len(shares') = n /\ Sent' = Sent \cup {n} /\ n \notin Sent /\ shares'[n] = row
      /\ \A i \in Sent : shares'[i] = shares[i]
  BY <1>n, <1>1, <1>3, AppendProperties, ShareTypes DEF SharesGood, SharesTyped, Sent
<1>5. SharesTyped'
  BY <1>n, <1>2, <1>3, <1>4, SharesBounds, ShareTypes DEF SharesGood, SharesTyped
<1>7. ASSUME NEW i \in Sent' PROVE ShareFits(i)' /\ Answered1(i)'
  <2>1. CASE i = n
    <3>1. ChoresOf(n)' # {}
      BY <1>2, <1>3 DEF ChoresOf
    <3> QED
      BY <1>1, <1>4, <2>1, <3>1, SharesBounds DEF ShareFits, Answered1
  <2>2. CASE i \in Sent
    <3>1. ChoresOf(i)' = ChoresOf(i) /\ Pending(shares[i].to, i)' = Pending(shares[i].to, i)
      BY <1>2, <1>3, <1>4, <2>2 DEF ChoresOf, Pending
    <3> QED
      BY <1>4, <2>2, <3>1, ShareTypes DEF ShareFits, Answered1
  <2> QED
    BY <1>4, <2>1, <2>2
<1>8. \A v \in Visits : VisitFits(v)'
  BY <1>3, <1>4, ShareTypes DEF VisitFits
<1>9. \A k \in chores' : ChoreFits(k)'
  BY <1>1, <1>2, <1>3, <1>4, ShareTypes DEF ChoreFits
<1> QED
  BY <1>5, <1>7, <1>8, <1>9 DEF SharesGood

-----------------------------------------------------------------------------
(* What becomes of one share                                               *)

LEMMA ShareBecomes ==
  ASSUME SharesGood, NEW i \in Sent, NEW row \in ShareRow, shares' = [shares EXCEPT ![i] = row]
  PROVE  /\ shares' \in Seq(ShareRow) /\ Len(shares') = Len(shares) /\ Sent' = Sent /\ shares'[i] = row
         /\ \A j \in Sent \ {i} : shares'[j] = shares[j]
<1>1. shares \in Seq(ShareRow) /\ i \in 1 .. Len(shares)
  BY DEF SharesGood, SharesTyped, Sent
<1>2. /\ shares' \in Seq(ShareRow) /\ Len(shares') = Len(shares) /\ shares'[i] = row
      /\ \A j \in 1 .. Len(shares) : j # i => shares'[j] = shares[j]
  BY <1>1, ExceptSeq
<1> QED
  BY <1>2 DEF Sent

LEMMA GoodAgain ==
  ASSUME SharesGood, NEW i \in Sent, NEW row \in ShareRow, shares' = [shares EXCEPT ![i] = row],
         row.from = shares[i].from, row.to = shares[i].to,
         visits' \in [Visits -> ErrandRow \cup {Away}],
         \A v \in Visits : visits'[v] = visits[v] \/ (visits'[v] = Away /\ visits[v].share = i),
         chores' \in SUBSET ChoreRow,
         \A k \in chores' : k \in chores \/ k.share = i, \A k \in chores : k \in chores' \/ k.share = i,
         ShareFits(i)', Answered1(i)', \A k \in chores' : k.share = i => ChoreFits(k)'
  PROVE  SharesGood'
<1>1. /\ shares' \in Seq(ShareRow) /\ Len(shares') = Len(shares) /\ Sent' = Sent /\ shares'[i] = row
      /\ \A j \in Sent \ {i} : shares'[j] = shares[j]
  BY ShareBecomes
<1>2. SharesTyped'
  BY <1>1 DEF SharesGood, SharesTyped
<1>3. ASSUME NEW j \in Sent \ {i} PROVE ShareFits(j)' /\ Answered1(j)'
  <2>1. ChoresOf(j)' = ChoresOf(j)
    BY DEF ChoresOf
  <2>2. Pending(shares[j].to, j)' = Pending(shares[j].to, j)
    <3>1. Away.share = 0 /\ 0 \notin Sent
      BY DEF Away, Sent
    <3>2. shares'[j] = shares[j]
      BY <1>1
    <3>3. \A v \in Visits : visits'[v] = visits[v] \/ (visits'[v].share # j /\ visits[v].share # j)
      BY <3>1
    <3> QED
      BY <3>2, <3>3 DEF Pending
  <2> QED
    BY <1>1, <2>1, <2>2, ShareTypes DEF ShareFits, Answered1
<1>4. ASSUME NEW v \in Visits PROVE VisitFits(v)'
  <2>1. CASE visits'[v] = Away
    BY <2>1 DEF VisitFits
  <2>2. CASE visits'[v] = visits[v] /\ visits[v] # Away
    <3>1. /\ visits[v].share \in Sent /\ visits[v].by \in {shares[visits[v].share].from, shares[visits[v].share].to}
      BY <2>2, ShareTypes DEF VisitFits
    <3>2. shares'[visits[v].share].from = shares[visits[v].share].from
          /\ shares'[visits[v].share].to = shares[visits[v].share].to
      BY <1>1, <3>1
    <3> QED
      BY <1>1, <2>2, <3>1, <3>2 DEF VisitFits
  <2> QED
    BY <2>1, <2>2
<1>5. ASSUME NEW k \in chores' PROVE ChoreFits(k)'
  <2>1. CASE k.share = i
    BY <2>1
  <2>2. CASE k.share # i
    <3>1. k \in chores /\ k.share \in Sent /\ shares'[k.share] = shares[k.share]
      BY <1>1, <2>2, ShareTypes DEF ChoreFits
    <3> QED
      BY <1>1, <3>1, ShareTypes DEF ChoreFits
  <2> QED
    BY <2>1, <2>2
<1> QED
  BY <1>1, <1>2, <1>3, <1>4, <1>5 DEF SharesGood

\* A visit that ends is no longer pending.
LEMMA PendingDrops ==
  ASSUME SharesGood, NEW v \in Visits, visits[v] # Away, visits' = [visits EXCEPT ![v] = Away],
         NEW i \in Sent, i = visits[v].share, NEW t, t = shares[i].to, shares'[i].to = t
  PROVE  /\ visits[v].by = t /\ visits[v].why # "article" =>
              Cardinality(Pending(t, i)) - 1 = Cardinality(Pending(shares[i].to, i)')
         /\ ~(visits[v].by = t /\ visits[v].why # "article") =>
              Cardinality(Pending(t, i)) = Cardinality(Pending(shares[i].to, i)')
<1>p. PICK p : p = Pending(t, i)
  OBVIOUS
<1>q. PICK q : q = Pending(shares[i].to, i)'
  OBVIOUS
<1>1. /\ visits[v] \in ErrandRow /\ visits'[v] = Away /\ Away.share = 0 /\ i # 0
      /\ \A w \in Visits \ {v} : visits'[w] = visits[w]
  BY ShareTypes DEF SharesGood, SharesTyped, Away, Sent
<1>2. visits[v].why \in Errands
  BY <1>1 DEF ErrandRow
<1>3. q = p \ {v}
  BY <1>p, <1>q, <1>1 DEF Pending
<1>4. v \in p <=> (visits[v].by = t /\ visits[v].why # "article")
  BY <1>p, <1>2 DEF Pending, Errands
<1>5. IsFiniteSet(p) /\ Cardinality(p) \in Nat
  BY <1>p, ShareTypes
<1>6. v \in p => Cardinality(q) = Cardinality(p) - 1
  BY <1>3, <1>5, FS_RemoveElement
<1>7. v \notin p => q = p
  BY <1>3
<1> QED
  BY <1>p, <1>q, <1>4, <1>6, <1>7

LEMMA VisitGood ==
  ASSUME SharesGood, NEW r \in Readers, NEW i \in Sent, NEW v \in Visits, NEW why \in Errands, Visit(v, r, i, why)
  PROVE  SharesGood'
<1>n. PICK row : row = [pc |-> "in", by |-> r, share |-> i, why |-> why]
  OBVIOUS
<1>1. row \in ErrandRow /\ row.by = r /\ row.share = i /\ i \in Nat /\ i # 0
  BY <1>n DEF ErrandRow, Sent
<1>2. /\ shares' = shares /\ chores' = chores /\ visits' = [visits EXCEPT ![v] = row] /\ visits[v] = Away /\ Open(r, i)
      /\ Sent' = Sent
  BY <1>n DEF Visit, LetIn, Sent
<1>3. SharesTyped'
  BY <1>1, <1>2 DEF SharesGood, SharesTyped
<1>4. ASSUME NEW j \in Sent PROVE ShareFits(j)' /\ Answered1(j)'
  <2>1. ChoresOf(j)' = ChoresOf(j)
    BY <1>2 DEF ChoresOf
  <2>2. ASSUME shares[j].revoked PROVE Pending(shares[j].to, j)' = Pending(shares[j].to, j)
    <3>1. visits'[v] = row /\ \A w \in Visits \ {v} : visits'[w] = visits[w]
      BY <1>2 DEF SharesGood, SharesTyped
    <3>2. visits[v].share # j
      BY <1>2 DEF Away, Sent
    <3>3. row.share # j \/ row.by # shares[j].to
      BY <1>1, <1>2, <2>2, ShareTypes DEF Open, ShareFits
    <3> QED
      BY <1>2, <3>1, <3>2, <3>3 DEF Pending
  <2> QED
    BY <1>2, <2>1, <2>2, ShareTypes DEF ShareFits, Answered1
<1>5. ASSUME NEW w \in Visits PROVE VisitFits(w)'
  BY <1>1, <1>2, ShareTypes DEF VisitFits, Open, SharesGood, SharesTyped
<1>6. \A k \in chores' : ChoreFits(k)'
  BY <1>2, ShareTypes DEF ChoreFits
<1> QED
  BY <1>2, <1>3, <1>4, <1>5, <1>6 DEF SharesGood

LEMMA MarkReadGood ==
  ASSUME SharesGood, NEW r \in Readers, NEW i \in Sent, MarkRead(r, i) \/ RevokeShare(r, i)
  PROVE  SharesGood'
<1>0. shares[i] \in ShareRow /\ ShareFits(i) /\ Answered1(i) /\ Cardinality(Pending(shares[i].to, i)) \in Nat
      /\ visits' = visits /\ chores' = chores /\ ~shares[i].revoked
  BY ShareTypes DEF MarkRead, RevokeShare
<1>1. PICK row \in ShareRow :
        /\ shares' = [shares EXCEPT ![i] = row]
        /\ row.from = shares[i].from /\ row.to = shares[i].to /\ row.marks = shares[i].marks
        /\ row.messages = shares[i].messages /\ row.context = shares[i].context /\ row.steady = shares[i].steady
        /\ row.revoked => row.late = Cardinality(Pending(shares[i].to, i)) /\ row.read = row.readThen
  <2>1. CASE MarkRead(r, i)
    <3>1. PICK row : row = [shares[i] EXCEPT !.read = TRUE]
      OBVIOUS
    <3>2. /\ row \in ShareRow /\ row.from = shares[i].from /\ row.to = shares[i].to /\ row.marks = shares[i].marks
          /\ row.messages = shares[i].messages /\ row.context = shares[i].context /\ row.steady = shares[i].steady
          /\ row.revoked = shares[i].revoked
      BY <1>0, <3>1 DEF ShareRow
    <3>3. shares' = [shares EXCEPT ![i] = row]
      BY <2>1, <3>1 DEF MarkRead
    <3> QED
      BY <1>0, <3>2, <3>3
  <2>2. CASE RevokeShare(r, i)
    <3>c. PICK c \in Nat : c = Cardinality(Pending(shares[i].to, i))
      BY <1>0
    <3>1. PICK row : row = [shares[i] EXCEPT !.revoked = TRUE, !.readThen = shares[i].read, !.late = c]
      OBVIOUS
    <3>2. /\ row.from = shares[i].from /\ row.to = shares[i].to /\ row.marks = shares[i].marks
          /\ row.messages = shares[i].messages /\ row.context = shares[i].context /\ row.steady = shares[i].steady
          /\ row.late = c /\ row.read = shares[i].read /\ row.readThen = shares[i].read
      BY <1>0, <3>1 DEF ShareRow
    <3>4. row \in ShareRow
      <4>1. shares[i].read \in BOOLEAN /\ c \in Int
        BY <1>0 DEF ShareRow
      <4> QED
        BY <1>0, <3>1, <4>1 DEF ShareRow
    <3>3. shares' = [shares EXCEPT ![i] = row]
      BY <2>2, <3>1, <3>c DEF RevokeShare
    <3> QED
      BY <3>2, <3>3, <3>4, <3>c
  <2> QED
    BY <2>1, <2>2
<1>2. shares'[i] = row
  BY <1>1, ShareBecomes
<1>3. ChoresOf(i)' = ChoresOf(i) /\ Pending(shares[i].to, i)' = Pending(shares[i].to, i)
  BY <1>0, <1>1, <1>2 DEF ChoresOf, Pending
<1>4. ShareFits(i)' /\ Answered1(i)'
  BY <1>0, <1>1, <1>2, <1>3 DEF ShareFits, Answered1
<1>5. \A k \in chores : k.share = i => ChoreFits(k)'
  <2>1. Sent' = Sent
    BY <1>1, ShareBecomes
  <2> QED
    BY <1>1, <1>2, <2>1, ShareTypes DEF ChoreFits
<1> QED
  BY <1>0, <1>1, <1>4, <1>5, GoodAgain DEF SharesGood, SharesTyped

\* A visit that ends: its mark, its message, its article, or its failure.
LEMMA StillPending ==
  ASSUME SharesGood, NEW v \in Visits, visits[v] # Away, visits' = [visits EXCEPT ![v] = Away],
         NEW i \in Sent, i = visits[v].share, NEW row, shares'[i] = row,
         row.from = shares[i].from, row.to = shares[i].to,
         row.marks \in Nat, row.marks >= shares[i].marks, row.marks + row.messages <= MaxMarks,
         row.context = shares[i].context, row.revoked = shares[i].revoked,
         row.read = shares[i].read, row.readThen = shares[i].readThen,
         NEW o \in {0, 1}, row.late = shares[i].late - o,
         shares[i].revoked => (o = 1 <=> (visits[v].by = shares[i].to /\ visits[v].why # "article"))
  PROVE  ShareFits(i)'
<1>1. shares[i] \in ShareRow /\ ShareFits(i) /\ Cardinality(Pending(shares[i].to, i)) \in Nat
  BY ShareTypes
<1>t. PICK t : t = shares[i].to
  OBVIOUS
<1>2. /\ visits[v].by = t /\ visits[v].why # "article" =>
              Cardinality(Pending(t, i)) - 1 = Cardinality(Pending(shares[i].to, i)')
      /\ ~(visits[v].by = t /\ visits[v].why # "article") =>
              Cardinality(Pending(t, i)) = Cardinality(Pending(shares[i].to, i)')
  BY <1>t, PendingDrops
<1>3. shares[i].context <= row.marks
  BY <1>1 DEF ShareFits, ShareRow
<1>4. row.revoked => row.late = Cardinality(Pending(shares[i].to, i)') /\ row.read = row.readThen
  BY <1>1, <1>2, <1>t DEF ShareFits
<1> QED
  BY <1>1, <1>3, <1>4 DEF ShareFits

LEMMA MarkOrMessageGood ==
  ASSUME SharesGood, NEW v \in Visits, AddMark(v) \/ AddMessage(v)
  PROVE  SharesGood'
<1>i. PICK i : i = visits[v].share
  OBVIOUS
<1>1. visits[v] # Away /\ visits[v].why # "article"
  <2>1. visits[v].why = "mark" \/ visits[v].why = "message"
    BY DEF AddMark, AddMessage
  <2>2. Away.why = "none"
    BY DEF Away
  <2> QED
    BY <2>1, <2>2
<1>2. i \in Sent /\ shares[i] \in ShareRow /\ ShareFits(i) /\ Answered1(i) /\ visits[v] \in ErrandRow
  BY <1>i, <1>1, ShareTypes DEF VisitFits
<1>3. visits' = [visits EXCEPT ![v] = Away] /\ Marks < MaxMarks
  BY DEF AddMark, AddMessage
<1>4. shares[i].marks + shares[i].messages + 1 <= MaxMarks
  BY <1>2, <1>3, RoomForMark
<1>5. /\ visits' \in [Visits -> ErrandRow \cup {Away}]
      /\ \A w \in Visits : visits'[w] = visits[w] \/ (visits'[w] = Away /\ visits[w].share = i)
  BY <1>i, <1>3 DEF SharesGood, SharesTyped
<1>o. PICK o : o = Overdue(v, i)
  OBVIOUS
<1>6. /\ o \in {0, 1} /\ (shares[i].revoked => (o = 1 <=> visits[v].by = shares[i].to))
  BY <1>o DEF Overdue
<1>7. CASE AddMark(v)
  <2>s. PICK s \in BOOLEAN : s = (shares[i].steady /\ \A k \in ChoresOf(i) : k.pc # "answer")
    OBVIOUS
  <2>m. PICK m \in 0 .. MaxMarks : m = shares[i].marks + 1
    BY <1>2, <1>4, SharesBounds DEF ShareRow
  <2>l. PICK l \in Int : l = shares[i].late - o
    BY <1>2, <1>6 DEF ShareRow
  <2>1. PICK row : row = [shares[i] EXCEPT !.marks = m, !.late = l, !.steady = s]
    OBVIOUS
  <2>t. row \in ShareRow
    BY <1>2, <2>1 DEF ShareRow
  <2>2. /\ row.from = shares[i].from /\ row.to = shares[i].to /\ row.marks = shares[i].marks + 1
        /\ row.messages = shares[i].messages /\ row.context = shares[i].context /\ row.steady = s
        /\ row.late = shares[i].late - o /\ row.revoked = shares[i].revoked /\ row.read = shares[i].read
        /\ row.readThen = shares[i].readThen
    BY <1>2, <2>m, <2>l, <2>1 DEF ShareRow
  <2>3. shares' = [shares EXCEPT ![i] = row]
    BY <1>i, <1>o, <1>7, <2>1, <2>m, <2>l, <2>s DEF AddMark
  <2>k. PICK k0 : k0 = Chore(i, shares[i].marks + 1, "read")
    OBVIOUS
  <2>4. chores' = chores \cup {k0} /\ k0.share = i /\ k0.mark = shares[i].marks + 1 /\ k0.saw = 0 /\ k0.pc = "read"
        /\ k0 \in ChoreRow
    <3>1. i \in Nat /\ shares[i].marks + 1 \in 0 .. MaxMarks /\ 0 \in 0 .. MaxMarks
      BY <1>2, <1>4, SharesBounds DEF ShareRow, Sent
    <3> QED
      BY <1>i, <1>7, <2>k, <3>1 DEF AddMark, Chore, ChoreRow
  <2>5. shares'[i] = row /\ Sent' = Sent
    BY <2>t, <2>3, <1>2, ShareBecomes
  <2>n. row.marks \in Nat /\ row.marks >= shares[i].marks /\ row.marks + row.messages <= MaxMarks
    BY <1>2, <1>4, <2>2, SharesBounds DEF ShareRow
  <2>o. shares[i].revoked => (o = 1 <=> (visits[v].by = shares[i].to /\ visits[v].why # "article"))
    BY <1>1, <1>6
  <2>6. ShareFits(i)'
    <3>1. /\ row.context = shares[i].context /\ row.revoked = shares[i].revoked
          /\ row.read = shares[i].read /\ row.readThen = shares[i].readThen
      BY <2>2
    <3>2. /\ row.from = shares[i].from /\ row.to = shares[i].to /\ row.late = shares[i].late - o
          /\ i \in Sent /\ o \in {0, 1} /\ visits[v] # Away
      BY <1>1, <1>2, <1>6, <2>2
    <3> QED
      BY <1>3, <1>i, <2>5, <2>n, <2>o, <3>1, <3>2, StillPending, ZenonT(30)
  <2>7. Answered1(i)'
    BY <2>4 DEF Answered1, ChoresOf
  <2>8. ASSUME NEW k \in chores', k.share = i PROVE ChoreFits(k)'
    <3>1. CASE k = k0
      BY <1>2, <2>2, <2>4, <2>5, <3>1 DEF ChoreFits, ShareRow
    <3>2. CASE k \in chores
      <4>1. k \in ChoresOf(i) /\ ChoreFits(k) /\ k \in ChoreRow
        BY <2>8, <3>2, ShareTypes DEF ChoresOf
      <4>2. s => k.pc # "answer"
        BY <4>1, <2>s
      <4> QED
        BY <1>2, <2>2, <2>5, <2>8, <4>1, <4>2 DEF ChoreFits, ShareRow, ChoreRow
    <3> QED
      BY <2>4, <3>1, <3>2
  <2>9. chores' \in SUBSET ChoreRow /\ (\A k \in chores' : k \in chores \/ k.share = i) /\ chores \subseteq chores'
    BY <2>4 DEF SharesGood, SharesTyped
  <2> QED
    BY <1>2, <1>5, <2>t, <2>2, <2>3, <2>6, <2>7, <2>8, <2>9, GoodAgain
<1>8. CASE AddMessage(v)
  <2>m. PICK m \in 0 .. MaxMarks : m = shares[i].messages + 1
    BY <1>2, <1>4, SharesBounds DEF ShareRow
  <2>l. PICK l \in Int : l = shares[i].late - o
    BY <1>2, <1>6 DEF ShareRow
  <2>1. PICK row : row = [shares[i] EXCEPT !.messages = m, !.late = l]
    OBVIOUS
  <2>t. row \in ShareRow
    BY <1>2, <2>1 DEF ShareRow
  <2>2. /\ row.from = shares[i].from /\ row.to = shares[i].to /\ row.marks = shares[i].marks
        /\ row.messages = shares[i].messages + 1 /\ row.context = shares[i].context /\ row.steady = shares[i].steady
        /\ row.late = shares[i].late - o /\ row.revoked = shares[i].revoked /\ row.read = shares[i].read
        /\ row.readThen = shares[i].readThen
    BY <1>2, <2>m, <2>l, <2>1 DEF ShareRow
  <2>3. shares' = [shares EXCEPT ![i] = row] /\ chores' = chores
    BY <1>i, <1>o, <1>8, <2>1, <2>m, <2>l DEF AddMessage
  <2>5. shares'[i] = row /\ Sent' = Sent
    BY <2>t, <2>3, <1>2, ShareBecomes
  <2>n. row.marks \in Nat /\ row.marks >= shares[i].marks /\ row.marks + row.messages <= MaxMarks
    BY <1>2, <1>4, <2>2, SharesBounds DEF ShareRow
  <2>o. shares[i].revoked => (o = 1 <=> (visits[v].by = shares[i].to /\ visits[v].why # "article"))
    BY <1>1, <1>6
  <2>6. ShareFits(i)'
    <3>1. /\ row.context = shares[i].context /\ row.revoked = shares[i].revoked
          /\ row.read = shares[i].read /\ row.readThen = shares[i].readThen
      BY <2>2
    <3>2. /\ row.from = shares[i].from /\ row.to = shares[i].to /\ row.late = shares[i].late - o
          /\ i \in Sent /\ o \in {0, 1} /\ visits[v] # Away
      BY <1>1, <1>2, <1>6, <2>2
    <3> QED
      BY <1>3, <1>i, <2>5, <2>n, <2>o, <3>1, <3>2, StillPending, ZenonT(30)
  <2>7. Answered1(i)'
    BY <1>2, <2>2, <2>3, <2>5 DEF Answered1, ChoresOf
  <2>8. ASSUME NEW k \in chores, k.share = i PROVE ChoreFits(k)'
    BY <1>2, <2>2, <2>5, <2>8, ShareTypes DEF ChoreFits
  <2>9. chores' \in SUBSET ChoreRow
    BY <2>3 DEF SharesGood, SharesTyped
  <2> QED
    BY <1>2, <1>5, <2>t, <2>2, <2>3, <2>6, <2>7, <2>8, <2>9, GoodAgain
<1> QED
  BY <1>7, <1>8

LEMMA VisitEndsGood ==
  ASSUME SharesGood, NEW v \in Visits, GiveArticle(v) \/ FailVisit(v)
  PROVE  SharesGood'
<1>i. PICK i : i = visits[v].share
  OBVIOUS
<1>1. visits[v] # Away
  BY DEF GiveArticle, FailVisit, Away
<1>2. i \in Sent /\ shares[i] \in ShareRow /\ ShareFits(i) /\ Answered1(i) /\ visits[v] \in ErrandRow
  BY <1>i, <1>1, ShareTypes DEF VisitFits
<1>3. visits' = [visits EXCEPT ![v] = Away] /\ chores' = chores
  BY DEF GiveArticle, FailVisit
<1>5. /\ visits' \in [Visits -> ErrandRow \cup {Away}]
      /\ \A w \in Visits : visits'[w] = visits[w] \/ (visits'[w] = Away /\ visits[w].share = i)
  BY <1>i, <1>3 DEF SharesGood, SharesTyped
<1>o. PICK o : o = IF visits[v].why = "article" THEN 0 ELSE Overdue(v, i)
  OBVIOUS
<1>6. /\ o \in {0, 1} /\ (shares[i].revoked => (o = 1 <=> (visits[v].by = shares[i].to /\ visits[v].why # "article")))
  BY <1>o DEF Overdue
<1>7. PICK row : row = [shares[i] EXCEPT !.late = shares[i].late - o]
  OBVIOUS
<1>8. /\ row \in ShareRow /\ row.from = shares[i].from /\ row.to = shares[i].to /\ row.marks = shares[i].marks
      /\ row.messages = shares[i].messages /\ row.context = shares[i].context /\ row.steady = shares[i].steady
      /\ row.late = shares[i].late - o /\ row.revoked = shares[i].revoked /\ row.read = shares[i].read
      /\ row.readThen = shares[i].readThen
  BY <1>2, <1>6, <1>7, SharesBounds DEF ShareRow
<1>9. shares' = [shares EXCEPT ![i] = row]
  <2>1. CASE FailVisit(v)
    BY <1>i, <1>o, <1>7, <2>1 DEF FailVisit
  <2>2. CASE GiveArticle(v)
    <3>1. o = 0 /\ shares' = shares
      BY <1>o, <2>2 DEF GiveArticle
    <3>2. row = shares[i]
      BY <1>2, <1>7, <3>1 DEF ShareRow
    <3>3. shares \in Seq(ShareRow)
      BY DEF SharesGood, SharesTyped
    <3> QED
      BY <3>1, <3>2, <3>3
  <2> QED
    BY <2>1, <2>2
<1>10. shares'[i] = row /\ Sent' = Sent
  BY <1>2, <1>8, <1>9, ShareBecomes
<1>11. ShareFits(i)'
  <2>1. shares[i].marks + shares[i].messages <= MaxMarks
    BY <1>2 DEF ShareFits
  <2>2. row.marks \in Nat /\ row.marks >= shares[i].marks /\ row.marks + row.messages <= MaxMarks
    BY <1>2, <1>8, <2>1, SharesBounds DEF ShareRow
  <2>3. /\ row.context = shares[i].context /\ row.revoked = shares[i].revoked
        /\ row.read = shares[i].read /\ row.readThen = shares[i].readThen
    BY <1>8
  <2>4. /\ row.from = shares[i].from /\ row.to = shares[i].to /\ row.late = shares[i].late - o
        /\ i \in Sent /\ o \in {0, 1}
    BY <1>2, <1>6, <1>8
  <2>5. shares[i].revoked => (o = 1 <=> (visits[v].by = shares[i].to /\ visits[v].why # "article"))
    BY <1>6
  <2> QED
    BY <1>1, <1>3, <1>i, <1>10, <2>2, <2>3, <2>4, <2>5, StillPending, ZenonT(30)
<1>12. Answered1(i)'
  BY <1>2, <1>3, <1>8, <1>10 DEF Answered1, ChoresOf
<1>13. ASSUME NEW k \in chores, k.share = i PROVE ChoreFits(k)'
  BY <1>2, <1>8, <1>10, <1>13, ShareTypes DEF ChoreFits
<1>14. chores' \in SUBSET ChoreRow
  BY <1>3 DEF SharesGood, SharesTyped
<1> QED
  BY <1>2, <1>3, <1>5, <1>8, <1>9, <1>11, <1>12, <1>13, <1>14, GoodAgain

LEMMA ChoreGood ==
  ASSUME SharesGood, NEW k \in chores,
         TellRecipient(k) \/ ReadForContext(k) \/ StoreContext(k) \/ FailChore(k)
  PROVE  SharesGood'
<1>i. PICK i : i = k.share
  OBVIOUS
<1>1. i \in Sent /\ k \in ChoreRow /\ ChoreFits(k) /\ shares[i] \in ShareRow /\ ShareFits(i) /\ Answered1(i)
  BY <1>i, ShareTypes DEF ChoreFits
<1>2. visits' = visits
  BY DEF TellRecipient, ReadForContext, StoreContext, FailChore
<1>3. visits' \in [Visits -> ErrandRow \cup {Away}] /\ chores \in SUBSET ChoreRow /\ shares \in Seq(ShareRow)
  BY <1>2 DEF SharesGood, SharesTyped
<1>4. CASE TellRecipient(k) \/ ReadForContext(k)
  <2>1. PICK l \in ChoreRow :
          /\ shares' = shares /\ chores' = (chores \ {k}) \cup {l} /\ l.share = i /\ l.mark = k.mark
          /\ l.saw <= shares[i].marks /\ (shares[i].steady /\ l.pc = "answer" => l.saw = shares[i].marks)
    <3>1. CASE TellRecipient(k)
      <4>1. PICK l : l = [k EXCEPT !.pc = "read"]
        OBVIOUS
      <4>2. l \in ChoreRow /\ l.share = i /\ l.mark = k.mark /\ l.saw = k.saw /\ l.pc = "read"
        BY <1>1, <1>i, <4>1 DEF ChoreRow
      <4> QED
        BY <1>1, <1>i, <3>1, <4>1, <4>2 DEF TellRecipient, Become, ChoreFits
    <3>2. CASE ReadForContext(k)
      <4>1. PICK l : l = [k EXCEPT !.pc = "answer", !.saw = shares[i].marks]
        OBVIOUS
      <4>2. l \in ChoreRow /\ l.share = i /\ l.mark = k.mark /\ l.saw = shares[i].marks /\ l.pc = "answer"
        BY <1>1, <1>i, <4>1 DEF ChoreRow, ShareRow
      <4>3. shares[i].marks <= shares[i].marks
        BY <1>1 DEF ShareRow
      <4>4. shares' = shares /\ chores' = (chores \ {k}) \cup {l}
        BY <1>i, <3>2, <4>1 DEF ReadForContext, Become, MarksOf
      <4> QED
        BY <4>2, <4>3, <4>4
    <3> QED
      BY <1>4, <3>1, <3>2
  <2>2. PICK row : row = shares[i]
    OBVIOUS
  <2>3. shares' = [shares EXCEPT ![i] = row] /\ shares'[i] = row /\ Sent' = Sent
    BY <1>3, <2>1, <2>2 DEF Sent
  <2>4. ShareFits(i)'
    BY <1>1, <1>2, <2>1 DEF ShareFits, Pending
  <2>5. Answered1(i)'
    BY <2>1 DEF Answered1, ChoresOf
  <2>6. \A m \in chores' : m.share = i => ChoreFits(m)'
    BY <1>1, <1>i, <2>1, <2>3, ShareTypes DEF ChoreFits
  <2>7. chores' \in SUBSET ChoreRow
    BY <1>3, <2>1
  <2> QED
    BY <1>1, <1>2, <1>3, <1>i, <2>1, <2>2, <2>3, <2>4, <2>5, <2>6, <2>7, GoodAgain
<1>5. CASE StoreContext(k)
  <2>1. PICK row : row = [shares[i] EXCEPT !.context = k.saw]
    OBVIOUS
  <2>2. /\ row \in ShareRow /\ row.from = shares[i].from /\ row.to = shares[i].to /\ row.marks = shares[i].marks
        /\ row.messages = shares[i].messages /\ row.context = k.saw /\ row.steady = shares[i].steady
        /\ row.late = shares[i].late /\ row.revoked = shares[i].revoked /\ row.read = shares[i].read
        /\ row.readThen = shares[i].readThen
    BY <1>1, <2>1, SharesBounds DEF ShareRow, ChoreRow
  <2>3. shares' = [shares EXCEPT ![i] = row] /\ chores' = chores \ {k}
    BY <1>i, <1>5, <2>1 DEF StoreContext
  <2>4. shares'[i] = row /\ Sent' = Sent
    BY <1>1, <2>2, <2>3, ShareBecomes
  <2>5. ShareFits(i)'
    <3>1. Pending(shares[i].to, i)' = Pending(shares[i].to, i)
      BY <1>2, <2>2, <2>4 DEF Pending
    <3>2. k.saw <= shares[i].marks
      BY <1>1, <1>i DEF ChoreFits
    <3> QED
      BY <1>1, <2>2, <2>4, <3>1, <3>2 DEF ShareFits
  <2>6. Answered1(i)'
    BY <1>1, <1>5, <1>i, <2>2, <2>4 DEF Answered1, ChoreFits, StoreContext
  <2>7. \A m \in chores' : m.share = i => ChoreFits(m)'
    BY <1>1, <2>2, <2>3, <2>4, ShareTypes DEF ChoreFits
  <2>8. chores' \in SUBSET ChoreRow /\ (\A m \in chores' : m \in chores) /\ \A m \in chores : m \in chores' \/ m.share = i
    BY <1>3, <1>i, <2>3
  <2> QED
    BY <1>1, <1>2, <1>3, <2>2, <2>3, <2>5, <2>6, <2>7, <2>8, GoodAgain
<1>6. CASE FailChore(k)
  <2>1. PICK row : row = [shares[i] EXCEPT !.steady = FALSE]
    OBVIOUS
  <2>2. /\ row \in ShareRow /\ row.from = shares[i].from /\ row.to = shares[i].to /\ row.marks = shares[i].marks
        /\ row.messages = shares[i].messages /\ row.context = shares[i].context /\ row.steady = FALSE
        /\ row.late = shares[i].late /\ row.revoked = shares[i].revoked /\ row.read = shares[i].read
        /\ row.readThen = shares[i].readThen
    BY <1>1, <2>1, SharesBounds DEF ShareRow
  <2>3. shares' = [shares EXCEPT ![i] = row] /\ chores' = chores \ {k}
    BY <1>i, <1>6, <2>1 DEF FailChore
  <2>4. shares'[i] = row /\ Sent' = Sent
    BY <1>1, <2>2, <2>3, ShareBecomes
  <2>5. ShareFits(i)'
    BY <1>1, <1>2, <2>2, <2>4 DEF ShareFits, Pending
  <2>6. Answered1(i)'
    BY <2>2, <2>4 DEF Answered1
  <2>7. \A m \in chores' : m.share = i => ChoreFits(m)'
    BY <1>1, <2>2, <2>3, <2>4, ShareTypes DEF ChoreFits
  <2>8. chores' \in SUBSET ChoreRow /\ (\A m \in chores' : m \in chores) /\ \A m \in chores : m \in chores' \/ m.share = i
    BY <1>3, <1>i, <2>3
  <2> QED
    BY <1>1, <1>2, <1>3, <2>2, <2>3, <2>5, <2>6, <2>7, <2>8, GoodAgain
<1> QED
  BY <1>4, <1>5, <1>6

LEMMA SharesStepGood == SharesGood /\ [SharesNext]_sharesVars => SharesGood'
<1> SUFFICES ASSUME SharesGood, [SharesNext]_sharesVars PROVE SharesGood'
  OBVIOUS
<1>1. CASE UNCHANGED sharesVars
  <2>1. shares' = shares /\ visits' = visits /\ chores' = chores /\ Sent' = Sent
    BY <1>1 DEF sharesVars, Sent
  <2>2. \A i \in Sent : ShareFits(i)' /\ Answered1(i)'
    BY <2>1, ShareTypes DEF ShareFits, Answered1, ChoresOf, Pending
  <2>3. (\A v \in Visits : VisitFits(v)') /\ \A k \in chores : ChoreFits(k)'
    BY <2>1, ShareTypes DEF VisitFits, ChoreFits
  <2> QED
    BY <2>1, <2>2, <2>3 DEF SharesGood, SharesTyped
<1>2. CASE SharesNext
  BY <1>2, ShareArticleGood, MarkReadGood, VisitGood, MarkOrMessageGood, VisitEndsGood, ChoreGood DEF SharesNext
<1> QED
  BY <1>1, <1>2

-----------------------------------------------------------------------------
(* The lists of shares                                                     *)

\* A list holds all that there is, or as much as it may.
LEMMA NewestIsAllOrFull ==
  ASSUME NEW n \in Nat, NEW is \in SUBSET (1 .. n)
  PROVE  Newest(is) = is \/ Cardinality(Newest(is)) = MaxInbox
<1>1. IsFiniteSet(1 .. n)
  BY FS_Interval
<1>2. \A s \in SUBSET is : IsFiniteSet(s) /\ Cardinality(s) \in Nat
  BY <1>1, FS_Subset, FS_CardinalityType
<1>n. PICK nw : nw = Newest(is)
  OBVIOUS
<1> DEFINE Later(i) == {j \in is : j > i}
<1>3. nw \subseteq is /\ \A i \in is : i \in nw <=> Cardinality(Later(i)) < MaxInbox
  BY <1>n DEF Newest, Later
<1> SUFFICES ASSUME nw # is PROVE Cardinality(nw) = MaxInbox
  BY <1>n
<1> HIDE DEF Later
<1>4. is \ nw # {} /\ is \ nw \in SUBSET (0 .. n)
  <2>1. 1 .. n \subseteq 0 .. n
    OBVIOUS
  <2> QED
    BY <1>3, <2>1
<1>5. PICK g \in is \ nw : \A j \in is \ nw : j <= g
  BY <1>4, MaxIsGreatest
<1>6. Later(g) \subseteq nw /\ Cardinality(Later(g)) >= MaxInbox
  <2>1. \A j \in Later(g) : j \in nw
    BY <1>5 DEF Later
  <2>2. Cardinality(Later(g)) \in Nat /\ ~(Cardinality(Later(g)) < MaxInbox)
    BY <1>2, <1>3, <1>5 DEF Later
  <2> QED
    BY <2>1, <2>2, SharesBounds
<1>7. IsFiniteSet(nw) /\ Cardinality(nw) \in Nat /\ Cardinality(Later(g)) \in Nat
      /\ Cardinality(Later(g)) <= Cardinality(nw)
  BY <1>2, <1>3, <1>6, FS_Subset
<1>8. CASE nw = {}
  BY <1>6, <1>7, <1>8, FS_EmptySet, SharesBounds
<1>9. CASE nw # {}
  <2>1. nw \subseteq Nat
    BY <1>3
  <2>2. PICK l \in nw : \A j \in nw : l <= j
    BY <1>9, <2>1, LeastNatural
  <2>3. nw \ {l} \subseteq Later(l)
    BY <1>3, <2>1, <2>2 DEF Later
  <2>4. Cardinality(nw \ {l}) = Cardinality(nw) - 1
    BY <1>7, FS_RemoveElement
  <2>5. IsFiniteSet(Later(l)) /\ Cardinality(Later(l)) \in Nat /\ Cardinality(Later(l)) < MaxInbox
    BY <1>2, <1>3, <2>2 DEF Later
  <2>6. Cardinality(nw \ {l}) <= Cardinality(Later(l))
    BY <2>3, <2>5, FS_Subset
  <2> QED
    BY <1>6, <1>7, <2>4, <2>5, <2>6, SharesBounds
<1> QED
  BY <1>8, <1>9

LEMMA ListsAreRight == SharesGood => BadgeIsInbox
<1> SUFFICES ASSUME SharesGood, NEW r \in Readers
    PROVE  /\ LET unread == {i \in ReceivedBy(r) : ~shares[i].read}
              IN Cardinality(ReceivedBy(r)) < MaxInbox => UnreadCount(r) = Cardinality(unread)
           /\ \A i \in ReceivedBy(r) : LET s == SentBy(shares[i].from) IN i \in s \/ Cardinality(s) = MaxInbox
  BY DEF BadgeIsInbox
<1>1. Len(shares) \in Nat /\ Sent = 1 .. Len(shares)
  BY ShareTypes
<1>2. ASSUME Cardinality(ReceivedBy(r)) < MaxInbox
      PROVE  UnreadCount(r) = Cardinality({i \in ReceivedBy(r) : ~shares[i].read})
  <2>1. PICK is : is = {i \in Sent : shares[i].to = r /\ ~shares[i].revoked}
    OBVIOUS
  <2>2. Newest(is) = is \/ Cardinality(Newest(is)) = MaxInbox
    BY <1>1, <2>1, NewestIsAllOrFull
  <2>3. ReceivedBy(r) = is
    BY <1>2, <2>1, <2>2, SharesBounds DEF ReceivedBy
  <2>4. {i \in ReceivedBy(r) : ~shares[i].read} = {i \in Sent : shares[i].to = r /\ ~shares[i].read /\ ~shares[i].revoked}
    BY <2>1, <2>3
  <2> QED
    BY <2>4 DEF UnreadCount
<1>3. ASSUME NEW i \in ReceivedBy(r)
      PROVE  i \in SentBy(shares[i].from) \/ Cardinality(SentBy(shares[i].from)) = MaxInbox
  <2>1. i \in Sent
    BY DEF ReceivedBy, Newest
  <2>2. PICK is : is = {j \in Sent : shares[j].from = shares[i].from}
    OBVIOUS
  <2>3. Newest(is) = is \/ Cardinality(Newest(is)) = MaxInbox
    BY <1>1, <2>2, NewestIsAllOrFull
  <2> QED
    BY <2>1, <2>2, <2>3 DEF SentBy
<1> QED
  BY <1>2, <1>3

LEMMA SharesParts == SharesGood => SharesTypeOK /\ SharesInv
<1> SUFFICES ASSUME SharesGood PROVE SharesTypeOK /\ SharesInv
  OBVIOUS
<1>1. \A v \in Visits : visits[v] = Away \/ (visits[v].share \in Sent /\ visits[v].by \in Readers /\ visits[v].why \in Errands)
  BY ShareTypes DEF VisitFits, ErrandRow
<1>2. \A k \in chores : k.share \in Sent /\ k.pc \in {"tell", "read", "answer"}
  BY ShareTypes DEF ChoreFits, ChoreRow
<1>3. \A i \in Sent :
       /\ {shares[i].from, shares[i].to} \subseteq Readers
       /\ {shares[i].read, shares[i].revoked, shares[i].steady} \subseteq BOOLEAN
       /\ {shares[i].marks, shares[i].messages} \subseteq 0 .. MaxMarks
       /\ shares[i].context \in -1 .. MaxMarks
  BY ShareTypes DEF ShareRow
<1>4. SharesTypeOK
  BY <1>1, <1>2, <1>3 DEF SharesTypeOK, SharesGood, SharesTyped
<1>5. RevokedIsClosed /\ ContextKeepsUp
  BY ShareTypes DEF RevokedIsClosed, ContextKeepsUp, ShareFits, Answered1
<1>6. GivenThroughShare
  BY ShareTypes DEF GivenThroughShare, VisitFits
<1> QED
  BY <1>4, <1>5, <1>6, ListsAreRight DEF SharesInv

\* A revoked share takes at most what was pending then and is not read any more, what
\* is said of a share keeps up with its marks, the number of unread shares is the one
\* of the list, and nobody is let in but through a share of theirs (shares/).
THEOREM SharesAreKept == SharesSpec => []SharesInv
<1> QED
  BY SharesInitGood, SharesStepGood, SharesParts, PTL DEF SharesSpec

(***************************************************************************)
(* The answer about a briefing                                             *)
(***************************************************************************)

-----------------------------------------------------------------------------
(* Lists and what is chosen of them                                        *)

LEMMA PlacesOfAList ==
  ASSUME NEW m \in Nat, NEW places \in SUBSET (1 .. m)
  PROVE  IsFiniteSet(places) /\ Cardinality(places) \in 0 .. m
<1>1. 1 \in Int /\ m \in Int
  OBVIOUS
<1>2. IsFiniteSet(1 .. m) /\ Cardinality(1 .. m) = IF 1 > m THEN 0 ELSE m - 1 + 1
  BY <1>1, FS_Interval, Zenon
<1>3. Cardinality(1 .. m) = m
  BY <1>2
<1>4. IsFiniteSet(places) /\ Cardinality(places) <= m
  BY <1>2, <1>3, FS_Subset
<1>5. Cardinality(places) \in Nat
  BY <1>4, FS_CardinalityType
<1> QED
  BY <1>4, <1>5

\* The places that are chosen, one after the other.
LEMMA EachIsChosen ==
  ASSUME NEW m \in Nat, NEW places \in SUBSET (1 .. m)
  PROVE  [n \in 1 .. Cardinality(places) |-> Nth(places, n)] \in Bijection(1 .. Cardinality(places), places)
<1> DEFINE R == {p \in places \X places : p[1] < p[2]}
           k == Cardinality(places)
           f == [n \in 1 .. k |-> Nth(places, n)]
<1>1. IsFiniteSet(places) /\ k \in Nat
  BY PlacesOfAList
<1>2. places \in SUBSET Int
  OBVIOUS
<1>3. StrictlyOrders(R, places) /\ \A x \in places : PlaceOf(places, R, x) = Cardinality({y \in places : y < x})
  BY <1>2, NumbersAreOrdered, Zenon
<1> HIDE DEF R, k
<1>4. ASSUME NEW n \in 1 .. k
      PROVE  Nth(places, n) \in places /\ PlaceOf(places, R, Nth(places, n)) = n - 1
  <2>1. n - 1 \in 0 .. Cardinality(places) - 1
    BY <1>1 DEF k
  <2>2. PICK x \in places : PlaceOf(places, R, x) = n - 1
    BY <1>1, <1>3, <2>1, EveryPlaceIsTaken
  <2>3. \E i \in places : Cardinality({j \in places : j < i}) = n - 1
    BY <1>3, <2>2
  <2>4. Nth(places, n) \in places /\ Cardinality({j \in places : j < Nth(places, n)}) = n - 1
    BY <2>3, Zenon DEF Nth
  <2> QED
    BY <1>3, <2>4
<1>5. \A n, o \in 1 .. k : f[n] = f[o] => n = o
  BY <1>1, <1>4
<1>6. ASSUME NEW x \in places PROVE \E n \in 1 .. k : f[n] = x
  <2>1. PlaceOf(places, R, x) \in 0 .. k - 1
    BY <1>1, <1>3, PlacesAscend DEF k
  <2> DEFINE n == PlaceOf(places, R, x) + 1
  <2>2. n \in 1 .. k /\ PlaceOf(places, R, x) = n - 1
    BY <1>1, <2>1
  <2>3. Nth(places, n) \in places /\ PlaceOf(places, R, Nth(places, n)) = PlaceOf(places, R, x)
    BY <1>4, <2>2
  <2>4. Nth(places, n) = x
    BY <1>1, <1>3, <2>3, PlacesAscend
  <2> QED
    BY <2>2, <2>4
<1>7. f \in [1 .. k -> places]
  BY <1>4
<1>8. f \in Bijection(1 .. k, places)
  BY <1>5, <1>6, <1>7 DEF Bijection, Injection, IsInjective, Surjection
<1> QED
  BY <1>8 DEF k

\* A choice of a list is a list of some of its elements.
LEMMA ChoiceOfAList ==
  ASSUME NEW D, NEW list \in Seq(D), NEW places \in SUBSET (DOMAIN list)
  PROVE  /\ Chosen(list, places) \in Seq(D)
         /\ Len(Chosen(list, places)) = Cardinality(places) /\ Cardinality(places) \in 0 .. Len(list)
         /\ \A n \in 1 .. Cardinality(places) :
              Nth(places, n) \in places /\ Chosen(list, places)[n] = list[Nth(places, n)]
<1>1. Len(list) \in Nat /\ DOMAIN list = 1 .. Len(list) /\ \A i \in 1 .. Len(list) : list[i] \in D
  OBVIOUS
<1>2. Cardinality(places) \in 0 .. Len(list)
  BY <1>1, PlacesOfAList
<1> DEFINE f == [n \in 1 .. Cardinality(places) |-> Nth(places, n)]
<1>3. f \in Bijection(1 .. Cardinality(places), places)
  BY <1>1, EachIsChosen, Zenon
<1>4. \A n \in 1 .. Cardinality(places) : f[n] \in places
  BY <1>3 DEF Bijection, Injection
<1>5. \A n \in 1 .. Cardinality(places) : Nth(places, n) \in places
  BY <1>4
<1>6. Chosen(list, places) = [n \in 1 .. Cardinality(places) |-> list[Nth(places, n)]]
  BY DEF Chosen
<1>7. \A n \in 1 .. Cardinality(places) : list[Nth(places, n)] \in D
  BY <1>1, <1>5
<1> QED
  BY <1>2, <1>5, <1>6, <1>7

\* The first few of a list.
LEMMA FirstOfAList ==
  ASSUME NEW D, NEW list \in Seq(D), NEW n \in Nat
  PROVE  /\ FirstOf(list, n) \in Seq(D)
         /\ Len(FirstOf(list, n)) <= n /\ Len(FirstOf(list, n)) <= Len(list)
         /\ \A i \in 1 .. Len(FirstOf(list, n)) : FirstOf(list, n)[i] = list[i]
         /\ Len(FirstOf(list, n)) = Len(list) => FirstOf(list, n) = list
<1> DEFINE m == Least(n, Len(list))
<1>1. m \in Nat /\ m <= n /\ m <= Len(list) /\ Len(list) \in Nat
  BY DEF Least
<1>2. \A i \in 1 .. m : list[i] \in D
  BY <1>1
<1> HIDE DEF m
<1>3. /\ SubSeq(list, 1, m) \in Seq(D)
      /\ Len(SubSeq(list, 1, m)) = IF 1 <= m THEN m - 1 + 1 ELSE 0
      /\ \A i \in 1 .. m - 1 + 1 : SubSeq(list, 1, m)[i] = list[1 + i - 1]
  BY <1>1, <1>2, SubSeqProperties
<1>4. Len(SubSeq(list, 1, m)) = m
  BY <1>1, <1>3
<1>5. \A i \in 1 .. m : SubSeq(list, 1, m)[i] = list[i]
  BY <1>1, <1>3
<1>6. FirstOf(list, n) = SubSeq(list, 1, m)
  BY DEF FirstOf, m
<1>7. m = Len(list) => SubSeq(list, 1, m) = list
  BY <1>1, <1>3, <1>4, <1>5, SeqEqual
<1> QED
  BY <1>1, <1>3, <1>4, <1>5, <1>6, <1>7

\* A list without its last element.
LEMMA WithoutTheLast ==
  ASSUME NEW D, NEW list \in Seq(D), list # <<>>
  PROVE  /\ WithoutLast(list) \in Seq(D) /\ Len(WithoutLast(list)) = Len(list) - 1 /\ Len(list) \in Nat \ {0}
         /\ \A i \in 1 .. Len(list) - 1 : WithoutLast(list)[i] = list[i]
         /\ Elements(list) \subseteq Elements(WithoutLast(list)) \cup {list[Len(list)]}
         /\ Elements(WithoutLast(list)) \subseteq Elements(list)
<1> DEFINE m == Len(list) - 1
<1>1. m \in Nat /\ Len(list) \in Nat \ {0} /\ m <= Len(list)
  BY EmptySeq
<1>2. \A i \in 1 .. m : list[i] \in D
  BY <1>1
<1>3. /\ SubSeq(list, 1, m) \in Seq(D)
      /\ Len(SubSeq(list, 1, m)) = IF 1 <= m THEN m - 1 + 1 ELSE 0
      /\ \A i \in 1 .. m - 1 + 1 : SubSeq(list, 1, m)[i] = list[1 + i - 1]
  BY <1>1, <1>2, SubSeqProperties
<1>0. WithoutLast(list) = SubSeq(list, 1, m)
  BY DEF WithoutLast
<1> HIDE DEF m
<1>4. Len(WithoutLast(list)) = m
  BY <1>0, <1>1, <1>3
<1>5. \A i \in 1 .. m : WithoutLast(list)[i] = list[i]
  BY <1>0, <1>1, <1>3
<1>6. WithoutLast(list) \in Seq(D)
  BY <1>0, <1>3
<1>7. DOMAIN WithoutLast(list) = 1 .. m /\ DOMAIN list = 1 .. Len(list)
  BY <1>4, <1>6
<1>8. ASSUME NEW i \in DOMAIN list, i # Len(list) PROVE list[i] \in Elements(WithoutLast(list))
  <2>1. i \in 1 .. m
    BY <1>1, <1>7, <1>8 DEF m
  <2> QED
    BY <1>5, <1>7, <2>1 DEF Elements
<1>9. Elements(list) \subseteq Elements(WithoutLast(list)) \cup {list[Len(list)]}
  BY <1>8 DEF Elements
<1>10. Elements(WithoutLast(list)) \subseteq Elements(list)
  <2>1. \A i \in 1 .. m : i \in DOMAIN list
    BY <1>1, <1>7
  <2> QED
    BY <1>5, <1>7, <2>1 DEF Elements
<1> QED
  BY <1>1, <1>4, <1>5, <1>6, <1>9, <1>10 DEF m

LEMMA ElementsAreFinite ==
  ASSUME NEW D, NEW list \in Seq(D)
  PROVE  /\ Elements(list) \subseteq D /\ IsFiniteSet(Elements(list))
         /\ Cardinality(Elements(list)) \in Nat /\ Cardinality(Elements(list)) <= Len(list)
<1>1. Len(list) \in Nat /\ DOMAIN list = 1 .. Len(list)
  OBVIOUS
<1>2. IsFiniteSet(1 .. Len(list)) /\ Cardinality(1 .. Len(list)) \in 0 .. Len(list)
  BY <1>1, PlacesOfAList
<1>3. IsFiniteSet({list[i] : i \in 1 .. Len(list)})
      /\ Cardinality({list[i] : i \in 1 .. Len(list)}) <= Cardinality(1 .. Len(list))
  BY <1>2, ImageFinite
<1>4. Elements(list) = {list[i] : i \in 1 .. Len(list)}
  BY <1>1 DEF Elements
<1>5. Cardinality({list[i] : i \in 1 .. Len(list)}) \in Nat
  BY <1>3, FS_CardinalityType
<1>6. Elements(list) \subseteq D
  BY <1>4
<1> QED
  BY <1>1, <1>2, <1>3, <1>4, <1>5, <1>6

\* A family of finite sets has finitely many pairs.
LEMMA PairsAreFinite ==
  ASSUME NEW family, IsFiniteSet(DOMAIN family), \A i \in DOMAIN family : IsFiniteSet(family[i])
  PROVE  IsFiniteSet(Pairs(family)) /\ Cardinality(Pairs(family)) \in Nat
<1> DEFINE row == [i \in DOMAIN family |-> {i} \X family[i]]
<1>1. \A i \in DOMAIN family : IsFiniteSet({i} \X family[i])
  BY FS_Singleton, FS_Product
<1>2. IsFiniteSet({row[i] : i \in DOMAIN family})
  BY ImageFinite
<1>3. IsFiniteSet(UNION {row[i] : i \in DOMAIN family})
  <2>1. \A T \in {row[i] : i \in DOMAIN family} : IsFiniteSet(T)
    BY <1>1
  <2> QED
    BY <1>2, <2>1, FS_UNION
<1>4. Pairs(family) = UNION {row[i] : i \in DOMAIN family}
  BY DEF Pairs
<1> QED
  BY <1>3, <1>4, FS_CardinalityType

LEMMA WhatArePairs ==
  ASSUME NEW family, NEW p
  PROVE  p \in Pairs(family) <=> \E i \in DOMAIN family : \E x \in family[i] : p = <<i, x>>
  BY DEF Pairs
-----------------------------------------------------------------------------
(* The answer                                                              *)

AnswerTyped ==
  /\ stage \in {"stored", "fitting", "over"}
  /\ given \in Briefings
  /\ shown \in [citations: Seq(Int), sections: Seq(SUBSET Int), worth: SUBSET Int, text: 0 .. Text]
  /\ Len(shown.citations) <= MaxCitations /\ Len(shown.sections) <= MaxSections
  /\ omitted \in [citations: Nat, sections: Nat, marked: BOOLEAN]
BudgetGood == AnswerTyped /\ NoDanglingReference /\ OmittedIsCounted /\ OmissionIsMarked

\* Content of the wrong shape is read as lists, too.
LEMMA StoredLists ==
  ASSUME given \in Briefings
  PROVE  /\ given.articles \in Seq(Int) /\ Worth \in Seq(Int) /\ Sections \in Seq(Seq(Int))
         /\ Len(given.articles) \in Nat /\ Len(Worth) \in Nat /\ Len(Sections) \in Nat
<1>1. given.articles \in Listed /\ given.worth \in Worthy /\ given.sections \in Sectioned
  BY DEF Briefings
<1>2. given.articles \in Seq(Int) /\ given.worth \in Seq(Int) /\ given.sections \in Seq(Seq(Int))
  BY <1>1, BudgetAssumption
<1>3. <<>> \in Seq(Int) /\ <<Malformed>> \in Seq(Seq(Int))
  BY DEF Malformed
<1>4. Worth \in Seq(Int) /\ Sections \in Seq(Seq(Int))
  BY <1>2, <1>3 DEF Worth, Sections
<1> QED
  BY <1>2, <1>4

LEMMA SectionsStay == given' = given => Sections' = Sections
  BY DEF Sections

LEMMA BudgetInitGood == BudgetInit => BudgetGood
<1> SUFFICES ASSUME BudgetInit PROVE BudgetGood
  OBVIOUS
<1>1. shown.citations = <<>> /\ shown.sections = <<>> /\ shown.worth = {} /\ shown.text = Text
      /\ stage = "stored"
  BY DEF BudgetInit
<1>2. Len(shown.citations) = 0 /\ Len(shown.sections) = 0
  BY <1>1
<1>3. AnswerTyped
  <2>1. <<>> \in Seq(Int) /\ <<>> \in Seq(SUBSET Int) /\ Text \in 0 .. Text
    BY BudgetAssumption
  <2>2. shown \in [citations: Seq(Int), sections: Seq(SUBSET Int), worth: SUBSET Int, text: 0 .. Text]
    BY <2>1 DEF BudgetInit
  <2> QED
    BY <1>2, <2>2, BudgetAssumption DEF AnswerTyped, BudgetInit
<1>4. NoDanglingReference
  BY <1>1 DEF NoDanglingReference, Elements
<1> QED
  BY <1>1, <1>3, <1>4 DEF BudgetGood, OmittedIsCounted, OmissionIsMarked

\* The references of sections are finitely many, and are among the citations.
LEMMA SectionsAreFinite ==
  ASSUME NEW list \in Seq(Int), NEW sections \in Seq(SUBSET Int),
         \A i \in DOMAIN sections : sections[i] \subseteq Elements(list)
  PROVE  /\ DOMAIN sections = 1 .. Len(sections) /\ Len(sections) \in Nat
         /\ \A i \in DOMAIN sections : IsFiniteSet(sections[i]) /\ Cardinality(sections[i]) \in Nat
         /\ IsFiniteSet(Pairs(sections)) /\ References(sections) \in Nat
<1>1. DOMAIN sections = 1 .. Len(sections) /\ Len(sections) \in Nat
  OBVIOUS
<1>2. IsFiniteSet(DOMAIN sections)
  BY <1>1, PlacesOfAList
<1>3. \A i \in DOMAIN sections : IsFiniteSet(sections[i]) /\ Cardinality(sections[i]) \in Nat
  BY ElementsAreFinite, FS_Subset, FS_CardinalityType
<1> QED
  BY <1>1, <1>2, <1>3, PairsAreFinite DEF References

\* A set without an element and what it had of it.
LEMMA OneTaken ==
  ASSUME NEW S, IsFiniteSet(S), NEW x
  PROVE  /\ Cardinality(S) = Cardinality(S \ {x}) + Cardinality(S \cap {x})
         /\ Cardinality(S \ {x}) \in Nat /\ Cardinality(S \cap {x}) \in Nat
<1>1. IsFiniteSet(S \ {x}) /\ IsFiniteSet(S \cap {x}) /\ (S \ {x}) \cap (S \cap {x}) = {}
  BY FS_Subset
<1>2. (S \ {x}) \cup (S \cap {x}) = S
  OBVIOUS
<1> QED
  BY <1>1, <1>2, CardinalityOfTwo, FS_CardinalityType

LEMMA DropCitationGood == ASSUME BudgetGood, DropCitation PROVE BudgetGood'
<1> DEFINE id == shown.citations[Len(shown.citations)]
<1>0. /\ AnswerTyped /\ stage = "fitting" /\ stage' = stage /\ given' = given
      /\ shown.citations # <<>> /\ shown.citations \in Seq(Int) /\ shown.sections \in Seq(SUBSET Int)
      /\ shown.worth \in SUBSET Int /\ shown.text \in 0 .. Text
      /\ \A i \in DOMAIN shown.sections : shown.sections[i] \subseteq Elements(shown.citations)
      /\ shown.worth \subseteq Elements(shown.citations)
  <2>1. AnswerTyped
    BY DEF BudgetGood
  <2>2. stage = "fitting" /\ stage' = stage /\ given' = given /\ shown.citations # <<>>
    BY DEF DropCitation, TooLarge
  <2>3. /\ \A i \in DOMAIN shown.sections : shown.sections[i] \subseteq Elements(shown.citations)
        /\ shown.worth \subseteq Elements(shown.citations)
    BY DEF BudgetGood, NoDanglingReference, Elements
  <2> QED
    BY <2>1, <2>2, <2>3 DEF AnswerTyped
<1>1. PICK sections : sections = Without(id)
  OBVIOUS
<1>2. PICK dropped : dropped = References(shown.sections) - References(sections)
                               + Cardinality(shown.worth \cap {id})
  OBVIOUS
<1>3. /\ shown' = [shown EXCEPT !.citations = WithoutLast(@), !.sections = sections, !.worth = @ \ {id}]
      /\ omitted' = [omitted EXCEPT !.citations = @ + 1 + dropped, !.marked = TRUE]
  BY <1>1, <1>2 DEF DropCitation
<1>4. /\ WithoutLast(shown.citations) \in Seq(Int)
      /\ Len(WithoutLast(shown.citations)) = Len(shown.citations) - 1 /\ Len(shown.citations) \in Nat \ {0}
      /\ Elements(shown.citations) \subseteq Elements(WithoutLast(shown.citations)) \cup {id}
  BY <1>0, WithoutTheLast
<1>5. shown'.citations = WithoutLast(shown.citations) /\ shown'.sections = sections
      /\ shown'.worth = shown.worth \ {id} /\ shown'.text = shown.text
  BY <1>0, <1>3 DEF AnswerTyped
<1>6. /\ sections = [i \in DOMAIN shown.sections |-> shown.sections[i] \ {id}]
      /\ sections \in Seq(SUBSET Int) /\ Len(sections) = Len(shown.sections)
      /\ DOMAIN sections = DOMAIN shown.sections
  <2>1. sections = [i \in DOMAIN shown.sections |-> shown.sections[i] \ {id}]
    BY <1>1 DEF Without
  <2>2. DOMAIN shown.sections = 1 .. Len(shown.sections) /\ Len(shown.sections) \in Nat
        /\ \A i \in 1 .. Len(shown.sections) : shown.sections[i] \in SUBSET Int
    BY <1>0
  <2> HIDE DEF id
  <2>3. \A i \in 1 .. Len(shown.sections) : shown.sections[i] \ {id} \in SUBSET Int
    BY <2>2
  <2> QED
    BY <2>1, <2>2, <2>3
<1> HIDE DEF id
<1>7. \A i \in DOMAIN sections : sections[i] \subseteq Elements(WithoutLast(shown.citations))
  BY <1>0, <1>4, <1>6
<1>8. shown.worth \ {id} \subseteq Elements(WithoutLast(shown.citations))
  BY <1>0, <1>4
<1>9. NoDanglingReference'
  <2>1. \A refs \in Elements(shown'.sections) \cup {shown'.worth} : refs \subseteq Elements(shown'.citations)
    BY <1>5, <1>7, <1>8 DEF Elements
  <2> QED
    BY <2>1 DEF NoDanglingReference, Elements
<1>10. IsFiniteSet(Pairs(shown.sections)) /\ References(shown.sections) \in Nat
  BY <1>0, SectionsAreFinite
<1>11. References(sections) \in Nat
  BY <1>4, <1>6, <1>7, SectionsAreFinite
<1>12. References(sections) <= References(shown.sections)
  <2>1. Pairs(sections) \subseteq Pairs(shown.sections)
    <3>1. ASSUME NEW p \in Pairs(sections) PROVE p \in Pairs(shown.sections)
      <4>1. PICK i \in DOMAIN sections : \E x \in sections[i] : p = <<i, x>>
        BY WhatArePairs
      <4>2. i \in DOMAIN shown.sections /\ sections[i] \subseteq shown.sections[i]
        BY <1>6
      <4> QED
        BY <4>1, <4>2, WhatArePairs
    <3> QED
      BY <3>1
  <2> QED
    BY <1>10, <2>1, FS_Subset DEF References
<1>13. Cardinality(shown.worth) = Cardinality(shown.worth \ {id}) + Cardinality(shown.worth \cap {id})
       /\ Cardinality(shown.worth \ {id}) \in Nat /\ Cardinality(shown.worth \cap {id}) \in Nat
  <2>1. IsFiniteSet(shown.worth)
    BY <1>0, ElementsAreFinite, FS_Subset
  <2> QED
    BY <2>1, OneTaken
<1>14. dropped \in Nat
  BY <1>2, <1>10, <1>11, <1>12, <1>13
<1>15. omitted.citations \in Nat /\ omitted.sections \in Nat
  BY <1>0 DEF AnswerTyped
<1>16. omitted' = [citations |-> omitted.citations + 1 + dropped, sections |-> omitted.sections, marked |-> TRUE]
  BY <1>0, <1>3 DEF AnswerTyped
<1>17. AnswerTyped'
  <2>1. shown' = [citations |-> WithoutLast(shown.citations), sections |-> sections,
                  worth |-> shown.worth \ {id}, text |-> shown.text]
    BY <1>0, <1>3 DEF AnswerTyped
  <2>2. shown' \in [citations: Seq(Int), sections: Seq(SUBSET Int), worth: SUBSET Int, text: 0 .. Text]
    BY <1>0, <1>4, <1>6, <2>1
  <2>3. Len(shown'.citations) <= MaxCitations /\ Len(shown'.sections) <= MaxSections
    BY <1>0, <1>4, <1>5, <1>6, BudgetAssumption DEF AnswerTyped
  <2>4. omitted' \in [citations: Nat, sections: Nat, marked: BOOLEAN]
    BY <1>14, <1>15, <1>16
  <2> QED
    BY <1>0, <2>2, <2>3, <2>4 DEF AnswerTyped
<1>18. OmittedIsCounted'
  <2>1. Mentions' = Mentions
    BY <1>0 DEF Mentions, WellFormed, Sections, Worth
  <2>2. Len(shown.sections) + omitted.sections = Len(Sections)
        /\ Len(shown.citations) + References(shown.sections) + Cardinality(shown.worth)
             + omitted.citations = Mentions
    BY <1>0 DEF BudgetGood, OmittedIsCounted
  <2>3. PICK c \in Nat \ {0} : c = Len(shown.citations)
    BY <1>4
  <2>4. PICK r \in Nat : r = References(shown.sections)
    BY <1>10
  <2>5. PICK s \in Nat : s = References(sections)
    BY <1>11
  <2>6. PICK u \in Nat : u = Cardinality(shown.worth \ {id})
    BY <1>13
  <2>7. PICK v \in Nat : v = Cardinality(shown.worth \cap {id})
    BY <1>13
  <2>8. (c - 1) + s + u + (omitted.citations + 1 + (r - s + v)) = c + r + (u + v) + omitted.citations
    BY <1>15
  <2>9. Len(shown'.citations) + References(shown'.sections) + Cardinality(shown'.worth) + omitted'.citations = Mentions
    BY <1>2, <1>4, <1>5, <1>13, <1>16, <2>2, <2>3, <2>4, <2>5, <2>6, <2>7, <2>8
  <2>10. Len(shown'.sections) + omitted'.sections = Len(Sections')
    BY <1>0, SectionsStay, <1>5, <1>6, <1>16, <2>2
  <2>11. References(shown.sections)' = References(shown'.sections)
    BY DEF References, Pairs
  <2> QED
    BY <2>1, <2>9, <2>10, <2>11 DEF OmittedIsCounted
<1>19. OmissionIsMarked'
  BY <1>16 DEF OmissionIsMarked
<1> QED
  BY <1>9, <1>17, <1>18, <1>19 DEF BudgetGood

\* No section refers to anything once the citations are gone.
LEMMA DropSectionGood == ASSUME BudgetGood, DropSection PROVE BudgetGood'
<1>0. /\ AnswerTyped /\ stage = "fitting" /\ stage' = stage /\ given' = given
      /\ shown.citations = <<>> /\ shown.sections # <<>> /\ shown.sections \in Seq(SUBSET Int)
      /\ \A i \in DOMAIN shown.sections : shown.sections[i] \subseteq Elements(shown.citations)
  <2>1. AnswerTyped
    BY DEF BudgetGood
  <2>2. stage = "fitting" /\ stage' = stage /\ given' = given /\ shown.citations = <<>> /\ shown.sections # <<>>
    BY DEF DropSection, TooLarge
  <2>3. \A i \in DOMAIN shown.sections : shown.sections[i] \subseteq Elements(shown.citations)
    BY DEF BudgetGood, NoDanglingReference, Elements
  <2> QED
    BY <2>1, <2>2, <2>3 DEF AnswerTyped
<1>1. PICK sections : sections = WithoutLast(shown.sections)
  OBVIOUS
<1>2. PICK n \in Nat \ {0} : n = Len(shown.sections)
  BY <1>0, EmptySeq
<1>3. PICK dropped : dropped = Cardinality(shown.sections[n])
  OBVIOUS
<1>4. /\ shown' = [shown EXCEPT !.sections = sections]
      /\ omitted' = [omitted EXCEPT !.sections = @ + 1, !.marked = TRUE, !.citations = @ + dropped]
  BY <1>1, <1>2, <1>3, <1>0 DEF DropSection, WithoutLast
<1>5. sections \in Seq(SUBSET Int) /\ Len(sections) = n - 1 /\ DOMAIN sections = 1 .. n - 1
      /\ \A i \in 1 .. n - 1 : sections[i] = shown.sections[i]
  BY <1>0, <1>1, <1>2, WithoutTheLast
<1>6. \A i \in 1 .. n : shown.sections[i] = {}
  BY <1>0, <1>2 DEF Elements
<1>7. dropped = 0
  <2>1. shown.sections[n] = {}
    BY <1>2, <1>6
  <2> QED
    BY <1>3, <2>1, FS_EmptySet
<1>8. DOMAIN shown.sections = 1 .. n
  BY <1>0, <1>2
<1>9. Pairs(shown.sections) = {} /\ Pairs(sections) = {}
  BY <1>2, <1>5, <1>6, <1>8 DEF Pairs
<1>10. References(sections) = References(shown.sections)
  BY <1>9 DEF References
<1>11. /\ shown'.sections = sections /\ shown'.citations = shown.citations /\ shown'.worth = shown.worth
       /\ shown'.text = shown.text
       /\ omitted' = [citations |-> omitted.citations, sections |-> omitted.sections + 1, marked |-> TRUE]
       /\ omitted.citations \in Nat /\ omitted.sections \in Nat
  <2>1. omitted.citations \in Nat /\ omitted.sections \in Nat /\ omitted.citations + 0 = omitted.citations
    BY <1>0 DEF AnswerTyped
  <2>2. omitted' = [omitted EXCEPT !.sections = @ + 1, !.marked = TRUE, !.citations = @ + 0]
    BY <1>4, <1>7
  <2> QED
    BY <1>0, <1>4, <2>1, <2>2 DEF AnswerTyped
<1>12. AnswerTyped'
  <2>1. shown' \in [citations: Seq(Int), sections: Seq(SUBSET Int), worth: SUBSET Int, text: 0 .. Text]
    BY <1>0, <1>4, <1>5 DEF AnswerTyped
  <2>2. n <= MaxSections
    BY <1>0, <1>2 DEF AnswerTyped
  <2>3. Len(shown'.citations) <= MaxCitations /\ Len(shown'.sections) <= MaxSections
    BY <1>0, <1>5, <1>11, <2>2, BudgetAssumption DEF AnswerTyped
  <2>4. omitted' \in [citations: Nat, sections: Nat, marked: BOOLEAN]
    BY <1>11
  <2> QED
    BY <1>0, <2>1, <2>3, <2>4 DEF AnswerTyped
<1>13. NoDanglingReference'
  <2>1. shown.worth \subseteq Elements(shown.citations)
    BY DEF BudgetGood, NoDanglingReference, Elements
  <2>2. \A i \in DOMAIN sections : sections[i] \subseteq Elements(shown.citations)
    BY <1>2, <1>5, <1>6
  <2>3. \A refs \in Elements(shown'.sections) \cup {shown'.worth} : refs \subseteq Elements(shown'.citations)
    BY <1>11, <2>1, <2>2 DEF Elements
  <2> QED
    BY <2>3 DEF NoDanglingReference, Elements
<1>14. OmittedIsCounted'
  <2>1. Mentions' = Mentions
    BY <1>0 DEF Mentions, WellFormed, Sections, Worth
  <2>2. n + omitted.sections = Len(Sections)
        /\ Len(shown.citations) + References(shown.sections) + Cardinality(shown.worth)
             + omitted.citations = Mentions
    BY <1>0, <1>2 DEF BudgetGood, OmittedIsCounted
  <2>3. Len(shown'.citations) + References(shown'.sections) + Cardinality(shown'.worth) + omitted'.citations = Mentions
    BY <1>10, <1>11, <2>2
  <2>4. (n - 1) + (omitted.sections + 1) = n + omitted.sections
    <3>1. PICK o \in Nat : o = omitted.sections
      BY <1>11
    <3>2. (n - 1) + (o + 1) = n + o
      OBVIOUS
    <3> QED
      BY <3>1, <3>2
  <2>5. Len(shown'.sections) + omitted'.sections = Len(Sections')
    BY <1>0, SectionsStay, <1>5, <1>11, <2>2, <2>4
  <2>6. References(shown.sections)' = References(shown'.sections)
    BY DEF References, Pairs
  <2> QED
    BY <2>1, <2>3, <2>5, <2>6 DEF OmittedIsCounted
<1>15. OmissionIsMarked'
  BY <1>11 DEF OmissionIsMarked
<1> QED
  BY <1>12, <1>13, <1>14, <1>15 DEF BudgetGood

LEMMA ShortenTextGood == ASSUME BudgetGood, ShortenText PROVE BudgetGood'
<1>0. AnswerTyped /\ stage = "fitting" /\ stage' = stage /\ given' = given
  BY DEF BudgetGood, ShortenText, TooLarge
<1>1. /\ shown'.sections = shown.sections /\ shown'.citations = shown.citations /\ shown'.worth = shown.worth
      /\ shown.text - 1 \in 0 .. Text
      /\ shown' = [shown EXCEPT !.text = @ - 1]
      /\ omitted' = [omitted EXCEPT !.marked = TRUE] /\ omitted'.marked = TRUE
      /\ omitted'.citations = omitted.citations /\ omitted'.sections = omitted.sections
  BY <1>0, BudgetAssumption DEF AnswerTyped, ShortenText
<1>2. AnswerTyped'
  BY <1>0, <1>1 DEF AnswerTyped
<1>3. NoDanglingReference'
  BY <1>1 DEF BudgetGood, NoDanglingReference, Elements
<1>4. OmittedIsCounted'
  <2>1. Mentions' = Mentions
    BY <1>0 DEF Mentions, WellFormed, Sections, Worth
  <2>2. References(shown.sections)' = References(shown.sections)
    BY <1>1 DEF References, Pairs
  <2> QED
    BY <1>0, <1>1, <2>1, <2>2, SectionsStay DEF BudgetGood, OmittedIsCounted
<1>5. OmissionIsMarked'
  BY <1>1 DEF OmissionIsMarked
<1> QED
  BY <1>2, <1>3, <1>4, <1>5 DEF BudgetGood

LEMMA NothingChanges ==
  ASSUME BudgetGood, UNCHANGED <<given, shown, omitted>>, stage' \in {"stored", "fitting", "over"},
         stage' # "stored" => stage # "stored"
  PROVE  BudgetGood'
<1>1. AnswerTyped'
  BY DEF BudgetGood, AnswerTyped
<1>2. NoDanglingReference'
  BY DEF BudgetGood, NoDanglingReference, Elements
<1>3. OmittedIsCounted'
  <2>1. Mentions' = Mentions
    BY DEF Mentions, WellFormed, Sections, Worth
  <2>2. References(shown.sections)' = References(shown.sections)
    BY DEF References, Pairs
  <2> QED
    BY <2>1, <2>2, SectionsStay DEF BudgetGood, OmittedIsCounted
<1>4. OmissionIsMarked'
  BY DEF BudgetGood, OmissionIsMarked
<1> QED
  BY <1>1, <1>2, <1>3, <1>4 DEF BudgetGood

-----------------------------------------------------------------------------
(* What is mentioned                                                       *)

\* The places of a list.
Spots(list) == [i \in DOMAIN list |-> DOMAIN list[i]]

LEMMA SpotsAreFinite ==
  ASSUME NEW D, NEW list \in Seq(Seq(D))
  PROVE  IsFiniteSet(Pairs(Spots(list))) /\ Cardinality(Pairs(Spots(list))) \in Nat
<1>1. DOMAIN list = 1 .. Len(list) /\ Len(list) \in Nat /\ \A i \in 1 .. Len(list) : list[i] \in Seq(D)
  OBVIOUS
<1>2. IsFiniteSet(DOMAIN list)
  BY <1>1, PlacesOfAList
<1>3. \A i \in DOMAIN list : IsFiniteSet(DOMAIN list[i])
  <2> SUFFICES ASSUME NEW i \in DOMAIN list PROVE IsFiniteSet(DOMAIN list[i])
    OBVIOUS
  <2>1. DOMAIN list[i] = 1 .. Len(list[i]) /\ Len(list[i]) \in Nat
    BY <1>1
  <2> QED
    BY <2>1, PlacesOfAList
<1>4. DOMAIN Spots(list) = DOMAIN list /\ \A i \in DOMAIN list : Spots(list)[i] = DOMAIN list[i]
  BY DEF Spots
<1> QED
  BY <1>2, <1>3, <1>4, PairsAreFinite

\* What sections refer to of what is visible is no more than what is in them,
\* and if in no section there is less, it is all.
LEMMA FewerReferences ==
  ASSUME NEW D, NEW good \in Seq(Seq(D)), NEW V,
         NEW sections, sections = [i \in DOMAIN good |-> Elements(good[i]) \cap V]
  PROVE  /\ IsFiniteSet(Pairs(sections)) /\ References(sections) \in Nat
         /\ References(sections) <= Cardinality(Pairs(Spots(good)))
         /\ (\A i \in DOMAIN good : Len(good[i]) <= Cardinality(sections[i]))
              => References(sections) = Cardinality(Pairs(Spots(good)))
<1> DEFINE P == Pairs(sections)
           Q == Pairs(Spots(good))
           place(p) == CHOOSE j \in DOMAIN good[p[1]] : good[p[1]][j] = p[2]
           f == [p \in P |-> <<p[1], place(p)>>]
<1>1. DOMAIN good = 1 .. Len(good) /\ Len(good) \in Nat /\ \A i \in 1 .. Len(good) : good[i] \in Seq(D)
  OBVIOUS
<1>2. DOMAIN sections = DOMAIN good /\ DOMAIN Spots(good) = DOMAIN good
      /\ \A i \in DOMAIN good : sections[i] = Elements(good[i]) \cap V /\ Spots(good)[i] = DOMAIN good[i]
  BY DEF Spots
<1>3. ASSUME NEW p \in P
      PROVE  /\ p[1] \in DOMAIN good /\ p = <<p[1], p[2]>> /\ p[2] \in sections[p[1]]
             /\ place(p) \in DOMAIN good[p[1]] /\ good[p[1]][place(p)] = p[2]
  <2>1. PICK i \in DOMAIN sections : \E x \in sections[i] : p = <<i, x>>
    BY WhatArePairs
  <2>2. p[1] = i /\ p = <<p[1], p[2]>> /\ p[2] \in sections[i] /\ i \in DOMAIN good
    BY <1>2, <2>1
  <2>3. p[2] \in Elements(good[i])
    BY <1>2, <2>2
  <2>4. \E j \in DOMAIN good[p[1]] : good[p[1]][j] = p[2]
    BY <2>2, <2>3 DEF Elements
  <2>5. place(p) \in DOMAIN good[p[1]] /\ good[p[1]][place(p)] = p[2]
    BY <2>4
  <2> QED
    BY <2>2, <2>5
<1>4. IsFiniteSet(Q) /\ Cardinality(Q) \in Nat
  BY SpotsAreFinite
<1> HIDE DEF place
<1>5. \A p \in P : f[p] \in Q
  <2> SUFFICES ASSUME NEW p \in P PROVE <<p[1], place(p)>> \in Q
    OBVIOUS
  <2>1. p[1] \in DOMAIN Spots(good) /\ place(p) \in Spots(good)[p[1]]
    BY <1>2, <1>3
  <2> QED
    BY <2>1, WhatArePairs
<1>6. \A p, q \in P : f[p] = f[q] => p = q
  <2> SUFFICES ASSUME NEW p \in P, NEW q \in P, <<p[1], place(p)>> = <<q[1], place(q)>> PROVE p = q
    OBVIOUS
  <2>1. p[1] = q[1] /\ place(p) = place(q)
    OBVIOUS
  <2>2. good[p[1]][place(p)] = good[q[1]][place(q)]
    BY <2>1
  <2>3. p[2] = q[2]
    BY <1>3, <2>2
  <2> QED
    BY <1>3, <2>1, <2>3
<1>7. f \in Injection(P, Q)
  BY <1>5, <1>6 DEF Injection, IsInjective
<1> HIDE DEF f, P, Q
<1>8. IsFiniteSet(P) /\ Cardinality(P) <= Cardinality(Q)
  BY <1>4, <1>7, FS_Injection
<1>9. Cardinality(P) \in Nat
  BY <1>8, FS_CardinalityType
<1>10. ASSUME \A i \in DOMAIN good : Len(good[i]) <= Cardinality(sections[i])
       PROVE  Cardinality(Q) <= Cardinality(P)
  <2> DEFINE g == [q \in Q |-> <<q[1], good[q[1]][q[2]]>>]
  <2>1. ASSUME NEW i \in DOMAIN good
        PROVE  /\ \A j \in DOMAIN good[i] : good[i][j] \in sections[i]
               /\ \A j, k \in DOMAIN good[i] : good[i][j] = good[i][k] => j = k
    <3> DEFINE h == [j \in DOMAIN good[i] |-> good[i][j]]
               E == Elements(good[i])
    <3>1. good[i] \in Seq(D) /\ DOMAIN good[i] = 1 .. Len(good[i]) /\ Len(good[i]) \in Nat
      BY <1>1
    <3>2. IsFiniteSet(E) /\ Cardinality(E) \in Nat /\ Cardinality(E) <= Len(good[i])
      BY <3>1, ElementsAreFinite
    <3>3. sections[i] \in SUBSET E
      BY <1>2
    <3>4. Cardinality(sections[i]) <= Cardinality(E) /\ Cardinality(sections[i]) \in Nat
      BY <3>2, <3>3, FS_Subset, FS_CardinalityType
    <3>5. Cardinality(sections[i]) = Cardinality(E) /\ Cardinality(E) = Len(good[i])
      <4>1. PICK a \in Nat : a = Cardinality(sections[i])
        BY <3>4
      <4>2. PICK b \in Nat : b = Cardinality(E)
        BY <3>2
      <4>3. PICK c \in Nat : c = Len(good[i])
        BY <3>1
      <4>4. Len(good[i]) <= Cardinality(sections[i])
        BY <1>10
      <4> HIDE DEF E
      <4>5. c <= a /\ a <= b /\ b <= c
        BY <3>2, <3>4, <4>1, <4>2, <4>3, <4>4
      <4> QED
        BY <4>1, <4>2, <4>3, <4>5
    <3>6. sections[i] = E
      BY <3>2, <3>3, <3>5, FS_Subset
    <3>7. h \in Surjection(DOMAIN good[i], E)
      BY DEF Surjection, Elements
    <3>8. IsFiniteSet(DOMAIN good[i]) /\ Cardinality(DOMAIN good[i]) = Len(good[i])
      <4>1. 1 \in Int /\ Len(good[i]) \in Int
        BY <3>1
      <4>2. IsFiniteSet(1 .. Len(good[i]))
            /\ Cardinality(1 .. Len(good[i])) = IF 1 > Len(good[i]) THEN 0 ELSE Len(good[i]) - 1 + 1
        BY <4>1, FS_Interval, Zenon
      <4> QED
        BY <3>1, <4>2
    <3> HIDE DEF E, h
    <3>9. h \in Injection(DOMAIN good[i], E)
      BY <3>5, <3>7, <3>8, FS_Surjection
    <3>10. \A j, k \in DOMAIN good[i] : h[j] = h[k] => j = k
      BY <3>9 DEF Injection, IsInjective
    <3>11. \A j \in DOMAIN good[i] : good[i][j] \in E
      BY DEF E, Elements
    <3> QED
      BY <3>6, <3>10, <3>11 DEF h
  <2>2. ASSUME NEW q \in Q
        PROVE  q[1] \in DOMAIN good /\ q = <<q[1], q[2]>> /\ q[2] \in DOMAIN good[q[1]]
    <3>1. PICK i \in DOMAIN Spots(good) : \E x \in Spots(good)[i] : q = <<i, x>>
      BY WhatArePairs DEF Q
    <3> QED
      BY <1>2, <3>1
  <2>3. \A q \in Q : g[q] \in P
    <3> SUFFICES ASSUME NEW q \in Q PROVE <<q[1], good[q[1]][q[2]]>> \in P
      OBVIOUS
    <3>1. q[1] \in DOMAIN sections /\ good[q[1]][q[2]] \in sections[q[1]]
      BY <1>2, <2>1, <2>2
    <3> QED
      BY <3>1, WhatArePairs DEF P
  <2>4. \A q, r \in Q : g[q] = g[r] => q = r
    <3> SUFFICES ASSUME NEW q \in Q, NEW r \in Q,
                        <<q[1], good[q[1]][q[2]]>> = <<r[1], good[r[1]][r[2]]>>
                 PROVE  q = r
      OBVIOUS
    <3>1. q[1] = r[1] /\ good[q[1]][q[2]] = good[r[1]][r[2]]
      OBVIOUS
    <3>2. q[2] = r[2]
      BY <2>1, <2>2, <3>1
    <3> QED
      BY <2>2, <3>1, <3>2
  <2>5. g \in Injection(Q, P)
    BY <2>3, <2>4 DEF Injection, IsInjective
  <2> HIDE DEF g
  <2> QED
    BY <1>8, <2>5, FS_Injection
<1>11. (\A i \in DOMAIN good : Len(good[i]) <= Cardinality(sections[i]))
         => Cardinality(P) = Cardinality(Q)
  <2>1. SUFFICES ASSUME \A i \in DOMAIN good : Len(good[i]) <= Cardinality(sections[i])
                 PROVE  Cardinality(P) = Cardinality(Q)
    OBVIOUS
  <2>2. Cardinality(Q) <= Cardinality(P)
    BY <1>10, <2>1, Zenon
  <2> QED
    BY <1>4, <1>8, <1>9, <2>2
<1>12. References(sections) = Cardinality(P) /\ Pairs(sections) = P /\ Pairs(Spots(good)) = Q
  BY DEF P, Q, References
<1> QED
  BY <1>8, <1>9, <1>11, <1>12

\* The sections that are well formed mention the same wherever they are counted.
LEMMA MentionedOnce ==
  ASSUME NEW D, NEW list \in Seq(Seq(D)), NEW places \in SUBSET (DOMAIN list)
  PROVE  Cardinality(Pairs(Spots(Chosen(list, places))))
           = Cardinality(UNION {{i} \X DOMAIN list[i] : i \in places})
<1> DEFINE good == Chosen(list, places)
           k == Cardinality(places)
           P == Pairs(Spots(good))
           Q == UNION {{i} \X DOMAIN list[i] : i \in places}
           f == [p \in P |-> <<Nth(places, p[1]), p[2]>>]
<1>1. /\ good \in Seq(Seq(D)) /\ Len(good) = k /\ k \in Nat
      /\ \A n \in 1 .. k : Nth(places, n) \in places /\ good[n] = list[Nth(places, n)]
  BY ChoiceOfAList
<1>2. DOMAIN list = 1 .. Len(list) /\ Len(list) \in Nat
  OBVIOUS
<1>3. /\ \A n, o \in 1 .. k : Nth(places, n) = Nth(places, o) => n = o
      /\ \A i \in places : \E n \in 1 .. k : Nth(places, n) = i
  <2> DEFINE e == [n \in 1 .. k |-> Nth(places, n)]
  <2>1. e \in Bijection(1 .. k, places)
    BY <1>2, EachIsChosen, Zenon
  <2>2. /\ \A n, o \in 1 .. k : e[n] = e[o] => n = o
        /\ \A i \in places : \E n \in 1 .. k : e[n] = i
    BY <2>1 DEF Bijection, Injection, IsInjective, Surjection
  <2> QED
    BY <2>2
<1>4. DOMAIN Spots(good) = 1 .. k /\ \A n \in 1 .. k : Spots(good)[n] = DOMAIN list[Nth(places, n)]
  <2>1. DOMAIN good = 1 .. k
    BY <1>1
  <2> HIDE DEF good, k
  <2> QED
    BY <1>1, <2>1 DEF Spots
<1>5. IsFiniteSet(P)
  BY <1>1, SpotsAreFinite
<1> HIDE DEF good, k
<1>6. ASSUME NEW p \in P
      PROVE  p[1] \in 1 .. k /\ p = <<p[1], p[2]>> /\ p[2] \in DOMAIN list[Nth(places, p[1])]
  <2>1. PICK i \in DOMAIN Spots(good) : \E x \in Spots(good)[i] : p = <<i, x>>
    BY WhatArePairs
  <2> QED
    BY <1>4, <2>1
<1>7. \A p \in P : f[p] \in Q
  <2> SUFFICES ASSUME NEW p \in P PROVE <<Nth(places, p[1]), p[2]>> \in Q
    OBVIOUS
  <2>1. Nth(places, p[1]) \in places
    BY <1>1, <1>6
  <2> QED
    BY <1>6, <2>1
<1>8. \A p, q \in P : f[p] = f[q] => p = q
  <2> SUFFICES ASSUME NEW p \in P, NEW q \in P,
                      <<Nth(places, p[1]), p[2]>> = <<Nth(places, q[1]), q[2]>>
               PROVE  p = q
    OBVIOUS
  <2>1. Nth(places, p[1]) = Nth(places, q[1]) /\ p[2] = q[2]
    OBVIOUS
  <2>2. p[1] = q[1]
    BY <1>3, <1>6, <2>1
  <2> QED
    BY <1>6, <2>1, <2>2
<1>9. \A q \in Q : \E p \in P : f[p] = q
  <2> SUFFICES ASSUME NEW q \in Q PROVE \E p \in P : <<Nth(places, p[1]), p[2]>> = q
    OBVIOUS
  <2>1. PICK i \in places : q \in {i} \X DOMAIN list[i]
    OBVIOUS
  <2>2. PICK j \in DOMAIN list[i] : q = <<i, j>>
    BY <2>1
  <2>3. PICK n \in 1 .. k : Nth(places, n) = i
    BY <1>3
  <2>4. <<n, j>> \in P
    BY <1>4, <2>2, <2>3, WhatArePairs
  <2> QED
    BY <2>2, <2>3, <2>4
<1>10. f \in Bijection(P, Q)
  BY <1>7, <1>8, <1>9 DEF Bijection, Injection, IsInjective, Surjection
<1> HIDE DEF P, Q, f
<1>11. Cardinality(Q) = Cardinality(P)
  <2>1. ExistsBijection(P, Q)
    BY <1>10 DEF ExistsBijection
  <2> QED
    BY <1>5, <2>1, FS_Bijection
<1> QED
  BY <1>11 DEF P, Q, good

LEMMA Remainder == ASSUME NEW x \in Nat, NEW y \in Nat, y <= x PROVE x - y \in Nat /\ x - y <= x /\ (x - y) + y = x
  OBVIOUS

LEMMA NormalizeGood == ASSUME BudgetGood, Normalize PROVE BudgetGood'
<1>0. /\ AnswerTyped /\ stage = "stored" /\ stage' = "fitting" /\ given' = given
      /\ given.articles \in Seq(Int) /\ Worth \in Seq(Int) /\ Sections \in Seq(Seq(Int))
      /\ Len(given.articles) \in Nat /\ Len(Worth) \in Nat /\ Len(Sections) \in Nat
  BY StoredLists DEF BudgetGood, AnswerTyped, Normalize
<1>1. PICK articles : articles = FirstOf(Distinct(given.articles), MaxCitations)
  OBVIOUS
<1>2. PICK good : good = Chosen(Sections, WellFormed)
  OBVIOUS
<1>3. PICK sections : sections = [i \in DOMAIN good |-> Elements(good[i]) \cap Elements(articles)]
  OBVIOUS
<1>4. PICK kept : kept = FirstOf(sections, MaxSections)
  OBVIOUS
<1>5. PICK worth : worth = Elements(Worth) \cap Elements(articles)
  OBVIOUS
<1>6. PICK mentioned : mentioned = Cardinality(Pairs(Spots(good)))
  OBVIOUS
<1>7. PICK marked \in BOOLEAN :
        marked = (\/ articles # given.articles
                  \/ Len(kept) < Len(Sections)
                  \/ \E i \in DOMAIN good : Len(good[i]) > Cardinality(sections[i]))
  OBVIOUS
<1>8. /\ shown' = [citations |-> articles, sections |-> kept, worth |-> worth, text |-> Text]
      /\ omitted' = [sections |-> Len(Sections) - Len(kept),
                     citations |-> (Len(given.articles) - Len(articles))
                                   + (mentioned - References(kept))
                                   + (Len(Worth) - Cardinality(worth)),
                     marked |-> marked]
  BY <1>1, <1>2, <1>3, <1>4, <1>5, <1>6, <1>7, Zenon DEF Normalize, Spots
<1>9. /\ articles \in Seq(Int) /\ Len(articles) \in Nat
      /\ Len(articles) <= MaxCitations /\ Len(articles) <= Len(given.articles)
  <2> DEFINE first == {i \in DOMAIN given.articles : given.articles[i] > 0
                         /\ \A j \in 1 .. i - 1 : given.articles[j] # given.articles[i]}
  <2>1. first \in SUBSET (DOMAIN given.articles) /\ Distinct(given.articles) = Chosen(given.articles, first)
    BY DEF Distinct
  <2> HIDE DEF first
  <2>2. /\ Chosen(given.articles, first) \in Seq(Int)
        /\ Len(Chosen(given.articles, first)) = Cardinality(first)
        /\ Cardinality(first) \in 0 .. Len(given.articles)
    BY <1>0, <2>1, ChoiceOfAList
  <2>3. MaxCitations \in Nat
    BY BudgetAssumption
  <2>4. /\ articles \in Seq(Int) /\ Len(articles) <= MaxCitations /\ Len(articles) <= Cardinality(first)
    BY <1>1, <2>1, <2>2, <2>3, FirstOfAList
  <2>5. Len(articles) \in Nat
    BY <2>4
  <2> QED
    BY <1>0, <2>2, <2>4, <2>5
<1>10. /\ good \in Seq(Seq(Int)) /\ Len(good) \in Nat /\ Len(good) <= Len(Sections)
       /\ DOMAIN good = 1 .. Len(good)
       /\ mentioned = Cardinality(UNION {{i} \X DOMAIN Sections[i] : i \in WellFormed})
       /\ mentioned \in Nat
  <2>1. WellFormed \in SUBSET (DOMAIN Sections)
    BY DEF WellFormed
  <2>2. /\ good \in Seq(Seq(Int)) /\ Len(good) = Cardinality(WellFormed)
        /\ Cardinality(WellFormed) \in 0 .. Len(Sections)
    BY <1>0, <1>2, <2>1, ChoiceOfAList
  <2>3. mentioned = Cardinality(UNION {{i} \X DOMAIN Sections[i] : i \in WellFormed})
    BY <1>0, <1>2, <1>6, <2>1, MentionedOnce
  <2>4. mentioned \in Nat
    BY <1>6, <2>2, SpotsAreFinite
  <2> QED
    BY <1>0, <2>2, <2>3, <2>4
<1>11. /\ sections \in Seq(SUBSET Elements(articles)) /\ Len(sections) = Len(good)
       /\ DOMAIN sections = DOMAIN good
       /\ IsFiniteSet(Pairs(sections)) /\ References(sections) \in Nat
       /\ References(sections) <= mentioned
       /\ (\A i \in DOMAIN good : Len(good[i]) <= Cardinality(sections[i])) => References(sections) = mentioned
  <2>1. \A i \in 1 .. Len(good) : Elements(good[i]) \cap Elements(articles) \in SUBSET Elements(articles)
    OBVIOUS
  <2>2. sections \in [1 .. Len(good) -> SUBSET Elements(articles)]
    BY <1>3, <1>10
  <2>3. sections \in Seq(SUBSET Elements(articles)) /\ Len(sections) = Len(good) /\ DOMAIN sections = DOMAIN good
    <3>1. PICK m \in Nat : m = Len(good) /\ DOMAIN good = 1 .. m
      BY <1>10
    <3>2. sections \in [1 .. m -> SUBSET Elements(articles)]
      BY <2>2, <3>1
    <3> QED
      BY <3>1, <3>2
  <2>4. /\ IsFiniteSet(Pairs(sections)) /\ References(sections) \in Nat
        /\ References(sections) <= mentioned
        /\ (\A i \in DOMAIN good : Len(good[i]) <= Cardinality(sections[i])) => References(sections) = mentioned
    BY <1>3, <1>6, <1>10, FewerReferences
  <2> QED
    BY <2>3, <2>4
<1>12. /\ kept \in Seq(SUBSET Elements(articles)) /\ Len(kept) \in Nat
       /\ Len(kept) <= MaxSections /\ Len(kept) <= Len(sections)
       /\ \A i \in 1 .. Len(kept) : kept[i] = sections[i]
       /\ Len(kept) = Len(sections) => kept = sections
  <2>1. MaxSections \in Nat
    BY BudgetAssumption
  <2>2. /\ kept \in Seq(SUBSET Elements(articles))
        /\ Len(kept) <= MaxSections /\ Len(kept) <= Len(sections)
        /\ \A i \in 1 .. Len(kept) : kept[i] = sections[i]
        /\ Len(kept) = Len(sections) => kept = sections
    BY <1>4, <1>11, <2>1, FirstOfAList
  <2> QED
    BY <2>2
<1>13. Elements(articles) \subseteq Int
  BY <1>9, ElementsAreFinite
<1>14. kept \in Seq(SUBSET Int) /\ DOMAIN kept = 1 .. Len(kept)
       /\ \A i \in DOMAIN kept : kept[i] \subseteq Elements(articles)
  <2>1. DOMAIN kept = 1 .. Len(kept) /\ \A i \in DOMAIN kept : kept[i] \in SUBSET Elements(articles)
    BY <1>12
  <2>2. \A i \in 1 .. Len(kept) : kept[i] \in SUBSET Int
    BY <1>13, <2>1
  <2> QED
    BY <1>12, <2>1, <2>2
<1>15. References(kept) \in Nat /\ References(kept) <= mentioned
  <2>1. References(kept) \in Nat
    BY <1>9, <1>14, SectionsAreFinite
  <2>2. Pairs(kept) \subseteq Pairs(sections)
    <3>1. ASSUME NEW p \in Pairs(kept) PROVE p \in Pairs(sections)
      <4>1. PICK i \in DOMAIN kept : \E x \in kept[i] : p = <<i, x>>
        BY WhatArePairs
      <4>0. i \in 1 .. Len(kept)
        BY <1>14
      <4>2. i \in DOMAIN sections /\ kept[i] = sections[i]
        <5>1. kept[i] = sections[i]
          BY <1>12, <4>0
        <5>2. i \in 1 .. Len(sections)
          BY <1>10, <1>11, <1>12, <4>0
        <5> QED
          BY <1>10, <1>11, <5>1, <5>2
      <4> QED
        BY <4>1, <4>2, WhatArePairs
    <3> QED
      BY <3>1
  <2>3. References(kept) <= References(sections)
    BY <1>11, <2>2, FS_Subset DEF References
  <2> QED
    BY <1>10, <1>11, <2>1, <2>3
<1>16. worth \in SUBSET Int /\ worth \subseteq Elements(articles)
       /\ Cardinality(worth) \in Nat /\ Cardinality(worth) <= Len(Worth)
  <2>1. IsFiniteSet(Elements(Worth)) /\ Cardinality(Elements(Worth)) \in Nat
        /\ Cardinality(Elements(Worth)) <= Len(Worth)
    BY <1>0, ElementsAreFinite
  <2>2. Cardinality(worth) \in Nat /\ Cardinality(worth) <= Cardinality(Elements(Worth))
    BY <1>5, <2>1, FS_Subset, FS_CardinalityType
  <2> QED
    BY <1>0, <1>5, <1>13, <2>1, <2>2
<1>17. PICK lack \in Nat : lack = Len(Sections) - Len(kept) /\ lack = omitted'.sections
  <2>1. Len(kept) <= Len(Sections)
    BY <1>0, <1>10, <1>11, <1>12
  <2>2. Len(Sections) - Len(kept) \in Nat
    BY <1>0, <1>12, <2>1, Remainder
  <2>3. omitted'.sections = Len(Sections) - Len(kept)
    BY <1>8
  <2> QED
    BY <2>2, <2>3
<1>18. PICK a \in Nat : a = Len(given.articles) - Len(articles)
  <2>1. Len(given.articles) - Len(articles) \in Nat
    BY <1>0, <1>9, Remainder
  <2> QED
    BY <2>1
<1>19. PICK m \in Nat : m = mentioned - References(kept)
  <2>1. mentioned - References(kept) \in Nat
    BY <1>10, <1>15, Remainder
  <2> QED
    BY <2>1
<1>20. PICK w \in Nat : w = Len(Worth) - Cardinality(worth) /\ w <= Len(Worth)
  BY <1>0, <1>16
<1>21. omitted' = [sections |-> lack, citations |-> a + m + w, marked |-> marked]
  BY <1>8, <1>17, <1>18, <1>19, <1>20
<1>22. AnswerTyped'
  <2>1. Text \in 0 .. Text
    BY BudgetAssumption
  <2>2. shown' \in [citations: Seq(Int), sections: Seq(SUBSET Int), worth: SUBSET Int, text: 0 .. Text]
    BY <1>8, <1>9, <1>14, <1>16, <2>1
  <2>3. Len(shown'.citations) <= MaxCitations /\ Len(shown'.sections) <= MaxSections
    BY <1>8, <1>9, <1>12
  <2>4. omitted' \in [citations: Nat, sections: Nat, marked: BOOLEAN]
    BY <1>21
  <2> QED
    BY <1>0, <2>2, <2>3, <2>4 DEF AnswerTyped
<1>23. NoDanglingReference'
  <2>1. \A refs \in Elements(shown'.sections) \cup {shown'.worth} : refs \subseteq Elements(shown'.citations)
    BY <1>8, <1>14, <1>16 DEF Elements
  <2> QED
    BY <2>1 DEF NoDanglingReference, Elements
<1>24. OmittedIsCounted'
  <2>1. Mentions' = Mentions /\ Mentions = Len(given.articles) + Len(Worth) + mentioned
    <3>1. Mentions' = Mentions
      BY <1>0 DEF Mentions, WellFormed, Sections, Worth
    <3> QED
      BY <1>10, <3>1 DEF Mentions
  <2>2. Len(kept) + lack = Len(Sections)
    BY <1>0, <1>12, <1>17
  <2>3. Len(articles) + References(kept) + Cardinality(worth) + (a + m + w)
          = Len(given.articles) + Len(Worth) + mentioned
    <3>1. PICK b \in Nat : b = Len(articles)
      BY <1>9
    <3>2. PICK r \in Nat : r = References(kept)
      BY <1>15
    <3>3. PICK v \in Nat : v = Cardinality(worth)
      BY <1>16
    <3>4. Len(given.articles) = a + b
      BY <1>0, <1>18, <3>1
    <3>5. mentioned = m + r
      BY <1>10, <1>19, <3>2
    <3>6. Len(Worth) = w + v
      BY <1>0, <1>20, <3>3
    <3>7. b + r + v + (a + m + w) = (a + b) + (w + v) + (m + r)
      OBVIOUS
    <3> QED
      BY <3>1, <3>2, <3>3, <3>4, <3>5, <3>6, <3>7
  <2>4. References(shown.sections)' = References(shown'.sections)
    BY DEF References, Pairs
  <2>5. /\ shown'.sections = kept /\ shown'.citations = articles /\ shown'.worth = worth
        /\ omitted'.sections = lack /\ omitted'.citations = a + m + w
    BY <1>8, <1>21
  <2> QED
    BY <1>0, <2>1, <2>2, <2>3, <2>4, <2>5, SectionsStay DEF OmittedIsCounted
<1>25. OmissionIsMarked'
  <2> SUFFICES ASSUME ~marked
               PROVE  /\ given'.shaped /\ shown'.text = Text /\ shown'.citations = given'.articles
                      /\ omitted'.sections = 0 /\ omitted'.citations <= Len(given'.worth)
    BY <1>21 DEF OmissionIsMarked
  <2>1. /\ articles = given.articles /\ ~(Len(kept) < Len(Sections))
        /\ \A i \in DOMAIN good : ~(Len(good[i]) > Cardinality(sections[i]))
    BY <1>7
  <2>2. lack = 0 /\ a = 0
    BY <1>0, <1>9, <1>12, <1>17, <1>18, <2>1
  <2>3. kept = sections
    BY <1>0, <1>10, <1>11, <1>12, <2>1
  <2>4. ASSUME NEW i \in DOMAIN good PROVE Len(good[i]) <= Cardinality(sections[i])
    <3>1. good[i] \in Seq(Int) /\ Len(good[i]) \in Nat
      BY <1>10
    <3>2. sections[i] = kept[i] /\ i \in DOMAIN kept
      BY <1>11, <2>3
    <3>3. kept[i] \subseteq Elements(articles) /\ IsFiniteSet(Elements(articles))
      BY <1>9, <1>14, <3>2, ElementsAreFinite
    <3>4. Cardinality(sections[i]) \in Nat
      BY <3>2, <3>3, FS_Subset, FS_CardinalityType
    <3> QED
      BY <2>1, <3>1, <3>4
  <2>5. References(sections) = mentioned
    BY <1>11, <2>4
  <2>6. m = 0
    BY <1>10, <1>19, <2>3, <2>5
  <2>7. a + m + w <= Len(Worth)
    BY <1>0, <1>20, <2>2, <2>6
  <2>8. given.shaped
    <3> SUFFICES ASSUME ~given.shaped PROVE FALSE
      OBVIOUS
    <3>1. Sections = <<Malformed>> /\ Len(Sections) = 1
      BY DEF Sections
    <3>2. WellFormed = {}
      BY <3>1 DEF WellFormed
    <3>3. good = <<>>
      BY <1>2, <3>2, FS_EmptySet DEF Chosen
    <3>4. Len(sections) = 0
      BY <1>3, <3>3
    <3> QED
      BY <2>1, <2>3, <3>1, <3>4
  <2>9. Worth = given.worth
    BY <2>8 DEF Worth
  <2> QED
    BY <1>0, <1>8, <1>21, <2>1, <2>2, <2>7, <2>8, <2>9
<1> QED
  BY <1>22, <1>23, <1>24, <1>25 DEF BudgetGood

LEMMA BudgetStepGood == BudgetGood /\ [BudgetNext]_budgetVars => BudgetGood'
<1> SUFFICES ASSUME BudgetGood, [BudgetNext]_budgetVars PROVE BudgetGood'
  OBVIOUS
<1>1. CASE UNCHANGED budgetVars
  BY <1>1, NothingChanges DEF budgetVars, BudgetGood, AnswerTyped
<1>2. CASE Answer
  BY <1>2, NothingChanges DEF Answer
<1> QED
  BY <1>1, <1>2, NormalizeGood, DropCitationGood, DropSectionGood, ShortenTextGood DEF BudgetNext

LEMMA BudgetParts == BudgetGood => BudgetTypeOK /\ BudgetInv
  BY DEF BudgetGood, AnswerTyped, BudgetTypeOK, BudgetInv

\* However an answer is cut to its budget, nothing in it refers to a citation that is
\* gone, what is shown and what is counted as omitted add up to what is stored, and an
\* answer that omits something says so (mcp/briefings.py).
THEOREM AnswersAreCounted == BudgetSpec => []BudgetInv
<1> QED
  BY BudgetInitGood, BudgetStepGood, BudgetParts, PTL DEF BudgetSpec

(***************************************************************************)
(* The making of a briefing                                                *)
(***************************************************************************)

-----------------------------------------------------------------------------
(* Orders                                                                  *)

LEMMA SortedIs == ASSUME NEW S, NEW R PROVE Sorted(S, R) = InOrder(S, R)
  BY DEF Sorted, InOrder, PlaceOf

LEMMA NumbersUpTo == ASSUME NEW n \in Nat PROVE IsFiniteSet(1 .. n) /\ Cardinality(1 .. n) = n
<1>1. 1 \in Int /\ n \in Int
  OBVIOUS
<1>2. IsFiniteSet(1 .. n) /\ Cardinality(1 .. n) = IF 1 > n THEN 0 ELSE n - 1 + 1
  BY <1>1, FS_Interval, Zenon
<1> QED
  BY <1>2

\* Stories in the order of a focus, none of them twice.
Ranks(f, x, y) == IF f = "none" THEN x < y ELSE Match[x] >= Match[y]
Ranked(f, list) ==
  /\ \A i, j \in DOMAIN list : list[i] = list[j] => i = j
  /\ \A i, j \in DOMAIN list : i < j => Ranks(f, list[i], list[j])
Themed(f, list) ==
  /\ Cardinality(ToSet(list)) = Len(list)
  /\ \A i, j \in DOMAIN list : i < j =>
       /\ ThemeOf[list[i]] = ThemeOf[list[j]] =>
            /\ Ranks(f, list[i], list[j])
            /\ \A k \in i .. j : ThemeOf[list[k]] = ThemeOf[list[i]]

LEMMA StoriesAreNumbers ==
  /\ IsFiniteSet(Stories) /\ Stories \in SUBSET Nat
  /\ Match \in [Stories -> Int] /\ Weight \in [Stories -> Int]
<1>1. IsFiniteSet(Stories) /\ Stories = 1 .. Cardinality(Stories)
  BY MakingAssumption
<1>2. Cardinality(Stories) \in Nat
  BY <1>1, FS_CardinalityType
<1>3. Match \in [Stories -> Int] /\ Weight \in [Stories -> Int]
  BY MakingAssumption
<1>4. 1 .. Cardinality(Stories) \in SUBSET Nat
  BY <1>2
<1> QED
  BY <1>1, <1>3, <1>4

LEMMA OrderedList ==
  ASSUME NEW S \in SUBSET Stories, NEW R, StrictlyOrders(R, S)
  PROVE  /\ Sorted(S, R) \in Seq(Stories)
         /\ \A i, j \in DOMAIN Sorted(S, R) : Sorted(S, R)[i] = Sorted(S, R)[j] => i = j
         /\ \A i, j \in DOMAIN Sorted(S, R) : i < j => <<Sorted(S, R)[i], Sorted(S, R)[j]>> \in R
         /\ \A i \in DOMAIN Sorted(S, R) : Sorted(S, R)[i] \in S
<1>1. IsFiniteSet(S)
  BY StoriesAreNumbers, FS_Subset
<1> DEFINE e == Sorted(S, R)
           n == Cardinality(S)
<1>2. /\ n \in Nat /\ e \in [1 .. n -> S]
      /\ \A i, j \in 1 .. n : i < j => <<e[i], e[j]>> \in R
      /\ \A i, j \in 1 .. n : e[i] = e[j] => i = j
  BY <1>1, Enumerated, SortedIs
<1> HIDE DEF e, n
<1>3. e \in Seq(Stories) /\ DOMAIN e = 1 .. n /\ \A i \in DOMAIN e : e[i] \in S
  BY <1>2
<1> QED
  BY <1>2, <1>3 DEF e

LEMMA FoundIsRanked ==
  ASSUME NEW seen \in SUBSET Stories
  PROVE  FoundOf(seen) \in Seq(Stories) /\ Ranked("none", FoundOf(seen))
<1>1. StrictlyOrders(ByNumber, seen)
  BY StoriesAreNumbers DEF StrictlyOrders, ByNumber
<1>2. \A x, y \in seen : <<x, y>> \in ByNumber => x < y
  BY DEF ByNumber
<1> DEFINE e == Sorted(seen, ByNumber)
<1>3. /\ e \in Seq(Stories) /\ \A i, j \in DOMAIN e : e[i] = e[j] => i = j
      /\ \A i, j \in DOMAIN e : i < j => <<e[i], e[j]>> \in ByNumber
      /\ \A i \in DOMAIN e : e[i] \in seen
  BY <1>1, OrderedList
<1> HIDE DEF e
<1>4. \A i, j \in DOMAIN e : i < j => e[i] < e[j]
  BY <1>2, <1>3
<1> QED
  BY <1>3, <1>4 DEF Ranked, Ranks, FoundOf, e

LEMMA FocusIsRanked ==
  ASSUME NEW found \in Seq(Stories), NEW f, f # "none"
  PROVE  FocusOrder(found) \in Seq(Stories) /\ Ranked(f, FocusOrder(found))
<1>0. ToSet(found) \in SUBSET Stories
  BY DEF ToSet
<1>1. StrictlyOrders(ByPoints, ToSet(found))
  <2>1. PICK s \in SUBSET Stories : s = ToSet(found)
    BY <1>0
  <2>2. \A x \in s : x \in Int /\ Match[x] \in Int /\ Weight[x] \in Int
    BY StoriesAreNumbers
  <2>3. \A x, y \in s : <<x, y>> \in ByPoints <=>
          \/ Match[x] > Match[y]
          \/ Match[x] = Match[y] /\ (Weight[x] < Weight[y] \/ (Weight[x] = Weight[y] /\ x < y))
    BY DEF ByPoints
  <2>4. \A x, y \in s : x # y => <<x, y>> \in ByPoints \/ <<y, x>> \in ByPoints
    BY <2>2, <2>3
  <2>5. ASSUME NEW x \in s, NEW y \in s, NEW z \in s, <<x, y>> \in ByPoints, <<y, z>> \in ByPoints
        PROVE  <<x, z>> \in ByPoints
    <3>1. \/ Match[x] > Match[y]
          \/ Match[x] = Match[y] /\ (Weight[x] < Weight[y] \/ (Weight[x] = Weight[y] /\ x < y))
      BY <2>3, <2>5
    <3>2. \/ Match[y] > Match[z]
          \/ Match[y] = Match[z] /\ (Weight[y] < Weight[z] \/ (Weight[y] = Weight[z] /\ y < z))
      BY <2>3, <2>5
    <3>3. \/ Match[x] > Match[z]
          \/ Match[x] = Match[z] /\ (Weight[x] < Weight[z] \/ (Weight[x] = Weight[z] /\ x < z))
      BY <2>2, <3>1, <3>2
    <3> QED
      BY <2>3, <3>3
  <2>6. \A x \in s : <<x, x>> \notin ByPoints
    BY <2>2, <2>3
  <2> QED
    BY <2>1, <2>4, <2>5, <2>6 DEF StrictlyOrders
<1>2. \A x, y \in ToSet(found) : <<x, y>> \in ByPoints => Match[x] >= Match[y]
  BY <1>0, StoriesAreNumbers DEF ByPoints
<1> DEFINE e == Sorted(ToSet(found), ByPoints)
<1>3. /\ e \in Seq(Stories) /\ \A i, j \in DOMAIN e : e[i] = e[j] => i = j
      /\ \A i, j \in DOMAIN e : i < j => <<e[i], e[j]>> \in ByPoints
      /\ \A i \in DOMAIN e : e[i] \in ToSet(found)
  BY <1>0, <1>1, OrderedList
<1> HIDE DEF e
<1>4. \A i, j \in DOMAIN e : i < j => Match[e[i]] >= Match[e[j]]
  BY <1>2, <1>3
<1> QED
  BY <1>3, <1>4 DEF Ranked, Ranks, FocusOrder, e

\* A theme comes up where the first of its stories does.
LEMMA ThemesComeUp ==
  ASSUME NEW found \in Seq(Stories), NEW i \in DOMAIN found
  PROVE  /\ ComesUp(found, i) \in Nat /\ ThemeOf[found[ComesUp(found, i)]] = ThemeOf[found[i]]
         /\ \A j \in DOMAIN found : ThemeOf[found[j]] = ThemeOf[found[i]] => ComesUp(found, j) = ComesUp(found, i)
<1> DEFINE S == {k \in DOMAIN found : ThemeOf[found[k]] = ThemeOf[found[i]]}
<1>1. DOMAIN found = 1 .. Len(found) /\ Len(found) \in Nat
  OBVIOUS
<1>2. S \in SUBSET Nat /\ i \in S
  BY <1>1
<1> HIDE DEF S
<1>3. \E x \in S : \A y \in S : x <= y
  BY <1>2, LeastNatural
<1>4. Min(S) \in S
  BY <1>3 DEF Min
<1>5. ComesUp(found, i) = Min(S)
  BY DEF ComesUp, S
<1>6. ASSUME NEW j \in DOMAIN found, ThemeOf[found[j]] = ThemeOf[found[i]]
      PROVE  ComesUp(found, j) = ComesUp(found, i)
  BY <1>6 DEF ComesUp
<1> QED
  BY <1>2, <1>4, <1>5, <1>6 DEF S

LEMMA ClusteredIsThemed ==
  ASSUME NEW found \in Seq(Stories), NEW f, Ranked(f, found)
  PROVE  Clustered(found) \in Seq(Stories) /\ Themed(f, Clustered(found))
<1> DEFINE D == DOMAIN found
           R == ByTheme(found)
           places == Sorted(D, R)
           list == Clustered(found)
<1>1. D = 1 .. Len(found) /\ Len(found) \in Nat /\ IsFiniteSet(D) /\ Cardinality(D) = Len(found)
      /\ D \in SUBSET Nat /\ \A i \in D : found[i] \in Stories
  BY NumbersUpTo
<1>2. PICK up \in [D -> Nat] :
        /\ up = [i \in D |-> ComesUp(found, i)]
        /\ \A i \in D : ThemeOf[found[up[i]]] = ThemeOf[found[i]]
        /\ \A i, j \in D : ThemeOf[found[j]] = ThemeOf[found[i]] => up[j] = up[i]
  <2> DEFINE g == [i \in D |-> ComesUp(found, i)]
  <2>1. g \in [D -> Nat] /\ \A i \in D : g[i] = ComesUp(found, i)
    BY ThemesComeUp
  <2>2. /\ \A i \in D : ThemeOf[found[g[i]]] = ThemeOf[found[i]]
        /\ \A i, j \in D : ThemeOf[found[j]] = ThemeOf[found[i]] => g[j] = g[i]
    BY ThemesComeUp
  <2> QED
    BY <2>1, <2>2
<1>3. \A i, j \in D : <<i, j>> \in R <=> (up[i] < up[j] \/ (up[i] = up[j] /\ i < j))
  BY <1>2 DEF ByTheme
<1>4. list = [n \in D |-> found[places[n]]]
  BY DEF Clustered
<1> HIDE DEF D, R, places, list
<1>5. StrictlyOrders(R, D)
  <2>1. \A i \in D : up[i] \in Nat /\ i \in Nat
    BY <1>1, <1>2
  <2>2. \A i, j \in D : i # j => <<i, j>> \in R \/ <<j, i>> \in R
    BY <1>3, <2>1
  <2>3. ASSUME NEW i \in D, NEW j \in D, NEW k \in D, <<i, j>> \in R, <<j, k>> \in R
        PROVE  <<i, k>> \in R
    <3>1. (up[i] < up[j] \/ (up[i] = up[j] /\ i < j)) /\ (up[j] < up[k] \/ (up[j] = up[k] /\ j < k))
      BY <1>3, <2>3
    <3>2. up[i] < up[k] \/ (up[i] = up[k] /\ i < k)
      BY <2>1, <3>1
    <3> QED
      BY <1>3, <3>2
  <2>4. \A i \in D : <<i, i>> \notin R
    BY <1>3, <2>1
  <2> QED
    BY <2>2, <2>3, <2>4 DEF StrictlyOrders
<1>6. /\ places \in [D -> D]
      /\ \A i, j \in D : i < j => <<places[i], places[j]>> \in R
      /\ \A i, j \in D : places[i] = places[j] => i = j
  <2>1. /\ InOrder(D, R) \in [1 .. Cardinality(D) -> D]
        /\ \A i, j \in 1 .. Cardinality(D) : i < j => <<InOrder(D, R)[i], InOrder(D, R)[j]>> \in R
        /\ \A i, j \in 1 .. Cardinality(D) : InOrder(D, R)[i] = InOrder(D, R)[j] => i = j
    BY <1>1, <1>5, Enumerated
  <2>2. places = InOrder(D, R) /\ 1 .. Cardinality(D) = D
    BY <1>1, SortedIs DEF places
  <2> QED
    BY <2>1, <2>2
<1>7. list \in Seq(Stories) /\ Len(list) = Len(found) /\ DOMAIN list = D
  <2>1. \A n \in D : found[places[n]] \in Stories
    BY <1>1, <1>6
  <2> QED
    BY <1>1, <1>4, <2>1
<1>8. \A i, j \in D : list[i] = list[j] => i = j
  BY <1>4, <1>6 DEF Ranked, D
<1>9. Cardinality(ToSet(list)) = Len(list)
  <2>1. list \in [D -> ToSet(list)] /\ \A y \in ToSet(list) : \E i \in D : list[i] = y
    BY <1>7 DEF ToSet
  <2>2. list \in Bijection(D, ToSet(list))
    BY <1>8, <2>1 DEF Bijection, Injection, IsInjective, Surjection
  <2>3. ExistsBijection(D, ToSet(list))
    BY <2>2 DEF ExistsBijection
  <2> QED
    BY <1>1, <1>7, <2>3, FS_Bijection
<1>10. ASSUME NEW i \in D, NEW j \in D, i < j, ThemeOf[list[i]] = ThemeOf[list[j]]
       PROVE  /\ Ranks(f, list[i], list[j])
              /\ \A k \in i .. j : ThemeOf[list[k]] = ThemeOf[list[i]]
  <2>1. /\ places[i] \in D /\ places[j] \in D /\ <<places[i], places[j]>> \in R
        /\ list[i] = found[places[i]] /\ list[j] = found[places[j]]
    BY <1>4, <1>6, <1>10
  <2>2. up[places[i]] = up[places[j]] /\ up[places[i]] \in Nat
    BY <1>2, <1>10, <2>1
  <2>3. places[i] < places[j]
    BY <1>3, <2>1, <2>2
  <2>4. Ranks(f, list[i], list[j])
    BY <2>1, <2>3 DEF Ranked, D
  <2>5. ASSUME NEW k \in i .. j PROVE ThemeOf[list[k]] = ThemeOf[list[i]]
    <3>1. k \in D /\ i <= k /\ k <= j
      BY <1>1
    <3>2. places[k] \in D /\ list[k] = found[places[k]] /\ up[places[k]] \in Nat
      BY <1>2, <1>4, <1>6, <3>1
    <3>3. up[places[i]] <= up[places[k]]
      <4>1. i = k \/ i < k
        BY <1>1, <3>1
      <4>2. CASE i = k
        BY <2>2, <4>2
      <4>3. CASE i < k
        <5>1. <<places[i], places[k]>> \in R
          BY <1>6, <3>1, <4>3
        <5>2. up[places[i]] < up[places[k]] \/ (up[places[i]] = up[places[k]] /\ places[i] < places[k])
          BY <1>3, <2>1, <3>2, <5>1, Zenon
        <5> QED
          BY <2>2, <3>2, <5>2
      <4> QED
        BY <4>1, <4>2, <4>3
    <3>4. up[places[k]] <= up[places[j]]
      <4>1. k = j \/ k < j
        BY <1>1, <3>1
      <4>2. CASE k = j
        BY <2>2, <4>2
      <4>3. CASE k < j
        <5>1. <<places[k], places[j]>> \in R
          BY <1>6, <3>1, <4>3
        <5>2. up[places[k]] < up[places[j]] \/ (up[places[k]] = up[places[j]] /\ places[k] < places[j])
          BY <1>3, <2>1, <3>2, <5>1, Zenon
        <5> QED
          BY <2>2, <3>2, <5>2
      <4> QED
        BY <4>1, <4>2, <4>3
    <3>5. up[places[k]] = up[places[i]]
      BY <2>2, <3>2, <3>3, <3>4
    <3> QED
      BY <1>2, <2>1, <3>2, <3>5
  <2> QED
    BY <2>4, <2>5
<1> QED
  BY <1>7, <1>9, <1>10 DEF Themed, list

-----------------------------------------------------------------------------
(* Runs                                                                    *)

StageNames == {"candidate_selection", "theme_clustering", "drafting", "citation_verification", "assembly"}
Ends == {"no", "returned", "empty", "failed", "broken", "stopped"}
Draft == [cites: SUBSET Int, worth: SUBSET Int]
Task ==
  [pc: StageNames \cup {"reread", "over"}, focus: Foci, found: Seq(Stories), attempt: 1 .. MaxAttempts,
   answer: Draft, before: Nat, saved: Nat, ended: Ends]
RunRow == [status: {"running", "complete", "failed"}, briefing: Nat, stage: StageNames \cup {Unset}]
StageRow == [StageNames -> {Unset, "complete", "failed"}]
Briefing ==
  [status: {"complete", "failed"}, focus: Foci, by: Nat, cites: SUBSET Int, worth: SUBSET Int, cited: SUBSET Stories]

MakingTyped ==
  /\ tasks \in Seq(Task) /\ runs \in Seq(RunRow) /\ stageRows \in Seq(StageRow) /\ table \in Seq(Briefing)
  /\ Len(runs) = Len(tasks) /\ Len(stageRows) = Len(tasks) /\ Len(tasks) <= MaxTasks
  /\ newlyMade \subseteq DOMAIN table /\ lost \in 0 .. MaxLost
  /\ \A b \in DOMAIN table : table[b].by \in DOMAIN tasks

\* A request at work has saved nothing but to read it again, its run is running,
\* and nothing is written yet of the stage it is in and of those after it.
AtTask(task, ran, done) ==
  /\ task.pc \in StageNames =>
       task.saved = 0 /\ \A k \in Order(task.pc) .. 5 : done[Stages[k]] = Unset
  /\ task.pc = "reread" => task.saved # 0 /\ done["assembly"] = Unset
  /\ task.pc # "over" => task.ended = "no" /\ ran.status = "running" /\ ran.briefing = 0

\* What is written when it is over is how it ended, or something was lost.
Told(task, ran, done, some) ==
  /\ task.pc = "over" => task.ended # "no"
  /\ ran.status = "complete" => task.ended = IF ran.briefing = 0 THEN "empty" ELSE "returned"
  /\ ran.briefing # 0 => ran.briefing = task.saved
  /\ ran.status = "failed" =>
       /\ task.ended = "failed" /\ ran.stage \in StageNames /\ done[ran.stage] # "complete"
       /\ \A k \in Order(ran.stage) + 1 .. 5 : done[Stages[k]] = Unset
       /\ task.saved # 0 => ran.stage = "assembly"
  /\ ran.status = "running" /\ task.pc = "over" => task.ended \in {"broken", "stopped"} \/ some
  /\ task.ended \in {"empty", "broken"} => task.saved = 0

\* Stories are clustered as they are ranked and drafted theme by theme, and what is
\* saved cites them.
Drafted(task) ==
  /\ task.pc = "theme_clustering" => Ranked(task.focus, task.found)
  /\ task.pc = "drafting" => Themed(task.focus, task.found)
  /\ task.pc = "assembly" => task.answer.cites \cup task.answer.worth \subseteq ToSet(task.found)

TaskTrue(task, ran, done, some) == AtTask(task, ran, done) /\ Told(task, ran, done, some) /\ Drafted(task)

\* A request has one briefing at the most, the one it saved or the failed one.
Owned(t) ==
  /\ tasks[t].saved # 0 =>
       /\ tasks[t].saved \in DOMAIN table /\ table[tasks[t].saved].by = t
       /\ table[tasks[t].saved].status = "complete"
  /\ \A b \in DOMAIN table : table[b].by = t =>
       /\ table[b].status = "complete" => tasks[t].saved = b
       /\ table[b].status = "failed" => tasks[t].ended = "failed" /\ tasks[t].saved = 0
OneEach == \A b, c \in DOMAIN table : table[b].by = table[c].by => b = c
Standing(b) ==
  /\ table[b].cites \cup table[b].worth = table[b].cited
  /\ table[b].cited \subseteq ToSet(tasks[table[b].by].found) /\ table[b].focus = tasks[table[b].by].focus
\* What is new of its focus was made after the request came.
Newly(t) ==
  /\ tasks[t].before <= Len(table)
  /\ \A b \in newlyMade : table[b].status = "complete" /\ table[b].focus = tasks[t].focus => tasks[t].before < b

MakingGood ==
  /\ MakingTyped /\ OneEach
  /\ \A t \in DOMAIN tasks : TaskTrue(tasks[t], runs[t], stageRows[t], lost > 0) /\ Owned(t) /\ Newly(t)
  /\ \A b \in DOMAIN table : Standing(b)

LEMMA StagesInOrder ==
  /\ DOMAIN Stages = 1 .. 5 /\ Len(Stages) = 5 /\ ToSet(Stages) = StageNames
  /\ \A k \in 1 .. 5 : Stages[k] \in StageNames /\ Order(Stages[k]) = k
  /\ \A s \in StageNames : Order(s) \in 1 .. 5 /\ Stages[Order(s)] = s
  /\ Order("candidate_selection") = 1 /\ Order("theme_clustering") = 2 /\ Order("drafting") = 3
  /\ Order("citation_verification") = 4 /\ Order("assembly") = 5
<1>1. DOMAIN Stages = 1 .. 5 /\ Len(Stages) = 5
  BY DEF Stages
<1>2. /\ Stages[1] = "candidate_selection" /\ Stages[2] = "theme_clustering" /\ Stages[3] = "drafting"
      /\ Stages[4] = "citation_verification" /\ Stages[5] = "assembly"
  BY DEF Stages
<1>3. \A k \in 1 .. 5 : k = 1 \/ k = 2 \/ k = 3 \/ k = 4 \/ k = 5
  OBVIOUS
<1>4. \A s \in StageNames : \E k \in 1 .. 5 : Stages[k] = s
  BY <1>2 DEF StageNames
<1>5. \A k \in 1 .. 5 : Stages[k] \in StageNames
  BY <1>2, <1>3 DEF StageNames
<1>6. \A k, m \in 1 .. 5 : Stages[k] = Stages[m] => k = m
  BY <1>2, <1>3
<1>7. \A s \in StageNames : Order(s) \in 1 .. 5 /\ Stages[Order(s)] = s
  BY <1>1, <1>4 DEF Order
<1>8. \A k \in 1 .. 5 : Order(Stages[k]) = k
  BY <1>5, <1>6, <1>7
<1>9. ToSet(Stages) = StageNames
  BY <1>1, <1>4, <1>5 DEF ToSet
<1>10. /\ Order("candidate_selection") = 1 /\ Order("theme_clustering") = 2 /\ Order("drafting") = 3
       /\ Order("citation_verification") = 4 /\ Order("assembly") = 5
  BY <1>2, <1>8
<1> QED
  BY <1>1, <1>5, <1>7, <1>8, <1>9, <1>10

LEMMA NextStages ==
  /\ After("candidate_selection") = "theme_clustering" /\ After("theme_clustering") = "drafting"
  /\ After("drafting") = "citation_verification" /\ After("citation_verification") = "assembly"
<1>1. /\ Stages[1 + 1] = "theme_clustering" /\ Stages[2 + 1] = "drafting"
      /\ Stages[3 + 1] = "citation_verification" /\ Stages[4 + 1] = "assembly"
  BY DEF Stages
<1> QED
  BY <1>1, StagesInOrder DEF After

LEMMA MakingBounds ==
  /\ MaxAttempts \in Nat \ {0} /\ MaxTasks \in Nat /\ MaxLost \in Nat /\ NoDraft \in Draft
  /\ Proposals \subseteq Draft /\ Sights \subseteq SUBSET Stories
  BY MakingAssumption DEF NoDraft, Draft

LEMMA MakingInitGood == MakingInit => MakingGood
<1> SUFFICES ASSUME MakingInit PROVE MakingGood
  OBVIOUS
<1>1. tasks = <<>> /\ runs = <<>> /\ stageRows = <<>> /\ table = <<>> /\ newlyMade = {} /\ lost = 0
  BY DEF MakingInit
<1>2. MakingTyped
  BY <1>1, MakingBounds DEF MakingTyped
<1>3. DOMAIN tasks = {} /\ DOMAIN table = {}
  BY <1>1
<1> QED
  BY <1>2, <1>3 DEF MakingGood, OneEach

-----------------------------------------------------------------------------
(* One step of one request                                                 *)

\* One request, its run and its stages are something else, which is true and keeps
\* what the request is about.
Moved(t, task, ran, done) ==
  /\ t \in DOMAIN tasks /\ tasks[t].pc # "over"
  /\ task \in Task /\ ran \in RunRow /\ done \in StageRow
  /\ lost' \in 0 .. MaxLost /\ lost <= lost' /\ TaskTrue(task, ran, done, lost' > 0)
  /\ task.focus = tasks[t].focus /\ task.before = tasks[t].before
  /\ tasks' = [tasks EXCEPT ![t] = task] /\ runs' = [runs EXCEPT ![t] = ran]
  /\ stageRows' = [stageRows EXCEPT ![t] = done]
NothingMade(t, task) ==
  /\ table' = table /\ newlyMade' = newlyMade /\ task.saved = tasks[t].saved
  /\ tasks[t].saved # 0 => task.found = tasks[t].found
Made(t, task, row) ==
  /\ tasks[t].pc \in StageNames /\ row \in Briefing /\ row.by = t /\ row.focus = task.focus
  /\ table' = Append(table, row) /\ newlyMade' = newlyMade \cup {Len(table) + 1}
  /\ row.cites \cup row.worth = row.cited /\ row.cited \subseteq ToSet(task.found)
  /\ \/ row.status = "complete" /\ task.saved = Len(table) + 1
     \/ row.status = "failed" /\ task.saved = 0 /\ task.ended = "failed"

\* More may be lost, nothing else said of a request changes.
LEMMA MoreLost ==
  ASSUME MakingTyped, NEW t \in DOMAIN tasks, TaskTrue(tasks[t], runs[t], stageRows[t], lost > 0),
         lost' \in Nat, lost <= lost'
  PROVE  TaskTrue(tasks[t], runs[t], stageRows[t], lost' > 0)
<1>1. lost > 0 => lost' > 0
  BY DEF MakingTyped
<1> QED
  BY <1>1 DEF TaskTrue, Told

LEMMA OneMoves ==
  ASSUME MakingGood, NEW t, NEW task, NEW ran, NEW done, Moved(t, task, ran, done)
  PROVE  /\ tasks' \in Seq(Task) /\ runs' \in Seq(RunRow) /\ stageRows' \in Seq(StageRow)
         /\ DOMAIN tasks' = DOMAIN tasks /\ Len(tasks') = Len(tasks) /\ Len(runs') = Len(runs)
         /\ Len(stageRows') = Len(stageRows)
         /\ tasks'[t] = task /\ \A u \in DOMAIN tasks : u # t => tasks'[u] = tasks[u]
         /\ \A u \in DOMAIN tasks : TaskTrue(tasks'[u], runs'[u], stageRows'[u], lost' > 0)
         /\ \A u \in DOMAIN tasks : tasks'[u].focus = tasks[u].focus /\ tasks'[u].before = tasks[u].before
<1>1. MakingTyped
  BY DEF MakingGood
<1>2. DOMAIN tasks = 1 .. Len(tasks) /\ DOMAIN runs = DOMAIN tasks /\ DOMAIN stageRows = DOMAIN tasks
  BY <1>1 DEF MakingTyped
<1>3. /\ tasks' \in Seq(Task) /\ runs' \in Seq(RunRow) /\ stageRows' \in Seq(StageRow)
      /\ DOMAIN tasks' = DOMAIN tasks /\ Len(tasks') = Len(tasks) /\ Len(runs') = Len(runs)
      /\ Len(stageRows') = Len(stageRows)
      /\ tasks'[t] = task /\ runs'[t] = ran /\ stageRows'[t] = done
      /\ \A u \in DOMAIN tasks : u # t =>
           tasks'[u] = tasks[u] /\ runs'[u] = runs[u] /\ stageRows'[u] = stageRows[u]
  BY <1>1, <1>2, ExceptSeq DEF Moved, MakingTyped
<1>4. ASSUME NEW u \in DOMAIN tasks
      PROVE  TaskTrue(tasks'[u], runs'[u], stageRows'[u], lost' > 0)
  <2>1. CASE u = t
    BY <1>3, <2>1 DEF Moved
  <2>2. CASE u # t
    <3>1. TaskTrue(tasks[u], runs[u], stageRows[u], lost > 0)
      BY DEF MakingGood
    <3>2. lost' \in Nat /\ lost <= lost'
      BY MakingBounds DEF Moved
    <3>3. TaskTrue(tasks[u], runs[u], stageRows[u], lost' > 0)
      BY <1>1, <3>1, <3>2, MoreLost
    <3> QED
      BY <1>3, <2>2, <3>3
  <2> QED
    BY <2>1, <2>2
<1>5. \A u \in DOMAIN tasks : tasks'[u].focus = tasks[u].focus /\ tasks'[u].before = tasks[u].before
  BY <1>3 DEF Moved
<1> QED
  BY <1>3, <1>4, <1>5

LEMMA NothingMadeGood ==
  ASSUME MakingGood, NEW t, NEW task, NEW ran, NEW done, Moved(t, task, ran, done), NothingMade(t, task)
  PROVE  MakingGood'
<1>0. MakingTyped /\ OneEach /\ t \in DOMAIN tasks /\ tasks[t].pc # "over" /\ table' = table /\ newlyMade' = newlyMade
  BY DEF MakingGood, Moved, NothingMade
<1>1. /\ tasks' \in Seq(Task) /\ runs' \in Seq(RunRow) /\ stageRows' \in Seq(StageRow)
      /\ DOMAIN tasks' = DOMAIN tasks /\ Len(tasks') = Len(tasks) /\ Len(runs') = Len(runs)
      /\ Len(stageRows') = Len(stageRows)
      /\ tasks'[t] = task /\ \A u \in DOMAIN tasks : u # t => tasks'[u] = tasks[u]
      /\ \A u \in DOMAIN tasks : TaskTrue(tasks'[u], runs'[u], stageRows'[u], lost' > 0)
      /\ \A u \in DOMAIN tasks : tasks'[u].focus = tasks[u].focus /\ tasks'[u].before = tasks[u].before
  BY OneMoves
<1>2. MakingTyped'
  BY <1>0, <1>1 DEF MakingTyped, Moved
<1>3. tasks[t].ended = "no" /\ task.saved = tasks[t].saved /\ (tasks[t].saved # 0 => task.found = tasks[t].found)
  BY <1>0 DEF MakingGood, TaskTrue, AtTask, NothingMade
<1>4. ASSUME NEW u \in DOMAIN tasks PROVE Owned(u)'
  <2>1. Owned(u) /\ Owned(t)
    BY <1>0 DEF MakingGood
  <2>2. CASE u = t
    <3>1. \A b \in DOMAIN table : table[b].by = t => table[b].status # "failed"
      BY <1>3, <2>1 DEF Owned
    <3> QED
      BY <1>0, <1>1, <1>3, <2>1, <2>2, <3>1 DEF Owned
  <2>3. CASE u # t
    BY <1>0, <1>1, <2>1, <2>3 DEF Owned
  <2> QED
    BY <2>2, <2>3
<1>5. ASSUME NEW u \in DOMAIN tasks PROVE Newly(u)'
  <2>1. Newly(u)
    BY DEF MakingGood
  <2> QED
    BY <1>0, <1>1, <2>1 DEF Newly
<1>6. ASSUME NEW b \in DOMAIN table PROVE Standing(b)'
  <2>1. Standing(b) /\ table[b] \in Briefing /\ table[b].by \in DOMAIN tasks
    BY <1>0 DEF MakingGood, MakingTyped
  <2>2. CASE table[b].by # t
    BY <1>0, <1>1, <2>1, <2>2 DEF Standing
  <2>3. CASE table[b].by = t
    <3>1. Owned(t)
      BY <1>0 DEF MakingGood
    <3>2. table[b].status = "complete" /\ tasks[t].saved = b
      BY <1>3, <2>1, <2>3, <3>1 DEF Owned, Briefing
    <3>3. b # 0
      BY <1>0 DEF MakingTyped
    <3>4. task.found = tasks[t].found
      BY <1>3, <3>2, <3>3
    <3> QED
      BY <1>0, <1>1, <2>1, <2>3, <3>4 DEF Standing
  <2> QED
    BY <2>2, <2>3
<1>7. OneEach'
  BY <1>0 DEF OneEach
<1> QED
  BY <1>0, <1>1, <1>2, <1>4, <1>5, <1>6, <1>7 DEF MakingGood

LEMMA MadeGood ==
  ASSUME MakingGood, NEW t, NEW task, NEW ran, NEW done, Moved(t, task, ran, done), NEW row, Made(t, task, row)
  PROVE  MakingGood'
<1>0. /\ MakingTyped /\ OneEach /\ t \in DOMAIN tasks /\ tasks[t].pc \in StageNames
      /\ table' = Append(table, row) /\ newlyMade' = newlyMade \cup {Len(table) + 1}
      /\ row \in Briefing /\ row.by = t
  BY DEF MakingGood, Moved, Made
<1>1. /\ tasks' \in Seq(Task) /\ runs' \in Seq(RunRow) /\ stageRows' \in Seq(StageRow)
      /\ DOMAIN tasks' = DOMAIN tasks /\ Len(tasks') = Len(tasks) /\ Len(runs') = Len(runs)
      /\ Len(stageRows') = Len(stageRows)
      /\ tasks'[t] = task /\ \A u \in DOMAIN tasks : u # t => tasks'[u] = tasks[u]
      /\ \A u \in DOMAIN tasks : TaskTrue(tasks'[u], runs'[u], stageRows'[u], lost' > 0)
      /\ \A u \in DOMAIN tasks : tasks'[u].focus = tasks[u].focus /\ tasks'[u].before = tasks[u].before
  BY OneMoves
<1>2. PICK n \in Nat : n = Len(table) /\ DOMAIN table = 1 .. n
  BY <1>0 DEF MakingTyped
<1>3. /\ table' \in Seq(Briefing) /\ Len(table') = n + 1 /\ DOMAIN table' = 1 .. n + 1
      /\ table'[n + 1] = row /\ \A b \in DOMAIN table : table'[b] = table[b]
  BY <1>0, <1>2, AppendProperties DEF MakingTyped
<1>4. \A b \in 1 .. n + 1 : b \in DOMAIN table \/ b = n + 1
  BY <1>2
<1>5. n + 1 \notin DOMAIN table /\ n + 1 # 0 /\ DOMAIN table \subseteq DOMAIN table' /\ n + 1 \in DOMAIN table'
  BY <1>2, <1>3
<1>6. newlyMade \subseteq DOMAIN table /\ newlyMade' = newlyMade \cup {n + 1}
  BY <1>0, <1>2 DEF MakingTyped
<1>7. MakingTyped'
  <2>1. newlyMade' \subseteq DOMAIN table'
    BY <1>5, <1>6
  <2>2. \A b \in DOMAIN table' : table'[b].by \in DOMAIN tasks'
    BY <1>0, <1>1, <1>3, <1>4 DEF MakingTyped
  <2> QED
    BY <1>0, <1>1, <1>3, <2>1, <2>2 DEF MakingTyped, Moved
<1>8. tasks[t].saved = 0 /\ tasks[t].ended = "no"
  <2>1. tasks[t].pc # "over"
    BY DEF Moved
  <2> QED
    BY <1>0, <2>1 DEF MakingGood, TaskTrue, AtTask
<1>9. \A b \in DOMAIN table : table[b].by # t
  <2> SUFFICES ASSUME NEW b \in DOMAIN table, table[b].by = t PROVE FALSE
    OBVIOUS
  <2>1. Owned(t) /\ table[b] \in Briefing /\ b # 0
    BY <1>0, <1>2 DEF MakingGood, MakingTyped
  <2> QED
    BY <1>8, <2>1 DEF Owned, Briefing
<1>10. ASSUME NEW u \in DOMAIN tasks PROVE Owned(u)'
  <2>1. CASE u = t
    <3>1. \/ row.status = "complete" /\ task.saved = n + 1
          \/ row.status = "failed" /\ task.saved = 0 /\ task.ended = "failed"
      BY <1>2 DEF Made
    <3>2. \A b \in DOMAIN table' : table'[b].by = t => b = n + 1
      BY <1>3, <1>4, <1>9
    <3> QED
      BY <1>0, <1>1, <1>3, <1>5, <2>1, <3>1, <3>2 DEF Owned
  <2>2. CASE u # t
    <3>1. Owned(u)
      BY DEF MakingGood
    <3>2. \A b \in DOMAIN table' : table'[b].by = u => b \in DOMAIN table
      BY <1>0, <1>3, <1>4, <2>2
    <3> QED
      BY <1>1, <1>3, <1>5, <2>2, <3>1, <3>2 DEF Owned
  <2> QED
    BY <2>1, <2>2
<1>11. ASSUME NEW u \in DOMAIN tasks PROVE Newly(u)'
  <2>0. tasks[u] \in Task
    BY <1>0 DEF MakingTyped
  <2>1. Newly(u) /\ tasks[u].before \in Nat
    BY <2>0 DEF MakingGood, Task
  <2>2. tasks'[u].before <= Len(table') /\ tasks'[u].before < n + 1
    BY <1>1, <1>2, <1>3, <2>1 DEF Newly
  <2>3. \A b \in newlyMade : table'[b].status = "complete" /\ table'[b].focus = tasks'[u].focus => tasks'[u].before < b
    BY <1>1, <1>3, <1>6, <2>1 DEF Newly
  <2> QED
    BY <1>6, <2>2, <2>3 DEF Newly
<1>12. ASSUME NEW b \in DOMAIN table' PROVE Standing(b)'
  <2>1. CASE b = n + 1
    BY <1>0, <1>1, <1>3, <2>1 DEF Standing, Made
  <2>2. CASE b # n + 1
    <3>1. b \in DOMAIN table
      BY <1>3, <1>4, <2>2
    <3>2. Standing(b) /\ table[b].by \in DOMAIN tasks /\ table[b].by # t /\ table'[b] = table[b]
      BY <1>0, <1>3, <1>9, <3>1 DEF MakingGood, MakingTyped
    <3> QED
      BY <1>1, <3>2 DEF Standing
  <2> QED
    BY <2>1, <2>2
<1>13. OneEach'
  BY <1>0, <1>3, <1>4, <1>9 DEF OneEach
<1> QED
  BY <1>1, <1>7, <1>10, <1>11, <1>12, <1>13 DEF MakingGood

-----------------------------------------------------------------------------
(* The stages                                                              *)

LEMMA Losing ==
  ASSUME MakingTyped, NEW L \in Losses, lost' = lost + Cardinality(L)
  PROVE  lost' \in 0 .. MaxLost /\ lost <= lost' /\ (L # {} => lost' > 0)
<1>1. L \in SUBSET {"step", "run", "row"} /\ lost + Cardinality(L) <= MaxLost
  BY DEF Losses
<1>2. IsFiniteSet({"step", "run", "row"})
  <2>1. IsFiniteSet({"step"} \cup {"run"} \cup {"row"})
    BY FS_Singleton, FS_Union
  <2>2. {"step"} \cup {"run"} \cup {"row"} = {"step", "run", "row"}
    OBVIOUS
  <2> QED
    BY <2>1, <2>2
<1>3. IsFiniteSet(L) /\ Cardinality(L) \in Nat
  BY <1>1, <1>2, FS_Subset, FS_CardinalityType
<1>4. L # {} => Cardinality(L) # 0
  BY <1>3, FS_EmptySet
<1> QED
  BY <1>1, <1>3, <1>4, MakingBounds DEF MakingTyped

LEMMA AtWorkIs ==
  ASSUME MakingGood, NEW t \in DOMAIN tasks
  PROVE  /\ MakingTyped /\ tasks[t] \in Task /\ runs[t] \in RunRow /\ stageRows[t] \in StageRow
         /\ AtTask(tasks[t], runs[t], stageRows[t]) /\ Told(tasks[t], runs[t], stageRows[t], lost > 0)
         /\ Drafted(tasks[t])
         /\ tasks[t] \in [pc: StageNames \cup {"reread", "over"}, focus: Foci, found: Seq(Stories),
                          attempt: 1 .. MaxAttempts, answer: Draft, before: Nat, saved: Nat, ended: Ends]
<1>1. MakingTyped
  BY DEF MakingGood
<1>2. DOMAIN tasks = 1 .. Len(tasks) /\ Len(runs) = Len(tasks) /\ Len(stageRows) = Len(tasks)
      /\ tasks \in Seq(Task) /\ runs \in Seq(RunRow) /\ stageRows \in Seq(StageRow)
  BY <1>1 DEF MakingTyped
<1>3. tasks[t] \in Task /\ runs[t] \in RunRow /\ stageRows[t] \in StageRow
  BY <1>2
<1>4. TaskTrue(tasks[t], runs[t], stageRows[t], lost > 0)
  BY DEF MakingGood
<1>5. tasks[t] \in [pc: StageNames \cup {"reread", "over"}, focus: Foci, found: Seq(Stories),
                    attempt: 1 .. MaxAttempts, answer: Draft, before: Nat, saved: Nat, ended: Ends]
  BY <1>3 DEF Task
<1> QED
  BY <1>1, <1>3, <1>4, <1>5 DEF TaskTrue

\* What is written of a stage leaves the others as they were.
LEMMA StageWritten ==
  ASSUME MakingTyped, NEW t \in DOMAIN tasks, NEW s \in StageNames, NEW status \in {"complete", "failed"},
         NEW L, stageRows[t][s] = Unset,
         stageRows' = IF "step" \in L THEN stageRows ELSE [stageRows EXCEPT ![t][s] = status]
  PROVE  \E done \in StageRow :
           /\ stageRows' = [stageRows EXCEPT ![t] = done]
           /\ done[s] \in {Unset, status} /\ \A r \in StageNames : r # s => done[r] = stageRows[t][r]
<1>1. t \in DOMAIN stageRows /\ stageRows \in Seq(StageRow) /\ stageRows[t] \in StageRow
  BY DEF MakingTyped
<1>2. CASE "step" \in L
  <2>1. stageRows = [stageRows EXCEPT ![t] = stageRows[t]]
    BY <1>1
  <2> QED
    BY <1>1, <1>2, <2>1
<1>3. CASE "step" \notin L
  <2> DEFINE done == [stageRows[t] EXCEPT ![s] = status]
  <2>1. done \in StageRow /\ done[s] = status /\ \A r \in StageNames : r # s => done[r] = stageRows[t][r]
    BY <1>1 DEF StageRow
  <2>2. stageRows' = [stageRows EXCEPT ![t] = done]
    BY <1>1, <1>3
  <2> QED
    BY <2>1, <2>2
<1> QED
  BY <1>2, <1>3

LEMMA SameRows ==
  ASSUME MakingTyped, NEW t \in DOMAIN tasks
  PROVE  runs = [runs EXCEPT ![t] = runs[t]] /\ stageRows = [stageRows EXCEPT ![t] = stageRows[t]]
  BY DEF MakingTyped

LEMMA ProceedGood ==
  ASSUME MakingGood, NEW t \in DOMAIN tasks, tasks[t].pc \in StageNames \ {"assembly"},
         NEW changed \in Task, changed.pc = After(tasks[t].pc), changed.focus = tasks[t].focus,
         changed.before = tasks[t].before, changed.saved = tasks[t].saved, changed.ended = tasks[t].ended,
         Drafted(changed), Proceed(t, changed)
  PROVE  MakingGood'
<1>1. PICK L \in Losses \cap SUBSET {"step"} :
        /\ RecordStage(t, "complete", L) /\ tasks' = [tasks EXCEPT ![t] = changed]
        /\ runs' = runs /\ table' = table /\ newlyMade' = newlyMade
  BY DEF Proceed
<1>2. /\ MakingTyped /\ runs[t] \in RunRow
      /\ AtTask(tasks[t], runs[t], stageRows[t])
  BY AtWorkIs
<1>3. PICK s \in StageNames : s = tasks[t].pc
  OBVIOUS
<1>4. tasks[t].saved = 0 /\ tasks[t].ended = "no" /\ runs[t].status = "running" /\ runs[t].briefing = 0
      /\ \A k \in Order(s) .. 5 : stageRows[t][Stages[k]] = Unset
  BY <1>2, <1>3 DEF AtTask, StageNames
<1>5. Order(s) \in 1 .. 4 /\ changed.pc = Stages[Order(s) + 1] /\ Stages[Order(s)] = s
  <2>1. Order(s) \in 1 .. 5 /\ Stages[Order(s)] = s
    BY StagesInOrder
  <2>2. Stages[5] # s
    BY <1>3, StagesInOrder DEF Stages
  <2> QED
    BY <1>3, <2>1, <2>2 DEF After
<1>6. stageRows[t][s] = Unset
  BY <1>4, <1>5
<1>7. PICK done \in StageRow :
        /\ stageRows' = [stageRows EXCEPT ![t] = done]
        /\ done[s] \in {Unset, "complete"} /\ \A r \in StageNames : r # s => done[r] = stageRows[t][r]
  <2>1. stageRows' = IF "step" \in L THEN stageRows ELSE [stageRows EXCEPT ![t][s] = "complete"]
    BY <1>1, <1>3 DEF RecordStage, Stage
  <2> QED
    BY <1>2, <1>6, <2>1, StageWritten
<1>8. lost' \in 0 .. MaxLost /\ lost <= lost'
  BY <1>1, <1>2, Losing DEF RecordStage
<1>9. AtTask(changed, runs[t], done)
  <2>1. changed.pc \in StageNames /\ Order(changed.pc) = Order(s) + 1
    BY <1>5, StagesInOrder
  <2>2. ASSUME NEW k \in Order(s) + 1 .. 5 PROVE done[Stages[k]] = Unset
    <3>1. k \in 1 .. 5 /\ k \in Order(s) .. 5 /\ k # Order(s)
      BY <1>5
    <3>2. Stages[k] \in StageNames /\ Stages[k] # s
      BY <1>3, <3>1, StagesInOrder
    <3> QED
      BY <1>4, <1>7, <3>1, <3>2
  <2>3. changed.pc # "reread"
    BY <2>1 DEF StageNames
  <2> QED
    BY <1>4, <2>1, <2>2, <2>3 DEF AtTask
<1>10. Told(changed, runs[t], done, lost' > 0)
  <2>1. changed.pc # "over"
    BY <1>5, StagesInOrder DEF StageNames
  <2> QED
    BY <1>4, <2>1 DEF Told
<1>11. Moved(t, changed, runs[t], done)
  <2>1. tasks[t].pc # "over"
    BY DEF StageNames
  <2>2. runs' = [runs EXCEPT ![t] = runs[t]]
    BY <1>1, <1>2, SameRows
  <2> QED
    BY <1>1, <1>2, <1>7, <1>8, <1>9, <1>10, <2>1, <2>2 DEF Moved, TaskTrue
<1>12. NothingMade(t, changed)
  BY <1>1, <1>4 DEF NothingMade
<1> QED
  BY <1>11, <1>12, NothingMadeGood

LEMMA OverIs ==
  ASSUME MakingGood, NEW t \in DOMAIN tasks, NEW how \in Ends
  PROVE  /\ Over(tasks[t], how) \in Task /\ Over(tasks[t], how).pc = "over" /\ Over(tasks[t], how).ended = how
         /\ Over(tasks[t], how).focus = tasks[t].focus /\ Over(tasks[t], how).before = tasks[t].before
         /\ Over(tasks[t], how).saved = tasks[t].saved
         /\ tasks[t].saved # 0 => Over(tasks[t], how).found = tasks[t].found
         /\ Drafted(Over(tasks[t], how)) /\ tasks[t].found \in Seq(Stories)
<1>1. tasks[t] \in [pc: StageNames \cup {"reread", "over"}, focus: Foci, found: Seq(Stories),
                    attempt: 1 .. MaxAttempts, answer: Draft, before: Nat, saved: Nat, ended: Ends]
  BY AtWorkIs
<1>2. PICK found \in Seq(Stories) :
        /\ found = IF how = "returned" \/ tasks[t].saved # 0 THEN tasks[t].found ELSE <<>>
        /\ tasks[t].saved # 0 => found = tasks[t].found
  <2>1. <<>> \in Seq(Stories) /\ tasks[t].found \in Seq(Stories)
    BY <1>1
  <2> QED
    BY <2>1
<1>3. 1 \in 1 .. MaxAttempts /\ NoDraft \in Draft
  BY MakingBounds
<1>4. Over(tasks[t], how) = [tasks[t] EXCEPT !.pc = "over", !.ended = how, !.attempt = 1, !.answer = NoDraft,
                                            !.found = found]
  BY <1>1, <1>2 DEF Over
<1>5. /\ Over(tasks[t], how) \in Task /\ Over(tasks[t], how).pc = "over" /\ Over(tasks[t], how).ended = how
      /\ Over(tasks[t], how).focus = tasks[t].focus /\ Over(tasks[t], how).before = tasks[t].before
      /\ Over(tasks[t], how).saved = tasks[t].saved /\ Over(tasks[t], how).found = found
  BY <1>1, <1>3, <1>4 DEF Task
<1>6. Drafted(Over(tasks[t], how))
  BY <1>5 DEF Drafted
<1> QED
  BY <1>1, <1>2, <1>5, <1>6

\* What a request at a stage is and has.
LEMMA AtAStage ==
  ASSUME MakingGood, NEW t \in DOMAIN tasks, NEW s \in StageNames, tasks[t].pc = s
  PROVE  /\ tasks[t].saved = 0 /\ tasks[t].ended = "no" /\ tasks[t].pc # "over"
         /\ runs[t].status = "running" /\ runs[t].briefing = 0
         /\ \A k \in Order(s) .. 5 : stageRows[t][Stages[k]] = Unset
         /\ stageRows[t][s] = Unset
<1>1. AtTask(tasks[t], runs[t], stageRows[t])
  BY AtWorkIs
<1>2. tasks[t].pc # "over"
  BY DEF StageNames
<1>3. Order(s) \in Order(s) .. 5 /\ Stages[Order(s)] = s
  BY StagesInOrder
<1> QED
  BY <1>1, <1>2, <1>3 DEF AtTask

LEMMA FailGood ==
  ASSUME MakingGood, NEW t \in DOMAIN tasks, tasks[t].pc \in StageNames, NEW leavesRow, Fail(t, leavesRow)
  PROVE  MakingGood'
<1>1. PICK L \in Losses :
        /\ RecordStage(t, "failed", L)
        /\ RecordRun(t, [status |-> "failed", briefing |-> 0, stage |-> Stage(t)], L)
        /\ tasks' = [tasks EXCEPT ![t] = Over(@, "failed")]
        /\ IF leavesRow /\ "row" \notin L
             THEN table' = Append(table, FailedRow(t)) /\ newlyMade' = newlyMade \cup {Len(table) + 1}
             ELSE UNCHANGED <<table, newlyMade>>
  BY DEF Fail
<1>2. PICK s \in StageNames : s = tasks[t].pc
  OBVIOUS
<1>3. /\ tasks[t].saved = 0 /\ tasks[t].ended = "no" /\ tasks[t].pc # "over"
      /\ runs[t].status = "running" /\ runs[t].briefing = 0
      /\ \A k \in Order(s) .. 5 : stageRows[t][Stages[k]] = Unset
      /\ stageRows[t][s] = Unset
  BY <1>2, AtAStage
<1>4. MakingTyped /\ runs[t] \in RunRow /\ tasks[t] \in Task
  BY AtWorkIs
<1>5. PICK done \in StageRow :
        /\ stageRows' = [stageRows EXCEPT ![t] = done]
        /\ done[s] \in {Unset, "failed"} /\ \A r \in StageNames : r # s => done[r] = stageRows[t][r]
  <2>1. stageRows' = IF "step" \in L THEN stageRows ELSE [stageRows EXCEPT ![t][s] = "failed"]
    BY <1>1, <1>2 DEF RecordStage, Stage
  <2> QED
    BY <1>3, <1>4, <2>1, StageWritten
<1>6. lost' \in 0 .. MaxLost /\ lost <= lost' /\ (L # {} => lost' > 0)
  BY <1>1, <1>4, Losing DEF RecordStage
<1>7. PICK ran \in RunRow :
        /\ runs' = [runs EXCEPT ![t] = ran] /\ ran.briefing = 0 /\ ran.status # "complete"
        /\ ran.status = "failed" => ran.stage = s
        /\ ran.status = "running" => L # {}
  <2>1. CASE "run" \in L
    BY <1>1, <1>3, <1>4, <2>1, SameRows DEF RecordRun
  <2>2. CASE "run" \notin L
    <3> DEFINE ran == [status |-> "failed", briefing |-> 0, stage |-> s]
    <3>1. ran \in RunRow
      BY DEF RunRow
    <3>2. runs' = [runs EXCEPT ![t] = ran]
      BY <1>1, <1>2, <2>2 DEF RecordRun, Stage
    <3> QED
      BY <3>1, <3>2
  <2> QED
    BY <2>1, <2>2
<1>8. PICK task \in Task :
        /\ task = Over(tasks[t], "failed") /\ task.pc = "over" /\ task.ended = "failed"
        /\ task.focus = tasks[t].focus /\ task.before = tasks[t].before /\ task.saved = tasks[t].saved
        /\ Drafted(task)
  BY OverIs DEF Ends
<1>9. AtTask(task, ran, done)
  BY <1>8 DEF AtTask, StageNames
<1>10. Told(task, ran, done, lost' > 0)
  <2>1. done[s] # "complete"
    BY <1>5 DEF Unset
  <2>2. ASSUME NEW k \in Order(s) + 1 .. 5 PROVE done[Stages[k]] = Unset
    <3>1. k \in 1 .. 5 /\ k \in Order(s) .. 5 /\ k # Order(s)
      BY StagesInOrder
    <3>2. Stages[k] \in StageNames /\ Stages[k] # s
      BY <3>1, StagesInOrder
    <3> QED
      BY <1>3, <1>5, <3>1, <3>2
  <2> QED
    BY <1>3, <1>6, <1>7, <1>8, <2>1, <2>2 DEF Told
<1>11. Moved(t, task, ran, done)
  <2>1. tasks' = [tasks EXCEPT ![t] = task]
    BY <1>1, <1>8
  <2> QED
    BY <1>3, <1>5, <1>6, <1>7, <1>8, <1>9, <1>10, <2>1 DEF Moved, TaskTrue
<1>12. CASE leavesRow /\ "row" \notin L
  <2>1. FailedRow(t) \in Briefing /\ FailedRow(t).by = t /\ FailedRow(t).status = "failed"
        /\ FailedRow(t).focus = tasks[t].focus /\ FailedRow(t).cites = {} /\ FailedRow(t).worth = {}
        /\ FailedRow(t).cited = {}
    <3>1. t \in Nat /\ tasks[t].focus \in Foci
      BY <1>4 DEF MakingTyped, Task
    <3> QED
      BY <3>1 DEF FailedRow, Briefing
  <2>2. Made(t, task, FailedRow(t))
    BY <1>1, <1>3, <1>8, <1>12, <2>1 DEF Made
  <2> QED
    BY <1>11, <2>2, MadeGood
<1>13. CASE ~(leavesRow /\ "row" \notin L)
  <2>1. NothingMade(t, task)
    BY <1>1, <1>3, <1>8, <1>13 DEF NothingMade
  <2> QED
    BY <1>11, <2>1, NothingMadeGood
<1> QED
  BY <1>12, <1>13

LEMMA CandidateSelectionGood ==
  ASSUME MakingGood, NEW t \in DOMAIN tasks, CandidateSelection(t) PROVE MakingGood'
<1>0. PICK s \in StageNames : s = "candidate_selection" /\ tasks[t].pc = s
  BY DEF CandidateSelection, Stage, StageNames
<1>1. /\ tasks[t].saved = 0 /\ tasks[t].ended = "no" /\ tasks[t].pc # "over"
      /\ runs[t].status = "running" /\ runs[t].briefing = 0 /\ stageRows[t][s] = Unset
  BY <1>0, AtAStage
<1>2. /\ MakingTyped /\ runs[t] \in RunRow
      /\ tasks[t] \in [pc: StageNames \cup {"reread", "over"}, focus: Foci, found: Seq(Stories),
                       attempt: 1 .. MaxAttempts, answer: Draft, before: Nat, saved: Nat, ended: Ends]
  BY AtWorkIs
<1>3. PICK seen \in SUBSET Stories :
        \/ Proceed(t, [tasks[t] EXCEPT !.pc = After(@),
              !.found = IF tasks[t].focus = "none" THEN FoundOf(seen) ELSE FocusOrder(FoundOf(seen))])
        \/ /\ \E L \in Losses \cap SUBSET {"step", "run"} :
                /\ RecordStage(t, "complete", L)
                /\ RecordRun(t, [status |-> "complete", briefing |-> 0, stage |-> Unset], L)
           /\ tasks' = [tasks EXCEPT ![t] = Over(@, "empty")]
           /\ UNCHANGED <<table, newlyMade>>
  <2>1. PICK seen \in Sights :
        \/ Proceed(t, [tasks[t] EXCEPT !.pc = After(@),
              !.found = IF tasks[t].focus = "none" THEN FoundOf(seen) ELSE FocusOrder(FoundOf(seen))])
        \/ /\ \E L \in Losses \cap SUBSET {"step", "run"} :
                /\ RecordStage(t, "complete", L)
                /\ RecordRun(t, [status |-> "complete", briefing |-> 0, stage |-> Unset], L)
           /\ tasks' = [tasks EXCEPT ![t] = Over(@, "empty")]
           /\ UNCHANGED <<table, newlyMade>>
    BY DEF CandidateSelection
  <2> QED
    BY <2>1, MakingBounds
<1>4. CASE Proceed(t, [tasks[t] EXCEPT !.pc = After(@),
              !.found = IF tasks[t].focus = "none" THEN FoundOf(seen) ELSE FocusOrder(FoundOf(seen))])
  <2>1. PICK found \in Seq(Stories) :
          /\ found = IF tasks[t].focus = "none" THEN FoundOf(seen) ELSE FocusOrder(FoundOf(seen))
          /\ Ranked(tasks[t].focus, found)
    <3>1. FoundOf(seen) \in Seq(Stories) /\ Ranked("none", FoundOf(seen))
      BY FoundIsRanked
    <3>2. tasks[t].focus # "none" => /\ FocusOrder(FoundOf(seen)) \in Seq(Stories)
                                     /\ Ranked(tasks[t].focus, FocusOrder(FoundOf(seen)))
      BY <3>1, FocusIsRanked
    <3> QED
      BY <3>1, <3>2
  <2>2. PICK changed : changed = [tasks[t] EXCEPT !.pc = After(@), !.found = found]
    OBVIOUS
  <2>3. /\ changed \in Task /\ changed.pc = "theme_clustering" /\ changed.focus = tasks[t].focus
        /\ changed.before = tasks[t].before /\ changed.saved = tasks[t].saved
        /\ changed.ended = tasks[t].ended /\ changed.found = found
    BY <1>0, <1>2, <2>2, NextStages DEF Task, StageNames
  <2>4. Drafted(changed)
    BY <2>1, <2>3 DEF Drafted
  <2>5. changed.pc = After(tasks[t].pc) /\ tasks[t].pc \in StageNames \ {"assembly"}
    BY <1>0, <2>3, NextStages
  <2>6. Proceed(t, changed)
    BY <1>4, <2>1, <2>2
  <2> QED
    BY <2>3, <2>4, <2>5, <2>6, ProceedGood
<1>5. CASE /\ \E L \in Losses \cap SUBSET {"step", "run"} :
                /\ RecordStage(t, "complete", L)
                /\ RecordRun(t, [status |-> "complete", briefing |-> 0, stage |-> Unset], L)
           /\ tasks' = [tasks EXCEPT ![t] = Over(@, "empty")]
           /\ UNCHANGED <<table, newlyMade>>
  <2>1. PICK L \in Losses \cap SUBSET {"step", "run"} :
          /\ RecordStage(t, "complete", L)
          /\ RecordRun(t, [status |-> "complete", briefing |-> 0, stage |-> Unset], L)
    BY <1>5
  <2>2. PICK done \in StageRow : stageRows' = [stageRows EXCEPT ![t] = done]
    <3>1. stageRows' = IF "step" \in L THEN stageRows ELSE [stageRows EXCEPT ![t][s] = "complete"]
      BY <1>0, <2>1 DEF RecordStage, Stage
    <3>2. MakingTyped /\ stageRows[t][s] = Unset
      BY <1>1, <1>2
    <3>3. \E done \in StageRow :
            /\ stageRows' = [stageRows EXCEPT ![t] = done]
            /\ done[s] \in {Unset, "complete"} /\ \A r \in StageNames : r # s => done[r] = stageRows[t][r]
      BY <3>1, <3>2, StageWritten
    <3> QED
      BY <3>3
  <2>3. lost' \in 0 .. MaxLost /\ lost <= lost' /\ (L # {} => lost' > 0)
    BY <1>2, <2>1, Losing DEF RecordStage
  <2>4. PICK ran \in RunRow :
          /\ runs' = [runs EXCEPT ![t] = ran] /\ ran.briefing = 0 /\ ran.status # "failed"
          /\ ran.status = "running" => L # {}
    <3>1. CASE "run" \in L
      BY <1>1, <1>2, <2>1, <3>1, SameRows DEF RecordRun
    <3>2. CASE "run" \notin L
      <4> DEFINE ran == [status |-> "complete", briefing |-> 0, stage |-> Unset]
      <4>1. ran \in RunRow
        BY DEF RunRow
      <4>2. runs' = [runs EXCEPT ![t] = ran]
        BY <2>1, <3>2 DEF RecordRun
      <4> QED
        BY <4>1, <4>2
    <3> QED
      BY <3>1, <3>2
  <2>5. PICK task \in Task :
          /\ task = Over(tasks[t], "empty") /\ task.pc = "over" /\ task.ended = "empty"
          /\ task.focus = tasks[t].focus /\ task.before = tasks[t].before /\ task.saved = tasks[t].saved
          /\ Drafted(task)
    BY OverIs DEF Ends
  <2>6. AtTask(task, ran, done)
    BY <2>5 DEF AtTask, StageNames
  <2>7. Told(task, ran, done, lost' > 0)
    BY <1>1, <2>3, <2>4, <2>5 DEF Told
  <2>8. Moved(t, task, ran, done)
    <3>1. tasks' = [tasks EXCEPT ![t] = task]
      BY <1>5, <2>5
    <3> QED
      BY <1>1, <2>2, <2>3, <2>4, <2>5, <2>6, <2>7, <3>1 DEF Moved, TaskTrue
  <2>9. NothingMade(t, task)
    BY <1>1, <1>5, <2>5 DEF NothingMade
  <2> QED
    BY <2>8, <2>9, NothingMadeGood
<1> QED
  BY <1>3, <1>4, <1>5

LEMMA ThemeClusteringGood ==
  ASSUME MakingGood, NEW t \in DOMAIN tasks, ThemeClustering(t) PROVE MakingGood'
<1>0. tasks[t].pc = "theme_clustering" /\ tasks[t].pc \in StageNames \ {"assembly"}
  BY DEF ThemeClustering, Stage, StageNames
<1>1. /\ Drafted(tasks[t])
      /\ tasks[t] \in [pc: StageNames \cup {"reread", "over"}, focus: Foci, found: Seq(Stories),
                       attempt: 1 .. MaxAttempts, answer: Draft, before: Nat, saved: Nat, ended: Ends]
  BY AtWorkIs
<1>2. PICK found \in Seq(Stories) : found = Clustered(tasks[t].found) /\ Themed(tasks[t].focus, found)
  <2>1. tasks[t].found \in Seq(Stories) /\ Ranked(tasks[t].focus, tasks[t].found)
    BY <1>0, <1>1 DEF Drafted
  <2> QED
    BY <2>1, ClusteredIsThemed
<1>3. PICK changed : changed = [tasks[t] EXCEPT !.pc = After(@), !.found = found]
  OBVIOUS
<1>4. /\ changed \in Task /\ changed.pc = "drafting" /\ changed.focus = tasks[t].focus
      /\ changed.before = tasks[t].before /\ changed.saved = tasks[t].saved
      /\ changed.ended = tasks[t].ended /\ changed.found = found
  BY <1>0, <1>1, <1>3, NextStages DEF Task, StageNames
<1>5. Drafted(changed)
  BY <1>2, <1>4 DEF Drafted
<1>6. Proceed(t, changed)
  <2>1. changed = [tasks[t] EXCEPT !.pc = After(@), !.found = Clustered(@)]
    BY <1>2, <1>3
  <2> QED
    BY <2>1 DEF ThemeClustering
<1>7. changed.pc = After(tasks[t].pc)
  BY <1>0, <1>4, NextStages
<1> QED
  BY <1>0, <1>4, <1>5, <1>6, <1>7, ProceedGood

LEMMA DraftingGood ==
  ASSUME MakingGood, NEW t \in DOMAIN tasks, Drafting(t) PROVE MakingGood'
<1>0. tasks[t].pc = "drafting" /\ tasks[t].pc \in StageNames \ {"assembly"}
  BY DEF Drafting, Stage, StageNames
<1>1. /\ MakingTyped /\ runs[t] \in RunRow /\ stageRows[t] \in StageRow
      /\ AtTask(tasks[t], runs[t], stageRows[t]) /\ Told(tasks[t], runs[t], stageRows[t], lost > 0)
      /\ Drafted(tasks[t])
      /\ tasks[t] \in [pc: StageNames \cup {"reread", "over"}, focus: Foci, found: Seq(Stories),
                       attempt: 1 .. MaxAttempts, answer: Draft, before: Nat, saved: Nat, ended: Ends]
  BY AtWorkIs
<1>2. CASE \E p \in Proposals : Proceed(t, [tasks[t] EXCEPT !.pc = After(@), !.answer = p])
  <2>1. PICK p \in Draft : Proceed(t, [tasks[t] EXCEPT !.pc = After(@), !.answer = p])
    BY <1>2, MakingBounds
  <2>2. PICK changed : changed = [tasks[t] EXCEPT !.pc = After(@), !.answer = p]
    OBVIOUS
  <2>3. /\ changed \in Task /\ changed.pc = "citation_verification" /\ changed.focus = tasks[t].focus
        /\ changed.before = tasks[t].before /\ changed.saved = tasks[t].saved /\ changed.ended = tasks[t].ended
    BY <1>0, <1>1, <2>2, NextStages DEF Task, StageNames
  <2>4. Drafted(changed) /\ changed.pc = After(tasks[t].pc)
    BY <1>0, <2>3, NextStages DEF Drafted
  <2> QED
    BY <1>0, <2>1, <2>2, <2>3, <2>4, ProceedGood
<1>3. CASE /\ tasks[t].attempt < MaxAttempts /\ tasks' = [tasks EXCEPT ![t].attempt = @ + 1]
           /\ UNCHANGED <<runs, stageRows, table, newlyMade, lost>>
  <2>1. PICK task : task = [tasks[t] EXCEPT !.attempt = @ + 1]
    OBVIOUS
  <2>2. /\ task \in Task /\ task.pc = tasks[t].pc /\ task.focus = tasks[t].focus /\ task.found = tasks[t].found
        /\ task.before = tasks[t].before /\ task.saved = tasks[t].saved /\ task.ended = tasks[t].ended
    <3>1. tasks[t].attempt + 1 \in 1 .. MaxAttempts
      BY <1>1, <1>3, MakingBounds
    <3> QED
      BY <1>1, <2>1, <3>1 DEF Task
  <2>3. AtTask(task, runs[t], stageRows[t])
    BY <1>1, <2>2 DEF AtTask
  <2>4. Told(task, runs[t], stageRows[t], lost > 0)
    BY <1>1, <2>2 DEF Told
  <2>5. Drafted(task)
    BY <1>0, <1>1, <2>2 DEF Drafted
  <2>6. tasks' = [tasks EXCEPT ![t] = task]
    BY <1>3, <2>1
  <2>7. runs' = [runs EXCEPT ![t] = runs[t]] /\ stageRows' = [stageRows EXCEPT ![t] = stageRows[t]] /\ lost' = lost
    BY <1>1, <1>3, SameRows
  <2>8. tasks[t].pc # "over" /\ lost \in 0 .. MaxLost /\ lost <= lost
    BY <1>0, <1>1, MakingBounds DEF MakingTyped
  <2>9. Moved(t, task, runs[t], stageRows[t])
    BY <1>1, <2>2, <2>3, <2>4, <2>5, <2>6, <2>7, <2>8 DEF Moved, TaskTrue
  <2>10. NothingMade(t, task)
    BY <1>3, <2>2 DEF NothingMade
  <2> QED
    BY <2>9, <2>10, NothingMadeGood
<1>4. CASE Fail(t, TRUE)
  BY <1>0, <1>4, FailGood
<1> QED
  BY <1>2, <1>3, <1>4 DEF Drafting

LEMMA CitationVerificationGood ==
  ASSUME MakingGood, NEW t \in DOMAIN tasks, CitationVerification(t) PROVE MakingGood'
<1>0. tasks[t].pc = "citation_verification" /\ tasks[t].pc \in StageNames \ {"assembly"}
  BY DEF CitationVerification, Stage, StageNames
<1>1. tasks[t] \in [pc: StageNames \cup {"reread", "over"}, focus: Foci, found: Seq(Stories),
                    attempt: 1 .. MaxAttempts, answer: Draft, before: Nat, saved: Nat, ended: Ends]
  BY AtWorkIs
<1>2. CASE Proceed(t, [tasks[t] EXCEPT !.pc = After(@),
                 !.answer = [cites |-> Supported(t, @.cites), worth |-> Supported(t, @.worth)]])
  <2>1. PICK agreed : agreed = [cites |-> tasks[t].answer.cites \cap ToSet(tasks[t].found),
                                worth |-> tasks[t].answer.worth \cap ToSet(tasks[t].found)]
    OBVIOUS
  <2>2. agreed \in Draft /\ agreed.cites \cup agreed.worth \subseteq ToSet(tasks[t].found)
    <3>1. tasks[t].answer.cites \in SUBSET Int /\ tasks[t].answer.worth \in SUBSET Int
      BY <1>1 DEF Draft
    <3> QED
      BY <2>1, <3>1 DEF Draft
  <2>3. PICK changed : changed = [tasks[t] EXCEPT !.pc = After(@), !.answer = agreed]
    OBVIOUS
  <2>4. /\ changed \in Task /\ changed.pc = "assembly" /\ changed.focus = tasks[t].focus
        /\ changed.before = tasks[t].before /\ changed.saved = tasks[t].saved /\ changed.ended = tasks[t].ended
        /\ changed.answer = agreed /\ changed.found = tasks[t].found
    BY <1>0, <1>1, <2>2, <2>3, NextStages DEF Task, StageNames
  <2>5. Drafted(changed) /\ changed.pc = After(tasks[t].pc)
    BY <1>0, <2>2, <2>4, NextStages DEF Drafted
  <2>6. Proceed(t, changed)
    BY <1>2, <2>1, <2>3 DEF Supported
  <2> QED
    BY <1>0, <2>4, <2>5, <2>6, ProceedGood
<1>3. CASE Fail(t, TRUE)
  BY <1>0, <1>3, FailGood
<1> QED
  BY <1>2, <1>3 DEF CitationVerification

LEMMA AssemblyGood ==
  ASSUME MakingGood, NEW t \in DOMAIN tasks, Assembly(t) PROVE MakingGood'
<1>0. PICK s \in StageNames : s = "assembly" /\ tasks[t].pc = s
  BY DEF Assembly, Stage, StageNames
<1>1. /\ tasks[t].saved = 0 /\ tasks[t].ended = "no" /\ tasks[t].pc # "over"
      /\ runs[t].status = "running" /\ runs[t].briefing = 0 /\ stageRows[t][s] = Unset
  BY <1>0, AtAStage
<1>2. /\ MakingTyped /\ runs[t] \in RunRow /\ stageRows[t] \in StageRow /\ Drafted(tasks[t])
      /\ tasks[t] \in [pc: StageNames \cup {"reread", "over"}, focus: Foci, found: Seq(Stories),
                       attempt: 1 .. MaxAttempts, answer: Draft, before: Nat, saved: Nat, ended: Ends]
  BY AtWorkIs
<1>3. CASE /\ table' = Append(table,
                [status |-> "complete", focus |-> tasks[t].focus, by |-> t, cites |-> tasks[t].answer.cites,
                 worth |-> tasks[t].answer.worth,
                 cited |-> (tasks[t].answer.cites \cup tasks[t].answer.worth) \cap ToSet(tasks[t].found)])
           /\ newlyMade' = newlyMade \cup {Len(table) + 1}
           /\ tasks' = [tasks EXCEPT ![t].pc = "reread", ![t].saved = Len(table) + 1,
                                     ![t].attempt = 1, ![t].answer = NoDraft]
           /\ UNCHANGED <<runs, stageRows, lost>>
  <2>1. PICK n \in Nat : n = Len(table)
    <3>1. table \in Seq(Briefing)
      BY <1>2 DEF MakingTyped
    <3> QED
      BY <3>1, LenProperties
  <2>2. PICK task : task = [tasks[t] EXCEPT !.pc = "reread", !.saved = n + 1, !.attempt = 1, !.answer = NoDraft]
    OBVIOUS
  <2>3. tasks' = [tasks EXCEPT ![t] = task]
    BY <1>3, <2>1, <2>2
  <2>4. /\ task \in Task /\ task.pc = "reread" /\ task.saved = n + 1 /\ task.focus = tasks[t].focus
        /\ task.before = tasks[t].before /\ task.found = tasks[t].found /\ task.ended = "no"
    <3>1. 1 \in 1 .. MaxAttempts /\ NoDraft \in Draft /\ n + 1 \in Nat
      BY MakingBounds
    <3> QED
      BY <1>1, <1>2, <2>2, <3>1 DEF Task
  <2>5. AtTask(task, runs[t], stageRows[t])
    <3>1. task.pc \notin StageNames /\ n + 1 # 0
      BY <2>4 DEF StageNames
    <3> QED
      BY <1>0, <1>1, <2>4, <3>1 DEF AtTask
  <2>6. Told(task, runs[t], stageRows[t], lost > 0)
    BY <1>1, <2>4 DEF Told
  <2>7. Drafted(task)
    BY <2>4 DEF Drafted
  <2>8. Moved(t, task, runs[t], stageRows[t])
    <3>1. runs' = [runs EXCEPT ![t] = runs[t]] /\ stageRows' = [stageRows EXCEPT ![t] = stageRows[t]]
      BY <1>2, <1>3, SameRows
    <3>2. lost' = lost /\ lost \in 0 .. MaxLost /\ lost <= lost
      BY <1>2, <1>3, MakingBounds DEF MakingTyped
    <3> QED
      BY <1>1, <1>2, <2>3, <2>4, <2>5, <2>6, <2>7, <3>1, <3>2 DEF Moved, TaskTrue
  <2>9. PICK cites \in SUBSET Int : cites = tasks[t].answer.cites
    BY <1>2 DEF Draft
  <2>10. PICK worth \in SUBSET Int : worth = tasks[t].answer.worth
    BY <1>2 DEF Draft
  <2>11. PICK those \in SUBSET Stories : those = ToSet(tasks[t].found)
    <3>1. ToSet(tasks[t].found) \in SUBSET Stories
      BY <1>2 DEF ToSet
    <3> QED
      BY <3>1
  <2>12. cites \cup worth \subseteq those
    BY <1>0, <1>2, <2>9, <2>10, <2>11 DEF Drafted
  <2>13. PICK row : row = [status |-> "complete", focus |-> tasks[t].focus, by |-> t, cites |-> cites,
                           worth |-> worth, cited |-> (cites \cup worth) \cap those]
    OBVIOUS
  <2>14. /\ row \in Briefing /\ row.by = t /\ row.focus = task.focus /\ row.status = "complete"
         /\ row.cites \cup row.worth = row.cited /\ row.cited \subseteq ToSet(task.found)
    <3>1. t \in Nat /\ tasks[t].focus \in Foci
      BY <1>2 DEF MakingTyped
    <3>2. (cites \cup worth) \cap those = cites \cup worth /\ (cites \cup worth) \cap those \in SUBSET Stories
      BY <2>12
    <3>3. row \in Briefing
      BY <2>13, <3>1, <3>2 DEF Briefing
    <3> QED
      BY <2>4, <2>11, <2>12, <2>13, <3>2, <3>3
  <2>15. Made(t, task, row)
    <3>1. table' = Append(table, row)
      BY <1>3, <2>9, <2>10, <2>11, <2>13
    <3> QED
      BY <1>0, <1>3, <2>1, <2>4, <2>14, <3>1 DEF Made
  <2> QED
    BY <2>8, <2>15, MadeGood
<1>4. CASE Fail(t, FALSE)
  BY <1>0, <1>4, FailGood
<1> QED
  BY <1>3, <1>4 DEF Assembly

LEMMA ReadAgainGood ==
  ASSUME MakingGood, NEW t \in DOMAIN tasks, ReadAgain(t) PROVE MakingGood'
<1>0. tasks[t].pc = "reread" /\ table' = table /\ newlyMade' = newlyMade
  BY DEF ReadAgain
<1>1. /\ MakingTyped /\ runs[t] \in RunRow /\ stageRows[t] \in StageRow /\ tasks[t] \in Task
      /\ AtTask(tasks[t], runs[t], stageRows[t])
  BY AtWorkIs
<1>2. /\ tasks[t].saved # 0 /\ stageRows[t]["assembly"] = Unset /\ tasks[t].ended = "no" /\ tasks[t].pc # "over"
      /\ runs[t].status = "running" /\ runs[t].briefing = 0
  BY <1>0, <1>1 DEF AtTask
<1>3. PICK L \in Losses \cap SUBSET {"step", "run"}, ok \in BOOLEAN :
       /\ lost' = lost + Cardinality(L)
       /\ stageRows' = IF "step" \in L THEN stageRows
                   ELSE [stageRows EXCEPT ![t]["assembly"] = IF ok THEN "complete" ELSE "failed"]
       /\ RecordRun(t, IF ok THEN [status |-> "complete", briefing |-> tasks[t].saved, stage |-> Unset]
                       ELSE [status |-> "failed", briefing |-> 0, stage |-> "assembly"], L)
       /\ tasks' = [tasks EXCEPT ![t] = Over(@, IF ok THEN "returned" ELSE "failed")]
  BY DEF ReadAgain
<1>4. PICK status \in {"complete", "failed"} : status = IF ok THEN "complete" ELSE "failed"
  OBVIOUS
<1>5. PICK s \in StageNames : s = "assembly"
  BY DEF StageNames
<1>6. PICK done \in StageRow :
        /\ stageRows' = [stageRows EXCEPT ![t] = done]
        /\ done[s] \in {Unset, status}
  <2>1. stageRows' = IF "step" \in L THEN stageRows ELSE [stageRows EXCEPT ![t][s] = status]
    BY <1>3, <1>4, <1>5
  <2>2. stageRows[t][s] = Unset
    BY <1>2, <1>5
  <2>3. \E done \in StageRow :
           /\ stageRows' = [stageRows EXCEPT ![t] = done]
           /\ done[s] \in {Unset, status} /\ \A r \in StageNames : r # s => done[r] = stageRows[t][r]
    <3>1. MakingTyped
      BY <1>1
    <3>2. CASE status = "complete"
      <4>1. stageRows' = IF "step" \in L THEN stageRows ELSE [stageRows EXCEPT ![t][s] = "complete"]
        BY <2>1, <3>2
      <4>2. \E done \in StageRow :
               /\ stageRows' = [stageRows EXCEPT ![t] = done]
               /\ done[s] \in {Unset, "complete"} /\ \A r \in StageNames : r # s => done[r] = stageRows[t][r]
        BY <2>2, <3>1, <4>1, StageWritten
      <4> QED
        BY <3>2, <4>2
    <3>3. CASE status = "failed"
      <4>1. stageRows' = IF "step" \in L THEN stageRows ELSE [stageRows EXCEPT ![t][s] = "failed"]
        BY <2>1, <3>3
      <4>2. \E done \in StageRow :
               /\ stageRows' = [stageRows EXCEPT ![t] = done]
               /\ done[s] \in {Unset, "failed"} /\ \A r \in StageNames : r # s => done[r] = stageRows[t][r]
        BY <2>2, <3>1, <4>1, StageWritten
      <4> QED
        BY <3>3, <4>2
    <3> QED
      BY <3>2, <3>3
  <2> QED
    BY <2>3
<1>7. lost' \in 0 .. MaxLost /\ lost <= lost' /\ (L # {} => lost' > 0)
  BY <1>1, <1>3, Losing
<1>8. PICK ran \in RunRow :
        /\ runs' = [runs EXCEPT ![t] = ran]
        /\ ran.status = "running" => L # {} /\ ran.briefing = 0
        /\ ran.status = "complete" => ok /\ ran.briefing = tasks[t].saved
        /\ ran.status = "failed" => ~ok /\ ran.briefing = 0 /\ ran.stage = "assembly"
  <2>1. CASE "run" \in L
    BY <1>1, <1>2, <1>3, <2>1, SameRows DEF RecordRun
  <2>2. CASE "run" \notin L
    <3>1. PICK ran : ran = IF ok THEN [status |-> "complete", briefing |-> tasks[t].saved, stage |-> Unset]
                       ELSE [status |-> "failed", briefing |-> 0, stage |-> "assembly"]
      OBVIOUS
    <3>2. tasks[t].saved \in Nat
      BY <1>1 DEF Task
    <3>3. ran \in RunRow
      BY <3>1, <3>2 DEF RunRow, StageNames
    <3>4. runs' = [runs EXCEPT ![t] = ran]
      BY <1>3, <2>2, <3>1 DEF RecordRun
    <3> QED
      BY <3>1, <3>3, <3>4
  <2> QED
    BY <2>1, <2>2
<1>9. PICK how \in {"returned", "failed"} : how = IF ok THEN "returned" ELSE "failed"
  OBVIOUS
<1>10. PICK task \in Task :
        /\ task = Over(tasks[t], how) /\ task.pc = "over" /\ task.ended = how
        /\ task.focus = tasks[t].focus /\ task.before = tasks[t].before /\ task.saved = tasks[t].saved
        /\ task.found = tasks[t].found /\ Drafted(task)
  <2>1. how \in Ends
    BY DEF Ends
  <2> QED
    BY <1>2, <2>1, OverIs
<1>11. AtTask(task, ran, done)
  BY <1>10 DEF AtTask, StageNames
<1>12. Told(task, ran, done, lost' > 0)
  <2>1. task.ended # "no" /\ task.ended \notin {"empty", "broken"}
    BY <1>10
  <2>2. ran.status = "complete" => task.ended = "returned" /\ ran.briefing = task.saved /\ ran.briefing # 0
    BY <1>2, <1>8, <1>9, <1>10
  <2>3. ran.briefing # 0 => ran.briefing = task.saved
    BY <1>8, <1>10 DEF RunRow
  <2>4. ran.status = "failed" =>
          /\ task.ended = "failed" /\ ran.stage \in StageNames /\ done[ran.stage] # "complete"
          /\ \A k \in Order(ran.stage) + 1 .. 5 : done[Stages[k]] = Unset
          /\ task.saved # 0 => ran.stage = "assembly"
    <3> SUFFICES ASSUME ran.status = "failed"
                 PROVE  /\ task.ended = "failed" /\ ran.stage \in StageNames /\ done[ran.stage] # "complete"
                        /\ \A k \in Order(ran.stage) + 1 .. 5 : done[Stages[k]] = Unset
                        /\ ran.stage = "assembly"
      OBVIOUS
    <3>1. ~ok /\ ran.stage = "assembly" /\ ran.stage = s
      BY <1>5, <1>8
    <3>2. done[ran.stage] # "complete"
      BY <1>4, <1>6, <3>1 DEF Unset
    <3>3. Order(ran.stage) = 5
      BY <3>1, StagesInOrder
    <3> QED
      BY <1>9, <1>10, <3>1, <3>2, <3>3
  <2>5. ran.status = "running" => lost' > 0
    BY <1>7, <1>8
  <2> QED
    BY <2>1, <2>2, <2>3, <2>4, <2>5 DEF Told
<1>13. Moved(t, task, ran, done)
  <2>1. tasks' = [tasks EXCEPT ![t] = task]
    BY <1>3, <1>9, <1>10
  <2> QED
    BY <1>2, <1>6, <1>7, <1>8, <1>10, <1>11, <1>12, <2>1 DEF Moved, TaskTrue
<1>14. NothingMade(t, task)
  BY <1>0, <1>10 DEF NothingMade
<1> QED
  BY <1>13, <1>14, NothingMadeGood

LEMMA BreakGood ==
  ASSUME MakingGood, NEW t \in DOMAIN tasks, Break(t) PROVE MakingGood'
<1>0. /\ tasks[t].pc \in StageNames /\ tasks' = [tasks EXCEPT ![t] = Over(@, "broken")]
      /\ UNCHANGED <<runs, stageRows, table, newlyMade, lost>>
  BY StagesInOrder DEF Break, Stage
<1>1. /\ MakingTyped /\ runs[t] \in RunRow /\ stageRows[t] \in StageRow
  BY AtWorkIs
<1>2. /\ tasks[t].saved = 0 /\ tasks[t].pc # "over" /\ runs[t].status = "running" /\ runs[t].briefing = 0
  BY <1>0, AtAStage
<1>3. PICK task \in Task :
        /\ task = Over(tasks[t], "broken") /\ task.pc = "over" /\ task.ended = "broken"
        /\ task.focus = tasks[t].focus /\ task.before = tasks[t].before /\ task.saved = tasks[t].saved
        /\ Drafted(task)
  BY OverIs DEF Ends
<1>4. AtTask(task, runs[t], stageRows[t])
  BY <1>3 DEF AtTask, StageNames
<1>5. Told(task, runs[t], stageRows[t], lost > 0)
  BY <1>2, <1>3 DEF Told
<1>6. Moved(t, task, runs[t], stageRows[t])
  <2>1. runs' = [runs EXCEPT ![t] = runs[t]] /\ stageRows' = [stageRows EXCEPT ![t] = stageRows[t]]
    BY <1>0, <1>1, SameRows
  <2>2. lost' = lost /\ lost \in 0 .. MaxLost /\ lost <= lost
    BY <1>0, <1>1, MakingBounds DEF MakingTyped
  <2>3. tasks' = [tasks EXCEPT ![t] = task]
    BY <1>0, <1>3
  <2> QED
    BY <1>1, <1>2, <1>3, <1>4, <1>5, <2>1, <2>2, <2>3 DEF Moved, TaskTrue
<1>7. NothingMade(t, task)
  BY <1>0, <1>2, <1>3 DEF NothingMade
<1> QED
  BY <1>6, <1>7, NothingMadeGood

-----------------------------------------------------------------------------
(* The other steps                                                         *)

LEMMA GenerateBriefingGood ==
  ASSUME MakingGood, NEW f \in Foci, GenerateBriefing(f) PROVE MakingGood'
<1>0. MakingTyped /\ OneEach
  BY DEF MakingGood
<1>1. PICK n \in Nat : n = Len(tasks) /\ DOMAIN tasks = 1 .. n
  BY <1>0 DEF MakingTyped
<1>2. PICK task : task = [pc |-> "candidate_selection", focus |-> f, found |-> <<>>, attempt |-> 1,
                          answer |-> NoDraft, before |-> Len(table), saved |-> 0, ended |-> "no"]
  OBVIOUS
<1>3. PICK ran : ran = [status |-> "running", briefing |-> 0, stage |-> Unset]
  OBVIOUS
<1>4. PICK done : done = [s \in StageNames |-> Unset]
  OBVIOUS
<1>5. /\ n < MaxTasks /\ Recent(f) = {} /\ tasks' = Append(tasks, task) /\ runs' = Append(runs, ran)
      /\ stageRows' = Append(stageRows, done) /\ table' = table /\ newlyMade' = newlyMade /\ lost' = lost
  BY <1>1, <1>2, <1>3, <1>4, StagesInOrder DEF GenerateBriefing, MayStart
<1>6. /\ task \in Task /\ ran \in RunRow /\ done \in StageRow
  <2>1. 1 \in 1 .. MaxAttempts /\ NoDraft \in Draft /\ Len(table) \in Nat /\ <<>> \in Seq(Stories)
    BY <1>0, MakingBounds DEF MakingTyped
  <2> QED
    BY <1>2, <1>3, <1>4, <2>1 DEF Task, RunRow, StageRow, StageNames, Ends
<1>7. /\ tasks' \in Seq(Task) /\ runs' \in Seq(RunRow) /\ stageRows' \in Seq(StageRow)
      /\ Len(tasks') = n + 1 /\ Len(runs') = n + 1 /\ Len(stageRows') = n + 1 /\ DOMAIN tasks' = 1 .. n + 1
      /\ tasks'[n + 1] = task /\ runs'[n + 1] = ran /\ stageRows'[n + 1] = done
      /\ \A t \in DOMAIN tasks : tasks'[t] = tasks[t] /\ runs'[t] = runs[t] /\ stageRows'[t] = stageRows[t]
  BY <1>0, <1>1, <1>5, <1>6, AppendProperties DEF MakingTyped
<1>8. /\ \A t \in 1 .. n + 1 : t \in DOMAIN tasks \/ t = n + 1
      /\ n + 1 \notin DOMAIN tasks /\ DOMAIN tasks \subseteq 1 .. n + 1
  BY <1>1
<1>9. MakingTyped'
  <2>1. n + 1 <= MaxTasks
    BY <1>5, MakingBounds
  <2> QED
    BY <1>0, <1>5, <1>7, <1>8, <2>1 DEF MakingTyped
<1>10. TaskTrue(task, ran, done, lost > 0)
  <2>1. AtTask(task, ran, done)
    BY <1>2, <1>3, <1>4, StagesInOrder DEF AtTask
  <2>2. Told(task, ran, done, lost > 0)
    BY <1>2, <1>3 DEF Told
  <2>3. Drafted(task)
    BY <1>2 DEF Drafted
  <2> QED
    BY <2>1, <2>2, <2>3 DEF TaskTrue
<1>11. ASSUME NEW t \in DOMAIN tasks' PROVE TaskTrue(tasks[t], runs[t], stageRows[t], lost > 0)'
  <2>1. CASE t = n + 1
    BY <1>5, <1>7, <1>10, <2>1
  <2>2. CASE t # n + 1
    <3>1. t \in DOMAIN tasks
      BY <1>7, <1>8, <2>2
    <3>2. TaskTrue(tasks[t], runs[t], stageRows[t], lost > 0)
      BY <3>1 DEF MakingGood
    <3> QED
      BY <1>5, <1>7, <3>1, <3>2
  <2> QED
    BY <2>1, <2>2
<1>12. ASSUME NEW t \in DOMAIN tasks' PROVE Owned(t)'
  <2>1. CASE t = n + 1
    <3>1. \A b \in DOMAIN table : table[b].by # t
      BY <1>0, <1>8, <2>1 DEF MakingTyped
    <3>2. tasks'[t].saved = 0
      BY <1>2, <1>7, <2>1
    <3> QED
      BY <1>5, <3>1, <3>2 DEF Owned
  <2>2. CASE t # n + 1
    <3>1. t \in DOMAIN tasks
      BY <1>7, <1>8, <2>2
    <3>2. Owned(t)
      BY <3>1 DEF MakingGood
    <3> QED
      BY <1>5, <1>7, <3>1, <3>2 DEF Owned
  <2> QED
    BY <2>1, <2>2
<1>13. ASSUME NEW t \in DOMAIN tasks' PROVE Newly(t)'
  <2>1. CASE t = n + 1
    <3>1. tasks'[t].before = Len(table) /\ tasks'[t].focus = f /\ Len(table) \in Nat
      BY <1>0, <1>2, <1>7, <2>1 DEF MakingTyped
    <3>2. \A b \in newlyMade : ~(table[b].status = "complete" /\ table[b].focus = f)
      BY <1>5 DEF Recent
    <3> QED
      BY <1>5, <3>1, <3>2 DEF Newly
  <2>2. CASE t # n + 1
    <3>1. t \in DOMAIN tasks
      BY <1>7, <1>8, <2>2
    <3>2. Newly(t)
      BY <3>1 DEF MakingGood
    <3> QED
      BY <1>5, <1>7, <3>1, <3>2 DEF Newly
  <2> QED
    BY <2>1, <2>2
<1>14. ASSUME NEW b \in DOMAIN table' PROVE Standing(b)'
  <2>1. b \in DOMAIN table /\ Standing(b) /\ table[b].by \in DOMAIN tasks
    BY <1>0, <1>5 DEF MakingGood, MakingTyped
  <2> QED
    BY <1>5, <1>7, <2>1 DEF Standing
<1>15. OneEach'
  BY <1>0, <1>5 DEF OneEach
<1> QED
  BY <1>9, <1>11, <1>12, <1>13, <1>14, <1>15 DEF MakingGood

LEMMA StopAllGood == ASSUME MakingGood, StopAll PROVE MakingGood'
<1>0. MakingTyped /\ OneEach
  BY DEF MakingGood
<1>1. /\ tasks' = [t \in DOMAIN tasks |->
                     IF tasks[t].pc = "over" THEN tasks[t] ELSE Over(tasks[t], "stopped")]
      /\ runs' = runs /\ stageRows' = stageRows /\ table' = table /\ newlyMade' = newlyMade /\ lost' = lost
  BY DEF StopAll
<1>2. ASSUME NEW t \in DOMAIN tasks
      PROVE  /\ tasks'[t] \in Task
             /\ tasks'[t].focus = tasks[t].focus /\ tasks'[t].before = tasks[t].before
             /\ tasks'[t].saved = tasks[t].saved /\ (tasks[t].ended = "failed" => tasks'[t].ended = "failed")
             /\ tasks'[t].found = tasks[t].found \/ (tasks[t].saved = 0 /\ tasks[t].ended = "no")
             /\ TaskTrue(tasks'[t], runs[t], stageRows[t], lost > 0)
  <2>1. /\ tasks[t] \in Task /\ AtTask(tasks[t], runs[t], stageRows[t])
        /\ TaskTrue(tasks[t], runs[t], stageRows[t], lost > 0)
    BY AtWorkIs DEF TaskTrue
  <2>2. CASE tasks[t].pc = "over"
    <3>1. tasks'[t] = tasks[t]
      BY <1>1, <2>2
    <3> QED
      BY <2>1, <3>1
  <2>3. CASE tasks[t].pc # "over"
    <3>1. tasks'[t] = Over(tasks[t], "stopped")
      BY <1>1, <2>3
    <3>2. PICK task \in Task :
            /\ task = Over(tasks[t], "stopped") /\ task.pc = "over" /\ task.ended = "stopped"
            /\ task.focus = tasks[t].focus /\ task.before = tasks[t].before /\ task.saved = tasks[t].saved
            /\ tasks[t].saved # 0 => task.found = tasks[t].found
            /\ Drafted(task)
      BY OverIs DEF Ends
    <3>3. tasks[t].ended = "no" /\ runs[t].status = "running" /\ runs[t].briefing = 0
      BY <2>1, <2>3 DEF AtTask
    <3>4. AtTask(task, runs[t], stageRows[t])
      BY <3>2 DEF AtTask, StageNames
    <3>5. Told(task, runs[t], stageRows[t], lost > 0)
      BY <3>2, <3>3 DEF Told
    <3> QED
      BY <3>1, <3>2, <3>3, <3>4, <3>5 DEF TaskTrue
  <2> QED
    BY <2>2, <2>3
<1>3. tasks' \in Seq(Task) /\ DOMAIN tasks' = DOMAIN tasks /\ Len(tasks') = Len(tasks)
  <2>1. PICK n \in Nat : DOMAIN tasks = 1 .. n /\ n = Len(tasks)
    BY <1>0 DEF MakingTyped
  <2>2. tasks' \in [1 .. n -> Task]
    BY <1>1, <1>2, <2>1
  <2> QED
    BY <2>1, <2>2
<1>4. MakingTyped'
  BY <1>0, <1>1, <1>3 DEF MakingTyped
<1>5. ASSUME NEW t \in DOMAIN tasks PROVE Owned(t)'
  <2>1. Owned(t)
    BY DEF MakingGood
  <2> QED
    BY <1>1, <1>2, <2>1 DEF Owned
<1>6. ASSUME NEW t \in DOMAIN tasks PROVE Newly(t)'
  <2>1. Newly(t)
    BY DEF MakingGood
  <2> QED
    BY <1>1, <1>2, <2>1 DEF Newly
<1>7. ASSUME NEW b \in DOMAIN table PROVE Standing(b)'
  <2>1. PICK t \in DOMAIN tasks : t = table[b].by
    BY <1>0 DEF MakingTyped
  <2>2. Standing(b) /\ Owned(t) /\ table[b] \in Briefing /\ b # 0
    BY <1>0 DEF MakingGood, MakingTyped
  <2>3. tasks'[t].found = tasks[t].found
    BY <1>2, <2>1, <2>2 DEF Owned, Briefing
  <2> QED
    BY <1>1, <1>2, <2>1, <2>2, <2>3 DEF Standing
<1>8. OneEach'
  BY <1>0, <1>1 DEF OneEach
<1>9. \A t \in DOMAIN tasks' : TaskTrue(tasks'[t], runs'[t], stageRows'[t], lost' > 0)
  BY <1>1, <1>2, <1>3
<1> QED
  BY <1>1, <1>3, <1>4, <1>5, <1>6, <1>7, <1>8, <1>9 DEF MakingGood

LEMMA TimePassesGood ==
  ASSUME MakingGood, UNCHANGED <<tasks, runs, stageRows, table, lost>>, newlyMade' \subseteq newlyMade
  PROVE  MakingGood'
<1>0. MakingTyped /\ OneEach
  BY DEF MakingGood
<1>1. MakingTyped'
  BY <1>0 DEF MakingTyped
<1>2. \A t \in DOMAIN tasks : TaskTrue(tasks[t], runs[t], stageRows[t], lost > 0)'
  BY DEF MakingGood
<1>3. \A t \in DOMAIN tasks : Owned(t)'
  <2> SUFFICES ASSUME NEW t \in DOMAIN tasks PROVE Owned(t)'
    OBVIOUS
  <2>1. Owned(t)
    BY DEF MakingGood
  <2> QED
    BY <2>1 DEF Owned
<1>4. \A t \in DOMAIN tasks : Newly(t)'
  <2> SUFFICES ASSUME NEW t \in DOMAIN tasks PROVE Newly(t)'
    OBVIOUS
  <2>1. Newly(t)
    BY DEF MakingGood
  <2> QED
    BY <2>1 DEF Newly
<1>5. \A b \in DOMAIN table : Standing(b)'
  <2> SUFFICES ASSUME NEW b \in DOMAIN table PROVE Standing(b)'
    OBVIOUS
  <2>1. Standing(b)
    BY DEF MakingGood
  <2> QED
    BY <2>1 DEF Standing
<1>6. OneEach'
  BY <1>0 DEF OneEach
<1> QED
  BY <1>1, <1>2, <1>3, <1>4, <1>5, <1>6 DEF MakingGood

LEMMA MakingStepGood == MakingGood /\ [MakingNext]_makingVars => MakingGood'
<1> SUFFICES ASSUME MakingGood, [MakingNext]_makingVars PROVE MakingGood'
  OBVIOUS
<1>1. CASE UNCHANGED makingVars
  BY <1>1, TimePassesGood DEF makingVars
<1>2. CASE \E b \in newlyMade : TenMinutesPass(b)
  BY <1>2, TimePassesGood DEF TenMinutesPass
<1> QED
  BY <1>1, <1>2, StopAllGood, GenerateBriefingGood, CandidateSelectionGood, ThemeClusteringGood, DraftingGood,
     CitationVerificationGood, AssemblyGood, ReadAgainGood, BreakGood DEF MakingNext

-----------------------------------------------------------------------------
(* What follows                                                            *)

LEMMA RowsAreFew ==
  ASSUME MakingGood, NEW t \in DOMAIN tasks
  PROVE  /\ Cardinality(Rows(t, "complete")) + Cardinality(Rows(t, "failed")) <= 1
         /\ Rows(t, "complete") # {} => tasks[t].saved # 0
         /\ Rows(t, "failed") # {} => tasks[t].ended = "failed"
         /\ tasks[t].saved # 0 => tasks[t].saved \in Rows(t, "complete")
<1>0. MakingTyped /\ OneEach /\ Owned(t)
  BY DEF MakingGood
<1>1. ASSUME NEW S, \A b, c \in S : b = c PROVE IsFiniteSet(S) /\ Cardinality(S) \in {0, 1}
  <2>1. CASE S = {}
    BY <2>1, FS_EmptySet
  <2>2. CASE S # {}
    <3>1. PICK x \in S : S = {x}
      BY <1>1, <2>2
    <3> QED
      BY <3>1, FS_Singleton
  <2> QED
    BY <2>1, <2>2
<1>2. /\ \A b, c \in Rows(t, "complete") : b = c
      /\ \A b, c \in Rows(t, "failed") : b = c
      /\ Rows(t, "complete") = {} \/ Rows(t, "failed") = {}
  <2>1. \A b \in Rows(t, "complete"), c \in Rows(t, "failed") : FALSE
    BY <1>0 DEF OneEach, Rows
  <2> QED
    BY <1>0, <2>1 DEF OneEach, Rows
<1>3. Cardinality(Rows(t, "complete")) \in {0, 1} /\ Cardinality(Rows(t, "failed")) \in {0, 1}
  BY <1>1, <1>2
<1>4. Cardinality(Rows(t, "complete")) = 0 \/ Cardinality(Rows(t, "failed")) = 0
  BY <1>2, FS_EmptySet
<1>5. Cardinality(Rows(t, "complete")) + Cardinality(Rows(t, "failed")) <= 1
  BY <1>3, <1>4
<1>6. \A b \in DOMAIN table : b # 0
  BY <1>0 DEF MakingTyped
<1> QED
  BY <1>0, <1>5, <1>6 DEF Owned, Rows

LEMMA MakingParts == MakingGood => MakingTypeOK /\ MakingInv
<1> SUFFICES ASSUME MakingGood PROVE MakingTypeOK /\ MakingInv
  OBVIOUS
<1>1. /\ MakingTyped /\ DOMAIN tasks = 1 .. Len(tasks) /\ DOMAIN runs = DOMAIN tasks
      /\ DOMAIN stageRows = DOMAIN tasks
  BY DEF MakingGood, MakingTyped
<1>2. MakingTypeOK
  <2>1. ASSUME NEW t \in DOMAIN tasks
        PROVE  /\ tasks[t].pc \in ToSet(Stages) \cup {"reread", "over"} /\ tasks[t].focus \in Foci
               /\ tasks[t].attempt \in 1 .. MaxAttempts
               /\ tasks[t].ended \in {"no", "returned", "empty", "failed", "broken", "stopped"}
               /\ runs[t].status \in {"running", "complete", "failed"}
               /\ stageRows[t] \in [ToSet(Stages) -> {Unset, "complete", "failed"}]
    <3>1. tasks[t] \in Task /\ runs[t] \in RunRow /\ stageRows[t] \in StageRow
      BY AtWorkIs
    <3> QED
      BY <3>1, StagesInOrder DEF Task, RunRow, StageRow, Ends
  <2>2. \A b \in DOMAIN table : table[b].cited \subseteq Stories /\ table[b].by \in DOMAIN tasks
    <3>1. \A b \in DOMAIN table : table[b] \in Briefing /\ table[b].by \in DOMAIN tasks
      BY <1>1 DEF MakingTyped
    <3> QED
      BY <3>1 DEF Briefing
  <2> QED
    BY <1>1, <2>1, <2>2 DEF MakingTypeOK, MakingTyped
<1>3. RunTellsStory
  <2>1. ASSUME NEW t \in DOMAIN tasks
        PROVE  /\ runs[t].status = "complete" =>
                    tasks[t].ended = IF runs[t].briefing = 0 THEN "empty" ELSE "returned"
               /\ runs[t].briefing # 0 => runs[t].briefing \in Rows(t, "complete")
               /\ runs[t].status = "failed" =>
                    /\ tasks[t].ended = "failed" /\ stageRows[t][runs[t].stage] # "complete"
                    /\ \A k \in Order(runs[t].stage) + 1 .. Len(Stages) : stageRows[t][Stages[k]] = Unset
                    /\ Rows(t, "complete") # {} => runs[t].stage = "assembly"
               /\ runs[t].status = "running" /\ tasks[t].pc = "over" =>
                    tasks[t].ended \in {"broken", "stopped"} \/ lost > 0
               /\ Cardinality(Rows(t, "complete")) + Cardinality(Rows(t, "failed")) <= 1
               /\ tasks[t].ended \in {"empty", "broken"} => Rows(t, "failed") \cup Rows(t, "complete") = {}
    <3>1. Told(tasks[t], runs[t], stageRows[t], lost > 0)
      BY AtWorkIs
    <3>2. /\ Cardinality(Rows(t, "complete")) + Cardinality(Rows(t, "failed")) <= 1
          /\ Rows(t, "complete") # {} => tasks[t].saved # 0
          /\ Rows(t, "failed") # {} => tasks[t].ended = "failed"
          /\ tasks[t].saved # 0 => tasks[t].saved \in Rows(t, "complete")
      BY RowsAreFew
    <3>3. Len(Stages) = 5
      BY StagesInOrder
    <3> QED
      BY <3>1, <3>2, <3>3 DEF Told
  <2> QED
    BY <2>1 DEF RunTellsStory
<1>4. BriefingsAreGrounded
  <2>1. ASSUME NEW b \in DOMAIN table
        PROVE  /\ table[b].cites \cup table[b].worth = table[b].cited
               /\ table[b].cited \subseteq ToSet(tasks[table[b].by].found)
               /\ \A seen \in Sights :
                    LET sight == ShownBriefing(b, seen)
                    IN sight.articles = sight.cites \cup sight.worth /\ sight.articles \subseteq seen
    <3>1. Standing(b)
      BY DEF MakingGood
    <3> QED
      BY <3>1 DEF Standing, ShownBriefing, CitedArticles
  <2> QED
    BY <2>1 DEF BriefingsAreGrounded
<1>5. OneInTenMinutes
  <2>1. ASSUME NEW b \in newlyMade, NEW c \in newlyMade, b < c, table[b].status = "complete",
               table[c].status = "complete", table[b].focus = table[c].focus
        PROVE  tasks[table[c].by].before < b
    <3>1. c \in DOMAIN table /\ table[c].by \in DOMAIN tasks
      BY <1>1 DEF MakingTyped
    <3>2. Standing(c) /\ Newly(table[c].by)
      BY <3>1 DEF MakingGood
    <3> QED
      BY <2>1, <3>2 DEF Standing, Newly
  <2> QED
    BY <2>1 DEF OneInTenMinutes
<1>6. DraftedByTheme
  <2>1. ASSUME NEW t \in DOMAIN tasks, tasks[t].pc = "drafting" PROVE Themed(tasks[t].focus, tasks[t].found)
    BY <2>1, AtWorkIs DEF Drafted
  <2> QED
    BY <2>1 DEF DraftedByTheme, Stage, Themed, Ranks
<1> QED
  BY <1>2, <1>3, <1>4, <1>5, <1>6 DEF MakingInv

\* However the steps of overlapping requests fall and fail, the rows of each tell what
\* became of it, a briefing cites what its request had found, in ten minutes one focus
\* gets one but for requests that overlap, and what is drafted is in the order of the
\* themes with nothing lost (briefings/service.py).
THEOREM BriefingsAreTold == MakingSpec => []MakingInv
<1> QED
  BY MakingInitGood, MakingStepGood, MakingParts, PTL DEF MakingSpec
=============================================================================
