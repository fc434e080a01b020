------------------------- MODULE ArticleJobs_proofs -------------------------
(* Proofs about the store of articles, about the jobs that bring articles   *)
(* in and tell readers of them, which overlap, stop half way and are        *)
(* repeated, and about what a reader does with an article, over any number  *)
(* of connections.                                                          *)
EXTENDS MCArticles, FiniteSetTheorems, TLAPS

(***************************************************************************)
(* The library: any addresses, sources and processes that ingest.          *)
(***************************************************************************)

-----------------------------------------------------------------------------
(* The inductive invariant                                                 *)

Present == shelf \cup UNION {staged[p] : p \in Ingestors}

\* A transaction's rows are its own.
StagedApart ==
  \A p \in Ingestors :
    /\ staged[p] \cap shelf = {}
    /\ \A q \in Ingestors \ {p} : staged[p] \cap staged[q] = {}

\* No two rows have one URL, whether committed or not.
UrlsApart == \A i, j \in Present : art[i].url = art[j].url => i = j

\* What a row stands under is older, and may be shown to whoever reads the row.
StandsUnder(i) ==
  art[i].canon # None =>
    art[i].canon < i /\ MayStandFor(art[art[i].canon].feed, art[i].feed)

\* A committed duplicate has a committed original: what a transaction sees of
\* others is committed, so a rollback takes no original away.
OriginalsStay ==
  /\ \A i \in Present : StandsUnder(i)
  /\ \A i \in shelf : art[i].canon \in shelf \cup {None}
  /\ \A p \in Ingestors : \A i \in staged[p] : art[i].canon \in shelf \cup staged[p] \cup {None}

\* The pairs to be merged were found among committed articles.  One of them may
\* be gone since, but its identifier is never handed out again.
PairFits(pr) ==
  /\ pr \in Ids \X Ids /\ pr[2] < pr[1] /\ pr[1] <= lastId
  /\ \A p \in Ingestors : pr[1] \notin staged[p] /\ pr[2] \notin staged[p]
  /\ {pr[1], pr[2]} \subseteq shelf => MayStandFor(art[pr[2]].feed, art[pr[1]].feed)
PairsFit == \A pr \in pairs : PairFits(pr)

LibraryIInv == LibraryTypeOK /\ StagedApart /\ UrlsApart /\ OriginalsStay /\ PairsFit

-----------------------------------------------------------------------------

\* A set of natural numbers that is not empty has a least member.
LEMMA LeastNatural ==
  ASSUME NEW S \in SUBSET Nat, S # {}
  PROVE  \E x \in S : \A y \in S : x <= y
<1> DEFINE R == {ss \in Nat \X Nat : ss[1] < ss[2]}
<1>1. IsWellFoundedOn(R, Nat)
  BY NatLessThanWellFounded, Zenon DEF OpToRel
<1>2. PICK x \in S : \A y \in S : <<y, x>> \notin R
  BY <1>1, WFMin
<1>3. \A y \in S : ~(y < x)
  BY <1>2
<1> QED
  BY <1>3

\* A set of natural numbers that is bounded has a greatest member.
LEMMA GreatestNatural ==
  ASSUME NEW n \in Nat, NEW S \in SUBSET (0 .. n), S # {}
  PROVE  \E x \in S : \A y \in S : y <= x
<1> DEFINE T == {n - x : x \in S}
<1>1. PICK y \in T : \A z \in T : y <= z
  <2>1. \A x \in S : n - x \in Nat
    OBVIOUS
  <2>2. T \in SUBSET Nat /\ T # {}
    BY <2>1
  <2> HIDE DEF T
  <2> QED
    BY <2>2, LeastNatural
<1>2. PICK x \in S : y = n - x
  OBVIOUS
<1>3. \A z \in S : n - x <= n - z
  BY <1>1, <1>2
<1> QED
  BY <1>3

LEMMA BlankType == Blank \in Article
<1>1. (CHOOSE u \in Urls : TRUE) \in Urls
  BY LibraryAssumption
<1> QED
  BY <1>1, LibraryAssumption DEF Blank, Article, None

\* Rows that are taken back leave nothing, and the others as they are.
LEMMA WithoutType ==
  ASSUME art \in [Ids -> Article], NEW S
  PROVE  /\ Without(S) \in [Ids -> Article]
         /\ \A i \in Ids \ S : Without(S)[i] = art[i]
BY BlankType DEF Without

\* The article that a new one is stored under is one of those it was looked for in.
LEMMA CanonicalFound ==
  ASSUME LibraryTypeOK, NEW p \in Ingestors, NEW f \in Feeds, NEW u \in Urls,
         FindCanonical(p, f, u) # None
  PROVE  /\ FindCanonical(p, f, u) \in shelf \cup staged[p]
         /\ FindCanonical(p, f, u) \in 1 .. lastId
         /\ MayStandFor(art[FindCanonical(p, f, u)].feed, f)
<1> DEFINE C == Candidates(p, f, u)
<1>1. C # {} /\ FindCanonical(p, f, u) = Latest(C)
  BY DEF FindCanonical
<1>2. shelf \cup staged[p] \subseteq 1 .. lastId /\ lastId \in Nat
  BY LibraryAssumption DEF LibraryTypeOK
<1>3. C \in SUBSET (0 .. lastId)
  BY <1>2 DEF Candidates
<1>4. \E i \in C : \A j \in C : j <= i
  <2> HIDE DEF C
  <2> QED
    BY <1>1, <1>2, <1>3, GreatestNatural
<1>5. Latest(C) \in C
  BY <1>4 DEF Latest
<1> QED
  BY <1>1, <1>2, <1>5 DEF Candidates

LEMMA NewArticleType ==
  ASSUME NEW u \in Urls, NEW f \in Feeds, NEW c \in Ids \cup {None}
  PROVE  NewArticle(u, f, c) \in Article
BY DEF NewArticle, Article

LEMMA LibraryInitInv == LibraryInit => LibraryIInv
<1> SUFFICES ASSUME LibraryInit PROVE LibraryIInv
  OBVIOUS
<1> QED
  BY BlankType, LibraryAssumption
  DEF LibraryInit, LibraryIInv, LibraryTypeOK, StagedApart, UrlsApart, Present, OriginalsStay, PairsFit

\* A row that is inserted with the next identifier, in a transaction or at once.
LEMMA RowAdded ==
  ASSUME LibraryIInv, NEW u \in Urls, NEW f \in Feeds, NEW c \in Ids \cup {None},
         NEW n \in Ids, n = lastId + 1, lastId' = n,
         u \notin OnShelf, \A q \in Ingestors : u \notin HeldBy(q),
         art' = [art EXCEPT ![n] = NewArticle(u, f, c)],
         UNCHANGED <<pairs, sweep, kept>>,
         NEW among \in SUBSET Present,
         c # None => c \in among /\ MayStandFor(art[c].feed, f),
         \/ /\ shelf' = shelf \cup {n} /\ UNCHANGED staged
            /\ among = shelf
         \/ \E p \in Ingestors :
               /\ staged' = [staged EXCEPT ![p] = @ \cup {n}] /\ UNCHANGED shelf
               /\ among = shelf \cup staged[p],
         ingest' \in [Ingestors -> Feeds \cup {NoRun, Between}]
  PROVE  LibraryIInv'
<1>1. /\ Present \subseteq 1 .. lastId /\ Present \subseteq Ids
      /\ lastId \in Nat /\ n \notin Present
  BY LibraryAssumption DEF LibraryIInv, LibraryTypeOK, Present, Ids
<1>2. /\ art'[n] = NewArticle(u, f, c)
      /\ \A i \in Ids \ {n} : art'[i] = art[i]
      /\ art' \in [Ids -> Article]
  BY <1>1, NewArticleType DEF LibraryIInv, LibraryTypeOK
<1>3. LibraryTypeOK'
  <2>1. shelf' \subseteq 1 .. lastId' /\ kept' \subseteq shelf' /\ lastId' \in 0 .. MaxId
    BY <1>1, LibraryAssumption DEF LibraryIInv, LibraryTypeOK, Ids
  <2>2. staged' \in [Ingestors -> SUBSET (1 .. lastId')]
    BY <1>1 DEF LibraryIInv, LibraryTypeOK
  <2> QED
    BY <1>2, <2>1, <2>2 DEF LibraryIInv, LibraryTypeOK
<1>4. StagedApart'
  BY <1>1 DEF LibraryIInv, LibraryTypeOK, StagedApart, Present
<1>5. UrlsApart'
  <2>1. Present' = Present \cup {n}
    BY <1>1 DEF Present, LibraryIInv, LibraryTypeOK
  <2>2. \A i \in Present : art'[i].url = art[i].url /\ art[i].url # u
    BY <1>1, <1>2 DEF Present, OnShelf, HeldBy, LibraryIInv, LibraryTypeOK, Ids
  <2> QED
    BY <2>1, <2>2, <1>2 DEF UrlsApart, LibraryIInv, NewArticle
<1>6. OriginalsStay'
  <2>1. Present' = Present \cup {n}
    BY <1>1 DEF Present, LibraryIInv, LibraryTypeOK
  <2>2. ASSUME NEW i \in Present PROVE StandsUnder(i)' /\ art'[i].canon = art[i].canon
    <3>1. art'[i] = art[i] /\ StandsUnder(i) /\ i \in Ids
      BY <1>1, <1>2, <2>2 DEF OriginalsStay, LibraryIInv
    <3>2. art[i].canon # None => art[i].canon \in Present
      BY DEF OriginalsStay, LibraryIInv, Present
    <3> QED
      BY <3>1, <3>2, <1>1, <1>2 DEF StandsUnder, Ids
  <2>3. StandsUnder(n)'
    <3>1. art'[n].canon = c /\ art'[n].feed = f
      BY <1>2 DEF NewArticle
    <3>2. c # None => c \in Present /\ c < n /\ art'[c] = art[c]
      BY <1>1, <1>2
    <3> QED
      BY <3>1, <3>2 DEF StandsUnder
  <2>4. \A i \in Present' : StandsUnder(i)'
    BY <2>1, <2>2, <2>3
  <2>5. art'[n].canon = c
    BY <1>2 DEF NewArticle
  <2>6. \A i \in shelf' : art'[i].canon \in shelf' \cup {None}
    BY <1>1, <2>2, <2>5 DEF OriginalsStay, LibraryIInv, Present
  <2>7. \A p \in Ingestors : \A i \in staged'[p] : art'[i].canon \in shelf' \cup staged'[p] \cup {None}
    BY <1>1, <2>2, <2>5 DEF OriginalsStay, LibraryIInv, Present, LibraryTypeOK
  <2> QED
    BY <2>4, <2>6, <2>7 DEF OriginalsStay
<1>7. PairsFit'
  <2>1. ASSUME NEW pr \in pairs PROVE PairFits(pr)'
    <3>1. PairFits(pr) /\ pr[1] \in Ids \ {n} /\ pr[2] \in Ids \ {n}
      BY <1>1, LibraryAssumption DEF LibraryIInv, PairsFit, PairFits, Ids
    <3>2. \A p \in Ingestors : pr[1] \notin staged'[p] /\ pr[2] \notin staged'[p]
      BY <3>1, <1>1 DEF PairFits, LibraryIInv, LibraryTypeOK
    <3>3. {pr[1], pr[2]} \subseteq shelf' => {pr[1], pr[2]} \subseteq shelf
      BY <3>1
    <3>4. art'[pr[1]] = art[pr[1]] /\ art'[pr[2]] = art[pr[2]]
      BY <1>2, <3>1
    <3> QED
      BY <1>1, <3>1, <3>2, <3>3, <3>4, LibraryAssumption DEF PairFits, Ids
  <2> QED
    BY <2>1 DEF PairsFit
<1> QED
  BY <1>3, <1>4, <1>5, <1>6, <1>7 DEF LibraryIInv

\* No row is added and those that stay keep their URL and source: what is left
\* to show is where their originals are.
LEMMA RowsStay ==
  ASSUME LibraryIInv, LibraryTypeOK', lastId' = lastId,
         Present' \subseteq Present,
         \A p \in Ingestors : staged'[p] \subseteq staged[p] /\ staged'[p] \cap shelf' = {},
         \A i \in Present' : art'[i].url = art[i].url /\ art'[i].feed = art[i].feed,
         \A i \in Present' :
           \/ art'[i].canon = art[i].canon
           \/ art'[i].canon < i /\ MayStandFor(art[art'[i].canon].feed, art[i].feed),
         \A i \in shelf' : art'[i].canon \in shelf' \cup {None},
         \A p \in Ingestors : \A i \in staged'[p] : art'[i].canon \in shelf' \cup staged'[p] \cup {None},
         \A pr \in pairs' \ pairs : PairFits(pr)'
  PROVE  LibraryIInv'
<1>1. StagedApart'
  BY DEF LibraryIInv, StagedApart
<1>2. UrlsApart'
  BY DEF LibraryIInv, UrlsApart
<1>3. ASSUME NEW i \in Present' PROVE StandsUnder(i)'
  <2>1. art'[i].canon # None => art'[i].canon \in Present'
    BY <1>3 DEF Present
  <2>2. StandsUnder(i)
    BY <1>3 DEF LibraryIInv, OriginalsStay
  <2> QED
    BY <1>3, <2>1, <2>2 DEF StandsUnder
<1>4. OriginalsStay'
  BY <1>3 DEF OriginalsStay
<1>5. ASSUME NEW pr \in pairs PROVE PairFits(pr)'
  <2>1. PairFits(pr)
    BY DEF LibraryIInv, PairsFit
  <2>2. \A p \in Ingestors : pr[1] \notin staged'[p] /\ pr[2] \notin staged'[p]
    BY <2>1 DEF PairFits
  <2>3. {pr[1], pr[2]} \subseteq shelf' => {pr[1], pr[2]} \subseteq shelf \cap Present'
    BY <2>1 DEF PairFits, Present
  <2> QED
    BY <2>1, <2>2, <2>3 DEF PairFits, MayStandFor
<1>6. PairsFit'
  BY <1>5 DEF PairsFit
<1> QED
  BY <1>1, <1>2, <1>4, <1>6 DEF LibraryIInv

\* Steps that leave the rows alone.
LEMMA RowsUntouched ==
  ASSUME LibraryIInv, LibraryTypeOK', UNCHANGED <<shelf, art, lastId, staged>>,
         \A pr \in pairs' \ pairs : PairFits(pr)'
  PROVE  LibraryIInv'
<1>1. Present' = Present
  BY DEF Present
<1>2. /\ \A p \in Ingestors : staged[p] \cap shelf = {}
      /\ \A i \in shelf : art[i].canon \in shelf \cup {None}
      /\ \A p \in Ingestors : \A i \in staged[p] : art[i].canon \in shelf \cup staged[p] \cup {None}
  BY DEF LibraryIInv, StagedApart, OriginalsStay
<1> QED
  BY <1>1, <1>2, RowsStay

LEMMA LibraryStep == LibraryIInv /\ [LibraryNext]_libraryVars => LibraryIInv'
<1> SUFFICES ASSUME LibraryIInv, [LibraryNext]_libraryVars PROVE LibraryIInv'
  OBVIOUS
<1> USE DEF LibraryIInv
<1>1. LibraryTypeOK /\ Present \subseteq Ids /\ Present \subseteq 1 .. lastId /\ lastId \in Nat /\ 1 .. lastId \subseteq Ids
  BY LibraryAssumption DEF LibraryTypeOK, Present, Ids
<1>2. ASSUME NEW p \in Ingestors, StartRun(p) \/ Fetch(p) \/ FinishRun(p) PROVE LibraryIInv'
  <2>1. LibraryTypeOK' /\ UNCHANGED <<shelf, art, lastId, staged, pairs>>
    BY <1>2, <1>1 DEF StartRun, Fetch, FinishRun, LibraryTypeOK
  <2> QED
    BY <2>1, RowsUntouched
<1>3. ASSUME NEW p \in Ingestors, NEW u \in Urls, Persist(p, u) PROVE LibraryIInv'
  <2> DEFINE f == ingest[p]
  <2> DEFINE c == FindCanonical(p, f, u)
  <2>1. f \in Feeds /\ (c # None => c \in shelf \cup staged[p] /\ c \in Ids /\ MayStandFor(art[c].feed, f))
    BY <1>3, <1>1, CanonicalFound DEF Persist
  <2>2. c \in Ids \cup {None} /\ shelf \cup staged[p] \in SUBSET Present
    BY <2>1 DEF Present
  <2>3. PICK n \in Ids : n = lastId + 1
    BY <1>1, <1>3, LibraryAssumption DEF Persist, Ids
  <2>4. /\ lastId' = n /\ art' = [art EXCEPT ![n] = NewArticle(u, f, c)]
        /\ staged' = [staged EXCEPT ![p] = @ \cup {n}]
        /\ u \notin OnShelf /\ \A q \in Ingestors : u \notin HeldBy(q)
        /\ UNCHANGED <<shelf, kept, ingest, sweep, pairs>>
    BY <1>3, <2>3 DEF Persist
  <2>5. ingest' \in [Ingestors -> Feeds \cup {NoRun, Between}]
    BY <2>4 DEF LibraryTypeOK
  <2> HIDE DEF f, c
  <2> QED
    BY <2>1, <2>2, <2>3, <2>4, <2>5, RowAdded
<1>4. ASSUME NEW p \in Ingestors, CommitSource(p) PROVE LibraryIInv'
  <2>1. LibraryTypeOK'
    BY <1>4, <1>1 DEF CommitSource, LibraryTypeOK
  <2>2. Present' = Present /\ \A q \in Ingestors : staged'[q] = IF q = p THEN {} ELSE staged[q]
    BY <1>4 DEF CommitSource, Present, LibraryTypeOK
  <2>3. \A i \in shelf' : art'[i].canon \in shelf' \cup {None}
    BY <1>4 DEF CommitSource, OriginalsStay
  <2>4. \A q \in Ingestors : \A i \in staged'[q] : art'[i].canon \in shelf' \cup staged'[q] \cup {None}
    BY <1>4, <2>2 DEF CommitSource, OriginalsStay
  <2>5. \A q \in Ingestors : staged'[q] \subseteq staged[q] /\ staged'[q] \cap shelf' = {}
    BY <1>4, <2>2 DEF CommitSource, StagedApart
  <2>6. art' = art /\ lastId' = lastId /\ pairs' = pairs
    BY <1>4 DEF CommitSource
  <2> QED
    BY <2>1, <2>2, <2>3, <2>4, <2>5, <2>6, RowsStay
<1>5. ASSUME NEW p \in Ingestors, FailSource(p) \/ Restart(p) PROVE LibraryIInv'
  <2>1. \A i \in Ids \ staged[p] : /\ art'[i].url = art[i].url /\ art'[i].feed = art[i].feed
                                   /\ art'[i].canon = art[i].canon
    BY <1>5, WithoutType DEF FailSource, Restart, LibraryTypeOK, Article
  <2>2. art' \in [Ids -> Article]
    BY <1>5, WithoutType DEF FailSource, Restart, LibraryTypeOK, Article
  <2>3. LibraryTypeOK'
    BY <1>5, <1>1, <2>2 DEF FailSource, Restart, LibraryTypeOK
  <2>4. /\ \A q \in Ingestors : staged'[q] = IF q = p THEN {} ELSE staged[q]
        /\ shelf' = shelf /\ pairs' = pairs /\ lastId' = lastId
    BY <1>5 DEF FailSource, Restart, LibraryTypeOK
  <2>5. Present' \subseteq Present /\ Present' \cap staged[p] = {}
    BY <2>4 DEF Present, StagedApart
  <2>6. \A i \in Present' : i \in Ids \ staged[p]
    BY <2>5, <1>1
  <2>7. \A i \in shelf' : art'[i].canon \in shelf' \cup {None}
    BY <2>1, <2>4, <2>6 DEF OriginalsStay, Present
  <2>8. \A q \in Ingestors : \A i \in staged'[q] : art'[i].canon \in shelf' \cup staged'[q] \cup {None}
    BY <2>1, <2>4, <2>6 DEF OriginalsStay, Present
  <2>9. \A q \in Ingestors : staged'[q] \subseteq staged[q] /\ staged'[q] \cap shelf' = {}
    BY <2>4 DEF StagedApart
  <2> QED
    BY <2>1, <2>3, <2>4, <2>5, <2>6, <2>7, <2>8, <2>9, RowsStay
<1>6. ASSUME NEW u \in Urls, SaveSharedUrl(u) PROVE LibraryIInv'
  <2>1. PICK n \in Ids : n = lastId + 1
    BY <1>1, <1>6, LibraryAssumption DEF SaveSharedUrl, Ids
  <2>2. /\ lastId' = n /\ art' = [art EXCEPT ![n] = NewArticle(u, ShareTarget, None)]
        /\ shelf' = shelf \cup {n}
        /\ u \notin OnShelf /\ \A q \in Ingestors : u \notin HeldBy(q)
        /\ UNCHANGED <<staged, kept, ingest, sweep, pairs>>
    BY <1>6, <2>1 DEF SaveSharedUrl
  <2>3. ingest' \in [Ingestors -> Feeds \cup {NoRun, Between}]
    BY <2>2 DEF LibraryTypeOK
  <2>4. shelf \in SUBSET Present /\ None \in Ids \cup {None} /\ ShareTarget \in Feeds
    BY LibraryAssumption DEF Present
  <2> QED
    BY <2>1, <2>2, <2>3, <2>4, RowAdded
<1>7. ASSUME ScanDuplicates PROVE LibraryIInv'
  <2>1. UNCHANGED <<shelf, art, lastId, kept, staged, ingest, sweep>> /\ pairs' \subseteq DedupCandidates
    BY <1>7 DEF ScanDuplicates
  <2>2. ASSUME NEW pr \in DedupCandidates PROVE PairFits(pr)'
    <3>1. /\ pr \in shelf \X shelf /\ pr[2] < pr[1]
          /\ MayStandFor(art[pr[2]].feed, art[pr[1]].feed)
      BY DEF DedupCandidates
    <3>2. pr \in Ids \X Ids /\ pr[1] <= lastId
      BY <3>1, <1>1 DEF Present
    <3>3. \A p \in Ingestors : pr[1] \notin staged[p] /\ pr[2] \notin staged[p]
      BY <3>1 DEF StagedApart
    <3> QED
      BY <2>1, <3>1, <3>2, <3>3 DEF PairFits
  <2>3. LibraryTypeOK'
    BY <2>1, <2>2 DEF LibraryTypeOK, PairFits
  <2> QED
    BY <2>1, <2>2, <2>3, RowsUntouched
<1>8. ASSUME MergeDuplicates PROVE LibraryIInv'
  <2>1. PICK best \in [{pr[1] : pr \in pairs} -> {pr[2] : pr \in pairs}] :
          /\ \A d \in DOMAIN best : <<d, best[d]>> \in pairs
          /\ LET merged == {d \in DOMAIN best : d \in shelf /\ art[d].canon = None} IN
              art' = IF \E d \in merged : best[d] \notin shelf
                     THEN art
                     ELSE [i \in Ids |-> IF i \in merged
                             THEN [art[i] EXCEPT !.canon = best[i], !.state = "archived",
                                                 !.status = "archived"]
                             ELSE art[i]]
    BY <1>8 DEF MergeDuplicates
  <2> DEFINE merged == {d \in DOMAIN best : d \in shelf /\ art[d].canon = None}
  <2>2. pairs' = {} /\ UNCHANGED <<shelf, lastId, kept, staged, ingest, sweep>> /\ Present' = Present
    BY <1>8 DEF MergeDuplicates, Present
  <2>3. ASSUME NEW d \in merged, best[d] \in shelf
        PROVE  best[d] \in Ids /\ best[d] < d /\ MayStandFor(art[best[d]].feed, art[d].feed)
    BY <2>1, <2>3 DEF PairsFit, PairFits
  <2>4. ASSUME NEW i \in Ids
        PROVE  /\ art'[i] \in Article /\ art'[i].url = art[i].url /\ art'[i].feed = art[i].feed
               /\ \/ art'[i].canon = art[i].canon
                  \/ i \in merged /\ best[i] \in shelf /\ art'[i].canon = best[i]
    <3>1. art[i] \in Article
      BY DEF LibraryTypeOK
    <3>2. CASE (\E d \in merged : best[d] \notin shelf) \/ i \notin merged
      <4>1. art'[i] = art[i]
        BY <2>1, <3>2
      <4> QED
        BY <3>1, <4>1
    <3>3. CASE (\A d \in merged : best[d] \in shelf) /\ i \in merged
      <4>1. art'[i] = [art[i] EXCEPT !.canon = best[i], !.state = "archived", !.status = "archived"]
        BY <2>1, <3>3
      <4>2. best[i] \in shelf /\ best[i] \in Ids
        BY <2>3, <3>3
      <4> HIDE DEF merged
      <4> QED
        BY <3>1, <3>3, <4>1, <4>2 DEF Article
    <3> QED
      BY <3>2, <3>3
  <2>5. art' \in [Ids -> Article]
    BY <2>1, <2>4 DEF LibraryTypeOK
  <2>6. LibraryTypeOK'
    BY <2>2, <2>5 DEF LibraryTypeOK
  <2>7. \A i \in Present' :
          \/ art'[i].canon = art[i].canon
          \/ art'[i].canon < i /\ MayStandFor(art[art'[i].canon].feed, art[i].feed)
    <3> HIDE DEF merged
    <3> TAKE i \in Present'
    <3>1. i \in Ids
      BY <1>1, <2>2
    <3>2. CASE i \in merged /\ best[i] \in shelf /\ art'[i].canon = best[i]
      BY <2>3, <3>2
    <3>3. CASE art'[i].canon = art[i].canon
      BY <3>3
    <3>4. \/ art'[i].canon = art[i].canon
          \/ i \in merged /\ best[i] \in shelf /\ art'[i].canon = best[i]
      BY <2>4, <3>1
    <3> QED
      BY <3>2, <3>3, <3>4
  <2>8. \A i \in shelf' : art'[i].canon \in shelf' \cup {None}
    BY <1>1, <2>2, <2>4 DEF OriginalsStay, Present
  <2>9. \A p \in Ingestors : \A i \in staged'[p] : art'[i].canon \in shelf' \cup staged'[p] \cup {None}
    BY <1>1, <2>2, <2>4 DEF OriginalsStay, Present
  <2>10. \A p \in Ingestors : staged'[p] \subseteq staged[p] /\ staged'[p] \cap shelf' = {}
    BY <2>2 DEF StagedApart
  <2> HIDE DEF merged
  <2> QED
    BY <1>1, <2>2, <2>4, <2>6, <2>7, <2>8, <2>9, <2>10, RowsStay
<1>9. ASSUME PickOld PROVE LibraryIInv'
  <2>1. LibraryTypeOK' /\ UNCHANGED <<shelf, art, lastId, staged, pairs>>
    BY <1>9, <1>1 DEF PickOld, LibraryTypeOK, Eligible, Present
  <2> QED
    BY <2>1, RowsUntouched
<1>10. ASSUME DeleteOld PROVE LibraryIInv'
  <2> DEFINE gone == {i \in sweep \cap Eligible : ~Referenced(i)}
  <2>1. shelf' = shelf \ gone /\ art' = Without(gone) /\ sweep' = {}
        /\ UNCHANGED <<lastId, kept, staged, ingest, pairs>>
    BY <1>10 DEF DeleteOld
  <2>2. /\ \A j \in shelf : art[j].canon \notin gone
        /\ \A p \in Ingestors : \A j \in staged[p] : art[j].canon \notin gone
        /\ gone \subseteq shelf /\ gone \cap kept = {}
    BY DEF Eligible, Protected, Referenced
  <2> HIDE DEF gone
  <2>3. art' \in [Ids -> Article] /\ \A i \in Ids \ gone : art'[i] = art[i]
    BY <2>1, WithoutType DEF LibraryTypeOK
  <2>4. LibraryTypeOK'
    BY <2>1, <2>2, <2>3 DEF LibraryTypeOK
  <2>5. Present' \subseteq Present /\ Present' \cap gone = {} /\ Present' \subseteq Ids \ gone
    BY <1>1, <2>1, <2>2 DEF Present, StagedApart
  <2>6. \A i \in shelf' : art'[i].canon \in shelf' \cup {None}
    BY <2>1, <2>2, <2>3, <2>5 DEF OriginalsStay, Present
  <2>7. \A p \in Ingestors : \A i \in staged'[p] : art'[i].canon \in shelf' \cup staged'[p] \cup {None}
    BY <2>1, <2>2, <2>3, <2>5 DEF OriginalsStay, Present
  <2>8. \A p \in Ingestors : staged'[p] \subseteq staged[p] /\ staged'[p] \cap shelf' = {}
    BY <2>1 DEF StagedApart
  <2> QED
    BY <2>1, <2>3, <2>4, <2>5, <2>6, <2>7, <2>8, RowsStay
<1>11. ASSUME NEW i \in Ids, Keep(i) PROVE LibraryIInv'
  <2>1. LibraryTypeOK' /\ UNCHANGED <<shelf, art, lastId, staged, pairs>>
    BY <1>11 DEF Keep, LibraryTypeOK
  <2> QED
    BY <2>1, RowsUntouched
<1>12. ASSUME NEW i \in Ids, Age(i) PROVE LibraryIInv'
  <2>1. UNCHANGED <<shelf, lastId, kept, staged, ingest, sweep, pairs>> /\ Present' = Present
    BY <1>12 DEF Age, Present
  <2>2. art' \in [Ids -> Article]
    BY <1>12 DEF Age, LibraryTypeOK, Article
  <2>3. \A j \in Ids : /\ art'[j].url = art[j].url /\ art'[j].feed = art[j].feed
                       /\ art'[j].canon = art[j].canon
    BY <1>12 DEF Age, LibraryTypeOK, Article
  <2>4. LibraryTypeOK'
    BY <2>1, <2>2 DEF LibraryTypeOK
  <2>5. \A j \in shelf' : art'[j].canon \in shelf' \cup {None}
    BY <1>1, <2>1, <2>3 DEF OriginalsStay, Present
  <2>6. \A p \in Ingestors : \A j \in staged'[p] : art'[j].canon \in shelf' \cup staged'[p] \cup {None}
    BY <1>1, <2>1, <2>3 DEF OriginalsStay, Present
  <2>7. \A p \in Ingestors : staged'[p] \subseteq staged[p] /\ staged'[p] \cap shelf' = {}
    BY <2>1 DEF StagedApart
  <2> QED
    BY <1>1, <2>1, <2>3, <2>4, <2>5, <2>6, <2>7, RowsStay
<1>13. CASE UNCHANGED libraryVars
  <2>1. LibraryTypeOK' /\ UNCHANGED <<shelf, art, lastId, staged, pairs>>
    BY <1>13 DEF libraryVars, LibraryTypeOK
  <2> QED
    BY <2>1, RowsUntouched
<1> QED
  BY <1>2, <1>3, <1>4, <1>5, <1>6, <1>7, <1>8, <1>9, <1>10, <1>11, <1>12, <1>13 DEF LibraryNext

LEMMA LibraryInvariant == LibrarySpec => []LibraryIInv
BY LibraryInitInv, LibraryStep, PTL DEF LibrarySpec

\* However many processes ingest, share, fold duplicates together and retain: a
\* duplicate has an older original that is still there and that its readers may
\* see, and no URL is on the shelf twice.
THEOREM LibraryHolds == LibrarySpec => []LibraryInv
<1>1. LibraryIInv => LibraryInv
  BY DEF LibraryIInv, LibraryInv, DuplicateHasOriginal, OneArticlePerUrl, OriginalsStay, StandsUnder,
         UrlsApart, Present
<1> QED
  BY <1>1, LibraryInvariant, PTL

\* The rows, the transactions and what the passes have picked keep their types.
THEOREM LibraryTyped == LibrarySpec => []LibraryTypeOK
BY LibraryInvariant, PTL DEF LibraryIInv

\* Retention deletes nothing that a reader keeps, though the reader kept it after
\* the batch was picked.
THEOREM KeptAreNeverDeleted == LibrarySpec => KeptStays
<1>1. LibraryIInv /\ [LibraryNext]_libraryVars => [\A i \in kept : i \in shelf']_libraryVars
  <2> SUFFICES ASSUME LibraryIInv, LibraryNext PROVE \A i \in kept : i \in shelf'
    OBVIOUS
  <2>1. kept \subseteq shelf
    BY DEF LibraryIInv, LibraryTypeOK
  <2>2. CASE DeleteOld
    BY <2>1, <2>2 DEF DeleteOld, Eligible, Protected
  <2>3. CASE ~DeleteOld
    BY <2>1, <2>3 DEF LibraryNext, StartRun, Fetch, Persist, CommitSource, FailSource, FinishRun, Restart,
       SaveSharedUrl, ScanDuplicates, MergeDuplicates, PickOld, Keep, Age
  <2> QED
    BY <2>2, <2>3
<1> QED
  BY <1>1, LibraryInvariant, PTL DEF LibrarySpec, KeptStays

(***************************************************************************)
(* The poll of a mailbox: any messages and any number of polls.            *)
(***************************************************************************)

-----------------------------------------------------------------------------
(* The inductive invariant                                                 *)

PollType ==
  [at: PollPhases, unread: SUBSET Messages, current: Messages \cup {NoMessage},
   held: SUBSET MessageIds, clean: BOOLEAN]
PollsTyped == poll \in [Pollers -> PollType]

\* A poll has a message only while it works on it, and an article that the
\* message stands for once it has handled it.
InHand(p) ==
  /\ poll[p].at \in {"idle", "listed"} => poll[p].current = NoMessage
  /\ poll[p].at \in {"fetched", "handled"} => poll[p].current \in Messages
  /\ poll[p].at = "idle" => poll[p].held = {}
  /\ poll[p].at = "handled" /\ poll[p].current \in Addressed =>
       MessageIdOf[poll[p].current] \in stored \cup poll[p].held

\* Every message that is flagged is in somebody's hands, has its article, or is
\* one whose handling or batch has failed.
Accounted(m) ==
  m \in Addressed \cap seen =>
    \/ MessageIdOf[m] \in stored
    \/ m \in troubled
    \/ \E p \in Pollers : MessageIdOf[m] \in poll[p].held \/ m = poll[p].current

PollInv ==
  /\ PollsTyped /\ stored \subseteq MessageIds
  /\ \A p \in Pollers : InHand(p)
  /\ \A m \in Messages : Accounted(m)

LEMMA PollInitInv == NewsletterInit => PollInv
<1> SUFFICES ASSUME NewsletterInit PROVE PollInv
  OBVIOUS
<1>1. IdlePoll \in PollType
  BY DEF IdlePoll, PollType, PollPhases
<1> QED
  BY <1>1 DEF NewsletterInit, PollInv, PollsTyped, InHand, Accounted, IdlePoll

\* One poll goes on to next, and nobody else does anything: what has to be
\* shown of next, of what is stored and of the messages it lets go.
LEMMA PollGoesOn ==
  ASSUME PollInv, NEW p \in Pollers, NEW next \in PollType,
         poll' = [poll EXCEPT ![p] = next],
         stored \subseteq stored', stored' \subseteq MessageIds, troubled \subseteq troubled',
         InHand(p)',
         \A m \in seen' \ seen : m = next.current \/ (m \in Addressed => Accounted(m)'),
         \A m \in Messages \cap Addressed :
           (MessageIdOf[m] \in poll[p].held \/ m = poll[p].current) => Accounted(m)'
  PROVE  PollInv'
<1>1. PollsTyped' /\ poll'[p] = next /\ \A o \in Pollers \ {p} : poll'[o] = poll[o]
  BY DEF PollInv, PollsTyped
<1>2. ASSUME NEW o \in Pollers \ {p}
      PROVE  InHand(o)'
  BY <1>1 DEF PollInv, InHand
<1>3. ASSUME NEW m \in Messages
      PROVE  Accounted(m)'
  <2>1. CASE m \notin Addressed \cap seen'
    BY <2>1 DEF Accounted
  <2>2. CASE m \in Addressed /\ m \in seen' \ seen
    BY <1>1, <2>2 DEF Accounted
  <2>3. CASE m \in Addressed \cap seen
    <3>1. CASE MessageIdOf[m] \in stored \/ m \in troubled
      BY <3>1 DEF Accounted
    <3>2. CASE \E o \in Pollers : MessageIdOf[m] \in poll[o].held \/ m = poll[o].current
      BY <1>1, <2>3, <3>2 DEF Accounted
    <3> QED
      BY <2>3, <3>1, <3>2 DEF PollInv, Accounted
  <2> QED
    BY <2>1, <2>2, <2>3
<1> QED
  BY <1>1, <1>2, <1>3 DEF PollInv

\* A poll begins with no message in hand, and goes on to each of its messages.
LEMMA PollBegins ==
  ASSUME PollInv, NEW p \in Pollers, ListUnread(p) \/ \E m \in Messages : FetchMessage(p, m)
  PROVE  PollInv'
<1> USE NewsletterAssumption DEF PollType, PollPhases
<1>0. poll[p] \in PollType /\ InHand(p) /\ poll \in [Pollers -> PollType]
      /\ stored \subseteq MessageIds
  BY DEF PollInv, PollsTyped
<1>1. CASE ListUnread(p)
  <2> DEFINE next == [IdlePoll EXCEPT !.at = "listed", !.unread = Messages \ seen]
  <2>1. next \in PollType /\ next.at = "listed" /\ next.current = NoMessage /\ next.held = {}
    BY DEF IdlePoll
  <2>2. poll' = [poll EXCEPT ![p] = next] /\ UNCHANGED <<seen, stored, troubled>>
    BY <1>1 DEF ListUnread
  <2>3. InHand(p)' /\ poll[p].held = {} /\ poll[p].current = NoMessage
    BY <1>0, <1>1, <2>1, <2>2 DEF ListUnread, InHand
  <2> HIDE DEF next
  <2> QED
    BY <1>0, <2>1, <2>2, <2>3, PollGoesOn
<1>2. ASSUME NEW m \in Messages, FetchMessage(p, m)
      PROVE  PollInv'
  <2>0. poll[p].current = NoMessage /\ poll[p].at = "listed" /\ UNCHANGED <<stored, troubled>>
    BY <1>0, <1>2 DEF FetchMessage, InHand
  <2>1. CASE /\ poll' = [poll EXCEPT ![p].at = "fetched", ![p].current = m, ![p].unread = @ \ {m}]
             /\ seen' = IF FetchFlags THEN seen \cup {m} ELSE seen
    <3> DEFINE next == [poll[p] EXCEPT !.at = "fetched", !.current = m, !.unread = @ \ {m}]
    <3>1. /\ next \in PollType /\ next.at = "fetched" /\ next.current = m
          /\ next.held = poll[p].held
      BY <1>0
    <3>2. poll' = [poll EXCEPT ![p] = next]
      BY <2>1
    <3> HIDE DEF next
    <3>3. poll'[p] = next
      BY <1>0, <3>2
    <3>4. InHand(p)'
      BY <3>1, <3>3 DEF InHand
    <3>5. ASSUME NEW n \in Messages \cap Addressed,
                 MessageIdOf[n] \in poll[p].held \/ n = poll[p].current
          PROVE  Accounted(n)'
      BY <2>0, <3>1, <3>3, <3>5 DEF Accounted
    <3>6. \A n \in seen' \ seen : n = next.current
      BY <2>1, <3>1
    <3> QED
      BY <1>0, <2>0, <3>1, <3>2, <3>4, <3>5, <3>6, PollGoesOn
  <2>2. CASE /\ poll' = [poll EXCEPT ![p].unread = @ \ {m}]
             /\ UNCHANGED seen
    <3> DEFINE next == [poll[p] EXCEPT !.unread = @ \ {m}]
    <3>1. /\ next \in PollType /\ next.at = poll[p].at /\ next.current = poll[p].current
          /\ next.held = poll[p].held
      BY <1>0
    <3>2. poll' = [poll EXCEPT ![p] = next]
      BY <2>2
    <3> HIDE DEF next
    <3>3. poll'[p] = next
      BY <1>0, <3>2
    <3>4. InHand(p)'
      BY <1>0, <2>0, <3>1, <3>3 DEF InHand
    <3>5. ASSUME NEW n \in Messages \cap Addressed,
                 MessageIdOf[n] \in poll[p].held \/ n = poll[p].current
          PROVE  Accounted(n)'
      BY <3>1, <3>3, <3>5 DEF Accounted
    <3> QED
      BY <1>0, <2>0, <2>2, <3>1, <3>2, <3>4, <3>5, PollGoesOn
  <2> QED
    BY <1>2, <2>1, <2>2 DEF FetchMessage
<1> QED
  BY <1>1, <1>2

\* A handled message is stored with its batch, and let go when it is flagged; a
\* message whose handling fails is let go as troubled.
LEMMA PollHandles ==
  ASSUME PollInv, NEW p \in Pollers, ProcessMessage(p) \/ ProcessFails(p) \/ MarkSeen(p)
  PROVE  PollInv'
<1> USE NewsletterAssumption DEF PollType, PollPhases
<1>0. poll[p] \in PollType /\ InHand(p) /\ poll \in [Pollers -> PollType]
      /\ stored \subseteq MessageIds
  BY DEF PollInv, PollsTyped
<1>1. CASE ProcessMessage(p)
  <2> DEFINE id == MessageIdOf[poll[p].current]
             held == IF poll[p].current \in Addressed /\ id \notin stored
                     THEN poll[p].held \cup {id} ELSE poll[p].held
             next == [poll[p] EXCEPT !.at = "handled", !.held = held]
  <2>1. poll[p].current \in Messages /\ id \in MessageIds
    BY <1>0, <1>1 DEF ProcessMessage, InHand
  <2>2. held \in SUBSET MessageIds /\ poll[p].held \subseteq held
        /\ (poll[p].current \in Addressed => id \in stored \cup held)
    BY <1>0, <2>1
  <2>3. poll' = [poll EXCEPT ![p] = next] /\ UNCHANGED <<seen, stored, troubled>>
    BY <1>0, <1>1 DEF ProcessMessage
  <2> HIDE DEF held
  <2>4. next \in PollType /\ next.at = "handled" /\ next.held = held
        /\ next.current = poll[p].current
    BY <1>0, <2>2
  <2> HIDE DEF next
  <2>5. poll'[p] = next
    BY <1>0, <2>3
  <2>6. InHand(p)'
    BY <2>1, <2>2, <2>3, <2>4, <2>5 DEF InHand
  <2>7. ASSUME NEW n \in Messages \cap Addressed,
               MessageIdOf[n] \in poll[p].held \/ n = poll[p].current
        PROVE  Accounted(n)'
    BY <2>2, <2>4, <2>5, <2>7 DEF Accounted
  <2> QED
    BY <1>0, <2>3, <2>4, <2>6, <2>7, PollGoesOn
<1>2. CASE ProcessFails(p)
  <2>1. PICK clean \in BOOLEAN :
          poll' = [poll EXCEPT ![p].at = "listed", ![p].current = NoMessage, ![p].clean = clean]
    BY <1>0, <1>2 DEF ProcessFails
  <2> DEFINE next == [poll[p] EXCEPT !.at = "listed", !.current = NoMessage, !.clean = clean]
  <2>2. next \in PollType /\ next.at = "listed" /\ next.current = NoMessage
        /\ next.held = poll[p].held
    BY <1>0
  <2>3. poll' = [poll EXCEPT ![p] = next]
    BY <2>1
  <2>4. troubled' = troubled \cup {poll[p].current} /\ UNCHANGED <<seen, stored>>
    BY <1>2 DEF ProcessFails
  <2> HIDE DEF next
  <2>5. poll'[p] = next
    BY <1>0, <2>3
  <2>6. InHand(p)'
    BY <2>2, <2>5 DEF InHand
  <2>7. ASSUME NEW n \in Messages \cap Addressed,
               MessageIdOf[n] \in poll[p].held \/ n = poll[p].current
        PROVE  Accounted(n)'
    BY <2>2, <2>4, <2>5, <2>7 DEF Accounted
  <2> QED
    BY <1>0, <2>2, <2>3, <2>4, <2>6, <2>7, PollGoesOn
<1>3. CASE MarkSeen(p)
  <2> DEFINE next == [poll[p] EXCEPT !.at = "listed", !.current = NoMessage]
  <2>1. next \in PollType /\ next.at = "listed" /\ next.current = NoMessage
        /\ next.held = poll[p].held
    BY <1>0
  <2>2. poll' = [poll EXCEPT ![p] = next] /\ UNCHANGED <<stored, troubled>>
    BY <1>3 DEF MarkSeen
  <2> HIDE DEF next
  <2>3. poll'[p] = next
    BY <1>0, <2>2
  <2>4. InHand(p)'
    BY <2>1, <2>3 DEF InHand
  <2>5. ASSUME NEW n \in Messages \cap Addressed,
               MessageIdOf[n] \in poll[p].held \/ n = poll[p].current
        PROVE  Accounted(n)'
    BY <1>0, <1>3, <2>1, <2>2, <2>3, <2>5 DEF Accounted, InHand, MarkSeen
  <2>6. \A n \in seen' \ seen : n = poll[p].current
    BY <1>3 DEF MarkSeen
  <2> QED
    BY <1>0, <2>1, <2>2, <2>4, <2>5, <2>6, PollGoesOn
<1> QED
  BY <1>1, <1>2, <1>3

\* The end of a batch stores what it holds, or troubles its messages.
LEMMA PollEnds ==
  ASSUME PollInv, NEW p \in Pollers, EndBatch(p) \/ LoseBatch(p)
  PROVE  PollInv'
<1>1. IdlePoll \in PollType /\ IdlePoll.at = "idle" /\ IdlePoll.current = NoMessage
      /\ IdlePoll.held = {}
  BY DEF IdlePoll, PollType, PollPhases
<1>2. poll[p].held \subseteq MessageIds /\ stored \subseteq MessageIds /\ InHand(p)
      /\ poll \in [Pollers -> PollType]
  BY DEF PollInv, PollsTyped, PollType
<1>3. poll' = [poll EXCEPT ![p] = IdlePoll] /\ UNCHANGED seen
  BY DEF EndBatch, LoseBatch
<1>4. InHand(p)'
  BY <1>1, <1>2, <1>3 DEF InHand
<1>5. stored \subseteq stored' /\ stored' \subseteq MessageIds /\ troubled \subseteq troubled'
  BY <1>2 DEF EndBatch, LoseBatch
<1>6. ASSUME NEW n \in Messages \cap Addressed,
             MessageIdOf[n] \in poll[p].held \/ n = poll[p].current
      PROVE  Accounted(n)'
  <2>1. n \in BatchOf(p) /\ (EndBatch(p) => MessageIdOf[n] \in poll[p].held)
    BY <1>2, <1>6, NewsletterAssumption DEF BatchOf, EndBatch, InHand
  <2> QED
    BY <2>1 DEF EndBatch, LoseBatch, Accounted
<1> QED
  BY <1>1, <1>3, <1>4, <1>5, <1>6, PollGoesOn

LEMMA PollAlways == NewsletterSpec => []PollInv
<1>1. PollInv /\ [NewsletterNext]_newsletterVars => PollInv'
  <2> SUFFICES ASSUME PollInv, [NewsletterNext]_newsletterVars PROVE PollInv'
    OBVIOUS
  <2>1. CASE UNCHANGED newsletterVars
    BY <2>1 DEF newsletterVars, PollInv, PollsTyped, InHand, Accounted
  <2> QED
    BY <2>1, PollBegins, PollHandles, PollEnds DEF NewsletterNext
<1> QED
  BY PollInitInv, <1>1, PTL DEF NewsletterSpec

-----------------------------------------------------------------------------
(* The theorems                                                            *)

\* newsletter_ingest.py:352: a message that is read and has no article is one
\* whose own handling or whose batch has failed.
THEOREM OnlyTroubled == NewsletterSpec => []OnlyTroubledAreLeft
<1>1. PollInv => OnlyTroubledAreLeft
  BY DEF PollInv, Accounted, OnlyTroubledAreLeft, LeftBehind, BatchOf
<1> QED
  BY PollAlways, <1>1, PTL

\* The types of the poll: only messages of the mailbox are flagged or troubled.
THEOREM PollTyped == NewsletterSpec => []NewsletterTypeOK
<1> DEFINE Marks == seen \subseteq Messages /\ troubled \subseteq Messages
<1>1. NewsletterInit => Marks
  BY DEF NewsletterInit
<1>2. PollInv /\ Marks /\ [NewsletterNext]_newsletterVars => Marks'
  <2> SUFFICES ASSUME PollInv, Marks, [NewsletterNext]_newsletterVars PROVE Marks'
    OBVIOUS
  <2>1. ASSUME NEW p \in Pollers, poll[p].at \in {"fetched", "handled"}
        PROVE  poll[p].current \in Messages
    BY <2>1 DEF PollInv, InHand
  <2>2. CASE UNCHANGED newsletterVars
    BY <2>2 DEF newsletterVars
  <2>3. ASSUME NEW p \in Pollers,
               ListUnread(p) \/ ProcessMessage(p) \/ (\E m \in Messages : FetchMessage(p, m))
        PROVE  Marks'
    BY <2>3 DEF ListUnread, ProcessMessage, FetchMessage
  <2>4. ASSUME NEW p \in Pollers, ProcessFails(p) \/ MarkSeen(p)
        PROVE  Marks'
    BY <2>1, <2>4 DEF ProcessFails, MarkSeen
  <2>5. ASSUME NEW p \in Pollers, EndBatch(p) \/ LoseBatch(p)
        PROVE  Marks'
    BY <2>5 DEF EndBatch, LoseBatch, BatchOf
  <2> QED
    BY <2>2, <2>3, <2>4, <2>5 DEF NewsletterNext
<1>3. PollInv /\ Marks => NewsletterTypeOK
  BY DEF PollInv, PollsTyped, PollType, NewsletterTypeOK
<1> QED
  BY PollAlways, <1>1, <1>2, <1>3, PTL DEF NewsletterSpec

(***************************************************************************)
(* Watchlists: any watchlists, articles and evaluations.                   *)
(***************************************************************************)

-----------------------------------------------------------------------------
(* Types                                                                   *)

\* What an evaluation holds between two steps.
Evaluation ==
  [at: EvaluationPhases, todo: SUBSET (Watchlists \X BOOLEAN),
   current: Watchlists \cup {NoWatchlist}, push: BOOLEAN, matches: SUBSET Matching]

\* While an evaluation records matches, it has a watchlist.
HasWatchlist ==
  \A e \in Evaluations :
    evaluation[e].at \in {"matched", "pushing"} => evaluation[e].current \in Watchlists

\* What has been pushed has its nudge until a deletion takes it.
PushedHasNudge ==
  \A w \in Watchlists, a \in Matching :
    pushes[<<w, a>>] = 0
    \/ (pushes[<<w, a>>] = 1
        /\ (watch[w].status # "deleted" /\ a \in matchable => <<w, a>> \in nudges))

WatchlistInv == WatchlistTypeOK /\ HasWatchlist /\ PushedHasNudge

LEMMA WatchlistInitInv == WatchlistInit => WatchlistInv
  BY DEF WatchlistInit, WatchlistInv, WatchlistTypeOK, HasWatchlist, PushedHasNudge, Watch,
         EvaluationPhases

\* The reader's and the retention job's steps take nudges away only together
\* with what they are about.
LEMMA DeletionsInv ==
  ASSUME WatchlistInv,
         \/ \E w \in Watchlists : UpdateWatchlist(w) \/ DeleteWatchlist(w)
         \/ \E a \in Matching : DeleteMatching(a)
  PROVE  WatchlistInv'
<1> USE DEF WatchlistInv, WatchlistTypeOK, HasWatchlist, PushedHasNudge, Watch
<1>1. ASSUME NEW w \in Watchlists, UpdateWatchlist(w)
      PROVE  WatchlistInv'
  BY <1>1 DEF UpdateWatchlist
<1>2. ASSUME NEW w \in Watchlists, DeleteWatchlist(w)
      PROVE  WatchlistInv'
  BY <1>2 DEF DeleteWatchlist
<1>3. ASSUME NEW a \in Matching, DeleteMatching(a)
      PROVE  WatchlistInv'
  BY <1>3 DEF DeleteMatching
<1> QED
  BY <1>1, <1>2, <1>3

\* A step that moves one evaluation on, with a watchlist where it needs one, and
\* changes nothing else.
LEMMA MovesInv ==
  ASSUME WatchlistInv, NEW e \in Evaluations, NEW next \in Evaluation,
         evaluation' = [evaluation EXCEPT ![e] = next],
         next.at \in {"matched", "pushing"} => next.current \in Watchlists,
         UNCHANGED <<watch, matchable, nudges, pushes>>
  PROVE  WatchlistInv'
<1>1. evaluation' \in [Evaluations -> Evaluation]
  BY DEF WatchlistInv, WatchlistTypeOK, Evaluation
<1>2. HasWatchlist'
  BY DEF WatchlistInv, WatchlistTypeOK, HasWatchlist
<1>3. PushedHasNudge'
  BY DEF WatchlistInv, PushedHasNudge
<1> QED
  BY <1>1, <1>2, <1>3 DEF WatchlistInv, WatchlistTypeOK, Evaluation

\* A step of an evaluation pushes what it has just recorded as new.
LEMMA EvaluationInv ==
  ASSUME WatchlistInv, NEW e \in Evaluations,
         \/ SnapshotEnabled(e) \/ ScoreWatchlist(e) \/ PushEnds(e)
         \/ NextWatchlist(e) \/ EndEvaluation(e) \/ LoseEvaluation(e)
         \/ \E a \in Matching : RecordNudge(e, a) \/ RecordRefused(e, a)
  PROVE  WatchlistInv'
<1> USE DEF WatchlistInv, WatchlistTypeOK, HasWatchlist, PushedHasNudge, EvaluationPhases
<1>0. evaluation[e] \in Evaluation /\ evaluation \in [Evaluations -> Evaluation]
  BY DEF Evaluation
<1>1. CASE SnapshotEnabled(e)
  <2> DEFINE enabled == {<<w, watch[w].push>> :
                           w \in {v \in Watchlists : watch[v].status = "enabled"}}
             next == [evaluation[e] EXCEPT !.at = "between", !.todo = enabled]
  <2>1. enabled \in SUBSET (Watchlists \X BOOLEAN)
    BY DEF Watch
  <2> HIDE DEF enabled
  <2>2. next \in Evaluation /\ next.at = "between"
    BY <1>0, <2>1 DEF Evaluation
  <2>3. evaluation' = [evaluation EXCEPT ![e] = next]
    BY <1>1 DEF SnapshotEnabled, enabled
  <2> QED
    BY <1>1, <2>2, <2>3, MovesInv DEF SnapshotEnabled
<1>2. CASE ScoreWatchlist(e)
  <2>1. PICK t \in evaluation[e].todo :
          \/ \E found \in SUBSET matchable :
               evaluation' = [evaluation EXCEPT ![e].at = "matched", ![e].todo = @ \ {t},
                                ![e].current = t[1], ![e].push = t[2], ![e].matches = found]
          \/ evaluation' = [evaluation EXCEPT ![e].todo = @ \ {t}]
    BY <1>2 DEF ScoreWatchlist
  <2>2. t \in Watchlists \X BOOLEAN /\ t[1] \in Watchlists /\ t[2] \in BOOLEAN
    BY <1>0 DEF Evaluation
  <2>3. ASSUME NEW found \in SUBSET matchable,
               evaluation' = [evaluation EXCEPT ![e].at = "matched", ![e].todo = @ \ {t},
                                ![e].current = t[1], ![e].push = t[2], ![e].matches = found]
        PROVE  WatchlistInv'
    <3> DEFINE next == [at |-> "matched", todo |-> evaluation[e].todo \ {t},
                        current |-> t[1], push |-> t[2], matches |-> found]
    <3>1. next \in Evaluation
      BY <1>0, <2>2, found \in SUBSET Matching DEF Evaluation
    <3>2. evaluation' = [evaluation EXCEPT ![e] = next]
      BY <1>0, <2>3 DEF Evaluation
    <3> QED
      BY <1>2, <2>2, <3>1, <3>2, MovesInv DEF ScoreWatchlist
  <2>4. CASE evaluation' = [evaluation EXCEPT ![e].todo = @ \ {t}]
    <3> DEFINE next == [evaluation[e] EXCEPT !.todo = @ \ {t}]
    <3>1. next \in Evaluation /\ next.at = "between"
      BY <1>0, <1>2 DEF Evaluation, ScoreWatchlist
    <3>2. evaluation' = [evaluation EXCEPT ![e] = next]
      BY <2>4
    <3> QED
      BY <1>2, <3>1, <3>2, MovesInv DEF ScoreWatchlist
  <2> QED
    BY <2>1, <2>3, <2>4
<1>3. CASE PushEnds(e)
  BY SMTT(30), <1>3 DEF PushEnds
<1>4. CASE NextWatchlist(e)
  <2> DEFINE next == [evaluation[e] EXCEPT !.at = "between", !.current = NoWatchlist]
  <2>1. next \in Evaluation /\ next.at = "between"
    BY <1>0 DEF Evaluation
  <2>2. evaluation' = [evaluation EXCEPT ![e] = next]
    BY <1>4 DEF NextWatchlist
  <2> QED
    BY <1>4, <2>1, <2>2, MovesInv DEF NextWatchlist
<1>5. CASE EndEvaluation(e)
  BY <1>5 DEF EndEvaluation
<1>6. CASE LoseEvaluation(e)
  <2> DEFINE next == [evaluation[e] EXCEPT !.at = "over", !.todo = {}, !.matches = {}]
  <2>1. next \in Evaluation /\ next.at = "over"
    BY <1>0 DEF Evaluation
  <2>2. evaluation' = [evaluation EXCEPT ![e] = next]
    BY <1>6 DEF LoseEvaluation
  <2> QED
    BY <1>6, <2>1, <2>2, MovesInv DEF LoseEvaluation
<1>7. ASSUME NEW a \in Matching, RecordNudge(e, a)
      PROVE  WatchlistInv'
  <2> DEFINE nudge == <<evaluation[e].current, a>>
  <2>1. nudge \in Watchlists \X Matching
    BY <1>7 DEF RecordNudge
  <2>2. CASE nudge \in nudges \/ ~evaluation[e].push
    BY <1>7, <2>1, <2>2 DEF RecordNudge
  <2>3. CASE ~(nudge \in nudges \/ ~evaluation[e].push)
    <3>1. pushes[nudge] = 0
      BY <1>7, <2>1, <2>3 DEF RecordNudge
    <3> QED
      BY <1>7, <2>1, <2>3, <3>1 DEF RecordNudge
  <2> QED
    BY <2>2, <2>3
<1>8. ASSUME NEW a \in Matching, RecordRefused(e, a)
      PROVE  WatchlistInv'
  BY <1>8 DEF RecordRefused
<1> QED
  BY <1>1, <1>2, <1>3, <1>4, <1>5, <1>6, <1>7, <1>8

LEMMA WatchlistAlways == WatchlistSpec => []WatchlistInv
<1>1. WatchlistInv /\ [WatchlistNext]_watchlistVars => WatchlistInv'
  <2> SUFFICES ASSUME WatchlistInv, [WatchlistNext]_watchlistVars PROVE WatchlistInv'
    OBVIOUS
  <2>1. CASE WatchlistNext
    BY <2>1, DeletionsInv, EvaluationInv DEF WatchlistNext
  <2>2. CASE UNCHANGED watchlistVars
    BY <2>2 DEF watchlistVars, WatchlistInv, WatchlistTypeOK, HasWatchlist, PushedHasNudge
  <2> QED
    BY <2>1, <2>2
<1> QED
  BY WatchlistInitInv, <1>1, PTL DEF WatchlistSpec

-----------------------------------------------------------------------------
(* The theorem                                                             *)

\* watchlist_agent.py:369: one match is pushed once, and what has been pushed is
\* among the nudges while its watchlist and its article are there.
THEOREM OnePush == WatchlistSpec => []OnePushPerMatch
<1>1. WatchlistInv => OnePushPerMatch
  <2> SUFFICES ASSUME WatchlistInv, NEW w \in Watchlists, NEW a \in Matching
               PROVE  /\ pushes[<<w, a>>] <= 1
                      /\ (pushes[<<w, a>>] = 1 /\ watch[w].status # "deleted" /\ a \in matchable)
                           => <<w, a>> \in nudges
    BY DEF OnePushPerMatch
  <2> QED
    BY DEF WatchlistInv, PushedHasNudge
<1> QED
  BY WatchlistAlways, <1>1, PTL

(***************************************************************************)
(* What a reader does with an article: any number of connections.          *)
(***************************************************************************)

-----------------------------------------------------------------------------
(* Types                                                                   *)

Rows == Row \cup {Nothing}

\* What a reader without a row has in mind is a row too.
LEMMA CurrentType ==
  ASSUME NEW r \in Rows
  PROVE  Current(r) \in Row
  BY DEF Rows, Row, Current, States

\* Every operation makes a row of a row.
LEMMA EffectType ==
  ASSUME NEW r \in Rows, NEW op \in Operation
  PROVE  Effect(op, r) \in Rows
<1>1. Current(r) \in Row
  BY CurrentType
<1>2. ASSUME NEW to \in States
      PROVE  Transition(r, to) \in Rows
  BY <1>1, <1>2 DEF Transition, Rows, Row
<1>3. ASSUME NEW on \in BOOLEAN
      PROVE  SetStarred(r, on) \in Rows
  BY <1>1, <1>3 DEF SetStarred, Rows, Row
<1>4. SendLater(r) \in Rows
  BY <1>1 DEF SendLater, Rows, Row, States
<1>5. CASE op.kind = "move" /\ op.to \in States
  BY <1>2, <1>5 DEF Effect
<1>6. CASE op.kind = "star" /\ op.on \in BOOLEAN
  BY <1>3, <1>6 DEF Effect
<1>7. CASE op.kind = "snooze"
  BY <1>4, <1>7 DEF Effect
<1> QED
  BY <1>5, <1>6, <1>7 DEF Operation

\* So does sharing the address.
LEMMA SharedType ==
  ASSUME NEW r \in Rows
  PROVE  SaveShared(r) \in Rows
<1>1. Current(r) \in Row
  BY CurrentType
<1> QED
  BY <1>1 DEF SaveShared, Rows, Row, States

LEMMA WorkflowInitType == WorkflowInit => WorkflowTypeOK
<1>1. Free \in [op: Operation \cup {Nothing}, seen: Row \cup {Nothing}, shared: BOOLEAN]
  BY DEF Free
<1> QED
  BY <1>1 DEF WorkflowInit, WorkflowTypeOK

LEMMA WorkflowStepType ==
  ASSUME WorkflowTypeOK, [WorkflowNext]_workflowVars
  PROVE  WorkflowTypeOK'
<1> USE DEF WorkflowTypeOK
<1>1. ASSUME NEW h \in Hands, NEW op \in Operation, Begin(h, op)
      PROVE  WorkflowTypeOK'
  BY <1>1 DEF Begin
<1>2. ASSUME NEW h \in Hands, Finish(h)
      PROVE  WorkflowTypeOK'
  <2>1. hand[h].op \in Operation /\ hand[h].seen \in Rows
    BY <1>2 DEF Finish, Rows
  <2>2. row' \in Rows
    BY <1>2, <2>1, EffectType DEF Finish
  <2> QED
    BY <1>2, <2>2 DEF Finish, Free, Rows
<1>3. ASSUME NEW h \in Hands, GiveUp(h)
      PROVE  WorkflowTypeOK'
  BY <1>3 DEF GiveUp, Free
<1>4. CASE Share
  <2>1. row' \in Rows
    BY <1>4, SharedType DEF Share, Rows
  <2> QED
    BY <1>4, <2>1 DEF Share, Free, Rows
<1>5. CASE SnoozeEnds
  BY <1>5 DEF SnoozeEnds, Row
<1>6. CASE Subscribe \/ Delete \/ Choose \/ Merge
  BY <1>6 DEF Subscribe, Delete, Choose, Merge
<1>7. CASE UNCHANGED workflowVars
  BY <1>7 DEF workflowVars
<1> QED
  BY <1>1, <1>2, <1>3, <1>4, <1>5, <1>6, <1>7 DEF WorkflowNext

-----------------------------------------------------------------------------
(* The lock                                                                *)

\* One connection at a time is inside a handler, and what it has read is the
\* row as it is, unless the address has been shared since.
OneHolder ==
  \A h, g \in Hands : (hand[h].op # Nothing /\ hand[g].op # Nothing) => h = g
ReadIsCurrent ==
  \A h \in Hands : hand[h].op # Nothing => hand[h].shared \/ hand[h].seen = row
WorkflowInv == WorkflowTypeOK /\ OneHolder /\ ReadIsCurrent

LEMMA WorkflowInitInv == WorkflowInit => WorkflowInv
  BY WorkflowInitType DEF WorkflowInit, WorkflowInv, OneHolder, ReadIsCurrent, Free

LEMMA WorkflowStepInv ==
  ASSUME WorkflowInv, [WorkflowNext]_workflowVars
  PROVE  WorkflowInv'
<1> USE DEF WorkflowInv, OneHolder, ReadIsCurrent
<1>0. WorkflowTypeOK'
  BY WorkflowStepType
<1>1. ASSUME NEW h \in Hands, NEW op \in Operation, Begin(h, op)
      PROVE  WorkflowInv'
  BY <1>0, <1>1 DEF Begin, Locked, WorkflowTypeOK
<1>2. ASSUME NEW h \in Hands, Finish(h) \/ GiveUp(h)
      PROVE  WorkflowInv'
  BY <1>0, <1>2 DEF Finish, GiveUp, Free, WorkflowTypeOK
<1>3. CASE Share
  BY <1>0, <1>3 DEF Share, Free, WorkflowTypeOK
<1>4. CASE SnoozeEnds \/ Delete
  BY <1>0, <1>4 DEF SnoozeEnds, Delete, Locked, WorkflowTypeOK
<1>5. CASE Subscribe \/ Choose \/ Merge
  BY <1>0, <1>5 DEF Subscribe, Choose, Merge
<1>6. CASE UNCHANGED workflowVars
  BY <1>0, <1>6 DEF workflowVars
<1> QED
  BY <1>1, <1>2, <1>3, <1>4, <1>5, <1>6 DEF WorkflowNext

LEMMA WorkflowAlways == WorkflowSpec => []WorkflowInv
<1>1. WorkflowInv /\ [WorkflowNext]_workflowVars => WorkflowInv'
  BY WorkflowStepInv
<1> QED
  BY WorkflowInitInv, <1>1, PTL DEF WorkflowSpec

-----------------------------------------------------------------------------
(* The theorems                                                            *)

\* Two hands never undo each other: what a handler writes is the effect of its
\* operation on the row as it stands, unless the address has been shared since.
THEOREM NoStale == WorkflowSpec => NoStaleWrite
<1> DEFINE Kept ==
      \A h \in Hands :
        (hand[h].op # Nothing /\ hand'[h].op = Nothing /\ row' # row) =>
          hand[h].shared \/ row' = Effect(hand[h].op, row)
<1>1. WorkflowInv /\ [WorkflowNext]_workflowVars => [Kept]_workflowVars
  <2> SUFFICES ASSUME WorkflowInv, WorkflowNext, NEW h \in Hands,
                      hand[h].op # Nothing, hand'[h].op = Nothing, row' # row
               PROVE  hand[h].shared \/ row' = Effect(hand[h].op, row)
    OBVIOUS
  <2>1. Locked
    BY DEF Locked
  <2>2. CASE \E g \in Hands : Finish(g)
    BY <2>2 DEF Finish, WorkflowInv, OneHolder, ReadIsCurrent
  <2>3. CASE Share
    BY <2>3 DEF Share, WorkflowInv, WorkflowTypeOK
  <2>4. CASE \/ \E g \in Hands : (\E op \in Operation : Begin(g, op)) \/ GiveUp(g)
             \/ SnoozeEnds \/ Subscribe \/ Delete \/ Choose \/ Merge
    BY <2>1, <2>4 DEF Begin, GiveUp, SnoozeEnds, Subscribe, Delete, Choose, Merge
  <2> QED
    BY <2>2, <2>3, <2>4 DEF WorkflowNext
<1> QED
  BY WorkflowAlways, <1>1, PTL DEF WorkflowSpec, NoStaleWrite

\* Every article a reader can list is in exactly one list, and unread for a feed
\* reader in Today and Later only.
THEOREM OneList == WorkflowSpec => []OneListEach
<1>1. WorkflowInv => OneListEach
  <2> SUFFICES ASSUME WorkflowTypeOK, Listable
               PROVE  /\ Cardinality({list \in States : InFeed(list)}) = 1
                      /\ ~ReadTag <=> InFeed("today") \/ InFeed("later")
    BY DEF WorkflowInv, OneListEach
  <2>1. State \in States
    BY CurrentType DEF WorkflowTypeOK, State, Rows, Row
  <2> DEFINE home == IF State = "later" /\ row.until = "passed" THEN "today" ELSE State
  <2>2. {list \in States : InFeed(list)} = {home}
    BY <2>1 DEF InFeed, States
  <2>3. Cardinality({home}) = 1
    BY FS_Singleton
  <2>4. ~ReadTag <=> InFeed("today") \/ InFeed("later")
    BY DEF ReadTag, InFeed
  <2> QED
    BY <2>2, <2>3, <2>4
<1> QED
  BY WorkflowAlways, <1>1, PTL

(***************************************************************************)
(* The parts together                                                      *)
(***************************************************************************)

\* A behaviour of the parts is, seen from one of them, a behaviour of that part.
LEMMA ArticlesParts ==
  ArticlesSpec => LibrarySpec /\ WorkflowSpec /\ NewsletterSpec /\ WatchlistSpec
<1>1. ArticlesInit => LibraryInit /\ WorkflowInit /\ NewsletterInit /\ WatchlistInit
  BY DEF ArticlesInit
<1>2. [ArticlesNext]_articlesVars =>
        /\ [LibraryNext]_libraryVars /\ [WorkflowNext]_workflowVars
        /\ [NewsletterNext]_newsletterVars /\ [WatchlistNext]_watchlistVars
  BY DEF ArticlesNext, articlesVars
<1> QED
  BY <1>1, <1>2, PTL DEF ArticlesSpec, LibrarySpec, WorkflowSpec, NewsletterSpec, WatchlistSpec

\* The variables of every part keep their types.
THEOREM ArticlesTyped == ArticlesSpec => []ArticlesTypeOK
<1>1. WorkflowInv => WorkflowTypeOK
  BY DEF WorkflowInv
<1>2. WatchlistInv => WatchlistTypeOK
  BY DEF WatchlistInv
<1>3. LibraryTypeOK /\ WorkflowTypeOK /\ NewsletterTypeOK /\ WatchlistTypeOK => ArticlesTypeOK
  BY DEF ArticlesTypeOK
<1> QED
  BY ArticlesParts, LibraryTyped, WorkflowAlways, PollTyped, WatchlistAlways, <1>1, <1>2, <1>3, PTL
=============================================================================
