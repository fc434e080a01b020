--------------------------- MODULE ArticleLibrary ---------------------------
(***************************************************************************)
(* The shared store of articles: ingestion runs that fetch the sources and *)
(* store what is new, the two passes that fold duplicate coverage into one *)
(* article, retention, and the schema statements that a process applies    *)
(* when it starts.                                                         *)
(*                                                                         *)
(* An article is known by the identifier the database hands out; the       *)
(* identifiers follow the order of discovery.  A title that resembles      *)
(* another and two embeddings that lie close are relations on URLs.  A row *)
(* an ingestion has inserted and not yet committed is in "staged".         *)
(***************************************************************************)
EXTENDS Integers, FiniteSets

CONSTANTS
  Urls,         \* canonical addresses of articles
  Feeds,        \* sources, the share target among them
  OwnerOf,      \* the user a private source belongs to
  Everyone,     \* the owner of the global sources
  Alike,        \* pairs of URLs with similar titles
  Close,        \* pairs of URLs with close embeddings
  ShareTarget,  \* the source of addresses shared from the operating system
  Ingestors,    \* processes that run ingestion: the application, the job
  MaxId         \* bound: identifiers handed out

ASSUME LibraryAssumption ==
  /\ Urls # {}
  /\ OwnerOf \in [Feeds -> {OwnerOf[f] : f \in Feeds}]
  /\ ShareTarget \in Feeds
  /\ OwnerOf[ShareTarget] = Everyone
  /\ MaxId \in Nat

Ids == 1 .. MaxId
None == 0

\* age: found within the dedup window, past it, past the retention window.
Article == [url: Urls, feed: Feeds, canon: Ids \cup {None},
            state: {"today", "archived"}, status: {"new", "archived"}, age: 0 .. 2]

VARIABLES
  shelf,    \* identifiers of the committed articles
  art,      \* the article of an identifier
  lastId,   \* the identifier handed out last
  kept,     \* articles a reader has starred, marked, tagged, cited or shared
  staged,   \* identifiers inserted by an open ingestion transaction
  ingest,   \* per process: no run, between sources, or the source it stores
  sweep,    \* identifiers retention has picked, to be deleted
  pairs     \* duplicates the embedding pass has found, to be merged

libraryVars == <<shelf, art, lastId, kept, staged, ingest, sweep, pairs>>

Blank == [url |-> CHOOSE u \in Urls : TRUE, feed |-> ShareTarget, canon |-> None,
          state |-> "today", status |-> "new", age |-> 0]
NoRun == "no run"
Between == "between sources"

LibraryTypeOK ==
  /\ shelf \subseteq 1 .. lastId
  /\ lastId \in 0 .. MaxId
  /\ art \in [Ids -> Article]
  /\ kept \subseteq shelf
  /\ staged \in [Ingestors -> SUBSET (1 .. lastId)]
  /\ ingest \in [Ingestors -> Feeds \cup {NoRun, Between}]
  /\ sweep \subseteq Ids
  /\ pairs \subseteq Ids \X Ids

LibraryInit ==
  /\ shelf = {} /\ lastId = 0 /\ kept = {} /\ sweep = {} /\ pairs = {}
  /\ art = [i \in Ids |-> Blank]
  /\ staged = [p \in Ingestors |-> {}]
  /\ ingest = [p \in Ingestors |-> NoRun]

-----------------------------------------------------------------------------
(* Ingestion.                                                              *)

\* May a source's article stand behind an article of feed f?
MayStandFor(g, f) == OwnerOf[g] \in {Everyone, OwnerOf[f]}

\* The article a new entry duplicates: the latest recent one of similar title.
Candidates(p, f, u) ==
  {i \in shelf \cup staged[p] :
      /\ art[i].canon = None /\ art[i].age = 0
      /\ <<u, art[i].url>> \in Alike
      /\ MayStandFor(art[i].feed, f)}
Latest(S) == CHOOSE i \in S : \A j \in S : j <= i

\* Wrong: whatever the owner of the other source.
FindCanonicalOfAnyone(p, f, u) ==
  LET C == {i \in shelf \cup staged[p] : art[i].canon = None /\ <<u, art[i].url>> \in Alike}
  IN IF C = {} THEN None ELSE Latest(C)

FindCanonical(p, f, u) ==
  LET C == Candidates(p, f, u) IN IF C = {} THEN None ELSE Latest(C)

\* A duplicate is stored with the status of an archived article; the column
\* state, which no statement of ingestion names, takes its default.
NewArticle(u, f, c) ==
  [url |-> u, feed |-> f, canon |-> c, state |-> "today",
   status |-> IF c = None THEN "new" ELSE "archived", age |-> 0]

HeldBy(p) == {art[i].url : i \in staged[p]}
OnShelf == {art[i].url : i \in shelf}

Without(S) == [i \in Ids |-> IF i \in S THEN Blank ELSE art[i]]

\* One run at a time in a process.
StartRun(p) ==
  /\ ingest[p] = NoRun
  /\ ingest' = [ingest EXCEPT ![p] = Between]
  /\ UNCHANGED <<shelf, art, lastId, kept, staged, sweep, pairs>>

Fetch(p) ==
  /\ ingest[p] = Between
  /\ \E f \in Feeds \ {ShareTarget} : ingest' = [ingest EXCEPT ![p] = f]
  /\ UNCHANGED <<shelf, art, lastId, kept, staged, sweep, pairs>>

\* One entry of the feed, in its own savepoint.  It adds a row unless its URL is
\* there; an uncommitted row of another process makes it wait.  An entry that is
\* filtered or fails adds nothing.
Persist(p, u) ==
  /\ ingest[p] \in Feeds
  /\ lastId < MaxId
  /\ u \notin OnShelf
  /\ \A q \in Ingestors : u \notin HeldBy(q)
  /\ lastId' = lastId + 1
  /\ art' = [art EXCEPT ![lastId + 1] = NewArticle(u, ingest[p], FindCanonical(p, ingest[p], u))]
  /\ staged' = [staged EXCEPT ![p] = @ \cup {lastId + 1}]
  /\ UNCHANGED <<shelf, kept, ingest, sweep, pairs>>

CommitSource(p) ==
  /\ ingest[p] \in Feeds
  /\ shelf' = shelf \cup staged[p]
  /\ staged' = [staged EXCEPT ![p] = {}]
  /\ ingest' = [ingest EXCEPT ![p] = Between]
  /\ UNCHANGED <<art, lastId, kept, sweep, pairs>>

\* The fetch or a later step raises: nothing of the source is kept.
FailSource(p) ==
  /\ ingest[p] \in Feeds
  /\ art' = Without(staged[p])
  /\ staged' = [staged EXCEPT ![p] = {}]
  /\ ingest' = [ingest EXCEPT ![p] = Between]
  /\ UNCHANGED <<shelf, lastId, kept, sweep, pairs>>

FinishRun(p) ==
  /\ ingest[p] = Between
  /\ ingest' = [ingest EXCEPT ![p] = NoRun]
  /\ UNCHANGED <<shelf, art, lastId, kept, staged, sweep, pairs>>

\* A shared address is inserted unless its URL is there, under the share target.
SaveSharedUrl(u) ==
  /\ lastId < MaxId
  /\ u \notin OnShelf
  /\ \A q \in Ingestors : u \notin HeldBy(q)
  /\ lastId' = lastId + 1
  /\ shelf' = shelf \cup {lastId + 1}
  /\ art' = [art EXCEPT ![lastId + 1] = NewArticle(u, ShareTarget, None)]
  /\ UNCHANGED <<kept, staged, ingest, sweep, pairs>>

-----------------------------------------------------------------------------
(* The embedding pass: a query for pairs, then one update per pair.        *)

DedupCandidates ==
  {pr \in shelf \X shelf :
      LET d == pr[1]  c == pr[2] IN
      /\ c < d
      /\ <<art[d].url, art[c].url>> \in Close
      /\ \A i \in {d, c} : art[i].canon = None /\ art[i].age = 0 /\ art[i].state = "today"
      /\ MayStandFor(art[c].feed, art[d].feed)}

\* An article that some reader has moved out of Today is left out.
ScanDuplicates ==
  /\ pairs = {}
  /\ \E moved \in SUBSET shelf : pairs' = {pr \in DedupCandidates : {pr[1], pr[2]} \cap moved = {}}
  /\ UNCHANGED <<shelf, art, lastId, kept, staged, ingest, sweep>>

\* The updates of the pass, in one transaction: of the pairs of a duplicate the
\* closest is applied; if an original is gone its foreign key fails them all.
MergeDuplicates ==
  /\ pairs # {}
  /\ pairs' = {}
  /\ \E best \in [{pr[1] : pr \in pairs} -> {pr[2] : pr \in pairs}] :
       /\ \A d \in DOMAIN best : <<d, best[d]>> \in pairs
       /\ LET merged == {d \in DOMAIN best : d \in shelf /\ art[d].canon = None} IN
          art' = IF \E d \in merged : best[d] \notin shelf
                 THEN art
                 ELSE [i \in Ids |-> IF i \in merged
                         THEN [art[i] EXCEPT !.canon = best[i], !.state = "archived",
                                             !.status = "archived"]
                         ELSE art[i]]
  /\ UNCHANGED <<shelf, lastId, kept, staged, ingest, sweep>>

-----------------------------------------------------------------------------
(* Retention: pick a batch, then delete what is still eligible.            *)

Protected(i) == i \in kept \/ \E j \in shelf : art[j].canon = i
\* A staged duplicate holds a key-share lock on its original.
Referenced(i) == \E p \in Ingestors : \E j \in staged[p] : art[j].canon = i
Eligible == {i \in shelf : art[i].age = 2 /\ ~Protected(i)}

\* The snapshot of the query that picks a batch.  A reader's change that is
\* committed after it, before the rows are locked, is not seen by the query.
PickOld ==
  /\ sweep = {}
  /\ \E S \in SUBSET Eligible : S # {} /\ sweep' = S
  /\ UNCHANGED <<shelf, art, lastId, kept, staged, ingest, pairs>>

\* Wrong: what was picked is deleted without looking at it again.
DeleteOldUnchecked ==
  /\ sweep # {}
  /\ shelf' = shelf \ sweep
  /\ art' = Without(sweep)
  /\ sweep' = {}
  /\ UNCHANGED <<lastId, kept, staged, ingest, pairs>>

\* The delete asks again; an original with a staged duplicate was skipped.
DeleteOld ==
  /\ sweep # {}
  /\ LET gone == {i \in sweep \cap Eligible : ~Referenced(i)} IN
        /\ shelf' = shelf \ gone
        /\ art' = Without(gone)
  /\ sweep' = {}
  /\ UNCHANGED <<lastId, kept, staged, ingest, pairs>>

-----------------------------------------------------------------------------
(* Readers, time and process start.                                        *)

Keep(i) ==
  /\ i \in shelf
  /\ kept' \in {kept \cup {i}, kept \ {i}} \ {kept}
  /\ UNCHANGED <<shelf, art, lastId, staged, ingest, sweep, pairs>>

\* Time passes: the older an article the sooner it leaves a window.
Age(i) ==
  /\ i \in shelf /\ art[i].age < 2
  /\ \A j \in shelf : j < i => art[j].age > art[i].age
  /\ art' = [art EXCEPT ![i].age = @ + 1]
  /\ UNCHANGED <<shelf, lastId, kept, staged, ingest, sweep, pairs>>

\* A process ends with its transaction open; the next start runs the schema
\* statements, one of which derives state from status.
Restart(p) ==
  /\ staged' = [staged EXCEPT ![p] = {}]
  /\ ingest' = [ingest EXCEPT ![p] = NoRun]
  /\ art' = [i \in Ids |-> IF i \in shelf /\ art[i].status = "archived"
                           THEN [art[i] EXCEPT !.state = "archived"] ELSE Without(staged[p])[i]]
  /\ UNCHANGED <<shelf, lastId, kept, sweep, pairs>>

LibraryNext ==
  \/ \E p \in Ingestors :
        \/ StartRun(p) \/ Fetch(p) \/ (\E u \in Urls : Persist(p, u))
        \/ CommitSource(p) \/ FailSource(p) \/ FinishRun(p) \/ Restart(p)
  \/ \E u \in Urls : SaveSharedUrl(u)
  \/ ScanDuplicates \/ MergeDuplicates \/ PickOld \/ DeleteOld
  \/ \E i \in Ids : Keep(i) \/ Age(i)

LibrarySpec == LibraryInit /\ [][LibraryNext]_libraryVars

-----------------------------------------------------------------------------
(* Properties.                                                             *)

\* A duplicate leads to an article that is older, is still there for as long as
\* the duplicate is, and belongs to a source that whoever reads the duplicate
\* may read: dedup never hides a story behind a private one, and retention
\* never removes the article that others stand for.
DuplicateHasOriginal ==
  \A i \in shelf \cup UNION {staged[p] : p \in Ingestors} :
    art[i].canon # None =>
      /\ art[i].canon < i
      /\ art[i].canon \in shelf \cup UNION {staged[p] : p \in Ingestors}
      /\ MayStandFor(art[art[i].canon].feed, art[i].feed)

\* A URL is on the shelf once, however many processes ingest it.
OneArticlePerUrl ==
  \A i, j \in shelf : art[i].url = art[j].url => i = j

\* What ingestion, sharing, dedup and retention keep between them.
LibraryInv == DuplicateHasOriginal /\ OneArticlePerUrl

\* An article a reader has kept is never deleted, though retention chose its
\* batch before the reader kept it.
KeptStays == [][\A i \in kept : i \in shelf']_libraryVars

\* embedding_dedup.py:12: "merged using the same canonical/duplicate shape as
\* the ingest-time path (older article stays canonical; newer becomes
\* state='archived' with canonical_id set)".
DuplicatesAreArchived == \A i \in shelf : art[i].canon # None => art[i].state = "archived"
=============================================================================
