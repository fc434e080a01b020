--------------------------- MODULE ArticleSurfaces ---------------------------
(***************************************************************************)
(* The places where one reader meets the articles: the lists, the counts    *)
(* beside them, the search, the streams of a reader application, and what  *)
(* questions, maps, briefings and scores are made of.  Each has a query of *)
(* its own over the articles, their sources and the reader's rows; the     *)
(* queries are operators here, and the actions make the states they meet.  *)
(***************************************************************************)
EXTENDS Integers, FiniteSets

CONSTANTS
  Articles,     \* 1 .. n, in the order in which they are found
  SourceOf,     \* the source of each
  BelongsTo,    \* whose a source is: "everyone", "me" or "another"
  ColdScore,    \* the score of an article the reader has no score for
  OwnScore,     \* the score a computation gives it
  Limit,        \* articles to a page
  RankWindow,   \* candidates that are ranked at the least
  MaxScored,    \* articles that a computation of scores takes (a thousand)
  MaxActs       \* bound: changes, and computations of scores

Sources == {SourceOf[a] : a \in Articles}
ASSUME SurfacesAssumption ==
  /\ IsFiniteSet(Articles) /\ Articles = 1 .. Cardinality(Articles)
  /\ \A s \in Sources : BelongsTo[s] \in {"everyone", "me", "another"}
  /\ \A a \in Articles : {OwnScore[a], ColdScore[a]} \subseteq Int
  /\ Limit \in Nat \ {0} /\ RankWindow \in Nat /\ MaxScored \in Nat /\ MaxActs \in Nat

VARIABLES
  newest,      \* articles that are stored: 1 .. newest
  canonical,  \* the article that one repeats, or 0
  merged,     \* repetitions that the comparison of embeddings has archived
  place,      \* the reader's row of each article, "none" without one
  starred,    \* articles the reader has starred
  returned,   \* articles in "later" whose time has come
  wanted,     \* global sources the reader has not switched off
  enabled,    \* sources that are in use
  removed,    \* sources that are deleted
  embedded,   \* articles with an embedding
  scored,     \* articles with a score of the reader's own
  acts

surfacesVars == <<newest, canonical, merged, place, starred, returned, wanted, enabled, removed, embedded, scored, acts>>

Lists == {"today", "later", "done", "skipped", "archived"}
Stored == 1 .. newest

SurfacesTypeOK ==
  /\ newest \in 0 .. Cardinality(Articles) /\ acts \in 0 .. MaxActs
  /\ canonical \in [Articles -> {0} \cup Articles] /\ \A a \in Stored : canonical[a] < a
  /\ merged \subseteq {a \in Stored : canonical[a] # 0}
  /\ place \in [Articles -> Lists \cup {"none"}]
  /\ starred \subseteq {a \in Stored : place[a] # "none"}
  /\ returned \subseteq {a \in Stored : place[a] = "later"}
  /\ wanted \cup enabled \cup removed \subseteq Sources
  /\ embedded \cup scored \subseteq Stored

SurfacesInit ==
  /\ newest = 0 /\ acts = 0 /\ merged = {} /\ starred = {} /\ returned = {}
  /\ canonical = [a \in Articles |-> 0] /\ place = [a \in Articles |-> "none"]
  /\ wanted = Sources /\ enabled = Sources /\ removed = {} /\ embedded = {} /\ scored = {}

-----------------------------------------------------------------------------
(* The queries.                                                            *)

\* Wrong: a private source is anybody's.
VisibleToAll(a) ==
  BelongsTo[SourceOf[a]] # "everyone" \/ SourceOf[a] \in wanted
Visible(a) ==
  \/ BelongsTo[SourceOf[a]] = "everyone" /\ SourceOf[a] \in wanted
  \/ BelongsTo[SourceOf[a]] = "me"
Seen == {a \in Stored : Visible(a)}
PlaceOf(a) == IF place[a] = "none" THEN "today" ELSE place[a]
Kept(S) == {a \in S : PlaceOf(a) # "archived"}

\* What a list may hold: a repetition leaves when the reader archives it.
Listed == {a \in Seen : canonical[a] = 0 \/ PlaceOf(a) # "archived"}

\* An article whose time has come is in the first list and no more in "later".
InList(a, l) ==
  CASE l = "today" -> PlaceOf(a) = "today" \/ a \in returned
    [] l = "later" -> PlaceOf(a) = "later" /\ a \notin returned
    [] OTHER -> PlaceOf(a) = l
ListOf(l) == {a \in Listed : InList(a, l)}

Summary ==
  [new |-> Cardinality({a \in Listed : PlaceOf(a) = "today"}),
   saved |-> Cardinality(Listed \cap starred),
   read |-> Cardinality({a \in Listed : PlaceOf(a) = "done"}),
   skipped |-> Cardinality({a \in Listed : PlaceOf(a) = "skipped"}),
   archived |-> Cardinality({a \in Listed : PlaceOf(a) = "archived"})]

\* The search asks for places, and leaves out sources that are not in use.
Search(places, archivedToo) ==
  {a \in Seen : /\ archivedToo \/ "archived" \in places \/ PlaceOf(a) # "archived"
                /\ places = {} \/ PlaceOf(a) \in places
                /\ SourceOf[a] \in enabled \ removed}

\* A reader application: its stream, and what it shows as read.
Stream == Listed
ShownAsRead == {a \in Stream : PlaceOf(a) \notin {"today", "later"}}
Subscriptions == {s \in Sources : BelongsTo[s] \in {"everyone", "me"}} \ removed

\* The sources named beside an article: those of its archived repetitions.
AlsoFrom(a) ==
  {s \in {SourceOf[d] : d \in {d \in merged : canonical[d] = a}} :
     s # SourceOf[a] /\ BelongsTo[s] \in {"everyone", "me"}}

\* Questions are answered from what was read or starred, or from everything.
Asked(everything) ==
  embedded \cap IF everything THEN Kept(Seen)
                ELSE {a \in Seen : place[a] = "done" \/ a \in starred}

\* Maps and figures: the reader's own sources count while they are in use.
Mapped == {a \in Kept(Seen) : BelongsTo[SourceOf[a]] = "everyone" \/ SourceOf[a] \in enabled}
TopicMap == Mapped \cap embedded
EntityGraph == Mapped
Figures == Mapped
RelatedToLesson == Mapped

BriefingCandidates == Seen \ merged
Citable == {a \in Seen : SourceOf[a] \in enabled \ removed}
ScoreCandidates == {a \in Listed : PlaceOf(a) \in {"today", "later"}}
Favourites == {a \in Seen : place[a] = "done" \/ a \in starred}
Enriched == Seen

-----------------------------------------------------------------------------
(* The pages of the first list.                                            *)

Higher(x, y) == x.score > y.score \/ (x.score = y.score /\ x.id > y.id)
Later(x, y) == x.id > y.id
Rank(S, order(_, _), x) == Cardinality({y \in S : order(y, x)})
First(S, order(_, _), n) == {x \in S : Rank(S, order, x) < n}

Ranked == {[id |-> a, score |-> OwnScore[a]] : a \in ListOf("today") \cap scored}
Unranked == {[id |-> a, score |-> ColdScore[a]] : a \in ListOf("today") \ scored}

\* Wrong: as many candidates as the page has places.
EnoughFor(offset) == Limit + 1
CandidatesFor(offset) ==
  IF offset + Limit + 1 > RankWindow THEN offset + Limit + 1 ELSE RankWindow

\* The best of those with a score and the newest of the others are ranked; a page
\* has one row more than it shows, which says whether there is another.
Page(number) ==
  LET offset == Limit * (number - 1)
      best == First(Ranked, Higher, CandidatesFor(offset))
                \cup First(Unranked, Later, CandidatesFor(offset))
  IN [number |-> number,
      shown |-> {x.id : x \in {x \in best : Rank(best, Higher, x) \in offset .. offset + Limit - 1}},
      more |-> Cardinality(best) > offset + Limit]

\* Page after page, while there is another.
TodaysPages ==
  LET pages == {Page(k) : k \in 1 .. newest + 1}
  IN {p \in pages : \A q \in pages : q.number < p.number => q.more}

-----------------------------------------------------------------------------
(* What happens.                                                           *)

Act == acts < MaxActs /\ acts' = acts + 1
others == <<place, starred, returned, wanted, enabled, removed>>

\* An article may stand behind those of its owner, a global one behind all.
MayRepeat(a, c) == BelongsTo[SourceOf[c]] \in {"everyone", BelongsTo[SourceOf[a]]}

\* An article is stored; ingestion has seen, or not, that it repeats another.
Find ==
  /\ newest < Cardinality(Articles) /\ newest' = newest + 1
  /\ \E c \in {0} \cup {c \in Stored : canonical[c] = 0 /\ MayRepeat(newest + 1, c)} :
       canonical' = [canonical EXCEPT ![newest + 1] = c]
  /\ UNCHANGED <<merged, others, embedded, scored, acts>>

\* An article that was saved, or is reached by the pass over what has none.
Embed(a) ==
  /\ a \in Stored \ embedded /\ embedded' = embedded \cup {a}
  /\ UNCHANGED <<newest, canonical, merged, others, scored, acts>>

\* The comparison of embeddings merges a later article that nobody has moved.
Merge(a, c) ==
  /\ {a, c} \subseteq embedded /\ c < a /\ MayRepeat(a, c)
  /\ \A b \in {a, c} : canonical[b] = 0 /\ PlaceOf(b) = "today"
  /\ canonical' = [canonical EXCEPT ![a] = c] /\ merged' = merged \cup {a}
  /\ UNCHANGED <<newest, others, embedded, scored, acts>>

\* ReaderWorkflow says which moves there are; what matters here is where they end.
Move(a, l) ==
  /\ a \in Seen /\ Act
  /\ place' = [place EXCEPT ![a] = l]
  /\ returned' = returned \ {a}
  /\ UNCHANGED <<newest, canonical, merged, starred, wanted, enabled, removed, embedded, scored>>

Star(a) ==
  /\ a \in Seen /\ Act
  /\ place' = [place EXCEPT ![a] = PlaceOf(a)]
  /\ starred' = IF a \in starred THEN starred \ {a} ELSE starred \cup {a}
  /\ returned' = returned \ {a}
  /\ UNCHANGED <<newest, canonical, merged, wanted, enabled, removed, embedded, scored>>

SnoozeEnds(a) ==
  /\ place[a] = "later" /\ returned' = returned \cup {a}
  /\ UNCHANGED <<newest, canonical, merged, place, starred, wanted, enabled, removed, embedded, scored, acts>>

\* A source is switched off or on by a reader, stopped or started, or deleted;
\* what another does to theirs shows nowhere here.
Switch(s) ==
  /\ Act /\ BelongsTo[s] # "another"
  /\ \/ /\ BelongsTo[s] = "everyone"
        /\ wanted' = IF s \in wanted THEN wanted \ {s} ELSE wanted \cup {s}
        /\ UNCHANGED <<enabled, removed>>
     \/ /\ enabled' = IF s \in enabled THEN enabled \ {s} ELSE enabled \cup {s}
        /\ UNCHANGED <<wanted, removed>>
     \/ /\ BelongsTo[s] # "everyone"
        /\ removed' = removed \cup {s} /\ enabled' = enabled \ {s} /\ UNCHANGED wanted
  /\ UNCHANGED <<newest, canonical, merged, place, starred, returned, embedded, scored>>

\* A recomputation loads the newest.
NewestCandidates == {x.id : x \in First({[id |-> a] : a \in ScoreCandidates}, Later, MaxScored)}
Recompute ==
  /\ Act /\ scored' = scored \cup NewestCandidates
  /\ UNCHANGED <<newest, canonical, merged, others, embedded>>

SurfacesNext ==
  \/ Find \/ Recompute
  \/ \E a \in Articles :
       \/ Embed(a) \/ Star(a) \/ SnoozeEnds(a)
       \/ \E c \in Articles : Merge(a, c)
       \/ \E l \in Lists : Move(a, l)
  \/ \E s \in Sources : Switch(s)

SurfacesSpec == SurfacesInit /\ [][SurfacesNext]_surfacesVars

-----------------------------------------------------------------------------
(* Properties.                                                             *)

\* Every list, count and stream shows the same articles: each in one list, read
\* where its application shows it as read; the counts are those of the lists,
\* but that what came back from "later" is counted nowhere.
CountsMatchLists ==
  /\ \A a \in Stream : Cardinality({l \in Lists : InList(a, l)}) = 1
  /\ Stream \ ShownAsRead = ListOf("today") \cup ListOf("later")
  /\ LET counted == Summary
     IN /\ counted.new = Cardinality(ListOf("today") \ returned)
        /\ counted.read = Cardinality(ListOf("done"))
        /\ counted.skipped = Cardinality(ListOf("skipped"))
        /\ counted.archived = Cardinality(ListOf("archived"))
        /\ counted.saved = Cardinality(starred \cap Stream)
  /\ ScoreCandidates = ListOf("today") \cup ListOf("later")

\* What is found elsewhere is in a list, or is a repetition that the reader has
\* archived; what was archived is in no map, and no answer unless it was starred;
\* and a stored briefing still cites what a search still finds.
FoundIsListed ==
  LET gone == {a \in Stored : canonical[a] # 0 /\ place[a] = "archived"}
  IN /\ Search({}, TRUE) \cup Asked(TRUE) \cup Asked(FALSE) \cup Figures
          \cup BriefingCandidates \cup Favourites \cup Enriched \subseteq Stream \cup gone
     /\ (Search({}, FALSE) \cup TopicMap \cup EntityGraph \cup Figures \cup RelatedToLesson
           \cup Asked(TRUE)) \cap (gone \cup ListOf("archived")) = {}
     /\ Citable \cap Kept(Stored) = Search({}, FALSE)
     /\ Asked(FALSE) \cap (gone \cup ListOf("archived")) \subseteq starred
     /\ \A a \in Search({}, TRUE) : SourceOf[a] \in Subscriptions

\* Nobody meets an article, or the name, of another reader's source.
NothingOfAnother ==
  /\ \A a \in Stream \cup Search({}, TRUE) \cup Asked(TRUE) \cup Asked(FALSE)
              \cup BriefingCandidates \cup Favourites \cup Enriched :
       BelongsTo[SourceOf[a]] # "another" /\ (SourceOf[a] \in wanted \/ BelongsTo[SourceOf[a]] = "me")
  /\ \A a \in Stream : \A s \in AlsoFrom(a) : BelongsTo[s] # "another"

\* While those without a score fit into the window, the pages together show the
\* list, and no article of a page ranks above one of the page before.
PagesShowToday ==
  Cardinality(Unranked) <= RankWindow =>
    LET pages == TodaysPages
        rows == Ranked \cup Unranked
    IN /\ UNION {p.shown : p \in pages} = ListOf("today")
       /\ \A p, q \in pages : q.number < p.number =>
            \A x, y \in rows : x.id \in p.shown /\ y.id \in q.shown => Higher(y, x)

\* Holds not: past the window an older article with a higher score comes in above
\* the pages that were shown, and is on none of them.
EveryPageShowsToday == UNION {p.shown : p \in TodaysPages} = ListOf("today")

SurfacesInv == CountsMatchLists /\ FoundIsListed /\ NothingOfAnother /\ PagesShowToday
=============================================================================
