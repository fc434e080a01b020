----------------------------- MODULE LessonShelf -----------------------------
(***************************************************************************)
(* What one reader is shown of their lessons: the list, page by page, while *)
(* lessons are added; the trail that leads from a lesson to others and to  *)
(* articles; and the articles that are suggested for a lesson.             *)
(***************************************************************************)
EXTENDS Integers, Sequences, FiniteSets, SequencesExt

CONSTANTS
  Links,      \* articles in the order of their discovery: 1 .. n
  ContentOf,     \* of each: [terms, concept, rank, length, importance, score]
  PageLimit,     \* lessons to a page
  GroupLimit,    \* items in a group of a trail
  TrailPool,     \* lessons, and articles, that are considered for a trail
  PoolLimit,     \* articles that are considered for a suggestion
  Suggestions,   \* suggestions in an answer
  MaxChanges     \* bound: changes of mind of the reader

ASSUME ShelfAssumption ==
  /\ IsFiniteSet(Links) /\ Links # {} /\ Links = 1 .. Cardinality(Links)
  /\ {PageLimit, GroupLimit, TrailPool, PoolLimit, Suggestions} \subseteq Nat \ {0} /\ MaxChanges \in Nat
  /\ \A a \in Links : ContentOf[a].importance \in 0 .. 100 /\ ContentOf[a].length \in Nat
                        /\ ContentOf[a].score \in Int

VARIABLES
  lessons,     \* lessons, the oldest first; a lesson is named by its article
  state,       \* of each article: pending, complete, failed or no lesson
  liked,       \* articles that are starred (done ones are suggested alike)
  dismissed,   \* suggestions that were dismissed
  hidden,      \* articles of sources that the reader does not see
  reader,      \* the reader in front of the list
  changes

shelfVars == <<lessons, state, liked, dismissed, hidden, reader, changes>>

Away == [open |-> FALSE, offset |-> 0, seen |-> {}, begun |-> {}]

ShelfTypeOK ==
  /\ \A i \in DOMAIN lessons : lessons[i] \in Links /\ state[lessons[i]] # "no"
  /\ state \in [Links -> {"no", "pending", "complete", "failed"}]
  /\ liked \subseteq Links /\ dismissed \subseteq Links /\ hidden \subseteq Links
  /\ reader \in [open: BOOLEAN, offset: Nat, seen: SUBSET Links, begun: SUBSET Links]
  /\ changes \in 0 .. MaxChanges

ShelfInit ==
  /\ lessons = <<>> /\ state = [a \in Links |-> "no"]
  /\ liked = {} /\ dismissed = {} /\ hidden \in {{}, {Cardinality(Links)}}
  /\ reader = Away /\ changes = 0

-----------------------------------------------------------------------------
(* The list.                                                               *)

Part(s, first, last) == SubSeq(s, first, IF last < Len(s) THEN last ELSE Len(s))

\* Wrong: the next page begins after what this one may hold and one more.
PageAtSkipping(offset) == Part(Reverse(lessons), offset + 2, offset + PageLimit)
PageAt(offset) == Part(Reverse(lessons), offset + 1, offset + PageLimit)

Read(offset, seen, begun) ==
  reader' = [open |-> offset + PageLimit < Len(lessons),
             offset |-> offset + PageLimit,
             seen |-> seen \cup ToSet(PageAt(offset)), begun |-> begun]

FirstPage ==
  /\ Read(0, {}, ToSet(lessons))
  /\ UNCHANGED <<lessons, state, liked, dismissed, hidden, changes>>

NextPage ==
  /\ reader.open
  /\ Read(reader.offset, reader.seen, reader.begun)
  /\ UNCHANGED <<lessons, state, liked, dismissed, hidden, changes>>

\* A link that has a lesson keeps its place in the list.
CreateLesson(a) ==
  /\ lessons' = IF state[a] = "no" THEN Append(lessons, a) ELSE lessons
  /\ state' = [state EXCEPT ![a] = "pending"]
  /\ UNCHANGED <<liked, dismissed, hidden, reader, changes>>

EndLesson(a) ==
  /\ state[a] = "pending"
  /\ \E s \in {"complete", "failed"} : state' = [state EXCEPT ![a] = s]
  /\ UNCHANGED <<lessons, liked, dismissed, hidden, reader, changes>>

Like(a) ==
  /\ changes < MaxChanges /\ changes' = changes + 1
  /\ liked' = IF a \in liked THEN liked \ {a} ELSE liked \cup {a}
  /\ UNCHANGED <<lessons, state, dismissed, hidden, reader>>

Dismiss(a) ==
  /\ changes < MaxChanges /\ changes' = changes + 1
  /\ dismissed' = dismissed \cup {a}
  /\ UNCHANGED <<lessons, state, liked, hidden, reader>>

ShelfNext ==
  \/ FirstPage \/ NextPage
  \/ \E a \in Links : CreateLesson(a) \/ EndLesson(a) \/ Like(a) \/ Dismiss(a)

ShelfSpec == ShelfInit /\ [][ShelfNext]_shelfVars

-----------------------------------------------------------------------------
(* The trail from a lesson.                                                *)

Paths == {"prerequisite", "easier", "adjacent", "deeper"}
Shared(l, a) == ContentOf[l].terms \cap ContentOf[a].terms

\* Another lesson: a deeper one first of all.
LessonPath(l, a) ==
  IF ContentOf[a].rank > ContentOf[l].rank THEN "deeper"
  ELSE IF ContentOf[l].concept \in Shared(l, a) THEN "prerequisite"
  ELSE IF ContentOf[a].rank < ContentOf[l].rank THEN "easier"
  ELSE "adjacent"

\* An article: background first of all.
ArticlePath(l, a) ==
  IF ContentOf[l].concept \in Shared(l, a) THEN "prerequisite"
  ELSE IF 2 * ContentOf[a].length < ContentOf[l].length THEN "easier"
  ELSE IF ContentOf[a].importance >= 80 \/ ContentOf[a].length > ContentOf[l].length THEN "deeper"
  ELSE "adjacent"

\* A set in an order, which is a relation: at each place what has as many before it.
Ordered(S, order) ==
  [i \in 1 .. Cardinality(S) |-> CHOOSE x \in S : Cardinality({y \in S : <<y, x>> \in order}) = i - 1]

\* The reader's complete lessons, the newest first.
AddedLater ==
  {p \in Links \X Links : \E i, j \in DOMAIN lessons : i > j /\ lessons[i] = p[1] /\ lessons[j] = p[2]}
OtherLessons(l) ==
  Part(Ordered({a \in ToSet(lessons) : a # l /\ state[a] = "complete"}, AddedLater), 1, TrailPool)

\* The articles the reader sees: liked ones, then important ones, then new ones.
Sooner ==
  {p \in Links \X Links :
     LET a == ContentOf[p[1]].importance
         b == ContentOf[p[2]].importance
     IN \/ p[1] \in liked /\ p[2] \notin liked
        \/ (p[1] \in liked <=> p[2] \in liked) /\ (a > b \/ (a = b /\ p[1] > p[2]))}
Corpus == Part(Ordered(Links \ hidden, Sooner), 1, TrailPool)

Items(l) ==
  LET others == OtherLessons(l)
      articles == Corpus
  IN [i \in DOMAIN others |-> [type |-> "lesson", id |-> others[i], path |-> LessonPath(l, others[i])]]
       \o [i \in DOMAIN articles |->
             [type |-> "article", id |-> articles[i], path |-> ArticlePath(l, articles[i])]]

\* Wrong: a group takes one more.
AddItemLate(groups, item) ==
  IF Len(groups[item.path]) > GroupLimit THEN groups
  ELSE [groups EXCEPT ![item.path] = Append(@, item)]
\* An item goes to its group while there is room.
AddItem(groups, item) ==
  IF \/ Len(groups[item.path]) >= GroupLimit
     \/ \E p \in Paths : \E i \in DOMAIN groups[p] :
          groups[p][i].type = item.type /\ groups[p][i].id = item.id
  THEN groups
  ELSE [groups EXCEPT ![item.path] = Append(@, item)]

\* What has nothing in common with the lesson is passed over.
Trail(l) ==
  FoldLeft(LAMBDA groups, item : IF Shared(l, item.id) = {} THEN groups ELSE AddItem(groups, item),
           [p \in Paths |-> <<>>], Items(l))

-----------------------------------------------------------------------------
(* Suggestions.                                                            *)

Newer == {p \in Links \X Links : p[1] > p[2]}
Pool == Part(Ordered(liked \ hidden, Newer), 1, PoolLimit)

\* Wrong: what is left out does not make room for another.
EligibleAmongFirst == {a \in ToSet(Part(Pool, 1, Suggestions)) : a \notin dismissed /\ state[a] = "no"}
Eligible == {a \in ToSet(Pool) : a \notin dismissed /\ state[a] = "no"}

Better ==
  {p \in Links \X Links :
     \/ ContentOf[p[1]].score > ContentOf[p[2]].score
     \/ ContentOf[p[1]].score = ContentOf[p[2]].score /\ p \in Newer}
Suggested == Part(Ordered(Eligible, Better), 1, Suggestions)

-----------------------------------------------------------------------------
(* Properties.                                                             *)

\* Whoever reads on to the last page has seen every lesson that was there at the
\* first, although lessons are added in front meanwhile.
PagesMissNothing == ~reader.open => reader.begun \subseteq reader.seen

\* A trail leads elsewhere, to each place once; what has something in common with
\* the lesson and is considered is missing only from a full group; and whatever treats the concept
\* of the lesson is called background, but for a lesson that goes deeper.
TrailLeadsOn ==
  \A l \in {l \in Links : state[l] = "complete"} :
    LET trail == Trail(l)
        shown == UNION {ToSet(trail[p]) : p \in Paths}
    IN /\ \A p \in Paths : Len(trail[p]) <= GroupLimit
       /\ Cardinality(shown) = Len(trail["prerequisite"]) + Len(trail["easier"])
                                 + Len(trail["adjacent"]) + Len(trail["deeper"])
       /\ \A item \in shown : item.type = "lesson" => item.id # l /\ state[item.id] = "complete"
       /\ \A item \in shown : item.type = "article" => item.id \notin hidden
       /\ \A item \in ToSet(Items(l)) \ shown :
            Shared(l, item.id) = {} \/ Len(trail[item.path]) = GroupLimit
       /\ \A item \in shown :
            ContentOf[l].concept \in Shared(l, item.id) =>
              item.path = "prerequisite" \/ (item.type = "lesson" /\ item.path = "deeper")

\* No article is suggested that was dismissed or has a lesson; and while the liked
\* articles fit into the pool, the best of the rest are all suggested.
SuggestionsAreBest ==
  /\ \A a \in ToSet(Suggested) : a \in liked \ (dismissed \cup hidden) /\ state[a] = "no"
  /\ LET rest == {a \in liked \ (dismissed \cup hidden) : state[a] = "no"}
     IN Cardinality(liked \ hidden) <= PoolLimit =>
          \A a \in rest \ ToSet(Suggested) :
            Len(Suggested) = Suggestions /\ \A b \in ToSet(Suggested) : <<b, a>> \in Better

\* Holds not: articles beyond the pool are never suggested, although those in the
\* pool were all dismissed or have lessons.
SomethingIsSuggested ==
  (\E a \in liked \ (dismissed \cup hidden) : state[a] = "no") => Suggested # <<>>

ShelfInv == PagesMissNothing /\ TrailLeadsOn /\ SuggestionsAreBest
=============================================================================
