---------------------------- MODULE ScoreRefresh ----------------------------
(***************************************************************************)
(* The stored recommendation scores of one reader.  What the reader does   *)
(* marks them stale; recomputations load the reader's taste and the newest *)
(* candidate articles, compute, and write these scores fresh.  One sweep   *)
(* looks for scores that need it, the daily one takes every reader.        *)
(***************************************************************************)
EXTENDS Integers, FiniteSets

CONSTANTS
  Candidates,   \* articles that may be in the reader's feed, in the order of their discovery
  MaxScored,    \* articles that a recomputation loads (a thousand in the code)
  Sweeps,       \* recomputations
  DailySweeps,  \* those that do not ask whether a score needs it
  MaxTaste      \* bound: changes of the reader's taste

ASSUME ScoreAssumption ==
  /\ Candidates \subseteq Nat /\ MaxScored \in Nat \ {0}
  /\ DailySweeps \subseteq Sweeps /\ MaxTaste \in Nat

VARIABLES
  taste,   \* number of changes that a score depends on
  live,    \* articles in the feed: today's and later's
  scores,  \* per article: the taste its score was made from, -1 without a row, and its mark
  sweep    \* per recomputation: what it has loaded

scoreVars == <<taste, live, scores, sweep>>

Tastes == 0 .. MaxTaste
ScoreTypeOK ==
  /\ taste \in Tastes /\ live \subseteq Candidates
  /\ scores \in [Candidates -> [made: Tastes \cup {-1}, stale: BOOLEAN]]
  /\ sweep \in [Sweeps -> [at: {"idle", "loaded"}, taste: Tastes, articles: SUBSET Candidates]]

ScoreInit ==
  /\ taste = 0 /\ live = {}
  /\ scores = [a \in Candidates |-> [made |-> -1, stale |-> FALSE]]
  /\ sweep = [s \in Sweeps |-> [at |-> "idle", taste |-> 0, articles |-> {}]]

Scored(a) == scores[a].made # -1
AllMarked == [a \in Candidates |-> [scores[a] EXCEPT !.stale = Scored(a)]]

\* An article is ingested.
Arrive(a) ==
  /\ a \notin live /\ ~Scored(a)
  /\ live' = live \cup {a}
  /\ UNCHANGED <<taste, scores, sweep>>

\* A workflow action: it changes the taste, may take its article out of the feed
\* or back, and marks the scores in the same transaction.
ActOnArticle(a) ==
  /\ a \in live \/ Scored(a)
  /\ taste < MaxTaste /\ taste' = taste + 1
  /\ live' \in {live \ {a}, live \cup {a}}
  /\ scores' = AllMarked
  /\ UNCHANGED sweep

SavePreferences ==
  /\ taste < MaxTaste /\ taste' = taste + 1
  /\ scores' = AllMarked
  /\ UNCHANGED <<live, sweep>>

\* A goal is added or deleted: the scores depend on it, and nothing marks them.
ChangeGoals ==
  /\ taste < MaxTaste /\ taste' = taste + 1
  /\ UNCHANGED <<live, scores, sweep>>

\* A score that is stale, or an article of the feed that has none.
NeedsScores == \/ \E a \in Candidates : scores[a].stale
               \/ \E a \in live : ~Scored(a)

\* Wrong: the daily sweep takes only the readers that need it.
ChosenByNeed(s) == NeedsScores

ChosenBy(s) == s \in DailySweeps \/ NeedsScores

\* The candidates: of the feed the articles that were discovered last.
NewestLive == {a \in live : Cardinality({b \in live : b > a}) < MaxScored}

LoadTaste(s) ==
  /\ sweep[s].at = "idle" /\ ChosenBy(s)
  /\ sweep' = [sweep EXCEPT ![s] = [at |-> "loaded", taste |-> taste, articles |-> NewestLive]]
  /\ UNCHANGED <<taste, live, scores>>

Loaded(s) == sweep[s].at = "loaded"
ScoredBy(s) == [a \in Candidates |->
  IF a \in sweep[s].articles THEN [made |-> sweep[s].taste, stale |-> FALSE] ELSE scores[a]]

WriteScores(s) ==
  /\ Loaded(s)
  /\ scores' = ScoredBy(s)
  /\ sweep' = [sweep EXCEPT ![s].at = "idle"]
  /\ UNCHANGED <<taste, live>>

\* A reader whose recomputation fails is counted, and the sweep goes on.
FailSweep(s) ==
  /\ Loaded(s)
  /\ sweep' = [sweep EXCEPT ![s].at = "idle"]
  /\ UNCHANGED <<taste, live, scores>>

ScoreNext ==
  \/ \E a \in Candidates : Arrive(a) \/ ActOnArticle(a)
  \/ SavePreferences \/ ChangeGoals
  \/ \E s \in Sweeps : LoadTaste(s) \/ WriteScores(s) \/ FailSweep(s)

\* The daily job runs every day, and a failure of it does not last for ever.
ScoreFairness ==
  \A s \in DailySweeps : WF_scoreVars(LoadTaste(s)) /\ SF_scoreVars(WriteScores(s))

ScoreSpec == ScoreInit /\ [][ScoreNext]_scoreVars /\ ScoreFairness

-----------------------------------------------------------------------------
(* Properties.                                                             *)

\* recommendation_jobs.py:187: a goal marks nothing and a change during a
\* recomputation loses its mark to the write, yet once the reader's taste stays
\* as it is, the scores of the newest articles of the feed are brought up to it.
AllCurrent == \A a \in NewestLive : scores[a].made = taste
ScoresCatchUp == <>[]AllCurrent

\* Holds not: an article of the feed with as many newer ones as a recomputation loads
\* keeps the score, or the lack of one, that it has.
OldScoresCatchUp == <>[](\A a \in live : scores[a].made = taste)
=============================================================================
