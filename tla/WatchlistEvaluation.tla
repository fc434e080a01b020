------------------------ MODULE WatchlistEvaluation ------------------------
(***************************************************************************)
(* Watchlists matched against the articles after each ingestion.  An       *)
(* evaluation takes a snapshot of the enabled watchlists, scores one after *)
(* the other, records a nudge per match and pushes it.  Evaluations of two *)
(* ingestions overlap, watchlists are edited and deleted meanwhile, and    *)
(* retention deletes articles.                                             *)
(***************************************************************************)
EXTENDS Naturals

CONSTANTS
  Watchlists,   \* watchlists of the readers
  Matching,     \* articles that may match
  Evaluations,  \* evaluations, one per ingestion
  NoWatchlist   \* none under evaluation

ASSUME WatchlistAssumption == NoWatchlist \notin Watchlists

VARIABLES
  watch,      \* per watchlist: enabled, disabled or deleted, and whether it pushes
  matchable,       \* articles that have not been deleted
  nudges,     \* rows: pairs of a watchlist and an article
  evaluation, \* per evaluation: its snapshot, its watchlist and its matches
  pushes      \* pushes begun per watchlist and article (auxiliary)

watchlistVars == <<watch, matchable, nudges, evaluation, pushes>>

Watch == [status: {"enabled", "disabled", "deleted"}, push: BOOLEAN]
EvaluationPhases == {"new", "between", "matched", "pushing", "over", "aborted"}

WatchlistTypeOK ==
  /\ watch \in [Watchlists -> Watch] /\ matchable \subseteq Matching
  /\ nudges \subseteq Watchlists \X Matching
  /\ evaluation \in [Evaluations ->
       [at: EvaluationPhases, todo: SUBSET (Watchlists \X BOOLEAN),
        current: Watchlists \cup {NoWatchlist}, push: BOOLEAN, matches: SUBSET Matching]]
  /\ pushes \in [Watchlists \X Matching -> 0 .. 2]

WatchlistInit ==
  /\ watch = [w \in Watchlists |-> [status |-> "enabled", push |-> TRUE]]
  /\ matchable = Matching /\ nudges = {}
  /\ evaluation = [e \in Evaluations |-> [at |-> "new", todo |-> {}, current |-> NoWatchlist,
                                          push |-> FALSE, matches |-> {}]]
  /\ pushes = [n \in Watchlists \X Matching |-> 0]

-----------------------------------------------------------------------------
(* The reader and retention; a deleted row takes its nudges with it.       *)

UpdateWatchlist(w) ==
  /\ watch[w].status # "deleted"
  /\ \E s \in {"enabled", "disabled"}, b \in BOOLEAN :
       watch' = [watch EXCEPT ![w] = [status |-> s, push |-> b]]
  /\ UNCHANGED <<matchable, nudges, evaluation, pushes>>

DeleteWatchlist(w) ==
  /\ watch[w].status # "deleted"
  /\ watch' = [watch EXCEPT ![w].status = "deleted"]
  /\ nudges' = {n \in nudges : n[1] # w}
  /\ UNCHANGED <<matchable, evaluation, pushes>>

DeleteMatching(a) ==
  /\ a \in matchable
  /\ matchable' = matchable \ {a}
  /\ nudges' = {n \in nudges : n[2] # a}
  /\ UNCHANGED <<watch, evaluation, pushes>>

-----------------------------------------------------------------------------
(* An evaluation.                                                          *)

SnapshotEnabled(e) ==
  /\ evaluation[e].at = "new"
  /\ evaluation' = [evaluation EXCEPT ![e].at = "between",
       ![e].todo = {<<w, watch[w].push>> : w \in {v \in Watchlists : watch[v].status = "enabled"}}]
  /\ UNCHANGED <<watch, matchable, nudges, pushes>>

\* The search and the judge yield any of the articles there are now; a search
\* that fails leaves the watchlist out.
ScoreWatchlist(e) ==
  /\ evaluation[e].at = "between"
  /\ \E t \in evaluation[e].todo :
       \/ \E found \in SUBSET matchable :
            evaluation' = [evaluation EXCEPT ![e].at = "matched", ![e].todo = @ \ {t},
                             ![e].current = t[1], ![e].push = t[2], ![e].matches = found]
       \/ evaluation' = [evaluation EXCEPT ![e].todo = @ \ {t}]
  /\ UNCHANGED <<watch, matchable, nudges, pushes>>

\* Wrong: the push goes out whether or not the nudge was new.
RecordAgain(e, a) ==
  LET nudge == <<evaluation[e].current, a>> IN
  /\ evaluation[e].at = "matched" /\ a \in evaluation[e].matches
  /\ watch[nudge[1]].status # "deleted" /\ a \in matchable
  /\ nudges' = nudges \cup {nudge}
  /\ evaluation' = [evaluation EXCEPT ![e].at = "pushing", ![e].matches = @ \ {a}]
  /\ pushes' = [pushes EXCEPT ![nudge] = @ + 1]
  /\ UNCHANGED <<watch, matchable>>

\* What has a nudge is passed over, what gets one may be pushed.
RecordNudge(e, a) ==
  LET nudge == <<evaluation[e].current, a>> IN
  /\ evaluation[e].at = "matched" /\ a \in evaluation[e].matches
  /\ watch[nudge[1]].status # "deleted" /\ a \in matchable
  /\ nudges' = nudges \cup {nudge}
  /\ IF nudge \in nudges \/ ~evaluation[e].push
     THEN /\ evaluation' = [evaluation EXCEPT ![e].matches = @ \ {a}]
          /\ UNCHANGED pushes
     ELSE /\ evaluation' = [evaluation EXCEPT ![e].at = "pushing", ![e].matches = @ \ {a}]
          /\ pushes' = [pushes EXCEPT ![nudge] = @ + 1]
  /\ UNCHANGED <<watch, matchable>>

\* The insert refers to a row that has been deleted: the error is not caught.
RecordRefused(e, a) ==
  /\ evaluation[e].at = "matched" /\ a \in evaluation[e].matches
  /\ watch[evaluation[e].current].status = "deleted" \/ a \notin matchable
  /\ evaluation' = [evaluation EXCEPT ![e].at = "aborted", ![e].matches = {}]
  /\ UNCHANGED <<watch, matchable, nudges, pushes>>

\* A push that fails is logged, and the next match is taken.
PushEnds(e) ==
  /\ evaluation[e].at = "pushing"
  /\ evaluation' = [evaluation EXCEPT ![e].at = "matched"]
  /\ UNCHANGED <<watch, matchable, nudges, pushes>>

NextWatchlist(e) ==
  /\ evaluation[e].at = "matched" /\ evaluation[e].matches = {}
  /\ evaluation' = [evaluation EXCEPT ![e].at = "between", ![e].current = NoWatchlist]
  /\ UNCHANGED <<watch, matchable, nudges, pushes>>

EndEvaluation(e) ==
  /\ evaluation[e].at = "between" /\ evaluation[e].todo = {}
  /\ evaluation' = [evaluation EXCEPT ![e].at = "over"]
  /\ UNCHANGED <<watch, matchable, nudges, pushes>>

\* The process stops.
LoseEvaluation(e) ==
  /\ evaluation[e].at \in {"between", "matched", "pushing"}
  /\ evaluation' = [evaluation EXCEPT ![e].at = "over", ![e].todo = {}, ![e].matches = {}]
  /\ UNCHANGED <<watch, matchable, nudges, pushes>>

WatchlistNext ==
  \/ \E w \in Watchlists : UpdateWatchlist(w) \/ DeleteWatchlist(w)
  \/ \E a \in Matching : DeleteMatching(a)
  \/ \E e \in Evaluations :
       \/ SnapshotEnabled(e) \/ ScoreWatchlist(e) \/ PushEnds(e)
       \/ NextWatchlist(e) \/ EndEvaluation(e) \/ LoseEvaluation(e)
       \/ \E a \in Matching : RecordNudge(e, a) \/ RecordRefused(e, a)

WatchlistSpec == WatchlistInit /\ [][WatchlistNext]_watchlistVars

-----------------------------------------------------------------------------
(* Properties.                                                             *)

\* watchlist_agent.py:369: however evaluations overlap, stop and are repeated,
\* one match is pushed once, and what has been pushed is among the nudges as
\* long as its watchlist and its article are there.
OnePushPerMatch ==
  \A w \in Watchlists, a \in Matching :
    /\ pushes[w, a] <= 1
    /\ (pushes[w, a] = 1 /\ watch[w].status # "deleted" /\ a \in matchable) => <<w, a>> \in nudges

\* watchlist_agent.py:372: "A failure evaluating one watchlist does not stop the
\* others."
OthersAreEvaluated ==
  \A e \in Evaluations : evaluation[e].at = "aborted" => evaluation[e].todo = {}
=============================================================================
