--------------------------- MODULE BriefingPipeline ---------------------------
(***************************************************************************)
(* How one reader's briefing is made: five stages, of which a run keeps a  *)
(* record, so that it can be seen later where one stopped.  Requests may   *)
(* overlap, and what is written down of them may be lost, for no failure   *)
(* to write the record stops the work.                                     *)
(***************************************************************************)
EXTENDS Integers, Sequences, FiniteSets, SequencesExt

CONSTANTS
  Stories,      \* 1 .. n, as the selection finds them: by importance
  Weight,       \* importance of each
  ThemeOf,      \* category of each
  Match,        \* points of each for the words of a focus
  Foci,         \* focus prompts; "none" is without one
  Proposals,    \* what the model may answer: numbers of stories, and others
  MaxTasks,     \* bound: requests that start a run
  MaxAttempts,  \* calls of the model
  Sights,       \* what the reader may see, at one time and another
  MaxLost       \* bound: records that are not written

Stages == <<"candidate_selection", "theme_clustering", "drafting", "citation_verification", "assembly">>

ASSUME MakingAssumption ==
  /\ IsFiniteSet(Stories) /\ Stories = 1 .. Cardinality(Stories) /\ "none" \in Foci
  /\ {Weight, Match} \subseteq [Stories -> Int] /\ Proposals \subseteq [cites: SUBSET Int, worth: SUBSET Int]
  /\ \A a, b \in Stories : a < b => Weight[a] >= Weight[b]
  /\ MaxAttempts \in Nat \ {0} /\ {MaxTasks, MaxLost} \subseteq Nat
  /\ Sights \subseteq SUBSET Stories

VARIABLES
  tasks,     \* requests at work: [pc, focus, found, attempt, answer, saved, ended]
  runs,      \* row of each run: [status, briefing, stage]
  stageRows, \* rows of its stages
  table,     \* briefings: [status, focus, by, cites, worth, cited]
  newlyMade, \* briefings not ten minutes old
  lost       \* records that were not written

makingVars == <<tasks, runs, stageRows, table, newlyMade, lost>>

NoDraft == [cites |-> {}, worth |-> {}]
Unset == "unset"

\* What a request held is gone when it is over, but what the properties ask for.
Over(task, how) ==
  [task EXCEPT !.pc = "over", !.ended = how, !.attempt = 1, !.answer = NoDraft,
              !.found = IF how = "returned" \/ task.saved # 0 THEN @ ELSE <<>>]

MakingTypeOK ==
  /\ DOMAIN tasks = DOMAIN runs /\ DOMAIN tasks = DOMAIN stageRows /\ Len(tasks) <= MaxTasks
  /\ \A t \in DOMAIN tasks :
       /\ tasks[t].pc \in ToSet(Stages) \cup {"reread", "over"} /\ tasks[t].focus \in Foci
       /\ tasks[t].attempt \in 1 .. MaxAttempts
       /\ tasks[t].ended \in {"no", "returned", "empty", "failed", "broken", "stopped"}
       /\ runs[t].status \in {"running", "complete", "failed"}
       /\ stageRows[t] \in [ToSet(Stages) -> {Unset, "complete", "failed"}]
  /\ \A b \in DOMAIN table : table[b].cited \subseteq Stories /\ table[b].by \in DOMAIN tasks
  /\ newlyMade \subseteq DOMAIN table /\ lost \in 0 .. MaxLost

MakingInit ==
  /\ tasks = <<>> /\ runs = <<>> /\ stageRows = <<>> /\ table = <<>>
  /\ newlyMade = {} /\ lost = 0

-----------------------------------------------------------------------------
(* Orders.                                                                 *)

\* A set in an order, which is given by its pairs of an earlier and a later one.
Sorted(S, order) ==
  [n \in 1 .. Cardinality(S) |-> CHOOSE x \in S : Cardinality({y \in S : <<y, x>> \in order}) = n - 1]

ByNumber == {p \in Stories \X Stories : p[1] < p[2]}
FoundOf(seen) == Sorted(seen, ByNumber)

\* By points, and of equals the less important first: the sort is reversed as a whole.
ByPoints ==
  {p \in Stories \X Stories :
     \/ Match[p[1]] > Match[p[2]]
     \/ /\ Match[p[1]] = Match[p[2]]
        /\ Weight[p[1]] < Weight[p[2]] \/ (Weight[p[1]] = Weight[p[2]] /\ p[1] < p[2])}
FocusOrder(found) == Sorted(ToSet(found), ByPoints)

\* Wrong: stories that come in a row are a theme, whatever came up before.
ClusteredInRuns(found) == found

\* Themes in the order in which they come up, each with its stories as they came.
ComesUp(found, i) == Min({k \in DOMAIN found : ThemeOf[found[k]] = ThemeOf[found[i]]})
ByTheme(found) ==
  {p \in (DOMAIN found) \X (DOMAIN found) :
     LET k == ComesUp(found, p[1])
         m == ComesUp(found, p[2])
     IN k < m \/ (k = m /\ p[1] < p[2])}
Clustered(found) ==
  LET places == Sorted(DOMAIN found, ByTheme(found))
  IN [n \in DOMAIN found |-> found[places[n]]]

-----------------------------------------------------------------------------
(* The record.                                                             *)

\* What is not written of a step, of the row of the run and of the failed briefing.
Losses == {L \in SUBSET {"step", "run", "row"} : lost + Cardinality(L) <= MaxLost}

Stage(t) == tasks[t].pc
Order(stage) == CHOOSE k \in DOMAIN Stages : Stages[k] = stage
After(stage) == Stages[Order(stage) + 1]

RecordStage(t, status, L) ==
  /\ lost' = lost + Cardinality(L)
  /\ stageRows' = IF "step" \in L THEN stageRows ELSE [stageRows EXCEPT ![t][Stage(t)] = status]

RecordRun(t, row, L) ==
  runs' = IF "run" \in L THEN runs ELSE [runs EXCEPT ![t] = row]

FailedRow(t) ==
  [status |-> "failed", focus |-> tasks[t].focus, by |-> t, cites |-> {}, worth |-> {}, cited |-> {}]

\* A stage ends and the next one begins.
Proceed(t, changed) ==
  \E L \in Losses \cap SUBSET {"step"} :
    /\ RecordStage(t, "complete", L)
    /\ tasks' = [tasks EXCEPT ![t] = changed]
    /\ UNCHANGED <<runs, table, newlyMade>>

\* The stage and the run failed; from drafting and verification, the reader is
\* left a failed briefing.
Fail(t, leavesRow) ==
  \E L \in Losses :
    /\ "row" \in L => leavesRow
    /\ RecordStage(t, "failed", L)
    /\ RecordRun(t, [status |-> "failed", briefing |-> 0, stage |-> Stage(t)], L)
    /\ tasks' = [tasks EXCEPT ![t] = Over(@, "failed")]
    /\ IF leavesRow /\ "row" \notin L
         THEN table' = Append(table, FailedRow(t)) /\ newlyMade' = newlyMade \cup {Len(table) + 1}
         ELSE UNCHANGED <<table, newlyMade>>

-----------------------------------------------------------------------------
(* One request.                                                            *)

\* The newest complete one of this focus is the answer, if it is fresh.
Recent(f) == {b \in newlyMade : table[b].status = "complete" /\ table[b].focus = f}

\* Wrong: any request starts a run.
MayStartAlways(f) == TRUE
MayStart(f) == Recent(f) = {}

GenerateBriefing(f) ==
  /\ Len(tasks) < MaxTasks /\ MayStart(f)
  /\ tasks' = Append(tasks, [pc |-> "candidate_selection", focus |-> f, found |-> <<>>, attempt |-> 1,
                             answer |-> NoDraft, before |-> Len(table), saved |-> 0, ended |-> "no"])
  /\ runs' = Append(runs, [status |-> "running", briefing |-> 0, stage |-> Unset])
  /\ stageRows' = Append(stageRows, [s \in ToSet(Stages) |-> Unset])
  /\ UNCHANGED <<table, newlyMade, lost>>

\* Where there is nothing to make one of, the run is complete without a briefing.
CandidateSelection(t) ==
  /\ Stage(t) = "candidate_selection"
  /\ \E seen \in Sights :
       \/ /\ seen # {}
          /\ Proceed(t, [tasks[t] EXCEPT !.pc = After(@),
                !.found = IF tasks[t].focus = "none" THEN FoundOf(seen) ELSE FocusOrder(FoundOf(seen))])
       \/ /\ seen = {}
          /\ \E L \in Losses \cap SUBSET {"step", "run"} :
               /\ RecordStage(t, "complete", L)
               /\ RecordRun(t, [status |-> "complete", briefing |-> 0, stage |-> Unset], L)
          /\ tasks' = [tasks EXCEPT ![t] = Over(@, "empty")]
          /\ UNCHANGED <<table, newlyMade>>

ThemeClustering(t) ==
  /\ Stage(t) = "theme_clustering"
  /\ Proceed(t, [tasks[t] EXCEPT !.pc = After(@), !.found = Clustered(@)])

\* The model answers, fails and is asked again, or has failed often enough; without
\* a key it is not asked again.
Drafting(t) ==
  /\ Stage(t) = "drafting"
  /\ \/ \E p \in Proposals : Proceed(t, [tasks[t] EXCEPT !.pc = After(@), !.answer = p])
     \/ /\ tasks[t].attempt < MaxAttempts /\ tasks' = [tasks EXCEPT ![t].attempt = @ + 1]
        /\ UNCHANGED <<runs, stageRows, table, newlyMade, lost>>
     \/ Fail(t, TRUE)

\* Wrong: what the model says is cited.
SupportedAsSaid(t, S) == S
\* What it cites is cited if it was among the stories it was given.
Supported(t, S) == S \cap ToSet(tasks[t].found)

\* An answer that lacks a part, or is too long, fails.
CitationVerification(t) ==
  /\ Stage(t) = "citation_verification"
  /\ \/ Proceed(t, [tasks[t] EXCEPT !.pc = After(@),
          !.answer = [cites |-> Supported(t, @.cites), worth |-> Supported(t, @.worth)]])
     \/ Fail(t, TRUE)

\* The briefing and its citations are one transaction; reading it again is another.
Assembly(t) ==
  /\ Stage(t) = "assembly"
  /\ LET answer == tasks[t].answer
     IN \/ /\ table' = Append(table,
                [status |-> "complete", focus |-> tasks[t].focus, by |-> t, cites |-> answer.cites,
                 worth |-> answer.worth, cited |-> (answer.cites \cup answer.worth) \cap ToSet(tasks[t].found)])
           /\ newlyMade' = newlyMade \cup {Len(table) + 1}
           /\ tasks' = [tasks EXCEPT ![t].pc = "reread", ![t].saved = Len(table) + 1,
                                     ![t].attempt = 1, ![t].answer = NoDraft]
           /\ UNCHANGED <<runs, stageRows, lost>>
        \/ Fail(t, FALSE)

ReadAgain(t) ==
  /\ tasks[t].pc = "reread"
  /\ \E L \in Losses \cap SUBSET {"step", "run"}, ok \in BOOLEAN :
       /\ lost' = lost + Cardinality(L)
       /\ stageRows' = IF "step" \in L THEN stageRows
                   ELSE [stageRows EXCEPT ![t]["assembly"] = IF ok THEN "complete" ELSE "failed"]
       /\ RecordRun(t, IF ok THEN [status |-> "complete", briefing |-> tasks[t].saved, stage |-> Unset]
                       ELSE [status |-> "failed", briefing |-> 0, stage |-> "assembly"], L)
       /\ tasks' = [tasks EXCEPT ![t] = Over(@, IF ok THEN "returned" ELSE "failed")]
  /\ UNCHANGED <<table, newlyMade>>

\* An error of another kind than a stage expects: the record says nothing of it.
Break(t) ==
  /\ Stage(t) \in ToSet(Stages) \ {"assembly"}
  /\ tasks' = [tasks EXCEPT ![t] = Over(@, "broken")]
  /\ UNCHANGED <<runs, stageRows, table, newlyMade, lost>>

\* The process stops with all requests in it.
StopAll ==
  /\ \E t \in DOMAIN tasks : tasks[t].pc # "over"
  /\ tasks' = [t \in DOMAIN tasks |->
                 IF tasks[t].pc = "over" THEN tasks[t] ELSE Over(tasks[t], "stopped")]
  /\ UNCHANGED <<runs, stageRows, table, newlyMade, lost>>

TenMinutesPass(b) ==
  /\ b \in newlyMade /\ newlyMade' = {c \in newlyMade : c > b}
  /\ UNCHANGED <<tasks, runs, stageRows, table, lost>>

MakingNext ==
  \/ StopAll
  \/ \E f \in Foci : GenerateBriefing(f)
  \/ \E t \in DOMAIN tasks :
       \/ CandidateSelection(t) \/ ThemeClustering(t) \/ Drafting(t)
       \/ CitationVerification(t) \/ Assembly(t) \/ ReadAgain(t) \/ Break(t)
  \/ \E b \in newlyMade : TenMinutesPass(b)

MakingSpec == MakingInit /\ [][MakingNext]_makingVars

-----------------------------------------------------------------------------
(* What is read.                                                           *)

\* The stories that a reader who sees these is shown with a briefing, and of its
\* text what cites them.
CitedArticles(b, seen) == table[b].cited \cap seen
ShownBriefing(b, seen) ==
  [articles |-> CitedArticles(b, seen), cites |-> table[b].cites \cap CitedArticles(b, seen),
   worth |-> table[b].worth \cap CitedArticles(b, seen)]

-----------------------------------------------------------------------------
(* Properties.                                                             *)

Rows(t, status) == {b \in DOMAIN table : table[b].by = t /\ table[b].status = status}

\* The record tells the story: a run says complete when its request was answered,
\* and names the briefing that was made; it says failed at the stage where the
\* request ended, with no step after it and one failed briefing at the most, none
\* where a whole one was made; and one that says running for ever had an error of
\* another kind, was stopped, or could not be written.
RunTellsStory ==
  \A t \in DOMAIN tasks :
    LET run == runs[t]
    IN /\ run.status = "complete" =>
            tasks[t].ended = IF run.briefing = 0 THEN "empty" ELSE "returned"
       /\ run.briefing # 0 => run.briefing \in Rows(t, "complete")
       /\ run.status = "failed" =>
            /\ tasks[t].ended = "failed" /\ stageRows[t][run.stage] # "complete"
            /\ \A k \in Order(run.stage) + 1 .. Len(Stages) : stageRows[t][Stages[k]] = Unset
            /\ Rows(t, "complete") # {} => run.stage = "assembly"
       /\ run.status = "running" /\ tasks[t].pc = "over" =>
            tasks[t].ended \in {"broken", "stopped"} \/ lost > 0
       /\ Cardinality(Rows(t, "complete")) + Cardinality(Rows(t, "failed")) <= 1
       /\ tasks[t].ended \in {"empty", "broken"} => Rows(t, "failed") \cup Rows(t, "complete") = {}

\* A briefing cites what its request was given, in its text as in its rows, so that
\* all stories of the text can be shown beside it.
BriefingsAreGrounded ==
  \A b \in DOMAIN table :
    /\ table[b].cites \cup table[b].worth = table[b].cited
    /\ table[b].cited \subseteq ToSet(tasks[table[b].by].found)
    /\ \A seen \in Sights :
         LET shown == ShownBriefing(b, seen)
         IN shown.articles = shown.cites \cup shown.worth /\ shown.articles \subseteq seen

\* In ten minutes one focus gets one briefing, but for requests that overlap.
OneInTenMinutes ==
  \A b, c \in newlyMade :
    b < c /\ table[b].status = "complete" /\ table[c].status = "complete" /\ table[b].focus = table[c].focus
      => tasks[table[c].by].before < b

\* The model is given the stories theme by theme, with none lost, and in a theme as
\* they were ranked.
DraftedByTheme ==
  \A t \in DOMAIN tasks : Stage(t) = "drafting" =>
    LET found == tasks[t].found
        ranked(x, y) == IF tasks[t].focus = "none" THEN x < y ELSE Match[x] >= Match[y]
    IN /\ Cardinality(ToSet(found)) = Len(found)
       /\ \A i, j \in DOMAIN found : i < j =>
            /\ ThemeOf[found[i]] = ThemeOf[found[j]] =>
                 /\ ranked(found[i], found[j])
                 /\ \A k \in i .. j : ThemeOf[found[k]] = ThemeOf[found[i]]

\* Holds not: of overlapping requests each makes one.
OneAtAll ==
  \A b, c \in newlyMade :
    table[b].status = "complete" /\ table[c].status = "complete" /\ table[b].focus = table[c].focus => b = c

\* Holds not: a failure to save, or to read again, leaves no failed briefing.
FailureIsLeft ==
  \A t \in DOMAIN tasks : tasks[t].ended = "failed" /\ lost = 0 => Rows(t, "failed") # {}

\* Holds not: a focus has the least important of equals first.
EqualsKeepTheirOrder ==
  \A t \in DOMAIN tasks : Stage(t) = "theme_clustering" =>
    \A i, j \in DOMAIN tasks[t].found :
      i < j /\ Match[tasks[t].found[i]] = Match[tasks[t].found[j]] => tasks[t].found[i] < tasks[t].found[j]

MakingInv == RunTellsStory /\ BriefingsAreGrounded /\ OneInTenMinutes /\ DraftedByTheme
=============================================================================
