----------------------------- MODULE MCServices -----------------------------
(* Small instances, for TLC, of the modules about what is generated, sent   *)
(* and executed for a reader, each explored by itself as in MCArticles.     *)
EXTENDS BriefingEnrichment, AgentActions, PushTransport, WeeklyRecap, BriefingBudget,
        ArticleContent, ScoreRefresh, FeedFetch, PageFetch, LessonPipeline, BriefingPipeline, Shares,
        LessonRecaps

VARIABLE part
servicesVars == <<part, enrichmentVars, agentVars, pushVars, recapVars, budgetVars,
                  contentVars, scoreVars, fetchVars, pageVars, pipelineVars, makingVars,
                  sharesVars, learningVars>>

\* A part that does not move begins in one of its initial states.
Still(q) == part # "agent" => asked[q].verb = "approve" /\ asked[q].admin
ServicesInit ==
  /\ part \in {"enrichment", "agent", "push", "recap", "budget", "content", "score", "feed", "page", "pipeline",
              "making", "shares", "learning"}
  /\ EnrichmentInit /\ PushInit /\ ScoreInit /\ MakingInit /\ SharesInit /\ RecapsInit
  /\ FetchInit /\ (part = "feed" \/ kind = "feed")
  /\ PageInit /\ (part = "page" \/ setting = [who |-> "article", proxy |-> TRUE, amp |-> TRUE, key |-> TRUE])
  /\ PipelineInit /\ (part = "pipeline" \/ (page.text = <<>> /\ claims = 1 /\ graph.of = "nothing"))
  /\ AgentInit /\ (\A q \in Requests : Still(q))
  /\ RecapInit /\ (part = "recap" \/ (recap.format = "none" /\ \A r \in Recappers : recapper[r].push))
  /\ ContentInit /\ (part = "content" \/ post)
  /\ BudgetInit
  /\ part = "budget" \/ (given.articles = <<>> /\ given.sections = <<>> /\ given.worth = <<>>)

ServicesNext ==
  /\ UNCHANGED part
  /\ \/ /\ part = "enrichment" /\ EnrichmentNext
        /\ UNCHANGED <<agentVars, pushVars, recapVars, budgetVars, contentVars, scoreVars, fetchVars, pageVars, pipelineVars, makingVars, sharesVars, learningVars>>
     \/ /\ part = "agent" /\ AgentNext
        /\ UNCHANGED <<enrichmentVars, pushVars, recapVars, budgetVars, contentVars, scoreVars, fetchVars, pageVars, pipelineVars, makingVars, sharesVars, learningVars>>
     \/ /\ part = "push" /\ PushNext
        /\ UNCHANGED <<enrichmentVars, agentVars, recapVars, budgetVars, contentVars, scoreVars, fetchVars, pageVars, pipelineVars, makingVars, sharesVars, learningVars>>
     \/ /\ part = "recap" /\ RecapNext
        /\ UNCHANGED <<enrichmentVars, agentVars, pushVars, budgetVars, contentVars, scoreVars, fetchVars, pageVars, pipelineVars, makingVars, sharesVars, learningVars>>
     \/ /\ part = "budget" /\ BudgetNext
        /\ UNCHANGED <<enrichmentVars, agentVars, pushVars, recapVars, contentVars, scoreVars, fetchVars, pageVars, pipelineVars, makingVars, sharesVars, learningVars>>
     \/ /\ part = "content" /\ ContentNext
        /\ UNCHANGED <<enrichmentVars, agentVars, pushVars, recapVars, budgetVars, scoreVars, fetchVars, pageVars, pipelineVars, makingVars, sharesVars, learningVars>>
     \/ /\ part = "score" /\ ScoreNext
        /\ UNCHANGED <<enrichmentVars, agentVars, pushVars, recapVars, budgetVars, contentVars, fetchVars, pageVars, pipelineVars, makingVars, sharesVars, learningVars>>
     \/ /\ part = "feed" /\ FetchNext
        /\ UNCHANGED <<enrichmentVars, agentVars, pushVars, recapVars, budgetVars, contentVars, scoreVars, pageVars, pipelineVars, makingVars, sharesVars, learningVars>>
     \/ /\ part = "page" /\ PageNext
        /\ UNCHANGED <<enrichmentVars, agentVars, pushVars, recapVars, budgetVars, contentVars, scoreVars, fetchVars, pipelineVars, makingVars, sharesVars, learningVars>>
     \/ /\ part = "pipeline" /\ PipelineNext
        /\ UNCHANGED <<enrichmentVars, agentVars, pushVars, recapVars, budgetVars, contentVars, scoreVars, fetchVars, pageVars, makingVars, sharesVars, learningVars>>
     \/ /\ part = "making" /\ MakingNext
        /\ UNCHANGED <<enrichmentVars, agentVars, pushVars, recapVars, budgetVars, contentVars, scoreVars, fetchVars, pageVars, pipelineVars, sharesVars, learningVars>>
     \/ /\ part = "shares" /\ SharesNext
        /\ UNCHANGED <<enrichmentVars, agentVars, pushVars, recapVars, budgetVars, contentVars, scoreVars, fetchVars, pageVars, pipelineVars, makingVars, learningVars>>
     \/ /\ part = "learning" /\ RecapsNext
        /\ UNCHANGED <<enrichmentVars, agentVars, pushVars, recapVars, budgetVars, contentVars, scoreVars, fetchVars, pageVars, pipelineVars, makingVars, sharesVars>>

ServicesSpec == ServicesInit /\ [][ServicesNext]_servicesVars /\ ScoreFairness /\ FetchFairness

\* The types of all parts.
ServicesTypeOK ==
  /\ EnrichmentTypeOK /\ AgentTypeOK /\ PushTypeOK /\ RecapTypeOK /\ BudgetTypeOK
  /\ ContentTypeOK /\ ScoreTypeOK /\ FetchTypeOK /\ PageTypeOK /\ PipelineTypeOK
  /\ MakingTypeOK /\ SharesTypeOK /\ RecapsTypeOK

\* What is given is what was accepted, and what is said of the rest is true: of
\* an answer, of the report of a check, of the text of a page, of the runs that make a
\* lesson or a briefing, of a share, and of what was learned in a week.
TalliesAreTrue ==
  /\ BudgetInv /\ ReportedIsStored /\ PageInv /\ PipelineInv /\ MakingInv
  /\ SharesInv /\ RecapsInv

\* Work ends: scores catch up with the reader, and a check with its feed.
WorkEnds == ScoresCatchUp /\ CheckEnds

\* Stored briefings: repeated, malformed and surplus ids and sections, and values that
\* are no lists.
UpTo(n, S) == UNION {[1 .. k -> S] : k \in 0 .. n}
MCListed == UpTo(2, {0, 1, 2, 3}) \cup {<<1, 2, 3>>, <<1, 1, 2>>, <<3, 0, 1>>, <<2, 3, 2>>, <<3, 2, 1>>, NotAList}
MCSectioned == UpTo(3, {Malformed, <<1, 2>>, <<3, 0, 3>>}) \cup {<<NotAList>>, <<<<1, 2>>, NotAList>>}
MCWorthy == {<<>>, <<2>>, <<1, 3, 1>>}

\* Pages: with and without names, unreadable, and with a sentence that is too long.
MCPage(title, site, text, wordy) == [title |-> title, site |-> site, text |-> text, wordy |-> wordy]
MCPages ==
  {MCPage("title", "site", <<"s2", "s1", "s2">>, FALSE), MCPage("none", "blank", <<"s1">>, FALSE),
   MCPage("blank", "site", <<"s1">>, FALSE), MCPage("title", "none", <<"s1">>, TRUE),
   MCPage("title", "site", <<>>, FALSE)}
MCSlugOf == [n \in Names |-> IF n \in {"s1", "s2"} THEN "s" ELSE IF n = "site" THEN "title" ELSE n]

MCSights == {{}, {2, 3}, {1, 2, 3}}

\* Three stories of two themes, two of them of one weight; an answer cites stories
\* and numbers that are none.
MCWeight == <<9, 5, 5>>
MCThemeOf == <<"x", "y", "x">>
MCMatch == <<1, 2, 1>>
MCTaughtBy == <<<<"x", "y", "x", "y">>>>
MCProposals == {[cites |-> {1, 7}, worth |-> {2, 8}]}
=============================================================================
