--------------------------- MODULE LessonPipeline ---------------------------
(***************************************************************************)
(* One run of the pipeline that makes a lesson from a page, step by step:  *)
(* what each step makes of the page, the row that records the step, and    *)
(* what is left of the lesson, of its graph and of the run when steps or   *)
(* their bookkeeping fail.  How runs of one lesson overlap is the subject  *)
(* of LessonGeneration.                                                    *)
(***************************************************************************)
EXTENDS Naturals, Sequences, FiniteSets

CONSTANTS
  Sentences,   \* sentences of pages
  Pages,       \* pages: [title, site, text, wordy], see Page
  Claims,      \* key claims that a depth asks for
  SlugOf       \* the slug of each name; names may share one

Names == {"url", "title", "site", "context"} \cup Sentences
Page == [title: {"none", "title", "blank"}, site: {"none", "site", "blank"},
         text: Seq(Sentences), wordy: BOOLEAN]

ASSUME PipelineAssumption ==
  /\ Pages \subseteq Page
  /\ \A p \in Pages : p.text = <<>> => ~p.wordy
  /\ Claims \subseteq Nat \ {0}
  /\ DOMAIN SlugOf = Names

VARIABLES
  page,      \* the page: title, site, text (<<>>: unreadable), a first sentence too long for a gist
  claims,    \* how many claims are wanted
  node,      \* where the run is
  steps,     \* the rows of its steps
  fields,    \* what it has made so far
  failure,   \* the step that failed it
  lesson,    \* the row of the lesson
  history,   \* the row of the generation
  graph,     \* nodes and edges that are stored
  run        \* the row of the run

pipelineVars == <<page, claims, node, steps, fields, failure, lesson, history, graph, run>>

StepNames == {"fetch", "extraction", "synthesis", "citation_verification", "persistence"}
Nodes == StepNames \cup {"relevance", "graph", "recording", "failing", "failed_recording",
                         "finishing", "escaped", "over"}
NoFields == [title |-> "none", site |-> "none", text |-> <<>>, claims |-> <<>>, cited |-> "none",
             entities |-> {}, relations |-> {}, relevance |-> "none"]

-----------------------------------------------------------------------------
(* What the steps make of the page.                                        *)

\* The claims are the first sentences, the first of which is the gist and cited.
Synthesized(f) ==
  [f EXCEPT !.claims = SubSeq(f.text, 1, IF Len(f.text) < claims THEN Len(f.text) ELSE claims),
            !.cited = f.text[1]]

\* The snippet is found in the text and its source, the title, in the metadata.
Grounded(f) == \E i \in DOMAIN f.text : f.text[i] = f.cited

\* A gist and a citation are written as they stand: a first sentence that is too
\* long for a gist and a blank title make no lesson.
Unusable(f) == page.wordy \/ f.title = "blank"

\* The context ties the concept to the names that the page mentions, by type and slug.
Key(type, name) == <<type, SlugOf[name]>>
Mentioned(f) == {f.title, f.site} \ {"none", "blank"}
Entities(f) == {Key("concept", "context")} \cup {Key("org", n) : n \in Mentioned(f)}
Relations(f) == {<<Key("concept", "context"), Key("org", n)>> : n \in Mentioned(f)}

\* The graph has a node for the title, the site, the concept, each claim and each
\* source cited; a blank name has none.
Named(f) ==
  {n \in {<<"article", f.title>>, <<"concept", "context">>, <<"entity", f.title>>, <<"entity", f.site>>}
           \cup {<<"concept", f.claims[i]>> : i \in DOMAIN f.claims} :
     n[2] \notin {"none", "blank"}}
GraphNodes(f) == {Key(n[1], n[2]) : n \in Named(f)}

\* Wrong: the name of a node is taken for its key.
EdgesByName(f) == {<<Key("article", f.title), n>> : n \in Named(f) \ {<<"article", f.title>>}}
\* Edges lead from the title to the rest.
GraphEdges(f) ==
  {<<Key("article", f.title), Key(n[1], n[2])>> : n \in Named(f) \ {<<"article", f.title>>}}

-----------------------------------------------------------------------------
PipelineTypeOK ==
  /\ page \in Pages /\ claims \in Claims /\ node \in Nodes
  /\ steps \in [StepNames -> {"none", "complete", "failed"}]
  /\ failure \in StepNames \cup {"none"}
  /\ fields.relevance \in {"none", "no_data", "not_configured", "explained", "fallback"}
  /\ lesson.status \in {"pending", "complete", "failed"}
  /\ history \in {"none", "complete", "failed"}
  /\ graph.of \in {"nothing", "older", "this"}
  /\ run \in [status: {"running", "complete", "failed"}, failed: StepNames \cup {"none"}]

\* A graph may be left from an earlier text of the lesson.
PipelineInit ==
  /\ page \in Pages /\ claims \in Claims /\ node = "fetch"
  /\ steps = [s \in StepNames |-> "none"]
  /\ fields = NoFields /\ failure = "none"
  /\ lesson = [status |-> "pending", shows |-> NoFields]
  /\ history = "none"
  /\ graph \in [of: {"nothing", "older"}, nodes: {{}}, edges: {{}}]
  /\ run = [status |-> "running", failed |-> "none"]

\* The row of a step is written, or its failure is only logged.
RecordStep(s, status) == steps' \in {steps, [steps EXCEPT ![s] = status]}

\* Likewise the end of the run.
FinishRunRow(status, failed) ==
  run' \in {run, [status |-> status, failed |-> failed]}

\* Title, site and author are wanted and not needed.
FetchNode ==
  /\ node = "fetch" /\ node' = "extraction"
  /\ \/ /\ RecordStep("fetch", "complete")
        /\ fields' = [fields EXCEPT !.title = IF page.title = "none" THEN "url" ELSE page.title,
                                    !.site = page.site]
     \/ /\ RecordStep("fetch", "failed")
        /\ fields' = [fields EXCEPT !.title = "url"]
  /\ UNCHANGED <<page, claims, failure, lesson, history, graph, run>>

FailAt(s) == failure' = s /\ node' = "failing"

\* A page that can be read may still fail to be.
ExtractionNode ==
  /\ node = "extraction"
  /\ \/ /\ page.text # <<>>
        /\ RecordStep("extraction", "complete")
        /\ fields' = [fields EXCEPT !.text = page.text]
        /\ node' = "synthesis" /\ UNCHANGED failure
     \/ RecordStep("extraction", "failed") /\ FailAt("extraction") /\ UNCHANGED fields
  /\ UNCHANGED <<page, claims, lesson, history, graph, run>>

SynthesisNode ==
  /\ node = "synthesis"
  /\ IF Unusable(fields)
     THEN RecordStep("synthesis", "failed") /\ FailAt("synthesis") /\ UNCHANGED fields
     ELSE /\ RecordStep("synthesis", "complete")
          /\ fields' = Synthesized(fields)
          /\ node' = "citation_verification" /\ UNCHANGED failure
  /\ UNCHANGED <<page, claims, lesson, history, graph, run>>

\* The graph context is wanted and not needed.
CitationNode ==
  /\ node = "citation_verification"
  /\ IF Grounded(fields)
     THEN /\ RecordStep("citation_verification", "complete")
          /\ fields' \in {fields, [fields EXCEPT !.entities = Entities(fields),
                                               !.relations = Relations(fields)]}
          /\ node' = "relevance" /\ UNCHANGED failure
     ELSE RecordStep("citation_verification", "failed")
          /\ FailAt("citation_verification") /\ UNCHANGED fields
  /\ UNCHANGED <<page, claims, lesson, history, graph, run>>

\* Nothing is known of the reader, no model is configured, it answers, or it fails.
RelevanceNode ==
  /\ node = "relevance" /\ node' = "persistence"
  /\ \E r \in {"no_data", "not_configured", "explained", "fallback"} :
       fields' = [fields EXCEPT !.relevance = r]
  /\ UNCHANGED <<page, claims, steps, failure, lesson, history, graph, run>>

-----------------------------------------------------------------------------
(* Persistence: the lesson, its graph and its history are three transactions. *)

\* Wrong: an exception is recorded and the run goes on.
EscapeLogged ==
  /\ RecordStep("persistence", "failed")
  /\ node' = "finishing" /\ UNCHANGED failure
\* An exception is recorded, fails the run and leaves the task.
Escape ==
  /\ RecordStep("persistence", "failed")
  /\ node' = "escaped" /\ failure' = "persistence"

UpdateLesson ==
  /\ node = "persistence"
  /\ \/ /\ lesson' = [status |-> "complete", shows |-> fields]
        /\ node' = "graph" /\ UNCHANGED <<steps, failure>>
     \/ Escape /\ UNCHANGED lesson
  /\ UNCHANGED <<page, claims, fields, history, graph, run>>

\* The rows of an earlier text are replaced, unless the transaction fails, which
\* is only logged.
PersistGraph ==
  /\ node = "graph" /\ node' = "recording"
  /\ graph' \in {graph, [of |-> "this", nodes |-> GraphNodes(fields), edges |-> GraphEdges(fields)]}
  /\ UNCHANGED <<page, claims, steps, fields, failure, lesson, history, run>>

RecordHistory ==
  /\ node = "recording"
  /\ \/ /\ history' = "complete" /\ RecordStep("persistence", "complete")
        /\ node' = "finishing" /\ UNCHANGED failure
     \/ Escape /\ UNCHANGED history
  /\ UNCHANGED <<page, claims, fields, lesson, graph, run>>

FinishComplete ==
  /\ node = "finishing" /\ node' = "over"
  /\ FinishRunRow("complete", "none")
  /\ UNCHANGED <<page, claims, steps, fields, failure, lesson, history, graph>>

FinishEscaped ==
  /\ node = "escaped" /\ node' = "over"
  /\ FinishRunRow("failed", failure)
  /\ UNCHANGED <<page, claims, steps, fields, failure, lesson, history, graph>>

\* The failing of the lesson and its history; an exception here leaves the task
\* with the run still said to be running.
FailLesson ==
  /\ node = "failing"
  /\ \/ /\ lesson' = [status |-> "failed", shows |-> NoFields] /\ node' = "failed_recording"
     \/ node' = "over" /\ UNCHANGED lesson
  /\ UNCHANGED <<page, claims, steps, fields, failure, history, graph, run>>

FinishFailed ==
  /\ node = "failed_recording" /\ node' = "over"
  /\ \/ history' = "failed" /\ FinishRunRow("failed", failure)
     \/ UNCHANGED <<history, run>>
  /\ UNCHANGED <<page, claims, steps, fields, failure, lesson, graph>>

PipelineNext ==
  \/ FetchNode \/ ExtractionNode \/ SynthesisNode \/ CitationNode \/ RelevanceNode
  \/ UpdateLesson \/ PersistGraph \/ RecordHistory
  \/ FinishComplete \/ FinishEscaped \/ FailLesson \/ FinishFailed

PipelineSpec == PipelineInit /\ [][PipelineNext]_pipelineVars

-----------------------------------------------------------------------------
(* Properties.                                                             *)

Before(s) ==
  CASE s = "fetch" -> {} [] s = "extraction" -> {"fetch"} [] s = "synthesis" -> {"fetch", "extraction"}
    [] s = "citation_verification" -> {"fetch", "extraction", "synthesis"}
    [] OTHER -> StepNames \ {"persistence"}

\* The rows that were written of a run tell what became of it, whichever of them
\* were lost: a step follows steps that did not fail, but for the fetching of
\* metadata; a complete run has recorded its lesson and its history; a run that
\* failed at a step recorded nothing after it, and left a lesson unshown unless
\* what failed was to record it.
StepsTellTheRun ==
  /\ \A s \in StepNames : steps[s] # "none" => \A b \in Before(s) \ {"fetch"} : steps[b] # "failed"
  /\ run.status = "complete" =>
       /\ lesson.status = "complete" /\ history = "complete"
       /\ \A s \in StepNames \ {"fetch"} : steps[s] # "failed"
  /\ run.status = "failed" =>
       /\ run.failed # "none" /\ steps[run.failed] # "complete"
       /\ \A s \in StepNames : run.failed \in Before(s) => steps[s] = "none"
       /\ history # "complete"
       /\ lesson.status = "complete" => run.failed = "persistence"

\* What is shown is whole: it has a title and claims, cites its own text and says
\* why it matters to the reader; its context and its graph are closed, whatever
\* names coincide, and the graph is of the text unless its writing has failed.
LessonIsWhole ==
  /\ lesson.status = "complete" =>
       /\ lesson.shows.title # "none" /\ lesson.shows.relevance # "none"
       /\ lesson.shows.claims # <<>> /\ Len(lesson.shows.claims) <= claims
       /\ Grounded(lesson.shows)
       /\ \A r \in lesson.shows.relations : {r[1], r[2]} \subseteq lesson.shows.entities
  /\ \A e \in graph.edges : {e[1], e[2]} \subseteq graph.nodes /\ e[1] # e[2]
  /\ graph.of = "this" => lesson.status = "complete" /\ graph.nodes = GraphNodes(lesson.shows)

PipelineInv == StepsTellTheRun /\ LessonIsWhole
=============================================================================
