-------------------------- MODULE LessonGeneration --------------------------
(***************************************************************************)
(* One Learn-from-Link lesson (learn_from_link/service.py): its row, the   *)
(* background tasks that generate it, the run and history rows they leave  *)
(* (agent_runs.py), the job that gives up on stale lessons and the media   *)
(* made from a finished lesson (tts.py for the narration).                 *)
(*                                                                         *)
(* Each action is one transaction, one call of a model service or one file *)
(* operation.  No write of a task is conditional on the lesson still being *)
(* the one the task was started for, so the order of the writes of two     *)
(* tasks is what this module is about.  A lesson's text, an audio file and *)
(* a deck are named by the run whose text they hold or were made from.     *)
(***************************************************************************)
EXTENDS FiniteSets, TLC

CONSTANTS
  Runs,       \* BOUND: submissions of the lesson; one background task each
  NoRun,      \* no lesson text, no file, no deck
  Controls,   \* pairs of depth and persona
  Requests,   \* request threads that make media
  Documents   \* "slides", "infographic": the same code on other columns

ASSUME LessonAssumption ==
  /\ NoRun \notin Runs
  /\ NoRun # "torn" /\ "torn" \notin Runs
  /\ Documents # {}

VARIABLES
  lesson,   \* the lessons row
  task,     \* by run: the background task and the controls it has read
  run,      \* by run: learning_agent_runs.status
  history,  \* by run: lesson_generations.generation_status
  audio,    \* what the narration's file holds
  request   \* by request thread: the media it is making

vars == <<lesson, task, run, history, audio, request>>

-----------------------------------------------------------------------------
(* Types                                                                   *)

Text == Runs \cup {NoRun}
MediaStatuses == {"none", "complete", "failed"}
Lesson == [status : {"absent", "pending", "complete", "failed"},
           controls : Controls, detail : Text, stale : BOOLEAN,
           podcast : MediaStatuses, docStatus : [Documents -> MediaStatuses],
           doc : [Documents -> Text]]

TaskSteps == {"unused", "queued", "read", "working", "persist", "record", "finish",
              "unsaved", "fail", "record_failure", "finish_failure", "ended", "lost"}
Task == [pc : TaskSteps, controls : Controls]
RunStatuses == {"none", "running", "complete", "failed"}
Generations == {"none", "complete", "failed"}

RequestSteps == {"idle", "audio", "speech", "stream", "shared", "orphan", "spoken", "mute",
                 "document"}
Request == [pc : RequestSteps, of : Text, force : BOOLEAN, kind : Documents]

TypeOK ==
  /\ lesson \in Lesson
  /\ task \in [Runs -> Task]
  /\ run \in [Runs -> RunStatuses]
  /\ history \in [Runs -> Generations]
  /\ audio \in Text \cup {"torn"}
  /\ request \in [Requests -> Request]

NoDocuments == [k \in Documents |-> NoRun]
NoStatuses == [k \in Documents |-> "none"]

Idle == [pc |-> "idle", of |-> NoRun, force |-> FALSE,
         kind |-> CHOOSE k \in Documents : TRUE]

Init ==
  \E c \in Controls :
    /\ lesson = [status |-> "absent", controls |-> c, detail |-> NoRun, stale |-> FALSE,
                 podcast |-> "none", docStatus |-> NoStatuses, doc |-> NoDocuments]
    /\ task = [r \in Runs |-> [pc |-> "unused", controls |-> c]]
    /\ run = [r \in Runs |-> "none"]
    /\ history = [r \in Runs |-> "none"]
    /\ audio = NoRun
    /\ request = [q \in Requests |-> Idle]

-----------------------------------------------------------------------------
(* Helpers                                                                 *)

Active(r) == task[r].pc \notin {"unused", "ended", "lost"}
Busy(q) == request[q].pc # "idle"

At(r, pc) == task[r].pc = pc
Goes(r, pc) == task' = [task EXCEPT ![r].pc = pc]

\* Every UPDATE of the row sets updated_at.
Touched(l) == [l EXCEPT !.stale = FALSE]

\* Wrong: the documents about the previous text stay.
ResetLeavesDocuments(l, c) ==
  [Touched(l) EXCEPT !.status = "pending", !.controls = c, !.podcast = "none"]

\* The row after _LESSON_ARTIFACT_RESET_ASSIGNMENTS, pending under controls c.
\* The narration's file is not part of it.
Reset(l, c) ==
  [Touched(l) EXCEPT !.status = "pending", !.controls = c, !.podcast = "none",
                     !.docStatus = NoStatuses, !.doc = NoDocuments]

Replies(q, pc) == request' = [request EXCEPT ![q].pc = pc]
Answered(q) == request' = [request EXCEPT ![q] = Idle]

-----------------------------------------------------------------------------
(* The user submits the link                                               *)

\* POST /lessons: a new row, or the same link again; the text is cleared.
Create(r, c) ==
  /\ At(r, "unused")
  /\ lesson' = [Reset(lesson, c) EXCEPT !.detail = NoRun]
  /\ Goes(r, "queued")
  /\ UNCHANGED <<run, history, audio, request>>

\* Wrong: the lesson stays complete while it is written again.
RegenerateComplete(r, c) ==
  /\ At(r, "unused")
  /\ lesson.status # "absent"
  /\ lesson' = [Reset(lesson, c) EXCEPT !.status = lesson.status]
  /\ Goes(r, "queued")
  /\ UNCHANGED <<run, history, audio, request>>

\* POST /regenerate: the text stays until the new one replaces it.
Regenerate(r, c) ==
  /\ At(r, "unused")
  /\ lesson.status # "absent"
  /\ lesson' = Reset(lesson, c)
  /\ Goes(r, "queued")
  /\ UNCHANGED <<run, history, audio, request>>

\* Only the row's age is told apart: feedback on relevance is a write to it.
Feedback ==
  /\ lesson.status # "absent"
  /\ lesson' = Touched(lesson)
  /\ UNCHANGED <<task, run, history, audio, request>>

-----------------------------------------------------------------------------
(* The background task                                                     *)

\* get_lesson, at the start of generate_lesson_from_url.
ReadLesson(r) ==
  /\ At(r, "queued")
  /\ task' = [task EXCEPT ![r].pc = "read", ![r].controls = lesson.controls]
  /\ UNCHANGED <<lesson, run, history, audio, request>>

StartRun(r) ==
  /\ At(r, "read")
  /\ run' = [run EXCEPT ![r] = "running"]
  /\ Goes(r, "working")
  /\ UNCHANGED <<lesson, history, audio, request>>

\* Fetch, extraction, synthesis, citations and relevance, or a failed step.
Work(r) ==
  /\ At(r, "working")
  /\ Goes(r, "persist") \/ Goes(r, "fail")
  /\ UNCHANGED <<lesson, run, history, audio, request>>

WithText(l, r) == [Touched(l) EXCEPT !.status = "complete", !.detail = r]

\* Wrong: the run is finished before the history has the generation.
UpdateThenFinish(r) ==
  /\ At(r, "persist")
  /\ lesson' = WithText(lesson, r)
  /\ Goes(r, "finish")
  /\ UNCHANGED <<run, history, audio, request>>

\* Wrong: an error after the commit is taken for a failed generation.
UpdateOrFail(r) ==
  /\ At(r, "persist")
  /\ lesson' = WithText(lesson, r)
  /\ Goes(r, "record") \/ Goes(r, "fail")
  /\ UNCHANGED <<run, history, audio, request>>

\* The update may commit and the read of the row that follows it still fail.
UpdateSuccess(r) ==
  /\ At(r, "persist")
  /\ \/ lesson' = WithText(lesson, r) /\ (Goes(r, "record") \/ Goes(r, "unsaved"))
     \/ lesson' = lesson /\ Goes(r, "unsaved")
  /\ UNCHANGED <<run, history, audio, request>>

RecordGeneration(r) ==
  /\ At(r, "record")
  /\ \/ history' = [history EXCEPT ![r] = "complete"] /\ Goes(r, "finish")
     \/ history' = history /\ Goes(r, "unsaved")
  /\ UNCHANGED <<lesson, run, audio, request>>

\* finish_run overwrites whatever the run says, and swallows its own errors.
Ends(r, status) ==
  /\ run' \in {run, [run EXCEPT ![r] = status]}
  /\ Goes(r, "ended")
  /\ UNCHANGED <<lesson, history, audio, request>>

FinishRun(r) == At(r, "finish") /\ Ends(r, "complete")
FinishUnsaved(r) == At(r, "unsaved") /\ Ends(r, "failed")

UpdateFailure(r) ==
  /\ At(r, "fail")
  /\ lesson' = [Touched(lesson) EXCEPT !.status = "failed", !.detail = NoRun]
  /\ Goes(r, "record_failure")
  /\ UNCHANGED <<run, history, audio, request>>

RecordFailure(r) ==
  /\ At(r, "record_failure")
  /\ history' = [history EXCEPT ![r] = "failed"]
  /\ Goes(r, "finish_failure")
  /\ UNCHANGED <<lesson, run, audio, request>>

FinishFailure(r) == At(r, "finish_failure") /\ Ends(r, "failed")

\* The process stops, or an exception leaves the task outside its handlers.
TaskLost(r) ==
  /\ Active(r)
  /\ Goes(r, "lost")
  /\ UNCHANGED <<lesson, run, history, audio, request>>

TaskStep(r) ==
  \/ ReadLesson(r) \/ StartRun(r) \/ Work(r)
  \/ UpdateSuccess(r) \/ RecordGeneration(r) \/ FinishRun(r) \/ FinishUnsaved(r)
  \/ UpdateFailure(r) \/ RecordFailure(r) \/ FinishFailure(r)

-----------------------------------------------------------------------------
(* Recovery of stale lessons, every five minutes                           *)

\* A lesson nobody wrote to for DEFAULT_STALE_PENDING_LESSON_MINUTES.
GrowStale ==
  /\ lesson.status = "pending" /\ ~lesson.stale
  /\ lesson' = [lesson EXCEPT !.stale = TRUE]
  /\ UNCHANGED <<task, run, history, audio, request>>

\* Wrong: only a lesson with a run; a task lost before start_run has none.
RecoverWithRun ==
  /\ lesson.status = "pending" /\ lesson.stale
  /\ \E r \in Runs : run[r] = "running"
  /\ lesson' = [Touched(lesson) EXCEPT !.status = "failed"]
  /\ run' = [r \in Runs |-> IF run[r] = "running" THEN "failed" ELSE run[r]]
  /\ UNCHANGED <<task, history, audio, request>>

Recover ==
  /\ lesson.status = "pending" /\ lesson.stale
  /\ lesson' = [Touched(lesson) EXCEPT !.status = "failed"]
  /\ run' = [r \in Runs |-> IF run[r] = "running" THEN "failed" ELSE run[r]]
  /\ UNCHANGED <<task, history, audio, request>>

-----------------------------------------------------------------------------
(* Media                                                                   *)

Ready == lesson.status = "complete" /\ lesson.detail # NoRun

\* The row is read once; everything after it uses that copy.
AskPodcast(q, force) ==
  /\ ~Busy(q) /\ Ready
  /\ request' = [request EXCEPT ![q].pc = "audio", ![q].of = lesson.detail,
                                ![q].force = force]
  /\ UNCHANGED <<lesson, task, run, history, audio>>

\* No key for the speech service; or the cached file; or a call of the service.
\* A forced request unlinks the file, and a stream into it goes on writing to
\* a file that has no name any more.
LookForAudio(q) ==
  /\ request[q].pc = "audio"
  /\ \/ Replies(q, "mute") /\ UNCHANGED audio
     \/ /\ ~request[q].force /\ audio # NoRun
        /\ Replies(q, "spoken") /\ UNCHANGED audio
     \/ /\ request[q].force \/ audio = NoRun
        /\ audio' = NoRun
        /\ request' = [p \in Requests |->
             IF p = q THEN [request[p] EXCEPT !.pc = "speech"]
             ELSE IF request[p].pc \in {"stream", "shared"}
                  THEN [request[p] EXCEPT !.pc = "orphan"]
             ELSE request[p]]
  /\ UNCHANGED <<lesson, task, run, history>>

\* The service answers and the file is opened (and truncated); or it does not.
\* A second stream into the open file shares it with the first.
OpenAudio(q) ==
  LET open == {p \in Requests : request[p].pc \in {"stream", "shared"}} IN
  /\ request[q].pc = "speech"
  /\ \/ audio' = "torn" /\ open = {} /\ Replies(q, "stream")
     \/ /\ audio' = "torn" /\ open # {}
        /\ request' = [p \in Requests |-> IF p \in open \cup {q}
                                         THEN [request[p] EXCEPT !.pc = "shared"]
                                         ELSE request[p]]
     \/ audio' = audio /\ Replies(q, "mute")
  /\ UNCHANGED <<lesson, task, run, history>>

\* The stream ends, or breaks and leaves what it wrote.
WriteAudio(q) ==
  /\ request[q].pc = "stream"
  /\ \/ audio' = request[q].of /\ Replies(q, "spoken")
     \/ audio' = "torn" /\ Replies(q, "mute")
  /\ UNCHANGED <<lesson, task, run, history>>

\* Two streams into one file leave the last one's words, or a mixture.
WriteShared(q) ==
  /\ request[q].pc = "shared"
  /\ audio' \in {request[q].of, "torn"}
  /\ Replies(q, "spoken") \/ Replies(q, "mute")
  /\ UNCHANGED <<lesson, task, run, history>>

WriteNameless(q) ==
  /\ request[q].pc = "orphan"
  /\ Replies(q, "spoken") \/ Replies(q, "mute")
  /\ UNCHANGED <<lesson, task, run, history, audio>>

SavePodcast(q) ==
  /\ request[q].pc \in {"spoken", "mute"}
  /\ lesson' = [Touched(lesson) EXCEPT
       !.podcast = IF request[q].pc = "spoken" THEN "complete" ELSE "failed"]
  /\ Answered(q)
  /\ UNCHANGED <<task, run, history, audio>>

\* Wrong: the row says that the document is pending, which the table forbids.
AskDocumentPending(q, k, force) ==
  /\ ~Busy(q) /\ Ready
  /\ force \/ lesson.docStatus[k] # "complete"
  /\ lesson' = [Touched(lesson) EXCEPT !.docStatus[k] = "pending"]
  /\ request' = [request EXCEPT ![q].pc = "document", ![q].of = lesson.detail,
                                ![q].kind = k]
  /\ UNCHANGED <<task, run, history, audio>>

\* Slides or infographic: a stored one is returned unless forced.
AskDocument(q, k, force) ==
  /\ ~Busy(q) /\ Ready
  /\ force \/ lesson.docStatus[k] # "complete"
  /\ request' = [request EXCEPT ![q].pc = "document", ![q].of = lesson.detail,
                                ![q].kind = k]
  /\ UNCHANGED <<lesson, task, run, history, audio>>

\* A failure leaves the previous document in its column.
SaveDocument(q) ==
  LET k == request[q].kind IN
  /\ request[q].pc = "document"
  /\ \/ lesson' = [Touched(lesson) EXCEPT !.docStatus[k] = "complete",
                                          !.doc[k] = request[q].of]
     \/ lesson' = [Touched(lesson) EXCEPT !.docStatus[k] = "failed"]
  /\ Answered(q)
  /\ UNCHANGED <<task, run, history, audio>>

RequestLost(q) ==
  /\ Busy(q)
  /\ Answered(q)
  /\ UNCHANGED <<lesson, task, run, history, audio>>

RequestStep(q) ==
  \/ LookForAudio(q) \/ OpenAudio(q) \/ WriteAudio(q) \/ WriteShared(q)
  \/ WriteNameless(q) \/ SavePodcast(q) \/ SaveDocument(q)

-----------------------------------------------------------------------------
(* Specifications                                                          *)

Submit(r) == \E c \in Controls : Create(r, c) \/ Regenerate(r, c)

Ask(q) ==
  \E force \in BOOLEAN :
    AskPodcast(q, force) \/ (\E k \in Documents : AskDocument(q, k, force))

Goings ==
  \/ \E r \in Runs : TaskStep(r) \/ TaskLost(r)
  \/ Feedback \/ GrowStale \/ Recover
  \/ \E q \in Requests : Ask(q) \/ RequestStep(q) \/ RequestLost(q)

Next == (\E r \in Runs : Submit(r)) \/ Goings

Spec == Init /\ [][Next]_vars

\* The page is used by one person who submits again only once the lesson says
\* that it is complete or failed.
PatientNext == (lesson.status # "pending" /\ \E r \in Runs : Submit(r)) \/ Goings
PatientSpec == Init /\ [][PatientNext]_vars

\* Nothing older is under way when the link is submitted again.
Quiet == (\A r \in Runs : ~Active(r)) /\ (\A q \in Requests : ~Busy(q))
SerialNext == (Quiet /\ \E r \in Runs : Submit(r)) \/ Goings
SerialSpec == Init /\ [][SerialNext]_vars

\* Time passes and the recovery job runs; tasks need not go on.  The user does
\* not give feedback for ever.
FairSpec ==
  /\ Spec
  /\ WF_vars(GrowStale) /\ WF_vars(Recover)
  /\ <>[][~Feedback]_vars

-----------------------------------------------------------------------------
(* Properties                                                              *)

\* A run reported complete has its generation in the history as complete,
\* whatever the other tasks and the recovery job did meanwhile
\* (persistence_node, failure_node, recover_stale_pending_lessons).
RunsAreTruthful ==
  \A r \in Runs : run[r] = "complete" => history[r] = "complete"

\* Nothing the user can see or hear comes from a generation that the history
\* calls failed: not the text, not a document, not the narration.
NothingShownFromFailure ==
  \A r \in Runs : history[r] = "failed" =>
    lesson.detail # r /\ audio # r /\ \A k \in Documents : lesson.doc[k] # r

\* What the user sees, hears or is about to: each names the run it comes from.
Shown == {lesson.detail, audio} \cup {lesson.doc[k] : k \in Documents}
           \cup {request[q].of : q \in Requests}

\* The text of a run is out only after its update of the row, a run that goes
\* the way of a failure never put it out, and the history says what the task
\* went through.
Coherent(r) ==
  /\ r \in Shown => task[r].pc \in {"record", "finish", "unsaved", "ended", "lost"}
                      /\ history[r] # "failed"
  /\ history[r] = "failed" => task[r].pc \in {"finish_failure", "ended", "lost"}
  /\ history[r] = "complete" => task[r].pc \in {"finish", "ended", "lost"}
  /\ At(r, "finish") => history[r] = "complete"
  /\ run[r] = "complete" => history[r] = "complete"

\* The inductive form of the two properties above; and a complete lesson has
\* its text (_update_lesson_success, _update_lesson_failure).
LessonInv ==
  /\ \A r \in Runs : Coherent(r)
  /\ lesson.status = "complete" => lesson.detail # NoRun

\* When nothing older is under way at a submission, a complete lesson is shown
\* under the depth and persona it was written for (regenerate_lesson).
ShownUnderItsControls ==
  lesson.status = "complete" => task[lesson.detail].controls = lesson.controls

\* A stored slide deck or infographic is about the text shown beside it
\* (generate_lesson_slide_deck, generate_lesson_infographic).
DocumentsMatchText ==
  \A k \in Documents : lesson.status = "complete" /\ lesson.docStatus[k] = "complete" =>
    lesson.doc[k] = lesson.detail

\* The whole narration with which a request is answered reads out the text that the
\* request read and that is shown (generate_lesson_podcast).
PodcastMatchesText ==
  \A q \in Requests :
    request[q].pc = "spoken" /\ request[q].of = lesson.detail /\ audio \in Runs
      => audio = lesson.detail

\* Holds not: a narration that is shown as complete is whole; of a stream that was cut
\* off, what it wrote stays, and is found by the next request (tts.py:233).
PodcastIsWhole == lesson.podcast = "complete" => audio # "torn"

\* A lesson does not stay pending, even when every task hangs or is lost
\* (recover_stale_pending_lessons).
PendingEnds == lesson.status = "pending" ~> lesson.status # "pending"

\* Runs and requests are interchangeable: the symmetry of the safety runs.
Symmetry == Permutations(Runs) \cup Permutations(Requests)

=============================================================================
