----------------------- MODULE LessonGeneration_proofs -----------------------
(* Proofs about LessonGeneration, for any number of submissions, requests,  *)
(* documents and controls.                                                 *)
EXTENDS LessonGeneration, TLAPS

-----------------------------------------------------------------------------
(* Types                                                                   *)

\* The initial row, tasks and requests are of their types.
LEMMA InitType == Init => TypeOK
  BY LessonAssumption
  DEF Init, TypeOK, Lesson, Text, MediaStatuses, Task, TaskSteps, RunStatuses, Generations,
      Request, RequestSteps, Idle, NoDocuments, NoStatuses

\* Resetting the row for a submission gives a row.
LEMMA ResetType ==
  ASSUME NEW l \in Lesson, NEW c \in Controls
  PROVE  /\ Reset(l, c) \in Lesson
         /\ [Reset(l, c) EXCEPT !.detail = NoRun] \in Lesson
  BY DEF Reset, Touched, Lesson, Text, MediaStatuses, NoDocuments, NoStatuses

\* A task that goes on to a step is a task.
LEMMA GoesType ==
  ASSUME TypeOK, NEW r \in Runs, NEW pc \in TaskSteps, Goes(r, pc)
  PROVE  task' \in [Runs -> Task]
  BY DEF TypeOK, Task, Goes

\* A request that goes on to a step, or is answered, is a request.
LEMMA RepliesType ==
  ASSUME TypeOK, NEW q \in Requests,
         (\E pc \in RequestSteps : Replies(q, pc)) \/ Answered(q)
  PROVE  request' \in [Requests -> Request]
<1>1. (CHOOSE k \in Documents : TRUE) \in Documents
  BY LessonAssumption
<1>2. Idle \in Request
  BY <1>1 DEF Idle, Request, RequestSteps, Text
<1> QED
  BY <1>2 DEF TypeOK, Request, Replies, Answered

\* A step of the background task keeps the types.
LEMMA TaskType ==
  ASSUME TypeOK, NEW r \in Runs, TaskStep(r)
  PROVE  TypeOK'
<1>1. CASE ReadLesson(r)
  BY ZenonT(60), <1>1 DEF ReadLesson, TypeOK, Lesson, Task, TaskSteps
<1>2. CASE StartRun(r)
  BY <1>2, GoesType DEF StartRun, TypeOK, RunStatuses, TaskSteps
<1>3. CASE Work(r)
  BY <1>3, GoesType DEF Work, TypeOK, TaskSteps
<1>4. CASE UpdateSuccess(r)
  <2>1. lesson' \in Lesson
    BY <1>4 DEF UpdateSuccess, TypeOK, WithText, Touched, Lesson, Text
  <2> QED
    BY <1>4, <2>1, GoesType DEF UpdateSuccess, TypeOK, TaskSteps
<1>5. CASE RecordGeneration(r)
  BY <1>5, GoesType DEF RecordGeneration, TypeOK, TaskSteps, Generations
<1>6. CASE FinishRun(r)
  BY <1>6, GoesType DEF FinishRun, Ends, TypeOK, TaskSteps, RunStatuses
<1>7. CASE FinishUnsaved(r)
  BY <1>7, GoesType DEF FinishUnsaved, Ends, TypeOK, TaskSteps, RunStatuses
<1>8. CASE UpdateFailure(r)
  BY <1>8, GoesType DEF UpdateFailure, TypeOK, TaskSteps, Touched, Lesson, Text
<1>9. CASE RecordFailure(r)
  BY <1>9, GoesType DEF RecordFailure, TypeOK, TaskSteps, Generations
<1>10. CASE FinishFailure(r)
  BY <1>10, GoesType DEF FinishFailure, Ends, TypeOK, TaskSteps, RunStatuses
<1> QED
  BY <1>1, <1>2, <1>3, <1>4, <1>5, <1>6, <1>7, <1>8, <1>9, <1>10 DEF TaskStep

\* A step of a media request keeps the types.
LEMMA RequestType ==
  ASSUME TypeOK, NEW q \in Requests, RequestStep(q)
  PROVE  TypeOK'
<1>1. CASE LookForAudio(q)
  <2>1. CASE (Replies(q, "mute") \/ Replies(q, "spoken")) /\ UNCHANGED audio
    <3>1. UNCHANGED <<lesson, task, run, history, audio>>
      BY <1>1, <2>1 DEF LookForAudio
    <3>2. "mute" \in RequestSteps /\ "spoken" \in RequestSteps
      BY DEF RequestSteps
    <3>3. request' \in [Requests -> Request]
      BY <2>1, <3>2, RepliesType
    <3> QED
      BY <3>1, <3>3 DEF TypeOK
  <2>2. CASE /\ audio' = NoRun
             /\ request' = [p \in Requests |->
                  IF p = q THEN [request[p] EXCEPT !.pc = "speech"]
                  ELSE IF request[p].pc \in {"stream", "shared"}
                       THEN [request[p] EXCEPT !.pc = "orphan"]
                  ELSE request[p]]
    <3>1. ASSUME NEW p \in Requests PROVE request'[p] \in Request
      <4>1. request[p] \in Request
        BY DEF TypeOK
      <4>2. /\ [request[p] EXCEPT !.pc = "speech"] \in Request
            /\ [request[p] EXCEPT !.pc = "orphan"] \in Request
        BY <4>1 DEF Request, RequestSteps
      <4> QED
        BY <2>2, <4>1, <4>2
    <3>2. request' \in [Requests -> Request]
      BY <2>2, <3>1
    <3>3. UNCHANGED <<lesson, task, run, history>> /\ audio' \in Text \cup {"torn"}
      BY <1>1, <2>2 DEF LookForAudio, Text
    <3> QED
      BY <3>2, <3>3 DEF TypeOK
  <2> QED
    BY <1>1, <2>1, <2>2 DEF LookForAudio
<1>2. CASE OpenAudio(q)
  BY <1>2, RepliesType DEF OpenAudio, TypeOK, Replies, Request, RequestSteps, Text
<1>3. CASE WriteAudio(q)
  BY <1>3, RepliesType DEF WriteAudio, TypeOK, Request, RequestSteps, Text
<1>4. CASE WriteShared(q)
  BY <1>4, RepliesType DEF WriteShared, TypeOK, Request, RequestSteps, Text
<1>5. CASE WriteNameless(q)
  BY <1>5, RepliesType DEF WriteNameless, TypeOK, RequestSteps
<1>6. CASE SavePodcast(q)
  BY <1>6, RepliesType DEF SavePodcast, TypeOK, Touched, Lesson, MediaStatuses
<1>7. CASE SaveDocument(q)
  <2>1. request[q].kind \in Documents /\ request[q].of \in Text
    BY DEF TypeOK, Request
  <2>2. lesson' \in Lesson
    <3> DEFINE k == request[q].kind
    <3>1. CASE lesson' = [Touched(lesson) EXCEPT !.docStatus[k] = "complete",
                                                !.doc[k] = request[q].of]
      <4>1. /\ [lesson.docStatus EXCEPT ![k] = "complete"] \in [Documents -> MediaStatuses]
            /\ [lesson.doc EXCEPT ![k] = request[q].of] \in [Documents -> Text]
        BY <2>1 DEF TypeOK, Lesson, MediaStatuses
      <4> QED
        BY <3>1, <4>1 DEF TypeOK, Touched, Lesson
    <3>2. CASE lesson' = [Touched(lesson) EXCEPT !.docStatus[k] = "failed"]
      <4>1. [lesson.docStatus EXCEPT ![k] = "failed"] \in [Documents -> MediaStatuses]
        BY <2>1 DEF TypeOK, Lesson, MediaStatuses
      <4> QED
        BY <3>2, <4>1 DEF TypeOK, Touched, Lesson
    <3> QED
      BY <1>7, <3>1, <3>2 DEF SaveDocument
  <2> QED
    BY <1>7, <2>2, RepliesType DEF SaveDocument, TypeOK
<1> QED
  BY <1>1, <1>2, <1>3, <1>4, <1>5, <1>6, <1>7 DEF RequestStep

\* Every step keeps the types.
LEMMA NextType == TypeOK /\ [Next]_vars => TypeOK'
<1> SUFFICES ASSUME TypeOK, [Next]_vars PROVE TypeOK'
  OBVIOUS
<1>1. CASE \E r \in Runs : Submit(r)
  <2>1. PICK r \in Runs, c \in Controls : Create(r, c) \/ Regenerate(r, c)
    BY <1>1 DEF Submit
  <2>2. lesson' \in Lesson
    BY <2>1, ResetType DEF Create, Regenerate, TypeOK
  <2> QED
    BY <2>1, <2>2, GoesType DEF Create, Regenerate, TypeOK, TaskSteps
<1>2. CASE \E r \in Runs : TaskStep(r) \/ TaskLost(r)
  BY <1>2, TaskType, GoesType DEF TaskLost, TypeOK, TaskSteps
<1>3. CASE Feedback \/ GrowStale
  BY <1>3 DEF Feedback, GrowStale, TypeOK, Touched, Lesson
<1>4. CASE Recover
  BY <1>4 DEF Recover, TypeOK, Touched, Lesson, RunStatuses
<1>5. CASE \E q \in Requests : Ask(q)
  <2>1. PICK q \in Requests, force \in BOOLEAN :
          AskPodcast(q, force) \/ (\E k \in Documents : AskDocument(q, k, force))
    BY <1>5 DEF Ask
  <2>2. CASE AskPodcast(q, force)
    <3>1. [request[q] EXCEPT !.pc = "audio", !.of = lesson.detail, !.force = force]
             \in Request
      BY ZenonT(60) DEF TypeOK, Request, RequestSteps, Lesson
    <3>2. request' = [request EXCEPT ![q] =
             [request[q] EXCEPT !.pc = "audio", !.of = lesson.detail, !.force = force]]
      BY <2>2 DEF AskPodcast, TypeOK, Request
    <3> QED
      BY <2>2, <3>1, <3>2 DEF AskPodcast, TypeOK
  <2>3. CASE \E k \in Documents : AskDocument(q, k, force)
    <3>1. PICK k \in Documents : AskDocument(q, k, force)
      BY <2>3
    <3>2. [request[q] EXCEPT !.pc = "document", !.of = lesson.detail, !.kind = k] \in Request
      BY ZenonT(60) DEF TypeOK, Request, RequestSteps, Lesson
    <3>3. request' = [request EXCEPT ![q] =
             [request[q] EXCEPT !.pc = "document", !.of = lesson.detail, !.kind = k]]
      BY <3>1 DEF AskDocument, TypeOK, Request
    <3> QED
      BY <3>1, <3>2, <3>3 DEF AskDocument, TypeOK
  <2> QED
    BY <2>1, <2>2, <2>3
<1>6. CASE \E q \in Requests : RequestStep(q) \/ RequestLost(q)
  BY <1>6, RequestType, RepliesType DEF RequestLost, TypeOK
<1>7. CASE UNCHANGED vars
  BY <1>7 DEF vars, TypeOK
<1> QED
  BY <1>1, <1>2, <1>3, <1>4, <1>5, <1>6, <1>7 DEF Next, Goings

\* TypeOK: the columns of the lessons, runs and history tables and the steps of
\* the tasks and requests stay within their types, however many act at once.
THEOREM LessonTypeCorrect == Spec => []TypeOK
  BY InitType, NextType, PTL DEF Spec

-----------------------------------------------------------------------------
(* The invariant                                                           *)

\* Initially nothing is shown and no run has a row.
LEMMA InitInv == Init => LessonInv
  BY LessonAssumption
  DEF Init, LessonInv, Coherent, Shown, At, NoDocuments, Idle

\* A step of r that shows nothing, or only its own text, keeps the runs coherent
\* if it keeps r coherent.
LEMMA OneRun ==
  ASSUME LessonInv, TypeOK, NEW r \in Runs, Coherent(r)',
         Shown' \subseteq Shown \cup {r, NoRun},
         \A p \in Runs \ {r} : task'[p] = task[p] /\ run'[p] = run[p] /\ history'[p] = history[p]
  PROVE  \A p \in Runs : Coherent(p)'
  BY LessonAssumption DEF LessonInv, Coherent, At

\* A step that leaves the tasks and the history alone, and completes no run,
\* keeps the runs coherent if it shows no other text.
LEMMA NoTask ==
  ASSUME LessonInv, UNCHANGED <<task, history>>,
         \A r \in Runs : run'[r] = "complete" => run[r] = "complete",
         Shown' \subseteq Shown \cup {NoRun, "torn"}
  PROVE  \A r \in Runs : Coherent(r)'
  BY LessonAssumption DEF LessonInv, Coherent, At

\* What is shown depends on the row, the narration and the requests only.
LEMMA SameShown ==
  ASSUME UNCHANGED <<lesson, audio, request>>
  PROVE  Shown' = Shown
  BY DEF Shown

\* A submission shows no text.
LEMMA SubmitInv ==
  ASSUME LessonInv, TypeOK, NEW r \in Runs, Submit(r)
  PROVE  LessonInv'
<1>1. PICK c \in Controls : Create(r, c) \/ Regenerate(r, c)
  BY DEF Submit
<1>2. lesson'.detail \in {lesson.detail, NoRun} /\ lesson'.doc = NoDocuments
      /\ lesson'.status = "pending"
  BY <1>1 DEF Create, Regenerate, Reset, Touched, TypeOK, Lesson
<1>3. Shown' \subseteq Shown \cup {r, NoRun}
  BY <1>1, <1>2 DEF Create, Regenerate, Shown, NoDocuments
<1>4. r \notin Shown /\ history[r] \notin {"complete", "failed"} /\ run[r] # "complete"
  BY <1>1 DEF Create, Regenerate, LessonInv, Coherent, At
<1>5. r \notin Shown'
  BY <1>1, <1>2, <1>4, LessonAssumption DEF Create, Regenerate, Shown, NoDocuments
<1>6. Coherent(r)'
  BY <1>1, <1>4, <1>5 DEF Create, Regenerate, Coherent, At, Goes, TypeOK, Task
<1>7. \A p \in Runs \ {r} : task'[p] = task[p] /\ run'[p] = run[p] /\ history'[p] = history[p]
  BY <1>1 DEF Create, Regenerate, Goes, TypeOK
<1> QED
  BY <1>2, <1>3, <1>6, <1>7, OneRun DEF LessonInv

\* Every step of a background task keeps the invariant: it shows its text only
\* on the way to the history of complete generations.
LEMMA TaskInv ==
  ASSUME LessonInv, TypeOK, NEW r \in Runs, TaskStep(r) \/ TaskLost(r)
  PROVE  LessonInv'
<1> USE DEF At, Goes
<1>1. CASE \/ ReadLesson(r) \/ StartRun(r) \/ Work(r) \/ RecordGeneration(r) \/ FinishRun(r)
          \/ FinishUnsaved(r) \/ RecordFailure(r) \/ FinishFailure(r) \/ TaskLost(r)
  <2>1. UNCHANGED <<lesson, audio, request>>
    BY <1>1 DEF ReadLesson, StartRun, Work, RecordGeneration, FinishRun, FinishUnsaved,
       RecordFailure, FinishFailure, TaskLost, Ends
  <2>2. Shown' = Shown
    BY <2>1, SameShown
  <2>3. \A p \in Runs \ {r} : task'[p] = task[p] /\ run'[p] = run[p] /\ history'[p] = history[p]
    BY <1>1 DEF ReadLesson, StartRun, Work, RecordGeneration, FinishRun, FinishUnsaved,
       RecordFailure, FinishFailure, TaskLost, Ends, TypeOK
  <2>4. Coherent(r)
    BY DEF LessonInv
  <2>5. Coherent(r)'
    BY <1>1, <2>2, <2>4 DEF ReadLesson, StartRun, Work, RecordGeneration, FinishRun, FinishUnsaved,
       RecordFailure, FinishFailure, TaskLost, Ends, Active, Coherent, TypeOK, Task
  <2> QED
    BY <2>1, <2>2, <2>3, <2>5, OneRun DEF LessonInv
<1>2. CASE UpdateSuccess(r)
  <2>1. /\ lesson'.detail \in {lesson.detail, r} /\ lesson'.doc = lesson.doc
        /\ lesson'.status = "complete" => lesson'.detail # NoRun
    BY <1>2, LessonAssumption DEF UpdateSuccess, WithText, Touched, TypeOK, Lesson, LessonInv
  <2>2. Shown' \subseteq Shown \cup {r, NoRun}
    BY <1>2, <2>1 DEF UpdateSuccess, Shown
  <2>3. Coherent(r)'
    BY <1>2 DEF UpdateSuccess, LessonInv, Coherent, TypeOK, Task
  <2>4. \A p \in Runs \ {r} : task'[p] = task[p] /\ run'[p] = run[p] /\ history'[p] = history[p]
    BY <1>2 DEF UpdateSuccess, TypeOK
  <2> QED
    BY <2>1, <2>2, <2>3, <2>4, OneRun DEF LessonInv
<1>3. CASE UpdateFailure(r)
  <2>1. lesson'.detail = NoRun /\ lesson'.doc = lesson.doc /\ lesson'.status = "failed"
    BY <1>3 DEF UpdateFailure, Touched, TypeOK, Lesson
  <2>2. Shown' \subseteq Shown \cup {NoRun}
    BY <1>3, <2>1 DEF UpdateFailure, Shown
  <2>3. r \notin Shown'
    BY <1>3, <2>2, LessonAssumption DEF UpdateFailure, LessonInv, Coherent
  <2>4. Coherent(r)'
    BY <1>3, <2>3 DEF UpdateFailure, LessonInv, Coherent, TypeOK, Task
  <2>5. \A p \in Runs \ {r} : task'[p] = task[p] /\ run'[p] = run[p] /\ history'[p] = history[p]
    BY <1>3 DEF UpdateFailure, TypeOK
  <2> QED
    BY <2>1, <2>2, <2>4, <2>5, OneRun DEF LessonInv
<1> QED
  BY <1>1, <1>2, <1>3 DEF TaskStep

\* A media request only copies texts that are shown already.
LEMMA RequestInv ==
  ASSUME LessonInv, TypeOK, NEW q \in Requests, Ask(q) \/ RequestStep(q) \/ RequestLost(q)
  PROVE  LessonInv'
<1>1. UNCHANGED <<task, run, history>>
  BY DEF Ask, AskPodcast, AskDocument, RequestStep, LookForAudio, OpenAudio, WriteAudio,
     WriteShared, WriteNameless, SavePodcast, SaveDocument, RequestLost
<1>2. lesson'.detail = lesson.detail /\ lesson'.status = lesson.status
  BY DEF Ask, AskPodcast, AskDocument, RequestStep, LookForAudio, OpenAudio, WriteAudio,
     WriteShared, WriteNameless, SavePodcast, SaveDocument, RequestLost, Touched, TypeOK, Lesson
<1>3. \A p \in Requests : request'[p].of \in {request[p].of, lesson.detail, NoRun}
  BY DEF Ask, AskPodcast, AskDocument, RequestStep, LookForAudio, OpenAudio, WriteAudio,
     WriteShared, WriteNameless, SavePodcast, SaveDocument, RequestLost, Replies, Answered,
     Idle, TypeOK, Request
<1>4. audio' \in {audio, request[q].of, NoRun, "torn"}
  BY DEF Ask, AskPodcast, AskDocument, RequestStep, LookForAudio, OpenAudio, WriteAudio,
     WriteShared, WriteNameless, SavePodcast, SaveDocument, RequestLost
<1>5. \A k \in Documents : lesson'.doc[k] \in {lesson.doc[k], request[q].of}
  BY ZenonT(60) DEF Ask, AskPodcast, AskDocument, RequestStep, LookForAudio, OpenAudio, WriteAudio,
     WriteShared, WriteNameless, SavePodcast, SaveDocument, RequestLost, Touched, TypeOK, Lesson
<1>6. Shown' \subseteq Shown \cup {NoRun, "torn"}
  BY <1>2, <1>3, <1>4, <1>5 DEF Shown
<1> QED
  BY <1>1, <1>2, <1>6, NoTask DEF LessonInv

\* Every step keeps the invariant.
LEMMA NextInv == LessonInv /\ TypeOK /\ [Next]_vars => LessonInv'
<1> SUFFICES ASSUME LessonInv, TypeOK, [Next]_vars PROVE LessonInv'
  OBVIOUS
<1>1. CASE \E r \in Runs : Submit(r) \/ TaskStep(r) \/ TaskLost(r)
  BY <1>1, SubmitInv, TaskInv
<1>2. CASE Feedback \/ GrowStale \/ Recover \/ UNCHANGED vars
  <2>1. /\ lesson'.detail = lesson.detail /\ lesson'.doc = lesson.doc
        /\ lesson'.status \in {lesson.status, "failed"}
        /\ UNCHANGED <<task, history, audio, request>>
    BY <1>2 DEF Feedback, GrowStale, Recover, vars, Touched, TypeOK, Lesson
  <2>2. \A r \in Runs : run'[r] = "complete" => run[r] = "complete"
    BY <1>2 DEF Feedback, GrowStale, Recover, vars
  <2>3. Shown' = Shown
    BY <2>1 DEF Shown
  <2> QED
    BY <2>1, <2>2, <2>3, NoTask DEF LessonInv
<1>3. CASE \E q \in Requests : Ask(q) \/ RequestStep(q) \/ RequestLost(q)
  BY <1>3, RequestInv
<1> QED
  BY <1>1, <1>2, <1>3 DEF Next, Goings

\* LessonInv, for any number of submissions and requests.
THEOREM LessonCorrect == Spec => []LessonInv
  BY InitType, InitInv, NextType, NextInv, PTL DEF Spec

\* RunsAreTruthful: a run reported complete is a generation in the history.
THEOREM RunsTruthful == Spec => []RunsAreTruthful
<1>1. LessonInv => RunsAreTruthful
  BY DEF LessonInv, Coherent, RunsAreTruthful
<1> QED
  BY <1>1, LessonCorrect, PTL

\* NothingShownFromFailure: no text, document or narration comes from a
\* generation that the history calls failed.
THEOREM FailureUnseen == Spec => []NothingShownFromFailure
<1>1. LessonInv => NothingShownFromFailure
  BY DEF LessonInv, Coherent, NothingShownFromFailure, Shown
<1> QED
  BY <1>1, LessonCorrect, PTL

-----------------------------------------------------------------------------
(* One submission at a time                                                *)

\* While a lesson is complete no task will write to its row, a request works for
\* the text that is shown, and a stored document is about it.
Together ==
  /\ \A r, s \in Runs : Active(r) /\ Active(s) => r = s
  /\ \A r \in Runs : Active(r) =>
       /\ ~At(r, "queued") => task[r].controls = lesson.controls
       /\ lesson.status = "complete" => task[r].pc \in {"record", "finish", "unsaved"}
  /\ \A q \in Requests : Busy(q) => lesson.status = "complete" /\ request[q].of = lesson.detail
  /\ \A k \in Documents : lesson.docStatus[k] = "complete" =>
       lesson.status = "complete" /\ lesson.doc[k] = lesson.detail
  /\ ShownUnderItsControls

\* Initially nothing is under way.
LEMMA InitTogether == Init => Together
  BY DEF Init, Together, Active, At, Busy, Idle, ShownUnderItsControls, NoStatuses

\* A submission finds nothing under way and starts its own task only.
LEMMA SubmitTogether ==
  ASSUME Together, TypeOK, NEW r \in Runs, Quiet, Submit(r)
  PROVE  Together'
<1>1. PICK c \in Controls : Create(r, c) \/ Regenerate(r, c)
  BY DEF Submit
<1>2. lesson'.status = "pending" /\ lesson'.docStatus = NoStatuses
  BY <1>1 DEF Create, Regenerate, Reset, Touched, TypeOK, Lesson
<1>3. task'[r].pc = "queued" /\ \A s \in Runs \ {r} : task'[s] = task[s]
  BY <1>1 DEF Create, Regenerate, Goes, TypeOK, Task
<1>4. \A s \in Runs : Active(s)' => s = r
  BY <1>3 DEF Quiet, Active
<1>5. \A q \in Requests : ~Busy(q)'
  BY <1>1 DEF Create, Regenerate, Quiet, Busy
<1> QED
  BY <1>2, <1>3, <1>4, <1>5 DEF Together, At, ShownUnderItsControls, NoStatuses

\* A step of the one active task, which writes to the row only while the lesson
\* is not complete.
LEMMA TaskTogether ==
  ASSUME Together, LessonInv, TypeOK, NEW r \in Runs, TaskStep(r) \/ TaskLost(r)
  PROVE  Together'
<1>1. /\ Active(r) /\ request' = request
      /\ \A s \in Runs \ {r} : task'[s] = task[s] /\ ~Active(s) /\ ~Active(s)'
  <2>1. Active(r) /\ request' = request /\ \A s \in Runs \ {r} : task'[s] = task[s]
    BY DEF TaskStep, TaskLost, ReadLesson, StartRun, Work, UpdateSuccess, RecordGeneration,
       FinishRun, FinishUnsaved, UpdateFailure, RecordFailure, FinishFailure, Ends, Goes, At,
       Active, TypeOK
  <2> QED
    BY <2>1 DEF Together, Active
<1>2. CASE lesson' = lesson
  <2>1. /\ task'[r].controls = IF At(r, "queued") /\ task'[r].pc = "read"
                               THEN lesson.controls ELSE task[r].controls
        /\ At(r, "queued") => task'[r].pc \in {"read", "lost"}
        /\ task[r].pc \in {"record", "finish", "unsaved"} =>
             task'[r].pc \in {"record", "finish", "unsaved", "ended", "lost"}
        /\ task'[r].pc # "queued"
    <3>1. task[r] \in Task /\ task \in [Runs -> Task]
      BY DEF TypeOK
    <3>2. CASE ReadLesson(r)
      BY <3>1, <3>2 DEF ReadLesson, At, Task
    <3>3. CASE TaskLost(r)
      BY <3>1, <3>3 DEF TaskLost, Goes, At, Task
    <3>4. CASE UpdateSuccess(r) \/ UpdateFailure(r)
      BY <3>1, <3>4 DEF UpdateSuccess, UpdateFailure, Goes, At, Task
    <3>5. CASE StartRun(r) \/ Work(r)
      BY <3>1, <3>5 DEF StartRun, Work, Goes, At, Task
    <3>6. CASE RecordGeneration(r) \/ RecordFailure(r)
      BY <3>1, <3>6 DEF RecordGeneration, RecordFailure, Goes, At, Task
    <3>7. CASE FinishRun(r) \/ FinishUnsaved(r) \/ FinishFailure(r)
      BY <3>1, <3>7 DEF FinishRun, FinishUnsaved, FinishFailure, Ends, Goes, At, Task
    <3> QED
      BY <3>2, <3>3, <3>4, <3>5, <3>6, <3>7 DEF TaskStep
  <2>2. Active(r)' => /\ task'[r].controls = lesson.controls
                      /\ lesson.status = "complete" =>
                           task'[r].pc \in {"record", "finish", "unsaved"}
    BY <1>1, <2>1 DEF Together, Active, At
  <2>3. ShownUnderItsControls'
    <3>1. SUFFICES ASSUME lesson.status = "complete"
                   PROVE  task'[lesson.detail].controls = lesson.controls
      BY <1>2 DEF ShownUnderItsControls
    <3>2. lesson.detail \in Runs
      BY <3>1 DEF LessonInv, TypeOK, Lesson, Text
    <3>3. ~At(r, "queued")
      BY <1>1, <3>1 DEF Together, At
    <3>4. task[lesson.detail].controls = lesson.controls
      BY <3>1 DEF Together, ShownUnderItsControls
    <3> QED
      BY <1>1, <2>1, <3>2, <3>3, <3>4
  <2> QED
    BY <1>1, <1>2, <2>1, <2>2, <2>3 DEF Together, Busy, At
<1>3. CASE UpdateSuccess(r) /\ lesson' # lesson
  <2>1. At(r, "persist") /\ lesson.status # "complete"
    BY <1>1, <1>3 DEF UpdateSuccess, Together, At
  <2>2. /\ lesson'.status = "complete" /\ lesson'.detail = r
        /\ UNCHANGED <<lesson.controls, lesson.docStatus>>
    BY <1>3 DEF UpdateSuccess, WithText, Touched, TypeOK, Lesson
  <2>3. task'[r].pc \in {"record", "unsaved"} /\ task'[r].controls = task[r].controls
    BY <1>3 DEF UpdateSuccess, Goes, TypeOK, Task
  <2>4. task[r].controls = lesson.controls
    BY <1>1, <2>1 DEF Together, At
  <2>5. \A q \in Requests : ~Busy(q)'
    BY <1>1, <2>1 DEF Together, Busy
  <2> QED
    BY <1>1, <2>1, <2>2, <2>3, <2>4, <2>5 DEF Together, ShownUnderItsControls, At
<1>4. CASE UpdateFailure(r)
  <2>1. At(r, "fail") /\ lesson.status # "complete"
    BY <1>1, <1>4 DEF UpdateFailure, Together, At
  <2>2. lesson'.status = "failed" /\ UNCHANGED <<lesson.controls, lesson.docStatus>>
    BY <1>4 DEF UpdateFailure, Touched, TypeOK, Lesson
  <2>3. task'[r].pc = "record_failure" /\ task'[r].controls = task[r].controls
    BY <1>4 DEF UpdateFailure, Goes, TypeOK, Task
  <2>4. \A q \in Requests : ~Busy(q)'
    BY <1>1, <2>1 DEF Together, Busy
  <2> QED
    BY <1>1, <2>1, <2>2, <2>3, <2>4 DEF Together, ShownUnderItsControls, At
<1>5. TaskStep(r) /\ ~UpdateSuccess(r) /\ ~UpdateFailure(r) => lesson' = lesson
  BY DEF TaskStep, ReadLesson, StartRun, Work, RecordGeneration, FinishRun, FinishUnsaved,
     RecordFailure, FinishFailure, Ends
<1>6. TaskLost(r) => lesson' = lesson
  BY DEF TaskLost
<1> QED
  BY <1>2, <1>3, <1>4, <1>5, <1>6

\* A request is made for the text that is shown, and stores a document about it.
LEMMA RequestTogether ==
  ASSUME Together, TypeOK, NEW q \in Requests, Ask(q) \/ RequestStep(q) \/ RequestLost(q)
  PROVE  Together'
<1>1. /\ UNCHANGED task
      /\ UNCHANGED <<lesson.detail, lesson.status, lesson.controls>>
  BY DEF Ask, AskPodcast, AskDocument, RequestStep, LookForAudio, OpenAudio, WriteAudio,
     WriteShared, WriteNameless, SavePodcast, SaveDocument, RequestLost, Touched, TypeOK, Lesson
<1>2. ASSUME NEW p \in Requests
      PROVE  Busy(p)' => lesson.status = "complete" /\ request'[p].of = lesson.detail
  <2>1. CASE Ask(q)
    BY <2>1 DEF Ask, AskPodcast, AskDocument, Ready, Together, Busy, TypeOK, Request
  <2>2. CASE RequestStep(q) \/ RequestLost(q)
    <3>1. Busy(p)' => Busy(p) /\ request'[p].of = request[p].of
      <4>0. request \in [Requests -> Request] /\ request[p] \in Request
        BY DEF TypeOK
      <4>1. CASE request[q].pc # "idle" /\ \E pc \in RequestSteps : Replies(q, pc)
        BY <4>0, <4>1 DEF Replies, Busy, Request
      <4>2. CASE Answered(q)
        BY <4>0, <4>2 DEF Answered, Idle, Busy, Request
      <4>4. CASE LookForAudio(q)
        <5>1. "mute" \in RequestSteps /\ "spoken" \in RequestSteps /\ "speech" \in RequestSteps
              /\ "orphan" \in RequestSteps /\ request[q].pc # "idle"
          BY <4>4 DEF RequestSteps, LookForAudio
        <5>2. CASE Replies(q, "mute") \/ Replies(q, "spoken")
          BY <4>1, <5>1, <5>2
        <5>3. CASE request' = [r \in Requests |->
                     IF r = q THEN [request[r] EXCEPT !.pc = "speech"]
                     ELSE IF request[r].pc \in {"stream", "shared"}
                          THEN [request[r] EXCEPT !.pc = "orphan"]
                     ELSE request[r]]
          <6>1. request'[p] = IF p = q THEN [request[p] EXCEPT !.pc = "speech"]
                              ELSE IF request[p].pc \in {"stream", "shared"}
                                   THEN [request[p] EXCEPT !.pc = "orphan"]
                              ELSE request[p]
            BY <5>3
          <6> QED
            BY <4>0, <5>1, <6>1 DEF Busy, Request
        <5> QED
          BY <4>4, <5>2, <5>3 DEF LookForAudio
      <4>5. CASE OpenAudio(q)
        <5>1. "mute" \in RequestSteps /\ "stream" \in RequestSteps /\ "shared" \in RequestSteps
              /\ request[q].pc # "idle"
          BY <4>5 DEF RequestSteps, OpenAudio
        <5>2. CASE Replies(q, "mute") \/ Replies(q, "stream")
          BY <4>1, <5>1, <5>2
        <5>3. CASE \E open \in SUBSET Requests :
                     /\ \A r \in open : request[r].pc \in {"stream", "shared"}
                     /\ request' = [r \in Requests |-> IF r \in open \cup {q}
                                                     THEN [request[r] EXCEPT !.pc = "shared"]
                                                     ELSE request[r]]
          <6>1. \/ request'[p] = request[p]
                \/ request[p].pc # "idle" /\ request'[p] = [request[p] EXCEPT !.pc = "shared"]
            BY <5>1, <5>3
          <6> QED
            BY <4>0, <6>1 DEF Busy, Request
        <5> QED
          BY <4>5, <5>2, <5>3 DEF OpenAudio
      <4>6. CASE WriteAudio(q) \/ WriteShared(q) \/ WriteNameless(q)
        <5>1. "mute" \in RequestSteps /\ "spoken" \in RequestSteps
          BY DEF RequestSteps
        <5>2. request[q].pc # "idle" /\ (Replies(q, "mute") \/ Replies(q, "spoken"))
          BY <4>6 DEF WriteAudio, WriteShared, WriteNameless
        <5> QED
          BY <4>1, <5>1, <5>2
      <4>7. CASE SavePodcast(q) \/ SaveDocument(q) \/ RequestLost(q)
        BY <4>2, <4>7 DEF SavePodcast, SaveDocument, RequestLost
      <4> QED
        BY <2>2, <4>4, <4>5, <4>6, <4>7 DEF RequestStep
    <3> QED
      BY <3>1 DEF Together
  <2> QED
    BY <2>1, <2>2
<1>3. ASSUME NEW k \in Documents, lesson'.docStatus[k] = "complete"
      PROVE  lesson.status = "complete" /\ lesson'.doc[k] = lesson.detail
  <2>1. CASE lesson'.docStatus[k] = lesson.docStatus[k] /\ lesson'.doc[k] = lesson.doc[k]
    BY <1>3, <2>1 DEF Together
  <2>2. CASE Busy(q) /\ lesson'.doc[k] = request[q].of
    BY <2>2 DEF Together
  <2>3. CASE SaveDocument(q)
    <3> DEFINE row == Touched(lesson)
               of == request[q].kind
    <3>1. /\ row \in Lesson /\ row.docStatus = lesson.docStatus /\ row.doc = lesson.doc
          /\ Busy(q)
      BY <2>3 DEF SaveDocument, Busy, TypeOK, Touched, Lesson
    <3>2. \/ lesson' = [row EXCEPT !.docStatus[of] = "complete", !.doc[of] = request[q].of]
          \/ lesson' = [row EXCEPT !.docStatus[of] = "failed"]
      BY <2>3 DEF SaveDocument
    <3> HIDE DEF row, of
    <3>3. CASE k = of
      <4>1. CASE lesson' = [row EXCEPT !.docStatus[of] = "failed"]
        <5>1. lesson'.docStatus[k] = "failed"
          BY <3>1, <3>3, <4>1 DEF Lesson
        <5> QED
          BY <1>3, <5>1
      <4>2. CASE lesson' = [row EXCEPT !.docStatus[of] = "complete", !.doc[of] = request[q].of]
        <5>1. lesson'.doc[k] = request[q].of
          BY <3>1, <3>3, <4>2 DEF Lesson
        <5> QED
          BY <2>2, <3>1, <5>1
      <4> QED
        BY <3>2, <4>1, <4>2
    <3>4. CASE k # of
      <4>1. CASE lesson' = [row EXCEPT !.docStatus[of] = "failed"]
        BY <2>1, <3>1, <3>4, <4>1 DEF Lesson
      <4>2. CASE lesson' = [row EXCEPT !.docStatus[of] = "complete", !.doc[of] = request[q].of]
        <5>1. lesson'.docStatus[k] = row.docStatus[k]
          BY <3>1, <3>4, <4>2 DEF Lesson
        <5>2. lesson'.doc[k] = row.doc[k]
          BY <3>1, <3>4, <4>2 DEF Lesson
        <5> QED
          BY <2>1, <3>1, <5>1, <5>2
      <4> QED
        BY <3>2, <4>1, <4>2
    <3> QED
      BY <3>3, <3>4
  <2>4. ~SaveDocument(q) => UNCHANGED <<lesson.docStatus, lesson.doc>>
    BY DEF Ask, AskPodcast, AskDocument, RequestStep, LookForAudio, OpenAudio, WriteAudio,
       WriteShared, WriteNameless, SavePodcast, RequestLost, Touched, TypeOK, Lesson
  <2> QED
    BY <2>1, <2>3, <2>4
<1> QED
  BY <1>1, <1>2, <1>3 DEF Together, ShownUnderItsControls, Active, At

\* Every step of SerialNext keeps what belongs together.
LEMMA NextTogether ==
  ASSUME Together, LessonInv, TypeOK, [SerialNext]_vars
  PROVE  Together'
<1>1. CASE Quiet /\ \E r \in Runs : Submit(r)
  BY <1>1, SubmitTogether
<1>2. CASE \E r \in Runs : TaskStep(r) \/ TaskLost(r)
  BY <1>2, TaskTogether
<1>3. CASE Feedback \/ GrowStale \/ Recover \/ UNCHANGED vars
  <2>1. /\ UNCHANGED <<task, request, lesson.detail, lesson.controls, lesson.docStatus, lesson.doc>>
        /\ \/ lesson'.status = lesson.status
           \/ lesson.status = "pending" /\ lesson'.status = "failed"
    <3>1. CASE Feedback
      BY <3>1 DEF Feedback, Touched, TypeOK, Lesson
    <3>2. CASE GrowStale
      BY <3>2 DEF GrowStale, TypeOK, Lesson
    <3>3. CASE Recover
      BY <3>3 DEF Recover, Touched, TypeOK, Lesson
    <3>4. CASE UNCHANGED vars
      BY <3>4 DEF vars
    <3> QED
      BY <1>3, <3>1, <3>2, <3>3, <3>4
  <2> QED
    BY <2>1 DEF Together, ShownUnderItsControls, Active, At, Busy
<1>4. CASE \E q \in Requests : Ask(q) \/ RequestStep(q) \/ RequestLost(q)
  BY <1>4, RequestTogether
<1> QED
  BY <1>1, <1>2, <1>3, <1>4 DEF SerialNext, Goings

\* Without overlap, what holds of all behaviours and what belongs together.
LEMMA SerialTogether == SerialSpec => []Together
<1>1. [SerialNext]_vars => [Next]_vars
  BY DEF SerialNext, Next
<1>2. SerialSpec => Spec
  BY <1>1, PTL DEF SerialSpec, Spec
<1>3. Together /\ LessonInv /\ TypeOK /\ [SerialNext]_vars => Together'
  BY NextTogether
<1> QED
  BY <1>2, <1>3, InitTogether, LessonTypeCorrect, LessonCorrect, PTL DEF SerialSpec

\* ShownUnderItsControls: submitted while nothing is under way, a lesson is shown
\* under the depth and persona it was written for.
THEOREM SerialControls == SerialSpec => []ShownUnderItsControls
<1>1. Together => ShownUnderItsControls
  BY DEF Together
<1> QED
  BY <1>1, SerialTogether, PTL

\* DocumentsMatchText: and its documents are about the text beside them.
THEOREM SerialDocuments == SerialSpec => []DocumentsMatchText
<1>1. Together => DocumentsMatchText
  BY DEF Together, DocumentsMatchText
<1> QED
  BY <1>1, SerialTogether, PTL

=============================================================================
