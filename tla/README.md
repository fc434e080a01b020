# Verification of news-dashboard

TLA+ specifications of the parts of news-dashboard whose correctness depends on
order, failure and time, the TLC runs that check them on small instances, and
theorems about them that TLAPS checks for every instance.  Paths below are
relative to `src/backend/news_dashboard/` unless they start with another
directory of the repository.

## The system

news-dashboard is a self-hosted reader of technical news: a FastAPI backend over
PostgreSQL with an APScheduler in the same process, a React client, and
Android, desktop and Helm packaging.  Requests run on threads; every
`connect()` block is one READ COMMITTED transaction.  Several replicas may run
against one database, each with its own scheduler and its own process memory.

| Component | State it keeps | Operations | What is hard | What makes it correct |
|---|---|---|---|---|
| Daily briefing e-mail (`briefing_email/service.py`) | one ledger row per user and local date | acquire, transitions, retry | replicas, takeovers, crashes, an SMTP reply that is lost | at most one message per date unless a reply is lost; consent; finality |
| Briefing generation (`briefings/service.py`) | briefings and their citations | generate, reuse, fail | check-then-act, midnight | one briefing in ten minutes, but for requests that overlap |
| E-mail enrichment and previews (`briefing_email/enrichment.py`) | one research row per briefing, cooldowns in memory | claim, complete, fail, skip | takeover of a slow run, unfenced writes | a completed result is kept |
| Lessons (`learn_from_link/service.py`, `tts.py`) | lesson, run and history rows, media | create, regenerate, finish, recover | a worker that finishes after its lesson was restarted | what is shown belongs together |
| Article library (`ingest/service.py`, `embedding_dedup.py`, `scheduler/retention.py`) | articles and their originals | ingest, share, fold duplicates, delete | open transactions, stale batches, private sources | one row per address; originals last; what is kept stays |
| Reader workflow (`ingest/service.py`, `articles/`, `greader.py`) | one row per reader and article | move, star, snooze, share, list | several clients, rows read before they are written | no update is undone; one list per article |
| Sources (`sources/`, `personalization/service.py`, `onboarding/`) | global and private sources, subscriptions, priorities | create, delete, toggle, import, clean up | keys shared by readers, rows read before they are written | a reader sees and changes their own; what is fetched is listed to someone |
| Ingestion runs (`ingest/service.py`, `ingest_events.py`, `source_health.py`) | runs, rows per source, counters, queues | fetch, retry, record, stream | processes that stop, clients that come late, mirrors | reports add up; the screen shows the log |
| Scheduler control (`scheduler/`) | settings, the job, what the process says | interval, pause, resume, start | three places written one after the other | they agree unless a step failed |
| Newsletters (`newsletter_ingest.py`) | flags in a mailbox, articles | poll, insert, flag | flags per message, commit per batch | what is flagged is stored, or has failed |
| Watchlists (`watchlist_agent.py`) | watchlists, nudges | evaluate, push, edit, delete | snapshots, overlapping evaluations | one push per match |
| Reading activity (`reading_progress/activity.py`) | consent, windows, counted time | consent, open, heartbeat, clean up | repeated heartbeats, several clients, fences | time counts once, and only under consent |
| Credits and rewards (`reading_progress/`) | credits, rewards, a cursor | read, import, scan, claim | a tool that works in batches among readers | no read is left out; rewards follow credits |
| Daily visits (`reading_progress/daily.py`) | visits, streaks, welcomes | visit, claim, dismiss | tabs, midnight, changes of zone | streaks are runs of dates; one welcome a day |
| Reader evidence (`reading_progress/reader.py`) | one lease per reader | start, report | tabs, lost answers, changed bodies | a credit has been earned |
| Article content (`body_fetch.py`, `insights.py`, `perspectives.py`, `entities.py`) | columns of an article | fetch, generate, extract | check-then-act around model calls | one analysis; relationships of these entities |
| Recommendations (`recommendations.py`, `recommendation_jobs.py`) | scores per reader and article | mark, recompute | changes during a recomputation | scores catch up |
| Recaps (`recaps/service.py`) | one recap per week | measure, store, narrate, push | overlapping jobs | one recap is told |
| Push (`push.py`) | permits, worker threads, connections | open, read, give up | deadlines racing completion | permits and connections are given back once |
| Agent actions (`agent_actions.py`) | runs, steps | propose, approve, cancel, execute | status read before it is written | effects are approved |
| Page fetches (`body_fetch.py`, `url_safety.py`) | attempts, a cooldown | fetch by one method after another | redirects, addresses that are not public, pages without text | the server connects to addresses that were checked |
| Lessons on the shelf (`learn_from_link/`) | lessons, graph, feedback | list, trail, suggest | lessons added between two pages | pages miss nothing; a trail leads on |
| Surfaces (`articles/`, `greader.py`, `embeddings.py`, ...) | none of their own | list, count, search, stream, map | a query each, of the same rows | counts match lists; what is found is the reader's |
| Archive and memories (`import_export.py`, `ai_memory/`) | the account | export, restore, remember | restores after more was done, or elsewhere | once is enough; a read is credited once |
| Briefing stages and podcast (`briefings/service.py`, `tts.py`) | runs, briefings, scripts, files | five stages, script, speech | overlapping requests, lost records, shared files | citations are of candidates; the podcast says its script |
| Shares (`shares/`) | shares, marks, messages, context | share, visit, mark, revoke | the look and the write are apart; tasks | revoked is closed; what is said of marks is of them |
| Reading list (`reading_list/`) | items | add, import, fetch, sum up | a task and a sweep for one item | a page is listed once; statuses are true |
| Lesson recaps (`lesson_recaps/`, `tts.py`) | one row per day, files of sound | measure, save, read aloud | overlapping makers, broken writes | a recap is of its week; sound of its recap |
| Quizzes and goals (`quizzes/`) | goals, quizzes, rewards | generate, submit, claim | what was read changes; resubmission | results are of the answers; one reward |
| MCP briefings (`mcp/briefings.py`) | none | fit into a budget | what is dropped is referred to | answers are closed and omissions counted |

Components interact through tables (the scheduler selects users and ledger
rows; delivery reads briefings, consent, enrichment and reading progress;
watchlists follow each ingestion; credits come from the workflow, from evidence
and from imports), by direct calls inside a replica, and through process memory
that other replicas do not see (cooldowns, permits, scheduler state).  Components
that are not modelled are listed at the end.

## Modules

| Module | Models |
|---|---|
| `BriefingDelivery` | ledger, per-minute job, transport, account, clock |
| `DailyMail` | abstract: what the ledger promises of each date's messages |
| `BriefingEnrichment` | the research row of a briefing, its callers, the cooldown of previews |
| `LessonGeneration` | one lesson's row, its tasks, run and history rows, recovery, media |
| `ArticleLibrary` | articles of all readers: ingestion runs, sharing, both dedup passes, retention, restart |
| `ReaderWorkflow` | one article in the hands of one reader, and the queries that list it |
| `SourceCatalogue` | global and private sources and all that requests do to them |
| `FeedFetch` | one check of a source: requests, retries, mirrors, entries |
| `IngestReport` | the record of runs, and the health derived from it |
| `IngestStream` | the log of a run and the clients that follow it |
| `SchedulerControl` | the interval and the pause of the ingest job |
| `NewsletterPoll` | a mailbox, the polls of it and the articles they insert |
| `WatchlistEvaluation` | watchlists, evaluations after ingestions, nudges and pushes |
| `ReadingActivity` | connected time: consent, fences, windows, heartbeats, the minute job |
| `ReadCredits` | credits and rewards of reads, imports, and the history tool |
| `DailyVisits` | visits and streaks by local date, and the welcome |
| `ReaderEvidence` | the lease under which attention to an article is reported |
| `ArticleContent` | body, analyses, entities and relationships of one article |
| `ScoreRefresh` | when scores are marked, chosen, computed and written |
| `WeeklyRecap` | the recap of one reader's week |
| `PushTransport` | permits, workers and connections of push messages |
| `AgentActions` | a plan proposed by the agent, its approvals and its execution |
| `BriefingBudget` | the fitting of a briefing into a tool's answer |
| `PageFetch` | the methods that fetch a page, its gate of quality, and the addresses connected to |
| `LessonPipeline` | one run of the lesson graph, its step rows and what failures leave |
| `LessonShelf` | lists, trails and suggestions of a reader's lessons |
| `ArticleSurfaces` | the queries of every surface that shows or uses articles |
| `PersonalArchive` | export and restore of an account, and what the assistant remembers |
| `BriefingPipeline` | the five stages of a briefing and the record of its run |
| `BriefingPodcast` | script and sound of a briefing, asked for by owner and feed |
| `Shares` | shares between readers, marks, messages, and the tasks that tell their context |
| `ReadingItems` | the reading list: adding, imports, fetches and summaries |
| `LessonRecaps` | measures of a week's lessons, the rows kept of them, and their sound |
| `WeeklyQuiz` | goals, quizzes about what was read, answers and rewards |

`MCBriefingDelivery` gives model values and symmetry; `LessonGeneration` states its own symmetry.
`MCArticles`, `MCSources`, `MCReading` and `MCServices` bring together the smaller components:
they share no state that matters to the properties, so a variable `part`, chosen
initially, says which of them moves, and one run explores each by itself.  Invariants of
several parts that say one kind of thing are conjoined there under one name:
`RunsAreShown`, `SettingsInEffect`, `CountedAndShown`, `TalliesAreTrue`, `WorkEnds`.
`X_proofs` hold the theorems, see Proofs.  A definition whose comment begins with
`Holds not` is a property the code does not have; the section of its module says how
it fails.

### BriefingDelivery

One user is fixed; a delivery is named by its local date.  Other users appear as
runs of the job with nothing to do for this one.  A replica's run of the job is
a record whose `pc` names the next transaction or transport call:

| Code | Model |
|---|---|
| `_run_per_user_briefings`: SELECT, matching of the minute, loop | `StartJob`, `NextDelivery`, `EndJob` |
| `claim_delivery`, `_acquire_delivery` | `Claim`, `Reclaim` |
| `_find_local_day_briefing` | `Find` |
| `generate_briefing`, `_save_briefing` | `Generate`, `SaveBriefing`; another caller: `AskBriefing` |
| enrichment, progress, rendering | `Prepare` |
| `_transition_delivery` | `Holds`, `Move`, `ClaimLost`, used by `MarkRendered`, `MarkSending`, `Settle` |
| the second read of consent and the transport's configuration | `CheckConsent` |
| `send_email` and its outcome | `Send`, `Outcome` |
| an exception that leaves `deliver_daily_briefing`; the end of the process | `Escape`, `Crash` |
| settings, unsubscribe link | `OptIn`, `OptOut`, `ChangeBriefingTime` |
| clock | `ScheduledMinute`, `MinuteEnds`, `Midnight`, `Tick` |

Each action is one transaction or one call, so another replica, the user, the
clock or a crash may act between any two.

Time is relative: a claim has an age, a retry has a wait, a run has a lag (how
long ago its `now` was taken), all in units of the 15-minute retry delay.
`claimed_at` is a claim token: a fresh one per claim, which says that two claims
of one row never carry the same microsecond.  `mailed`, `copies` and `lost` are
what the mail server saw and are never read by the code's actions.

Left out of this module: the text of the message, enrichment and progress; the
push of the same job (a user with push only is `AskBriefing`); changes of the
time zone; `attempt_count`, `error_code` and `sent_at`, which nothing reads back.
The address of an account does not change and its absence (`missing_email`) has
the outcome of a missing configuration, `permanent_failed`; a guest is an account
that is not enabled.  What a briefing is about is not modelled, so that a briefing
made with a focus prompt differs from another only in not being reused as recent.

Definitions whose comment begins with `Wrong:` are variants with one mistake in
them that no action uses.  Replacing the definition that follows by its variant
makes TLC report the property named in `PROJECT.json`; this is how each property
was tried out.

### DailyMail

Each date is open, sending or closed; a message is confirmed or its reply is lost;
nothing follows a confirmed message.  `BriefingDelivery` implements it under
`Phase`: a date is closed by its final status, and already by the server's
confirmation while the row still says `sending`.  Claims, takeovers, consent,
crashes and clocks are stutters of `DailyMail`.

### LessonGeneration

One row of `lessons`.  Every submission of the link, new, repeated or with other
controls, starts a background task; none of its writes is conditional on the
lesson still being the one it was started for, so two tasks may write in any
order.  A text, a document and the narration's file are named by the run whose
text they are or were made from.

| Code | Model |
|---|---|
| `create_lesson`, `regenerate_lesson` | `Create`, `Regenerate`, both through `Reset` |
| `generate_lesson_from_url`, `start_run` | `ReadLesson`, `StartRun` |
| the graph up to citations and relevance | `Work` |
| `persistence_node` | `UpdateSuccess`, `RecordGeneration`, `FinishRun`; after an exception `FinishUnsaved` |
| `failure_node` | `UpdateFailure`, `RecordFailure`, `FinishFailure` |
| process ends, exception outside the handlers | `TaskLost`, `RequestLost` |
| `recover_stale_pending_lessons` | `GrowStale`, `Recover` |
| `generate_lesson_podcast`, `generate_lesson_podcast_audio` | `AskPodcast`, `LookForAudio`, `OpenAudio`, `WriteAudio`, `WriteShared`, `WriteNameless`, `SavePodcast` |
| `generate_lesson_slide_deck`, `generate_lesson_infographic` | `AskDocument`, `SaveDocument` |
| `submit_relevance_feedback` | `Feedback`, for the age of the row only |

The file of the narration is truncated when the stream opens (`"torn"`), may be
shared by two streams, and a forced request unlinks it under a stream, which then
writes to a file without a name (`"orphan"`).  `finish_run` swallows its errors,
so a run may stay `running`.  The file is found by the lesson's number, so that a
request made after a regeneration is answered with the narration of the text before
(`PodcastMatchesText`, refuted by `lesson_doc_podcast`), and after a stream that broke
off with a torn one (`PodcastIsWhole` holds not).

Left out: title, source and study artifacts (they travel with the text), relevance and
its feedback as data, and chat; steps and graph are in `LessonPipeline`, lists and
trails in `LessonShelf`.  Two tasks of two lessons meet nowhere else.

Three more things that the state space contains and no run is spent on: a task
that recovery gave up on replaces the text of the retry, so that the lesson is
shown under other controls than its own, and a deck asked for before a
regeneration is stored beside the new text (`ShownUnderItsControls` and
`DocumentsMatchText` fail under `PatientSpec`); and a history row that fails to be
written leaves a text that the history does not have.

### BriefingEnrichment

One briefing of one user, and the requests that want its research: deliveries and
previews (`_claim_preview` … `send_preview`).  The process forgets the cooldown of
previews when it ends; the research row stays.

| Code | Model |
|---|---|
| `send_preview`: claim, send, release | `Ask`, `SendMessage`, `FailMessage`, `CooldownLapses` |
| `enrich_briefing`: completed row, budget, configuration | `LoadCompleted`, `RecordSkipped` |
| `_claim_run` | `Claimable`, `ClaimRun` |
| `_save_completed`, `_record_failure` | `SaveCompleted`, `RecordResearchFailure` |
| a run that is not touched grows stale; the process ends | `GrowUntouched`, `EnrichmentCrash` |

A run taken over by another still writes: `_save_completed` is not fenced, and the
model keeps it so.  What must survive is a completed result.  `PreviewsAreApart`,
stated and not run, is false: a preview that fails late releases by key the cooldown
that a newer preview holds.

### ArticleLibrary

Articles are identifiers in the order of discovery; addresses are a small set, and the
similarity of titles and the closeness of embeddings are relations on addresses.  A row
that an open ingestion has inserted is in `staged`: no other process sees it, and its
address blocks theirs.

| Code | Model |
|---|---|
| `ingest_all`, `_ingest_source`, `_persist_entry` | `StartRun`, `Fetch`, `Persist`, `CommitSource`, `FailSource`, `FinishRun` |
| `_find_canonical` | `FindCanonical` |
| `save_shared_url` | `SaveSharedUrl` |
| `embedding_dedup.py`: query, then one update per pair | `ScanDuplicates`, `MergeDuplicates` |
| `cleanup_old_articles`: batch, then delete | `PickOld`, `DeleteOld` |
| star, tag, cite, share; the clock; the schema statements of a start | `Keep`, `Age`, `Restart` |

Left out: the text of articles, scores, the health of sources, filters (an entry that is
filtered adds nothing).  `DuplicatesAreArchived`, stated and not run, is what
`embedding_dedup.py:12` says of both passes; ingestion leaves `state` at its default
until the next start.

### ReaderWorkflow

The row of one reader and one article.  A handler locks the article, reads the row,
computes and writes (`Begin`, `Finish`, `GiveUp`); `Share` is one statement without the
lock.  The queries that list an article (`Listable`, `InFeed`, `TodayCandidate`,
`InSearch`, `CountedAs`, `ReadTag`) are operators, and `OneListEach` relates them.
Stated and not run, all false: `NoSkippedStar` (an article that was skipped may be
starred afterwards), `SnoozeKeepsItsEnd` and `StarredStays` (a star clears the end of a
snooze; a share between read and write is undone).

### SourceCatalogue

Global sources, created by an administrator or with the first interests, and private
ones, whose key is the reader and the name they chose.  A request reads and then writes
(`CreateSource`, `ImportOpml`, `DeleteSource`, `SetSourceEnabled`, `SourceCleanup`,
`SetSourcePriority`, `SaveInterests`).  `Listing` is what a reader is shown and `Fetched`
what an ingestion asks for; `FetchedIsListed` relates them, and `ListingIsOwn` says
that a listing changes by requests of its reader or of global sources only.

### FeedFetch

One check of one source: the requests to it, to the mirrors of its kind and to the
pages of entries without text, with what each may answer.  The next mirror is asked
after a refusal, a feed that is none and a placeholder (`NextMirror`); any other
exception ends the check at whichever mirror it is (`NoAnswer`).

| Code | Model |
|---|---|
| `_fetch_feed_content`: retry, wait, give up | `AnswerFeed`, `Busy`, `Awake`, `NoAnswer` |
| `_fetch_nitter_feed` | `NextMirror` |
| `_ingest_source`: entries, snippets, the outcome | `BeginCheck`, `TakeEntry`, `FetchSnippet`, `PersistEntry`, `BreakEntry`, `EndCheck`, `FailCheck` |

### IngestReport

The rows of `ingest_runs` and `ingest_run_sources`, written by runs of two processes that
may stop between any two of them, and the health that is derived from them.  A run that
is lost has no end.

| Code | Model |
|---|---|
| `ingest_all`, `_create_ingest_run`: the run's row, the sources with their names | `BeginReport` |
| `_ingest_source`, `_record_ingest_source`, `_finish_ingest_run` | `CheckSource`, `RecordSource`, `FinishReport`, `BreakOff`, `LoseReport` |
| `_restore_private_source` | `Rename` |
| `list_source_health`: aliases, order of the rows, streak, status | `Answering`, `CreditedTo`, `NoLater`, `RowsFor`, `ErrorStreak`, `HealthStatus` |

A row stores the name that its source had when the run began, in the spelling of that
moment; the source itself, `origin`, is there for the properties only.  A listing
credits the rows of a name to the last source listed whose name or slug it is, in lower
case and trimmed (`NameKey`, `SlugKey`), and a source without rows shows its
`last_error`.  Names are not unique, and a restored archive gives a private source
another (`import_export.py:520`).  So health is that of the last check only where a
source is mistaken for no other and all its rows are under one name (`Unmistaken`,
`HealthIsLastCheck`): of two sources of one name the success of one hides the failure of
the other (`FailureIsTold` holds not).  Names of the default catalogue change with a
release only, which is not modelled, nor is the streak that `source_cleanup` counts with
a query of its own.

### IngestStream

The lines of a run (`BeginLog`, `AppendLine`, `CompleteLog`), each put on the queue of
every client.  A client takes a snapshot first (`Silent`, `Replay`) and then what comes.
`ScreenShowsLog` says that a client's screen and its queue are together the log.

### SchedulerControl

A request saves a setting (`SaveSetting`) and then changes the job (`ApplyToJob`), whose
errors are logged only; a start takes both from the settings (`StartScheduler`).
`IntervalInEffect` holds unless a step has failed or two requests overlapped.

### NewsletterPoll

A mailbox of messages, polls that list the unread ones, fetch, insert and flag them in
batches, one transaction per batch.  `FetchFlags` says whether the server flags a
message that is fetched, as IMAP servers do for `RFC822`.  `OnlyTroubledAreLeft` says
which messages may be left unflagged after undisturbed polls.

### WatchlistEvaluation

`evaluate_watchlists` runs after each ingestion, and may overlap with another and with
the reader's edits.  It reads the enabled watchlists once (`SnapshotEnabled`), scores
(`ScoreWatchlist`), inserts a nudge under a unique key (`RecordNudge`), pushes
(`PushEnds`), and goes on (`NextWatchlist`).  An insert that violates a foreign key ends
it (`RecordRefused`).

### ReadingActivity

Consent has a revision; a window is opened under one and reports intervals of time;
`Uncovered` is the part of an interval that no earlier one counted.  Time is in ticks,
a minute has `Minute` and a day `DayLength`.  `EachInstantOnce` compares the counted
total with the union of what was reported while connected.  `NothingFromBefore` is the
fence: after a withdrawal no time is counted that was spent before.

### ReadCredits

An article is read when it is marked done (`MarkDone`), restored by an import
(`ImportRead`), finished on the reading list (`FinishItem`) or heard to its end
(`FinishAudio`); the credit is by address, so that an article deleted and found again
(`RemoveArticle`, `Discover`) counts once.  The tool that credits the history of a reader
works in batches behind a cursor among readers who go on reading (`Prepare`, `Batch`),
and rewards follow the number of credits (`Claim`, `Acknowledge`, `ClaimIntro`).

### DailyVisits

A visit is recorded for the date in the reader's zone (`RecordVisit`), which the reader
may change at any moment (`UpdatePreferences`), also to one where the date is earlier.
`ClaimPresentation` shows the welcome of a day once.

### ReaderEvidence

One lease per reader.  A tab starts reading a page, reports time and progress, may send
a report again (`Resend`), and loses the lease to another tab; the article moves, its
body is replaced and consent is withdrawn meanwhile.  `attention` is the time spent in
front of the article, which the server never sees.  `CreditIsEarned` says that a credit
comes only with the time and the progress that the code requires.

### ArticleContent

The body, the two analyses, the entities and their relationships of one article, and
two callers of each.  Analyses are made under a lock on the row (`LockAnalysis`,
`EndAnalysis`); bodies and entities are stored after a call without one (`AskBody`,
`StoreBody`, `AskEntities`, `StoreEntities`); relationships are stored only for the
entities that still stand (`WithRelationships`).

### ScoreRefresh

When a reader's scores are marked stale, chosen by a sweep, computed from the taste that
was loaded and written.  A sweep writes the scores of the taste it loaded, whatever has
been changed meanwhile.  It loads the newest `MaxScored` articles of the feed
(`NewestLive`), a thousand in the code.  `ScoresCatchUp`, the liveness of this part, is
about these; `OldScoresCatchUp`, which is about the whole feed, holds not, for an article
with a thousand newer ones is scored no more, and retention is off by default.

### WeeklyRecap

Two jobs measure (`AssembleRecap`), store (`SaveRecap`), narrate (`FillNarrative`) and
push (`PushRecap`) the recap of one week while the reader reads on.

### PushTransport

A permit, a worker thread and a connection per message.  Each operation of the pair
opening and reading has a deadline that races its completion; `_run_admitted` gives the
permit back when the work ends, and whoever finds the connection last closes it.

### AgentActions

A run with its steps is proposed, approved, cancelled and executed.  Requests read the
status (`ReadStatus`) before they write it (`CancelRun`, `LoadApprovedRun`), so that two
approvals may execute one plan; `AgentInv` says what holds even then.

### BriefingBudget

A pure computation: `Normalize`, then `DropCitation`, `DropSection` and `ShortenText`
until `Answer` fits.  The size is the number of citations, sections and units of text.
An answer may have left out references of worth_opening alone and then does not say
that it is truncated.

What is stored need not have the shape it should.  A list of ids or of articles that is
no list (`NotAList`) is one citation that is left out; a section that is no mapping
(`Malformed`) is one section; content that is no mapping, or whose sections or
worth_opening are no lists (`shaped` is false), is one malformed section and no citation,
however much it holds.  Each of these is marked.  `OmittedIsCounted` says that shown and omitted
add up to what is stored, with one for each of these; `EverySectionIsCounted`, which
counts what such content holds, holds not.

### PageFetch

The extraction of one page's text: methods are tried in order (`NextMethod`,
`SkipMethod`), each request is resolved, checked and dialled (`Resolve`, `Dial`,
`Redirected`), and its answer judged (`Answered`, `Rendered`, `JudgeTry`).  The
browser's requests go through a proxy that checks in the same way; those connections
are not in the model, a rendering is a choice of its outcome.  `PageInv` says that
each connection that the server itself makes is to an address that had been found public
in that very resolution,
that a text which is given is one that the last attempt was accepted for, and that
without one every allowed method was tried, unless the first answer settled it.  `Text`
of a page is a number of characters and blocks around the limits.

Here and in `ArticleContent`: `body_fetch.py:4-6` says that a body that was fetched is
kept, and a slow failing fetch overwrites it with nothing (lines 741-746).

### LessonPipeline

| Code | Model |
|---|---|
| the nodes of the graph, in order | `FetchNode`, `ExtractionNode`, `SynthesisNode`, `CitationNode`, `RelevanceNode`, `FailAt` |
| step rows, which may fail without a trace | `RecordStep`, `EscapeLogged`, `Escape` |
| persistence | `UpdateLesson`, `PersistGraph`, `RecordHistory`, `FinishComplete`, `FinishEscaped` |
| failure | `FailLesson`, `FinishFailed` |

`StepsTellTheRun` says what may be concluded from the rows that were written, whichever
were lost; `LessonIsWhole` that a lesson which is shown cites its own text and that its
context and graph are closed.  A page whose
first sentence is longer than 280 characters, or whose title is blank, always fails.

### LessonShelf

Lists by offset (`FirstPage`, `NextPage`) while lessons come (`CreateLesson`,
`EndLesson`); trails by shared terms (`LessonPath`, `ArticlePath`, `Trail`);
suggestions (`Like`, `Dismiss`, `Suggested`).  `PagesMissNothing` is about the lessons
that were there when the first page was read.  `SomethingIsSuggested` holds not: the
pool of candidates is cut before those that may be suggested are picked from it.

### ArticleSurfaces

Four articles of three owners, and one operator per query: lists, `Summary`, `Search`,
`Stream`, `AlsoFrom`, `Asked`, `TopicMap`, `EntityGraph`, `BriefingCandidates`,
`ScoreCandidates`, `TodaysPages` and others.  Actions make the states they meet:
duplicates, moves, switched sources, scores of the newest `MaxScored` candidates
(`NewestCandidates`).  `SurfacesInv` says that counts are of
their lists, that what is found elsewhere is in a list or was archived as a repetition,
that nothing is of another reader, and that the pages of today together show the list
while the articles without a score fit into the window of candidates.
`EveryPageShowsToday`, which says so without the condition, holds not.  A snoozed
article that came back is counted nowhere in the summary. Duplicates found at ingestion
stay listed and are not named by `AlsoFrom`, although `embedding_dedup.py:14-17` says
that both passes give one shape.

### PersonalArchive

`TakeExport` and `Restore`, with `RestoreArticles`, `RestoreReports`, `RestoreMemories`,
`RestoreFeeds` and `RestoredConsent` as its parts in their order, one transaction with a
savepoint per entry (`broken` are those that fail); into the account as it has become
(`Edit`) or a new one (`NewAccount`).  `ArchiveInv` says that a restored archive is true but
for what it counts as skipped (`RestoreIsTrue`), that every read is credited
(`ReadsAreCredited`), and that a second restore changes nothing but what the first could
not do (`RestoreIsOnce`).

What a reader of the code should know: articles come before sources, so that those of a
private source that the restore itself creates are skipped the first time, and
`FirstIsEnough` holds not; a source deleted after the export is counted as updated and
stays deleted; of two memories with one content the first is set to the last, and one
that was deactivated may be active again (`ForgottenStays` holds not); consent to e-mail
is never restored and consent to analytics is; the content of briefings is not part of
the archive.

### BriefingPipeline

Two requests, each with a focus, go through `CandidateSelection`, `ThemeClustering`,
`Drafting`, `CitationVerification`, `Assembly` and `ReadAgain`; what each records may be
lost (`L`), and a stage may fail or break off (`Fail`, `Break`, `StopAll`).
`RunTellsStory` says what may be read off a run, `BriefingsAreGrounded` that citations
are of candidates, `DraftedByTheme` that the model is given the stories theme by theme
with none lost, `OneInTenMinutes` that one focus gets one briefing in ten minutes but
for requests that overlap.  Hold not: `OneAtAll` (two requests that overlap make two
briefings), `FailureIsLeft` (a failing assembly leaves no failed row; when only the
re-read fails the run is called failed and its briefing exists; another exception leaves
the run running) and `EqualsKeepTheirOrder` (a focus puts the least important of equals
first). The check and the start of a run are one action.  Candidates are not deleted
within the minutes of a run: retention deletes what is weeks old.

### BriefingPodcast

| Code | Model |
|---|---|
| `generate_podcast_endpoint`, `podcast_rss_feed_endpoint` | `GeneratePodcast`, `PodcastFeed` |
| `generate_podcast_script`, `update_briefing_script` | `MakeScript` |
| a turn: `stream_to_file`, `read_bytes`, `unlink` | `OpenTurn`, `StreamTurn`, `ReadTurn`, `RemoveTurn`; after a failure `TidyUp` |
| the whole: `write_bytes` | `OpenFile`, `FillFile` |

Files have names of the briefing and the turn alone, so overlapping requests share them.
Who opens a turn's file empties it (`Torn`), also under one who streams into it or is
about to read it, and who is done removes it (`Unlink`) under the others; a stream into a
file that another has opened too leaves the sound of either or a mixture, one into a file
that was removed leaves nothing.  The file of the whole is emptied and filled in the
same way.

`PodcastSaysScript` says that a podcast made without company is whole and of the script
of its row, whatever earlier requests have left, and that there is no podcast without a
script.  Of podcasts made in company nothing is said, for nothing holds:
`PodcastIsOfOneScript` (two requests mix their turns), `TurnsAreWhole` (one reads a turn
that another has just emptied) and `PodcastIsWhole` (a file that was cut by a stop is
served ever after) hold not.

### Shares

A visit looks whether a share is open (`LetIn`) and acts later (`AddMark`, `AddMessage`,
`GiveArticle`); tasks tell the recipient and the context (`TellRecipient`,
`ReadForContext`, `StoreContext`).  `RevokedIsClosed` says that only visits that were
let in before the revocation still write.  Hold not: `LastContextIsNewest` (the task
that answers last may have read the fewest marks) and `EveryUnreadIsListed` (what is
beyond the limit of the inbox is counted).

### ReadingItems

Adding (`AddPage`), imports (`ImportItems`), the sweep (`ProcessPendingItems`) and one
fetch and summary per hand (`FetchMetadata` … `SummaryAnswers`).  `PageIsListedOnce`,
`ImportedTitleIsKept` and `StatusIsTrue` are `ListInv`.  Hold not: `SummaryIsSettled`
(an imported item with a title is never summed up, nor is one whose task was lost after
its fetch) and `WhatIsThereIsOk` (of two fetches the one that fails may write last).
Statuses, priorities and the order of items are left out; done is in `ReadCredits`.

### LessonRecaps

| Code | Model |
|---|---|
| `assemble_weekly_lesson_recap`, the narrative | `Assembled`, `TopConcepts`, `RepeatedThemes`, `Narrative`, `Measure` |
| `save_weekly_lesson_recap` | `WeekOf`, `Saved`, `SaveLessonRecap`, `LoseLessonRecap` |
| `generate_lesson_recap_podcast`, `tts.py` | `AskForSound`, `LookForSound`, `OpenSpeech`, `WriteSpeech`, `SpeechFails`, `MarkSound`, `LoseTeller` |

`RecapsInv` says that a recap is of its week, that a settled sound is of its recap, and
that a recap saved again is silent until asked for.  Hold not: `SoundIsConsistent` (a
recap saved again keeps its file, and the next request takes it, although
`tts.py:405-407` says that the audio is consistent with the page), `CompleteIsWhole` (a
write that broke off leaves a cut file, which the next request takes), `CompleteIsThere`
(a forced request that fails has removed the file), `LatestMeasureStays` (a measure
saved late replaces a newer one of its day) and `ThemesRecur` (one lesson that names a
concept twice makes a theme).  An unfinished lesson older than the window is not listed,
a finished one that is touched counts again.  Left out: notable articles, the limit of
unfinished lessons, the job's choice of readers.

### WeeklyQuiz

A request picks recent reads, those for a goal first (`Chosen`), asks, and keeps
well-formed questions (`Parsed`, `KeepQuiz`); a quiz may be answered again
(`SubmitQuiz`), the first pass gives a reward (`Award`, `ClaimReward`).  `QuizInv` says
that a quiz is of the reads of one week, those for goals first, that its result is that
of the last answers, and that the reward is of the first quiz that had a right answer
and is shown once. Hold not: `PassedStaysPassed` (a later attempt lowers the score, the
reward stays) and `OneQuizOfTheseReads` (nothing compares quizzes).  The article and the
right option that a question names are not verified, and an empty list of answers
completes a quiz with nothing.

## Runs

| Run | Instance | Shows |
|---|---|---|
| `delivery_safety` | 2 replicas, 1 date, 1 crash or escape, 1 lost reply | every safety property and `DailyMailSpec` |
| `delivery_dates` | 1 replica, 2 dates | `RetryIsTaken` when two dates compete for the job |
| `delivery_live` | 2 replicas, 1 date, no fault | `AttemptsEnd` |
| `lesson_overlap` | 2 submissions, 1 request, `FairSpec` | runs and history tell the truth about what is shown, in any order; no lesson stays pending |
| `lesson_serial` | 2 submissions, 2 controls, 2 requests, `SerialSpec` | text, controls and documents belong together, while requests share and unlink one file |
| `lesson_doc_podcast` | `SerialSpec` | after a regeneration a request that has read the new text is answered with the narration of the old |
| `articles` | `MCArticles.cfg` | library, workflow, newsletters, watchlists |
| `newsletter_doc_seen` | 1 poll, 3 messages, fetches flag nothing | a message is handled and flagged, and the batch that would commit its article is lost |
| `sources` | `MCSources.cfg` | catalogue, run records, health under shared and changed names, live log, control of the interval, archives |
| `reading` | `MCReading.cfg` | measured time, credits, visits, evidence, lessons and articles as shown, podcast, reading list, quizzes |
| `services` | `MCServices.cfg`, `ScoreFairness`, `FetchFairness` | enrichment, plans, push, recap, budget, caches, scores, the check of a source, page fetches, steps of lessons and briefings, shares, lesson recaps |
| `agent_doc_once` | 2 requests, 1 step | each step of one plan takes effect twice |

The runs named `doc` state what a docstring, a test or a design document says and
find it violated; `PROJECT.json` quotes the sentences under `findings`.

Divergences that need no run.  A refused message (5xx) is retried without end although
the design document makes it permanent: one line of `email.py` shows it.
`BriefingDelivery` states four sentences of its design document that the model refutes:
`AtMostOnce` (a retry after a lost reply sends a second copy), `BriefingMailedOnce` (one
briefing mailed under two dates), `ScheduledMinuteIsSeen` (a busy job skips the
account's minute) and `StaleClaimIsRecovered` (an orphaned claim is never taken over).
Other modules state three sentences of docstrings and comments, each refuted by a few
steps: `OthersAreEvaluated` (`watchlist_agent.py:372` says that a failure evaluating one
watchlist does not stop the others; the insert of line 412 refers to rows that may have
been deleted, and nothing catches its error), `PagesCapped` (`ingest/service.py:208` says
that the number of page fetches of a run is capped; only pages that give a snippet count,
lines 1039-1042) and `PauseInEffect` (`scheduler/service.py:1060` says that the pause is
kept; a change of the interval reschedules the paused job, which resumes it, and leaves
the setting).

Hazards that no property covers.  What the code does not prevent has no property that
holds: a run of the research that was taken over writes over the row of the other
(`CompletedIsKept` ends where the first running row is overwritten), and of two fetches
of one page the failing one may write last (`WhatIsThereIsOk` holds not).  Two approvals
of one plan are refuted by `agent_doc_once`; `AgentInv` is about what holds even then.
That a task overlapping another's submission changes what is shown beside the controls
is left to `PatientSpec`: `ShownUnderItsControls` is checked where tasks are serial.

### Bounds

Deliveries.  `StaleAfter = 2` and `RetryDelay = 1` are the code's 30 and 15 minutes.
`MaxLag` bounds a run's length: 2 lets a claim go stale under its owner.  Two
replicas suffice for a takeover, three tokens for the row's and both runs' claims.
One lost reply already separates `copies` from `lost`, one fault already orphans
a row at each status; one briefing suffices where its identity does not matter
and two are used where it does.  Two dates let a retry of one compete with the
other.  `Replicas` and `Tokens` are symmetric, used in the safety run only.

Lessons.  Two submissions give every order of two tasks' writes, and recovery
between them; a third adds no new pair.  `SerialSpec` submits only while nothing is
under way, `PatientSpec` once the lesson is no longer pending: the difference is a
task that recovery gave up on.  Runs and requests are
symmetric in every lesson run but `lesson_overlap`, which checks liveness.

Articles.  Three addresses, of which two are alike and the third is close to both, give
chains of duplicates; three identifiers let one be deleted and found again; the feeds are
one that everyone reads, one of one reader and the share target.  Two connections give
every order of a read and a write.  Of three messages two are addressed to an account;
two polls overlap.  Two evaluations of
two watchlists and one article give the race for one nudge.

Sources.  Two readers, one global source and one private name that both may take; two
requests that overlap.  Two runs over two sources give every order of their rows; a
private source begins under a name of its own and may come to have the other's but for its
capitals, in listings of either order (`Names`, `NewNames`, `Listings`).  Two
followers and four lines let one come late and leave early.  Intervals of 5 and 30
minutes are an interval and the environment's.  One retry, two mirrors, one page beyond
the cap and up to three entries of which two are taken reach each limit once.  An
archive has two addresses, one of a private source; two memories of one content and one
report are taken, and three edits come before, between or after.

Reading.  Three windows of at most two ticks within five allow two that overlap and one
across a fence or midnight; `Horizon` and `Expiry` are the code's limits on how late a
report is believed.  Three identifiers of two addresses, a batch of one and goals of one
and two make the cursor stop between any two credits and a reward come with each.  Nine
ticks are three days of three, in zones that are a tick before and behind.  Two tabs
compete for the lease of one page.  Three lessons of which each shares a term with
another fill two pages, a trail and a pool that is cut.  Four articles are of a global
source, of the reader's and of another's; two acts make a duplicate and move it.  Two
requests make one podcast of two turns while its script changes once; `Torn` is sound
that is cut or mixed.  Scores are computed of one article of four (`MaxScored`).  Two items, two
hands and a sweep of one let a page be fetched twice.  Quizzes are made by one request
of two reads within two days; nothing is read once a quiz is answered, and a quiz is
answered when none is being made, for answers read the quiz alone.

Services.  Two deliveries and two previews, each kind with one caller whose
configuration allows research.  Two requests and two steps give every order of approvals
between steps. Three messages and two permits leave one without a permit.  Two recap
jobs, two callers per cache and two sweeps, of which one is the daily one, race in every
order.  Of two candidates one is scored (`MaxScored`), so that an older one is left out.
Lists of a briefing have up to three entries, repeated, malformed and in surplus, or
are none, and its content may be of the wrong shape.  A page has up to two redirects
and texts one short of and at each limit.
Pages of lessons are five, with and without title, site and names.  Two briefings of
three stories in two themes overlap, and one record of a stage is lost.  Three readers
have two shares, one visit, one mark or message and an inbox of one: a revocation can
come between any two steps.  One lesson within two half days, two makers and two
requests for sound with three pieces of work between them give each order of a measure,
a save and a file; while sound is made neither lessons nor measures move, for it reads
neither.

### Fairness

Lessons.  Time passes and the recovery job runs (WF on `GrowStale` and
`Recover`: an interval job every five minutes); the tasks themselves need not go
on.  Feedback resets the age of the row, so the user is assumed to stop giving it.

Deliveries.  A tick that is possible again and again happens (SF: time passes), a
minute ends, an idle scheduler starts the job it owes (WF: the interval trigger),
a run that is not interrupted goes on (WF: the transport has a 15 s timeout and
the model calls have theirs).  Eventually the idle scheduler is punctual: the job
starts every minute, so no 15-minute unit passes over a due retry; and the owner
stops moving the briefing time ahead.  Nothing is assumed of consent, of the
scheduled minute or of what the transport answers.  Crashes are excluded from the
liveness runs because the code does not recover from them.

Checks of a source.  A check goes on (`FetchFairness`: WF on `CheckStep`): requests have
timeouts, waits are bounded and their number is.

Scores.  The daily sweep runs (WF on `LoadTaste`: a cron job) and does not fail every
time (SF on `WriteScores`).  Nothing is assumed of the sweep that follows an ingestion.

A crash after the `rendered` or `sending` mark leaves the row there for good.  For
`sending` this is intended: the design document prefers a missing message to a
second one, and `SendingLeftOnlyByItsSender` says that it stays so.

## Proofs

`BriefingDelivery_proofs` assumes `DeliveryAssumption` only: the constants are
natural numbers, `LastDate` is positive and `NoToken` is not a token.

`TypeCorrect` proves `TypeOK`, one step per action.  `LedgerCorrect` proves
`LedgerInv`, which strengthens the properties to something inductive:

- `TokensDiffer`, `ClaimInv`: each run at work holds a claim no other run holds.
  Without it a fenced transition would not single out its writer.
- `SenderInv`: a run between the sending mark and its outcome owns the row, which
  says `sending`.  From it follows that a sending row has one writer.
- `PlanInv`, `BriefingInv`, `OptOutInv`: what a run may still write, with which
  briefing and under which consent.
- `RowInv`: the account of confirmed and lost messages against each status.

A step of one run touches its record and one row; the lemma `LocalStep` reduces
preservation to those two, `QuietStep` to the run alone, and `OutsideKeeps` covers
the environment.  `NoSecondMessage`, `SentIsTrue` and `ConsentIsKept` follow for
`AtMostOnceUnlessReplyLost`, `SentWasMailed` and `NoSendWhileOptedOut`.

`StepMoves` states what any step does to any row: at most one row moves, in one of
the five ways of `RowMove`.  The action properties (`SenderLeaves`,
`ClosedStays`) read off it, and so does the refinement: `RowIsMail` shows that each
way is an action of `DailyMail` or a stutter under `Phase`, `MailStep` lifts that
from one date to the functions, and `DailyMailImplemented` concludes
`Spec => DailyMailSpec`.

`LessonGeneration_proofs` assumes `LessonAssumption`: the marker values are not runs
and there is a kind of document.  `LessonTypeCorrect` proves `TypeOK`.
`LessonCorrect` proves `LessonInv`, whose part `Coherent(r)` ties three tables to
the step of the task: whatever is shown comes from a run past its update of the
row, and the history says failed only of a task that never made that update.  The
two properties it strengthens are not inductive, because the history row is
written in a later transaction than the text.  A step of a task disturbs its own
run only (`OneRun`); a request and the recovery job show no new text (`NoTask`).
`RunsTruthful` and `FailureUnseen` follow.  What holds only without overlap,
`SerialControls` and `SerialDocuments`, follows from `Together`: under `SerialSpec`
all that is under way, shown and stored belongs to the newest submission.

The smaller modules, each under the assumptions the modules state: bounds are natural
numbers, what a bound counts is finite, an admitted interval is a positive number, a
mirrored feed has a mirror, stored lists are sequences of integers, and no global source
has the name of a private one.

| Theorems in | Establish | Because |
|---|---|---|
| `Services_proofs` | `CompletedIsKept`, `ContentInv`, `OneRecapIsTold` | a completed row is never claimed; an analysis is stored under the lock it was begun under; a narrative is stored where there is none |
| `Services_proofs` | `PushInv` | a permit is out for each piece of work that has not been released, and a connection has one holder |
| `Services_proofs` | `AgentInv` | `AgentReach`: each effect is of a request that found the plan approved, counted per step |
| `ArticleJobs_proofs` | `LibraryInv`, `KeptStays` | `LibraryIInv`: a transaction's rows are its own, no two rows have one URL, committed or not, and a committed duplicate has a committed original, for what a transaction sees of the others is committed |
| `ArticleJobs_proofs` | `NoStaleWrite`, `OneListEach` | while a connection is at work the row is the one it has read, but for a share |
| `ArticleJobs_proofs` | `OnlyTroubledAreLeft`, `OnePushPerMatch` | a message that was listed is flagged, in a batch, or has failed; a push belongs to the evaluation that inserted the nudge |
| `ReadingTime_proofs` | `NothingFromBefore`, `CreditIsEarned` | `WindowsAreNew`: a window counts only after the last fence; `AttentionIsTime`: the time of a lease was spent in front of its article |
| `ReadingTime_proofs` | `CountedAndShown`, `ReadingTypeOK` | `ReadingGood`, see below |
| `Sources_proofs` | `ListingIsOwn`, `SettingsInEffect`, `RunsAreShown` | see below |
| `Services_proofs` | `ReportedIsStored`, `PipelineInv`, `RecapsInv` | `FetchGood`, `PipelineGood`, `RecapsGood`, see below |
| `Reader_proofs` | `PageInv`, `SharesInv`, `BudgetInv`, `MakingInv` | `PageGood`, `SharesGood`, `BudgetGood`, `MakingGood`, see below |
| `Services_proofs` | `TalliesAreTrue`, `ServicesTypeOK` | `ServicesGood`, see below |

`MCArticles`, `MCReading` and `MCSources` run several parts side by side.  `ArticlesParts`
and `SourcesParts` show that each part then goes by its own specification, and
`OnePartMoves` that a step of `MCReading` is one of a part and a stutter of the others,
so that `ArticlesTypeOK`, `SourcesTypeOK`, `RunsAreShown`, `SettingsInEffect`,
`ReadingTypeOK` and `CountedAndShown` follow from the theorems about the parts.  The
invariants of `Sources_proofs`:

- `CatalogueInv`: whoever works on a private source owns it, from the check to the write.
- `ControlInv`: with the process up and nothing in doubt at most one request is under
  way, and setting, process and job differ by what it still has to do.
- `StreamInv`: what a follower has on the screen, in the queue and still to come ends,
  from the last reset on, with the replay.
- `ReportInv`: the counts of a run are those of its rows, but for the outcome a process
  has yet to record; no two processes write one run; a source has one row in a run.  Of
  the rows of a source that is mistaken for no other the one of its last check is then the
  first in the order of health (`LatestIsFirst`, `HealthIsThatOfTheLastCheck`), whatever
  names the rows carry (`NamesMatterNot`).
- `ArchiveGood`: an archive that was just taken is the account, and after one restore
  `Settled` says that nothing is left for a second.

Memories are restored one after the other, each against the rows there are by then
(`RestoreMemory`, folded over the archive).  What the fold gives is proved by induction
over its stages: `FoldsInOrder` names the account after each row and `Upwards` carries
what holds from each to the next.  That a remembered content stays remembered
(`RowRestored`) gives that a second restore of distinct contents changes nothing
(`MemoriesRestored`).

`ReadingGood` conjoins an invariant of each of the nine parts of `MCReading`:

- `ActivityGood`: what was counted and could be reported again is remembered, and the
  total is both the number of the counted instants and the sum of the days.
- `CreditsGood`: a read from before the horizon is at most at its upper end and has its
  credit up to the cursor.  A batch takes the first rows past the cursor, so none is
  jumped over (`FirstRows`).
- `VisitsGood`: the streak is a run that ends with the last credited date; a day later
  is at most the next date, in any zone (`DaysFollow`).
- `PodcastGood`: a caller without company is the only one at work, writes files of its
  own only, and holds the turns it has read whole and of the script of the row (`GoesBy`).
  Who has or had company is marked, and of its turns nothing is claimed.
- `ListGood`: only one request is past the look at an item, or it is marked as shared; an
  import keeps that, file by file.
- `QuizGood`: reads are in the order of their days, so that the first of a week in reverse are
  the newest; a quiz was chosen from reads of one week.
- `SurfacesGood`: types, and what the reader has a row of is stored.  The counts and the
  lists are then functions of one state.  The pages of today's list ascend by multiples
  of the page (`MultiplesAscend`), in the order `BestAreBest` establishes.
- `ShelfGood`: every lesson is listed once, and while pages are read on, all of the first
  lessons below the offset have been seen, for new ones come in front.  A trail is the
  fold of its items into four groups: `TrailStepFits` says what a group holds after each
  (`GroupsFit`), and is carried along the stages.
- `EvidenceGood`: no more time is leased than has passed.

Orders are relations there, and a set in an order the sequence that has at each place
what has as many before it; that this is a sequence of the whole set, in the order, is
`Enumerated`, and what its first places leave out is `FirstOrdered`.

`ServicesGood` conjoins an invariant of each of the thirteen parts of `MCServices`, and
`PartsStep` shows that a step of the whole is a step or a stutter of each:

- `FetchGood`: while a check is under way what it counts is what its transaction has
  inserted, and what is still to read is within its bounds, so that what it reports is
  what it has committed, wherever it fails.
- `PageGood`: a method at work is one that has not been tried (`TriedOnce`); nothing was
  accepted before the end (`AtWork`); who gave up has no allowed method left or was told
  at once (`GaveUp`).  The next method is the least of a finite set of places.
- `PipelineGood`: `StepsGood` ties the step rows to the node the run is at and to what was
  lost, `FieldsGood` what the nodes have handed on, `GraphGood` the closed graph.
- `RecapsGood`: what a job holds and what a row stores is one measure with its narrative
  (`MeasureFits`), and on a settled row one request at the most is at work, on the sound
  of what the row shows (`SoundFits`, `Working`).  A touched lesson only gets younger
  (`LessonsMove`), so it stays within the week it was counted in.
- `SharesGood`: a steady share without tasks has an answer about all its marks, and an
  answer that is to come to one is about all of them (`ChoreFits`, `Answered1`); and what
  a revoked share has left of the visits pending at its revocation is the number of
  those that still are (`ShareFits`).
- `BudgetGood`: what is shown and omitted adds up at every cut, for lists and for what is
  read as lists where it is none (`StoredLists`).  References are pairs of a
  place and an id, so dropping a citation or a section takes a set from a set; the lemmas
  on families of finite sets before it say by how much.
- `MakingGood`: each row of a run is written by the stage it is of (`TaskTrue`), each
  briefing belongs to one request and cites what that request found (`OneEach`, `Owned`),
  and one made since a request came has a number above what it saw (`Newly`).
  `ByTheme` is a strict order on the places of a list (`Themed`), so sorting by it keeps
  each story once and a theme together.

Beside the parts named in the table, `ScoreTypeOK` and what the plans, the transport, the
content and the research leave to their types (`AgentGood`, `PushGoodType`, `BodyStep`,
`ResultStep`, `CooldownStep`) complete `ServicesTypeOK`.

Every invariant and every action property of the passing runs is stated by a theorem.
Only model-checked is liveness, because it needs fairness and with it ENABLED, which is
beyond the prover: `AttemptsEnd`, `PendingEnds`, `RetryIsTaken` and `WorkEnds`.
`ThemesRecur`, `OneAtAll` and the other definitions marked `Holds not` have
counterexamples and are stated for the reader.

## Not modelled

- The message of a briefing (`briefing_email/rendering.py`, `progress.py`): layout and
  numbers that nothing reads back.
- Job history: an append-only log of outcomes.
- The AI client, prompts and evaluation: calls of external models whose text is data.
  Where a call may fail, be slow or answer nonsense, the caller's module says so.
- Accounts, sessions and the login throttle: single rows and counters in memory.
- The schema, migrations and the start of a process, but for the schema statements that
  change rows (`Restart` of `ArticleLibrary`).
- Metrics, which nothing reads back; the clients; packaging.
- The graph store, the resolver's permits, the chat about a lesson and its
  evaluation, proactive nudges, personal highlights and posts, the order of the reading
  list, the digest, and the other exports.

Within the modelled components the text of articles, lessons and messages is a name;
ranking, similarity and extraction are relations or choices.
