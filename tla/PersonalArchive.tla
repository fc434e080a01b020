--------------------------- MODULE PersonalArchive ---------------------------
(***************************************************************************)
(* What a reader has done, as an archive: taken from an account, restored  *)
(* into the same account after more has happened, or into a new one.  The  *)
(* restore is one transaction with a savepoint per entry; an entry that    *)
(* cannot be restored is skipped and counted.  What the assistant is asked *)
(* to remember is kept here too, for it is the part without a key.         *)
(***************************************************************************)
EXTENDS Integers, SequencesExt, FiniteSets

CONSTANTS
  Addresses,     \* of articles
  FeedOf,        \* the source of each: "world", which is global, or "own"
  Marks,         \* states of a reader's article
  Contents,      \* what may be remembered
  MaxReports,    \* bound: briefings
  MaxMemories,   \* bound: rows of memories
  MaxEvents,     \* bound: rows of what happened to memories
  MaxEdits       \* bound: changes of the reader

ASSUME ArchiveAssumption ==
  /\ \A u \in Addresses : FeedOf[u] \in {"world", "own"}
  /\ {"today", "done"} \subseteq Marks
  /\ {MaxReports, MaxMemories, MaxEvents, MaxEdits} \subseteq Nat

VARIABLES
  present,    \* addresses that have an article
  marked,     \* the reader's row of each
  read,       \* addresses with a credit
  feeds,      \* sources: "none", "live", "deleted" or "another's"
  followed,   \* sources that the reader has not switched off
  reports,    \* the articles that each briefing cites; a briefing is its moment
  memories,   \* rows: [content, active]
  events,     \* rows: [type, content, at]; restored ones keep their moment
  consent,    \* [email, analytics]
  archive,    \* the archive, or NoArchive
  edits,
  restored    \* what the restores since the last change have done (auxiliary)

archiveVars == <<present, marked, read, feeds, followed, reports, memories, events, consent,
                 archive, edits, restored>>
account == <<present, marked, read, feeds, followed, reports, memories, events, consent>>

Feeds == {"world", "own"}
Unmarked == [state |-> "none", starred |-> FALSE, done |-> FALSE]
NoArchive == [none |-> TRUE]
NoRestore == [times |-> 0, untouched |-> FALSE, skipped |-> {}, added |-> {}, updated |-> {},
              settled |-> {}, first |-> NoArchive, before |-> NoArchive]

ArchiveTypeOK ==
  /\ present \subseteq Addresses /\ read \subseteq Addresses
  /\ marked \in [Addresses -> {Unmarked} \cup [state: Marks, starred: BOOLEAN, done: BOOLEAN]]
  /\ feeds \in [Feeds -> {"none", "live", "deleted", "another's"}]
  /\ followed \subseteq Feeds
  /\ DOMAIN reports \subseteq 1 .. MaxReports
  /\ \A t \in DOMAIN reports : reports[t] \subseteq present
  /\ \A i \in DOMAIN memories : memories[i] \in [content: Contents, active: BOOLEAN]
  /\ \A e \in events : e.content \in Contents /\ e.at \in 1 .. MaxEvents
  /\ consent \in [email: BOOLEAN, analytics: BOOLEAN]
  /\ edits \in 0 .. MaxEdits /\ restored.times \in 0 .. 2

ArchiveInit ==
  /\ present = {u \in Addresses : FeedOf[u] = "world"} /\ read = {}
  /\ marked = [u \in Addresses |-> Unmarked]
  /\ feeds = [f \in Feeds |-> IF f = "world" THEN "live" ELSE "none"] /\ followed = Feeds
  /\ reports = <<>> /\ memories = <<>> /\ events = {}
  /\ consent = [email |-> FALSE, analytics |-> TRUE]
  /\ archive = NoArchive /\ edits = 0 /\ restored = NoRestore

-----------------------------------------------------------------------------
(* The archive: the reader's rows, without the text of articles, and of the *)
(* sources those that the reader sees.                                      *)

ExportArticles == [u \in {u \in Addresses : marked[u] # Unmarked} |-> marked[u]]
ExportFeeds == [f \in {f \in Feeds : feeds[f] = "live"} |-> f \in followed]
Export ==
  [articles |-> ExportArticles, briefings |-> reports, memories |-> memories,
   events |-> events, feeds |-> ExportFeeds, consent |-> consent]

TakeExport ==
  /\ archive' = Export
  /\ restored' = [NoRestore EXCEPT !.untouched = TRUE]
  /\ UNCHANGED <<account, edits>>

-----------------------------------------------------------------------------
(* What the reader does between: a change.                                 *)

Edit ==
  /\ edits < MaxEdits /\ edits' = edits + 1
  /\ restored' = NoRestore /\ UNCHANGED archive

Credited(u, row) == IF row.done \/ row.state = "done" THEN {u} ELSE {}

\* A row that gets a state, and is dated when it is done; and one that is starred
\* or no longer is.
Moved(k, s) == [k EXCEPT !.state = s, !.done = k.done \/ s = "done"]
Starred(k) ==
  [k EXCEPT !.starred = ~k.starred, !.state = IF k.state = "none" THEN "today" ELSE k.state]

Mark(u, s) ==
  /\ Edit /\ u \in present
  /\ marked' = [marked EXCEPT ![u] = Moved(@, s)]
  /\ read' = read \cup Credited(u, marked'[u])
  /\ UNCHANGED <<present, feeds, followed, reports, memories, events, consent>>

StarMark(u) ==
  /\ Edit /\ u \in present
  /\ marked' = [marked EXCEPT ![u] = Starred(@)]
  /\ UNCHANGED <<present, read, feeds, followed, reports, memories, events, consent>>

\* A source is created with an article, switched, or deleted.
ChangeFeed(f) ==
  /\ Edit
  /\ \/ f = "own" /\ feeds[f] = "none"
        /\ feeds' = [feeds EXCEPT ![f] = "live"] /\ followed' = followed \cup {f}
        /\ present' = present \cup {u \in Addresses : FeedOf[u] = f}
     \/ feeds[f] = "live" /\ UNCHANGED <<feeds, present>>
        /\ followed' = IF f \in followed THEN followed \ {f} ELSE followed \cup {f}
     \/ feeds[f] = "live" /\ UNCHANGED present
        /\ feeds' = [feeds EXCEPT ![f] = "deleted"] /\ followed' = IF f = "own" THEN followed \ {f} ELSE followed
  /\ UNCHANGED <<marked, read, reports, memories, events, consent>>

Brief(S) ==
  /\ Edit /\ Cardinality(DOMAIN reports) < MaxReports /\ S \subseteq present
  /\ reports' = [t \in 1 .. Cardinality(DOMAIN reports) + 1 |-> IF t \in DOMAIN reports THEN reports[t] ELSE S]
  /\ UNCHANGED <<present, marked, read, feeds, followed, memories, events, consent>>

\* A row of its own each time, also of what is remembered already.
Remembered(c) == Append(memories, [content |-> c, active |-> TRUE])
Happened(type, c) ==
  /\ Cardinality(events) < MaxEvents
  /\ events' = events \cup {[type |-> type, content |-> c, at |-> Cardinality(events) + 1]}

CreateMemory(c) ==
  /\ Edit /\ Len(memories) < MaxMemories
  /\ memories' = Remembered(c) /\ Happened("created", c)
  /\ UNCHANGED <<present, marked, read, feeds, followed, reports, consent>>

UpdateMemory(i) ==
  /\ Edit /\ \/ /\ memories' = [memories EXCEPT ![i].active = FALSE]
                /\ Happened("deactivated", memories[i].content)
             \/ \E c \in Contents \ {memories[i].content} :
                  memories' = [memories EXCEPT ![i].content = c] /\ Happened("updated", c)
             \/ /\ memories' = [memories EXCEPT ![i].active = TRUE]
                /\ Happened("updated", memories[i].content)
  /\ UNCHANGED <<present, marked, read, feeds, followed, reports, consent>>

\* To learn from the reading remembers what is read most, as a new row each time;
\* where nothing was read, only that is noted.
LearnFromReading(c) ==
  /\ Edit /\ Len(memories) < MaxMemories
  /\ IF read = {} THEN Happened("learn_skipped", c) /\ UNCHANGED memories
     ELSE memories' = Remembered(c) /\ Happened("created", c)
  /\ UNCHANGED <<present, marked, read, feeds, followed, reports, consent>>

ChangeConsentTo(c) ==
  /\ Edit /\ consent' = c
  /\ UNCHANGED <<present, marked, read, feeds, followed, reports, memories, events>>

\* Retention deletes what nobody keeps, with the reader's row.
RetentionDeletes(u) ==
  /\ u \in present /\ ~marked[u].starred /\ \A t \in DOMAIN reports : u \notin reports[t]
  /\ present' = present \ {u} /\ marked' = [marked EXCEPT ![u] = Unmarked]
  /\ restored' = NoRestore
  /\ UNCHANGED <<read, feeds, followed, reports, memories, events, consent, archive, edits>>

\* The archive is all that is taken to a new account: on another installation, or
\* on this one, where the name of the private source is another account's.
NewAccount ==
  /\ edits' = MaxEdits /\ restored' = NoRestore /\ UNCHANGED archive
  /\ marked' = [u \in Addresses |-> Unmarked] /\ read' = {}
  /\ reports' = <<>> /\ memories' = <<>> /\ events' = {} /\ followed' = Feeds
  /\ consent' = [email |-> FALSE, analytics |-> TRUE]
  /\ \/ \E S \in SUBSET {u \in Addresses : FeedOf[u] = "world"} : present' = S
        /\ feeds' = [f \in Feeds |-> IF f = "world" THEN "live" ELSE "none"]
     \/ /\ feeds["own"] # "none" /\ UNCHANGED present
        /\ feeds' = [feeds EXCEPT !["own"] = "another's"]

-----------------------------------------------------------------------------
(* The restore.                                                            *)

\* An article is found by its address, or made where its source exists.
Resolved == {u \in DOMAIN archive.articles : u \in present \/ feeds[FeedOf[u]] # "none"}

\* The articles of sources that are global or the reader's own.
Authorized(broken) == {u \in Resolved \ broken : feeds[FeedOf[u]] # "another's"}

\* Wrong: what the archive does not date is dated no more.
RestoredRowForgetting(u) == archive.articles[u]
\* A read stays dated, whatever the archive says.
RestoredRow(u) == [archive.articles[u] EXCEPT !.done = @ \/ marked[u].done]

RestoreArticles(broken) ==
  /\ present' = present \cup (Resolved \ broken)
  /\ marked' = [u \in Addresses |-> IF u \in Authorized(broken) THEN RestoredRow(u) ELSE marked[u]]
  /\ read' = read \cup UNION {Credited(u, marked'[u]) : u \in Authorized(broken)}

\* A briefing is found by its moment; citations of articles that exist are added.
RestoreReports ==
  reports' =
    [t \in DOMAIN reports \cup DOMAIN archive.briefings |->
       (IF t \in DOMAIN reports THEN reports[t] ELSE {})
         \cup (IF t \in DOMAIN archive.briefings THEN archive.briefings[t] \cap present' ELSE {})]

\* A memory is found by its content, and each row of the archive says whether it is active.
RestoreMemory(rows, row) ==
  LET same == {i \in DOMAIN rows : rows[i].content = row.content}
  IN IF same = {} THEN Append(rows, row)
     ELSE [rows EXCEPT ![CHOOSE i \in same : \A j \in same : i <= j].active = row.active]
Recalled(rows, kept) == FoldLeft(RestoreMemory, rows, kept)
RestoreMemories ==
  /\ memories' = Recalled(memories, archive.memories)
  /\ events' = events \cup archive.events

\* A source that is deleted stays so, and is updated all the same.
RestoreFeeds ==
  /\ feeds' = [f \in Feeds |->
                 IF f \in DOMAIN archive.feeds /\ feeds[f] = "none" /\ f = "own" THEN "live" ELSE feeds[f]]
  /\ followed' = {f \in Feeds :
                    IF f \in DOMAIN archive.feeds /\ feeds[f] # "another's" THEN archive.feeds[f] ELSE f \in followed}

\* Wrong: the archive opts in.
RestoredConsentToAll == archive.consent
\* The archive may withdraw mail and never asks for it.
RestoredConsent ==
  [email |-> consent.email /\ archive.consent.email, analytics |-> archive.consent.analytics]

\* What cannot be written is skipped; the rest goes on.
Restore(broken) ==
  /\ archive # NoArchive /\ restored.times < 2
  /\ RestoreArticles(broken) /\ RestoreReports /\ RestoreMemories /\ RestoreFeeds
  /\ consent' = RestoredConsent
  /\ restored' =
       [times |-> restored.times + 1, untouched |-> restored.untouched,
        skipped |-> DOMAIN archive.articles \ Authorized(broken),
        added |-> {u \in Authorized(broken) : marked[u] = Unmarked},
        updated |-> {u \in Authorized(broken) : marked[u] # Unmarked},
        settled |-> IF restored.times = 0 THEN Authorized(broken) ELSE restored.settled,
        first |-> IF restored.times = 0 THEN Export' ELSE restored.first, before |-> Export]
  /\ UNCHANGED <<archive, edits>>

ArchiveNext ==
  \/ TakeExport \/ NewAccount
  \/ \E u \in Addresses : StarMark(u) \/ RetentionDeletes(u) \/ \E s \in Marks : Mark(u, s)
  \/ \E f \in Feeds : ChangeFeed(f)
  \/ \E S \in SUBSET Addresses : Brief(S) \/ Restore(S)
  \/ \E c \in Contents : CreateMemory(c) \/ LearnFromReading(c)
  \/ \E i \in DOMAIN memories : UpdateMemory(i)
  \/ \E c \in [email: BOOLEAN, analytics: BOOLEAN] : ChangeConsentTo(c)

ArchiveSpec == ArchiveInit /\ [][ArchiveNext]_archiveVars

-----------------------------------------------------------------------------
(* Properties.                                                             *)

Once(rows) == \A i, j \in DOMAIN rows : i # j => rows[i].content # rows[j].content

\* A restore makes each article of the archive what it was, but for those it
\* counts as skipped, and leaves the others; no read loses its credit or date; no
\* mail is asked for that was not before; and no citation of the archive is lost
\* while its article exists.
RestoreIsTrue ==
  restored.times > 0 =>
    /\ restored.skipped \cup restored.added \cup restored.updated = DOMAIN archive.articles
    /\ \A u \in (restored.added \cup restored.updated) :
         /\ marked[u].state = archive.articles[u].state /\ marked[u].starred = archive.articles[u].starred
         /\ archive.articles[u].done => marked[u].done
    /\ \A u \in DOMAIN restored.before.articles :
         /\ restored.before.articles[u].done => marked[u].done
         /\ u \notin restored.added \cup restored.updated => marked[u] = restored.before.articles[u]
    /\ consent.email => restored.before.consent.email
    /\ \A t \in DOMAIN archive.briefings : archive.briefings[t] \cap present \subseteq reports[t]

\* Everybody who reads has the credit; who has the row of a read has it, too.
ReadsAreCredited == \A u \in Addresses : marked[u].done => u \in read

\* To restore what was just taken changes nothing, and to restore a second time
\* changes only the articles of a source that the first time has brought back, or
\* that were broken then: unless a content is remembered in two rows.
RestoreIsOnce ==
  /\ restored.times > 0 /\ restored.untouched /\ Once(archive.memories) => Export = archive
  /\ restored.times = 2 /\ Once(restored.first.memories) /\ Once(archive.memories) =>
       /\ Export.memories = restored.first.memories /\ Export.events = restored.first.events
       /\ Export.feeds = restored.first.feeds /\ Export.consent = restored.first.consent
       /\ \A u \in restored.settled : marked[u] = restored.first.articles[u]
       /\ restored.added \cap restored.settled = {}

\* Holds not: of two rows of one content, the one deactivated, the first is set to
\* the last, so that what was forgotten is remembered again.
ForgottenStays ==
  restored.times > 0 /\ restored.untouched => memories = archive.memories

\* Holds not: the articles of a private source are skipped where it does not
\* exist yet, because the sources come after the articles.
FirstIsEnough ==
  restored.times = 2 => DOMAIN restored.first.articles = DOMAIN ExportArticles

ArchiveInv == RestoreIsTrue /\ ReadsAreCredited /\ RestoreIsOnce
=============================================================================
