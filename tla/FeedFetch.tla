------------------------------ MODULE FeedFetch ------------------------------
(***************************************************************************)
(* The check of one source: its feed is fetched, from its address or from  *)
(* the mirrors of an account in turn, with a few retries when the server   *)
(* says it is busy; then its entries are taken one by one, each stored in  *)
(* a savepoint of the one transaction that also stores the success of the  *)
(* check.  An exception anywhere else rolls the transaction back.          *)
(***************************************************************************)
EXTENDS Naturals, Sequences

CONSTANTS
  FeedKinds,        \* kinds of the source: "feed", "mirrored", "bare"
  Mirrors,      \* number of mirrors
  MaxRetries,   \* retries of a busy server
  MaxSnippets,  \* pages fetched for entries without a text
  MaxItems,     \* entries taken of a feed
  MaxEntries,   \* bound: entries of a feed
  MaxChecks     \* bound: checks

ASSUME FetchAssumption ==
  /\ FeedKinds \subseteq {"feed", "mirrored", "bare"}
  /\ Mirrors \in Nat \ {0}
  /\ {MaxRetries, MaxSnippets, MaxItems, MaxEntries, MaxChecks} \subseteq Nat

\* What becomes of an entry: it has a text or none, and is new or there before.
Entry == [text: BOOLEAN, known: BOOLEAN]

VARIABLES
  kind,     \* the kind of the source
  step,     \* what the check does next
  mirror,   \* the mirror that is asked
  attempt,  \* retries of this request so far
  entries,  \* entries still to be taken
  left,     \* snippets that may still be fetched
  pages,    \* pages fetched for snippets (auxiliary)
  staged,   \* articles the transaction has inserted
  inserted, \* articles it has counted
  stored,   \* articles of the source that are committed
  outcome,  \* per check: what it reports, and what it has stored
  texted    \* whether the entry at hand has its text by now

fetchVars == <<kind, step, mirror, attempt, entries, left, pages, staged, inserted,
               stored, outcome, texted>>
sourceVars == <<kind, stored, outcome>>
feedVars == <<mirror, attempt>>
entryVars == <<entries, left, pages, staged, inserted, texted>>

CheckSteps == {"rest", "request", "wait", "entry", "snippet", "store"}
Outcome == [new: Nat, stored: Nat, failed: BOOLEAN]

FetchTypeOK ==
  /\ kind \in FeedKinds /\ step \in CheckSteps
  /\ mirror \in 0 .. Mirrors /\ attempt \in 0 .. MaxRetries
  /\ entries \in Seq(Entry) /\ Len(entries) <= MaxEntries
  /\ left \in 0 .. MaxSnippets /\ pages \in 0 .. MaxEntries /\ texted \in BOOLEAN
  /\ staged \in 0 .. MaxEntries /\ inserted \in 0 .. MaxEntries /\ stored \in Nat
  /\ outcome \in Seq(Outcome) /\ Len(outcome) <= MaxChecks

FetchInit ==
  /\ kind \in FeedKinds /\ step = "rest"
  /\ mirror = 0 /\ attempt = 0
  /\ entries = <<>> /\ left = 0 /\ pages = 0 /\ texted = FALSE
  /\ staged = 0 /\ inserted = 0 /\ stored = 0 /\ outcome = <<>>

BeginCheck ==
  /\ step = "rest" /\ Len(outcome) < MaxChecks
  /\ step' = "request" /\ mirror' = 1 /\ attempt' = 0
  /\ entries' = <<>> /\ left' = MaxSnippets /\ pages' = 0 /\ texted' = FALSE
  /\ staged' = 0 /\ inserted' = 0
  /\ UNCHANGED sourceVars

\* Wrong: what was counted before the exception is reported.
ReportCounted == [new |-> inserted, stored |-> 0, failed |-> TRUE]
ReportFailure == [new |-> 0, stored |-> 0, failed |-> TRUE]

\* The transaction, if any, is rolled back.
FailCheck ==
  /\ outcome' = Append(outcome, ReportFailure)
  /\ step' = "rest" /\ staged' = 0
  /\ UNCHANGED <<kind, stored, feedVars, entries, left, pages, inserted, texted>>

-----------------------------------------------------------------------------
(* The feed.                                                               *)

\* Limited to what the source may give; a reader's own feed is not limited.
Taken(es) == IF kind = "feed" THEN es ELSE SubSeq(es, 1, IF Len(es) < MaxItems THEN Len(es) ELSE MaxItems)

\* Entries of a mirror without the link of a post are a placeholder: the mirror
\* has failed.  The entries are those of a feed the server chooses.
AnswerFeed ==
  /\ step = "request"
  /\ \E es \in UNION {[1 .. n -> Entry] : n \in 0 .. MaxEntries} :
       /\ kind = "mirrored" => es # <<>>
       /\ kind # "bare" => \A i \in DOMAIN es : es[i].text
       /\ entries' = Taken(es)
  /\ step' = "entry"
  /\ UNCHANGED <<sourceVars, mirror, attempt, left, pages, staged, inserted, texted>>

\* Wrong: a retry is not counted.
RetryForEver == UNCHANGED attempt
CountRetry == attempt' = attempt + 1

\* Wrong: one retry more.
MayRetryOnceMore == attempt <= MaxRetries
MayRetry == attempt < MaxRetries

\* The server is busy (429, 503): wait as long as it says, within bounds.
Busy ==
  /\ step = "request" /\ MayRetry
  /\ step' = "wait" /\ CountRetry
  /\ UNCHANGED <<sourceVars, mirror, entryVars>>

Awake ==
  /\ step = "wait" /\ step' = "request"
  /\ UNCHANGED <<sourceVars, feedVars, entryVars>>

\* A refusal, and an answer that is no feed or is a placeholder, end the request:
\* the next mirror is asked, with its own retries.
NextMirror ==
  /\ step = "request" /\ kind = "mirrored" /\ mirror < Mirrors
  /\ mirror' = mirror + 1 /\ attempt' = 0
  /\ UNCHANGED <<sourceVars, step, entryVars>>

\* There is no other mirror; or the failure is one that is not expected of a feed:
\* then the check has failed whatever mirrors there are.
NoAnswer == step = "request" /\ FailCheck

-----------------------------------------------------------------------------
(* The entries.                                                            *)

\* A page is fetched for an entry without text that is not there yet.
TakeEntry ==
  /\ step = "entry" /\ entries # <<>>
  /\ step' = IF ~Head(entries).text /\ left > 0 /\ ~Head(entries).known THEN "snippet" ELSE "store"
  /\ texted' = Head(entries).text
  /\ UNCHANGED <<sourceVars, feedVars, entries, left, pages, staged, inserted>>

\* Only a snippet that was found counts.
FetchSnippet ==
  /\ step = "snippet"
  /\ step' = "store" /\ pages' = pages + 1
  /\ \E found \in BOOLEAN : texted' = found /\ left' = IF found THEN left - 1 ELSE left
  /\ UNCHANGED <<sourceVars, feedVars, entries, staged, inserted>>

\* Inserted, or filtered out, a duplicate or refused by the database: the
\* savepoint is rolled back and the next entry is taken.
PersistEntry ==
  /\ step = "store"
  /\ step' = "entry" /\ entries' = Tail(entries)
  /\ \E new \in {0, IF Head(entries).known THEN 0 ELSE 1} :
       staged' = staged + new /\ inserted' = inserted + new
  /\ UNCHANGED <<sourceVars, feedVars, left, pages, texted>>

BreakEntry == step \in {"entry", "snippet", "store"} /\ FailCheck

EndCheck ==
  /\ step = "entry" /\ entries = <<>>
  /\ step' = "rest"
  /\ stored' = stored + staged
  /\ outcome' = Append(outcome, [new |-> inserted, stored |-> staged, failed |-> FALSE])
  /\ UNCHANGED <<kind, feedVars, entryVars>>

CheckStep ==
  \/ AnswerFeed \/ Busy \/ Awake \/ NextMirror \/ NoAnswer
  \/ TakeEntry \/ FetchSnippet \/ PersistEntry \/ BreakEntry \/ EndCheck
FetchNext == BeginCheck \/ CheckStep

\* Every request has a timeout and every wait a bound.
FetchFairness == WF_fetchVars(CheckStep)
FetchSpec == FetchInit /\ [][FetchNext]_fetchVars /\ FetchFairness

-----------------------------------------------------------------------------
(* Properties.                                                             *)

\* What a check reports as new is what it has stored, also when it has failed
\* half way through the feed.
ReportedIsStored == \A i \in DOMAIN outcome : outcome[i].new = outcome[i].stored

\* A check ends, whatever the servers answer.
CheckEnds == step # "rest" ~> step = "rest"

\* service.py:208: "Cap the number of page fetches per ingest run to keep ingest fast."
PagesCapped == pages <= MaxSnippets
=============================================================================
