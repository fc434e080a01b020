--------------------------- MODULE ReaderWorkflow ---------------------------
(***************************************************************************)
(* One article in the hands of one reader: the row of user_article_state,  *)
(* the handlers that write it, and the queries that read it.  The web      *)
(* client, a feed reader and the agent act for the reader at once; every   *)
(* handler locks the article, reads the row and then writes it.  Sharing   *)
(* an address writes the row in one statement and takes no lock.           *)
(***************************************************************************)
EXTENDS Naturals, FiniteSets

CONSTANTS
  Hands,     \* connections acting for the reader
  Nothing    \* no row, no operation

States == {"today", "later", "done", "skipped", "archived"}
Row == [state: States, starred: BOOLEAN, until: {"unset", "ahead", "passed"}]
Operation ==
  [kind: {"move"}, to: States] \cup [kind: {"star"}, on: BOOLEAN] \cup [kind: {"snooze"}]

VARIABLES
  row,         \* the reader's row of the article
  there,       \* the article is in the store
  subscribed,  \* the reader sees the article's source
  chosen,      \* the embedding pass has chosen the article as a duplicate
  duplicate,   \* the article stands behind another one
  hand         \* per connection: the operation under way, the row it read, and
               \* whether the address has been shared since (auxiliary)

workflowVars == <<row, there, subscribed, chosen, duplicate, hand>>

Free == [op |-> Nothing, seen |-> Nothing, shared |-> FALSE]

WorkflowTypeOK ==
  /\ row \in Row \cup {Nothing}
  /\ there \in BOOLEAN /\ subscribed \in BOOLEAN
  /\ chosen \in BOOLEAN /\ duplicate \in BOOLEAN
  /\ hand \in [Hands -> [op: Operation \cup {Nothing}, seen: Row \cup {Nothing},
                        shared: BOOLEAN]]

WorkflowInit ==
  /\ row = Nothing /\ there = TRUE /\ subscribed = TRUE
  /\ chosen = FALSE /\ duplicate = FALSE
  /\ hand = [h \in Hands |-> Free]

\* Without a row the article is in Today.
Current(r) == IF r = Nothing THEN [state |-> "today", starred |-> FALSE, until |-> "unset"] ELSE r
State == Current(row).state

-----------------------------------------------------------------------------
(* What the operations do.                                                 *)

AllowedTransitions ==
  { <<"today", "done">>, <<"today", "later">>, <<"today", "skipped">>, <<"today", "archived">>,
    <<"later", "today">>, <<"later", "done">>, <<"later", "skipped">>, <<"later", "archived">>,
    <<"done", "archived">>, <<"done", "today">>, <<"skipped", "today">>,
    <<"skipped", "archived">>, <<"archived", "today">>, <<"archived", "done">> }

Transition(r, to) ==
  LET c == Current(r) IN
  IF /\ <<c.state, to>> \in AllowedTransitions
     /\ ~(to = "skipped" /\ c.starred)
  THEN [state |-> to, starred |-> c.starred,
        until |-> IF to = "today" THEN "unset" ELSE c.until]
  ELSE r

\* The upsert names no later_until, and so clears it.
SetStarred(r, on) == [state |-> Current(r).state, starred |-> on, until |-> "unset"]

SendLater(r) ==
  IF Current(r).state \in {"today", "later"}
  THEN [state |-> "later", starred |-> Current(r).starred, until |-> "ahead"]
  ELSE r

\* Sharing the address brings an archived or skipped article back.
SaveShared(r) ==
  IF r = Nothing THEN Current(r)
  ELSE IF r.state \in {"archived", "skipped"} THEN [r EXCEPT !.state = "today"] ELSE r

Effect(op, r) ==
  CASE op.kind = "move" -> Transition(r, op.to)
    [] op.kind = "star" -> SetStarred(r, op.on)
    [] op.kind = "snooze" -> SendLater(r)

-----------------------------------------------------------------------------
(* The handlers.                                                           *)

Locked == \E h \in Hands : hand[h].op # Nothing
Visible == there /\ subscribed

\* Wrong: the row is not locked.
BeginUnlocked(h, op) ==
  /\ hand[h].op = Nothing
  /\ Visible
  /\ hand' = [hand EXCEPT ![h] = [op |-> op, seen |-> row, shared |-> FALSE]]
  /\ UNCHANGED <<row, there, subscribed, chosen, duplicate>>

\* A handler locks the article row, if the reader may see it, and reads the
\* reader's row.
Begin(h, op) ==
  /\ ~Locked
  /\ Visible
  /\ hand' = [hand EXCEPT ![h] = [op |-> op, seen |-> row, shared |-> FALSE]]
  /\ UNCHANGED <<row, there, subscribed, chosen, duplicate>>

Finish(h) ==
  /\ hand[h].op # Nothing
  /\ row' = Effect(hand[h].op, hand[h].seen)
  /\ hand' = [hand EXCEPT ![h] = Free]
  /\ UNCHANGED <<there, subscribed, chosen, duplicate>>

\* The connection ends before its transaction commits.
GiveUp(h) ==
  /\ hand[h].op # Nothing
  /\ hand' = [hand EXCEPT ![h] = Free]
  /\ UNCHANGED <<row, there, subscribed, chosen, duplicate>>

\* One upsert, which asks neither for the lock nor for what is visible.
Share ==
  /\ there
  /\ row' = SaveShared(row)
  /\ hand' = [h \in Hands |-> IF hand[h].op = Nothing THEN Free ELSE [hand[h] EXCEPT !.shared = TRUE]]
  /\ UNCHANGED <<there, subscribed, chosen, duplicate>>

-----------------------------------------------------------------------------
(* What else happens to the article.                                       *)

\* Readers compare the instant with their clock; that it passes while a handler
\* is at work is the same as that it passes afterwards.
SnoozeEnds ==
  /\ row # Nothing /\ row.until = "ahead"
  /\ row' = [row EXCEPT !.until = "passed"]
  /\ ~Locked
  /\ UNCHANGED <<there, subscribed, chosen, duplicate, hand>>

Subscribe ==
  /\ subscribed' = ~subscribed
  /\ UNCHANGED <<row, there, chosen, duplicate, hand>>

\* Retention skips a locked row and a starred article; the rows go with it.
Delete ==
  /\ there /\ ~Locked /\ ~Current(row).starred
  /\ there' = FALSE /\ row' = Nothing
  /\ UNCHANGED <<subscribed, chosen, duplicate, hand>>

\* The embedding pass leaves alone what a reader has moved out of Today by the
\* time it chooses; it archives what it has chosen a little later.
Choose ==
  /\ there /\ ~duplicate /\ State = "today"
  /\ chosen' = TRUE
  /\ UNCHANGED <<row, there, subscribed, duplicate, hand>>

Merge ==
  /\ there /\ chosen /\ ~Locked
  /\ chosen' = FALSE /\ duplicate' = TRUE
  /\ UNCHANGED <<row, there, subscribed, hand>>

WorkflowNext ==
  \/ \E h \in Hands : (\E op \in Operation : Begin(h, op)) \/ Finish(h) \/ GiveUp(h)
  \/ Share \/ SnoozeEnds \/ Subscribe \/ Delete \/ Choose \/ Merge

WorkflowSpec == WorkflowInit /\ [][WorkflowNext]_workflowVars

-----------------------------------------------------------------------------
(* The queries.                                                            *)

\* Duplicates are left out once their own row is archived.
Listable == Visible /\ (~duplicate \/ State # "archived")

\* Wrong: a snooze that has passed leaves the other list, too.
InFeedAllSnoozed(list) ==
  CASE list = "today" -> State = "today" \/ (State = "later" /\ row.until = "passed")
    [] OTHER -> State = list

InFeed(list) ==
  CASE list = "today" -> State = "today" \/ (State = "later" /\ row.until = "passed")
    [] list = "later" -> State = "later" /\ row.until # "passed"
    [] OTHER -> State = list

TodayCandidate == Listable /\ InFeed("today")

\* Search takes any state but archived, unless archived is asked for.
InSearch(wanted, withArchived) ==
  /\ Visible
  /\ wanted # {} => State \in wanted
  /\ State = "archived" => withArchived \/ "archived" \in wanted

\* The sidebar counts rows by state.
CountedAs == IF Listable THEN State ELSE "nothing"

\* Feed readers see as read what is neither in Today nor in Later.
ReadTag == State \notin {"today", "later"}

-----------------------------------------------------------------------------
(* Properties.                                                             *)

\* Every article a reader can list is in one list and only one: a snooze that
\* has ended moves it from Later to Today and leaves it in neither or both at
\* no time; nothing a feed reader reports unread is out of Today and Later.
OneListEach ==
  Listable => /\ Cardinality({list \in States : InFeed(list)}) = 1
              /\ ~ReadTag <=> InFeed("today") \/ InFeed("later")

\* Two hands never undo each other: a move leaves the star as it is in the row
\* the moment it is written, a star leaves the state, and what one of them
\* wrote is never replaced from an older read.  Only the effect of sharing the
\* address may be lost to a handler that read the row before.
NoStaleWrite ==
  [][\A h \in Hands :
       (hand[h].op # Nothing /\ hand'[h].op = Nothing /\ row' # row) =>
         hand[h].shared \/ row' = Effect(hand[h].op, row)]_workflowVars

\* A starred article stays in the store, and its row with it.
StarredStays == [][(row # Nothing /\ row.starred) => there']_workflowVars

\* ingest/service.py:2629: "Raises ValueError if starring a skipped article."
NoSkippedStar == row # Nothing => ~(row.state = "skipped" /\ row.starred)

\* ingest/service.py:2670: "Snooze an article to Later with an expiry of `days`
\* days from now."
SnoozeKeepsItsEnd ==
  [][(row # Nothing /\ row.state = "later" /\ row.until = "ahead"
        /\ row' # Nothing /\ row'.state = "later") => row'.until # "unset"]_workflowVars
=============================================================================
