--------------------------- MODULE NewsletterPoll ---------------------------
(***************************************************************************)
(* Newsletters that arrive in a mailbox and become articles.  A poll lists *)
(* the unread messages and handles them one after the other; the articles  *)
(* of the whole batch are inserted in one transaction, which is committed  *)
(* at the end, while each message is marked as read in the mailbox right   *)
(* after its insert.  Polls of two processes may overlap.                  *)
(***************************************************************************)
EXTENDS Naturals

CONSTANTS
  Messages,     \* messages in the mailbox
  Addressed,    \* those that name a sender, a known reader and are not too large
  MessageIds,   \* values of the Message-ID header
  MessageIdOf,  \* the one of each message; a message may be delivered twice
  Pollers,      \* processes that poll the mailbox
  FetchFlags,   \* whether the server flags as read what is fetched without PEEK
  NoMessage     \* no message

ASSUME NewsletterAssumption ==
  /\ Addressed \subseteq Messages /\ NoMessage \notin Messages
  /\ MessageIdOf \in [Messages -> MessageIds]
  /\ FetchFlags \in BOOLEAN

VARIABLES
  seen,      \* messages the mailbox has flagged as read
  stored,    \* Message-IDs with a committed article
  poll,      \* per process: its batch, its message and its transaction
  troubled   \* messages whose handling or whose batch has failed (auxiliary)

newsletterVars == <<seen, stored, poll, troubled>>

PollPhases == {"idle", "listed", "fetched", "handled"}

NewsletterTypeOK ==
  /\ seen \subseteq Messages /\ troubled \subseteq Messages /\ stored \subseteq MessageIds
  /\ poll \in [Pollers -> [at: PollPhases, unread: SUBSET Messages,
                           current: Messages \cup {NoMessage},
                           held: SUBSET MessageIds, clean: BOOLEAN]]

IdlePoll == [at |-> "idle", unread |-> {}, current |-> NoMessage, held |-> {}, clean |-> TRUE]

NewsletterInit ==
  /\ seen = {} /\ stored = {} /\ troubled = {}
  /\ poll = [p \in Pollers |-> IdlePoll]

\* The articles inserted by a batch that is not committed.
HeldByAnother(p, id) == \E o \in Pollers \ {p} : id \in poll[o].held
BatchOf(p) == {m \in Messages : MessageIdOf[m] \in poll[p].held \/ m = poll[p].current}

ListUnread(p) ==
  /\ poll[p].at = "idle" /\ Messages # seen
  /\ poll' = [poll EXCEPT ![p] = [IdlePoll EXCEPT !.at = "listed", !.unread = Messages \ seen]]
  /\ UNCHANGED <<seen, stored, troubled>>

\* The whole message is fetched without PEEK, upon which an IMAP server flags
\* it as read by itself; a fetch that is refused leaves the message as it is.
FetchMessage(p, m) ==
  /\ poll[p].at = "listed" /\ m \in poll[p].unread
  /\ \/ /\ poll' = [poll EXCEPT ![p].at = "fetched", ![p].current = m, ![p].unread = @ \ {m}]
        /\ seen' = IF FetchFlags THEN seen \cup {m} ELSE seen
     \/ /\ poll' = [poll EXCEPT ![p].unread = @ \ {m}]
        /\ UNCHANGED seen
  /\ UNCHANGED <<stored, troubled>>

\* What nobody can be found to have been sent is taken as handled.  Otherwise
\* the article is inserted unless there is one of its Message-ID; the insert
\* waits for another transaction that holds the same one.
ProcessMessage(p) ==
  LET id == MessageIdOf[poll[p].current] IN
  /\ poll[p].at = "fetched"
  /\ poll[p].current \in Addressed =>
       /\ poll[p].clean /\ ~HeldByAnother(p, id)
  /\ poll' = [poll EXCEPT ![p].at = "handled",
       ![p].held = IF poll[p].current \in Addressed /\ id \notin stored THEN @ \cup {id} ELSE @]
  /\ UNCHANGED <<seen, stored, troubled>>

\* The handling raises and the message is passed over.  When it was the server
\* that refused a statement, the transaction of the batch is lost with it, and
\* no later message of the batch can be stored.
ProcessFails(p) ==
  /\ poll[p].at = "fetched"
  /\ \E clean \in {poll[p].clean, FALSE} :
       poll' = [poll EXCEPT ![p].at = "listed", ![p].current = NoMessage, ![p].clean = clean]
  /\ troubled' = troubled \cup {poll[p].current}
  /\ UNCHANGED <<seen, stored>>

\* The mailbox may refuse the flag: the message is read again by the next poll.
MarkSeen(p) ==
  /\ poll[p].at = "handled"
  /\ seen' \in {seen, seen \cup {poll[p].current}}
  /\ poll' = [poll EXCEPT ![p].at = "listed", ![p].current = NoMessage]
  /\ UNCHANGED <<stored, troubled>>

\* Wrong: the connection is given back without a commit.
EndUncommitted(p) ==
  /\ poll[p].at = "listed" /\ poll[p].unread = {}
  /\ poll' = [poll EXCEPT ![p] = IdlePoll]
  /\ UNCHANGED <<seen, stored, troubled>>

\* The end of the batch commits it; a lost transaction is rolled back instead.
EndBatch(p) ==
  /\ poll[p].at = "listed" /\ poll[p].unread = {}
  /\ stored' = IF poll[p].clean THEN stored \cup poll[p].held ELSE stored
  /\ troubled' = IF poll[p].clean THEN troubled ELSE troubled \cup BatchOf(p)
  /\ poll' = [poll EXCEPT ![p] = IdlePoll]
  /\ UNCHANGED seen

\* The process stops or loses the database: nothing of the batch is kept.
LoseBatch(p) ==
  /\ poll[p].at # "idle"
  /\ troubled' = troubled \cup BatchOf(p)
  /\ poll' = [poll EXCEPT ![p] = IdlePoll]
  /\ UNCHANGED <<seen, stored>>

NewsletterNext ==
  \E p \in Pollers :
    \/ ListUnread(p) \/ ProcessMessage(p) \/ ProcessFails(p) \/ MarkSeen(p)
    \/ EndBatch(p) \/ LoseBatch(p)
    \/ \E m \in Messages : FetchMessage(p, m)

NewsletterSpec == NewsletterInit /\ [][NewsletterNext]_newsletterVars

-----------------------------------------------------------------------------
(* Properties.                                                             *)

\* A message is out of the poller's hands when it is flagged as read and no
\* batch is working on it.
LeftBehind(m) ==
  /\ m \in Addressed \cap seen /\ MessageIdOf[m] \notin stored
  /\ \A p \in Pollers : m \notin BatchOf(p)

\* newsletter_ingest.py:352: whatever polls overlap and however often a message
\* is delivered, a message that is read and has no article is one whose own
\* handling or whose batch has failed.
OnlyTroubledAreLeft == \A m \in Messages : LeftBehind(m) => m \in troubled

\* newsletter_ingest.py:356: "on unexpected failure a message is left unread so
\* the next poll retries it".
SeenIsStored == \A m \in Messages : ~LeftBehind(m)
=============================================================================
