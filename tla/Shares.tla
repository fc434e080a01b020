-------------------------------- MODULE Shares --------------------------------
(***************************************************************************)
(* Articles that readers send each other. A share is open to its sender    *)
(* for ever and to its recipient until it is revoked; whoever it is open   *)
(* to reads the article through it, marks passages and writes messages.    *)
(* Each share and each mark starts a task that has a model say why the     *)
(* share matters; the task that answers last is the one that counts.       *)
(* A request looks whether the share is open and acts in a later           *)
(* transaction.                                                            *)
(***************************************************************************)
EXTENDS Integers, Sequences, FiniteSets

CONSTANTS
  Readers,
  Seers,        \* readers among whose sources the article is
  Visits,       \* requests, each made again and again
  MaxInbox,     \* shares that a list holds
  MaxShares,    \* bound
  MaxMarks,     \* bound: marked passages and messages of all shares
  MaxChores     \* bound: tasks at a time

ASSUME SharesAssumption ==
  /\ Seers \subseteq Readers /\ IsFiniteSet(Visits)
  /\ {MaxInbox, MaxShares, MaxMarks, MaxChores} \subseteq Nat

VARIABLES
  shares,     \* in the order of their making
  visits,     \* requests that found a share open and have not acted
  chores      \* tasks: [share, mark, pc, saw]; the one of a new share is of mark 0

sharesVars == <<shares, visits, chores>>

Sent == 1 .. Len(shares)
Away == [pc |-> "away", by |-> "nobody", share |-> 0, why |-> "none"]
Errands == {"mark", "message", "article"}

SharesTypeOK ==
  /\ Len(shares) <= MaxShares
  /\ \A i \in Sent :
       /\ {shares[i].from, shares[i].to} \subseteq Readers
       /\ {shares[i].read, shares[i].revoked, shares[i].steady} \subseteq BOOLEAN
       /\ {shares[i].marks, shares[i].messages} \subseteq 0 .. MaxMarks
       /\ shares[i].context \in -1 .. MaxMarks
  /\ \A v \in Visits : visits[v] = Away \/ (visits[v].share \in Sent /\ visits[v].by \in Readers /\ visits[v].why \in Errands)
  /\ \A k \in chores : k.share \in Sent /\ k.pc \in {"tell", "read", "answer"}

SharesInit ==
  /\ shares = <<>> /\ visits = [v \in Visits |-> Away] /\ chores = {}

-----------------------------------------------------------------------------
(* What a reader is shown.                                                 *)

Open(r, i) == shares[i].from = r \/ (shares[i].to = r /\ ~shares[i].revoked)

Newest(is) == {i \in is : Cardinality({j \in is : j > i}) < MaxInbox}
ReceivedBy(r) == Newest({i \in Sent : shares[i].to = r /\ ~shares[i].revoked})
SentBy(r) == Newest({i \in Sent : shares[i].from = r})

\* Wrong: what was revoked counts.
CountedAnyway(r) == Cardinality({i \in Sent : shares[i].to = r /\ ~shares[i].read})
UnreadCount(r) == Cardinality({i \in Sent : shares[i].to = r /\ ~shares[i].read /\ ~shares[i].revoked})

-----------------------------------------------------------------------------
(* Requests.                                                               *)

Chore(i, mark, pc) == [share |-> i, mark |-> mark, pc |-> pc, saw |-> 0]
ChoresOf(i) == {k \in chores : k.share = i}

\* Only an article of the sender's own sources is sent, not one that was received.
ShareArticle(r, q) ==
  /\ Len(shares) < MaxShares /\ Cardinality(chores) < MaxChores /\ r # q /\ r \in Seers
  /\ shares' = Append(shares, [from |-> r, to |-> q, read |-> FALSE, revoked |-> FALSE,
                               marks |-> 0, messages |-> 0, context |-> -1, steady |-> TRUE,
                               readThen |-> FALSE, late |-> 0])
  /\ chores' = chores \cup {Chore(Len(shares) + 1, 0, "tell")}
  /\ UNCHANGED visits

MarkRead(r, i) ==
  /\ shares[i].to = r /\ ~shares[i].read /\ ~shares[i].revoked
  /\ shares' = [shares EXCEPT ![i].read = TRUE]
  /\ UNCHANGED <<visits, chores>>

\* What its recipient is about to do is counted, and how the share stood (auxiliary).
Pending(r, i) == {v \in Visits : visits[v].by = r /\ visits[v].share = i /\ visits[v].why \in {"mark", "message"}}
RevokeShare(r, i) ==
  /\ shares[i].from = r /\ ~shares[i].revoked
  /\ shares' = [shares EXCEPT ![i].revoked = TRUE, ![i].readThen = shares[i].read,
                              ![i].late = Cardinality(Pending(shares[i].to, i))]
  /\ UNCHANGED <<visits, chores>>

\* The marks and messages made so far, for the bound.
Marks == Cardinality({m \in Sent \X (1 .. MaxMarks) : m[2] <= shares[m[1]].marks + shares[m[1]].messages})

\* Wrong: only who it is from and to is looked at.
OpenToBoth(r, i) == shares[i].from = r \/ shares[i].to = r
LetIn(r, i) == Open(r, i)

Visit(v, r, i, why) ==
  /\ visits[v] = Away /\ LetIn(r, i)
  /\ why \in {"mark", "message"} => Marks < MaxMarks
  /\ visits' = [visits EXCEPT ![v] = [pc |-> "in", by |-> r, share |-> i, why |-> why]]
  /\ UNCHANGED <<shares, chores>>

\* What the recipient does of what was pending at the revocation.
Overdue(v, i) == IF shares[i].revoked /\ visits[v].by = shares[i].to THEN 1 ELSE 0

\* A task that has read the marks answers without this one (auxiliary: steady).
AddMark(v) ==
  LET i == visits[v].share
  IN /\ visits[v].why = "mark" /\ Marks < MaxMarks /\ Cardinality(chores) < MaxChores
     /\ shares' = [shares EXCEPT ![i].marks = @ + 1, ![i].late = @ - Overdue(v, i),
                     ![i].steady = @ /\ \A k \in ChoresOf(i) : k.pc # "answer"]
     /\ chores' = chores \cup {Chore(i, shares[i].marks + 1, "read")}
     /\ visits' = [visits EXCEPT ![v] = Away]

AddMessage(v) ==
  LET i == visits[v].share
  IN /\ visits[v].why = "message" /\ Marks < MaxMarks
     /\ shares' = [shares EXCEPT ![i].messages = @ + 1, ![i].late = @ - Overdue(v, i)]
     /\ visits' = [visits EXCEPT ![v] = Away]
     /\ UNCHANGED chores

\* Through a share the article is fetched as nobody's, whatever the reader's sources are.
GiveArticle(v) ==
  /\ visits[v].why = "article"
  /\ visits' = [visits EXCEPT ![v] = Away]
  /\ UNCHANGED <<shares, chores>>

\* The process stops, or the transaction fails.
FailVisit(v) ==
  LET i == visits[v].share
  IN /\ visits[v] # Away
     /\ shares' = [shares EXCEPT ![i].late = @ - (IF visits[v].why = "article" THEN 0 ELSE Overdue(v, i))]
     /\ visits' = [visits EXCEPT ![v] = Away]
     /\ UNCHANGED chores

-----------------------------------------------------------------------------
(* Tasks.                                                                  *)

Become(k, l) == chores' = (chores \ {k}) \cup {l}

\* The recipient is told, of a share that may be revoked by now.
TellRecipient(k) ==
  /\ k.pc = "tell" /\ Become(k, [k EXCEPT !.pc = "read"])
  /\ UNCHANGED <<shares, visits>>

\* Wrong: the marks of all shares are read.
MarksOfAll(i) == IF \E j \in Sent : shares[j].marks > shares[i].marks THEN MaxMarks ELSE shares[i].marks
MarksOf(i) == shares[i].marks

ReadForContext(k) ==
  /\ k.pc = "read" /\ Become(k, [k EXCEPT !.pc = "answer", !.saw = MarksOf(k.share)])
  /\ UNCHANGED <<shares, visits>>

\* The answer is stored whatever is stored.
StoreContext(k) ==
  /\ k.pc = "answer" /\ chores' = chores \ {k}
  /\ shares' = [shares EXCEPT ![k.share].context = k.saw]
  /\ UNCHANGED visits

\* The telling fails, no key is configured, the model fails, or the process stops.
FailChore(k) ==
  /\ shares' = [shares EXCEPT ![k.share].steady = FALSE] /\ chores' = chores \ {k}
  /\ UNCHANGED visits

SharesNext ==
  \/ \E r \in Readers : \E q \in Readers : ShareArticle(r, q)
  \/ \E r \in Readers : \E i \in Sent :
       MarkRead(r, i) \/ RevokeShare(r, i) \/ \E v \in Visits : \E why \in Errands : Visit(v, r, i, why)
  \/ \E v \in Visits : AddMark(v) \/ AddMessage(v) \/ GiveArticle(v) \/ FailVisit(v)
  \/ \E k \in chores : TellRecipient(k) \/ ReadForContext(k) \/ StoreContext(k) \/ FailChore(k)

SharesSpec == SharesInit /\ [][SharesNext]_sharesVars

-----------------------------------------------------------------------------
(* Properties.                                                             *)

\* After the revocation its recipient adds to a share at most what was pending then,
\* and does not become one who has read it.
RevokedIsClosed ==
  \A i \in Sent : shares[i].revoked =>
    shares[i].late = Cardinality(Pending(shares[i].to, i)) /\ shares[i].read = shares[i].readThen

\* What is said of a share is said of its own marks, and of all of them when its
\* tasks have ended, none failed or was lost, and none was answered over a newer mark.
ContextKeepsUp ==
  \A i \in Sent :
    /\ shares[i].context <= shares[i].marks
    /\ shares[i].steady /\ ChoresOf(i) = {} => shares[i].context = shares[i].marks

\* The number of unread shares is the one of the list, unless the list is cut; and
\* what is received is among what its sender has sent, unless that is cut.
BadgeIsInbox ==
  \A r \in Readers :
    /\ LET unread == {i \in ReceivedBy(r) : ~shares[i].read}
       IN Cardinality(ReceivedBy(r)) < MaxInbox => UnreadCount(r) = Cardinality(unread)
    /\ \A i \in ReceivedBy(r) : LET s == SentBy(shares[i].from) IN i \in s \/ Cardinality(s) = MaxInbox

\* Nobody is let in but through a share of theirs.
GivenThroughShare ==
  \A v \in Visits : visits[v] # Away => visits[v].by \in {shares[visits[v].share].from, shares[visits[v].share].to}

SharesInv == RevokedIsClosed /\ ContextKeepsUp /\ BadgeIsInbox /\ GivenThroughShare

\* Holds not: the task that answers last may have read the fewest marks.
LastContextIsNewest == \A i \in Sent : ChoresOf(i) = {} => shares[i].context \in {-1, shares[i].marks}

\* Holds not: what is beyond the list is counted and cannot be marked as read in it.
EveryUnreadIsListed == \A r \in Readers : UnreadCount(r) <= Cardinality(ReceivedBy(r))
=============================================================================
