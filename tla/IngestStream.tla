---------------------------- MODULE IngestStream ----------------------------
(***************************************************************************)
(* The log of an ingestion run as administrators follow it: a hub in the   *)
(* process keeps the lines of the run, replays them to whoever begins to   *)
(* follow, and puts each further line into the queue of every follower.    *)
(* The hub holds its lock while it changes its lines and copies the set of *)
(* followers; the queues are filled after it has let go of the lock.       *)
(***************************************************************************)
EXTENDS Naturals, Sequences, SequencesExt

CONSTANTS
  Followers,   \* streams of administrators
  MaxLines,    \* bound: lines appended
  MaxLogs      \* bound: runs begun

ASSUME StreamAssumption == MaxLines \in Nat /\ MaxLogs \in Nat

Lines == 1 .. MaxLines
Reset == 0   \* the event that clears a follower's screen
Events == Lines \cup {Reset}

VARIABLES
  hub,       \* lines of the current run and of the last completed one
  following, \* the followers known to the hub
  queue,     \* per follower: events put and not yet taken
  screen,    \* per follower: the lines it shows
  announcer, \* the run's thread: what it does next, what it puts and for whom
  said,      \* lines appended so far
  begun      \* runs begun so far

streamVars == <<hub, following, queue, screen, announcer, said, begun>>

Silent == [next |-> "start", event |-> Reset, targets |-> {}]

StreamTypeOK ==
  /\ hub \in [current: Seq(Lines), last: Seq(Lines), active: BOOLEAN]
  /\ following \subseteq Followers
  /\ queue \in [Followers -> Seq(Events)]
  /\ screen \in [Followers -> Seq(Lines)]
  /\ announcer \in [next: {"start", "append", "complete"}, event: Events, targets: SUBSET Followers]
  /\ said \in 0 .. MaxLines /\ begun \in 0 .. MaxLogs

StreamInit ==
  /\ hub = [current |-> <<>>, last |-> <<>>, active |-> FALSE]
  /\ following = {}
  /\ queue = [f \in Followers |-> <<>>] /\ screen = [f \in Followers |-> <<>>]
  /\ announcer = Silent /\ said = 0 /\ begun = 0

\* What a new follower is shown first.
Replay == IF hub.active THEN hub.current ELSE hub.last

\* The replay is read under the lock, together with the entry into the hub.
Follow(f) ==
  /\ f \notin following
  /\ following' = following \cup {f}
  /\ screen' = [screen EXCEPT ![f] = Replay]
  /\ UNCHANGED <<hub, queue, announcer, said, begun>>

\* Wrong: the event that clears the screen is shown like any other.
TakeAsLine(f) ==
  /\ f \in following /\ queue[f] # <<>>
  /\ screen' = [screen EXCEPT ![f] = Append(@, Head(queue[f]))]
  /\ queue' = [queue EXCEPT ![f] = Tail(@)]
  /\ UNCHANGED <<hub, following, announcer, said, begun>>

Take(f) ==
  /\ f \in following /\ queue[f] # <<>>
  /\ screen' = [screen EXCEPT ![f] = IF Head(queue[f]) = Reset THEN <<>>
                                     ELSE Append(@, Head(queue[f]))]
  /\ queue' = [queue EXCEPT ![f] = Tail(@)]
  /\ UNCHANGED <<hub, following, announcer, said, begun>>

Leave(f) ==
  /\ f \in following
  /\ following' = following \ {f}
  /\ queue' = [queue EXCEPT ![f] = <<>>]
  /\ screen' = [screen EXCEPT ![f] = <<>>]
  /\ announcer' = [announcer EXCEPT !.targets = @ \ {f}]
  /\ UNCHANGED <<hub, said, begun>>

\* Wrong: the followers are those of the moment the event is put.
PutToAnyone(f) ==
  /\ announcer.targets # {} /\ f \in following
  /\ queue' = [queue EXCEPT ![f] = Append(@, announcer.event)]
  /\ announcer' = [announcer EXCEPT !.targets = @ \ {f}]
  /\ UNCHANGED <<hub, following, screen, said, begun>>

\* One event into one queue; a follower that left meanwhile reads it no more.
Put(f) ==
  /\ f \in announcer.targets
  /\ queue' = [queue EXCEPT ![f] = Append(@, announcer.event)]
  /\ announcer' = [announcer EXCEPT !.targets = @ \ {f}]
  /\ UNCHANGED <<hub, following, screen, said, begun>>

BeginLog ==
  /\ announcer.next = "start" /\ announcer.targets = {}
  /\ begun < MaxLogs
  /\ begun' = begun + 1
  /\ hub' = [hub EXCEPT !.active = TRUE, !.current = <<>>]
  /\ announcer' = [next |-> "append", event |-> Reset, targets |-> following]
  /\ UNCHANGED <<following, queue, screen, said>>

\* The header, a line per source, and the summary, after which the run is over.
AppendLine ==
  /\ announcer.next = "append" /\ announcer.targets = {}
  /\ said < MaxLines
  /\ said' = said + 1
  /\ hub' = [hub EXCEPT !.current = Append(@, said + 1)]
  /\ \E next \in {"append", "complete"} :
       announcer' = [next |-> next, event |-> said + 1, targets |-> following]
  /\ UNCHANGED <<following, queue, screen, begun>>

CompleteLog ==
  /\ announcer.next = "complete" /\ announcer.targets = {}
  /\ hub' = [current |-> <<>>, last |-> hub.current, active |-> FALSE]
  /\ announcer' = Silent
  /\ UNCHANGED <<following, queue, screen, said, begun>>

\* The totals of the run cannot be written: the hub hears no more of the run.
AbandonLog ==
  /\ announcer.next = "append" /\ announcer.targets = {}
  /\ hub.current # <<>>
  /\ announcer' = Silent
  /\ UNCHANGED <<hub, following, queue, screen, said, begun>>

StreamNext ==
  \/ \E f \in Followers : Follow(f) \/ Take(f) \/ Leave(f) \/ Put(f)
  \/ BeginLog \/ AppendLine \/ CompleteLog \/ AbandonLog

StreamSpec == StreamInit /\ [][StreamNext]_streamVars

\* Whoever began to follow in the middle sees the log of the run, each line once
\* and in order, as soon as the queue has been read.
ScreenShowsLog ==
  \A f \in following \ announcer.targets : queue[f] = <<>> => screen[f] = Replay
=============================================================================
