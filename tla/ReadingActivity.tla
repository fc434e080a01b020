-------------------------- MODULE ReadingActivity --------------------------
(***************************************************************************)
(* Connected time in the application, for one reader.  A client opens a    *)
(* window, and later reports by a heartbeat in which part of it the        *)
(* application was in use; answers are lost, heartbeats are sent again,    *)
(* and several clients report the same time.  Consent, its withdrawal and  *)
(* a new time zone fence everything that is under way.                     *)
(*                                                                         *)
(* Every handler holds the account's advisory lock from its first read to  *)
(* its commit, so each is one action.  Time is counted in ticks; tick t    *)
(* lasts from instant t to instant t + 1.                                  *)
(***************************************************************************)
EXTENDS Integers, FiniteSets, FiniteSetsExt

CONSTANTS
  Windows,      \* identifiers of windows
  Unopened,     \* no such window
  Span,         \* length of a window (30 s in the code)
  Horizon,      \* how long a window may be reported (120 s)
  Capacity,     \* windows open at once (16)
  PerMinute,    \* requests a minute (120)
  Minute,       \* ticks of a minute
  DayLength,    \* ticks of a day
  Zones,        \* time zones, as offsets in ticks
  MaxNow,       \* bound: the last instant
  MaxRevision   \* bound: how often the fence is raised

ASSUME ActivityAssumption ==
  /\ {Span, Capacity, PerMinute, Minute, DayLength} \subseteq Nat \ {0}
  /\ Horizon \in Nat /\ Span <= Horizon
  /\ MaxNow \in Nat /\ MaxRevision \in Nat
  /\ Zones \subseteq 0 .. DayLength /\ Zones # {}

VARIABLES
  now,        \* the server's clock
  agreed,     \* the reader consents to measurement
  revision,   \* the fence: windows of another revision are void
  zone,       \* the time zone saved for the reader
  window,     \* the windows the store still knows
  recent,     \* ticks counted lately (recent_union)
  recentAt,   \* when recent was stored
  total,      \* ticks counted in all
  days,       \* ticks counted per zone and local day
  requests,   \* requests of this minute
  counted,    \* how often a tick has been counted (auxiliary)
  fencedAt    \* when the fence was raised last (auxiliary)

activityVars == <<now, agreed, revision, zone, window, recent, recentAt, total, days,
                  requests, counted, fencedAt>>

Ticks == 0 .. MaxNow - 1
Days == 0 .. (MaxNow + Max(Zones)) \div DayLength
Report == {r \in (0 .. Span - 1) \X (1 .. Span) : r[1] < r[2]}
NoReport == <<0, 0>>
Window == [issued: 0 .. MaxNow, revision: 0 .. MaxRevision, zone: Zones,
           receipt: Report \cup {NoReport}]

ActivityTypeOK ==
  /\ now \in 0 .. MaxNow /\ agreed \in BOOLEAN /\ zone \in Zones
  /\ revision \in 0 .. MaxRevision
  /\ window \in [Windows -> Window \cup {Unopened}]
  /\ recent \subseteq Ticks /\ recentAt \in 0 .. MaxNow
  /\ total \in Nat /\ days \in [Zones \X Days -> Nat]
  /\ requests \in 0 .. PerMinute
  /\ counted \in [Ticks -> Nat] /\ fencedAt \in 0 .. MaxNow

ActivityInit ==
  /\ now = 0 /\ agreed = TRUE /\ revision = 0 /\ zone \in Zones
  /\ window = [w \in Windows |-> Unopened]
  /\ recent = {} /\ recentAt = 0 /\ total = 0
  /\ days = [d \in Zones \X Days |-> 0]
  /\ requests = 0
  /\ counted = [t \in Ticks |-> 0] /\ fencedAt = 0

-----------------------------------------------------------------------------
(* The fence.                                                              *)

\* Wrong: the open windows stay valid.
InvalidateLeavesWindows ==
  /\ UNCHANGED <<revision, window>>
  /\ fencedAt' = now

Invalidate ==
  /\ revision' = revision + 1
  /\ window' = [w \in Windows |-> Unopened]
  /\ fencedAt' = now

\* Settings and the import of an archive; the same answer again changes nothing.
SetConsent ==
  /\ revision < MaxRevision
  /\ agreed' = ~agreed
  /\ Invalidate
  /\ UNCHANGED <<now, zone, recent, recentAt, total, days, requests, counted>>

ChangeZone ==
  /\ revision < MaxRevision
  /\ zone' \in Zones \ {zone}
  /\ Invalidate
  /\ UNCHANGED <<now, agreed, recent, recentAt, total, days, requests, counted>>

\* A request above the rate is refused and leaves no trace.
Admit ==
  /\ requests < PerMinute
  /\ requests' = requests + 1

\* Without consent a request raises the fence again.
Refuse ==
  /\ Admit /\ ~agreed /\ revision < MaxRevision
  /\ Invalidate
  /\ UNCHANGED <<now, agreed, zone, recent, recentAt, total, days, counted>>

-----------------------------------------------------------------------------
(* Windows and heartbeats.                                                 *)

Expires(w) == window[w].issued + Span
Known == {w \in Windows : window[w] # Unopened}
Old == {w \in Known : window[w].issued + Horizon <= now}
Open == {w \in Known : Expires(w) > now /\ window[w].receipt = NoReport}

\* What can no longer be reported goes first; at the capacity nothing is opened.
OpenWindow(v) ==
  /\ Admit /\ agreed /\ window[v] = Unopened
  /\ window' = [w \in Windows |->
       IF w = v /\ Cardinality(Open) < Capacity
       THEN [issued |-> now, revision |-> revision, zone |-> zone, receipt |-> NoReport]
       ELSE IF w \in Old THEN Unopened ELSE window[w]]
  /\ UNCHANGED <<now, agreed, revision, zone, recent, recentAt, total, days, counted, fencedAt>>

\* A report that is late, fenced, in the future or at odds with the receipt is
\* refused, and the same report again gets the receipt: neither counts anything.
Countable(w, r) ==
  /\ window[w] # Unopened
  /\ now < window[w].issued + Horizon
  /\ window[w].revision = revision
  /\ window[w].receipt = NoReport
  /\ now < Expires(w)
  /\ window[w].issued + r[2] <= now

Reported(w, r) == window[w].issued + r[1] .. window[w].issued + r[2] - 1
StillRecent == {t \in recent : t >= now - Horizon}
Uncovered(w, r) == Reported(w, r) \ StillRecent
DayOf(t, z) == (t + z) \div DayLength

Heartbeat(w, r) ==
  /\ Admit /\ agreed
  /\ IF Countable(w, r)
     THEN LET new == Uncovered(w, r) IN
          /\ total' = total + Cardinality(new)
          /\ days' = [d \in Zones \X Days |->
               days[d] + Cardinality({t \in new : d = <<window[w].zone, DayOf(t, window[w].zone)>>})]
          /\ recent' = StillRecent \cup Reported(w, r)
          /\ recentAt' = now
          /\ window' = [window EXCEPT ![w].receipt = r]
          /\ counted' = [t \in Ticks |-> IF t \in new THEN counted[t] + 1 ELSE counted[t]]
     ELSE UNCHANGED <<total, days, recent, recentAt, window, counted>>
  /\ UNCHANGED <<now, agreed, revision, zone, fencedAt>>

\* Wrong: the job clears the union of every reader it visits.
ForgettableAlways == TRUE

\* The minute job forgets what can no longer be reported or overlapped.
Forgettable == recentAt + Horizon <= now
CleanUp ==
  /\ Old # {} \/ (Forgettable /\ recent # {})
  /\ window' = [w \in Windows |-> IF w \in Old THEN Unopened ELSE window[w]]
  /\ recent' = IF Forgettable THEN {} ELSE recent
  /\ UNCHANGED <<now, agreed, revision, zone, recentAt, total, days, requests, counted, fencedAt>>

Tick ==
  /\ now < MaxNow
  /\ now' = now + 1
  /\ requests' = IF (now + 1) % Minute = 0 THEN 0 ELSE requests
  /\ UNCHANGED <<agreed, revision, zone, window, recent, recentAt, total, days, counted, fencedAt>>

ActivityNext ==
  \/ SetConsent \/ ChangeZone \/ Refuse \/ CleanUp \/ Tick
  \/ \E w \in Windows : OpenWindow(w) \/ \E r \in Report : Heartbeat(w, r)

ActivitySpec == ActivityInit /\ [][ActivityNext]_activityVars

-----------------------------------------------------------------------------
(* Properties.                                                             *)

\* However many clients report the same time, and whenever the minute job
\* forgets, a tick is counted once at most, after it has passed, and the total
\* and the days of all zones say the same (heartbeat, uncovered, add_days).
EachInstantOnce ==
  /\ \A t \in Ticks : counted[t] <= 1 /\ (counted[t] = 1 => t < now)
  /\ total = Cardinality({t \in Ticks : counted[t] = 1})
  /\ total = MapThenSumSet(LAMBDA d : days[d], DOMAIN days)

\* Nothing from before a withdrawal of consent, or under another time zone, is
\* counted once it has taken effect, although clients still hold windows.
NothingFromBefore ==
  [][\A t \in Ticks : counted'[t] # counted[t] => t >= fencedAt /\ agreed]_activityVars
=============================================================================
