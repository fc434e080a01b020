---------------------------- MODULE DailyVisits ----------------------------
(***************************************************************************)
(* One reader's days: the visit that is recorded for a local date, the     *)
(* streak of credited dates, and the welcome that is offered once a day to *)
(* whichever tab claims it first.  The reader may move to another time     *)
(* zone at any moment.  Each handler holds the account's advisory lock and *)
(* samples the clock under it, so each is one action.                      *)
(***************************************************************************)
EXTENDS Integers, FiniteSets

CONSTANTS
  VisitZones,        \* time zones, as offsets in ticks
  VisitDay,    \* ticks of a day
  MaxTime       \* bound: the last instant

ASSUME VisitsAssumption ==
  /\ VisitZones \subseteq Nat /\ VisitZones # {}
  /\ VisitDay \in Nat \ {0} /\ \A z \in VisitZones : z <= VisitDay
  /\ MaxTime \in Nat

VARIABLES
  time,       \* the server's clock
  home,       \* the time zone saved for the reader
  welcomes,   \* the reader wants to be welcomed
  visits,     \* per local date, the visit recorded for it
  streak,     \* last credited date, current and best run, next credit at
  shown       \* per local date, how often a welcome was shown (auxiliary)

visitsVars == <<time, home, welcomes, visits, streak, shown>>

Dates == 0 .. MaxTime \div VisitDay + 1
DateIn(z) == (time + z) \div VisitDay
Today == DateIn(home)
Midnight(d, z) == (d + 1) * VisitDay - z

NoVisit == [credited |-> FALSE, welcome |-> "none"]
NoDate == -1
NoStreak == [last |-> NoDate, current |-> 0, best |-> 0, next |-> 0]

VisitsTypeOK ==
  /\ time \in 0 .. MaxTime /\ home \in VisitZones /\ welcomes \in BOOLEAN
  /\ visits \in [Dates -> [credited: BOOLEAN,
                           welcome: {"none", "pending", "claimed", "suppressed"}]]
  /\ streak.last \in Dates \cup {NoDate} /\ {streak.current, streak.best, streak.next} \subseteq Nat
  /\ shown \in [Dates -> Nat]

VisitsInit ==
  /\ time = 0 /\ home \in VisitZones /\ welcomes = TRUE
  /\ visits = [d \in Dates |-> NoVisit]
  /\ streak = NoStreak
  /\ shown = [d \in Dates |-> 0]

\* The row of a date is inserted once and found by every later visit.
Recorded(d) ==
  IF visits[d] # NoVisit THEN visits[d]
  ELSE [credited |-> FALSE, welcome |-> IF welcomes THEN "pending" ELSE "suppressed"]

\* A new date earns its credit once the midnight of the last one has passed in
\* the zone it was credited in.
Creditable == streak.last = NoDate \/ (Today > streak.last /\ time >= streak.next)

\* Wrong: a day may be missed.
ContinuingSince == streak.last >= Today - 1 \/ streak.last = Today - 2

Continuing == streak.last = Today - 1

RecordVisit ==
  /\ LET run == IF Continuing THEN streak.current + 1 ELSE 1 IN
     IF Creditable
     THEN /\ streak' = [last |-> Today, current |-> run, next |-> Midnight(Today, home),
                        best |-> IF run > streak.best THEN run ELSE streak.best]
          /\ visits' = [visits EXCEPT ![Today] = [Recorded(Today) EXCEPT !.credited = TRUE]]
     ELSE /\ visits' = [visits EXCEPT ![Today] = Recorded(Today)]
          /\ UNCHANGED streak
  /\ UNCHANGED <<time, home, welcomes, shown>>

\* Settings: a welcome still pending for today is suppressed with the setting.
UpdatePreferences(z, on) ==
  /\ home' = z /\ welcomes' = on
  /\ LET d == DateIn(z) IN
     visits' = IF ~on /\ visits[d].welcome = "pending"
               THEN [visits EXCEPT ![d].welcome = "suppressed"] ELSE visits
  /\ UNCHANGED <<time, streak, shown>>

\* A tab claims the welcome of the date it was told of.
ClaimPresentation(d) ==
  /\ d = Today /\ welcomes
  /\ visits[d].credited /\ visits[d].welcome = "pending"
  /\ visits' = [visits EXCEPT ![d].welcome = "claimed"]
  /\ shown' = [shown EXCEPT ![d] = @ + 1]
  /\ UNCHANGED <<time, home, welcomes, streak>>

TimePasses ==
  /\ time < MaxTime
  /\ time' = time + 1
  /\ UNCHANGED <<home, welcomes, visits, streak, shown>>

VisitsNext ==
  \/ RecordVisit \/ TimePasses
  \/ \E z \in VisitZones, on \in BOOLEAN : UpdatePreferences(z, on)
  \/ \E d \in Dates : ClaimPresentation(d)

VisitsSpec == VisitsInit /\ [][VisitsNext]_visitsVars

-----------------------------------------------------------------------------
(* Properties.                                                             *)

\* The streak shown is the run of credited dates that ends with the last one,
\* and the best one was such a run, wherever the reader has travelled.
CreditedDates == {d \in Dates : visits[d].credited}
StreakIsARun ==
  /\ \A d \in CreditedDates : d <= streak.last
  /\ \A k \in 0 .. streak.current - 1 : streak.last - k \in CreditedDates
  /\ streak.last - streak.current \notin CreditedDates
  /\ streak.best = 0 \/ \E d \in CreditedDates :
       \A k \in 0 .. streak.best - 1 : d - k \in CreditedDates

\* A date's welcome is shown once at most, though several tabs claim it, the
\* setting is switched off and on, and the date comes again in another zone.
WelcomeShownOnce == \A d \in Dates : shown[d] <= 1

\* What visits, presentations and the time zones of a reader keep between them.
VisitsInv == StreakIsARun /\ WelcomeShownOnce
=============================================================================
