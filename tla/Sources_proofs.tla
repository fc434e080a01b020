-------------------------- MODULE Sources_proofs --------------------------
(***************************************************************************)
(* Proofs about the sources, their ingestion and a reader's archive, for   *)
(* any sources, readers, processes and lengths: each part by itself first, *)
(* and then the parts as they are run together.                            *)
(***************************************************************************)
EXTENDS MCSources, FiniteSetTheorems, SequenceTheorems, NaturalsInduction, WellFoundedInduction,
        TLAPS

(***************************************************************************)
(* The sources: any readers, sources and requests at a time.               *)
(***************************************************************************)

\* A request works on a global source or on one that belongs to who sent it.
OwnRequest(t) ==
  tab[t] # Free /\ tab[t].source \in Privates => OwnedBy(tab[t].by, tab[t].source)
CatalogueInv == CatalogueTypeOK /\ \A t \in Tabs : OwnRequest(t)

LEMMA CatalogueInitInv == CatalogueInit => CatalogueInv
<1> SUFFICES ASSUME CatalogueInit PROVE CatalogueInv
  OBVIOUS
<1>1. CatalogueTypeOK
  BY DEF CatalogueInit, CatalogueTypeOK, Row, Preference
<1> QED
  BY <1>1 DEF CatalogueInit, CatalogueInv, OwnRequest

\* Who may do something to a source has it for himself or shares it with everybody.
LEMMA AdmittedOwn ==
  ASSUME NEW r \in Readers, NEW d \in Deeds, NEW s \in Sources, Admitted(r, d, s), s \in Privates
  PROVE  OwnedBy(r, s)
<1>1. s \notin Globals
  BY CatalogueAssumption
<1> QED
  BY <1>1 DEF Admitted, CanCreate, CanDelete, CanToggle, CanDismiss, Seen, Visible, Deeds

\* What a request leaves behind: another row, preference or priority of its own
\* source and of its own reader.
LEMMA TabWrites ==
  ASSUME CatalogueInv, NEW t \in Tabs,
         \/ CreateSource(t) \/ ImportOpml(t) \/ DeleteSource(t) \/ SetSourceEnabled(t)
         \/ SourceCleanup(t) \/ SetSourcePriority(t) \/ SaveInterests(t)
  PROVE  /\ tab[t].source \in Sources /\ tab[t].by \in Readers /\ tab[t] # Free
         /\ tab' = [tab EXCEPT ![t] = Free]
         /\ row' \in [Privates -> Row]
         /\ \A q \in Privates \ {tab[t].source} : row'[q] = row[q]
         /\ preference' \in [Readers -> [Sources -> Preference]]
         /\ \A o \in Readers \ {tab[t].by} : preference'[o] = preference[o]
         /\ attention' \in [Readers -> SUBSET Sources]
         /\ \A o \in Readers \ {tab[t].by} : attention'[o] = attention[o]
<1> DEFINE s == tab[t].source
           r == tab[t].by
<1>1. s \in Sources /\ r \in Readers /\ tab[t] # Free /\ tab' = [tab EXCEPT ![t] = Free]
  BY DEF CreateSource, ImportOpml, DeleteSource, SetSourceEnabled, SourceCleanup, SetSourcePriority,
         SaveInterests, Doing, Done, CatalogueInv, CatalogueTypeOK
<1>2. /\ row \in [Privates -> Row] /\ preference \in [Readers -> [Sources -> Preference]]
      /\ attention \in [Readers -> SUBSET Sources]
  BY DEF CatalogueInv, CatalogueTypeOK
<1>3. row' \in [Privates -> Row] /\ \A q \in Privates \ {s} : row'[q] = row[q]
  <2>1. \/ row' = row \/ row' = [row EXCEPT ![s] = [state |-> "disabled", deleted |-> TRUE]]
        \/ \E w \in {"enabled", "disabled"} : row' = [row EXCEPT ![s].state = w]
    BY DEF CreateSource, ImportOpml, DeleteSource, SetSourceEnabled, SourceCleanup,
           SetSourcePriority, SaveInterests, Switch
  <2> HIDE DEF s
  <2>2. \A w \in {"enabled", "disabled"} :
          [row EXCEPT ![s].state = w] = [row EXCEPT ![s] = [row[s] EXCEPT !.state = w]]
    OBVIOUS
  <2>3. s \in Privates => \A w \in {"enabled", "disabled"} : [row[s] EXCEPT !.state = w] \in Row
    BY <1>2 DEF Row
  <2>4. [state |-> "disabled", deleted |-> TRUE] \in Row
    BY DEF Row
  <2> QED
    BY <1>2, <2>1, <2>2, <2>3, <2>4
<1>4. preference' \in [Readers -> [Sources -> Preference]] /\ \A o \in Readers \ {r} : preference'[o] = preference[o]
  <2>1. \/ preference' = preference
        \/ \E w \in Preference : preference' = [preference EXCEPT ![r][s] = w]
    <3>1. preference[r][s] \in Preference
      BY <1>1, <1>2
    <3>2. ASSUME SetSourcePriority(t)
          PROVE  \E w \in Preference : preference' = [preference EXCEPT ![r][s] = w]
      BY <3>1, <3>2 DEF SetSourcePriority, Preference
    <3> QED
      BY <3>2 DEF CreateSource, ImportOpml, DeleteSource, SetSourceEnabled, SourceCleanup,
                  SaveInterests, Switch, Preference
  <2> HIDE DEF s, r
  <2> QED
    BY <1>1, <1>2, <2>1
<1>5. attention' \in [Readers -> SUBSET Sources] /\ \A o \in Readers \ {r} : attention'[o] = attention[o]
  <2>1. \/ attention' = attention
        \/ \E w \in SUBSET Sources : attention' = [attention EXCEPT ![r] = w]
    <3>1. attention[r] \subseteq Sources
      BY <1>1, <1>2
    <3>2. CASE CreateSource(t)
      BY ZenonT(60), <1>1, <1>2, <3>1, <3>2 DEF CreateSource
    <3>3. CASE SetSourcePriority(t)
      BY <1>1, <3>1, <3>3 DEF SetSourcePriority
    <3> QED
      BY <3>2, <3>3 DEF ImportOpml, DeleteSource, SetSourceEnabled, SourceCleanup, SaveInterests
  <2> HIDE DEF s, r
  <2> QED
    BY <1>1, <1>2, <2>1
<1> QED
  BY <1>1, <1>3, <1>4, <1>5

LEMMA CatalogueStep == CatalogueInv /\ [CatalogueNext]_catalogueVars => CatalogueInv'
<1> SUFFICES ASSUME CatalogueInv, [CatalogueNext]_catalogueVars PROVE CatalogueInv'
  OBVIOUS
<1>1. ASSUME NEW t \in Tabs, NEW r \in Readers, NEW d \in Deeds, NEW s \in Sources, Read(t, r, d, s)
      PROVE  CatalogueInv'
  BY <1>1, AdmittedOwn DEF Read, CatalogueInv, CatalogueTypeOK, OwnRequest
<1>2. ASSUME NEW t \in Tabs,
             \/ CreateSource(t) \/ ImportOpml(t) \/ DeleteSource(t) \/ SetSourceEnabled(t)
             \/ SourceCleanup(t) \/ SetSourcePriority(t) \/ SaveInterests(t)
      PROVE  CatalogueInv'
  BY <1>2, TabWrites DEF CatalogueInv, CatalogueTypeOK, OwnRequest
<1>3. CASE UNCHANGED catalogueVars
  BY <1>3 DEF catalogueVars, CatalogueInv, CatalogueTypeOK, OwnRequest
<1> QED
  BY <1>1, <1>2, <1>3 DEF CatalogueNext

LEMMA CatalogueAlways == CatalogueSpec => []CatalogueInv
BY CatalogueInitInv, CatalogueStep, PTL DEF CatalogueSpec

\* What a reader is shown depends on his own rows, subscriptions and priorities.
LEMMA ListingDepends ==
  ASSUME NEW r \in Readers, preference'[r] = preference[r], attention'[r] = attention[r],
         \A q \in Privates : OwnedBy(r, q) => row'[q] = row[q]
  PROVE  Listing(r)' = Listing(r)
<1>1. ASSUME NEW s \in Sources
      PROVE  Seen(r, s)' = Seen(r, s)
  BY DEF Seen, Visible, Deleted, Exists, OwnedBy
<1>2. ASSUME NEW s \in Sources, Seen(r, s)
      PROVE  Subscribed(r, s)' = Subscribed(r, s)
  BY <1>2 DEF Seen, Visible, Subscribed
<1> QED
  BY <1>1, <1>2 DEF Listing

\* Nobody's requests, in whatever order their statements come, change what
\* another reader is shown of the sources.
THEOREM ListingIsOnesOwn == CatalogueSpec => ListingIsOwn
<1> DEFINE ByHimself ==
      \A r \in Readers : Listing(r)' # Listing(r) => \E t \in Tabs : tab[t].by = r /\ tab'[t] = Free
<1>1. CatalogueInv /\ [CatalogueNext]_catalogueVars => [ByHimself]_catalogueVars
  <2> SUFFICES ASSUME CatalogueInv, CatalogueNext, NEW r \in Readers, Listing(r)' # Listing(r)
               PROVE  \E t \in Tabs : tab[t].by = r /\ tab'[t] = Free
    OBVIOUS
  <2>1. ASSUME NEW t \in Tabs, NEW q \in Readers, NEW d \in Deeds, NEW s \in Sources, Read(t, q, d, s)
        PROVE  FALSE
    BY <2>1, ListingDepends DEF Read
  <2>2. PICK t \in Tabs : \/ CreateSource(t) \/ ImportOpml(t) \/ DeleteSource(t) \/ SetSourceEnabled(t)
                          \/ SourceCleanup(t) \/ SetSourcePriority(t) \/ SaveInterests(t)
    BY <2>1 DEF CatalogueNext
  <2>3. tab'[t] = Free /\ OwnRequest(t)
    BY <2>2, TabWrites DEF CatalogueInv, CatalogueTypeOK
  <2>4. CASE tab[t].by # r
    <3>1. preference'[r] = preference[r] /\ attention'[r] = attention[r]
      BY <2>2, <2>4, TabWrites
    <3>2. ASSUME NEW q \in Privates, OwnedBy(r, q) PROVE row'[q] = row[q]
      <4>1. q # tab[t].source
        BY <2>2, <2>3, <2>4, <3>2, TabWrites DEF OwnRequest, OwnedBy
      <4> QED
        BY <2>2, <4>1, TabWrites
    <3> QED
      BY <3>1, <3>2, ListingDepends
  <2> QED
    BY <2>3, <2>4
<1> QED
  BY <1>1, CatalogueAlways, PTL DEF CatalogueSpec, ListingIsOwn

\* What is fetched for a private source is fetched for its owner, who sees it
\* as subscribed.
THEOREM OnlyListedAreFetched == CatalogueSpec => []FetchedIsListed
<1>1. FetchedIsListed
  <2> SUFFICES ASSUME NEW s \in Fetched \cap Privates
               PROVE  <<s, TRUE, s \in attention[s[1]]>> \in Listing(s[1])
    BY DEF FetchedIsListed
  <2>1. s \notin Globals /\ row[s].state = "enabled" /\ ~row[s].deleted /\ s \in Sources
    BY CatalogueAssumption DEF Fetched, Sources
  <2>2. Seen(s[1], s) /\ Subscribed(s[1], s) = TRUE
    BY <2>1 DEF Seen, Visible, Deleted, Exists, OwnedBy, Subscribed
  <2> QED
    BY <2>1, <2>2 DEF Listing
<1> QED
  BY <1>1, PTL

(***************************************************************************)
(* The control of the scheduler: any intervals and requests at a time.     *)
(***************************************************************************)

\* While nothing is in doubt: at most one request is under way, the process says
\* the interval that is set, or is asked for by a request that has not saved it,
\* and the job has it, or will have it once the request is applied.
Underway(a) == admin[a] # NoRequest
RequestShape(a) ==
  /\ admin[a].deed = "none" <=> admin[a].next = "none"
  /\ admin[a].deed = "interval" => admin[a].to \in Intervals
  /\ admin[a].deed # "interval" => admin[a].to = 0
  /\ Underway(a) => process.up
OneUnderway == \A a, b \in Admins : Underway(a) /\ Underway(b) => a = b
SettingFollows ==
  \/ process.interval = StartInterval
  \/ \E a \in Admins : admin[a].deed = "interval" /\ admin[a].next = "save"
ProcessFollows == \A a \in Admins : admin[a].deed = "interval" => process.interval = admin[a].to
JobFollows ==
  process.owns => \/ job.interval = process.interval
                  \/ \E a \in Admins : admin[a].deed = "interval"
ControlInv ==
  /\ ControlTypeOK
  /\ \A a \in Admins : RequestShape(a)
  /\ process.up /\ ~doubt => OneUnderway /\ SettingFollows /\ ProcessFollows /\ JobFollows

LEMMA ControlInitInv == ControlInit => ControlInv
<1> SUFFICES ASSUME ControlInit PROVE ControlInv
  OBVIOUS
<1>1. ControlTypeOK
  BY ControlAssumption DEF ControlInit, ControlTypeOK, NoJob, NoRequest
<1>2. ~process.up /\ \A a \in Admins : admin[a] = NoRequest
  BY DEF ControlInit
<1> QED
  BY <1>1, <1>2 DEF ControlInv, RequestShape, Underway, NoRequest

LEMMA ControlStep == ControlInv /\ [ControlNext]_controlVars => ControlInv'
<1> SUFFICES ASSUME ControlInv, [ControlNext]_controlVars PROVE ControlInv'
  OBVIOUS
<1> USE ControlAssumption DEF ControlInv, ControlTypeOK, NoRequest, Underway, RequestShape, OneUnderway,
          SettingFollows, ProcessFollows, JobFollows
<1>1. CASE StartScheduler
  BY <1>1 DEF StartScheduler, StartInterval, NoJob
<1>2. CASE StopScheduler
  BY <1>2 DEF StopScheduler, NoJob
<1>3. ASSUME NEW a \in Admins, AskInterval(a) PROVE ControlInv'
  BY <1>3 DEF AskInterval, Begin, StartInterval
<1>4. ASSUME NEW a \in Admins, AskPause(a) PROVE ControlInv'
  BY <1>4 DEF AskPause, Begin, StartInterval
<1>5. ASSUME NEW a \in Admins, SaveSetting(a) PROVE ControlInv'
  <2>0. admin[a].deed \in {"interval", "pause", "resume"} /\ admin[a] # NoRequest /\ process.up
    BY <1>5 DEF SaveSetting
  <2>1. CASE admin' = [admin EXCEPT ![a] = NoRequest] /\ doubt' = TRUE /\ UNCHANGED setting
    BY <1>5, <2>0, <2>1 DEF SaveSetting
  <2>2. CASE admin' = [admin EXCEPT ![a].next = "apply"] /\ UNCHANGED doubt /\ admin[a].deed = "interval"
    BY <1>5, <2>0, <2>2 DEF SaveSetting, StartInterval
  <2>3. CASE admin' = [admin EXCEPT ![a].next = "apply"] /\ UNCHANGED doubt /\ admin[a].deed # "interval"
    <3>0. /\ \E p \in BOOLEAN : setting' = [setting EXCEPT !.paused = p]
          /\ UNCHANGED <<job, process, doubt>>
      <4>1. admin[a].deed \in {"pause", "resume"} /\ admin'[a] # NoRequest
        BY <2>0, <2>3
      <4>2. UNCHANGED <<job, process, doubt>>
        BY <1>5, <2>3 DEF SaveSetting
      <4>3. \/ setting' = [setting EXCEPT !.paused = TRUE]
            \/ setting' = [setting EXCEPT !.paused = FALSE]
        BY <1>5, <2>3, <4>1 DEF SaveSetting
      <4> QED
        BY <4>2, <4>3
    <3>1. ControlTypeOK' /\ setting'.interval = setting.interval
      BY <2>0, <2>3, <3>0
    <3>2. admin'[a] = [admin[a] EXCEPT !.next = "apply"] /\ \A b \in Admins \ {a} : admin'[b] = admin[b]
      BY <2>3
    <3>3. /\ admin'[a].deed = admin[a].deed /\ admin'[a].to = admin[a].to /\ admin'[a].next = "apply"
          /\ Underway(a)'
      BY <2>0, <3>2
    <3>4. StartInterval' = StartInterval /\ UNCHANGED <<job, process, doubt>>
      BY <3>0, <3>1 DEF StartInterval
    <3>5. \A b \in Admins : Underway(b)' <=> Underway(b)
      BY <2>0, <3>2, <3>3
    <3>6. \A b \in Admins :
            /\ admin'[b].deed = admin[b].deed /\ admin'[b].to = admin[b].to
            /\ admin[b].deed = "interval" => admin'[b].next = admin[b].next
      BY <2>3, <3>2, <3>3
    <3>7. \A b \in Admins : admin'[b].deed = "none" <=> admin'[b].next = "none"
      BY <2>0, <3>2, <3>3
    <3>8. ASSUME NEW b \in Admins PROVE RequestShape(b)'
      BY <2>0, <3>4, <3>6, <3>7
    <3>9. OneUnderway /\ ~doubt' => OneUnderway'
      BY <3>5
    <3>10. SettingFollows => SettingFollows'
      <4> HIDE DEF StartInterval
      <4> QED
        BY <3>4, <3>6
    <3>11. ProcessFollows => ProcessFollows'
      BY <3>4, <3>6
    <3>12. JobFollows => JobFollows'
      BY <3>4, <3>6
    <3> HIDE DEF OneUnderway, SettingFollows, ProcessFollows, JobFollows, RequestShape
    <3> QED
      BY <3>1, <3>4, <3>8, <3>9, <3>10, <3>11, <3>12
  <2> QED
    BY <1>5, <2>1, <2>2, <2>3 DEF SaveSetting
<1>6. ASSUME NEW a \in Admins, ApplyToJob(a) PROVE ControlInv'
  <2>0. /\ admin[a].deed \in {"interval", "pause", "resume"} /\ admin[a] # NoRequest /\ process.up
        /\ admin[a].next = "apply"
        /\ admin' = [admin EXCEPT ![a] = NoRequest] /\ UNCHANGED <<setting, process>>
    BY <1>6 DEF ApplyToJob
  <2>1. ControlTypeOK' /\ StartInterval' = StartInterval
    <3>1. /\ \/ job' = Rescheduled(admin[a].to) /\ admin[a].deed = "interval"
             \/ \E p \in BOOLEAN : job' = [job EXCEPT !.paused = p]
             \/ job' = job
          /\ doubt' \in BOOLEAN
      BY <1>6, <2>0 DEF ApplyToJob
    <3>2. job' \in [interval: Intervals \cup {0}, paused: BOOLEAN]
      <4>1. Rescheduled(admin[a].to) \in [interval: Intervals \cup {0}, paused: BOOLEAN]
        BY <2>0 DEF Rescheduled
      <4> QED
        BY <3>1, <4>1
    <3> QED
      BY <2>0, <3>1, <3>2 DEF StartInterval
  <2>2. CASE doubt' = TRUE
    BY <2>0, <2>1, <2>2
  <2>3. CASE process.owns /\ UNCHANGED doubt /\ admin[a].deed = "interval" /\ job' = Rescheduled(admin[a].to)
    BY <2>0, <2>1, <2>3 DEF Rescheduled
  <2>4. CASE UNCHANGED doubt /\ (process.owns => admin[a].deed # "interval" /\ job'.interval = job.interval)
    BY <2>0, <2>1, <2>4
  <2>5. CASE process.owns /\ UNCHANGED doubt /\ admin[a].deed # "interval"
    <3>1. job' \in {[job EXCEPT !.paused = TRUE], [job EXCEPT !.paused = FALSE], job}
      BY <1>6, <2>0, <2>5 DEF ApplyToJob
    <3> QED
      BY <2>4, <2>5, <3>1
  <2>6. \/ doubt' = TRUE
        \/ ~process.owns /\ UNCHANGED doubt
        \/ process.owns /\ UNCHANGED doubt /\ (admin[a].deed = "interval" => job' = Rescheduled(admin[a].to))
    BY <1>6 DEF ApplyToJob
  <2> QED
    BY <2>2, <2>3, <2>4, <2>5, <2>6
<1>7. CASE UNCHANGED controlVars
  BY <1>7 DEF controlVars, StartInterval
<1> QED
  BY <1>1, <1>2, <1>3, <1>4, <1>5, <1>6, <1>7 DEF ControlNext

LEMMA ControlAlways == ControlSpec => []ControlInv
BY ControlInitInv, ControlStep, PTL DEF ControlSpec

\* However requests, failures and restarts fall: once nothing is in doubt and no
\* request is under way, the interval that is told is the one of the job and the
\* one that the next process takes.
THEOREM IntervalTold == ControlSpec => []IntervalInEffect
<1>1. ControlInv => IntervalInEffect
  BY DEF ControlInv, SettingFollows, JobFollows, IntervalInEffect, Quiet, NoRequest
<1> QED
  BY <1>1, ControlAlways, PTL

(***************************************************************************)
(* The log of a run as administrators follow it: any number of followers.  *)
(***************************************************************************)

-----------------------------------------------------------------------------
(* The inductive invariant                                                 *)

\* The sequence of one event.
One(e) == <<e>>

\* What the thread of the run is about to put into a follower's queue.
Coming(f) == IF f \in announcer.targets THEN One(announcer.event) ELSE <<>>

\* All that a follower has been told since it began, with what it is about to be
\* told: a cleared screen, the lines on it, and the events of its queue.
Told(f) == ((One(Reset) \o screen[f]) \o queue[f]) \o Coming(f)

EndsWith(s, t) == \E p \in Seq(Events) : s = p \o t

\* Since the last time it was cleared, a follower has been told the log.
StreamInv ==
  /\ StreamTypeOK
  /\ announcer.next \in {"append", "complete"} => hub.active
  /\ \A f \in Followers \ following : queue[f] = <<>> /\ f \notin announcer.targets
  /\ \A f \in following : EndsWith(Told(f), One(Reset) \o Replay)

-----------------------------------------------------------------------------
(* Sequences of events                                                     *)

LEMMA EventsAre ==
  /\ Reset \in Events /\ Lines \subseteq Events /\ Reset \notin Lines
  /\ Seq(Lines) \subseteq Seq(Events)
  /\ \A e \in Events : One(e) \in Seq(Events) /\ Len(One(e)) = 1 /\ One(e)[1] = e
<1>1. Reset \in Events /\ Lines \subseteq Events /\ Reset \notin Lines
  BY StreamAssumption DEF Events, Lines, Reset
<1>2. Seq(Lines) \subseteq Seq(Events)
  BY <1>1, SeqMonotonic
<1> QED
  BY <1>1, <1>2 DEF One

LEMMA EventsJoin ==
  ASSUME NEW s \in Seq(Events), NEW t \in Seq(Events)
  PROVE  /\ s \o t \in Seq(Events) /\ Len(s \o t) = Len(s) + Len(t)
         /\ \A i \in 1 .. Len(s) + Len(t) : (s \o t)[i] = IF i <= Len(s) THEN s[i] ELSE t[i - Len(s)]
BY ConcatProperties

LEMMA EventsAssoc ==
  ASSUME NEW s \in Seq(Events), NEW t \in Seq(Events), NEW u \in Seq(Events)
  PROVE  (s \o t) \o u = s \o (t \o u)
BY ConcatAssociative

LEMMA EventsEmpty ==
  ASSUME NEW s \in Seq(Events)
  PROVE  s \o <<>> = s /\ <<>> \o s = s
BY ConcatEmptySeq

LEMMA HeadThenTail ==
  ASSUME NEW s \in Seq(Events), s # <<>>
  PROVE  s = One(Head(s)) \o Tail(s)
<1> DEFINE h == Head(s)
           q == Tail(s)
<1>1. /\ h \in Events /\ q \in Seq(Events) /\ Len(q) = Len(s) - 1 /\ h = s[1]
      /\ \A i \in 1 .. Len(q) : q[i] = s[i + 1]
      /\ Len(s) \in Nat /\ Len(q) \in Nat
  BY HeadTailProperties, LenProperties
<1> HIDE DEF h, q
<1>2. One(h) \in Seq(Events) /\ Len(One(h)) = 1 /\ One(h)[1] = h
  BY <1>1, EventsAre, Zenon
<1>3. /\ One(h) \o q \in Seq(Events) /\ Len(One(h) \o q) = 1 + Len(q)
      /\ \A i \in 1 .. 1 + Len(q) : (One(h) \o q)[i] = IF i <= 1 THEN One(h)[i] ELSE q[i - 1]
  <2>1. /\ One(h) \o q \in Seq(Events) /\ Len(One(h) \o q) = Len(One(h)) + Len(q)
        /\ \A i \in 1 .. Len(One(h)) + Len(q) :
             (One(h) \o q)[i] = IF i <= Len(One(h)) THEN One(h)[i] ELSE q[i - Len(One(h))]
    BY <1>1, <1>2, EventsJoin, Zenon
  <2> QED
    BY <1>2, <2>1, Zenon
<1> DEFINE t == One(h) \o q
<1> HIDE DEF t
<1>4. /\ t \in Seq(Events) /\ Len(t) = 1 + Len(q)
      /\ \A i \in 1 .. 1 + Len(q) : t[i] = IF i <= 1 THEN One(h)[i] ELSE q[i - 1]
  BY <1>3, Zenon DEF t
<1>5. ASSUME NEW i \in 1 .. Len(s) PROVE s[i] = t[i]
  <2>1. CASE i = 1
    BY <1>1, <1>2, <1>4, <2>1
  <2>2. CASE i # 1
    <3>1. i - 1 \in 1 .. Len(q) /\ (i - 1) + 1 = i /\ ~ (i <= 1) /\ i \in 1 .. 1 + Len(q)
      BY <1>1, <2>2
    <3>2. t[i] = q[i - 1]
      BY <1>4, <3>1, Zenon
    <3>3. q[i - 1] = s[(i - 1) + 1]
      BY <1>1, <3>1, Zenon
    <3> QED
      BY <3>1, <3>2, <3>3, Zenon
  <2> QED
    BY <2>1, <2>2
<1>6. Len(s) = Len(t)
  BY <1>1, <1>4
<1>7. s = t
  BY <1>4, <1>5, <1>6, SeqEqual
<1> QED
  BY <1>7, Zenon DEF t, h, q

\* A reset and lines.
LEMMA ResetAndLines ==
  ASSUME NEW s \in Seq(Lines)
  PROVE  LET a == One(Reset) \o s IN
         /\ a \in Seq(Events) /\ Len(a) = Len(s) + 1 /\ a[1] = Reset
         /\ \A i \in 1 .. Len(s) : a[i + 1] = s[i] /\ s[i] \in Lines
<1> DEFINE a == One(Reset) \o s
<1>1. /\ s \in Seq(Events) /\ One(Reset) \in Seq(Events) /\ Len(s) \in Nat
      /\ Len(One(Reset)) = 1 /\ One(Reset)[1] = Reset
      /\ \A i \in 1 .. Len(s) : s[i] \in Lines
  BY EventsAre, LenProperties, ElementOfSeq
<1>2. /\ a \in Seq(Events) /\ Len(a) = Len(One(Reset)) + Len(s)
      /\ \A i \in 1 .. Len(One(Reset)) + Len(s) :
           a[i] = IF i <= Len(One(Reset)) THEN One(Reset)[i] ELSE s[i - Len(One(Reset))]
  <2> HIDE DEF One
  <2> QED
    BY <1>1, EventsJoin, Zenon
<1> HIDE DEF a
<1>3. /\ Len(a) = 1 + Len(s)
      /\ \A i \in 1 .. 1 + Len(s) : a[i] = IF i <= 1 THEN One(Reset)[i] ELSE s[i - 1]
  BY <1>1, <1>2, Zenon
<1>4. a[1] = Reset
  BY <1>1, <1>3
<1>5. ASSUME NEW i \in 1 .. Len(s) PROVE a[i + 1] = s[i]
  <2>1. i + 1 \in 1 .. 1 + Len(s) /\ ~ (i + 1 <= 1) /\ (i + 1) - 1 = i
    BY <1>1
  <2> QED
    BY <1>3, <2>1
<1> QED
  BY <1>1, <1>2, <1>3, <1>4, <1>5 DEF a

\* What is told at the end stays so, with the same after both.
LEMMA EndsWithMore ==
  ASSUME NEW s \in Seq(Events), NEW t \in Seq(Events), NEW u \in Seq(Events), EndsWith(s, t)
  PROVE  EndsWith(s \o u, t \o u)
<1>1. PICK p \in Seq(Events) : s = p \o t
  BY DEF EndsWith
<1>2. s \o u = p \o (t \o u)
  BY <1>1, EventsAssoc
<1> QED
  BY <1>2 DEF EndsWith

\* Two sequences that begin with their last reset and end alike are alike.
LEMMA ResetsMeet ==
  ASSUME NEW s \in Seq(Lines), NEW r \in Seq(Lines), EndsWith(One(Reset) \o s, One(Reset) \o r)
  PROVE  s = r
<1>1. PICK p \in Seq(Events) : One(Reset) \o s = p \o (One(Reset) \o r)
  BY DEF EndsWith
<1> DEFINE a == One(Reset) \o s
           b == One(Reset) \o r
<1>2. /\ a \in Seq(Events) /\ Len(a) = Len(s) + 1 /\ a[1] = Reset
      /\ \A i \in 1 .. Len(s) : a[i + 1] = s[i] /\ s[i] \in Lines
  BY ResetAndLines
<1>3. /\ b \in Seq(Events) /\ Len(b) = Len(r) + 1 /\ b[1] = Reset
      /\ \A i \in 1 .. Len(r) : b[i + 1] = r[i] /\ r[i] \in Lines
  BY ResetAndLines
<1> HIDE DEF a, b
<1>4. /\ Len(a) = Len(p) + Len(b)
      /\ \A i \in 1 .. Len(b) : a[Len(p) + i] = b[i]
  <2>1. /\ Len(p \o b) = Len(p) + Len(b)
        /\ \A i \in 1 .. Len(p) + Len(b) : (p \o b)[i] = IF i <= Len(p) THEN p[i] ELSE b[i - Len(p)]
    BY <1>3, EventsJoin, Zenon
  <2>2. a = p \o b
    BY <1>1 DEF a, b
  <2>3. Len(p) \in Nat /\ Len(b) \in Nat
    BY <1>3, LenProperties
  <2>4. ASSUME NEW i \in 1 .. Len(b) PROVE a[Len(p) + i] = b[i]
    <3>1. Len(p) + i \in 1 .. Len(p) + Len(b) /\ ~ (Len(p) + i <= Len(p)) /\ (Len(p) + i) - Len(p) = i
      BY <2>3
    <3> QED
      BY <2>1, <2>2, <3>1
  <2> QED
    BY <2>1, <2>2, <2>4
<1>5. Len(p) \in Nat /\ Len(s) \in Nat /\ Len(r) \in Nat
  BY LenProperties
<1>6. Len(p) = 0
  <2>1. SUFFICES ASSUME Len(p) > 0 PROVE FALSE
    BY <1>5
  <2>2. Len(p) \in 1 .. Len(s) /\ a[Len(p) + 1] = Reset
    BY <1>2, <1>3, <1>4, <1>5, <2>1
  <2> QED
    BY <1>2, <2>2, EventsAre
<1>7. Len(s) = Len(r)
  BY <1>2, <1>3, <1>4, <1>5, <1>6
<1>8. ASSUME NEW i \in 1 .. Len(s) PROVE s[i] = r[i]
  <2>1. a[i + 1] = s[i] /\ b[i + 1] = r[i] /\ i + 1 \in 1 .. Len(b)
    BY <1>2, <1>3, <1>5, <1>7
  <2>2. a[Len(p) + (i + 1)] = b[i + 1]
    BY <1>4, <2>1
  <2> QED
    BY <1>6, <2>1, <2>2
<1> QED
  BY <1>7, <1>8, SeqEqual

\* A reset that is read takes away what came before it.
LEMMA ResetForgets ==
  ASSUME NEW s \in Seq(Lines), NEW t \in Seq(Events), NEW r \in Seq(Lines),
         EndsWith((One(Reset) \o s) \o (One(Reset) \o t), One(Reset) \o r)
  PROVE  EndsWith(One(Reset) \o t, One(Reset) \o r)
<1> DEFINE a == One(Reset) \o s
           b == One(Reset) \o r
           c == One(Reset) \o t
<1>1. PICK p \in Seq(Events) : a \o c = p \o b
  BY DEF EndsWith
<1>2. a \in Seq(Events) /\ Len(a) = Len(s) + 1
  BY ResetAndLines
<1>3. /\ b \in Seq(Events) /\ Len(b) = Len(r) + 1 /\ b[1] = Reset
      /\ \A i \in 1 .. Len(r) : b[i + 1] = r[i] /\ r[i] \in Lines
  BY ResetAndLines
<1>4. c \in Seq(Events) /\ Len(c) = Len(t) + 1 /\ c[1] = Reset
  <2>1. One(Reset) \in Seq(Events) /\ Len(One(Reset)) = 1 /\ One(Reset)[1] = Reset /\ Len(t) \in Nat
    BY EventsAre, LenProperties
  <2>2. /\ c \in Seq(Events) /\ Len(c) = Len(One(Reset)) + Len(t)
        /\ \A i \in 1 .. Len(One(Reset)) + Len(t) :
             c[i] = IF i <= Len(One(Reset)) THEN One(Reset)[i] ELSE t[i - Len(One(Reset))]
    BY <2>1, EventsJoin, Zenon
  <2> HIDE DEF c
  <2> QED
    BY <2>1, <2>2
<1>5. Len(p) \in Nat /\ Len(s) \in Nat /\ Len(r) \in Nat /\ Len(t) \in Nat
  BY LenProperties
<1> HIDE DEF a, b, c
<1>6. /\ p \o b \in Seq(Events) /\ Len(p \o b) = Len(p) + Len(b)
      /\ \A i \in 1 .. Len(p) + Len(b) : (p \o b)[i] = IF i <= Len(p) THEN p[i] ELSE b[i - Len(p)]
  BY <1>3, EventsJoin
<1>7. /\ a \o c \in Seq(Events) /\ Len(a \o c) = Len(a) + Len(c)
      /\ \A i \in 1 .. Len(a) + Len(c) : (a \o c)[i] = IF i <= Len(a) THEN a[i] ELSE c[i - Len(a)]
  BY <1>2, <1>4, EventsJoin
<1>8. Len(a) + Len(c) = Len(p) + Len(b)
  BY <1>1, <1>6, <1>7
<1>9. Len(a) <= Len(p)
  <2>1. SUFFICES ASSUME Len(a) > Len(p) PROVE FALSE
    BY <1>2, <1>5
  <2> DEFINE i == Len(a) - Len(p)
  <2>2. i \in 1 .. Len(r) /\ Len(a) + 1 \in 1 .. Len(a) + Len(c)
    BY <1>2, <1>3, <1>4, <1>5, <1>8, <2>1
  <2>3. (a \o c)[Len(a) + 1] = Reset
    BY <1>2, <1>4, <1>5, <1>7, <2>2
  <2>4. (p \o b)[Len(a) + 1] = b[i + 1]
    BY <1>2, <1>5, <1>6, <1>8, <2>1, <2>2
  <2> QED
    BY <1>1, <1>3, <2>2, <2>3, <2>4, EventsAre
<1> DEFINE q == SubSeq(p, Len(a) + 1, Len(p))
<1>10. /\ q \in Seq(Events) /\ Len(q) = Len(p) - Len(a)
       /\ \A i \in 1 .. Len(q) : q[i] = p[Len(a) + i]
  BY <1>2, <1>5, <1>9, SubSeqProperties, ElementOfSeq
<1> HIDE DEF q
<1>11. /\ q \o b \in Seq(Events) /\ Len(q \o b) = Len(q) + Len(b)
       /\ \A i \in 1 .. Len(q) + Len(b) : (q \o b)[i] = IF i <= Len(q) THEN q[i] ELSE b[i - Len(q)]
  BY <1>3, <1>10, EventsJoin
<1>12. Len(q \o b) = Len(c)
  BY <1>2, <1>3, <1>4, <1>5, <1>8, <1>10, <1>11
<1>13. ASSUME NEW i \in 1 .. Len(c) PROVE (q \o b)[i] = c[i]
  <2>1. c[i] = (a \o c)[Len(a) + i] /\ Len(a) + i \in 1 .. Len(p) + Len(b)
    BY <1>2, <1>4, <1>5, <1>7, <1>8
  <2>2. CASE i <= Len(q)
    BY <1>1, <1>2, <1>5, <1>6, <1>9, <1>10, <1>11, <1>12, <2>1, <2>2
  <2>3. CASE i > Len(q)
    <3>1. /\ ~ (i <= Len(q)) /\ i \in 1 .. Len(q) + Len(b) /\ ~ (Len(a) + i <= Len(p))
          /\ (Len(a) + i) - Len(p) = i - Len(q)
      BY <1>2, <1>3, <1>5, <1>9, <1>10, <1>11, <1>12, <2>3
    <3>2. (q \o b)[i] = b[i - Len(q)]
      BY <1>11, <3>1, Zenon
    <3>3. (p \o b)[Len(a) + i] = b[(Len(a) + i) - Len(p)]
      BY <1>6, <2>1, <3>1, Zenon
    <3> QED
      BY <1>1, <2>1, <3>1, <3>2, <3>3, Zenon
  <2> QED
    <3>1. i <= Len(q) \/ i > Len(q)
      BY <1>2, <1>4, <1>5, <1>9, <1>10
    <3> QED
      BY <2>2, <2>3, <3>1, Zenon
<1>14. c = q \o b
  BY <1>4, <1>11, <1>12, <1>13, SeqEqual
<1> QED
  BY <1>10, <1>14 DEF EndsWith, b, c

-----------------------------------------------------------------------------
(* The steps                                                               *)

LEMMA StreamInitInv == StreamInit => StreamInv
<1> SUFFICES ASSUME StreamInit PROVE StreamInv
  OBVIOUS
<1>1. <<>> \in Seq(Lines) /\ <<>> \in Seq(Events)
  BY EmptySeq
<1>2. StreamTypeOK
  BY <1>1, StreamAssumption, EventsAre DEF StreamInit, StreamTypeOK, Silent
<1> QED
  BY <1>2 DEF StreamInit, StreamInv, Silent

LEMMA ToldType ==
  ASSUME StreamTypeOK, NEW f \in Followers
  PROVE  /\ One(Reset) \o screen[f] \in Seq(Events) /\ queue[f] \in Seq(Events)
         /\ screen[f] \in Seq(Lines) /\ Coming(f) \in Seq(Events)
         /\ (One(Reset) \o screen[f]) \o queue[f] \in Seq(Events) /\ Told(f) \in Seq(Events)
         /\ Replay \in Seq(Lines) /\ One(Reset) \o Replay \in Seq(Events)
<1>1. /\ screen[f] \in Seq(Lines) /\ queue[f] \in Seq(Events) /\ Replay \in Seq(Lines)
      /\ announcer.event \in Events
  BY DEF StreamTypeOK, Replay
<1>2. Coming(f) \in Seq(Events)
  <2>1. One(announcer.event) \in Seq(Events) /\ <<>> \in Seq(Events)
    BY <1>1, EmptySeq, EventsAre, Zenon
  <2> QED
    BY <2>1, Zenon DEF Coming
<1>3. One(Reset) \in Seq(Events) /\ screen[f] \in Seq(Events) /\ Replay \in Seq(Events)
  BY <1>1, EventsAre
<1> QED
  BY <1>1, <1>2, <1>3, EventsJoin DEF Told

\* A follower nothing happens to.
LEMMA ToldStays ==
  ASSUME StreamInv, NEW f \in Followers, f \in following,
         screen'[f] = screen[f], queue'[f] = queue[f], Coming(f)' = Coming(f), Replay' = Replay
  PROVE  EndsWith(Told(f), One(Reset) \o Replay)'
<1>1. Told(f)' = Told(f)
  BY DEF Told
<1>2. EndsWith(Told(f), One(Reset) \o Replay)
  BY DEF StreamInv
<1> QED
  BY <1>1, <1>2 DEF EndsWith

LEMMA FollowInv ==
  ASSUME StreamInv, NEW f \in Followers, Follow(f)
  PROVE  StreamInv'
<1>1. StreamTypeOK' /\ Replay' = Replay /\ UNCHANGED <<hub, announcer, queue>>
  BY ToldType DEF Follow, Replay, StreamInv, StreamTypeOK
<1>2. ASSUME NEW g \in following', g # f
      PROVE  EndsWith(Told(g), One(Reset) \o Replay)'
  <2>1. g \in Followers /\ g \in following /\ screen'[g] = screen[g] /\ Coming(g)' = Coming(g)
    BY <1>1, <1>2 DEF Follow, StreamInv, StreamTypeOK, Coming
  <2> QED
    BY <1>1, <2>1, ToldStays
<1>3. EndsWith(Told(f), One(Reset) \o Replay)'
  <2>1. screen'[f] = Replay /\ queue'[f] = <<>> /\ Coming(f)' = <<>>
    BY <1>1 DEF Follow, StreamInv, StreamTypeOK, Coming
  <2>2. One(Reset) \o Replay \in Seq(Events) /\ <<>> \in Seq(Events)
    BY ToldType, EmptySeq DEF StreamInv
  <2>3. Told(f)' = One(Reset) \o Replay
    BY <2>1, <2>2, EventsAssoc, EventsEmpty DEF Told
  <2>4. One(Reset) \o Replay = <<>> \o (One(Reset) \o Replay)
    BY <2>2, EventsAssoc, EventsEmpty
  <2> QED
    BY <1>1, <2>2, <2>3, <2>4 DEF EndsWith
<1> QED
  BY <1>1, <1>2, <1>3 DEF Follow, StreamInv

\* To read an event tells a follower nothing it has not been told.
LEMMA TakeInv ==
  ASSUME StreamInv, NEW f \in Followers, Take(f)
  PROVE  StreamInv'
<1> DEFINE h == Head(queue[f])
           q == Tail(queue[f])
<1>1. /\ queue[f] \in Seq(Events) /\ queue[f] # <<>> /\ screen[f] \in Seq(Lines)
      /\ h \in Events /\ q \in Seq(Events) /\ Coming(f) \in Seq(Events)
      /\ Replay \in Seq(Lines) /\ f \in following
  BY ToldType, HeadTailProperties DEF Take, StreamInv
<1>2. queue[f] = One(h) \o q
  BY <1>1, HeadThenTail
<1>3. queue' = [queue EXCEPT ![f] = q] /\ UNCHANGED <<hub, following, announcer, said, begun>>
      /\ screen' = [screen EXCEPT ![f] = IF h = Reset THEN <<>> ELSE Append(screen[f], h)]
  BY DEF Take, StreamInv, StreamTypeOK
<1> HIDE DEF h, q
<1>4. (IF h = Reset THEN <<>> ELSE Append(screen[f], h)) \in Seq(Lines)
  <2>1. h # Reset => h \in Lines
    BY <1>1 DEF Events
  <2> QED
    BY <1>1, <2>1, EmptySeq, AppendProperties
<1>5. StreamTypeOK' /\ Replay' = Replay /\ Coming(f)' = Coming(f)
  BY <1>1, <1>3, <1>4 DEF StreamInv, StreamTypeOK, Replay, Coming
<1>6. ASSUME NEW g \in following, g # f
      PROVE  EndsWith(Told(g), One(Reset) \o Replay)'
  <2>1. g \in Followers /\ screen'[g] = screen[g] /\ queue'[g] = queue[g] /\ Coming(g)' = Coming(g)
    BY <1>3, <1>6 DEF StreamInv, StreamTypeOK, Coming
  <2> QED
    BY <1>5, <2>1, ToldStays
<1>7. EndsWith(Told(f), One(Reset) \o Replay)
  BY <1>1 DEF StreamInv
<1>8. CASE h = Reset
  <2>1. Told(f)' = One(Reset) \o (q \o Coming(f))
    <3>1. Told(f)' = ((One(Reset) \o <<>>) \o q) \o Coming(f)
      BY <1>3, <1>5, <1>8 DEF Told, StreamInv, StreamTypeOK
    <3>2. One(Reset) \in Seq(Events) /\ One(Reset) \o <<>> = One(Reset)
      BY EventsAre, EventsEmpty, Zenon
    <3>3. Told(f)' = (One(Reset) \o q) \o Coming(f)
      BY <3>1, <3>2, Zenon
    <3>4. One(Reset) \in Seq(Events) /\ q \in Seq(Events) /\ Coming(f) \in Seq(Events)
      BY <1>1, <3>2
    <3>5. (One(Reset) \o q) \o Coming(f) = One(Reset) \o (q \o Coming(f))
      BY <3>4, EventsAssoc, Zenon
    <3> QED
      BY <3>3, <3>5, Zenon
  <2>2. Told(f) = (One(Reset) \o screen[f]) \o (One(Reset) \o (q \o Coming(f)))
    <3>1. One(Reset) \in Seq(Events) /\ One(Reset) \o screen[f] \in Seq(Events)
          /\ One(Reset) \o q \in Seq(Events)
      BY <1>1, EventsAre, EventsJoin
    <3>2. Told(f) = ((One(Reset) \o screen[f]) \o (One(Reset) \o q)) \o Coming(f)
      BY <1>2, <1>8, Zenon DEF Told
    <3>3. Told(f) = (One(Reset) \o screen[f]) \o ((One(Reset) \o q) \o Coming(f))
      BY <1>1, <3>1, <3>2, EventsAssoc, ZenonT(40)
    <3>4. (One(Reset) \o q) \o Coming(f) = One(Reset) \o (q \o Coming(f))
      <4>1. One(Reset) \in Seq(Events) /\ q \in Seq(Events) /\ Coming(f) \in Seq(Events)
        BY <1>1, <3>1
      <4> QED
        BY <4>1, EventsAssoc, Zenon
    <3> QED
      BY <3>3, <3>4, Zenon
  <2>3. q \o Coming(f) \in Seq(Events)
    BY <1>1, EventsJoin
  <2>4. EndsWith(One(Reset) \o (q \o Coming(f)), One(Reset) \o Replay)
    BY <1>1, <1>7, <2>2, <2>3, ResetForgets
  <2> QED
    <3>1. EndsWith(Told(f), One(Reset) \o Replay)'
      BY <1>5, <2>1, <2>4 DEF EndsWith
    <3> QED
      BY <1>1, <1>3, <1>5, <1>6, <3>1 DEF StreamInv, StreamTypeOK
<1>9. CASE h # Reset
  <2>1. Told(f)' = Told(f)
    <3>1. Told(f)' = ((One(Reset) \o Append(screen[f], h)) \o q) \o Coming(f)
      BY <1>3, <1>5, <1>9 DEF Told, StreamInv, StreamTypeOK
    <3>2. h \in Lines /\ screen[f] \in Seq(Events) /\ One(Reset) \in Seq(Events) /\ One(h) \in Seq(Events)
      BY <1>1, <1>9, EventsAre DEF Events
    <3>3. (One(Reset) \o Append(screen[f], h)) \o q = (One(Reset) \o screen[f]) \o (One(h) \o q)
      <4>1. Append(screen[f], h) = screen[f] \o One(h)
        BY <1>1, <3>2, AppendIsConcat DEF One
      <4>2. One(Reset) \o (screen[f] \o One(h)) = (One(Reset) \o screen[f]) \o One(h)
        BY <3>2, EventsAssoc, EventsEmpty, Zenon
      <4>3. One(Reset) \o screen[f] \in Seq(Events)
        BY <3>2, EventsJoin
      <4>4. ((One(Reset) \o screen[f]) \o One(h)) \o q = (One(Reset) \o screen[f]) \o (One(h) \o q)
        BY <1>1, <3>2, <4>3, EventsAssoc, ZenonT(40)
      <4> QED
        BY <4>1, <4>2, <4>4, Zenon
    <3> QED
      BY <1>2, <3>1, <3>3 DEF Told
  <2> QED
    <3>1. EndsWith(Told(f), One(Reset) \o Replay)'
      BY <1>5, <1>7, <2>1 DEF EndsWith
    <3> QED
      BY <1>1, <1>3, <1>5, <1>6, <3>1 DEF StreamInv, StreamTypeOK
<1> QED
  BY <1>8, <1>9

LEMMA LeaveInv ==
  ASSUME StreamInv, NEW f \in Followers, Leave(f)
  PROVE  StreamInv'
<1>1. StreamTypeOK' /\ Replay' = Replay
  BY EmptySeq DEF Leave, Replay, StreamInv, StreamTypeOK
<1>2. ASSUME NEW g \in following'
      PROVE  EndsWith(Told(g), One(Reset) \o Replay)'
  <2>1. /\ g \in Followers /\ g \in following
        /\ screen'[g] = screen[g] /\ queue'[g] = queue[g] /\ Coming(g)' = Coming(g)
    BY <1>2 DEF Leave, StreamInv, StreamTypeOK, Coming
  <2> QED
    BY <1>1, <2>1, ToldStays
<1>3. \A g \in Followers \ following' : queue'[g] = <<>> /\ g \notin announcer'.targets
  BY DEF Leave, StreamInv, StreamTypeOK
<1> QED
  BY <1>1, <1>2, <1>3 DEF Leave, StreamInv, StreamTypeOK

\* What was coming is in the queue.
LEMMA PutInv ==
  ASSUME StreamInv, NEW f \in Followers, Put(f)
  PROVE  StreamInv'
<1>0. f \in following /\ announcer.event \in Events /\ f \in announcer.targets
  BY DEF Put, StreamInv, StreamTypeOK
<1>1. StreamTypeOK' /\ Replay' = Replay
  BY <1>0, AppendProperties DEF Put, Replay, StreamInv, StreamTypeOK
<1>2. ASSUME NEW g \in following, g # f
      PROVE  EndsWith(Told(g), One(Reset) \o Replay)'
  <2>1. /\ g \in Followers
        /\ screen'[g] = screen[g] /\ queue'[g] = queue[g] /\ Coming(g)' = Coming(g)
    BY <1>2 DEF Put, StreamInv, StreamTypeOK, Coming
  <2> QED
    BY <1>1, <2>1, ToldStays
<1>3. Told(f)' = Told(f)
  <2>1. /\ screen'[f] = screen[f] /\ queue'[f] = Append(queue[f], announcer.event)
        /\ Coming(f)' = <<>> /\ Coming(f) = One(announcer.event)
    BY <1>0 DEF Put, StreamInv, StreamTypeOK, Coming
  <2>2. /\ One(Reset) \o screen[f] \in Seq(Events) /\ queue[f] \in Seq(Events)
        /\ One(announcer.event) \in Seq(Events)
        /\ (One(Reset) \o screen[f]) \o queue[f] \in Seq(Events)
    <3>1. StreamTypeOK
      BY DEF StreamInv
    <3> QED
      BY <1>0, <3>1, ToldType, EventsAre, Zenon
  <2>3. queue'[f] = queue[f] \o One(announcer.event)
    BY <1>0, <2>1, <2>2, AppendIsConcat DEF One
  <2>4. (One(Reset) \o screen[f]) \o queue'[f] = Told(f)
    <3>1. (One(Reset) \o screen[f]) \o (queue[f] \o One(announcer.event))
          = ((One(Reset) \o screen[f]) \o queue[f]) \o One(announcer.event)
      BY <2>2, EventsAssoc, ZenonT(40)
    <3> QED
      BY <2>1, <2>3, <3>1, Zenon DEF Told
  <2>5. Told(f) \in Seq(Events)
    BY ToldType DEF StreamInv
  <2> QED
    BY <2>1, <2>4, <2>5, EventsAssoc, EventsEmpty DEF Told
<1>4. EndsWith(Told(f), One(Reset) \o Replay)'
  BY <1>0, <1>1, <1>3 DEF StreamInv, EndsWith
<1> QED
  BY <1>0, <1>1, <1>2, <1>4 DEF Put, StreamInv, StreamTypeOK

\* An event that the hub hears of is coming to every follower.
LEMMA EventComing ==
  ASSUME StreamInv, NEW e \in Events, NEW f \in following, announcer.targets = {},
         announcer'.event = e, announcer'.targets = following,
         UNCHANGED <<queue, screen>>
  PROVE  /\ Told(f) \in Seq(Events) /\ One(e) \in Seq(Events) /\ Told(f)' = Told(f) \o One(e)
         /\ EndsWith(Told(f), One(Reset) \o Replay)
<1>1. f \in Followers /\ Coming(f) = <<>> /\ Coming(f)' = One(e)
  BY DEF StreamInv, StreamTypeOK, Coming
<1>2. (One(Reset) \o screen[f]) \o queue[f] \in Seq(Events) /\ Told(f) \in Seq(Events)
  BY <1>1, ToldType DEF StreamInv
<1>3. Told(f) = (One(Reset) \o screen[f]) \o queue[f]
  BY <1>1, <1>2, EventsAssoc, EventsEmpty DEF Told
<1>4. One(e) \in Seq(Events) /\ EndsWith(Told(f), One(Reset) \o Replay)
  BY <1>1, EventsAre, Zenon DEF StreamInv
<1>5. Told(f)' = Told(f) \o One(e)
  <2>1. Told(f)' = ((One(Reset) \o screen[f]) \o queue[f]) \o One(e)
    BY <1>1, Zenon DEF Told
  <2> QED
    BY <1>3, <2>1, Zenon
<1> QED
  BY <1>2, <1>4, <1>5, Zenon

LEMMA BeginLogInv ==
  ASSUME StreamInv, BeginLog
  PROVE  StreamInv'
<1>1. StreamTypeOK' /\ Replay' = <<>> /\ following' = following
  <2>1. hub' = [current |-> <<>>, last |-> hub.last, active |-> TRUE]
    BY DEF BeginLog, StreamInv, StreamTypeOK
  <2>2. hub' \in [current: Seq(Lines), last: Seq(Lines), active: BOOLEAN]
    BY <2>1, EmptySeq DEF StreamInv, StreamTypeOK
  <2>3. announcer' \in [next: {"start", "append", "complete"}, event: Events, targets: SUBSET Followers]
    BY EventsAre DEF BeginLog, StreamInv, StreamTypeOK
  <2>4. begun' \in 0 .. MaxLogs
    BY StreamAssumption DEF BeginLog, StreamInv, StreamTypeOK
  <2> QED
    BY <2>1, <2>2, <2>3, <2>4 DEF BeginLog, StreamInv, StreamTypeOK, Replay
<1>2. ASSUME NEW f \in following
      PROVE  EndsWith(Told(f), One(Reset) \o Replay)'
  <2>1. Told(f)' = Told(f) \o One(Reset) /\ Told(f) \in Seq(Events) /\ One(Reset) \in Seq(Events)
    BY EventsAre, EventComing DEF BeginLog
  <2>2. One(Reset) \o Replay' = One(Reset)
    BY <1>1, <2>1, EventsAssoc, EventsEmpty
  <2> QED
    BY <2>1, <2>2 DEF EndsWith
<1> QED
  BY <1>1, <1>2 DEF BeginLog, StreamInv, StreamTypeOK

LEMMA AppendLineInv ==
  ASSUME StreamInv, AppendLine
  PROVE  StreamInv'
<1>1. said + 1 \in Lines /\ said + 1 \in Events /\ hub.active
  BY StreamAssumption DEF AppendLine, StreamInv, StreamTypeOK, Lines, Events
<1>2. PICK e \in Lines : e = said + 1
  BY <1>1
<1>3. /\ hub' = [hub EXCEPT !.current = Append(hub.current, e)]
      /\ announcer'.event = e /\ announcer'.targets = following /\ announcer'.next \in {"append", "complete"}
      /\ announcer.targets = {} /\ UNCHANGED <<following, queue, screen, begun>>
  BY <1>2 DEF AppendLine, StreamInv, StreamTypeOK
<1>4. /\ Replay = hub.current /\ Replay' = hub.current \o One(e) /\ Replay \in Seq(Lines)
      /\ hub'.current \in Seq(Lines)
  <2>0. hub.current \in Seq(Lines)
    BY DEF StreamInv, StreamTypeOK
  <2>1. Append(hub.current, e) = hub.current \o One(e) /\ Append(hub.current, e) \in Seq(Lines)
    BY <2>0, AppendIsConcat, AppendProperties, Zenon DEF One
  <2> QED
    BY <1>1, <1>3, <2>1 DEF Replay, StreamInv, StreamTypeOK
<1>5. StreamTypeOK'
  <2>1. hub' \in [current: Seq(Lines), last: Seq(Lines), active: BOOLEAN]
    BY <1>3, <1>4 DEF StreamInv, StreamTypeOK
  <2>2. announcer' \in [next: {"start", "append", "complete"}, event: Events, targets: SUBSET Followers]
    BY <1>1 DEF AppendLine, StreamInv, StreamTypeOK
  <2>3. said' \in 0 .. MaxLines
    BY StreamAssumption DEF AppendLine, StreamInv, StreamTypeOK
  <2> QED
    BY <1>3, <2>1, <2>2, <2>3 DEF StreamInv, StreamTypeOK
<1>6. ASSUME NEW f \in following
      PROVE  EndsWith(Told(f), One(Reset) \o Replay)'
  <2>1. /\ Told(f)' = Told(f) \o One(e) /\ Told(f) \in Seq(Events) /\ One(e) \in Seq(Events)
        /\ EndsWith(Told(f), One(Reset) \o Replay)
    BY <1>3, EventsAre, EventComing
  <2>2. /\ One(Reset) \in Seq(Events) /\ Replay \in Seq(Events)
        /\ One(Reset) \o Replay \in Seq(Events)
    BY <1>4, EventsAre, EventsJoin
  <2>3. One(Reset) \o Replay' = (One(Reset) \o Replay) \o One(e)
    BY ZenonT(60), <1>4, <2>1, <2>2, EventsAssoc, EventsEmpty
  <2>4. EndsWith(Told(f) \o One(e), (One(Reset) \o Replay) \o One(e))
    BY <2>1, <2>2, EndsWithMore
  <2> QED
    BY <2>1, <2>3, <2>4 DEF EndsWith
<1> QED
  BY <1>1, <1>3, <1>5, <1>6 DEF StreamInv, StreamTypeOK

\* The end of a run changes nothing for whoever follows, and neither does a run
\* whose end the hub never hears of.
LEMMA LogEndsInv ==
  ASSUME StreamInv, CompleteLog \/ AbandonLog
  PROVE  StreamInv'
<1>1. StreamTypeOK' /\ Replay' = Replay /\ UNCHANGED <<following, queue, screen>>
  <2>1. announcer' \in [next: {"start", "append", "complete"}, event: Events, targets: SUBSET Followers]
    BY EventsAre DEF CompleteLog, AbandonLog, Silent
  <2>2. CASE CompleteLog
    <3>1. hub' \in [current: Seq(Lines), last: Seq(Lines), active: BOOLEAN] /\ Replay' = hub.current
      BY <2>2, EmptySeq DEF CompleteLog, StreamInv, StreamTypeOK, Replay
    <3>2. Replay = hub.current
      BY <2>2 DEF CompleteLog, StreamInv, StreamTypeOK, Replay
    <3> QED
      BY <2>1, <2>2, <3>1, <3>2 DEF CompleteLog, StreamInv, StreamTypeOK
  <2>3. CASE AbandonLog
    BY <2>1, <2>3 DEF AbandonLog, StreamInv, StreamTypeOK, Replay
  <2> QED
    BY <2>2, <2>3
<1>2. announcer.targets = {} /\ announcer' = Silent
  BY DEF CompleteLog, AbandonLog
<1>3. ASSUME NEW f \in following
      PROVE  EndsWith(Told(f), One(Reset) \o Replay)'
  <2>1. f \in Followers /\ Coming(f)' = Coming(f)
    BY <1>2 DEF Coming, Silent, StreamInv, StreamTypeOK
  <2> QED
    BY <1>1, <2>1, ToldStays
<1> QED
  BY <1>1, <1>2, <1>3 DEF StreamInv, Silent

LEMMA StreamAlways == StreamSpec => []StreamInv
<1>1. StreamInv /\ [StreamNext]_streamVars => StreamInv'
  <2> SUFFICES ASSUME StreamInv, [StreamNext]_streamVars PROVE StreamInv'
    OBVIOUS
  <2>1. CASE UNCHANGED streamVars
    BY <2>1 DEF streamVars, StreamInv, StreamTypeOK, Told, Coming, Replay, EndsWith
  <2> QED
    BY <2>1, FollowInv, TakeInv, LeaveInv, PutInv, BeginLogInv, AppendLineInv, LogEndsInv DEF StreamNext
<1> QED
  BY StreamInitInv, <1>1, PTL DEF StreamSpec

\* Whoever begins to follow in the middle, and however late he reads: with his
\* queue read to its end, he sees the log of the run, each line once, in order.
THEOREM FollowersSeeTheLog == StreamSpec => []ScreenShowsLog
<1>1. StreamInv => ScreenShowsLog
  <2> SUFFICES ASSUME StreamInv, NEW f \in following \ announcer.targets, queue[f] = <<>>
               PROVE  screen[f] = Replay
    BY DEF ScreenShowsLog
  <2>1. f \in Followers /\ Coming(f) = <<>>
    BY DEF StreamInv, StreamTypeOK, Coming
  <2>2. screen[f] \in Seq(Lines) /\ Replay \in Seq(Lines) /\ One(Reset) \o screen[f] \in Seq(Events)
    BY <2>1, ToldType DEF StreamInv
  <2>3. Told(f) = One(Reset) \o screen[f]
    BY <2>1, <2>2, EventsAssoc, EventsEmpty DEF Told
  <2> QED
    BY <2>2, <2>3, ResetsMeet DEF StreamInv
<1> QED
  BY <1>1, StreamAlways, PTL

(***************************************************************************)
(* The records of ingestion: any sources, processes and runs.              *)
(***************************************************************************)

-----------------------------------------------------------------------------
(* The inductive invariant                                                 *)

\* The outcome that a process has yet to record: rows, and articles.
Pending(w) == IF worker[w].outcome = <<>> THEN 0 ELSE 1
Brought(w) == IF worker[w].outcome = <<>> THEN 0 ELSE Counted(w).new

HasRow(r, o) == \E i \in DOMAIN runs[r].rows : runs[r].rows[i].origin = o

\* What a process has counted is what its rows say, and with the outcome it has
\* yet to record it is what was stored, unless an outcome was lost.
Gathered(w) ==
  /\ ~runs[worker[w].run].finished
  /\ worker[w].new = Cardinality(ArticlesOf(runs[worker[w].run].rows))
  /\ worker[w].errors = Cardinality(FailedOf(runs[worker[w].run].rows))
  /\ Len(runs[worker[w].run].rows) + Pending(w) + Cardinality(worker[w].left) <= Cardinality(Origins)
  /\ worker[w].new + Brought(w) <= landed[worker[w].run]
  /\ landed[worker[w].run] <= MostNew * (Cardinality(Origins) - Cardinality(worker[w].left))
  /\ Len(runs[worker[w].run].rows) + Pending(w) + Cardinality(worker[w].left) = Cardinality(Origins)
       => worker[w].new + Brought(w) = landed[worker[w].run]

\* A source that the run has yet to check has no row in it, and the outcome that
\* is yet to be recorded is the only one of its source.
Ahead(w) ==
  /\ \A o \in worker[w].left : ~HasRow(worker[w].run, o) /\ lastCheck[o].run # worker[w].run
  /\ worker[w].outcome # <<>> =>
       /\ Counted(w).origin \notin worker[w].left
       /\ ~HasRow(worker[w].run, Counted(w).origin)
       /\ lastCheck[Counted(w).origin].run = worker[w].run
            => lastCheck[Counted(w).origin].error = Counted(w).error

Works(w) == IF worker[w].run = 0 THEN worker[w] = Resting
            ELSE worker[w].run <= Len(runs) /\ Gathered(w) /\ Ahead(w)

AddsUp(r) ==
  runs[r].finished =>
    /\ runs[r].new = Cardinality(ArticlesOf(runs[r].rows))
    /\ runs[r].errors = Cardinality(FailedOf(runs[r].rows))
    /\ runs[r].new <= landed[r]
    /\ Len(runs[r].rows) = Cardinality(Origins) => runs[r].new = landed[r]

\* A run has one row of a source.
RowsOnce(r) ==
  \A i, j \in DOMAIN runs[r].rows : runs[r].rows[i].origin = runs[r].rows[j].origin => i = j

\* The row that a run has of a source says what the last check says.
CheckKept(o) ==
  /\ lastCheck[o].run <= Len(runs)
  /\ lastCheck[o].run # 0 =>
       \A i \in DOMAIN runs[lastCheck[o].run].rows :
         runs[lastCheck[o].run].rows[i].origin = o
           => runs[lastCheck[o].run].rows[i].error = lastCheck[o].error

ReportInv ==
  /\ ReportTypeOK
  /\ \A w \in Workers : Works(w)
  /\ \A v, w \in Workers : v # w /\ worker[v].run # 0 => worker[v].run # worker[w].run
  /\ \A r \in 1 .. Len(runs) : AddsUp(r) /\ RowsOnce(r)
  /\ \A o \in Origins : CheckKept(o)

-----------------------------------------------------------------------------
(* Rows                                                                    *)

LEMMA UpTo ==
  ASSUME NEW n \in Nat
  PROVE  IsFiniteSet(1 .. n) /\ Cardinality(1 .. n) = n
<1>1. IsFiniteSet(1 .. n) /\ Cardinality(1 .. n) = IF 1 > n THEN 0 ELSE n - 1 + 1
  <2>1. 1 \in Int /\ n \in Int
    OBVIOUS
  <2> QED
    BY <2>1, FS_Interval, Zenon
<1> QED
  BY <1>1

LEMMA RowsFinite ==
  ASSUME NEW rows \in Seq(SourceRow)
  PROVE  /\ IsFiniteSet(ArticlesOf(rows)) /\ Cardinality(ArticlesOf(rows)) \in Nat
         /\ IsFiniteSet(FailedOf(rows)) /\ Cardinality(FailedOf(rows)) \in Nat
         /\ Cardinality(FailedOf(rows)) <= Len(rows)
<1>1. Len(rows) \in Nat /\ DOMAIN rows = 1 .. Len(rows) /\ \A i \in 1 .. Len(rows) : rows[i] \in SourceRow
  BY LenProperties, ElementOfSeq
<1>2. IsFiniteSet(1 .. Len(rows)) /\ Cardinality(1 .. Len(rows)) = Len(rows)
  BY <1>1, UpTo
<1>3. FailedOf(rows) \in SUBSET (1 .. Len(rows))
  BY <1>1 DEF FailedOf
<1>4. IsFiniteSet((1 .. Len(rows)) \X (1 .. MostNew))
  <2>1. IsFiniteSet(1 .. MostNew)
    BY UpTo, ReportAssumption
  <2> QED
    BY <1>2, <2>1, FS_Product, Zenon
<1>5. ArticlesOf(rows) \in SUBSET ((1 .. Len(rows)) \X (1 .. MostNew))
  BY <1>1, ReportAssumption DEF ArticlesOf, SourceRow
<1> QED
  BY <1>2, <1>3, <1>4, <1>5, FS_Subset, FS_CardinalityType

LEMMA NoRows == Cardinality(ArticlesOf(<<>>)) = 0 /\ Cardinality(FailedOf(<<>>)) = 0
<1>1. ArticlesOf(<<>>) = {} /\ FailedOf(<<>>) = {}
  BY DEF ArticlesOf, FailedOf
<1> QED
  BY <1>1, FS_EmptySet

\* A further row counts what it says.
LEMMA RowCounted ==
  ASSUME NEW rows \in Seq(SourceRow), NEW e \in SourceRow
  PROVE  LET more == Append(rows, e) IN
         /\ more \in Seq(SourceRow) /\ Len(more) = Len(rows) + 1
         /\ \A i \in 1 .. Len(rows) : more[i] = rows[i]
         /\ more[Len(rows) + 1] = e
         /\ Cardinality(ArticlesOf(more)) = Cardinality(ArticlesOf(rows)) + e.new
         /\ Cardinality(FailedOf(more)) =
              IF e.error = "none" THEN Cardinality(FailedOf(rows)) ELSE Cardinality(FailedOf(rows)) + 1
<1> DEFINE more == Append(rows, e)
           n == Len(rows) + 1
<1>1. /\ more \in Seq(SourceRow) /\ Len(more) = n /\ more[n] = e /\ Len(rows) \in Nat
      /\ \A i \in 1 .. Len(rows) : more[i] = rows[i]
      /\ DOMAIN more = 1 .. n /\ DOMAIN rows = 1 .. Len(rows) /\ e.new \in Nat
  BY AppendProperties, LenProperties, ReportAssumption DEF SourceRow
<1> HIDE DEF more
<1> DEFINE its == {n} \X (1 .. e.new)
<1>2. ArticlesOf(more) = ArticlesOf(rows) \cup its
  <2>1. ASSUME NEW p \in ArticlesOf(more) PROVE p \in ArticlesOf(rows) \cup its
    <3>1. PICK i \in 1 .. n : p \in {i} \X (1 .. more[i].new)
      BY <1>1, <2>1 DEF ArticlesOf
    <3>2. CASE i = n
      BY <1>1, <3>1, <3>2
    <3>3. CASE i # n
      <4>1. i \in 1 .. Len(rows) /\ more[i] = rows[i]
        BY <1>1, <3>3
      <4> QED
        BY <1>1, <3>1, <4>1 DEF ArticlesOf
    <3> QED
      BY <3>2, <3>3
  <2>2. its \subseteq ArticlesOf(more)
    BY <1>1 DEF ArticlesOf
  <2>3. ASSUME NEW p \in ArticlesOf(rows) PROVE p \in ArticlesOf(more)
    <3>1. PICK i \in 1 .. Len(rows) : p \in {i} \X (1 .. rows[i].new)
      BY <1>1, <2>3 DEF ArticlesOf
    <3>2. i \in 1 .. n /\ more[i] = rows[i]
      BY <1>1
    <3> QED
      BY <1>1, <3>1, <3>2 DEF ArticlesOf
  <2> QED
    BY <2>1, <2>2, <2>3
<1>3. ArticlesOf(rows) \cap its = {}
  BY <1>1 DEF ArticlesOf
<1>4. IsFiniteSet(its) /\ Cardinality(its) = e.new
  <2>1. IsFiniteSet(1 .. e.new) /\ Cardinality(1 .. e.new) = e.new
    BY <1>1, UpTo
  <2>2. IsFiniteSet({n}) /\ Cardinality({n}) = 1
    BY FS_Singleton
  <2>3. IsFiniteSet(its) /\ Cardinality(its) = Cardinality({n}) * Cardinality(1 .. e.new)
    BY <2>1, <2>2, FS_Product, Zenon
  <2> QED
    BY <1>1, <2>1, <2>2, <2>3
<1>5. Cardinality(ArticlesOf(more)) = Cardinality(ArticlesOf(rows)) + e.new
  <2>1. Cardinality(ArticlesOf(rows) \cup its)
        = Cardinality(ArticlesOf(rows)) + Cardinality(its) - Cardinality(ArticlesOf(rows) \cap its)
    BY <1>4, RowsFinite, FS_Union, Zenon
  <2> QED
    <3>1. /\ Cardinality(ArticlesOf(rows) \cap its) = 0 /\ Cardinality(ArticlesOf(rows)) \in Nat
          /\ Cardinality(its) = e.new
      BY <1>3, <1>4, RowsFinite, FS_EmptySet
    <3>2. Cardinality(ArticlesOf(more)) = Cardinality(ArticlesOf(rows)) + e.new - 0
      BY <1>2, <1>4, <2>1, <3>1, Zenon
    <3> QED
      BY <1>1, <3>1, <3>2
<1>6. FailedOf(more) = IF e.error = "none" THEN FailedOf(rows) ELSE FailedOf(rows) \cup {n}
  BY <1>1 DEF FailedOf
<1>7. n \notin FailedOf(rows)
  BY <1>1 DEF FailedOf
<1>8. Cardinality(FailedOf(rows) \cup {n}) = Cardinality(FailedOf(rows)) + 1
  BY <1>7, RowsFinite, FS_AddElement
<1> QED
  BY <1>1, <1>5, <1>6, <1>8 DEF more

-----------------------------------------------------------------------------
(* The steps                                                               *)

LEMMA ReportTypes ==
  ASSUME ReportInv
  PROVE  /\ ReportTypeOK
         /\ Len(runs) \in Nat /\ DOMAIN runs = 1 .. Len(runs) /\ runs \in Seq(RunRow)
         /\ \A r \in 1 .. Len(runs) :
              /\ runs[r] \in RunRow /\ runs[r].rows \in Seq(SourceRow) /\ Len(runs[r].rows) \in Nat
              /\ DOMAIN runs[r].rows = 1 .. Len(runs[r].rows) /\ landed[r] \in Nat
              /\ landed[r] \in Total
         /\ Cardinality(Origins) \in Nat /\ MostNew \in Nat /\ MaxRuns \in Nat
         /\ MostNew * Cardinality(Origins) \in Nat
<1>1. /\ ReportTypeOK /\ Len(runs) \in Nat /\ DOMAIN runs = 1 .. Len(runs) /\ runs \in Seq(RunRow)
      /\ \A r \in 1 .. Len(runs) : runs[r] \in RunRow
  BY LenProperties, ElementOfSeq DEF ReportInv, ReportTypeOK
<1>2. Cardinality(Origins) \in Nat /\ MostNew \in Nat /\ MaxRuns \in Nat
  BY ReportAssumption, FS_CardinalityType
<1>3. MostNew * Cardinality(Origins) \in Nat
  BY <1>2
<1>4. ASSUME NEW r \in 1 .. Len(runs)
      PROVE  /\ runs[r].rows \in Seq(SourceRow) /\ Len(runs[r].rows) \in Nat
             /\ DOMAIN runs[r].rows = 1 .. Len(runs[r].rows)
             /\ landed[r] \in Nat /\ landed[r] \in Total
  <2>1. runs[r].rows \in Seq(SourceRow)
    BY <1>1 DEF RunRow
  <2>2. landed[r] \in Total
    BY <1>1 DEF ReportTypeOK
  <2> QED
    BY <1>3, <2>1, <2>2, LenProperties DEF Total
<1> QED
  BY <1>1, <1>2, <1>3, <1>4

LEMMA WorkerTypes ==
  ASSUME ReportInv, NEW w \in Workers
  PROVE  /\ worker[w].run \in 0 .. MaxRuns /\ worker[w].left \subseteq Origins
         /\ worker[w].new \in Total /\ worker[w].new \in Nat /\ worker[w].errors \in 0 .. Cardinality(Origins)
         /\ IsFiniteSet(worker[w].left) /\ Cardinality(worker[w].left) \in Nat
         /\ Cardinality(worker[w].left) <= Cardinality(Origins)
         /\ worker[w].outcome # <<>> =>
              /\ Counted(w) \in SourceRow /\ Counted(w).origin \in Origins
              /\ Counted(w).new \in Nat /\ Counted(w).new <= MostNew
         /\ Pending(w) \in {0, 1} /\ Brought(w) \in Nat
         /\ worker[w].run # 0 => worker[w].run \in 1 .. Len(runs) /\ Gathered(w) /\ Ahead(w)
<1>1. /\ worker[w].run \in 0 .. MaxRuns /\ worker[w].left \in SUBSET Origins /\ worker[w].new \in Total
      /\ worker[w].errors \in 0 .. Cardinality(Origins)
      /\ worker[w].outcome \in {<<>>} \cup {<<r>> : r \in SourceRow}
  BY DEF ReportInv, ReportTypeOK
<1>2. worker[w].outcome # <<>> =>
        /\ Counted(w) \in SourceRow /\ Counted(w).origin \in Origins
        /\ Counted(w).new \in Nat /\ Counted(w).new <= MostNew
  BY <1>1, ReportAssumption DEF Counted, SourceRow
<1>3. worker[w].run # 0 => worker[w].run \in 1 .. Len(runs) /\ Gathered(w) /\ Ahead(w)
  BY <1>1, ReportTypes DEF ReportInv, Works
<1>4. IsFiniteSet(worker[w].left) /\ Cardinality(worker[w].left) <= Cardinality(Origins)
      /\ Cardinality(worker[w].left) \in Nat
  BY <1>1, ReportAssumption, FS_Subset, FS_CardinalityType
<1>5. worker[w].new \in Nat
  BY <1>1, ReportTypes DEF Total
<1> QED
  BY <1>1, <1>2, <1>3, <1>4, <1>5 DEF Pending, Brought

\* A step of one process is nothing to the others.
LEMMA OthersWork ==
  ASSUME ReportInv, NEW w \in Workers, NEW v \in Workers, v # w, worker[v].run # 0,
         worker'[v] = worker[v], Len(runs') \in Nat, Len(runs) <= Len(runs'),
         \A r \in 1 .. Len(runs) : r # worker[w].run => runs'[r] = runs[r] /\ landed'[r] = landed[r],
         \A o \in Origins : lastCheck'[o] = lastCheck[o] \/ lastCheck'[o].run = worker[w].run
  PROVE  Works(v)'
<1>1. worker[v].run \in 1 .. Len(runs) /\ Gathered(v) /\ Ahead(v) /\ worker[v].run # worker[w].run
  BY WorkerTypes DEF ReportInv
<1>2. /\ runs'[worker[v].run] = runs[worker[v].run] /\ landed'[worker[v].run] = landed[worker[v].run]
      /\ Len(runs) \in Nat
  BY <1>1, ReportTypes
<1>3. Gathered(v)'
  BY <1>1, <1>2 DEF Gathered, Pending, Brought, Counted
<1>4. ASSUME NEW o \in Origins, lastCheck'[o].run = worker[v].run
      PROVE  lastCheck'[o] = lastCheck[o]
  BY <1>1, <1>4
<1>5. Ahead(v)'
  <2>1. \A o \in worker[v].left : ~HasRow(worker[v].run, o)' /\ lastCheck'[o].run # worker[v].run
    BY <1>1, <1>2, <1>4, WorkerTypes DEF Ahead, HasRow
  <2>2. ASSUME worker[v].outcome # <<>>
        PROVE  /\ Counted(v).origin \notin worker[v].left
               /\ ~HasRow(worker[v].run, Counted(v).origin)'
               /\ lastCheck'[Counted(v).origin].run = worker[v].run
                    => lastCheck'[Counted(v).origin].error = Counted(v).error
    <3> DEFINE c == Counted(v).origin
    <3>1. c \in Origins
      BY <2>2, WorkerTypes
    <3>2. c \notin worker[v].left /\ ~HasRow(worker[v].run, c)
          /\ (lastCheck[c].run = worker[v].run => lastCheck[c].error = Counted(v).error)
      BY <1>1, <2>2, Zenon DEF Ahead
    <3>3. ~HasRow(worker[v].run, c)'
      <4>1. c' = c /\ worker'[v].run = worker[v].run
        BY DEF Counted
      <4> HIDE DEF c
      <4> QED
        BY <1>2, <3>2, <4>1 DEF HasRow
    <3>4. lastCheck'[c].run = worker[v].run => lastCheck'[c].error = Counted(v).error
      BY <1>4, <3>1, <3>2, Zenon
    <3> QED
      BY <3>2, <3>3, <3>4, Zenon
  <2> QED
    BY <2>1, <2>2 DEF Ahead, HasRow, Counted
<1> QED
  BY <1>1, <1>2, <1>3, <1>5 DEF Works

Outcomes == {<<>>} \cup {<<r>> : r \in SourceRow}
WorkerRow == [run: 0 .. MaxRuns, names: [Origins -> Names], left: SUBSET Origins, outcome: Outcomes,
              new: Total, errors: 0 .. Cardinality(Origins), broken: BOOLEAN]

LEMMA RestingTyped == Resting \in WorkerRow
<1>1. 0 \in Total /\ 0 \in 0 .. MaxRuns /\ 0 \in 0 .. Cardinality(Origins)
  <2>1. Cardinality(Origins) \in Nat /\ MostNew \in Nat /\ MaxRuns \in Nat
    BY ReportAssumption, FS_CardinalityType
  <2>2. MostNew * Cardinality(Origins) \in Nat
    BY <2>1
  <2> QED
    BY <2>1, <2>2 DEF Total
<1> QED
  BY <1>1, ReportAssumption DEF Resting, WorkerRow, Outcomes

LEMMA RunChanged ==
  ASSUME ReportInv, NEW r \in 1 .. Len(runs), NEW run \in RunRow, runs' = [runs EXCEPT ![r] = run]
  PROVE  /\ runs' \in Seq(RunRow) /\ Len(runs') = Len(runs) /\ runs'[r] = run
         /\ \A q \in 1 .. Len(runs) : q # r => runs'[q] = runs[q]
<1>1. /\ [runs EXCEPT ![r] = run] \in Seq(RunRow) /\ Len([runs EXCEPT ![r] = run]) = Len(runs)
      /\ \A j \in 1 .. Len(runs) : [runs EXCEPT ![r] = run][j] = IF j = r THEN run ELSE runs[j]
  BY ReportTypes, ExceptSeq
<1> QED
  BY <1>1, Zenon

\* The process rests: of its run nothing else is known than before.
LEMMA WorkerRests ==
  ASSUME ReportInv, NEW w \in Workers, NEW r, r = worker[w].run, r # 0,
         worker' = [worker EXCEPT ![w] = Resting],
         UNCHANGED <<spelled, lastCheck, landed>>, runs' \in Seq(RunRow), Len(runs') = Len(runs),
         \A q \in 1 .. Len(runs) : q # r => runs'[q] = runs[q],
         runs'[r].rows = runs[r].rows,
         AddsUp(r)'
  PROVE  ReportInv'
<1>1. /\ r \in 1 .. Len(runs) /\ worker \in [Workers -> WorkerRow] /\ Len(runs) \in Nat
  BY WorkerTypes, ReportTypes DEF ReportTypeOK, WorkerRow, Outcomes
<1>2. worker' \in [Workers -> WorkerRow]
  BY <1>1, RestingTyped
<1>3. ReportTypeOK'
  BY <1>1, <1>2 DEF ReportInv, ReportTypeOK, WorkerRow, Outcomes
<1>4. ASSUME NEW v \in Workers PROVE Works(v)'
  <2>1. CASE v = w
    BY <1>1, <2>1 DEF Works, Resting
  <2>2. CASE v # w
    <3>1. worker'[v] = worker[v]
      BY <1>1, <2>2
    <3>2. CASE worker[v].run = 0
      BY <3>1, <3>2 DEF ReportInv, Works
    <3>3. CASE worker[v].run # 0
      BY <1>1, <2>2, <3>1, <3>3, OthersWork
    <3> QED
      BY <3>2, <3>3
  <2> QED
    BY <2>1, <2>2
<1>5. \A u, v \in Workers : u # v /\ worker'[u].run # 0 => worker'[u].run # worker'[v].run
  BY <1>1 DEF ReportInv, Resting
<1>6. ASSUME NEW q \in 1 .. Len(runs) PROVE AddsUp(q)' /\ RowsOnce(q)'
  <2>1. AddsUp(q) /\ RowsOnce(q)
    BY DEF ReportInv
  <2>2. RowsOnce(q)'
    <3>1. runs'[q].rows = runs[q].rows
      BY <1>1
    <3> QED
      BY <2>1, <3>1 DEF RowsOnce
  <2>3. CASE q = r
    BY <2>2, <2>3
  <2>4. CASE q # r
    <3>1. runs'[q] = runs[q] /\ landed'[q] = landed[q]
      BY <2>4
    <3> QED
      BY <2>1, <2>2, <3>1 DEF AddsUp
  <2> QED
    BY <2>3, <2>4
<1>7. ASSUME NEW o \in Origins PROVE CheckKept(o)'
  <2>1. lastCheck[o].run # 0 => lastCheck[o].run \in 1 .. Len(runs)
    BY DEF ReportInv, ReportTypeOK, CheckKept
  <2>2. \A q \in 1 .. Len(runs) : runs'[q].rows = runs[q].rows
    BY <1>1
  <2> QED
    BY <2>1, <2>2 DEF ReportInv, CheckKept
<1> QED
  BY <1>3, <1>4, <1>5, <1>6, <1>7 DEF ReportInv

LEMMA LoseReportInv ==
  ASSUME ReportInv, NEW w \in Workers, LoseReport(w)
  PROVE  ReportInv'
<1>1. PICK r \in 1 .. Len(runs) : r = worker[w].run /\ r # 0
  BY WorkerTypes DEF LoseReport
<1>2. AddsUp(r)'
  <2>1. AddsUp(r) /\ UNCHANGED <<runs, landed>>
    BY <1>1 DEF LoseReport, ReportInv
  <2> QED
    BY <2>1 DEF AddsUp
<1> QED
  BY <1>1, <1>2, ReportTypes, WorkerRests DEF LoseReport

LEMMA FinishReportInv ==
  ASSUME ReportInv, NEW w \in Workers, FinishReport(w)
  PROVE  ReportInv'
<1>0. PICK r \in 1 .. Len(runs) : r = worker[w].run /\ r # 0
  BY WorkerTypes DEF FinishReport
<1> DEFINE run == [runs[r] EXCEPT !.finished = TRUE, !.new = worker[w].new, !.errors = worker[w].errors]
<1>1. /\ Gathered(w) /\ runs[r] \in RunRow
      /\ worker[w].new \in Total /\ worker[w].errors \in Nat
  BY <1>0, WorkerTypes, ReportTypes
<1>2. run \in RunRow /\ run.rows = runs[r].rows /\ run.new = worker[w].new /\ run.errors = worker[w].errors
  BY <1>1 DEF RunRow
<1>3. runs' = [runs EXCEPT ![r] = run]
  BY <1>0 DEF FinishReport
<1> HIDE DEF run
<1>4. /\ runs' \in Seq(RunRow) /\ Len(runs') = Len(runs) /\ runs'[r] = run
      /\ \A q \in 1 .. Len(runs) : q # r => runs'[q] = runs[q]
  BY <1>1, <1>2, <1>3, RunChanged
<1>5. AddsUp(r)'
  <2>1. worker[w].outcome = <<>> /\ UNCHANGED landed
    BY DEF FinishReport
  <2>2. Pending(w) = 0 /\ Brought(w) = 0
    BY <2>1 DEF Pending, Brought
  <2>3. /\ worker[w].new <= landed[r]
        /\ Len(runs[r].rows) = Cardinality(Origins) => worker[w].new = landed[r]
    <3>1. /\ Len(runs[r].rows) \in Nat /\ Cardinality(worker[w].left) \in Nat /\ worker[w].new \in Nat
          /\ Cardinality(Origins) \in Nat
      BY <1>1, ReportTypes, WorkerTypes
    <3> QED
      BY <1>0, <1>1, <2>2, <3>1 DEF Gathered
  <2> QED
    <3>1. /\ runs'[r].rows = runs[r].rows /\ runs'[r].new = worker[w].new
          /\ runs'[r].errors = worker[w].errors /\ landed'[r] = landed[r]
      BY <1>2, <1>4, <2>1
    <3>2. /\ worker[w].new = Cardinality(ArticlesOf(runs[r].rows))
          /\ worker[w].errors = Cardinality(FailedOf(runs[r].rows))
      BY <1>0, <1>1 DEF Gathered
    <3> QED
      BY <2>3, <3>1, <3>2 DEF AddsUp
<1> QED
  BY <1>0, <1>1, <1>2, <1>4, <1>5, WorkerRests DEF FinishReport

LEMMA BeginReportInv ==
  ASSUME ReportInv, NEW w \in Workers, BeginReport(w)
  PROVE  ReportInv'
<1>0. PICK n : n = Len(runs) + 1
  OBVIOUS
<1> DEFINE run == [rows |-> <<>>, finished |-> FALSE, new |-> 0, errors |-> 0]
           mine == [Resting EXCEPT !.run = n, !.names = spelled, !.left = Origins]
<1>1. /\ Len(runs) \in Nat /\ n \in 1 .. MaxRuns /\ worker \in [Workers -> WorkerRow]
      /\ worker[w].run = 0
  BY <1>0, ReportTypes DEF BeginReport, ReportTypeOK, WorkerRow, Outcomes
<1>2. 0 \in Total /\ run \in RunRow
  BY ReportTypes, EmptySeq DEF RunRow, Total
<1>3. /\ runs' \in Seq(RunRow) /\ Len(runs') = n /\ runs'[n] = run
      /\ \A q \in 1 .. Len(runs) : runs'[q] = runs[q]
  BY <1>0, <1>2, ReportTypes, AppendProperties DEF BeginReport
<1>4. /\ landed' \in [1 .. n -> Total] /\ landed'[n] = 0
      /\ \A q \in 1 .. Len(runs) : landed'[q] = landed[q]
  <2>1. landed \in Seq(Total) /\ Len(landed) = Len(runs)
    <3>1. landed \in [1 .. Len(runs) -> Total]
      BY ReportTypes DEF ReportTypeOK
    <3>2. landed \in Seq(Total)
      BY <1>1, <3>1, SeqDef
    <3> QED
      BY <1>1, <3>1, <3>2, LenProperties
  <2>2. /\ Append(landed, 0) \in Seq(Total) /\ Len(Append(landed, 0)) = n /\ Append(landed, 0)[n] = 0
        /\ \A q \in 1 .. Len(runs) : Append(landed, 0)[q] = landed[q]
    BY <1>0, <1>2, <2>1, AppendProperties
  <2>3. Append(landed, 0) \in [1 .. n -> Total]
    BY <2>2, LenProperties
  <2> QED
    BY <2>2, <2>3 DEF BeginReport
<1>5. /\ mine \in WorkerRow /\ mine.run = n /\ mine.left = Origins /\ mine.outcome = <<>>
      /\ mine.new = 0 /\ mine.errors = 0
  <2>1. /\ mine.run = n /\ mine.left = Origins /\ mine.outcome = <<>>
        /\ mine.new = 0 /\ mine.errors = 0 /\ mine.broken = FALSE
    BY DEF Resting
  <2>2. 0 \in Total /\ 0 \in 0 .. Cardinality(Origins)
    BY <1>2, ReportTypes
  <2>3. mine \in WorkerRow
    <3>1. ASSUME NEW k \in WorkerRow
          PROVE  [k EXCEPT !.run = n, !.names = spelled, !.left = Origins] \in WorkerRow
      <4>1. n \in 0 .. MaxRuns /\ spelled \in [Origins -> Names]
        BY <1>1, ReportTypes DEF ReportTypeOK
      <4>2. [k EXCEPT !.run = n] \in WorkerRow
        BY <4>1 DEF WorkerRow
      <4>3. ASSUME NEW j \in WorkerRow PROVE [j EXCEPT !.names = spelled] \in WorkerRow
        BY <4>1 DEF WorkerRow
      <4>4. ASSUME NEW j \in WorkerRow PROVE [j EXCEPT !.left = Origins] \in WorkerRow
        BY DEF WorkerRow
      <4> QED
        BY <4>2, <4>3, <4>4
    <3> QED
      BY <3>1, RestingTyped
  <2> QED
    BY <2>1, <2>3
<1>6. worker' = [worker EXCEPT ![w] = mine] /\ UNCHANGED <<spelled, lastCheck>>
  BY <1>0 DEF BeginReport
<1> HIDE DEF mine
<1>7. ReportTypeOK'
  BY <1>1, <1>3, <1>4, <1>5, <1>6 DEF ReportInv, ReportTypeOK, WorkerRow, Outcomes
<1>8. ASSUME NEW v \in Workers PROVE Works(v)'
  <2>1. CASE v = w
    <3>1. worker'[v] = mine
      BY <1>1, <1>6, <2>1
    <3>2. Pending(v)' = 0 /\ Brought(v)' = 0
      BY <1>5, <3>1 DEF Pending, Brought
    <3>3. runs'[n].rows = <<>> /\ ~runs'[n].finished /\ Len(runs'[n].rows) = 0
      BY <1>3
    <3>4. Gathered(v)'
      <4>1. MostNew * (Cardinality(Origins) - Cardinality(Origins)) = 0
        BY ReportTypes
      <4> QED
        <5>1. /\ worker'[v].run = n /\ worker'[v].left = Origins /\ worker'[v].new = 0
              /\ worker'[v].errors = 0 /\ landed'[n] = 0 /\ Cardinality(Origins) \in Nat
          BY <1>4, <1>5, <3>1, ReportTypes
        <5> QED
          BY <3>2, <3>3, <4>1, <5>1, NoRows DEF Gathered
    <3>5. Ahead(v)'
      <4>1. ASSUME NEW o \in Origins PROVE ~HasRow(n, o)' /\ lastCheck'[o].run # n
        <5>1. lastCheck[o].run <= Len(runs) /\ lastCheck[o].run \in 0 .. MaxRuns
          BY DEF ReportInv, CheckKept, ReportTypeOK
        <5>2. ~HasRow(n, o)'
          BY <3>3 DEF HasRow
        <5> QED
          BY <1>0, <1>1, <1>6, <5>1, <5>2
      <4>2. worker'[v].run = n /\ worker'[v].left = Origins /\ worker'[v].outcome = <<>>
        BY <1>5, <3>1
      <4> QED
        BY <4>1, <4>2 DEF Ahead, HasRow
    <3> QED
      BY <1>1, <1>3, <1>5, <3>1, <3>4, <3>5 DEF Works
  <2>2. CASE v # w
    <3>1. worker'[v] = worker[v]
      BY <1>1, <1>6, <2>2
    <3>2. CASE worker[v].run = 0
      BY <3>1, <3>2 DEF ReportInv, Works
    <3>3. CASE worker[v].run # 0
      BY <1>0, <1>1, <1>3, <1>4, <1>6, <2>2, <3>1, <3>3, OthersWork
    <3> QED
      BY <3>2, <3>3
  <2> QED
    BY <2>1, <2>2
<1>9. \A u, v \in Workers : u # v /\ worker'[u].run # 0 => worker'[u].run # worker'[v].run
  <2>1. \A v \in Workers : worker[v].run # n
    BY <1>0, <1>1, WorkerTypes
  <2> QED
    BY <1>1, <1>5, <1>6, <2>1 DEF ReportInv
<1>10. ASSUME NEW q \in 1 .. n PROVE AddsUp(q)' /\ RowsOnce(q)'
  <2>1. CASE q = n
    BY <1>3, <2>1 DEF AddsUp, RowsOnce
  <2>2. CASE q # n
    <3>1. q \in 1 .. Len(runs)
      BY <1>0, <1>1, <2>2
    <3> QED
      BY <1>3, <1>4, <3>1 DEF ReportInv, AddsUp, RowsOnce
  <2> QED
    BY <2>1, <2>2
<1>11. ASSUME NEW o \in Origins PROVE CheckKept(o)'
  <2>1. lastCheck[o].run # 0 => lastCheck[o].run \in 1 .. Len(runs)
    BY DEF ReportInv, ReportTypeOK, CheckKept
  <2> QED
    BY SMTT(30), <1>0, <1>1, <1>3, <1>6, <2>1 DEF ReportInv, CheckKept, ReportTypeOK
<1> QED
  BY <1>3, <1>7, <1>8, <1>9, <1>10, <1>11 DEF ReportInv

\* The process goes on with its run.
LEMMA WorkerGoesOn ==
  ASSUME ReportInv, NEW w \in Workers, NEW r, r = worker[w].run, r # 0,
         NEW k \in WorkerRow, k.run = r, worker' = [worker EXCEPT ![w] = k], UNCHANGED spelled,
         runs' \in Seq(RunRow), Len(runs') = Len(runs),
         \A q \in 1 .. Len(runs) : q # r => runs'[q] = runs[q] /\ landed'[q] = landed[q],
         landed' \in [1 .. Len(runs) -> Total], lastCheck' \in [Origins -> [error: Messages, run: 0 .. MaxRuns]],
         \A o \in Origins : lastCheck'[o] = lastCheck[o] \/ lastCheck'[o].run = r,
         Gathered(w)', Ahead(w)', RowsOnce(r)', \A o \in Origins : CheckKept(o)'
  PROVE  ReportInv'
<1>1. r \in 1 .. Len(runs) /\ worker \in [Workers -> WorkerRow] /\ Len(runs) \in Nat
  BY WorkerTypes, ReportTypes DEF ReportTypeOK, WorkerRow, Outcomes
<1>2. worker' \in [Workers -> WorkerRow] /\ worker'[w] = k
  BY <1>1
<1>3. ReportTypeOK'
  BY <1>1, <1>2 DEF ReportInv, ReportTypeOK, WorkerRow, Outcomes
<1>4. ASSUME NEW v \in Workers PROVE Works(v)'
  <2>1. CASE v = w
    BY <1>1, <1>2, <2>1 DEF Works
  <2>2. CASE v # w
    <3>1. worker'[v] = worker[v]
      BY <1>1, <2>2
    <3>2. CASE worker[v].run = 0
      BY <3>1, <3>2 DEF ReportInv, Works
    <3>3. CASE worker[v].run # 0
      <4>1. Len(runs') \in Nat /\ Len(runs) <= Len(runs')
        BY <1>1
      <4>2. \A q \in 1 .. Len(runs) :
              q # worker[w].run => runs'[q] = runs[q] /\ landed'[q] = landed[q]
        OBVIOUS
      <4>3. \A o \in Origins : lastCheck'[o] = lastCheck[o] \/ lastCheck'[o].run = worker[w].run
        OBVIOUS
      <4> QED
        BY <2>2, <3>1, <3>3, <4>1, <4>2, <4>3, OthersWork
    <3> QED
      BY <3>2, <3>3
  <2> QED
    BY <2>1, <2>2
<1>5. \A u, v \in Workers : u # v /\ worker'[u].run # 0 => worker'[u].run # worker'[v].run
  BY <1>1, <1>2 DEF ReportInv
<1>6. ASSUME NEW q \in 1 .. Len(runs) PROVE AddsUp(q)' /\ RowsOnce(q)'
  <2>1. CASE q = r
    <3>1. ~runs'[r].finished
      BY <1>2 DEF Gathered
    <3> QED
      BY <2>1, <3>1 DEF AddsUp
  <2>2. CASE q # r
    <3>1. AddsUp(q) /\ RowsOnce(q) /\ runs'[q] = runs[q] /\ landed'[q] = landed[q]
      BY <2>2 DEF ReportInv
    <3> QED
      BY <3>1 DEF AddsUp, RowsOnce
  <2> QED
    BY <2>1, <2>2
<1> QED
  BY <1>3, <1>4, <1>5, <1>6 DEF ReportInv

LEMMA ChecksKept ==
  ASSUME ReportInv, UNCHANGED <<runs, lastCheck>>, NEW o \in Origins
  PROVE  CheckKept(o)'
BY DEF ReportInv, CheckKept

LEMMA BreakOffInv ==
  ASSUME ReportInv, NEW w \in Workers, BreakOff(w)
  PROVE  ReportInv'
<1>1. PICK r \in 1 .. Len(runs) : r = worker[w].run /\ r # 0
  BY WorkerTypes DEF BreakOff, Busy
<1>2. worker \in [Workers -> WorkerRow]
  BY ReportTypes DEF ReportTypeOK, WorkerRow, Outcomes
<1>3. PICK k \in WorkerRow : k = [worker[w] EXCEPT !.outcome = <<>>, !.broken = TRUE]
  <2>1. ASSUME NEW j \in WorkerRow PROVE [j EXCEPT !.outcome = <<>>, !.broken = TRUE] \in WorkerRow
    <3>1. <<>> \in Outcomes
      BY DEF Outcomes
    <3> QED
      BY <3>1 DEF WorkerRow
  <2> QED
    BY <1>2, <2>1
<1>4. /\ k.run = r /\ k.left = worker[w].left /\ k.outcome = <<>> /\ k.new = worker[w].new
      /\ k.errors = worker[w].errors /\ worker' = [worker EXCEPT ![w] = k] /\ worker'[w] = k
      /\ UNCHANGED <<spelled, runs, lastCheck, landed>>
  BY <1>1, <1>2, <1>3 DEF BreakOff, WorkerRow
<1>5. Gathered(w) /\ Ahead(w)
  BY <1>1, WorkerTypes
<1>6. Gathered(w)'
  <2>1. /\ Pending(w)' = 0 /\ Brought(w)' = 0
    BY <1>4 DEF Pending, Brought
  <2>2. /\ Len(runs[r].rows) \in Nat /\ Cardinality(k.left) \in Nat /\ Pending(w) \in {0, 1}
        /\ Brought(w) \in Nat /\ landed[r] \in Nat /\ k.new \in Nat /\ Cardinality(Origins) \in Nat
    BY <1>4, ReportTypes, WorkerTypes
  <2>3. /\ ~runs[r].finished
        /\ k.new = Cardinality(ArticlesOf(runs[r].rows)) /\ k.errors = Cardinality(FailedOf(runs[r].rows))
        /\ Len(runs[r].rows) + Pending(w) + Cardinality(k.left) <= Cardinality(Origins)
        /\ k.new + Brought(w) <= landed[r]
        /\ landed[r] <= MostNew * (Cardinality(Origins) - Cardinality(k.left))
        /\ Len(runs[r].rows) + Pending(w) + Cardinality(k.left) = Cardinality(Origins)
             => k.new + Brought(w) = landed[r]
    BY <1>1, <1>4, <1>5 DEF Gathered
  <2>4. Pending(w) = 0 => Brought(w) = 0
    BY DEF Pending, Brought
  <2>5. /\ Len(runs[r].rows) + 0 + Cardinality(k.left) <= Cardinality(Origins)
        /\ k.new + 0 <= landed[r]
        /\ Len(runs[r].rows) + 0 + Cardinality(k.left) = Cardinality(Origins) => k.new + 0 = landed[r]
    BY <2>2, <2>3, <2>4
  <2> QED
    BY <1>4, <2>1, <2>3, <2>5 DEF Gathered
<1>7. Ahead(w)'
  BY <1>1, <1>4, <1>5 DEF Ahead, HasRow
<1>8. RowsOnce(r)' /\ \A o \in Origins : CheckKept(o)'
  BY <1>4, ChecksKept DEF ReportInv, RowsOnce
<1> QED
  BY <1>1, <1>4, <1>6, <1>7, <1>8, WorkerGoesOn, ReportTypes DEF ReportTypeOK

LEMMA CheckedInv ==
  ASSUME ReportInv, NEW w \in Workers, NEW o \in Origins, NEW n \in 0 .. MostNew, NEW e \in Messages,
         Busy(w), o \in worker[w].left, worker[w].outcome = <<>>, Checked(w, o, n, e)
  PROVE  ReportInv'
<1>1. PICK r \in 1 .. Len(runs) : r = worker[w].run /\ r # 0
  BY WorkerTypes DEF Busy
<1>2. /\ worker \in [Workers -> WorkerRow] /\ worker[w] \in WorkerRow
      /\ lastCheck \in [Origins -> [error: Messages, run: 0 .. MaxRuns]]
      /\ landed \in [1 .. Len(runs) -> Total]
  BY ReportTypes DEF ReportTypeOK, WorkerRow, Outcomes
<1>3. PICK row1 \in SourceRow :
        row1 = [origin |-> o, name |-> worker[w].names[o], new |-> n, error |-> e]
  <2>1. worker[w].names[o] \in Names
    BY <1>2 DEF WorkerRow
  <2> QED
    BY <2>1 DEF SourceRow
<1>4. PICK k \in WorkerRow : k = [worker[w] EXCEPT !.left = @ \ {o}, !.outcome = <<row1>>]
  <2>1. ASSUME NEW j \in WorkerRow PROVE [j EXCEPT !.left = @ \ {o}, !.outcome = <<row1>>] \in WorkerRow
    <3>1. <<row1>> \in Outcomes
      BY DEF Outcomes
    <3> QED
      BY <3>1 DEF WorkerRow
  <2> QED
    BY <1>2, <2>1
<1>5. /\ k.run = r /\ k.left = worker[w].left \ {o} /\ k.outcome = <<row1>> /\ k.new = worker[w].new
      /\ k.errors = worker[w].errors
  BY <1>1, <1>2, <1>4 DEF WorkerRow
<1>6. /\ worker' = [worker EXCEPT ![w] = k] /\ worker'[w] = k
      /\ lastCheck' = [lastCheck EXCEPT ![o] = [error |-> e, run |-> r]]
      /\ landed' = [landed EXCEPT ![r] = @ + n] /\ UNCHANGED <<spelled, runs>>
  BY <1>1, <1>2, <1>3, <1>4 DEF Checked, LastError
<1>7. Gathered(w) /\ Ahead(w)
  BY <1>1, WorkerTypes
<1>8. Pending(w)' = 1 /\ Brought(w)' = n /\ Counted(w)' = row1 /\ Pending(w) = 0 /\ Brought(w) = 0
  <2>1. worker'[w].outcome = <<row1>> /\ <<row1>> # <<>> /\ <<row1>>[1] = row1 /\ row1.new = n
    BY <1>3, <1>5, <1>6
  <2>2. Counted(w)' = row1
    BY <2>1, Zenon DEF Counted
  <2>3. Pending(w)' = 1 /\ Brought(w)' = n
    BY <2>1, <2>2, Zenon DEF Pending, Brought
  <2> QED
    BY <2>2, <2>3 DEF Pending, Brought
<1>9. /\ Cardinality(k.left) = Cardinality(worker[w].left) - 1 /\ Cardinality(worker[w].left) \in Nat
      /\ Cardinality(k.left) \in Nat
  BY <1>5, WorkerTypes, FS_RemoveElement, FS_CardinalityType
<1>10. /\ Len(runs[r].rows) \in Nat /\ landed[r] \in Nat /\ worker[w].new \in Nat /\ Cardinality(Origins) \in Nat
       /\ MostNew \in Nat /\ n \in Nat /\ n <= MostNew
  BY ReportTypes, WorkerTypes
<1>11. landed'[r] = landed[r] + n
  BY <1>2, <1>6
<1>12. landed'[r] <= MostNew * (Cardinality(Origins) - Cardinality(k.left))
  <2>1. PICK c \in Nat : c = Cardinality(Origins) - Cardinality(worker[w].left)
    BY <1>9, <1>10, WorkerTypes
  <2>2. Cardinality(Origins) - Cardinality(k.left) = c + 1
    BY <1>9, <1>10, <2>1
  <2>3. landed[r] <= MostNew * c
    BY <1>1, <1>7, <2>1 DEF Gathered
  <2>4. MostNew * (c + 1) = MostNew * c + MostNew /\ MostNew * c \in Nat
    BY <1>10
  <2> QED
    BY <1>10, <1>11, <2>2, <2>3, <2>4
<1>13. Gathered(w)'
  <2>1. /\ ~runs[r].finished
        /\ worker[w].new = Cardinality(ArticlesOf(runs[r].rows))
        /\ worker[w].errors = Cardinality(FailedOf(runs[r].rows))
        /\ Len(runs[r].rows) + 0 + Cardinality(worker[w].left) <= Cardinality(Origins)
        /\ worker[w].new + 0 <= landed[r]
        /\ Len(runs[r].rows) + 0 + Cardinality(worker[w].left) = Cardinality(Origins)
             => worker[w].new + 0 = landed[r]
    BY <1>1, <1>7, <1>8 DEF Gathered
  <2>2. /\ Len(runs[r].rows) + 1 + Cardinality(k.left) <= Cardinality(Origins)
        /\ worker[w].new + n <= landed'[r]
        /\ Len(runs[r].rows) + 1 + Cardinality(k.left) = Cardinality(Origins)
             => worker[w].new + n = landed'[r]
    <3>1. Len(runs[r].rows) + 1 + Cardinality(k.left) = Len(runs[r].rows) + 0 + Cardinality(worker[w].left)
      BY <1>9, <1>10
    <3>2. worker[w].new + 0 = worker[w].new
      BY <1>10
    <3>3. worker[w].new <= landed[r] => worker[w].new + n <= landed[r] + n
      BY <1>10
    <3> QED
      BY <1>11, <2>1, <3>1, <3>2, <3>3, Zenon
  <2> QED
    BY <1>5, <1>6, <1>8, <1>12, <2>1, <2>2 DEF Gathered
<1>14. Ahead(w)'
  <2>1. ~HasRow(r, o) /\ lastCheck'[o] = [error |-> e, run |-> r]
    BY <1>1, <1>2, <1>6, <1>7 DEF Ahead
  <2>2. ASSUME NEW p \in k.left PROVE ~HasRow(r, p)' /\ lastCheck'[p].run # r
    <3>1. p # o /\ p \in worker[w].left /\ p \in Origins
      BY <1>5, WorkerTypes
    <3>2. lastCheck'[p] = lastCheck[p]
      BY <1>2, <1>6, <3>1
    <3> QED
      BY <1>1, <1>6, <1>7, <3>1, <3>2 DEF Ahead, HasRow
  <2>3. ~HasRow(r, o)'
    BY <1>6, <2>1 DEF HasRow
  <2>4. row1.origin = o /\ row1.error = e /\ o \notin k.left
    BY <1>3, <1>5
  <2> QED
    BY <1>5, <1>6, <1>8, <2>1, <2>2, <2>3, <2>4 DEF Ahead, HasRow
<1>15. RowsOnce(r)'
  BY <1>6 DEF ReportInv, RowsOnce
<1>16. ASSUME NEW p \in Origins PROVE CheckKept(p)'
  <2>1. CASE p = o
    <3>1. ~HasRow(r, o) /\ lastCheck'[o] = [error |-> e, run |-> r]
      BY <1>1, <1>2, <1>6, <1>7 DEF Ahead
    <3> QED
      <4>1. lastCheck'[p].run = r /\ r <= Len(runs') /\ runs' = runs
        BY <1>1, <1>6, <2>1, <3>1
      <4>2. ASSUME NEW i \in DOMAIN runs[r].rows PROVE runs[r].rows[i].origin # o
        BY <3>1, Zenon DEF HasRow
      <4> QED
        BY <2>1, <4>1, <4>2, Zenon DEF CheckKept
  <2>2. CASE p # o
    <3>1. lastCheck'[p] = lastCheck[p]
      BY <1>2, <1>6, <2>2
    <3> QED
      BY SMTT(30), <1>6, <3>1 DEF ReportInv, CheckKept
  <2> QED
    BY <2>1, <2>2
<1>17. landed' \in [1 .. Len(runs) -> Total]
  <2>1. MostNew * (Cardinality(Origins) - Cardinality(k.left)) <= MostNew * Cardinality(Origins)
    <3>1. PICK c \in Nat : c = Cardinality(k.left)
      BY <1>9
    <3>2. MostNew * (Cardinality(Origins) - c) = MostNew * Cardinality(Origins) - MostNew * c
          /\ MostNew * c \in Nat /\ MostNew * Cardinality(Origins) \in Nat
      BY <1>10
    <3> QED
      BY <3>1, <3>2
  <2>2. landed[r] + n \in Total
    <3>1. MostNew * (Cardinality(Origins) - Cardinality(k.left)) \in Int /\ MostNew * Cardinality(Origins) \in Nat
      BY <1>9, <1>10
    <3> QED
      BY <1>10, <1>11, <1>12, <2>1, <3>1 DEF Total
  <2> QED
    BY <1>2, <1>6, <2>2
<1>18. lastCheck' \in [Origins -> [error: Messages, run: 0 .. MaxRuns]]
       /\ \A p \in Origins : lastCheck'[p] = lastCheck[p] \/ lastCheck'[p].run = r
  <2>1. r \in 0 .. MaxRuns
    BY <1>1, WorkerTypes
  <2> QED
    BY <1>2, <1>6, <2>1
<1>19. /\ runs' \in Seq(RunRow) /\ Len(runs') = Len(runs)
       /\ \A q \in 1 .. Len(runs) : q # r => runs'[q] = runs[q] /\ landed'[q] = landed[q]
  BY <1>2, <1>6, ReportTypes
<1> QED
  BY <1>1, <1>5, <1>6, <1>13, <1>14, <1>15, <1>16, <1>17, <1>18, <1>19, WorkerGoesOn

LEMMA RecordSourceInv ==
  ASSUME ReportInv, NEW w \in Workers, RecordSource(w)
  PROVE  ReportInv'
<1>1. PICK r \in 1 .. Len(runs) : r = worker[w].run /\ r # 0
  BY WorkerTypes DEF RecordSource, Busy
<1>2. PICK e \in SourceRow : e = Counted(w) /\ worker[w].outcome # <<>>
  BY WorkerTypes DEF RecordSource
<1>3. /\ worker \in [Workers -> WorkerRow] /\ worker[w] \in WorkerRow
      /\ runs[r] \in RunRow /\ runs[r].rows \in Seq(SourceRow) /\ Len(runs[r].rows) \in Nat
      /\ DOMAIN runs[r].rows = 1 .. Len(runs[r].rows)
  BY ReportTypes DEF ReportTypeOK, WorkerRow, Outcomes
<1>4. Gathered(w) /\ Ahead(w)
  BY <1>1, WorkerTypes
<1>5. /\ e.new \in Nat /\ e.origin \in Origins /\ landed[r] \in Nat /\ landed[r] \in Total
      /\ worker[w].new \in Nat /\ Cardinality(worker[w].left) \in Nat /\ Cardinality(Origins) \in Nat
      /\ worker[w].errors \in Nat
  BY <1>2, ReportTypes, WorkerTypes
<1>6. Pending(w) = 1 /\ Brought(w) = e.new
  BY <1>2 DEF Pending, Brought
<1> DEFINE more == Append(runs[r].rows, e)
           run == [runs[r] EXCEPT !.rows = more]
           failed == IF e.error = "none" THEN worker[w].errors ELSE worker[w].errors + 1
<1>7. /\ more \in Seq(SourceRow) /\ Len(more) = Len(runs[r].rows) + 1
      /\ \A i \in 1 .. Len(runs[r].rows) : more[i] = runs[r].rows[i]
      /\ more[Len(runs[r].rows) + 1] = e
      /\ DOMAIN more = 1 .. Len(runs[r].rows) + 1
  BY <1>3, RowCounted, LenProperties
<1>8. /\ Cardinality(ArticlesOf(more)) = worker[w].new + e.new
      /\ Cardinality(FailedOf(more)) = failed
  BY <1>1, <1>3, <1>4, RowCounted DEF Gathered
<1>9. /\ Len(more) + Cardinality(worker[w].left) <= Cardinality(Origins)
      /\ worker[w].new + e.new <= landed[r]
      /\ landed[r] <= MostNew * (Cardinality(Origins) - Cardinality(worker[w].left))
      /\ Len(more) + Cardinality(worker[w].left) = Cardinality(Origins) => worker[w].new + e.new = landed[r]
  <2>1. /\ Len(runs[r].rows) + 1 + Cardinality(worker[w].left) <= Cardinality(Origins)
        /\ worker[w].new + e.new <= landed[r]
        /\ landed[r] <= MostNew * (Cardinality(Origins) - Cardinality(worker[w].left))
        /\ Len(runs[r].rows) + 1 + Cardinality(worker[w].left) = Cardinality(Origins)
             => worker[w].new + e.new = landed[r]
    BY <1>1, <1>4, <1>6 DEF Gathered
  <2> QED
    BY <1>3, <1>7, <2>1
<1>10. worker[w].new + e.new \in Total /\ failed \in 0 .. Cardinality(Origins)
  <2>1. worker[w].new + e.new \in Total
    <3>1. MostNew * Cardinality(Origins) \in Nat
      BY ReportTypes
    <3>2. PICK t \in Nat : t = MostNew * Cardinality(Origins)
      BY <3>1
    <3>3. landed[r] <= t /\ worker[w].new + e.new \in Nat
      BY <1>5, <3>2 DEF Total
    <3>4. worker[w].new + e.new \in 0 .. t
      BY <1>5, <1>9, <3>3
    <3> QED
      BY <3>2, <3>4, Zenon DEF Total
  <2>2. Cardinality(FailedOf(more)) \in Nat /\ Cardinality(FailedOf(more)) <= Len(more)
    BY <1>7, RowsFinite
  <2>3. Len(more) \in Nat
    BY <1>3, <1>7
  <2>4. failed \in Nat /\ failed <= Len(more) /\ Len(more) <= Cardinality(Origins)
    <3> HIDE DEF failed, more
    <3> QED
      BY <1>5, <1>8, <1>9, <2>2, <2>3
  <2> QED
    BY <1>5, <2>1, <2>3, <2>4
<1>11. run \in RunRow /\ run.rows = more /\ run.finished = runs[r].finished
  BY <1>3, <1>7 DEF RunRow
<1> HIDE DEF more, failed
<1>12. PICK k \in WorkerRow :
         k = [worker[w] EXCEPT !.outcome = <<>>, !.new = worker[w].new + e.new, !.errors = failed]
  <2>1. ASSUME NEW j \in WorkerRow, NEW n \in Total, NEW f \in 0 .. Cardinality(Origins)
        PROVE  [j EXCEPT !.outcome = <<>>, !.new = n, !.errors = f] \in WorkerRow
    <3>1. <<>> \in Outcomes
      BY DEF Outcomes
    <3>2. [j EXCEPT !.outcome = <<>>] \in WorkerRow
      BY <3>1 DEF WorkerRow
    <3>3. ASSUME NEW i \in WorkerRow PROVE [i EXCEPT !.new = n] \in WorkerRow
      BY DEF WorkerRow
    <3>4. ASSUME NEW i \in WorkerRow PROVE [i EXCEPT !.errors = f] \in WorkerRow
      BY DEF WorkerRow
    <3> QED
      BY <3>2, <3>3, <3>4
  <2> QED
    BY <1>3, <1>10, <2>1
<1>13. /\ k.run = r /\ k.left = worker[w].left /\ k.outcome = <<>> /\ k.new = worker[w].new + e.new
       /\ k.errors = failed
  BY <1>1, <1>3, <1>12 DEF WorkerRow
<1>14. /\ worker' = [worker EXCEPT ![w] = k] /\ worker'[w] = k
       /\ runs' = [runs EXCEPT ![r] = run] /\ UNCHANGED <<spelled, lastCheck, landed>>
  BY <1>1, <1>2, <1>3, <1>12 DEF RecordSource, failed, more
<1> HIDE DEF run
<1>15. /\ runs' \in Seq(RunRow) /\ Len(runs') = Len(runs) /\ runs'[r] = run
       /\ \A q \in 1 .. Len(runs) : q # r => runs'[q] = runs[q]
  BY <1>11, <1>14, RunChanged
<1>16. /\ runs'[r].rows = more /\ ~runs'[r].finished
  BY <1>1, <1>4, <1>11, <1>15 DEF Gathered
<1>17. Gathered(w)'
  <2>1. Pending(w)' = 0 /\ Brought(w)' = 0
    BY <1>13, <1>14 DEF Pending, Brought
  <2>2. /\ Len(more) + 0 + Cardinality(k.left) <= Cardinality(Origins)
        /\ k.new + 0 <= landed[r]
        /\ Len(more) + 0 + Cardinality(k.left) = Cardinality(Origins) => k.new + 0 = landed[r]
    BY <1>3, <1>5, <1>7, <1>9, <1>13
  <2> QED
    BY <1>8, <1>9, <1>13, <1>14, <1>16, <2>1, <2>2 DEF Gathered
\* Of which source a row of the run is now.
<1>18. ASSUME NEW o \in Origins PROVE HasRow(r, o)' <=> HasRow(r, o) \/ o = e.origin
  <2>1. HasRow(r, o)' <=> \E i \in 1 .. Len(runs[r].rows) + 1 : more[i].origin = o
    BY <1>7, <1>16 DEF HasRow
  <2>2. HasRow(r, o) <=> \E i \in 1 .. Len(runs[r].rows) : runs[r].rows[i].origin = o
    BY <1>3 DEF HasRow
  <2> QED
    BY <1>3, <1>7, <2>1, <2>2
<1>19. /\ e.origin \notin worker[w].left /\ ~HasRow(r, e.origin)
       /\ lastCheck[e.origin].run = r => lastCheck[e.origin].error = e.error
  BY <1>1, <1>2, <1>4 DEF Ahead
<1>20. Ahead(w)'
  <2>1. ASSUME NEW o \in worker[w].left PROVE ~HasRow(r, o)' /\ lastCheck'[o].run # r
    <3>1. o \in Origins /\ o # e.origin
      BY <1>19, WorkerTypes
    <3> QED
      BY <1>1, <1>4, <1>14, <1>18, <3>1 DEF Ahead
  <2> QED
    BY <1>13, <1>14, <2>1 DEF Ahead, HasRow
<1>21. RowsOnce(r)'
  <2>1. ASSUME NEW i \in 1 .. Len(runs[r].rows) + 1, NEW j \in 1 .. Len(runs[r].rows) + 1,
               more[i].origin = more[j].origin
        PROVE  i = j
    <3>1. \A h \in 1 .. Len(runs[r].rows) : more[h].origin # e.origin
      BY <1>3, <1>7, <1>19 DEF HasRow
    <3>2. RowsOnce(r)
      BY DEF ReportInv
    <3> QED
      <4>1. CASE i = Len(runs[r].rows) + 1
        BY <1>3, <1>7, <2>1, <3>1, <4>1
      <4>2. CASE j = Len(runs[r].rows) + 1
        BY <1>3, <1>7, <2>1, <3>1, <4>2
      <4>3. CASE i \in 1 .. Len(runs[r].rows) /\ j \in 1 .. Len(runs[r].rows)
        <5>1. more[i] = runs[r].rows[i] /\ more[j] = runs[r].rows[j]
          BY <1>7, <4>3
        <5> QED
          BY <1>3, <2>1, <3>2, <4>3, <5>1 DEF RowsOnce
      <4> QED
        BY <1>3, <4>1, <4>2, <4>3
  <2> QED
    BY <1>7, <1>16, <2>1 DEF RowsOnce
<1>22. ASSUME NEW o \in Origins PROVE CheckKept(o)'
  <2>1. lastCheck'[o] = lastCheck[o] /\ CheckKept(o)
    BY <1>14 DEF ReportInv
  <2>2. CASE lastCheck[o].run = r
    <3>1. ASSUME NEW i \in 1 .. Len(runs[r].rows) + 1, more[i].origin = o
          PROVE  more[i].error = lastCheck[o].error
      <4>1. CASE i = Len(runs[r].rows) + 1
        BY <1>7, <1>19, <2>2, <3>1, <4>1
      <4>2. CASE i # Len(runs[r].rows) + 1
        <5>1. i \in 1 .. Len(runs[r].rows) /\ more[i] = runs[r].rows[i]
          <6>1. PICK l \in Nat : l = Len(runs[r].rows)
            BY <1>3
          <6>2. i \in 1 .. l
            BY <4>2, <6>1
          <6> QED
            BY <1>7, <6>1, <6>2
        <5> QED
          BY <1>1, <1>3, <2>1, <2>2, <3>1, <5>1 DEF CheckKept
      <4> QED
        BY <4>1, <4>2
    <3> QED
      BY <1>7, <1>15, <1>16, <2>1, <2>2, <3>1 DEF CheckKept
  <2>3. CASE lastCheck[o].run # r
    <3>1. lastCheck[o].run # 0 => lastCheck[o].run \in 1 .. Len(runs)
      BY <2>1 DEF CheckKept, ReportInv, ReportTypeOK
    <3> QED
      BY <1>15, <2>1, <2>3, <3>1 DEF CheckKept
  <2> QED
    BY <2>2, <2>3
<1> QED
  BY <1>1, <1>13, <1>14, <1>15, <1>17, <1>20, <1>21, <1>22, WorkerGoesOn, ReportTypes DEF ReportTypeOK

LEMMA ReportInitInv == ReportInit => ReportInv
<1> SUFFICES ASSUME ReportInit PROVE ReportInv
  OBVIOUS
<1>1. runs = <<>> /\ landed = <<>> /\ Len(runs) = 0 /\ runs \in Seq(RunRow) /\ 1 .. Len(runs) = {}
  BY EmptySeq DEF ReportInit
<1>2. landed \in [1 .. Len(runs) -> Total]
  BY <1>1
<1>3. ReportTypeOK
  BY <1>1, <1>2, RestingTyped, ReportAssumption DEF ReportInit, ReportTypeOK, WorkerRow, Outcomes, Messages
<1> QED
  BY <1>1, <1>3 DEF ReportInit, ReportInv, Works, CheckKept, Resting

\* What is recorded stays so, whatever sources are named.
LEMMA NamesMatterNot ==
  ASSUME ReportInv, UNCHANGED <<runs, lastCheck, worker, landed>>, spelled' \in [Origins -> Names]
  PROVE  ReportInv'
<1>1. ReportTypeOK'
  BY DEF ReportInv, ReportTypeOK
<1>2. ASSUME NEW w \in Workers PROVE Works(w)'
  <2>1. Works(w) /\ (Gathered(w)' <=> Gathered(w)) /\ (Ahead(w)' <=> Ahead(w))
    BY DEF ReportInv, Gathered, Ahead, Pending, Brought, Counted, HasRow
  <2> QED
    BY <2>1 DEF Works
<1>3. ASSUME NEW r \in 1 .. Len(runs) PROVE AddsUp(r)' /\ RowsOnce(r)'
  <2>1. AddsUp(r) /\ RowsOnce(r)
    BY DEF ReportInv
  <2> QED
    BY <2>1 DEF AddsUp, RowsOnce
<1> QED
  BY <1>1, <1>2, <1>3, ChecksKept DEF ReportInv

LEMMA ReportAlways == ReportSpec => []ReportInv
<1>1. ReportInv /\ [ReportNext]_reportVars => ReportInv'
  <2> SUFFICES ASSUME ReportInv, [ReportNext]_reportVars PROVE ReportInv'
    OBVIOUS
  <2>1. CASE UNCHANGED reportVars
    BY <2>1, NamesMatterNot, ReportTypes DEF reportVars, ReportTypeOK
  <2>3. ASSUME NEW o \in Origins, NEW n \in Names, Rename(o, n) PROVE ReportInv'
    BY <2>3, NamesMatterNot, ReportTypes DEF Rename, ReportTypeOK
  <2>2. ASSUME NEW w \in Workers, NEW o \in Origins, CheckSource(w, o) PROVE ReportInv'
    <3>1. "none" \in Messages /\ 0 \in 0 .. MostNew
      BY ReportAssumption DEF Messages
    <3>2. \E n \in 0 .. MostNew, e \in Messages : Checked(w, o, n, e)
      BY <2>2, <3>1 DEF CheckSource
    <3> QED
      BY <2>2, <3>2, CheckedInv DEF CheckSource
  <2> QED
    BY <2>1, <2>2, <2>3, BeginReportInv, RecordSourceInv, BreakOffInv, FinishReportInv, LoseReportInv DEF ReportNext
<1> QED
  BY ReportInitInv, <1>1, PTL DEF ReportSpec

\* A row of totals says what the rows of its run say, also of a run that broke off,
\* whatever other processes and crashes do.
THEOREM RunsAlwaysAddUp == ReportSpec => []RunsAddUp
<1>1. ReportInv => RunsAddUp
  BY ReportTypes DEF ReportInv, RunsAddUp, AddsUp
<1> QED
  BY <1>1, ReportAlways, PTL

LEMMA OwnRowTypes ==
  ASSUME ReportInv, NEW o \in Origins, NEW p \in OwnRows(o)
  PROVE  /\ p = <<p[1], p[2]>> /\ p[1] \in 1 .. Len(runs) /\ p[2] \in DOMAIN runs[p[1]].rows
         /\ p[2] \in Nat /\ At(p).name \in Nat /\ runs[p[1]].rows[p[2]].origin = o
<1>1. p \in Places /\ At(p).origin = o
  BY DEF OwnRows
<1>2. PICK r \in DOMAIN runs : p \in {r} \X DOMAIN runs[r].rows
  BY <1>1, Zenon DEF Places
<1>3. p = <<p[1], p[2]>> /\ p[1] = r /\ p[2] \in DOMAIN runs[r].rows
  BY <1>2
<1>4. /\ r \in 1 .. Len(runs) /\ p[2] \in 1 .. Len(runs[r].rows) /\ Len(runs[r].rows) \in Nat
      /\ runs[r].rows \in Seq(SourceRow)
  BY <1>3, ReportTypes
<1>5. runs[r].rows[p[2]] \in SourceRow
  BY <1>4, ElementOfSeq
<1>6. runs[r].rows[p[2]].name \in Nat
  BY <1>5, ReportAssumption DEF SourceRow
<1> QED
  BY <1>1, <1>3, <1>4, <1>6 DEF At

\* Of a source a run has one row, and so the source has finitely many.
LEMMA OneRowInRun ==
  ASSUME ReportInv, NEW o \in Origins, NEW p \in OwnRows(o), NEW q \in OwnRows(o), p[1] = q[1]
  PROVE  p = q
<1>1. RowsOnce(p[1])
  BY OwnRowTypes DEF ReportInv
<1>2. /\ p = <<p[1], p[2]>> /\ p[2] \in DOMAIN runs[p[1]].rows /\ runs[p[1]].rows[p[2]].origin = o
      /\ q = <<q[1], q[2]>> /\ q[2] \in DOMAIN runs[p[1]].rows /\ runs[p[1]].rows[q[2]].origin = o
  BY OwnRowTypes
<1>3. p[2] = q[2]
  BY <1>1, <1>2 DEF RowsOnce
<1> QED
  BY <1>2, <1>3

LEMMA OwnRowsFinite ==
  ASSUME ReportInv, NEW o \in Origins
  PROVE  IsFiniteSet(OwnRows(o))
<1> DEFINE f == [p \in OwnRows(o) |-> p[1]]
<1>1. f \in [OwnRows(o) -> 1 .. Len(runs)]
  BY OwnRowTypes
<1>2. \A p, q \in OwnRows(o) : f[p] = f[q] => p = q
  BY OneRowInRun
<1>3. f \in Injection(OwnRows(o), 1 .. Len(runs))
  BY <1>1, <1>2 DEF Injection, IsInjective
<1>4. IsFiniteSet(1 .. Len(runs))
  BY ReportTypes, UpTo
<1> HIDE DEF f
<1> QED
  BY <1>3, <1>4, FS_Injection

\* Rows of one name: the one of the latest run comes first, and before it none.
LEMMA LatestIsFirst ==
  ASSUME ReportInv, NEW o \in Origins, NEW m \in OwnRows(o), NEW p \in OwnRows(o),
         At(p).name = At(m).name, p[1] <= m[1]
  PROVE  NoLater(m, p) /\ (NoLater(p, m) => p = m)
<1>1. p[1] \in Nat /\ m[1] \in Nat /\ p[2] \in Nat /\ m[2] \in Nat /\ At(p).name \in Nat
  BY OwnRowTypes, ReportTypes
<1>2. p[1] = m[1] => p = m
  BY OneRowInRun
<1>3. CASE p[1] = m[1]
  BY <1>1, <1>2, <1>3 DEF NoLater
<1>4. CASE p[1] # m[1]
  BY <1>1, <1>4 DEF NoLater
<1> QED
  BY <1>3, <1>4

\* Of a source that is mistaken for no other, the health that is computed from the rows
\* of runs is that of the last check, once that has its row and no later run has one,
\* whatever other sources are named and in whatever order they are listed.
THEOREM HealthIsThatOfTheLastCheck == ReportSpec => []HealthIsLastCheck
<1>1. ReportInv => HealthIsLastCheck
  <2> SUFFICES ASSUME ReportInv, NEW listing \in Listings, NEW i \in DOMAIN listing,
                      NEW o, o = listing[i], LastCheckIsLatest(o), Unmistaken(listing, o)
               PROVE  HealthStatus(listing, o) = "ERROR" <=> lastCheck[o].error = "text"
    BY DEF HealthIsLastCheck
  <2> DEFINE rows == RowsFor(listing, o)
  <2>0. o \in Origins /\ rows = OwnRows(o)
    <3>1. listing \in Seq(Origins)
      BY ReportAssumption
    <3> QED
      BY <3>1, ElementOfSeq, LenProperties DEF Unmistaken
  <2>1. CASE rows = {}
    BY <2>1 DEF HealthStatus
  <2>2. CASE rows # {}
    <3> DEFINE failing == {p \in rows : \A q \in rows : NoLater(q, p) => At(q).error = "text"}
    <3>1. PICK m \in OwnRows(o) : m[1] = lastCheck[o].run
      BY <2>0, <2>2 DEF LastCheckIsLatest
    <3>2. \A p \in OwnRows(o) : p[1] <= m[1]
      BY <3>1 DEF LastCheckIsLatest
    <3>3. \A p, q \in OwnRows(o) : At(p).name = At(q).name
      BY DEF Unmistaken
    <3>4. \A p \in rows : NoLater(m, p) /\ (NoLater(p, m) => p = m)
      BY <2>0, <3>2, <3>3, LatestIsFirst
    <3>5. At(m).error = lastCheck[o].error
      <4>1. /\ m[1] # 0 /\ m[2] \in DOMAIN runs[m[1]].rows /\ runs[m[1]].rows[m[2]].origin = o
        BY <2>0, OwnRowTypes, ReportTypes
      <4>2. CheckKept(o)
        BY <2>0 DEF ReportInv
      <4> QED
        BY <3>1, <4>1, <4>2 DEF CheckKept, At
    <3>6. IsFiniteSet(failing) /\ Cardinality(failing) \in Nat
      <4>1. IsFiniteSet(OwnRows(o))
        BY <2>0, OwnRowsFinite
      <4>2. failing \subseteq OwnRows(o)
        BY <2>0
      <4> QED
        BY <4>1, <4>2, FS_Subset, FS_CardinalityType
    <3>7. failing # {} <=> lastCheck[o].error = "text"
      <4>1. ASSUME lastCheck[o].error = "text" PROVE m \in failing
        BY <2>0, <3>1, <3>4, <3>5, <4>1
      <4>2. ASSUME NEW p \in failing PROVE lastCheck[o].error = "text"
        BY <2>0, <3>1, <3>4, <3>5
      <4> QED
        BY <4>1, <4>2
    <3>8. ErrorStreak(rows) > 0 <=> failing # {}
      BY <3>6, FS_EmptySet DEF ErrorStreak
    <3> HIDE DEF failing
    <3> QED
      BY <2>2, <3>7, <3>8 DEF HealthStatus
  <2> QED
    BY <2>1, <2>2
<1> QED
  BY <1>1, ReportAlways, PTL

(***************************************************************************)
(* A reader's archive: any articles, memories and changes.                 *)
(***************************************************************************)

-----------------------------------------------------------------------------
(* A fold over a sequence, one row after the other                         *)

\* A set of natural numbers that is not empty has a least member.
LEMMA LeastNatural ==
  ASSUME NEW S \in SUBSET Nat, S # {}
  PROVE  \E x \in S : \A y \in S : x <= y
<1> DEFINE R == {ss \in Nat \X Nat : ss[1] < ss[2]}
<1>1. IsWellFoundedOn(R, Nat)
  BY NatLessThanWellFounded, Zenon DEF OpToRel
<1>2. PICK x \in S : \A y \in S : <<y, x>> \notin R
  BY <1>1, WFMin
<1>3. \A y \in S : ~(y < x)
  BY <1>2
<1> QED
  BY <1>3

\* A set of natural numbers that is bounded has a greatest member.
LEMMA MaxIsGreatest ==
  ASSUME NEW n \in Nat, NEW S \in SUBSET (1 .. n), S # {}
  PROVE  Max(S) \in S /\ \A y \in S : Max(S) >= y
<1> DEFINE T == {n - x : x \in S}
<1>1. PICK y \in T : \A z \in T : y <= z
  <2>1. \A x \in S : n - x \in Nat
    OBVIOUS
  <2>2. T \in SUBSET Nat /\ T # {}
    BY <2>1
  <2> HIDE DEF T
  <2> QED
    BY <2>2, LeastNatural
<1>2. PICK x \in S : y = n - x
  OBVIOUS
<1>3. \A z \in S : n - x <= n - z
  BY <1>1, <1>2
<1>4. \A z \in S : x >= z
  BY <1>3
<1> QED
  BY <1>4 DEF Max

\* That f folds the rows, whatever the set of their numbers.
IsFold(f, base, rows) ==
  f = [s \in SUBSET DOMAIN rows |->
         IF s = {} THEN base ELSE RestoreMemory(f[s \ {Max(s)}], rows[Max(s)])]

LEMMA FoldExists ==
  ASSUME NEW base, NEW rows, NEW n \in Nat, DOMAIN rows = 1 .. n
  PROVE  \E f : IsFold(f, base, rows)
<1> DEFINE Small(k) == {s \in SUBSET (1 .. n) : Cardinality(s) <= k}
           Partial(g, k) ==
             g = [s \in Small(k) |->
                    IF s = {} THEN base ELSE RestoreMemory(g[s \ {Max(s)}], rows[Max(s)])]
           Missing == {k \in Nat : ~\E g : Partial(g, k)}
<1>1. ASSUME NEW s \in SUBSET (1 .. n)
      PROVE  IsFiniteSet(s) /\ Cardinality(s) \in Nat /\ Cardinality(s) <= n
  <2>1. 1 \in Int /\ n \in Int
    OBVIOUS
  <2>2. IsFiniteSet(1 .. n) /\ Cardinality(1 .. n) = IF 1 > n THEN 0 ELSE n - 1 + 1
    BY <2>1, FS_Interval, Zenon
  <2>3. Cardinality(1 .. n) = n
    BY <2>2
  <2> QED
    BY <2>2, <2>3, FS_Subset, FS_CardinalityType
<1>2. ASSUME NEW s \in SUBSET (1 .. n), s # {}
      PROVE  /\ s \ {Max(s)} \in SUBSET (1 .. n)
             /\ Cardinality(s \ {Max(s)}) = Cardinality(s) - 1
  BY <1>1, <1>2, MaxIsGreatest, FS_RemoveElement
<1>3. Missing = {}
  <2>1. SUFFICES ASSUME Missing # {} PROVE FALSE
    OBVIOUS
  <2>2. PICK m \in Missing : \A k \in Missing : m <= k
    <3>1. Missing \in SUBSET Nat
      OBVIOUS
    <3> HIDE DEF Missing
    <3> QED
      BY <2>1, <3>1, LeastNatural
  <2>3. CASE m = 0
    <3> DEFINE g == [s \in Small(0) |-> base]
    <3>1. \A s \in Small(0) : s = {}
      BY <1>1, FS_EmptySet
    <3>2. Partial(g, 0)
      BY <3>1
    <3> QED
      BY <2>2, <2>3, <3>2
  <2>4. CASE m # 0
    <3>1. m \in Nat /\ m - 1 \in Nat /\ m - 1 \notin Missing
      <4>1. m \in Nat
        OBVIOUS
      <4> HIDE DEF Missing
      <4> QED
        BY <2>2, <2>4, <4>1
    <3>2. PICK g : Partial(g, m - 1)
      BY <3>1
    <3> DEFINE h == [s \in Small(m) |->
                       IF s = {} THEN base ELSE RestoreMemory(g[s \ {Max(s)}], rows[Max(s)])]
    <3>3. ASSUME NEW s \in Small(m), s # {}
          PROVE  h[s \ {Max(s)}] = g[s \ {Max(s)}]
      <4> DEFINE t == s \ {Max(s)}
      <4>1. t \in Small(m - 1) /\ t \in Small(m)
        <5>1. s \in SUBSET (1 .. n) /\ Cardinality(s) \in Nat /\ Cardinality(s) <= m
          BY <1>1
        <5>2. t \in SUBSET (1 .. n) /\ Cardinality(t) = Cardinality(s) - 1
          BY <1>2, <3>3, <5>1
        <5> HIDE DEF t
        <5>3. Cardinality(t) <= m - 1 /\ Cardinality(t) <= m
          BY <3>1, <5>1, <5>2
        <5> QED
          BY <5>2, <5>3
      <4> HIDE DEF t
      <4>2. h[t] = IF t = {} THEN base ELSE RestoreMemory(g[t \ {Max(t)}], rows[Max(t)])
        BY <4>1, Zenon
      <4>3. g[t] = IF t = {} THEN base ELSE RestoreMemory(g[t \ {Max(t)}], rows[Max(t)])
        BY <3>2, <4>1, Zenon
      <4> QED
        BY <4>2, <4>3, Zenon DEF t
    <3>4. Partial(h, m)
      BY <3>3, Zenon
    <3> QED
      BY <2>2, <3>4
  <2> QED
    BY <2>3, <2>4
<1>4. PICK f : Partial(f, n)
  BY <1>3
<1>5. Small(n) = SUBSET DOMAIN rows
  BY <1>1
<1> HIDE DEF Small
<1> QED
  BY <1>4, <1>5 DEF IsFold

\* The stages of a restore of memories: before the first row, and after each.
LEMMA FoldsInOrder ==
  ASSUME NEW base, NEW rows, NEW n \in Nat, DOMAIN rows = 1 .. n
  PROVE  \E st : /\ st[0] = base /\ st[n] = Recalled(base, rows)
                 /\ \A k \in 1 .. n : st[k] = RestoreMemory(st[k - 1], rows[k])
<1> DEFINE g == CHOOSE f : IsFold(f, base, rows)
<1>1. IsFold(g, base, rows)
  BY FoldExists
<1>2. FoldLeft(RestoreMemory, base, rows) = g[DOMAIN rows]
  BY <1>1 DEF FoldLeft, MapThenFoldSet, IsFold
<1> HIDE DEF g
<1> DEFINE st == [k \in 0 .. n |-> g[1 .. k]]
<1>3. st[0] = base
  <2>1. st[0] = g[{}] /\ {} \in SUBSET DOMAIN rows
    BY SMT
  <2> QED
    BY <1>1, <2>1 DEF IsFold
<1>4. st[n] = Recalled(base, rows)
  BY <1>2 DEF Recalled
<1>5. ASSUME NEW k \in 1 .. n PROVE st[k] = RestoreMemory(st[k - 1], rows[k])
  <2>1. 1 .. k \in SUBSET DOMAIN rows /\ 1 .. k # {} /\ (1 .. k) \in SUBSET (1 .. n)
    OBVIOUS
  <2>2. Max(1 .. k) = k
    <3>1. Max(1 .. k) \in 1 .. k /\ \A y \in 1 .. k : Max(1 .. k) >= y
      BY <2>1, MaxIsGreatest, Zenon
    <3> QED
      BY <3>1
  <2>3. (1 .. k) \ {k} = 1 .. k - 1
    OBVIOUS
  <2>4. g[1 .. k] = RestoreMemory(g[(1 .. k) \ {Max(1 .. k)}], rows[Max(1 .. k)])
    BY <1>1, <2>1, Zenon DEF IsFold
  <2>5. st[k] = g[1 .. k] /\ st[k - 1] = g[1 .. k - 1]
    OBVIOUS
  <2> QED
    BY <2>2, <2>3, <2>4, <2>5, Zenon
<1> QED
  BY <1>3, <1>4, <1>5

\* What holds at first, and after each stage if it held before, holds at the end.
LEMMA Upwards ==
  ASSUME NEW n \in Nat, NEW S \in SUBSET (0 .. n), 0 \in S, \A k \in 1 .. n : k - 1 \in S => k \in S
  PROVE  n \in S
<1>1. SUFFICES ASSUME n \notin S PROVE FALSE
  OBVIOUS
<1> DEFINE T == (0 .. n) \ S
<1>2. PICK m \in T : \A k \in T : m <= k
  <2>1. T \in SUBSET Nat /\ T # {}
    BY <1>1
  <2> HIDE DEF T
  <2> QED
    BY <2>1, LeastNatural
<1>3. m \in 1 .. n /\ m - 1 \in 0 .. n
  OBVIOUS
<1>4. m - 1 \in S
  BY <1>2, <1>3
<1> QED
  BY <1>3, <1>4

-----------------------------------------------------------------------------
(* Memories                                                                *)

MemoryRow == [content: Contents, active: BOOLEAN]

\* The first row of the content of r says of it what r says.
Remembers(rows, r) ==
  \E i \in 1 .. Len(rows) :
    /\ rows[i].content = r.content /\ rows[i].active = r.active
    /\ \A j \in 1 .. Len(rows) : rows[j].content = r.content => i <= j

\* To restore a row makes it remembered and leaves what else is remembered.
LEMMA RowRestored ==
  ASSUME NEW rows \in Seq(MemoryRow), NEW r \in MemoryRow
  PROVE  LET more == RestoreMemory(rows, r) IN
         /\ more \in Seq(MemoryRow) /\ Remembers(more, r)
         /\ Remembers(rows, r) => more = rows
         /\ \A q \in MemoryRow : q.content # r.content /\ Remembers(rows, q) => Remembers(more, q)
<1> DEFINE same == {i \in DOMAIN rows : rows[i].content = r.content}
           more == RestoreMemory(rows, r)
           n == Len(rows)
<1>1. /\ n \in Nat /\ DOMAIN rows = 1 .. n
      /\ \A i \in 1 .. n : rows[i] \in MemoryRow
  BY LenProperties, ElementOfSeq
<1>2. CASE same = {}
  <2>1. more = Append(rows, r)
    BY <1>2 DEF RestoreMemory
  <2>2. /\ more \in Seq(MemoryRow) /\ Len(more) = n + 1 /\ more[n + 1] = r
        /\ \A i \in 1 .. n : more[i] = rows[i]
    BY <2>1, AppendProperties
  <2>3. \A i \in 1 .. n : rows[i].content # r.content
    BY <1>1, <1>2
  <2> HIDE DEF more, same
  <2>4. Remembers(more, r)
    <3>1. \A j \in 1 .. n + 1 : more[j].content = r.content => n + 1 <= j
      BY <1>1, <2>2, <2>3
    <3>2. n + 1 \in 1 .. Len(more) /\ Len(more) = n + 1
      BY <1>1, <2>2
    <3> QED
      BY <2>2, <3>1, <3>2 DEF Remembers
  <2>5. ~Remembers(rows, r)
    BY <2>3 DEF Remembers
  <2>6. ASSUME NEW q \in MemoryRow, q.content # r.content, Remembers(rows, q)
        PROVE  Remembers(more, q)
    <3>1. PICK i \in 1 .. n :
            /\ rows[i].content = q.content /\ rows[i].active = q.active
            /\ \A j \in 1 .. n : rows[j].content = q.content => i <= j
      BY <2>6 DEF Remembers
    <3>2. \A j \in 1 .. n + 1 : more[j].content = q.content => i <= j
      BY <1>1, <2>2, <2>6, <3>1
    <3>3. i \in 1 .. n + 1 /\ more[i] = rows[i]
      BY <1>1, <2>2
    <3> QED
      BY <2>2, <3>1, <3>2, <3>3 DEF Remembers
  <2> QED
    BY <2>2, <2>4, <2>5, <2>6 DEF more
<1>3. CASE same # {}
  <2> DEFINE first == CHOOSE i \in same : \A j \in same : i <= j
  <2>1. first \in same /\ \A j \in same : first <= j
    <3>1. same \in SUBSET Nat
      BY <1>1
    <3>2. \E i \in same : \A j \in same : i <= j
      <4> HIDE DEF same
      <4> QED
        BY <1>3, <3>1, LeastNatural
    <3> QED
      BY <3>2, Zenon
  <2>2. more = [rows EXCEPT ![first].active = r.active]
    BY <1>3 DEF RestoreMemory
  <2>3. first \in 1 .. n /\ rows[first].content = r.content /\ \A j \in 1 .. n : rows[j].content = r.content => first <= j
    BY <1>1, <2>1
  <2> HIDE DEF first, same
  <2> DEFINE row1 == [rows[first] EXCEPT !.active = r.active]
  <2>4. row1 \in MemoryRow /\ row1.content = r.content /\ row1.active = r.active
    BY <1>1, <2>3 DEF MemoryRow
  <2>5. more = [rows EXCEPT ![first] = row1]
    BY <2>2
  <2>6. Remembers(rows, r) => row1 = rows[first]
    <3>1. ASSUME Remembers(rows, r) PROVE rows[first].active = r.active
      <4>1. PICK i \in 1 .. n :
              /\ rows[i].content = r.content /\ rows[i].active = r.active
              /\ \A j \in 1 .. n : rows[j].content = r.content => i <= j
        BY <3>1 DEF Remembers
      <4>2. i = first
        BY <1>1, <2>3, <4>1
      <4> QED
        BY <4>1, <4>2
    <3> QED
      BY <1>1, <2>3, <3>1 DEF MemoryRow
  <2> HIDE DEF row1, more
  <2>7. /\ more \in Seq(MemoryRow) /\ Len(more) = n /\ more[first] = row1
        /\ \A i \in 1 .. n : i # first => more[i] = rows[i]
    <3>1. /\ [rows EXCEPT ![first] = row1] \in Seq(MemoryRow) /\ Len([rows EXCEPT ![first] = row1]) = n
          /\ \A j \in 1 .. n : [rows EXCEPT ![first] = row1][j] = IF j = first THEN row1 ELSE rows[j]
      BY <2>3, <2>4, ExceptSeq
    <3> QED
      BY <2>3, <2>5, <3>1, Zenon
  <2>8. \A i \in 1 .. n : more[i].content = rows[i].content
    BY <2>3, <2>4, <2>7
  <2>9. Remembers(more, r)
    BY <2>3, <2>4, <2>7, <2>8 DEF Remembers
  <2>10. Remembers(rows, r) => more = rows
    <3>1. Remembers(rows, r) => \A i \in 1 .. n : more[i] = rows[i]
      BY <2>6, <2>7
    <3> QED
      BY <2>7, <3>1, SeqEqual
  <2>11. ASSUME NEW q \in MemoryRow, q.content # r.content, Remembers(rows, q)
         PROVE  Remembers(more, q)
    <3>1. PICK i \in 1 .. n :
            /\ rows[i].content = q.content /\ rows[i].active = q.active
            /\ \A j \in 1 .. n : rows[j].content = q.content => i <= j
      BY <2>11 DEF Remembers
    <3>2. i # first
      BY <2>3, <2>11, <3>1
    <3> QED
      BY <2>7, <2>8, <3>1, <3>2 DEF Remembers
  <2> QED
    BY <2>7, <2>9, <2>10, <2>11 DEF more
<1> QED
  BY <1>2, <1>3

\* To restore rows: what is typed stays so; rows of different contents are all
\* remembered after it; and it changes nothing where they all were before.
LEMMA MemoriesRestored ==
  ASSUME NEW base \in Seq(MemoryRow), NEW rows \in Seq(MemoryRow)
  PROVE  LET more == Recalled(base, rows) IN
         /\ more \in Seq(MemoryRow)
         /\ Once(rows) => \A k \in 1 .. Len(rows) : Remembers(more, rows[k])
         /\ (\A k \in 1 .. Len(rows) : Remembers(base, rows[k])) => more = base
<1>1. PICK n \in Nat : n = Len(rows) /\ DOMAIN rows = 1 .. n /\ \A i \in 1 .. n : rows[i] \in MemoryRow
  BY LenProperties, ElementOfSeq
<1>2. PICK st : /\ st[0] = base /\ st[n] = Recalled(base, rows)
                /\ \A k \in 1 .. n : st[k] = RestoreMemory(st[k - 1], rows[k])
  <2>1. n \in Nat /\ DOMAIN rows = 1 .. n
    BY <1>1
  <2>2. \E st : /\ st[0] = base /\ st[n] = Recalled(base, rows)
                /\ \A k \in 1 .. n : st[k] = RestoreMemory(st[k - 1], rows[k])
    BY <2>1, FoldsInOrder
  <2> QED
    BY <2>2
<1> DEFINE Typed == {k \in 0 .. n : st[k] \in Seq(MemoryRow)}
           Known == {k \in 0 .. n : \A j \in 1 .. k : Remembers(st[k], rows[j])}
           Equal == {k \in 0 .. n : st[k] = base}
<1>3. \A k \in 0 .. n : st[k] \in Seq(MemoryRow)
  <2>1. ASSUME NEW m \in 0 .. n PROVE m \in Typed
    <3> DEFINE Lower == {k \in 0 .. m : k \in Typed}
    <3>1. 0 \in Lower
      BY <1>2
    <3>2. ASSUME NEW k \in 1 .. m, k - 1 \in Lower PROVE k \in Lower
      <4>1. k \in 1 .. n /\ k - 1 \in 0 .. n
        OBVIOUS
      <4>2. st[k] = RestoreMemory(st[k - 1], rows[k]) /\ st[k - 1] \in Seq(MemoryRow) /\ rows[k] \in MemoryRow
        BY <1>1, <1>2, <3>2, <4>1
      <4>3. st[k] \in Seq(MemoryRow)
        BY <4>2, RowRestored
      <4> QED
        BY <4>1, <4>3
    <3>3. Lower \in SUBSET (0 .. m) /\ m \in Nat
      OBVIOUS
    <3>4. m \in Lower
      <4> HIDE DEF Lower
      <4> QED
        BY <3>1, <3>2, <3>3, Upwards
    <3> QED
      BY <3>4
  <2> QED
    BY <2>1
<1>4. Once(rows) => n \in Known
  <2>1. SUFFICES ASSUME Once(rows) PROVE n \in Known
    OBVIOUS
  <2>2. 0 \in Known
    OBVIOUS
  <2>3. ASSUME NEW k \in 1 .. n, k - 1 \in Known PROVE k \in Known
    <3>1. st[k] = RestoreMemory(st[k - 1], rows[k]) /\ st[k - 1] \in Seq(MemoryRow) /\ rows[k] \in MemoryRow
      BY <1>1, <1>2, <1>3
    <3>2. ASSUME NEW j \in 1 .. k PROVE Remembers(st[k], rows[j])
      <4>1. CASE j = k
        BY <3>1, <4>1, RowRestored
      <4>2. CASE j # k
        <5>1. j \in 1 .. k - 1 /\ j \in 1 .. n
          BY <4>2
        <5>2. Remembers(st[k - 1], rows[j]) /\ rows[j] \in MemoryRow
          BY <1>1, <2>3, <5>1
        <5>3. rows[j].content # rows[k].content
          BY <1>1, <2>1, <4>2, <5>1 DEF Once
        <5> QED
          BY ZenonT(60), <3>1, <5>2, <5>3, RowRestored
      <4> QED
        BY <4>1, <4>2
    <3> QED
      BY <3>2
  <2>4. Known \in SUBSET (0 .. n)
    OBVIOUS
  <2> HIDE DEF Known
  <2> QED
    BY <2>2, <2>3, <2>4, Upwards
<1>5. (\A k \in 1 .. n : Remembers(base, rows[k])) => n \in Equal
  <2>1. SUFFICES ASSUME \A k \in 1 .. n : Remembers(base, rows[k]) PROVE n \in Equal
    OBVIOUS
  <2>2. 0 \in Equal
    BY <1>2
  <2>3. ASSUME NEW k \in 1 .. n, k - 1 \in Equal PROVE k \in Equal
    <3>1. st[k] = RestoreMemory(base, rows[k]) /\ rows[k] \in MemoryRow
      BY <1>1, <1>2, <2>3
    <3>2. st[k] = base
      BY <2>1, <3>1, RowRestored
    <3> QED
      BY <3>2
  <2>4. Equal \in SUBSET (0 .. n)
    OBVIOUS
  <2> HIDE DEF Equal
  <2> QED
    BY <2>2, <2>3, <2>4, Upwards
<1> QED
  BY <1>1, <1>2, <1>3, <1>4, <1>5

-----------------------------------------------------------------------------
(* The inductive invariant                                                 *)

MarkedRow == [state: Marks, starred: BOOLEAN, done: BOOLEAN]
MarkRow == {Unmarked} \cup MarkedRow
Consent == [email: BOOLEAN, analytics: BOOLEAN]
IsEvent(e) == e.content \in Contents /\ e.at \in 1 .. MaxEvents

\* What an archive holds.
Archived(a) ==
  /\ DOMAIN a.articles \subseteq Addresses
  /\ \A u \in DOMAIN a.articles : a.articles[u] \in MarkedRow /\ a.articles[u] # Unmarked
  /\ DOMAIN a.briefings \subseteq 1 .. MaxReports
  /\ a.memories \in Seq(MemoryRow)
  /\ IsFiniteSet(a.events) /\ \A e \in a.events : IsEvent(e)
  /\ DOMAIN a.feeds \subseteq Feeds /\ \A f \in DOMAIN a.feeds : a.feeds[f] \in BOOLEAN
  /\ a.consent \in Consent

\* What a restore leaves for a second one: nothing, but for the articles.
Settled ==
  /\ archive.events \subseteq events
  /\ Once(archive.memories) =>
       \A k \in 1 .. Len(archive.memories) : Remembers(memories, archive.memories[k])
  /\ \A f \in DOMAIN archive.feeds :
       /\ f = "own" => feeds[f] # "none"
       /\ feeds[f] # "another's" => (f \in followed <=> archive.feeds[f])
  /\ consent = RestoredConsent
  /\ \A u \in restored.settled :
       u \in DOMAIN archive.articles /\ marked[u] # Unmarked /\ marked[u] = RestoredRow(u)

AccountTyped ==
  /\ reports \in [DOMAIN reports -> SUBSET Addresses]
  /\ memories \in Seq(MemoryRow) /\ IsFiniteSet(events)
  /\ archive # NoArchive => Archived(archive)

JustTaken ==
  restored.untouched /\ (restored.times = 0 \/ Once(archive.memories))
    => archive # NoArchive /\ Export = archive

OnceRestored ==
  restored.times = 1 => restored.first = Export /\ Settled

ArchiveGood ==
  /\ ArchiveTypeOK /\ AccountTyped /\ ReadsAreCredited
  /\ restored.times > 0 => archive # NoArchive
  /\ JustTaken /\ OnceRestored
  /\ RestoreIsTrue /\ RestoreIsOnce

-----------------------------------------------------------------------------
(* The steps                                                               *)

LEMMA Bounds == {MaxReports, MaxMemories, MaxEvents, MaxEdits} \subseteq Nat /\ {"today", "done"} \subseteq Marks
BY ArchiveAssumption

LEMMA MarkRowIs ==
  ASSUME NEW k \in MarkRow
  PROVE  /\ k \in [state: Marks \cup {"none"}, starred: BOOLEAN, done: BOOLEAN]
         /\ k.starred \in BOOLEAN /\ k.done \in BOOLEAN /\ k.state \in Marks \cup {"none"}
<1>1. CASE k = Unmarked
  BY <1>1 DEF Unmarked
<1>2. CASE k \in MarkedRow
  BY <1>2 DEF MarkedRow
<1> QED
  BY <1>1, <1>2 DEF MarkRow

\* What a change makes of a row.
LEMMA MarkRowChanged ==
  ASSUME NEW k \in MarkRow
  PROVE  /\ Starred(k) \in MarkedRow /\ Starred(k).done = k.done
         /\ \A s \in Marks : Moved(k, s) \in MarkedRow
<1> DEFINE Loose == [state: Marks \cup {"none"}, starred: BOOLEAN, done: BOOLEAN]
<1>1. k \in Loose
  BY MarkRowIs
<1>2. ASSUME NEW j \in Loose, NEW s \in Marks
      PROVE  [j EXCEPT !.state = s] \in MarkedRow /\ [j EXCEPT !.state = s].done = j.done
  BY DEF MarkedRow
<1>3. ASSUME NEW b \in BOOLEAN
      PROVE  [k EXCEPT !.starred = b] \in Loose /\ [k EXCEPT !.starred = b].done = k.done
  BY <1>1
<1>4. ASSUME NEW j \in MarkedRow, NEW b \in BOOLEAN
      PROVE  [j EXCEPT !.done = b] \in MarkedRow
  BY DEF MarkedRow
<1> HIDE DEF Loose
<1>5. Starred(k) \in MarkedRow /\ Starred(k).done = k.done
  <2>1. PICK b \in BOOLEAN : b = ~k.starred
    OBVIOUS
  <2>2. PICK s \in Marks : s = IF k.state = "none" THEN "today" ELSE k.state
    BY Bounds, MarkRowIs
  <2>3. Starred(k) = [k EXCEPT !.starred = b, !.state = s]
    BY <2>1, <2>2, Zenon DEF Starred
  <2>4. PICK j \in Loose : j = [k EXCEPT !.starred = b] /\ j.done = k.done
    BY <1>3
  <2>5. Starred(k) = [j EXCEPT !.state = s]
    <3>1. [k EXCEPT !.starred = b, !.state = s] = [[k EXCEPT !.starred = b] EXCEPT !.state = s]
      OBVIOUS
    <3> QED
      BY <2>3, <2>4, <3>1, Zenon
  <2> QED
    BY <1>2, <2>4, <2>5
<1>6. ASSUME NEW s \in Marks PROVE Moved(k, s) \in MarkedRow
  <2>1. PICK b \in BOOLEAN : b = (k.done \/ s = "done")
    OBVIOUS
  <2>2. PICK j \in MarkedRow : j = [k EXCEPT !.state = s]
    BY <1>1, <1>2
  <2>3. Moved(k, s) = [k EXCEPT !.state = s, !.done = b]
    BY <2>1, Zenon DEF Moved
  <2>4. [k EXCEPT !.state = s, !.done = b] = [[k EXCEPT !.state = s] EXCEPT !.done = b]
    OBVIOUS
  <2>5. Moved(k, s) = [j EXCEPT !.done = b]
    BY <2>2, <2>3, <2>4, Zenon
  <2> QED
    BY <1>4, <2>5
<1> QED
  BY <1>5, <1>6

\* What undoes the record of the restores has only types and credits to keep.
LEMMA Unrestored ==
  ASSUME restored' = NoRestore, ArchiveTypeOK', AccountTyped', ReadsAreCredited'
  PROVE  ArchiveGood'
BY DEF NoRestore, ArchiveGood, JustTaken, OnceRestored, RestoreIsTrue, RestoreIsOnce

LEMMA ArchiveInitGood == ArchiveInit => ArchiveGood
<1> SUFFICES ASSUME ArchiveInit PROVE ArchiveGood
  OBVIOUS
<1>1. ArchiveTypeOK
  BY ArchiveAssumption DEF ArchiveInit, ArchiveTypeOK, Feeds, NoRestore
<1>2. AccountTyped
  BY EmptySeq, FS_EmptySet DEF ArchiveInit, AccountTyped
<1>3. ReadsAreCredited
  BY DEF ArchiveInit, ReadsAreCredited, Unmarked
<1> QED
  BY <1>1, <1>2, <1>3
     DEF ArchiveInit, NoRestore, ArchiveGood, JustTaken, OnceRestored, RestoreIsTrue, RestoreIsOnce

\* An event that happened is one, and there is a moment for it.
LEMMA HappenedTyped ==
  ASSUME ArchiveGood, NEW type, NEW c \in Contents, Happened(type, c)
  PROVE  IsFiniteSet(events') /\ \A e \in events' : e.content \in Contents /\ e.at \in 1 .. MaxEvents
<1>1. IsFiniteSet(events) /\ Cardinality(events) \in Nat /\ \A e \in events : e.content \in Contents /\ e.at \in 1 .. MaxEvents
  BY FS_CardinalityType DEF ArchiveGood, AccountTyped, ArchiveTypeOK
<1>2. Cardinality(events) + 1 \in 1 .. MaxEvents
  BY <1>1, ArchiveAssumption DEF Happened
<1> DEFINE e1 == [type |-> type, content |-> c, at |-> Cardinality(events) + 1]
<1>3. e1.content = c /\ e1.at = Cardinality(events) + 1
  OBVIOUS
<1>4. events' = events \cup {e1}
  BY DEF Happened
<1> HIDE DEF e1
<1> QED
  BY <1>1, <1>2, <1>3, <1>4, FS_AddElement

\* What is remembered stays rows of memories.
LEMMA MemoryChanges ==
  ASSUME ArchiveGood
  PROVE  /\ \A c \in Contents : Remembered(c) \in Seq(MemoryRow)
         /\ \A i \in DOMAIN memories :
              /\ memories[i].content \in Contents
              /\ \A a \in BOOLEAN : [memories EXCEPT ![i].active = a] \in Seq(MemoryRow)
              /\ \A c \in Contents : [memories EXCEPT ![i].content = c] \in Seq(MemoryRow)
<1>1. /\ memories \in Seq(MemoryRow) /\ DOMAIN memories = 1 .. Len(memories)
      /\ \A i \in 1 .. Len(memories) : memories[i] \in MemoryRow
  BY LenProperties, ElementOfSeq DEF ArchiveGood, AccountTyped
<1>2. ASSUME NEW c \in Contents PROVE Remembered(c) \in Seq(MemoryRow)
  <2>1. [content |-> c, active |-> TRUE] \in MemoryRow
    BY DEF MemoryRow
  <2> QED
    BY <1>1, <2>1, AppendProperties DEF Remembered
<1>3. ASSUME NEW i \in 1 .. Len(memories), NEW m \in MemoryRow
      PROVE  [memories EXCEPT ![i] = m] \in Seq(MemoryRow)
  BY <1>1, ExceptSeq
<1>4. ASSUME NEW i \in 1 .. Len(memories), NEW a \in BOOLEAN
      PROVE  [memories EXCEPT ![i].active = a] \in Seq(MemoryRow)
  <2>1. PICK m \in MemoryRow : m = [memories[i] EXCEPT !.active = a]
    BY <1>1 DEF MemoryRow
  <2>2. [memories EXCEPT ![i].active = a] = [memories EXCEPT ![i] = m]
    BY <2>1
  <2> QED
    BY <1>3, <2>2
<1>5. ASSUME NEW i \in 1 .. Len(memories), NEW c \in Contents
      PROVE  [memories EXCEPT ![i].content = c] \in Seq(MemoryRow)
  <2>1. PICK m \in MemoryRow : m = [memories[i] EXCEPT !.content = c]
    BY <1>1 DEF MemoryRow
  <2>2. [memories EXCEPT ![i].content = c] = [memories EXCEPT ![i] = m]
    BY <2>1
  <2> QED
    BY <1>3, <2>2
<1>6. \A i \in 1 .. Len(memories) : memories[i].content \in Contents
  BY <1>1 DEF MemoryRow
<1> QED
  BY <1>1, <1>2, <1>4, <1>5, <1>6

LEMMA ExportArchived ==
  ASSUME ArchiveGood
  PROVE  Archived(Export) /\ Export # NoArchive
<1>1. /\ Export.articles = ExportArticles /\ Export.briefings = reports /\ Export.memories = memories
      /\ Export.events = events /\ Export.feeds = ExportFeeds /\ Export.consent = consent
  BY DEF Export
<1>2. DOMAIN ExportArticles \subseteq Addresses
      /\ \A u \in DOMAIN ExportArticles : ExportArticles[u] \in MarkedRow /\ ExportArticles[u] # Unmarked
  BY DEF ExportArticles, ArchiveGood, ArchiveTypeOK, MarkedRow
<1>3. DOMAIN ExportFeeds \subseteq Feeds /\ \A f \in DOMAIN ExportFeeds : ExportFeeds[f] \in BOOLEAN
  <2>1. \A f \in DOMAIN ExportFeeds : ExportFeeds[f] = (f \in followed)
    BY Zenon DEF ExportFeeds
  <2> QED
    <3>1. DOMAIN ExportFeeds \subseteq Feeds
      BY DEF ExportFeeds
    <3>2. \A f : (f \in followed) \in BOOLEAN
      OBVIOUS
    <3> QED
      BY <2>1, <3>1, <3>2, Zenon
<1>4. Export # NoArchive
  <2>1. DOMAIN Export = {"articles", "briefings", "memories", "events", "feeds", "consent"}
        /\ DOMAIN NoArchive = {"none"}
    BY DEF Export, NoArchive
  <2> QED
    BY <2>1
<1> QED
  BY <1>1, <1>2, <1>3, <1>4 DEF Archived, ArchiveGood, AccountTyped, ArchiveTypeOK, IsEvent, Consent

LEMMA TakeExportGood ==
  ASSUME ArchiveGood, TakeExport
  PROVE  ArchiveGood'
<1>1. /\ archive' = Export /\ UNCHANGED <<account, edits>>
      /\ restored'.times = 0 /\ restored'.untouched = TRUE
  BY DEF TakeExport, NoRestore
<1>2. UNCHANGED <<present, marked, read, feeds, followed, reports, memories, events, consent, edits>>
  BY <1>1 DEF account
<1>3. Export' = Export
  BY <1>2 DEF Export, ExportArticles, ExportFeeds
<1>4. Archived(archive)' /\ archive' # NoArchive
  BY <1>1, ExportArchived DEF Archived
<1>5. ArchiveTypeOK'
  BY <1>1, <1>2 DEF ArchiveGood, ArchiveTypeOK
<1>6. AccountTyped' /\ ReadsAreCredited'
  BY <1>2, <1>4 DEF ArchiveGood, AccountTyped, ReadsAreCredited
<1> QED
  BY <1>1, <1>3, <1>4, <1>5, <1>6 DEF ArchiveGood, JustTaken, OnceRestored, RestoreIsTrue, RestoreIsOnce

\* A change of the reader's rows of articles.
LEMMA MarksGood ==
  ASSUME ArchiveGood, NEW u \in Addresses,
         StarMark(u) \/ RetentionDeletes(u) \/ \E s \in Marks : Mark(u, s)
  PROVE  ArchiveGood'
<1>1. /\ restored' = NoRestore /\ UNCHANGED <<feeds, followed, reports, memories, events, consent, archive>>
      /\ edits' \in 0 .. MaxEdits
  <2>1. edits \in 0 .. MaxEdits /\ MaxEdits \in Nat
    BY Bounds DEF ArchiveGood, ArchiveTypeOK
  <2>2. edits' = edits \/ (edits < MaxEdits /\ edits' = edits + 1)
    <3>1. Edit \/ UNCHANGED edits
      BY DEF StarMark, RetentionDeletes, Mark
    <3> QED
      BY <3>1 DEF Edit
  <2>3. edits' \in 0 .. MaxEdits
    BY <2>1, <2>2
  <2> QED
    BY <2>3 DEF StarMark, RetentionDeletes, Mark, Edit
<1>2. marked \in [Addresses -> MarkRow] /\ \A v \in Addresses : marked[v].done => v \in read
  BY DEF ArchiveGood, ArchiveTypeOK, MarkRow, MarkedRow, ReadsAreCredited
<1>3. /\ marked' \in [Addresses -> MarkRow] /\ read' \subseteq Addresses
      /\ \A v \in Addresses : marked'[v].done => v \in read'
      /\ present' \subseteq Addresses /\ \A t \in DOMAIN reports : reports[t] \subseteq present'
  <2>1. present \subseteq Addresses /\ read \subseteq Addresses /\ \A t \in DOMAIN reports : reports[t] \subseteq present
    BY DEF ArchiveGood, ArchiveTypeOK
  <2>2. marked[u] \in MarkRow
    BY <1>2
  <2>3. CASE \E s \in Marks : Mark(u, s)
    <3>1. PICK s \in Marks : Mark(u, s)
      BY <2>3
    <3>2. PICK m \in MarkRow : m = Moved(marked[u], s)
      BY <2>2, MarkRowChanged DEF MarkRow
    <3>3. /\ marked' = [marked EXCEPT ![u] = m] /\ read' = read \cup Credited(u, marked'[u])
          /\ UNCHANGED present
      BY <3>1, <3>2 DEF Mark
    <3>4. m.done => u \in Credited(u, m)
      BY DEF Credited
    <3>5. marked'[u] = m /\ \A v \in Addresses : v # u => marked'[v] = marked[v]
      BY <1>2, <3>3
    <3>6. Credited(u, m) \subseteq {u}
      BY DEF Credited
    <3> QED
      BY <1>2, <2>1, <3>3, <3>4, <3>5, <3>6
  <2>4. CASE StarMark(u)
    <3>2. PICK m \in MarkedRow : m = Starred(marked[u]) /\ m.done = marked[u].done
      BY <2>2, MarkRowChanged
    <3>3. marked' = [marked EXCEPT ![u] = m] /\ UNCHANGED <<present, read>> /\ m \in MarkRow
      BY <2>4, <3>2 DEF StarMark, MarkRow
    <3> QED
      BY <1>2, <2>1, <3>2, <3>3
  <2>5. CASE RetentionDeletes(u)
    BY <1>2, <2>1, <2>5 DEF RetentionDeletes, MarkRow, Unmarked
  <2> QED
    BY <2>3, <2>4, <2>5
<1>4. ArchiveTypeOK'
  BY <1>1, <1>3 DEF ArchiveGood, ArchiveTypeOK, MarkRow, MarkedRow, NoRestore
<1>5. AccountTyped' /\ ReadsAreCredited'
  BY <1>1, <1>3 DEF ArchiveGood, AccountTyped, Archived, ReadsAreCredited
<1> QED
  BY <1>1, <1>4, <1>5, Unrestored

\* A change that leaves the rows of articles, their credits and the archive.
LEMMA EditGood ==
  ASSUME ArchiveGood, Edit, UNCHANGED <<marked, read>>,
         present' \subseteq Addresses, feeds' \in [Feeds -> {"none", "live", "deleted", "another's"}],
         followed' \subseteq Feeds,
         DOMAIN reports' \subseteq 1 .. MaxReports, \A t \in DOMAIN reports' : reports'[t] \subseteq present',
         reports' \in [DOMAIN reports' -> SUBSET Addresses],
         memories' \in Seq(MemoryRow),
         IsFiniteSet(events'), \A e \in events' : e.content \in Contents /\ e.at \in 1 .. MaxEvents,
         consent' \in Consent
  PROVE  ArchiveGood'
<1>1. restored' = NoRestore /\ UNCHANGED archive /\ edits' \in 0 .. MaxEdits
  <2>1. edits \in 0 .. MaxEdits /\ MaxEdits \in Nat
    BY Bounds DEF ArchiveGood, ArchiveTypeOK
  <2> QED
    BY <2>1 DEF Edit
<1>2. \A i \in DOMAIN memories' : memories'[i] \in [content: Contents, active: BOOLEAN]
  <2>1. PICK ms \in Seq(MemoryRow) : ms = memories'
    OBVIOUS
  <2>2. \A i \in DOMAIN ms : ms[i] \in MemoryRow
    BY LenProperties, ElementOfSeq
  <2> QED
    BY <2>1, <2>2, Zenon DEF MemoryRow
<1>3. restored'.times \in 0 .. 2
  BY <1>1 DEF NoRestore
<1>4. ArchiveTypeOK'
  BY <1>1, <1>2, <1>3 DEF ArchiveGood, ArchiveTypeOK, Consent
<1>5. AccountTyped' /\ ReadsAreCredited'
  BY <1>1 DEF ArchiveGood, AccountTyped, Archived, ReadsAreCredited
<1> QED
  BY <1>1, <1>4, <1>5, Unrestored

LEMMA AccountTypes ==
  ASSUME ArchiveGood
  PROVE  /\ present \subseteq Addresses /\ read \subseteq Addresses
         /\ marked \in [Addresses -> MarkRow] /\ \A u \in Addresses : marked[u].done => u \in read
         /\ feeds \in [Feeds -> {"none", "live", "deleted", "another's"}] /\ followed \subseteq Feeds
         /\ DOMAIN reports \subseteq 1 .. MaxReports /\ \A t \in DOMAIN reports : reports[t] \subseteq present
         /\ reports \in [DOMAIN reports -> SUBSET Addresses]
         /\ memories \in Seq(MemoryRow) /\ DOMAIN memories = 1 .. Len(memories)
         /\ IsFiniteSet(events) /\ \A e \in events : e.content \in Contents /\ e.at \in 1 .. MaxEvents
         /\ consent \in Consent
         /\ archive # NoArchive => Archived(archive)
         /\ edits \in 0 .. MaxEdits /\ restored.times \in 0 .. 2
BY LenProperties
   DEF ArchiveGood, ArchiveTypeOK, AccountTyped, ReadsAreCredited, MarkRow, MarkedRow, Consent

LEMMA ChangeFeedGood ==
  ASSUME ArchiveGood, NEW f \in Feeds, ChangeFeed(f)
  PROVE  ArchiveGood'
<1>1. Edit /\ UNCHANGED <<marked, read, reports, memories, events, consent>>
  BY DEF ChangeFeed
<1>2. /\ present \subseteq present' /\ present' \subseteq Addresses
      /\ feeds' \in [Feeds -> {"none", "live", "deleted", "another's"}] /\ followed' \subseteq Feeds
  BY AccountTypes DEF ChangeFeed, Feeds
<1> QED
  BY <1>1, <1>2, AccountTypes, EditGood

LEMMA BriefGood ==
  ASSUME ArchiveGood, NEW S \in SUBSET Addresses, Brief(S)
  PROVE  ArchiveGood'
<1>1. Edit /\ S \subseteq present /\ UNCHANGED <<present, marked, read, feeds, followed, memories, events, consent>>
  BY DEF Brief
<1>2. IsFiniteSet(DOMAIN reports) /\ Cardinality(DOMAIN reports) \in Nat /\ MaxReports \in Nat
  <2>1. MaxReports \in Nat /\ 1 \in Int /\ DOMAIN reports \in SUBSET (1 .. MaxReports)
    BY Bounds, AccountTypes
  <2>2. MaxReports \in Int
    BY <2>1
  <2>3. IsFiniteSet(1 .. MaxReports)
    BY <2>1, <2>2, FS_Interval, Zenon
  <2> QED
    BY <2>1, <2>3, FS_Subset, FS_CardinalityType
<1>3. PICK m \in 1 .. MaxReports : m = Cardinality(DOMAIN reports) + 1
  BY <1>2 DEF Brief
<1>4. reports' = [t \in 1 .. m |-> IF t \in DOMAIN reports THEN reports[t] ELSE S]
  BY <1>3 DEF Brief
<1>5. /\ DOMAIN reports' = 1 .. m /\ \A t \in 1 .. m : reports'[t] \subseteq present
      /\ reports' \in [1 .. m -> SUBSET Addresses]
  BY <1>1, <1>4, AccountTypes
<1>6. 1 .. m \subseteq 1 .. MaxReports
  BY <1>2
<1> QED
  BY <1>1, <1>5, <1>6, AccountTypes, EditGood

LEMMA MemoriesGood ==
  ASSUME ArchiveGood,
         \/ \E c \in Contents : CreateMemory(c) \/ LearnFromReading(c)
         \/ \E i \in DOMAIN memories : UpdateMemory(i)
  PROVE  ArchiveGood'
<1>1. Edit /\ UNCHANGED <<present, marked, read, feeds, followed, reports, consent>>
  BY DEF CreateMemory, LearnFromReading, UpdateMemory
<1>2. memories' \in Seq(MemoryRow) /\ \E c \in Contents : \E type : Happened(type, c)
  <2>1. CASE \E c \in Contents : CreateMemory(c) \/ LearnFromReading(c)
    <3>1. memories \in Seq(MemoryRow) /\ \A c \in Contents : Remembered(c) \in Seq(MemoryRow)
      BY AccountTypes, MemoryChanges
    <3> QED
      BY <2>1, <3>1, Zenon DEF CreateMemory, LearnFromReading
  <2>2. CASE \E i \in DOMAIN memories : UpdateMemory(i)
    <3>1. PICK i \in DOMAIN memories : UpdateMemory(i)
      BY <2>2
    <3>2. /\ memories[i].content \in Contents
          /\ [memories EXCEPT ![i].active = FALSE] \in Seq(MemoryRow)
          /\ [memories EXCEPT ![i].active = TRUE] \in Seq(MemoryRow)
          /\ \A c \in Contents : [memories EXCEPT ![i].content = c] \in Seq(MemoryRow)
      BY MemoryChanges
    <3>3. \/ memories' = [memories EXCEPT ![i].active = FALSE] /\ Happened("deactivated", memories[i].content)
          \/ \E c \in Contents : memories' = [memories EXCEPT ![i].content = c] /\ Happened("updated", c)
          \/ memories' = [memories EXCEPT ![i].active = TRUE] /\ Happened("updated", memories[i].content)
      BY <3>1, Zenon DEF UpdateMemory
    <3> QED
      BY <3>2, <3>3, Zenon
  <2> QED
    BY <2>1, <2>2
<1>3. IsFiniteSet(events') /\ \A e \in events' : e.content \in Contents /\ e.at \in 1 .. MaxEvents
  BY <1>2, HappenedTyped
<1> QED
  BY <1>1, <1>2, <1>3, AccountTypes, EditGood

LEMMA ConsentGood ==
  ASSUME ArchiveGood, NEW c \in [email: BOOLEAN, analytics: BOOLEAN], ChangeConsentTo(c)
  PROVE  ArchiveGood'
<1>1. Edit /\ UNCHANGED <<present, marked, read, feeds, followed, reports, memories, events>> /\ consent' \in Consent
  BY DEF ChangeConsentTo, Consent
<1> QED
  BY <1>1, AccountTypes, EditGood

LEMMA NewAccountGood ==
  ASSUME ArchiveGood, NewAccount
  PROVE  ArchiveGood'
<1>1. /\ edits' = MaxEdits /\ restored' = NoRestore /\ UNCHANGED archive /\ read' = {}
      /\ marked' = [u \in Addresses |-> Unmarked]
      /\ reports' = <<>> /\ memories' = <<>> /\ events' = {} /\ followed' = Feeds
      /\ consent' = [email |-> FALSE, analytics |-> TRUE]
  BY DEF NewAccount
<1>2. /\ present' \subseteq Addresses /\ feeds' \in [Feeds -> {"none", "live", "deleted", "another's"}]
  BY AccountTypes DEF NewAccount, Feeds
<1>3. MaxEdits \in 0 .. MaxEdits
  BY Bounds
<1>4. DOMAIN reports' = {} /\ DOMAIN memories' = {} /\ memories' \in Seq(MemoryRow) /\ IsFiniteSet(events')
  BY <1>1, EmptySeq, FS_EmptySet
<1>5. ArchiveTypeOK'
  BY <1>1, <1>2, <1>3, <1>4 DEF ArchiveTypeOK, NoRestore
<1>6. AccountTyped' /\ ReadsAreCredited'
  BY <1>1, <1>4 DEF ArchiveGood, AccountTyped, Archived, ReadsAreCredited, Unmarked
<1> QED
  BY <1>1, <1>5, <1>6, Unrestored

-----------------------------------------------------------------------------
(* The restore                                                             *)

LEMMA RestoredRowIs ==
  ASSUME NEW k \in MarkedRow, NEW b \in BOOLEAN, NEW m, m = [k EXCEPT !.done = b]
  PROVE  m \in MarkedRow /\ m.state = k.state /\ m.starred = k.starred /\ m.done = b
BY DEF MarkedRow

\* What a restore makes of the account, by its parts.
LEMMA RestoreDoes ==
  ASSUME ArchiveGood, NEW broken \in SUBSET Addresses, Restore(broken)
  PROVE  /\ archive # NoArchive /\ Archived(archive) /\ restored.times \in {0, 1}
         /\ UNCHANGED <<archive, edits>>
         /\ Authorized(broken) \subseteq DOMAIN archive.articles /\ Authorized(broken) \subseteq Addresses
         /\ \A u \in Authorized(broken) :
              /\ marked'[u] = RestoredRow(u) /\ marked'[u] \in MarkedRow /\ marked'[u] # Unmarked
              /\ marked'[u].state = archive.articles[u].state
              /\ marked'[u].starred = archive.articles[u].starred
              /\ marked'[u].done = (archive.articles[u].done \/ marked[u].done)
         /\ \A u \in Addresses \ Authorized(broken) : marked'[u] = marked[u]
         /\ marked' \in [Addresses -> MarkRow]
<1>1. /\ archive # NoArchive /\ restored.times \in {0, 1} /\ UNCHANGED <<archive, edits>>
      /\ marked' = [u \in Addresses |-> IF u \in Authorized(broken) THEN RestoredRow(u) ELSE marked[u]]
  BY AccountTypes DEF Restore, RestoreArticles
<1>2. Archived(archive) /\ marked \in [Addresses -> MarkRow]
  BY <1>1, AccountTypes
<1>3. Authorized(broken) \subseteq DOMAIN archive.articles /\ Authorized(broken) \subseteq Addresses
  BY <1>2 DEF Authorized, Resolved, Archived
<1>4. ASSUME NEW u \in Authorized(broken)
      PROVE  /\ marked'[u] = RestoredRow(u) /\ marked'[u] \in MarkedRow /\ marked'[u] # Unmarked
             /\ marked'[u].state = archive.articles[u].state
             /\ marked'[u].starred = archive.articles[u].starred
             /\ marked'[u].done = (archive.articles[u].done \/ marked[u].done)
  <2>1. marked'[u] = RestoredRow(u) /\ u \in DOMAIN archive.articles
    BY <1>1, <1>3
  <2>2. PICK k \in MarkedRow : k = archive.articles[u] /\ k # Unmarked
    BY <1>2, <2>1 DEF Archived
  <2>3. PICK b \in BOOLEAN : b = (k.done \/ marked[u].done)
    OBVIOUS
  <2>4. RestoredRow(u) = [k EXCEPT !.done = b]
    BY <2>2, <2>3, Zenon DEF RestoredRow
  <2>5. PICK m \in MarkedRow : /\ m = RestoredRow(u) /\ m.state = k.state /\ m.starred = k.starred /\ m.done = b
    BY <2>4, RestoredRowIs
  <2>6. m # Unmarked
    <3>1. ASSUME m = Unmarked PROVE FALSE
      <4>1. m.state = "none" /\ m.starred = FALSE /\ m.done = FALSE
        BY <3>1 DEF Unmarked
      <4>2. k.state = "none" /\ k.starred = FALSE /\ k.done = FALSE
        <5>1. ~b
          BY <2>5, <4>1
        <5>2. k.done \in BOOLEAN
          BY DEF MarkedRow
        <5> QED
          BY <2>3, <2>5, <4>1, <5>1, <5>2
      <4> QED
        BY <2>2, <4>2 DEF MarkedRow, Unmarked
    <3> QED
      BY <3>1
  <2> QED
    BY <2>1, <2>2, <2>3, <2>5, <2>6
<1>5. ASSUME NEW u \in Addresses \ Authorized(broken) PROVE marked'[u] = marked[u]
  BY <1>1
<1>6. marked' \in [Addresses -> MarkRow]
  <2>1. \A u \in Addresses : marked'[u] \in MarkRow
    BY <1>2, <1>4, <1>5 DEF MarkRow
  <2> QED
    BY <1>1, <2>1
<1> QED
  BY <1>1, <1>2, <1>3, <1>4, <1>5, <1>6

\* What it makes of the other parts.
LEMMA RestoreTyped ==
  ASSUME ArchiveGood, NEW broken \in SUBSET Addresses, Restore(broken)
  PROVE  /\ present' \subseteq Addresses /\ read' \subseteq Addresses
         /\ \A u \in Addresses : marked'[u].done => u \in read'
         /\ feeds' \in [Feeds -> {"none", "live", "deleted", "another's"}] /\ followed' \subseteq Feeds
         /\ DOMAIN reports' \subseteq 1 .. MaxReports /\ \A t \in DOMAIN reports' : reports'[t] \subseteq present'
         /\ reports' \in [DOMAIN reports' -> SUBSET Addresses]
         /\ \A t \in DOMAIN archive.briefings : archive.briefings[t] \cap present' \subseteq reports'[t]
         /\ memories' = Recalled(memories, archive.memories) /\ memories' \in Seq(MemoryRow)
         /\ events' = events \cup archive.events /\ IsFiniteSet(events') /\ \A e \in events' : IsEvent(e)
         /\ consent' = RestoredConsent /\ consent' \in Consent
         /\ consent'.email = (consent.email /\ archive.consent.email)
         /\ consent'.analytics = archive.consent.analytics
<1>1. archive # NoArchive /\ Archived(archive) /\ Authorized(broken) \subseteq Addresses
  BY RestoreDoes
<1>2. present' \subseteq Addresses /\ present \subseteq present'
  BY <1>1, AccountTypes DEF Restore, RestoreArticles, Resolved, Archived
<1>3. read' = read \cup UNION {Credited(u, marked'[u]) : u \in Authorized(broken)}
  BY DEF Restore, RestoreArticles
<1>4. read' \subseteq Addresses
  <2>1. \A u \in Authorized(broken) : Credited(u, marked'[u]) \subseteq Addresses
    BY <1>1 DEF Credited
  <2> QED
    BY <1>3, <2>1, AccountTypes
<1>5. ASSUME NEW u \in Addresses, marked'[u].done PROVE u \in read'
  <2>1. CASE u \in Authorized(broken)
    <3>1. u \in Credited(u, marked'[u])
      BY <1>5 DEF Credited
    <3> QED
      BY <1>3, <2>1, <3>1
  <2>2. CASE u \notin Authorized(broken)
    <3>1. marked'[u] = marked[u]
      BY <2>2, RestoreDoes
    <3> QED
      BY <1>3, <1>5, <3>1, AccountTypes
  <2> QED
    BY <2>1, <2>2
<1>6. feeds' \in [Feeds -> {"none", "live", "deleted", "another's"}] /\ followed' \subseteq Feeds
  BY AccountTypes DEF Restore, RestoreFeeds
<1>7. reports' =
        [t \in DOMAIN reports \cup DOMAIN archive.briefings |->
           (IF t \in DOMAIN reports THEN reports[t] ELSE {})
             \cup (IF t \in DOMAIN archive.briefings THEN archive.briefings[t] \cap present' ELSE {})]
  BY DEF Restore, RestoreReports
<1>8. /\ DOMAIN reports' \subseteq 1 .. MaxReports /\ \A t \in DOMAIN reports' : reports'[t] \subseteq present'
      /\ reports' \in [DOMAIN reports' -> SUBSET Addresses]
      /\ \A t \in DOMAIN archive.briefings : archive.briefings[t] \cap present' \subseteq reports'[t]
  <2>1. DOMAIN reports \subseteq 1 .. MaxReports /\ \A t \in DOMAIN reports : reports[t] \subseteq present
    BY AccountTypes
  <2>2. DOMAIN archive.briefings \subseteq 1 .. MaxReports
    BY <1>1 DEF Archived
  <2> QED
    BY <1>2, <1>7, <2>1, <2>2
<1>9. memories' = Recalled(memories, archive.memories) /\ memories' \in Seq(MemoryRow)
  <2>1. memories \in Seq(MemoryRow) /\ archive.memories \in Seq(MemoryRow)
    BY <1>1, AccountTypes DEF Archived
  <2>2. Recalled(memories, archive.memories) \in Seq(MemoryRow)
    BY <2>1, MemoriesRestored
  <2> QED
    BY <2>2 DEF Restore, RestoreMemories
<1>10. events' = events \cup archive.events /\ IsFiniteSet(events') /\ \A e \in events' : IsEvent(e)
  <2>1. events' = events \cup archive.events
    BY DEF Restore, RestoreMemories
  <2>2. IsFiniteSet(archive.events) /\ \A e \in archive.events : IsEvent(e)
    BY <1>1 DEF Archived
  <2>3. IsFiniteSet(events) /\ \A e \in events : IsEvent(e)
    BY AccountTypes DEF IsEvent
  <2> QED
    BY <2>1, <2>2, <2>3, FS_Union
<1>11. /\ consent' = RestoredConsent /\ consent' \in Consent
       /\ consent'.email = (consent.email /\ archive.consent.email)
       /\ consent'.analytics = archive.consent.analytics
  <2>1. consent' = RestoredConsent /\ consent \in Consent /\ archive.consent \in Consent
    BY <1>1, AccountTypes DEF Restore, Archived
  <2>2. PICK b \in BOOLEAN : b = (consent.email /\ archive.consent.email)
    OBVIOUS
  <2>3. consent' = [email |-> b, analytics |-> archive.consent.analytics] /\ archive.consent.analytics \in BOOLEAN
    BY <2>1, <2>2 DEF RestoredConsent, Consent
  <2> QED
    BY <2>1, <2>2, <2>3 DEF Consent
<1> QED
  BY <1>2, <1>4, <1>5, <1>6, <1>8, <1>9, <1>10, <1>11

\* What is counted, and kept to compare with.
LEMMA RestoreCounts ==
  ASSUME NEW broken \in SUBSET Addresses, Restore(broken)
  PROVE  /\ restored'.times = restored.times + 1 /\ restored'.untouched = restored.untouched
         /\ restored'.skipped = DOMAIN archive.articles \ Authorized(broken)
         /\ restored'.added = {u \in Authorized(broken) : marked[u] = Unmarked}
         /\ restored'.updated = {u \in Authorized(broken) : marked[u] # Unmarked}
         /\ restored'.settled = IF restored.times = 0 THEN Authorized(broken) ELSE restored.settled
         /\ restored'.first = IF restored.times = 0 THEN Export' ELSE restored.first
         /\ restored'.before = Export
BY DEF Restore

\* To restore what the account holds changes nothing.
LEMMA NothingRestored ==
  ASSUME ArchiveGood, NEW broken \in SUBSET Addresses, Restore(broken),
         Export = archive, Once(archive.memories)
  PROVE  Export' = archive
<1>1. /\ archive.articles = ExportArticles /\ archive.briefings = reports /\ archive.memories = memories
      /\ archive.events = events /\ archive.feeds = ExportFeeds /\ archive.consent = consent
  BY DEF Export
<1>2. UNCHANGED marked
  <2>1. ASSUME NEW u \in Authorized(broken) PROVE marked'[u] = marked[u]
    <3>1. u \in DOMAIN archive.articles /\ archive.articles[u] = marked[u] /\ marked'[u] \in MarkedRow
          /\ marked'[u].state = marked[u].state /\ marked'[u].starred = marked[u].starred
          /\ marked'[u].done = (marked[u].done \/ marked[u].done)
      BY <1>1, RestoreDoes DEF ExportArticles
    <3>2. marked[u] \in MarkedRow
      BY <3>1, RestoreDoes DEF Archived
    <3>3. marked'[u].done = marked[u].done
      BY <3>1, <3>2 DEF MarkedRow
    <3> QED
      BY <3>1, <3>2, <3>3 DEF MarkedRow
  <2>2. marked \in [Addresses -> MarkRow] /\ marked' \in [Addresses -> MarkRow]
        /\ \A u \in Addresses : marked'[u] = marked[u]
    BY <2>1, RestoreDoes, AccountTypes
  <2> QED
    BY <2>2
<1>3. UNCHANGED reports
  <2>1. reports' = [t \in DOMAIN reports |-> reports[t] \cup (reports[t] \cap present')]
    BY <1>1 DEF Restore, RestoreReports
  <2>2. \A t \in DOMAIN reports : reports[t] \cup (reports[t] \cap present') = reports[t]
    OBVIOUS
  <2>3. reports \in [DOMAIN reports -> SUBSET Addresses]
    BY AccountTypes
  <2> QED
    BY <2>1, <2>2, <2>3
<1>4. UNCHANGED memories
  <2>1. PICK ms \in Seq(MemoryRow) : ms = memories /\ Once(ms) /\ memories' = Recalled(ms, ms)
    BY <1>1, AccountTypes, RestoreTyped
  <2>2. Len(ms) \in Nat /\ DOMAIN ms = 1 .. Len(ms)
    BY LenProperties
  <2>3. \A i, j \in 1 .. Len(ms) : ms[j].content = ms[i].content => i = j
    BY <2>1, <2>2 DEF Once
  <2>4. ASSUME NEW k \in 1 .. Len(ms) PROVE Remembers(ms, ms[k])
    BY <2>2, <2>3 DEF Remembers
  <2>5. Recalled(ms, ms) = ms
    BY <2>4, MemoriesRestored
  <2> QED
    BY <2>1, <2>5
<1>5. UNCHANGED events
  BY <1>1, RestoreTyped
<1>6. UNCHANGED <<feeds, followed>>
  <2>1. DOMAIN archive.feeds = {f \in Feeds : feeds[f] = "live"}
        /\ \A f \in DOMAIN archive.feeds : archive.feeds[f] = (f \in followed)
    BY <1>1, Zenon DEF ExportFeeds
  <2>2. feeds' = feeds
    <3>1. feeds' = [f \in Feeds |-> IF f \in DOMAIN archive.feeds /\ feeds[f] = "none" /\ f = "own" THEN "live" ELSE feeds[f]]
      BY DEF Restore, RestoreFeeds
    <3>2. \A f \in Feeds : ~(f \in DOMAIN archive.feeds /\ feeds[f] = "none" /\ f = "own")
      BY <2>1
    <3>3. feeds \in [Feeds -> {"none", "live", "deleted", "another's"}]
      BY AccountTypes
    <3> QED
      BY <3>1, <3>2, <3>3
  <2>3. followed' = followed
    <3>1. followed' = {f \in Feeds : IF f \in DOMAIN archive.feeds /\ feeds[f] # "another's" THEN archive.feeds[f] ELSE f \in followed}
      BY DEF Restore, RestoreFeeds
    <3>2. followed' = {f \in Feeds : f \in followed}
      BY <2>1, <3>1, Zenon
    <3>3. followed \subseteq Feeds
      BY AccountTypes
    <3> QED
      BY <3>2, <3>3
  <2> QED
    BY <2>2, <2>3
<1>7. UNCHANGED consent
  <2>1. consent \in Consent /\ consent' \in Consent /\ consent'.email = (consent.email /\ consent.email)
        /\ consent'.analytics = consent.analytics
    BY <1>1, AccountTypes, RestoreTyped
  <2>2. consent'.email = consent.email
    BY <2>1 DEF Consent
  <2> QED
    BY <2>1, <2>2 DEF Consent
<1> QED
  BY <1>2, <1>3, <1>4, <1>5, <1>6, <1>7 DEF Export, ExportArticles, ExportFeeds

\* After a first restore there is nothing left for a second.
LEMMA FirstSettles ==
  ASSUME ArchiveGood, NEW broken \in SUBSET Addresses, Restore(broken), restored.times = 0
  PROVE  Settled'
<1>1. archive' = archive /\ Archived(archive) /\ restored'.settled = Authorized(broken)
  BY RestoreDoes, RestoreCounts
<1>2. (archive.events \subseteq events)'
  BY <1>1, RestoreTyped
<1>3. Once(archive.memories) =>
        \A k \in 1 .. Len(archive.memories) : Remembers(memories', archive.memories[k])
  <2>1. memories \in Seq(MemoryRow) /\ archive.memories \in Seq(MemoryRow)
        /\ memories' = Recalled(memories, archive.memories)
    BY <1>1, AccountTypes, RestoreTyped DEF Archived
  <2> QED
    BY <2>1, MemoriesRestored
<1>4. ASSUME NEW f \in DOMAIN archive.feeds
      PROVE  /\ f = "own" => feeds'[f] # "none"
             /\ feeds'[f] # "another's" => (f \in followed' <=> archive.feeds[f])
  <2>1. f \in Feeds
    BY <1>1 DEF Archived
  <2>2. /\ feeds'[f] = IF feeds[f] = "none" /\ f = "own" THEN "live" ELSE feeds[f]
        /\ f \in followed' <=> IF feeds[f] # "another's" THEN archive.feeds[f] ELSE f \in followed
    BY <2>1 DEF Restore, RestoreFeeds
  <2> QED
    BY <2>2
<1>5. consent' = RestoredConsent'
  <2>1. /\ consent' \in Consent /\ archive.consent \in Consent
        /\ consent'.email = (consent.email /\ archive.consent.email)
        /\ consent'.analytics = archive.consent.analytics
    BY <1>1, RestoreTyped DEF Archived
  <2>2. RestoredConsent' = [email |-> consent'.email /\ archive.consent.email, analytics |-> archive.consent.analytics]
    BY <1>1 DEF RestoredConsent
  <2>3. consent'.email = (consent'.email /\ archive.consent.email)
    BY <2>1 DEF Consent
  <2>4. RestoredConsent' = [email |-> consent'.email, analytics |-> consent'.analytics]
    BY <2>1, <2>2, <2>3, Zenon
  <2> QED
    BY <2>1, <2>4 DEF Consent
<1>6. ASSUME NEW u \in Authorized(broken)
      PROVE  u \in DOMAIN archive.articles /\ marked'[u] # Unmarked /\ marked'[u] = RestoredRow(u)'
  <2>1. /\ u \in DOMAIN archive.articles /\ marked'[u] # Unmarked /\ marked'[u] = RestoredRow(u)
        /\ marked'[u] \in MarkedRow /\ marked'[u].done = (archive.articles[u].done \/ marked[u].done)
    BY RestoreDoes
  <2>2. PICK k \in MarkedRow : k = archive.articles[u]
    BY <1>1, <2>1 DEF Archived
  <2>3. PICK m \in MarkedRow : m = marked'[u]
    BY <2>1
  <2>4. m.done \in BOOLEAN /\ m.done = (k.done \/ marked[u].done)
    BY <2>1, <2>2, <2>3 DEF MarkedRow
  <2>5. m = [k EXCEPT !.done = (k.done \/ marked[u].done)]
    BY <2>1, <2>2, <2>3 DEF RestoredRow
  <2>6. RestoredRow(u)' = [k EXCEPT !.done = (k.done \/ m.done)]
    BY <1>1, <2>2, <2>3 DEF RestoredRow
  <2>7. (k.done \/ m.done) = (k.done \/ marked[u].done)
    BY <2>4
  <2>8. RestoredRow(u)' = m
    BY <2>5, <2>6, <2>7, Zenon
  <2> QED
    BY <2>1, <2>3, <2>8
<1> QED
  BY <1>1, <1>2, <1>3, <1>4, <1>5, <1>6 DEF Settled

\* The second restore leaves what the first one settled.
LEMMA SecondAddsNothing ==
  ASSUME ArchiveGood, NEW broken \in SUBSET Addresses, Restore(broken), restored.times = 1
  PROVE  /\ restored.first = Export /\ UNCHANGED <<events, feeds, followed, consent>>
         /\ Once(archive.memories) => UNCHANGED memories
         /\ \A u \in restored.settled :
              u \in DOMAIN ExportArticles /\ marked[u] # Unmarked /\ marked'[u] = ExportArticles[u]
<1>1. restored.first = Export /\ Settled /\ Archived(archive)
  BY RestoreDoes DEF ArchiveGood, OnceRestored
<1>2. UNCHANGED events
  BY <1>1, RestoreTyped DEF Settled
<1>3. UNCHANGED <<feeds, followed>>
  <2>1. \A f \in DOMAIN archive.feeds :
          /\ f = "own" => feeds[f] # "none"
          /\ feeds[f] # "another's" => (f \in followed <=> archive.feeds[f])
    BY <1>1 DEF Settled
  <2>2. feeds' = feeds
    <3>1. feeds' = [f \in Feeds |-> IF f \in DOMAIN archive.feeds /\ feeds[f] = "none" /\ f = "own" THEN "live" ELSE feeds[f]]
      BY DEF Restore, RestoreFeeds
    <3>2. \A f \in Feeds : ~(f \in DOMAIN archive.feeds /\ feeds[f] = "none" /\ f = "own")
      BY <2>1
    <3>3. feeds \in [Feeds -> {"none", "live", "deleted", "another's"}]
      BY AccountTypes
    <3> QED
      BY <3>1, <3>2, <3>3
  <2>3. followed' = followed
    <3>1. followed' = {f \in Feeds : IF f \in DOMAIN archive.feeds /\ feeds[f] # "another's" THEN archive.feeds[f] ELSE f \in followed}
      BY DEF Restore, RestoreFeeds
    <3>2. followed' = {f \in Feeds : f \in followed}
      BY <2>1, <3>1
    <3>3. followed \subseteq Feeds
      BY AccountTypes
    <3> QED
      BY <3>2, <3>3
  <2> QED
    BY <2>2, <2>3
<1>4. UNCHANGED consent
  BY <1>1, RestoreTyped DEF Settled
<1>5. ASSUME Once(archive.memories) PROVE UNCHANGED memories
  <2>1. /\ memories \in Seq(MemoryRow) /\ archive.memories \in Seq(MemoryRow)
        /\ memories' = Recalled(memories, archive.memories)
        /\ \A k \in 1 .. Len(archive.memories) : Remembers(memories, archive.memories[k])
    BY <1>1, <1>5, AccountTypes, RestoreTyped DEF Archived, Settled
  <2> QED
    BY <2>1, MemoriesRestored
<1>6. ASSUME NEW u \in restored.settled
      PROVE  u \in DOMAIN ExportArticles /\ marked[u] # Unmarked /\ marked'[u] = ExportArticles[u]
  <2>1. u \in Addresses /\ marked[u] # Unmarked /\ marked[u] = RestoredRow(u)
    BY <1>1 DEF Settled, Archived
  <2>2. marked'[u] = marked[u]
    BY <2>1, RestoreDoes
  <2> QED
    BY <2>1, <2>2 DEF ExportArticles
<1> QED
  BY <1>1, <1>2, <1>3, <1>4, <1>5, <1>6

LEMMA RestoreGood ==
  ASSUME ArchiveGood, NEW broken \in SUBSET Addresses, Restore(broken)
  PROVE  ArchiveGood'
<1>1. /\ archive # NoArchive /\ Archived(archive) /\ restored.times \in {0, 1} /\ UNCHANGED <<archive, edits>>
      /\ marked' \in [Addresses -> MarkRow]
  BY RestoreDoes
<1>2. ArchiveTypeOK'
  <2>1. \A i \in DOMAIN memories' : memories'[i] \in [content: Contents, active: BOOLEAN]
    <3>1. PICK ms \in Seq(MemoryRow) : ms = memories'
      BY RestoreTyped
    <3>2. \A i \in DOMAIN ms : ms[i] \in MemoryRow
      BY LenProperties, ElementOfSeq
    <3> QED
      BY <3>1, <3>2, Zenon DEF MemoryRow
  <2>2. restored'.times \in 0 .. 2
    BY <1>1, RestoreCounts
  <2>3. edits' \in 0 .. MaxEdits
    BY <1>1, AccountTypes
  <2> QED
    BY <1>1, <2>1, <2>2, <2>3, RestoreTyped DEF ArchiveTypeOK, MarkRow, MarkedRow, IsEvent, Consent
<1>3. AccountTyped' /\ ReadsAreCredited'
  BY <1>1, RestoreTyped DEF AccountTyped, Archived, ReadsAreCredited
<1>4. (restored.times > 0 => archive # NoArchive)'
  BY <1>1
<1>5. JustTaken'
  <2>1. SUFFICES ASSUME restored'.untouched, restored'.times = 0 \/ Once(archive.memories) PROVE Export' = archive
    BY <1>1 DEF JustTaken
  <2>2. Once(archive.memories) /\ restored.untouched
    <3>1. restored'.times # 0
      BY <1>1, RestoreCounts
    <3> QED
      BY <2>1, <3>1, RestoreCounts, Zenon
  <2>3. Export = archive
    BY <2>2 DEF ArchiveGood, JustTaken
  <2> QED
    BY <2>2, <2>3, NothingRestored
<1>6. OnceRestored'
  <2>1. SUFFICES ASSUME restored'.times = 1 PROVE restored'.first = Export' /\ Settled'
    BY DEF OnceRestored
  <2>2. restored.times = 0
    BY <1>1, <2>1, RestoreCounts
  <2> QED
    BY <2>2, RestoreCounts, FirstSettles
<1>7. RestoreIsTrue'
  <2>1. Authorized(broken) \subseteq DOMAIN archive.articles /\ Authorized(broken) \subseteq Addresses
    BY RestoreDoes
  <2>2. /\ restored'.skipped = DOMAIN archive.articles \ Authorized(broken)
        /\ restored'.added \cup restored'.updated = Authorized(broken)
        /\ restored'.before = Export
    BY RestoreCounts
  <2>3. restored'.skipped \cup restored'.added \cup restored'.updated = DOMAIN archive.articles
    BY <2>1, <2>2
  <2>4. ASSUME NEW u \in Authorized(broken)
        PROVE  /\ marked'[u].state = archive.articles[u].state /\ marked'[u].starred = archive.articles[u].starred
               /\ archive.articles[u].done => marked'[u].done
    BY RestoreDoes
  <2>5. ASSUME NEW u \in DOMAIN ExportArticles
        PROVE  /\ ExportArticles[u].done => marked'[u].done
               /\ u \notin Authorized(broken) => marked'[u] = ExportArticles[u]
    <3>1. u \in Addresses /\ ExportArticles[u] = marked[u]
      BY DEF ExportArticles
    <3> QED
      BY <3>1, RestoreDoes
  <2>6. consent'.email => consent.email
    BY RestoreTyped
  <2>7. \A t \in DOMAIN archive.briefings : archive.briefings[t] \cap present' \subseteq reports'[t]
    BY RestoreTyped
  <2>8. Export.articles = ExportArticles /\ Export.consent = consent
    BY DEF Export
  <2> QED
    BY <1>1, <2>2, <2>3, <2>4, <2>5, <2>6, <2>7, <2>8 DEF RestoreIsTrue
<1>8. RestoreIsOnce'
  <2>1. restored'.times > 0 /\ restored'.untouched /\ Once(archive.memories) => Export' = archive
    BY <1>1, <1>5 DEF JustTaken
  <2>2. ASSUME restored'.times = 2, Once(restored'.first.memories), Once(archive.memories)
        PROVE  /\ Export'.memories = restored'.first.memories /\ Export'.events = restored'.first.events
               /\ Export'.feeds = restored'.first.feeds /\ Export'.consent = restored'.first.consent
               /\ \A u \in restored'.settled : marked'[u] = restored'.first.articles[u]
               /\ restored'.added \cap restored'.settled = {}
    <3>1. restored.times = 1
      BY <1>1, <2>2, RestoreCounts
    <3>2. restored'.first = Export /\ restored'.settled = restored.settled
      BY <3>1, RestoreCounts, SecondAddsNothing
    <3>3. UNCHANGED <<memories, events, feeds, followed, consent>>
      BY <2>2, <3>1, SecondAddsNothing
    <3>4. /\ Export'.memories = Export.memories /\ Export'.events = Export.events
          /\ Export'.feeds = Export.feeds /\ Export'.consent = Export.consent
      BY <3>3 DEF Export, ExportFeeds
    <3>5. Export.articles = ExportArticles
      BY DEF Export
    <3>6. \A u \in restored'.settled : marked'[u] = Export.articles[u] /\ u \notin restored'.added
      BY <3>1, <3>2, <3>5, RestoreCounts, SecondAddsNothing
    <3> QED
      BY <3>2, <3>4, <3>6
  <2> QED
    BY <1>1, <2>1, <2>2 DEF RestoreIsOnce
<1> QED
  BY <1>2, <1>3, <1>4, <1>5, <1>6, <1>7, <1>8 DEF ArchiveGood

LEMMA ArchiveAlways == ArchiveSpec => []ArchiveGood
<1>1. ArchiveGood /\ [ArchiveNext]_archiveVars => ArchiveGood'
  <2> SUFFICES ASSUME ArchiveGood, [ArchiveNext]_archiveVars PROVE ArchiveGood'
    OBVIOUS
  <2>1. CASE TakeExport
    BY <2>1, TakeExportGood
  <2>2. CASE NewAccount
    BY <2>2, NewAccountGood
  <2>3. CASE \E u \in Addresses : StarMark(u) \/ RetentionDeletes(u) \/ \E s \in Marks : Mark(u, s)
    BY <2>3, MarksGood
  <2>4. CASE \E f \in Feeds : ChangeFeed(f)
    BY <2>4, ChangeFeedGood
  <2>5. CASE \E S \in SUBSET Addresses : Brief(S)
    BY <2>5, BriefGood
  <2>6. CASE \E S \in SUBSET Addresses : Restore(S)
    BY <2>6, RestoreGood
  <2>7. CASE \/ \E c \in Contents : CreateMemory(c) \/ LearnFromReading(c)
             \/ \E i \in DOMAIN memories : UpdateMemory(i)
    BY <2>7, MemoriesGood
  <2>8. CASE \E c \in [email: BOOLEAN, analytics: BOOLEAN] : ChangeConsentTo(c)
    BY <2>8, ConsentGood
  <2>9. CASE UNCHANGED archiveVars
    BY <2>9
       DEF archiveVars, ArchiveGood, ArchiveTypeOK, AccountTyped, Archived, ReadsAreCredited, JustTaken,
           OnceRestored, Settled, RestoredConsent, RestoredRow, RestoreIsTrue, RestoreIsOnce,
           Export, ExportArticles, ExportFeeds
  <2> QED
    BY <2>1, <2>2, <2>3, <2>4, <2>5, <2>6, <2>7, <2>8, <2>9 DEF ArchiveNext
<1> QED
  BY ArchiveInitGood, <1>1, PTL DEF ArchiveSpec

\* What a restore says of itself is true, no read is without its credit, and a
\* restore is done once: of any archive, into the account it was taken from at any
\* later moment, or into a new one.
THEOREM RestoresAreTrueAndOnce == ArchiveSpec => []ArchiveInv
<1>1. ArchiveGood => ArchiveInv
  BY DEF ArchiveGood, ArchiveInv
<1> QED
  BY <1>1, ArchiveAlways, PTL

(***************************************************************************)
(* The parts together                                                      *)
(***************************************************************************)

\* Every part goes its own way, whatever the others do.
LEMMA SourcesParts ==
  SourcesSpec => StreamSpec /\ ReportSpec /\ CatalogueSpec /\ ControlSpec /\ ArchiveSpec
<1>1. SourcesInit => StreamInit /\ ReportInit /\ CatalogueInit /\ ControlInit /\ ArchiveInit
  BY DEF SourcesInit
<1>2. [SourcesNext]_sourcesVars =>
        /\ [StreamNext]_streamVars /\ [ReportNext]_reportVars /\ [CatalogueNext]_catalogueVars
        /\ [ControlNext]_controlVars /\ [ArchiveNext]_archiveVars
  BY DEF SourcesNext, sourcesVars
<1> QED
  BY <1>1, <1>2, PTL DEF SourcesSpec, StreamSpec, ReportSpec, CatalogueSpec, ControlSpec, ArchiveSpec

\* The variables of every part keep their types.
THEOREM SourcesTyped == SourcesSpec => []SourcesTypeOK
<1>1. /\ StreamInv => StreamTypeOK
      /\ ReportInv => ReportTypeOK
      /\ CatalogueInv => CatalogueTypeOK
      /\ ControlInv => ControlTypeOK
      /\ ArchiveGood => ArchiveTypeOK
  BY DEF StreamInv, ReportInv, CatalogueInv, ControlInv, ArchiveGood
<1>2. StreamTypeOK /\ ReportTypeOK /\ CatalogueTypeOK /\ ControlTypeOK /\ ArchiveTypeOK => SourcesTypeOK
  BY DEF SourcesTypeOK
<1> QED
  BY SourcesParts, StreamAlways, ReportAlways, CatalogueAlways, ControlAlways, ArchiveAlways,
     <1>1, <1>2, PTL

\* What a run has done is what is shown of it: to whoever follows it, in its
\* report, and as the health of the source.
THEOREM RunsShown == SourcesSpec => []RunsAreShown
<1>1. ScreenShowsLog /\ RunsAddUp /\ HealthIsLastCheck => RunsAreShown
  BY DEF RunsAreShown
<1> QED
  BY SourcesParts, FollowersSeeTheLog, RunsAlwaysAddUp, HealthIsThatOfTheLastCheck, <1>1, PTL

\* What is set is in effect: only sources that are listed are fetched, the interval
\* that is told is that of the job, and an archive restores what it says.
THEOREM SettingsHold == SourcesSpec => []SettingsInEffect
<1>1. FetchedIsListed /\ IntervalInEffect /\ ArchiveInv => SettingsInEffect
  BY DEF SettingsInEffect
<1> QED
  BY SourcesParts, OnlyListedAreFetched, IntervalTold, RestoresAreTrueAndOnce, <1>1, PTL

\* Nothing a reader sees of the sources is changed by what another one asks for,
\* in the parts together as well.
THEOREM ListingsStayOwn == SourcesSpec => ListingIsOwn
  BY SourcesParts, ListingIsOnesOwn, PTL
=============================================================================
