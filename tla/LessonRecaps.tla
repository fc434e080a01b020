----------------------------- MODULE LessonRecaps -----------------------------
(***************************************************************************)
(* What a reader learned in a week: a measure of the lessons of the last   *)
(* days, a narrative of the measure, and one row for each day on which     *)
(* such a week begins; made by the scheduler and on demand, and read aloud *)
(* on request into a file under the row's number. No maker and no request  *)
(* knows of another.                                                       *)
(***************************************************************************)
EXTENDS Integers, Sequences, FiniteSets, FiniteSetsExt, SequencesExt

CONSTANTS
  Makers,        \* the scheduler's job and requests, each made again and again
  Tellers,       \* requests for the sound
  LookBack,      \* half days that a measure looks back: those of a week
  Subjects,      \* subject names
  TaughtBy,      \* of a lesson, by its number: the names it gives, and may repeat
  MaxConcepts,   \* subjects that a recap lists
  Outages,       \* half days without a model for narratives
  MaxLessons,    \* bound
  MaxHour,       \* bound: half days
  MaxWork        \* bound: measures and requests for sound

ASSUME RecapsAssumption ==
  /\ LookBack \in Nat \ {0} /\ {MaxConcepts, MaxLessons, MaxHour, MaxWork} \subseteq Nat
  /\ TaughtBy \in Seq(Seq(Subjects)) /\ Len(TaughtBy) = MaxLessons

VARIABLES
  hour,       \* of two in a day
  learned,    \* lessons, in the order of their making: [born, done, touched]
  recaps,     \* rows, in the order of their making
  makers,     \* [pc, held, words]: a measure and its narrative
  tellers,    \* [pc, row, held, force, fine, linked, alone]
  speech,     \* of each row its file
  work        \* measures and requests so far

learningVars == <<hour, learned, recaps, makers, tellers, speech, work>>

Day(h) == h \div 2
Silence == [of |-> "nothing"]
Cut == [of |-> "cut"]
NoRecap == [of |-> "nothing"]
AtRest == [pc |-> "rest", held |-> NoRecap, words |-> NoRecap]
Unasked == [pc |-> "rest", row |-> 0, held |-> Silence, fine |-> TRUE, linked |-> TRUE, alone |-> TRUE]

\* Which of those that are free makes no difference.
FreeMaker(m) == m = CHOOSE k \in Makers : makers[k].pc = "rest"
FreeTeller(t) == t = CHOOSE s \in Tellers : tellers[s].pc = "rest"

Kept == 1 .. Len(recaps)
Known == 1 .. Len(learned)

RecapsTypeOK ==
  /\ hour \in 0 .. MaxHour /\ work \in 0 .. MaxWork
  /\ Len(learned) <= MaxLessons
  /\ \A l \in Known : learned[l].born \in 0 .. MaxHour /\ learned[l].done \in BOOLEAN /\ learned[l].touched \in 0 .. MaxHour
  /\ \A i \in Kept : /\ recaps[i].week \in Day(-LookBack) .. Day(MaxHour)
                     /\ recaps[i].status \in {"none", "complete", "failed"} /\ recaps[i].settled \in BOOLEAN
  /\ \A m \in Makers : makers[m].pc \in {"rest", "narrated"}
  /\ \A t \in Tellers : /\ tellers[t].pc \in {"rest", "look", "speak", "write", "mark"}
                        /\ tellers[t].row \in Kept \cup {0}
  /\ Len(speech) = Len(recaps)

RecapsInit ==
  /\ hour = 0 /\ learned = <<>> /\ recaps = <<>> /\ speech = <<>> /\ work = 0
  /\ makers = [m \in Makers |-> AtRest] /\ tellers = [t \in Tellers |-> Unasked]

-----------------------------------------------------------------------------
(* Lessons, as far as a recap sees them. Bound: neither they nor the hour   *)
(* change, and nothing is measured, while sound is made: it reads neither. *)

Quiet == \A t \in Tellers : tellers[t].pc = "rest"

HourPasses ==
  /\ Quiet /\ hour < MaxHour /\ hour' = hour + 1
  /\ UNCHANGED <<learned, recaps, makers, tellers, speech, work>>

AskForLesson ==
  /\ Quiet /\ Len(learned) < MaxLessons
  /\ learned' = Append(learned, [born |-> hour, done |-> FALSE, touched |-> hour])
  /\ UNCHANGED <<hour, recaps, makers, tellers, speech, work>>

\* Any later change of a lesson's row touches it again.
CompleteLesson(l) ==
  /\ Quiet /\ (~learned[l].done \/ learned[l].touched < hour)
  /\ learned' = [learned EXCEPT ![l].done = TRUE, ![l].touched = hour]
  /\ UNCHANGED <<hour, recaps, makers, tellers, speech, work>>

-----------------------------------------------------------------------------
(* The measure.                                                            *)

Since(h) == h - LookBack
InWeek(l, h) == learned[l].born >= Since(h) \/ (learned[l].done /\ learned[l].touched >= Since(h))

\* What the lessons give, the newest lesson first.
Given(ls) == FlattenSeq([k \in 1 .. Cardinality(ls) |-> TaughtBy[SetToSortSeq(ls, >)[k]]])
TimesGiven(c, ls) == Cardinality({k \in DOMAIN Given(ls) : Given(ls)[k] = c})
FirstGiven(c, ls) == CHOOSE k \in DOMAIN Given(ls) : Given(ls)[k] = c /\ \A j \in 1 .. k - 1 : Given(ls)[j] # c

\* The subjects given most often, of equals those that come first.
Ahead(d, c, ls) ==
  \/ TimesGiven(d, ls) > TimesGiven(c, ls)
  \/ TimesGiven(d, ls) = TimesGiven(c, ls) /\ FirstGiven(d, ls) < FirstGiven(c, ls)
TopConcepts(ls) ==
  LET all == ToSet(Given(ls))
      top == {c \in all : Cardinality({d \in all : Ahead(d, c, ls)}) < MaxConcepts}
  IN [c \in top |-> TimesGiven(c, ls)]
RepeatedThemes(ls) == {c \in DOMAIN TopConcepts(ls) : TopConcepts(ls)[c] > 1}

Assembled(h) ==
  LET seen == {l \in Known : InWeek(l, h)}
      done == {l \in seen : learned[l].done}
  IN [of |-> "week", at |-> h, done |-> done, open |-> seen \ done,
      concepts |-> TopConcepts(done), themes |-> RepeatedThemes(done)]

\* A model's words of the whole measure, or a sentence that counts the lessons and names
\* the first subject: there always is a narrative.
Sentence(d) ==
  [of |-> "count", lessons |-> Cardinality(d.done),
   focus |-> {c \in DOMAIN d.concepts : ~\E e \in DOMAIN d.concepts : Ahead(e, c, d.done)}]
Narrative(d) == IF hour \in Outages THEN Sentence(d) ELSE d

Measure(m) ==
  /\ Quiet /\ makers[m].pc = "rest" /\ FreeMaker(m) /\ work < MaxWork /\ work' = work + 1
  /\ makers' = [makers EXCEPT ![m] = [pc |-> "narrated", held |-> Assembled(hour), words |-> Narrative(Assembled(hour))]]
  /\ UNCHANGED <<hour, learned, recaps, tellers, speech>>

\* Wrong: the week of a recap is the one that ends when it is saved.
WeekOfSaving(d) == Day(Since(hour))
WeekOf(d) == Day(Since(d.at))

\* Sound is there or on its way (auxiliary: settled).
AskedFor(i) == \E t \in Tellers : tellers[t].row = i
Row(d, w) == [week |-> WeekOf(d), data |-> d, narrative |-> w, status |-> "none", settled |-> TRUE, heard |-> FALSE]

\* Wrong: the narrative of the first measure stays.
OnlyData(i, d, w) ==
  [recaps[i] EXCEPT !.data = d, !.status = "none", !.heard = FALSE, !.settled = speech[i] = Silence /\ ~AskedFor(i)]
Saved(i, d, w) == [Row(d, w) EXCEPT !.settled = speech[i] = Silence /\ ~AskedFor(i)]

SaveLessonRecap(m) ==
  LET d == makers[m].held
      w == makers[m].words
      there == {i \in Kept : recaps[i].week = WeekOf(d)}
  IN /\ makers[m].pc = "narrated" /\ makers' = [makers EXCEPT ![m] = AtRest]
     /\ IF there = {} THEN recaps' = Append(recaps, Row(d, w)) /\ speech' = Append(speech, Silence)
        ELSE /\ recaps' = [i \in Kept |-> IF i \in there THEN Saved(i, d, w) ELSE recaps[i]]
             /\ UNCHANGED speech
     /\ UNCHANGED <<hour, learned, tellers, work>>

\* The database or the process fails.
LoseLessonRecap(m) ==
  /\ makers[m].pc # "rest" /\ makers' = [makers EXCEPT ![m] = AtRest]
  /\ UNCHANGED <<hour, learned, recaps, tellers, speech, work>>

LatestRecap == CHOOSE i \in Kept : \A j \in Kept : recaps[j].week <= recaps[i].week

-----------------------------------------------------------------------------
(* The sound of a recap.                                                   *)

\* What is read aloud: the narrative and the subjects.
ReadAloud(i) == [of |-> "recap", words |-> recaps[i].narrative, concepts |-> DOMAIN recaps[i].data.concepts]

\* Wrong: it is that of the latest recap.
TextOfLatest(i) == ReadAloud(LatestRecap)
TextOf(i) == ReadAloud(i)

\* A request reads the row; with another at work on it the row is not settled.
AskForSound(t, i) ==
  /\ tellers[t].pc = "rest" /\ FreeTeller(t) /\ work < MaxWork /\ work' = work + 1
  /\ recaps' = [recaps EXCEPT ![i].settled = @ /\ ~AskedFor(i)]
  /\ tellers' = [tellers EXCEPT ![t] = [Unasked EXCEPT !.pc = "look", !.row = i, !.held = TextOf(i)]]
  /\ UNCHANGED <<hour, learned, makers, speech>>

ToMark(t, fine) == [tellers[t] EXCEPT !.pc = "mark", !.fine = fine]

\* A file that is there is taken, whatever is in it; a forced request removes it,
\* from under whoever writes it.
LookForSound(t, force) ==
  LET i == tellers[t].row
      unlinked == [s \in Tellers |->
        IF s # t /\ tellers[s].row = i /\ tellers[s].pc = "write" THEN [tellers[s] EXCEPT !.linked = FALSE] ELSE tellers[s]]
  IN /\ tellers[t].pc = "look"
     /\ speech' = IF force THEN [speech EXCEPT ![i] = Silence] ELSE speech
     /\ tellers' = [(IF force THEN unlinked ELSE tellers) EXCEPT ![t] =
                      IF force \/ speech[i] = Silence THEN [tellers[t] EXCEPT !.pc = "speak"] ELSE ToMark(t, TRUE)]
     /\ UNCHANGED <<hour, learned, recaps, makers, work>>

\* The answer of the service is written as it comes; who opens a file that another
\* writes writes into it as well.
OpenSpeech(t) ==
  LET others == {s \in Tellers \ {t} : tellers[s].row = tellers[t].row /\ tellers[s].pc = "write" /\ tellers[s].linked}
  IN /\ tellers[t].pc = "speak" /\ speech' = [speech EXCEPT ![tellers[t].row] = Cut]
     /\ tellers' = [s \in Tellers |->
          IF s = t THEN [tellers[t] EXCEPT !.pc = "write", !.alone = others = {}]
          ELSE IF s \in others THEN [tellers[s] EXCEPT !.alone = FALSE] ELSE tellers[s]]
     /\ UNCHANGED <<hour, learned, recaps, makers, work>>

WriteSpeech(t) ==
  /\ tellers[t].pc = "write"
  /\ speech' = IF tellers[t].linked /\ tellers[t].alone THEN [speech EXCEPT ![tellers[t].row] = tellers[t].held] ELSE speech
  /\ tellers' = [tellers EXCEPT ![t] = ToMark(t, TRUE)]
  /\ UNCHANGED <<hour, learned, recaps, makers, work>>

\* No key, or the service fails before its answer or in the midst of it; what was
\* written stays.
SpeechFails(t) ==
  /\ tellers[t].pc \in {"look", "speak", "write"}
  /\ tellers' = [tellers EXCEPT ![t] = ToMark(t, FALSE)]
  /\ recaps' = IF tellers[t].pc = "write" THEN [recaps EXCEPT ![tellers[t].row].settled = FALSE] ELSE recaps
  /\ UNCHANGED <<hour, learned, makers, speech, work>>

MarkSound(t) ==
  /\ tellers[t].pc = "mark"
  /\ recaps' = [recaps EXCEPT ![tellers[t].row].status = IF tellers[t].fine THEN "complete" ELSE "failed",
                              ![tellers[t].row].heard = TRUE]
  /\ tellers' = [tellers EXCEPT ![t] = Unasked]
  /\ UNCHANGED <<hour, learned, makers, speech, work>>

\* The process stops; the file stays as it is.
LoseTeller(t) ==
  /\ tellers[t].pc # "rest" /\ tellers' = [tellers EXCEPT ![t] = Unasked]
  /\ recaps' = IF tellers[t].pc = "look" THEN recaps ELSE [recaps EXCEPT ![tellers[t].row].settled = FALSE]
  /\ UNCHANGED <<hour, learned, makers, speech, work>>

RecapsNext ==
  \/ HourPasses \/ AskForLesson \/ \E l \in Known : CompleteLesson(l)
  \/ \E m \in Makers : Measure(m) \/ SaveLessonRecap(m) \/ LoseLessonRecap(m)
  \/ \E t \in Tellers :
       \/ \E i \in Kept : AskForSound(t, i)
       \/ \E force \in BOOLEAN : LookForSound(t, force)
       \/ OpenSpeech(t) \/ WriteSpeech(t) \/ SpeechFails(t) \/ MarkSound(t) \/ LoseTeller(t)

RecapsSpec == RecapsInit /\ [][RecapsNext]_learningVars

-----------------------------------------------------------------------------
(* Properties.                                                             *)

\* However late a recap is saved and however often, it tells of the week that it is
\* listed under: its narrative is of its own measure, each lesson it counts was asked
\* for before the measure and touched within that week, and the subjects that came up
\* again are subjects it lists.
RecapIsOfItsWeek ==
  \A i \in Kept :
    LET d == recaps[i].data
    IN /\ recaps[i].narrative.of = "week" => recaps[i].narrative = d
       /\ recaps[i].narrative.of = "count" =>
            recaps[i].narrative.lessons = Cardinality(d.done) /\ recaps[i].narrative.focus \subseteq DOMAIN d.concepts
       /\ Day(Since(d.at)) = recaps[i].week
       /\ \A l \in d.done \cup d.open : learned[l].born <= d.at /\ learned[l].touched >= Since(d.at)
       /\ d.themes \subseteq DOMAIN d.concepts /\ \A c \in d.themes : d.concepts[c] > 1
       /\ \A j \in Kept : j # i => recaps[j].week # recaps[i].week

\* A recap whose sound is said to be there has the sound of what it shows, unless it
\* was saved again after sound was asked for, two requests overlapped, or one broke off
\* in its midst; and who failed alone has left no file.
SoundIsOfRecap ==
  \A i \in Kept : recaps[i].settled =>
    /\ recaps[i].status = "complete" /\ ~AskedFor(i) => speech[i] = ReadAloud(i)
    /\ speech[i].of = "recap" => speech[i] = ReadAloud(i)

\* A recap that is saved again has no sound said to be there until a request says so.
SavedAgainIsSilent == \A i \in Kept : recaps[i].status # "none" => recaps[i].heard

RecapsInv == RecapIsOfItsWeek /\ SoundIsOfRecap /\ SavedAgainIsSilent

\* Holds not: a recap saved again keeps its file, a request takes it, and the sound
\* tells of another measure than the page, though it is to be consistent with the page.
SoundIsConsistent ==
  \A i \in Kept : recaps[i].status = "complete" /\ ~AskedFor(i) /\ speech[i].of = "recap" => speech[i] = ReadAloud(i)

\* Holds not: a writing that broke off leaves its file, which the next request takes.
CompleteIsWhole == \A i \in Kept : recaps[i].status = "complete" /\ ~AskedFor(i) => speech[i] # Cut

\* Holds not: a forced request that fails has removed the file that was there.
CompleteIsThere == \A i \in Kept : recaps[i].status = "complete" /\ ~AskedFor(i) => speech[i] # Silence

\* Holds not: a measure that is saved late replaces a later one of its day.
LatestMeasureStays == [][\A i \in Kept : recaps'[i].data.at >= recaps[i].data.at]_learningVars

\* Holds not: one lesson that gives a subject twice makes a theme of it.
ThemesRecur == \A i \in Kept : \A c \in recaps[i].data.themes :
  Cardinality({l \in recaps[i].data.done : c \in ToSet(TaughtBy[l])}) > 1
=============================================================================
