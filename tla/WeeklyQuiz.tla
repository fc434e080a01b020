----------------------------- MODULE WeeklyQuiz -----------------------------
(***************************************************************************)
(* Goals, and quizzes about what was read for them. A request chooses among *)
(* what was read in the last days, asks a model for questions and keeps     *)
(* those that have the right form; its quiz may be answered again and       *)
(* again. Submissions and rewards of a reader go one after the other.       *)
(***************************************************************************)
EXTENDS Integers, Sequences, FiniteSets, SequencesExt

CONSTANTS
  Papers,       \* articles
  Aims,         \* words of goals
  AimsOf,       \* of an article: the words in its title and category
  Quizmasters,  \* requests for a quiz
  Fresh,        \* days that a quiz looks back
  MaxChosen,    \* articles that a quiz is made of
  Replies,      \* of the model: sequences of [form, right, about]
  Tries,        \* what is submitted: sequences of options
  MaxToday, MaxFinished, MaxQuizzes   \* bounds: days, reads, quizzes

ASSUME QuizAssumption ==
  /\ AimsOf \in [Papers -> SUBSET Aims]
  /\ {Fresh, MaxChosen, MaxToday, MaxFinished, MaxQuizzes} \subseteq Nat /\ MaxChosen > 0
  /\ Replies \subseteq Seq([form: {"good", "partial", "garbled"}, right: Int, about: Int])
  /\ Tries \subseteq Seq(Int)

VARIABLES
  guest,      \* the reader has no account of their own
  today,
  finished,   \* what is done, with its day, the newest last
  aims,       \* the reader's goals
  quizmasters,   \* of each request what it has given to the model, or nothing
  quizzes,    \* in the order of their making
  passed,     \* quizzes in the order of their first passing (auxiliary)
  prize       \* the reward: [for, shown]; for no quiz it is not given

quizVars == <<guest, today, finished, aims, quizmasters, quizzes, passed, prize>>

NoQuiz == [of |-> <<>>, aims |-> {}, aside |-> {}]
NoPrize == [for |-> 0, shown |-> 0]
Posed == 1 .. Len(quizzes)

\* What is at the places P of a sequence, in its order.
AtPlaces(s, P) ==
  [n \in 1 .. Cardinality(P) |-> s[CHOOSE k \in P : Cardinality({j \in P : j < k}) = n - 1]]

QuizTypeOK ==
  /\ guest \in BOOLEAN /\ today \in 0 .. MaxToday /\ aims \subseteq Aims
  /\ Len(finished) <= MaxFinished
  /\ \A k \in DOMAIN finished : finished[k].paper \in Papers /\ finished[k].day \in 0 .. MaxToday
  /\ \A m \in Quizmasters : Len(quizmasters[m].of) <= MaxChosen /\ quizmasters[m].aims \subseteq Aims
  /\ Len(quizzes) <= MaxQuizzes
  /\ prize.for \in Posed \cup {0} /\ prize.shown \in 0 .. 1

QuizInit ==
  /\ guest \in BOOLEAN /\ today = 0 /\ finished = <<>> /\ aims = {} /\ quizzes = <<>>
  /\ quizmasters = [m \in Quizmasters |-> NoQuiz] /\ passed = <<>> /\ prize = NoPrize

-----------------------------------------------------------------------------
(* Reading and goals. Bound: they rest once a quiz is answered, as an       *)
(* answer reads neither, and none is given while a quiz is made.           *)

Unanswered == passed = <<>> /\ \A i \in Posed : quizzes[i].score = -1
AllMade == \A m \in Quizmasters : quizmasters[m] = NoQuiz

DayPasses ==
  /\ Unanswered /\ today < MaxToday /\ today' = today + 1
  /\ UNCHANGED <<guest, finished, aims, quizmasters, quizzes, passed, prize>>

FinishPaper(a) ==
  /\ Unanswered /\ Len(finished) < MaxFinished /\ \A k \in DOMAIN finished : finished[k].paper # a
  /\ finished' = Append(finished, [paper |-> a, day |-> today])
  /\ UNCHANGED <<guest, today, aims, quizmasters, quizzes, passed, prize>>

UnfinishPaper(a) ==
  /\ Unanswered /\ finished' = AtPlaces(finished, {k \in DOMAIN finished : finished[k].paper # a}) /\ finished' # finished
  /\ UNCHANGED <<guest, today, aims, quizmasters, quizzes, passed, prize>>

CreateGoal(w) ==
  /\ Unanswered /\ aims' = aims \cup {w}
  /\ UNCHANGED <<guest, today, finished, quizmasters, quizzes, passed, prize>>
DeleteGoal(w) ==
  /\ Unanswered /\ aims' = aims \ {w}
  /\ UNCHANGED <<guest, today, finished, quizmasters, quizzes, passed, prize>>

-----------------------------------------------------------------------------
(* The making of a quiz.                                                   *)

NewestOf(s) == SubSeq(s, IF Len(s) > MaxChosen THEN Len(s) - MaxChosen + 1 ELSE 1, Len(s))
ForGoals(s) == AtPlaces(s, {k \in DOMAIN s : AimsOf[s[k].paper] \cap aims # {}})
Recent == AtPlaces(finished, {k \in DOMAIN finished : finished[k].day >= today - Fresh})

\* Wrong: goals are looked for among the newest.
CutFirst == IF ForGoals(NewestOf(Recent)) # <<>> THEN ForGoals(NewestOf(Recent)) ELSE NewestOf(Recent)
\* What was read for the goals, or, where that is nothing, what was read.
Chosen == NewestOf(IF ForGoals(Recent) # <<>> THEN ForGoals(Recent) ELSE Recent)

\* With the goals and the reads that were left aside (auxiliary).
AskForQuiz(m) ==
  /\ Unanswered /\ quizmasters[m] = NoQuiz /\ Chosen # <<>>
  /\ quizmasters' = [quizmasters EXCEPT ![m] =
       [of |-> Chosen, aims |-> aims, aside |-> ToSet(Recent) \ ToSet(Chosen)]]
  /\ UNCHANGED <<guest, today, finished, aims, quizzes, passed, prize>>

\* A question without text, options or answer is left out; an answer that is no
\* number makes the whole reply unreadable.
Parsed(r) ==
  IF \E k \in DOMAIN r : r[k].form = "garbled" THEN <<>>
  ELSE AtPlaces(r, {k \in DOMAIN r : r[k].form = "good"})

KeepQuiz(m, r) ==
  /\ quizmasters[m] # NoQuiz /\ Len(quizzes) < MaxQuizzes
  /\ quizmasters' = [quizmasters EXCEPT ![m] = NoQuiz]
  /\ quizzes' = IF Parsed(r) = <<>> THEN quizzes
                ELSE Append(quizzes, [questions |-> Parsed(r), score |-> -1, said |-> <<>>])
  /\ UNCHANGED <<guest, today, finished, aims, passed, prize>>

\* There is no key, or the model or the database fails.
LoseQuiz(m) ==
  /\ quizmasters[m] # NoQuiz /\ quizmasters' = [quizmasters EXCEPT ![m] = NoQuiz]
  /\ UNCHANGED <<guest, today, finished, aims, quizzes, passed, prize>>

-----------------------------------------------------------------------------
(* Answers.                                                                *)

\* Wrong: what was said before counts as well.
EverRight(i, t) == {k \in DOMAIN quizzes[i].questions : \/ k \in DOMAIN t /\ t[k] = quizzes[i].questions[k].right
                                                        \/ k \in DOMAIN quizzes[i].said /\ quizzes[i].said[k] = <<quizzes[i].questions[k].right>>}
\* Surplus answers are ignored, and missing ones are wrong.
Right(i, t) == {k \in DOMAIN quizzes[i].questions : k \in DOMAIN t /\ t[k] = quizzes[i].questions[k].right}

\* Wrong: the last quiz that was passed has the reward.
LastAward(i) == [prize EXCEPT !.for = i]
Award(i) == IF prize = NoPrize THEN [prize EXCEPT !.for = i] ELSE prize

SubmitQuiz(i, t) ==
  LET score == Cardinality(Right(i, t))
  IN /\ AllMade
     /\ quizzes' = [quizzes EXCEPT ![i].score = score,
                      ![i].said = [k \in DOMAIN quizzes[i].questions |-> IF k \in DOMAIN t THEN <<t[k]>> ELSE <<>>]]
     /\ prize' = IF score > 0 /\ ~guest THEN Award(i) ELSE prize
     /\ passed' = IF score > 0 /\ ~Contains(passed, i) THEN Append(passed, i) ELSE passed
     /\ UNCHANGED <<guest, today, finished, aims, quizmasters>>

\* The reward is shown to the first page that claims it.
ClaimReward ==
  /\ prize.for # 0 /\ prize.shown = 0 /\ prize' = [prize EXCEPT !.shown = 1]
  /\ UNCHANGED <<guest, today, finished, aims, quizmasters, quizzes, passed>>

Completed(i) == quizzes[i].score # -1

QuizNext ==
  \/ DayPasses \/ ClaimReward
  \/ \E a \in Papers : FinishPaper(a) \/ UnfinishPaper(a)
  \/ \E w \in Aims : CreateGoal(w) \/ DeleteGoal(w)
  \/ \E m \in Quizmasters : AskForQuiz(m) \/ LoseQuiz(m) \/ \E r \in Replies : KeepQuiz(m, r)
  \/ \E i \in Posed, t \in Tries : SubmitQuiz(i, t)

QuizSpec == QuizInit /\ [][QuizNext]_quizVars

-----------------------------------------------------------------------------
(* Properties.                                                             *)

\* A quiz is made of reads of one week, and what was left aside then served no goal
\* while the quiz does, or is older than all of the quiz that serves goals as it does.
QuizIsOfOneWeek ==
  \A m \in Quizmasters :
    LET made == quizmasters[m]
        serves(f) == AimsOf[f.paper] \cap made.aims # {}
    IN /\ \A f, g \in ToSet(made.of) : f.day - g.day <= Fresh /\ (serves(f) <=> serves(g))
       /\ \A f \in made.aside, g \in ToSet(made.of) :
            \/ serves(g) /\ ~serves(f)
            \/ serves(g) = serves(f) /\ f.day <= g.day /\ Len(made.of) = MaxChosen

\* What a quiz shows as its result is that of the answers that were submitted last,
\* and it was posed with questions that can be counted.
ResultIsOfAnswers ==
  \A i \in Posed :
    /\ quizzes[i].questions # <<>>
    /\ Completed(i) =>
         /\ DOMAIN quizzes[i].said = DOMAIN quizzes[i].questions
         /\ quizzes[i].score = Cardinality({k \in DOMAIN quizzes[i].said : quizzes[i].said[k] = <<quizzes[i].questions[k].right>>})

\* The reward is of the first quiz that had a right answer, however often and in
\* whatever order quizzes are answered again, is kept, and is shown once, never to a guest.
RewardIsOfFirstPass ==
  /\ prize.for = IF guest \/ passed = <<>> THEN 0 ELSE passed[1]
  /\ prize.shown = 1 => prize.for # 0

QuizInv == QuizIsOfOneWeek /\ ResultIsOfAnswers /\ RewardIsOfFirstPass

\* Holds not: an empty answer, submitted later, takes the points away.
PassedStaysPassed == \A k \in DOMAIN passed : quizzes[passed[k]].score > 0

\* Holds not: nothing keeps a second request of the week from making a quiz.
OneQuizOfTheseReads == Len(quizzes) <= 1 \/ today = MaxToday
=============================================================================
