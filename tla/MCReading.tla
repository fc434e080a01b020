------------------------------ MODULE MCReading ------------------------------
(* Small instances, for TLC, of the modules about the measurement of        *)
(* reading and its rewards, and about what a reader is shown, each explored *)
(* by itself as in MCArticles.                                              *)
EXTENDS ReadingActivity, ReadCredits, DailyVisits, ReaderEvidence, LessonShelf,
        ArticleSurfaces, BriefingPodcast, ReadingItems, WeeklyQuiz, TLC

VARIABLE part
readingVars == <<part, activityVars, creditsVars, visitsVars, evidenceVars, shelfVars, surfacesVars,
                 podcastVars, listVars, quizVars>>

\* A part that does not move begins in one of its initial states.
ReadingInit ==
  /\ part \in {"activity", "credits", "visits", "evidence", "shelf", "surfaces", "podcast", "list", "quiz"}
  /\ ActivityInit /\ (part = "activity" \/ zone = 0)
  /\ VisitsInit /\ (part = "visits" \/ home = 0)
  /\ CreditsInit /\ (part = "credits" \/ found = 0)
  /\ ShelfInit /\ (part = "shelf" \/ hidden = {})
  /\ EvidenceInit /\ SurfacesInit /\ PodcastInit /\ ListInit
  /\ QuizInit /\ (part = "quiz" \/ guest)

ReadingNext ==
  /\ UNCHANGED part
  /\ \/ /\ part = "activity" /\ ActivityNext
        /\ UNCHANGED <<creditsVars, visitsVars, evidenceVars, shelfVars, surfacesVars, podcastVars, listVars, quizVars>>
     \/ /\ part = "credits" /\ CreditsNext
        /\ UNCHANGED <<activityVars, visitsVars, evidenceVars, shelfVars, surfacesVars, podcastVars, listVars, quizVars>>
     \/ /\ part = "visits" /\ VisitsNext
        /\ UNCHANGED <<activityVars, creditsVars, evidenceVars, shelfVars, surfacesVars, podcastVars, listVars, quizVars>>
     \/ /\ part = "evidence" /\ EvidenceNext
        /\ UNCHANGED <<activityVars, creditsVars, visitsVars, shelfVars, surfacesVars, podcastVars, listVars, quizVars>>
     \/ /\ part = "shelf" /\ ShelfNext
        /\ UNCHANGED <<activityVars, creditsVars, visitsVars, evidenceVars, surfacesVars, podcastVars, listVars, quizVars>>
     \/ /\ part = "surfaces" /\ SurfacesNext
        /\ UNCHANGED <<activityVars, creditsVars, visitsVars, evidenceVars, shelfVars, podcastVars, listVars, quizVars>>
     \/ /\ part = "podcast" /\ PodcastNext
        /\ UNCHANGED <<activityVars, creditsVars, visitsVars, evidenceVars, shelfVars, surfacesVars, listVars, quizVars>>
     \/ /\ part = "list" /\ ListNext
        /\ UNCHANGED <<activityVars, creditsVars, visitsVars, evidenceVars, shelfVars, surfacesVars, podcastVars, quizVars>>
     \/ /\ part = "quiz" /\ QuizNext
        /\ UNCHANGED <<activityVars, creditsVars, visitsVars, evidenceVars, shelfVars, surfacesVars, podcastVars, listVars>>

ReadingSpec == ReadingInit /\ [][ReadingNext]_readingVars

\* The types of all parts.
ReadingTypeOK ==
  /\ ActivityTypeOK /\ CreditsTypeOK /\ VisitsTypeOK /\ EvidenceTypeOK
  /\ ShelfTypeOK /\ SurfacesTypeOK /\ PodcastTypeOK /\ ListTypeOK /\ QuizTypeOK

\* What is counted: every instant, every read and every visit once.
CountedOnce == EachInstantOnce /\ CreditsInv /\ VisitsInv

\* What is counted is counted once, and what is shown is all there is to show:
\* of articles on every surface, of lessons on their pages and trails, of a briefing
\* in its podcast, of a page that is to be read, and of a quiz.
CountedAndShown == CountedOnce /\ ShelfInv /\ SurfacesInv /\ PodcastSaysScript /\ ListInv /\ QuizInv

\* The first and the third identifier are of one article, deleted and found again.
MCUrlOf == <<"a", "b", "a">>

\* Imports: of a page with a title, of one without, of one twice, and of two.
MCEntry(url, titled) == [url |-> url, titled |-> titled]
MCFiles ==
  {<<MCEntry("p", FALSE)>>, <<MCEntry("p", TRUE), MCEntry("p", FALSE)>>, <<MCEntry("q", FALSE), MCEntry("p", TRUE)>>}

MCLink(terms, concept, rank, length, importance, score) ==
  [terms |-> terms, concept |-> concept, rank |-> rank, length |-> length,
   importance |-> importance, score |-> score]
MCContentOf ==
  <<MCLink({"t", "u"}, "t", 2, 4, 50, 1), MCLink({"t"}, "t", 3, 5, 80, 2), MCLink({"u"}, "v", 2, 1, 50, 2)>>

\* Two articles of a global source, one of the reader's own and one of another's.
MCSourceOf == <<"world", "mine", "theirs", "world">>
MCBelongsTo == ("world" :> "everyone") @@ ("mine" :> "me") @@ ("theirs" :> "another")
MCColdScore == <<3, 1, 2, 1>>
MCOwnScore == <<1, 2, 3, 3>>

\* Quizzes: the first and the third article are for the goal; a reply with a question
\* that is left out, and one that cannot be read.
MCAimsOf == [a \in Papers |-> IF a = 1 THEN {"x"} ELSE IF a = 2 THEN {} ELSE {"x"}]
MCAsk(form, right, about) == [form |-> form, right |-> right, about |-> about]
MCReplies ==
  {<<MCAsk("good", 0, 1), MCAsk("partial", 0, 1), MCAsk("good", 1, 9)>>,
   <<MCAsk("good", 0, 2), MCAsk("garbled", 0, 2)>>}
MCTries == {<<>>, <<0>>, <<1, 1, 0>>}
=============================================================================
