----------------------------- MODULE MCArticles -----------------------------
(* Small instances, for TLC, of the modules about articles and where they  *)
(* come from.  A behaviour is one of the part chosen at its beginning: the *)
(* others do not move, so one run explores each of them by itself.         *)
EXTENDS ArticleLibrary, ReaderWorkflow, NewsletterPoll, WatchlistEvaluation, TLC

VARIABLE part
articlesVars == <<part, libraryVars, workflowVars, newsletterVars, watchlistVars>>

ArticlesInit ==
  /\ part \in {"library", "workflow", "newsletter", "watchlist"}
  /\ LibraryInit /\ WorkflowInit /\ NewsletterInit /\ WatchlistInit

ArticlesNext ==
  /\ UNCHANGED part
  /\ \/ /\ part = "library" /\ LibraryNext
        /\ UNCHANGED <<workflowVars, newsletterVars, watchlistVars>>
     \/ /\ part = "workflow" /\ WorkflowNext
        /\ UNCHANGED <<libraryVars, newsletterVars, watchlistVars>>
     \/ /\ part = "newsletter" /\ NewsletterNext
        /\ UNCHANGED <<libraryVars, workflowVars, watchlistVars>>
     \/ /\ part = "watchlist" /\ WatchlistNext
        /\ UNCHANGED <<libraryVars, workflowVars, newsletterVars>>

ArticlesSpec == ArticlesInit /\ [][ArticlesNext]_articlesVars

\* The types of all parts.
ArticlesTypeOK == LibraryTypeOK /\ WorkflowTypeOK /\ NewsletterTypeOK /\ WatchlistTypeOK

\* a and b have similar titles; c is close to both of them in meaning.
MCAlike == {<<"a", "b">>, <<"b", "a">>}
MCClose == {<<"c", "b">>, <<"b", "c">>, <<"a", "c">>, <<"c", "a">>}
MCMessageIdOf == (1 :> "x") @@ (2 :> "y") @@ (3 :> "z")
MCOwnerOf == ("world" :> "everyone") @@ ("mine" :> "me") @@ ("share" :> "everyone")
=============================================================================
