----------------------------- MODULE MCSources -----------------------------
(* Small instances, for TLC, of the modules about sources, their ingestion   *)
(* and a reader's archive, each explored by itself as in MCArticles.        *)
EXTENDS IngestStream, IngestReport, SourceCatalogue, SchedulerControl, PersonalArchive, TLC

VARIABLE part
sourcesVars == <<part, streamVars, reportVars, catalogueVars, controlVars, archiveVars>>

SourcesInit ==
  /\ part \in {"stream", "report", "catalogue", "control", "archive"}
  /\ StreamInit /\ ReportInit /\ CatalogueInit /\ ControlInit /\ ArchiveInit

SourcesNext ==
  /\ UNCHANGED part
  /\ \/ part = "stream" /\ StreamNext /\ UNCHANGED <<reportVars, catalogueVars, controlVars, archiveVars>>
     \/ part = "report" /\ ReportNext /\ UNCHANGED <<streamVars, catalogueVars, controlVars, archiveVars>>
     \/ part = "catalogue" /\ CatalogueNext /\ UNCHANGED <<streamVars, reportVars, controlVars, archiveVars>>
     \/ part = "control" /\ ControlNext /\ UNCHANGED <<streamVars, reportVars, catalogueVars, archiveVars>>
     \/ part = "archive" /\ ArchiveNext /\ UNCHANGED <<streamVars, reportVars, catalogueVars, controlVars>>

SourcesSpec == SourcesInit /\ [][SourcesNext]_sourcesVars

\* The types of all parts.
SourcesTypeOK ==
  StreamTypeOK /\ ReportTypeOK /\ CatalogueTypeOK /\ ControlTypeOK /\ ArchiveTypeOK

\* What a run has done is what is shown of it: live, in its report, and as health.
RunsAreShown == ScreenShowsLog /\ RunsAddUp /\ HealthIsLastCheck

\* What is set is in effect: for the sources fetched, for the interval, and what a
\* restored archive says for the account.
SettingsInEffect == FetchedIsListed /\ IntervalInEffect /\ ArchiveInv

\* Requests, readers and processes that ingest are interchangeable.
Interchangeable == Permutations(Tabs) \cup Permutations(Readers) \cup Permutations(Workers)

\* A source that all have and a private one, which may come to have the other's
\* name but for its capitals.
MCFirstName == [world |-> 2, own |-> 1]
MCNewNames == [world |-> {}, own |-> {3}]
MCNameKey == <<"garden", "news", "news">>
MCSlugKey == [world |-> "news", own |-> "user-7-garden"]
MCListings == {<<"world", "own">>, <<"own", "world">>, <<"world">>}

MCFeedOf == [u \in Addresses |-> IF u = "p" THEN "own" ELSE "world"]
=============================================================================
