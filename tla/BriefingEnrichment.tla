------------------------- MODULE BriefingEnrichment -------------------------
(***************************************************************************)
(* The research that enriches one briefing's e-mail, and the callers that  *)
(* ask for it: scheduled deliveries and previews.  One row per briefing    *)
(* holds the run or its result; a run that has not touched its row for     *)
(* five minutes may be taken over while it is still at work.  Previews are *)
(* spaced by a cooldown that the process keeps in memory.                  *)
(***************************************************************************)
EXTENDS Naturals, FiniteSets

CONSTANTS
  Callers,     \* deliveries and previews of the briefing
  Previews,    \* those among them that are previews
  Configured,  \* those in a process that has a search key and a model
  NoCaller     \* nobody

ASSUME EnrichmentAssumption ==
  Previews \subseteq Callers /\ Configured \subseteq Callers /\ NoCaller \notin Callers

VARIABLES
  enrichment,  \* the row: its status, and whose result it holds
  untouched,   \* the row is running and has not been touched for five minutes
  caller,      \* per caller, how far it has come and what it has got
  cooldown,    \* the preview whose entry stands in the cooldown table
  overtaken,   \* callers whose running row another caller has overwritten (auxiliary)
  fresh        \* previews claimed less than a minute ago that have not failed (auxiliary)

enrichmentVars == <<enrichment, untouched, caller, cooldown, overtaken, fresh>>

Statuses == {"none", "running", "complete", "failed", "skipped"}
Phases == {"idle", "asking", "claiming", "researching", "rendering", "over"}

EnrichmentTypeOK ==
  /\ enrichment \in [status: Statuses, content: Callers \cup {NoCaller}]
  /\ enrichment.status = "complete" <=> enrichment.content # NoCaller
  /\ untouched \in BOOLEAN /\ (untouched => enrichment.status = "running")
  /\ caller \in [Callers -> [at: Phases, got: Callers \cup {NoCaller}]]
  /\ cooldown \in Previews \cup {NoCaller}
  /\ overtaken \subseteq Callers
  /\ fresh \subseteq Previews /\ (cooldown # NoCaller => cooldown \in fresh)

EnrichmentInit ==
  /\ enrichment = [status |-> "none", content |-> NoCaller] /\ untouched = FALSE
  /\ caller = [c \in Callers |-> [at |-> "idle", got |-> NoCaller]]
  /\ cooldown = NoCaller /\ overtaken = {} /\ fresh = {}

At(c) == caller[c].at
Go(c, phase) == caller' = [caller EXCEPT ![c].at = phase]
GoWith(c, phase, content) == caller' = [caller EXCEPT ![c] = [at |-> phase, got |-> content]]

-----------------------------------------------------------------------------
(* The beginning and the end of a caller.                                  *)

\* A delivery just asks.  A preview first claims the cooldown, or is refused.
Ask(c) ==
  /\ At(c) = "idle"
  /\ c \in Previews => cooldown = NoCaller
  /\ cooldown' = IF c \in Previews THEN c ELSE cooldown
  /\ fresh' = IF c \in Previews THEN fresh \cup {c} ELSE fresh
  /\ Go(c, "asking")
  /\ UNCHANGED <<enrichment, untouched, overtaken>>

\* The message is rendered and handed to the transport.
SendMessage(c) ==
  /\ At(c) = "rendering"
  /\ Go(c, "over")
  /\ UNCHANGED <<enrichment, untouched, cooldown, overtaken, fresh>>

\* A preview that fails after its claim releases the cooldown, by the user's key.
FailMessage(c) ==
  /\ At(c) = "rendering"
  /\ Go(c, "over")
  /\ cooldown' = IF c \in Previews THEN NoCaller ELSE cooldown
  /\ fresh' = fresh \ {c}
  /\ UNCHANGED <<enrichment, untouched, overtaken>>

\* A minute after the claim its entry no longer counts, if it is still there.
CooldownLapses(c) ==
  /\ c \in fresh
  /\ fresh' = fresh \ {c}
  /\ cooldown' = IF cooldown = c THEN NoCaller ELSE cooldown
  /\ UNCHANGED <<enrichment, untouched, caller, overtaken>>

\* The process ends, and the cooldown table with it.
EnrichmentCrash(c) ==
  /\ At(c) \notin {"idle", "over"}
  /\ Go(c, "over")
  /\ cooldown' = NoCaller /\ fresh' = {}
  /\ UNCHANGED <<enrichment, untouched, overtaken>>

-----------------------------------------------------------------------------
(* The research.                                                           *)

LoadCompleted(c) ==
  /\ At(c) = "asking"
  /\ IF enrichment.status = "complete" THEN GoWith(c, "rendering", enrichment.content)
                                       ELSE Go(c, "claiming")
  /\ UNCHANGED <<enrichment, untouched, cooldown, overtaken, fresh>>

Researching == {d \in Callers : At(d) = "researching"}

\* Wrong: whatever has been stored before.
RecordSkippedAlways(c) ==
  /\ At(c) = "claiming" /\ c \notin Configured
  /\ enrichment' = [status |-> "skipped", content |-> NoCaller]
  /\ untouched' = FALSE
  /\ Go(c, "rendering")
  /\ UNCHANGED <<cooldown, overtaken, fresh>>

\* Without a search key, a model or sourced sections: skipped, never over a
\* completed result.
RecordSkipped(c) ==
  /\ At(c) = "claiming" /\ c \notin Configured
  /\ IF enrichment.status = "complete" THEN UNCHANGED <<enrichment, untouched, overtaken>>
     ELSE /\ enrichment' = [status |-> "skipped", content |-> NoCaller]
          /\ untouched' = FALSE
          /\ overtaken' = overtaken \cup Researching
  /\ Go(c, "rendering")
  /\ UNCHANGED <<cooldown, fresh>>

Claimable == enrichment.status \in {"none", "failed", "skipped"} \/ untouched

\* A caller that may not claim the run renders what has been completed since.
ClaimRun(c) ==
  /\ At(c) = "claiming" /\ c \in Configured
  /\ IF Claimable
     THEN /\ enrichment' = [status |-> "running", content |-> NoCaller]
          /\ untouched' = FALSE
          /\ overtaken' = IF untouched THEN overtaken \cup Researching ELSE overtaken
          /\ Go(c, "researching")
     ELSE /\ GoWith(c, "rendering", enrichment.content)
          /\ UNCHANGED <<enrichment, untouched, overtaken>>
  /\ UNCHANGED <<cooldown, fresh>>

\* The answer covers the sections and cites fetched pages only.
SaveCompleted(c) ==
  /\ At(c) = "researching"
  /\ enrichment' = [status |-> "complete", content |-> c]
  /\ untouched' = FALSE
  /\ GoWith(c, "rendering", c)
  /\ UNCHANGED <<cooldown, overtaken, fresh>>

\* A budget is exhausted, a provider fails or the answer is invalid.
RecordResearchFailure(c) ==
  /\ At(c) = "researching"
  /\ enrichment' = [status |-> "failed", content |-> NoCaller]
  /\ untouched' = FALSE
  /\ Go(c, "rendering")
  /\ UNCHANGED <<cooldown, overtaken, fresh>>

\* The deadline of two minutes is looked at between calls only: a call that
\* hangs outlasts the five minutes of a claim.
GrowUntouched ==
  /\ enrichment.status = "running" /\ ~untouched
  /\ untouched' = TRUE
  /\ UNCHANGED <<enrichment, caller, cooldown, overtaken, fresh>>

EnrichmentNext ==
  \/ \E c \in Callers :
       \/ Ask(c) \/ SendMessage(c) \/ FailMessage(c) \/ EnrichmentCrash(c)
       \/ LoadCompleted(c) \/ RecordSkipped(c) \/ ClaimRun(c)
       \/ CooldownLapses(c) \/ SaveCompleted(c) \/ RecordResearchFailure(c)
  \/ GrowUntouched

EnrichmentSpec == EnrichmentInit /\ [][EnrichmentNext]_enrichmentVars

-----------------------------------------------------------------------------
(* Properties.                                                             *)

\* A completed result is kept for the deliveries and previews to come, however
\* the processes are configured, as long as no running row was overwritten by
\* a caller that took it over or recorded it as skipped: before the first such
\* step one run works on the briefing and nothing changes what it completed.
CompletedIsKept ==
  [][enrichment.status = "complete" /\ enrichment' # enrichment => overtaken # {}]_enrichmentVars

\* briefing_email/service.py:447: a preview is refused "inside the cooldown" of
\* another one, unless that one has failed.
PreviewsAreApart == Cardinality(fresh) <= 1
=============================================================================
