---------------------------- MODULE WeeklyRecap ----------------------------
(***************************************************************************)
(* The weekly recap of one reader for one week.  Every scheduler process   *)
(* whose minute matches measures the week, and the first measurement that  *)
(* is stored is kept; its narrative is generated afterwards and filled in  *)
(* once, and its writer pushes it.  The reader goes on reading meanwhile.  *)
(***************************************************************************)
EXTENDS Naturals

CONSTANTS
  Recappers,  \* jobs that find the reader in the scheduled minute
  MaxReads    \* bound: what is read while the recap is made

ASSUME RecapAssumption == MaxReads \in Nat

VARIABLES
  reads,     \* what there is to measure
  recap,     \* the row: its format, its measurement, and what its narrative tells
  recapper,  \* per job: how far it is, what it has measured and what it got back
  announced  \* jobs that have pushed the recap (auxiliary)

recapVars == <<reads, recap, recapper, announced>>

Measures == 0 .. MaxReads
RecapTypeOK ==
  /\ reads \in Measures
  /\ recap \in [format: {"none", "legacy", "v2"}, measure: Measures,
                tells: {{}} \cup {{n} : n \in Measures}]
  /\ recapper \in [Recappers ->
       [at: {"new", "measured", "saved", "told", "over"}, push: BOOLEAN, measure: Measures,
        format: {"none", "legacy", "v2"}, untold: BOOLEAN, inserted: BOOLEAN]]
  /\ announced \subseteq Recappers

RecapInit ==
  /\ reads = 0 /\ announced = {}
  /\ recap \in {[format |-> f, measure |-> 0, tells |-> {}] : f \in {"none", "legacy"}}
  /\ recapper \in [Recappers -> {[at |-> "new", push |-> b, measure |-> 0, format |-> "none",
                                  untold |-> FALSE, inserted |-> FALSE] : b \in BOOLEAN}]

ReadOn == reads < MaxReads /\ reads' = reads + 1 /\ UNCHANGED <<recap, recapper, announced>>

\* The week's dates were fixed when the minute matched; what is in them is read
\* in one transaction.
AssembleRecap(r) ==
  /\ recapper[r].at = "new"
  /\ recapper' = [recapper EXCEPT ![r].at = "measured", ![r].measure = reads]
  /\ UNCHANGED <<reads, recap, announced>>

\* Wrong: the newest measurement replaces the one before.
StoredLast(r) ==
  [format |-> "v2", measure |-> recapper[r].measure, tells |-> recap.tells]

\* The first row of the week stays, one in the format of an older release too;
\* the job goes on with what is stored, not with what it has measured.
Stored(r) == IF recap.format = "none"
             THEN [format |-> "v2", measure |-> recapper[r].measure, tells |-> {}] ELSE recap
SaveRecap(r) ==
  /\ recapper[r].at = "measured"
  /\ recap' = Stored(r)
  /\ recapper' = [recapper EXCEPT ![r] =
       [@ EXCEPT !.at = "saved", !.inserted = recap.format = "none", !.measure = recap'.measure,
                 !.format = recap'.format, !.untold = recap'.tells = {}]]
  /\ UNCHANGED <<reads, announced>>

Untold(r) == recapper[r].format = "v2" /\ recapper[r].untold

\* The narrative is stored unless another job's has been; it may not be had.
FillNarrative(r) ==
  /\ recapper[r].at = "saved"
  /\ \/ /\ Untold(r)
        /\ recap' = IF recap.tells = {} THEN [recap EXCEPT !.tells = {recapper[r].measure}]
                                        ELSE recap
     \/ UNCHANGED recap
  /\ recapper' = [recapper EXCEPT ![r].at = "told"]
  /\ UNCHANGED <<reads, announced>>

PushRecap(r) ==
  /\ recapper[r].at = "told"
  /\ announced' = IF recapper[r].push /\ recapper[r].inserted THEN announced \cup {r} ELSE announced
  /\ recapper' = [recapper EXCEPT ![r].at = "over"]
  /\ UNCHANGED <<reads, recap>>

\* The process stops, or a step fails: the job of this minute is not repeated.
LoseRecap(r) ==
  /\ recapper[r].at \notin {"new", "over"}
  /\ recapper' = [recapper EXCEPT ![r].at = "over"]
  /\ UNCHANGED <<reads, recap, announced>>

RecapNext ==
  \/ ReadOn
  \/ \E r \in Recappers : \/ AssembleRecap(r) \/ SaveRecap(r) \/ FillNarrative(r)
                          \/ PushRecap(r) \/ LoseRecap(r)

RecapSpec == RecapInit /\ [][RecapNext]_recapVars

-----------------------------------------------------------------------------
(* Properties.                                                             *)

\* recaps/service.py:86, "First v2 snapshot wins": whichever jobs measure the
\* week and however they overlap, the reader is told of one recap only, and the
\* narrative tells the measurement beside it, not that of the job that wrote it.
OneRecapIsTold ==
  /\ \A r, s \in announced : r = s
  /\ announced # {} => recap.format = "v2"
  /\ recap.tells \subseteq {recap.measure}
=============================================================================
