-------------------------- MODULE SchedulerControl --------------------------
(***************************************************************************)
(* How administrators control the job that ingests at an interval: the     *)
(* interval and the pause are settings in the database, the job of the     *)
(* scheduler in the process, and the interval the process says it has.  A  *)
(* request changes them one after the other; what fails at the job is only *)
(* logged.  A process that starts takes them from the settings.            *)
(***************************************************************************)
EXTENDS Naturals

CONSTANTS
  Intervals,   \* minutes
  EnvInterval, \* the interval of the environment
  Admins       \* requests in progress at a time

\* A request for less than a minute is refused.
ASSUME ControlAssumption == Intervals \subseteq Nat \ {0} /\ EnvInterval \in Intervals

VARIABLES
  setting,   \* the settings; 0 is an interval that was never set
  job,       \* the job; its interval is 0 when there is none
  process,   \* whether it runs, has the job of its own, and the interval it says
  admin,     \* per request: what it does, and what it does next
  doubt      \* a step has failed, or requests overlapped, since the start (auxiliary)

controlVars == <<setting, job, process, admin, doubt>>

NoJob == [interval |-> 0, paused |-> FALSE]
NoRequest == [deed |-> "none", next |-> "none", to |-> 0]

ControlTypeOK ==
  /\ setting \in [interval: Intervals \cup {0}, paused: BOOLEAN]
  /\ job \in [interval: Intervals \cup {0}, paused: BOOLEAN]
  /\ process \in [up: BOOLEAN, owns: BOOLEAN, interval: Intervals]
  /\ admin \in [Admins -> [deed: {"none", "interval", "pause", "resume"},
                           next: {"none", "save", "apply"}, to: Intervals \cup {0}]]
  /\ doubt \in BOOLEAN

ControlInit ==
  /\ setting = [interval |-> 0, paused |-> FALSE]
  /\ job = NoJob
  /\ process = [up |-> FALSE, owns |-> FALSE, interval |-> EnvInterval]
  /\ admin = [a \in Admins |-> NoRequest] /\ doubt = FALSE

\* Wrong: the interval of the environment, whatever was set.
StartFromEnv == EnvInterval
StartInterval == IF setting.interval = 0 THEN EnvInterval ELSE setting.interval

\* Pausing the job that has just been added may fail.
StartScheduler ==
  /\ ~process.up
  /\ \E owns, failed \in BOOLEAN :
       /\ process' = [up |-> TRUE, owns |-> owns, interval |-> StartInterval]
       /\ job' = IF owns THEN [interval |-> StartInterval, paused |-> setting.paused /\ ~failed]
                         ELSE NoJob
       /\ doubt' = failed
  /\ UNCHANGED <<setting, admin>>

\* The process ends, with the requests it serves.
StopScheduler ==
  /\ process.up
  /\ process' = [process EXCEPT !.up = FALSE]
  /\ job' = NoJob
  /\ admin' = [a \in Admins |-> NoRequest]
  /\ UNCHANGED <<setting, doubt>>

Begin(a, deed, n) ==
  /\ process.up /\ admin[a] = NoRequest
  /\ admin' = [admin EXCEPT ![a] = [deed |-> deed, next |-> "save", to |-> n]]
  /\ doubt' = (doubt \/ \E b \in Admins : admin[b] # NoRequest)

AskInterval(a) ==
  \E n \in Intervals :
    /\ Begin(a, "interval", n)
    /\ process' = [process EXCEPT !.interval = n]
    /\ UNCHANGED <<setting, job>>

AskPause(a) ==
  /\ \E deed \in {"pause", "resume"} : Begin(a, deed, 0)
  /\ UNCHANGED <<setting, job, process>>

\* The request fails when its setting cannot be written.
SaveSetting(a) ==
  /\ admin[a].next = "save"
  /\ \/ /\ setting' = CASE admin[a].deed = "interval" -> [setting EXCEPT !.interval = admin[a].to]
                        [] admin[a].deed = "pause" -> [setting EXCEPT !.paused = TRUE]
                        [] admin[a].deed = "resume" -> [setting EXCEPT !.paused = FALSE]
        /\ admin' = [admin EXCEPT ![a].next = "apply"]
        /\ UNCHANGED doubt
     \/ /\ admin' = [admin EXCEPT ![a] = NoRequest]
        /\ doubt' = TRUE
        /\ UNCHANGED setting
  /\ UNCHANGED <<job, process>>

\* A job that is rescheduled gets a new time of its next run, and so is no
\* longer paused.
Rescheduled(n) == [interval |-> n, paused |-> FALSE]

\* Wrong: rescheduling is left to the next start.
ApplyPauseOnly(a) ==
  /\ admin[a].next = "apply"
  /\ admin' = [admin EXCEPT ![a] = NoRequest]
  /\ job' = IF ~process.owns \/ admin[a].deed = "interval" THEN job
            ELSE [job EXCEPT !.paused = admin[a].deed = "pause"]
  /\ UNCHANGED <<setting, process, doubt>>

ApplyToJob(a) ==
  /\ admin[a].next = "apply"
  /\ admin' = [admin EXCEPT ![a] = NoRequest]
  /\ \/ /\ process.owns
        /\ job' = CASE admin[a].deed = "interval" -> Rescheduled(admin[a].to)
                    [] admin[a].deed = "pause" -> [job EXCEPT !.paused = TRUE]
                    [] admin[a].deed = "resume" -> [job EXCEPT !.paused = FALSE]
        /\ UNCHANGED doubt
     \/ process.owns /\ doubt' = TRUE /\ UNCHANGED job
     \/ ~process.owns /\ UNCHANGED <<job, doubt>>
  /\ UNCHANGED <<setting, process>>

ControlNext ==
  \/ StartScheduler \/ StopScheduler
  \/ \E a \in Admins : AskInterval(a) \/ AskPause(a) \/ SaveSetting(a) \/ ApplyToJob(a)

ControlSpec == ControlInit /\ [][ControlNext]_controlVars

-----------------------------------------------------------------------------
(* Properties.                                                             *)

Quiet == process.up /\ ~doubt /\ \A a \in Admins : admin[a] = NoRequest

\* The interval an administrator is told is the one the job has and the one the
\* next process will start with.
IntervalInEffect ==
  Quiet => /\ process.interval = StartInterval
           /\ process.owns => job.interval = process.interval

\* "Pause the ingest job and persist state." (service.py:1060): the state that is
\* saved is that of the job.
PauseInEffect == Quiet /\ process.owns => job.paused = setting.paused
=============================================================================
