---------------------------- MODULE AgentActions ----------------------------
(***************************************************************************)
(* A plan of article mutations that the agent proposes and the reader      *)
(* approves or cancels.  Approval and cancelling read the run's status and *)
(* then write it, and nothing locks the run in between; the steps of an    *)
(* approved plan are executed one by one, each in transactions of its own, *)
(* by the request that approved it.                                        *)
(***************************************************************************)
EXTENDS Naturals, FiniteSets

CONSTANTS
  Requests,   \* requests to approve or to cancel the run
  MaxSteps    \* bound: steps of a plan (ten in the code)

ASSUME AgentAssumption == IsFiniteSet(Requests) /\ MaxSteps \in Nat \ {0}

VARIABLES
  runStatus,   \* the run's status, "none" before it is proposed
  planned,     \* per step of the plan, whether only an administrator may run it
  stepStatus,  \* per step, its status
  asked,       \* per request: what it asks and how far it has come
  applied      \* per step, how often its tool has taken effect (auxiliary)

agentVars == <<runStatus, planned, stepStatus, asked, applied>>

Steps == DOMAIN planned
RunStatus == {"none", "proposed", "approved", "executed", "failed", "cancelled"}
Asked == [verb: {"approve", "cancel"}, at: {"new", "seen", "running", "over"},
          next: 1 .. MaxSteps + 1, ok: BOOLEAN, admin: BOOLEAN]

AgentTypeOK ==
  /\ runStatus \in RunStatus
  /\ \E n \in 0 .. MaxSteps :
       /\ planned \in [1 .. n -> {"article", "admin"}]
       /\ stepStatus \in [1 .. n -> {"pending", "executed", "failed"}]
       /\ applied \in [1 .. n -> 0 .. Cardinality(Requests)]
  /\ asked \in [Requests -> Asked]

AgentInit ==
  /\ runStatus = "none"
  /\ planned = [i \in 1 .. 0 |-> "article"]
  /\ stepStatus = [i \in 1 .. 0 |-> "pending"]
  /\ applied = [i \in 1 .. 0 |-> 0]
  /\ asked \in [Requests -> {[verb |-> v, at |-> "new", next |-> 1, ok |-> TRUE, admin |-> a] :
                               v \in {"approve", "cancel"}, a \in BOOLEAN}]

\* The planner's answer is validated whole: an unknown tool, an article that
\* was no candidate or an administrator's tool for anybody else rejects it, and
\* a plan without steps is not stored.  The reader may be an administrator now
\* and not be one when the plan is approved.
Propose ==
  /\ runStatus = "none"
  /\ \E n \in 1 .. MaxSteps :
       /\ planned' \in [1 .. n -> {"article", "admin"}]
       /\ stepStatus' = [i \in 1 .. n |-> "pending"]
       /\ applied' = [i \in 1 .. n |-> 0]
  /\ runStatus' = "proposed"
  /\ UNCHANGED asked

\* The status is read; whatever it is but "proposed" refuses the request.
ReadStatus(q) ==
  /\ asked[q].at = "new" /\ runStatus # "none"
  /\ asked' = [asked EXCEPT ![q].at = IF runStatus = "proposed" THEN "seen" ELSE "over"]
  /\ UNCHANGED <<runStatus, planned, stepStatus, applied>>

CancelRun(q) ==
  /\ asked[q].verb = "cancel" /\ asked[q].at = "seen"
  /\ runStatus' = "cancelled"
  /\ asked' = [asked EXCEPT ![q].at = "over"]
  /\ UNCHANGED <<planned, stepStatus, applied>>

LoadApprovedRun(q) ==
  /\ asked[q].verb = "approve" /\ asked[q].at = "seen"
  /\ runStatus' = "approved"
  /\ asked' = [asked EXCEPT ![q].at = "running"]
  /\ UNCHANGED <<planned, stepStatus, applied>>

Running(q) == asked[q].at = "running"

\* Wrong: the rights of the request are not looked at.
PermittedAlways(q, i) == TRUE

Permitted(q, i) == planned[i] = "article" \/ asked[q].admin

\* The tool takes effect, or is refused by the workflow; its outcome is stored.
ExecuteNextStep(q) ==
  /\ Running(q) /\ asked[q].next \in Steps
  /\ LET i == asked[q].next IN
     \/ /\ Permitted(q, i)
        /\ applied' = [applied EXCEPT ![i] = @ + 1]
        /\ stepStatus' = [stepStatus EXCEPT ![i] = "executed"]
        /\ asked' = [asked EXCEPT ![q].next = @ + 1]
     \/ /\ stepStatus' = [stepStatus EXCEPT ![i] = "failed"]
        /\ asked' = [asked EXCEPT ![q].next = @ + 1, ![q].ok = FALSE]
        /\ UNCHANGED applied
  /\ UNCHANGED <<runStatus, planned>>

FinalizeExecution(q) ==
  /\ Running(q) /\ asked[q].next \notin Steps
  /\ runStatus' = IF asked[q].ok THEN "executed" ELSE "failed"
  /\ asked' = [asked EXCEPT ![q].at = "over"]
  /\ UNCHANGED <<planned, stepStatus, applied>>

\* The process ends, or a step raises what is no refusal: before the outcome of
\* the step is stored, its tool may have taken effect.
Abandon(q) ==
  /\ Running(q)
  /\ asked' = [asked EXCEPT ![q].at = "over"]
  /\ \/ UNCHANGED applied
     \/ /\ asked[q].next \in Steps /\ Permitted(q, asked[q].next)
        /\ applied' = [applied EXCEPT ![asked[q].next] = @ + 1]
  /\ UNCHANGED <<runStatus, planned, stepStatus>>

AgentNext ==
  \/ Propose
  \/ \E q \in Requests :
       \/ ReadStatus(q) \/ CancelRun(q) \/ LoadApprovedRun(q)
       \/ ExecuteNextStep(q) \/ FinalizeExecution(q) \/ Abandon(q)

AgentSpec == AgentInit /\ [][AgentNext]_agentVars

-----------------------------------------------------------------------------
(* Properties.                                                             *)

\* agent_actions.py:4: "Nothing runs until the user approves the run": each
\* effect of a step belongs to an approval of its own, and no administrator's
\* tool runs for a reader who is none when approving.
EffectsAreApproved ==
  \A i \in Steps :
    applied[i] <= Cardinality({q \in Requests :
      asked[q].verb = "approve" /\ asked[q].next >= i /\ asked[q].at \in {"running", "over"}
        /\ (planned[i] = "admin" => asked[q].admin)})

\* While one request works on a run the plan's outcome is read off its steps:
\* a run is called executed only when each of its steps has been.
OneApproval == Cardinality({q \in Requests : asked[q].verb = "approve"}) <= 1
ExecutedMeansAll ==
  (OneApproval /\ runStatus = "executed") => \A i \in Steps : stepStatus[i] = "executed"

\* What holds of a run whatever requests race for it.
AgentInv == EffectsAreApproved /\ ExecutedMeansAll

\* agent_actions.py:455: "cannot approve a run with status ..." for every status
\* but proposed: what has been approved is not approved again.
ApprovedOnce == \A i \in Steps : applied[i] <= 1
=============================================================================
