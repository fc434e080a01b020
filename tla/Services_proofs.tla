--------------------------- MODULE Services_proofs ---------------------------
(* Proofs about what is executed, sent, generated and fetched for a reader: *)
(* plans and their approvals, the transport of push messages, the weekly    *)
(* recap, what is cached of an article, the research for a briefing, the    *)
(* check of a source, scores, the run that makes a lesson and what was      *)
(* learned in a week; and of these and Reader_proofs together.              *)
EXTENDS MCServices, Reader_proofs, FiniteSetTheorems, SequenceTheorems, TLAPS

(***************************************************************************)
(* That the effects of a plan are covered by approvals, and that one       *)
(* approval's verdict on its plan can be believed: an inductive invariant  *)
(* of AgentActions, for plans of any length and any number of requests.    *)
(***************************************************************************)

-----------------------------------------------------------------------------
(* The invariant                                                           *)

Request == [verb: {"approve", "cancel"}, at: {"new", "seen", "running", "over"},
            next: Nat \ {0}, ok: BOOLEAN, admin: BOOLEAN]

\* Types, with the bound on plans left out.
AgentType ==
  /\ asked \in [Requests -> Request]
  /\ \E n \in Nat : Steps = 1 .. n
  /\ stepStatus \in [Steps -> {"pending", "executed", "failed"}]
  /\ applied \in [Steps -> Nat]

\* Requests that may have run step i: past it, or abandoned at it.
Users(i) == {q \in Requests :
  /\ asked[q].verb = "approve" /\ (planned[i] = "admin" => asked[q].admin)
  /\ \/ asked[q].at = "running" /\ asked[q].next > i
     \/ asked[q].at = "over" /\ asked[q].next >= i}

Approvers == {q \in Requests : asked[q].verb = "approve"}

\* With one approval, what it calls well done is done, and nothing follows it.
Believable ==
  OneApproval =>
    /\ \A q \in Requests : Running(q) /\ asked[q].ok =>
         \A i \in Steps : i < asked[q].next => stepStatus[i] = "executed"
    /\ runStatus = "executed" =>
         /\ \A i \in Steps : stepStatus[i] = "executed"
         /\ \A q \in Approvers : asked[q].at = "over"

AgentReach ==
  /\ AgentType
  /\ \A q \in Requests : /\ Running(q) => asked[q].verb = "approve"
                         /\ asked[q].at \in {"new", "seen"} => asked[q].next = 1
  /\ runStatus = "none" => \A q \in Requests : asked[q].at = "new"
  /\ \A i \in Steps : applied[i] <= Cardinality(Users(i))
  /\ Believable

-----------------------------------------------------------------------------
(* Counting                                                                *)

LEMMA Counted ==
  ASSUME NEW S, NEW T, S \subseteq T, T \subseteq Requests
  PROVE  /\ IsFiniteSet(S) /\ IsFiniteSet(T)
         /\ Cardinality(S) \in Nat /\ Cardinality(T) \in Nat
         /\ Cardinality(S) <= Cardinality(T)
<1>1. IsFiniteSet(T)
  BY AgentAssumption, FS_Subset
<1>2. IsFiniteSet(S) /\ Cardinality(S) <= Cardinality(T)
  BY <1>1, FS_Subset
<1> QED
  BY <1>1, <1>2, FS_CardinalityType

LEMMA CountedOneMore ==
  ASSUME NEW S, NEW T, NEW q, S \subseteq T, T \subseteq Requests, q \in T, q \notin S
  PROVE  Cardinality(S) + 1 <= Cardinality(T)
<1>1. IsFiniteSet(S) /\ Cardinality(S) \in Nat
  BY Counted
<1>2. Cardinality(S \cup {q}) = Cardinality(S) + 1
  BY <1>1, FS_AddElement
<1>3. S \cup {q} \subseteq T
  OBVIOUS
<1> QED
  BY <1>2, <1>3, Counted

\* With one approval, there are no two approvers.
LEMMA NoOtherApprover ==
  ASSUME OneApproval, NEW p \in Approvers, NEW q \in Approvers
  PROVE  p = q
<1>1. p = q \/ Cardinality({p} \cup {q}) = 2
  <2>1. IsFiniteSet({p}) /\ Cardinality({p}) = 1
    BY FS_Singleton
  <2>2. ASSUME p # q PROVE Cardinality({p} \cup {q}) = Cardinality({p}) + 1
    <3>1. q \notin {p}
      BY <2>2
    <3> QED
      BY <2>1, <3>1, FS_AddElement, Zenon
  <2> QED
    BY <2>1, <2>2
<1>2. /\ Cardinality({p} \cup {q}) \in Nat /\ Cardinality(Approvers) \in Nat
      /\ Cardinality({p} \cup {q}) <= Cardinality(Approvers)
  <2>1. {p} \cup {q} \subseteq Approvers /\ Approvers \subseteq Requests
    BY DEF Approvers
  <2> QED
    BY <2>1, Counted
<1>3. Cardinality(Approvers) <= 1
  BY DEF OneApproval, Approvers
<1> QED
  BY <1>1, <1>2, <1>3

-----------------------------------------------------------------------------
(* Steps                                                                   *)

LEMMA ReachInit == AgentInit => AgentReach
<1> SUFFICES ASSUME AgentInit PROVE AgentReach
  OBVIOUS
<1>1. AgentType /\ Steps = {}
  <2>1. \A q \in Requests : asked[q].at = "new" /\ asked[q] \in Request
    <3> SUFFICES ASSUME NEW q \in Requests
                 PROVE  asked[q].at = "new" /\ asked[q] \in Request
      OBVIOUS
    <3>1. PICK v \in {"approve", "cancel"}, a \in BOOLEAN :
            asked[q] = [verb |-> v, at |-> "new", next |-> 1, ok |-> TRUE, admin |-> a]
      BY DEF AgentInit
    <3> QED
      BY <3>1 DEF Request
  <2>2. asked \in [Requests -> Request]
    BY <2>1 DEF AgentInit
  <2>3. Steps = 1 .. 0
    BY DEF AgentInit, Steps
  <2>4. stepStatus \in [Steps -> {"pending", "executed", "failed"}]
        /\ applied \in [Steps -> Nat]
    <3>1. stepStatus = [i \in 1 .. 0 |-> "pending"] /\ applied = [i \in 1 .. 0 |-> 0]
      BY DEF AgentInit
    <3> QED
      BY <2>3, <3>1
  <2>5. Steps = {} /\ 0 \in Nat
    BY <2>3
  <2> QED
    BY <2>2, <2>3, <2>4, <2>5 DEF AgentType
<1>2. \A q \in Requests : asked[q].at = "new"
  BY DEF AgentInit
<1> QED
  BY <1>1, <1>2 DEF AgentReach, Believable, Running, AgentInit

\* A request moves on and nothing else: those that may have run a step stay so.
LEMMA UsersGrow ==
  ASSUME AgentReach, AgentType', UNCHANGED <<planned, applied>>,
         NEW q \in Requests, NEW r, r.verb = asked[q].verb, r.admin = asked[q].admin,
         asked' = [asked EXCEPT ![q] = r],
         \A i \in Steps : q \in Users(i) => (r.at = "over" /\ r.next >= i)
                                             \/ (r.at = "running" /\ r.next > i)
  PROVE  \A i \in Steps' : applied'[i] <= Cardinality(Users(i)')
<1> SUFFICES ASSUME NEW i \in Steps'
             PROVE  applied'[i] <= Cardinality(Users(i)')
  OBVIOUS
<1>1. i \in Steps /\ applied'[i] = applied[i] /\ applied[i] \in Nat
  BY DEF Steps, AgentReach, AgentType
<1>2. \A p \in Requests : asked'[p] = IF p = q THEN r ELSE asked[p]
  BY DEF AgentReach, AgentType
<1>3. Users(i) \subseteq Users(i)' /\ Users(i)' \subseteq Requests
  BY <1>1, <1>2 DEF Users
<1>4. applied[i] <= Cardinality(Users(i))
  BY <1>1 DEF AgentReach
<1> QED
  BY <1>1, <1>3, <1>4, Counted

\* A request applies the step it is at and counts for it from then on.
LEMMA UsersCount ==
  ASSUME AgentReach, AgentType', UNCHANGED planned,
         NEW q \in Requests, Running(q), NEW i, i = asked[q].next, i \in Steps,
         Permitted(q, i), applied' = [applied EXCEPT ![i] = @ + 1],
         \A p \in Requests : p # q => asked'[p] = asked[p],
         asked'[q].verb = asked[q].verb, asked'[q].admin = asked[q].admin,
         \/ asked'[q].at = "running" /\ asked'[q].next = i + 1
         \/ asked'[q].at = "over" /\ asked'[q].next = i
  PROVE  \A j \in Steps' : applied'[j] <= Cardinality(Users(j)')
<1> SUFFICES ASSUME NEW j \in Steps'
             PROVE  applied'[j] <= Cardinality(Users(j)')
  OBVIOUS
<1>1. j \in Steps /\ i \in Nat /\ j \in Nat /\ applied[j] \in Nat
      /\ applied'[j] = IF j = i THEN applied[j] + 1 ELSE applied[j]
  BY DEF Steps, AgentReach, AgentType
<1>2. Users(j) \subseteq Users(j)' /\ Users(j)' \subseteq Requests
  BY <1>1 DEF Users, Running
<1>3. applied[j] <= Cardinality(Users(j))
  BY <1>1 DEF AgentReach
<1>4. CASE j # i
  BY <1>1, <1>2, <1>3, <1>4, Counted
<1>5. CASE j = i
  <2>1. q \in Users(j)'
    BY <1>1, <1>5 DEF Users, Permitted, AgentReach, Running
  <2>2. q \notin Users(j)
    BY <1>1, <1>5 DEF Users, Running
  <2>3. Cardinality(Users(j)) \in Nat /\ Cardinality(Users(j)') \in Nat
    BY <1>2, Counted
  <2> QED
    BY <1>1, <1>2, <1>3, <1>5, <2>1, <2>2, <2>3, CountedOneMore
<1> QED
  BY <1>4, <1>5

\* The verbs of the requests never change.
LEMMA SameApprovers ==
  ASSUME AgentReach, NEW q \in Requests, NEW r, r.verb = asked[q].verb,
         asked' = [asked EXCEPT ![q] = r]
  PROVE  Approvers' = Approvers /\ OneApproval' = OneApproval
<1>1. \A p \in Requests : asked'[p].verb = asked[p].verb
  BY DEF AgentReach, AgentType
<1>2. {p \in Requests : asked'[p].verb = "approve"} = {p \in Requests : asked[p].verb = "approve"}
  BY <1>1
<1> QED
  BY <1>2 DEF Approvers, OneApproval

LEMMA ReachPropose == AgentReach /\ Propose => AgentReach'
<1> SUFFICES ASSUME AgentReach, Propose PROVE AgentReach'
  OBVIOUS
<1>1. PICK n \in 1 .. MaxSteps :
        /\ planned' \in [1 .. n -> {"article", "admin"}]
        /\ stepStatus' = [i \in 1 .. n |-> "pending"]
        /\ applied' = [i \in 1 .. n |-> 0]
  BY DEF Propose
<1>2. AgentType'
  BY <1>1, AgentAssumption DEF AgentReach, AgentType, Steps, Propose
<1>3. \A i \in Steps' : applied'[i] <= Cardinality(Users(i)')
  <2> SUFFICES ASSUME NEW i \in Steps' PROVE applied'[i] <= Cardinality(Users(i)')
    OBVIOUS
  <2>1. applied'[i] = 0
    BY <1>1 DEF Steps
  <2>2. Users(i)' \subseteq Requests
    BY DEF Users
  <2> QED
    BY <2>1, <2>2, Counted
<1>4. asked' = asked /\ runStatus = "none" /\ runStatus' = "proposed"
  BY DEF Propose
<1>5. \A q \in Requests : asked[q].at = "new"
  BY <1>4 DEF AgentReach
<1> QED
  BY <1>2, <1>3, <1>4, <1>5 DEF AgentReach, Believable, Running

\* Reading the status, cancelling and the start of a run.
LEMMA ReachDecision ==
  ASSUME AgentReach, NEW q \in Requests, ReadStatus(q) \/ CancelRun(q) \/ LoadApprovedRun(q)
  PROVE  AgentReach'
<1> DEFINE r == asked'[q]
<1>1. /\ asked' = [asked EXCEPT ![q] = r] /\ r \in Request
      /\ r.verb = asked[q].verb /\ r.admin = asked[q].admin /\ r.next = asked[q].next
      /\ asked[q].at \in {"new", "seen"} /\ r.at \in {"seen", "running", "over"}
      /\ r.at = "running" => r.verb = "approve" /\ runStatus' = "approved"
                               /\ asked[q].at = "seen"
      /\ r.at = "seen" => runStatus = "proposed"
      /\ UNCHANGED <<planned, stepStatus, applied>>
      /\ runStatus # "none"
      /\ runStatus' # "none" /\ (runStatus' = "executed" => runStatus = "executed")
  <2>1. asked \in [Requests -> Request] /\ asked[q] \in Request
        /\ (runStatus = "none" => asked[q].at = "new")
    BY DEF AgentReach, AgentType
  <2>2. CASE ReadStatus(q)
    BY <2>1, <2>2 DEF ReadStatus, Request
  <2>3. CASE CancelRun(q)
    BY <2>1, <2>3 DEF CancelRun, Request
  <2>4. CASE LoadApprovedRun(q)
    BY <2>1, <2>4 DEF LoadApprovedRun, Request
  <2> QED
    BY <2>2, <2>3, <2>4
<1> HIDE DEF r
<1>2. \A p \in Requests : asked'[p] = IF p = q THEN r ELSE asked[p]
  BY <1>1 DEF AgentReach, AgentType
<1>3. AgentType'
  BY <1>1 DEF AgentReach, AgentType, Steps
<1>4. \A i \in Steps' : applied'[i] <= Cardinality(Users(i)')
  <2>1. \A i \in Steps : q \notin Users(i)
    BY <1>1 DEF Users
  <2> QED
    BY <1>1, <1>3, <2>1, UsersGrow
<1>5. Believable'
  <2> SUFFICES ASSUME OneApproval' PROVE
               /\ \A p \in Requests : Running(p)' /\ asked'[p].ok =>
                    \A i \in Steps : i < asked'[p].next => stepStatus[i] = "executed"
               /\ runStatus' = "executed" =>
                    /\ \A i \in Steps : stepStatus[i] = "executed"
                    /\ \A p \in Approvers : asked'[p].at = "over"
    BY <1>1, SameApprovers DEF Believable, Steps
  <2>1. OneApproval
    BY <1>1, SameApprovers
  <2>2. ASSUME NEW p \in Requests, Running(p)', asked'[p].ok,
               NEW i \in Steps, i < asked'[p].next
        PROVE  stepStatus[i] = "executed"
    <3>1. CASE p = q
      <4>1. i \in Nat \ {0} /\ asked'[p].next = 1
        BY <1>1, <1>2, <3>1 DEF AgentReach, AgentType
      <4> QED
        BY <2>2, <4>1
    <3>2. CASE p # q
      BY <1>2, <2>1, <2>2, <3>2 DEF AgentReach, Believable, Running
    <3> QED
      BY <3>1, <3>2
  <2>3. ASSUME runStatus' = "executed"
        PROVE  /\ \A i \in Steps : stepStatus[i] = "executed"
               /\ \A p \in Approvers : asked'[p].at = "over"
    <3>1. /\ \A i \in Steps : stepStatus[i] = "executed"
          /\ \A p \in Approvers : asked[p].at = "over"
      BY <1>1, <2>1, <2>3 DEF AgentReach, Believable
    <3>2. q \notin Approvers
      BY <1>1, <3>1
    <3> QED
      BY <1>2, <3>1, <3>2 DEF Approvers
  <2> QED
    BY <2>2, <2>3
<1> QED
  BY <1>1, <1>2, <1>3, <1>4, <1>5 DEF AgentReach, Running

\* What a request that runs the plan does to it next.
LEMMA ReachExecution ==
  ASSUME AgentReach, NEW q \in Requests, ExecuteNextStep(q)
  PROVE  AgentReach'
<1> DEFINE r == asked'[q]
           i == asked[q].next
<1>1. /\ asked[q].at = "running" /\ asked[q].verb = "approve" /\ i \in Steps /\ i \in Nat \ {0}
      /\ asked' = [asked EXCEPT ![q] = r] /\ r \in Request
      /\ r.verb = asked[q].verb /\ r.admin = asked[q].admin /\ r.next = i + 1
      /\ r.at = "running"
      /\ UNCHANGED <<planned, runStatus>>
  BY DEF ExecuteNextStep, AgentReach, AgentType, Running, Request
<1>2. \/ /\ Permitted(q, i) /\ applied' = [applied EXCEPT ![i] = @ + 1]
         /\ stepStatus' = [stepStatus EXCEPT ![i] = "executed"] /\ r.ok = asked[q].ok
      \/ /\ UNCHANGED applied /\ stepStatus' = [stepStatus EXCEPT ![i] = "failed"] /\ ~r.ok
  BY DEF ExecuteNextStep, AgentReach, AgentType, Request
<1> HIDE DEF r, i
<1>3. \A p \in Requests : asked'[p] = IF p = q THEN r ELSE asked[p]
  BY <1>1 DEF AgentReach, AgentType
<1>4. AgentType'
  <2>1. Steps' = Steps /\ asked' \in [Requests -> Request]
    BY <1>1 DEF Steps, AgentReach, AgentType
  <2>2. stepStatus' \in [Steps -> {"pending", "executed", "failed"}]
    BY <1>1, <1>2 DEF AgentReach, AgentType
  <2>3. applied' \in [Steps -> Nat]
    <3>1. applied \in [Steps -> Nat] /\ applied[i] \in Nat
      BY <1>1 DEF AgentReach, AgentType
    <3> QED
      BY <1>2, <3>1
  <2> QED
    BY <2>1, <2>2, <2>3 DEF AgentReach, AgentType
<1>5. \A j \in Steps' : applied'[j] <= Cardinality(Users(j)')
  <2>1. CASE UNCHANGED applied
    <3>1. \A j \in Steps : q \in Users(j) => r.at = "running" /\ r.next > j
      BY <1>1 DEF Users, AgentReach, AgentType, i
    <3> QED
      BY <1>1, <1>4, <2>1, <3>1, UsersGrow
  <2>2. CASE Permitted(q, i) /\ applied' = [applied EXCEPT ![i] = @ + 1]
    <3>1. Running(q) /\ i = asked[q].next
      BY <1>1 DEF Running, i
    <3>2. /\ \A p \in Requests : p # q => asked'[p] = asked[p]
          /\ asked'[q].verb = asked[q].verb /\ asked'[q].admin = asked[q].admin
          /\ asked'[q].at = "running" /\ asked'[q].next = i + 1
      BY <1>1, <1>3
    <3> QED
      BY <1>1, <1>4, <2>2, <3>1, <3>2, UsersCount
  <2> QED
    BY <1>2, <2>1, <2>2
<1>6. Believable'
  <2> SUFFICES ASSUME OneApproval' PROVE
               /\ \A p \in Requests : Running(p)' /\ asked'[p].ok =>
                    \A j \in Steps : j < asked'[p].next => stepStatus'[j] = "executed"
               /\ runStatus' # "executed"
    BY <1>1, SameApprovers DEF Believable, Steps
  <2>1. OneApproval /\ q \in Approvers
    BY <1>1, SameApprovers DEF Approvers
  <2>2. runStatus' # "executed"
    BY <1>1, <2>1 DEF AgentReach, Believable
  <2>3. ASSUME NEW p \in Requests, Running(p)', asked'[p].ok,
               NEW j \in Steps, j < asked'[p].next
        PROVE  stepStatus'[j] = "executed"
    <3>1. p = q
      <4>1. Running(p) \/ p = q
        BY <1>3, <2>3 DEF Running
      <4>2. p \in Approvers
        BY <1>1, <4>1 DEF AgentReach, Approvers
      <4> QED
        BY <2>1, <4>2, NoOtherApprover
    <3>2. asked[q].ok /\ r.ok /\ stepStatus' = [stepStatus EXCEPT ![i] = "executed"]
      BY <1>2, <1>3, <2>3, <3>1
    <3>3. j \in Nat /\ j < i + 1
      BY <1>1, <1>3, <2>3, <3>1 DEF AgentReach, AgentType
    <3>4. j # i => stepStatus[j] = "executed"
      BY <1>1, <2>1, <3>2, <3>3 DEF AgentReach, Believable, Running, i
    <3> QED
      BY <3>2, <3>4 DEF AgentReach, AgentType
  <2> QED
    BY <2>2, <2>3
<1> QED
  BY <1>1, <1>3, <1>4, <1>5, <1>6 DEF AgentReach, Running

LEMMA ReachEnd ==
  ASSUME AgentReach, NEW q \in Requests, FinalizeExecution(q) \/ Abandon(q)
  PROVE  AgentReach'
<1> DEFINE r == asked'[q]
           i == asked[q].next
<1>1. /\ asked[q].at = "running" /\ asked[q].verb = "approve" /\ i \in Nat \ {0}
      /\ asked' = [asked EXCEPT ![q] = r] /\ r \in Request
      /\ r.verb = asked[q].verb /\ r.admin = asked[q].admin /\ r.next = i
      /\ r.at = "over"
      /\ UNCHANGED <<planned, stepStatus>>
      /\ runStatus' # "none" \/ runStatus' = runStatus
      /\ runStatus' = "executed" =>
           runStatus = "executed" \/ (asked[q].ok /\ i \notin Steps)
      /\ \/ UNCHANGED applied
         \/ i \in Steps /\ Permitted(q, i) /\ applied' = [applied EXCEPT ![i] = @ + 1]
  <2>1. asked \in [Requests -> Request] /\ asked[q] \in Request
        /\ asked[q].at = "running" /\ asked[q].verb = "approve"
    BY DEF AgentReach, AgentType, FinalizeExecution, Abandon, Running
  <2>2. CASE FinalizeExecution(q)
    BY <2>1, <2>2 DEF FinalizeExecution, Request
  <2>3. CASE Abandon(q)
    BY <2>1, <2>3 DEF Abandon, Request
  <2> QED
    BY <2>2, <2>3
<1> HIDE DEF r, i
<1>2. \A p \in Requests : asked'[p] = IF p = q THEN r ELSE asked[p]
  BY <1>1 DEF AgentReach, AgentType
<1>3. AgentType'
  <2>1. Steps' = Steps /\ asked' \in [Requests -> Request]
    BY <1>1 DEF Steps, AgentReach, AgentType
  <2>2. stepStatus' \in [Steps -> {"pending", "executed", "failed"}]
    BY <1>1 DEF AgentReach, AgentType
  <2>3. applied' \in [Steps -> Nat]
    <3>1. applied \in [Steps -> Nat]
      BY DEF AgentReach, AgentType
    <3>2. CASE i \in Steps /\ applied' = [applied EXCEPT ![i] = @ + 1]
      <4>1. applied[i] + 1 \in Nat
        BY <3>1, <3>2
      <4> QED
        BY <3>1, <3>2, <4>1
    <3> QED
      BY <1>1, <3>1, <3>2
  <2> QED
    BY <2>1, <2>2, <2>3 DEF AgentReach, AgentType
<1>4. \A j \in Steps' : applied'[j] <= Cardinality(Users(j)')
  <2>1. CASE UNCHANGED applied
    <3>1. \A j \in Steps : q \in Users(j) => r.at = "over" /\ r.next >= j
      BY <1>1 DEF Users, AgentReach, AgentType, i
    <3> QED
      BY <1>1, <1>3, <2>1, <3>1, UsersGrow
  <2>2. CASE i \in Steps /\ Permitted(q, i) /\ applied' = [applied EXCEPT ![i] = @ + 1]
    <3>1. Running(q) /\ i = asked[q].next
      BY <1>1 DEF Running, i
    <3>2. /\ \A p \in Requests : p # q => asked'[p] = asked[p]
          /\ asked'[q].verb = asked[q].verb /\ asked'[q].admin = asked[q].admin
          /\ asked'[q].at = "over" /\ asked'[q].next = i
      BY <1>1, <1>2
    <3> QED
      BY <1>1, <1>3, <2>2, <3>1, <3>2, UsersCount
  <2> QED
    BY <1>1, <2>1, <2>2
<1>5. Believable'
  <2> SUFFICES ASSUME OneApproval' PROVE
               /\ \A p \in Requests : Running(p)' /\ asked'[p].ok =>
                    \A j \in Steps : j < asked'[p].next => stepStatus[j] = "executed"
               /\ runStatus' = "executed" =>
                    /\ \A j \in Steps : stepStatus[j] = "executed"
                    /\ \A p \in Approvers : asked'[p].at = "over"
    BY <1>1, SameApprovers DEF Believable, Steps
  <2>1. OneApproval /\ q \in Approvers
    BY <1>1, SameApprovers DEF Approvers
  <2>2. \A p \in Approvers : asked'[p].at = "over"
    BY <1>1, <1>2, <2>1, NoOtherApprover DEF Approvers
  <2>3. \A p \in Requests : ~Running(p)'
    BY <1>1, <1>2, <2>2 DEF Running, AgentReach, Approvers
  <2>4. ASSUME runStatus' = "executed", NEW j \in Steps
        PROVE  stepStatus[j] = "executed"
    <3>1. runStatus # "executed"
      BY <1>1, <2>1 DEF AgentReach, Believable
    <3>2. asked[q].ok /\ i \notin Steps
      BY <1>1, <2>4, <3>1
    <3>3. PICK n \in Nat : Steps = 1 .. n
      BY DEF AgentReach, AgentType
    <3>4. j < i
      BY <1>1, <3>2, <3>3
    <3> QED
      BY <1>1, <2>1, <3>2, <3>4 DEF AgentReach, Believable, Running, i
  <2> QED
    BY <2>2, <2>3, <2>4
<1> QED
  BY <1>1, <1>2, <1>3, <1>4, <1>5 DEF AgentReach, Running

LEMMA ReachStep == AgentReach /\ [AgentNext]_agentVars => AgentReach'
<1> SUFFICES ASSUME AgentReach, [AgentNext]_agentVars PROVE AgentReach'
  OBVIOUS
<1>1. CASE UNCHANGED agentVars
  BY <1>1 DEF agentVars, AgentReach, AgentType, Believable, Users, Steps, Running,
              OneApproval, Approvers
<1>2. CASE AgentNext
  BY <1>2, ReachPropose, ReachDecision, ReachExecution, ReachEnd DEF AgentNext
<1> QED
  BY <1>1, <1>2

-----------------------------------------------------------------------------
(* The theorem                                                             *)

\* agent_actions.py:455 and 505: each effect of a step is covered by an approval
\* that may run it, and a run with one approval is executed when its steps are.
THEOREM ApprovalsCorrect == AgentSpec => []AgentInv
<1>1. AgentReach /\ [AgentNext]_agentVars => AgentReach'
  BY ReachStep
<1>2. AgentReach => AgentInv
  <2> SUFFICES ASSUME AgentReach PROVE EffectsAreApproved /\ ExecutedMeansAll
    BY DEF AgentInv
  <2>1. ASSUME NEW i \in Steps
        PROVE  applied[i] <= Cardinality({q \in Requests :
                 asked[q].verb = "approve" /\ asked[q].next >= i
                   /\ asked[q].at \in {"running", "over"}
                   /\ (planned[i] = "admin" => asked[q].admin)})
    <3> DEFINE may == {q \in Requests :
                 asked[q].verb = "approve" /\ asked[q].next >= i
                   /\ asked[q].at \in {"running", "over"}
                   /\ (planned[i] = "admin" => asked[q].admin)}
    <3>1. Users(i) \subseteq may
      <4>1. i \in Nat /\ \A q \in Requests : asked[q].next \in Nat
        BY DEF AgentReach, AgentType, Request
      <4> QED
        BY <4>1 DEF Users
    <3>2. may \subseteq Requests /\ applied[i] \in Nat /\ applied[i] <= Cardinality(Users(i))
      BY DEF AgentReach, AgentType
    <3> HIDE DEF may
    <3>3. applied[i] <= Cardinality(may)
      BY <3>1, <3>2, Counted
    <3> QED
      BY <3>3 DEF may
  <2>2. ExecutedMeansAll
    BY DEF ExecutedMeansAll, AgentReach, Believable
  <2> QED
    BY <2>1, <2>2 DEF EffectsAreApproved
<1> QED
  BY ReachInit, <1>1, <1>2, PTL DEF AgentSpec

(***************************************************************************)
(* The transport of push messages: any number of messages and permits.     *)
(***************************************************************************)

-----------------------------------------------------------------------------
(* What a message goes through                                             *)

WorkTyped ==
  /\ send \in [Sends -> {"new", "opening", "opened", "reading", "over", "late"}]
  /\ opening \in [Sends -> Work] /\ reading \in [Sends -> Work]
  /\ answer \in [Sends -> {"none", "open", "refusal", "closed"}]
  /\ callback \in [Sends -> BOOLEAN]

\* The caller's place fixes how far the work can be.
InStep(s) ==
  /\ send[s] = "new" => opening[s] = "none"
  /\ send[s] \in {"opening", "late"} => opening[s] \notin {"none", "cancelled"}
  /\ send[s] \in {"opened", "reading"} => opening[s] = "done"
  /\ send[s] = "over" => opening[s] # "queued" /\ reading[s] # "queued"
  /\ send[s] = "reading" => reading[s] \notin {"none", "cancelled"}
  /\ send[s] \notin {"reading", "over"} => reading[s] = "none"

\* There is no answer before the connection is open, and a reading that has
\* ended has closed it.
AnswerInStep(s) ==
  /\ opening[s] # "done" => answer[s] = "none" /\ reading[s] = "none"
  /\ reading[s] \in {"done", "cancelled"} => answer[s] = "closed"

\* Whoever stops waiting leaves a callback behind, or has looked at the answer.
LateIsClosed(s) ==
  /\ (send[s] = "late" /\ opening[s] # "done") => callback[s]
  /\ (send[s] = "over" /\ opening[s] \in {"running", "ending"}) => callback[s]
  /\ (send[s] \in {"late", "over"} /\ opening[s] = "done" /\ reading[s] = "none")
       => answer[s] # "open"

Protocol == \A s \in Sends : InStep(s) /\ AnswerInStep(s) /\ LateIsClosed(s)
MessagesInv == WorkTyped /\ Protocol

LEMMA MessagesInit == PushInit => MessagesInv
  BY DEF PushInit, MessagesInv, WorkTyped, Work, Protocol, InStep, AnswerInStep, LateIsClosed

\* The steps of the caller.
LEMMA CallerStep ==
  ASSUME MessagesInv, NEW s \in Sends,
         \/ SubmitOpening(s) \/ TakeOpened(s) \/ SubmitReading(s) \/ TakeRead(s)
         \/ GiveUpOpened(s) \/ DeadlineOpening(s) \/ CancelOpening(s) \/ DeadlineReading(s)
  PROVE  MessagesInv'
<1> USE DEF MessagesInv, WorkTyped, Work, Protocol, InStep, AnswerInStep, LateIsClosed
<1>1. CASE SubmitOpening(s)
  BY <1>1 DEF SubmitOpening
<1>2. CASE TakeOpened(s)
  BY <1>2 DEF TakeOpened
<1>3. CASE SubmitReading(s)
  BY <1>3 DEF SubmitReading, Close
<1>4. CASE TakeRead(s)
  BY <1>4 DEF TakeRead
<1>5. CASE GiveUpOpened(s)
  BY <1>5 DEF GiveUpOpened, Close
<1>6. CASE DeadlineOpening(s)
  <2>1. CASE opening[s] = "done"
    BY <1>6, <2>1 DEF DeadlineOpening, CloseLate
  <2>2. CASE opening[s] # "done"
    <3>1. callback' = [callback EXCEPT ![s] = TRUE] /\ send' = [send EXCEPT ![s] = "late"]
      BY <1>6, <2>2 DEF DeadlineOpening
    <3>2. UNCHANGED <<opening, reading, answer>> /\ send[s] = "opening"
      BY <1>6, <2>2 DEF DeadlineOpening
    <3>3. callback' \in [Sends -> BOOLEAN] /\ callback'[s] = TRUE
      BY <3>1
    <3>4. WorkTyped'
      BY <3>1, <3>2, <3>3
    <3>5. ASSUME NEW t \in Sends
          PROVE  (InStep(t) /\ AnswerInStep(t))'
      BY <3>1, <3>2
    <3>6. LateIsClosed(s)'
      BY <2>2, <3>1, <3>2, <3>3
    <3>7. ASSUME NEW t \in Sends \ {s}
          PROVE  LateIsClosed(t)'
      <4>1. callback'[t] = callback[t]
        BY <3>1
      <4> QED
        BY <3>1, <3>2, <4>1
    <3> QED
      BY <3>4, <3>5, <3>6, <3>7
  <2> QED
    BY <2>1, <2>2
<1>7. CASE CancelOpening(s)
  BY <1>7 DEF CancelOpening
<1>8. CASE DeadlineReading(s)
  BY <1>8 DEF DeadlineReading, Close
<1> QED
  BY <1>1, <1>2, <1>3, <1>4, <1>5, <1>6, <1>7, <1>8

\* The steps of the workers.
LEMMA WorkerStep ==
  ASSUME MessagesInv, NEW s \in Sends,
         \/ BeginOpening(s) \/ BeginReading(s) \/ ReleaseOpening(s) \/ ReleaseReading(s)
         \/ EndOpening(s) \/ EndReading(s)
  PROVE  MessagesInv'
<1> USE DEF MessagesInv, WorkTyped, Work, Protocol, InStep, AnswerInStep, LateIsClosed
<1>1. CASE BeginOpening(s) \/ ReleaseOpening(s)
  BY <1>1 DEF BeginOpening, ReleaseOpening
<1>2. CASE BeginReading(s) \/ ReleaseReading(s)
  BY <1>2 DEF BeginReading, ReleaseReading
<1>3. CASE EndOpening(s)
  BY <1>3 DEF EndOpening
<1>4. CASE EndReading(s)
  BY <1>4 DEF EndReading, Close
<1> QED
  BY <1>1, <1>2, <1>3, <1>4

-----------------------------------------------------------------------------
(* The permits                                                             *)

Openings == {s \in Sends : HoldsPermit(opening[s])}
Readings == {s \in Sends : HoldsPermit(reading[s])}

PermitsInv ==
  /\ permits \in Nat
  /\ IsFiniteSet(Openings) /\ IsFiniteSet(Readings)
  /\ permits + Cardinality(Openings) + Cardinality(Readings) = Capacity

\* One element more, or one less.
LEMMA OneMore ==
  ASSUME NEW S, IsFiniteSet(S), NEW x, x \notin S
  PROVE  /\ IsFiniteSet(S \cup {x}) /\ Cardinality(S) \in Nat
         /\ Cardinality(S \cup {x}) = Cardinality(S) + 1
  BY FS_AddElement, FS_CardinalityType
LEMMA OneLess ==
  ASSUME NEW S, IsFiniteSet(S), NEW x \in S
  PROVE  /\ IsFiniteSet(S \ {x}) /\ Cardinality(S) \in Nat
         /\ Cardinality(S \ {x}) = Cardinality(S) - 1
  BY FS_RemoveElement, FS_CardinalityType

LEMMA PermitsInit == PushInit => PermitsInv
<1> SUFFICES ASSUME PushInit PROVE PermitsInv
  OBVIOUS
<1>1. Openings = {} /\ Readings = {}
  BY DEF PushInit, Openings, Readings, HoldsPermit
<1> QED
  BY <1>1, FS_EmptySet, PushAssumption DEF PushInit, PermitsInv

\* A permit is taken for work that is handed over, and given back with it.
LEMMA TakesPermit ==
  ASSUME PermitsInv, permits > 0, permits' = permits - 1, NEW s \in Sends,
         \/ s \notin Openings /\ Openings' = Openings \cup {s} /\ Readings' = Readings
         \/ s \notin Readings /\ Readings' = Readings \cup {s} /\ Openings' = Openings
  PROVE  PermitsInv'
<1>0. Cardinality(Openings) \in Nat /\ Cardinality(Readings) \in Nat
  BY FS_CardinalityType DEF PermitsInv
<1>1. CASE s \notin Openings /\ Openings' = Openings \cup {s} /\ Readings' = Readings
  <2>1. IsFiniteSet(Openings') /\ Cardinality(Openings') = Cardinality(Openings) + 1
    BY <1>1, OneMore DEF PermitsInv
  <2> QED
    BY <1>0, <1>1, <2>1, PushAssumption DEF PermitsInv
<1>2. CASE s \notin Readings /\ Readings' = Readings \cup {s} /\ Openings' = Openings
  <2>1. IsFiniteSet(Readings') /\ Cardinality(Readings') = Cardinality(Readings) + 1
    BY <1>2, OneMore DEF PermitsInv
  <2> QED
    BY <1>0, <1>2, <2>1, PushAssumption DEF PermitsInv
<1> QED
  BY <1>1, <1>2
LEMMA GivesPermit ==
  ASSUME PermitsInv, permits' = permits + 1, NEW s \in Sends,
         \/ s \in Openings /\ Openings' = Openings \ {s} /\ Readings' = Readings
         \/ s \in Readings /\ Readings' = Readings \ {s} /\ Openings' = Openings
  PROVE  PermitsInv'
<1>0. Cardinality(Openings) \in Nat /\ Cardinality(Readings) \in Nat
  BY FS_CardinalityType DEF PermitsInv
<1>1. CASE s \in Openings /\ Openings' = Openings \ {s} /\ Readings' = Readings
  <2>1. IsFiniteSet(Openings') /\ Cardinality(Openings') = Cardinality(Openings) - 1
    BY <1>1, OneLess DEF PermitsInv
  <2> QED
    BY <1>0, <1>1, <2>1, PushAssumption DEF PermitsInv
<1>2. CASE s \in Readings /\ Readings' = Readings \ {s} /\ Openings' = Openings
  <2>1. IsFiniteSet(Readings') /\ Cardinality(Readings') = Cardinality(Readings) - 1
    BY <1>2, OneLess DEF PermitsInv
  <2> QED
    BY <1>0, <1>2, <2>1, PushAssumption DEF PermitsInv
<1> QED
  BY <1>1, <1>2
LEMMA KeepsPermits ==
  ASSUME PermitsInv, permits' = permits, Openings' = Openings, Readings' = Readings
  PROVE  PermitsInv'
  BY DEF PermitsInv

LEMMA PermitsStep ==
  ASSUME MessagesInv, PermitsInv, [PushNext]_pushVars
  PROVE  PermitsInv'
<1> USE DEF Openings, Readings, HoldsPermit, MessagesInv, WorkTyped
<1>1. ASSUME NEW s \in Sends, SubmitOpening(s)
      PROVE  PermitsInv'
  <2>1. s \notin Openings
    BY <1>1 DEF SubmitOpening, Protocol, InStep
  <2>2. CASE permits > 0
    BY <1>1, <2>1, <2>2, TakesPermit DEF SubmitOpening
  <2>3. CASE ~(permits > 0)
    BY <1>1, <2>3, KeepsPermits DEF SubmitOpening
  <2> QED
    BY <2>2, <2>3
<1>2. ASSUME NEW s \in Sends, SubmitReading(s)
      PROVE  PermitsInv'
  <2>1. s \notin Readings
    BY <1>2 DEF SubmitReading, Protocol, InStep
  <2>2. CASE permits > 0
    BY <1>2, <2>1, <2>2, TakesPermit DEF SubmitReading
  <2>3. CASE ~(permits > 0)
    BY <1>2, <2>3, KeepsPermits DEF SubmitReading
  <2> QED
    BY <2>2, <2>3
<1>3. ASSUME NEW s \in Sends, CancelOpening(s)
      PROVE  PermitsInv'
  <2>1. CASE opening[s] = "queued"
    BY <1>3, <2>1, GivesPermit DEF CancelOpening
  <2>2. CASE opening[s] # "queued"
    BY <1>3, <2>2, KeepsPermits DEF CancelOpening
  <2> QED
    BY <2>1, <2>2
<1>4. ASSUME NEW s \in Sends, DeadlineReading(s)
      PROVE  PermitsInv'
  <2>1. CASE reading[s] = "queued"
    BY <1>4, <2>1, GivesPermit DEF DeadlineReading
  <2>2. CASE reading[s] # "queued"
    BY <1>4, <2>2, KeepsPermits DEF DeadlineReading
  <2> QED
    BY <2>1, <2>2
<1>5. ASSUME NEW s \in Sends, ReleaseOpening(s)
      PROVE  PermitsInv'
  BY <1>5, GivesPermit DEF ReleaseOpening
<1>6. ASSUME NEW s \in Sends, ReleaseReading(s)
      PROVE  PermitsInv'
  BY <1>6, GivesPermit DEF ReleaseReading
<1>7. ASSUME NEW s \in Sends,
             \/ TakeOpened(s) \/ TakeRead(s) \/ GiveUpOpened(s) \/ DeadlineOpening(s)
             \/ BeginOpening(s) \/ BeginReading(s) \/ EndOpening(s) \/ EndReading(s)
      PROVE  PermitsInv'
  <2>1. /\ permits' = permits
        /\ \A t \in Sends : HoldsPermit(opening'[t]) <=> HoldsPermit(opening[t])
        /\ \A t \in Sends : HoldsPermit(reading'[t]) <=> HoldsPermit(reading[t])
    BY <1>7 DEF TakeOpened, TakeRead, GiveUpOpened, DeadlineOpening, BeginOpening, BeginReading,
                EndOpening, EndReading
  <2> QED
    BY <2>1, KeepsPermits
<1>8. CASE UNCHANGED pushVars
  BY <1>8, KeepsPermits DEF pushVars
<1> QED
  BY <1>1, <1>2, <1>3, <1>4, <1>5, <1>6, <1>7, <1>8 DEF PushNext

LEMMA MessagesStep ==
  ASSUME MessagesInv, [PushNext]_pushVars
  PROVE  MessagesInv'
<1>1. CASE PushNext
  BY <1>1, CallerStep, WorkerStep DEF PushNext
<1>2. CASE UNCHANGED pushVars
  BY <1>2 DEF pushVars, MessagesInv, WorkTyped, Protocol, InStep, AnswerInStep, LateIsClosed
<1> QED
  BY <1>1, <1>2

-----------------------------------------------------------------------------
(* The theorem                                                             *)

\* push.py:322 and 329: no permit is lost or given back twice, and no connection
\* with an answer outlives its message.
THEOREM PushCorrect == PushSpec => []PushInv
<1> DEFINE Inv == MessagesInv /\ PermitsInv
<1>1. PushInit => Inv
  BY MessagesInit, PermitsInit
<1>2. Inv /\ [PushNext]_pushVars => Inv'
  BY MessagesStep, PermitsStep
<1>3. Inv => PushInv
  <2> SUFFICES ASSUME Inv PROVE AnswersAreClosed
    BY DEF PermitsInv, PushInv, PermitsAreKept, Openings, Readings
  <2> QED
    BY DEF AnswersAreClosed, Finished, MessagesInv, Protocol, InStep, AnswerInStep, LateIsClosed
<1> QED
  BY <1>1, <1>2, <1>3, PTL DEF PushSpec

(***************************************************************************)
(* The weekly recap: any number of jobs and of things read.                *)
(***************************************************************************)

-----------------------------------------------------------------------------
(* Types                                                                   *)

\* The week begins with no recap, or with one of an older release.
LEMMA RecapInitType == RecapInit => RecapTypeOK
<1> SUFFICES ASSUME RecapInit PROVE RecapTypeOK
  OBVIOUS
<1> DEFINE Jobs ==
      [at: {"new", "measured", "saved", "told", "over"}, push: BOOLEAN, measure: Measures,
       format: {"none", "legacy", "v2"}, untold: BOOLEAN, inserted: BOOLEAN]
           Fresh == {[at |-> "new", push |-> b, measure |-> 0, format |-> "none",
                      untold |-> FALSE, inserted |-> FALSE] : b \in BOOLEAN}
<1>1. 0 \in Measures
  BY RecapAssumption DEF Measures
<1>2. Fresh \subseteq Jobs
  <2>1. ASSUME NEW b \in BOOLEAN
        PROVE  [at |-> "new", push |-> b, measure |-> 0, format |-> "none",
                untold |-> FALSE, inserted |-> FALSE] \in Jobs
    BY <1>1
  <2> QED
    BY <2>1
<1>3. recapper \in [Recappers -> Fresh]
  BY DEF RecapInit
<1>4. recapper \in [Recappers -> Jobs]
  BY <1>2, <1>3
<1>5. recap \in [format: {"none", "legacy", "v2"}, measure: Measures,
                tells: {{}} \cup {{n} : n \in Measures}]
  BY <1>1 DEF RecapInit
<1> QED
  BY <1>1, <1>4, <1>5 DEF RecapInit, RecapTypeOK

\* Every step of a job, and reading on, keeps the types.
LEMMA RecapStepType ==
  ASSUME RecapTypeOK, [RecapNext]_recapVars
  PROVE  RecapTypeOK'
<1> USE RecapAssumption DEF RecapTypeOK, Measures
<1>1. CASE ReadOn
  BY <1>1 DEF ReadOn
<1>2. ASSUME NEW r \in Recappers, AssembleRecap(r)
      PROVE  RecapTypeOK'
  <2>1. [recapper[r] EXCEPT !.at = "measured", !.measure = reads]
        \in [at: {"new", "measured", "saved", "told", "over"}, push: BOOLEAN, measure: Measures,
            format: {"none", "legacy", "v2"}, untold: BOOLEAN, inserted: BOOLEAN]
    OBVIOUS
  <2> QED
    BY <1>2, <2>1 DEF AssembleRecap
<1>3. ASSUME NEW r \in Recappers, SaveRecap(r)
      PROVE  RecapTypeOK'
  <2>1. Stored(r) \in [format: {"none", "legacy", "v2"}, measure: Measures,
                       tells: {{}} \cup {{n} : n \in Measures}]
    BY DEF Stored
  <2>2. recapper'[r] \in [at: {"new", "measured", "saved", "told", "over"}, push: BOOLEAN,
         measure: Measures, format: {"none", "legacy", "v2"}, untold: BOOLEAN, inserted: BOOLEAN]
    BY ZenonT(60), <1>3, <2>1 DEF SaveRecap
  <2> QED
    BY <1>3, <2>1, <2>2 DEF SaveRecap
<1>4. ASSUME NEW r \in Recappers, FillNarrative(r)
      PROVE  RecapTypeOK'
  BY <1>4 DEF FillNarrative
<1>5. ASSUME NEW r \in Recappers, PushRecap(r)
      PROVE  RecapTypeOK'
  BY <1>5 DEF PushRecap
<1>6. ASSUME NEW r \in Recappers, LoseRecap(r)
      PROVE  RecapTypeOK'
  BY <1>6 DEF LoseRecap
<1>7. CASE UNCHANGED recapVars
  BY <1>7 DEF recapVars
<1> QED
  BY <1>1, <1>2, <1>3, <1>4, <1>5, <1>6, <1>7 DEF RecapNext

-----------------------------------------------------------------------------
(* The inductive invariant                                                 *)

\* A job that is past its insert knows what is stored: the measurement in its
\* hands is that of the row, and the row is never replaced.
KnowsRow ==
  \A r \in Recappers : recapper[r].at \in {"saved", "told"} =>
    /\ recap.format # "none"
    /\ recapper[r].measure = recap.measure
    /\ recapper[r].format = recap.format

\* One job has inserted the row, and only that one pushes.
Inserter(r) == recapper[r].inserted
OneInserter ==
  /\ \A r, s \in Recappers : Inserter(r) /\ Inserter(s) => r = s
  /\ \A r \in Recappers : Inserter(r) => recap.format = "v2"
  /\ \A r \in Recappers : recapper[r].at \in {"new", "measured"} => ~Inserter(r)
  /\ \A r \in announced : Inserter(r) 

RecapInv == RecapTypeOK /\ KnowsRow /\ OneInserter /\ OneRecapIsTold

LEMMA RecapInitInv == RecapInit => RecapInv
  BY RecapInitType
  DEF RecapInit, RecapInv, KnowsRow, OneInserter, Inserter, OneRecapIsTold

LEMMA RecapStepInv ==
  ASSUME RecapInv, [RecapNext]_recapVars
  PROVE  RecapInv'
<1> USE DEF RecapInv, KnowsRow, OneInserter, Inserter, OneRecapIsTold
<1>0. RecapTypeOK'
  BY RecapStepType
<1>1. CASE ReadOn
  BY <1>0, <1>1 DEF ReadOn
<1>2. ASSUME NEW r \in Recappers, AssembleRecap(r)
      PROVE  RecapInv'
  BY <1>0, <1>2 DEF AssembleRecap, RecapTypeOK
<1>3. ASSUME NEW r \in Recappers, SaveRecap(r)
      PROVE  RecapInv'
  BY <1>0, <1>3 DEF SaveRecap, Stored, RecapTypeOK
<1>4. ASSUME NEW r \in Recappers, FillNarrative(r)
      PROVE  RecapInv'
  BY <1>0, <1>4 DEF FillNarrative, RecapTypeOK
<1>5. ASSUME NEW r \in Recappers, PushRecap(r)
      PROVE  RecapInv'
  BY <1>0, <1>5 DEF PushRecap, RecapTypeOK
<1>6. ASSUME NEW r \in Recappers, LoseRecap(r)
      PROVE  RecapInv'
  BY <1>0, <1>6 DEF LoseRecap, RecapTypeOK
<1>7. CASE UNCHANGED recapVars
  BY <1>0, <1>7 DEF recapVars
<1> QED
  BY <1>1, <1>2, <1>3, <1>4, <1>5, <1>6, <1>7 DEF RecapNext

-----------------------------------------------------------------------------
(* The theorem                                                             *)

\* recaps/service.py:86: one recap is told of, whichever jobs overlap, and its
\* narrative tells the measurement that is stored beside it.
THEOREM OneRecap == RecapSpec => []OneRecapIsTold
<1>1. RecapInit => RecapInv
  BY RecapInitInv
<1>2. RecapInv /\ [RecapNext]_recapVars => RecapInv'
  BY RecapStepInv
<1>3. RecapInv => OneRecapIsTold
  BY DEF RecapInv
<1> QED
  BY <1>1, <1>2, <1>3, PTL DEF RecapSpec

(***************************************************************************)
(* The content of an article: any number of callers and sweeps.            *)
(***************************************************************************)

-----------------------------------------------------------------------------
(* The inductive invariant                                                 *)

AnalysesTyped ==
  /\ lock \in [Kinds -> Analysts \cup {Nobody}]
  /\ analysis \in [Kinds -> Analysts \cup {Nobody}]
  /\ made \in [Kinds -> SUBSET Analysts]
EntitiesTyped ==
  /\ entities \in [of: Extractors \cup {Nobody}, related: Extractors \cup {Nobody}]
  /\ linking \in [Linkers -> Extractors \cup {Nobody}]

\* What has been made is what is cached, and a lock is held on nothing cached:
\* a caller looks for a cached analysis only after it has got the lock.
MadeIsCached ==
  \A k \in Kinds :
    /\ analysis[k] = Nobody => made[k] = {}
    /\ analysis[k] # Nobody => made[k] = {analysis[k]} /\ lock[k] = Nobody
RelatedToThese == entities.related \in {Nobody, entities.of}

ContentIInv == AnalysesTyped /\ EntitiesTyped /\ MadeIsCached /\ RelatedToThese

LEMMA ContentInitInv == ContentInit => ContentIInv
  BY DEF ContentInit, ContentIInv, AnalysesTyped, EntitiesTyped, MadeIsCached, RelatedToThese

\* The analyses change under their lock only.
LEMMA AnalysesInv ==
  ASSUME ContentIInv, NEW c \in Analysts, NEW k \in Kinds, LockAnalysis(c, k) \/ EndAnalysis(c, k)
  PROVE  ContentIInv'
<1> USE ContentAssumption DEF ContentIInv, AnalysesTyped, EntitiesTyped, MadeIsCached,
        RelatedToThese, entityVars
<1>1. CASE LockAnalysis(c, k)
  BY <1>1 DEF LockAnalysis
<1>2. CASE EndAnalysis(c, k)
  <2>1. c # Nobody /\ analysis[k] = Nobody /\ made[k] = {}
    BY <1>2 DEF EndAnalysis
  <2> QED
    BY <1>2, <2>1 DEF EndAnalysis
<1> QED
  BY <1>1, <1>2

\* Whoever writes the column writes entities without relationships, or with
\* relationships between them.
LEMMA EntitiesInv ==
  ASSUME ContentIInv,
         \/ \E e \in Extractors : AskEntities(e) \/ StoreEntities(e)
         \/ \E r \in Linkers : AskRelationships(r) \/ StoreRelationships(r)
  PROVE  ContentIInv'
<1> USE DEF ContentIInv, AnalysesTyped, EntitiesTyped, MadeIsCached, RelatedToThese, analysisVars
<1>1. ASSUME NEW e \in Extractors, AskEntities(e) \/ StoreEntities(e)
      PROVE  ContentIInv'
  BY <1>1 DEF AskEntities, StoreEntities
<1>2. ASSUME NEW r \in Linkers, AskRelationships(r) \/ StoreRelationships(r)
      PROVE  ContentIInv'
  BY <1>2 DEF AskRelationships, StoreRelationships, WithRelationships
<1> QED
  BY <1>1, <1>2

LEMMA ContentStepInv ==
  ASSUME ContentIInv, [ContentNext]_contentVars
  PROVE  ContentIInv'
<1>1. ASSUME NEW f \in Fetchers, AskBody(f) \/ StoreBody(f)
      PROVE  ContentIInv'
  BY <1>1 DEF AskBody, StoreBody, analysisVars, entityVars, ContentIInv, AnalysesTyped,
              EntitiesTyped, MadeIsCached, RelatedToThese
<1>2. CASE UNCHANGED contentVars
  BY <1>2 DEF contentVars, ContentIInv, AnalysesTyped, EntitiesTyped, MadeIsCached,
              RelatedToThese
<1> QED
  BY <1>1, <1>2, AnalysesInv, EntitiesInv DEF ContentNext

-----------------------------------------------------------------------------
(* The theorem                                                             *)

\* insights.py:185 and entities.py:336: an analysis is generated and kept once,
\* and relationships stand beside the entities they were extracted from.
THEOREM ContentCorrect == ContentSpec => []ContentInv
<1>1. ContentIInv /\ [ContentNext]_contentVars => ContentIInv'
  BY ContentStepInv
<1>2. ContentIInv => ContentInv
  <2> SUFFICES ASSUME ContentIInv, NEW k \in Kinds
               PROVE  Cardinality(made[k]) <= 1 /\ (lock[k] # Nobody => made[k] = {})
    BY DEF ContentIInv, RelatedToThese, ContentInv
  <2>1. made[k] = {} \/ made[k] = {analysis[k]}
    BY DEF ContentIInv, MadeIsCached
  <2>2. Cardinality({}) = 0 /\ Cardinality({analysis[k]}) = 1
    BY FS_EmptySet, FS_Singleton
  <2> QED
    BY <2>1, <2>2 DEF ContentIInv, MadeIsCached
<1> QED
  BY ContentInitInv, <1>1, <1>2, PTL DEF ContentSpec

(***************************************************************************)
(* The research: any number of callers, configured in any way.             *)
(***************************************************************************)

-----------------------------------------------------------------------------
(* Types                                                                   *)

Caller == [at: Phases, got: Callers \cup {NoCaller}]
CallersTyped == caller \in [Callers -> Caller]

LEMMA GoType ==
  ASSUME CallersTyped, NEW c \in Callers, NEW phase \in Phases, Go(c, phase)
  PROVE  CallersTyped'
  BY DEF CallersTyped, Caller, Go

LEMMA GoWithType ==
  ASSUME CallersTyped, NEW c \in Callers, NEW phase \in Phases,
         NEW content \in Callers \cup {NoCaller}, GoWith(c, phase, content)
  PROVE  CallersTyped'
  BY DEF CallersTyped, Caller, GoWith

\* The part of the type invariant that the research depends on: a row is
\* untouched only while it is running, and has content when it is complete.
RowTyped ==
  /\ enrichment \in [status: Statuses, content: Callers \cup {NoCaller}]
  /\ untouched \in BOOLEAN /\ (untouched => enrichment.status = "running")

\* Until a running row has been overwritten, one caller at most is researching,
\* and the row says that it is.
OneResearcher ==
  overtaken = {} =>
    /\ \A c, d \in Callers : At(c) = "researching" /\ At(d) = "researching" => c = d
    /\ \A c \in Callers : At(c) = "researching" => enrichment.status = "running"

EnrichmentInv == CallersTyped /\ RowTyped /\ OneResearcher

LEMMA EnrichmentInitInv == EnrichmentInit => EnrichmentInv
<1>1. [at |-> "idle", got |-> NoCaller] \in Caller
  BY DEF Caller, Phases
<1> SUFFICES ASSUME EnrichmentInit PROVE EnrichmentInv
  OBVIOUS
<1>2. CallersTyped
  BY <1>1 DEF EnrichmentInit, CallersTyped
<1>3. RowTyped
  BY DEF EnrichmentInit, RowTyped, Statuses
<1>4. \A c \in Callers : At(c) = "idle"
  BY DEF EnrichmentInit, At
<1> QED
  BY <1>2, <1>3, <1>4 DEF EnrichmentInv, OneResearcher

-----------------------------------------------------------------------------
(* The steps                                                               *)

\* What a caller does outside of the research touches neither the row nor who
\* is researching, other than to end it.
LEMMA OutsideInv ==
  ASSUME EnrichmentInv, NEW c \in Callers,
         Ask(c) \/ SendMessage(c) \/ FailMessage(c) \/ EnrichmentCrash(c) \/ CooldownLapses(c)
  PROVE  EnrichmentInv'
<1>1. CallersTyped'
  <2>1. CASE Ask(c)
    BY <2>1, GoType DEF Ask, EnrichmentInv, Phases
  <2>2. CASE SendMessage(c) \/ FailMessage(c) \/ EnrichmentCrash(c)
    BY <2>2, GoType DEF SendMessage, FailMessage, EnrichmentCrash, EnrichmentInv, Phases
  <2>3. CASE CooldownLapses(c)
    BY <2>3 DEF CooldownLapses, EnrichmentInv, CallersTyped
  <2> QED
    BY <2>1, <2>2, <2>3
<1>2. /\ UNCHANGED <<enrichment, untouched, overtaken>>
      /\ \A d \in Callers : At(d)' = "researching" => At(d) = "researching"
  BY DEF Ask, SendMessage, FailMessage, EnrichmentCrash, CooldownLapses, Go, At,
         EnrichmentInv, CallersTyped, Caller
<1> QED
  BY <1>1, <1>2 DEF EnrichmentInv, RowTyped, OneResearcher

\* Looking for a result, and recording that there is none to be had.
LEMMA LookingInv ==
  ASSUME EnrichmentInv, NEW c \in Callers, LoadCompleted(c) \/ RecordSkipped(c)
  PROVE  EnrichmentInv'
<1> USE DEF EnrichmentInv
<1>1. CallersTyped'
  <2>1. enrichment.content \in Callers \cup {NoCaller}
    BY DEF RowTyped
  <2> QED
    BY <2>1, GoType, GoWithType DEF LoadCompleted, RecordSkipped, Phases
<1>2. \A d \in Callers : At(d)' = "researching" => At(d) = "researching"
  BY DEF LoadCompleted, RecordSkipped, Go, GoWith, At, CallersTyped, Caller
<1>3. CASE UNCHANGED <<enrichment, untouched, overtaken>>
  BY <1>1, <1>2, <1>3 DEF RowTyped, OneResearcher
<1>4. CASE /\ RecordSkipped(c)
           /\ enrichment' = [status |-> "skipped", content |-> NoCaller] /\ untouched' = FALSE
           /\ overtaken' = overtaken \cup Researching
  <2>1. overtaken' = {} => \A d \in Callers : At(d) # "researching"
    BY <1>4 DEF Researching
  <2> QED
    BY <1>1, <1>2, <1>4, <2>1 DEF RowTyped, OneResearcher, Statuses
<1> QED
  BY <1>3, <1>4 DEF LoadCompleted, RecordSkipped

\* A claim finds nobody researching, or says whom it overtakes.
LEMMA ClaimInv ==
  ASSUME EnrichmentInv, NEW c \in Callers, ClaimRun(c)
  PROVE  EnrichmentInv'
<1> USE DEF EnrichmentInv
<1>1. CallersTyped'
  <2>1. enrichment.content \in Callers \cup {NoCaller}
    BY DEF RowTyped
  <2> QED
    BY <2>1, GoType, GoWithType DEF ClaimRun, Phases
<1>2. CASE Claimable
  <2>1. overtaken' = {} => \A d \in Callers : At(d) # "researching"
    BY <1>2 DEF ClaimRun, Claimable, Researching, OneResearcher, RowTyped
  <2>2. \A d \in Callers : At(d)' = "researching" => d = c \/ At(d) = "researching"
    BY <1>2 DEF ClaimRun, Go, At, CallersTyped, Caller
  <2>3. enrichment' = [status |-> "running", content |-> NoCaller] /\ untouched' = FALSE
    BY <1>2 DEF ClaimRun
  <2> QED
    BY <1>1, <2>1, <2>2, <2>3 DEF RowTyped, OneResearcher, Statuses
<1>3. CASE ~Claimable
  <2>1. \A d \in Callers : At(d)' = "researching" => At(d) = "researching"
    BY <1>3 DEF ClaimRun, GoWith, At, CallersTyped, Caller
  <2> QED
    BY <1>1, <1>3, <2>1 DEF ClaimRun, RowTyped, OneResearcher
<1> QED
  BY <1>2, <1>3

\* The end of a run leaves nobody researching, unless it had been overtaken.
LEMMA EndInv ==
  ASSUME EnrichmentInv, NEW c \in Callers, SaveCompleted(c) \/ RecordResearchFailure(c)
  PROVE  EnrichmentInv'
<1> USE DEF EnrichmentInv
<1>1. CallersTyped'
  BY GoType, GoWithType DEF SaveCompleted, RecordResearchFailure, Phases
<1>2. \A d \in Callers : At(d)' = "researching" => d # c /\ At(d) = "researching"
  BY DEF SaveCompleted, RecordResearchFailure, Go, GoWith, At, CallersTyped, Caller
<1>3. At(c) = "researching" /\ overtaken' = overtaken /\ untouched' = FALSE
  BY DEF SaveCompleted, RecordResearchFailure
<1>4. RowTyped'
  <2>1. CASE SaveCompleted(c)
    BY <1>3, <2>1 DEF SaveCompleted, RowTyped, Statuses
  <2>2. CASE RecordResearchFailure(c)
    BY <1>3, <2>2 DEF RecordResearchFailure, RowTyped, Statuses
  <2> QED
    BY <2>1, <2>2
<1> QED
  BY <1>1, <1>2, <1>3, <1>4 DEF OneResearcher

LEMMA EnrichmentStepInv ==
  ASSUME EnrichmentInv, [EnrichmentNext]_enrichmentVars
  PROVE  EnrichmentInv'
<1>1. CASE GrowUntouched
  BY <1>1 DEF GrowUntouched, EnrichmentInv, CallersTyped, RowTyped, OneResearcher, At
<1>2. CASE UNCHANGED enrichmentVars
  BY <1>2 DEF enrichmentVars, EnrichmentInv, CallersTyped, RowTyped, OneResearcher, At
<1> QED
  BY <1>1, <1>2, OutsideInv, LookingInv, ClaimInv, EndInv DEF EnrichmentNext

-----------------------------------------------------------------------------
(* The theorem                                                             *)

\* Before a running row is first overwritten, nothing changes a completed result.
THEOREM CompletedKept == EnrichmentSpec => CompletedIsKept
<1>1. EnrichmentInv /\ [EnrichmentNext]_enrichmentVars => EnrichmentInv'
  BY EnrichmentStepInv
<1>2. EnrichmentInv /\ [EnrichmentNext]_enrichmentVars
        => [enrichment.status = "complete" /\ enrichment' # enrichment
              => overtaken # {}]_enrichmentVars
  <2> SUFFICES ASSUME EnrichmentInv, EnrichmentNext, enrichment.status = "complete",
                      enrichment' # enrichment
               PROVE  overtaken # {}
    OBVIOUS
  <2>1. ~Claimable
    BY DEF Claimable, EnrichmentInv, RowTyped
  <2>2. PICK c \in Callers : SaveCompleted(c) \/ RecordResearchFailure(c)
    BY <2>1 DEF EnrichmentNext, Ask, SendMessage, FailMessage, EnrichmentCrash, LoadCompleted,
                RecordSkipped, ClaimRun, CooldownLapses, GrowUntouched
  <2> QED
    BY <2>2 DEF SaveCompleted, RecordResearchFailure, EnrichmentInv, OneResearcher
<1> QED
  BY EnrichmentInitInv, <1>1, <1>2, PTL DEF EnrichmentSpec, CompletedIsKept

(***************************************************************************)
(* The check of a source                                                   *)
(***************************************************************************)

\* What is counted of a check has been inserted by its transaction, and an entry
\* that is still to be taken has had no page fetched for it.
FetchGood ==
  /\ kind \in FeedKinds /\ step \in CheckSteps
  /\ mirror \in 0 .. Mirrors /\ attempt \in 0 .. MaxRetries
  /\ entries \in Seq(Entry) /\ left \in 0 .. MaxSnippets /\ texted \in BOOLEAN
  /\ pages \in 0 .. MaxEntries /\ staged \in 0 .. MaxEntries /\ inserted \in 0 .. MaxEntries
  /\ stored \in Nat /\ outcome \in Seq(Outcome) /\ Len(outcome) <= MaxChecks
  /\ Len(entries) <= MaxEntries
  /\ step # "rest" => staged = inserted /\ Len(outcome) < MaxChecks
  /\ step \in {"request", "wait"} => entries = <<>> /\ pages = 0 /\ staged = 0
  /\ step \in {"entry", "snippet", "store"} =>
       /\ staged + Len(entries) <= MaxEntries
       /\ pages + Len(entries) <= IF step = "store" THEN MaxEntries + 1 ELSE MaxEntries
  /\ step \in {"snippet", "store"} => entries # <<>>
  /\ step = "snippet" => left > 0
  /\ ReportedIsStored

LEMMA FetchBounds ==
  Mirrors \in Nat \ {0} /\ MaxRetries \in Nat /\ MaxSnippets \in Nat /\ MaxItems \in Nat /\ MaxEntries \in Nat
  /\ MaxChecks \in Nat
  BY FetchAssumption

LEMMA FetchInitGood == FetchInit => FetchGood
<1>1. <<>> \in Seq(Entry) /\ <<>> \in Seq(Outcome) /\ Len(<<>>) = 0
  OBVIOUS
<1>2. FetchInit => ReportedIsStored
  BY DEF FetchInit, ReportedIsStored
<1>3. SUFFICES ASSUME FetchInit PROVE FetchGood
  OBVIOUS
<1>4. texted \in BOOLEAN
  BY <1>3 DEF FetchInit
<1>5. /\ kind \in FeedKinds /\ step = "rest" /\ mirror = 0 /\ attempt = 0 /\ entries = <<>> /\ left = 0
      /\ pages = 0 /\ staged = 0 /\ inserted = 0 /\ stored = 0 /\ outcome = <<>>
  BY <1>3 DEF FetchInit
<1> QED
  BY FetchBounds, <1>1, <1>2, <1>3, <1>4, <1>5 DEF FetchGood, CheckSteps

\* One more outcome.
LEMMA OutcomeGrows ==
  ASSUME FetchGood, step # "rest", NEW o \in Outcome, o.new = o.stored, outcome' = Append(outcome, o)
  PROVE  outcome' \in Seq(Outcome) /\ Len(outcome') <= MaxChecks /\ ReportedIsStored'
<1>1. outcome \in Seq(Outcome) /\ Len(outcome) < MaxChecks /\ Len(outcome) \in Nat /\ MaxChecks \in Nat
  BY FetchBounds DEF FetchGood
<1>2. /\ outcome' \in Seq(Outcome) /\ Len(outcome') = Len(outcome) + 1
      /\ \A i \in 1 .. Len(outcome) : outcome'[i] = outcome[i]
      /\ outcome'[Len(outcome) + 1] = o
  BY <1>1, AppendProperties
<1>3. \A i \in 1 .. Len(outcome) : outcome[i].new = outcome[i].stored
  BY <1>1 DEF FetchGood, ReportedIsStored
<1>4. ASSUME NEW i \in DOMAIN outcome' PROVE outcome'[i].new = outcome'[i].stored
  <2>1. i \in 1 .. Len(outcome) \/ i = Len(outcome) + 1
    BY <1>1, <1>2
  <2> QED
    BY <1>2, <1>3, <2>1
<1> QED
  BY <1>1, <1>2, <1>4 DEF ReportedIsStored

LEMMA FailCheckGood == FetchGood /\ step # "rest" /\ FailCheck => FetchGood'
<1> SUFFICES ASSUME FetchGood, step # "rest", FailCheck PROVE FetchGood'
  OBVIOUS
<1>1. ReportFailure \in Outcome /\ ReportFailure.new = ReportFailure.stored
  BY DEF ReportFailure, Outcome
<1>2. outcome' \in Seq(Outcome) /\ Len(outcome') <= MaxChecks /\ ReportedIsStored'
  BY <1>1, OutcomeGrows DEF FailCheck
<1> QED
  BY <1>2, FetchBounds DEF FailCheck, FetchGood, CheckSteps, feedVars

LEMMA FetchStepGood == FetchGood /\ [FetchNext]_fetchVars => FetchGood'
<1> SUFFICES ASSUME FetchGood, [FetchNext]_fetchVars PROVE FetchGood'
  OBVIOUS
<1> USE FetchBounds
<1>1. CASE BeginCheck
  <2>1. <<>> \in Seq(Entry) /\ Len(<<>>) = 0
    OBVIOUS
  <2>2. ReportedIsStored'
    BY <1>1 DEF BeginCheck, sourceVars, FetchGood, ReportedIsStored
  <2>3. /\ step' = "request" /\ mirror' = 1 /\ attempt' = 0 /\ entries' = <<>> /\ left' = MaxSnippets
        /\ pages' = 0 /\ staged' = 0 /\ inserted' = 0
        /\ kind' = kind /\ stored' = stored /\ outcome' = outcome /\ Len(outcome) < MaxChecks
    BY <1>1 DEF BeginCheck, sourceVars
  <2>4. texted' \in BOOLEAN
    BY <1>1 DEF BeginCheck
  <2> QED
    BY <2>1, <2>2, <2>3, <2>4 DEF FetchGood, CheckSteps
<1>2. CASE AnswerFeed
  <2>0. PICK n \in 0 .. MaxEntries : \E es \in [1 .. n -> Entry] : entries' = Taken(es)
    BY <1>2 DEF AnswerFeed
  <2>1. PICK es \in [1 .. n -> Entry] : entries' = Taken(es)
    BY <2>0
  <2>2. es \in Seq(Entry) /\ Len(es) = n
    BY <2>1
  <2>3. entries' \in Seq(Entry) /\ Len(entries') <= n /\ Len(entries') \in Nat
    <3>1. PICK m \in 0 .. n : m = IF n < MaxItems THEN n ELSE MaxItems
      OBVIOUS
    <3>2. SubSeq(es, 1, m) \in Seq(Entry) /\ Len(SubSeq(es, 1, m)) = m
      BY <2>2, <3>1, SubSeqProperties
    <3> QED
      BY <2>1, <2>2, <3>1, <3>2 DEF Taken
  <2>4. step = "request" /\ step' = "entry"
        /\ UNCHANGED <<kind, stored, outcome, mirror, attempt, left, pages, staged, inserted, texted>>
    BY <1>2 DEF AnswerFeed, sourceVars
  <2> QED
    BY <2>3, <2>4 DEF FetchGood, CheckSteps, ReportedIsStored
<1>3. CASE Busy \/ Awake \/ NextMirror
  BY <1>3 DEF Busy, Awake, NextMirror, MayRetry, CountRetry, sourceVars, entryVars, feedVars, FetchGood, CheckSteps,
              ReportedIsStored
<1>4. CASE NoAnswer \/ BreakEntry
  BY <1>4, FailCheckGood DEF NoAnswer, BreakEntry
<1>5. CASE TakeEntry
  <2>1. Head(entries) \in Entry /\ Head(entries).text \in BOOLEAN
    <3>1. entries \in Seq(Entry) /\ entries # <<>>
      BY <1>5 DEF TakeEntry, FetchGood
    <3>2. Head(entries) \in Entry
      BY <3>1, HeadTailProperties
    <3> QED
      BY <3>2 DEF Entry
  <2> QED
    BY <1>5, <2>1 DEF TakeEntry, sourceVars, feedVars, FetchGood, CheckSteps, ReportedIsStored
<1>6. CASE FetchSnippet
  <2>1. pages + 1 + Len(entries) <= MaxEntries + 1 /\ Len(entries) \in Nat \ {0} /\ left > 0
    BY <1>6 DEF FetchSnippet, FetchGood
  <2>2. pages' \in 0 .. MaxEntries
    BY <1>6, <2>1 DEF FetchSnippet, FetchGood
  <2> QED
    BY <1>6, <2>1, <2>2 DEF FetchSnippet, sourceVars, feedVars, FetchGood, CheckSteps, ReportedIsStored
<1>7. CASE PersistEntry
  <2>1. /\ Tail(entries) \in Seq(Entry) /\ Len(Tail(entries)) = Len(entries) - 1 /\ Len(entries) \in Nat \ {0}
    BY <1>7 DEF PersistEntry, FetchGood
  <2>2. PICK new \in {0, 1} : staged' = staged + new /\ inserted' = inserted + new
    BY <1>7 DEF PersistEntry
  <2> QED
    BY <1>7, <2>1, <2>2 DEF PersistEntry, sourceVars, feedVars, FetchGood, CheckSteps, ReportedIsStored
<1>8. CASE EndCheck
  <2> DEFINE o == [new |-> inserted, stored |-> staged, failed |-> FALSE]
  <2>1. o \in Outcome /\ o.new = o.stored /\ step = "entry"
    BY <1>8 DEF EndCheck, Outcome, FetchGood
  <2>2. outcome' = Append(outcome, o)
    BY <1>8 DEF EndCheck
  <2> HIDE DEF o
  <2>3. outcome' \in Seq(Outcome) /\ Len(outcome') <= MaxChecks /\ ReportedIsStored'
    BY <2>1, <2>2, OutcomeGrows
  <2> QED
    BY <1>8, <2>3 DEF EndCheck, feedVars, entryVars, FetchGood, CheckSteps
<1>9. CASE UNCHANGED fetchVars
  BY <1>9 DEF fetchVars, FetchGood, ReportedIsStored
<1> QED
  BY <1>1, <1>2, <1>3, <1>4, <1>5, <1>6, <1>7, <1>8, <1>9 DEF FetchNext, CheckStep

LEMMA FetchParts == FetchGood => FetchTypeOK /\ ReportedIsStored
  BY DEF FetchGood, FetchTypeOK

\* What a check reports as new is what it has stored, also when it has failed half
\* way through the feed.
THEOREM ReportsAreStored == FetchSpec => []ReportedIsStored
<1> QED
  BY FetchInitGood, FetchStepGood, FetchParts, PTL DEF FetchSpec

(***************************************************************************)
(* Recommendation scores                                                   *)
(***************************************************************************)

LEMMA ScoreInitType == ScoreInit => ScoreTypeOK
  BY ScoreAssumption DEF ScoreInit, ScoreTypeOK, Tastes

LEMMA ScoreStepType == ScoreTypeOK /\ [ScoreNext]_scoreVars => ScoreTypeOK'
<1> SUFFICES ASSUME ScoreTypeOK, [ScoreNext]_scoreVars PROVE ScoreTypeOK'
  OBVIOUS
<1> DEFINE ScoreRow == [made: Tastes \cup {-1}, stale: BOOLEAN]
<1>1. AllMarked \in [Candidates -> ScoreRow]
  BY DEF AllMarked, ScoreTypeOK, Scored
<1>2. CASE \E a \in Candidates : Arrive(a)
  BY <1>2 DEF Arrive, ScoreTypeOK
<1>3. CASE \E a \in Candidates : ActOnArticle(a)
  <2>1. taste' \in Tastes
    BY <1>3, ScoreAssumption DEF ActOnArticle, ScoreTypeOK, Tastes
  <2> QED
    BY <1>1, <1>3, <2>1 DEF ActOnArticle, ScoreTypeOK
<1>4. CASE SavePreferences \/ ChangeGoals
  <2>1. taste' \in Tastes
    BY <1>4, ScoreAssumption DEF SavePreferences, ChangeGoals, ScoreTypeOK, Tastes
  <2> QED
    BY <1>1, <1>4, <2>1 DEF SavePreferences, ChangeGoals, ScoreTypeOK
<1>5. ASSUME NEW s \in Sweeps, LoadTaste(s)
      PROVE  ScoreTypeOK'
  <2>a. PICK found : found = NewestLive
    OBVIOUS
  <2>1. found \subseteq live
    BY <2>a, Zenon DEF NewestLive
  <2>2. sweep' = [sweep EXCEPT ![s] = [at |-> "loaded", taste |-> taste, articles |-> found]]
        /\ UNCHANGED <<taste, live, scores>>
    BY <1>5, <2>a DEF LoadTaste
  <2>3. [at |-> "loaded", taste |-> taste, articles |-> found]
          \in [at: {"idle", "loaded"}, taste: Tastes, articles: SUBSET Candidates]
    BY <2>1 DEF ScoreTypeOK
  <2> QED
    BY <2>2, <2>3 DEF ScoreTypeOK
<1>6. ASSUME NEW s \in Sweeps, WriteScores(s)
      PROVE  ScoreTypeOK'
  <2>1. ScoredBy(s) \in [Candidates -> ScoreRow]
    BY DEF ScoredBy, ScoreTypeOK
  <2>2. sweep' \in [Sweeps -> [at: {"idle", "loaded"}, taste: Tastes, articles: SUBSET Candidates]]
    BY <1>6 DEF WriteScores, ScoreTypeOK
  <2> QED
    BY <1>6, <2>1, <2>2 DEF WriteScores, ScoreTypeOK
<1>7. ASSUME NEW s \in Sweeps, FailSweep(s)
      PROVE  ScoreTypeOK'
  BY <1>7 DEF FailSweep, ScoreTypeOK
<1>8. CASE UNCHANGED scoreVars
  BY <1>8 DEF scoreVars, ScoreTypeOK
<1> QED
  BY <1>2, <1>3, <1>4, <1>5, <1>6, <1>7, <1>8 DEF ScoreNext

(***************************************************************************)
(* The run that makes a lesson                                             *)
(***************************************************************************)

\* What a run can have made of a page.
Keys == {"concept", "org", "article", "entity"} \X {SlugOf[n] : n \in Names}
FieldRow == [title: {"none", "url", "title", "blank"}, site: {"none", "site", "blank"},
             text: Seq(Sentences), claims: Seq(Sentences), cited: Sentences \cup {"none"},
             entities: SUBSET Keys, relations: SUBSET (Keys \X Keys),
             relevance: {"none", "no_data", "not_configured", "explained", "fallback"}]

\* Where a run is, and which steps are still to be recorded.
AfterExtraction == {"synthesis", "citation_verification", "relevance", "persistence", "graph", "recording", "finishing"}
AfterSynthesis == AfterExtraction \ {"synthesis"}
AfterRelevance == {"persistence", "graph", "recording", "finishing"}
AfterLesson == {"graph", "recording", "finishing"}
OnItsWay == {"fetch", "extraction"} \cup AfterExtraction
Unrecorded ==
  {s \in StepNames :
     \/ s = "fetch" /\ node = "fetch"
     \/ s = "extraction" /\ node \in {"fetch", "extraction"}
     \/ s = "synthesis" /\ node \in {"fetch", "extraction", "synthesis"}
     \/ s = "citation_verification" /\ node \in {"fetch", "extraction", "synthesis", "citation_verification"}
     \/ s = "persistence" /\ node \in OnItsWay \ {"finishing"}}

PipelineTyped ==
  /\ page \in Pages /\ claims \in Claims /\ node \in Nodes
  /\ steps \in [StepNames -> {"none", "complete", "failed"}]
  /\ failure \in {"none", "extraction", "synthesis", "citation_verification", "persistence"}
  /\ fields \in FieldRow
  /\ history \in {"none", "complete", "failed"}

\* What is made so far is whole as far as it goes.
Closed(f) == \A r \in f.relations : {r[1], r[2]} \subseteq f.entities
Fully(f) ==
  /\ f.title \notin {"none", "blank"} /\ f.claims # <<>> /\ Len(f.claims) <= claims
  /\ Grounded(f) /\ Closed(f)
FieldsGood ==
  /\ Closed(fields)
  /\ node # "fetch" => fields.title # "none"
  /\ node \in AfterExtraction => fields.text # <<>>
  /\ node \in AfterSynthesis => fields.title # "blank" /\ fields.claims # <<>> /\ Len(fields.claims) <= claims
  /\ node = "citation_verification" => fields.cited = fields.text[1]
  /\ node \in AfterSynthesis \ {"citation_verification"} => Grounded(fields)
  /\ node \in AfterRelevance => fields.relevance # "none"

StepsGood ==
  /\ \A s \in Unrecorded : steps[s] = "none"
  /\ \A s \in StepNames \ {"fetch", failure} : steps[s] # "failed"
  /\ node \in OnItsWay => failure = "none"
  /\ failure # "none" => steps[failure] # "complete" /\ \A s \in StepNames : failure \in Before(s) => steps[s] = "none"

LessonGood ==
  /\ lesson.status \in {"pending", "complete", "failed"}
  /\ lesson.status = "complete" => Fully(lesson.shows) /\ lesson.shows.relevance # "none"
  /\ node \in OnItsWay \ AfterLesson => lesson.status = "pending"
  /\ node \in AfterLesson => lesson.status = "complete" /\ lesson.shows = fields
  /\ node = "failing" => lesson.status = "pending"
  /\ node = "failed_recording" => lesson.status = "failed"
  /\ node \in {"failing", "failed_recording"} => failure # "none"
  /\ node = "escaped" => failure = "persistence"
  /\ node \notin {"finishing", "over"} => history = "none"
  /\ node = "finishing" => history = "complete"

GraphGood ==
  /\ graph.of \in {"nothing", "older", "this"}
  /\ \A e \in graph.edges : {e[1], e[2]} \subseteq graph.nodes /\ e[1] # e[2]
  /\ graph.of = "this" => lesson.status = "complete" /\ graph.nodes = GraphNodes(lesson.shows)

RunGood ==
  /\ run \in [status: {"running", "complete", "failed"}, failed: StepNames \cup {"none"}]
  /\ node # "over" => run.status = "running"
  /\ run.status = "complete" => lesson.status = "complete" /\ history = "complete" /\ failure = "none"
  /\ run.status = "failed" =>
       /\ failure # "none" /\ run.failed = failure /\ history # "complete"
       /\ lesson.status = "complete" => failure = "persistence"

PipelineGood == PipelineTyped /\ FieldsGood /\ StepsGood /\ LessonGood /\ GraphGood /\ RunGood

LEMMA PipelineInitGood == PipelineInit => PipelineGood
<1> SUFFICES ASSUME PipelineInit PROVE PipelineGood
  OBVIOUS
<1>1. PipelineTyped
  <2>1. NoFields \in FieldRow
    <3>1. <<>> \in Seq(Sentences)
      OBVIOUS
    <3> QED
      BY <3>1 DEF NoFields, FieldRow
  <2> QED
    BY <2>1 DEF PipelineInit, PipelineTyped, Nodes, StepNames
<1>2. FieldsGood
  BY DEF PipelineInit, FieldsGood, NoFields, Closed, AfterExtraction, AfterSynthesis, AfterRelevance
<1>3. StepsGood
  BY DEF PipelineInit, StepsGood, Unrecorded, StepNames, OnItsWay
<1>4. LessonGood
  BY DEF PipelineInit, LessonGood, AfterLesson, OnItsWay, AfterExtraction
<1>5. GraphGood
  BY DEF PipelineInit, GraphGood
<1>6. RunGood
  BY DEF PipelineInit, RunGood
<1> QED
  BY <1>1, <1>2, <1>3, <1>4, <1>5, <1>6 DEF PipelineGood

-----------------------------------------------------------------------------
(* The steps on the way                                                    *)

\* A step is recorded when its time has come.
LEMMA Recorded ==
  ASSUME PipelineTyped, StepsGood, NEW s \in StepNames, s \in Unrecorded, NEW st \in {"complete", "failed"},
         RecordStep(s, st), node' \in Nodes, Unrecorded' \subseteq Unrecorded \ {s}, failure = "none",
         \/ failure' = "none" /\ (st = "failed" => s = "fetch")
         \/ failure' = s /\ st = "failed" /\ s # "fetch" /\ node' \notin OnItsWay /\ Unrecorded' = {}
            /\ \A t \in StepNames : s \in Before(t) => t \in Unrecorded \ {s}
  PROVE  StepsGood' /\ steps' \in [StepNames -> {"none", "complete", "failed"}]
<1>1. steps' \in [StepNames -> {"none", "complete", "failed"}]
  BY DEF RecordStep, PipelineTyped
<1>2. /\ \A t \in StepNames \ {s} : steps'[t] = steps[t]
      /\ steps'[s] \in {steps[s], st} /\ steps[s] = "none"
  BY DEF RecordStep, PipelineTyped, StepsGood
<1>3. \A t \in Unrecorded' : steps'[t] = "none"
  BY <1>2 DEF StepsGood, Unrecorded
<1>4. ASSUME NEW t \in StepNames \ {"fetch", failure'} PROVE steps'[t] # "failed"
  <2>1. CASE t = s
    BY <1>2, <1>4, <2>1
  <2>2. CASE t # s
    BY <1>2, <1>4, <2>2 DEF StepsGood, StepNames
  <2> QED
    BY <2>1, <2>2
<1>5. node' \in OnItsWay => failure' = "none"
  OBVIOUS
<1>6. ASSUME failure' # "none"
      PROVE  steps'[failure'] # "complete" /\ \A t \in StepNames : failure' \in Before(t) => steps'[t] = "none"
  BY <1>2, <1>6 DEF StepsGood
<1> QED
  BY <1>1, <1>3, <1>4, <1>5, <1>6 DEF StepsGood, Before, OnItsWay, AfterExtraction

LEMMA FetchNodeGood == PipelineGood /\ FetchNode => PipelineGood'
<1> SUFFICES ASSUME PipelineGood, FetchNode PROVE PipelineGood'
  OBVIOUS
<1>1. /\ node = "fetch" /\ node' = "extraction" /\ UNCHANGED <<page, claims, failure, lesson, history, graph, run>>
      /\ failure = "none" /\ page \in Page /\ fields \in FieldRow
  BY PipelineAssumption DEF FetchNode, PipelineGood, StepsGood, OnItsWay, PipelineTyped
<1>2. fields' \in FieldRow /\ fields'.title # "none" /\ Closed(fields')
  <2>1. PICK t \in {"url", "title", "blank"}, s \in {"none", "site", "blank"} :
          fields' = [fields EXCEPT !.title = t, !.site = s] \/ fields' = [fields EXCEPT !.title = t]
    BY <1>1 DEF FetchNode, Page
  <2>2. fields' \in FieldRow
    BY <1>1, <2>1 DEF FieldRow
  <2>3. fields'.title = t /\ fields'.relations = fields.relations /\ fields'.entities = fields.entities
    BY <1>1, <2>1 DEF FieldRow
  <2> QED
    BY <2>2, <2>3 DEF Closed, PipelineGood, FieldsGood
<1>3. StepsGood' /\ steps' \in [StepNames -> {"none", "complete", "failed"}]
  <2>1. PICK st \in {"complete", "failed"} : RecordStep("fetch", st)
    BY DEF FetchNode
  <2>2. "fetch" \in StepNames /\ "fetch" \in Unrecorded /\ Unrecorded' \subseteq Unrecorded \ {"fetch"}
    BY <1>1 DEF Unrecorded, StepNames, OnItsWay, AfterExtraction
  <2> QED
    BY <1>1, <2>1, <2>2, Recorded DEF PipelineGood, Nodes, StepNames
<1>4. PipelineTyped'
  BY <1>1, <1>2, <1>3 DEF PipelineGood, PipelineTyped, Nodes, StepNames
<1>5. FieldsGood'
  BY <1>1, <1>2 DEF FieldsGood, AfterExtraction, AfterSynthesis, AfterRelevance
<1>6. LessonGood' /\ GraphGood' /\ RunGood'
  BY <1>1 DEF PipelineGood, LessonGood, GraphGood, RunGood, OnItsWay, AfterExtraction, AfterLesson, Fully, Grounded
<1> QED
  BY <1>3, <1>4, <1>5, <1>6 DEF PipelineGood

\* What the lesson, its graph and its run stand at while the run is on its way.
Alone == UNCHANGED <<page, claims, lesson, history, graph, run>>
LEMMA QuietGood ==
  ASSUME PipelineGood, Alone, node \in OnItsWay \ AfterLesson, node' \in Nodes,
         \/ node' \in OnItsWay \ AfterLesson
         \/ node' = "failing" /\ failure' # "none"
  PROVE  LessonGood' /\ GraphGood' /\ RunGood'
<1>1. LessonGood'
  BY DEF Alone, PipelineGood, LessonGood, OnItsWay, AfterExtraction, AfterLesson, Fully, Grounded, Closed
<1>2. GraphGood'
  BY DEF Alone, PipelineGood, GraphGood, GraphNodes, Named, Key
<1>3. RunGood'
  BY DEF Alone, PipelineGood, RunGood, OnItsWay, AfterExtraction, AfterLesson
<1> QED
  BY <1>1, <1>2, <1>3

\* The failing of a step.
LEMMA FailsGood ==
  ASSUME PipelineGood, NEW s \in {"extraction", "synthesis", "citation_verification"}, node = s,
         RecordStep(s, "failed"), FailAt(s), UNCHANGED fields, Alone
  PROVE  PipelineGood'
<1>1. node' = "failing" /\ failure' = s /\ failure = "none" /\ node \in OnItsWay \ AfterLesson /\ node' \in Nodes
  BY DEF FailAt, PipelineGood, StepsGood, OnItsWay, AfterExtraction, AfterLesson, Nodes
<1>2. StepsGood' /\ steps' \in [StepNames -> {"none", "complete", "failed"}]
  <2>1. s \in StepNames /\ s \in Unrecorded /\ Unrecorded' = {}
    BY <1>1 DEF Unrecorded, StepNames, OnItsWay, AfterExtraction
  <2>2. \A t \in StepNames : s \in Before(t) => t \in Unrecorded \ {s}
    BY <1>1 DEF Unrecorded, StepNames, OnItsWay, AfterExtraction, Before
  <2>3. node' \notin OnItsWay
    BY <1>1 DEF OnItsWay, AfterExtraction
  <2> QED
    BY <1>1, <2>1, <2>2, <2>3, Recorded DEF PipelineGood
<1>3. PipelineTyped'
  BY <1>1, <1>2 DEF PipelineGood, PipelineTyped, Alone
<1>4. FieldsGood'
  BY <1>1 DEF PipelineGood, FieldsGood, AfterExtraction, AfterSynthesis, AfterRelevance, OnItsWay, Closed, Grounded
<1>5. LessonGood' /\ GraphGood' /\ RunGood'
  BY <1>1, QuietGood
<1> QED
  BY <1>2, <1>3, <1>4, <1>5 DEF PipelineGood

LEMMA ExtractionNodeGood == PipelineGood /\ ExtractionNode => PipelineGood'
<1> SUFFICES ASSUME PipelineGood, ExtractionNode PROVE PipelineGood'
  OBVIOUS
<1>1. node = "extraction" /\ Alone /\ page \in Page /\ fields \in FieldRow /\ failure = "none"
  BY PipelineAssumption DEF ExtractionNode, Alone, PipelineGood, PipelineTyped, StepsGood, OnItsWay
<1>2. CASE RecordStep("extraction", "failed") /\ FailAt("extraction") /\ UNCHANGED fields
  BY <1>1, <1>2, FailsGood
<1>3. CASE /\ page.text # <<>> /\ RecordStep("extraction", "complete")
           /\ fields' = [fields EXCEPT !.text = page.text] /\ node' = "synthesis" /\ UNCHANGED failure
  <2>1. page.text \in Seq(Sentences)
    BY <1>1 DEF Page
  <2>2. /\ fields' \in FieldRow /\ fields'.text = page.text /\ fields'.title = fields.title
        /\ fields'.relations = fields.relations /\ fields'.entities = fields.entities
    BY <1>1, <1>3, <2>1 DEF FieldRow
  <2>3. StepsGood' /\ steps' \in [StepNames -> {"none", "complete", "failed"}]
    <3>1. "extraction" \in StepNames /\ "extraction" \in Unrecorded /\ Unrecorded' \subseteq Unrecorded \ {"extraction"}
          /\ node' \in Nodes
      BY <1>1, <1>3 DEF Unrecorded, StepNames, OnItsWay, AfterExtraction, Nodes
    <3> QED
      BY <1>1, <1>3, <3>1, Recorded DEF PipelineGood
  <2>4. PipelineTyped'
    BY <1>1, <1>3, <2>2, <2>3 DEF PipelineGood, PipelineTyped, Nodes, StepNames, Alone
  <2>5. FieldsGood'
    BY <1>1, <1>3, <2>2 DEF PipelineGood, FieldsGood, AfterExtraction, AfterSynthesis, AfterRelevance, Closed
  <2>6. LessonGood' /\ GraphGood' /\ RunGood'
    BY <1>1, <1>3, QuietGood DEF OnItsWay, AfterExtraction, AfterLesson, Nodes, StepNames
  <2> QED
    BY <2>3, <2>4, <2>5, <2>6 DEF PipelineGood
<1> QED
  BY <1>2, <1>3 DEF ExtractionNode

LEMMA SynthesisNodeGood == PipelineGood /\ SynthesisNode => PipelineGood'
<1> SUFFICES ASSUME PipelineGood, SynthesisNode PROVE PipelineGood'
  OBVIOUS
<1>1. /\ node = "synthesis" /\ Alone /\ fields \in FieldRow /\ failure = "none"
      /\ fields.text \in Seq(Sentences) /\ fields.text # <<>> /\ claims \in Nat \ {0}
  BY PipelineAssumption DEF SynthesisNode, Alone, PipelineGood, PipelineTyped, StepsGood, OnItsWay,
     AfterExtraction, FieldsGood, FieldRow
<1>2. CASE Unusable(fields)
  BY <1>1, <1>2, FailsGood DEF SynthesisNode
<1>3. CASE ~Unusable(fields)
  <2>0. /\ RecordStep("synthesis", "complete") /\ fields' = Synthesized(fields)
        /\ node' = "citation_verification" /\ UNCHANGED failure /\ fields.title # "blank"
    BY <1>3 DEF SynthesisNode, Unusable
  <2>1. PICK n \in 1 .. Len(fields.text) : n = (IF Len(fields.text) < claims THEN Len(fields.text) ELSE claims)
    BY <1>1
  <2>2. PICK cs : cs = SubSeq(fields.text, 1, n)
    OBVIOUS
  <2>3. cs \in Seq(Sentences) /\ Len(cs) = n /\ cs # <<>> /\ n <= claims /\ fields.text[1] \in Sentences
    <3>1. 1 \in 1 .. Len(fields.text) + 1 /\ n \in 0 .. Len(fields.text)
      BY <2>1, <1>1
    <3>2. cs \in Seq(Sentences) /\ Len(cs) = n
      BY <1>1, <2>2, <3>1, SubSeqProperties
    <3> QED
      BY <1>1, <2>1, <3>2
  <2>4. fields' = [fields EXCEPT !.claims = cs, !.cited = fields.text[1]]
    BY <2>0, <2>1, <2>2 DEF Synthesized
  <2>5. /\ fields' \in FieldRow /\ fields'.text = fields.text /\ fields'.title = fields.title
        /\ fields'.claims = cs /\ fields'.cited = fields.text[1]
        /\ fields'.relations = fields.relations /\ fields'.entities = fields.entities
    BY <1>1, <2>3, <2>4 DEF FieldRow
  <2>6. StepsGood' /\ steps' \in [StepNames -> {"none", "complete", "failed"}]
    <3>1. "synthesis" \in StepNames /\ "synthesis" \in Unrecorded /\ Unrecorded' \subseteq Unrecorded \ {"synthesis"}
          /\ node' \in Nodes
      BY <1>1, <2>0 DEF Unrecorded, StepNames, OnItsWay, AfterExtraction, Nodes
    <3> QED
      BY <1>1, <2>0, <3>1, Recorded DEF PipelineGood
  <2>7. PipelineTyped'
    BY <1>1, <2>0, <2>5, <2>6 DEF PipelineGood, PipelineTyped, Nodes, StepNames, Alone
  <2>8. FieldsGood'
    BY <1>1, <2>0, <2>3, <2>5 DEF PipelineGood, FieldsGood, AfterExtraction, AfterSynthesis, AfterRelevance, Closed, Alone
  <2>9. LessonGood' /\ GraphGood' /\ RunGood'
    BY <1>1, <2>0, QuietGood DEF OnItsWay, AfterExtraction, AfterLesson, Nodes, StepNames
  <2> QED
    BY <2>6, <2>7, <2>8, <2>9 DEF PipelineGood
<1> QED
  BY <1>2, <1>3

\* The context ties the concept to names that are there.
LEMMA ContextCloses ==
  ASSUME NEW f, f.title \in {"url", "title", "blank"}, f.site \in {"none", "site", "blank"}
  PROVE  /\ Entities(f) \in SUBSET Keys /\ Relations(f) \in SUBSET (Keys \X Keys)
         /\ \A r \in Relations(f) : {r[1], r[2]} \subseteq Entities(f)
<1>1. Mentioned(f) \subseteq Names /\ "context" \in Names
  BY DEF Mentioned, Names
<1>2. Key("concept", "context") \in Keys /\ \A n \in Mentioned(f) : Key("org", n) \in Keys
  BY <1>1 DEF Key, Keys
<1>3. Entities(f) \in SUBSET Keys
  BY <1>2 DEF Entities
<1>4. Relations(f) \in SUBSET (Keys \X Keys)
  BY <1>2 DEF Relations
<1>5. \A r \in Relations(f) : {r[1], r[2]} \subseteq Entities(f)
  BY DEF Relations, Entities
<1> QED
  BY <1>3, <1>4, <1>5

LEMMA CitationNodeGood == PipelineGood /\ CitationNode => PipelineGood'
<1> SUFFICES ASSUME PipelineGood, CitationNode PROVE PipelineGood'
  OBVIOUS
<1>1. /\ node = "citation_verification" /\ Alone /\ fields \in FieldRow /\ failure = "none"
      /\ fields.title \in {"url", "title"} /\ fields.site \in {"none", "site", "blank"}
  BY DEF CitationNode, Alone, PipelineGood, PipelineTyped, StepsGood, OnItsWay,
     AfterExtraction, AfterSynthesis, FieldsGood, FieldRow
<1>2. CASE ~Grounded(fields)
  BY <1>1, <1>2, FailsGood DEF CitationNode
<1>3. CASE Grounded(fields)
  <2>0. /\ RecordStep("citation_verification", "complete") /\ node' = "relevance" /\ UNCHANGED failure
        /\ fields' \in {fields, [fields EXCEPT !.entities = Entities(fields), !.relations = Relations(fields)]}
    BY <1>3 DEF CitationNode
  <2>1. /\ Entities(fields) \in SUBSET Keys /\ Relations(fields) \in SUBSET (Keys \X Keys)
        /\ \A r \in Relations(fields) : {r[1], r[2]} \subseteq Entities(fields)
    BY <1>1, ContextCloses
  <2>2. /\ fields' \in FieldRow /\ fields'.text = fields.text /\ fields'.title = fields.title
        /\ fields'.claims = fields.claims /\ fields'.cited = fields.cited
        /\ \/ fields'.relations = fields.relations /\ fields'.entities = fields.entities
           \/ fields'.relations = Relations(fields) /\ fields'.entities = Entities(fields)
    BY <1>1, <2>0, <2>1 DEF FieldRow
  <2>3. Closed(fields') /\ Grounded(fields')
    BY <1>3, <2>1, <2>2 DEF Closed, PipelineGood, FieldsGood, Grounded
  <2>4. StepsGood' /\ steps' \in [StepNames -> {"none", "complete", "failed"}]
    <3>1. /\ "citation_verification" \in StepNames /\ "citation_verification" \in Unrecorded
          /\ Unrecorded' \subseteq Unrecorded \ {"citation_verification"} /\ node' \in Nodes
      BY <1>1, <2>0 DEF Unrecorded, StepNames, OnItsWay, AfterExtraction, Nodes
    <3> QED
      BY <1>1, <2>0, <3>1, Recorded DEF PipelineGood
  <2>5. PipelineTyped'
    BY <1>1, <2>0, <2>2, <2>4 DEF PipelineGood, PipelineTyped, Nodes, StepNames, Alone
  <2>6. FieldsGood'
    BY <1>1, <2>0, <2>2, <2>3 DEF PipelineGood, FieldsGood, AfterExtraction, AfterSynthesis, AfterRelevance, Alone
  <2>7. LessonGood' /\ GraphGood' /\ RunGood'
    BY <1>1, <2>0, QuietGood DEF OnItsWay, AfterExtraction, AfterLesson, Nodes, StepNames
  <2> QED
    BY <2>4, <2>5, <2>6, <2>7 DEF PipelineGood
<1> QED
  BY <1>2, <1>3

LEMMA RelevanceNodeGood == PipelineGood /\ RelevanceNode => PipelineGood'
<1> SUFFICES ASSUME PipelineGood, RelevanceNode PROVE PipelineGood'
  OBVIOUS
<1>1. /\ node = "relevance" /\ node' = "persistence" /\ Alone /\ fields \in FieldRow
      /\ UNCHANGED <<steps, failure>>
  BY DEF RelevanceNode, Alone, PipelineGood, PipelineTyped
<1>2. PICK r \in {"no_data", "not_configured", "explained", "fallback"} : fields' = [fields EXCEPT !.relevance = r]
  BY DEF RelevanceNode
<1>3. /\ fields' \in FieldRow /\ fields'.text = fields.text /\ fields'.title = fields.title
      /\ fields'.claims = fields.claims /\ fields'.cited = fields.cited /\ fields'.relevance = r
      /\ fields'.relations = fields.relations /\ fields'.entities = fields.entities
  BY <1>1, <1>2 DEF FieldRow
<1>4. StepsGood'
  <2>1. Unrecorded' = Unrecorded
    BY <1>1 DEF Unrecorded, OnItsWay, AfterExtraction
  <2> QED
    BY <1>1, <2>1 DEF PipelineGood, StepsGood, OnItsWay, AfterExtraction
<1>5. PipelineTyped'
  BY <1>1, <1>3 DEF PipelineGood, PipelineTyped, Nodes, StepNames, Alone
<1>6. FieldsGood'
  BY <1>1, <1>3 DEF PipelineGood, FieldsGood, AfterExtraction, AfterSynthesis, AfterRelevance, Closed, Grounded, Alone
<1>7. LessonGood' /\ GraphGood' /\ RunGood'
  BY <1>1, QuietGood DEF OnItsWay, AfterExtraction, AfterLesson, Nodes, StepNames
<1> QED
  BY <1>4, <1>5, <1>6, <1>7 DEF PipelineGood

-----------------------------------------------------------------------------
(* The end of a run                                                        *)

\* Key("article", t) is the key of one node only, whatever names coincide.
LEMMA GraphCloses ==
  ASSUME NEW f, f.title \notin {"none", "blank"}
  PROVE  \A e \in GraphEdges(f) : {e[1], e[2]} \subseteq GraphNodes(f) /\ e[1] # e[2]
<1>1. <<"article", f.title>> \in Named(f)
  BY DEF Named
<1>2. Key("article", f.title) \in GraphNodes(f)
  <2>1. <<"article", f.title>>[1] = "article" /\ <<"article", f.title>>[2] = f.title
    OBVIOUS
  <2> QED
    BY <1>1, <2>1 DEF GraphNodes
<1>3. ASSUME NEW n \in Named(f) \ {<<"article", f.title>>}
      PROVE  Key(n[1], n[2]) \in GraphNodes(f) /\ Key("article", f.title) # Key(n[1], n[2])
  <2>1. n[1] # "article"
    BY <1>3 DEF Named
  <2> QED
    BY <1>3, <2>1 DEF GraphNodes, Key
<1> QED
  BY <1>2, <1>3 DEF GraphEdges

LEMMA Escapes ==
  ASSUME PipelineGood, node \in {"persistence", "recording"}, Escape
  PROVE  StepsGood' /\ steps' \in [StepNames -> {"none", "complete", "failed"}]
<1>1. /\ node' = "escaped" /\ failure' = "persistence" /\ failure = "none" /\ RecordStep("persistence", "failed")
  BY DEF Escape, PipelineGood, StepsGood, OnItsWay, AfterExtraction
<1>2. /\ "persistence" \in StepNames /\ "persistence" \in Unrecorded /\ Unrecorded' = {}
      /\ node' \in Nodes /\ node' \notin OnItsWay
  BY <1>1 DEF Unrecorded, StepNames, OnItsWay, AfterExtraction, Nodes
<1>3. \A t \in StepNames : "persistence" \in Before(t) => t \in Unrecorded \ {"persistence"}
  BY DEF StepNames, Before
<1> QED
  BY <1>1, <1>2, <1>3, Recorded DEF PipelineGood

LEMMA UpdateLessonGood == PipelineGood /\ UpdateLesson => PipelineGood'
<1> SUFFICES ASSUME PipelineGood, UpdateLesson PROVE PipelineGood'
  OBVIOUS
<1>1. /\ node = "persistence" /\ failure = "none" /\ lesson.status = "pending" /\ history = "none"
      /\ UNCHANGED <<page, claims, fields, history, graph, run>>
  BY DEF UpdateLesson, PipelineGood, StepsGood, LessonGood, OnItsWay, AfterExtraction, AfterLesson
<1>2. CASE lesson' = [status |-> "complete", shows |-> fields] /\ node' = "graph" /\ UNCHANGED <<steps, failure>>
  <2>1. lesson'.status = "complete" /\ lesson'.shows = fields
    BY <1>2
  <2>2. Fully(fields) /\ fields.relevance # "none"
    BY <1>1 DEF PipelineGood, FieldsGood, Fully, AfterExtraction, AfterSynthesis, AfterRelevance
  <2>3. StepsGood'
    <3>1. Unrecorded' = Unrecorded
      BY <1>1, <1>2 DEF Unrecorded, OnItsWay, AfterExtraction
    <3> QED
      BY <1>1, <1>2, <3>1 DEF PipelineGood, StepsGood, OnItsWay, AfterExtraction
  <2>4. PipelineTyped'
    BY <1>1, <1>2 DEF PipelineGood, PipelineTyped, Nodes, StepNames
  <2>5. FieldsGood'
    BY <1>1, <1>2 DEF PipelineGood, FieldsGood, AfterExtraction, AfterSynthesis, AfterRelevance, Closed, Grounded
  <2>6. LessonGood'
    BY <1>1, <1>2, <2>1, <2>2 DEF LessonGood, OnItsWay, AfterExtraction, AfterLesson, Fully, Grounded, Closed
  <2>7. GraphGood' /\ RunGood'
    BY <1>1, <1>2, <2>1 DEF PipelineGood, GraphGood, RunGood
  <2> QED
    BY <2>3, <2>4, <2>5, <2>6, <2>7 DEF PipelineGood
<1>3. CASE Escape /\ UNCHANGED lesson
  <2>1. node' = "escaped" /\ failure' = "persistence" /\ node' \in Nodes
    BY <1>3 DEF Escape, Nodes
  <2>2. StepsGood' /\ steps' \in [StepNames -> {"none", "complete", "failed"}]
    BY <1>1, <1>3, Escapes
  <2>3. PipelineTyped'
    BY <1>1, <2>1, <2>2 DEF PipelineGood, PipelineTyped
  <2>4. FieldsGood'
    BY <1>1, <2>1 DEF PipelineGood, FieldsGood, AfterExtraction, AfterSynthesis, AfterRelevance, Closed, Grounded
  <2>5. LessonGood'
    BY <1>1, <1>3, <2>1 DEF PipelineGood, LessonGood, OnItsWay, AfterExtraction, AfterLesson, Fully, Grounded, Closed
  <2>6. GraphGood' /\ RunGood'
    BY <1>1, <1>3, <2>1 DEF PipelineGood, GraphGood, RunGood
  <2> QED
    BY <2>2, <2>3, <2>4, <2>5, <2>6 DEF PipelineGood
<1> QED
  BY <1>2, <1>3 DEF UpdateLesson

LEMMA PersistGraphGood == PipelineGood /\ PersistGraph => PipelineGood'
<1> SUFFICES ASSUME PipelineGood, PersistGraph PROVE PipelineGood'
  OBVIOUS
<1>1. /\ node = "graph" /\ node' = "recording" /\ lesson.status = "complete" /\ lesson.shows = fields
      /\ UNCHANGED <<page, claims, steps, fields, failure, lesson, history, run>>
      /\ graph' \in {graph, [of |-> "this", nodes |-> GraphNodes(fields), edges |-> GraphEdges(fields)]}
  BY DEF PersistGraph, PipelineGood, LessonGood, AfterLesson
<1>2. StepsGood'
  <2>1. Unrecorded' = Unrecorded
    BY <1>1 DEF Unrecorded, OnItsWay, AfterExtraction
  <2> QED
    BY <1>1, <2>1 DEF PipelineGood, StepsGood, OnItsWay, AfterExtraction
<1>3. PipelineTyped'
  BY <1>1 DEF PipelineGood, PipelineTyped, Nodes, StepNames
<1>4. FieldsGood'
  BY <1>1 DEF PipelineGood, FieldsGood, AfterExtraction, AfterSynthesis, AfterRelevance, Closed, Grounded
<1>5. LessonGood' /\ RunGood'
  BY <1>1 DEF PipelineGood, LessonGood, RunGood, OnItsWay, AfterExtraction, AfterLesson, Fully, Grounded, Closed
<1>6. GraphGood'
  <2>1. GraphNodes(lesson.shows)' = GraphNodes(fields)
    BY <1>1 DEF GraphNodes, Named, Key
  <2>2. CASE graph' = graph
    BY <1>1, <2>1, <2>2 DEF PipelineGood, GraphGood
  <2>3. CASE graph' = [of |-> "this", nodes |-> GraphNodes(fields), edges |-> GraphEdges(fields)]
    <3>1. \A e \in GraphEdges(fields) : {e[1], e[2]} \subseteq GraphNodes(fields) /\ e[1] # e[2]
      BY <1>1, GraphCloses DEF PipelineGood, LessonGood, Fully
    <3>2. graph'.of = "this" /\ graph'.nodes = GraphNodes(fields) /\ graph'.edges = GraphEdges(fields)
      BY <2>3
    <3> QED
      BY <1>1, <2>1, <3>1, <3>2 DEF GraphGood
  <2> QED
    BY <1>1, <2>2, <2>3
<1> QED
  BY <1>2, <1>3, <1>4, <1>5, <1>6 DEF PipelineGood

LEMMA RecordHistoryGood == PipelineGood /\ RecordHistory => PipelineGood'
<1> SUFFICES ASSUME PipelineGood, RecordHistory PROVE PipelineGood'
  OBVIOUS
<1>1. /\ node = "recording" /\ failure = "none" /\ lesson.status = "complete" /\ lesson.shows = fields /\ history = "none"
      /\ UNCHANGED <<page, claims, fields, lesson, graph, run>>
  BY DEF RecordHistory, PipelineGood, StepsGood, LessonGood, OnItsWay, AfterExtraction, AfterLesson
<1>2. /\ StepsGood' /\ steps' \in [StepNames -> {"none", "complete", "failed"}]
      /\ \/ node' = "finishing" /\ failure' = "none" /\ history' = "complete"
         \/ node' = "escaped" /\ failure' = "persistence" /\ history' = "none"
  <2>1. CASE /\ history' = "complete" /\ RecordStep("persistence", "complete")
             /\ node' = "finishing" /\ UNCHANGED failure
    <3>1. /\ "persistence" \in StepNames /\ "persistence" \in Unrecorded /\ Unrecorded' \subseteq Unrecorded \ {"persistence"}
          /\ node' \in Nodes
      BY <1>1, <2>1 DEF Unrecorded, StepNames, OnItsWay, AfterExtraction, Nodes
    <3> QED
      BY <1>1, <2>1, <3>1, Recorded DEF PipelineGood
  <2>2. CASE Escape /\ UNCHANGED history
    BY <1>1, <2>2, Escapes DEF Escape
  <2> QED
    BY <2>1, <2>2 DEF RecordHistory
<1>3. PipelineTyped'
  BY <1>1, <1>2 DEF PipelineGood, PipelineTyped, Nodes, StepNames
<1>4. FieldsGood'
  BY <1>1, <1>2 DEF PipelineGood, FieldsGood, AfterExtraction, AfterSynthesis, AfterRelevance, Closed, Grounded
<1>5. LessonGood'
  BY <1>1, <1>2 DEF PipelineGood, LessonGood, OnItsWay, AfterExtraction, AfterLesson, Fully, Grounded, Closed
<1>6. GraphGood'
  BY <1>1 DEF PipelineGood, GraphGood, GraphNodes, Named, Key
<1>7. RunGood'
  BY <1>1, <1>2 DEF PipelineGood, RunGood
<1> QED
  BY <1>2, <1>3, <1>4, <1>5, <1>6, <1>7 DEF PipelineGood

\* The last steps record nothing of a step.
LEMMA EndGood ==
  ASSUME PipelineGood, UNCHANGED <<page, claims, steps, fields, failure, graph>>,
         node \in {"finishing", "escaped", "failing", "failed_recording"},
         node' \in {"failed_recording", "over"}, history' \in {history, "failed"},
         lesson' = lesson \/ (lesson'.status = "failed" /\ node = "failing" /\ node' = "failed_recording"),
         node = "failing" /\ node' = "failed_recording" => lesson'.status = "failed" /\ history' = history,
         node' = "failed_recording" => node = "failing" /\ failure # "none",
         run' = run \/ (node' = "over" /\ run' = [status |-> "failed", failed |-> failure]
                         /\ failure # "none" /\ history' # "complete"
                         /\ (lesson'.status = "complete" => failure = "persistence"))
                    \/ (node' = "over" /\ run' = [status |-> "complete", failed |-> "none"] /\ node = "finishing"
                         /\ lesson' = lesson /\ history' = history)
  PROVE  PipelineGood'
<1>1. StepsGood'
  <2>1. Unrecorded' = {}
    BY DEF Unrecorded, OnItsWay, AfterExtraction
  <2>2. node' \notin OnItsWay
    BY DEF OnItsWay, AfterExtraction
  <2> QED
    BY <2>1, <2>2 DEF PipelineGood, StepsGood
<1>2. PipelineTyped'
  BY DEF PipelineGood, PipelineTyped, Nodes, StepNames
<1>3. FieldsGood'
  BY DEF PipelineGood, FieldsGood, AfterExtraction, AfterSynthesis, AfterRelevance, Closed
<1>4. node = "failing" => lesson.status = "pending" /\ history = "none"
  BY DEF PipelineGood, LessonGood
<1>5. LessonGood'
  BY <1>4 DEF PipelineGood, LessonGood, OnItsWay, AfterExtraction, AfterLesson, Fully, Grounded, Closed
<1>6. GraphGood'
  <2>1. CASE lesson' = lesson
    BY <2>1 DEF PipelineGood, GraphGood, GraphNodes, Named, Key
  <2>2. CASE lesson' # lesson
    BY <1>4, <2>2 DEF PipelineGood, GraphGood
  <2> QED
    BY <2>1, <2>2
<1>7. RunGood'
  <2>1. run.status = "running"
    BY DEF PipelineGood, RunGood
  <2>2. node = "finishing" => lesson.status = "complete" /\ history = "complete" /\ failure = "none"
    BY DEF PipelineGood, LessonGood, StepsGood, AfterLesson, OnItsWay, AfterExtraction
  <2>3. failure \in StepNames \cup {"none"}
    BY DEF PipelineGood, PipelineTyped, StepNames
  <2> QED
    BY <2>1, <2>2, <2>3 DEF PipelineGood, RunGood
<1> QED
  BY <1>1, <1>2, <1>3, <1>5, <1>6, <1>7 DEF PipelineGood

LEMMA EndStepsGood ==
  PipelineGood /\ (FinishComplete \/ FinishEscaped \/ FailLesson \/ FinishFailed) => PipelineGood'
<1> SUFFICES ASSUME PipelineGood, FinishComplete \/ FinishEscaped \/ FailLesson \/ FinishFailed PROVE PipelineGood'
  OBVIOUS
<1>1. CASE FinishComplete
  BY <1>1, EndGood DEF FinishComplete, FinishRunRow
<1>2. CASE FinishEscaped
  <2>1. failure = "persistence" /\ history = "none"
    BY <1>2 DEF FinishEscaped, PipelineGood, LessonGood
  <2> QED
    BY <1>2, <2>1, EndGood DEF FinishEscaped, FinishRunRow
<1>3. CASE FailLesson
  <2>1. failure # "none"
    BY <1>3 DEF FailLesson, PipelineGood, LessonGood
  <2> QED
    BY <1>3, <2>1, EndGood DEF FailLesson
<1>4. CASE FinishFailed
  <2>1. failure # "none" /\ lesson.status = "failed" /\ history = "none"
    BY <1>4 DEF FinishFailed, PipelineGood, LessonGood
  <2> QED
    BY <1>4, <2>1, EndGood DEF FinishFailed, FinishRunRow
<1> QED
  BY <1>1, <1>2, <1>3, <1>4

LEMMA PipelineStepGood == PipelineGood /\ [PipelineNext]_pipelineVars => PipelineGood'
<1>1. PipelineGood /\ UNCHANGED pipelineVars => PipelineGood'
  BY DEF pipelineVars, PipelineGood, PipelineTyped, FieldsGood, StepsGood, LessonGood, GraphGood, RunGood, Unrecorded,
         Fully, Closed, Grounded, GraphNodes, Named, Key
<1> QED
  BY <1>1, FetchNodeGood, ExtractionNodeGood, SynthesisNodeGood, CitationNodeGood, RelevanceNodeGood,
     UpdateLessonGood, PersistGraphGood, RecordHistoryGood, EndStepsGood DEF PipelineNext

LEMMA PipelineParts == PipelineGood => PipelineTypeOK /\ PipelineInv
<1> SUFFICES ASSUME PipelineGood PROVE PipelineTypeOK /\ PipelineInv
  OBVIOUS
<1>1. PipelineTypeOK
  BY DEF PipelineGood, PipelineTyped, LessonGood, GraphGood, RunGood, PipelineTypeOK, FieldRow, StepNames
<1>2. StepsTellTheRun
  <2>1. ASSUME NEW s \in StepNames, steps[s] # "none", NEW b \in Before(s) \ {"fetch"}
        PROVE  steps[b] # "failed"
    <3>1. b \in StepNames
      BY <2>1 DEF Before, StepNames
    <3>2. b = failure => steps[s] = "none"
      BY <2>1 DEF PipelineGood, StepsGood, Before, StepNames
    <3> QED
      BY <2>1, <3>1, <3>2 DEF PipelineGood, StepsGood
  <2>2. run.status = "complete" =>
          /\ lesson.status = "complete" /\ history = "complete"
          /\ \A s \in StepNames \ {"fetch"} : steps[s] # "failed"
    BY DEF PipelineGood, StepsGood, RunGood, StepNames
  <2>3. run.status = "failed" =>
          /\ run.failed # "none" /\ steps[run.failed] # "complete"
          /\ \A s \in StepNames : run.failed \in Before(s) => steps[s] = "none"
          /\ history # "complete"
          /\ lesson.status = "complete" => run.failed = "persistence"
    BY DEF PipelineGood, StepsGood, RunGood
  <2> QED
    BY <2>1, <2>2, <2>3 DEF StepsTellTheRun
<1>3. LessonIsWhole
  BY DEF PipelineGood, LessonGood, GraphGood, Fully, Closed, LessonIsWhole
<1> QED
  BY <1>1, <1>2, <1>3 DEF PipelineInv

\* The rows that were written of a run tell what became of it, whichever of them
\* were lost, and what is shown of a lesson is whole.
THEOREM LessonsAreWhole == PipelineSpec => []PipelineInv
<1> QED
  BY PipelineInitGood, PipelineStepGood, PipelineParts, PTL DEF PipelineSpec

(***************************************************************************)
(* Recaps of learning                                                      *)
(***************************************************************************)

LessonRow == [born: 0 .. MaxHour, done: BOOLEAN, touched: 0 .. MaxHour]
RecapRow(D, N) == [week: Int, data: D, narrative: N, status: {"none", "complete", "failed"},
                   settled: BOOLEAN, heard: BOOLEAN]
MakerRow(D, N) == [pc: {"rest", "narrated"}, held: D, words: N]
TellerRow(P) == [pc: {"rest", "look", "speak", "write", "mark"}, row: Nat, held: P,
                 fine: BOOLEAN, linked: BOOLEAN, alone: BOOLEAN]

\* Measures are of D, narratives of N, and sounds of P.
LearningTyped(D, N, P) ==
  /\ hour \in 0 .. MaxHour /\ work \in 0 .. MaxWork
  /\ learned \in Seq(LessonRow) /\ Len(learned) <= MaxLessons
  /\ NoRecap \in D /\ NoRecap \in N /\ Silence \in P /\ Cut \in P
  /\ recaps \in Seq(RecapRow(D, N))
  /\ makers \in [Makers -> MakerRow(D, N)]
  /\ tellers \in [Tellers -> TellerRow(P)]
  /\ speech \in Seq(P) /\ Len(speech) = Len(recaps)

\* A measure and its narrative, of lessons that were there.
MeasureFits(d, w) ==
  /\ d.at \in 0 .. hour
  /\ \A l \in d.done \cup d.open : l \in Known /\ learned[l].born <= d.at /\ learned[l].touched >= Since(d.at)
  /\ d.themes \subseteq DOMAIN d.concepts /\ \A c \in d.themes : d.concepts[c] > 1
  /\ (w.of = "week" => w = d)
  /\ (w.of = "count" => w.lessons = Cardinality(d.done) /\ w.focus \subseteq DOMAIN d.concepts)

LessonFits(l) == learned[l].born <= learned[l].touched /\ learned[l].touched <= hour
MakerFits(m) == makers[m].pc = "narrated" => MeasureFits(makers[m].held, makers[m].words)
RecapFits(i) ==
  /\ MeasureFits(recaps[i].data, recaps[i].narrative)
  /\ recaps[i].week = Day(Since(recaps[i].data.at))
  /\ (recaps[i].status # "none" => recaps[i].heard)
TellerFits(t) == tellers[t].row \in Kept \cup {0} /\ (tellers[t].pc = "rest" <=> tellers[t].row = 0)

\* Of a settled recap one request at the most is at work, on the sound of what it shows.
Whole(i) == speech[i] \in {Silence, ReadAloud(i)}
Working(t, i) ==
  /\ tellers[t].held = ReadAloud(i)
  /\ (tellers[t].pc = "look" =>
        Whole(i) /\ tellers[t].linked /\ (recaps[i].status = "complete" => speech[i] = ReadAloud(i)))
  /\ (tellers[t].pc = "speak" => speech[i] = Silence /\ tellers[t].linked)
  /\ (tellers[t].pc = "write" => speech[i] = Cut /\ tellers[t].linked /\ tellers[t].alone)
  /\ (tellers[t].pc = "mark" => Whole(i) /\ (tellers[t].fine => speech[i] = ReadAloud(i)))
SoundFits(i) ==
  recaps[i].settled =>
    /\ \A s, t \in Tellers : tellers[s].row = i /\ tellers[t].row = i => s = t
    /\ \A t \in Tellers : tellers[t].row = i => Working(t, i)
    /\ (~AskedFor(i) => Whole(i) /\ (recaps[i].status = "complete" => speech[i] = ReadAloud(i)))

WeeksDiffer == \A i, j \in Kept : recaps[i].week = recaps[j].week => i = j

RecapsGood ==
  /\ \E D, N, P : LearningTyped(D, N, P)
  /\ \A l \in Known : LessonFits(l)
  /\ \A m \in Makers : MakerFits(m)
  /\ \A i \in Kept : RecapFits(i) /\ SoundFits(i)
  /\ \A t \in Tellers : TellerFits(t)
  /\ WeeksDiffer

LEMMA RecapsBounds ==
  /\ LookBack \in Nat \ {0} /\ MaxConcepts \in Nat /\ MaxLessons \in Nat /\ MaxHour \in Nat /\ MaxWork \in Nat
  BY RecapsAssumption

LEMMA RecapsInitGood == RecapsInit => RecapsGood
<1> SUFFICES ASSUME RecapsInit PROVE RecapsGood
  OBVIOUS
<1> DEFINE D == {NoRecap}
           N == {NoRecap}
           P == {Silence, Cut}
<1>1. LearningTyped(D, N, P)
  <2>1. AtRest \in MakerRow(D, N)
    BY DEF AtRest, MakerRow
  <2>2. Unasked \in TellerRow(P)
    BY DEF Unasked, TellerRow
  <2> QED
    BY <2>1, <2>2, RecapsBounds DEF RecapsInit, LearningTyped
<1>2. Known = {} /\ Kept = {}
  BY DEF RecapsInit, Known, Kept
<1>3. \A m \in Makers : MakerFits(m)
  BY DEF RecapsInit, MakerFits, AtRest
<1>4. \A t \in Tellers : TellerFits(t)
  BY DEF RecapsInit, TellerFits, Unasked
<1> QED
  BY <1>1, <1>2, <1>3, <1>4 DEF RecapsGood, WeeksDiffer

LEMMA LearningTypes ==
  ASSUME RecapsGood
  PROVE  /\ Len(learned) \in Nat /\ Known = 1 .. Len(learned) /\ Len(recaps) \in Nat /\ Kept = 1 .. Len(recaps)
         /\ hour \in Nat /\ \A l \in Known : learned[l] \in LessonRow /\ LessonFits(l)
         /\ \A i \in Kept : RecapFits(i) /\ SoundFits(i)
         /\ \A m \in Makers : MakerFits(m)
         /\ \A t \in Tellers : TellerFits(t)
<1>1. Len(learned) \in Nat /\ Len(recaps) \in Nat /\ hour \in Nat /\ \A l \in Known : learned[l] \in LessonRow
  BY RecapsBounds DEF RecapsGood, LearningTyped, Known
<1> QED
  BY <1>1 DEF RecapsGood, Known, Kept

\* What is said of the sound of a recap stays as long as nobody touches it.
LEMMA SoundStays ==
  ASSUME RecapsGood, NEW i \in Kept, i # 0, recaps'[i] = recaps[i], speech'[i] = speech[i],
         \A t \in Tellers : tellers'[t] = tellers[t] \/ (tellers[t].row # i /\ tellers'[t].row # i)
  PROVE  SoundFits(i)'
<1>1. SoundFits(i)
  BY LearningTypes
<1>2. ReadAloud(i)' = ReadAloud(i)
  BY DEF ReadAloud
<1>3. (Whole(i)' <=> Whole(i)) /\ (AskedFor(i)' <=> AskedFor(i))
  BY <1>2 DEF Whole, AskedFor
<1>4. \A t \in Tellers : tellers'[t].row = i => tellers'[t] = tellers[t]
  OBVIOUS
<1>5. \A t \in Tellers : tellers'[t].row = i => (Working(t, i)' <=> Working(t, i))
  BY <1>2, <1>3, <1>4 DEF Working
<1>6. \A t \in Tellers : tellers'[t].row = i <=> tellers[t].row = i
  OBVIOUS
<1> QED
  BY <1>1, <1>2, <1>3, <1>5, <1>6 DEF SoundFits

-----------------------------------------------------------------------------
(* Lessons                                                                 *)

\* What a measure says stays true while the hour passes and lessons are touched.
LEMMA MeasureStays ==
  ASSUME RecapsGood, NEW d, NEW w, MeasureFits(d, w), hour' \in Nat, hour <= hour', Known \subseteq Known',
         \A l \in Known : learned'[l].born = learned[l].born /\ learned'[l].touched \in Nat
                          /\ learned[l].touched <= learned'[l].touched
  PROVE  MeasureFits(d, w)'
<1>1. d.at \in 0 .. hour' /\ d.at \in Nat
  BY LearningTypes DEF MeasureFits
<1>2. Since(d.at)' = Since(d.at) /\ Since(d.at) \in Int
  BY <1>1, RecapsBounds DEF Since
<1>3. \A l \in d.done \cup d.open :
        l \in Known' /\ learned'[l].born <= d.at /\ learned'[l].touched >= Since(d.at)
  <2> TAKE l \in d.done \cup d.open
  <2>1. l \in Known /\ learned[l].born <= d.at /\ learned[l].touched >= Since(d.at) /\ learned[l] \in LessonRow
    BY LearningTypes DEF MeasureFits
  <2>2. learned[l].touched \in Nat
    BY <2>1 DEF LessonRow
  <2> QED
    BY <1>2, <2>1, <2>2
<1> QED
  BY <1>1, <1>2, <1>3 DEF MeasureFits

LEMMA LessonsMove ==
  ASSUME RecapsGood, HourPasses \/ AskForLesson \/ \E l \in Known : CompleteLesson(l)
  PROVE  /\ hour' \in 0 .. MaxHour /\ hour <= hour' /\ learned' \in Seq(LessonRow) /\ Len(learned') <= MaxLessons
         /\ Known \subseteq Known'
         /\ \A l \in Known : learned'[l].born = learned[l].born /\ learned'[l].touched \in Nat
                              /\ learned[l].touched <= learned'[l].touched
         /\ \A l \in Known' : LessonFits(l)'
<1>0. /\ hour \in 0 .. MaxHour /\ learned \in Seq(LessonRow) /\ Len(learned) <= MaxLessons /\ hour \in Nat
      /\ \A l \in Known : learned[l] \in LessonRow /\ LessonFits(l)
  BY LearningTypes DEF RecapsGood, LearningTyped
<1>1. CASE HourPasses
  <2>1. learned' = learned /\ hour' = hour + 1 /\ hour' <= MaxHour /\ Known' = Known
    BY <1>0, <1>1, RecapsBounds DEF HourPasses, Known
  <2> QED
    BY <1>0, <2>1, RecapsBounds DEF LessonRow, LessonFits
<1>2. CASE AskForLesson
  <2>n. PICK n \in Nat : n = Len(learned) + 1
    BY <1>0
  <2> DEFINE row == [born |-> hour, done |-> FALSE, touched |-> hour]
  <2>1. row \in LessonRow /\ row.born = hour /\ row.touched = hour
    BY <1>0 DEF LessonRow
  <2>2. hour' = hour /\ learned' = Append(learned, row) /\ Len(learned) < MaxLessons
    BY <1>2 DEF AskForLesson
  <2> HIDE DEF row
  <2>3. /\ learned' \in Seq(LessonRow) /\ Len(learned') = n /\ learned'[n] = row
        /\ \A l \in 1 .. Len(learned) : learned'[l] = learned[l]
    BY <1>0, <2>n, <2>1, <2>2, AppendProperties
  <2>4. Known' = Known \cup {n}
    BY <1>0, <2>n, <2>3 DEF Known
  <2>5. \A l \in Known' : LessonFits(l)'
    BY <1>0, <2>1, <2>2, <2>3, <2>4 DEF LessonFits, Known
  <2>6. Len(learned') <= MaxLessons
    BY <1>0, <2>n, <2>2, <2>3, RecapsBounds
  <2>7. ASSUME NEW l \in Known
        PROVE  /\ learned'[l].born = learned[l].born /\ learned'[l].touched \in Nat
               /\ learned[l].touched <= learned'[l].touched
    <3>1. learned'[l] = learned[l]
      BY <2>3, <2>7 DEF Known
    <3>2. learned[l] \in LessonRow
      BY <1>0, <2>7
    <3>3. learned[l].touched \in Nat
      BY <1>0, <3>2 DEF LessonRow
    <3> QED
      BY <3>1, <3>3
  <2>8. hour' \in 0 .. MaxHour /\ hour <= hour' /\ Known \subseteq Known'
    BY <1>0, <2>2, <2>4
  <2> QED
    BY <2>3, <2>5, <2>6, <2>7, <2>8
<1>3. ASSUME NEW k \in Known, CompleteLesson(k)
      PROVE  /\ hour' = hour /\ learned' \in Seq(LessonRow) /\ Len(learned') = Len(learned)
             /\ learned'[k].born = learned[k].born /\ learned'[k].touched = hour
             /\ \A l \in Known \ {k} : learned'[l] = learned[l]
  <2>1. PICK row : row = [learned[k] EXCEPT !.done = TRUE, !.touched = hour]
    OBVIOUS
  <2>2. row \in LessonRow /\ row.born = learned[k].born /\ row.touched = hour
    BY <1>0, <2>1 DEF LessonRow
  <2>3. hour' = hour /\ learned' = [learned EXCEPT ![k] = row]
    BY <1>3, <2>1 DEF CompleteLesson
  <2>4. k \in 1 .. Len(learned)
    BY DEF Known
  <2>5. /\ learned' \in Seq(LessonRow) /\ Len(learned') = Len(learned) /\ learned'[k] = row
        /\ \A l \in 1 .. Len(learned) : l # k => learned'[l] = learned[l]
    BY <1>0, <2>2, <2>3, <2>4, ExceptSeq
  <2> QED
    BY <2>2, <2>3, <2>5 DEF Known
<1>4. CASE \E l \in Known : CompleteLesson(l)
  <2>1. PICK k \in Known : CompleteLesson(k)
    BY <1>4
  <2>2. /\ hour' = hour /\ learned' \in Seq(LessonRow) /\ Len(learned') = Len(learned)
        /\ learned'[k].born = learned[k].born /\ learned'[k].touched = hour
        /\ \A l \in Known \ {k} : learned'[l] = learned[l]
    BY <1>3, <2>1
  <2>3. Known' = Known
    BY <2>2 DEF Known
  <2>4. ASSUME NEW l \in Known
        PROVE  /\ learned'[l].born = learned[l].born /\ learned'[l].touched \in Nat
               /\ learned[l].touched <= learned'[l].touched /\ LessonFits(l)'
    <3>1. learned[l].born \in Nat /\ learned[l].touched \in Nat /\ learned[l].born <= learned[l].touched
          /\ learned[l].touched <= hour
      BY <1>0 DEF LessonRow, LessonFits
    <3>2. CASE l = k
      BY <1>0, <2>2, <3>1, <3>2 DEF LessonFits
    <3>3. CASE l # k
      BY <1>0, <2>2, <3>1, <3>3 DEF LessonFits
    <3> QED
      BY <3>2, <3>3
  <2> QED
    BY <1>0, <2>2, <2>3, <2>4
<1> QED
  BY <1>1, <1>2, <1>4

\* What is said of recaps and of the sound does not depend on the hour.
LEMMA LessonStepGood ==
  ASSUME RecapsGood, HourPasses \/ AskForLesson \/ \E l \in Known : CompleteLesson(l)
  PROVE  RecapsGood'
<1>1. recaps' = recaps /\ makers' = makers /\ tellers' = tellers /\ speech' = speech /\ work' = work
      /\ Kept' = Kept
  BY DEF HourPasses, AskForLesson, CompleteLesson, Kept
<1>2. /\ hour' \in 0 .. MaxHour /\ hour <= hour' /\ learned' \in Seq(LessonRow) /\ Len(learned') <= MaxLessons
      /\ Known \subseteq Known'
      /\ \A l \in Known : learned'[l].born = learned[l].born /\ learned'[l].touched \in Nat
                           /\ learned[l].touched <= learned'[l].touched
      /\ \A l \in Known' : LessonFits(l)'
  BY LessonsMove
<1>3. \A d, w : MeasureFits(d, w) => MeasureFits(d, w)'
  BY <1>2, RecapsBounds, MeasureStays
<1>4. \E D, N, P : LearningTyped(D, N, P)'
  <2>1. PICK D, N, P : LearningTyped(D, N, P)
    BY DEF RecapsGood
  <2>2. LearningTyped(D, N, P)'
    BY <1>1, <1>2, <2>1 DEF LearningTyped
  <2> QED
    BY <2>2
<1>5. \A m \in Makers : MakerFits(m)'
  BY <1>1, <1>3, LearningTypes DEF MakerFits
<1>6. \A i \in Kept : RecapFits(i)'
  <2> TAKE i \in Kept
  <2>1. Day(Since(recaps[i].data.at))' = Day(Since(recaps[i].data.at))
    BY <1>1 DEF Day, Since
  <2> QED
    BY <1>1, <1>3, <2>1, LearningTypes DEF RecapFits
<1>7. \A i \in Kept : SoundFits(i)'
  BY <1>1, LearningTypes, SoundStays
<1>8. (\A t \in Tellers : TellerFits(t)') /\ WeeksDiffer'
  BY <1>1, LearningTypes DEF TellerFits, WeeksDiffer, RecapsGood
<1> QED
  BY <1>1, <1>2, <1>4, <1>5, <1>6, <1>7, <1>8 DEF RecapsGood

-----------------------------------------------------------------------------
(* The measure                                                             *)

LEMMA AssembledFits ==
  ASSUME RecapsGood PROVE MeasureFits(Assembled(hour), Narrative(Assembled(hour)))
<1>d. PICK d : d = Assembled(hour)
  OBVIOUS
<1>1. /\ d.of = "week" /\ d.at = hour /\ d.themes = RepeatedThemes(d.done) /\ d.concepts = TopConcepts(d.done)
      /\ d.done \cup d.open = {l \in Known : InWeek(l, hour)}
  BY <1>d DEF Assembled
<1>2. \A l \in d.done \cup d.open : l \in Known /\ learned[l].born <= d.at /\ learned[l].touched >= Since(d.at)
  <2> TAKE l \in d.done \cup d.open
  <2>1. l \in Known /\ InWeek(l, hour) /\ learned[l] \in LessonRow /\ LessonFits(l) /\ hour \in Nat
    BY <1>1, LearningTypes
  <2>2. Since(hour) \in Int
    BY <2>1, RecapsBounds DEF Since
  <2> QED
    BY <1>1, <2>1, <2>2 DEF InWeek, LessonRow, LessonFits
<1>3. d.themes \subseteq DOMAIN d.concepts /\ \A c \in d.themes : d.concepts[c] > 1
  BY <1>1 DEF RepeatedThemes
<1>4. PICK w : w = Narrative(d)
  OBVIOUS
<1>5. (w.of = "week" => w = d) /\ (w.of = "count" => w.lessons = Cardinality(d.done) /\ w.focus \subseteq DOMAIN d.concepts)
  <2>1. CASE hour \in Outages
    BY <1>4, <2>1 DEF Narrative, Sentence
  <2>2. CASE hour \notin Outages
    BY <1>1, <1>4, <2>2 DEF Narrative
  <2> QED
    BY <2>1, <2>2
<1>6. d.at \in 0 .. hour
  BY <1>1, LearningTypes
<1> QED
  BY <1>d, <1>2, <1>3, <1>4, <1>5, <1>6 DEF MeasureFits

LEMMA SameState ==
  ASSUME hour' = hour, learned' = learned
  PROVE  /\ \A d, w : MeasureFits(d, w)' <=> MeasureFits(d, w)
         /\ Known' = Known /\ \A l : LessonFits(l)' <=> LessonFits(l)
         /\ \A h : Day(Since(h))' = Day(Since(h))
BY DEF MeasureFits, Known, LessonFits, Day, Since

\* A step that leaves lessons, recaps, sound and requests for it as they are.
LEMMA MakerStepGood ==
  ASSUME RecapsGood, NEW m \in Makers, Measure(m) \/ LoseLessonRecap(m)
  PROVE  RecapsGood'
<1>1. /\ hour' = hour /\ learned' = learned /\ recaps' = recaps /\ tellers' = tellers /\ speech' = speech
      /\ Kept' = Kept /\ Known' = Known
  BY DEF Measure, LoseLessonRecap, Kept, Known
<1>p. PICK D, N, P : LearningTyped(D, N, P)
  BY DEF RecapsGood
<1>d. PICK d : d = Assembled(hour)
  OBVIOUS
<1>w. PICK w : w = Narrative(d)
  OBVIOUS
<1> DEFINE D1 == D \cup {d}
           N1 == N \cup {w}
<1>2. PICK row \in MakerRow(D1, N1) :
        /\ makers' = [makers EXCEPT ![m] = row]
        /\ row.pc = "narrated" => MeasureFits(row.held, row.words)
  <2>1. CASE Measure(m)
    <3> DEFINE r == [pc |-> "narrated", held |-> d, words |-> w]
    <3>1. r \in MakerRow(D1, N1) /\ r.held = d /\ r.words = w
      BY DEF MakerRow
    <3>2. makers' = [makers EXCEPT ![m] = r]
      BY <2>1, <1>d, <1>w DEF Measure
    <3> QED
      BY <1>d, <1>w, <3>1, <3>2, AssembledFits
  <2>2. CASE LoseLessonRecap(m)
    <3>1. AtRest \in MakerRow(D1, N1) /\ AtRest.pc = "rest"
      BY <1>p DEF MakerRow, AtRest, LearningTyped
    <3> QED
      BY <2>2, <3>1 DEF LoseLessonRecap
  <2> QED
    BY <2>1, <2>2
<1>3. work' \in 0 .. MaxWork
  <2>1. work \in 0 .. MaxWork
    BY <1>p DEF LearningTyped
  <2> QED
    BY <2>1, RecapsBounds DEF Measure, LoseLessonRecap
<1>4. MakerRow(D, N) \subseteq MakerRow(D1, N1) /\ RecapRow(D, N) \subseteq RecapRow(D1, N1)
  BY DEF MakerRow, RecapRow
<1>5. recaps \in Seq(RecapRow(D1, N1))
  BY <1>p, <1>4, SeqMonotonic DEF LearningTyped
<1>6. makers \in [Makers -> MakerRow(D1, N1)]
  BY <1>p, <1>4 DEF LearningTyped
<1>7. LearningTyped(D1, N1, P)'
  BY <1>p, <1>1, <1>2, <1>3, <1>5, <1>6 DEF LearningTyped
<1>8. \A k \in Makers : MakerFits(k)'
  BY <1>1, <1>2, <1>6, SameState, LearningTypes DEF MakerFits
<1>9. \A i \in Kept : RecapFits(i)'
  BY <1>1, SameState, LearningTypes DEF RecapFits
<1>10. \A i \in Kept : SoundFits(i)'
  BY <1>1, LearningTypes, SoundStays
<1>11. (\A t \in Tellers : TellerFits(t)') /\ WeeksDiffer' /\ \A l \in Known : LessonFits(l)'
  BY <1>1, SameState, LearningTypes DEF TellerFits, WeeksDiffer, RecapsGood
<1> QED
  BY <1>1, <1>7, <1>8, <1>9, <1>10, <1>11 DEF RecapsGood

-----------------------------------------------------------------------------
(* A recap is saved                                                        *)

LEMMA SaveGood ==
  ASSUME RecapsGood, NEW m \in Makers, SaveLessonRecap(m)
  PROVE  RecapsGood'
<1>1. hour' = hour /\ learned' = learned /\ tellers' = tellers /\ work' = work /\ makers[m].pc = "narrated"
      /\ makers' = [makers EXCEPT ![m] = AtRest]
  BY DEF SaveLessonRecap
<1>p. PICK D, N, P : LearningTyped(D, N, P)
  BY DEF RecapsGood
<1>d. PICK d : d = makers[m].held
  OBVIOUS
<1>w. PICK w : w = makers[m].words
  OBVIOUS
<1>k. PICK week \in Int : week = WeekOf(d) /\ week = Day(Since(d.at))
  <2>1. d.at \in Int
    BY <1>1, <1>d, LearningTypes DEF MakerFits, MeasureFits
  <2> QED
    BY <2>1, RecapsBounds DEF WeekOf, Day, Since
<1>2. d \in D /\ w \in N /\ MeasureFits(d, w)
  BY <1>p, <1>1, <1>d, <1>w, LearningTypes DEF LearningTyped, MakerRow, MakerFits
<1>h. PICK there : there = {i \in Kept : recaps[i].week = week}
  OBVIOUS
<1>r. PICK row : row = Row(d, w)
  OBVIOUS
<1>3. /\ row \in RecapRow(D, N) /\ row.week = week /\ row.data = d /\ row.narrative = w /\ row.status = "none"
      /\ row.settled = TRUE /\ row.heard = FALSE
  BY <1>k, <1>2, <1>r DEF Row, RecapRow
<1>4. /\ recaps \in Seq(RecapRow(D, N)) /\ speech \in Seq(P) /\ Len(speech) = Len(recaps) /\ Len(recaps) \in Nat
      /\ Kept = 1 .. Len(recaps) /\ makers \in [Makers -> MakerRow(D, N)] /\ tellers \in [Tellers -> TellerRow(P)]
      /\ Silence \in P
  BY <1>p, LearningTypes DEF LearningTyped
<1>5. /\ recaps' \in Seq(RecapRow(D, N)) /\ speech' \in Seq(P) /\ Len(speech') = Len(recaps')
      /\ (\A i \in Kept' : RecapFits(i)') /\ (\A i \in Kept' : SoundFits(i)') /\ WeeksDiffer'
      /\ Kept \subseteq Kept'
  <2>1. CASE there = {}
    <3>1. recaps' = Append(recaps, row) /\ speech' = Append(speech, Silence)
      BY <1>d, <1>w, <1>k, <1>h, <1>r, <2>1 DEF SaveLessonRecap
    <3>n. PICK n \in Nat : n = Len(recaps) + 1
      BY <1>4
    <3>2. /\ recaps' \in Seq(RecapRow(D, N)) /\ Len(recaps') = n /\ recaps'[n] = row
          /\ \A i \in 1 .. Len(recaps) : recaps'[i] = recaps[i]
      BY <1>3, <1>4, <3>1, <3>n, AppendProperties
    <3>3. /\ speech' \in Seq(P) /\ Len(speech') = n /\ speech'[n] = Silence
          /\ \A i \in 1 .. Len(recaps) : speech'[i] = speech[i]
      BY <1>4, <3>1, <3>n, AppendProperties
    <3>4. Kept' = Kept \cup {n} /\ n \notin Kept /\ n # 0
      BY <1>4, <3>n, <3>2 DEF Kept
    <3>5. ASSUME NEW i \in Kept' PROVE RecapFits(i)' /\ SoundFits(i)'
      <4>1. CASE i = n
        <5>1. \A t \in Tellers : tellers[t].row # n
          BY <3>4, LearningTypes DEF TellerFits
        <5>2. SoundFits(n)'
          BY <1>1, <1>3, <3>2, <3>3, <5>1 DEF SoundFits, Whole
        <5>3. RecapFits(n)'
          BY <1>1, <1>k, <1>2, <1>3, <3>2, SameState DEF RecapFits
        <5> QED
          BY <4>1, <5>2, <5>3
      <4>2. CASE i \in Kept
        <5>1. recaps'[i] = recaps[i] /\ speech'[i] = speech[i]
          BY <1>4, <3>2, <3>3, <4>2
        <5>2. SoundFits(i)'
          BY <1>1, <1>4, <4>2, <5>1, SoundStays
        <5>3. RecapFits(i)'
          BY <1>1, <4>2, <5>1, SameState, LearningTypes DEF RecapFits
        <5> QED
          BY <5>2, <5>3
      <4> QED
        BY <3>4, <4>1, <4>2
    <3>6. WeeksDiffer'
      <4>1. \A i \in Kept : recaps'[i] = recaps[i] /\ recaps[i].week # week
        BY <1>4, <1>h, <2>1, <3>2
      <4> QED
        BY <1>3, <3>2, <3>4, <4>1 DEF WeeksDiffer, RecapsGood
    <3> QED
      BY <3>2, <3>3, <3>4, <3>5, <3>6
  <2>2. CASE there # {}
    <3>1. /\ recaps' = [i \in Kept |-> IF i \in there THEN Saved(i, d, w) ELSE recaps[i]]
          /\ speech' = speech
      BY <1>d, <1>w, <1>k, <1>h, <2>2 DEF SaveLessonRecap
    <3>2. ASSUME NEW i \in Kept
          PROVE  /\ Saved(i, d, w) \in RecapRow(D, N) /\ Saved(i, d, w).week = week /\ Saved(i, d, w).data = d
                 /\ Saved(i, d, w).narrative = w /\ Saved(i, d, w).status = "none"
                 /\ (Saved(i, d, w).settled => speech[i] = Silence /\ ~AskedFor(i))
      <4>1. PICK s \in BOOLEAN : s = (speech[i] = Silence /\ ~AskedFor(i))
        OBVIOUS
      <4>2. PICK r : r = [row EXCEPT !.settled = s]
        OBVIOUS
      <4>3. /\ r \in RecapRow(D, N) /\ r.week = week /\ r.data = d /\ r.narrative = w /\ r.status = "none" /\ r.settled = s
        BY <1>3, <4>2 DEF RecapRow
      <4>4. Saved(i, d, w) = r
        BY <1>r, <4>1, <4>2 DEF Saved
      <4> QED
        BY <4>1, <4>3, <4>4
    <3>3. /\ \A i \in Kept : recaps'[i] \in RecapRow(D, N)
          /\ \A i \in Kept \ there : recaps'[i] = recaps[i]
          /\ \A i \in there : i \in Kept /\ recaps[i].week = week /\ recaps'[i] = Saved(i, d, w)
      BY <1>4, <1>h, <3>1, <3>2
    <3>4. recaps' \in Seq(RecapRow(D, N)) /\ Len(recaps') = Len(recaps) /\ Kept' = Kept
      <4>1. recaps' \in [1 .. Len(recaps) -> RecapRow(D, N)]
        BY <1>4, <3>1, <3>3
      <4> QED
        BY <1>4, <4>1 DEF Kept
    <3>5. ASSUME NEW i \in Kept PROVE RecapFits(i)' /\ SoundFits(i)' /\ recaps'[i].week = recaps[i].week
      <4>1. CASE i \in there
        <5>1. SoundFits(i)'
          <6> SUFFICES ASSUME recaps'[i].settled PROVE SoundFits(i)'
            BY DEF SoundFits
          <6>1. speech'[i] = Silence /\ (\A t \in Tellers : tellers'[t].row # i) /\ recaps'[i].status = "none"
            BY <1>1, <3>1, <3>2, <3>3, <4>1 DEF AskedFor
          <6> QED
            BY <6>1 DEF SoundFits, Whole
        <5>2. RecapFits(i)'
          BY <1>1, <1>k, <1>2, <3>2, <3>3, <4>1, SameState DEF RecapFits
        <5> QED
          BY <3>2, <3>3, <4>1, <5>1, <5>2
      <4>2. CASE i \notin there
        <5>1. recaps'[i] = recaps[i] /\ speech'[i] = speech[i]
          BY <3>1, <3>3, <4>2
        <5>2. SoundFits(i)'
          BY <1>1, <1>4, <5>1, SoundStays
        <5>3. RecapFits(i)'
          BY <1>1, <5>1, SameState, LearningTypes DEF RecapFits
        <5> QED
          BY <5>1, <5>2, <5>3
      <4> QED
        BY <4>1, <4>2
    <3>6. WeeksDiffer'
      BY <3>4, <3>5 DEF WeeksDiffer, RecapsGood
    <3> QED
      BY <1>4, <3>1, <3>4, <3>5, <3>6
  <2> QED
    BY <2>1, <2>2
<1>6. AtRest \in MakerRow(D, N)
  BY <1>p DEF MakerRow, AtRest, LearningTyped
<1>7. LearningTyped(D, N, P)'
  BY <1>p, <1>1, <1>5, <1>6 DEF LearningTyped
<1>8. \A k \in Makers : MakerFits(k)'
  <2>1. AtRest.pc # "narrated"
    BY DEF AtRest
  <2> QED
    BY <1>1, <1>4, <2>1, SameState, LearningTypes DEF MakerFits
<1>9. (\A t \in Tellers : TellerFits(t)') /\ Known' = Known /\ \A l \in Known : LessonFits(l)'
  BY <1>1, <1>5, SameState, LearningTypes DEF TellerFits
<1> QED
  BY <1>5, <1>7, <1>8, <1>9 DEF RecapsGood

-----------------------------------------------------------------------------
(* The sound                                                               *)

\* Who is at work on a settled recap is alone.
LEMMA OneAtWork ==
  ASSUME RecapsGood, NEW i \in Kept, recaps[i].settled, NEW t \in Tellers, tellers[t].row = i
  PROVE  Working(t, i) /\ \A s \in Tellers : tellers[s].row = i => s = t
BY LearningTypes DEF SoundFits

\* A step of requests for the sound of one recap, which leaves of it this row and
\* this sound.
RequestActs(i, D, N, P, P1, row, p) ==
  /\ LearningTyped(D, N, P) /\ P \subseteq P1 /\ i \in Kept
  /\ hour' = hour /\ learned' = learned /\ makers' = makers /\ work' \in 0 .. MaxWork
  /\ row \in RecapRow(D, N) /\ recaps' = [recaps EXCEPT ![i] = row]
  /\ row.week = recaps[i].week /\ row.data = recaps[i].data /\ row.narrative = recaps[i].narrative
  /\ (row.status # "none" => row.heard)
  /\ p \in P1 /\ speech' = [speech EXCEPT ![i] = p]
  /\ tellers' \in [Tellers -> TellerRow(P1)]
  /\ \A s \in Tellers : tellers'[s] = tellers[s] \/ (tellers[s].row \in {0, i} /\ tellers'[s].row \in {0, i})
  /\ \A s \in Tellers : tellers'[s].pc = "rest" <=> tellers'[s].row = 0

LEMMA RequestStep ==
  ASSUME RecapsGood, NEW i, NEW D, NEW N, NEW P, NEW P1, NEW row, NEW p, RequestActs(i, D, N, P, P1, row, p),
         recaps'[i] = row /\ speech'[i] = p /\ ReadAloud(i)' = ReadAloud(i) => SoundFits(i)'
  PROVE  RecapsGood'
<1> USE DEF RequestActs
<1>0. /\ recaps \in Seq(RecapRow(D, N)) /\ speech \in Seq(P1) /\ Len(speech) = Len(recaps) /\ Len(recaps) \in Nat
      /\ Kept = 1 .. Len(recaps) /\ i \in 1 .. Len(recaps)
  <2>1. Seq(P) \subseteq Seq(P1)
    BY SeqMonotonic
  <2> QED
    BY <2>1, LearningTypes DEF LearningTyped
<1>1. /\ recaps' \in Seq(RecapRow(D, N)) /\ Len(recaps') = Len(recaps) /\ recaps'[i] = row
      /\ \A j \in Kept \ {i} : recaps'[j] = recaps[j]
  BY <1>0, ExceptSeq
<1>2. /\ speech' \in Seq(P1) /\ Len(speech') = Len(recaps) /\ speech'[i] = p
      /\ \A j \in Kept \ {i} : speech'[j] = speech[j]
  BY <1>0, ExceptSeq
<1>3. Kept' = Kept /\ Known' = Known
  BY <1>1 DEF Kept, Known
<1>4. LearningTyped(D, N, P1)'
  BY <1>1, <1>2 DEF LearningTyped
<1>5. \A l \in Known : LessonFits(l)'
  BY SameState, LearningTypes
<1>6. \A m \in Makers : MakerFits(m)'
  BY SameState, LearningTypes DEF MakerFits
<1>7. \A j \in Kept : RecapFits(j)'
  <2> TAKE j \in Kept
  <2>1. RecapFits(j)
    BY LearningTypes
  <2>2. /\ recaps'[j].week = recaps[j].week /\ recaps'[j].data = recaps[j].data
        /\ recaps'[j].narrative = recaps[j].narrative /\ (recaps'[j].status # "none" => recaps'[j].heard)
    <3>1. CASE j = i
      BY <1>1, <3>1
    <3>2. CASE j # i
      BY <1>1, <2>1, <3>2 DEF RecapFits
    <3> QED
      BY <3>1, <3>2
  <2> QED
    BY <2>1, <2>2, SameState DEF RecapFits
<1>8. \A j \in Kept : SoundFits(j)'
  <2> TAKE j \in Kept
  <2>1. CASE j = i
    <3>1. ReadAloud(i)' = ReadAloud(i)
      BY <1>1 DEF ReadAloud
    <3> QED
      BY <1>1, <1>2, <2>1, <3>1
  <2>2. CASE j # i
    <3>1. j # 0 /\ recaps'[j] = recaps[j] /\ speech'[j] = speech[j]
      BY <1>0, <1>1, <1>2, <2>2
    <3>2. \A s \in Tellers : tellers'[s] = tellers[s] \/ (tellers[s].row # j /\ tellers'[s].row # j)
      BY <2>2, <3>1
    <3> QED
      BY <3>1, <3>2, SoundStays
  <2> QED
    BY <2>1, <2>2
<1>9. \A s \in Tellers : TellerFits(s)'
  BY <1>3, LearningTypes DEF TellerFits
<1>10. WeeksDiffer'
  <2>1. \A j \in Kept : recaps'[j].week = recaps[j].week
    BY <1>1
  <2> QED
    BY <1>3, <2>1 DEF WeeksDiffer, RecapsGood
<1> QED
  BY <1>3, <1>4, <1>5, <1>6, <1>7, <1>8, <1>9, <1>10 DEF RecapsGood

LEMMA AskGood ==
  ASSUME RecapsGood, NEW t \in Tellers, NEW i \in Kept, AskForSound(t, i)
  PROVE  RecapsGood'
<1>p. PICK D, N, P : LearningTyped(D, N, P)
  BY DEF RecapsGood
<1>0. recaps[i] \in RecapRow(D, N) /\ i \in Nat /\ i # 0 /\ RecapFits(i) /\ SoundFits(i)
      /\ i \in 1 .. Len(speech) /\ speech \in Seq(P) /\ tellers \in [Tellers -> TellerRow(P)]
      /\ tellers[t].row = 0 /\ tellers[t].pc = "rest"
  BY <1>p, LearningTypes DEF LearningTyped, Kept, TellerFits, AskForSound
<1>s. PICK s \in BOOLEAN : s = (recaps[i].settled /\ ~AskedFor(i))
  OBVIOUS
<1>r. PICK row : row = [recaps[i] EXCEPT !.settled = s]
  OBVIOUS
<1>1. /\ row \in RecapRow(D, N) /\ row.week = recaps[i].week /\ row.data = recaps[i].data
      /\ row.narrative = recaps[i].narrative /\ row.status = recaps[i].status /\ row.heard = recaps[i].heard
      /\ row.settled = s
  BY <1>0, <1>r DEF RecapRow
<1>x. PICK x : x = TextOf(i)
  OBVIOUS
<1> DEFINE P1 == P \cup {x}
<1>q. PICK q : q = [Unasked EXCEPT !.pc = "look", !.row = i, !.held = x]
  OBVIOUS
<1>2. q \in TellerRow(P1) /\ q.pc = "look" /\ q.row = i /\ q.held = x /\ q.linked = TRUE
  BY <1>0, <1>q DEF TellerRow, Unasked
<1>3. /\ recaps' = [recaps EXCEPT ![i] = row] /\ tellers' = [tellers EXCEPT ![t] = q] /\ speech' = speech
      /\ hour' = hour /\ learned' = learned /\ makers' = makers
  BY <1>s, <1>r, <1>x, <1>q DEF AskForSound
<1>4. work' \in 0 .. MaxWork
  <2>1. work \in 0 .. MaxWork
    BY <1>p DEF LearningTyped
  <2> QED
    BY <2>1, RecapsBounds DEF AskForSound
<1>y. PICK y \in P1 : y = speech[i]
  BY <1>0
<1>5. speech' = [speech EXCEPT ![i] = y]
  BY <1>0, <1>3, <1>y
<1>6. tellers'[t] = q /\ \A z \in Tellers \ {t} : tellers'[z] = tellers[z]
  BY <1>0, <1>3
<1>7. tellers' \in [Tellers -> TellerRow(P1)]
  <2>1. TellerRow(P) \subseteq TellerRow(P1)
    BY DEF TellerRow
  <2> QED
    BY <1>0, <1>2, <1>3, <2>1
<1>8. ASSUME recaps'[i] = row, speech'[i] = y, ReadAloud(i)' = ReadAloud(i) PROVE SoundFits(i)'
  <2> SUFFICES ASSUME s PROVE SoundFits(i)'
    BY <1>1, <1>8 DEF SoundFits
  <2>1. (\A z \in Tellers : tellers[z].row # i) /\ Whole(i) /\ (recaps[i].status = "complete" => speech[i] = ReadAloud(i))
    BY <1>0, <1>s DEF SoundFits, AskedFor
  <2>2. \A z \in Tellers : tellers'[z].row = i => z = t
    BY <1>6, <2>1
  <2>3. Working(t, i)'
    BY <1>1, <1>2, <1>6, <1>8, <1>x, <1>y, <2>1 DEF Working, Whole, TextOf
  <2>4. AskedFor(i)'
    BY <1>2, <1>6 DEF AskedFor
  <2> QED
    BY <2>2, <2>3, <2>4 DEF SoundFits
<1>9. \A z \in Tellers : tellers'[z].pc = "rest" <=> tellers'[z].row = 0
  BY <1>0, <1>2, <1>6, LearningTypes DEF TellerFits
<1>10. \A z \in Tellers : tellers'[z] = tellers[z] \/ (tellers[z].row \in {0, i} /\ tellers'[z].row \in {0, i})
  BY <1>0, <1>2, <1>6
<1>11. row.status # "none" => row.heard
  BY <1>0, <1>1 DEF RecapFits
<1>12. P \subseteq P1
  OBVIOUS
<1> HIDE DEF P1
<1>13. RequestActs(i, D, N, P, P1, row, y)
  BY <1>p, <1>1, <1>3, <1>4, <1>5, <1>7, <1>9, <1>10, <1>11, <1>12, <1>0 DEF RequestActs
<1> QED
  BY <1>8, <1>13, RequestStep

\* A request that is at work takes its next step.
LEMMA WorkingTypes ==
  ASSUME RecapsGood, NEW D, NEW N, NEW P, LearningTyped(D, N, P), NEW t \in Tellers, tellers[t].pc # "rest",
         NEW i, i = tellers[t].row
  PROVE  /\ i \in Kept /\ i # 0 /\ recaps[i] \in RecapRow(D, N) /\ RecapFits(i) /\ SoundFits(i)
         /\ i \in 1 .. Len(speech) /\ speech \in Seq(P) /\ speech[i] \in P
         /\ tellers \in [Tellers -> TellerRow(P)] /\ tellers[t] \in TellerRow(P)
         /\ work \in 0 .. MaxWork /\ recaps = [recaps EXCEPT ![i] = recaps[i]] /\ speech = [speech EXCEPT ![i] = speech[i]]
         /\ Silence \in P /\ Cut \in P
<1>1. i \in Kept /\ Kept = 1 .. Len(recaps) /\ Len(recaps) \in Nat
  BY LearningTypes DEF TellerFits
<1>2. recaps \in Seq(RecapRow(D, N)) /\ speech \in Seq(P) /\ Len(speech) = Len(recaps)
      /\ tellers \in [Tellers -> TellerRow(P)] /\ work \in 0 .. MaxWork /\ Silence \in P /\ Cut \in P
  BY DEF LearningTyped
<1>3. recaps = [recaps EXCEPT ![i] = recaps[i]] /\ speech = [speech EXCEPT ![i] = speech[i]]
  BY <1>2
<1> QED
  BY <1>1, <1>2, <1>3, LearningTypes

\* One request takes a step that leaves it so, and leaves the others as they are.
OneActs(t, i, D, N, P, row, p, q) ==
  /\ LearningTyped(D, N, P) /\ tellers[t].pc # "rest" /\ i = tellers[t].row
  /\ hour' = hour /\ learned' = learned /\ makers' = makers /\ work' = work
  /\ row \in RecapRow(D, N) /\ recaps' = [recaps EXCEPT ![i] = row]
  /\ row.week = recaps[i].week /\ row.data = recaps[i].data /\ row.narrative = recaps[i].narrative
  /\ (row.status # "none" => row.heard) /\ (row.settled => recaps[i].settled)
  /\ p \in P /\ speech' = [speech EXCEPT ![i] = p]
  /\ q \in TellerRow(P) /\ (q.pc = "rest" <=> q.row = 0) /\ q.row \in {0, i}
  /\ tellers' \in [Tellers -> TellerRow(P)] /\ tellers'[t] = q
  /\ \A s \in Tellers \ {t} : tellers'[s] = tellers[s]
        \/ (tellers[s].row = i /\ tellers'[s].row = i /\ tellers'[s].pc = tellers[s].pc)

LEMMA OneRequestSteps ==
  ASSUME RecapsGood, NEW t \in Tellers, NEW i, NEW D, NEW N, NEW P, NEW row, NEW p, NEW q,
         OneActs(t, i, D, N, P, row, p, q),
         row.settled /\ q.row = i =>
           /\ q.held = ReadAloud(i)
           /\ (q.pc = "look" => p \in {Silence, ReadAloud(i)} /\ q.linked /\ (row.status = "complete" => p = ReadAloud(i)))
           /\ (q.pc = "speak" => p = Silence /\ q.linked)
           /\ (q.pc = "write" => p = Cut /\ q.linked /\ q.alone)
           /\ (q.pc = "mark" => p \in {Silence, ReadAloud(i)} /\ (q.fine => p = ReadAloud(i))),
         row.settled /\ q.row = 0 =>
           p \in {Silence, ReadAloud(i)} /\ (row.status = "complete" => p = ReadAloud(i))
  PROVE  RecapsGood'
<1> USE DEF OneActs
<1>0. i \in Kept /\ i # 0
  BY WorkingTypes
<1>1. ASSUME recaps'[i] = row, speech'[i] = p, ReadAloud(i)' = ReadAloud(i) PROVE SoundFits(i)'
  <2> SUFFICES ASSUME row.settled PROVE SoundFits(i)'
    BY <1>1 DEF SoundFits
  <2>1. \A s \in Tellers : tellers[s].row = i => s = t
    BY <1>0, OneAtWork
  <2>2. \A s \in Tellers \ {t} : tellers'[s].row # i
    BY <2>1
  <2>3. CASE q.row = i
    <3>1. Working(t, i)'
      BY <1>1, <2>3 DEF Working, Whole
    <3>2. AskedFor(i)'
      BY <2>3 DEF AskedFor
    <3> QED
      BY <2>2, <3>1, <3>2 DEF SoundFits
  <2>4. CASE q.row = 0
    <3>1. \A s \in Tellers : tellers'[s].row # i
      BY <1>0, <2>2, <2>4
    <3> QED
      BY <1>1, <2>4, <3>1 DEF SoundFits, Whole
  <2> QED
    BY <2>3, <2>4
<1>2. \A s \in Tellers : tellers'[s].pc = "rest" <=> tellers'[s].row = 0
  BY LearningTypes DEF TellerFits
<1>3. \A s \in Tellers : tellers'[s] = tellers[s] \/ (tellers[s].row \in {0, i} /\ tellers'[s].row \in {0, i})
  OBVIOUS
<1>4. work' \in 0 .. MaxWork /\ P \subseteq P
  BY WorkingTypes
<1> QED
  <2>1. RequestActs(i, D, N, P, P, row, p)
    BY <1>0, <1>2, <1>3, <1>4 DEF RequestActs
  <2> HIDE DEF OneActs
  <2> QED
    BY <1>1, <2>1, RequestStep

LEMMA LookGood ==
  ASSUME RecapsGood, NEW t \in Tellers, NEW force \in BOOLEAN, LookForSound(t, force)
  PROVE  RecapsGood'
<1>i. PICK i : i = tellers[t].row
  OBVIOUS
<1>p. PICK D, N, P : LearningTyped(D, N, P)
  BY DEF RecapsGood
<1>0. tellers[t].pc # "rest" /\ tellers[t].pc = "look"
  BY DEF LookForSound
<1>1. /\ i \in Kept /\ i # 0 /\ recaps[i] \in RecapRow(D, N) /\ RecapFits(i) /\ SoundFits(i)
      /\ i \in 1 .. Len(speech) /\ speech \in Seq(P) /\ speech[i] \in P
      /\ tellers \in [Tellers -> TellerRow(P)] /\ tellers[t] \in TellerRow(P)
      /\ recaps = [recaps EXCEPT ![i] = recaps[i]] /\ speech = [speech EXCEPT ![i] = speech[i]]
      /\ Silence \in P
  BY <1>i, <1>p, <1>0, WorkingTypes
<1>r. PICK row \in RecapRow(D, N) : row = recaps[i]
  BY <1>1
<1>x. PICK x \in P : x = IF force THEN Silence ELSE speech[i]
  BY <1>1
<1>q. PICK q : q = IF force \/ speech[i] = Silence THEN [tellers[t] EXCEPT !.pc = "speak"] ELSE ToMark(t, TRUE)
  OBVIOUS
<1>2. /\ q \in TellerRow(P) /\ q.row = i /\ q.held = tellers[t].held /\ q.linked = tellers[t].linked
      /\ q.pc \in {"speak", "mark"} /\ (q.pc = "speak" => x = Silence) /\ (q.pc = "mark" => x # Silence /\ x = speech[i])
  BY <1>1, <1>i, <1>x, <1>q DEF TellerRow, ToMark
<1>u. PICK u : u = IF force THEN [s \in Tellers |->
        IF s # t /\ tellers[s].row = i /\ tellers[s].pc = "write" THEN [tellers[s] EXCEPT !.linked = FALSE] ELSE tellers[s]]
        ELSE tellers
  OBVIOUS
<1>3. /\ u \in [Tellers -> TellerRow(P)]
      /\ \A s \in Tellers \ {t} : u[s] = tellers[s] \/ (tellers[s].row = i /\ u[s].row = i /\ u[s].pc = tellers[s].pc)
  <2>1. ASSUME NEW s \in Tellers
        PROVE  /\ [tellers[s] EXCEPT !.linked = FALSE] \in TellerRow(P)
               /\ [tellers[s] EXCEPT !.linked = FALSE].row = tellers[s].row
               /\ [tellers[s] EXCEPT !.linked = FALSE].pc = tellers[s].pc
    <3>1. tellers[s] \in TellerRow(P)
      BY <1>1
    <3> QED
      BY <3>1 DEF TellerRow
  <2> QED
    BY <1>1, <1>u, <2>1
<1>4. /\ tellers' = [u EXCEPT ![t] = q] /\ recaps' = recaps /\ speech' = [speech EXCEPT ![i] = x]
      /\ hour' = hour /\ learned' = learned /\ makers' = makers /\ work' = work
  BY <1>1, <1>i, <1>x, <1>q, <1>u DEF LookForSound
<1>5. /\ tellers' \in [Tellers -> TellerRow(P)] /\ tellers'[t] = q
      /\ \A s \in Tellers \ {t} : tellers'[s] = tellers[s] \/ (tellers[s].row = i /\ tellers'[s].row = i /\ tellers'[s].pc = tellers[s].pc)
  BY <1>2, <1>3, <1>4
<1>6. row.settled /\ q.row = i =>
           /\ q.held = ReadAloud(i)
           /\ (q.pc = "look" => x \in {Silence, ReadAloud(i)} /\ q.linked /\ (row.status = "complete" => x = ReadAloud(i)))
           /\ (q.pc = "speak" => x = Silence /\ q.linked)
           /\ (q.pc = "write" => x = Cut /\ q.linked /\ q.alone)
           /\ (q.pc = "mark" => x \in {Silence, ReadAloud(i)} /\ (q.fine => x = ReadAloud(i)))
  <2> SUFFICES ASSUME row.settled
        PROVE /\ q.held = ReadAloud(i) /\ q.linked
              /\ (q.pc = "mark" => x = ReadAloud(i))
    BY <1>2
  <2>1. Working(t, i)
    BY <1>1, <1>i, <1>r, OneAtWork
  <2> QED
    BY <1>0, <1>2, <2>1 DEF Working, Whole
<1>7. row.settled /\ q.row = 0 =>
           x \in {Silence, ReadAloud(i)} /\ (row.status = "complete" => x = ReadAloud(i))
  BY <1>1, <1>2
<1>8. /\ row.week = recaps[i].week /\ row.data = recaps[i].data /\ row.narrative = recaps[i].narrative
      /\ (row.status # "none" => row.heard) /\ (row.settled => recaps[i].settled)
      /\ recaps' = [recaps EXCEPT ![i] = row] /\ (q.pc = "rest" <=> q.row = 0) /\ q.row \in {0, i}
  BY <1>1, <1>2, <1>4, <1>r DEF RecapFits
<1>9. OneActs(t, i, D, N, P, row, x, q)
  BY <1>0, <1>p, <1>i, <1>2, <1>4, <1>5, <1>8 DEF OneActs
<1> QED
  BY <1>6, <1>7, <1>9, OneRequestSteps

LEMMA OpenGood ==
  ASSUME RecapsGood, NEW t \in Tellers, OpenSpeech(t)
  PROVE  RecapsGood'
<1>i. PICK i : i = tellers[t].row
  OBVIOUS
<1>p. PICK D, N, P : LearningTyped(D, N, P)
  BY DEF RecapsGood
<1>0. tellers[t].pc # "rest" /\ tellers[t].pc = "speak"
  BY DEF OpenSpeech
<1>1. /\ i \in Kept /\ i # 0 /\ recaps[i] \in RecapRow(D, N) /\ RecapFits(i) /\ SoundFits(i)
      /\ i \in 1 .. Len(speech) /\ speech \in Seq(P) /\ speech[i] \in P
      /\ tellers \in [Tellers -> TellerRow(P)] /\ tellers[t] \in TellerRow(P)
      /\ recaps = [recaps EXCEPT ![i] = recaps[i]] /\ Cut \in P
  BY <1>i, <1>p, <1>0, WorkingTypes
<1>r. PICK row \in RecapRow(D, N) : row = recaps[i]
  BY <1>1
<1>o. PICK others : others = {s \in Tellers \ {t} : tellers[s].row = tellers[t].row /\ tellers[s].pc = "write" /\ tellers[s].linked}
  OBVIOUS
<1>a. PICK a \in BOOLEAN : a = (others = {})
  OBVIOUS
<1>q. PICK q : q = [tellers[t] EXCEPT !.pc = "write", !.alone = a]
  OBVIOUS
<1>x. PICK x \in P : x = Cut
  BY <1>1
<1>2. /\ q \in TellerRow(P) /\ q.row = i /\ q.held = tellers[t].held /\ q.linked = tellers[t].linked
      /\ q.pc = "write" /\ q.alone = a
  BY <1>1, <1>i, <1>q DEF TellerRow
<1>4. /\ tellers' = [s \in Tellers |-> IF s = t THEN q ELSE IF s \in others THEN [tellers[s] EXCEPT !.alone = FALSE] ELSE tellers[s]]
      /\ recaps' = recaps /\ speech' = [speech EXCEPT ![i] = x]
      /\ hour' = hour /\ learned' = learned /\ makers' = makers /\ work' = work
  BY <1>i, <1>x, <1>o, <1>a, <1>q DEF OpenSpeech
<1>5. /\ tellers' \in [Tellers -> TellerRow(P)] /\ tellers'[t] = q
      /\ \A s \in Tellers \ {t} : tellers'[s] = tellers[s] \/ (tellers[s].row = i /\ tellers'[s].row = i /\ tellers'[s].pc = tellers[s].pc)
  <2>1. ASSUME NEW s \in Tellers
        PROVE  /\ [tellers[s] EXCEPT !.alone = FALSE] \in TellerRow(P)
               /\ [tellers[s] EXCEPT !.alone = FALSE].row = tellers[s].row
               /\ [tellers[s] EXCEPT !.alone = FALSE].pc = tellers[s].pc
    <3>1. tellers[s] \in TellerRow(P)
      BY <1>1
    <3> QED
      BY <3>1 DEF TellerRow
  <2>2. \A s \in others : tellers[s].row = i /\ s # t
    BY <1>i, <1>o
  <2> QED
    BY <1>1, <1>2, <1>4, <2>1, <2>2
<1>6. row.settled /\ q.row = i =>
           /\ q.held = ReadAloud(i)
           /\ (q.pc = "look" => x \in {Silence, ReadAloud(i)} /\ q.linked /\ (row.status = "complete" => x = ReadAloud(i)))
           /\ (q.pc = "speak" => x = Silence /\ q.linked)
           /\ (q.pc = "write" => x = Cut /\ q.linked /\ q.alone)
           /\ (q.pc = "mark" => x \in {Silence, ReadAloud(i)} /\ (q.fine => x = ReadAloud(i)))
  <2> SUFFICES ASSUME row.settled
        PROVE q.held = ReadAloud(i) /\ q.linked /\ q.alone
    BY <1>2, <1>x
  <2>1. Working(t, i) /\ \A s \in Tellers : tellers[s].row = i => s = t
    BY <1>1, <1>i, <1>r, OneAtWork
  <2>2. others = {}
    BY <1>i, <1>o, <2>1
  <2> QED
    BY <1>0, <1>2, <1>a, <2>1, <2>2 DEF Working
<1>7. row.settled /\ q.row = 0 =>
           x \in {Silence, ReadAloud(i)} /\ (row.status = "complete" => x = ReadAloud(i))
  BY <1>1, <1>2
<1>8. /\ row.week = recaps[i].week /\ row.data = recaps[i].data /\ row.narrative = recaps[i].narrative
      /\ (row.status # "none" => row.heard) /\ (row.settled => recaps[i].settled)
      /\ recaps' = [recaps EXCEPT ![i] = row] /\ (q.pc = "rest" <=> q.row = 0) /\ q.row \in {0, i}
  BY <1>1, <1>2, <1>4, <1>r DEF RecapFits
<1>9. OneActs(t, i, D, N, P, row, x, q)
  BY <1>0, <1>p, <1>i, <1>2, <1>4, <1>5, <1>8 DEF OneActs
<1> QED
  BY <1>6, <1>7, <1>9, OneRequestSteps

\* The sound is written, or fails; its outcome is marked, or the request is lost.
LEMMA SoundEndsGood ==
  ASSUME RecapsGood, NEW t \in Tellers, WriteSpeech(t) \/ SpeechFails(t) \/ MarkSound(t) \/ LoseTeller(t)
  PROVE  RecapsGood'
<1>i. PICK i : i = tellers[t].row
  OBVIOUS
<1>p. PICK D, N, P : LearningTyped(D, N, P)
  BY DEF RecapsGood
<1>0. tellers[t].pc # "rest"
  BY DEF WriteSpeech, SpeechFails, MarkSound, LoseTeller
<1>1. /\ i \in Kept /\ i # 0 /\ recaps[i] \in RecapRow(D, N) /\ RecapFits(i) /\ SoundFits(i)
      /\ i \in 1 .. Len(speech) /\ speech \in Seq(P) /\ speech[i] \in P
      /\ tellers \in [Tellers -> TellerRow(P)] /\ tellers[t] \in TellerRow(P)
      /\ recaps = [recaps EXCEPT ![i] = recaps[i]] /\ speech = [speech EXCEPT ![i] = speech[i]]
      /\ Silence \in P
  BY <1>i, <1>p, <1>0, WorkingTypes
<1>k. recaps[i].settled => Working(t, i)
  BY <1>1, <1>i, OneAtWork
<1>2. hour' = hour /\ learned' = learned /\ makers' = makers /\ work' = work
  BY DEF WriteSpeech, SpeechFails, MarkSound, LoseTeller
<1>3. PICK row \in RecapRow(D, N), x \in P, q \in TellerRow(P) :
        /\ recaps' = [recaps EXCEPT ![i] = row] /\ speech' = [speech EXCEPT ![i] = x] /\ tellers' = [tellers EXCEPT ![t] = q]
        /\ row.week = recaps[i].week /\ row.data = recaps[i].data /\ row.narrative = recaps[i].narrative
        /\ (row.status # "none" => row.heard) /\ (row.settled => recaps[i].settled)
        /\ (q.pc = "rest" <=> q.row = 0) /\ q.row \in {0, i} /\ q.pc \in {"rest", "mark"}
        /\ (row.settled /\ q.row = i => q.held = ReadAloud(i) /\ x \in {Silence, ReadAloud(i)} /\ (q.fine => x = ReadAloud(i)))
        /\ (row.settled /\ q.row = 0 => x \in {Silence, ReadAloud(i)} /\ (row.status = "complete" => x = ReadAloud(i)))
  <2>u. Unasked \in TellerRow(P) /\ Unasked.pc = "rest" /\ Unasked.row = 0
    BY <1>1 DEF Unasked, TellerRow
  <2>m. ASSUME NEW fine \in BOOLEAN
        PROVE  /\ ToMark(t, fine) \in TellerRow(P) /\ ToMark(t, fine).pc = "mark" /\ ToMark(t, fine).row = i
               /\ ToMark(t, fine).held = tellers[t].held /\ ToMark(t, fine).fine = fine
    BY <1>1, <1>i DEF ToMark, TellerRow
  <2>h. recaps[i].status # "none" => recaps[i].heard
    BY <1>1 DEF RecapFits
  <2>1. CASE WriteSpeech(t)
    <3>x. PICK x \in P : x = IF tellers[t].linked /\ tellers[t].alone THEN tellers[t].held ELSE speech[i]
      BY <1>1 DEF TellerRow
    <3>q. PICK q \in TellerRow(P) : q = ToMark(t, TRUE)
      BY <2>m
    <3>1. recaps' = [recaps EXCEPT ![i] = recaps[i]] /\ speech' = [speech EXCEPT ![i] = x] /\ tellers' = [tellers EXCEPT ![t] = q]
      BY <1>1, <1>i, <2>1, <3>x, <3>q DEF WriteSpeech
    <3>2. q.pc = "mark" /\ q.row = i /\ q.held = tellers[t].held
      BY <2>m, <3>q
    <3>3. recaps[i].settled => q.held = ReadAloud(i) /\ x = ReadAloud(i)
      BY <1>k, <2>1, <3>x, <3>2 DEF Working, WriteSpeech
    <3> QED
      BY <1>1, <2>h, <3>1, <3>2, <3>3
  <2>2. CASE SpeechFails(t)
    <3>q. PICK q \in TellerRow(P) : q = ToMark(t, FALSE)
      BY <2>m
    <3>2. q.pc = "mark" /\ q.row = i /\ q.held = tellers[t].held /\ q.fine = FALSE /\ tellers' = [tellers EXCEPT ![t] = q]
          /\ speech' = [speech EXCEPT ![i] = speech[i]]
      BY <1>1, <2>2, <2>m, <3>q DEF SpeechFails
    <3>3. CASE tellers[t].pc = "write"
      <4>r. PICK row : row = [recaps[i] EXCEPT !.settled = FALSE]
        OBVIOUS
      <4>1. row \in RecapRow(D, N) /\ row.week = recaps[i].week /\ row.data = recaps[i].data /\ row.settled = FALSE
            /\ row.narrative = recaps[i].narrative /\ row.status = recaps[i].status /\ row.heard = recaps[i].heard
        BY <1>1, <4>r DEF RecapRow
      <4>2. recaps' = [recaps EXCEPT ![i] = row]
        BY <1>i, <2>2, <3>3, <4>r DEF SpeechFails
      <4> QED
        BY <1>1, <2>h, <3>2, <4>1, <4>2
    <3>4. CASE tellers[t].pc # "write"
      <4>1. tellers[t].pc \in {"look", "speak"} /\ recaps' = [recaps EXCEPT ![i] = recaps[i]]
        BY <1>1, <2>2, <3>4 DEF SpeechFails
      <4>2. recaps[i].settled => q.held = ReadAloud(i) /\ speech[i] \in {Silence, ReadAloud(i)}
        BY <1>k, <3>2, <4>1 DEF Working, Whole
      <4> QED
        BY <1>1, <2>h, <3>2, <4>1, <4>2
    <3> QED
      BY <3>3, <3>4
  <2>3. CASE MarkSound(t)
    <3>s. PICK s \in {"complete", "failed"} : s = IF tellers[t].fine THEN "complete" ELSE "failed"
      OBVIOUS
    <3>r. PICK row : row = [recaps[i] EXCEPT !.status = s, !.heard = TRUE]
      OBVIOUS
    <3>1. row \in RecapRow(D, N) /\ row.week = recaps[i].week /\ row.data = recaps[i].data /\ row.settled = recaps[i].settled
          /\ row.narrative = recaps[i].narrative /\ row.status = s /\ row.heard = TRUE
      BY <1>1, <3>r DEF RecapRow
    <3>2. /\ recaps' = [recaps EXCEPT ![i] = row] /\ tellers' = [tellers EXCEPT ![t] = Unasked]
          /\ speech' = [speech EXCEPT ![i] = speech[i]] /\ tellers[t].pc = "mark"
      <4>1. recaps' = [recaps EXCEPT ![i] = row]
        BY <1>i, <2>3, <3>s, <3>r DEF MarkSound
      <4>2. speech' = speech /\ tellers' = [tellers EXCEPT ![t] = Unasked] /\ tellers[t].pc = "mark"
        BY <2>3 DEF MarkSound
      <4>3. speech = [speech EXCEPT ![i] = speech[i]]
        BY <1>1
      <4> QED
        BY <4>1, <4>2, <4>3
    <3>3. recaps[i].settled => speech[i] \in {Silence, ReadAloud(i)} /\ (s = "complete" => speech[i] = ReadAloud(i))
      BY <1>k, <3>s, <3>2 DEF Working, Whole
    <3> QED
      BY <1>1, <2>u, <3>1, <3>2, <3>3
  <2>4. CASE LoseTeller(t)
    <3>2. tellers' = [tellers EXCEPT ![t] = Unasked] /\ speech' = [speech EXCEPT ![i] = speech[i]]
      BY <1>1, <2>4 DEF LoseTeller
    <3>3. CASE tellers[t].pc = "look"
      <4>1. recaps' = [recaps EXCEPT ![i] = recaps[i]]
        BY <1>1, <2>4, <3>3 DEF LoseTeller
      <4>2. recaps[i].settled => speech[i] \in {Silence, ReadAloud(i)} /\ (recaps[i].status = "complete" => speech[i] = ReadAloud(i))
        BY <1>k, <3>3 DEF Working, Whole
      <4> QED
        BY <1>1, <2>u, <2>h, <3>2, <4>1, <4>2
    <3>4. CASE tellers[t].pc # "look"
      <4>r. PICK row : row = [recaps[i] EXCEPT !.settled = FALSE]
        OBVIOUS
      <4>1. row \in RecapRow(D, N) /\ row.week = recaps[i].week /\ row.data = recaps[i].data /\ row.settled = FALSE
            /\ row.narrative = recaps[i].narrative /\ row.status = recaps[i].status /\ row.heard = recaps[i].heard
        BY <1>1, <4>r DEF RecapRow
      <4>2. recaps' = [recaps EXCEPT ![i] = row]
        BY <1>i, <2>4, <3>4, <4>r DEF LoseTeller
      <4> QED
        BY <1>1, <2>u, <2>h, <3>2, <4>1, <4>2
    <3> QED
      BY <3>3, <3>4
  <2> QED
    BY <2>1, <2>2, <2>3, <2>4
<1>4. /\ tellers' \in [Tellers -> TellerRow(P)] /\ tellers'[t] = q
      /\ \A s \in Tellers \ {t} : tellers'[s] = tellers[s] \/ (tellers[s].row = i /\ tellers'[s].row = i /\ tellers'[s].pc = tellers[s].pc)
  BY <1>1, <1>3
<1>5. row.settled /\ q.row = i =>
           /\ q.held = ReadAloud(i)
           /\ (q.pc = "look" => x \in {Silence, ReadAloud(i)} /\ q.linked /\ (row.status = "complete" => x = ReadAloud(i)))
           /\ (q.pc = "speak" => x = Silence /\ q.linked)
           /\ (q.pc = "write" => x = Cut /\ q.linked /\ q.alone)
           /\ (q.pc = "mark" => x \in {Silence, ReadAloud(i)} /\ (q.fine => x = ReadAloud(i)))
  BY <1>3
<1>6. OneActs(t, i, D, N, P, row, x, q)
  BY <1>0, <1>p, <1>i, <1>2, <1>3, <1>4 DEF OneActs
<1> QED
  BY <1>3, <1>5, <1>6, OneRequestSteps

LEMMA RecapsStepGood == RecapsGood /\ [RecapsNext]_learningVars => RecapsGood'
<1> SUFFICES ASSUME RecapsGood, [RecapsNext]_learningVars PROVE RecapsGood'
  OBVIOUS
<1>1. CASE UNCHANGED learningVars
  <2>1. /\ hour' = hour /\ learned' = learned /\ recaps' = recaps /\ makers' = makers /\ tellers' = tellers
        /\ speech' = speech /\ work' = work /\ Kept' = Kept /\ Known' = Known
    BY <1>1 DEF learningVars, Kept, Known
  <2>2. \E D, N, P : LearningTyped(D, N, P)'
    <3>1. PICK D, N, P : LearningTyped(D, N, P)
      BY DEF RecapsGood
    <3>2. LearningTyped(D, N, P)'
      BY <2>1, <3>1 DEF LearningTyped
    <3> QED
      BY <3>2
  <2>3. \A l \in Known : LessonFits(l)'
    BY <2>1, SameState, LearningTypes
  <2>4. \A m \in Makers : MakerFits(m)'
    BY <2>1, SameState, LearningTypes DEF MakerFits
  <2>5. \A i \in Kept : RecapFits(i)'
    BY <2>1, SameState, LearningTypes DEF RecapFits
  <2>6. \A i \in Kept : SoundFits(i)'
    BY <2>1, LearningTypes, SoundStays
  <2>7. (\A t \in Tellers : TellerFits(t)') /\ WeeksDiffer'
    BY <2>1, LearningTypes DEF TellerFits, WeeksDiffer, RecapsGood
  <2> QED
    BY <2>1, <2>2, <2>3, <2>4, <2>5, <2>6, <2>7 DEF RecapsGood
<1>2. CASE RecapsNext
  BY <1>2, LessonStepGood, MakerStepGood, SaveGood, AskGood, LookGood, OpenGood, SoundEndsGood DEF RecapsNext
<1> QED
  BY <1>1, <1>2

LEMMA WeekInRange ==
  ASSUME NEW h \in 0 .. MaxHour PROVE Day(Since(h)) \in Day(-LookBack) .. Day(MaxHour)
<1>1. /\ h \in Int /\ MaxHour \in Int /\ LookBack \in Int /\ -LookBack <= h - LookBack /\ h - LookBack <= MaxHour
  BY RecapsBounds
<1> QED
  BY <1>1 DEF Day, Since

LEMMA RecapsParts == RecapsGood => RecapsTypeOK /\ RecapsInv
<1> SUFFICES ASSUME RecapsGood PROVE RecapsTypeOK /\ RecapsInv
  OBVIOUS
<1>p. PICK D, N, P : LearningTyped(D, N, P)
  BY DEF RecapsGood
<1>0. /\ hour \in 0 .. MaxHour /\ work \in 0 .. MaxWork /\ Len(learned) <= MaxLessons /\ Len(speech) = Len(recaps)
      /\ (\A i \in Kept : recaps[i] \in RecapRow(D, N)) /\ (\A m \in Makers : makers[m] \in MakerRow(D, N))
      /\ \A t \in Tellers : tellers[t] \in TellerRow(P)
  BY <1>p, LearningTypes DEF LearningTyped
<1>1. \A l \in Known : learned[l].born \in 0 .. MaxHour /\ learned[l].done \in BOOLEAN /\ learned[l].touched \in 0 .. MaxHour
  BY LearningTypes DEF LessonRow
<1>2. ASSUME NEW i \in Kept
      PROVE  /\ recaps[i].week \in Day(-LookBack) .. Day(MaxHour)
             /\ recaps[i].status \in {"none", "complete", "failed"} /\ recaps[i].settled \in BOOLEAN
  <2>1. recaps[i].data.at \in 0 .. MaxHour /\ recaps[i].week = Day(Since(recaps[i].data.at))
    BY <1>0, LearningTypes, RecapsBounds DEF RecapFits, MeasureFits
  <2> QED
    BY <1>0, <2>1, WeekInRange DEF RecapRow
<1>3. RecapsTypeOK
  <2>1. \A m \in Makers : makers[m].pc \in {"rest", "narrated"}
    BY <1>0 DEF MakerRow
  <2>2. \A t \in Tellers : /\ tellers[t].pc \in {"rest", "look", "speak", "write", "mark"}
                           /\ tellers[t].row \in Kept \cup {0}
    BY <1>0, LearningTypes DEF TellerRow, TellerFits
  <2> QED
    BY <1>0, <1>1, <1>2, <2>1, <2>2 DEF RecapsTypeOK
<1>4. RecapIsOfItsWeek
  <2> SUFFICES ASSUME NEW i \in Kept
      PROVE  LET d == recaps[i].data
    IN /\ recaps[i].narrative.of = "week" => recaps[i].narrative = d
       /\ recaps[i].narrative.of = "count" =>
            recaps[i].narrative.lessons = Cardinality(d.done) /\ recaps[i].narrative.focus \subseteq DOMAIN d.concepts
       /\ Day(Since(d.at)) = recaps[i].week
       /\ \A l \in d.done \cup d.open : learned[l].born <= d.at /\ learned[l].touched >= Since(d.at)
       /\ d.themes \subseteq DOMAIN d.concepts /\ \A c \in d.themes : d.concepts[c] > 1
       /\ \A j \in Kept : j # i => recaps[j].week # recaps[i].week
    BY DEF RecapIsOfItsWeek
  <2>1. RecapFits(i)
    BY LearningTypes
  <2>2. \A j \in Kept : j # i => recaps[j].week # recaps[i].week
    BY DEF RecapsGood, WeeksDiffer
  <2> QED
    BY <2>1, <2>2 DEF RecapFits, MeasureFits
<1>5. SoundIsOfRecap
  <2> SUFFICES ASSUME NEW i \in Kept, recaps[i].settled
      PROVE  /\ recaps[i].status = "complete" /\ ~AskedFor(i) => speech[i] = ReadAloud(i)
             /\ speech[i].of = "recap" => speech[i] = ReadAloud(i)
    BY DEF SoundIsOfRecap
  <2>1. SoundFits(i)
    BY LearningTypes
  <2>2. speech[i] \in {Silence, Cut, ReadAloud(i)}
    <3>1. CASE AskedFor(i)
      <4>1. PICK t \in Tellers : tellers[t].row = i
        BY <3>1 DEF AskedFor
      <4>2. Working(t, i) /\ tellers[t].pc \in {"look", "speak", "write", "mark"}
        <5>1. i # 0
          BY LearningTypes
        <5> QED
          BY <1>0, <2>1, <4>1, <5>1, LearningTypes DEF SoundFits, TellerRow, TellerFits
      <4> QED
        BY <4>2 DEF Working, Whole
    <3>2. CASE ~AskedFor(i)
      BY <2>1, <3>2 DEF SoundFits, Whole
    <3> QED
      BY <3>1, <3>2
  <2>3. Silence.of # "recap" /\ Cut.of # "recap"
    BY DEF Silence, Cut
  <2> QED
    BY <2>1, <2>2, <2>3 DEF SoundFits
<1>6. SavedAgainIsSilent
  BY LearningTypes DEF SavedAgainIsSilent, RecapFits
<1> QED
  BY <1>3, <1>4, <1>5, <1>6 DEF RecapsInv

\* However late and often a recap is saved, it tells of the week that it is listed
\* under, the sound said to be there is of what it shows unless its makers overlapped or
\* broke off, and a recap saved again has none until it is asked for (lesson_recaps/).
THEOREM RecapsAreTrue == RecapsSpec => []RecapsInv
<1> QED
  BY RecapsInitGood, RecapsStepGood, RecapsParts, PTL DEF RecapsSpec

(***************************************************************************)
(* The types of the parts whose invariants above leave some of them out    *)
(***************************************************************************)

-----------------------------------------------------------------------------
(* A plan                                                                  *)

PlanTyped ==
  \E n \in 0 .. MaxSteps :
    /\ planned \in [1 .. n -> {"article", "admin"}]
    /\ stepStatus \in [1 .. n -> {"pending", "executed", "failed"}]
    /\ applied \in [1 .. n -> Nat]
AgentShape ==
  /\ runStatus \in RunStatus /\ PlanTyped
  /\ \A q \in Requests : asked[q].next <= MaxSteps + 1
AgentGood == AgentReach /\ AgentShape

LEMMA AgentGoodType == AgentGood => AgentTypeOK
<1> SUFFICES ASSUME AgentGood PROVE AgentTypeOK
  OBVIOUS
<1>1. PICK n \in 0 .. MaxSteps :
        /\ planned \in [1 .. n -> {"article", "admin"}]
        /\ stepStatus \in [1 .. n -> {"pending", "executed", "failed"}]
        /\ applied \in [1 .. n -> Nat]
  BY DEF AgentGood, AgentShape, PlanTyped
<1>2. Steps = 1 .. n
  BY <1>1 DEF Steps
<1>3. PICK all \in Nat : all = Cardinality(Requests)
  BY AgentAssumption, FS_CardinalityType
<1>4. ASSUME NEW i \in 1 .. n PROVE applied[i] \in 0 .. all
  <2>1. applied[i] \in Nat /\ applied[i] <= Cardinality(Users(i))
    BY <1>1, <1>2 DEF AgentGood, AgentReach
  <2>2. Users(i) \subseteq Requests
    BY DEF Users
  <2>3. Cardinality(Users(i)) \in Nat /\ Cardinality(Users(i)) <= all
    BY <1>3, <2>2, Counted
  <2> QED
    BY <1>3, <2>1, <2>3
<1>5. applied \in [1 .. n -> 0 .. Cardinality(Requests)]
  BY <1>1, <1>3, <1>4
<1>6. asked \in [Requests -> Asked]
  <2>1. asked \in [Requests -> Request] /\ \A q \in Requests : asked[q].next <= MaxSteps + 1
    BY DEF AgentGood, AgentShape, AgentReach, AgentType
  <2>2. ASSUME NEW q \in Requests PROVE asked[q] \in Asked
    <3>1. asked[q] \in Request /\ asked[q].next <= MaxSteps + 1
      BY <2>1
    <3>2. asked[q].next \in 1 .. MaxSteps + 1
      BY <3>1, AgentAssumption DEF Request
    <3> QED
      BY <3>1, <3>2 DEF Request, Asked
  <2> QED
    BY <2>1, <2>2
<1>7. runStatus \in RunStatus
  BY DEF AgentGood, AgentShape
<1> QED
  BY <1>1, <1>5, <1>6, <1>7 DEF AgentTypeOK

LEMMA AgentInitGood == AgentInit => AgentGood
<1> SUFFICES ASSUME AgentInit PROVE AgentShape
  BY ReachInit DEF AgentGood
<1>1. PlanTyped
  <2>1. 0 \in 0 .. MaxSteps
    BY AgentAssumption
  <2>2. /\ planned \in [1 .. 0 -> {"article", "admin"}]
        /\ stepStatus \in [1 .. 0 -> {"pending", "executed", "failed"}]
        /\ applied \in [1 .. 0 -> Nat]
    BY DEF AgentInit
  <2> QED
    BY <2>1, <2>2 DEF PlanTyped
<1>2. runStatus \in RunStatus
  BY DEF AgentInit, RunStatus
<1>3. ASSUME NEW q \in Requests PROVE asked[q].next <= MaxSteps + 1
  <2>1. PICK v \in {"approve", "cancel"}, a \in BOOLEAN :
          asked[q] = [verb |-> v, at |-> "new", next |-> 1, ok |-> TRUE, admin |-> a]
    BY DEF AgentInit
  <2>2. asked[q].next = 1
    BY <2>1
  <2> QED
    BY <2>2, AgentAssumption
<1> QED
  BY <1>1, <1>2, <1>3 DEF AgentShape

\* A plan keeps its steps, and no request goes further than one past the last.
LEMMA AgentKeepsShape ==
  ASSUME AgentGood, NEW q \in Requests, UNCHANGED planned, runStatus' \in RunStatus,
         stepStatus' \in [DOMAIN stepStatus -> {"pending", "executed", "failed"}],
         applied' \in [DOMAIN applied -> Nat], NEW r,
         asked' = [asked EXCEPT ![q] = r], r.next <= MaxSteps + 1
  PROVE  AgentShape'
<1>1. PlanTyped'
  BY DEF AgentGood, AgentShape, PlanTyped
<1>2. \A p \in Requests : asked'[p] = IF p = q THEN r ELSE asked[p]
  BY DEF AgentGood, AgentReach, AgentType
<1>3. \A p \in Requests : asked'[p].next <= MaxSteps + 1
  BY <1>2 DEF AgentGood, AgentShape
<1> QED
  BY <1>1, <1>3 DEF AgentShape

LEMMA AgentStepShape ==
  ASSUME AgentGood, AgentNext
  PROVE  AgentShape'
<1>1. PICK n \in 0 .. MaxSteps :
        /\ planned \in [1 .. n -> {"article", "admin"}]
        /\ stepStatus \in [1 .. n -> {"pending", "executed", "failed"}]
        /\ applied \in [1 .. n -> Nat]
  BY DEF AgentGood, AgentShape, PlanTyped
<1>2. Steps = 1 .. n /\ DOMAIN stepStatus = 1 .. n /\ DOMAIN applied = 1 .. n /\ MaxSteps \in Nat
  BY <1>1, AgentAssumption DEF Steps
<1>3. asked \in [Requests -> Request] /\ \A q \in Requests : asked[q].next <= MaxSteps + 1
  BY DEF AgentGood, AgentShape, AgentReach, AgentType
<1>4. runStatus \in RunStatus
  BY DEF AgentGood, AgentShape
<1>5. CASE Propose
  <2>1. PICK m \in 1 .. MaxSteps :
          /\ planned' \in [1 .. m -> {"article", "admin"}]
          /\ stepStatus' = [i \in 1 .. m |-> "pending"] /\ applied' = [i \in 1 .. m |-> 0]
    BY <1>5 DEF Propose
  <2>2. m \in 0 .. MaxSteps
    BY <1>2
  <2>3. stepStatus' \in [1 .. m -> {"pending", "executed", "failed"}] /\ applied' \in [1 .. m -> Nat]
    BY <2>1
  <2>4. PlanTyped'
    BY <2>1, <2>2, <2>3 DEF PlanTyped
  <2>5. asked' = asked /\ runStatus' \in RunStatus
    BY <1>5 DEF Propose, RunStatus
  <2> QED
    BY <1>3, <2>4, <2>5 DEF AgentShape
<1>6. ASSUME NEW q \in Requests, ReadStatus(q) \/ CancelRun(q) \/ LoadApprovedRun(q)
      PROVE  AgentShape'
  <2>1. asked[q] \in Request /\ asked[q].next <= MaxSteps + 1
    BY <1>3
  <2>2. PICK r \in Request : asked' = [asked EXCEPT ![q] = r] /\ r.next = asked[q].next
    <3>1. asked' = [asked EXCEPT ![q].at = "seen"] \/ asked' = [asked EXCEPT ![q].at = "over"]
            \/ asked' = [asked EXCEPT ![q].at = "running"]
      BY <1>6 DEF ReadStatus, CancelRun, LoadApprovedRun
    <3> QED
      BY <1>3, <2>1, <3>1 DEF Request
  <2>3. UNCHANGED <<planned, stepStatus, applied>> /\ runStatus' \in RunStatus
    BY <1>4, <1>6 DEF ReadStatus, CancelRun, LoadApprovedRun, RunStatus
  <2>4. stepStatus' \in [DOMAIN stepStatus -> {"pending", "executed", "failed"}]
        /\ applied' \in [DOMAIN applied -> Nat]
    BY <1>1, <1>2, <2>3
  <2> QED
    BY <2>1, <2>2, <2>3, <2>4, AgentKeepsShape
<1>7. ASSUME NEW q \in Requests, ExecuteNextStep(q)
      PROVE  AgentShape'
  <2>1. asked[q] \in Request /\ asked[q].next \in 1 .. n
    BY <1>2, <1>3, <1>7 DEF ExecuteNextStep
  <2>2. PICK r \in Request : asked' = [asked EXCEPT ![q] = r] /\ r.next = asked[q].next + 1
    <3>1. asked' = [asked EXCEPT ![q].next = @ + 1]
            \/ asked' = [asked EXCEPT ![q].next = @ + 1, ![q].ok = FALSE]
      BY <1>7 DEF ExecuteNextStep
    <3> QED
      BY <1>3, <2>1, <3>1 DEF Request
  <2>3. r.next <= MaxSteps + 1
    BY <1>2, <2>1, <2>2
  <2>4. UNCHANGED <<planned, runStatus>>
    BY <1>7 DEF ExecuteNextStep
  <2>5. stepStatus' \in [DOMAIN stepStatus -> {"pending", "executed", "failed"}]
        /\ applied' \in [DOMAIN applied -> Nat]
    <3>1. \E s \in {"executed", "failed"} : stepStatus' = [stepStatus EXCEPT ![asked[q].next] = s]
      BY <1>7 DEF ExecuteNextStep
    <3>2. applied' = applied \/ applied' = [applied EXCEPT ![asked[q].next] = @ + 1]
      BY <1>7 DEF ExecuteNextStep
    <3>3. applied' \in [DOMAIN applied -> Nat]
      <4>1. PICK i \in 1 .. n : i = asked[q].next
        BY <2>1
      <4>2. applied[i] + 1 \in Nat
        BY <1>1, <4>1
      <4>3. applied' = applied \/ applied' = [applied EXCEPT ![i] = applied[i] + 1]
        BY <1>1, <3>2, <4>1
      <4> QED
        BY <1>1, <1>2, <4>2, <4>3
    <3> QED
      BY <1>1, <1>2, <2>1, <3>1, <3>3
  <2> QED
    BY <1>4, <2>2, <2>3, <2>4, <2>5, AgentKeepsShape
<1>8. ASSUME NEW q \in Requests, FinalizeExecution(q) \/ Abandon(q)
      PROVE  AgentShape'
  <2>1. asked[q] \in Request /\ asked[q].next <= MaxSteps + 1
    BY <1>3
  <2>2. PICK r \in Request : asked' = [asked EXCEPT ![q] = r] /\ r.next = asked[q].next
    <3>1. asked' = [asked EXCEPT ![q].at = "over"]
      BY <1>8 DEF FinalizeExecution, Abandon
    <3>2. asked' = [asked EXCEPT ![q] = [asked[q] EXCEPT !.at = "over"]]
      BY <1>3, <3>1
    <3>3. [asked[q] EXCEPT !.at = "over"] \in Request
          /\ [asked[q] EXCEPT !.at = "over"].next = asked[q].next
      BY <2>1 DEF Request
    <3> QED
      BY <3>2, <3>3
  <2>3. UNCHANGED <<planned, stepStatus>> /\ runStatus' \in RunStatus
    BY <1>4, <1>8 DEF FinalizeExecution, Abandon, RunStatus
  <2>4. stepStatus' \in [DOMAIN stepStatus -> {"pending", "executed", "failed"}]
        /\ applied' \in [DOMAIN applied -> Nat]
    BY <1>1, <1>2, <1>8, <2>3 DEF FinalizeExecution, Abandon
  <2> QED
    BY <2>1, <2>2, <2>3, <2>4, AgentKeepsShape
<1> QED
  BY <1>5, <1>6, <1>7, <1>8 DEF AgentNext

-----------------------------------------------------------------------------
(* A push message, an article's content and a research                     *)

LEMMA PushGoodType == MessagesInv /\ PermitsInv => PushTypeOK
<1> SUFFICES ASSUME MessagesInv, PermitsInv PROVE permits \in 0 .. Capacity
  BY DEF MessagesInv, WorkTyped, PushTypeOK
<1>1. PICK o \in Nat, d \in Nat : o = Cardinality(Openings) /\ d = Cardinality(Readings)
  BY FS_CardinalityType DEF PermitsInv
<1>2. permits \in Nat /\ permits + o + d = Capacity
  BY <1>1 DEF PermitsInv
<1> QED
  BY <1>2, PushAssumption

BodyTyped ==
  /\ body \in {"missing", "ok", "failed"} /\ post \in BOOLEAN /\ fetching \subseteq Fetchers
  /\ extracting \subseteq Extractors

LEMMA BodyStep ==
  ASSUME BodyTyped, [ContentNext]_contentVars
  PROVE  BodyTyped'
<1>1. ASSUME NEW f \in Fetchers, AskBody(f) \/ StoreBody(f)
      PROVE  BodyTyped'
  BY <1>1 DEF AskBody, StoreBody, BodyTyped, entityVars
<1>2. ASSUME NEW c \in Analysts, NEW k \in Kinds, LockAnalysis(c, k) \/ EndAnalysis(c, k)
      PROVE  BodyTyped'
  BY <1>2 DEF LockAnalysis, EndAnalysis, BodyTyped, bodyVars, entityVars
<1>3. ASSUME NEW e \in Extractors, AskEntities(e) \/ StoreEntities(e)
      PROVE  BodyTyped'
  BY <1>3 DEF AskEntities, StoreEntities, BodyTyped, bodyVars
<1>4. ASSUME NEW r \in Linkers, AskRelationships(r) \/ StoreRelationships(r)
      PROVE  BodyTyped'
  BY <1>4 DEF AskRelationships, StoreRelationships, BodyTyped, bodyVars
<1>5. CASE UNCHANGED contentVars
  BY <1>5 DEF contentVars, BodyTyped
<1> QED
  BY <1>1, <1>2, <1>3, <1>4, <1>5 DEF ContentNext

\* A result is there exactly when the row says so, and the cooldown's entry is the
\* claim of a preview that is less than a minute old.
ResultTyped ==
  /\ enrichment.status = "complete" <=> enrichment.content # NoCaller
  /\ overtaken \subseteq Callers
CooldownTyped ==
  /\ cooldown \in Previews \cup {NoCaller}
  /\ fresh \subseteq Previews /\ (cooldown # NoCaller => cooldown \in fresh)

LEMMA ResultStep ==
  ASSUME ResultTyped, [EnrichmentNext]_enrichmentVars
  PROVE  ResultTyped'
<1> USE DEF ResultTyped
<1>1. ASSUME NEW c \in Callers,
             \/ Ask(c) \/ SendMessage(c) \/ FailMessage(c) \/ CooldownLapses(c) \/ EnrichmentCrash(c)
             \/ LoadCompleted(c)
      PROVE  ResultTyped'
  BY <1>1 DEF Ask, SendMessage, FailMessage, CooldownLapses, EnrichmentCrash, LoadCompleted
<1>2. ASSUME NEW c \in Callers, RecordSkipped(c) PROVE ResultTyped'
  BY <1>2 DEF RecordSkipped, Researching
<1>3. ASSUME NEW c \in Callers, ClaimRun(c) PROVE ResultTyped'
  BY <1>3 DEF ClaimRun, Researching
<1>4. ASSUME NEW c \in Callers, SaveCompleted(c) \/ RecordResearchFailure(c) PROVE ResultTyped'
  BY <1>4, EnrichmentAssumption DEF SaveCompleted, RecordResearchFailure
<1>5. CASE GrowUntouched
  BY <1>5 DEF GrowUntouched
<1>6. CASE UNCHANGED enrichmentVars
  BY <1>6 DEF enrichmentVars
<1> QED
  BY <1>1, <1>2, <1>3, <1>4, <1>5, <1>6 DEF EnrichmentNext

LEMMA CooldownStep ==
  ASSUME CooldownTyped, [EnrichmentNext]_enrichmentVars
  PROVE  CooldownTyped'
<1> USE EnrichmentAssumption DEF CooldownTyped
<1>1. ASSUME NEW c \in Callers, Ask(c) PROVE CooldownTyped'
  BY <1>1 DEF Ask
<1>2. ASSUME NEW c \in Callers, FailMessage(c) PROVE CooldownTyped'
  BY <1>2 DEF FailMessage
<1>3. ASSUME NEW c \in Callers, CooldownLapses(c) PROVE CooldownTyped'
  BY <1>3 DEF CooldownLapses
<1>4. ASSUME NEW c \in Callers, EnrichmentCrash(c) PROVE CooldownTyped'
  BY <1>4 DEF EnrichmentCrash
<1>5. ASSUME NEW c \in Callers,
             \/ SendMessage(c) \/ LoadCompleted(c) \/ RecordSkipped(c) \/ ClaimRun(c)
             \/ SaveCompleted(c) \/ RecordResearchFailure(c)
      PROVE  CooldownTyped'
  BY <1>5 DEF SendMessage, LoadCompleted, RecordSkipped, ClaimRun, SaveCompleted, RecordResearchFailure
<1>6. CASE GrowUntouched
  BY <1>6 DEF GrowUntouched
<1>7. CASE UNCHANGED enrichmentVars
  BY <1>7 DEF enrichmentVars
<1> QED
  BY <1>1, <1>2, <1>3, <1>4, <1>5, <1>6, <1>7 DEF EnrichmentNext

(***************************************************************************)
(* All parts together                                                      *)
(***************************************************************************)

\* A step of the whole is a step of one part, and the others stand still.
LEMMA PartsStep ==
  ASSUME [ServicesNext]_servicesVars
  PROVE  /\ [EnrichmentNext]_enrichmentVars /\ [AgentNext]_agentVars /\ [PushNext]_pushVars
         /\ [RecapNext]_recapVars /\ [BudgetNext]_budgetVars /\ [ContentNext]_contentVars
         /\ [ScoreNext]_scoreVars /\ [FetchNext]_fetchVars /\ [PageNext]_pageVars
         /\ [PipelineNext]_pipelineVars /\ [MakingNext]_makingVars /\ [SharesNext]_sharesVars
         /\ [RecapsNext]_learningVars
<1>1. CASE UNCHANGED servicesVars
  BY <1>1 DEF servicesVars
<1>2. CASE ServicesNext
  BY <1>2 DEF ServicesNext
<1> QED
  BY <1>1, <1>2

\* What holds of every part, whichever of them moves.
AskedGood ==
  /\ EnrichmentInv /\ ResultTyped /\ CooldownTyped /\ AgentGood
  /\ MessagesInv /\ PermitsInv /\ RecapInv /\ ContentIInv /\ BodyTyped
TalliedGood ==
  /\ ScoreTypeOK /\ FetchGood /\ PageGood /\ PipelineGood /\ MakingGood /\ SharesGood
  /\ RecapsGood /\ BudgetGood
ServicesGood == AskedGood /\ TalliedGood

LEMMA ServicesInitGood == ServicesInit => ServicesGood
<1> SUFFICES ASSUME ServicesInit PROVE ServicesGood
  OBVIOUS
<1>1. /\ EnrichmentInit /\ PushInit /\ ScoreInit /\ MakingInit /\ SharesInit /\ RecapsInit
      /\ FetchInit /\ PageInit /\ PipelineInit /\ AgentInit /\ RecapInit /\ ContentInit /\ BudgetInit
  BY DEF ServicesInit
<1>2. ResultTyped /\ CooldownTyped
  BY <1>1, EnrichmentAssumption DEF EnrichmentInit, ResultTyped, CooldownTyped
<1>3. BodyTyped
  BY <1>1 DEF ContentInit, BodyTyped
<1>4. AskedGood
  BY <1>1, <1>2, <1>3, EnrichmentInitInv, AgentInitGood, MessagesInit, PermitsInit, RecapInitInv,
     ContentInitInv DEF AskedGood
<1>5. TalliedGood
  BY <1>1, ScoreInitType, FetchInitGood, PageInitGood, PipelineInitGood, MakingInitGood, SharesInitGood,
     RecapsInitGood, BudgetInitGood DEF TalliedGood
<1> QED
  BY <1>4, <1>5 DEF ServicesGood

LEMMA ServicesStepGood == ServicesGood /\ [ServicesNext]_servicesVars => ServicesGood'
<1> SUFFICES ASSUME ServicesGood, [ServicesNext]_servicesVars PROVE ServicesGood'
  OBVIOUS
<1>0. AskedGood /\ TalliedGood
  BY DEF ServicesGood
<1>1. EnrichmentInv' /\ ResultTyped' /\ CooldownTyped'
  BY <1>0, PartsStep, EnrichmentStepInv, ResultStep, CooldownStep DEF AskedGood
<1>2. AgentGood'
  <2>1. AgentReach'
    BY <1>0, PartsStep, ReachStep DEF AskedGood, AgentGood
  <2>2. AgentShape'
    <3>1. CASE UNCHANGED agentVars
      <4>1. PlanTyped' = PlanTyped
        BY <3>1 DEF agentVars, PlanTyped
      <4> QED
        BY <1>0, <3>1, <4>1 DEF AskedGood, AgentGood, AgentShape, agentVars
    <3>2. CASE AgentNext
      BY <1>0, <3>2, AgentStepShape DEF AskedGood
    <3> QED
      BY <3>1, <3>2, PartsStep
  <2> QED
    BY <2>1, <2>2 DEF AgentGood
<1>3. MessagesInv' /\ PermitsInv'
  BY <1>0, PartsStep, MessagesStep, PermitsStep DEF AskedGood
<1>4. RecapInv' /\ ContentIInv' /\ BodyTyped'
  BY <1>0, PartsStep, RecapStepInv, ContentStepInv, BodyStep DEF AskedGood
<1>5. ScoreTypeOK' /\ FetchGood' /\ PageGood' /\ PipelineGood'
  BY <1>0, PartsStep, ScoreStepType, FetchStepGood, PageStepGood, PipelineStepGood DEF TalliedGood
<1>6. MakingGood' /\ SharesGood' /\ RecapsGood' /\ BudgetGood'
  BY <1>0, PartsStep, MakingStepGood, SharesStepGood, RecapsStepGood, BudgetStepGood DEF TalliedGood
<1> QED
  BY <1>1, <1>2, <1>3, <1>4, <1>5, <1>6 DEF ServicesGood, AskedGood, TalliedGood

\* Every part keeps the types of its variables, the bounds of the model included:
\* a plan's steps, the permits, the marks of a share, the weeks of a reader.
THEOREM ServicesTyped == ServicesSpec => []ServicesTypeOK
<1>1. ServicesGood => ServicesTypeOK
  <2> SUFFICES ASSUME ServicesGood PROVE ServicesTypeOK
    OBVIOUS
  <2>1. AskedGood /\ TalliedGood
    BY DEF ServicesGood
  <2>2. EnrichmentTypeOK
    BY <2>1 DEF AskedGood, EnrichmentInv, CallersTyped, Caller, RowTyped, ResultTyped, CooldownTyped,
                EnrichmentTypeOK
  <2>3. AgentTypeOK /\ PushTypeOK /\ RecapTypeOK
    BY <2>1, AgentGoodType, PushGoodType DEF AskedGood, RecapInv
  <2>4. ContentTypeOK
    BY <2>1 DEF AskedGood, ContentIInv, AnalysesTyped, EntitiesTyped, BodyTyped, ContentTypeOK
  <2>5. /\ BudgetTypeOK /\ ScoreTypeOK /\ FetchTypeOK /\ PageTypeOK /\ PipelineTypeOK
        /\ MakingTypeOK /\ SharesTypeOK /\ RecapsTypeOK
    BY <2>1, BudgetParts, FetchParts, PageParts, PipelineParts, MakingParts, SharesParts, RecapsParts
    DEF TalliedGood
  <2> QED
    BY <2>2, <2>3, <2>4, <2>5 DEF ServicesTypeOK
<1> QED
  BY ServicesInitGood, ServicesStepGood, <1>1, PTL DEF ServicesSpec

\* What a reader is given is what was accepted, and what is said of the rest is true:
\* of an answer cut to its budget, of the report of a check, of the text of a page, of
\* the runs that make a lesson or a briefing, of a share, and of a week that was learned.
THEOREM TalliesTrue == ServicesSpec => []TalliesAreTrue
<1>1. ServicesGood => TalliesAreTrue
  <2> SUFFICES ASSUME ServicesGood PROVE TalliesAreTrue
    OBVIOUS
  <2>1. TalliedGood
    BY DEF ServicesGood
  <2>2. /\ BudgetInv /\ ReportedIsStored /\ PageInv /\ PipelineInv /\ MakingInv
        /\ SharesInv /\ RecapsInv
    BY <2>1, BudgetParts, FetchParts, PageParts, PipelineParts, MakingParts, SharesParts, RecapsParts
    DEF TalliedGood
  <2> QED
    BY <2>2 DEF TalliesAreTrue
<1> QED
  BY ServicesInitGood, ServicesStepGood, <1>1, PTL DEF ServicesSpec
=============================================================================
