----------------------- MODULE BriefingDelivery_proofs -----------------------
(* Theorems of BriefingDelivery, for every number of replicas, dates, lost   *)
(* replies and faults.                                                       *)
EXTENDS BriefingDelivery, TLAPS

USE DeliveryAssumption

LEMMA RunType ==
  ASSUME NEW pc \in Steps, NEW lag \in 0..MaxLag, NEW todo \in Seq(Dates)
  PROVE  Run(pc, lag, todo) \in Job
BY DEF Run, Job, Dates, Replies, Statuses, Closed

LEMMA IdleRunType == Run("idle", 0, <<>>) \in Job
<1>1. "idle" \in Steps /\ 0 \in 0..MaxLag /\ <<>> \in Seq(Dates)
  BY DEF Steps
<1> QED BY <1>1, RunType

LEMMA NoDeliveryType == NoDelivery \in Delivery
BY DEF NoDelivery, Delivery, Statuses, Closed, MaxAge, NoBriefing

LEMMA ClaimedRowType ==
  ASSUME NEW row \in Delivery, NEW t \in Tokens, NEW lag \in 0..MaxLag
  PROVE  [row EXCEPT !.status = "claimed", !.token = t, !.age = lag, !.wait = 0]
           \in Delivery
<1>1. /\ "claimed" \in Statuses /\ lag \in 0..MaxAge /\ 0 \in (-MaxLag)..RetryDelay
      /\ t \in Tokens \cup {NoToken}
  BY DEF Statuses, MaxAge
<1> QED BY <1>1 DEF Delivery

LEMMA JobTyped ==
  ASSUME TypeOK, NEW r \in Replicas
  PROVE  /\ job[r] \in Job
         /\ ledger[job[r].date] \in Delivery
BY DEF TypeOK, Job

LEMMA NextEntryType ==
  ASSUME TypeOK, NEW r \in Replicas, NextEntry(r)
  PROVE  job' \in [Replicas -> Job]
<1>1. job[r].lag \in 0..MaxLag /\ job[r].todo \in Seq(Dates)
  BY JobTyped DEF Job
<1>2. Run("next", job[r].lag, job[r].todo) \in Job
  BY <1>1, RunType DEF Steps
<1> QED BY <1>2 DEF NextEntry, TypeOK

LEMMA ConcludeType ==
  ASSUME TypeOK, NEW r \in Replicas, NEW expect \in Statuses, NEW goal \in Statuses,
         Conclude(r, expect, goal)
  PROVE  job' \in [Replicas -> Job]
<1>1. [job[r] EXCEPT !.pc = "settle", !.expect = expect, !.goal = goal] \in Job
  BY ZenonT(60), JobTyped DEF Job, Steps
<1> QED BY <1>1 DEF Conclude, TypeOK

LEMMA GoType ==
  ASSUME TypeOK, NEW r \in Replicas, NEW pc \in Steps, Go(r, pc)
  PROVE  job' \in [Replicas -> Job]
<1>1. [job[r] EXCEPT !.pc = pc] \in Job
  BY JobTyped DEF Job
<1> QED BY <1>1 DEF Go, TypeOK

LEMMA RowType ==
  ASSUME NEW row \in Delivery, NEW status \in Statuses,
         NEW age \in 0..MaxAge, NEW wait \in (-MaxLag)..RetryDelay,
         NEW briefing \in {NoBriefing} \cup Briefings
  PROVE  [row EXCEPT !.status = status, !.age = age, !.wait = wait,
                     !.briefing = briefing] \in Delivery
BY DEF Delivery

LEMMA MoveType ==
  ASSUME TypeOK, NEW r \in Replicas, NEW status \in Statuses, Move(r, status)
  PROVE  ledger' \in [Dates -> Delivery]
<1>1. job[r].date \in Dates /\ job[r].briefing \in {NoBriefing} \cup Briefings
  BY JobTyped DEF Job
<1>2. WaitAfter(r, status) \in (-MaxLag)..RetryDelay
  BY JobTyped DEF Job, WaitAfter
<1> DEFINE row == ledger[job[r].date]
           briefing == IF job[r].briefing = NoBriefing
                         THEN ledger[job[r].date].briefing ELSE job[r].briefing
<1>3. row \in Delivery /\ 0 \in 0..MaxAge
  BY JobTyped DEF MaxAge
<1>4. briefing \in {NoBriefing} \cup Briefings
  BY <1>1, <1>3 DEF Delivery
<1>5. [row EXCEPT !.status = status, !.age = 0, !.wait = WaitAfter(r, status),
                  !.briefing = briefing] \in Delivery
  <2> HIDE DEF row, briefing
  <2> QED BY <1>2, <1>3, <1>4, RowType
<1> QED BY <1>1, <1>5 DEF Move, TypeOK

-----------------------------------------------------------------------------

LEMMA InitType == Init => TypeOK
BY NoDeliveryType, IdleRunType DEF Init, TypeOK, Dates, NoBriefing

LEMMA JobKept ==
  ASSUME TypeOK, UNCHANGED <<enabled, today, slot, ran, content, faults, mailbox>>,
         job' \in [Replicas -> Job], ledger' \in [Dates -> Delivery]
  PROVE  TypeOK'
BY DEF TypeOK, content, mailbox

LEMMA NewBriefingType ==
  ASSUME TypeOK, NEW day \in Dates, NEW reusable \in BOOLEAN, NewBriefing(day, reusable)
  PROVE  /\ generated' \in Briefings /\ generated' \in 0..MaxBriefings
         /\ generated' # NoBriefing
         /\ latest' \in [Dates -> {NoBriefing} \cup Briefings]
         /\ recent' \in {NoBriefing} \cup Briefings
<1>1. /\ generated' \in Briefings /\ generated' \in 0..MaxBriefings
      /\ generated' # NoBriefing
  BY DEF NewBriefing, TypeOK, Briefings, NoBriefing
<1> QED BY <1>1 DEF NewBriefing, TypeOK

LEMMA StepType ==
  ASSUME TypeOK, [Next]_vars
  PROVE  TypeOK'
<1> USE DEF account
<1>1. ASSUME NEW r \in Replicas, StartJob(r)
      PROVE  TypeOK'
  <2>1. \A todo \in Seq(Dates) : Run("next", 0, todo) \in Job
    <3>1. "next" \in Steps /\ 0 \in 0..MaxLag
      BY DEF Steps
    <3> QED BY <3>1, RunType
  <2>2. <<>> \in Seq(Dates) /\ <<today>> \in Seq(Dates)
    BY DEF TypeOK
  <2>3. ASSUME NEW d \in Dates
        PROVE  /\ <<d>> \o <<>> \in Seq(Dates) /\ <<d>> \o <<today>> \in Seq(Dates)
               /\ <<>> \o <<>> \in Seq(Dates) /\ <<>> \o <<today>> \in Seq(Dates)
    BY <2>2
  <2>4. PICK todo \in Seq(Dates) : job' = [job EXCEPT ![r] = Run("next", 0, todo)]
    BY <1>1, <2>2, <2>3 DEF StartJob, EarliestOf
  <2>5. job' \in [Replicas -> Job]
    BY <2>1, <2>4 DEF TypeOK
  <2>6. ran' \subseteq Replicas
    BY <1>1 DEF StartJob, TypeOK
  <2> QED BY <1>1, <2>5, <2>6 DEF StartJob, TypeOK, content, mailbox
<1>2. ASSUME NEW r \in Replicas, NextDelivery(r)
      PROVE  TypeOK'
  <2>1. /\ Head(job[r].todo) \in Dates /\ Tail(job[r].todo) \in Seq(Dates)
    BY <1>2, JobTyped DEF NextDelivery, Job
  <2>2. [job[r] EXCEPT !.pc = "claim", !.date = Head(job[r].todo),
                       !.todo = Tail(job[r].todo)] \in Job
    BY ZenonT(60), <2>1, JobTyped DEF Job, Steps
  <2>3. job' \in [Replicas -> Job]
    BY <1>2, <2>2 DEF NextDelivery, TypeOK
  <2> QED BY <1>2, <2>3, JobKept DEF NextDelivery, TypeOK
<1>3. ASSUME NEW r \in Replicas, EndJob(r)
      PROVE  TypeOK'
  BY <1>3, IdleRunType, JobKept DEF EndJob, TypeOK
<1>4. ASSUME NEW r \in Replicas, Claim(r)
      PROVE  TypeOK'
  <2>1. CASE ledger[job[r].date].status = "none"
    <3>1. PICK t \in Tokens :
            /\ ledger' = [ledger EXCEPT ![job[r].date] =
                            [NoDelivery EXCEPT !.status = "claimed", !.token = t]]
            /\ job' = [job EXCEPT ![r].pc = "find", ![r].token = t]
      BY <1>4, <2>1 DEF Claim
    <3>2. [NoDelivery EXCEPT !.status = "claimed", !.token = t] \in Delivery
      <4> HIDE DEF NoDelivery, Delivery
      <4>1. ASSUME NEW row \in Delivery
            PROVE  [row EXCEPT !.status = "claimed", !.token = t] \in Delivery
        <5>1. "claimed" \in Statuses
          BY DEF Statuses
        <5> QED BY <5>1 DEF Delivery
      <4> QED BY <4>1, NoDeliveryType
    <3>3. [job[r] EXCEPT !.pc = "find", !.token = t] \in Job
      BY ZenonT(60), JobTyped DEF Job, Steps
    <3> QED BY <1>4, <3>1, <3>2, <3>3, JobTyped, JobKept DEF Claim, TypeOK, Job
  <2>2. CASE ledger[job[r].date].status # "none"
    BY <1>4, <2>2, GoType, JobKept DEF Claim, TypeOK, Steps
  <2> QED BY <2>1, <2>2
<1>5. ASSUME NEW r \in Replicas, Reclaim(r)
      PROVE  TypeOK'
  <2>1. CASE Stale(job[r].date, job[r].lag) \/ Due(job[r].date, job[r].lag)
    <3>1. PICK t \in Tokens :
            /\ ledger' = [ledger EXCEPT ![job[r].date].status = "claimed",
                                        ![job[r].date].token = t,
                                        ![job[r].date].age = job[r].lag,
                                        ![job[r].date].wait = 0]
            /\ job' = [job EXCEPT ![r].pc = "find", ![r].token = t]
      BY <1>5, <2>1 DEF Reclaim
    <3>2. job[r].lag \in 0..MaxLag /\ job[r].date \in Dates
      BY JobTyped DEF Job
    <3>3. ASSUME NEW row \in Delivery
          PROVE  [row EXCEPT !.status = "claimed", !.token = t,
                             !.age = job[r].lag, !.wait = 0] \in Delivery
      BY <3>2, ClaimedRowType
    <3>4. [job[r] EXCEPT !.pc = "find", !.token = t] \in Job
      BY ZenonT(60), JobTyped DEF Job, Steps
    <3>5. ledger' \in [Dates -> Delivery]
      BY <3>1, <3>2, <3>3 DEF TypeOK
    <3>6. job' \in [Replicas -> Job]
      BY <3>1, <3>4 DEF TypeOK
    <3> QED BY <1>5, <3>5, <3>6, JobKept DEF Reclaim
  <2>2. CASE ~(Stale(job[r].date, job[r].lag) \/ Due(job[r].date, job[r].lag))
    BY <1>5, <2>2, NextEntryType, JobKept DEF Reclaim, TypeOK
  <2> QED BY <2>1, <2>2
<1>6. ASSUME NEW r \in Replicas, Find(r)
      PROVE  TypeOK'
  <2>1. latest[job[r].date] \in {NoBriefing} \cup Briefings
    BY JobTyped DEF TypeOK, Job
  <2>2. /\ [job[r] EXCEPT !.pc = "generate"] \in Job
        /\ [job[r] EXCEPT !.pc = "prepare", !.briefing = latest[job[r].date]] \in Job
    BY ZenonT(60), <2>1, JobTyped DEF Job, Steps
  <2>3. job' \in [Replicas -> Job]
    BY <1>6, <2>2 DEF Find, TypeOK
  <2> QED BY <1>6, <2>3, JobKept DEF Find, TypeOK
<1>7. ASSUME NEW r \in Replicas, Generate(r)
      PROVE  TypeOK'
  <2>1. ASSUME NEW b \in {NoBriefing} \cup Briefings
        PROVE  [job[r] EXCEPT !.pc = "prepare", !.briefing = b] \in Job
    BY ZenonT(60), JobTyped DEF Job, Steps
  <2>2. CASE /\ recent # NoBriefing
             /\ job' = [job EXCEPT ![r].pc = "prepare", ![r].briefing = recent]
    <3>1. job' \in [Replicas -> Job]
      BY <2>1, <2>2 DEF TypeOK
    <3> QED BY <1>7, <2>2, <3>1, JobKept DEF Generate, TypeOK
  <2>3. CASE job' = [job EXCEPT ![r].pc = "save", ![r].day = today]
    <3>1. [job[r] EXCEPT !.pc = "save", !.day = today] \in Job
      BY ZenonT(60), JobTyped DEF TypeOK, Job, Steps
    <3>2. job' \in [Replicas -> Job]
      BY <2>3, <3>1 DEF TypeOK
    <3> QED BY <1>7, <3>2, JobKept DEF Generate, TypeOK
  <2>4. CASE Conclude(r, "claimed", "skipped")
    BY <1>7, <2>4, ConcludeType, JobKept DEF Generate, TypeOK, Statuses, Closed
  <2>5. CASE Conclude(r, "claimed", "retryable_failed")
    BY <1>7, <2>5, ConcludeType, JobKept DEF Generate, TypeOK, Statuses, Closed
  <2> QED BY <1>7, <2>2, <2>3, <2>4, <2>5 DEF Generate
<1>22. ASSUME NEW r \in Replicas, SaveBriefing(r)
       PROVE  TypeOK'
  <2>1. job[r].day \in Dates
    BY JobTyped DEF Job
  <2>2. CASE Conclude(r, "claimed", "retryable_failed") /\ UNCHANGED content
    BY <1>22, <2>2, ConcludeType, JobKept DEF SaveBriefing, TypeOK, Statuses, Closed
  <2>3. CASE NewBriefing(job[r].day, TRUE)
    <3>1. /\ generated' \in Briefings /\ generated' \in 0..MaxBriefings
          /\ latest' \in [Dates -> {NoBriefing} \cup Briefings]
          /\ recent' \in {NoBriefing} \cup Briefings
      BY <2>1, <2>3, NewBriefingType
    <3>2. [job[r] EXCEPT !.pc = "prepare", !.briefing = generated'] \in Job
      BY ZenonT(60), <3>1, JobTyped DEF Job, Steps
    <3>3. job' \in [Replicas -> Job]
      BY <1>22, <3>2, ConcludeType DEF SaveBriefing, TypeOK, Statuses, Closed
    <3> QED BY <1>22, <3>1, <3>3 DEF SaveBriefing, TypeOK, mailbox
  <2> QED BY <1>22, <2>2, <2>3 DEF SaveBriefing
<1>8. ASSUME NEW r \in Replicas, Prepare(r)
      PROVE  TypeOK'
  <2>1. job' \in [Replicas -> Job]
    BY <1>8, GoType, ConcludeType DEF Prepare, Steps, Statuses
  <2> QED BY <1>8, <2>1, JobKept DEF Prepare, TypeOK
<1>9. ASSUME NEW r \in Replicas, MarkRendered(r)
      PROVE  TypeOK'
  <2>1. CASE /\ Move(r, "rendered")
             /\ job' = [job EXCEPT ![r].pc = "consent", ![r].optedOut = ~enabled]
    <3>1. [job[r] EXCEPT !.pc = "consent", !.optedOut = ~enabled] \in Job
      BY ZenonT(60), JobTyped DEF Job, Steps
    <3>2. job' \in [Replicas -> Job]
      BY <2>1, <3>1 DEF TypeOK
    <3>3. ledger' \in [Dates -> Delivery]
      BY <2>1, MoveType DEF Statuses
    <3> QED BY <1>9, <3>2, <3>3, JobKept DEF MarkRendered
  <2>2. CASE ClaimLost(r, "claimed")
    BY <1>9, <2>2, NextEntryType, JobKept DEF MarkRendered, ClaimLost, TypeOK
  <2> QED BY <1>9, <2>1, <2>2 DEF MarkRendered
<1>10. ASSUME NEW r \in Replicas, CheckConsent(r)
       PROVE  TypeOK'
  <2>1. job' \in [Replicas -> Job]
    BY <1>10, GoType, ConcludeType DEF CheckConsent, Steps, Statuses, Closed
  <2> QED BY <1>10, <2>1, JobKept DEF CheckConsent, TypeOK
<1>11. ASSUME NEW r \in Replicas, MarkSending(r)
       PROVE  TypeOK'
  <2>1. CASE Move(r, "sending") /\ Go(r, "smtp")
    BY <1>11, <2>1, MoveType, GoType, JobKept DEF MarkSending, Statuses, Steps
  <2>2. CASE ClaimLost(r, "rendered")
    BY <1>11, <2>2, NextEntryType, JobKept DEF MarkSending, ClaimLost, TypeOK
  <2> QED BY <1>11, <2>1, <2>2 DEF MarkSending
<1>12. ASSUME NEW r \in Replicas, Send(r)
       PROVE  TypeOK'
  <2> DEFINE d == job[r].date
  <2>1. PICK reply \in Replies \ {"none"} :
          /\ job' = [job EXCEPT ![r].pc = "settle", ![r].expect = "sending",
                               ![r].goal = Outcome(reply), ![r].reply = reply]
          /\ reply = "lost" => lost[d] < MaxLostReplies
          /\ copies' = IF reply \in {"accepted", "lost"}
                         THEN [copies EXCEPT ![d] = @ + 1] ELSE copies
          /\ lost' = IF reply = "lost" THEN [lost EXCEPT ![d] = @ + 1] ELSE lost
          /\ mailed' = IF reply \in {"accepted", "lost"}
                         THEN [mailed EXCEPT ![d] = @ \cup {job[r].briefing}]
                         ELSE mailed
    BY <1>12 DEF Send
  <2>2. Outcome(reply) \in Statuses
    BY DEF Outcome, Statuses, Closed
  <2>3. [job[r] EXCEPT !.pc = "settle", !.expect = "sending",
                       !.goal = Outcome(reply), !.reply = reply] \in Job
    <3> DEFINE goal == Outcome(reply)
    <3> HIDE DEF goal
    <3>1. "settle" \in Steps /\ "sending" \in Statuses /\ goal \in Statuses
      BY <2>2 DEF Steps, Statuses, goal
    <3>2. [job[r] EXCEPT !.pc = "settle", !.expect = "sending",
                         !.goal = goal, !.reply = reply] \in Job
      BY <3>1, <2>1, JobTyped DEF Job
    <3> QED BY <3>2 DEF goal
  <2>4. job' \in [Replicas -> Job]
    BY <2>1, <2>3 DEF TypeOK
  <2>5. d \in Dates
    BY JobTyped DEF Job
  <2>6. copies' \in [Dates -> Nat] /\ lost' \in [Dates -> 0..MaxLostReplies]
    BY <2>1, <2>5 DEF TypeOK
  <2>7. UNCHANGED <<ledger, account, content, faults>>
    BY <1>12 DEF Send
  <2>8. job[r].briefing \in {NoBriefing} \cup Briefings
    BY JobTyped DEF Job
  <2>9. mailed' \in [Dates -> SUBSET ({NoBriefing} \cup Briefings)]
    BY <2>1, <2>5, <2>8 DEF TypeOK
  <2> QED BY <2>4, <2>6, <2>7, <2>9 DEF TypeOK, content
<1>13. ASSUME NEW r \in Replicas, Settle(r)
       PROVE  TypeOK'
  <2>1. job[r].goal \in Statuses
    BY JobTyped DEF Job
  <2>2. CASE Move(r, job[r].goal) /\ NextEntry(r)
    BY <1>13, <2>1, <2>2, MoveType, NextEntryType, JobKept DEF Settle
  <2>3. CASE ClaimLost(r, job[r].expect)
    BY <1>13, <2>3, NextEntryType, JobKept DEF Settle, ClaimLost, TypeOK
  <2> QED BY <1>13, <2>2, <2>3 DEF Settle
<1>14. ASSUME NEW r \in Replicas, Escape(r)
       PROVE  TypeOK'
  BY <1>14, NextEntryType DEF Escape, TypeOK, content, mailbox
<1>15. ASSUME NEW r \in Replicas, Crash(r)
       PROVE  TypeOK'
  BY <1>15, IdleRunType DEF Crash, TypeOK, content, mailbox
<1>16. CASE OptIn
  <2>1. \A r \in Replicas : [job[r] EXCEPT !.optedOut = FALSE] \in Job
    BY JobTyped DEF Job
  <2> QED BY <1>16, <2>1 DEF OptIn, TypeOK, content, mailbox
<1>17. CASE OptOut \/ ChangeBriefingTime \/ ScheduledMinute \/ MinuteEnds
  BY <1>17 DEF OptOut, ChangeBriefingTime, ScheduledMinute, MinuteEnds, TypeOK,
               content, mailbox
<1>18. CASE AskBriefing
  <2>1. PICK day \in Dates, reusable \in BOOLEAN : NewBriefing(day, reusable)
    BY <1>18 DEF AskBriefing
  <2>2. /\ generated' \in 0..MaxBriefings
        /\ latest' \in [Dates -> {NoBriefing} \cup Briefings]
        /\ recent' \in {NoBriefing} \cup Briefings
    BY <2>1, NewBriefingType
  <2> QED BY <1>18, <2>2 DEF AskBriefing, TypeOK, mailbox
<1>19. CASE Midnight
  BY <1>19 DEF Midnight, TypeOK, Dates, content, mailbox
<1>20. CASE Tick
  <2>1. \A r \in Replicas :
          job[r].lag < MaxLag => [job[r] EXCEPT !.lag = @ + 1] \in Job
    <3> TAKE r \in Replicas
    <3> HAVE job[r].lag < MaxLag
    <3>1. job[r] \in Job /\ job[r].lag + 1 \in 0..MaxLag
      BY JobTyped DEF Job
    <3> QED BY <3>1 DEF Job
  <2>2. job' \in [Replicas -> Job]
    BY <1>20, <2>1 DEF Tick, TypeOK
  <2>3. ASSUME NEW d \in Dates,
               NEW age \in 0..MaxAge, NEW wait \in (-MaxLag)..RetryDelay
        PROVE  [ledger[d] EXCEPT !.age = age, !.wait = wait] \in Delivery
    BY ZenonT(60) DEF TypeOK, Delivery
  <2>4. ASSUME NEW d \in Dates
        PROVE  /\ (IF ledger[d].status = "claimed" /\ ledger[d].age < MaxAge
                     THEN ledger[d].age + 1 ELSE ledger[d].age) \in 0..MaxAge
               /\ (IF ledger[d].status = "retryable_failed" /\ ledger[d].wait > -MaxLag
                     THEN ledger[d].wait - 1 ELSE ledger[d].wait) \in (-MaxLag)..RetryDelay
    <3>1. /\ ledger[d].age \in 0..MaxAge /\ ledger[d].wait \in (-MaxLag)..RetryDelay
          /\ MaxAge \in Nat
      BY DEF TypeOK, Delivery, MaxAge
    <3> QED BY <3>1
  <2>5. ledger' \in [Dates -> Delivery]
    BY <1>20, <2>3, <2>4 DEF Tick
  <2> QED BY <1>20, <2>2, <2>5 DEF Tick, TypeOK, mailbox, NoBriefing
<1>21. CASE UNCHANGED vars
  BY <1>21 DEF vars, TypeOK
<1> QED
  BY <1>1, <1>2, <1>3, <1>4, <1>5, <1>6, <1>7, <1>8, <1>9, <1>10, <1>11, <1>12,
     <1>13, <1>14, <1>15, <1>16, <1>17, <1>18, <1>19, <1>20, <1>21, <1>22
     DEF Next, JobStep, Environment

\* Every reachable state is well typed: in particular every status written is
\* one the CHECK constraint of the table admits, and no age, lag or wait leaves
\* its range.
THEOREM TypeCorrect == Spec => []TypeOK
<1>1. Init => TypeOK
  BY InitType
<1>2. TypeOK /\ [Next]_vars => TypeOK'
  BY StepType
<1> QED BY <1>1, <1>2, PTL DEF Spec

-----------------------------------------------------------------------------
(* The inductive invariant.  A step of run r touches its own record and the  *)
(* row of its date only; LocalStep reduces its effect to those two.          *)

LEMMA SenderIsAlone ==
  ASSUME LedgerInv, NEW r \in Replicas, NEW s \in Replicas, r # s, Sender(s),
         ledger[job[r].date].status # "sending" \/ Holds(r, "sending")
  PROVE  job[s].date # job[r].date
BY DEF LedgerInv, RunInv, ClaimInv, SenderInv, Sender, TokensDiffer, Holds

LEMMA LocalStep ==
  ASSUME TypeOK, LedgerInv, NEW r \in Replicas, NEW d \in Dates,
         \A s \in Replicas : s # r => job'[s] = job[s],
         \A e \in Dates : e # d =>
            /\ ledger'[e] = ledger[e] /\ copies'[e] = copies[e]
            /\ lost'[e] = lost[e] /\ mailed'[e] = mailed[e],
         mailed[d] \subseteq mailed'[d],
         enabled' = enabled,
         \A s \in Replicas : s # r /\ Sender(s) => job[s].date # d,
         TokensDiffer', RunInv(r)', RowInv(d)'
  PROVE  LedgerInv'
<1>1. ASSUME NEW s \in Replicas, s # r
      PROVE  RunInv(s)'
  <2>1. job'[s] = job[s] /\ job[s].date \in Dates
    BY <1>1, JobTyped DEF Job
  <2>2. RunInv(s)
    BY DEF LedgerInv
  <2>3. SenderInv(s)'
    BY <1>1, <2>1, <2>2 DEF RunInv, SenderInv, Sender, Holds
  <2>4. PlanInv(s)'
    BY <2>1, <2>2 DEF RunInv, PlanInv
  <2>5. BriefingInv(s)'
    <3>1. mailed[job[s].date] \subseteq mailed'[job[s].date]
      BY <2>1
    <3> QED BY <2>1, <2>2, <3>1 DEF RunInv, BriefingInv, Sender
  <2>6. OptOutInv(s)'
    BY <2>1, <2>2 DEF RunInv, OptOutInv
  <2>7. ClaimInv(s)'
    BY <2>1, <2>2 DEF RunInv, ClaimInv
  <2> QED BY <2>3, <2>4, <2>5, <2>6, <2>7 DEF RunInv
<1>2. ASSUME NEW e \in Dates, e # d
      PROVE  RowInv(e)'
  BY <1>2 DEF LedgerInv, RowInv
<1> QED BY <1>1, <1>2 DEF LedgerInv

LEMMA QuietStep ==
  ASSUME TypeOK, LedgerInv, NEW r \in Replicas,
         \A s \in Replicas : s # r => job'[s] = job[s],
         job'[r].token \in {job[r].token, NoToken},
         UNCHANGED <<ledger, enabled, mailbox>>,
         RunInv(r)'
  PROVE  LedgerInv'
<1>1. TokensDiffer'
  BY DEF LedgerInv, TokensDiffer
<1>2. ASSUME NEW s \in Replicas, s # r
      PROVE  RunInv(s)'
  BY <1>2 DEF LedgerInv, RunInv, ClaimInv, SenderInv, PlanInv, BriefingInv, OptOutInv, Sender,
              Holds, mailbox
<1>3. ASSUME NEW d \in Dates
      PROVE  RowInv(d)'
  BY DEF LedgerInv, RowInv, mailbox
<1> QED BY <1>1, <1>2, <1>3 DEF LedgerInv

\* A run with no attempt under way.
LEMMA RestingRun ==
  ASSUME NEW r \in Replicas, NEW pc \in {"idle", "next"}, NEW lag, NEW todo,
         job'[r] = Run(pc, lag, todo)
  PROVE  RunInv(r)' /\ job'[r].token = NoToken
BY DEF Run, RunInv, ClaimInv, SenderInv, PlanInv, BriefingInv, OptOutInv, Sender

LEMMA NextEntryKeeps ==
  ASSUME TypeOK, LedgerInv, NEW r \in Replicas, NextEntry(r),
         UNCHANGED <<ledger, enabled, mailbox>>
  PROVE  LedgerInv'
<1>1. job'[r] = Run("next", job[r].lag, job[r].todo)
  BY DEF NextEntry, TypeOK
<1>2. \A s \in Replicas : s # r => job'[s] = job[s]
  BY DEF NextEntry, TypeOK
<1> QED BY <1>1, <1>2, RestingRun, QuietStep

LEMMA ConcludeKeeps ==
  ASSUME TypeOK, LedgerInv, NEW r \in Replicas,
         job[r].pc \in {"generate", "save", "prepare", "consent"},
         NEW expect \in {"claimed", "rendered"},
         NEW goal \in {"retryable_failed", "skipped", "unsubscribed", "permanent_failed"},
         Conclude(r, expect, goal), UNCHANGED <<ledger, enabled, mailbox>>
  PROVE  LedgerInv'
<1>1. /\ job'[r].pc = "settle" /\ job'[r].expect = expect /\ job'[r].goal = goal
      /\ job'[r].reply = job[r].reply /\ job'[r].token = job[r].token
  BY JobTyped DEF Conclude, TypeOK, Job
<1>2. \A s \in Replicas : s # r => job'[s] = job[s]
  BY DEF Conclude, TypeOK
<1>3. job[r].reply = "none" /\ job[r].token # NoToken
  BY DEF LedgerInv, RunInv, PlanInv, ClaimInv
<1>4. RunInv(r)'
  BY <1>1, <1>3 DEF RunInv, ClaimInv, SenderInv, PlanInv, BriefingInv, OptOutInv, Sender
<1> QED BY <1>1, <1>2, <1>4, QuietStep

\* Going to a step where only the claim and the briefing matter.
LEMMA GoKeeps ==
  ASSUME TypeOK, LedgerInv, NEW r \in Replicas, job[r].pc # "settle",
         NEW pc \in {"reclaim", "find", "generate", "save", "prepare", "rendered", "sending"},
         job'[r].pc = pc, job'[r].token = job[r].token, job'[r].reply = job[r].reply,
         pc \in {"prepare", "rendered", "sending"} => job'[r].briefing # NoBriefing,
         pc = "sending" => ~job'[r].optedOut,
         pc # "reclaim" => job[r].token # NoToken,
         \A s \in Replicas : s # r => job'[s] = job[s],
         UNCHANGED <<ledger, enabled, mailbox>>
  PROVE  LedgerInv'
<1>1. job[r].reply = "none"
  BY DEF LedgerInv, RunInv, PlanInv
<1>2. RunInv(r)'
  BY <1>1 DEF RunInv, ClaimInv, SenderInv, PlanInv, BriefingInv, OptOutInv, Sender
<1> QED BY <1>2, QuietStep

-----------------------------------------------------------------------------
(* One lemma per action that touches a row or the mail.                      *)

LEMMA FreshDiffers ==
  ASSUME TypeOK, LedgerInv, NEW r \in Replicas, NEW t \in Tokens, Fresh(t),
         job' = [job EXCEPT ![r].pc = "find", ![r].token = t]
  PROVE  /\ TokensDiffer'
         /\ \A s \in Replicas : s # r => job'[s] = job[s]
         /\ job'[r] = [job[r] EXCEPT !.pc = "find", !.token = t]
         /\ job'[r].pc = "find" /\ job'[r].token = t /\ job'[r].reply = job[r].reply
<1>1. \A s \in Replicas : s # r => job'[s] = job[s]
  BY DEF TypeOK
<1>2. job'[r] = [job[r] EXCEPT !.pc = "find", !.token = t]
  BY DEF TypeOK
<1>3. job'[r].pc = "find" /\ job'[r].token = t /\ job'[r].reply = job[r].reply
  BY ZenonT(60), <1>2, JobTyped DEF Job
<1>4. \A s \in Replicas : s # r => job'[s].token = job[s].token /\ job[s].token # t
  BY <1>1 DEF Fresh
<1>5. TokensDiffer'
  <2> SUFFICES ASSUME NEW a \in Replicas, NEW b \in Replicas, a # b
               PROVE  job'[a].token # job'[b].token \/ job'[a].token = NoToken
    BY DEF TokensDiffer
  <2>1. job[a].token # job[b].token \/ job[a].token = NoToken
    BY DEF LedgerInv, TokensDiffer
  <2> QED BY <1>3, <1>4, <2>1
<1> QED BY <1>1, <1>2, <1>3, <1>5

LEMMA FindRun ==
  ASSUME LedgerInv, NEW r \in Replicas, job[r].pc # "settle", job'[r].pc = "find",
         job'[r].reply = job[r].reply, job'[r].token # NoToken
  PROVE  RunInv(r)'
BY DEF LedgerInv, RunInv, ClaimInv, SenderInv, PlanInv, BriefingInv, OptOutInv, Sender

LEMMA ClaimKeeps ==
  ASSUME TypeOK, LedgerInv, NEW r \in Replicas, Claim(r)
  PROVE  LedgerInv'
<1>0. PICK d \in Dates : d = job[r].date
  BY JobTyped DEF Job
<1>1. CASE ledger[d].status = "none"
  <2>1. PICK t \in Tokens :
          /\ Fresh(t)
          /\ ledger' = [ledger EXCEPT ![d] =
                          [NoDelivery EXCEPT !.status = "claimed", !.token = t]]
          /\ job' = [job EXCEPT ![r].pc = "find", ![r].token = t]
    BY <1>0, <1>1 DEF Claim
  <2>3. ledger'[d].status = "claimed" /\ \A e \in Dates : e # d => ledger'[e] = ledger[e]
    BY <2>1 DEF TypeOK, NoDelivery
  <2>4. \A s \in Replicas : s # r /\ Sender(s) => job[s].date # d
    BY <1>0, <1>1, SenderIsAlone
  <2>5. RunInv(r)'
    <3>1. t # NoToken
      BY DeliveryAssumption DEF DeliveryAssumption
    <3>2. job[r].pc # "settle"
      BY DEF Claim
    <3>3. job'[r].pc = "find" /\ job'[r].token = t /\ job'[r].reply = job[r].reply
      BY <2>1, FreshDiffers
    <3> QED BY <3>1, <3>2, <3>3, FindRun
  <2>6. RowInv(d)'
    BY <1>1, <2>3 DEF Claim, mailbox, LedgerInv, RowInv
  <2> QED BY ZenonT(60), <2>1, <2>3, <2>4, <2>5, <2>6, FreshDiffers, LocalStep
             DEF Claim, mailbox, account
<1>2. CASE ledger[d].status # "none"
  <2>1. Go(r, "reclaim") /\ UNCHANGED <<ledger, enabled, mailbox>> /\ job[r].pc = "claim"
    BY <1>0, <1>2 DEF Claim, account
  <2>2. /\ job'[r].pc = "reclaim" /\ job'[r].token = job[r].token
        /\ job'[r].reply = job[r].reply
        /\ \A s \in Replicas : s # r => job'[s] = job[s]
    BY <2>1, JobTyped DEF Go, TypeOK, Job
  <2> QED BY <2>1, <2>2, GoKeeps
<1> QED BY <1>1, <1>2

LEMMA ReclaimKeeps ==
  ASSUME TypeOK, LedgerInv, NEW r \in Replicas, Reclaim(r)
  PROVE  LedgerInv'
<1>0. PICK d \in Dates : d = job[r].date
  BY JobTyped DEF Job
<1>1. CASE Stale(d, job[r].lag) \/ Due(d, job[r].lag)
  <2>1. PICK t \in Tokens :
          /\ Fresh(t)
          /\ ledger' = [ledger EXCEPT ![d].status = "claimed", ![d].token = t,
                                      ![d].age = job[r].lag, ![d].wait = 0]
          /\ job' = [job EXCEPT ![r].pc = "find", ![r].token = t]
    BY <1>0, <1>1 DEF Reclaim
  <2>2. ledger[d].status \in {"claimed", "retryable_failed"}
    BY <1>1 DEF Stale, Due
  <2>3. ledger'[d].status = "claimed" /\ \A e \in Dates : e # d => ledger'[e] = ledger[e]
    BY <2>1 DEF TypeOK, Delivery
  <2>4. \A s \in Replicas : s # r /\ Sender(s) => job[s].date # d
    BY <1>0, <2>2, SenderIsAlone
  <2>5. RunInv(r)'
    <3>1. t # NoToken
      BY DeliveryAssumption DEF DeliveryAssumption
    <3>2. job[r].pc # "settle"
      BY DEF Reclaim
    <3>3. job'[r].pc = "find" /\ job'[r].token = t /\ job'[r].reply = job[r].reply
      BY <2>1, FreshDiffers
    <3> QED BY <3>1, <3>2, <3>3, FindRun
  <2>6. RowInv(d)'
    BY <2>2, <2>3 DEF Reclaim, mailbox, LedgerInv, RowInv
  <2> QED BY <2>1, <2>2, <2>3, <2>4, <2>5, <2>6, FreshDiffers, LocalStep
             DEF Reclaim, mailbox, account
<1>2. CASE ~(Stale(d, job[r].lag) \/ Due(d, job[r].lag))
  BY <1>0, <1>2, NextEntryKeeps DEF Reclaim, account
<1> QED BY <1>1, <1>2

\* A fenced transition to another status than sending and sent.
LEMMA FencedMove ==
  ASSUME TypeOK, LedgerInv, NEW r \in Replicas, NEW expect, Holds(r, expect),
         NEW status, Move(r, status)
  PROVE  /\ job[r].date \in Dates
         /\ ledger'[job[r].date].status = status
         /\ ledger'[job[r].date].token = job[r].token
         /\ ledger'[job[r].date].briefing = IF job[r].briefing = NoBriefing
                                              THEN ledger[job[r].date].briefing
                                              ELSE job[r].briefing
         /\ \A e \in Dates : e # job[r].date => ledger'[e] = ledger[e]
         /\ job[r].token # NoToken =>
              \A s \in Replicas : s # r /\ Sender(s) => job[s].date # job[r].date
<1>1. job[r].date \in Dates
  BY JobTyped DEF Job
<1> DEFINE d == job[r].date
           b == IF job[r].briefing = NoBriefing THEN ledger[d].briefing ELSE job[r].briefing
<1>2. ledger' = [ledger EXCEPT ![d] = [ledger[d] EXCEPT
                   !.status = status, !.age = 0, !.wait = WaitAfter(r, status),
                   !.briefing = b]]
  BY <1>1 DEF Move, TypeOK
<1>3. ledger'[d] = [ledger[d] EXCEPT !.status = status, !.age = 0,
                      !.wait = WaitAfter(r, status), !.briefing = b]
  BY <1>1, <1>2 DEF TypeOK
<1>4. /\ ledger'[d].status = status /\ ledger'[d].token = ledger[d].token
      /\ ledger'[d].briefing = b
  <2> HIDE DEF b
  <2> QED BY <1>3, JobTyped DEF Delivery
<1>5. \A e \in Dates : e # d => ledger'[e] = ledger[e]
  BY <1>2 DEF TypeOK
<1>6. ASSUME job[r].token # NoToken, NEW s \in Replicas, s # r, Sender(s)
      PROVE  job[s].date # d
  BY <1>6 DEF LedgerInv, RunInv, ClaimInv, SenderInv, Sender, TokensDiffer, Holds
<1> QED BY <1>1, <1>4, <1>5, <1>6 DEF Holds

LEMMA MarkRenderedKeeps ==
  ASSUME TypeOK, LedgerInv, NEW r \in Replicas, MarkRendered(r)
  PROVE  LedgerInv'
<1>0. PICK d \in Dates : d = job[r].date
  BY JobTyped DEF Job
<1>1. CASE /\ Holds(r, "claimed") /\ Move(r, "rendered")
           /\ job' = [job EXCEPT ![r].pc = "consent", ![r].optedOut = ~enabled]
  <2>1. /\ job'[r].pc = "consent" /\ job'[r].optedOut = ~enabled
        /\ job'[r].token = job[r].token /\ job'[r].reply = job[r].reply
        /\ job'[r].briefing = job[r].briefing
        /\ \A s \in Replicas : s # r => job'[s] = job[s]
    BY <1>1, JobTyped DEF TypeOK, Job
  <2>2. enabled' = enabled /\ UNCHANGED mailbox /\ job[r].pc = "rendered"
    BY DEF MarkRendered, account
  <2>3. ledger[d].status = "claimed"
    BY <1>0, <1>1 DEF Holds
  <2>4. ledger'[d].status = "rendered" /\ \A e \in Dates : e # d => ledger'[e] = ledger[e]
    BY <1>0, <1>1, FencedMove
  <2>5. \A s \in Replicas : s # r /\ Sender(s) => job[s].date # d
    BY <1>0, <2>3, SenderIsAlone
  <2>6. RunInv(r)'
    BY <2>1, <2>2 DEF LedgerInv, RunInv, ClaimInv, SenderInv, PlanInv, BriefingInv, OptOutInv, Sender
  <2>7. RowInv(d)'
    BY <2>2, <2>3, <2>4 DEF LedgerInv, RowInv, mailbox
  <2>8. TokensDiffer'
    BY <2>1 DEF LedgerInv, TokensDiffer
  <2> QED BY <2>1, <2>2, <2>4, <2>5, <2>6, <2>7, <2>8, LocalStep DEF mailbox
<1>2. CASE ClaimLost(r, "claimed")
  BY <1>2, NextEntryKeeps DEF MarkRendered, ClaimLost, account
<1> QED BY <1>1, <1>2 DEF MarkRendered

LEMMA MarkSendingKeeps ==
  ASSUME TypeOK, LedgerInv, NEW r \in Replicas, MarkSending(r)
  PROVE  LedgerInv'
<1>0. PICK d \in Dates : d = job[r].date
  BY JobTyped DEF Job
<1>1. CASE Holds(r, "rendered") /\ Move(r, "sending") /\ Go(r, "smtp")
  <2>1. /\ job'[r].pc = "smtp" /\ job'[r].optedOut = job[r].optedOut
        /\ job'[r].token = job[r].token /\ job'[r].reply = job[r].reply
        /\ job'[r].briefing = job[r].briefing /\ job'[r].date = d
        /\ \A s \in Replicas : s # r => job'[s] = job[s]
    BY <1>0, <1>1, JobTyped DEF Go, TypeOK, Job
  <2>2. enabled' = enabled /\ UNCHANGED mailbox /\ job[r].pc = "sending"
    BY DEF MarkSending, account
  <2>3. ledger[d].status = "rendered"
    BY <1>0, <1>1 DEF Holds
  <2>4. /\ ledger'[d].status = "sending" /\ ledger'[d].token = job[r].token
        /\ \A e \in Dates : e # d => ledger'[e] = ledger[e]
    BY <1>0, <1>1, FencedMove
  <2>5. \A s \in Replicas : s # r /\ Sender(s) => job[s].date # d
    BY <1>0, <2>3, SenderIsAlone
  <2>6. copies[d] = lost[d] /\ lost[d] \in Nat
    BY <2>3 DEF LedgerInv, RowInv, TypeOK
  <2>7. job[r].reply = "none" /\ ~job[r].optedOut /\ job[r].briefing # NoBriefing
    BY <2>2 DEF LedgerInv, RunInv, PlanInv, OptOutInv, BriefingInv
  <2>8. job[r].token # NoToken
    BY <2>2 DEF LedgerInv, RunInv, ClaimInv
  <2>9. RunInv(r)'
    <3>1. SenderInv(r)'
      BY <2>1, <2>2, <2>4, <2>6, <2>7, <2>8 DEF SenderInv, Holds, mailbox
    <3> QED BY <2>1, <2>7, <2>8, <3>1
            DEF RunInv, PlanInv, BriefingInv, OptOutInv, Sender, ClaimInv
  <2>10. RowInv(d)'
    BY <2>2, <2>4, <2>6 DEF RowInv, mailbox
  <2>11. TokensDiffer'
    BY <2>1 DEF LedgerInv, TokensDiffer
  <2> QED BY <2>1, <2>2, <2>4, <2>5, <2>9, <2>10, <2>11, LocalStep DEF mailbox
<1>2. CASE ClaimLost(r, "rendered")
  BY <1>2, NextEntryKeeps DEF MarkSending, ClaimLost, account
<1> QED BY <1>1, <1>2 DEF MarkSending

LEMMA SendKeeps ==
  ASSUME TypeOK, LedgerInv, NEW r \in Replicas, Send(r)
  PROVE  LedgerInv'
<1>0. PICK d \in Dates : d = job[r].date
  BY JobTyped DEF Job
<1>1. PICK reply \in Replies \ {"none"} :
        /\ job' = [job EXCEPT ![r].pc = "settle", ![r].expect = "sending",
                             ![r].goal = Outcome(reply), ![r].reply = reply]
        /\ copies' = IF reply \in {"accepted", "lost"}
                       THEN [copies EXCEPT ![d] = @ + 1] ELSE copies
        /\ lost' = IF reply = "lost" THEN [lost EXCEPT ![d] = @ + 1] ELSE lost
        /\ mailed' = IF reply \in {"accepted", "lost"}
                       THEN [mailed EXCEPT ![d] = @ \cup {job[r].briefing}] ELSE mailed
  BY <1>0 DEF Send
<1>2. job[r].pc = "smtp" /\ ledger' = ledger /\ enabled' = enabled
  BY DEF Send, account
<1>3. /\ job'[r].pc = "settle" /\ job'[r].expect = "sending" /\ job'[r].reply = reply
      /\ job'[r].goal = Outcome(reply) /\ job'[r].token = job[r].token
      /\ job'[r].briefing = job[r].briefing /\ job'[r].date = d
      /\ \A s \in Replicas : s # r => job'[s] = job[s]
  <2> DEFINE goal == Outcome(reply)
  <2> HIDE DEF goal
  <2>1. job' = [job EXCEPT ![r].pc = "settle", ![r].expect = "sending",
                           ![r].goal = goal, ![r].reply = reply]
    BY <1>1 DEF goal
  <2>2. /\ job'[r].pc = "settle" /\ job'[r].expect = "sending" /\ job'[r].reply = reply
        /\ job'[r].goal = goal /\ job'[r].token = job[r].token
        /\ job'[r].briefing = job[r].briefing /\ job'[r].date = d
        /\ \A s \in Replicas : s # r => job'[s] = job[s]
    BY <1>0, <2>1, JobTyped DEF TypeOK, Job
  <2> QED BY <2>2 DEF goal
<1>4. /\ Holds(r, "sending") /\ job[r].token # NoToken /\ copies[d] = lost[d]
      /\ lost[d] \in Nat
  BY <1>0, <1>2 DEF LedgerInv, RunInv, ClaimInv, SenderInv, PlanInv, Sender, TypeOK
<1>5. \A s \in Replicas : s # r /\ Sender(s) => job[s].date # d
  BY <1>0, <1>4, SenderIsAlone
<1>6. /\ copies'[d] = lost'[d] + (IF reply = "accepted" THEN 1 ELSE 0)
      /\ lost'[d] \in Nat
      /\ reply = "accepted" => job[r].briefing \in mailed'[d]
      /\ mailed[d] \subseteq mailed'[d]
  BY <1>1, <1>4 DEF TypeOK
<1>7. \A e \in Dates : e # d => /\ copies'[e] = copies[e] /\ lost'[e] = lost[e]
                                /\ mailed'[e] = mailed[e]
  BY <1>1 DEF TypeOK
<1>8. RunInv(r)'
  <2>1. SenderInv(r)'
    BY <1>0, <1>2, <1>3, <1>4, <1>6 DEF SenderInv, Holds
  <2>2. PlanInv(r)'
    BY <1>1, <1>3 DEF PlanInv
  <2>3. BriefingInv(r)'
    BY <1>2, <1>3, <1>6 DEF BriefingInv, LedgerInv, RunInv, Sender
  <2> QED BY <1>3, <1>4, <2>1, <2>2, <2>3 DEF RunInv, OptOutInv, ClaimInv
<1>9. RowInv(d)'
  <2>1. ledger'[d].status = "sending"
    BY <1>0, <1>2, <1>4 DEF Holds
  <2> QED BY <1>6, <2>1 DEF RowInv
<1>10. TokensDiffer'
  BY <1>3 DEF LedgerInv, TokensDiffer
<1> QED BY <1>2, <1>3, <1>5, <1>6, <1>7, <1>8, <1>9, <1>10, LocalStep

LEMMA SettleKeeps ==
  ASSUME TypeOK, LedgerInv, NEW r \in Replicas, Settle(r)
  PROVE  LedgerInv'
<1>0. PICK d \in Dates : d = job[r].date
  BY JobTyped DEF Job
<1>1. CASE Holds(r, job[r].expect) /\ Move(r, job[r].goal) /\ NextEntry(r)
  <2>1. job'[r] = Run("next", job[r].lag, job[r].todo)
        /\ \A s \in Replicas : s # r => job'[s] = job[s]
    BY <1>1 DEF NextEntry, TypeOK
  <2>2. RunInv(r)' /\ job'[r].token = NoToken
    BY <2>1, RestingRun
  <2>3. enabled' = enabled /\ UNCHANGED mailbox /\ job[r].pc = "settle"
    BY DEF Settle, account
  <2>4. /\ ledger'[d].status = job[r].goal
        /\ ledger'[d].briefing = IF job[r].briefing = NoBriefing
                                   THEN ledger[d].briefing ELSE job[r].briefing
        /\ \A e \in Dates : e # d => ledger'[e] = ledger[e]
    BY <1>0, <1>1, FencedMove
  <2>5. \A s \in Replicas : s # r /\ Sender(s) => job[s].date # d
    <3>1. CASE Sender(r)
      BY <1>0, <3>1, SenderIsAlone DEF LedgerInv, RunInv, SenderInv
    <3>2. CASE ~Sender(r)
      <4>1. ledger[d].status # "sending"
        BY <1>0, <1>1, <2>3, <3>2 DEF Holds, Sender
      <4> QED BY <1>0, <4>1, SenderIsAlone
    <3> QED BY <3>1, <3>2
  <2>6. RowInv(d)'
    <3>1. CASE job[r].expect = "sending"
      <4>1. /\ copies[d] = lost[d] + (IF job[r].reply = "accepted" THEN 1 ELSE 0)
            /\ job[r].goal = Outcome(job[r].reply)
            /\ job[r].briefing # NoBriefing
            /\ job[r].reply = "accepted" => job[r].briefing \in mailed[d]
            /\ lost[d] \in Nat
        BY <1>0, <2>3, <3>1 DEF LedgerInv, RunInv, SenderInv, PlanInv, BriefingInv,
                                Sender, TypeOK
      <4> QED BY <2>3, <2>4, <4>1 DEF RowInv, Outcome, mailbox
    <3>2. CASE job[r].expect # "sending"
      <4>1. /\ job[r].goal \in {"retryable_failed", "skipped", "unsubscribed",
                                "permanent_failed"}
            /\ job[r].expect \in {"claimed", "rendered"}
        BY <2>3, <3>2 DEF LedgerInv, RunInv, PlanInv
      <4>2. copies[d] = lost[d]
        BY <1>0, <1>1, <4>1 DEF Holds, LedgerInv, RowInv
      <4> QED BY <2>3, <2>4, <4>1, <4>2 DEF RowInv, mailbox
    <3> QED BY <3>1, <3>2
  <2>7. TokensDiffer'
    BY <2>1, <2>2 DEF LedgerInv, TokensDiffer
  <2> QED BY <2>1, <2>2, <2>3, <2>4, <2>5, <2>6, <2>7, LocalStep DEF mailbox
<1>2. CASE ClaimLost(r, job[r].expect)
  BY <1>2, NextEntryKeeps DEF Settle, ClaimLost, account
<1> QED BY <1>1, <1>2 DEF Settle

LEMMA StartJobKeeps ==
  ASSUME TypeOK, LedgerInv, NEW r \in Replicas, StartJob(r)
  PROVE  LedgerInv'
<1>1. \E todo : job' = [job EXCEPT ![r] = Run("next", 0, todo)]
  BY DEF StartJob
<1>2. /\ \E todo : job'[r] = Run("next", 0, todo)
      /\ \A s \in Replicas : s # r => job'[s] = job[s]
  BY <1>1 DEF TypeOK
<1>3. UNCHANGED <<ledger, enabled, mailbox>>
  BY DEF StartJob
<1> QED BY <1>2, <1>3, RestingRun, QuietStep

LEMMA ResetKeeps ==
  ASSUME TypeOK, LedgerInv, NEW r \in Replicas, EndJob(r) \/ Escape(r) \/ Crash(r)
  PROVE  LedgerInv'
<1>1. /\ \E pc \in {"idle", "next"} : \E lag, todo : job'[r] = Run(pc, lag, todo)
      /\ \A s \in Replicas : s # r => job'[s] = job[s]
      /\ UNCHANGED <<ledger, enabled, mailbox>>
  BY DEF EndJob, Escape, Crash, NextEntry, TypeOK, account
<1> QED BY <1>1, RestingRun, QuietStep

LEMMA NextDeliveryKeeps ==
  ASSUME TypeOK, LedgerInv, NEW r \in Replicas, NextDelivery(r)
  PROVE  LedgerInv'
<1>1. /\ job'[r].pc = "claim" /\ job'[r].token = job[r].token
      /\ job'[r].reply = job[r].reply
      /\ \A s \in Replicas : s # r => job'[s] = job[s]
  BY JobTyped DEF NextDelivery, TypeOK, Job
<1>2. job[r].reply = "none" /\ UNCHANGED <<ledger, enabled, mailbox>>
  BY DEF NextDelivery, account, LedgerInv, RunInv, PlanInv
<1>3. RunInv(r)'
  BY <1>1, <1>2 DEF RunInv, ClaimInv, SenderInv, PlanInv, BriefingInv, OptOutInv, Sender
<1> QED BY <1>1, <1>2, <1>3, QuietStep

LEMMA FindKeeps ==
  ASSUME TypeOK, LedgerInv, NEW r \in Replicas, Find(r)
  PROVE  LedgerInv'
<1>1. /\ job'[r].pc = "generate" \/ (job'[r].pc = "prepare" /\ job'[r].briefing # NoBriefing)
      /\ job'[r].token = job[r].token /\ job'[r].reply = job[r].reply
      /\ \A s \in Replicas : s # r => job'[s] = job[s]
  BY JobTyped DEF Find, TypeOK, Job
<1>2. job[r].pc = "find" /\ job[r].token # NoToken /\ UNCHANGED <<ledger, enabled, mailbox>>
  BY DEF Find, account, LedgerInv, RunInv, ClaimInv
<1> QED BY <1>1, <1>2, GoKeeps

\* A run that has found its briefing, or is about to save it.
LEMMA BriefingFound ==
  ASSUME TypeOK, LedgerInv, NEW r \in Replicas, job[r].pc \in {"generate", "save"},
         UNCHANGED <<ledger, enabled, mailbox>>, NEW b, b # NoBriefing,
         job' = [job EXCEPT ![r].pc = "prepare", ![r].briefing = b]
  PROVE  LedgerInv'
<1>1. job[r].token # NoToken
  BY DEF LedgerInv, RunInv, ClaimInv
<1>2. /\ job'[r].pc = "prepare" /\ job'[r].briefing = b
      /\ job'[r].token = job[r].token /\ job'[r].reply = job[r].reply
      /\ \A s \in Replicas : s # r => job'[s] = job[s]
  BY JobTyped DEF TypeOK, Job
<1> QED BY <1>1, <1>2, GoKeeps

LEMMA GenerateKeeps ==
  ASSUME TypeOK, LedgerInv, NEW r \in Replicas, Generate(r)
  PROVE  LedgerInv'
<1>1. job[r].pc = "generate" /\ job[r].token # NoToken /\ UNCHANGED <<ledger, enabled, mailbox>>
  BY DEF Generate, account, LedgerInv, RunInv, ClaimInv
<1>2. CASE recent # NoBriefing
           /\ job' = [job EXCEPT ![r].pc = "prepare", ![r].briefing = recent]
  BY <1>1, <1>2, BriefingFound
<1>3. CASE job' = [job EXCEPT ![r].pc = "save", ![r].day = today]
  <2>1. /\ job'[r].pc = "save"
        /\ job'[r].token = job[r].token /\ job'[r].reply = job[r].reply
        /\ \A s \in Replicas : s # r => job'[s] = job[s]
    BY <1>3, JobTyped DEF TypeOK, Job
  <2> QED BY <1>1, <2>1, GoKeeps
<1>4. CASE Conclude(r, "claimed", "skipped") \/ Conclude(r, "claimed", "retryable_failed")
  BY <1>1, <1>4, ConcludeKeeps
<1> QED BY <1>2, <1>3, <1>4 DEF Generate

LEMMA SaveBriefingKeeps ==
  ASSUME TypeOK, LedgerInv, NEW r \in Replicas, SaveBriefing(r)
  PROVE  LedgerInv'
<1>1. /\ job[r].pc = "save" /\ job[r].token # NoToken /\ job[r].day \in Dates
      /\ UNCHANGED <<ledger, enabled, mailbox>>
  BY JobTyped DEF SaveBriefing, account, LedgerInv, RunInv, ClaimInv, Job
<1>2. CASE NewBriefing(job[r].day, TRUE)
           /\ job' = [job EXCEPT ![r].pc = "prepare", ![r].briefing = generated']
  <2>1. generated' # NoBriefing
    BY <1>1, <1>2, NewBriefingType
  <2> QED BY <1>1, <1>2, <2>1, BriefingFound
<1>3. CASE Conclude(r, "claimed", "retryable_failed")
  BY <1>1, <1>3, ConcludeKeeps
<1> QED BY <1>2, <1>3 DEF SaveBriefing

LEMMA PrepareKeeps ==
  ASSUME TypeOK, LedgerInv, NEW r \in Replicas, Prepare(r)
  PROVE  LedgerInv'
<1>1. /\ job[r].pc = "prepare" /\ job[r].token # NoToken /\ job[r].briefing # NoBriefing
      /\ UNCHANGED <<ledger, enabled, mailbox>>
  BY DEF Prepare, account, LedgerInv, RunInv, ClaimInv, BriefingInv
<1>2. CASE Go(r, "rendered")
  <2>1. /\ job'[r].pc = "rendered" /\ job'[r].briefing = job[r].briefing
        /\ job'[r].token = job[r].token /\ job'[r].reply = job[r].reply
        /\ \A s \in Replicas : s # r => job'[s] = job[s]
    BY <1>2, JobTyped DEF Go, TypeOK, Job
  <2> QED BY <1>1, <2>1, GoKeeps
<1>3. CASE Conclude(r, "claimed", "retryable_failed")
  BY <1>1, <1>3, ConcludeKeeps
<1> QED BY <1>2, <1>3 DEF Prepare

LEMMA CheckConsentKeeps ==
  ASSUME TypeOK, LedgerInv, NEW r \in Replicas, CheckConsent(r)
  PROVE  LedgerInv'
<1>1. /\ job[r].pc = "consent" /\ job[r].token # NoToken /\ job[r].briefing # NoBriefing
      /\ UNCHANGED <<ledger, enabled, mailbox>>
  BY DEF CheckConsent, account, LedgerInv, RunInv, ClaimInv, BriefingInv
<1>2. CASE enabled /\ Go(r, "sending")
  <2>1. /\ job'[r].pc = "sending" /\ job'[r].briefing = job[r].briefing
        /\ job'[r].token = job[r].token /\ job'[r].reply = job[r].reply
        /\ job'[r].optedOut = job[r].optedOut
        /\ \A s \in Replicas : s # r => job'[s] = job[s]
    BY <1>2, JobTyped DEF Go, TypeOK, Job
  <2>2. ~job[r].optedOut
    BY <1>1, <1>2 DEF LedgerInv, RunInv, OptOutInv
  <2> QED BY <1>1, <2>1, <2>2, GoKeeps
<1>3. CASE \E goal \in {"retryable_failed", "unsubscribed", "permanent_failed"} :
             Conclude(r, "rendered", goal)
  BY <1>1, <1>3, ConcludeKeeps
<1> QED BY <1>2, <1>3 DEF CheckConsent

-----------------------------------------------------------------------------
(* The environment.                                                          *)

\* Steps that leave what the invariant reads of every run and row.
LEMMA OutsideKeeps ==
  ASSUME TypeOK, LedgerInv,
         \A r \in Replicas :
           /\ job'[r].pc = job[r].pc /\ job'[r].token = job[r].token
           /\ job'[r].date = job[r].date /\ job'[r].briefing = job[r].briefing
           /\ job'[r].expect = job[r].expect /\ job'[r].goal = job[r].goal
           /\ job'[r].reply = job[r].reply
           /\ job'[r].optedOut => job[r].optedOut /\ (enabled' => enabled),
         \A d \in Dates :
           /\ ledger'[d].status = ledger[d].status /\ ledger'[d].token = ledger[d].token
           /\ ledger'[d].briefing = ledger[d].briefing,
         UNCHANGED mailbox
  PROVE  LedgerInv'
<1>1. TokensDiffer'
  BY DEF LedgerInv, TokensDiffer
<1>2. ASSUME NEW r \in Replicas
      PROVE  RunInv(r)'
  <2>1. RunInv(r) /\ job[r].date \in Dates
    BY JobTyped DEF LedgerInv, Job
  <2>2. ClaimInv(r)' /\ PlanInv(r)'
    BY <2>1 DEF RunInv, ClaimInv, PlanInv
  <2>3. SenderInv(r)'
    BY <2>1 DEF RunInv, SenderInv, Sender, Holds, mailbox
  <2>4. BriefingInv(r)'
    BY <2>1 DEF RunInv, BriefingInv, Sender, mailbox
  <2>5. OptOutInv(r)'
    BY <2>1 DEF RunInv, OptOutInv
  <2> QED BY <2>2, <2>3, <2>4, <2>5 DEF RunInv
<1>3. ASSUME NEW d \in Dates
      PROVE  RowInv(d)'
  BY DEF LedgerInv, RowInv, mailbox
<1> QED BY <1>1, <1>2, <1>3 DEF LedgerInv

LEMMA EnvironmentKeeps ==
  ASSUME TypeOK, LedgerInv, Environment
  PROVE  LedgerInv'
<1>1. CASE OptIn
  <2>1. \A r \in Replicas : job'[r] = [job[r] EXCEPT !.optedOut = FALSE]
    BY <1>1 DEF OptIn
  <2>2. \A r \in Replicas :
          /\ job'[r].pc = job[r].pc /\ job'[r].token = job[r].token
          /\ job'[r].date = job[r].date /\ job'[r].briefing = job[r].briefing
          /\ job'[r].expect = job[r].expect /\ job'[r].goal = job[r].goal
          /\ job'[r].reply = job[r].reply /\ job'[r].optedOut = FALSE
    BY ZenonT(60), <2>1, JobTyped DEF Job
  <2> QED BY <1>1, <2>2, OutsideKeeps DEF OptIn
<1>2. CASE OptOut \/ ChangeBriefingTime \/ AskBriefing \/ ScheduledMinute
           \/ MinuteEnds \/ Midnight
  <2>1. UNCHANGED <<ledger, job, mailbox>> /\ (enabled' => enabled)
    BY <1>2 DEF OptOut, ChangeBriefingTime, AskBriefing, ScheduledMinute, MinuteEnds,
                Midnight, account
  <2> QED BY <2>1, OutsideKeeps
<1>3. CASE Tick
  <2>1. ASSUME NEW r \in Replicas
        PROVE  /\ job'[r].pc = job[r].pc /\ job'[r].token = job[r].token
               /\ job'[r].date = job[r].date /\ job'[r].briefing = job[r].briefing
               /\ job'[r].expect = job[r].expect /\ job'[r].goal = job[r].goal
               /\ job'[r].reply = job[r].reply /\ job'[r].optedOut = job[r].optedOut
    <3>1. job'[r] = job[r] \/ job'[r] = [job[r] EXCEPT !.lag = @ + 1]
      BY <1>3 DEF Tick
    <3> QED BY <3>1, JobTyped DEF Job
  <2>2. ASSUME NEW d \in Dates
        PROVE  /\ ledger'[d].status = ledger[d].status
               /\ ledger'[d].token = ledger[d].token
               /\ ledger'[d].briefing = ledger[d].briefing
    <3>1. PICK age, wait : ledger'[d] = [ledger[d] EXCEPT !.age = age, !.wait = wait]
      BY <1>3 DEF Tick
    <3> QED BY <3>1 DEF TypeOK, Delivery
  <2>3. UNCHANGED <<enabled, mailbox>>
    BY <1>3 DEF Tick, account
  <2> QED BY <2>1, <2>2, <2>3, OutsideKeeps
<1> QED BY <1>1, <1>2, <1>3 DEF Environment

-----------------------------------------------------------------------------
(* The theorems.                                                             *)

LEMMA LedgerInvInit == Init => LedgerInv
BY DEF Init, LedgerInv, TokensDiffer, RunInv, ClaimInv, SenderInv, PlanInv, BriefingInv,
       OptOutInv, Sender, RowInv, Run, NoDelivery

LEMMA LedgerInvStep ==
  ASSUME TypeOK, LedgerInv, [Next]_vars
  PROVE  LedgerInv'
<1>1. ASSUME NEW r \in Replicas, StartJob(r) \/ JobStep(r) \/ Escape(r) \/ Crash(r)
      PROVE  LedgerInv'
  BY <1>1, StartJobKeeps, NextDeliveryKeeps, ResetKeeps, ClaimKeeps, ReclaimKeeps,
     FindKeeps, GenerateKeeps, SaveBriefingKeeps, PrepareKeeps, MarkRenderedKeeps, CheckConsentKeeps,
     MarkSendingKeeps, SendKeeps, SettleKeeps DEF JobStep
<1>2. CASE Environment
  BY <1>2, EnvironmentKeeps
<1>3. CASE UNCHANGED vars
  BY <1>3, OutsideKeeps DEF vars, mailbox
<1> QED BY <1>1, <1>2, <1>3 DEF Next

\* The inductive invariant holds in every reachable state: one sender per
\* sending row, its claim intact, and every accepted message accounted for.
THEOREM LedgerCorrect == Spec => []LedgerInv
<1>1. Init => LedgerInv
  BY LedgerInvInit
<1>2. TypeOK /\ LedgerInv /\ [Next]_vars => LedgerInv'
  BY LedgerInvStep
<1> QED BY <1>1, <1>2, TypeCorrect, PTL DEF Spec

\* However many replicas, crashes, takeovers and retries there are, the mail
\* server accepts at most one message per date beyond those it reported lost.
THEOREM NoSecondMessage == Spec => []AtMostOnceUnlessReplyLost
<1>1. TypeOK /\ LedgerInv => AtMostOnceUnlessReplyLost
  BY DEF TypeOK, LedgerInv, RowInv, AtMostOnceUnlessReplyLost, Statuses
<1> QED BY <1>1, TypeCorrect, LedgerCorrect, PTL

\* A delivery recorded as sent has its confirmed message, with its briefing.
THEOREM SentIsTrue == Spec => []SentWasMailed
<1>1. LedgerInv => SentWasMailed
  BY DEF LedgerInv, RowInv, SentWasMailed
<1> QED BY <1>1, LedgerCorrect, PTL

\* No attempt reaches the transport past an opt-out that was in force when its
\* row was marked rendered and has not been taken back.
THEOREM ConsentIsKept == Spec => []NoSendWhileOptedOut
<1>1. LedgerInv => NoSendWhileOptedOut
  BY DEF LedgerInv, RunInv, OptOutInv, NoSendWhileOptedOut
<1> QED BY <1>1, LedgerCorrect, PTL

-----------------------------------------------------------------------------
(* What a step does to the row and the messages of a date.                   *)

SameMail(d) == copies'[d] = copies[d] /\ lost'[d] = lost[d]
SameRow(d) == ledger'[d].status = ledger[d].status /\ SameMail(d)

\* The run whose outcome settles a sending row.
SettledBy(r, d) ==
  /\ job[r].pc = "settle" /\ job[r].date = d /\ job[r].reply # "none"
  /\ job[r].token = ledger[d].token
  /\ copies[d] = lost[d] + (IF job[r].reply = "accepted" THEN 1 ELSE 0)
  /\ ledger'[d].status = Outcome(job[r].reply)

\* The ways a row or its messages change.
RowMove(d) ==
  \/ /\ ledger[d].status \in {"none", "claimed", "retryable_failed"}
     /\ ledger'[d].status \in {"claimed", "rendered"} /\ SameMail(d)
  \/ ledger[d].status = "rendered" /\ ledger'[d].status = "sending" /\ SameMail(d)
  \/ /\ ledger[d].status = "sending" /\ ledger'[d].status = "sending"
     /\ copies[d] = lost[d]
     /\ \/ SameMail(d)
        \/ copies'[d] = copies[d] + 1 /\ lost'[d] \in {lost[d], lost[d] + 1}
  \/ /\ ledger[d].status = "sending" /\ SameMail(d)
     /\ \E r \in Replicas : SettledBy(r, d)
  \/ /\ ledger[d].status \in {"claimed", "rendered"} /\ SameMail(d)
     /\ ledger'[d].status \in {"retryable_failed", "skipped", "unsubscribed",
                               "permanent_failed"}

OneRowMoves ==
  \/ \A d \in Dates : SameRow(d)
  \/ \E d \in Dates : RowMove(d) /\ \A e \in Dates \ {d} : SameRow(e)

LEMMA AcquireMoves ==
  ASSUME TypeOK, NEW r \in Replicas, Claim(r) \/ Reclaim(r)
  PROVE  OneRowMoves
<1>0. PICK d \in Dates : d = job[r].date
  BY JobTyped DEF Job
<1>1. \A e \in Dates : SameMail(e)
  BY DEF Claim, Reclaim, mailbox, SameMail
<1>2. CASE UNCHANGED ledger
  BY <1>1, <1>2 DEF OneRowMoves, SameRow
<1>3. CASE ledger[d].status = "none" /\ \E t \in Tokens :
             ledger' = [ledger EXCEPT ![d] =
                          [NoDelivery EXCEPT !.status = "claimed", !.token = t]]
  <2>1. ledger'[d].status = "claimed" /\ \A e \in Dates \ {d} : ledger'[e] = ledger[e]
    BY <1>3 DEF TypeOK, NoDelivery
  <2> QED BY <1>1, <1>3, <2>1 DEF OneRowMoves, RowMove, SameRow
<1>4. CASE /\ Stale(d, job[r].lag) \/ Due(d, job[r].lag)
           /\ \E t \in Tokens :
                ledger' = [ledger EXCEPT ![d].status = "claimed", ![d].token = t,
                                         ![d].age = job[r].lag, ![d].wait = 0]
  <2>1. ledger'[d].status = "claimed" /\ \A e \in Dates \ {d} : ledger'[e] = ledger[e]
    BY <1>4 DEF TypeOK, Delivery
  <2>2. ledger[d].status \in {"claimed", "retryable_failed"}
    BY <1>4 DEF Stale, Due
  <2> QED BY <1>1, <2>1, <2>2 DEF OneRowMoves, RowMove, SameRow
<1> QED BY <1>0, <1>2, <1>3, <1>4 DEF Claim, Reclaim

LEMMA MarkMoves ==
  ASSUME TypeOK, LedgerInv, NEW r \in Replicas, MarkRendered(r) \/ MarkSending(r)
  PROVE  OneRowMoves
<1>1. \A e \in Dates : SameMail(e)
  BY DEF MarkRendered, MarkSending, mailbox, SameMail
<1>2. CASE UNCHANGED ledger
  BY <1>1, <1>2 DEF OneRowMoves, SameRow
<1>3. CASE Holds(r, "claimed") /\ Move(r, "rendered")
  <2>1. PICK d \in Dates : /\ d = job[r].date /\ ledger'[d].status = "rendered"
                           /\ \A e \in Dates \ {d} : ledger'[e] = ledger[e]
    BY <1>3, FencedMove
  <2> QED BY <1>1, <1>3, <2>1 DEF OneRowMoves, RowMove, SameRow, Holds
<1>4. CASE Holds(r, "rendered") /\ Move(r, "sending")
  <2>1. PICK d \in Dates : /\ d = job[r].date /\ ledger'[d].status = "sending"
                           /\ \A e \in Dates \ {d} : ledger'[e] = ledger[e]
    BY <1>4, FencedMove
  <2> QED BY <1>1, <1>4, <2>1 DEF OneRowMoves, RowMove, SameRow, Holds
<1> QED BY <1>2, <1>3, <1>4 DEF MarkRendered, MarkSending, ClaimLost

LEMMA SendMoves ==
  ASSUME TypeOK, LedgerInv, NEW r \in Replicas, Send(r)
  PROVE  OneRowMoves
<1>0. PICK d \in Dates : d = job[r].date
  BY JobTyped DEF Job
<1>1. PICK reply \in Replies :
        /\ copies' = IF reply \in {"accepted", "lost"}
                       THEN [copies EXCEPT ![d] = @ + 1] ELSE copies
        /\ lost' = IF reply = "lost" THEN [lost EXCEPT ![d] = @ + 1] ELSE lost
  BY <1>0 DEF Send
<1>2. ledger' = ledger /\ job[r].pc = "smtp"
  BY DEF Send
<1>3. ledger[d].status = "sending" /\ copies[d] = lost[d]
  BY <1>0, <1>2 DEF LedgerInv, RunInv, SenderInv, PlanInv, Sender, Holds, TypeOK
<1>4. \A e \in Dates \ {d} : SameRow(e)
  BY <1>1, <1>2 DEF TypeOK, SameRow, SameMail
<1>5. SameMail(d) \/ (copies'[d] = copies[d] + 1 /\ lost'[d] \in {lost[d], lost[d] + 1})
  BY <1>1 DEF TypeOK, SameMail
<1> QED BY <1>2, <1>3, <1>4, <1>5 DEF OneRowMoves, RowMove

LEMMA SettleMoves ==
  ASSUME TypeOK, LedgerInv, NEW r \in Replicas, Settle(r)
  PROVE  OneRowMoves
<1>1. \A e \in Dates : SameMail(e)
  BY DEF Settle, mailbox, SameMail
<1>2. CASE UNCHANGED ledger
  BY <1>1, <1>2 DEF OneRowMoves, SameRow
<1>3. CASE Holds(r, job[r].expect) /\ Move(r, job[r].goal)
  <2>1. PICK d \in Dates : /\ d = job[r].date /\ ledger'[d].status = job[r].goal
                           /\ \A e \in Dates \ {d} : ledger'[e] = ledger[e]
    BY <1>3, FencedMove
  <2>2. \A e \in Dates \ {d} : SameRow(e)
    BY <1>1, <2>1 DEF SameRow
  <2>3. job[r].pc = "settle" /\ PlanInv(r) /\ SenderInv(r)
    BY DEF Settle, LedgerInv, RunInv
  <2>4. CASE job[r].expect = "sending"
    <3>1. SettledBy(r, d)
      BY <1>3, <2>1, <2>3, <2>4 DEF SettledBy, PlanInv, SenderInv, Sender, Holds
    <3> QED BY <1>1, <1>3, <2>1, <2>2, <2>4, <3>1 DEF OneRowMoves, RowMove, Holds
  <2>5. CASE job[r].expect \in {"claimed", "rendered"}
    <3>1. ledger'[d].status \in {"retryable_failed", "skipped", "unsubscribed",
                                "permanent_failed"}
      BY <2>1, <2>3, <2>5 DEF PlanInv
    <3> QED BY <1>1, <1>3, <2>1, <2>2, <2>5, <3>1 DEF OneRowMoves, RowMove, Holds
  <2> QED BY <2>3, <2>4, <2>5 DEF PlanInv
<1> QED BY <1>2, <1>3 DEF Settle, ClaimLost

LEMMA StepMoves ==
  ASSUME TypeOK, LedgerInv, [Next]_vars
  PROVE  OneRowMoves
<1>1. ASSUME UNCHANGED <<ledger, mailbox>>
      PROVE  OneRowMoves
  BY <1>1 DEF OneRowMoves, SameRow, SameMail, mailbox
<1>2. CASE Tick
  <2>1. ASSUME NEW d \in Dates
        PROVE  ledger'[d].status = ledger[d].status
    <3>1. PICK age, wait : ledger'[d] = [ledger[d] EXCEPT !.age = age, !.wait = wait]
      BY <1>2 DEF Tick
    <3> QED BY <3>1 DEF TypeOK, Delivery
  <2> QED BY <1>2, <2>1 DEF Tick, OneRowMoves, SameRow, SameMail, mailbox
<1>3. CASE Environment /\ ~Tick
  BY <1>1, <1>3 DEF Environment, OptIn, OptOut, ChangeBriefingTime, AskBriefing,
                    ScheduledMinute, MinuteEnds, Midnight
<1>4. ASSUME NEW r \in Replicas,
             \/ StartJob(r) \/ NextDelivery(r) \/ EndJob(r) \/ Find(r) \/ Generate(r)
             \/ SaveBriefing(r) \/ Prepare(r) \/ CheckConsent(r) \/ Escape(r) \/ Crash(r)
      PROVE  OneRowMoves
  BY <1>1, <1>4 DEF StartJob, NextDelivery, EndJob, Find, Generate, SaveBriefing,
                    Prepare, CheckConsent, Escape, Crash
<1>5. CASE UNCHANGED vars
  BY <1>1, <1>5 DEF vars, mailbox
<1> QED BY <1>2, <1>3, <1>4, <1>5, AcquireMoves, MarkMoves, SendMoves, SettleMoves
        DEF Next, JobStep

\* A sending row is left by the run that sent its message, and by no other, and
\* only after the transport has answered.
THEOREM SenderLeaves == Spec => SendingLeftOnlyByItsSender
<1>1. TypeOK /\ LedgerInv /\ [Next]_vars =>
        [\A d \in Dates :
           ledger[d].status = "sending" /\ ledger'[d].status # "sending" =>
             \E r \in Replicas : /\ job[r].pc = "settle" /\ job[r].date = d
                                /\ job[r].reply # "none"
                                /\ job[r].token = ledger[d].token]_vars
  BY StepMoves DEF OneRowMoves, RowMove, SameRow, SettledBy
<1> QED BY <1>1, TypeCorrect, LedgerCorrect, PTL DEF Spec, SendingLeftOnlyByItsSender

\* sent, permanent_failed, skipped and unsubscribed are final.
THEOREM ClosedStays == Spec => ClosedIsFinal
<1>1. TypeOK /\ LedgerInv /\ [Next]_vars =>
        [\A d \in Dates : ledger[d].status \in Closed =>
           ledger'[d].status = ledger[d].status]_vars
  BY StepMoves DEF OneRowMoves, RowMove, SameRow, Closed
<1> QED BY <1>1, TypeCorrect, LedgerCorrect, PTL DEF Spec, ClosedIsFinal

-----------------------------------------------------------------------------
(* The refinement of DailyMail.                                              *)

\* One date's step, seen through Phase.
MailMove(d) ==
  \/ Phase(d) = "open" /\ Phase(d)' = "sending" /\ SameMail(d)
  \/ /\ Phase(d) = "sending" /\ Phase(d)' = "closed"
     /\ copies'[d] = copies[d] + 1 /\ lost'[d] = lost[d]
  \/ /\ Phase(d) = "sending" /\ Phase(d)' = "sending"
     /\ copies'[d] = copies[d] + 1 /\ lost'[d] = lost[d] + 1
  \/ Phase(d) = "sending" /\ Phase(d)' = "open" /\ SameMail(d)
  \/ Phase(d) # "closed" /\ Phase(d)' = "closed" /\ SameMail(d)

SamePhase(d) == Phase(d)' = Phase(d) /\ SameMail(d)

LEMMA RowIsMail ==
  ASSUME TypeOK, LedgerInv, NEW d \in Dates, RowMove(d)
  PROVE  MailMove(d) \/ SamePhase(d)
<1>1. copies[d] \in Nat /\ lost[d] \in Nat /\ RowInv(d)
  BY DEF TypeOK, LedgerInv
<1>2. CASE /\ ledger[d].status \in {"none", "claimed", "retryable_failed"}
           /\ ledger'[d].status \in {"claimed", "rendered"} /\ SameMail(d)
  BY <1>1, <1>2 DEF RowInv, Phase, SamePhase, SameMail, Closed
<1>3. CASE ledger[d].status = "rendered" /\ ledger'[d].status = "sending" /\ SameMail(d)
  BY <1>1, <1>3 DEF RowInv, Phase, MailMove, SameMail, Closed
<1>4. CASE /\ ledger[d].status = "sending" /\ ledger'[d].status = "sending"
           /\ copies[d] = lost[d]
           /\ \/ SameMail(d)
              \/ copies'[d] = copies[d] + 1 /\ lost'[d] \in {lost[d], lost[d] + 1}
  BY <1>1, <1>4 DEF Phase, MailMove, SamePhase, SameMail, Closed
<1>5. CASE /\ ledger[d].status = "sending" /\ SameMail(d)
           /\ \E r \in Replicas : SettledBy(r, d)
  <2>1. PICK r \in Replicas : SettledBy(r, d)
    BY <1>5
  <2>2. CASE job[r].reply = "accepted"
    BY <1>1, <1>5, <2>1, <2>2 DEF SettledBy, Outcome, Phase, SamePhase, SameMail, Closed
  <2>3. CASE job[r].reply # "accepted"
    BY <1>1, <1>5, <2>1, <2>3 DEF SettledBy, Outcome, Phase, MailMove, SameMail, Closed
  <2> QED BY <2>2, <2>3
<1>6. CASE /\ ledger[d].status \in {"claimed", "rendered"} /\ SameMail(d)
           /\ ledger'[d].status \in {"retryable_failed", "skipped", "unsubscribed",
                                     "permanent_failed"}
  BY <1>1, <1>6 DEF RowInv, Phase, MailMove, SamePhase, SameMail, Closed
<1> QED BY <1>2, <1>3, <1>4, <1>5, <1>6 DEF RowMove

LEMMA MailStep ==
  ASSUME TypeOK, TypeOK', LedgerInv, [Next]_vars
  PROVE  [Mail!Next]_(Mail!vars)
<1> DEFINE phase == [d \in Dates |-> Phase(d)]
<1>1. ASSUME \A d \in Dates : SamePhase(d)
      PROVE  UNCHANGED Mail!vars
  <2>1. phase' = phase /\ copies' = copies /\ lost' = lost
    BY <1>1 DEF SamePhase, SameMail, TypeOK
  <2> QED BY <2>1 DEF Mail!vars
<1>2. ASSUME NEW d \in Dates, MailMove(d), \A e \in Dates \ {d} : SamePhase(e)
      PROVE  Mail!Next
  <2>1. /\ phase' = [phase EXCEPT ![d] = Phase(d)']
        /\ copies' = [copies EXCEPT ![d] = copies'[d]]
        /\ lost' = [lost EXCEPT ![d] = lost'[d]]
    BY <1>2 DEF SamePhase, SameMail, TypeOK
  <2>2. phase[d] = Phase(d)
    OBVIOUS
  <2>3. SameMail(d) => copies' = copies /\ lost' = lost
    BY <2>1 DEF SameMail, TypeOK
  <2>4. lost'[d] = lost[d] => lost' = lost
    BY <2>1 DEF TypeOK
  <2>5. Phase(d)' = Phase(d) => phase' = phase
    BY <2>1
  <2> QED BY <1>2, <2>1, <2>2, <2>3, <2>4, <2>5
          DEF MailMove, Mail!Next, Mail!Attempt, Mail!Confirm, Mail!LoseReply,
              Mail!Retry, Mail!GiveUp
<1>3. \A d \in Dates : SameRow(d) => SamePhase(d)
  BY DEF SameRow, SamePhase, SameMail, Phase
<1> QED BY <1>1, <1>2, <1>3, StepMoves, RowIsMail DEF OneRowMoves

\* The ledger with its workers, the job, the transport, crashes and the clock
\* implements the promise about each date's messages.
THEOREM DailyMailImplemented == Spec => DailyMailSpec
<1>1. Init => Mail!Init
  BY DEF Init, Mail!Init, Phase, NoDelivery, Closed
<1>2. TypeOK /\ TypeOK' /\ LedgerInv /\ [Next]_vars => [Mail!Next]_(Mail!vars)
  BY MailStep
<1> QED BY <1>1, <1>2, TypeCorrect, LedgerCorrect, PTL
        DEF Spec, DailyMailSpec, Mail!Spec

=============================================================================
