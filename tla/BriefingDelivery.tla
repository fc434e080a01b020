-------------------------- MODULE BriefingDelivery --------------------------
(***************************************************************************)
(* The ledger of daily briefing e-mails (briefing_email/service.py), the   *)
(* per-minute job that feeds it (scheduler/service.py), the transport      *)
(* (email.py) and one account whose owner opts in and out meanwhile.       *)
(*                                                                         *)
(* Every application replica runs the job.  A delivery is one row per      *)
(* (user, local date); the user is fixed here, so a row is named by its    *)
(* date.  Each action is one database transaction or one call of the       *)
(* transport; between two of them any other replica, the user, the clock   *)
(* or a crash may act.                                                     *)
(*                                                                         *)
(* Time is kept as ages relative to the present, in units of the retry     *)
(* delay (15 minutes): a unit that passes is Tick.  `now` of a job is      *)
(* fixed when the job starts, so the age of that instant is the job's lag. *)
(***************************************************************************)
EXTENDS Integers, Sequences, FiniteSets

CONSTANTS
  Replicas,        \* application processes, each with its own scheduler
  LastDate,        \* BOUND: local dates are 1..LastDate
  Tokens,          \* claim tokens (the claimed_at instants)
  NoToken,         \* the token of a row that does not exist
  StaleAfter,      \* _STALE_CLAIM_AFTER, in units
  RetryDelay,      \* _RETRY_DELAY, in units
  MaxLag,          \* BOUND: a run of the job lasts at most this many units
  MaxBriefings,    \* BOUND: briefings generated
  MaxLostReplies,  \* BOUND: accepted messages whose SMTP session then fails
  MaxFaults        \* BOUND: crashes and escaping exceptions

ASSUME DeliveryAssumption ==
  /\ LastDate \in Nat \ {0}
  /\ StaleAfter \in Nat /\ RetryDelay \in Nat /\ MaxLag \in Nat
  /\ MaxBriefings \in Nat /\ MaxLostReplies \in Nat /\ MaxFaults \in Nat
  /\ NoToken \notin Tokens

VARIABLES
  ledger,     \* briefing_email_deliveries, by local date
  job,        \* what each replica's run of the job is doing
  enabled,    \* users.briefing_email_enabled (and not a guest)
  today,      \* the account's local date
  slot,       \* its HH:MM of today: "before" it, "now", or "past" it
  ran,        \* replicas whose job has started in the present minute
  latest,     \* by date: the newest complete briefing of that local day
  recent,     \* a complete briefing young enough for generate_briefing
  generated,  \* how many briefings exist; their ids are 1..generated
  faults,     \* crashes and escaped exceptions so far
  copies,     \* by date: messages the mail server accepted
  lost,       \* by date: accepted messages reported as an error
  mailed      \* by date: the briefings those messages carried

vars == <<ledger, job, enabled, today, slot, ran, latest, recent, generated,
          faults, copies, lost, mailed>>
account == <<enabled, today, slot, ran>>
content == <<latest, recent, generated>>
mailbox == <<copies, lost, mailed>>

-----------------------------------------------------------------------------
(* Types                                                                   *)

Dates == 1..LastDate
NoBriefing == 0
Briefings == 1..MaxBriefings
MaxAge == StaleAfter + MaxLag   \* older claims compare alike; only a claim ages

Closed == {"sent", "permanent_failed", "skipped", "unsubscribed"}
Statuses == {"none", "claimed", "rendered", "sending", "retryable_failed"} \cup Closed

Delivery == [status : Statuses, token : Tokens \cup {NoToken},
             age : 0..MaxAge, wait : (-MaxLag)..RetryDelay,
             briefing : {NoBriefing} \cup Briefings]

Steps == {"idle", "next", "claim", "reclaim", "find", "generate", "save", "prepare",
          "rendered", "consent", "sending", "smtp", "settle"}
Replies == {"none", "accepted", "refused", "transient", "lost", "unconfigured"}

Job == [pc : Steps, lag : 0..MaxLag, todo : Seq(Dates), date : Dates, day : Dates,
        token : Tokens \cup {NoToken}, briefing : {NoBriefing} \cup Briefings,
        expect : Statuses, goal : Statuses, reply : Replies, optedOut : BOOLEAN]

NoDelivery == [status |-> "none", token |-> NoToken, age |-> 0, wait |-> 0,
               briefing |-> NoBriefing]

Run(pc, lag, todo) ==
  [pc |-> pc, lag |-> lag, todo |-> todo, date |-> 1, day |-> 1, token |-> NoToken,
   briefing |-> NoBriefing, expect |-> "none", goal |-> "none",
   reply |-> "none", optedOut |-> FALSE]

Init ==
  /\ ledger = [d \in Dates |-> NoDelivery]
  /\ job = [r \in Replicas |-> Run("idle", 0, <<>>)]
  /\ enabled \in BOOLEAN
  /\ today = 1
  /\ slot = "before"
  /\ ran = {}
  /\ latest = [d \in Dates |-> NoBriefing]
  /\ recent = NoBriefing
  /\ generated = 0
  /\ faults = 0
  /\ copies = [d \in Dates |-> 0]
  /\ lost = [d \in Dates |-> 0]
  /\ mailed = [d \in Dates |-> {}]

-----------------------------------------------------------------------------
(* Helpers.  A definition whose comment begins with "Wrong:" is the next     *)
(* one with a mistake in it; nothing uses it, and README.md tells what each  *)
(* mistake breaks.                                                           *)

\* A new instant: one that no row and no run holds.
Fresh(t) ==
  /\ t \in Tokens
  /\ \A d \in Dates : ledger[d].token # t
  /\ \A r \in Replicas : job[r].token # t

Go(r, pc) == job' = [job EXCEPT ![r].pc = pc]

\* The scheduler goes on with the next entry of this run.
NextEntry(r) == job' = [job EXCEPT ![r] = Run("next", job[r].lag, job[r].todo)]

\* Leave for the transition that ends the attempt.
Conclude(r, expect, goal) ==
  job' = [job EXCEPT ![r].pc = "settle", ![r].expect = expect, ![r].goal = goal]

\* Wrong: a sending row can be due.
DueOrSending(d, lag) ==
  ledger[d].status \in {"retryable_failed", "sending"} /\ ledger[d].wait + lag <= 0

\* Wrong: only the retries of accounts that are opted in.
DueWhileEnabled(d, lag) ==
  enabled /\ ledger[d].status = "retryable_failed" /\ ledger[d].wait + lag <= 0

\* next_attempt_at <= now of the run
Due(d, lag) == ledger[d].status = "retryable_failed" /\ ledger[d].wait + lag <= 0

\* Wrong: the newest first.
LatestOf(due) == {d \in due : \A e \in due : ledger[d].wait >= ledger[e].wait}

\* ORDER BY next_attempt_at LIMIT 1
EarliestOf(due) == {d \in due : \A e \in due : ledger[d].wait <= ledger[e].wait}

\* claimed_at <= now of the run - _STALE_CLAIM_AFTER
Stale(d, lag) == ledger[d].status = "claimed" /\ ledger[d].age - lag >= StaleAfter

\* Wrong: the row is found by its id alone.
HoldsRow(r, expect) == ledger[job[r].date].status # "none"

\* The WHERE clause of a transition: this worker's claim, still in `expect`.
Holds(r, expect) ==
  /\ ledger[job[r].date].token = job[r].token
  /\ ledger[job[r].date].status = expect

\* Wrong: the lag of the run is added.
WaitWithLag(r, status) ==
  IF status = "retryable_failed" THEN RetryDelay + job[r].lag ELSE 0

\* next_attempt_at = now of the run + _RETRY_DELAY, else NULL
WaitAfter(r, status) ==
  IF status = "retryable_failed" THEN RetryDelay - job[r].lag ELSE 0

\* _transition_delivery when the claim still holds
Move(r, status) ==
  ledger' = [ledger EXCEPT ![job[r].date].status = status,
                           ![job[r].date].age = 0,
                           ![job[r].date].wait = WaitAfter(r, status),
                           ![job[r].date].briefing =
                              IF job[r].briefing = NoBriefing
                                THEN ledger[job[r].date].briefing
                                ELSE job[r].briefing]

\* _transition_delivery when it does not: DeliveryClaimLostError leaves
\* deliver_daily_briefing and the scheduler goes on.
ClaimLost(r, expect) ==
  /\ ~Holds(r, expect)
  /\ NextEntry(r)
  /\ UNCHANGED ledger

-----------------------------------------------------------------------------
(* The job: _run_per_user_briefings                                        *)

\* The SELECT and the loop over its rows.  At most two entries are for this
\* account: its earliest due retry and, in its minute, today's delivery.  A
\* run without an entry for it works for other users.
StartJob(r) ==
  /\ job[r].pc = "idle"
  /\ slot = "now" => r \notin ran
  /\ ran' = IF slot = "now" THEN ran \cup {r} ELSE ran
  /\ LET due       == {d \in Dates : Due(d, 0)}
         retry(d)  == IF slot = "now" /\ d = today THEN <<>> ELSE <<d>>
         scheduled == IF slot = "now" /\ enabled THEN <<today>> ELSE <<>>
     IN \/ /\ due = {}
           /\ job' = [job EXCEPT ![r] = Run("next", 0, scheduled)]
        \/ \E d \in EarliestOf(due) :
             job' = [job EXCEPT ![r] = Run("next", 0, retry(d) \o scheduled)]
  /\ UNCHANGED <<ledger, enabled, today, slot, content, faults, mailbox>>

\* _generate_briefing_for_user enters deliver_daily_briefing.
NextDelivery(r) ==
  /\ job[r].pc = "next"
  /\ job[r].todo # <<>>
  /\ job' = [job EXCEPT ![r].pc = "claim", ![r].date = Head(job[r].todo),
                        ![r].todo = Tail(job[r].todo)]
  /\ UNCHANGED <<ledger, account, content, faults, mailbox>>

EndJob(r) ==
  /\ job[r].pc = "next"
  /\ job[r].todo = <<>>
  /\ job' = [job EXCEPT ![r] = Run("idle", 0, <<>>)]
  /\ UNCHANGED <<ledger, account, content, faults, mailbox>>

-----------------------------------------------------------------------------
(* deliver_daily_briefing                                                  *)

\* Wrong: ON CONFLICT DO UPDATE.
ClaimUpsert(r) ==
  /\ job[r].pc = "claim"
  /\ \E t \in Tokens :
       /\ Fresh(t)
       /\ ledger' = [ledger EXCEPT ![job[r].date] =
                       [NoDelivery EXCEPT !.status = "claimed", !.token = t]]
       /\ job' = [job EXCEPT ![r].pc = "find", ![r].token = t]
  /\ UNCHANGED <<account, content, faults, mailbox>>

\* claim_delivery: INSERT ... ON CONFLICT DO NOTHING, claimed_at = NOW()
Claim(r) ==
  /\ job[r].pc = "claim"
  /\ IF ledger[job[r].date].status = "none"
       THEN \E t \in Tokens :
              /\ Fresh(t)
              /\ ledger' = [ledger EXCEPT ![job[r].date] =
                              [NoDelivery EXCEPT !.status = "claimed", !.token = t]]
              /\ job' = [job EXCEPT ![r].pc = "find", ![r].token = t]
       ELSE Go(r, "reclaim") /\ UNCHANGED ledger
  /\ UNCHANGED <<account, content, faults, mailbox>>

\* Wrong: the claim instant is not renewed.
ReclaimSameToken(r) ==
  /\ job[r].pc = "reclaim"
  /\ LET d == job[r].date
     IN IF Stale(d, job[r].lag) \/ Due(d, job[r].lag)
          THEN /\ ledger' = [ledger EXCEPT ![d].status = "claimed", ![d].wait = 0]
               /\ job' = [job EXCEPT ![r].pc = "find", ![r].token = ledger[d].token]
          ELSE NextEntry(r) /\ UNCHANGED ledger
  /\ UNCHANGED <<account, content, faults, mailbox>>

\* The UPDATE of _acquire_delivery, claimed_at = now of the run.  When it
\* matches no row the existing status is reported and nothing is sent.
Reclaim(r) ==
  /\ job[r].pc = "reclaim"
  /\ IF Stale(job[r].date, job[r].lag) \/ Due(job[r].date, job[r].lag)
       THEN \E t \in Tokens :
              /\ Fresh(t)
              /\ ledger' = [ledger EXCEPT ![job[r].date].status = "claimed",
                                          ![job[r].date].token = t,
                                          ![job[r].date].age = job[r].lag,
                                          ![job[r].date].wait = 0]
              /\ job' = [job EXCEPT ![r].pc = "find", ![r].token = t]
       ELSE NextEntry(r) /\ UNCHANGED ledger
  /\ UNCHANGED <<account, content, faults, mailbox>>

\* _find_local_day_briefing
Find(r) ==
  /\ job[r].pc = "find"
  /\ job' = IF latest[job[r].date] = NoBriefing
              THEN [job EXCEPT ![r].pc = "generate"]
              ELSE [job EXCEPT ![r].pc = "prepare", ![r].briefing = latest[job[r].date]]
  /\ UNCHANGED <<ledger, account, content, faults, mailbox>>

\* A new complete briefing, begun on local day `day`: its until_at is that
\* instant, whatever delivery asked for it.  One begun later may already be
\* there.  Only one without a focus prompt may be reused as recent.
NewBriefing(day, reusable) ==
  /\ generated < MaxBriefings
  /\ generated' = generated + 1
  /\ \/ latest' = [latest EXCEPT ![day] = generated']
     \/ latest[day] # NoBriefing /\ UNCHANGED latest
  /\ recent' = IF reusable THEN generated' ELSE recent

\* generate_briefing: reuse a recent briefing, begin a new one, find no
\* candidates, or raise.
Generate(r) ==
  /\ job[r].pc = "generate"
  /\ \/ /\ recent # NoBriefing
        /\ job' = [job EXCEPT ![r].pc = "prepare", ![r].briefing = recent]
     \/ /\ recent = NoBriefing
        /\ job' = [job EXCEPT ![r].pc = "save", ![r].day = today]
     \/ /\ recent = NoBriefing
        /\ Conclude(r, "claimed", "skipped")
     \/ Conclude(r, "claimed", "retryable_failed")
  /\ UNCHANGED <<ledger, account, content, faults, mailbox>>

\* The model has answered: _save_briefing, which may raise before or after the
\* row is written.
SaveBriefing(r) ==
  /\ job[r].pc = "save"
  /\ \/ /\ NewBriefing(job[r].day, TRUE)
        /\ job' = [job EXCEPT ![r].pc = "prepare", ![r].briefing = generated']
     \/ /\ NewBriefing(job[r].day, TRUE) \/ UNCHANGED content
        /\ Conclude(r, "claimed", "retryable_failed")
  /\ UNCHANGED <<ledger, account, faults, mailbox>>

\* Wrong: the exception is not caught.
PrepareUncaught(r) ==
  /\ job[r].pc = "prepare"
  /\ Go(r, "rendered") \/ NextEntry(r)
  /\ UNCHANGED <<ledger, account, content, faults, mailbox>>

\* Enrichment, progress and rendering; any exception is preparation_failed.
Prepare(r) ==
  /\ job[r].pc = "prepare"
  /\ Go(r, "rendered") \/ Conclude(r, "claimed", "retryable_failed")
  /\ UNCHANGED <<ledger, account, content, faults, mailbox>>

MarkRendered(r) ==
  /\ job[r].pc = "rendered"
  /\ \/ /\ Holds(r, "claimed")
        /\ Move(r, "rendered")
        /\ job' = [job EXCEPT ![r].pc = "consent", ![r].optedOut = ~enabled]
     \/ ClaimLost(r, "claimed")
  /\ UNCHANGED <<account, content, faults, mailbox>>

\* Wrong: the opt-in is not read.
CheckConsentSkipped(r) ==
  /\ job[r].pc = "consent"
  /\ \/ \E goal \in {"retryable_failed", "permanent_failed"} : Conclude(r, "rendered", goal)
     \/ Go(r, "sending")
  /\ UNCHANGED <<ledger, account, content, faults, mailbox>>

\* Consent is read again, then the transport's configuration; a failure of
\* either read is pre_send_check_failed.
CheckConsent(r) ==
  /\ job[r].pc = "consent"
  /\ \/ Conclude(r, "rendered", "retryable_failed")
     \/ ~enabled /\ Conclude(r, "rendered", "unsubscribed")
     \/ enabled /\ Conclude(r, "rendered", "permanent_failed")
     \/ enabled /\ Go(r, "sending")
  /\ UNCHANGED <<ledger, account, content, faults, mailbox>>

\* Wrong: the message leaves before its row says so.
MarkSendingLeftOut(r) ==
  /\ job[r].pc = "sending"
  /\ Go(r, "smtp")
  /\ UNCHANGED <<ledger, account, content, faults, mailbox>>

MarkSending(r) ==
  /\ job[r].pc = "sending"
  /\ \/ Holds(r, "rendered") /\ Move(r, "sending") /\ Go(r, "smtp")
     \/ ClaimLost(r, "rendered")
  /\ UNCHANGED <<account, content, faults, mailbox>>

\* Wrong: whatever is not an SMTP error counts as sent.
OutcomeHopeful(reply) ==
  IF reply \in {"accepted", "unconfigured"} THEN "sent" ELSE "retryable_failed"

\* What the delivery becomes after send_email: every SMTP or socket error is
\* "smtp_error", whether the server took the message or not.
Outcome(reply) ==
  CASE reply = "accepted"     -> "sent"
    [] reply = "unconfigured" -> "permanent_failed"
    [] OTHER                  -> "retryable_failed"

\* send_email.  "lost": the server took the message and the session failed
\* after that, so the call reports an error.
Send(r) ==
  /\ job[r].pc = "smtp"
  /\ \E reply \in Replies \ {"none"} :
       /\ job' = [job EXCEPT ![r].pc = "settle", ![r].expect = "sending",
                             ![r].goal = Outcome(reply), ![r].reply = reply]
       /\ LET d == job[r].date
          IN /\ reply = "lost" => lost[d] < MaxLostReplies
             /\ copies' = IF reply \in {"accepted", "lost"}
                            THEN [copies EXCEPT ![d] = @ + 1] ELSE copies
             /\ lost' = IF reply = "lost" THEN [lost EXCEPT ![d] = @ + 1] ELSE lost
             /\ mailed' = IF reply \in {"accepted", "lost"}
                            THEN [mailed EXCEPT ![d] = @ \cup {job[r].briefing}]
                            ELSE mailed
  /\ UNCHANGED <<ledger, account, content, faults>>

\* The transition that ends the attempt.
Settle(r) ==
  /\ job[r].pc = "settle"
  /\ \/ Holds(r, job[r].expect) /\ Move(r, job[r].goal) /\ NextEntry(r)
     \/ ClaimLost(r, job[r].expect)
  /\ UNCHANGED <<account, content, faults, mailbox>>

-----------------------------------------------------------------------------
(* Failures                                                                *)

\* An exception nobody in deliver_daily_briefing expects (the database is
\* away): the row stays as it is and the scheduler goes on.
Escape(r) ==
  /\ job[r].pc \notin {"idle", "next"}
  /\ faults < MaxFaults
  /\ faults' = faults + 1
  /\ NextEntry(r)
  /\ UNCHANGED <<ledger, account, content, mailbox>>

\* The process dies and starts again with an idle scheduler.
Crash(r) ==
  /\ job[r].pc # "idle"
  /\ faults < MaxFaults
  /\ faults' = faults + 1
  /\ job' = [job EXCEPT ![r] = Run("idle", 0, <<>>)]
  /\ ran' = ran \ {r}
  /\ UNCHANGED <<ledger, enabled, today, slot, content, mailbox>>

-----------------------------------------------------------------------------
(* The account's owner and the clock                                       *)

OptIn ==
  /\ ~enabled
  /\ enabled' = TRUE
  /\ job' = [r \in Replicas |-> [job[r] EXCEPT !.optedOut = FALSE]]
  /\ UNCHANGED <<ledger, today, slot, ran, content, faults, mailbox>>

\* unsubscribe_user, or the settings
OptOut ==
  /\ enabled
  /\ enabled' = FALSE
  /\ UNCHANGED <<ledger, job, today, slot, ran, content, faults, mailbox>>

\* A new briefing_time may lie ahead again.
ChangeBriefingTime ==
  /\ slot = "past"
  /\ slot' = "before"
  /\ UNCHANGED <<ledger, job, enabled, today, ran, content, faults, mailbox>>

\* A briefing the user asked for is saved, with or without a focus prompt;
\* it may have been begun before midnight.
AskBriefing ==
  /\ \E reusable \in BOOLEAN, day \in {today - 1, today} \cap Dates :
       NewBriefing(day, reusable)
  /\ UNCHANGED <<ledger, job, account, faults, mailbox>>

ScheduledMinute ==
  /\ slot = "before"
  /\ slot' = "now"
  /\ ran' = {}
  /\ UNCHANGED <<ledger, job, enabled, today, content, faults, mailbox>>

\* The job is due every minute: an idle scheduler has started it.
MinuteEnds ==
  /\ slot = "now"
  /\ \A r \in Replicas : job[r].pc = "idle" => r \in ran
  /\ slot' = "past"
  /\ ran' = {}
  /\ UNCHANGED <<ledger, job, enabled, today, content, faults, mailbox>>

Midnight ==
  /\ slot # "now"
  /\ today < LastDate
  /\ today' = today + 1
  /\ slot' = "before"
  /\ UNCHANGED <<ledger, job, enabled, ran, content, faults, mailbox>>

\* A unit of time passes; no run outlives MaxLag units.
Tick ==
  /\ slot # "now"
  /\ \A r \in Replicas : job[r].lag < MaxLag
  /\ job' = [r \in Replicas |->
               IF job[r].pc = "idle" THEN job[r] ELSE [job[r] EXCEPT !.lag = @ + 1]]
  /\ ledger' = [d \in Dates |->
       [ledger[d] EXCEPT
          !.age = IF ledger[d].status = "claimed" /\ @ < MaxAge THEN @ + 1 ELSE @,
          !.wait = IF ledger[d].status = "retryable_failed" /\ @ > -MaxLag
                     THEN @ - 1 ELSE @]]
  /\ recent' = NoBriefing
  /\ UNCHANGED <<account, latest, generated, faults, mailbox>>

-----------------------------------------------------------------------------

JobStep(r) ==
  \/ NextDelivery(r) \/ EndJob(r)
  \/ Claim(r) \/ Reclaim(r) \/ Find(r) \/ Generate(r) \/ SaveBriefing(r) \/ Prepare(r)
  \/ MarkRendered(r) \/ CheckConsent(r) \/ MarkSending(r) \/ Send(r) \/ Settle(r)

Environment ==
  \/ OptIn \/ OptOut \/ ChangeBriefingTime \/ AskBriefing
  \/ ScheduledMinute \/ MinuteEnds \/ Midnight \/ Tick

Next ==
  \/ \E r \in Replicas : StartJob(r) \/ JobStep(r) \/ Escape(r) \/ Crash(r)
  \/ Environment

Spec == Init /\ [][Next]_vars

\* The job starts every minute and a unit is 15: an idle scheduler does not
\* let a unit pass over a due retry.
Punctual ==
  Tick => \A r \in Replicas, d \in Dates : job[r].pc = "idle" => ~Due(d, 0)

\* Time passes and minutes end, an idle scheduler starts the job it owes, in
\* the end punctually, and a run that is not interrupted goes on.  The owner
\* stops moving the briefing hour at some point.  Nothing is assumed of the
\* opt-in, of the hour, or of the transport.
Fairness ==
  /\ SF_vars(Tick)
  /\ WF_vars(MinuteEnds)
  /\ \A r \in Replicas : WF_vars(StartJob(r)) /\ WF_vars(JobStep(r))
  /\ <>[][Punctual /\ ~ChangeBriefingTime]_vars

FairSpec == Spec /\ Fairness

-----------------------------------------------------------------------------
(* Properties                                                              *)

\* Types of the ledger, the runs and the rest of the state.
TypeOK ==
  /\ ledger \in [Dates -> Delivery]
  /\ job \in [Replicas -> Job]
  /\ enabled \in BOOLEAN
  /\ today \in Dates
  /\ slot \in {"before", "now", "past"}
  /\ ran \subseteq Replicas
  /\ latest \in [Dates -> {NoBriefing} \cup Briefings]
  /\ recent \in {NoBriefing} \cup Briefings
  /\ generated \in 0..MaxBriefings
  /\ faults \in 0..MaxFaults
  /\ copies \in [Dates -> Nat]
  /\ lost \in [Dates -> 0..MaxLostReplies]
  /\ mailed \in [Dates -> SUBSET ({NoBriefing} \cup Briefings)]

\* The mail server accepts at most one message per local date, plus one for
\* each message it accepted while send_email reported an error: claims,
\* takeovers, retries, crashes and second replicas never add another.
AtMostOnceUnlessReplyLost == \A d \in Dates : copies[d] <= 1 + lost[d]

\* A row recorded as sent was accepted by the server, and its briefing_id is
\* one that a message of that date carried.
SentWasMailed ==
  \A d \in Dates : ledger[d].status = "sent" =>
    copies[d] = 1 + lost[d] /\ ledger[d].briefing \in mailed[d]

\* An attempt whose row was marked rendered while the account was opted out,
\* with no opt-in since, does not reach the transport: consent is read after
\* that mark, so a queued retry cannot override an earlier unsubscribe.
NoSendWhileOptedOut ==
  \A r \in Replicas : job[r].pc \in {"sending", "smtp"} => ~job[r].optedOut

\* Only the run that marked a row as sending can move it on; a stale sending
\* row is never reclaimed, whatever the clock says.
SendingLeftOnlyByItsSender ==
  [][\A d \in Dates :
       ledger[d].status = "sending" /\ ledger'[d].status # "sending" =>
         \E r \in Replicas : /\ job[r].pc = "settle" /\ job[r].date = d
                            /\ job[r].reply # "none"
                            /\ job[r].token = ledger[d].token]_vars

\* sent, permanent_failed, skipped and unsubscribed are final.
ClosedIsFinal ==
  [][\A d \in Dates : ledger[d].status \in Closed =>
       ledger'[d].status = ledger[d].status]_vars

\* A due retry is taken up, also after the account opts out (the consent check
\* must still close it) and while other dates are being served.
RetryIsTaken ==
  \A d \in Dates :
    ledger[d].status = "retryable_failed" ~> ledger[d].status # "retryable_failed"

\* Without crashes and escaping exceptions every attempt leaves its row
\* closed or waiting for a retry: none is left claimed, rendered or sending.
AttemptsEnd ==
  \A d \in Dates :
    ledger[d].status \in {"claimed", "rendered", "sending"} ~>
      ledger[d].status \in Closed \cup {"retryable_failed"}

-----------------------------------------------------------------------------
(* The inductive invariant                                                 *)

\* The run is between its transition to sending and the one that ends it.
Sender(r) == job[r].pc = "smtp" \/ (job[r].pc = "settle" /\ job[r].expect = "sending")

\* No two runs hold one claim.
TokensDiffer ==
  \A r, s \in Replicas :
    r # s => job[r].token # job[s].token \/ job[r].token = NoToken

\* An attempt holds a claim.
ClaimInv(r) ==
  job[r].pc \notin {"idle", "next", "claim", "reclaim"} => job[r].token # NoToken

\* A sender's row says sending, under the sender's claim, and every message of
\* its date but its own confirmed one was reported lost.
SenderInv(r) ==
  Sender(r) =>
    /\ Holds(r, "sending")
    /\ copies[job[r].date] =
         lost[job[r].date] + (IF job[r].reply = "accepted" THEN 1 ELSE 0)

\* What a run at its last transition may write, and over which status.
PlanInv(r) ==
  /\ job[r].pc # "settle" => job[r].reply = "none"
  /\ job[r].pc = "settle" =>
       \/ /\ job[r].expect = "sending"
          /\ job[r].reply # "none"
          /\ job[r].goal = Outcome(job[r].reply)
       \/ /\ job[r].expect \in {"claimed", "rendered"}
          /\ job[r].reply = "none"
          /\ job[r].goal \in {"retryable_failed", "skipped", "unsubscribed",
                              "permanent_failed"}

\* A run past generation carries a briefing; a confirmed one is in the mail.
BriefingInv(r) ==
  /\ job[r].pc \in {"prepare", "rendered", "consent", "sending"} \/ Sender(r) =>
       job[r].briefing # NoBriefing
  /\ job[r].reply = "accepted" => job[r].briefing \in mailed[job[r].date]

\* The opt-out recorded at the rendered mark is still in force.
OptOutInv(r) ==
  /\ job[r].pc = "consent" /\ job[r].optedOut => ~enabled
  /\ job[r].pc \in {"sending", "smtp"} => ~job[r].optedOut

RunInv(r) ==
  ClaimInv(r) /\ SenderInv(r) /\ PlanInv(r) /\ BriefingInv(r) /\ OptOutInv(r)

\* Confirmed messages: none before a row is sending, at most one while it is,
\* exactly one when it is sent.
RowInv(d) ==
  /\ ledger[d].status \notin {"sending", "sent"} => copies[d] = lost[d]
  /\ ledger[d].status = "sending" => copies[d] \in {lost[d], 1 + lost[d]}
  /\ ledger[d].status = "sent" =>
       copies[d] = 1 + lost[d] /\ ledger[d].briefing \in mailed[d]

\* The inductive invariant of the ledger: one sender per sending row, and the
\* account of every message.
LedgerInv ==
  /\ TokensDiffer
  /\ \A r \in Replicas : RunInv(r)
  /\ \A d \in Dates : RowInv(d)

-----------------------------------------------------------------------------
(* The promise                                                             *)

\* A date is closed by its final status, and already by the confirmation of
\* the server while its row still says sending.
Phase(d) ==
  IF ledger[d].status \in Closed \/ copies[d] > lost[d] THEN "closed"
  ELSE IF ledger[d].status = "sending" THEN "sending" ELSE "open"

Mail == INSTANCE DailyMail WITH phase <- [d \in Dates |-> Phase(d)]

\* The ledger, its workers and the transport implement DailyMail.
DailyMailSpec == Mail!Spec

-----------------------------------------------------------------------------
(* What the documents say and the code does not do                         *)

\* briefing_email/service.py:221, "deliver today's canonical briefing at most
\* once": whatever the transport reports, one message per date.
AtMostOnce == \A d \in Dates : copies[d] <= 1

\* The same sentence read of the briefing: no briefing is the mail of two dates.
BriefingMailedOnce ==
  \A d, e \in Dates : d # e => mailed[d] \cap mailed[e] = {}

\* Design document of the feature, line 43: the minute tick selects the users
\* whose local clock matches, so the account's minute does not end without a run
\* started in it.
ScheduledMinuteIsSeen ==
  [][slot = "now" /\ slot' = "past" => ran # {}]_vars

\* The same document, line 84: a stale claim is recovered.
StaleClaimIsRecovered ==
  \A d \in Dates : Stale(d, 0) ~> ledger[d].status # "claimed"

=============================================================================
