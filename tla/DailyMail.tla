------------------------------ MODULE DailyMail ------------------------------
(***************************************************************************)
(* What the delivery ledger promises of the messages of each local date,   *)
(* without workers, claims, clocks or crashes: one attempt at a time, and  *)
(* nothing after a confirmed message.                                      *)
(***************************************************************************)
EXTENDS Naturals

CONSTANT Dates

VARIABLES
  phase,    \* by date: "open", "sending" while an attempt is out, "closed"
  copies,   \* by date: messages the mail server accepted
  lost      \* by date: those of them that were reported as an error

vars == <<phase, copies, lost>>

Init ==
  /\ phase = [d \in Dates |-> "open"]
  /\ copies = [d \in Dates |-> 0]
  /\ lost = [d \in Dates |-> 0]

Attempt(d) ==
  /\ phase[d] = "open"
  /\ phase' = [phase EXCEPT ![d] = "sending"]
  /\ UNCHANGED <<copies, lost>>

Confirm(d) ==
  /\ phase[d] = "sending"
  /\ phase' = [phase EXCEPT ![d] = "closed"]
  /\ copies' = [copies EXCEPT ![d] = @ + 1]
  /\ UNCHANGED lost

LoseReply(d) ==
  /\ phase[d] = "sending"
  /\ copies' = [copies EXCEPT ![d] = @ + 1]
  /\ lost' = [lost EXCEPT ![d] = @ + 1]
  /\ UNCHANGED phase

Retry(d) ==
  /\ phase[d] = "sending"
  /\ phase' = [phase EXCEPT ![d] = "open"]
  /\ UNCHANGED <<copies, lost>>

GiveUp(d) ==
  /\ phase[d] # "closed"
  /\ phase' = [phase EXCEPT ![d] = "closed"]
  /\ UNCHANGED <<copies, lost>>

Next == \E d \in Dates :
          Attempt(d) \/ Confirm(d) \/ LoseReply(d) \/ Retry(d) \/ GiveUp(d)

Spec == Init /\ [][Next]_vars

=============================================================================
