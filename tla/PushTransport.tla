--------------------------- MODULE PushTransport ---------------------------
(***************************************************************************)
(* The transport of push messages.  Opening a connection and reading the   *)
(* answer are done by a few worker threads while the caller waits with a   *)
(* deadline.  A permit is taken for each piece of work, by the caller, and *)
(* given back by the worker at its end, or by the caller when the work     *)
(* could still be cancelled.  An answer that comes too late is closed by a *)
(* callback.                                                               *)
(***************************************************************************)
EXTENDS Naturals, FiniteSets

CONSTANTS
  Sends,    \* push messages under way
  Capacity  \* permits, and workers

ASSUME PushAssumption == Capacity \in Nat \ {0}

VARIABLES
  permits,   \* permits left
  send,      \* per message: where its caller is
  opening,   \* per message: the work that opens the connection
  reading,   \* per message: the work that reads the answer
  answer,    \* per message: the answer's connection
  callback   \* per message: whether the late answer is to be closed

pushVars == <<permits, send, opening, reading, answer, callback>>

Work == {"none", "queued", "running", "ending", "done", "cancelled"}
PushTypeOK ==
  /\ permits \in 0 .. Capacity
  /\ send \in [Sends -> {"new", "opening", "opened", "reading", "over", "late"}]
  /\ opening \in [Sends -> Work] /\ reading \in [Sends -> Work]
  /\ answer \in [Sends -> {"none", "open", "refusal", "closed"}]
  /\ callback \in [Sends -> BOOLEAN]

PushInit ==
  /\ permits = Capacity
  /\ send = [s \in Sends |-> "new"]
  /\ opening = [s \in Sends |-> "none"] /\ reading = [s \in Sends |-> "none"]
  /\ answer = [s \in Sends |-> "none"] /\ callback = [s \in Sends |-> FALSE]

Occupied == Cardinality({s \in Sends : opening[s] \in {"running", "ending"}})
            + Cardinality({s \in Sends : reading[s] \in {"running", "ending"}})
Close(s) == answer' = [answer EXCEPT ![s] = "closed"]

-----------------------------------------------------------------------------
(* The caller.                                                             *)

\* The work is handed over when a permit is left; otherwise the send is over,
\* and an answer that was to be read is closed.
SubmitOpening(s) ==
  /\ send[s] = "new"
  /\ IF permits > 0
     THEN /\ permits' = permits - 1
          /\ opening' = [opening EXCEPT ![s] = "queued"]
          /\ send' = [send EXCEPT ![s] = "opening"]
     ELSE /\ send' = [send EXCEPT ![s] = "over"]
          /\ UNCHANGED <<permits, opening>>
  /\ UNCHANGED <<reading, answer, callback>>

\* A refusal of the push service is an answer too, and read like one; without
\* any answer the send is over.
TakeOpened(s) ==
  /\ send[s] = "opening" /\ opening[s] = "done"
  /\ send' = [send EXCEPT ![s] = IF answer[s] = "none" THEN "over" ELSE "opened"]
  /\ UNCHANGED <<permits, opening, reading, answer, callback>>

SubmitReading(s) ==
  /\ send[s] = "opened"
  /\ IF permits > 0
     THEN /\ permits' = permits - 1
          /\ reading' = [reading EXCEPT ![s] = "queued"]
          /\ send' = [send EXCEPT ![s] = "reading"]
          /\ UNCHANGED answer
     ELSE /\ Close(s)
          /\ send' = [send EXCEPT ![s] = "over"]
          /\ UNCHANGED <<permits, reading>>
  /\ UNCHANGED <<opening, callback>>

TakeRead(s) ==
  /\ send[s] = "reading" /\ reading[s] = "done"
  /\ send' = [send EXCEPT ![s] = "over"]
  /\ UNCHANGED <<permits, opening, reading, answer, callback>>

\* The deadline has passed before there is anything to read with.
GiveUpOpened(s) ==
  /\ send[s] = "opened"
  /\ Close(s)
  /\ send' = [send EXCEPT ![s] = "over"]
  /\ UNCHANGED <<permits, opening, reading, callback>>

\* What the callback does with work that has come to its end.
CloseLate(s) == answer[s] = "open"

\* The deadline passes while the connection is opened.  The callback is added
\* first, and runs at once when the work has ended meanwhile.
DeadlineOpening(s) ==
  /\ send[s] = "opening"
  /\ send' = [send EXCEPT ![s] = "late"]
  /\ IF opening[s] = "done"
     THEN /\ answer' = IF CloseLate(s) THEN [answer EXCEPT ![s] = "closed"] ELSE answer
          /\ UNCHANGED callback
     ELSE /\ callback' = [callback EXCEPT ![s] = TRUE]
          /\ UNCHANGED answer
  /\ UNCHANGED <<permits, opening, reading>>

\* Wrong: the permit is given back although a worker has begun.
CancelAnyway(s) ==
  /\ send[s] = "late"
  /\ opening' = [opening EXCEPT ![s] = IF @ = "queued" THEN "cancelled" ELSE @]
  /\ permits' = IF permits < Capacity THEN permits + 1 ELSE permits
  /\ send' = [send EXCEPT ![s] = "over"]
  /\ UNCHANGED <<reading, answer, callback>>

\* Work that no worker has begun is cancelled, and its permit given back.
CancelOpening(s) ==
  /\ send[s] = "late"
  /\ IF opening[s] = "queued"
     THEN /\ opening' = [opening EXCEPT ![s] = "cancelled"]
          /\ permits' = permits + 1
     ELSE UNCHANGED <<opening, permits>>
  /\ send' = [send EXCEPT ![s] = "over"]
  /\ UNCHANGED <<reading, answer, callback>>

\* The same for the reading; its callback closes the answer in any case.
DeadlineReading(s) ==
  /\ send[s] = "reading"
  /\ IF reading[s] = "queued"
     THEN /\ reading' = [reading EXCEPT ![s] = "cancelled"]
          /\ permits' = permits + 1
          /\ Close(s)
     ELSE UNCHANGED <<reading, permits, answer>>
  /\ send' = [send EXCEPT ![s] = "over"]
  /\ UNCHANGED <<opening, callback>>

-----------------------------------------------------------------------------
(* The workers.                                                            *)

BeginOpening(s) ==
  /\ opening[s] = "queued" /\ Occupied < Capacity
  /\ opening' = [opening EXCEPT ![s] = "running"]
  /\ UNCHANGED <<permits, send, reading, answer, callback>>

BeginReading(s) ==
  /\ reading[s] = "queued" /\ Occupied < Capacity
  /\ reading' = [reading EXCEPT ![s] = "running"]
  /\ UNCHANGED <<permits, send, opening, answer, callback>>

\* The permit is given back in the work itself, before its result is known.
ReleaseOpening(s) ==
  /\ opening[s] = "running"
  /\ permits' = permits + 1
  /\ opening' = [opening EXCEPT ![s] = "ending"]
  /\ UNCHANGED <<send, reading, answer, callback>>

ReleaseReading(s) ==
  /\ reading[s] = "running"
  /\ permits' = permits + 1
  /\ reading' = [reading EXCEPT ![s] = "ending"]
  /\ UNCHANGED <<send, opening, answer, callback>>

\* The result: a connection, a refusal that holds one, or a plain failure.
EndOpening(s) ==
  /\ opening[s] = "ending"
  /\ opening' = [opening EXCEPT ![s] = "done"]
  /\ \E result \in {"none", "open", "refusal"} :
       answer' = [answer EXCEPT ![s] =
         IF callback[s] /\ result = "open" THEN "closed" ELSE result]
  /\ UNCHANGED <<permits, send, reading, callback>>

EndReading(s) ==
  /\ reading[s] = "ending"
  /\ reading' = [reading EXCEPT ![s] = "done"]
  /\ Close(s)
  /\ UNCHANGED <<permits, send, opening, callback>>

PushNext ==
  \E s \in Sends :
    \/ SubmitOpening(s) \/ TakeOpened(s) \/ SubmitReading(s) \/ TakeRead(s)
    \/ GiveUpOpened(s) \/ DeadlineOpening(s) \/ CancelOpening(s) \/ DeadlineReading(s)
    \/ BeginOpening(s) \/ BeginReading(s) \/ ReleaseOpening(s) \/ ReleaseReading(s)
    \/ EndOpening(s) \/ EndReading(s)

PushSpec == PushInit /\ [][PushNext]_pushVars

-----------------------------------------------------------------------------
(* Properties.                                                             *)

\* push.py:329: each permit is with a piece of work that is queued or at work,
\* whatever is cancelled or late: none is lost, and none is given back twice.
HoldsPermit(work) == work \in {"queued", "running"}
PermitsAreKept ==
  permits + Cardinality({s \in Sends : HoldsPermit(opening[s])})
          + Cardinality({s \in Sends : HoldsPermit(reading[s])}) = Capacity

\* push.py:322: when caller and workers have done with a message, no connection
\* with an answer is left open; a refusal that comes late is the exception, it
\* is left to the garbage collector.
Finished(s) ==
  send[s] = "over" /\ \A w \in {opening[s], reading[s]} : w \in {"none", "done", "cancelled"}
AnswersAreClosed ==
  \A s \in Sends :
    Finished(s) => answer[s] # "open" /\ (answer[s] = "refusal" => reading[s] = "none")
PushInv == PermitsAreKept /\ AnswersAreClosed
=============================================================================
