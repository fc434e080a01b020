--------------------------- MODULE ReaderEvidence ---------------------------
(***************************************************************************)
(* Evidence that a reader has read an article: a lease on one article at a *)
(* time, renewed by reports of attention, which after enough of it credits *)
(* the article and moves it to done.  Tabs compete for the lease, answers  *)
(* are lost and reports sent again, bodies change, and consent may be      *)
(* withdrawn.  A request holds the account's advisory lock: one action.    *)
(*                                                                         *)
(* A token is known to the tab whose start drew it and to no other, so the *)
(* row names that tab; the sequence number only tells whether the tab has  *)
(* seen the answer to its last report.                                     *)
(***************************************************************************)
EXTENDS Integers

CONSTANTS
  Tabs,          \* tabs in which the reader reads
  Pages,         \* articles
  Nobody,        \* no tab, no row
  LeaseLength,   \* a lease without a report (20 s in the code)
  MostAtOnce,    \* attention of one report at most (15 s)
  Required,      \* attention that makes a read (30 s to 120 s)
  AtTheEnd,      \* attention at the end of the body (2 s)
  Expiry,        \* how long evidence is kept (24 h)
  Until          \* bound: the last instant

ASSUME EvidenceAssumption ==
  /\ {LeaseLength, MostAtOnce, Required, AtTheEnd, Expiry, Until} \subseteq Nat \ {0}
  /\ MostAtOnce <= LeaseLength /\ LeaseLength <= Expiry

VARIABLES
  at,         \* the server's clock
  consent,    \* the reader consents to automatic reading
  body,       \* per article, the versions of the body a reader may hold
  evidence,   \* the reader's row of evidence
  credit,     \* articles credited by evidence
  list,       \* per article: open, done, or put away by the reader
  leased      \* ticks under a lease on the body in evidence (auxiliary)

evidenceVars == <<at, consent, body, evidence, credit, list, leased>>

\* The body first fetched, the same with its text replaced and the original
\* kept, and replaced for good; a body may also be missing.
Bodies == {{"first"}, {"first", "second"}, {"second"}, {}}

Evidence == [holder: Tabs \cup {Nobody}, page: Pages, version: {"first", "second"},
             lease: 0 .. Until + LeaseLength, updated: 0 .. Until, expires: 0 .. Until + Expiry,
             attentive: 0 .. Required, end: 0 .. AtTheEnd, credited: BOOLEAN, unheard: BOOLEAN]

EvidenceTypeOK ==
  /\ at \in 0 .. Until /\ consent \in BOOLEAN
  /\ body \in [Pages -> Bodies]
  /\ evidence \in Evidence \cup {Nobody} /\ (~consent => evidence = Nobody)
  /\ credit \subseteq Pages
  /\ list \in [Pages -> {"open", "done", "away"}]
  /\ leased \in 0 .. Until

EvidenceInit ==
  /\ at = 0 /\ consent = TRUE /\ evidence = Nobody /\ credit = {} /\ leased = 0
  /\ body = [p \in Pages |-> {"first"}]
  /\ list = [p \in Pages |-> "open"]

-----------------------------------------------------------------------------
(* Requests.  Each first deletes evidence that has expired.                *)

Live == evidence # Nobody /\ evidence.expires > at

\* Wrong: the attention is kept when the body has changed.
SameArticle(p, v) == evidence.page = p /\ ~evidence.credited

SameBody(p, v) == evidence.page = p /\ evidence.version = v /\ ~evidence.credited
Smaller(a, b) == IF a < b THEN a ELSE b

\* The start of a lease keeps the attention already paid to the same body.
StartReading(t, p, v, heard) ==
  /\ consent /\ v \in body[p]
  /\ Live => evidence.lease <= at
  /\ evidence' = [holder |-> IF heard THEN t ELSE Nobody, page |-> p, version |-> v,
                  lease |-> at + LeaseLength, updated |-> at, expires |-> at + Expiry,
                  attentive |-> IF Live /\ SameBody(p, v) THEN evidence.attentive ELSE 0,
                  end |-> IF Live /\ SameBody(p, v) THEN evidence.end ELSE 0,
                  credited |-> FALSE, unheard |-> FALSE]
  /\ leased' = IF Live /\ evidence.page = p /\ evidence.version = v THEN leased ELSE 0
  /\ UNCHANGED <<at, consent, body, credit, list>>

\* Another tab's token, another body, a lease that has ended or a number out of
\* sequence is refused and changes nothing.
Reportable(t) ==
  /\ Live /\ evidence.holder = t /\ evidence.lease > at
  /\ evidence.version \in body[evidence.page]
  /\ ~evidence.unheard

Elapsed == Smaller(MostAtOnce, at - evidence.updated)

ReportReading(t, attention, atEnd, near, heard) ==
  /\ consent /\ Reportable(t) /\ atEnd <= attention
  /\ LET accepted == Smaller(attention, Elapsed)
         attentive == Smaller(Required, evidence.attentive + accepted)
         end == IF near THEN Smaller(AtTheEnd, evidence.end + Smaller(atEnd, accepted)) ELSE 0
         qualified == attentive >= Required /\ near /\ end >= AtTheEnd
         p == evidence.page IN
     /\ evidence' = [evidence EXCEPT !.attentive = attentive, !.end = end, !.updated = at,
                       !.lease = at + LeaseLength, !.credited = qualified, !.unheard = ~heard]
     /\ credit' = IF qualified THEN credit \cup {p} ELSE credit
     /\ list' = IF qualified /\ list[p] = "open" THEN [list EXCEPT ![p] = "done"] ELSE list
  /\ UNCHANGED <<at, consent, body, leased>>

\* The same report again gets the answer again.
Resend(t) ==
  /\ consent /\ Live /\ evidence.holder = t /\ evidence.unheard
  /\ evidence.version \in body[evidence.page]
  /\ evidence' = [evidence EXCEPT !.unheard = FALSE]
  /\ UNCHANGED <<at, consent, body, credit, list, leased>>

-----------------------------------------------------------------------------
(* The reader, the article and the clock.                                  *)

\* Wrong: the evidence is left to expire.
ChangeConsentKeeping ==
  /\ consent' = ~consent
  /\ UNCHANGED <<at, body, evidence, credit, list, leased>>

\* Withdrawal and renewal of consent delete the evidence.
ChangeConsent ==
  /\ consent' = ~consent
  /\ evidence' = Nobody /\ leased' = 0
  /\ UNCHANGED <<at, body, credit, list>>

MoveArticle(p, to) ==
  /\ list' = [list EXCEPT ![p] = to]
  /\ UNCHANGED <<at, consent, body, evidence, credit, leased>>

ChangeBody(p, versions) ==
  /\ body' = [body EXCEPT ![p] = versions]
  /\ UNCHANGED <<at, consent, evidence, credit, list, leased>>

TickOn ==
  /\ at < Until
  /\ at' = at + 1
  /\ leased' = IF evidence # Nobody /\ evidence.lease > at THEN leased + 1 ELSE leased
  /\ UNCHANGED <<consent, body, evidence, credit, list>>

EvidenceNext ==
  \/ \E t \in Tabs, heard \in BOOLEAN :
       \/ \E p \in Pages, v \in {"first", "second"} : StartReading(t, p, v, heard)
       \/ \E a \in 0 .. MostAtOnce, e \in 0 .. AtTheEnd, near \in BOOLEAN :
            ReportReading(t, a, e, near, heard)
  \/ \E t \in Tabs : Resend(t)
  \/ \E p \in Pages : (\E to \in {"open", "done", "away"} : MoveArticle(p, to))
                        \/ \E versions \in Bodies : ChangeBody(p, versions)
  \/ ChangeConsent \/ TickOn

EvidenceSpec == EvidenceInit /\ [][EvidenceNext]_evidenceVars

-----------------------------------------------------------------------------
(* Properties.                                                             *)

\* A credit is earned: under leases on this very article and text, since the
\* last consent, as much time has passed on the server's clock as a read takes,
\* whatever the tabs claim and however often they send it.
CreditIsEarned ==
  [][\A p \in credit' \ credit : evidence.page = p /\ leased >= Required]_evidenceVars
=============================================================================
