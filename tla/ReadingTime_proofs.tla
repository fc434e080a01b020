------------------------- MODULE ReadingTime_proofs -------------------------
(***************************************************************************)
(* What is counted of a reader's time, reads and visits is counted once,   *)
(* and what is shown is all there is to show: the invariants of each part  *)
(* of MCReading, for all values of its constants, and of all parts         *)
(* together.  Two more theorems leave the bounds of the runs out: reading  *)
(* time counted after a fence was measured after it, and a credit for an   *)
(* article was earned in real time.                                        *)
(***************************************************************************)
EXTENDS MCReading, FiniteSetTheorems, SequenceTheorems, NaturalsInduction, WellFoundedInduction, TLAPS

(***************************************************************************)
(* Reading activity: the fence                                             *)
(***************************************************************************)

-----------------------------------------------------------------------------
(* The fence                                                               *)

\* Every window the store knows was opened after the fence was raised last: it
\* voids the others, rather than to leave them to the comparison of revisions.
KnownWindow == [issued: Nat, revision: Nat, zone: Zones, receipt: Report \cup {NoReport}]
WindowsAreNew ==
  /\ now \in Nat /\ fencedAt \in Nat /\ fencedAt <= now
  /\ revision \in Nat /\ zone \in Zones
  /\ window \in [Windows -> KnownWindow \cup {Unopened}]
  /\ \A w \in Windows : window[w] # Unopened => window[w].issued >= fencedAt

LEMMA WindowsInit == ActivityInit => WindowsAreNew
  BY DEF ActivityInit, WindowsAreNew

LEMMA WindowsStep ==
  ASSUME WindowsAreNew, [ActivityNext]_activityVars
  PROVE  WindowsAreNew'
<1> USE DEF WindowsAreNew
<1>1. CASE SetConsent \/ ChangeZone \/ Refuse
  BY <1>1 DEF SetConsent, ChangeZone, Refuse, Invalidate
<1>2. CASE CleanUp
  BY <1>2 DEF CleanUp
<1>3. CASE Tick
  BY <1>3 DEF Tick
<1>4. ASSUME NEW v \in Windows, OpenWindow(v)
      PROVE  WindowsAreNew'
  <2> DEFINE opened == [issued |-> now, revision |-> revision, zone |-> zone,
                        receipt |-> NoReport]
  <2>1. opened \in KnownWindow /\ opened.issued = now
    BY DEF KnownWindow
  <2>2. ASSUME NEW w \in Windows
        PROVE  window'[w] \in {opened, Unopened, window[w]}
    BY <1>4 DEF OpenWindow
  <2>3. window' = [w \in Windows |-> window'[w]]
    BY <1>4 DEF OpenWindow
  <2> HIDE DEF opened
  <2> QED
    BY <1>4, <2>1, <2>2, <2>3 DEF OpenWindow
<1>5. ASSUME NEW v \in Windows, NEW r \in Report, Heartbeat(v, r)
      PROVE  WindowsAreNew'
  <2>1. CASE Countable(v, r)
    <3>1. window[v] \in KnownWindow
      BY <2>1 DEF Countable
    <3>2. [window[v] EXCEPT !.receipt = r] \in KnownWindow
          /\ [window[v] EXCEPT !.receipt = r].issued = window[v].issued
      BY <3>1 DEF KnownWindow
    <3>3. window' = [window EXCEPT ![v] = [window[v] EXCEPT !.receipt = r]]
      BY <1>5, <2>1 DEF Heartbeat
    <3>4. window[v] # Unopened /\ UNCHANGED <<now, revision, zone, fencedAt>>
      BY <1>5, <2>1 DEF Heartbeat, Countable
    <3> QED
      BY <3>2, <3>3, <3>4
  <2>2. CASE ~Countable(v, r)
    BY <1>5, <2>2 DEF Heartbeat
  <2> QED
    BY <2>1, <2>2
<1>6. CASE UNCHANGED activityVars
  BY <1>6 DEF activityVars
<1> QED
  BY <1>1, <1>2, <1>3, <1>4, <1>5, <1>6 DEF ActivityNext

\* Nothing from before a withdrawal of consent, or under another time zone, is
\* counted once it has taken effect.
THEOREM NothingOld == ActivitySpec => NothingFromBefore
<1> DEFINE New == \A t \in Ticks : counted'[t] # counted[t] => t >= fencedAt /\ agreed
<1>1. WindowsAreNew /\ [ActivityNext]_activityVars => WindowsAreNew'
  BY WindowsStep
<1>2. WindowsAreNew /\ [ActivityNext]_activityVars => [New]_activityVars
  <2> SUFFICES ASSUME WindowsAreNew, ActivityNext, NEW t \in Ticks, counted'[t] # counted[t]
               PROVE  t >= fencedAt /\ agreed
    OBVIOUS
  <2>1. PICK w \in Windows, r \in Report : Heartbeat(w, r)
    BY DEF ActivityNext, SetConsent, ChangeZone, Refuse, CleanUp, Tick, OpenWindow
  <2>2. Countable(w, r) /\ t \in Uncovered(w, r) /\ agreed
    BY <2>1 DEF Heartbeat
  <2>3. t \in Reported(w, r) /\ window[w] \in KnownWindow /\ r[1] \in 0 .. Span - 1
    BY <2>2 DEF Uncovered, Countable, WindowsAreNew, Report
  <2>4. t >= window[w].issued
    BY <2>3 DEF Reported, KnownWindow, Ticks
  <2> QED
    BY <2>2, <2>3, <2>4 DEF Countable, WindowsAreNew, KnownWindow, Ticks
<1> QED
  BY WindowsInit, <1>1, <1>2, PTL DEF ActivitySpec, NothingFromBefore

(***************************************************************************)
(* Reader evidence: the lease                                              *)
(***************************************************************************)

-----------------------------------------------------------------------------
(* Attention and time                                                      *)

\* A row of evidence, with the bounds of the run left out.
EvidenceRow ==
  [holder: Tabs \cup {Nobody}, page: Pages, version: {"first", "second"},
   lease: Nat, updated: Nat, expires: Nat, attentive: Nat, end: Nat,
   credited: BOOLEAN, unheard: BOOLEAN]

\* The attention accepted so far, and what could still be accepted for the time
\* since the last report, is time that has passed under the lease.
AttentionIsTime ==
  /\ at \in Nat /\ leased \in Nat
  /\ evidence \in EvidenceRow \cup {Nobody}
  /\ evidence # Nobody =>
       /\ evidence.updated <= at /\ evidence.updated <= evidence.lease
       /\ evidence.attentive + (Smaller(at, evidence.lease) - evidence.updated) <= leased

\* What a report is given counts no more than the time since the last one.
LEMMA AcceptedIsTime ==
  ASSUME evidence \in EvidenceRow, at \in Nat, evidence.updated <= at,
         NEW a \in 0 .. MostAtOnce
  PROVE  Smaller(a, Elapsed) \in Nat /\ Smaller(a, Elapsed) <= at - evidence.updated
<1>1. evidence.updated \in Nat /\ MostAtOnce \in Nat /\ at - evidence.updated \in Nat
      /\ a \in Nat
  BY EvidenceAssumption DEF EvidenceRow
<1>2. Elapsed \in Nat /\ Elapsed <= at - evidence.updated
  BY <1>1 DEF Elapsed, Smaller
<1> QED
  BY <1>1, <1>2 DEF Smaller

\* Under a lease, the attention paid and that of one more report is time passed.
LEMMA PaidInTime ==
  ASSUME AttentionIsTime, evidence # Nobody, evidence.lease > at,
         NEW a \in 0 .. MostAtOnce
  PROVE  /\ evidence \in EvidenceRow /\ Smaller(a, Elapsed) \in Nat
         /\ evidence.attentive + Smaller(a, Elapsed) <= leased
<1>1. evidence \in EvidenceRow /\ evidence.updated \in Nat /\ evidence.lease \in Nat
      /\ evidence.attentive \in Nat /\ at \in Nat /\ leased \in Nat
  BY DEF AttentionIsTime, EvidenceRow
<1>2. evidence.attentive + (at - evidence.updated) <= leased
  BY <1>1 DEF AttentionIsTime, Smaller
<1>3. Smaller(a, Elapsed) \in Nat /\ Smaller(a, Elapsed) <= at - evidence.updated
  BY <1>1, AcceptedIsTime DEF AttentionIsTime
<1> QED
  BY <1>1, <1>2, <1>3

LEMMA EvidenceInitInv == EvidenceInit => AttentionIsTime
  BY DEF EvidenceInit, AttentionIsTime

LEMMA EvidenceStepInv ==
  ASSUME AttentionIsTime, [EvidenceNext]_evidenceVars
  PROVE  AttentionIsTime'
<1> USE EvidenceAssumption DEF AttentionIsTime
<1>1. ASSUME NEW t \in Tabs, NEW p \in Pages, NEW v \in {"first", "second"},
             NEW heard \in BOOLEAN, StartReading(t, p, v, heard)
      PROVE  AttentionIsTime'
  <2> DEFINE kept == Live /\ SameBody(p, v)
             next == [holder |-> IF heard THEN t ELSE Nobody, page |-> p, version |-> v,
                      lease |-> at + LeaseLength, updated |-> at, expires |-> at + Expiry,
                      attentive |-> IF kept THEN evidence.attentive ELSE 0,
                      end |-> IF kept THEN evidence.end ELSE 0,
                      credited |-> FALSE, unheard |-> FALSE]
  <2>1. ASSUME kept
        PROVE  evidence \in EvidenceRow /\ evidence.attentive <= leased /\ leased' = leased
    <3>1. evidence \in EvidenceRow /\ evidence.lease <= at /\ leased' = leased
      BY <1>1, <2>1 DEF Live, SameBody, StartReading
    <3>2. evidence.attentive + (Smaller(at, evidence.lease) - evidence.updated) <= leased
          /\ evidence.updated <= evidence.lease
      BY <2>1 DEF Live
    <3> QED
      BY <3>1, <3>2 DEF EvidenceRow, Smaller
  <2>2. evidence' = next /\ at' = at /\ leased' \in Nat
    BY <1>1 DEF StartReading
  <2>3. next.attentive \in Nat /\ next.attentive <= leased' /\ next.end \in Nat
    BY <2>1, <2>2 DEF EvidenceRow
  <2>4. next.updated = at /\ next.lease = at + LeaseLength
    OBVIOUS
  <2>5. next \in EvidenceRow
    BY <2>3 DEF EvidenceRow
  <2>6. Smaller(at, next.lease) - next.updated = 0
    BY <2>4 DEF Smaller
  <2> HIDE DEF next
  <2> QED
    BY <2>2, <2>3, <2>4, <2>5, <2>6
<1>2. ASSUME NEW t \in Tabs, NEW a \in 0 .. MostAtOnce, NEW e \in 0 .. AtTheEnd,
             NEW near \in BOOLEAN, NEW heard \in BOOLEAN, ReportReading(t, a, e, near, heard)
      PROVE  AttentionIsTime'
  <2> DEFINE accepted == Smaller(a, Elapsed)
             attentive == Smaller(Required, evidence.attentive + accepted)
             end == IF near THEN Smaller(AtTheEnd, evidence.end + Smaller(e, accepted)) ELSE 0
             qualified == attentive >= Required /\ near /\ end >= AtTheEnd
  <2>1. evidence \in EvidenceRow /\ accepted \in Nat
        /\ evidence.attentive + accepted <= leased
    BY <1>2, PaidInTime DEF ReportReading, Reportable, Live
  <2>2. /\ evidence' = [evidence EXCEPT !.attentive = attentive, !.end = end, !.updated = at,
                          !.lease = at + LeaseLength, !.credited = qualified, !.unheard = ~heard]
        /\ UNCHANGED <<at, leased>>
    BY <1>2 DEF ReportReading
  <2> HIDE DEF accepted
  <2>3. attentive \in Nat /\ attentive <= leased
    <3>1. evidence.attentive \in Nat /\ Required \in Nat
      BY <2>1 DEF EvidenceRow
    <3> QED
      BY <2>1, <3>1 DEF Smaller
  <2>4. end \in Nat
    <3>1. evidence.end \in Nat /\ AtTheEnd \in Nat /\ e \in Nat
      BY <2>1 DEF EvidenceRow
    <3>2. Smaller(e, accepted) \in Nat
      BY <2>1, <3>1 DEF Smaller
    <3> QED
      BY <3>1, <3>2 DEF Smaller
  <2>5. qualified \in BOOLEAN /\ (~heard) \in BOOLEAN
    <3> HIDE DEF qualified
    <3>1. (~heard) \in BOOLEAN
      OBVIOUS
    <3>2. qualified \in BOOLEAN
      BY DEF qualified
    <3> QED
      BY <3>1, <3>2
  <2> HIDE DEF attentive, end, qualified
  <2>6. /\ evidence' \in EvidenceRow /\ evidence'.attentive = attentive
        /\ evidence'.updated = at /\ evidence'.lease = at + LeaseLength
    <3>1. at \in Nat /\ at + LeaseLength \in Nat
      OBVIOUS
    <3>2. evidence' = [holder |-> evidence.holder, page |-> evidence.page,
                       version |-> evidence.version, lease |-> at + LeaseLength,
                       updated |-> at, expires |-> evidence.expires, attentive |-> attentive,
                       end |-> end, credited |-> qualified, unheard |-> ~heard]
      BY <2>1, <2>2 DEF EvidenceRow
    <3>3. evidence.holder \in Tabs \cup {Nobody} /\ evidence.page \in Pages
          /\ evidence.version \in {"first", "second"} /\ evidence.expires \in Nat
      BY <2>1 DEF EvidenceRow
    <3> QED
      BY <2>3, <2>4, <2>5, <3>1, <3>2, <3>3 DEF EvidenceRow
  <2>7. Smaller(at, evidence'.lease) - evidence'.updated = 0
    BY <2>6 DEF Smaller
  <2> QED
    BY <2>2, <2>3, <2>6, <2>7
<1>3. ASSUME NEW t \in Tabs, Resend(t)
      PROVE  AttentionIsTime'
  BY <1>3 DEF Resend, Live, EvidenceRow
<1>4. CASE TickOn
  <2>1. CASE evidence = Nobody
    BY <1>4, <2>1 DEF TickOn
  <2>2. CASE evidence # Nobody
    BY <1>4, <2>2 DEF TickOn, EvidenceRow, Smaller
  <2> QED
    BY <2>1, <2>2
<1>5. CASE ChangeConsent
  BY <1>5 DEF ChangeConsent
<1>6. ASSUME NEW p \in Pages,
             \/ \E to \in {"open", "done", "away"} : MoveArticle(p, to)
             \/ \E versions \in Bodies : ChangeBody(p, versions)
      PROVE  AttentionIsTime'
  BY <1>6 DEF MoveArticle, ChangeBody
<1>7. CASE UNCHANGED evidenceVars
  BY <1>7 DEF evidenceVars
<1> QED
  BY <1>1, <1>2, <1>3, <1>4, <1>5, <1>6, <1>7 DEF EvidenceNext

\* A credit is earned: on this very article, under leases, in as much time as a
\* read takes.
THEOREM CreditEarned == EvidenceSpec => CreditIsEarned
<1> DEFINE Earned == \A p \in credit' \ credit : evidence.page = p /\ leased >= Required
<1>1. AttentionIsTime /\ [EvidenceNext]_evidenceVars => AttentionIsTime'
  BY EvidenceStepInv
<1>2. AttentionIsTime /\ [EvidenceNext]_evidenceVars => [Earned]_evidenceVars
  <2> SUFFICES ASSUME AttentionIsTime, EvidenceNext, NEW p \in credit' \ credit
               PROVE  evidence.page = p /\ leased >= Required
    OBVIOUS
  <2>1. PICK t \in Tabs, a \in 0 .. MostAtOnce, e \in 0 .. AtTheEnd, near \in BOOLEAN,
             heard \in BOOLEAN : ReportReading(t, a, e, near, heard)
    BY DEF EvidenceNext, StartReading, Resend, MoveArticle, ChangeBody, ChangeConsent, TickOn
  <2> DEFINE paid == evidence.attentive + Smaller(a, Elapsed)
  <2>2. evidence \in EvidenceRow /\ Smaller(a, Elapsed) \in Nat /\ paid <= leased
        /\ leased \in Nat
    BY <2>1, PaidInTime DEF ReportReading, Reportable, Live, AttentionIsTime
  <2>3. p = evidence.page /\ Smaller(Required, paid) >= Required
    BY <2>1 DEF ReportReading
  <2>4. evidence.attentive \in Nat /\ paid \in Nat /\ Required \in Nat
    BY <2>2, EvidenceAssumption DEF EvidenceRow
  <2> HIDE DEF paid
  <2> QED
    BY <2>2, <2>3, <2>4 DEF Smaller
<1> QED
  BY EvidenceInitInv, <1>1, <1>2, PTL DEF EvidenceSpec, CreditIsEarned

(***************************************************************************)
(* Numbers, orders and folds                                               *)
(***************************************************************************)

-----------------------------------------------------------------------------
(* Numbers and finite sets                                                 *)

\* A set of natural numbers that is not empty has a least member.
LEMMA LeastNatural ==
  ASSUME NEW S \in SUBSET Nat, S # {}
  PROVE  \E x \in S : \A y \in S : x <= y
<1> DEFINE R == {ss \in Nat \X Nat : ss[1] < ss[2]}
<1>1. IsWellFoundedOn(R, Nat)
  BY NatLessThanWellFounded, Zenon DEF OpToRel
<1>2. PICK x \in S : \A y \in S : <<y, x>> \notin R
  BY <1>1, WFMin
<1>3. \A y \in S : ~(y < x)
  BY <1>2
<1> QED
  BY <1>3

\* A set of natural numbers that is bounded has a greatest member.
LEMMA MaxIsGreatest ==
  ASSUME NEW n \in Nat, NEW S \in SUBSET (0 .. n), S # {}
  PROVE  Max(S) \in S /\ \A y \in S : Max(S) >= y
<1> DEFINE T == {n - x : x \in S}
<1>1. PICK y \in T : \A z \in T : y <= z
  <2>1. \A x \in S : n - x \in Nat
    OBVIOUS
  <2>2. T \in SUBSET Nat /\ T # {}
    BY <2>1
  <2> HIDE DEF T
  <2> QED
    BY <2>2, LeastNatural
<1>2. PICK x \in S : y = n - x
  OBVIOUS
<1>3. \A z \in S : n - x <= n - z
  BY <1>1, <1>2
<1>4. \A z \in S : x >= z
  BY <1>3
<1> QED
  BY <1>4 DEF Max

\* What a function makes of a finite set is finite.
LEMMA ImageFinite ==
  ASSUME NEW f, NEW S, IsFiniteSet(S)
  PROVE  IsFiniteSet({f[x] : x \in S}) /\ Cardinality({f[x] : x \in S}) <= Cardinality(S)
<1> DEFINE T == {f[x] : x \in S}
           g == [x \in S |-> f[x]]
<1>1. g \in Surjection(S, T)
  BY DEF Surjection
<1> HIDE DEF T, g
<1>2. IsFiniteSet(T) /\ Cardinality(T) <= Cardinality(S)
  BY <1>1, FS_Surjection
<1> QED
  BY <1>2 DEF T

LEMMA CardinalityOfTwo ==
  ASSUME NEW S, NEW T, IsFiniteSet(S), IsFiniteSet(T), S \cap T = {}
  PROVE  /\ IsFiniteSet(S \cup T)
         /\ Cardinality(S \cup T) = Cardinality(S) + Cardinality(T)
<1>1. Cardinality(S \cup T) = Cardinality(S) + Cardinality(T) - Cardinality(S \cap T)
      /\ IsFiniteSet(S \cup T)
  BY FS_Union
<1>2. Cardinality(S \cap T) = 0
  BY FS_EmptySet
<1>3. Cardinality(S) \in Nat /\ Cardinality(T) \in Nat
  BY FS_CardinalityType
<1> QED
  BY <1>1, <1>2, <1>3

\* The day of an instant is a number, that of a later one is not before it, and
\* that of one a day later at the most is the next one at the most.
LEMMA Divided ==
  ASSUME NEW d \in Nat \ {0}, NEW a \in Nat
  PROVE  /\ a \div d \in Nat
         /\ d * (a \div d) <= a /\ a < d * (a \div d) + d
  OBVIOUS

LEMMA OrderOfQuotients ==
  ASSUME NEW d \in Nat \ {0}, NEW p \in Nat, NEW q \in Nat, d * p < d * q
  PROVE  p < q
<1>1. SUFFICES ASSUME q <= p PROVE FALSE
  OBVIOUS
<1>2. p - q \in Nat /\ d * (p - q) \in Nat
  BY <1>1
<1>3. d * p = d * q + d * (p - q)
  BY <1>2
<1> QED
  BY <1>2, <1>3

LEMMA DaysFollow ==
  ASSUME NEW d \in Nat \ {0}, NEW a \in Nat, NEW b \in Nat
  PROVE  /\ a <= b => a \div d <= b \div d
         /\ a <= b + d => a \div d <= b \div d + 1
<1>1. PICK p \in Nat : p = a \div d /\ d * p <= a /\ a < d * p + d
  BY Divided
<1>2. PICK q \in Nat : q = b \div d /\ d * q <= b /\ b < d * q + d
  BY Divided
<1>3. d * (q + 1) = d * q + d /\ d * (q + 2) = d * q + d + d
  OBVIOUS
<1>4. d * p \in Nat /\ d * q \in Nat /\ d * (q + 1) \in Nat /\ d * (q + 2) \in Nat
  OBVIOUS
<1>5. ASSUME a <= b PROVE p <= q
  <2>1. d * p < d * (q + 1)
    BY <1>1, <1>2, <1>3, <1>4, <1>5
  <2>2. p < q + 1
    BY <2>1, OrderOfQuotients
  <2> QED
    BY <2>2
<1>6. ASSUME a <= b + d PROVE p <= q + 1
  <2>1. d * p < d * (q + 2)
    BY <1>1, <1>2, <1>3, <1>4, <1>6
  <2>2. p < q + 2
    BY <2>1, OrderOfQuotients
  <2> QED
    BY <2>2
<1> QED
  BY <1>1, <1>2, <1>5, <1>6

PickOf(s) == CHOOSE x \in s : TRUE

\* What holds of the empty set, and of a set if it holds without its first element,
\* holds of all finite sets.
LEMMA OneByOne ==
  ASSUME NEW D, IsFiniteSet(D), NEW G, {} \in G,
         \A s \in SUBSET D : s # {} /\ s \ {PickOf(s)} \in G => s \in G
  PROVE  \A s \in SUBSET D : s \in G
<1> DEFINE Bad == {s \in SUBSET D : s \notin G}
           Sizes == {Cardinality(s) : s \in Bad}
<1>1. ASSUME NEW s \in SUBSET D
      PROVE  IsFiniteSet(s) /\ Cardinality(s) \in Nat
  BY FS_Subset, FS_CardinalityType
<1>2. SUFFICES ASSUME Sizes # {} PROVE FALSE
  OBVIOUS
<1>3. PICK n \in Sizes : \A m \in Sizes : n <= m
  <2>1. Sizes \in SUBSET Nat
    BY <1>1
  <2> HIDE DEF Sizes
  <2> QED
    BY <1>2, <2>1, LeastNatural
<1>4. PICK s \in Bad : n = Cardinality(s)
  OBVIOUS
<1>5. s # {} /\ PickOf(s) \in s
  BY <1>4 DEF PickOf
<1> DEFINE t == s \ {PickOf(s)}
<1>6. t \in SUBSET D /\ Cardinality(t) = Cardinality(s) - 1 /\ Cardinality(s) \in Nat
  BY <1>1, <1>5, FS_RemoveElement
<1>7. t \in Bad
  BY <1>5, <1>6
<1>8. Cardinality(s) <= Cardinality(t)
  BY <1>3, <1>4, <1>7
<1> QED
  BY <1>6, <1>8

\* What holds at first, and after each stage if it held before, holds at the end.
LEMMA Upwards ==
  ASSUME NEW n \in Nat, NEW S \in SUBSET (0 .. n), 0 \in S, \A k \in 1 .. n : k - 1 \in S => k \in S
  PROVE  n \in S
<1>1. SUFFICES ASSUME n \notin S PROVE FALSE
  OBVIOUS
<1> DEFINE T == (0 .. n) \ S
<1>2. PICK m \in T : \A k \in T : m <= k
  <2>1. T \in SUBSET Nat /\ T # {}
    BY <1>1
  <2> HIDE DEF T
  <2> QED
    BY <2>1, LeastNatural
<1>3. m \in 1 .. n /\ m - 1 \in 0 .. n
  OBVIOUS
<1>4. m - 1 \in S
  BY <1>2, <1>3
<1> QED
  BY <1>3, <1>4

-----------------------------------------------------------------------------
(* A fold over a sequence, one element after the other                     *)

\* What a fold by next makes of the elements, whatever the set of their numbers.
FoldsTo(f, base, n, rows, next) ==
  f = [s \in SUBSET (1 .. n) |-> IF s = {} THEN base ELSE next[<<f[s \ {Max(s)}], rows[Max(s)]>>]]

LEMMA FoldsExist ==
  ASSUME NEW A, NEW base \in A, NEW n \in Nat, NEW R, NEW rows \in [1 .. n -> R],
         NEW next \in [A \X R -> A]
  PROVE  \E f \in [SUBSET (1 .. n) -> A] : FoldsTo(f, base, n, rows, next)
<1> DEFINE Small(k) == {s \in SUBSET (1 .. n) : Cardinality(s) <= k}
           Partial(g, k) ==
             /\ g \in [Small(k) -> A]
             /\ g = [s \in Small(k) |-> IF s = {} THEN base ELSE next[<<g[s \ {Max(s)}], rows[Max(s)]>>]]
           Missing == {k \in Nat : ~\E g : Partial(g, k)}
<1>1. ASSUME NEW s \in SUBSET (1 .. n)
      PROVE  IsFiniteSet(s) /\ Cardinality(s) \in Nat /\ Cardinality(s) <= n
  <2>1. 1 \in Int /\ n \in Int
    OBVIOUS
  <2>2. IsFiniteSet(1 .. n) /\ Cardinality(1 .. n) = IF 1 > n THEN 0 ELSE n - 1 + 1
    BY <2>1, FS_Interval, Zenon
  <2>3. Cardinality(1 .. n) = n
    BY <2>2
  <2> QED
    BY ZenonT(60), <2>2, <2>3, FS_Subset, FS_CardinalityType
<1>2. ASSUME NEW s \in SUBSET (1 .. n), s # {}
      PROVE  /\ s \ {Max(s)} \in SUBSET (1 .. n) /\ Max(s) \in 1 .. n
             /\ Cardinality(s \ {Max(s)}) = Cardinality(s) - 1
  <2>1. s \in SUBSET (0 .. n)
    OBVIOUS
  <2>2. Max(s) \in s
    BY <1>2, <2>1, MaxIsGreatest
  <2> QED
    BY <1>1, <2>2, FS_RemoveElement
<1>3. Missing = {}
  <2>1. SUFFICES ASSUME Missing # {} PROVE FALSE
    OBVIOUS
  <2>2. PICK m \in Missing : \A k \in Missing : m <= k
    <3>1. Missing \in SUBSET Nat
      OBVIOUS
    <3> HIDE DEF Missing
    <3> QED
      BY <2>1, <3>1, LeastNatural
  <2>3. CASE m = 0
    <3> DEFINE g == [s \in Small(0) |-> base]
    <3>1. \A s \in Small(0) : s = {}
      BY <1>1, FS_EmptySet
    <3>2. Partial(g, 0)
      BY <3>1
    <3> QED
      BY <2>2, <2>3, <3>2
  <2>4. CASE m # 0
    <3>1. m \in Nat /\ m - 1 \in Nat /\ m - 1 \notin Missing
      <4>1. m \in Nat
        OBVIOUS
      <4> HIDE DEF Missing
      <4> QED
        BY <2>2, <2>4, <4>1
    <3>2. PICK g : Partial(g, m - 1)
      BY <3>1
    <3> DEFINE h == [s \in Small(m) |-> IF s = {} THEN base ELSE next[<<g[s \ {Max(s)}], rows[Max(s)]>>]]
    <3>3. ASSUME NEW s \in Small(m), s # {}
          PROVE  s \ {Max(s)} \in Small(m - 1) /\ s \ {Max(s)} \in Small(m) /\ Max(s) \in 1 .. n
      <4> DEFINE t == s \ {Max(s)}
      <4>1. s \in SUBSET (1 .. n) /\ Cardinality(s) \in Nat /\ Cardinality(s) <= m
        BY <1>1
      <4>2. t \in SUBSET (1 .. n) /\ Cardinality(t) = Cardinality(s) - 1 /\ Max(s) \in 1 .. n
        BY <1>2, <3>3, <4>1
      <4> HIDE DEF t
      <4>3. Cardinality(t) <= m - 1 /\ Cardinality(t) <= m
        BY <3>1, <4>1, <4>2
      <4>4. t \in Small(m - 1) /\ t \in Small(m)
        BY <4>2, <4>3
      <4> QED
        BY <4>2, <4>4, Zenon DEF t
    <3>4. ASSUME NEW s \in Small(m), s # {}
          PROVE  h[s \ {Max(s)}] = g[s \ {Max(s)}]
      <4> DEFINE t == s \ {Max(s)}
      <4>1. t \in Small(m - 1) /\ t \in Small(m)
        BY <3>3, <3>4
      <4> HIDE DEF t
      <4>2. h[t] = IF t = {} THEN base ELSE next[<<g[t \ {Max(t)}], rows[Max(t)]>>]
        BY <4>1, Zenon
      <4>3. g[t] = IF t = {} THEN base ELSE next[<<g[t \ {Max(t)}], rows[Max(t)]>>]
        BY <3>2, <4>1, Zenon
      <4> QED
        BY <4>2, <4>3, Zenon DEF t
    <3>5. ASSUME NEW s \in Small(m) PROVE h[s] \in A
      <4>1. CASE s = {}
        BY <4>1
      <4>2. CASE s # {}
        <5>1. g[s \ {Max(s)}] \in A /\ rows[Max(s)] \in R
          BY <3>2, <3>3, <4>2
        <5>2. h[s] = next[<<g[s \ {Max(s)}], rows[Max(s)]>>]
          BY <4>2, Zenon
        <5>3. <<g[s \ {Max(s)}], rows[Max(s)]>> \in A \X R
          BY <5>1
        <5> QED
          BY <5>2, <5>3
      <4> QED
        BY <4>1, <4>2
    <3>6. h \in [Small(m) -> A]
      <4> DEFINE H(s) == IF s = {} THEN base ELSE next[<<g[s \ {Max(s)}], rows[Max(s)]>>]
      <4>1. h = [s \in Small(m) |-> H(s)]
        OBVIOUS
      <4>2. \A s \in Small(m) : H(s) \in A
        BY <3>5, Zenon
      <4> HIDE DEF h, H
      <4> QED
        BY <4>1, <4>2
    <3>7. h = [s \in Small(m) |-> IF s = {} THEN base ELSE next[<<h[s \ {Max(s)}], rows[Max(s)]>>]]
      BY <3>4, Zenon
    <3>8. Partial(h, m)
      BY <3>6, <3>7, Zenon
    <3> QED
      BY <2>2, <3>8
  <2> QED
    BY <2>3, <2>4
<1>4. PICK f : Partial(f, n)
  BY <1>3
<1>5. Small(n) = SUBSET (1 .. n)
  BY <1>1
<1> HIDE DEF Small
<1> QED
  BY <1>4, <1>5 DEF FoldsTo

\* The first k numbers end with k.
LEMMA FirstNumbers ==
  ASSUME NEW n \in Nat, NEW k \in 1 .. n
  PROVE  /\ 1 .. k \in SUBSET (1 .. n) /\ 1 .. k # {}
         /\ Max(1 .. k) = k /\ (1 .. k) \ {Max(1 .. k)} = 1 .. k - 1
<1>1. 1 .. k \in SUBSET (1 .. n) /\ 1 .. k # {} /\ (1 .. k) \in SUBSET (0 .. n)
  OBVIOUS
<1>2. Max(1 .. k) \in 1 .. k /\ \A y \in 1 .. k : Max(1 .. k) >= y
  BY <1>1, MaxIsGreatest, Zenon
<1>3. Max(1 .. k) = k
  BY <1>2
<1> QED
  BY <1>1, <1>3

-----------------------------------------------------------------------------
(* Places in an order                                                      *)

\* Of a set that is ordered strictly by R, every element has a place of its own,
\* the number of those before it, and there are no other places.
Before(S, R, x) == Cardinality({y \in S : <<y, x>> \in R})

StrictlyOrders(R, S) ==
  /\ \A x, y \in S : x # y => <<x, y>> \in R \/ <<y, x>> \in R
  /\ \A x, y, z \in S : <<x, y>> \in R /\ <<y, z>> \in R => <<x, z>> \in R
  /\ \A x \in S : <<x, x>> \notin R

LEMMA PlacesAscend ==
  ASSUME NEW S, IsFiniteSet(S), NEW R, StrictlyOrders(R, S), NEW x \in S
  PROVE  /\ Before(S, R, x) \in 0 .. Cardinality(S) - 1
         /\ \A y \in S : <<x, y>> \in R <=> Before(S, R, x) < Before(S, R, y)
         /\ \A y \in S : Before(S, R, x) = Before(S, R, y) => x = y
<1> DEFINE P(y) == {z \in S : <<z, y>> \in R}
<1>1. ASSUME NEW y \in S
      PROVE  IsFiniteSet(P(y)) /\ Cardinality(P(y)) \in Nat /\ Before(S, R, y) = Cardinality(P(y))
  <2>1. P(y) \in SUBSET S
    OBVIOUS
  <2>2. IsFiniteSet(P(y))
    BY <2>1, FS_Subset
  <2> QED
    BY <2>2, FS_CardinalityType DEF Before
<1>2. ASSUME NEW y \in S, NEW z \in S, <<y, z>> \in R
      PROVE  Before(S, R, y) < Before(S, R, z)
  <2>1. P(y) \cup {y} \in SUBSET P(z) /\ y \notin P(y)
    BY <1>2 DEF StrictlyOrders
  <2> HIDE DEF P
  <2>2. Cardinality(P(y) \cup {y}) = Cardinality(P(y)) + 1
    BY <1>1, <2>1, FS_AddElement
  <2>3. Cardinality(P(y) \cup {y}) <= Cardinality(P(z))
    BY <1>1, <2>1, FS_Subset
  <2> QED
    BY <1>1, <2>2, <2>3
<1>3. Before(S, R, x) <= Cardinality(S) - 1
  <2>1. P(x) \in SUBSET (S \ {x})
    BY DEF StrictlyOrders
  <2>2. IsFiniteSet(S \ {x}) /\ Cardinality(S \ {x}) = Cardinality(S) - 1
    BY FS_RemoveElement
  <2> HIDE DEF P
  <2>3. Cardinality(P(x)) <= Cardinality(S \ {x})
    BY <2>1, <2>2, FS_Subset
  <2> QED
    BY <1>1, <2>2, <2>3
<1>4. Cardinality(S) \in Nat
  BY FS_CardinalityType
<1>5. \A y \in S : Before(S, R, y) \in Nat
  BY <1>1
<1>6. ASSUME NEW y \in S
      PROVE  /\ <<x, y>> \in R <=> Before(S, R, x) < Before(S, R, y)
             /\ Before(S, R, x) = Before(S, R, y) => x = y
  <2>1. x = y \/ <<x, y>> \in R \/ <<y, x>> \in R
    BY DEF StrictlyOrders
  <2>2. Before(S, R, x) \in Nat /\ Before(S, R, y) \in Nat
    BY <1>5
  <2>3. CASE x = y
    BY <2>2, <2>3 DEF StrictlyOrders
  <2>4. CASE <<x, y>> \in R
    BY <1>2, <2>2, <2>4
  <2>5. CASE <<y, x>> \in R
    <3>1. Before(S, R, y) < Before(S, R, x)
      BY <1>2, <2>5
    <3> QED
      BY <1>2, <2>2, <3>1
  <2> QED
    BY <2>1, <2>3, <2>4, <2>5
<1>7. Before(S, R, x) \in 0 .. Cardinality(S) - 1
  BY <1>3, <1>4, <1>5
<1> QED
  BY <1>6, <1>7

LEMMA EveryPlaceIsTaken ==
  ASSUME NEW S, IsFiniteSet(S), NEW R, StrictlyOrders(R, S), NEW i \in 0 .. Cardinality(S) - 1
  PROVE  \E x \in S : Before(S, R, x) = i
<1> DEFINE n == Cardinality(S)
           T == 0 .. n - 1
           f == [x \in S |-> Before(S, R, x)]
<1>1. n \in Nat
  BY FS_CardinalityType
<1>2. f \in Injection(S, T)
  BY PlacesAscend DEF Injection, IsInjective
<1>3. IsFiniteSet(T) /\ Cardinality(T) = n
  <2>1. 0 \in Int /\ n - 1 \in Int
    BY <1>1
  <2>2. IsFiniteSet(T) /\ Cardinality(T) = IF 0 > n - 1 THEN 0 ELSE (n - 1) - 0 + 1
    BY <2>1, FS_Interval, Zenon
  <2> QED
    BY <1>1, <2>2
<1> HIDE DEF f
<1>4. f \in Surjection(S, T)
  BY <1>2, <1>3, FS_Injection
<1>5. \E x \in S : f[x] = i
  BY <1>4 DEF Surjection
<1> QED
  BY <1>5 DEF f

\* The greatest of a set of numbers and the order of their places.
LEMMA NumbersAreOrdered ==
  ASSUME NEW S \in SUBSET Int
  PROVE  /\ StrictlyOrders({p \in S \X S : p[1] < p[2]}, S)
         /\ \A x \in S : Before(S, {p \in S \X S : p[1] < p[2]}, x) = Cardinality({y \in S : y < x})
<1> DEFINE R == {p \in S \X S : p[1] < p[2]}
<1>1. \A x, y \in S : <<x, y>> \in R <=> x < y
  OBVIOUS
<1> HIDE DEF R
<1>2. StrictlyOrders(R, S)
  BY <1>1 DEF StrictlyOrders
<1>3. ASSUME NEW x \in S PROVE {y \in S : <<y, x>> \in R} = {y \in S : y < x}
  BY <1>1
<1>4. \A x \in S : Before(S, R, x) = Cardinality({y \in S : y < x})
  BY <1>3, Zenon DEF Before
<1> QED
  BY <1>2, <1>4, Zenon DEF R

\* The elements of a set in the order R.
InOrder(S, R) == [i \in 1 .. Cardinality(S) |-> CHOOSE x \in S : Before(S, R, x) = i - 1]

LEMMA Enumerated ==
  ASSUME NEW S, IsFiniteSet(S), NEW R, StrictlyOrders(R, S)
  PROVE  /\ Cardinality(S) \in Nat
         /\ InOrder(S, R) \in [1 .. Cardinality(S) -> S]
         /\ \A i, j \in 1 .. Cardinality(S) : i < j => <<InOrder(S, R)[i], InOrder(S, R)[j]>> \in R
         /\ \A i, j \in 1 .. Cardinality(S) : InOrder(S, R)[i] = InOrder(S, R)[j] => i = j
         /\ \A x \in S : \E i \in 1 .. Cardinality(S) : InOrder(S, R)[i] = x
<1> DEFINE n == Cardinality(S)
           e == InOrder(S, R)
<1>1. n \in Nat
  BY FS_CardinalityType
<1>2. ASSUME NEW i \in 1 .. n PROVE e[i] \in S /\ Before(S, R, e[i]) = i - 1
  <2>1. i - 1 \in 0 .. Cardinality(S) - 1
    BY <1>1
  <2>2. \E x \in S : Before(S, R, x) = i - 1
    BY <2>1, EveryPlaceIsTaken
  <2>3. e[i] = CHOOSE x \in S : Before(S, R, x) = i - 1
    BY DEF InOrder
  <2> QED
    BY <2>2, <2>3
<1>3. e \in [1 .. n -> S]
  BY <1>2 DEF InOrder
<1> HIDE DEF e, n
<1>4. \A i, j \in 1 .. n : i < j => <<e[i], e[j]>> \in R
  BY <1>1, <1>2, PlacesAscend
<1>5. \A i, j \in 1 .. n : e[i] = e[j] => i = j
  BY <1>1, <1>2
<1>6. ASSUME NEW x \in S PROVE \E i \in 1 .. n : e[i] = x
  <2>1. Before(S, R, x) \in 0 .. n - 1
    BY PlacesAscend DEF n
  <2> DEFINE i == Before(S, R, x) + 1
  <2>2. i \in 1 .. n /\ Before(S, R, x) = i - 1
    BY <1>1, <2>1
  <2>3. Before(S, R, e[i]) = Before(S, R, x) /\ e[i] \in S
    BY <1>2, <2>2
  <2>4. e[i] = x
    BY <2>3, PlacesAscend
  <2> QED
    BY <2>2, <2>4
<1> QED
  BY <1>1, <1>3, <1>4, <1>5, <1>6 DEF e, n

-----------------------------------------------------------------------------
(* Sums over finite sets                                                   *)

\* That g sums f up, whatever the set of its arguments.
IsSum(g, f) ==
  g = [s \in SUBSET DOMAIN f |-> IF s = {} THEN 0 ELSE f[PickOf(s)] + g[s \ {PickOf(s)}]]

SumOf(f) == MapThenSumSet(LAMBDA d : f[d], DOMAIN f)

LEMMA SumExists ==
  ASSUME NEW f, IsFiniteSet(DOMAIN f)
  PROVE  \E g : IsSum(g, f)
<1> DEFINE D == DOMAIN f
           Small(k) == {s \in SUBSET D : Cardinality(s) <= k}
           Partial(g, k) ==
             g = [s \in Small(k) |-> IF s = {} THEN 0 ELSE f[PickOf(s)] + g[s \ {PickOf(s)}]]
           Missing == {k \in Nat : ~\E g : Partial(g, k)}
<1>1. ASSUME NEW s \in SUBSET D
      PROVE  IsFiniteSet(s) /\ Cardinality(s) \in Nat /\ Cardinality(s) <= Cardinality(D)
             /\ Cardinality(D) \in Nat
  BY FS_Subset, FS_CardinalityType
<1>2. ASSUME NEW s \in SUBSET D, s # {}
      PROVE  s \ {PickOf(s)} \in SUBSET D /\ Cardinality(s \ {PickOf(s)}) = Cardinality(s) - 1
  <2>1. PickOf(s) \in s
    BY <1>2 DEF PickOf
  <2> QED
    BY <1>1, <2>1, FS_RemoveElement
<1> HIDE DEF D
<1>3. Missing = {}
  <2>1. SUFFICES ASSUME Missing # {} PROVE FALSE
    OBVIOUS
  <2>2. PICK m \in Missing : \A k \in Missing : m <= k
    <3>1. Missing \in SUBSET Nat
      OBVIOUS
    <3> HIDE DEF Missing
    <3> QED
      BY <2>1, <3>1, LeastNatural
  <2>3. CASE m = 0
    <3> DEFINE g == [s \in Small(0) |-> 0]
    <3>1. \A s \in Small(0) : s = {}
      BY <1>1, FS_EmptySet
    <3>2. Partial(g, 0)
      BY <3>1
    <3> QED
      BY <2>2, <2>3, <3>2
  <2>4. CASE m # 0
    <3>1. m \in Nat /\ m - 1 \in Nat /\ m - 1 \notin Missing
      <4>1. m \in Nat
        OBVIOUS
      <4> HIDE DEF Missing
      <4> QED
        BY <2>2, <2>4, <4>1
    <3>2. PICK g : Partial(g, m - 1)
      BY <3>1
    <3> DEFINE h == [s \in Small(m) |-> IF s = {} THEN 0 ELSE f[PickOf(s)] + g[s \ {PickOf(s)}]]
    <3>3. ASSUME NEW s \in Small(m), s # {}
          PROVE  h[s \ {PickOf(s)}] = g[s \ {PickOf(s)}]
      <4> DEFINE t == s \ {PickOf(s)}
      <4>1. t \in Small(m - 1) /\ t \in Small(m)
        <5>1. s \in SUBSET D /\ Cardinality(s) \in Nat /\ Cardinality(s) <= m
          BY <1>1
        <5>2. t \in SUBSET D /\ Cardinality(t) = Cardinality(s) - 1
          BY <1>2, <3>3, <5>1
        <5> HIDE DEF t
        <5>3. Cardinality(t) <= m - 1 /\ Cardinality(t) <= m
          BY <3>1, <5>1, <5>2
        <5> QED
          BY <5>2, <5>3
      <4> HIDE DEF t
      <4>2. h[t] = IF t = {} THEN 0 ELSE f[PickOf(t)] + g[t \ {PickOf(t)}]
        BY <4>1, Zenon
      <4>3. g[t] = IF t = {} THEN 0 ELSE f[PickOf(t)] + g[t \ {PickOf(t)}]
        BY <3>2, <4>1, Zenon
      <4> QED
        BY <4>2, <4>3, Zenon DEF t
    <3>4. Partial(h, m)
      BY <3>3, Zenon
    <3> QED
      BY <2>2, <3>4
  <2> QED
    BY <2>3, <2>4
<1>4. Cardinality(D) \in Nat
  BY FS_CardinalityType DEF D
<1>5. PICK g : Partial(g, Cardinality(D))
  BY <1>3, <1>4
<1>6. Small(Cardinality(D)) = SUBSET D
  BY <1>1
<1> HIDE DEF Small
<1> QED
  BY <1>5, <1>6 DEF IsSum, D

LEMMA SumIs ==
  ASSUME NEW f, IsFiniteSet(DOMAIN f)
  PROVE  \E g : IsSum(g, f) /\ SumOf(f) = g[DOMAIN f]
<1> DEFINE g == CHOOSE g : IsSum(g, f)
<1>1. IsSum(g, f)
  BY SumExists
<1>2. SumOf(f) = g[DOMAIN f]
  BY <1>1 DEF SumOf, MapThenSumSet, MapThenFoldSet, IsSum, PickOf
<1> QED
  BY <1>1, <1>2

\* A sum of nothing is nothing.
LEMMA SumOfZeros ==
  ASSUME NEW D, IsFiniteSet(D)
  PROVE  SumOf([d \in D |-> 0]) = 0
<1> DEFINE f == [d \in D |-> 0]
<1>0. DOMAIN f = D /\ \A d \in D : f[d] = 0
  OBVIOUS
<1> HIDE DEF f
<1>1. PICK g : IsSum(g, f) /\ SumOf(f) = g[D]
  BY <1>0, SumIs
<1> DEFINE G == {s \in SUBSET D : g[s] = 0}
<1>2. {} \in G
  BY <1>0, <1>1 DEF IsSum
<1>3. ASSUME NEW s \in SUBSET D, s # {}, s \ {PickOf(s)} \in G PROVE s \in G
  <2>1. g[s] = f[PickOf(s)] + g[s \ {PickOf(s)}]
    BY <1>0, <1>1, <1>3, Zenon DEF IsSum
  <2>2. PickOf(s) \in D
    BY <1>3 DEF PickOf
  <2> QED
    BY <1>0, <1>3, <2>1, <2>2
<1> HIDE DEF G
<1>4. D \in G
  BY <1>2, <1>3, OneByOne
<1> QED
  BY <1>1, <1>4 DEF G, f

\* What is added to each day is, in all, what is added.
LEMMA SumGrows ==
  ASSUME NEW f, NEW D, IsFiniteSet(D), f \in [D -> Nat], NEW new, IsFiniteSet(new),
         NEW key, \A t \in new : key[t] \in D
  PROVE  /\ SumOf(f) \in Nat
         /\ SumOf([d \in D |-> f[d] + Cardinality({t \in new : key[t] = d})]) = SumOf(f) + Cardinality(new)
<1> DEFINE Of(d) == {t \in new : key[t] = d}
           Within(s) == {t \in new : key[t] \in s}
           more == [d \in D |-> f[d] + Cardinality(Of(d))]
<1>0. DOMAIN f = D /\ DOMAIN more = D /\ \A d \in D : more[d] = f[d] + Cardinality(Of(d))
  OBVIOUS
<1>1. \A s : Within(s) \in SUBSET new /\ Of(s) \in SUBSET new
  OBVIOUS
<1>2. \A s : /\ IsFiniteSet(Within(s)) /\ Cardinality(Within(s)) \in Nat
             /\ IsFiniteSet(Of(s)) /\ Cardinality(Of(s)) \in Nat
  BY <1>1, FS_Subset, FS_CardinalityType
<1>3. Within({}) = {} /\ Within(D) = new
  OBVIOUS
<1>4. ASSUME NEW s, NEW x \in s
      PROVE  Cardinality(Within(s)) = Cardinality(Within(s \ {x})) + Cardinality(Of(x))
  <2>1. Within(s) = Within(s \ {x}) \cup Of(x) /\ Within(s \ {x}) \cap Of(x) = {}
    OBVIOUS
  <2> HIDE DEF Within, Of
  <2> QED
    BY <1>2, <2>1, CardinalityOfTwo
<1> HIDE DEF Within, Of, more
<1>5. PICK g : IsSum(g, f) /\ SumOf(f) = g[D]
  BY <1>0, SumIs
<1>6. PICK h : IsSum(h, more) /\ SumOf(more) = h[D]
  BY <1>0, SumIs
<1> DEFINE G == {s \in SUBSET D : g[s] \in Nat /\ h[s] = g[s] + Cardinality(Within(s))}
<1>7. {} \in G
  <2>1. g[{}] = 0 /\ h[{}] = 0
    BY <1>0, <1>5, <1>6 DEF IsSum
  <2>2. Cardinality(Within({})) = 0
    BY <1>3, FS_EmptySet
  <2> QED
    BY <2>1, <2>2
<1>8. ASSUME NEW s \in SUBSET D, s # {}, s \ {PickOf(s)} \in G PROVE s \in G
  <2>1. g[s] = f[PickOf(s)] + g[s \ {PickOf(s)}] /\ h[s] = more[PickOf(s)] + h[s \ {PickOf(s)}]
    BY <1>0, <1>5, <1>6, <1>8, Zenon DEF IsSum
  <2>2. PickOf(s) \in s /\ PickOf(s) \in D
    BY <1>8 DEF PickOf
  <2>3. Cardinality(Within(s)) = Cardinality(Within(s \ {PickOf(s)})) + Cardinality(Of(PickOf(s)))
    BY <1>4, <2>2
  <2>4. f[PickOf(s)] \in Nat /\ more[PickOf(s)] = f[PickOf(s)] + Cardinality(Of(PickOf(s)))
    BY <1>0, <2>2
  <2>5. g[s \ {PickOf(s)}] \in Nat
        /\ h[s \ {PickOf(s)}] = g[s \ {PickOf(s)}] + Cardinality(Within(s \ {PickOf(s)}))
    BY <1>8
  <2> QED
    BY <1>2, <2>1, <2>3, <2>4, <2>5
<1> HIDE DEF G
<1>9. D \in G
  BY <1>7, <1>8, OneByOne
<1> QED
  BY <1>3, <1>5, <1>6, <1>9 DEF G, more, Of

(***************************************************************************)
(* Reading activity: every instant is counted once                         *)
(***************************************************************************)

\* What has been counted and could be reported again is remembered, and was
\* counted after it had passed.
ActivityGood ==
  /\ ActivityTypeOK
  /\ recentAt <= now
  /\ \A t \in recent : t < recentAt
  /\ \A t \in Ticks : counted[t] = 0 \/ (counted[t] = 1 /\ t < recentAt)
  /\ \A t \in Ticks : counted[t] = 1 /\ t >= now - Horizon => t \in recent
  /\ total = Cardinality({t \in Ticks : counted[t] = 1})
  /\ total = SumOf(days)

LEMMA ActivityTypes ==
  ASSUME ActivityTypeOK
  PROVE  /\ now \in Nat /\ now <= MaxNow /\ MaxNow \in Nat /\ recentAt \in Nat /\ Horizon \in Nat
         /\ Ticks \subseteq Nat /\ \A t \in Ticks : t < MaxNow
         /\ \A t \in Nat : t < MaxNow => t \in Ticks
  BY ActivityAssumption DEF ActivityTypeOK, Ticks

LEMMA FiniteDays ==
  /\ IsFiniteSet(Zones \X Days) /\ IsFiniteSet(Ticks)
  /\ \A t \in Ticks, z \in Zones : DayOf(t, z) \in Days
<1>1. /\ DayLength \in Nat \ {0} /\ Zones \in SUBSET (0 .. DayLength) /\ Zones # {} /\ MaxNow \in Nat
  BY ActivityAssumption
<1>2. Max(Zones) \in Zones /\ \A z \in Zones : Max(Zones) >= z
  BY <1>1, MaxIsGreatest
<1>3. /\ Max(Zones) \in Nat /\ \A z \in Zones : z \in Nat /\ z <= Max(Zones)
      /\ \E n \in Nat : n = MaxNow + Max(Zones)
  <2>1. \A z \in Zones : z \in Nat
    BY <1>1
  <2>2. Max(Zones) \in Nat
    BY <1>2, <2>1
  <2> QED
    BY <1>1, <1>2, <2>1, <2>2
<1>a. PICK n \in Nat : n = MaxNow + Max(Zones)
  BY <1>3
<1>4. PICK k \in Nat : k = n \div DayLength
  BY <1>1, Divided
<1>5. Days = 0 .. k
  BY <1>a, <1>4 DEF Days
<1>6. ASSUME NEW t \in Ticks, NEW z \in Zones PROVE DayOf(t, z) \in Days
  <2>1. t + z \in Nat /\ t + z <= n
    <3>1. t \in Nat /\ t <= MaxNow /\ z \in Nat /\ z <= Max(Zones) /\ Max(Zones) \in Nat
      BY <1>1, <1>3 DEF Ticks
    <3> QED
      BY <1>1, <1>a, <3>1
  <2>2. (t + z) \div DayLength \in Nat
    BY <1>1, <2>1, Divided
  <2>3. (t + z) \div DayLength <= k
    BY <1>1, <1>4, <2>1, DaysFollow
  <2> QED
    BY <1>5, <2>2, <2>3 DEF DayOf
<1>7. IsFiniteSet(0 .. k) /\ IsFiniteSet(0 .. DayLength) /\ IsFiniteSet(Ticks)
  <2>1. 0 \in Int /\ k \in Int /\ DayLength \in Int /\ MaxNow - 1 \in Int
    BY <1>1
  <2> QED
    BY <2>1, FS_Interval, Zenon DEF Ticks
<1>8. IsFiniteSet(Zones)
  BY <1>1, <1>7, FS_Subset
<1> QED
  BY <1>5, <1>6, <1>7, <1>8, FS_Product

LEMMA ActivityInitGood == ActivityInit => ActivityGood
<1> SUFFICES ASSUME ActivityInit PROVE ActivityGood
  OBVIOUS
<1> USE ActivityAssumption DEF ActivityInit
<1>1. ActivityTypeOK
  BY DEF ActivityTypeOK, Ticks
<1>2. {t \in Ticks : counted[t] = 1} = {} /\ Cardinality({}) = 0
  BY FS_EmptySet
<1>3. SumOf(days) = 0
  BY FiniteDays, SumOfZeros
<1>4. \A t \in Ticks : counted[t] = 0
  OBVIOUS
<1>5. total = Cardinality({t \in Ticks : counted[t] = 1})
  BY <1>2
<1>6. total = SumOf(days) /\ recentAt <= now /\ \A t \in recent : t < recentAt
  BY <1>3
<1> QED
  BY <1>1, <1>4, <1>5, <1>6 DEF ActivityGood

\* The rest of the account is not touched.
LEMMA CountsStay ==
  ASSUME ActivityGood, UNCHANGED <<recentAt, total, days, counted>>, recent' \subseteq recent,
         now' \in Nat, now <= now', ActivityTypeOK',
         \A t \in Ticks : counted[t] = 1 /\ t >= now' - Horizon => t \in recent'
  PROVE  ActivityGood'
<1>1. recentAt <= now'
  BY ActivityTypes DEF ActivityGood
<1>2. \A t \in recent' : t < recentAt
  BY DEF ActivityGood
<1>3. total = Cardinality({t \in Ticks : counted[t] = 1}) /\ total = SumOf(days)
      /\ \A t \in Ticks : counted[t] = 0 \/ (counted[t] = 1 /\ t < recentAt)
  BY DEF ActivityGood
<1>4. total' = Cardinality({t \in Ticks : counted'[t] = 1}) /\ total' = SumOf(days')
  BY <1>3
<1> QED
  BY <1>1, <1>2, <1>3, <1>4 DEF ActivityGood, Ticks

LEMMA HeartbeatGood ==
  ASSUME ActivityGood, NEW w \in Windows, NEW r \in Report, Heartbeat(w, r), Countable(w, r)
  PROVE  ActivityGood'
<1> DEFINE new == Uncovered(w, r)
           z == window[w].zone
           known == [window[w] EXCEPT !.receipt = r]
<1>1. /\ total' = total + Cardinality(new)
      /\ days' = [d \in Zones \X Days |-> days[d] + Cardinality({t \in new : d = <<z, DayOf(t, z)>>})]
      /\ recent' = StillRecent \cup Reported(w, r) /\ recentAt' = now
      /\ window' = [window EXCEPT ![w] = known]
      /\ counted' = [t \in Ticks |-> IF t \in new THEN counted[t] + 1 ELSE counted[t]]
      /\ requests' = requests + 1 /\ requests < PerMinute
      /\ UNCHANGED <<now, agreed, revision, zone, fencedAt>>
  BY DEF Heartbeat, Admit
<1>2. /\ now \in Nat /\ now <= MaxNow /\ MaxNow \in Nat /\ recentAt \in Nat /\ Horizon \in Nat
      /\ Ticks \subseteq Nat /\ \A t \in Nat : t < MaxNow => t \in Ticks
      /\ recentAt <= now /\ recent \subseteq Ticks /\ counted \in [Ticks -> Nat] /\ total \in Nat
      /\ days \in [Zones \X Days -> Nat]
  BY ActivityTypes DEF ActivityGood, ActivityTypeOK
<1>3. window[w] \in Window /\ window[w].issued \in Nat /\ z \in Zones
  BY DEF Countable, ActivityGood, ActivityTypeOK, Window
<1>4. /\ r[1] \in Nat /\ r[2] \in Nat /\ window[w].issued + r[2] <= now
      /\ now < window[w].issued + Horizon
  BY ActivityAssumption DEF Countable, Report
<1>5. ASSUME NEW t \in Reported(w, r)
      PROVE  t \in Ticks /\ t < now /\ t \in Nat /\ t >= now - Horizon
  BY <1>2, <1>3, <1>4 DEF Reported
<1>6. ASSUME NEW t \in new
      PROVE  t \in Ticks /\ t < now /\ counted[t] = 0
  <2>1. t \in Reported(w, r) /\ t \notin StillRecent
    BY DEF Uncovered
  <2>2. t \in Ticks /\ t < now /\ t \in Nat /\ t >= now - Horizon /\ t \notin recent
    BY <1>5, <2>1 DEF StillRecent
  <2> QED
    BY <2>2 DEF ActivityGood
<1>7. IsFiniteSet(new) /\ Cardinality(new) \in Nat
  <2>1. new \in SUBSET Ticks
    BY <1>6
  <2> QED
    BY <2>1, FiniteDays, FS_Subset, FS_CardinalityType
<1>8. new \subseteq Reported(w, r)
  BY DEF Uncovered
<1> HIDE DEF new
<1>9. ASSUME NEW t \in Ticks
      PROVE  counted'[t] = (IF t \in new THEN 1 ELSE counted[t]) /\ (counted[t] = 0 \/ (counted[t] = 1 /\ t < recentAt))
  BY <1>1, <1>6 DEF ActivityGood
<1>10. total' = Cardinality({t \in Ticks : counted'[t] = 1})
  <2> DEFINE old == {t \in Ticks : counted[t] = 1}
  <2>1. {t \in Ticks : counted'[t] = 1} = old \cup new /\ old \cap new = {} /\ old \in SUBSET Ticks
    BY <1>6, <1>9
  <2>2. IsFiniteSet(old)
    BY <2>1, FiniteDays, FS_Subset
  <2>3. total = Cardinality(old)
    BY DEF ActivityGood
  <2> HIDE DEF old
  <2>4. Cardinality(old \cup new) = Cardinality(old) + Cardinality(new)
    BY <1>7, <2>1, <2>2, CardinalityOfTwo
  <2> QED
    BY <1>1, <2>1, <2>3, <2>4
<1>11. total' = SumOf(days')
  <2> DEFINE D == Zones \X Days
             key == [t \in new |-> <<z, DayOf(t, z)>>]
  <2>1. \A t \in new : key[t] = <<z, DayOf(t, z)>> /\ key[t] \in D
    BY <1>3, <1>6, FiniteDays
  <2> HIDE DEF key
  <2>2. \A d : {t \in new : d = <<z, DayOf(t, z)>>} = {t \in new : key[t] = d}
    BY <2>1
  <2>3. days' = [d \in D |-> days[d] + Cardinality({t \in new : key[t] = d})]
    BY <1>1, <2>2
  <2>4. IsFiniteSet(D) /\ days \in [D -> Nat]
    BY <1>2, FiniteDays
  <2> HIDE DEF D
  <2>5. SumOf(days') = SumOf(days) + Cardinality(new)
    BY <1>7, <2>1, <2>3, <2>4, SumGrows
  <2> QED
    BY <1>1, <2>5 DEF ActivityGood
<1>12. window' \in [Windows -> Window \cup {Unopened}]
  <2>1. known \in Window
    BY <1>3 DEF Window
  <2> HIDE DEF known
  <2> QED
    BY <1>1, <2>1 DEF ActivityGood, ActivityTypeOK
<1>13. days' \in [Zones \X Days -> Nat]
  <2>1. ASSUME NEW d \in Zones \X Days
        PROVE  Cardinality({t \in new : d = <<z, DayOf(t, z)>>}) \in Nat
    <3>1. {t \in new : d = <<z, DayOf(t, z)>>} \in SUBSET new
      OBVIOUS
    <3> QED
      BY <1>7, <3>1, FS_Subset, FS_CardinalityType
  <2> QED
    BY <1>1, <1>2, <2>1
<1>14. counted' \in [Ticks -> Nat] /\ recent' \subseteq Ticks /\ \A t \in recent' : t < now
  <2>1. \A t \in StillRecent : t \in Ticks /\ t \in recent
    BY <1>2 DEF StillRecent
  <2>2. \A t \in recent : t < now
    BY <1>2 DEF ActivityGood
  <2> QED
    BY <1>1, <1>2, <1>5, <2>1, <2>2
<1>15. ActivityTypeOK'
  <2>1. requests' \in 0 .. PerMinute
    BY <1>1, ActivityAssumption DEF ActivityGood, ActivityTypeOK
  <2>2. recentAt' \in 0 .. MaxNow /\ total' \in Nat
    BY <1>1, <1>2, <1>7
  <2> QED
    BY <1>1, <1>12, <1>13, <1>14, <2>1, <2>2 DEF ActivityGood, ActivityTypeOK, Ticks, Days, Window, Report
<1>16. \A t \in Ticks : counted'[t] = 0 \/ (counted'[t] = 1 /\ t < recentAt')
  BY <1>1, <1>2, <1>6, <1>9
<1>17. \A t \in Ticks : counted'[t] = 1 /\ t >= now - Horizon => t \in recent'
  BY <1>1, <1>8, <1>9 DEF ActivityGood, StillRecent
<1>18. recentAt' <= now'
  BY <1>1, <1>2
<1> QED
  BY <1>1, <1>10, <1>11, <1>14, <1>15, <1>16, <1>17, <1>18 DEF ActivityGood, Ticks

LEMMA ActivityStepGood == ActivityGood /\ [ActivityNext]_activityVars => ActivityGood'
<1> SUFFICES ASSUME ActivityGood, [ActivityNext]_activityVars PROVE ActivityGood'
  OBVIOUS
<1> USE ActivityAssumption
<1>0. now \in Nat /\ now <= MaxNow /\ MaxNow \in Nat /\ recentAt \in Nat /\ Horizon \in Nat
      /\ Ticks \subseteq Nat
  BY ActivityTypes DEF ActivityGood
<1>1. CASE SetConsent \/ ChangeZone \/ Refuse
  <2>1. ActivityTypeOK'
    <3>1. /\ agreed' \in BOOLEAN /\ zone' \in Zones /\ requests' \in 0 .. PerMinute
          /\ revision' \in 0 .. MaxRevision /\ fencedAt' = now
          /\ window' = [w \in Windows |-> Unopened]
          /\ UNCHANGED <<now, recent, recentAt, total, days, counted>>
      <4>1. CASE SetConsent
        BY <4>1 DEF SetConsent, Invalidate, ActivityGood, ActivityTypeOK
      <4>2. CASE ChangeZone
        BY <4>2 DEF ChangeZone, Invalidate, ActivityGood, ActivityTypeOK
      <4>3. CASE Refuse
        BY <4>3 DEF Refuse, Admit, Invalidate, ActivityGood, ActivityTypeOK
      <4> QED
        BY <1>1, <4>1, <4>2, <4>3
    <3>2. window' \in [Windows -> Window \cup {Unopened}]
      BY <3>1
    <3> QED
      BY <3>1, <3>2 DEF ActivityGood, ActivityTypeOK, Ticks, Days, Window, Report
  <2> QED
    BY <1>0, <1>1, <2>1, CountsStay DEF SetConsent, ChangeZone, Refuse, ActivityGood
<1>2. CASE CleanUp
  <2>1. window' \in [Windows -> Window \cup {Unopened}]
    BY <1>2 DEF CleanUp, ActivityGood, ActivityTypeOK
  <2>2. recent' \subseteq recent
    BY <1>2 DEF CleanUp
  <2>3. ActivityTypeOK'
    BY <1>2, <2>1, <2>2 DEF CleanUp, ActivityGood, ActivityTypeOK, Ticks, Days, Window, Report
  <2>4. ASSUME NEW t \in Ticks, counted[t] = 1, t >= now - Horizon PROVE t \in recent'
    <3>1. t \in recent /\ t < recentAt /\ t \in Nat
      BY <1>0, <2>4 DEF ActivityGood
    <3>2. ~Forgettable
      BY <1>0, <2>4, <3>1 DEF Forgettable
    <3> QED
      BY <1>2, <3>1, <3>2 DEF CleanUp
  <2> QED
    BY <1>0, <1>2, <2>2, <2>3, <2>4, CountsStay DEF CleanUp
<1>3. CASE Tick
  <2>1. ActivityTypeOK'
    BY <1>0, <1>3 DEF Tick, ActivityGood, ActivityTypeOK, Ticks, Days, Window, Report
  <2>2. \A t \in Ticks : t >= (now + 1) - Horizon => t >= now - Horizon
    BY <1>0
  <2> QED
    BY <1>0, <1>3, <2>1, <2>2, CountsStay DEF Tick, ActivityGood
<1>4. ASSUME NEW v \in Windows, OpenWindow(v) PROVE ActivityGood'
  <2> DEFINE opened == [issued |-> now, revision |-> revision, zone |-> zone, receipt |-> NoReport]
  <2>1. opened \in Window
    BY <1>0 DEF Window, ActivityGood, ActivityTypeOK
  <2> HIDE DEF opened
  <2>2. window' \in [Windows -> Window \cup {Unopened}]
    <3>1. window' = [w \in Windows |->
            IF w = v /\ Cardinality(Open) < Capacity THEN opened
            ELSE IF w \in Old THEN Unopened ELSE window[w]]
      BY <1>4 DEF OpenWindow, opened
    <3> QED
      BY <2>1, <3>1 DEF ActivityGood, ActivityTypeOK
  <2>3. requests' \in 0 .. PerMinute
    BY <1>4 DEF OpenWindow, Admit, ActivityGood, ActivityTypeOK
  <2>4. ActivityTypeOK'
    BY <1>4, <2>2, <2>3 DEF OpenWindow, ActivityGood, ActivityTypeOK, Ticks, Days, Window, Report
  <2> QED
    BY <1>0, <1>4, <2>4, CountsStay DEF OpenWindow, ActivityGood
<1>5. ASSUME NEW v \in Windows, NEW r \in Report, Heartbeat(v, r) PROVE ActivityGood'
  <2>1. CASE Countable(v, r)
    BY <1>5, <2>1, HeartbeatGood
  <2>2. CASE ~Countable(v, r)
    <3>1. requests' \in 0 .. PerMinute
      BY <1>5 DEF Heartbeat, Admit, ActivityGood, ActivityTypeOK
    <3>2. ActivityTypeOK'
      BY <1>5, <2>2, <3>1 DEF Heartbeat, ActivityGood, ActivityTypeOK, Ticks, Days, Window, Report
    <3> QED
      BY <1>0, <1>5, <2>2, <3>2, CountsStay DEF Heartbeat, ActivityGood
  <2> QED
    BY <2>1, <2>2
<1>6. CASE UNCHANGED activityVars
  <2>1. ActivityTypeOK'
    BY <1>6 DEF activityVars, ActivityGood, ActivityTypeOK, Ticks, Days, Window, Report
  <2> QED
    BY <1>0, <1>6, <2>1, CountsStay DEF activityVars, ActivityGood
<1> QED
  BY <1>1, <1>2, <1>3, <1>4, <1>5, <1>6 DEF ActivityNext

LEMMA ActivityParts == ActivityGood => ActivityTypeOK /\ EachInstantOnce
<1> SUFFICES ASSUME ActivityGood PROVE ActivityTypeOK /\ EachInstantOnce
  OBVIOUS
<1>1. \A t \in Ticks : counted[t] <= 1 /\ (counted[t] = 1 => t < now)
  BY ActivityTypes DEF ActivityGood
<1>2. total = MapThenSumSet(LAMBDA d : days[d], DOMAIN days)
  BY DEF ActivityGood, SumOf
<1> QED
  BY <1>1, <1>2 DEF ActivityGood, EachInstantOnce

\* However often and by whomever an instant is reported, it is counted once, and the
\* days of all zones add up to the total.
THEOREM InstantsCountOnce == ActivitySpec => []EachInstantOnce
  BY ActivityInitGood, ActivityStepGood, ActivityParts, PTL DEF ActivitySpec

(***************************************************************************)
(* Credits: the horizon of the tool, and the rewards                       *)
(***************************************************************************)

-----------------------------------------------------------------------------
(* Numbers, and the first rows of a batch                                  *)

\* The first rows of a batch are all rows up to the last of them, and where they
\* are fewer than a batch they are all rows.
LEMMA FirstRows ==
  ASSUME NEW n \in Nat, NEW S \in SUBSET (1 .. n)
  PROVE  /\ FirstOf(S) \subseteq S /\ IsFiniteSet(FirstOf(S))
         /\ \A m \in FirstOf(S), j \in S : j <= m => j \in FirstOf(S)
         /\ Cardinality(FirstOf(S)) < BatchSize => FirstOf(S) = S
<1> DEFINE UpTo(m) == {j \in S : j <= m}
<1>0. \A j \in S : j \in Nat
  OBVIOUS
<1>1. IsFiniteSet(S)
  <2>1. 1 \in Int /\ n \in Int
    OBVIOUS
  <2>2. IsFiniteSet(1 .. n)
    BY <2>1, FS_Interval, Zenon
  <2> QED
    BY <2>2, FS_Subset
<1>2. FirstOf(S) \subseteq S /\ IsFiniteSet(FirstOf(S))
  <2>1. FirstOf(S) \in SUBSET S
    BY DEF FirstOf
  <2> QED
    BY <1>1, <2>1, FS_Subset
<1>3. ASSUME NEW m \in S
      PROVE  IsFiniteSet(UpTo(m)) /\ Cardinality(UpTo(m)) \in Nat
             /\ (m \in FirstOf(S) <=> Cardinality(UpTo(m)) <= BatchSize)
  <2>1. UpTo(m) \in SUBSET S
    OBVIOUS
  <2>2. IsFiniteSet(UpTo(m))
    BY <1>1, <2>1, FS_Subset
  <2>3. m \in FirstOf(S) <=> Cardinality(UpTo(m)) <= BatchSize
    BY DEF FirstOf
  <2> QED
    BY <2>2, <2>3, FS_CardinalityType
<1> HIDE DEF UpTo
<1>4. ASSUME NEW m \in FirstOf(S), NEW j \in S, j <= m
      PROVE  j \in FirstOf(S)
  <2>1. m \in S
    BY <1>2
  <2>2. UpTo(j) \in SUBSET UpTo(m)
    <3>1. \A i \in S : i <= j => i <= m
      BY <1>0, <1>4, <2>1
    <3> QED
      BY <3>1 DEF UpTo
  <2>3. Cardinality(UpTo(j)) <= Cardinality(UpTo(m))
    BY <1>3, <2>1, <2>2, FS_Subset
  <2> QED
    BY <1>3, <2>1, <2>3, CreditsAssumption
<1>5. ASSUME FirstOf(S) # S
      PROVE  Cardinality(FirstOf(S)) >= BatchSize
  <2>1. S \ FirstOf(S) \in SUBSET Nat /\ S \ FirstOf(S) # {}
    <3>1. S \ FirstOf(S) # {}
      BY <1>2, <1>5, Zenon
    <3> QED
      BY <1>0, <3>1
  <2>2. PICK m \in S \ FirstOf(S) : \A j \in S \ FirstOf(S) : m <= j
    BY <2>1, LeastNatural
  <2> DEFINE Below == UpTo(m) \ {m}
  <2>3. Cardinality(UpTo(m)) > BatchSize /\ m \in UpTo(m)
    BY <1>3, <2>2, CreditsAssumption DEF UpTo
  <2>4. Cardinality(Below) = Cardinality(UpTo(m)) - 1
    BY <1>3, <2>2, <2>3, FS_RemoveElement
  <2>5. Below \in SUBSET FirstOf(S)
    <3>1. \A i \in S : i <= m /\ i # m => i \in FirstOf(S)
      BY <1>0, <2>2
    <3> QED
      BY <3>1 DEF UpTo
  <2> HIDE DEF Below
  <2>6. Cardinality(Below) <= Cardinality(FirstOf(S))
    BY <1>2, <2>5, FS_Subset
  <2>7. Cardinality(FirstOf(S)) \in Nat /\ Cardinality(UpTo(m)) \in Nat /\ BatchSize \in Nat
    BY <1>2, <1>3, <2>2, FS_CardinalityType, CreditsAssumption
  <2> QED
    BY <2>3, <2>4, <2>6, <2>7
<1>6. Cardinality(FirstOf(S)) \in Nat /\ BatchSize \in Nat
  BY <1>2, FS_CardinalityType, CreditsAssumption
<1> QED
  BY <1>2, <1>4, <1>5, <1>6

-----------------------------------------------------------------------------
(* What the operations keep                                                *)

OwnUrls == {UrlOf[i] : i \in ArticleIds}

\* What was read when the horizon was set is below it, is still said to be read
\* while it is there, and has its credit up to the cursor; and what the tool has
\* credited are articles that have a credit.
CreditsGood ==
  /\ CreditsTypeOK
  /\ IsFiniteSet(credits)
  /\ before \cap there \subseteq read
  /\ scan.status = "none" => before = {} /\ scan = NoScan
  /\ scan.cursor <= scan.upper
  /\ \A i \in before \cap there : i <= scan.upper /\ (i <= scan.cursor => UrlOf[i] \in credits)
  /\ scan.status = "complete" => scan.cursor = scan.upper
  /\ scan.credited <= Cardinality(credits \cap OwnUrls)
  /\ RewardsFollowCredits

LEMMA CreditsInitGood == CreditsInit => CreditsGood
<1> SUFFICES ASSUME CreditsInit PROVE CreditsGood
  OBVIOUS
<1> USE CreditsAssumption DEF CreditsInit
<1>1. \A u \in Addresses : u # "no"
  OBVIOUS
<1>2. Cardinality({}) = 0 /\ IsFiniteSet({})
  BY FS_EmptySet
<1>3. RewardsFollowCredits
  BY <1>1, <1>2 DEF RewardsFollowCredits, Reached
<1>4. CreditsTypeOK
  BY DEF CreditsTypeOK, NoScan, GroupStates
<1>5. credits \cap OwnUrls = {}
  OBVIOUS
<1> QED
  BY <1>2, <1>3, <1>4, <1>5 DEF CreditsGood, NoScan

LEMMA ScanTypes ==
  ASSUME CreditsTypeOK
  PROVE  /\ scan.upper \in 0 .. LastId /\ scan.cursor \in 0 .. LastId
         /\ scan.credited \in 0 .. LastId /\ scan.preserved \in BOOLEAN
         /\ scan.status \in {"none", "running", "complete"}
         /\ found \in Nat /\ found <= LastId /\ LastId \in Nat
  BY CreditsAssumption DEF CreditsTypeOK

\* There are no more URLs of articles than articles.
LEMMA OwnUrlsFinite == IsFiniteSet(OwnUrls) /\ Cardinality(OwnUrls) <= LastId
<1>1. 1 \in Int /\ LastId \in Int /\ LastId \in Nat
  BY CreditsAssumption
<1>2. IsFiniteSet(1 .. LastId) /\ Cardinality(1 .. LastId) = IF 1 > LastId THEN 0 ELSE LastId - 1 + 1
  BY <1>1, FS_Interval, Zenon
<1>3. IsFiniteSet(OwnUrls) /\ Cardinality(OwnUrls) <= Cardinality(1 .. LastId)
  BY <1>2, ImageFinite DEF OwnUrls, ArticleIds
<1> QED
  BY <1>1, <1>2, <1>3

\* More credits are at least as many.
LEMMA MoreCredits ==
  ASSUME IsFiniteSet(credits), NEW new, IsFiniteSet(new)
  PROVE  /\ IsFiniteSet(credits \cup new)
         /\ Cardinality(credits) \in Nat /\ Cardinality(credits \cup new) \in Nat
         /\ Cardinality(credits) <= Cardinality(credits \cup new)
         /\ Cardinality(credits \cap OwnUrls) \in Nat
         /\ Cardinality((credits \cup new) \cap OwnUrls) \in Nat
         /\ Cardinality(credits \cap OwnUrls) <= Cardinality((credits \cup new) \cap OwnUrls)
<1>1. IsFiniteSet(credits \cup new)
  BY FS_Union
<1>2. credits \in SUBSET (credits \cup new)
  OBVIOUS
<1>3. (credits \cup new) \cap OwnUrls \in SUBSET (credits \cup new)
      /\ credits \cap OwnUrls \in SUBSET ((credits \cup new) \cap OwnUrls)
  OBVIOUS
<1>4. IsFiniteSet((credits \cup new) \cap OwnUrls)
  BY <1>1, <1>3, FS_Subset
<1>5. IsFiniteSet(credits \cap OwnUrls)
      /\ Cardinality(credits \cap OwnUrls) <= Cardinality((credits \cup new) \cap OwnUrls)
  BY <1>3, <1>4, FS_Subset
<1>6. Cardinality(credits) <= Cardinality(credits \cup new)
  BY <1>1, <1>2, FS_Subset
<1> QED
  BY <1>1, <1>4, <1>5, <1>6, FS_CardinalityType

\* A credit leaves the account in order.
LEMMA CreditGood ==
  ASSUME CreditsGood, NEW u \in Addresses, NEW live \in BOOLEAN, Credit(u, live)
  PROVE  /\ credits' = credits \cup {u} /\ IsFiniteSet(credits')
         /\ Cardinality(credits \cap OwnUrls) <= Cardinality(credits' \cap OwnUrls)
         /\ Cardinality(credits \cap OwnUrls) \in Nat /\ Cardinality(credits' \cap OwnUrls) \in Nat
         /\ credits' \subseteq Addresses
         /\ earned' \in [Goals -> {"no", "undated"} \cup Addresses]
         /\ group' \in [Addresses -> GroupStates]
         /\ RewardsFollowCredits'
<1> DEFINE new == IF u \in credits THEN {} ELSE Unlocked(credits \cup {u})
<1>1. IsFiniteSet(credits) /\ IsFiniteSet({u}) /\ credits \subseteq Addresses
      /\ earned \in [Goals -> {"no", "undated"} \cup Addresses] /\ group \in [Addresses -> GroupStates]
      /\ RewardsFollowCredits
  BY FS_Singleton DEF CreditsGood, CreditsTypeOK
<1>2. /\ credits' = credits \cup {u}
      /\ earned' = [n \in Goals |-> IF n \notin new THEN earned[n] ELSE IF live THEN u ELSE "undated"]
      /\ group' = IF new # {} /\ live THEN [group EXCEPT ![u] = "offered"] ELSE group
  BY DEF Credit
<1>3. /\ Cardinality(credits) \in Nat /\ Cardinality(credits') \in Nat
      /\ Cardinality(credits) <= Cardinality(credits') /\ IsFiniteSet(credits')
      /\ Cardinality(credits \cap OwnUrls) <= Cardinality(credits' \cap OwnUrls)
      /\ Cardinality(credits \cap OwnUrls) \in Nat /\ Cardinality(credits' \cap OwnUrls) \in Nat
  BY <1>1, <1>2, MoreCredits
<1>4. /\ new \subseteq Goals
      /\ \A n \in new : earned[n] = "no" /\ Reached(n, credits')
      /\ \A n \in Goals \ new : u \in credits \/ ~Reached(n, credits') \/ earned[n] # "no"
      /\ u \in credits => new = {}
  BY <1>2 DEF Unlocked
<1> HIDE DEF new
<1>5. \A v \in Addresses : v # "no" /\ v # "undated"
  BY CreditsAssumption
<1>6. ASSUME NEW n \in Goals
      PROVE  /\ n \in Nat
             /\ Reached(n, credits) => Reached(n, credits')
             /\ u \in credits => (Reached(n, credits) <=> Reached(n, credits'))
             /\ earned[n] # "no" <=> Reached(n, credits)
             /\ earned'[n] = IF n \notin new THEN earned[n] ELSE IF live THEN u ELSE "undated"
  <2>1. n \in Nat
    BY CreditsAssumption
  <2>2. u \in credits => credits' = credits
    BY <1>2
  <2>3. Reached(n, credits) => Reached(n, credits')
    BY <1>3, <2>1 DEF Reached
  <2>4. u \in credits => (Reached(n, credits) <=> Reached(n, credits'))
    BY <2>2
  <2>5. earned[n] # "no" <=> Reached(n, credits)
    BY <1>1 DEF RewardsFollowCredits
  <2>6. earned'[n] = IF n \notin new THEN earned[n] ELSE IF live THEN u ELSE "undated"
    BY <1>2
  <2> QED
    BY <2>1, <2>3, <2>4, <2>5, <2>6
<1>7. ASSUME NEW n \in Goals
      PROVE  earned'[n] # "no" <=> Reached(n, credits')
  <2>1. CASE n \in new
    BY <1>4, <1>5, <1>6, <2>1
  <2>2. CASE n \notin new
    BY <1>4, <1>6, <2>2
  <2> QED
    BY <2>1, <2>2
<1>8. ASSUME NEW v \in Addresses
      PROVE  group'[v] # "none" <=> \E n \in Goals : earned'[n] = v
  <2>1. group[v] # "none" <=> \E n \in Goals : earned[n] = v
    BY <1>1 DEF RewardsFollowCredits
  <2>2. CASE new # {} /\ live /\ v = u
    <3>1. group'[v] = "offered"
      BY <1>1, <1>2, <2>2
    <3>2. PICK n \in new : TRUE
      BY <2>2
    <3>3. n \in Goals /\ earned'[n] = v
      BY <1>4, <1>6, <2>2
    <3> QED
      BY <3>1, <3>3
  <2>3. CASE ~(new # {} /\ live /\ v = u)
    <3>1. group'[v] = group[v]
      BY <1>1, <1>2, <2>3
    <3>2. ASSUME NEW n \in Goals
          PROVE  earned'[n] = v <=> earned[n] = v
      BY <1>4, <1>5, <1>6, <2>3
    <3> QED
      BY <2>1, <3>1, <3>2
  <2> QED
    BY <2>2, <2>3
<1>9. RewardsFollowCredits'
  BY <1>7, <1>8 DEF RewardsFollowCredits, Reached
<1>10. earned' \in [Goals -> {"no", "undated"} \cup Addresses]
  BY <1>1, <1>2
<1>11. group' \in [Addresses -> GroupStates]
  BY <1>1, <1>2 DEF GroupStates
<1> QED
  BY <1>1, <1>2, <1>3, <1>9, <1>10, <1>11

\* The credits of the reader: what is read is said to be so.
LEMMA ReadGood ==
  ASSUME CreditsGood, NEW i \in there, read' = read \cup {i},
         UNCHANGED <<found, there, scan, intro, before>>,
         \/ \E live \in BOOLEAN : Credit(UrlOf[i], live)
         \/ UNCHANGED <<credits, earned, group>>
  PROVE  CreditsGood'
<1>1. i \in ArticleIds /\ UrlOf[i] \in Addresses
  BY ScanTypes DEF CreditsGood, CreditsTypeOK, ArticleIds, Addresses
<1>2. /\ credits \subseteq credits' /\ IsFiniteSet(credits') /\ credits' \subseteq Addresses
      /\ Cardinality(credits \cap OwnUrls) <= Cardinality(credits' \cap OwnUrls)
      /\ Cardinality(credits \cap OwnUrls) \in Nat /\ Cardinality(credits' \cap OwnUrls) \in Nat
      /\ earned' \in [Goals -> {"no", "undated"} \cup Addresses]
      /\ group' \in [Addresses -> GroupStates]
      /\ RewardsFollowCredits'
  <2>1. CASE \E live \in BOOLEAN : Credit(UrlOf[i], live)
    BY <1>1, <2>1, CreditGood
  <2>2. CASE UNCHANGED <<credits, earned, group>>
    <3>1. IsFiniteSet({}) /\ credits \cup {} = credits
      BY FS_EmptySet
    <3>2. Cardinality(credits \cap OwnUrls) \in Nat
      BY <3>1, MoreCredits DEF CreditsGood
    <3> QED
      BY <2>2, <3>2 DEF CreditsGood, CreditsTypeOK, RewardsFollowCredits, Reached
  <2> QED
    BY <2>1, <2>2
<1>3. CreditsTypeOK'
  BY <1>2 DEF CreditsGood, CreditsTypeOK
<1>4. scan.credited <= Cardinality(credits' \cap OwnUrls)
  BY <1>2, ScanTypes DEF CreditsGood
<1> QED
  BY <1>2, <1>3, <1>4 DEF CreditsGood

LEMMA FinishItemGood ==
  ASSUME CreditsGood, NEW u \in Addresses, NEW live \in BOOLEAN, FinishItem(u, live)
  PROVE  CreditsGood'
<1> USE DEF FinishItem
<1>1. /\ credits \subseteq credits' /\ IsFiniteSet(credits') /\ credits' \subseteq Addresses
      /\ Cardinality(credits \cap OwnUrls) <= Cardinality(credits' \cap OwnUrls)
      /\ Cardinality(credits \cap OwnUrls) \in Nat /\ Cardinality(credits' \cap OwnUrls) \in Nat
      /\ earned' \in [Goals -> {"no", "undated"} \cup Addresses]
      /\ group' \in [Addresses -> GroupStates]
      /\ RewardsFollowCredits'
  BY CreditGood
<1>2. CreditsTypeOK'
  BY <1>1 DEF CreditsGood, CreditsTypeOK
<1>3. scan.credited <= Cardinality(credits' \cap OwnUrls)
  BY <1>1, ScanTypes DEF CreditsGood
<1> QED
  BY <1>1, <1>2, <1>3 DEF CreditsGood

LEMMA PrepareGood ==
  ASSUME CreditsGood, Prepare
  PROVE  CreditsGood'
<1>1. /\ scan = NoScan /\ there \subseteq 1 .. found /\ found \in Nat /\ found <= LastId
      /\ LastId \in Nat /\ read \subseteq there
  BY ScanTypes DEF CreditsGood, CreditsTypeOK, Prepare
<1> DEFINE top == IF there = {} THEN 0 ELSE Max(there)
           kept == \E n \in Goals : earned[n] # "no"
<1>2. top \in 0 .. LastId /\ \A i \in there : 1 <= i /\ i <= top
  <2>1. CASE there = {}
    BY <1>1, <2>1
  <2>2. CASE there # {}
    <3>1. there \in SUBSET (0 .. found)
      BY <1>1
    <3>2. Max(there) \in there /\ \A y \in there : Max(there) >= y
      BY <1>1, <2>2, <3>1, MaxIsGreatest
    <3>3. \A i \in there : i \in Nat /\ 1 <= i /\ i <= found
      BY <1>1
    <3>4. top = Max(there)
      BY <2>2
    <3> HIDE DEF top
    <3>5. \A i \in there : i <= top
      BY <3>2, <3>3, <3>4
    <3>6. top \in Nat /\ top <= found
      BY <3>2, <3>3, <3>4
    <3> QED
      BY <1>1, <3>3, <3>5, <3>6
  <2> QED
    BY <2>1, <2>2
<1>3. /\ scan' = [upper |-> top, cursor |-> 0, credited |-> 0, preserved |-> kept, status |-> "running"]
      /\ before' = read /\ UNCHANGED <<found, there, read, credits, earned, group, intro>>
  BY DEF Prepare, NoScan
<1>4. kept \in BOOLEAN
  OBVIOUS
<1> HIDE DEF top, kept
<1>5. CreditsTypeOK'
  BY <1>1, <1>2, <1>3, <1>4 DEF CreditsGood, CreditsTypeOK
<1>6. \A i \in before' \cap there' : i <= scan'.upper /\ (i <= scan'.cursor => UrlOf[i] \in credits')
  BY <1>1, <1>2, <1>3
<1>7. RewardsFollowCredits'
  BY <1>3 DEF CreditsGood, RewardsFollowCredits, Reached
<1>8. 0 <= Cardinality(credits \cap OwnUrls)
  <2>1. IsFiniteSet({}) /\ credits \cup {} = credits
    BY FS_EmptySet
  <2> QED
    BY <2>1, MoreCredits DEF CreditsGood
<1> QED
  BY <1>1, <1>2, <1>3, <1>5, <1>6, <1>7, <1>8 DEF CreditsGood

LEMMA BatchGood ==
  ASSUME CreditsGood, Batch
  PROVE  CreditsGood'
<1> DEFINE rows == FirstOf(Ahead)
           reads == rows \cap read
           urls == {UrlOf[i] : i \in reads} \ credits
           last == IsLast
           count == scan.credited + Cardinality(urls)
           cursor == IF last THEN scan.upper ELSE Max(rows)
           status == IF last THEN "complete" ELSE "running"
<1>1. /\ credits' = credits \cup urls
      /\ earned' = [n \in Goals |->
           IF urls # {} /\ n \in Unlocked(credits \cup urls) THEN "undated" ELSE earned[n]]
      /\ scan' = [scan EXCEPT !.cursor = cursor, !.credited = count, !.status = status]
      /\ intro' = IF last /\ (count > 0 \/ scan.preserved) THEN "offered" ELSE intro
      /\ UNCHANGED <<found, there, read, group, before>> /\ scan.status = "running"
  BY DEF Batch
<1>2. /\ found \in Nat /\ found <= LastId /\ LastId \in Nat /\ there \subseteq 1 .. found
      /\ scan.cursor \in 0 .. LastId /\ scan.upper \in 0 .. LastId /\ read \subseteq there
      /\ scan.credited \in Nat /\ BatchSize \in Nat \ {0} /\ IsFiniteSet(credits)
  BY ScanTypes, CreditsAssumption DEF CreditsGood, CreditsTypeOK
<1>3. /\ rows \subseteq Ahead /\ IsFiniteSet(rows)
      /\ \A m \in rows, j \in Ahead : j <= m => j \in rows
      /\ Cardinality(rows) < BatchSize => rows = Ahead
  <2>1. Ahead \in SUBSET (1 .. found)
    BY <1>2 DEF Ahead
  <2> QED
    BY <1>2, <2>1, FirstRows
<1>4. IsFiniteSet(urls) /\ urls \subseteq OwnUrls /\ urls \cap credits = {} /\ Cardinality(urls) \in Nat
  <2>1. reads \in SUBSET rows
    OBVIOUS
  <2>2. IsFiniteSet(reads)
    BY <1>3, <2>1, FS_Subset
  <2>3. IsFiniteSet({UrlOf[i] : i \in reads})
    BY <2>2, ImageFinite
  <2>4. urls \in SUBSET {UrlOf[i] : i \in reads}
    OBVIOUS
  <2>5. IsFiniteSet(urls)
    BY <2>3, <2>4, FS_Subset
  <2>6. reads \subseteq ArticleIds
    <3>1. \A i \in reads : i \in there
      BY <1>3 DEF Ahead
    <3>2. \A i \in there : i \in ArticleIds
      BY <1>2 DEF ArticleIds
    <3> QED
      BY <3>1, <3>2
  <2>7. urls \subseteq OwnUrls
    BY <2>6 DEF OwnUrls
  <2> QED
    BY <2>5, <2>7, FS_CardinalityType
<1>5. \A i \in reads : UrlOf[i] \in credits \cup urls
  OBVIOUS
<1> HIDE DEF urls
<1>6. last <=> Cardinality(rows) < BatchSize
  BY DEF IsLast
<1>7. ~last => Max(rows) \in rows /\ \A y \in rows : y <= Max(rows)
  <2> SUFFICES ASSUME ~last PROVE Max(rows) \in rows /\ \A y \in rows : y <= Max(rows)
    OBVIOUS
  <2>1. Cardinality(rows) # 0
    BY <1>2, <1>6
  <2>2. rows # {}
    BY <2>1, FS_EmptySet
  <2>3. rows \in SUBSET (0 .. found)
    <3>1. \A y \in rows : y \in there
      BY <1>3 DEF Ahead
    <3>2. \A y \in there : y \in 0 .. found
      BY <1>2
    <3> QED
      BY <3>1, <3>2
  <2>4. \A y \in rows : Max(rows) >= y
    BY <1>2, <2>2, <2>3, MaxIsGreatest
  <2>5. Max(rows) \in rows
    BY <1>2, <2>2, <2>3, MaxIsGreatest
  <2> QED
    BY <1>2, <2>3, <2>4, <2>5
<1> HIDE DEF rows, last
<1>8. \A i \in Ahead : i \in there /\ i \in Nat /\ scan.cursor < i /\ i <= scan.upper
  BY <1>2 DEF Ahead
<1>9. cursor \in 0 .. LastId /\ cursor <= scan.upper /\ (last => cursor = scan.upper)
  BY <1>2, <1>3, <1>7, <1>8
<1>10. ASSUME NEW i \in before \cap there, i <= cursor
       PROVE  UrlOf[i] \in credits'
  <2>1. i \in read /\ i <= scan.upper /\ (i <= scan.cursor => UrlOf[i] \in credits) /\ i \in Nat
    <3>1. i \in read /\ i <= scan.upper /\ (i <= scan.cursor => UrlOf[i] \in credits)
      BY DEF CreditsGood
    <3>2. i \in there
      OBVIOUS
    <3>3. i \in Nat
      BY <1>2, <3>2
    <3> QED
      BY <3>1, <3>3
  <2>2. CASE i <= scan.cursor
    BY <1>1, <2>1, <2>2
  <2>3. CASE ~(i <= scan.cursor)
    <3>1. i \in Ahead
      BY <1>2, <2>1, <2>3 DEF Ahead
    <3>2. i \in rows
      <4>1. CASE last
        BY <1>3, <1>6, <3>1, <4>1
      <4>2. CASE ~last
        BY <1>3, <1>7, <1>10, <3>1, <4>2
      <4> QED
        BY <4>1, <4>2
    <3> QED
      BY <1>1, <1>5, <2>1, <3>2
  <2> QED
    BY <2>2, <2>3
<1>11. /\ IsFiniteSet(credits') /\ Cardinality(credits) \in Nat /\ Cardinality(credits') \in Nat
       /\ Cardinality(credits) <= Cardinality(credits')
  BY <1>1, <1>2, <1>4, MoreCredits
<1>12. count \in 0 .. LastId /\ count <= Cardinality(credits' \cap OwnUrls)
  <2>1. credits' \cap OwnUrls = (credits \cap OwnUrls) \cup urls
    BY <1>1, <1>4
  <2>2. credits \cap OwnUrls \in SUBSET credits /\ (credits \cap OwnUrls) \cap urls = {}
    BY <1>4
  <2>3. IsFiniteSet(credits \cap OwnUrls)
    BY <1>2, <2>2, FS_Subset
  <2>4. Cardinality(credits' \cap OwnUrls) = Cardinality(credits \cap OwnUrls) + Cardinality(urls)
    BY <1>4, <2>1, <2>2, <2>3, CardinalityOfTwo
  <2>5. scan.credited <= Cardinality(credits \cap OwnUrls) /\ Cardinality(credits \cap OwnUrls) \in Nat
    BY <2>3, FS_CardinalityType DEF CreditsGood
  <2>6. credits' \cap OwnUrls \in SUBSET OwnUrls
    OBVIOUS
  <2>7. Cardinality(credits' \cap OwnUrls) <= Cardinality(OwnUrls) /\ Cardinality(OwnUrls) <= LastId
        /\ Cardinality(OwnUrls) \in Nat
    BY <2>6, OwnUrlsFinite, FS_Subset, FS_CardinalityType
  <2> QED
    BY <1>2, <1>4, <2>4, <2>5, <2>7
<1>13. ASSUME NEW n \in Goals
       PROVE  /\ earned'[n] # "no" <=> Reached(n, credits')
              /\ \A v \in Addresses : earned'[n] = v <=> earned[n] = v
  <2>1. n \in Nat /\ \A v \in Addresses : v # "no" /\ v # "undated"
    BY CreditsAssumption
  <2>2. earned[n] # "no" <=> Reached(n, credits)
    BY DEF CreditsGood, RewardsFollowCredits
  <2>3. earned'[n] = IF urls # {} /\ Reached(n, credits') /\ earned[n] = "no" THEN "undated" ELSE earned[n]
    BY <1>1 DEF Unlocked
  <2>4. Reached(n, credits) => Reached(n, credits')
    BY <1>11, <2>1 DEF Reached
  <2>5. urls = {} => credits' = credits
    BY <1>1
  <2>6. CASE urls # {} /\ Reached(n, credits') /\ earned[n] = "no"
    BY <2>1, <2>3, <2>6
  <2>7. CASE ~(urls # {} /\ Reached(n, credits') /\ earned[n] = "no")
    BY <2>2, <2>3, <2>4, <2>5, <2>7
  <2> QED
    BY <2>6, <2>7
<1>14. RewardsFollowCredits'
  BY ZenonT(60), <1>1, <1>13 DEF CreditsGood, RewardsFollowCredits, Reached
<1>15. earned' \in [Goals -> {"no", "undated"} \cup Addresses] /\ credits' \subseteq Addresses
  BY <1>1, <1>4 DEF CreditsGood, CreditsTypeOK, OwnUrls, Addresses
<1> HIDE DEF count, cursor
<1>16. /\ scan'.cursor = cursor /\ scan'.credited = count /\ scan'.upper = scan.upper
       /\ scan'.status = status
       /\ scan' \in [upper: 0 .. LastId, cursor: 0 .. LastId, credited: 0 .. LastId,
                     preserved: BOOLEAN, status: {"none", "running", "complete"}]
  <2>1. scan \in [upper: 0 .. LastId, cursor: 0 .. LastId, credited: 0 .. LastId,
                     preserved: BOOLEAN, status: {"none", "running", "complete"}]
    BY DEF CreditsGood, CreditsTypeOK
  <2>2. status \in {"complete", "running"}
    OBVIOUS
  <2> HIDE DEF status
  <2> QED
    BY <1>1, <1>9, <1>12, <2>1, <2>2
<1>17. intro' \in GroupStates \ {"acknowledged"}
  BY <1>1 DEF CreditsGood, CreditsTypeOK, GroupStates
<1>18. CreditsTypeOK'
  BY <1>1, <1>15, <1>16, <1>17 DEF CreditsGood, CreditsTypeOK
<1>19. \A i \in before' \cap there' : i <= scan'.upper /\ (i <= scan'.cursor => UrlOf[i] \in credits')
  BY <1>1, <1>10, <1>16 DEF CreditsGood
<1> QED
  BY <1>1, <1>9, <1>11, <1>12, <1>14, <1>16, <1>18, <1>19 DEF CreditsGood

LEMMA CreditsStepGood == CreditsGood /\ [CreditsNext]_creditsVars => CreditsGood'
<1> SUFFICES ASSUME CreditsGood, [CreditsNext]_creditsVars PROVE CreditsGood'
  OBVIOUS
<1>1. ASSUME NEW i \in ArticleIds, MarkDone(i) \/ ImportRead(i) \/ FinishAudio(i) PROVE CreditsGood'
  BY <1>1, ReadGood DEF MarkDone, ImportRead, FinishAudio
<1>2. ASSUME NEW i \in ArticleIds, RemoveArticle(i) PROVE CreditsGood'
  BY <1>2 DEF RemoveArticle, CreditsGood, CreditsTypeOK, RewardsFollowCredits, Reached
<1>3. ASSUME NEW u \in Addresses, NEW live \in BOOLEAN, FinishItem(u, live) PROVE CreditsGood'
  BY <1>3, FinishItemGood
<1>4. ASSUME NEW u \in Addresses, Claim(u) \/ Acknowledge(u) PROVE CreditsGood'
  <2>1. PICK to \in {"claimed", "acknowledged"} :
          group[u] # "none" /\ group' = [group EXCEPT ![u] = to]
          /\ UNCHANGED <<found, there, read, credits, earned, scan, intro, before>>
    BY <1>4 DEF Claim, Acknowledge
  <2>2. group' \in [Addresses -> GroupStates]
    BY <2>1 DEF CreditsGood, CreditsTypeOK, GroupStates
  <2>3. \A v \in Addresses : group'[v] # "none" <=> group[v] # "none"
    BY <2>1 DEF CreditsGood, CreditsTypeOK
  <2> QED
    BY <2>1, <2>2, <2>3 DEF CreditsGood, CreditsTypeOK, RewardsFollowCredits, Reached
<1>5. CASE Prepare
  BY <1>5, PrepareGood
<1>6. CASE Batch
  BY <1>6, BatchGood
<1>7. CASE ClaimIntro
  BY <1>7 DEF ClaimIntro, CreditsGood, CreditsTypeOK, RewardsFollowCredits, Reached, GroupStates
<1>8. CASE Discover
  <2>1. found \in Nat /\ found < LastId /\ LastId \in Nat /\ before \subseteq 1 .. found
        /\ there \subseteq 1 .. found
    BY <1>8, ScanTypes DEF Discover, CreditsGood, CreditsTypeOK
  <2>2. before \cap (there \cup {found + 1}) = before \cap there
    BY <2>1
  <2>3. CreditsTypeOK'
    BY <1>8, <2>1 DEF Discover, CreditsGood, CreditsTypeOK
  <2> QED
    BY <1>8, <2>2, <2>3 DEF Discover, CreditsGood, RewardsFollowCredits, Reached
<1>9. CASE UNCHANGED creditsVars
  BY <1>9 DEF creditsVars, CreditsGood, CreditsTypeOK, RewardsFollowCredits, Reached
<1> QED
  BY <1>1, <1>2, <1>3, <1>4, <1>5, <1>6, <1>7, <1>8, <1>9 DEF CreditsNext

LEMMA CreditsParts == CreditsGood => CreditsTypeOK /\ CreditsInv
<1>1. CreditsGood => NoCursorHole
  BY ScanTypes DEF CreditsGood, NoCursorHole, CreditsTypeOK
<1> QED
  BY <1>1 DEF CreditsGood, CreditsInv

\* No read from before the horizon is passed over by the tool, however its batches
\* fall between the reading, the imports and the retention of articles, and rewards
\* are those of the number of credits.
THEOREM NoReadIsPassedOver == CreditsSpec => []CreditsInv
  BY CreditsInitGood, CreditsStepGood, CreditsParts, PTL DEF CreditsSpec

(***************************************************************************)
(* Visits: the streak, and the welcome                                     *)
(***************************************************************************)

VisitRow == [credited: BOOLEAN, welcome: {"none", "pending", "claimed", "suppressed"}]

\* Before the first credit there is no run, and a welcome that was shown is claimed.
VisitsGood ==
  /\ VisitsTypeOK
  /\ streak.last = NoDate => CreditedDates = {} /\ streak.current = 0
  /\ StreakIsARun
  /\ \A d \in Dates : shown[d] = 0 \/ (shown[d] = 1 /\ visits[d].welcome = "claimed")

LEMMA VisitsInitGood == VisitsInit => VisitsGood
<1> SUFFICES ASSUME VisitsInit PROVE VisitsGood
  OBVIOUS
<1> USE DEF VisitsInit
<1>1. CreditedDates = {}
  BY DEF CreditedDates, NoVisit
<1>2. StreakIsARun
  BY <1>1 DEF StreakIsARun, NoStreak
<1>3. VisitsTypeOK
  BY VisitsAssumption DEF VisitsTypeOK, NoVisit, NoStreak
<1> QED
  BY <1>1, <1>2, <1>3 DEF VisitsGood, NoStreak

\* Wherever the reader is, it is one of the dates.
LEMMA DateIsKnown ==
  ASSUME VisitsTypeOK, NEW z \in VisitZones
  PROVE  DateIn(z) \in Dates /\ DateIn(z) \in Nat
<1>1. /\ VisitDay \in Nat \ {0} /\ time \in Nat /\ time + z \in Nat /\ MaxTime \in Nat
      /\ time + z <= MaxTime + VisitDay
  BY VisitsAssumption DEF VisitsTypeOK
<1>2. DateIn(z) \in Nat /\ MaxTime \div VisitDay \in Nat
  BY <1>1, Divided DEF DateIn
<1>3. DateIn(z) <= MaxTime \div VisitDay + 1
  BY <1>1, DaysFollow DEF DateIn
<1> QED
  BY <1>2, <1>3 DEF Dates

LEMMA RecordVisitGood == VisitsGood /\ RecordVisit => VisitsGood'
<1> SUFFICES ASSUME VisitsGood, RecordVisit PROVE VisitsGood'
  OBVIOUS
<1> DEFINE run == IF Continuing THEN streak.current + 1 ELSE 1
<1>1. PICK d \in Dates : d = Today /\ d \in Nat
  BY DateIsKnown DEF VisitsGood, VisitsTypeOK, Today
<1>2. /\ visits \in [Dates -> VisitRow] /\ visits[d] \in VisitRow
      /\ streak.last \in Dates \cup {NoDate} /\ streak.current \in Nat /\ streak.best \in Nat
      /\ streak.next \in Nat /\ Dates \subseteq Nat /\ shown \in [Dates -> Nat]
  BY DEF VisitsGood, VisitsTypeOK, VisitRow, Dates
<1>3. PICK row \in VisitRow : /\ row = Recorded(d)
                              /\ row.credited = visits[d].credited
                              /\ visits[d].welcome = "claimed" => row.welcome = "claimed"
  <2>1. CASE visits[d] # NoVisit
    BY <1>2, <2>1 DEF Recorded
  <2>2. CASE visits[d] = NoVisit
    <3>1. visits[d].credited = FALSE /\ visits[d].welcome = "none"
      BY <2>2 DEF NoVisit
    <3>2. Recorded(d) = [credited |-> FALSE, welcome |-> IF welcomes THEN "pending" ELSE "suppressed"]
      BY <2>2 DEF Recorded
    <3>3. Recorded(d) \in VisitRow /\ Recorded(d).credited = FALSE
      BY <3>2 DEF VisitRow
    <3> QED
      BY <3>1, <3>3
  <2> QED
    BY <2>1, <2>2
<1>4. CASE Creditable
  <2>1. /\ streak' = [last |-> d, current |-> run, next |-> Midnight(d, home),
                      best |-> IF run > streak.best THEN run ELSE streak.best]
        /\ visits' = [visits EXCEPT ![d] = [row EXCEPT !.credited = TRUE]]
        /\ UNCHANGED <<time, home, welcomes, shown>>
    BY <1>1, <1>3, <1>4 DEF RecordVisit
  <2>2. [row EXCEPT !.credited = TRUE] \in VisitRow
        /\ [row EXCEPT !.credited = TRUE].credited
        /\ [row EXCEPT !.credited = TRUE].welcome = row.welcome
    BY DEF VisitRow
  <2>3. visits' \in [Dates -> VisitRow] /\ CreditedDates' = CreditedDates \cup {d}
        /\ \A e \in Dates : visits[e].welcome = "claimed" => visits'[e].welcome = "claimed"
    BY <1>2, <1>3, <2>1, <2>2 DEF CreditedDates
  <2>4. run \in Nat /\ run >= 1
    BY <1>2
  <2>5. streak.last = NoDate \/ d > streak.last
    BY <1>1, <1>4 DEF Creditable
  <2>6. /\ \A e \in CreditedDates : e < d /\ e \in Nat
        /\ d - run \notin CreditedDates
        /\ \A k \in 1 .. run - 1 : d - k \in CreditedDates
    <3>1. streak.last \in Int /\ (streak.last = NoDate => streak.last = -1)
      <4>1. NoDate = -1 /\ -1 \in Int /\ \A e \in Dates : e \in Int
        BY <1>2 DEF NoDate
      <4> HIDE DEF NoDate
      <4> QED
        BY <1>2, <4>1
    <3>2. \A e \in CreditedDates : e < d /\ e \in Nat /\ e <= streak.last
      BY <1>2, <2>5, <3>1 DEF VisitsGood, StreakIsARun, CreditedDates
    <3>3. CASE Continuing
      <4>1. streak.last = d - 1 /\ run = streak.current + 1
        BY <1>1, <3>3 DEF Continuing
      <4>2. streak.last - streak.current \notin CreditedDates
            /\ \A k \in 0 .. streak.current - 1 : streak.last - k \in CreditedDates
        BY DEF VisitsGood, StreakIsARun
      <4>3. d - run = streak.last - streak.current
        BY <1>2, <4>1
      <4>4. ASSUME NEW k \in 1 .. run - 1 PROVE d - k \in CreditedDates
        <5>1. k - 1 \in 0 .. streak.current - 1 /\ d - k = streak.last - (k - 1)
          BY <1>2, <4>1
        <5> QED
          BY <4>2, <5>1
      <4> QED
        BY <3>2, <4>2, <4>3, <4>4
    <3>4. CASE ~Continuing
      <4>1. run = 1 /\ streak.last # d - 1
        BY <1>1, <3>4 DEF Continuing
      <4>2. d - 1 \notin CreditedDates
        <5>1. CASE streak.last = NoDate
          BY <5>1 DEF VisitsGood
        <5>2. CASE d > streak.last
          <6>1. ASSUME d - 1 \in CreditedDates PROVE FALSE
            <7>1. d - 1 <= streak.last
              BY <3>2, <6>1
            <7> QED
              BY <1>1, <3>1, <4>1, <5>2, <7>1
          <6> QED
            BY <6>1
        <5> QED
          BY <2>5, <5>1, <5>2
      <4> QED
        BY <3>2, <4>1, <4>2
    <3> QED
      BY <3>3, <3>4
  <2> HIDE DEF run
  <2>7. \A k \in 0 .. run - 1 : d - k \in CreditedDates'
    BY <1>1, <2>3, <2>4, <2>6
  <2>8. d - run \notin CreditedDates'
    BY <1>1, <2>3, <2>4, <2>6
  <2>9. streak'.best = 0 \/ \E e \in CreditedDates' :
          \A k \in 0 .. streak'.best - 1 : e - k \in CreditedDates'
    <3>1. CASE run > streak.best
      BY <2>1, <2>3, <2>7, <3>1
    <3>2. CASE ~(run > streak.best)
      <4>1. streak'.best = streak.best
        BY <2>1, <3>2
      <4> QED
        BY <2>3, <4>1 DEF VisitsGood, StreakIsARun
    <3> QED
      BY <3>1, <3>2
  <2>10. StreakIsARun'
    <3>1. streak'.last = d /\ streak'.current = run
      BY <2>1
    <3>2. \A e \in CreditedDates' : e <= d
      BY <1>1, <2>3, <2>6
    <3> QED
      BY <2>7, <2>8, <2>9, <3>1, <3>2 DEF StreakIsARun
  <2>11. Midnight(d, home) \in Nat
    <3>1. /\ VisitDay \in Nat \ {0} /\ home \in Nat /\ home <= VisitDay /\ d + 1 \in Nat /\ d * VisitDay \in Nat
          /\ (d + 1) * VisitDay = d * VisitDay + VisitDay
      BY <1>1, VisitsAssumption DEF VisitsGood, VisitsTypeOK
    <3> QED
      BY <3>1 DEF Midnight
  <2>12. VisitsTypeOK'
    BY <1>2, <2>1, <2>3, <2>4, <2>11 DEF VisitsGood, VisitsTypeOK, VisitRow
  <2>13. streak'.last # NoDate
    BY <1>1, <2>1 DEF NoDate
  <2> QED
    BY <2>1, <2>3, <2>10, <2>12, <2>13 DEF VisitsGood
<1>5. CASE ~Creditable
  <2>1. visits' = [visits EXCEPT ![d] = row] /\ UNCHANGED <<streak, time, home, welcomes, shown>>
    BY <1>1, <1>3, <1>5 DEF RecordVisit
  <2>2. visits' \in [Dates -> VisitRow] /\ CreditedDates' = CreditedDates
        /\ \A e \in Dates : visits[e].welcome = "claimed" => visits'[e].welcome = "claimed"
    BY <1>2, <1>3, <2>1 DEF CreditedDates
  <2> QED
    BY <2>1, <2>2 DEF VisitsGood, VisitsTypeOK, VisitRow, StreakIsARun
<1> QED
  BY <1>4, <1>5

LEMMA VisitsStepGood == VisitsGood /\ [VisitsNext]_visitsVars => VisitsGood'
<1> SUFFICES ASSUME VisitsGood, [VisitsNext]_visitsVars PROVE VisitsGood'
  OBVIOUS
<1>0. visits \in [Dates -> VisitRow] /\ shown \in [Dates -> Nat]
  BY DEF VisitsGood, VisitsTypeOK, VisitRow
<1>1. CASE RecordVisit
  BY <1>1, RecordVisitGood
<1>2. CASE TimePasses
  <2>1. time' \in 0 .. MaxTime /\ UNCHANGED <<home, welcomes, visits, streak, shown>>
    BY <1>2, VisitsAssumption DEF TimePasses, VisitsGood, VisitsTypeOK
  <2> QED
    BY <2>1 DEF VisitsGood, VisitsTypeOK, StreakIsARun, CreditedDates
<1>3. ASSUME NEW z \in VisitZones, NEW on \in BOOLEAN, UpdatePreferences(z, on) PROVE VisitsGood'
  <2>1. PICK d \in Dates : d = DateIn(z)
    BY DateIsKnown DEF VisitsGood
  <2>2. /\ visits' = IF ~on /\ visits[d].welcome = "pending"
                     THEN [visits EXCEPT ![d].welcome = "suppressed"] ELSE visits
        /\ home' \in VisitZones /\ welcomes' \in BOOLEAN /\ UNCHANGED <<time, streak, shown>>
    BY <1>3, <2>1 DEF UpdatePreferences
  <2>3. visits' \in [Dates -> VisitRow] /\ CreditedDates' = CreditedDates
        /\ \A e \in Dates : visits[e].welcome = "claimed" => visits'[e].welcome = "claimed"
    BY <1>0, <2>2 DEF CreditedDates, VisitRow
  <2> QED
    BY <2>2, <2>3 DEF VisitsGood, VisitsTypeOK, VisitRow, StreakIsARun
<1>4. ASSUME NEW d \in Dates, ClaimPresentation(d) PROVE VisitsGood'
  <2>1. /\ visits[d].welcome = "pending" /\ visits' = [visits EXCEPT ![d].welcome = "claimed"]
        /\ shown' = [shown EXCEPT ![d] = shown[d] + 1] /\ UNCHANGED <<time, home, welcomes, streak>>
    BY <1>4 DEF ClaimPresentation
  <2>2. shown[d] = 0
    BY <2>1 DEF VisitsGood
  <2>3. visits' \in [Dates -> VisitRow] /\ CreditedDates' = CreditedDates
        /\ visits'[d].welcome = "claimed" /\ \A e \in Dates \ {d} : visits'[e] = visits[e]
    BY <1>0, <2>1 DEF CreditedDates, VisitRow
  <2>4. shown' \in [Dates -> Nat] /\ shown'[d] = 1 /\ \A e \in Dates \ {d} : shown'[e] = shown[e]
    BY <1>0, <2>1, <2>2
  <2> QED
    BY <2>1, <2>3, <2>4 DEF VisitsGood, VisitsTypeOK, VisitRow, StreakIsARun
<1>5. CASE UNCHANGED visitsVars
  BY <1>5 DEF visitsVars, VisitsGood, VisitsTypeOK, StreakIsARun, CreditedDates
<1> QED
  BY <1>1, <1>2, <1>3, <1>4, <1>5 DEF VisitsNext

LEMMA VisitsParts == VisitsGood => VisitsTypeOK /\ VisitsInv
  BY DEF VisitsGood, VisitsInv, WelcomeShownOnce

\* The streak is a run of credited dates, and a date is welcomed once, wherever the
\* reader has travelled.
THEOREM StreaksAreRuns == VisitsSpec => []VisitsInv
  BY VisitsInitGood, VisitsStepGood, VisitsParts, PTL DEF VisitsSpec

-----------------------------------------------------------------------------
(* Evidence: its types                                                     *)

\* Evidence is of the past, and no more time can be leased than has passed.
EvidenceGood ==
  /\ EvidenceTypeOK
  /\ leased <= at
  /\ evidence # Nobody => evidence.updated <= at

LEMMA EvidenceInitGood == EvidenceInit => EvidenceGood
  BY EvidenceAssumption DEF EvidenceInit, EvidenceGood, EvidenceTypeOK, Bodies

LEMMA EvidenceStepGood == EvidenceGood /\ [EvidenceNext]_evidenceVars => EvidenceGood'
<1> SUFFICES ASSUME EvidenceGood, [EvidenceNext]_evidenceVars PROVE EvidenceGood'
  OBVIOUS
<1>0. /\ at \in Nat /\ leased \in Nat /\ leased <= at /\ at <= Until
      /\ {LeaseLength, MostAtOnce, Required, AtTheEnd, Expiry, Until} \subseteq Nat \ {0}
  BY EvidenceAssumption DEF EvidenceGood, EvidenceTypeOK
<1>1. ASSUME NEW t \in Tabs, NEW p \in Pages, NEW v \in {"first", "second"},
             NEW heard \in BOOLEAN, StartReading(t, p, v, heard)
      PROVE  EvidenceGood'
  <2> DEFINE kept == Live /\ SameBody(p, v)
             attentive == IF kept THEN evidence.attentive ELSE 0
             end == IF kept THEN evidence.end ELSE 0
             holder == IF heard THEN t ELSE Nobody
  <2>1. /\ evidence' = [holder |-> holder, page |-> p, version |-> v,
                  lease |-> at + LeaseLength, updated |-> at, expires |-> at + Expiry,
                  attentive |-> attentive, end |-> end, credited |-> FALSE, unheard |-> FALSE]
        /\ consent /\ UNCHANGED <<at, consent, body, credit, list>>
        /\ leased' \in Nat /\ leased' <= at
    BY <1>0, <1>1 DEF StartReading
  <2>2. attentive \in 0 .. Required /\ end \in 0 .. AtTheEnd
    <3>1. CASE kept
      <4>1. evidence \in Evidence
        BY <3>1 DEF Live, EvidenceGood, EvidenceTypeOK
      <4> QED
        BY <3>1, <4>1 DEF Evidence
    <3>2. CASE ~kept
      BY <1>0, <3>2
    <3> QED
      BY <3>1, <3>2
  <2>3. holder \in Tabs \cup {Nobody}
    OBVIOUS
  <2> HIDE DEF attentive, end, holder
  <2>4. at + LeaseLength \in 0 .. Until + LeaseLength /\ at \in 0 .. Until
        /\ at + Expiry \in 0 .. Until + Expiry
    BY <1>0
  <2>5. evidence' \in Evidence /\ evidence'.updated = at
    BY <2>1, <2>2, <2>3, <2>4 DEF Evidence
  <2>6. leased' \in 0 .. Until
    BY <1>0, <2>1
  <2>7. /\ body \in [Pages -> Bodies] /\ credit \subseteq Pages
        /\ list \in [Pages -> {"open", "done", "away"}] /\ at \in 0 .. Until /\ consent \in BOOLEAN
    BY DEF EvidenceGood, EvidenceTypeOK
  <2>8. EvidenceTypeOK'
    BY <2>1, <2>5, <2>6, <2>7 DEF EvidenceTypeOK, Evidence, Bodies
  <2>9. at <= at
    BY <1>0
  <2> QED
    BY <2>1, <2>5, <2>8, <2>9 DEF EvidenceGood
<1>2. ASSUME NEW t \in Tabs, NEW a \in 0 .. MostAtOnce, NEW e \in 0 .. AtTheEnd,
             NEW near \in BOOLEAN, NEW heard \in BOOLEAN, ReportReading(t, a, e, near, heard)
      PROVE  EvidenceGood'
  <2> DEFINE accepted == Smaller(a, Elapsed)
             attentive == Smaller(Required, evidence.attentive + accepted)
             end == IF near THEN Smaller(AtTheEnd, evidence.end + Smaller(e, accepted)) ELSE 0
             qualified == attentive >= Required /\ near /\ end >= AtTheEnd
  <2>1. evidence \in Evidence /\ evidence.updated <= at
    BY <1>2 DEF ReportReading, Reportable, Live, EvidenceGood, EvidenceTypeOK
  <2>2. /\ evidence' = [evidence EXCEPT !.attentive = attentive, !.end = end, !.updated = at,
                          !.lease = at + LeaseLength, !.credited = qualified, !.unheard = ~heard]
        /\ credit' = IF qualified THEN credit \cup {evidence.page} ELSE credit
        /\ list' = IF qualified /\ list[evidence.page] = "open"
                   THEN [list EXCEPT ![evidence.page] = "done"] ELSE list
        /\ consent /\ UNCHANGED <<at, consent, body, leased>>
    BY <1>2 DEF ReportReading
  <2>3. accepted \in Nat
    <3>1. evidence.updated \in Nat /\ at - evidence.updated \in Nat /\ a \in Nat
      BY <1>0, <2>1 DEF Evidence
    <3> QED
      BY <1>0, <3>1 DEF Smaller, Elapsed
  <2> HIDE DEF accepted
  <2>4. attentive \in 0 .. Required
    <3>1. evidence.attentive \in Nat
      BY <1>0, <2>1 DEF Evidence
    <3> QED
      BY <1>0, <2>3, <3>1 DEF Smaller
  <2>5. end \in 0 .. AtTheEnd
    <3>1. evidence.end \in Nat /\ Smaller(e, accepted) \in Nat
      BY <1>0, <2>1, <2>3 DEF Evidence, Smaller
    <3> QED
      BY <1>0, <3>1 DEF Smaller
  <2>6. qualified \in BOOLEAN /\ (~heard) \in BOOLEAN
    <3> HIDE DEF qualified
    <3>1. (~heard) \in BOOLEAN
      OBVIOUS
    <3>2. qualified \in BOOLEAN
      BY DEF qualified
    <3> QED
      BY <3>1, <3>2
  <2> HIDE DEF attentive, end, qualified
  <2>7. at + LeaseLength \in 0 .. Until + LeaseLength /\ at \in 0 .. Until /\ at <= at
    BY <1>0
  <2>8. evidence' \in Evidence /\ evidence'.updated = at
    <3>1. evidence' = [holder |-> evidence.holder, page |-> evidence.page,
                       version |-> evidence.version, lease |-> at + LeaseLength,
                       updated |-> at, expires |-> evidence.expires, attentive |-> attentive,
                       end |-> end, credited |-> qualified, unheard |-> ~heard]
      BY <2>1, <2>2 DEF Evidence
    <3>2. evidence.holder \in Tabs \cup {Nobody} /\ evidence.page \in Pages
          /\ evidence.version \in {"first", "second"} /\ evidence.expires \in 0 .. Until + Expiry
      BY <2>1 DEF Evidence
    <3> QED
      BY <2>4, <2>5, <2>6, <2>7, <3>1, <3>2 DEF Evidence
  <2>9. credit' \subseteq Pages /\ list' \in [Pages -> {"open", "done", "away"}]
    <3>1. evidence.page \in Pages
      BY <2>1 DEF Evidence
    <3> QED
      BY <2>2, <3>1 DEF EvidenceGood, EvidenceTypeOK
  <2>10. body \in [Pages -> Bodies] /\ at \in 0 .. Until /\ consent \in BOOLEAN /\ leased \in 0 .. Until
    BY DEF EvidenceGood, EvidenceTypeOK
  <2>11. EvidenceTypeOK'
    BY <2>2, <2>8, <2>9, <2>10 DEF EvidenceTypeOK, Evidence, Bodies
  <2> QED
    BY <1>0, <2>2, <2>7, <2>8, <2>11 DEF EvidenceGood
<1>3. ASSUME NEW t \in Tabs, Resend(t) PROVE EvidenceGood'
  <2>1. evidence \in Evidence /\ evidence' = [evidence EXCEPT !.unheard = FALSE]
        /\ consent /\ UNCHANGED <<at, consent, body, credit, list, leased>>
    BY <1>3 DEF Resend, Live, EvidenceGood, EvidenceTypeOK
  <2>2. evidence' \in Evidence /\ evidence'.updated = evidence.updated
    BY <2>1 DEF Evidence
  <2>3. evidence.updated <= at
    BY <1>3 DEF Resend, Live, EvidenceGood
  <2> QED
    BY <2>1, <2>2, <2>3 DEF EvidenceGood, EvidenceTypeOK, Evidence, Bodies
<1>4. CASE TickOn
  <2>1. at' = at + 1 /\ at < Until /\ UNCHANGED <<consent, body, evidence, credit, list>>
        /\ leased' \in {leased, leased + 1}
    BY <1>4 DEF TickOn
  <2>2. at' \in 0 .. Until /\ leased' \in 0 .. Until /\ leased' <= at'
    BY <1>0, <2>1
  <2>3. evidence # Nobody => evidence.updated <= at'
    <3>1. CASE evidence # Nobody
      <4>1. evidence.updated \in Nat /\ evidence.updated <= at
        BY <1>0, <3>1 DEF EvidenceGood, EvidenceTypeOK, Evidence
      <4> QED
        BY <1>0, <2>1, <4>1
    <3> QED
      BY <3>1
  <2> QED
    BY <2>1, <2>2, <2>3 DEF EvidenceGood, EvidenceTypeOK, Evidence, Bodies
<1>5. CASE ChangeConsent
  BY <1>0, <1>5 DEF ChangeConsent, EvidenceGood, EvidenceTypeOK, Evidence, Bodies
<1>6. ASSUME NEW p \in Pages, NEW to \in {"open", "done", "away"}, MoveArticle(p, to)
      PROVE  EvidenceGood'
  BY <1>6 DEF MoveArticle, EvidenceGood, EvidenceTypeOK, Evidence, Bodies
<1>7. ASSUME NEW p \in Pages, NEW versions \in Bodies, ChangeBody(p, versions)
      PROVE  EvidenceGood'
  BY <1>7 DEF ChangeBody, EvidenceGood, EvidenceTypeOK, Evidence, Bodies
<1>8. CASE UNCHANGED evidenceVars
  BY <1>8 DEF evidenceVars, EvidenceGood, EvidenceTypeOK, Evidence, Bodies
<1> QED
  BY <1>1, <1>2, <1>3, <1>4, <1>5, <1>6, <1>7, <1>8 DEF EvidenceNext

(***************************************************************************)
(* Podcasts: what a request without company makes                          *)
(***************************************************************************)

Begun == {"look", "speak", "stream", "read", "unlink", "tidy", "write", "fill"}

Working == Begun \cup {"script"}

CallerRow ==
  [pc: Working \cup {"waiting", "gone"}, script: Callers \cup {Silent}, turn: 1 .. Turns + 1,
   held: Seq(Callers \cup {Torn}), alone: BOOLEAN, file: {"own", "mixed", "gone"}]

Sounds == UNION {[1 .. k -> Callers \cup {Torn}] : k \in 0 .. Turns + 1}

\* A caller c goes by the script s, where b are the files of the turns: it holds
\* a turn for each that it has done, and without company those of the script, and
\* streams into a file of its own.
GoesBy(c, s, b) ==
  /\ c.pc \in {"waiting", "gone", "script", "look"} => c.turn = 1 /\ c.held = <<>>
  /\ c.pc \in {"speak", "stream", "read", "tidy"} => c.turn <= Turns /\ Len(c.held) = c.turn - 1
  /\ c.pc = "unlink" => c.turn <= Turns /\ Len(c.held) = c.turn
  /\ c.pc \in {"write", "fill"} => Len(c.held) = Turns
  /\ c.pc \in Begun => c.script \in Callers /\ s \in Callers
  /\ c.pc \in Begun /\ c.alone =>
       /\ c.script = s /\ \A i \in 1 .. Len(c.held) : c.held[i] = s
       /\ c.pc = "stream" => c.file = "own"
       /\ c.pc = "read" => b[c.turn] = s

PodcastGood ==
  /\ script \in Callers \cup {Silent} /\ bits \in [1 .. Turns -> Callers \cup {Torn, Silent}]
  /\ callers \in [Callers -> CallerRow]
  /\ \A r \in Callers : GoesBy(callers[r], script, bits)
  /\ \A r \in AtWork : callers[r].alone => AtWork = {r} /\ (callers[r].pc = "fill" => sound = <<>>)
  /\ sound \in {Silent} \cup Sounds /\ wrote \in {"nothing", "alone", "together", "cut"}
  /\ wrote # "nothing" => sound # Silent
  /\ sound # Silent => script \in Callers
  /\ wrote = "alone" => AtWork = {} /\ sound = [i \in 1 .. Turns |-> script]
  /\ version \in 1 .. MaxVersion /\ token \in 0 .. MaxVersion /\ stops \in 0 .. MaxStops

LEMMA AtWorkIs ==
  ASSUME callers \in [Callers -> CallerRow]
  PROVE  AtWork = {r \in Callers : callers[r].pc \in Working}
<1>1. ASSUME NEW r \in Callers
      PROVE  callers[r].pc \notin {"waiting", "gone"} <=> callers[r].pc \in Working
  BY DEF CallerRow, Working, Begun
<1> QED
  BY <1>1 DEF AtWork

LEMMA WaitingTyped == Waiting \in CallerRow /\ [Waiting EXCEPT !.pc = "gone"] \in CallerRow
<1>1. <<>> \in Seq(Callers \cup {Torn}) /\ 1 \in 1 .. Turns + 1
  BY PodcastAssumption
<1>2. Waiting \in CallerRow
  BY <1>1 DEF Waiting, CallerRow, Working, Begun
<1>3. ASSUME NEW w \in CallerRow PROVE [w EXCEPT !.pc = "gone"] \in CallerRow
  BY DEF CallerRow, Working, Begun
<1> QED
  BY <1>2, <1>3

LEMMA PodcastInitGood == PodcastInit => PodcastGood
<1> SUFFICES ASSUME PodcastInit PROVE PodcastGood
  OBVIOUS
<1>1. callers \in [Callers -> CallerRow] /\ \A r \in Callers : callers[r] = Waiting
  BY WaitingTyped DEF PodcastInit
<1>2. AtWork = {}
  BY <1>1 DEF AtWork, Waiting
<1>3. \A r \in Callers : GoesBy(callers[r], script, bits)
  BY <1>1 DEF Waiting, GoesBy, Begun
<1>4. script \in Callers \cup {Silent} /\ sound = Silent /\ bits \in [1 .. Turns -> Callers \cup {Torn, Silent}]
  BY DEF PodcastInit
<1>5. wrote = "nothing" /\ version \in 1 .. MaxVersion /\ token \in 0 .. MaxVersion /\ stops \in 0 .. MaxStops
  BY PodcastAssumption DEF PodcastInit
<1> QED
  BY <1>1, <1>2, <1>3, <1>4, <1>5 DEF PodcastGood

\* The others stay as they are, but for what becomes of their files.
Beside(r) ==
  /\ callers' = [q \in Callers |-> callers'[q]]
  /\ \A q \in Callers \ {r} :
       \/ callers'[q] = callers[q]
       \/ callers'[q] = [callers[q] EXCEPT !.file = "mixed"]
       \/ callers'[q] = [callers[q] EXCEPT !.file = "gone"]

LEMMA ByItself ==
  ASSUME callers \in [Callers -> CallerRow], NEW r \in Callers, NEW c,
         callers' = [callers EXCEPT ![r] = c]
  PROVE  Beside(r) /\ callers'[r] = c
  BY DEF Beside

\* What another at work does is nothing to one who has company.
LEMMA OthersGoBy ==
  ASSUME PodcastGood, NEW r \in AtWork, Beside(r), NEW q \in Callers \ {r}, NEW s, NEW b,
         s \in Callers \/ s = script
  PROVE  /\ callers'[q] \in CallerRow /\ callers'[q].pc = callers[q].pc
         /\ callers'[q].alone = callers[q].alone
         /\ GoesBy(callers'[q], s, b)
<1>1. GoesBy(callers[q], script, bits) /\ callers \in [Callers -> CallerRow]
  BY DEF PodcastGood
<1>2. callers[q].pc \in Begun => q \in AtWork
  BY <1>1, AtWorkIs DEF Working
<1>3. callers[q].pc \in Begun => ~callers[q].alone
  BY <1>2 DEF PodcastGood
<1>4. ASSUME NEW o \in CallerRow, NEW f \in {"mixed", "gone"}
      PROVE  LET n == [o EXCEPT !.file = f]
             IN /\ n \in CallerRow /\ n.pc = o.pc /\ n.alone = o.alone /\ n.turn = o.turn
                /\ n.held = o.held /\ n.script = o.script
  BY DEF CallerRow
<1>5. /\ callers'[q] \in CallerRow /\ callers'[q].pc = callers[q].pc
      /\ callers'[q].alone = callers[q].alone /\ callers'[q].turn = callers[q].turn
      /\ callers'[q].held = callers[q].held /\ callers'[q].script = callers[q].script
  <2>1. callers[q] \in CallerRow
    BY <1>1
  <2>2. CASE callers'[q] = callers[q]
    BY <2>1, <2>2
  <2>3. ASSUME NEW f \in {"mixed", "gone"}, callers'[q] = [callers[q] EXCEPT !.file = f]
        PROVE  /\ callers'[q] \in CallerRow /\ callers'[q].pc = callers[q].pc
               /\ callers'[q].alone = callers[q].alone /\ callers'[q].turn = callers[q].turn
               /\ callers'[q].held = callers[q].held /\ callers'[q].script = callers[q].script
    <3> DEFINE o == callers[q]
    <3>1. /\ [o EXCEPT !.file = f] \in CallerRow /\ [o EXCEPT !.file = f].pc = o.pc
          /\ [o EXCEPT !.file = f].alone = o.alone /\ [o EXCEPT !.file = f].turn = o.turn
          /\ [o EXCEPT !.file = f].held = o.held /\ [o EXCEPT !.file = f].script = o.script
      BY <2>1, <1>4
    <3> QED
      BY <2>3, <3>1, Zenon
  <2> QED
    BY <2>2, <2>3 DEF Beside
<1> QED
  BY <1>1, <1>3, <1>5 DEF GoesBy

\* A caller at work goes on.
LEMMA CallerGoesOn ==
  ASSUME PodcastGood, NEW r \in AtWork, NEW c \in CallerRow,
         Beside(r), callers'[r] = c, c.pc \in Working, c.alone = callers[r].alone,
         script' \in Callers \/ script' = script,
         bits' \in [1 .. Turns -> Callers \cup {Torn, Silent}],
         GoesBy(c, script', bits'), c.pc = "fill" => sound' = <<>>,
         \/ UNCHANGED <<sound, wrote>>
         \/ sound' = <<>> /\ wrote' = "cut" /\ script' \in Callers,
         UNCHANGED <<version, token, stops>>
  PROVE  PodcastGood'
<1>1. callers \in [Callers -> CallerRow] /\ r \in Callers
  BY DEF PodcastGood, AtWork
<1>2. /\ callers' \in [Callers -> CallerRow]
      /\ \A q \in Callers \ {r} : callers'[q].pc = callers[q].pc /\ callers'[q].alone = callers[q].alone
  <2>1. ASSUME NEW q \in Callers \ {r}
        PROVE  callers'[q] \in CallerRow /\ callers'[q].pc = callers[q].pc /\ callers'[q].alone = callers[q].alone
    BY OthersGoBy
  <2>2. \A q \in Callers : callers'[q] \in CallerRow
    BY <2>1
  <2> QED
    BY <2>1, <2>2 DEF Beside
<1>3. \A q \in Callers : GoesBy(callers'[q], script', bits')
  BY <1>2, OthersGoBy
<1>4. AtWork' = AtWork
  BY <1>1, <1>2, AtWorkIs DEF AtWork, Working, Begun
<1>5. \A q \in AtWork' : callers'[q].alone => AtWork' = {q} /\ (callers'[q].pc = "fill" => sound' = <<>>)
  BY <1>1, <1>2, <1>4 DEF PodcastGood, AtWork
<1>6. wrote # "alone" /\ wrote' # "alone"
  BY DEF PodcastGood
<1>7. /\ sound' \in {Silent} \cup Sounds /\ wrote' \in {"nothing", "alone", "together", "cut"}
      /\ wrote' # "nothing" => sound' # Silent
      /\ sound' # Silent => script' \in Callers
  <2>1. CASE UNCHANGED <<sound, wrote>>
    BY <2>1 DEF PodcastGood
  <2>2. CASE sound' = <<>> /\ wrote' = "cut" /\ script' \in Callers
    <3>1. 0 \in 0 .. Turns + 1 /\ <<>> \in [1 .. 0 -> Callers \cup {Torn}]
      BY PodcastAssumption
    <3>2. <<>> \in Sounds
      BY <3>1 DEF Sounds
    <3>3. <<>> # Silent
      BY <3>2, PodcastAssumption DEF Sounds
    <3> QED
      BY <2>2, <3>2, <3>3
  <2> QED
    BY <2>1, <2>2
<1>8. script' \in Callers \cup {Silent}
  BY DEF PodcastGood
<1> QED
  BY <1>2, <1>3, <1>5, <1>6, <1>7, <1>8 DEF PodcastGood

\* A caller at work leaves, and may fill the file as it does.
LEMMA CallerLeaves ==
  ASSUME PodcastGood, NEW r \in AtWork, Beside(r), callers'[r] = [Waiting EXCEPT !.pc = "gone"],
         bits' \in [1 .. Turns -> Callers \cup {Torn, Silent}],
         UNCHANGED <<script, version, token, stops>>,
         \/ UNCHANGED <<sound, wrote>>
         \/ FillFile(r)
  PROVE  PodcastGood'
<1> DEFINE c == [Waiting EXCEPT !.pc = "gone"]
<1>1. callers \in [Callers -> CallerRow] /\ r \in Callers
  BY DEF PodcastGood, AtWork
<1>2. /\ callers' \in [Callers -> CallerRow] /\ callers'[r] = c
      /\ \A q \in Callers \ {r} : callers'[q].pc = callers[q].pc /\ callers'[q].alone = callers[q].alone
  <2>1. ASSUME NEW q \in Callers \ {r}
        PROVE  callers'[q] \in CallerRow /\ callers'[q].pc = callers[q].pc /\ callers'[q].alone = callers[q].alone
    BY OthersGoBy
  <2>2. \A q \in Callers : callers'[q] \in CallerRow
    BY <2>1, WaitingTyped
  <2> QED
    BY <2>1, <2>2 DEF Beside
<1>3. c.pc = "gone" /\ c.turn = 1 /\ c.held = <<>>
  BY DEF Waiting
<1>4. GoesBy(c, script', bits')
  BY <1>3 DEF GoesBy, Begun
<1> HIDE DEF c
<1>5. \A q \in Callers : GoesBy(callers'[q], script', bits')
  BY <1>2, <1>4, OthersGoBy
<1>6. AtWork' = AtWork \ {r}
  BY <1>1, <1>2, <1>3 DEF AtWork
<1>7. \A q \in AtWork' : ~callers'[q].alone
  BY <1>1, <1>2, <1>6 DEF PodcastGood, AtWork
<1>8. /\ sound' \in {Silent} \cup Sounds /\ wrote' \in {"nothing", "alone", "together", "cut"}
      /\ wrote' # "nothing" => sound' # Silent
      /\ sound' # Silent => script' \in Callers
      /\ wrote' = "alone" => AtWork' = {} /\ sound' = [i \in 1 .. Turns |-> script']
  <2>1. CASE UNCHANGED <<sound, wrote>>
    <3>1. wrote # "alone"
      BY DEF PodcastGood
    <3> QED
      BY <2>1, <3>1 DEF PodcastGood
  <2>2. CASE FillFile(r)
    <3> DEFINE held == callers[r].held
               more == Append(held, Torn)
    <3>1. /\ callers[r].pc = "fill" /\ sound' \in {held, more}
          /\ wrote' = IF callers[r].alone THEN "alone" ELSE "together"
          /\ sound' = more => sound # <<>>
      BY <2>2 DEF FillFile
    <3>2. /\ GoesBy(callers[r], script, bits) /\ held \in Seq(Callers \cup {Torn})
          /\ callers[r].alone \in BOOLEAN
      BY <1>1 DEF PodcastGood, CallerRow
    <3>3. Len(held) = Turns /\ script \in Callers
          /\ (callers[r].alone => \A i \in 1 .. Len(held) : held[i] = script)
      BY <3>1, <3>2 DEF GoesBy, Begun
    <3>4. /\ held \in [1 .. Turns -> Callers \cup {Torn}] /\ Turns \in 0 .. Turns + 1
          /\ more \in [1 .. Turns + 1 -> Callers \cup {Torn}] /\ Turns + 1 \in 0 .. Turns + 1
      <4>1. held \in [1 .. Turns -> Callers \cup {Torn}] /\ Turns \in 0 .. Turns + 1 /\ Turns + 1 \in 0 .. Turns + 1
        BY <3>2, <3>3, PodcastAssumption
      <4> HIDE DEF held
      <4>2. more \in Seq(Callers \cup {Torn}) /\ Len(more) = Turns + 1
        BY <3>2, <3>3
      <4> HIDE DEF more
      <4>3. more \in [1 .. Len(more) -> Callers \cup {Torn}]
        BY <4>2
      <4> QED
        BY <4>1, <4>2, <4>3
    <3> HIDE DEF held, more
    <3>5. held \in Sounds /\ held # Silent /\ more \in Sounds /\ more # Silent
      BY <3>4, PodcastAssumption DEF Sounds
    <3>6. callers[r].alone => held = [i \in 1 .. Turns |-> script]
      BY <3>3, <3>4
    <3>7. callers[r].alone => AtWork' = {}
      BY <1>6 DEF PodcastGood
    <3>8. callers[r].alone => sound' = held
      BY <3>1 DEF PodcastGood
    <3> QED
      BY <3>1, <3>2, <3>3, <3>5, <3>6, <3>7, <3>8
  <2> QED
    BY <2>1, <2>2
<1> QED
  BY <1>2, <1>5, <1>7, <1>8 DEF PodcastGood

\* A caller enters.
LEMMA CallerEnters ==
  ASSUME PodcastGood, NEW r \in Callers, callers[r].pc = "waiting", sound = Silent,
         NEW pc \in {"script", "look"}, pc = "look" => script # Silent,
         Enter(r, pc), UNCHANGED <<script, sound, bits, wrote, version, token, stops>>
  PROVE  PodcastGood'
<1> DEFINE c == [Waiting EXCEPT !.pc = pc, !.script = script, !.alone = AtWork = {}]
<1>1. callers \in [Callers -> CallerRow] /\ script \in Callers \cup {Silent} /\ r \notin AtWork
  BY DEF PodcastGood, AtWork
<1>3. PICK b \in BOOLEAN : b = (AtWork = {})
  OBVIOUS
<1>a. c = [Waiting EXCEPT !.pc = pc, !.script = script, !.alone = b]
  BY <1>3
<1>2. c = [pc |-> pc, script |-> script, turn |-> 1, held |-> <<>>, alone |-> b, file |-> "own"]
  <2> HIDE DEF c
  <2> QED
    BY <1>a DEF Waiting
<1>4. /\ c \in CallerRow /\ c.pc = pc /\ c.script = script /\ c.turn = 1 /\ c.held = <<>>
      /\ c.alone = b
  <2>1. <<>> \in Seq(Callers \cup {Torn}) /\ 1 \in 1 .. Turns + 1
    BY PodcastAssumption
  <2> HIDE DEF c
  <2> QED
    BY <1>1, <1>2, <2>1 DEF CallerRow, Working, Begun
<1> HIDE DEF c
<1> DEFINE left(q) == [callers[q] EXCEPT !.alone = FALSE]
<1>5. callers' = [q \in Callers |-> IF q = r THEN c
                    ELSE IF q \in AtWork THEN left(q) ELSE callers[q]]
  BY DEF Enter, c
<1>6. ASSUME NEW q \in Callers
      PROVE  /\ left(q) \in CallerRow /\ left(q).pc = callers[q].pc
             /\ left(q).script = callers[q].script /\ left(q).turn = callers[q].turn
             /\ left(q).held = callers[q].held /\ ~left(q).alone
  BY <1>1 DEF CallerRow
<1> HIDE DEF left
<1>7. callers' \in [Callers -> CallerRow]
  BY <1>1, <1>4, <1>5, <1>6
<1>8. ASSUME NEW q \in Callers \ {r}
      PROVE  /\ callers'[q].pc = callers[q].pc
             /\ GoesBy(callers'[q], script, bits)
             /\ q \in AtWork => ~callers'[q].alone
  <2>1. GoesBy(callers[q], script, bits)
    BY DEF PodcastGood
  <2>2. CASE q \in AtWork
    <3>1. callers'[q] = left(q)
      BY <1>5, <2>2
    <3>2. /\ callers'[q].pc = callers[q].pc /\ callers'[q].script = callers[q].script
          /\ callers'[q].turn = callers[q].turn /\ callers'[q].held = callers[q].held /\ ~callers'[q].alone
      BY <1>6, <3>1
    <3> QED
      BY <2>1, <3>2 DEF GoesBy
  <2>3. CASE q \notin AtWork
    BY <1>5, <2>1, <2>3
  <2> QED
    BY <2>2, <2>3
<1>9. GoesBy(callers'[r], script, bits)
  <2>1. pc = "look" => script \in Callers
    BY <1>1
  <2>2. Len(<<>>) = 0
    OBVIOUS
  <2> QED
    BY <1>4, <1>5, <2>1, <2>2 DEF GoesBy, Begun
<1>10. AtWork' = AtWork \cup {r}
  <2>1. callers'[r].pc = pc
    BY <1>4, <1>5
  <2> QED
    BY <1>8, <2>1 DEF AtWork
<1>11. \A q \in AtWork' : callers'[q].alone => AtWork' = {q} /\ (callers'[q].pc = "fill" => sound' = <<>>)
  <2>1. (callers'[r].alone => AtWork = {}) /\ callers'[r].pc # "fill"
    BY <1>3, <1>4, <1>5
  <2> QED
    BY <1>8, <1>10, <2>1 DEF AtWork
<1>12. wrote = "nothing"
  BY DEF PodcastGood
<1> QED
  BY <1>7, <1>8, <1>9, <1>11, <1>12 DEF PodcastGood

LEMMA PodcastStepGood == PodcastGood /\ [PodcastNext]_podcastVars => PodcastGood'
<1> SUFFICES ASSUME PodcastGood, [PodcastNext]_podcastVars PROVE PodcastGood'
  OBVIOUS
<1>0. /\ callers \in [Callers -> CallerRow] /\ script \in Callers \cup {Silent}
      /\ bits \in [1 .. Turns -> Callers \cup {Torn, Silent}] /\ Turns \in Nat \ {0}
  BY PodcastAssumption DEF PodcastGood
<1>1. ASSUME NEW r \in Callers, GeneratePodcast(r) \/ PodcastFeed(r) PROVE PodcastGood'
  <2>1. CASE GeneratePodcast(r)
    <3>1. (IF script = Silent THEN "script" ELSE "look") \in {"script", "look"}
      OBVIOUS
    <3> QED
      BY <2>1, <3>1, CallerEnters DEF GeneratePodcast
  <2>2. CASE PodcastFeed(r)
    BY <2>2, CallerEnters DEF PodcastFeed
  <2> QED
    BY <1>1, <2>1, <2>2
<1>2. ASSUME NEW r \in Callers, callers[r].pc \in Working
      PROVE  /\ r \in AtWork /\ callers[r] \in CallerRow /\ GoesBy(callers[r], script, bits)
             /\ callers[r].held \in Seq(Callers \cup {Torn}) /\ callers[r].turn \in 1 .. Turns + 1
             /\ callers[r].alone \in BOOLEAN /\ callers[r].script \in Callers \cup {Silent}
  BY <1>0, <1>2, AtWorkIs DEF PodcastGood, CallerRow
<1>3. ASSUME NEW r \in Callers, MakeScript(r) PROVE PodcastGood'
  <2> DEFINE c == [callers[r] EXCEPT !.pc = "look", !.script = r]
  <2>1. /\ callers[r].pc = "script" /\ script' = r /\ callers' = [callers EXCEPT ![r] = c]
        /\ UNCHANGED <<sound, bits, wrote, version, token, stops>>
    BY <1>0, <1>3 DEF MakeScript, ScriptStored
  <2>2. callers[r].pc \in Working
    BY <2>1 DEF Working
  <2>3. c \in CallerRow /\ c.pc = "look" /\ c.script = r /\ c.alone = callers[r].alone
        /\ c.turn = callers[r].turn /\ c.held = callers[r].held
    BY <1>2, <2>2 DEF CallerRow, Working, Begun
  <2> HIDE DEF c
  <2>4. c.turn = 1 /\ c.held = <<>> /\ Len(<<>>) = 0
    BY <1>2, <2>1, <2>2, <2>3 DEF GoesBy
  <2>5. GoesBy(c, script', bits')
    BY <2>1, <2>3, <2>4 DEF GoesBy, Begun
  <2> QED
    BY <1>0, <1>2, <2>1, <2>2, <2>3, <2>5, ByItself, CallerGoesOn DEF Working, Begun
<1>4. ASSUME NEW r \in Callers, LookForFile(r) PROVE PodcastGood'
  <2>1. callers[r].pc = "look" /\ callers[r].pc \in Working
        /\ UNCHANGED <<script, sound, bits, wrote, version, token, stops>>
    BY <1>4 DEF LookForFile, Working, Begun
  <2>2. CASE sound = Silent
    <3> DEFINE c == [callers[r] EXCEPT !.pc = "speak"]
    <3>1. callers' = [callers EXCEPT ![r] = c]
      BY <1>4, <2>2 DEF LookForFile, Go
    <3>2. c \in CallerRow /\ c.pc = "speak" /\ c.script = callers[r].script /\ c.alone = callers[r].alone
          /\ c.turn = callers[r].turn /\ c.held = callers[r].held
      BY <1>2, <2>1 DEF CallerRow, Working, Begun
    <3> HIDE DEF c
    <3>3. 1 <= Turns /\ Len(<<>>) = 1 - 1
      BY <1>0
    <3>4. GoesBy(c, script', bits')
      BY <1>2, <2>1, <3>2, <3>3 DEF GoesBy, Begun
    <3> QED
      BY <1>0, <1>2, <2>1, <3>1, <3>2, <3>4, ByItself, CallerGoesOn DEF Working, Begun
  <2>3. CASE sound # Silent
    BY <1>0, <1>2, <1>4, <2>1, <2>3, ByItself, CallerLeaves DEF LookForFile, Leave
  <2> QED
    BY <2>2, <2>3
<1>5. ASSUME NEW r \in Callers, OpenTurn(r) PROVE PodcastGood'
  <2> DEFINE turn == callers[r].turn
             f == IF Streaming(turn) = {} THEN "own" ELSE "mixed"
             c == [callers[r] EXCEPT !.pc = "stream", !.file = f]
  <2>1. callers[r].pc = "speak" /\ callers[r].pc \in Working
        /\ bits' = [bits EXCEPT ![turn] = Torn]
        /\ callers' = [q \in Callers |->
             IF q = r THEN c
             ELSE IF q \in Streaming(turn) THEN [callers[q] EXCEPT !.file = "mixed"] ELSE callers[q]]
        /\ UNCHANGED <<script, sound, wrote, version, token, stops>>
    BY <1>5 DEF OpenTurn, Working, Begun
  <2>2. c \in CallerRow /\ c.pc = "stream" /\ c.script = callers[r].script /\ c.alone = callers[r].alone
        /\ c.turn = turn /\ c.held = callers[r].held /\ c.file = f
    <3>1. f \in {"own", "mixed"}
      OBVIOUS
    <3> HIDE DEF f
    <3> QED
      BY <1>2, <2>1, <3>1 DEF CallerRow, Working, Begun
  <2>3. callers'[r] = c /\ Beside(r)
    <3> HIDE DEF c
    <3> QED
      BY <2>1 DEF Beside
  <2>4. turn \in 1 .. Turns
    <3>1. callers[r].pc = "speak" /\ GoesBy(callers[r], script, bits) /\ turn \in 1 .. Turns + 1
      BY <1>2, <2>1
    <3> HIDE DEF c, f
    <3> QED
      BY <1>0, <3>1 DEF GoesBy
  <2>5. bits' \in [1 .. Turns -> Callers \cup {Torn, Silent}]
    BY <1>0, <2>1, <2>4
  <2>6. c.alone => c.file = "own"
    <3>1. Streaming(turn) \subseteq AtWork
      BY DEF Streaming, AtWork
    <3>2. r \notin Streaming(turn)
      BY <2>1 DEF Streaming
    <3>3. callers[r].alone => AtWork = {r}
      BY <1>2, <2>1 DEF PodcastGood
    <3> QED
      BY <2>2, <3>1, <3>2, <3>3
  <2> HIDE DEF c, f
  <2>7. GoesBy(c, script', bits')
    BY <1>2, <2>1, <2>2, <2>6 DEF GoesBy, Begun
  <2> QED
    BY <1>0, <1>2, <2>1, <2>2, <2>3, <2>5, <2>7, CallerGoesOn DEF Working, Begun
<1>15. ASSUME NEW r \in Callers, StreamTurn(r) PROVE PodcastGood'
  <2> DEFINE c == [callers[r] EXCEPT !.pc = "read"]
             turn == callers[r].turn
             own == callers[r].script
  <2>1. callers[r].pc = "stream" /\ callers[r].pc \in Working
        /\ callers' = [callers EXCEPT ![r] = c]
        /\ UNCHANGED <<script, sound, wrote, version, token, stops>>
    BY <1>15 DEF StreamTurn, Go, Working, Begun
  <2>2. c \in CallerRow /\ c.pc = "read" /\ c.script = own /\ c.alone = callers[r].alone
        /\ c.turn = turn /\ c.held = callers[r].held
    BY <1>2, <2>1 DEF CallerRow, Working, Begun
  <2> HIDE DEF c
  <2>3. turn \in 1 .. Turns /\ own \in Callers
    BY <1>0, <1>2, <2>1 DEF GoesBy, Begun
  <2>4. PICK bit \in Callers \cup {Torn, Silent} :
          bits' = [bits EXCEPT ![turn] = bit] /\ (callers[r].file = "own" => bit = own)
    <3>1. PICK bit \in CASE callers[r].file = "own"   -> {own}
                         [] callers[r].file = "mixed" -> {own, Torn, bits[turn]}
                         [] OTHER                     -> {bits[turn]} :
            bits' = [bits EXCEPT ![turn] = bit]
      BY <1>15 DEF StreamTurn
    <3> QED
      BY <1>0, <2>3, <3>1
  <2>5. bits' \in [1 .. Turns -> Callers \cup {Torn, Silent}] /\ bits'[turn] = bit
    BY <1>0, <2>3, <2>4
  <2>6. callers[r].alone => bits'[turn] = own
    BY <1>2, <2>1, <2>4, <2>5 DEF GoesBy, Begun
  <2>7. GoesBy(c, script', bits')
    BY <1>2, <2>1, <2>2, <2>6 DEF GoesBy, Begun
  <2> QED
    BY <1>0, <1>2, <2>1, <2>2, <2>5, <2>7, ByItself, CallerGoesOn DEF Working, Begun
<1>6. ASSUME NEW r \in Callers, ReadTurn(r) PROVE PodcastGood'
  <2> DEFINE turn == callers[r].turn
             bit == bits[turn]
             held == Append(callers[r].held, bit)
             c == [callers[r] EXCEPT !.held = held, !.pc = "unlink"]
  <2>1. callers[r].pc = "read" /\ callers[r].pc \in Working
        /\ UNCHANGED <<script, sound, bits, wrote, version, token, stops>>
    BY <1>6 DEF ReadTurn, Working, Begun
  <2>2. CASE bit = Silent
    <3> DEFINE d == [callers[r] EXCEPT !.pc = "tidy"]
    <3>1. callers' = [callers EXCEPT ![r] = d]
      BY <1>6, <2>2 DEF ReadTurn, Go
    <3>2. d \in CallerRow /\ d.pc = "tidy" /\ d.script = callers[r].script /\ d.alone = callers[r].alone
          /\ d.turn = turn /\ d.held = callers[r].held
      BY <1>2, <2>1 DEF CallerRow, Working, Begun
    <3> HIDE DEF d
    <3>3. GoesBy(d, script', bits')
      BY <1>2, <2>1, <3>2 DEF GoesBy, Begun
    <3> QED
      BY <1>0, <1>2, <2>1, <3>1, <3>2, <3>3, ByItself, CallerGoesOn DEF Working, Begun
  <2>3. CASE bit # Silent
    <3>1. callers' = [callers EXCEPT ![r] = c]
      BY <1>6, <2>3 DEF ReadTurn
    <3>2. /\ turn \in 1 .. Turns /\ Len(callers[r].held) = turn - 1 /\ bit \in Callers \cup {Torn}
          /\ callers[r].script \in Callers /\ script \in Callers
          /\ callers[r].alone => bit = script /\ callers[r].script = script
                                 /\ \A i \in 1 .. Len(callers[r].held) : callers[r].held[i] = script
      BY <1>0, <1>2, <2>1, <2>3 DEF GoesBy, Begun
    <3>3. held \in Seq(Callers \cup {Torn}) /\ Len(held) = turn
          /\ \A i \in 1 .. Len(held) : held[i] = IF i = turn THEN bit ELSE callers[r].held[i]
      BY <1>2, <2>1, <3>2
    <3>4. callers[r].alone => \A i \in 1 .. Len(held) : held[i] = script
      BY <3>2, <3>3
    <3> HIDE DEF held
    <3>5. c \in CallerRow /\ c.pc = "unlink" /\ c.script = callers[r].script /\ c.alone = callers[r].alone
          /\ c.turn = turn /\ c.held = held
      BY <1>2, <2>1, <3>3 DEF CallerRow, Working, Begun
    <3> HIDE DEF c
    <3>6. GoesBy(c, script', bits')
      BY <2>1, <3>2, <3>3, <3>4, <3>5 DEF GoesBy, Begun
    <3> QED
      BY <1>0, <1>2, <2>1, <3>1, <3>5, <3>6, ByItself, CallerGoesOn DEF Working, Begun
  <2> QED
    BY <2>2, <2>3
<1>16. ASSUME NEW r \in Callers, NEW after, Unlink(r, after), callers[r].turn \in 1 .. Turns
       PROVE  Beside(r) /\ callers'[r] = after /\ bits' \in [1 .. Turns -> Callers \cup {Torn, Silent}]
  BY <1>0, <1>16 DEF Unlink, Beside
<1>7. ASSUME NEW r \in Callers, RemoveTurn(r) PROVE PodcastGood'
  <2> DEFINE turn == callers[r].turn
             pc == IF turn = Turns THEN "write" ELSE "speak"
             c == [callers[r] EXCEPT !.turn = turn + 1, !.pc = pc]
  <2>1. callers[r].pc = "unlink" /\ callers[r].pc \in Working
        /\ UNCHANGED <<script, sound, wrote, version, token, stops>>
    BY <1>7 DEF RemoveTurn, Working, Begun
  <2>2. /\ turn \in 1 .. Turns /\ Len(callers[r].held) = turn
        /\ callers[r].script \in Callers /\ script \in Callers
        /\ callers[r].alone => callers[r].script = script
                               /\ \A i \in 1 .. Len(callers[r].held) : callers[r].held[i] = script
    BY <1>0, <1>2, <2>1 DEF GoesBy, Begun
  <2>a. CASE Unlink(r, c)
    <3>1. Beside(r) /\ callers'[r] = c /\ bits' \in [1 .. Turns -> Callers \cup {Torn, Silent}]
      BY <1>16, <2>2, <2>a
    <3>3. turn + 1 \in 1 .. Turns + 1 /\ pc \in {"write", "speak"}
      BY <1>0, <2>2
    <3>4. c \in CallerRow /\ c.pc = pc /\ c.script = callers[r].script /\ c.alone = callers[r].alone
          /\ c.turn = turn + 1 /\ c.held = callers[r].held
      <4> HIDE DEF pc, turn
      <4> QED
        BY <1>2, <2>1, <3>3 DEF CallerRow, Working, Begun
    <3> HIDE DEF c
    <3>6. pc = "write" <=> turn = Turns
      OBVIOUS
    <3>7. turn # Turns => turn + 1 <= Turns /\ turn = (turn + 1) - 1
      BY <1>0, <2>2
    <3> HIDE DEF pc
    <3>8. GoesBy(c, script', bits')
      BY <2>1, <2>2, <3>3, <3>4, <3>6, <3>7 DEF GoesBy, Begun
    <3> QED
      BY <1>0, <1>2, <2>1, <3>1, <3>3, <3>4, <3>8, CallerGoesOn DEF Working, Begun
  <2>b. CASE Leave(r) /\ UNCHANGED bits
    BY <1>0, <1>2, <2>1, <2>b, ByItself, CallerLeaves DEF Leave
  <2> QED
    BY <1>7, <2>a, <2>b DEF RemoveTurn
<1>17. ASSUME NEW r \in Callers, TidyUp(r) PROVE PodcastGood'
  <2>1. callers[r].pc = "tidy" /\ callers[r].pc \in Working /\ Unlink(r, [Waiting EXCEPT !.pc = "gone"])
        /\ UNCHANGED <<script, sound, wrote, version, token, stops>>
    BY <1>17 DEF TidyUp, Working, Begun
  <2>2. callers[r].turn \in 1 .. Turns
    BY <1>0, <1>2, <2>1 DEF GoesBy
  <2>3. Beside(r) /\ callers'[r] = [Waiting EXCEPT !.pc = "gone"]
        /\ bits' \in [1 .. Turns -> Callers \cup {Torn, Silent}]
    BY <1>16, <2>1, <2>2
  <2> QED
    BY <1>2, <2>1, <2>3, CallerLeaves
<1>8. ASSUME NEW r \in Callers, OpenFile(r) PROVE PodcastGood'
  <2> DEFINE c == [callers[r] EXCEPT !.pc = "fill"]
  <2>1. callers[r].pc = "write" /\ callers[r].pc \in Working
        /\ sound' = <<>> /\ wrote' = "cut" /\ callers' = [callers EXCEPT ![r] = c]
        /\ UNCHANGED <<script, bits, version, token, stops>>
    BY <1>8 DEF OpenFile, Go, Working, Begun
  <2>2. c \in CallerRow /\ c.pc = "fill" /\ c.script = callers[r].script /\ c.alone = callers[r].alone
        /\ c.turn = callers[r].turn /\ c.held = callers[r].held
    BY <1>2, <2>1 DEF CallerRow, Working, Begun
  <2> HIDE DEF c
  <2>3. GoesBy(c, script', bits') /\ script' \in Callers
    BY <1>2, <2>1, <2>2 DEF GoesBy, Begun
  <2> QED
    BY <1>0, <1>2, <2>1, <2>2, <2>3, ByItself, CallerGoesOn DEF Working, Begun
<1>9. ASSUME NEW r \in Callers, FillFile(r) PROVE PodcastGood'
  <2>1. callers[r].pc \in Working /\ Leave(r) /\ UNCHANGED <<script, bits, version, token, stops>>
    BY <1>9 DEF FillFile, Working, Begun
  <2> QED
    BY <1>0, <1>2, <1>9, <2>1, ByItself, CallerLeaves DEF Leave
<1>10. ASSUME NEW r \in Callers, SpeechFails(r) PROVE PodcastGood'
  <2>1. callers[r].pc \in {"script", "speak", "stream"} /\ callers[r].pc \in Working
        /\ UNCHANGED <<script, sound, bits, wrote, version, token, stops>>
    BY <1>10 DEF SpeechFails, Working, Begun
  <2>2. CASE callers[r].pc = "script" /\ Leave(r)
    BY <1>0, <1>2, <2>1, <2>2, ByItself, CallerLeaves DEF Leave
  <2>3. CASE callers[r].pc \in {"speak", "stream"} /\ Go(r, "tidy")
    <3> DEFINE d == [callers[r] EXCEPT !.pc = "tidy"]
    <3>1. callers' = [callers EXCEPT ![r] = d]
      BY <2>3 DEF Go
    <3>2. d \in CallerRow /\ d.pc = "tidy" /\ d.script = callers[r].script /\ d.alone = callers[r].alone
          /\ d.turn = callers[r].turn /\ d.held = callers[r].held
      BY <1>2, <2>1 DEF CallerRow, Working, Begun
    <3> HIDE DEF d
    <3>3. GoesBy(d, script', bits')
      BY <1>2, <2>1, <2>3, <3>2 DEF GoesBy, Begun
    <3> QED
      BY <1>0, <1>2, <2>1, <3>1, <3>2, <3>3, ByItself, CallerGoesOn DEF Working, Begun
  <2> QED
    BY <1>10, <2>2, <2>3 DEF SpeechFails
<1>11. CASE PodcastStops
  <2>1. callers' = [r \in Callers |-> IF r \in AtWork THEN [Waiting EXCEPT !.pc = "gone"] ELSE callers[r]]
        /\ AtWork # {} /\ stops' = stops + 1 /\ stops < MaxStops
        /\ UNCHANGED <<script, sound, bits, wrote, version, token>>
    BY <1>11 DEF PodcastStops
  <2>2. callers' \in [Callers -> CallerRow]
    BY <1>0, <2>1, WaitingTyped
  <2>3. ASSUME NEW r \in Callers PROVE callers'[r].pc \in {"waiting", "gone"} /\ GoesBy(callers'[r], script, bits)
    <3>1. CASE r \in AtWork
      <4>1. callers'[r].pc = "gone" /\ callers'[r].turn = 1 /\ callers'[r].held = <<>>
        BY <2>1, <3>1 DEF Waiting
      <4> QED
        BY <4>1 DEF GoesBy, Begun
    <3>2. CASE r \notin AtWork
      BY <2>1, <3>2 DEF AtWork, PodcastGood
    <3> QED
      BY <3>1, <3>2
  <2>4. AtWork' = {}
    BY <2>3 DEF AtWork
  <2>5. \A r \in Callers : GoesBy(callers'[r], script, bits)
    BY <2>3
  <2>6. stops' \in 0 .. MaxStops
    BY <2>1, PodcastAssumption DEF PodcastGood
  <2> QED
    BY <2>1, <2>2, <2>4, <2>5, <2>6 DEF PodcastGood
<1>12. CASE GiveToken
  BY <1>12, PodcastAssumption DEF GiveToken, PodcastGood, AtWork
<1>13. CASE RevokeToken
  BY <1>13, PodcastAssumption DEF RevokeToken, PodcastGood, AtWork
<1>14. CASE UNCHANGED podcastVars
  BY <1>14 DEF podcastVars, PodcastGood, AtWork
<1> QED
  BY <1>1, <1>3, <1>4, <1>5, <1>6, <1>7, <1>8, <1>9, <1>10, <1>11, <1>12, <1>13, <1>14, <1>15, <1>17 DEF PodcastNext

LEMMA PodcastParts == PodcastGood => PodcastTypeOK /\ PodcastSaysScript
<1> SUFFICES ASSUME PodcastGood PROVE PodcastTypeOK /\ PodcastSaysScript
  OBVIOUS
<1>1. ASSUME NEW r \in Callers
      PROVE  /\ callers[r].pc \in {"waiting", "script", "look", "speak", "stream", "read", "unlink", "tidy",
                                      "write", "fill", "gone"}
             /\ callers[r].turn \in 1 .. Turns + 1 /\ callers[r].file \in {"own", "mixed", "gone"}
             /\ GoesBy(callers[r], script, bits)
  BY DEF PodcastGood, CallerRow, Working, Begun
<1>2. ASSUME NEW r \in Callers PROVE Len(callers[r].held) <= Turns
  <2>1. callers[r].turn \in 1 .. Turns + 1 /\ Turns \in Nat /\ Len(<<>>) = 0
    BY <1>1, PodcastAssumption
  <2> QED
    BY <1>1, <2>1 DEF GoesBy
<1>3. PodcastTypeOK
  BY <1>1, <1>2 DEF PodcastGood, PodcastTypeOK, Sounds
<1>4. PodcastSaysScript
  BY PodcastAssumption DEF PodcastGood, PodcastSaysScript
<1> QED
  BY <1>3, <1>4

\* Who makes a podcast without company makes it whole, and of the script of its row.
THEOREM AlonePodcastSaysScript == PodcastSpec => []PodcastSaysScript
  BY PodcastInitGood, PodcastStepGood, PodcastParts, PTL DEF PodcastSpec

(***************************************************************************)
(* The reading list: who works at an item, and what is said of it          *)
(***************************************************************************)

ItemRow ==
  [url: Urls, title: {"none", "imported", "fetched"}, fetch: {"pending", "ok", "error"},
   summary: {"pending", "ok", "error", "skipped"}, text: BOOLEAN, brought: BOOLEAN,
   gone: BOOLEAN, alone: BOOLEAN]

Past == {"fetch", "title", "model"}

HandRow == [pc: Past \cup {"free", "look"}, todo: Seq(Nat)]

\* What is said of an item is so.
PageFits(it) ==
  /\ it.summary = "ok" => it.text
  /\ it.fetch = "pending" => it.title = "none" /\ it.summary = "pending"
  /\ it.alone => /\ it.text => it.summary = "ok" /\ it.title = "fetched"
                 /\ it.fetch = "error" => it.title = "none" /\ it.summary = "pending"
  /\ it.brought => it.title = "imported" /\ it.fetch = "ok"

\* How far an item is on which a hand works.
StageFits(it, pc) ==
  /\ pc \in {"title", "model"} => it.fetch # "pending"
  /\ it.alone => /\ ~it.text /\ it.summary = "pending"
                 /\ pc = "fetch" => it.fetch = "pending"
                 /\ pc \in {"title", "model"} => it.fetch = "ok"
                 /\ pc = "model" => it.title = "fetched"
                 /\ it.title # "imported"

HandFits(hd, its) ==
  /\ hd.pc = "free" <=> hd.todo = <<>>
  /\ \A k \in 1 .. Len(hd.todo) : hd.todo[k] \in 1 .. Len(its) /\ ~its[hd.todo[k]].brought
  /\ hd.pc \in Past /\ ~its[Head(hd.todo)].gone => StageFits(its[Head(hd.todo)], hd.pc)

OnceIn(its) ==
  \A i, j \in 1 .. Len(its) : ~its[i].gone /\ ~its[j].gone /\ its[i].url = its[j].url => i = j

\* Two that have looked at an item are not alone there.
WithCompany(hs, its) ==
  \A g, h \in Hands :
    g # h /\ hs[g].pc \in Past /\ hs[h].pc \in Past /\ Head(hs[g].todo) = Head(hs[h].todo)
      /\ ~its[Head(hs[h].todo)].gone => ~its[Head(hs[h].todo)].alone

ListGood ==
  /\ items \in Seq(ItemRow) /\ Len(items) <= MaxListed
  /\ hands \in [Hands -> HandRow]
  /\ \A i \in 1 .. Len(items) : PageFits(items[i])
  /\ \A h \in Hands : HandFits(hands[h], items)
  /\ OnceIn(items) /\ WithCompany(hands, items)

LEMMA FreeFits ==
  ASSUME NEW its
  PROVE  Free \in HandRow /\ Free.pc = "free" /\ HandFits(Free, its)
  BY DEF Free, HandRow, HandFits, Past

LEMMA ListInitGood == ListInit => ListGood
<1> SUFFICES ASSUME ListInit PROVE ListGood
  OBVIOUS
<1>1. items = <<>> /\ Len(items) = 0 /\ items \in Seq(ItemRow) /\ Len(items) <= MaxListed
  BY ReadingItemsAssumption DEF ListInit
<1>2. \A h \in Hands : hands[h] = Free
  BY DEF ListInit
<1>3. hands \in [Hands -> HandRow]
  BY FreeFits DEF ListInit
<1>4. \A h \in Hands : hands[h].pc \notin Past
  BY <1>2, FreeFits DEF Past
<1>5. \A h \in Hands : HandFits(hands[h], items)
  BY <1>2, FreeFits
<1> QED
  BY <1>1, <1>3, <1>4, <1>5 DEF ListGood, OnceIn, WithCompany

LEMMA ItemAtHand ==
  ASSUME ListGood, NEW h \in Hands, hands[h].pc # "free"
  PROVE  /\ AtHand(h) \in 1 .. Len(items) /\ items[AtHand(h)] \in ItemRow
         /\ ~items[AtHand(h)].brought /\ PageFits(items[AtHand(h)])
         /\ hands[h].todo \in Seq(Nat) /\ hands[h].todo # <<>> /\ Len(hands[h].todo) \in Nat \ {0}
         /\ AtHand(h) = hands[h].todo[1]
<1>1. hands[h] \in HandRow /\ HandFits(hands[h], items) /\ items \in Seq(ItemRow)
  BY DEF ListGood
<1>2. hands[h].todo \in Seq(Nat) /\ hands[h].todo # <<>>
  BY <1>1 DEF HandRow, HandFits
<1>3. Len(hands[h].todo) \in Nat \ {0} /\ Head(hands[h].todo) = hands[h].todo[1]
  BY <1>2
<1>4. 1 \in 1 .. Len(hands[h].todo)
  BY <1>3
<1> QED
  BY <1>1, <1>2, <1>3, <1>4 DEF AtHand, HandFits, ListGood

\* The hand goes on to the next of its items.
NextHand(hd) == IF Len(hd.todo) = 1 THEN Free ELSE [pc |-> "look", todo |-> Tail(hd.todo)]

LEMMA NextFits ==
  ASSUME ListGood, NEW h \in Hands, hands[h].pc # "free", NEW its,
         Len(its) = Len(items), \A i \in 1 .. Len(items) : its[i].brought = items[i].brought
  PROVE  /\ NextHand(hands[h]) \in HandRow /\ NextHand(hands[h]).pc \notin Past
         /\ HandFits(NextHand(hands[h]), its)
<1>1. hands[h].todo \in Seq(Nat) /\ Len(hands[h].todo) \in Nat \ {0} /\ hands[h].todo # <<>>
  BY ItemAtHand
<1>2. HandFits(hands[h], items)
  BY DEF ListGood
<1>3. CASE Len(hands[h].todo) = 1
  <2>1. NextHand(hands[h]) = Free
    BY <1>3 DEF NextHand
  <2> QED
    BY <2>1, FreeFits DEF Past
<1>4. CASE Len(hands[h].todo) # 1
  <2> DEFINE t == Tail(hands[h].todo)
             hd == [pc |-> "look", todo |-> t]
  <2>1. /\ t \in Seq(Nat) /\ Len(t) = Len(hands[h].todo) - 1 /\ t # <<>>
        /\ \A k \in 1 .. Len(t) : t[k] = hands[h].todo[k + 1] /\ k + 1 \in 1 .. Len(hands[h].todo)
    <3>1. /\ t \in Seq(Nat) /\ Len(t) = Len(hands[h].todo) - 1
          /\ \A k \in 1 .. Len(t) : t[k] = hands[h].todo[k + 1]
      BY <1>1
    <3> HIDE DEF t
    <3>2. Len(t) # 0 /\ Len(<<>>) = 0
      BY <1>1, <1>4, <3>1
    <3>3. t # <<>>
      BY <3>2
    <3>4. \A k \in 1 .. Len(t) : k + 1 \in 1 .. Len(hands[h].todo)
      BY <1>1, <3>1
    <3> QED
      BY <3>1, <3>3, <3>4
  <2> HIDE DEF t
  <2>2. NextHand(hands[h]) = hd
    BY <1>4 DEF NextHand, t
  <2>3. hd \in HandRow /\ hd.pc = "look" /\ hd.todo = t
    BY <2>1 DEF HandRow
  <2> HIDE DEF hd
  <2>4. \A k \in 1 .. Len(t) : t[k] \in 1 .. Len(its) /\ ~its[t[k]].brought
    BY <1>2, <2>1 DEF HandFits
  <2> QED
    BY <2>1, <2>2, <2>3, <2>4 DEF HandFits, Past
<1> QED
  BY <1>3, <1>4

\* A hand turns to something else, or goes on at its item.
LEMMA HandTurns ==
  ASSUME ListGood, NEW h \in Hands, NEW hd \in HandRow, HandFits(hd, items),
         hands' = [hands EXCEPT ![h] = hd], UNCHANGED items,
         hd.pc \in Past => hands[h].pc \in Past /\ Head(hd.todo) = Head(hands[h].todo)
  PROVE  ListGood'
<1>1. hands' \in [Hands -> HandRow] /\ hands'[h] = hd /\ \A g \in Hands \ {h} : hands'[g] = hands[g]
  BY DEF ListGood
<1>2. \A g \in Hands : HandFits(hands'[g], items)
  BY <1>1 DEF ListGood
<1>3. WithCompany(hands', items)
  <2>1. ASSUME NEW g \in Hands
        PROVE  hands'[g].pc \in Past => hands[g].pc \in Past /\ Head(hands'[g].todo) = Head(hands[g].todo)
    BY <1>1
  <2>2. WithCompany(hands, items)
    BY DEF ListGood
  <2> QED
    BY <2>1, <2>2 DEF WithCompany
<1> QED
  BY <1>1, <1>2, <1>3 DEF ListGood

\* A hand writes to its item, and goes on there or with another.
LEMMA HandActs ==
  ASSUME ListGood, NEW h \in Hands, hands[h].pc # "free", NEW it \in ItemRow, PageFits(it),
         it.url = items[AtHand(h)].url, it.brought = items[AtHand(h)].brought,
         it.gone = items[AtHand(h)].gone, it.fetch = "pending" => items[AtHand(h)].fetch = "pending",
         it.alone /\ ~it.gone =>
           \A g \in Hands \ {h} : ~(hands[g].pc \in Past /\ Head(hands[g].todo) = AtHand(h)),
         items' = [items EXCEPT ![AtHand(h)] = it],
         NEW hd \in HandRow, hands' = [hands EXCEPT ![h] = hd], HandFits(hd, items'),
         hd.pc \in Past => Head(hd.todo) = AtHand(h)
  PROVE  ListGood'
<1> DEFINE i == AtHand(h)
<1>1. i \in 1 .. Len(items) /\ items \in Seq(ItemRow)
  BY ItemAtHand DEF ListGood
<1> HIDE DEF i
<1>2. /\ items' \in Seq(ItemRow) /\ Len(items') = Len(items) /\ items'[i] = it
      /\ \A j \in 1 .. Len(items) : j # i => items'[j] = items[j]
  BY <1>1 DEF i
<1>3. hands' \in [Hands -> HandRow] /\ hands'[h] = hd /\ \A g \in Hands \ {h} : hands'[g] = hands[g]
  BY DEF ListGood
<1>4. \A j \in 1 .. Len(items') : PageFits(items'[j])
  BY <1>2 DEF ListGood
<1>5. \A j \in 1 .. Len(items) : /\ items'[j].url = items[j].url /\ items'[j].gone = items[j].gone
                                 /\ items'[j].brought = items[j].brought
  BY <1>2 DEF i
<1>6. OnceIn(items')
  BY <1>2, <1>5 DEF ListGood, OnceIn
<1>7. ASSUME NEW g \in Hands \ {h} PROVE HandFits(hands[g], items')
  <2>1. HandFits(hands[g], items)
    BY DEF ListGood
  <2>2. ASSUME hands[g].pc \in Past, ~items'[Head(hands[g].todo)].gone
        PROVE  StageFits(items'[Head(hands[g].todo)], hands[g].pc)
    <3>1. Head(hands[g].todo) \in 1 .. Len(items)
      BY <2>2, ItemAtHand DEF Past, AtHand
    <3>2. StageFits(items[Head(hands[g].todo)], hands[g].pc)
      BY <1>5, <2>1, <2>2, <3>1 DEF HandFits
    <3>3. CASE Head(hands[g].todo) = i
      <4>1. ~it.alone
        BY <1>2, <2>2, <3>3 DEF i
      <4>2. it.fetch = "pending" => items[i].fetch = "pending"
        BY DEF i
      <4> QED
        BY <1>2, <3>2, <3>3, <4>1, <4>2 DEF StageFits
    <3>4. CASE Head(hands[g].todo) # i
      BY <1>2, <3>1, <3>2, <3>4
    <3> QED
      BY <3>3, <3>4
  <2> QED
    BY <1>2, <1>5, <2>1, <2>2 DEF HandFits
<1>8. \A g \in Hands : HandFits(hands'[g], items')
  BY <1>3, <1>7
<1>9. WithCompany(hands', items')
  <2> SUFFICES ASSUME NEW a \in Hands, NEW b \in Hands, a # b, hands'[a].pc \in Past, hands'[b].pc \in Past,
                      Head(hands'[a].todo) = Head(hands'[b].todo), ~items'[Head(hands'[b].todo)].gone
               PROVE  ~items'[Head(hands'[b].todo)].alone
    BY DEF WithCompany
  <2>1. CASE Head(hands'[b].todo) = i
    <3>1. ~it.gone
      BY <1>2, <2>1
    <3>2. \E g \in Hands \ {h} : hands[g].pc \in Past /\ Head(hands[g].todo) = i
      BY <1>3, <2>1
    <3>3. ~it.alone
      BY <3>1, <3>2 DEF i
    <3> QED
      BY <1>2, <2>1, <3>3
  <2>2. CASE Head(hands'[b].todo) # i
    <3>1. a # h /\ b # h
      BY <1>3, <2>2 DEF i
    <3>2. hands'[a] = hands[a] /\ hands'[b] = hands[b]
      BY <1>3, <3>1
    <3>3. Head(hands[b].todo) \in 1 .. Len(items)
      BY <3>2, ItemAtHand DEF Past, AtHand
    <3>4. items'[Head(hands[b].todo)] = items[Head(hands[b].todo)]
      BY <1>2, <2>2, <3>2, <3>3
    <3>5. WithCompany(hands, items)
      BY DEF ListGood
    <3> QED
      BY <3>2, <3>4, <3>5 DEF WithCompany
  <2> QED
    BY <2>1, <2>2
<1> QED
  BY <1>2, <1>3, <1>4, <1>6, <1>8, <1>9 DEF ListGood

\* Items come to the list, at its end.
LEMMA ItemsGrow ==
  ASSUME ListGood, items' \in Seq(ItemRow), Len(items) <= Len(items'), Len(items') <= MaxListed,
         \A i \in 1 .. Len(items) : items'[i] = items[i],
         \A i \in 1 .. Len(items') : PageFits(items'[i]),
         OnceIn(items')
  PROVE  /\ \A h \in Hands : HandFits(hands[h], items')
         /\ WithCompany(hands, items')
         /\ UNCHANGED hands => ListGood'
<1>1. items \in Seq(ItemRow)
  BY DEF ListGood
<1>2. \A i \in 1 .. Len(items) : i \in 1 .. Len(items')
  BY <1>1
<1>3. \A g \in Hands : hands[g].pc \in Past => Head(hands[g].todo) \in 1 .. Len(items)
  BY ItemAtHand DEF Past, AtHand
<1>4. \A h \in Hands : HandFits(hands[h], items')
  BY <1>2, <1>3 DEF ListGood, HandFits
<1>5. WithCompany(hands, items')
  BY <1>3 DEF ListGood, WithCompany
<1>6. UNCHANGED hands => ListGood'
  BY <1>4, <1>5 DEF ListGood
<1> QED
  BY <1>4, <1>5, <1>6

LEMMA NewItemFits ==
  ASSUME NEW u \in Urls, NEW titled \in BOOLEAN
  PROVE  /\ NewItem(u, titled) \in ItemRow /\ NewItem(u, titled).url = u
         /\ NewItem(u, titled).brought = titled
         /\ PageFits(NewItem(u, titled))
  BY DEF NewItem, FetchOfImport, ItemRow, PageFits

\* What is appended to a list that has no such page.
LEMMA OnceMore ==
  ASSUME NEW its \in Seq(ItemRow), \A i \in 1 .. Len(its) : PageFits(its[i]), OnceIn(its),
         NEW it \in ItemRow, PageFits(it), ListedIn(its, it.url) = {}
  PROVE  /\ Append(its, it) \in Seq(ItemRow) /\ Len(Append(its, it)) = Len(its) + 1
         /\ \A i \in 1 .. Len(its) : Append(its, it)[i] = its[i]
         /\ Append(its, it)[Len(its) + 1] = it
         /\ \A i \in 1 .. Len(Append(its, it)) : PageFits(Append(its, it)[i])
         /\ OnceIn(Append(its, it))
<1> DEFINE all == Append(its, it)
<1>1. /\ all \in Seq(ItemRow) /\ Len(all) = Len(its) + 1 /\ Len(its) \in Nat
      /\ \A i \in 1 .. Len(its) : all[i] = its[i]
      /\ all[Len(its) + 1] = it
  OBVIOUS
<1> HIDE DEF all
<1>2. \A i \in 1 .. Len(all) : i \in 1 .. Len(its) \/ i = Len(its) + 1
  BY <1>1
<1>3. \A i \in 1 .. Len(all) : PageFits(all[i])
  BY <1>1, <1>2
<1>4. \A i \in 1 .. Len(its) : ~its[i].gone => its[i].url # it.url
  BY DEF ListedIn
<1>5. OnceIn(all)
  BY <1>1, <1>2, <1>4 DEF OnceIn
<1> QED
  BY <1>1, <1>3, <1>5 DEF all

-----------------------------------------------------------------------------
(* An import, page by page                                                 *)

ImportRow == [url: Urls, titled: BOOLEAN]

LEMMA ImportedTyped ==
  ASSUME NEW its \in Seq(ItemRow), NEW page \in ImportRow
  PROVE  Imported(its, page) \in Seq(ItemRow)
<1>1. page.url \in Urls /\ page.titled \in BOOLEAN
  BY DEF ImportRow
<1>2. NewItem(page.url, page.titled) \in ItemRow
  BY <1>1, NewItemFits
<1> QED
  BY <1>2 DEF Imported

LEMMA ImportStages ==
  ASSUME NEW base \in Seq(ItemRow), NEW file \in Seq(ImportRow)
  PROVE  \E st : /\ st[0] = base /\ st[Len(file)] = FoldLeft(Imported, base, file)
                 /\ \A k \in 1 .. Len(file) : st[k] = Imported(st[k - 1], file[k])
<1> DEFINE n == Len(file)
           next == [p \in Seq(ItemRow) \X ImportRow |-> Imported(p[1], p[2])]
           F(f) == f = [s \in SUBSET (1 .. n) |->
                          IF s = {} THEN base ELSE Imported(f[s \ {Max(s)}], file[Max(s)])]
           g == CHOOSE f : F(f)
<1>1. n \in Nat /\ file \in [1 .. n -> ImportRow] /\ DOMAIN file = 1 .. n
  OBVIOUS
<1>2. next \in [Seq(ItemRow) \X ImportRow -> Seq(ItemRow)]
  BY ImportedTyped
<1> HIDE DEF next
<1>3. PICK f \in [SUBSET (1 .. n) -> Seq(ItemRow)] : FoldsTo(f, base, n, file, next)
  BY <1>1, <1>2, FoldsExist
<1> HIDE DEF n
<1>4. ASSUME NEW s \in SUBSET (1 .. n), s # {}
      PROVE  next[<<f[s \ {Max(s)}], file[Max(s)]>>] = Imported(f[s \ {Max(s)}], file[Max(s)])
  <2>1. Max(s) \in 1 .. n /\ s \ {Max(s)} \in SUBSET (1 .. n)
    <3>1. s \in SUBSET (0 .. n)
      BY <1>1
    <3> QED
      BY <1>1, <1>4, <3>1, MaxIsGreatest
  <2>2. f[s \ {Max(s)}] \in Seq(ItemRow) /\ file[Max(s)] \in ImportRow
    BY <1>1, <2>1
  <2>3. \A a \in Seq(ItemRow), b \in ImportRow : next[<<a, b>>] = Imported(a, b)
    BY DEF next
  <2> QED
    BY <2>2, <2>3, Zenon
<1>5. F(f)
  BY <1>3, <1>4, Zenon DEF FoldsTo
<1>6. F(g)
  BY <1>5, Zenon
<1>7. FoldLeft(Imported, base, file) = g[1 .. n]
  BY <1>1 DEF FoldLeft, MapThenFoldSet
<1> HIDE DEF g
<1> DEFINE st == [k \in 0 .. n |-> g[1 .. k]]
<1>8. st[0] = base
  <2>1. st[0] = g[{}] /\ {} \in SUBSET (1 .. n)
    BY <1>1, SMT
  <2> QED
    BY <1>6, <2>1
<1>9. st[n] = FoldLeft(Imported, base, file)
  BY <1>1, <1>7
<1>10. ASSUME NEW k \in 1 .. n PROVE st[k] = Imported(st[k - 1], file[k])
  <2>1. 1 .. k \in SUBSET (1 .. n) /\ 1 .. k # {}
        /\ Max(1 .. k) = k /\ (1 .. k) \ {Max(1 .. k)} = 1 .. k - 1
    BY <1>1, FirstNumbers
  <2>2. g[1 .. k] = Imported(g[1 .. k - 1], file[k])
    BY <1>6, <2>1
  <2>3. st[k] = g[1 .. k] /\ st[k - 1] = g[1 .. k - 1]
    BY <1>1
  <2> QED
    BY <2>2, <2>3, Zenon
<1> QED
  BY <1>8, <1>9, <1>10 DEF n

Grown(its) ==
  /\ its \in Seq(ItemRow) /\ Len(items) <= Len(its) /\ OnceIn(its)
  /\ \A i \in 1 .. Len(items) : its[i] = items[i]
  /\ \A i \in 1 .. Len(its) : PageFits(its[i])

LEMMA PageImported ==
  ASSUME items \in Seq(ItemRow), NEW its, Grown(its), NEW page \in ImportRow
  PROVE  Grown(Imported(its, page))
<1>1. page.url \in Urls /\ page.titled \in BOOLEAN
  BY DEF ImportRow
<1>2. CASE ListedIn(its, page.url) # {}
  BY <1>2 DEF Imported
<1>3. CASE ListedIn(its, page.url) = {}
  <2> DEFINE it == NewItem(page.url, page.titled)
             all == Append(its, it)
  <2>1. it \in ItemRow /\ it.url = page.url /\ PageFits(it)
    BY <1>1, NewItemFits
  <2> HIDE DEF it
  <2>2. /\ all \in Seq(ItemRow) /\ Len(all) = Len(its) + 1
        /\ \A i \in 1 .. Len(its) : all[i] = its[i]
        /\ \A i \in 1 .. Len(all) : PageFits(all[i])
        /\ OnceIn(all)
    BY <1>3, <2>1, OnceMore DEF Grown
  <2>3. Len(items) \in Nat /\ Len(its) \in Nat
    BY DEF Grown
  <2>4. Imported(its, page) = all
    BY <1>3 DEF Imported, it
  <2> HIDE DEF all
  <2>5. \A i \in 1 .. Len(items) : i \in 1 .. Len(its)
    BY <2>3 DEF Grown
  <2> QED
    BY <2>2, <2>3, <2>4, <2>5 DEF Grown
<1> QED
  BY <1>2, <1>3

LEMMA ImportGrows ==
  ASSUME ListGood, NEW file \in Files
  PROVE  Grown(FoldLeft(Imported, items, file))
<1>1. items \in Seq(ItemRow) /\ Grown(items)
  BY DEF ListGood, Grown
<1>2. file \in Seq(ImportRow)
  BY ReadingItemsAssumption DEF ImportRow
<1> DEFINE n == Len(file)
<1>3. n \in Nat /\ \A k \in 1 .. n : file[k] \in ImportRow
  BY <1>2
<1>4. PICK st : /\ st[0] = items /\ st[n] = FoldLeft(Imported, items, file)
                /\ \A k \in 1 .. n : st[k] = Imported(st[k - 1], file[k])
  BY <1>1, <1>2, ImportStages
<1> HIDE DEF n
<1> DEFINE Sound == {k \in 0 .. n : Grown(st[k])}
<1>5. 0 \in Sound
  BY <1>1, <1>3, <1>4
<1>6. ASSUME NEW k \in 1 .. n, k - 1 \in Sound PROVE k \in Sound
  <2>1. Grown(st[k - 1])
    BY <1>6
  <2>2. Grown(Imported(st[k - 1], file[k]))
    BY <1>1, <1>3, <2>1, PageImported
  <2> QED
    BY <1>4, <2>2
<1>7. n \in Sound
  <2>1. Sound \in SUBSET (0 .. n)
    OBVIOUS
  <2> HIDE DEF Sound
  <2> QED
    BY <1>3, <1>5, <1>6, <2>1, Upwards
<1> QED
  BY <1>4, <1>7

-----------------------------------------------------------------------------
(* Every step                                                              *)

LEMMA AddPageGood ==
  ASSUME ListGood, NEW u \in Urls, NEW h \in Hands, AddPage(u, h)
  PROVE  ListGood'
<1> DEFINE it == NewItem(u, FALSE)
           hd == [pc |-> "look", todo |-> <<Len(items) + 1>>]
<1>1. /\ ListedIn(items, u) = {} /\ Len(items) < MaxListed /\ hands[h].pc = "free"
      /\ items' = Append(items, it) /\ hands' = [hands EXCEPT ![h] = hd]
  BY DEF AddPage
<1>2. items \in Seq(ItemRow) /\ Len(items) \in Nat /\ hands \in [Hands -> HandRow] /\ MaxListed \in Nat
  BY ReadingItemsAssumption DEF ListGood
<1>3. it \in ItemRow /\ it.url = u /\ ~it.brought /\ PageFits(it)
  BY NewItemFits
<1> HIDE DEF it
<1>4. /\ items' \in Seq(ItemRow) /\ Len(items') = Len(items) + 1
      /\ \A i \in 1 .. Len(items) : items'[i] = items[i]
      /\ items'[Len(items) + 1] = it
      /\ \A i \in 1 .. Len(items') : PageFits(items'[i])
      /\ OnceIn(items')
  BY <1>1, <1>2, <1>3, OnceMore DEF ListGood
<1>5. /\ \A g \in Hands : HandFits(hands[g], items')
      /\ WithCompany(hands, items')
  BY <1>1, <1>2, <1>4, ItemsGrow
<1>6. hd \in HandRow /\ hd.pc = "look" /\ hd.todo = <<Len(items) + 1>>
  BY <1>2 DEF HandRow
<1> HIDE DEF hd
<1>7. HandFits(hd, items')
  BY <1>2, <1>3, <1>4, <1>6 DEF HandFits, Past
<1>8. hands' \in [Hands -> HandRow] /\ hands'[h] = hd /\ \A g \in Hands \ {h} : hands'[g] = hands[g]
  BY <1>1, <1>2, <1>6
<1>9. \A g \in Hands : HandFits(hands'[g], items')
  BY <1>5, <1>7, <1>8
<1>10. WithCompany(hands', items')
  BY <1>5, <1>6, <1>8 DEF WithCompany, Past
<1> QED
  BY <1>1, <1>2, <1>4, <1>8, <1>9, <1>10 DEF ListGood

LEMMA DeleteItemGood ==
  ASSUME ListGood, NEW i \in Remaining, DeleteItem(i)
  PROVE  ListGood'
<1> DEFINE it == [items[i] EXCEPT !.gone = TRUE]
<1>1. i \in 1 .. Len(items) /\ items \in Seq(ItemRow)
  BY DEF Remaining, Made, ListGood
<1>2. items[i] \in ItemRow
  BY <1>1
<1>3. /\ it \in ItemRow /\ it.url = items[i].url /\ it.title = items[i].title /\ it.fetch = items[i].fetch
      /\ it.summary = items[i].summary /\ it.text = items[i].text /\ it.brought = items[i].brought
      /\ it.alone = items[i].alone /\ it.gone
  BY <1>2 DEF ItemRow
<1>4. items' = [items EXCEPT ![i] = it] /\ UNCHANGED hands
  BY DEF DeleteItem
<1> HIDE DEF it
<1>5. /\ items' \in Seq(ItemRow) /\ Len(items') = Len(items) /\ items'[i] = it
      /\ \A j \in 1 .. Len(items) : j # i => items'[j] = items[j]
  BY <1>1, <1>3, <1>4
<1>6. PageFits(it)
  BY <1>1, <1>3 DEF ListGood, PageFits
<1>7. \A j \in 1 .. Len(items') : PageFits(items'[j])
  BY <1>5, <1>6 DEF ListGood
<1>8. OnceIn(items')
  BY <1>3, <1>5 DEF ListGood, OnceIn
<1>9. \A h \in Hands : hands[h].pc \in Past => Head(hands[h].todo) \in 1 .. Len(items)
  BY ItemAtHand DEF Past, AtHand
<1>10. \A h \in Hands : HandFits(hands[h], items')
  <2> SUFFICES ASSUME NEW h \in Hands PROVE HandFits(hands[h], items')
    OBVIOUS
  <2>1. HandFits(hands[h], items)
    BY DEF ListGood
  <2> QED
    BY <1>3, <1>5, <1>9, <2>1 DEF HandFits
<1>11. WithCompany(hands, items')
  BY <1>3, <1>5, <1>9 DEF WithCompany, ListGood
<1> QED
  BY <1>4, <1>5, <1>7, <1>8, <1>10, <1>11 DEF ListGood

\* A hand past the look has company at its item, or the item says that it is alone.
LEMMA HandPuts ==
  ASSUME ListGood, NEW h \in Hands, hands[h].pc \in Past, NEW w \in ItemRow, Put(AtHand(h), w),
         ~items[AtHand(h)].gone => PageFits(w), w.url = items[AtHand(h)].url, w.brought = items[AtHand(h)].brought,
         w.gone = items[AtHand(h)].gone, w.alone = items[AtHand(h)].alone,
         w.fetch = "pending" => items[AtHand(h)].fetch = "pending",
         NEW hd, hands' = [hands EXCEPT ![h] = hd],
         \/ hd = NextHand(hands[h])
         \/ /\ hd \in HandRow /\ hd.pc \in Past /\ hd.todo = hands[h].todo
            /\ ~items[AtHand(h)].gone => StageFits(w, hd.pc)
  PROVE  ListGood'
<1> DEFINE i == AtHand(h)
           it == IF items[i].gone THEN items[i] ELSE w
<1>1. /\ i \in 1 .. Len(items) /\ items[i] \in ItemRow /\ PageFits(items[i])
      /\ hands[h].todo \in Seq(Nat) /\ hands[h].todo # <<>> /\ hands[h].pc # "free"
      /\ i = Head(hands[h].todo) /\ items \in Seq(ItemRow)
  BY ItemAtHand DEF Past, AtHand, ListGood
<1>2. items' = [items EXCEPT ![i] = it]
  BY DEF Put
<1>3. /\ it \in ItemRow /\ PageFits(it) /\ it.url = items[i].url /\ it.brought = items[i].brought
      /\ it.gone = items[i].gone /\ it.alone = items[i].alone
      /\ it.fetch = "pending" => items[i].fetch = "pending"
      /\ ~it.gone => it = w
  BY <1>1
<1> HIDE DEF it
<1>4. it.alone /\ ~it.gone =>
        \A g \in Hands \ {h} : ~(hands[g].pc \in Past /\ Head(hands[g].todo) = i)
  BY <1>1, <1>3 DEF ListGood, WithCompany
<1>5. /\ Len(items') = Len(items) /\ items'[i] = it
      /\ \A j \in 1 .. Len(items) : items'[j].brought = items[j].brought
  <2>1. DOMAIN items = 1 .. Len(items) /\ Len(items) \in Nat
    BY <1>1
  <2>2. items' \in Seq(ItemRow) /\ Len(items') = Len(items)
    BY <1>1, <1>2, <1>3
  <2>3. items'[i] = it
    BY <1>1, <1>2, <2>1, Zenon
  <2>4. ASSUME NEW j \in 1 .. Len(items) PROVE items'[j].brought = items[j].brought
    <3>1. CASE j = i
      BY <1>3, <2>3, <3>1, Zenon
    <3>2. CASE j # i
      BY <1>2, <2>1, <3>2, Zenon
    <3> QED
      BY <3>1, <3>2
  <2> QED
    BY <2>2, <2>3, <2>4
<1>6. hd \in HandRow /\ HandFits(hd, items') /\ (hd.pc \in Past => Head(hd.todo) = i)
  <2>1. CASE hd = NextHand(hands[h])
    BY <1>1, <1>5, <2>1, NextFits
  <2>2. CASE /\ hd \in HandRow /\ hd.pc \in Past /\ hd.todo = hands[h].todo
             /\ ~items[AtHand(h)].gone => StageFits(w, hd.pc)
    <3>1. HandFits(hands[h], items)
      BY DEF ListGood
    <3>2. \A k \in 1 .. Len(hd.todo) : hd.todo[k] \in 1 .. Len(items') /\ ~items'[hd.todo[k]].brought
      BY <1>5, <2>2, <3>1 DEF HandFits
    <3>3. Head(hd.todo) = i /\ hd.pc # "free" /\ hd.todo # <<>>
      BY <1>1, <2>2 DEF Past
    <3>4. ~items'[Head(hd.todo)].gone => StageFits(items'[Head(hd.todo)], hd.pc)
      BY <1>3, <1>5, <2>2, <3>3
    <3> QED
      BY <2>2, <3>2, <3>3, <3>4 DEF HandFits
  <2> QED
    BY <2>1, <2>2
<1> QED
  BY <1>1, <1>2, <1>3, <1>4, <1>6, HandActs

\* A hand that goes on at its item, and one that leaves it.
LEMMA Stepping ==
  ASSUME ListGood, NEW h \in Hands, NEW pc \in Past
  PROVE  /\ Step(h, pc) => \E hd \in HandRow : /\ hands' = [hands EXCEPT ![h] = hd]
                                               /\ hd.pc = pc /\ hd.todo = hands[h].todo
         /\ NextOf(h) => hands' = [hands EXCEPT ![h] = NextHand(hands[h])]
<1>1. hands[h] \in HandRow /\ hands \in [Hands -> HandRow]
  BY DEF ListGood
<1>2. ASSUME Step(h, pc)
      PROVE  \E hd \in HandRow : hands' = [hands EXCEPT ![h] = hd] /\ hd.pc = pc /\ hd.todo = hands[h].todo
  <2> DEFINE hd == [hands[h] EXCEPT !.pc = pc]
  <2>1. hd \in HandRow /\ hd.pc = pc /\ hd.todo = hands[h].todo
    BY <1>1 DEF HandRow
  <2>2. hands' = [hands EXCEPT ![h] = hd]
    BY <1>2 DEF Step
  <2> HIDE DEF hd
  <2> QED
    BY <2>1, <2>2
<1>3. NextOf(h) => hands' = [hands EXCEPT ![h] = NextHand(hands[h])]
  BY DEF NextOf, NextHand
<1> QED
  BY <1>2, <1>3

LEMMA ProcessPendingGood ==
  ASSUME ListGood, NEW h \in Hands, ProcessPendingItems(h)
  PROVE  ListGood'
<1>a. PICK taken \in UNION {[1 .. m -> Fetchable] : m \in 1 .. SweepLimit} :
        hands' = [hands EXCEPT ![h] = [pc |-> "look", todo |-> taken]]
  BY Zenon DEF ProcessPendingItems
<1>1. PICK n \in 1 .. SweepLimit : taken \in [1 .. n -> Fetchable]
  OBVIOUS
<1>2. UNCHANGED items
  BY DEF ProcessPendingItems
<1>3. \A i \in Fetchable : i \in 1 .. Len(items) /\ i \in Nat /\ ~items[i].brought
  <2>1. items \in Seq(ItemRow) /\ \A i \in 1 .. Len(items) : PageFits(items[i])
    BY DEF ListGood
  <2> QED
    BY <2>1 DEF Fetchable, Remaining, Made, PageFits
<1>4. n \in Nat \ {0}
  BY ReadingItemsAssumption
<1>5. taken \in Seq(Nat) /\ Len(taken) = n /\ taken # <<>>
      /\ \A k \in 1 .. Len(taken) : taken[k] \in Fetchable
  <2>1. taken \in [1 .. n -> Nat] /\ DOMAIN taken = 1 .. n
    BY <1>1, <1>3
  <2>2. taken \in Seq(Nat) /\ Len(taken) = n
    BY <1>4, <2>1
  <2>3. Len(<<>>) = 0
    OBVIOUS
  <2> QED
    BY <1>1, <1>4, <2>2, <2>3
<1> DEFINE hd == [pc |-> "look", todo |-> taken]
<1>6. hd \in HandRow /\ hd.pc = "look" /\ hd.todo = taken
  BY <1>5 DEF HandRow
<1> HIDE DEF hd
<1>7. HandFits(hd, items)
  BY <1>3, <1>5, <1>6 DEF HandFits, Past
<1> QED
  BY <1>a, <1>2, <1>6, <1>7, HandTurns DEF hd, Past

LEMMA FetchMetadataGood ==
  ASSUME ListGood, NEW h \in Hands, FetchMetadata(h)
  PROVE  ListGood'
<1> DEFINE i == AtHand(h)
<1>1. /\ hands[h].pc = "look" /\ hands[h].pc # "free"
      /\ hands[h].pc \notin Past
  BY DEF FetchMetadata, Past
<1>2. /\ i \in 1 .. Len(items) /\ items[i] \in ItemRow /\ PageFits(items[i]) /\ ~items[i].brought
      /\ hands[h].todo \in Seq(Nat) /\ hands[h].todo # <<>> /\ i = Head(hands[h].todo)
      /\ items \in Seq(ItemRow) /\ HandFits(hands[h], items)
  BY <1>1, ItemAtHand DEF AtHand, ListGood
<1>3. CASE items[i].gone
  <2>1. NextOf(h) /\ UNCHANGED items
    BY <1>3 DEF FetchMetadata
  <2>2. hands' = [hands EXCEPT ![h] = NextHand(hands[h])]
    BY <2>1, Stepping DEF Past
  <2>3. /\ NextHand(hands[h]) \in HandRow /\ NextHand(hands[h]).pc \notin Past
        /\ HandFits(NextHand(hands[h]), items)
    BY <1>1, NextFits
  <2> QED
    BY <2>1, <2>2, <2>3, HandTurns
<1>4. CASE ~items[i].gone
  <2>1. PICK b \in BOOLEAN : b = (items[i].alone /\ WorkersOn(i) = {h} /\ items[i].fetch = "pending")
    BY <1>2 DEF ItemRow
  <2> DEFINE it == [items[i] EXCEPT !.alone = b]
  <2>2. items' = [items EXCEPT ![i] = it]
    BY <1>4, <2>1 DEF FetchMetadata
  <2>3. /\ it \in ItemRow /\ it.url = items[i].url /\ it.title = items[i].title /\ it.fetch = items[i].fetch
        /\ it.summary = items[i].summary /\ it.text = items[i].text /\ it.brought = items[i].brought
        /\ it.gone = items[i].gone /\ it.alone = b
    BY <1>2 DEF ItemRow
  <2> HIDE DEF it
  <2>4. PageFits(it)
    BY <1>2, <2>1, <2>3 DEF PageFits
  <2>5. PICK hd \in HandRow : hands' = [hands EXCEPT ![h] = hd] /\ hd.pc = "fetch" /\ hd.todo = hands[h].todo
    BY <1>4, Stepping DEF FetchMetadata, Past
  <2>6. it.alone => StageFits(it, "fetch")
    BY <1>2, <2>1, <2>3, <2>4 DEF StageFits, PageFits
  <2>7. StageFits(it, "fetch")
    BY <2>6 DEF StageFits
  <2>8. /\ Len(items') = Len(items) /\ items'[i] = it
        /\ \A j \in 1 .. Len(items) : items'[j].brought = items[j].brought
    BY <1>2, <2>2, <2>3
  <2>9. HandFits(hd, items')
    BY <1>2, <2>5, <2>7, <2>8 DEF HandFits
  <2>10. it.alone => \A g \in Hands \ {h} : ~(hands[g].pc \in Past /\ Head(hands[g].todo) = i)
    BY <2>1, <2>3 DEF WorkersOn, AtHand, Past
  <2> QED
    BY <1>1, <1>2, <2>2, <2>3, <2>4, <2>5, <2>9, <2>10, HandActs
<1> QED
  BY <1>3, <1>4

\* A hand at work after the look, in the terms of HandPuts.
LEMMA PutsStep ==
  ASSUME ListGood, NEW h \in Hands,
         \/ FetchFails(h) \/ SkipSummary(h) \/ AskSummary(h) \/ SummaryFails(h) \/ SummaryAnswers(h)
         \/ \E titled \in BOOLEAN : FetchAnswers(h, titled)
  PROVE  ListGood'
<1> DEFINE i == AtHand(h)
           it == items[i]
<1>1. hands[h].pc \in Past /\ hands[h].pc # "free"
  BY DEF FetchFails, SkipSummary, AskSummary, SummaryFails, SummaryAnswers, FetchAnswers, Past
<1>2. /\ it \in ItemRow /\ PageFits(it) /\ ~it.brought /\ i = Head(hands[h].todo)
      /\ i \in 1 .. Len(items) /\ hands[h].todo # <<>> /\ hands[h] \in HandRow
  BY <1>1, ItemAtHand DEF AtHand, ListGood
<1>3. ~it.gone => StageFits(it, hands[h].pc)
  BY <1>1, <1>2 DEF ListGood, HandFits
<1> HIDE DEF it, i
<1>4. CASE FetchFails(h)
  <2> DEFINE w == [it EXCEPT !.fetch = "error"]
  <2>1. hands[h].pc = "fetch" /\ Put(i, w) /\ NextOf(h)
    BY <1>4 DEF FetchFails, i, it
  <2>2. /\ w \in ItemRow /\ w.url = it.url /\ w.title = it.title /\ w.fetch = "error"
        /\ w.summary = it.summary /\ w.text = it.text
        /\ w.brought = it.brought /\ w.gone = it.gone /\ w.alone = it.alone
    BY <1>2 DEF ItemRow
  <2> HIDE DEF w
  <2>3. ~it.gone => PageFits(w)
    BY <1>2, <1>3, <2>1, <2>2 DEF PageFits, StageFits
  <2>4. hands' = [hands EXCEPT ![h] = NextHand(hands[h])]
    BY <2>1, Stepping DEF Past
  <2> QED
    BY <1>1, <1>2, <2>1, <2>2, <2>3, <2>4, HandPuts DEF i, it
<1>5. CASE SkipSummary(h)
  <2> DEFINE w == [it EXCEPT !.summary = "skipped"]
  <2>1. hands[h].pc = "title" /\ Put(i, w) /\ NextOf(h)
    BY <1>5 DEF SkipSummary, i, it
  <2>2. /\ w \in ItemRow /\ w.url = it.url /\ w.title = it.title /\ w.fetch = it.fetch
        /\ w.summary = "skipped" /\ w.text = it.text
        /\ w.brought = it.brought /\ w.gone = it.gone /\ w.alone = it.alone
    BY <1>2 DEF ItemRow
  <2> HIDE DEF w
  <2>3. ~it.gone => PageFits(w)
    BY <1>2, <1>3, <2>1, <2>2 DEF PageFits, StageFits
  <2>4. hands' = [hands EXCEPT ![h] = NextHand(hands[h])]
    BY <2>1, Stepping DEF Past
  <2> QED
    BY <1>1, <1>2, <2>1, <2>2, <2>3, <2>4, HandPuts DEF i, it
<1>6. CASE SummaryFails(h)
  <2> DEFINE w == [it EXCEPT !.summary = "error"]
  <2>1. hands[h].pc = "model" /\ Put(i, w) /\ NextOf(h)
    BY <1>6 DEF SummaryFails, WithoutText, i, it
  <2>2. /\ w \in ItemRow /\ w.url = it.url /\ w.title = it.title /\ w.fetch = it.fetch
        /\ w.summary = "error" /\ w.text = it.text
        /\ w.brought = it.brought /\ w.gone = it.gone /\ w.alone = it.alone
    BY <1>2 DEF ItemRow
  <2> HIDE DEF w
  <2>3. ~it.gone => PageFits(w)
    BY <1>2, <1>3, <2>1, <2>2 DEF PageFits, StageFits
  <2>4. hands' = [hands EXCEPT ![h] = NextHand(hands[h])]
    BY <2>1, Stepping DEF Past
  <2> QED
    BY <1>1, <1>2, <2>1, <2>2, <2>3, <2>4, HandPuts DEF i, it
<1>7. CASE SummaryAnswers(h)
  <2> DEFINE w == [it EXCEPT !.summary = "ok", !.text = TRUE]
  <2>1. hands[h].pc = "model" /\ Put(i, w) /\ NextOf(h)
    BY <1>7 DEF SummaryAnswers, i, it
  <2>2. /\ w \in ItemRow /\ w.url = it.url /\ w.title = it.title /\ w.fetch = it.fetch
        /\ w.summary = "ok" /\ w.text
        /\ w.brought = it.brought /\ w.gone = it.gone /\ w.alone = it.alone
    BY <1>2 DEF ItemRow
  <2> HIDE DEF w
  <2>3. ~it.gone => PageFits(w)
    BY <1>2, <1>3, <2>1, <2>2 DEF PageFits, StageFits
  <2>4. hands' = [hands EXCEPT ![h] = NextHand(hands[h])]
    BY <2>1, Stepping DEF Past
  <2> QED
    BY <1>1, <1>2, <2>1, <2>2, <2>3, <2>4, HandPuts DEF i, it
<1>8. ASSUME NEW titled \in BOOLEAN, FetchAnswers(h, titled) PROVE ListGood'
  <2>1. PICK t \in {"fetched", "none"} : t = IF titled THEN "fetched" ELSE "none"
    OBVIOUS
  <2> DEFINE w == [it EXCEPT !.fetch = "ok", !.title = t]
  <2>2. hands[h].pc = "fetch" /\ Put(i, w) /\ Step(h, "title")
    BY <1>8, <2>1 DEF FetchAnswers, i, it
  <2>3. /\ w \in ItemRow /\ w.url = it.url /\ w.title = t /\ w.fetch = "ok"
        /\ w.summary = it.summary /\ w.text = it.text
        /\ w.brought = it.brought /\ w.gone = it.gone /\ w.alone = it.alone
    BY <1>2 DEF ItemRow
  <2> HIDE DEF w
  <2>4. ~it.gone => PageFits(w)
    BY <1>2, <1>3, <2>2, <2>3 DEF PageFits, StageFits
  <2>5. ~it.gone => StageFits(w, "title")
    BY <1>2, <1>3, <2>2, <2>3 DEF StageFits
  <2>6. PICK hd \in HandRow : hands' = [hands EXCEPT ![h] = hd] /\ hd.pc = "title" /\ hd.todo = hands[h].todo
    BY <2>2, Stepping DEF Past
  <2>7. hd.pc \in Past
    BY <2>6 DEF Past
  <2> QED
    BY <1>1, <1>2, <2>2, <2>3, <2>4, <2>5, <2>6, <2>7, HandPuts DEF i, it
<1>9. CASE AskSummary(h)
  <2>1. hands[h].pc = "title" /\ ~it.gone /\ it.title # "none" /\ Step(h, "model") /\ UNCHANGED items
    BY <1>9 DEF AskSummary, i, it
  <2>2. PICK hd \in HandRow : hands' = [hands EXCEPT ![h] = hd] /\ hd.pc = "model" /\ hd.todo = hands[h].todo
    BY <2>1, Stepping DEF Past
  <2>3. StageFits(it, "model")
    BY <1>2, <1>3, <2>1 DEF StageFits, ItemRow
  <2>4. HandFits(hands[h], items)
    BY DEF ListGood
  <2>5. HandFits(hd, items)
    BY <1>2, <2>2, <2>3, <2>4 DEF HandFits, it
  <2> QED
    BY <1>1, <2>1, <2>2, <2>5, HandTurns
<1> QED
  BY <1>4, <1>5, <1>6, <1>7, <1>8, <1>9

LEMMA ListStepGood == ListGood /\ [ListNext]_listVars => ListGood'
<1> SUFFICES ASSUME ListGood, [ListNext]_listVars PROVE ListGood'
  OBVIOUS
<1>1. ASSUME NEW u \in Urls, NEW h \in Hands, AddPage(u, h) PROVE ListGood'
  BY <1>1, AddPageGood
<1>2. ASSUME NEW file \in Files, ImportItems(file) PROVE ListGood'
  <2> DEFINE all == FoldLeft(Imported, items, file)
  <2>1. Len(all) <= MaxListed /\ items' = all /\ UNCHANGED hands
    BY <1>2 DEF ImportItems
  <2>2. Grown(all)
    BY ImportGrows
  <2> HIDE DEF all
  <2> QED
    BY <2>1, <2>2, ItemsGrow DEF Grown
<1>3. ASSUME NEW i \in Remaining, DeleteItem(i) PROVE ListGood'
  BY <1>3, DeleteItemGood
<1>4. ASSUME NEW h \in Hands, ProcessPendingItems(h) \/ FetchMetadata(h) PROVE ListGood'
  BY <1>4, ProcessPendingGood, FetchMetadataGood
<1>5. ASSUME NEW h \in Hands,
             \/ FetchFails(h) \/ SkipSummary(h) \/ AskSummary(h) \/ SummaryFails(h) \/ SummaryAnswers(h)
             \/ \E titled \in BOOLEAN : FetchAnswers(h, titled)
      PROVE  ListGood'
  BY <1>5, PutsStep
<1>6. ASSUME NEW h \in Hands, HandStops(h) PROVE ListGood'
  <2>1. hands' = [hands EXCEPT ![h] = Free] /\ UNCHANGED items
    BY <1>6 DEF HandStops
  <2>2. Free \in HandRow /\ Free.pc \notin Past /\ HandFits(Free, items)
    BY FreeFits DEF Past
  <2> QED
    BY <2>1, <2>2, HandTurns
<1>7. CASE UNCHANGED listVars
  BY <1>7 DEF listVars, ListGood
<1> QED
  BY <1>1, <1>2, <1>3, <1>4, <1>5, <1>6, <1>7 DEF ListNext

LEMMA ListParts == ListGood => ListTypeOK /\ ListInv
<1> SUFFICES ASSUME ListGood PROVE ListTypeOK /\ ListInv
  OBVIOUS
<1>1. \A i \in Made : items[i] \in ItemRow /\ PageFits(items[i])
  BY DEF ListGood, Made
<1>2. \A h \in Hands : hands[h] \in HandRow /\ HandFits(hands[h], items)
  BY DEF ListGood
<1>3. ListTypeOK
  BY <1>1, <1>2 DEF ListGood, ListTypeOK, ItemRow, HandRow, HandFits, Past
<1>4. PageIsListedOnce
  BY DEF PageIsListedOnce, ListGood, OnceIn, Remaining, Made
<1>5. ImportedTitleIsKept
  <2>1. \A h \in Hands : hands[h].pc # "free" => ~items[AtHand(h)].brought
    BY ItemAtHand
  <2> QED
    BY <1>1, <2>1 DEF ImportedTitleIsKept, PageFits, WorkersOn
<1>6. StatusIsTrue
  BY <1>1 DEF StatusIsTrue, PageFits
<1> QED
  BY <1>3, <1>4, <1>5, <1>6 DEF ListInv

\* A page is listed once, the title that an import brought is kept, and what is said
\* of a page is so, however the hands that fetch cross each other, stop or are late.
THEOREM ListIsTrue == ListSpec => []ListInv
  BY ListInitGood, ListStepGood, ListParts, PTL DEF ListSpec

(***************************************************************************)
(* Quizzes                                                                 *)
(***************************************************************************)

\* What is at some places of a sequence is there in the order of the places.
LEMMA AtPlacesIs ==
  ASSUME NEW R, NEW s \in Seq(R), NEW P \in SUBSET (DOMAIN s)
  PROVE  \E e : /\ Len(AtPlaces(s, P)) \in Nat /\ AtPlaces(s, P) \in Seq(R)
                /\ Len(AtPlaces(s, P)) <= Len(s)
                /\ e \in [1 .. Len(AtPlaces(s, P)) -> P]
                /\ \A i \in 1 .. Len(AtPlaces(s, P)) : AtPlaces(s, P)[i] = s[e[i]]
                /\ \A i, j \in 1 .. Len(AtPlaces(s, P)) : i < j => e[i] < e[j]
                /\ \A k \in P : \E i \in 1 .. Len(AtPlaces(s, P)) : e[i] = k
<1> DEFINE L == {p \in P \X P : p[1] < p[2]}
           n == Cardinality(P)
           e == InOrder(P, L)
           t == AtPlaces(s, P)
<1>1. P \in SUBSET Int /\ P \in SUBSET (1 .. Len(s)) /\ Len(s) \in Nat
  OBVIOUS
<1>2. IsFiniteSet(P) /\ Cardinality(P) <= Len(s)
  <2>1. 1 \in Int /\ Len(s) \in Int
    BY <1>1
  <2>2. IsFiniteSet(1 .. Len(s)) /\ Cardinality(1 .. Len(s)) = IF 1 > Len(s) THEN 0 ELSE Len(s) - 1 + 1
    BY <2>1, FS_Interval, Zenon
  <2>3. Cardinality(1 .. Len(s)) = Len(s)
    BY <1>1, <2>2
  <2> QED
    BY <1>1, <2>2, <2>3, FS_Subset
<1>3. StrictlyOrders(L, P) /\ \A x \in P : Before(P, L, x) = Cardinality({y \in P : y < x})
  BY <1>1, NumbersAreOrdered
<1>4. \A x, y \in P : <<x, y>> \in L => x < y
  OBVIOUS
<1> HIDE DEF L
<1>5. /\ n \in Nat /\ e \in [1 .. n -> P]
      /\ \A i, j \in 1 .. n : i < j => <<e[i], e[j]>> \in L
      /\ \A x \in P : \E i \in 1 .. n : e[i] = x
  BY <1>2, <1>3, Enumerated
<1>6. ASSUME NEW i \in 1 .. n
      PROVE  e[i] = CHOOSE k \in P : Cardinality({j \in P : j < k}) = i - 1
  <2>1. e[i] = CHOOSE k \in P : Before(P, L, k) = i - 1
    BY DEF InOrder
  <2>2. \A k \in P : Before(P, L, k) = i - 1 <=> Cardinality({j \in P : j < k}) = i - 1
    BY <1>3
  <2> QED
    BY <2>1, <2>2, Zenon
<1> HIDE DEF e
<1>7. t = [i \in 1 .. n |-> s[e[i]]]
  <2> DEFINE H(i) == s[CHOOSE k \in P : Cardinality({j \in P : j < k}) = i - 1]
  <2>1. t = [i \in 1 .. n |-> H(i)]
    BY Zenon DEF AtPlaces
  <2>2. \A i \in 1 .. n : H(i) = s[e[i]]
    BY <1>6, Zenon
  <2> HIDE DEF H, t, n
  <2> QED
    BY <2>1, <2>2
<1>8. t \in [1 .. n -> R] /\ \A i \in 1 .. n : t[i] = s[e[i]]
  BY <1>1, <1>5, <1>7
<1> HIDE DEF t, n
<1>9. t \in Seq(R) /\ Len(t) = n
  BY <1>5, <1>8
<1>10. \A i, j \in 1 .. n : i < j => e[i] < e[j]
  BY <1>4, <1>5
<1> QED
  BY <1>2, <1>5, <1>8, <1>9, <1>10 DEF t, n

FinishedRow == [paper: Papers, day: 0 .. MaxToday]

Question == [form: {"good", "partial", "garbled"}, right: Int, about: Int]

QuizRow == [questions: Seq(Question), score: Int, said: Seq(Seq(Int))]

MasterRow == [of: Seq(FinishedRow), aims: SUBSET Aims, aside: SUBSET FinishedRow]

ByDay(s) == \A i, j \in 1 .. Len(s) : i <= j => s[i].day <= s[j].day

LEMMA SelectedDays ==
  ASSUME NEW s \in Seq(FinishedRow), ByDay(s), NEW P \in SUBSET (DOMAIN s)
  PROVE  /\ AtPlaces(s, P) \in Seq(FinishedRow) /\ Len(AtPlaces(s, P)) <= Len(s)
         /\ ByDay(AtPlaces(s, P)) /\ ToSet(AtPlaces(s, P)) = {s[k] : k \in P}
<1> DEFINE t == AtPlaces(s, P)
<1>1. PICK e : /\ Len(t) \in Nat /\ t \in Seq(FinishedRow) /\ Len(t) <= Len(s)
               /\ e \in [1 .. Len(t) -> P]
               /\ \A i \in 1 .. Len(t) : t[i] = s[e[i]]
               /\ \A i, j \in 1 .. Len(t) : i < j => e[i] < e[j]
               /\ \A k \in P : \E i \in 1 .. Len(t) : e[i] = k
  BY AtPlacesIs
<1> HIDE DEF t
<1>2. \A k \in P : k \in 1 .. Len(s) /\ k \in Nat
  OBVIOUS
<1>3. ByDay(t)
  <2> SUFFICES ASSUME NEW i \in 1 .. Len(t), NEW j \in 1 .. Len(t), i <= j
               PROVE  t[i].day <= t[j].day
    BY DEF ByDay
  <2>1. e[i] \in P /\ e[j] \in P /\ (i < j => e[i] < e[j]) /\ (i = j => e[i] = e[j])
    BY <1>1
  <2>2. e[i] <= e[j]
    BY <1>2, <2>1
  <2>3. s[e[i]].day <= s[e[j]].day
    BY <1>2, <2>1, <2>2 DEF ByDay
  <2> QED
    BY <1>1, <2>3
<1>4. ToSet(t) = {s[k] : k \in P}
  <2>1. DOMAIN t = 1 .. Len(t)
    BY <1>1
  <2>2. \A i \in 1 .. Len(t) : t[i] = s[e[i]] /\ e[i] \in P
    BY <1>1
  <2>3. \A k \in P : \E i \in 1 .. Len(t) : t[i] = s[k]
    BY <1>1
  <2> QED
    BY <2>1, <2>2, <2>3 DEF ToSet
<1> QED
  BY <1>1, <1>3, <1>4 DEF t

\* The last of a sequence of reads: what is left aside is not newer, and is so
\* only where there are as many as there may be.
LEMMA NewestIs ==
  ASSUME NEW s \in Seq(FinishedRow), ByDay(s)
  PROVE  /\ NewestOf(s) \in Seq(FinishedRow) /\ Len(NewestOf(s)) <= MaxChosen
         /\ ToSet(NewestOf(s)) \subseteq ToSet(s)
         /\ s # <<>> => NewestOf(s) # <<>>
         /\ \A f \in ToSet(s) \ ToSet(NewestOf(s)), g \in ToSet(NewestOf(s)) :
              f.day <= g.day /\ Len(NewestOf(s)) = MaxChosen
<1> DEFINE n == Len(s)
           a == IF n > MaxChosen THEN n - MaxChosen + 1 ELSE 1
           t == NewestOf(s)
<1>0. n \in Nat /\ MaxChosen \in Nat \ {0} /\ DOMAIN s = 1 .. n
  BY QuizAssumption
<1>1. a \in 1 .. n + 1 /\ a \in Int /\ n \in Int
  BY <1>0
<1>2. /\ t \in Seq(FinishedRow) /\ Len(t) = IF a <= n THEN n - a + 1 ELSE 0
      /\ \A i \in 1 .. n - a + 1 : t[i] = s[a + i - 1]
  <2>1. \A i \in a .. n : s[i] \in FinishedRow
    BY <1>0, <1>1
  <2>2. t = SubSeq(s, a, n)
    BY DEF NewestOf
  <2> HIDE DEF a, n, t
  <2> QED
    BY <1>1, <2>1, <2>2, SubSeqProperties
<1>3. Len(t) = n - a + 1 /\ DOMAIN t = 1 .. n - a + 1
  BY <1>1, <1>2
<1>4. Len(t) <= MaxChosen /\ (a > 1 => Len(t) = MaxChosen)
  BY <1>0, <1>3
<1>5. s # <<>> => t # <<>>
  <2>1. s # <<>> => n >= 1
    BY <1>0
  <2>2. n >= 1 => Len(t) >= 1
    BY <1>0, <1>3
  <2>3. Len(<<>>) = 0
    OBVIOUS
  <2> HIDE DEF n, t
  <2> QED
    BY <2>1, <2>2, <2>3
<1> HIDE DEF t, a, n
<1>6. ASSUME NEW x \in ToSet(t) PROVE \E k \in a .. n : k \in 1 .. n /\ x = s[k]
  <2>1. PICK i \in 1 .. n - a + 1 : x = t[i]
    BY <1>3 DEF ToSet
  <2>2. a + i - 1 \in a .. n /\ a + i - 1 \in 1 .. n
    BY <1>0, <1>1
  <2> QED
    BY <1>2, <2>1, <2>2
<1>7. ToSet(t) \subseteq ToSet(s)
  BY <1>0, <1>6 DEF ToSet
<1>8. ASSUME NEW k \in 1 .. n, s[k] \notin ToSet(t) PROVE k < a
  <2>1. SUFFICES ASSUME k >= a PROVE FALSE
    BY <1>0, <1>1
  <2>2. k - a + 1 \in 1 .. n - a + 1 /\ a + (k - a + 1) - 1 = k
    BY <1>0, <1>1, <2>1
  <2>3. t[k - a + 1] = s[k]
    BY <1>2, <2>2
  <2> QED
    BY <1>3, <1>8, <2>2, <2>3 DEF ToSet
<1>9. ASSUME NEW f \in ToSet(s) \ ToSet(t), NEW g \in ToSet(t)
      PROVE  f.day <= g.day /\ Len(t) = MaxChosen
  <2>1. PICK k \in 1 .. n : f = s[k]
    BY <1>0 DEF ToSet
  <2>2. PICK j \in a .. n : j \in 1 .. n /\ g = s[j]
    BY <1>6
  <2>3. k < a
    BY <1>8, <2>1
  <2>4. k <= j /\ a > 1
    BY <1>0, <1>1, <2>2, <2>3
  <2> QED
    BY <1>4, <2>1, <2>2, <2>4 DEF ByDay, n
<1> QED
  BY <1>2, <1>4, <1>5, <1>7, <1>9 DEF t

-----------------------------------------------------------------------------
(* What is always so                                                       *)

WeekFits(made) ==
  LET serves(f) == AimsOf[f.paper] \cap made.aims # {}
  IN /\ Len(made.of) <= MaxChosen
     /\ \A f, g \in ToSet(made.of) : f.day - g.day <= Fresh /\ (serves(f) <=> serves(g))
     /\ \A f \in made.aside, g \in ToSet(made.of) :
          \/ serves(g) /\ ~serves(f)
          \/ serves(g) = serves(f) /\ f.day <= g.day /\ Len(made.of) = MaxChosen

ScoreFits(q) ==
  /\ q.questions # <<>>
  /\ q.score # -1 =>
       /\ DOMAIN q.said = DOMAIN q.questions
       /\ q.score = Cardinality({k \in DOMAIN q.said : q.said[k] = <<q.questions[k].right>>})

QuizGood ==
  /\ guest \in BOOLEAN /\ today \in 0 .. MaxToday /\ aims \subseteq Aims
  /\ finished \in Seq(FinishedRow) /\ Len(finished) <= MaxFinished /\ ByDay(finished)
  /\ \A k \in 1 .. Len(finished) : finished[k].day <= today
  /\ quizmasters \in [Quizmasters -> MasterRow] /\ \A m \in Quizmasters : WeekFits(quizmasters[m])
  /\ quizzes \in Seq(QuizRow) /\ Len(quizzes) <= MaxQuizzes
  /\ \A i \in 1 .. Len(quizzes) : ScoreFits(quizzes[i])
  /\ passed \in Seq(1 .. Len(quizzes))
  /\ prize \in [for: {0} \cup 1 .. Len(quizzes), shown: 0 .. 1]
  /\ prize.for = IF guest \/ passed = <<>> THEN 0 ELSE passed[1]
  /\ prize.shown = 1 => prize.for # 0

LEMMA NoQuizFits == NoQuiz \in MasterRow /\ WeekFits(NoQuiz)
<1>1. <<>> \in Seq(FinishedRow) /\ Len(<<>>) = 0 /\ DOMAIN <<>> = 1 .. 0 /\ 1 .. 0 = {}
  OBVIOUS
<1>2. NoQuiz \in MasterRow /\ NoQuiz.of = <<>> /\ NoQuiz.aside = {}
  BY <1>1 DEF NoQuiz, MasterRow
<1>3. ToSet(NoQuiz.of) = {}
  BY <1>1, <1>2 DEF ToSet
<1> QED
  BY <1>1, <1>2, <1>3, QuizAssumption DEF WeekFits

LEMMA QuizInitGood == QuizInit => QuizGood
<1> SUFFICES ASSUME QuizInit PROVE QuizGood
  OBVIOUS
<1> USE QuizAssumption DEF QuizInit
<1>1. /\ finished \in Seq(FinishedRow) /\ Len(finished) = 0 /\ quizzes \in Seq(QuizRow)
      /\ Len(quizzes) = 0 /\ passed \in Seq(1 .. Len(quizzes))
  OBVIOUS
<1>2. ByDay(finished)
  BY <1>1 DEF ByDay
<1>3. prize \in [for: {0} \cup 1 .. Len(quizzes), shown: 0 .. 1] /\ prize.for = 0 /\ prize.shown = 0
  BY DEF NoPrize
<1>4. quizmasters \in [Quizmasters -> MasterRow] /\ \A m \in Quizmasters : WeekFits(quizmasters[m])
  BY NoQuizFits
<1> QED
  BY <1>1, <1>2, <1>3, <1>4 DEF QuizGood

\* What a request chooses is of one week, and serves goals if anything does.
LEMMA ChosenFits ==
  ASSUME QuizGood, Chosen # <<>>
  PROVE  LET made == [of |-> Chosen, aims |-> aims, aside |-> ToSet(Recent) \ ToSet(Chosen)]
         IN made \in MasterRow /\ WeekFits(made)
<1> DEFINE made == [of |-> Chosen, aims |-> aims, aside |-> ToSet(Recent) \ ToSet(Chosen)]
           Serves(f) == AimsOf[f.paper] \cap aims # {}
           goals == ForGoals(Recent)
           P == {k \in DOMAIN finished : finished[k].day >= today - Fresh}
           Q == {k \in DOMAIN Recent : AimsOf[Recent[k].paper] \cap aims # {}}
<1>0. /\ finished \in Seq(FinishedRow) /\ ByDay(finished) /\ aims \in SUBSET Aims
      /\ \A k \in 1 .. Len(finished) : finished[k].day <= today /\ finished[k].day \in Int
      /\ today \in Int /\ Fresh \in Nat /\ DOMAIN finished = 1 .. Len(finished)
  <2>1. /\ finished \in Seq(FinishedRow) /\ ByDay(finished) /\ aims \in SUBSET Aims
        /\ \A k \in 1 .. Len(finished) : finished[k].day <= today
        /\ today \in 0 .. MaxToday
    BY DEF QuizGood
  <2>2. \A k \in 1 .. Len(finished) : finished[k] \in FinishedRow
    BY <2>1
  <2>3. \A k \in 1 .. Len(finished) : finished[k].day \in Int
    BY <2>2, QuizAssumption DEF FinishedRow
  <2> QED
    BY <2>1, <2>3, QuizAssumption
<1>1. /\ Recent \in Seq(FinishedRow) /\ ByDay(Recent) /\ ToSet(Recent) = {finished[k] : k \in P}
  <2>1. P \in SUBSET (DOMAIN finished)
    OBVIOUS
  <2> HIDE DEF P
  <2>2. Recent = AtPlaces(finished, P)
    BY DEF Recent, P
  <2> QED
    BY <1>0, <2>1, <2>2, SelectedDays
<1>2. \A f \in ToSet(Recent) : f.day \in Int /\ f.day <= today /\ f.day >= today - Fresh
  BY <1>0, <1>1
<1>3. goals \in Seq(FinishedRow) /\ ByDay(goals) /\ ToSet(goals) = {Recent[k] : k \in Q}
  <2>1. Q \in SUBSET (DOMAIN Recent)
    OBVIOUS
  <2> HIDE DEF Q
  <2>2. goals = AtPlaces(Recent, Q)
    BY DEF ForGoals, Q
  <2> QED
    BY <1>1, <2>1, <2>2, SelectedDays
<1>4. ToSet(goals) = {f \in ToSet(Recent) : Serves(f)}
  BY <1>3 DEF ToSet
<1> HIDE DEF P, Q, goals
<1>5. goals # <<>> <=> ToSet(goals) # {}
  <2>1. DOMAIN goals = 1 .. Len(goals) /\ Len(goals) \in Nat
    BY <1>3
  <2>2. goals = <<>> => ToSet(goals) = {}
    <3>1. DOMAIN <<>> = 1 .. 0 /\ 1 .. 0 = {}
      OBVIOUS
    <3> QED
      BY <3>1 DEF ToSet
  <2>3. goals # <<>> => Len(goals) # 0
    BY <1>3
  <2>4. Len(goals) # 0 => goals[1] \in ToSet(goals)
    BY <2>1 DEF ToSet
  <2> QED
    BY <2>2, <2>3, <2>4
<1> DEFINE from == IF goals # <<>> THEN goals ELSE Recent
<1>6. Chosen = NewestOf(from)
  BY DEF Chosen, goals
<1>7. from \in Seq(FinishedRow) /\ ByDay(from) /\ ToSet(from) \subseteq ToSet(Recent)
  BY <1>1, <1>3, <1>4
<1>8. /\ \A f, g \in ToSet(from) : Serves(f) <=> Serves(g)
      /\ \A f \in ToSet(Recent) \ ToSet(from), g \in ToSet(from) : Serves(g) /\ ~Serves(f)
  <2>1. CASE goals # <<>>
    BY <1>4, <2>1
  <2>2. CASE goals = <<>>
    BY <1>4, <1>5, <2>2
  <2> QED
    BY <2>1, <2>2
<1> HIDE DEF from
<1>9. /\ Chosen \in Seq(FinishedRow) /\ Len(Chosen) <= MaxChosen
      /\ ToSet(Chosen) \subseteq ToSet(from)
      /\ \A f \in ToSet(from) \ ToSet(Chosen), g \in ToSet(Chosen) :
           f.day <= g.day /\ Len(Chosen) = MaxChosen
  BY <1>6, <1>7, NewestIs
<1>10. ToSet(Recent) \in SUBSET FinishedRow
  BY <1>1 DEF ToSet
<1>11. made \in MasterRow /\ made.of = Chosen /\ made.aims = aims
       /\ made.aside = ToSet(Recent) \ ToSet(Chosen)
  BY <1>0, <1>9, <1>10 DEF MasterRow
<1> HIDE DEF made
<1>12. \A f, g \in ToSet(Chosen) : f.day - g.day <= Fresh /\ (Serves(f) <=> Serves(g))
  BY <1>0, <1>2, <1>7, <1>8, <1>9
<1>13. \A f \in ToSet(Recent) \ ToSet(Chosen), g \in ToSet(Chosen) :
         \/ Serves(g) /\ ~Serves(f)
         \/ Serves(g) = Serves(f) /\ f.day <= g.day /\ Len(Chosen) = MaxChosen
  <2> HIDE DEF Serves
  <2>1. \A f, g \in ToSet(from) : Serves(g) = Serves(f)
    BY <1>8 DEF Serves
  <2> QED
    BY <1>7, <1>8, <1>9, <2>1
<1>14. WeekFits(made)
  BY <1>9, <1>11, <1>12, <1>13 DEF WeekFits
<1> QED
  BY <1>11, <1>14 DEF made

-----------------------------------------------------------------------------
(* Every step                                                              *)

LEMMA ReadsMove ==
  ASSUME QuizGood, UNCHANGED <<guest, quizmasters, quizzes, passed, prize>>,
         today' \in 0 .. MaxToday, aims' \subseteq Aims,
         finished' \in Seq(FinishedRow), Len(finished') <= MaxFinished, ByDay(finished'),
         \A k \in 1 .. Len(finished') : finished'[k].day <= today'
  PROVE  QuizGood'
  BY DEF QuizGood

LEMMA ReadsStep ==
  ASSUME QuizGood,
         \/ DayPasses
         \/ \E a \in Papers : FinishPaper(a) \/ UnfinishPaper(a)
         \/ \E w \in Aims : CreateGoal(w) \/ DeleteGoal(w)
  PROVE  QuizGood'
<1>0. /\ finished \in Seq(FinishedRow) /\ ByDay(finished) /\ aims \subseteq Aims
      /\ \A k \in 1 .. Len(finished) : finished[k].day <= today
      /\ today \in 0 .. MaxToday /\ Len(finished) <= MaxFinished /\ Len(finished) \in Nat
      /\ MaxToday \in Nat /\ MaxFinished \in Nat
  BY QuizAssumption DEF QuizGood
<1>a. \A k \in 1 .. Len(finished) : finished[k].day \in Nat
  <2>1. \A k \in 1 .. Len(finished) : finished[k] \in FinishedRow
    BY <1>0
  <2> QED
    BY <2>1, QuizAssumption DEF FinishedRow
<1>1. CASE DayPasses
  <2>1. today' \in 0 .. MaxToday /\ today <= today' /\ UNCHANGED <<guest, finished, aims, quizmasters, quizzes, passed, prize>>
    BY <1>0, <1>1 DEF DayPasses
  <2>2. \A k \in 1 .. Len(finished) : finished[k].day <= today'
    BY <1>0, <1>a, <2>1
  <2> QED
    BY <1>0, <2>1, <2>2, ReadsMove
<1>2. ASSUME NEW a \in Papers, FinishPaper(a) PROVE QuizGood'
  <2> DEFINE f == [paper |-> a, day |-> today]
  <2>1. /\ finished' = Append(finished, f) /\ Len(finished) < MaxFinished
        /\ UNCHANGED <<guest, today, aims, quizmasters, quizzes, passed, prize>>
    BY <1>2 DEF FinishPaper
  <2>2. f \in FinishedRow /\ f.day = today
    BY <1>0 DEF FinishedRow
  <2> HIDE DEF f
  <2>3. /\ finished' \in Seq(FinishedRow) /\ Len(finished') = Len(finished) + 1
        /\ \A k \in 1 .. Len(finished) : finished'[k] = finished[k]
        /\ finished'[Len(finished) + 1] = f
    BY <1>0, <2>1, <2>2
  <2>4. \A k \in 1 .. Len(finished') : k \in 1 .. Len(finished) \/ k = Len(finished) + 1
    BY <1>0, <2>3
  <2>5. \A k \in 1 .. Len(finished') : finished'[k].day <= today
    BY <1>0, <2>2, <2>3, <2>4
  <2>6. ByDay(finished')
    BY <1>0, <2>2, <2>3, <2>4 DEF ByDay
  <2> QED
    BY <1>0, <2>1, <2>3, <2>5, <2>6, ReadsMove
<1>3. ASSUME NEW a \in Papers, UnfinishPaper(a) PROVE QuizGood'
  <2> DEFINE P == {k \in DOMAIN finished : finished[k].paper # a}
  <2>1. P \in SUBSET (DOMAIN finished) /\ DOMAIN finished = 1 .. Len(finished)
    BY <1>0
  <2>2. finished' = AtPlaces(finished, P)
        /\ UNCHANGED <<guest, today, aims, quizmasters, quizzes, passed, prize>>
    BY <1>3 DEF UnfinishPaper
  <2> HIDE DEF P
  <2>3. /\ finished' \in Seq(FinishedRow) /\ Len(finished') <= Len(finished)
        /\ ByDay(finished') /\ ToSet(finished') = {finished[k] : k \in P}
    BY <1>0, <2>1, <2>2, SelectedDays
  <2>4. \A k \in 1 .. Len(finished') : finished'[k] \in ToSet(finished') /\ Len(finished') \in Nat
    BY <2>3 DEF ToSet
  <2>5. \A k \in 1 .. Len(finished') : finished'[k].day <= today
    BY <1>0, <2>1, <2>3, <2>4
  <2>6. Len(finished') <= MaxFinished
    BY <1>0, <2>3
  <2> QED
    BY <1>0, <2>2, <2>3, <2>5, <2>6, ReadsMove
<1>4. ASSUME NEW w \in Aims, CreateGoal(w) \/ DeleteGoal(w) PROVE QuizGood'
  <2>1. aims' \subseteq Aims /\ UNCHANGED <<guest, today, finished, quizmasters, quizzes, passed, prize>>
    BY <1>0, <1>4 DEF CreateGoal, DeleteGoal
  <2> QED
    BY <1>0, <2>1, ReadsMove
<1> QED
  BY <1>1, <1>2, <1>3, <1>4

LEMMA MastersStep ==
  ASSUME QuizGood, NEW m \in Quizmasters,
         \/ AskForQuiz(m) \/ LoseQuiz(m) \/ \E r \in Replies : KeepQuiz(m, r)
  PROVE  QuizGood'
<1>0. quizmasters \in [Quizmasters -> MasterRow] /\ \A x \in Quizmasters : WeekFits(quizmasters[x])
  BY DEF QuizGood
<1>1. ASSUME NEW made \in MasterRow, WeekFits(made), quizmasters' = [quizmasters EXCEPT ![m] = made]
      PROVE  quizmasters' \in [Quizmasters -> MasterRow] /\ \A x \in Quizmasters : WeekFits(quizmasters'[x])
  BY <1>0, <1>1
<1>2. CASE AskForQuiz(m)
  <2> DEFINE made == [of |-> Chosen, aims |-> aims, aside |-> ToSet(Recent) \ ToSet(Chosen)]
  <2>1. Chosen # <<>> /\ quizmasters' = [quizmasters EXCEPT ![m] = made]
        /\ UNCHANGED <<guest, today, finished, aims, quizzes, passed, prize>>
    BY <1>2 DEF AskForQuiz
  <2>2. made \in MasterRow /\ WeekFits(made)
    BY <2>1, ChosenFits
  <2> HIDE DEF made
  <2>3. quizmasters' \in [Quizmasters -> MasterRow] /\ \A x \in Quizmasters : WeekFits(quizmasters'[x])
    BY <1>1, <2>1, <2>2
  <2> QED
    BY <2>1, <2>3 DEF QuizGood
<1>3. CASE LoseQuiz(m)
  <2>1. quizmasters' = [quizmasters EXCEPT ![m] = NoQuiz]
        /\ UNCHANGED <<guest, today, finished, aims, quizzes, passed, prize>>
    BY <1>3 DEF LoseQuiz
  <2>2. quizmasters' \in [Quizmasters -> MasterRow] /\ \A x \in Quizmasters : WeekFits(quizmasters'[x])
    BY <1>1, <2>1, NoQuizFits
  <2> QED
    BY <2>1, <2>2 DEF QuizGood
<1>4. ASSUME NEW r \in Replies, KeepQuiz(m, r) PROVE QuizGood'
  <2>1. /\ quizmasters' = [quizmasters EXCEPT ![m] = NoQuiz] /\ Len(quizzes) < MaxQuizzes
        /\ UNCHANGED <<guest, today, finished, aims, passed, prize>>
        /\ quizzes' = IF Parsed(r) = <<>> THEN quizzes
                     ELSE Append(quizzes, [questions |-> Parsed(r), score |-> -1, said |-> <<>>])
    BY <1>4 DEF KeepQuiz
  <2>2. quizmasters' \in [Quizmasters -> MasterRow] /\ \A x \in Quizmasters : WeekFits(quizmasters'[x])
    BY <1>1, <2>1, NoQuizFits
  <2>3. CASE Parsed(r) = <<>>
    BY <2>1, <2>2, <2>3 DEF QuizGood
  <2>4. CASE Parsed(r) # <<>>
    <3> DEFINE q == [questions |-> Parsed(r), score |-> -1, said |-> <<>>]
    <3>1. Parsed(r) \in Seq(Question)
      <4> DEFINE P == {k \in DOMAIN r : r[k].form = "good"}
      <4>1. Parsed(r) = AtPlaces(r, P)
        BY <2>4 DEF Parsed
      <4>2. r \in Seq(Question) /\ P \in SUBSET (DOMAIN r)
        BY QuizAssumption DEF Question
      <4> HIDE DEF P
      <4> QED
        BY <4>1, <4>2, AtPlacesIs
    <3>2. q \in QuizRow /\ q.questions = Parsed(r) /\ q.score = -1
      BY <3>1 DEF QuizRow
    <3>3. ScoreFits(q)
      BY <2>4, <3>2 DEF ScoreFits
    <3>4. quizzes' = Append(quizzes, q)
      BY <2>1, <2>4
    <3> HIDE DEF q
    <3>5. quizzes \in Seq(QuizRow) /\ Len(quizzes) \in Nat /\ MaxQuizzes \in Nat
      BY QuizAssumption DEF QuizGood
    <3>6. /\ quizzes' \in Seq(QuizRow) /\ Len(quizzes') = Len(quizzes) + 1
          /\ \A i \in 1 .. Len(quizzes) : quizzes'[i] = quizzes[i]
          /\ quizzes'[Len(quizzes) + 1] = q
      BY <3>2, <3>4, <3>5
    <3>7. \A i \in 1 .. Len(quizzes') : i \in 1 .. Len(quizzes) \/ i = Len(quizzes) + 1
      BY <3>5, <3>6
    <3>8. \A i \in 1 .. Len(quizzes') : ScoreFits(quizzes'[i])
      BY <3>3, <3>6, <3>7 DEF QuizGood
    <3>9. 1 .. Len(quizzes) \subseteq 1 .. Len(quizzes') /\ Len(quizzes') <= MaxQuizzes
      BY <2>1, <3>5, <3>6
    <3>10. passed \in Seq(1 .. Len(quizzes')) /\ prize \in [for: {0} \cup 1 .. Len(quizzes'), shown: 0 .. 1]
      <4>1. passed \in Seq(1 .. Len(quizzes)) /\ prize \in [for: {0} \cup 1 .. Len(quizzes), shown: 0 .. 1]
        BY DEF QuizGood
      <4>2. \A k \in 1 .. Len(passed) : passed[k] \in 1 .. Len(quizzes')
        BY <3>9, <4>1
      <4>3. passed \in Seq(1 .. Len(quizzes'))
        BY <4>1, <4>2
      <4> QED
        BY <3>9, <4>1, <4>3
    <3> QED
      BY <2>1, <2>2, <3>6, <3>8, <3>9, <3>10 DEF QuizGood
  <2> QED
    BY <2>3, <2>4
<1> QED
  BY <1>2, <1>3, <1>4

\* An answer counts the right ones of what it says.
LEMMA SubmissionFits ==
  ASSUME QuizGood, NEW i \in 1 .. Len(quizzes), NEW t \in Tries
  PROVE  LET said == [k \in DOMAIN quizzes[i].questions |-> IF k \in DOMAIN t THEN <<t[k]>> ELSE <<>>]
             q == [quizzes[i] EXCEPT !.score = Cardinality(Right(i, t)), !.said = said]
         IN q \in QuizRow /\ ScoreFits(q) /\ Cardinality(Right(i, t)) \in Nat
<1> DEFINE row == quizzes[i]
           asked == row.questions
           n == Len(asked)
           said == [k \in DOMAIN asked |-> IF k \in DOMAIN t THEN <<t[k]>> ELSE <<>>]
           score == Cardinality(Right(i, t))
           q == [row EXCEPT !.score = score, !.said = said]
<1>1. row \in QuizRow /\ ScoreFits(row)
  BY DEF QuizGood
<1>2. asked \in Seq(Question) /\ asked # <<>> /\ n \in Nat /\ DOMAIN asked = 1 .. n
      /\ \A k \in 1 .. n : asked[k].right \in Int
  <2>1. asked \in Seq(Question) /\ asked # <<>>
    BY <1>1 DEF QuizRow, ScoreFits
  <2>2. \A k \in 1 .. Len(asked) : asked[k] \in Question
    BY <2>1
  <2> QED
    BY <2>1, <2>2 DEF Question
<1>3. t \in Seq(Int)
  BY QuizAssumption
<1> HIDE DEF asked
<1>4. Right(i, t) = {k \in DOMAIN asked : k \in DOMAIN t /\ t[k] = asked[k].right}
  BY DEF Right, asked
<1>5. Right(i, t) \subseteq 1 .. n
  BY <1>2, <1>4
<1>6. score \in Nat
  <2>1. 1 \in Int /\ n \in Int
    BY <1>2
  <2>2. IsFiniteSet(1 .. n)
    BY <2>1, FS_Interval, Zenon
  <2>3. IsFiniteSet(Right(i, t))
    BY <1>5, <2>2, FS_Subset
  <2> QED
    BY <2>3, FS_CardinalityType
<1>7. /\ \A k \in 1 .. n : said[k] = IF k \in DOMAIN t THEN <<t[k]>> ELSE <<>>
      /\ DOMAIN said = 1 .. n
  BY <1>2
<1> HIDE DEF said
<1>8. \A k \in 1 .. n : said[k] \in Seq(Int)
  <2> TAKE k \in 1 .. n
  <2>1. CASE k \in DOMAIN t
    <3>1. t[k] \in Int
      BY <1>3, <2>1
    <3>2. <<t[k]>> \in Seq(Int)
      BY <3>1
    <3> QED
      BY <1>7, <2>1, <3>2
  <2>2. CASE k \notin DOMAIN t
    <3>1. <<>> \in Seq(Int)
      OBVIOUS
    <3> QED
      BY <1>7, <2>2, <3>1
  <2> QED
    BY <2>1, <2>2
<1>9. said \in Seq(Seq(Int))
  <2> DEFINE T == Seq(Int)
  <2>1. \A k \in 1 .. n : said[k] \in T
    BY <1>8
  <2>2. said = [k \in 1 .. n |-> said[k]]
    BY <1>7 DEF said
  <2> HIDE DEF T
  <2>3. [k \in 1 .. n |-> said[k]] \in Seq(T)
    BY <1>2, <2>1
  <2> QED
    BY <2>2, <2>3 DEF T
<1>10. \A k \in 1 .. n : (k \in DOMAIN t /\ t[k] = asked[k].right) <=> said[k] = <<asked[k].right>>
  <2> TAKE k \in 1 .. n
  <2>1. CASE k \in DOMAIN t
    <3> DEFINE x == t[k]
               y == asked[k].right
    <3>1. <<x>> = <<y>> <=> x = y
      OBVIOUS
    <3> QED
      BY <1>7, <2>1, <3>1
  <2>2. CASE k \notin DOMAIN t
    <3> DEFINE y == asked[k].right
    <3>1. <<>> # <<y>>
      OBVIOUS
    <3> QED
      BY <1>7, <2>2, <3>1
  <2> QED
    BY <2>1, <2>2
<1>11. Right(i, t) = {k \in DOMAIN said : said[k] = <<asked[k].right>>}
  BY <1>2, <1>4, <1>7, <1>10
<1>12. q \in QuizRow /\ q.questions = asked /\ q.said = said /\ q.score = score
  <2> HIDE DEF score, row
  <2>1. [row EXCEPT !.score = score] \in QuizRow /\ [row EXCEPT !.score = score].questions = asked
        /\ [row EXCEPT !.score = score].score = score
    BY <1>1, <1>6 DEF QuizRow, asked
  <2>2. PICK q1 \in QuizRow : q1 = [row EXCEPT !.score = score]
    BY <2>1
  <2>3. q = [q1 EXCEPT !.said = said]
    BY <2>2
  <2>4. [q1 EXCEPT !.said = said] \in QuizRow /\ [q1 EXCEPT !.said = said].questions = q1.questions
        /\ [q1 EXCEPT !.said = said].said = said /\ [q1 EXCEPT !.said = said].score = q1.score
    BY <1>9 DEF QuizRow
  <2> QED
    BY <2>1, <2>2, <2>3, <2>4
<1>13. ScoreFits(q)
  <2> HIDE DEF q
  <2> QED
    BY <1>2, <1>7, <1>11, <1>12 DEF ScoreFits, score
<1> QED
  BY <1>6, <1>12, <1>13 DEF q, row, asked, said

LEMMA SubmitStep ==
  ASSUME QuizGood, NEW i \in Posed, NEW t \in Tries, SubmitQuiz(i, t)
  PROVE  QuizGood'
<1> DEFINE said == [k \in DOMAIN quizzes[i].questions |-> IF k \in DOMAIN t THEN <<t[k]>> ELSE <<>>]
           score == Cardinality(Right(i, t))
           n == Len(quizzes)
<1>0. /\ quizzes \in Seq(QuizRow) /\ n \in Nat /\ i \in 1 .. n /\ Len(quizzes) <= MaxQuizzes
      /\ \A k \in 1 .. n : ScoreFits(quizzes[k])
      /\ passed \in Seq(1 .. n) /\ prize \in [for: {0} \cup 1 .. n, shown: 0 .. 1]
      /\ prize.for = IF guest \/ passed = <<>> THEN 0 ELSE passed[1]
      /\ prize.shown = 1 => prize.for # 0
  BY DEF QuizGood, Posed
<1> DEFINE q1 == [quizzes[i] EXCEPT !.score = score, !.said = said]
<1>1. q1 \in QuizRow /\ ScoreFits(q1) /\ score \in Nat
  BY <1>0, SubmissionFits, Zenon
<1>2. PICK q \in QuizRow : q = q1 /\ ScoreFits(q)
  BY <1>1
<1>3. quizzes' = [quizzes EXCEPT ![i] = q]
  <2>1. quizzes' = [quizzes EXCEPT ![i] = q1]
    BY DEF SubmitQuiz
  <2> QED
    BY <1>2, <2>1, Zenon
<1>4. /\ prize' = IF score > 0 /\ ~guest THEN Award(i) ELSE prize
      /\ passed' = IF score > 0 /\ ~Contains(passed, i) THEN Append(passed, i) ELSE passed
      /\ UNCHANGED <<guest, today, finished, aims, quizmasters>>
  BY DEF SubmitQuiz
<1> HIDE DEF score, said, q1
<1>5. /\ quizzes' \in Seq(QuizRow) /\ Len(quizzes') = n
      /\ \A k \in 1 .. n : quizzes'[k] = IF k = i THEN q ELSE quizzes[k]
  BY <1>0, <1>3
<1>6. \A k \in 1 .. Len(quizzes') : ScoreFits(quizzes'[k])
  BY <1>0, <1>2, <1>5
<1>7. /\ passed' \in Seq(1 .. n)
      /\ passed' # passed => score > 0 /\ passed' = Append(passed, i)
      /\ score > 0 => passed' # <<>>
      /\ passed # <<>> => passed' # <<>> /\ passed'[1] = passed[1]
      /\ passed = <<>> /\ score > 0 => passed'[1] = i
      /\ score <= 0 => passed' = passed
  <2> DEFINE S == 1 .. n
  <2>0. passed \in Seq(S) /\ i \in S
    BY <1>0
  <2> HIDE DEF S
  <2>1. Append(passed, i) \in Seq(S) /\ Append(passed, i) # <<>>
        /\ passed # <<>> => Append(passed, i)[1] = passed[1]
    BY <2>0
  <2>2. Append(<<>>, i)[1] = i
    OBVIOUS
  <2>3. Contains(passed, i) => passed # <<>>
    BY DEF Contains
  <2>4. ~Contains(<<>>, i)
    BY DEF Contains
  <2>5. passed' \in Seq(S)
    BY <1>4, <2>0, <2>1
  <2> QED
    <3>1. CASE score > 0 /\ ~Contains(passed, i)
      <4>1. passed' = Append(passed, i)
        BY <1>4, <3>1
      <4>2. passed = <<>> => passed'[1] = i
        BY <2>2, <4>1
      <4> QED
        BY <1>1, <2>1, <2>5, <3>1, <4>1, <4>2 DEF S
    <3>2. CASE ~(score > 0 /\ ~Contains(passed, i))
      <4>1. passed' = passed
        BY <1>4, <3>2
      <4>2. score > 0 => passed # <<>>
        BY <2>3, <3>2
      <4> QED
        BY <1>1, <2>5, <4>1, <4>2 DEF S
    <3> QED
      BY <3>1, <3>2
<1>8. prize' \in [for: {0} \cup 1 .. n, shown: 0 .. 1] /\ (prize'.shown = 1 => prize'.for # 0)
      /\ prize'.for = IF guest \/ passed' = <<>> THEN 0 ELSE passed'[1]
  <2>1. CASE score > 0 /\ ~guest
    <3>1. prize' = IF prize = NoPrize THEN [prize EXCEPT !.for = i] ELSE prize
      BY <1>4, <2>1 DEF Award
    <3>2. prize = NoPrize <=> passed = <<>>
      <4>1. prize = [for |-> prize.for, shown |-> prize.shown] /\ prize.shown \in 0 .. 1
        BY <1>0
      <4>2. passed # <<>> => passed[1] \in 1 .. n
        BY <1>0
      <4> QED
        BY <1>0, <2>1, <4>1, <4>2 DEF NoPrize
    <3>3. CASE passed = <<>>
      BY <1>0, <1>7, <2>1, <3>1, <3>2, <3>3
    <3>4. CASE passed # <<>>
      BY <1>0, <1>7, <2>1, <3>1, <3>2, <3>4
    <3> QED
      BY <3>3, <3>4
  <2>2. CASE ~(score > 0 /\ ~guest)
    <3>1. prize' = prize
      BY <1>4, <2>2
    <3>2. guest \/ passed' = passed
      BY <1>1, <1>7, <2>2
    <3> QED
      BY <1>0, <3>1, <3>2
  <2> QED
    BY <2>1, <2>2
<1> HIDE DEF n
<1>9. guest' \in BOOLEAN /\ today' \in 0 .. MaxToday /\ aims' \subseteq Aims
      /\ finished' \in Seq(FinishedRow) /\ Len(finished') <= MaxFinished /\ ByDay(finished')
      /\ \A k \in 1 .. Len(finished') : finished'[k].day <= today'
      /\ quizmasters' \in [Quizmasters -> MasterRow] /\ \A m \in Quizmasters : WeekFits(quizmasters'[m])
  BY <1>4 DEF QuizGood
<1>10. Len(quizzes') <= MaxQuizzes /\ passed' \in Seq(1 .. Len(quizzes'))
      /\ prize' \in [for: {0} \cup 1 .. Len(quizzes'), shown: 0 .. 1]
      /\ prize'.for = IF guest' \/ passed' = <<>> THEN 0 ELSE passed'[1]
  BY <1>0, <1>4, <1>5, <1>7, <1>8 DEF n
<1> QED
  <2>1. quizzes' \in Seq(QuizRow) /\ (prize'.shown = 1 => prize'.for # 0)
    BY <1>5, <1>8
  <2> HIDE DEF FinishedRow, QuizRow, MasterRow
  <2> QED
    <3>1. (guest \in BOOLEAN /\ today \in 0 .. MaxToday /\ aims \subseteq Aims)'
      BY <1>9
    <3>2. (finished \in Seq(FinishedRow) /\ Len(finished) <= MaxFinished /\ ByDay(finished))'
      BY <1>9
    <3>3. (\A k \in 1 .. Len(finished) : finished[k].day <= today)'
      BY <1>9
    <3>4. (quizmasters \in [Quizmasters -> MasterRow] /\ \A m \in Quizmasters : WeekFits(quizmasters[m]))'
      BY <1>4 DEF QuizGood
    <3>5. (quizzes \in Seq(QuizRow) /\ Len(quizzes) <= MaxQuizzes)'
      BY <1>10, <2>1
    <3>6. (\A k \in 1 .. Len(quizzes) : ScoreFits(quizzes[k]))'
      BY <1>6
    <3>7. (passed \in Seq(1 .. Len(quizzes)))'
      BY <1>10
    <3>8. (prize \in [for: {0} \cup 1 .. Len(quizzes), shown: 0 .. 1])'
      BY <1>10
    <3>9. (prize.for = IF guest \/ passed = <<>> THEN 0 ELSE passed[1])'
      BY <1>10
    <3>10. (prize.shown = 1 => prize.for # 0)'
      BY <2>1
    <3> QED
      BY <3>1, <3>2, <3>3, <3>4, <3>5, <3>6, <3>7, <3>8, <3>9, <3>10 DEF QuizGood

LEMMA QuizStepGood == QuizGood /\ [QuizNext]_quizVars => QuizGood'
<1> SUFFICES ASSUME QuizGood, [QuizNext]_quizVars PROVE QuizGood'
  OBVIOUS
<1>1. CASE UNCHANGED quizVars
  BY <1>1 DEF quizVars, QuizGood
<1>2. CASE ClaimReward
  <2>1. /\ prize.for # 0 /\ prize' = [prize EXCEPT !.shown = 1]
        /\ UNCHANGED <<guest, today, finished, aims, quizmasters, quizzes, passed>>
    BY <1>2 DEF ClaimReward
  <2>2. prize \in [for: {0} \cup 1 .. Len(quizzes), shown: 0 .. 1]
    BY DEF QuizGood
  <2>3. prize' \in [for: {0} \cup 1 .. Len(quizzes), shown: 0 .. 1] /\ prize'.for = prize.for
    BY <2>1, <2>2
  <2> QED
    BY <2>1, <2>3 DEF QuizGood
<1>3. CASE \/ DayPasses
           \/ \E a \in Papers : FinishPaper(a) \/ UnfinishPaper(a)
           \/ \E w \in Aims : CreateGoal(w) \/ DeleteGoal(w)
  BY <1>3, ReadsStep
<1>4. CASE \E m \in Quizmasters : AskForQuiz(m) \/ LoseQuiz(m) \/ \E r \in Replies : KeepQuiz(m, r)
  BY <1>4, MastersStep
<1>5. CASE \E i \in Posed, t \in Tries : SubmitQuiz(i, t)
  BY <1>5, SubmitStep
<1> QED
  BY <1>1, <1>2, <1>3, <1>4, <1>5 DEF QuizNext

LEMMA QuizParts == QuizGood => QuizTypeOK /\ QuizInv
<1> SUFFICES ASSUME QuizGood PROVE QuizTypeOK /\ QuizInv
  OBVIOUS
<1>1. /\ guest \in BOOLEAN /\ today \in 0 .. MaxToday /\ aims \subseteq Aims
      /\ finished \in Seq(FinishedRow) /\ Len(finished) <= MaxFinished
      /\ quizmasters \in [Quizmasters -> MasterRow] /\ \A m \in Quizmasters : WeekFits(quizmasters[m])
      /\ quizzes \in Seq(QuizRow) /\ Len(quizzes) <= MaxQuizzes
      /\ \A i \in 1 .. Len(quizzes) : ScoreFits(quizzes[i])
      /\ prize \in [for: {0} \cup 1 .. Len(quizzes), shown: 0 .. 1]
      /\ prize.for = IF guest \/ passed = <<>> THEN 0 ELSE passed[1]
      /\ prize.shown = 1 => prize.for # 0
  BY DEF QuizGood
<1>2. QuizTypeOK
  <2>1. \A k \in DOMAIN finished : finished[k] \in FinishedRow
    BY <1>1
  <2>2. \A k \in DOMAIN finished : finished[k].paper \in Papers /\ finished[k].day \in 0 .. MaxToday
    BY <2>1 DEF FinishedRow
  <2>3. \A m \in Quizmasters : Len(quizmasters[m].of) <= MaxChosen /\ quizmasters[m].aims \subseteq Aims
    BY <1>1 DEF WeekFits, MasterRow
  <2>4. prize.for \in Posed \cup {0} /\ prize.shown \in 0 .. 1
    BY <1>1 DEF Posed
  <2> QED
    BY <1>1, <2>2, <2>3, <2>4 DEF QuizTypeOK
<1>3. QuizIsOfOneWeek
  BY <1>1 DEF WeekFits, QuizIsOfOneWeek
<1>4. ResultIsOfAnswers
  BY <1>1 DEF ScoreFits, ResultIsOfAnswers, Posed, Completed
<1>5. RewardIsOfFirstPass
  BY <1>1 DEF RewardIsOfFirstPass
<1> QED
  BY <1>2, <1>3, <1>4, <1>5 DEF QuizInv

\* A quiz is of one week's reads, and best of them; its result is that of the last
\* answers; the reward is of the first quiz passed (services.quiz, quizzes/service.py).
THEOREM QuizIsTrue == QuizSpec => []QuizInv
<1>1. QuizInit => QuizGood
  BY QuizInitGood
<1>2. QuizGood /\ [QuizNext]_quizVars => QuizGood'
  BY QuizStepGood
<1>3. QuizGood => QuizInv
  BY QuizParts
<1> QED
  BY <1>1, <1>2, <1>3, PTL DEF QuizSpec

(***************************************************************************)
(* The surfaces                                                            *)
(***************************************************************************)

\* An article that the reader has a row of is stored.
SurfacesGood == SurfacesTypeOK /\ \A a \in Articles : place[a] # "none" => a \in Stored

\* The articles are numbers, and finitely many.
LEMMA ArticlesAreNumbers ==
  /\ Cardinality(Articles) \in Nat /\ Articles = 1 .. Cardinality(Articles) /\ IsFiniteSet(Articles)
  /\ Articles \subseteq Nat
<1>1. IsFiniteSet(Articles) /\ Articles = 1 .. Cardinality(Articles)
  BY SurfacesAssumption
<1>2. Cardinality(Articles) \in Nat
  BY <1>1, FS_CardinalityType
<1>3. 1 .. Cardinality(Articles) \subseteq Nat
  BY <1>2
<1> QED
  BY <1>1, <1>2, <1>3

LEMMA StoredAreArticles ==
  ASSUME newest \in 0 .. Cardinality(Articles)
  PROVE  Stored \subseteq Articles /\ newest \in Nat
<1>1. 1 .. newest \subseteq 1 .. Cardinality(Articles) /\ newest \in Nat
  BY ArticlesAreNumbers
<1> QED
  BY <1>1, ArticlesAreNumbers DEF Stored

LEMMA SurfacesInitGood == SurfacesInit => SurfacesGood
<1> SUFFICES ASSUME SurfacesInit PROVE SurfacesGood
  OBVIOUS
<1>1. Stored = {} /\ newest \in 0 .. Cardinality(Articles) /\ acts \in 0 .. MaxActs
  BY ArticlesAreNumbers, SurfacesAssumption DEF SurfacesInit, Stored
<1>2. \A a \in Articles : place[a] = "none"
  BY DEF SurfacesInit
<1>3. canonical \in [Articles -> {0} \cup Articles] /\ place \in [Articles -> Lists \cup {"none"}]
  BY DEF SurfacesInit, Lists
<1> QED
  BY <1>1, <1>2, <1>3 DEF SurfacesInit, SurfacesGood, SurfacesTypeOK

\* What the reader does with the places of articles.
LEMMA PlacesMove ==
  ASSUME SurfacesGood, NEW a \in Stored, NEW l \in Lists, NEW stars \in SUBSET (starred \cup {a}),
         newest' = newest, acts' \in 0 .. MaxActs, place' = [place EXCEPT ![a] = l],
         returned' = returned \ {a}, starred' = stars,
         UNCHANGED <<canonical, merged, wanted, enabled, removed, embedded, scored>>
  PROVE  SurfacesGood'
<1>1. /\ newest \in 0 .. Cardinality(Articles) /\ place \in [Articles -> Lists \cup {"none"}]
      /\ starred \subseteq {b \in Stored : place[b] # "none"}
      /\ returned \subseteq {b \in Stored : place[b] = "later"}
      /\ \A b \in Articles : place[b] # "none" => b \in Stored
  BY DEF SurfacesGood, SurfacesTypeOK
<1>2. Stored' = Stored /\ Stored \subseteq Articles /\ a \in Articles
  BY <1>1, StoredAreArticles DEF Stored
<1>3. l # "none"
  BY DEF Lists
<1>4. /\ place' \in [Articles -> Lists \cup {"none"}] /\ place'[a] = l
      /\ \A b \in Articles : b # a => place'[b] = place[b]
  BY <1>1, <1>2
<1>5. /\ starred' \subseteq {b \in Stored : place'[b] # "none"}
      /\ returned' \subseteq {b \in Stored : place'[b] = "later"}
      /\ \A b \in Articles : place'[b] # "none" => b \in Stored
  BY <1>1, <1>2, <1>3, <1>4
<1> QED
  BY <1>1, <1>2, <1>4, <1>5 DEF SurfacesGood, SurfacesTypeOK

LEMMA RepetitionsStep ==
  ASSUME SurfacesGood, NEW a \in Articles, NEW c \in Articles, Merge(a, c)
  PROVE  SurfacesGood'
<1>1. /\ newest \in 0 .. Cardinality(Articles) /\ canonical \in [Articles -> {0} \cup Articles]
      /\ \A b \in Stored : canonical[b] < b
      /\ merged \subseteq {b \in Stored : canonical[b] # 0} /\ embedded \cup scored \subseteq Stored
  BY DEF SurfacesGood, SurfacesTypeOK
<1>2. /\ a \in embedded /\ c \in embedded /\ c < a /\ canonical' = [canonical EXCEPT ![a] = c]
      /\ merged' = merged \cup {a}
      /\ UNCHANGED <<newest, others, embedded, scored, acts>>
  BY DEF Merge
<1>3. Stored' = Stored /\ a \in Stored /\ c \in Stored /\ c # 0
  BY <1>1, <1>2, StoredAreArticles DEF Stored
<1>4. /\ canonical' \in [Articles -> {0} \cup Articles] /\ canonical'[a] = c
      /\ \A b \in Articles : b # a => canonical'[b] = canonical[b]
  BY <1>1, <1>2
<1>5. Stored \subseteq Articles
  BY <1>1, StoredAreArticles
<1>6. \A b \in Stored : canonical'[b] < b
  BY <1>1, <1>2, <1>4, <1>5
<1>7. merged' \subseteq {b \in Stored : canonical'[b] # 0}
  BY <1>1, <1>2, <1>3, <1>4, <1>5
<1> QED
  BY <1>1, <1>2, <1>3, <1>4, <1>6, <1>7 DEF SurfacesGood, SurfacesTypeOK, others

LEMMA FindStep ==
  ASSUME SurfacesGood, Find
  PROVE  SurfacesGood'
<1> DEFINE n == newest + 1
<1>1. /\ newest \in 0 .. Cardinality(Articles) /\ canonical \in [Articles -> {0} \cup Articles]
      /\ \A b \in Stored : canonical[b] < b
      /\ merged \subseteq {b \in Stored : canonical[b] # 0} /\ embedded \cup scored \subseteq Stored
      /\ starred \subseteq {b \in Stored : place[b] # "none"}
      /\ returned \subseteq {b \in Stored : place[b] = "later"}
      /\ \A b \in Articles : place[b] # "none" => b \in Stored
  BY DEF SurfacesGood, SurfacesTypeOK
<1>2. /\ newest < Cardinality(Articles) /\ newest' = n
      /\ UNCHANGED <<merged, others, embedded, scored, acts>>
  BY DEF Find
<1>3. PICK c \in {0} \cup Stored : canonical' = [canonical EXCEPT ![n] = c]
  BY DEF Find
<1>4. /\ n \in Articles /\ newest' \in 0 .. Cardinality(Articles) /\ Stored' = Stored \cup {n}
      /\ n \notin Stored /\ c < n /\ Stored \subseteq Articles
  <2>1. newest \in Nat /\ Cardinality(Articles) \in Nat /\ Articles = 1 .. Cardinality(Articles)
    BY <1>1, ArticlesAreNumbers
  <2>2. 1 .. newest + 1 = (1 .. newest) \cup {newest + 1}
    BY <2>1
  <2>3. Stored = 1 .. newest /\ Stored' = 1 .. newest'
    BY DEF Stored
  <2>4. n \in Articles /\ newest' \in 0 .. Cardinality(Articles) /\ n \notin 1 .. newest
    BY <1>2, <2>1
  <2>5. c < n
    BY <2>1, <2>3
  <2> QED
    BY <1>1, <1>2, <2>2, <2>3, <2>4, <2>5, StoredAreArticles
<1> HIDE DEF n
<1>5. /\ canonical' \in [Articles -> {0} \cup Articles] /\ canonical'[n] = c
      /\ \A b \in Articles : b # n => canonical'[b] = canonical[b]
  BY <1>1, <1>3, <1>4
<1>6. \A b \in Stored' : canonical'[b] < b
  BY <1>1, <1>4, <1>5
<1>7. merged' \subseteq {b \in Stored' : canonical'[b] # 0}
  BY <1>1, <1>2, <1>4, <1>5
<1>8. /\ starred' \subseteq {b \in Stored' : place'[b] # "none"}
      /\ returned' \subseteq {b \in Stored' : place'[b] = "later"}
      /\ \A b \in Articles : place'[b] # "none" => b \in Stored'
      /\ embedded' \cup scored' \subseteq Stored'
  BY <1>1, <1>2, <1>4 DEF others
<1> QED
  BY <1>2, <1>4, <1>5, <1>6, <1>7, <1>8 DEF SurfacesGood, SurfacesTypeOK, others

LEMMA SurfacesStepGood == SurfacesGood /\ [SurfacesNext]_surfacesVars => SurfacesGood'
<1> SUFFICES ASSUME SurfacesGood, [SurfacesNext]_surfacesVars PROVE SurfacesGood'
  OBVIOUS
<1>0. /\ newest \in 0 .. Cardinality(Articles) /\ acts \in 0 .. MaxActs /\ MaxActs \in Nat
      /\ place \in [Articles -> Lists \cup {"none"}] /\ Stored \subseteq Articles
      /\ embedded \cup scored \subseteq Stored
      /\ \A a \in Articles : place[a] # "none" => a \in Stored
  BY StoredAreArticles, SurfacesAssumption DEF SurfacesGood, SurfacesTypeOK
<1>a. Act => acts' \in 0 .. MaxActs
  BY <1>0 DEF Act
<1>b. \A a \in Articles : PlaceOf(a) \in Lists
  BY <1>0 DEF PlaceOf, Lists
<1>1. CASE UNCHANGED surfacesVars
  BY <1>1 DEF surfacesVars, SurfacesGood, SurfacesTypeOK, Stored
<1>2. CASE Find
  BY <1>2, FindStep
<1>3. CASE Recompute
  <2>1. /\ Act /\ scored' = scored \cup NewestCandidates
        /\ UNCHANGED <<newest, canonical, merged, others, embedded>>
    BY <1>3 DEF Recompute
  <2>2. NewestCandidates \subseteq Stored
    <3>1. ScoreCandidates \subseteq Stored
      BY DEF ScoreCandidates, Listed, Seen
    <3> DEFINE rows == {[id |-> a] : a \in ScoreCandidates}
    <3>2. First(rows, Later, MaxScored) \subseteq rows
      BY Zenon DEF First
    <3>3. \A x \in rows : x.id \in ScoreCandidates
      OBVIOUS
    <3>4. NewestCandidates = {x.id : x \in First(rows, Later, MaxScored)}
      BY Zenon DEF NewestCandidates
    <3> HIDE DEF rows
    <3> QED
      BY <3>1, <3>2, <3>3, <3>4, Zenon
  <2>3. Stored' = Stored
    BY <2>1 DEF Stored
  <2>4. embedded' \cup scored' \subseteq Stored'
    BY <1>0, <2>1, <2>2, <2>3
  <2> QED
    BY <1>0, <1>a, <2>1, <2>3, <2>4 DEF SurfacesGood, SurfacesTypeOK, others
<1>4. ASSUME NEW a \in Articles, Embed(a) PROVE SurfacesGood'
  <2>1. /\ a \in Stored /\ embedded' = embedded \cup {a}
        /\ UNCHANGED <<newest, canonical, merged, others, scored, acts>>
    BY <1>4 DEF Embed
  <2>2. Stored' = Stored
    BY <2>1 DEF Stored
  <2>3. embedded' \cup scored' \subseteq Stored'
    BY <1>0, <2>1, <2>2
  <2> QED
    BY <2>1, <2>2, <2>3 DEF SurfacesGood, SurfacesTypeOK, others
<1>5. ASSUME NEW a \in Articles, Star(a) PROVE SurfacesGood'
  <2>1. /\ a \in Stored /\ Act /\ place' = [place EXCEPT ![a] = PlaceOf(a)]
        /\ starred' = IF a \in starred THEN starred \ {a} ELSE starred \cup {a}
        /\ returned' = returned \ {a}
        /\ UNCHANGED <<newest, canonical, merged, wanted, enabled, removed, embedded, scored>>
    BY <1>5 DEF Star, Seen
  <2>2. PICK stars \in SUBSET (starred \cup {a}) : starred' = stars
    BY <2>1
  <2> QED
    BY <1>a, <1>b, <2>1, <2>2, PlacesMove
<1>6. ASSUME NEW a \in Articles, NEW l \in Lists, Move(a, l) PROVE SurfacesGood'
  <2>1. /\ a \in Stored /\ Act /\ place' = [place EXCEPT ![a] = l] /\ returned' = returned \ {a}
        /\ UNCHANGED <<newest, canonical, merged, starred, wanted, enabled, removed, embedded, scored>>
    BY <1>6 DEF Move, Seen
  <2> QED
    BY <1>a, <2>1, PlacesMove
<1>7. ASSUME NEW a \in Articles, SnoozeEnds(a) PROVE SurfacesGood'
  <2>1. /\ place[a] = "later" /\ returned' = returned \cup {a}
        /\ UNCHANGED <<newest, canonical, merged, place, starred, wanted, enabled, removed, embedded, scored, acts>>
    BY <1>7 DEF SnoozeEnds
  <2>2. Stored' = Stored /\ a \in Stored
    BY <1>0, <2>1 DEF Stored
  <2>3. returned' \subseteq {b \in Stored' : place'[b] = "later"}
    BY <2>1, <2>2 DEF SurfacesGood, SurfacesTypeOK
  <2> QED
    BY <2>1, <2>2, <2>3 DEF SurfacesGood, SurfacesTypeOK
<1>8. ASSUME NEW s \in Sources, Switch(s) PROVE SurfacesGood'
  <2>1. /\ Act /\ wanted' \subseteq wanted \cup {s} /\ enabled' \subseteq enabled \cup {s}
        /\ removed' \subseteq removed \cup {s}
        /\ UNCHANGED <<newest, canonical, merged, place, starred, returned, embedded, scored>>
    BY <1>8 DEF Switch
  <2>2. Stored' = Stored
    BY <2>1 DEF Stored
  <2>3. wanted' \cup enabled' \cup removed' \subseteq Sources
    BY <2>1 DEF SurfacesGood, SurfacesTypeOK
  <2> QED
    BY <1>a, <2>1, <2>2, <2>3 DEF SurfacesGood, SurfacesTypeOK
<1>9. ASSUME NEW a \in Articles, NEW c \in Articles, Merge(a, c) PROVE SurfacesGood'
  BY <1>9, RepetitionsStep
<1> QED
  BY <1>1, <1>2, <1>3, <1>4, <1>5, <1>6, <1>7, <1>8, <1>9 DEF SurfacesNext

-----------------------------------------------------------------------------
(* The queries agree                                                       *)

LEMMA PlacesOfArticles ==
  ASSUME SurfacesGood
  PROVE  /\ \A a \in Articles : PlaceOf(a) \in Lists
         /\ \A a \in returned : PlaceOf(a) = "later" /\ a \in Articles
         /\ Stored \subseteq Articles /\ Listed \subseteq Seen /\ Seen \subseteq Stored
<1>1. /\ newest \in 0 .. Cardinality(Articles) /\ place \in [Articles -> Lists \cup {"none"}]
      /\ returned \subseteq {b \in Stored : place[b] = "later"}
  BY DEF SurfacesGood, SurfacesTypeOK
<1>2. Stored \subseteq Articles
  BY <1>1, StoredAreArticles
<1> QED
  BY <1>1, <1>2 DEF PlaceOf, Lists, Listed, Seen

LEMMA OneListEach ==
  ASSUME SurfacesGood, NEW a \in Articles
  PROVE  Cardinality({l \in Lists : InList(a, l)}) = 1
<1>1. PlaceOf(a) \in Lists /\ (a \in returned => PlaceOf(a) = "later")
  BY PlacesOfArticles
<1> DEFINE L == IF a \in returned THEN "today" ELSE PlaceOf(a)
<1>2. L \in Lists
  BY <1>1 DEF Lists
<1>3. \A l \in Lists : InList(a, l) <=> l = L
  BY <1>1 DEF InList, Lists
<1>4. {l \in Lists : InList(a, l)} = {L}
  BY <1>2, <1>3
<1> QED
  BY <1>4, FS_Singleton

LEMMA CountsMatch == SurfacesGood => CountsMatchLists
<1> SUFFICES ASSUME SurfacesGood PROVE CountsMatchLists
  OBVIOUS
<1>1. /\ \A a \in Articles : PlaceOf(a) \in Lists
      /\ \A a \in returned : PlaceOf(a) = "later" /\ a \in Articles
      /\ Listed \subseteq Articles
  BY PlacesOfArticles
<1>2. \A a \in Stream : Cardinality({l \in Lists : InList(a, l)}) = 1
  BY <1>1, OneListEach DEF Stream
<1>3. /\ \A a \in Listed : InList(a, "today") <=> PlaceOf(a) = "today" \/ a \in returned
      /\ \A a \in Listed : InList(a, "later") <=> PlaceOf(a) = "later" /\ a \notin returned
      /\ \A a \in Listed, l \in {"done", "skipped", "archived"} : InList(a, l) <=> PlaceOf(a) = l
  BY DEF InList
<1>4. ListOf("today") \cup ListOf("later") = {a \in Listed : PlaceOf(a) \in {"today", "later"}}
  BY <1>1, <1>3 DEF ListOf
<1>5. Stream \ ShownAsRead = ListOf("today") \cup ListOf("later")
  BY <1>4 DEF Stream, ShownAsRead
<1>6. ScoreCandidates = ListOf("today") \cup ListOf("later")
  BY <1>4 DEF ScoreCandidates
<1>7. /\ {a \in Listed : PlaceOf(a) = "today"} = ListOf("today") \ returned
      /\ {a \in Listed : PlaceOf(a) = "done"} = ListOf("done")
      /\ {a \in Listed : PlaceOf(a) = "skipped"} = ListOf("skipped")
      /\ {a \in Listed : PlaceOf(a) = "archived"} = ListOf("archived")
      /\ Listed \cap starred = starred \cap Stream
  BY <1>1, <1>3 DEF ListOf, Stream
<1>8. /\ Summary.new = Cardinality(ListOf("today") \ returned)
      /\ Summary.read = Cardinality(ListOf("done"))
      /\ Summary.skipped = Cardinality(ListOf("skipped"))
      /\ Summary.archived = Cardinality(ListOf("archived"))
      /\ Summary.saved = Cardinality(starred \cap Stream)
  BY <1>7, Zenon DEF Summary
<1> QED
  BY <1>2, <1>5, <1>6, <1>8 DEF CountsMatchLists

LEMMA FoundAreListed == SurfacesGood => FoundIsListed
<1> SUFFICES ASSUME SurfacesGood PROVE FoundIsListed
  OBVIOUS
<1> DEFINE gone == {a \in Stored : canonical[a] # 0 /\ place[a] = "archived"}
<1>1. Stored \subseteq Articles /\ Listed \subseteq Seen /\ Seen \subseteq Stored
  BY PlacesOfArticles
<1>2. \A a \in Seen : a \in Listed \/ a \in gone
  BY <1>1 DEF Listed, PlaceOf
<1>3. \A a \in gone \cup ListOf("archived") : PlaceOf(a) = "archived" /\ place[a] = "archived"
  BY DEF ListOf, InList, PlaceOf
<1> HIDE DEF gone
<1>4. /\ Search({}, TRUE) \subseteq Seen /\ Asked(TRUE) \subseteq Seen /\ Asked(FALSE) \subseteq Seen
      /\ Figures \subseteq Seen /\ BriefingCandidates \subseteq Seen /\ Favourites \subseteq Seen
      /\ Enriched \subseteq Seen
  BY DEF Search, Asked, Figures, Mapped, Kept, BriefingCandidates, Favourites, Enriched
<1>5. Search({}, TRUE) \cup Asked(TRUE) \cup Asked(FALSE) \cup Figures
        \cup BriefingCandidates \cup Favourites \cup Enriched \subseteq Stream \cup gone
  BY <1>2, <1>4 DEF Stream
<1>6. /\ \A a \in Search({}, FALSE) : PlaceOf(a) # "archived"
      /\ \A a \in Mapped : PlaceOf(a) # "archived"
      /\ \A a \in Asked(TRUE) : PlaceOf(a) # "archived"
  BY DEF Search, Asked, Mapped, Kept
<1>7. (Search({}, FALSE) \cup TopicMap \cup EntityGraph \cup Figures \cup RelatedToLesson
           \cup Asked(TRUE)) \cap (gone \cup ListOf("archived")) = {}
  BY <1>3, <1>6 DEF TopicMap, EntityGraph, Figures, RelatedToLesson
<1>8. Citable \cap Kept(Stored) = Search({}, FALSE)
  BY <1>1 DEF Citable, Kept, Search
<1>9. Asked(FALSE) \cap (gone \cup ListOf("archived")) \subseteq starred
  BY <1>3 DEF Asked
<1>10. \A a \in Search({}, TRUE) : SourceOf[a] \in Subscriptions
  <2> SUFFICES ASSUME NEW a \in Search({}, TRUE) PROVE SourceOf[a] \in Subscriptions
    OBVIOUS
  <2>1. a \in Seen /\ SourceOf[a] \notin removed
    BY DEF Search
  <2>2. a \in Articles /\ Visible(a)
    BY <1>1, <2>1 DEF Seen
  <2>3. SourceOf[a] \in Sources /\ BelongsTo[SourceOf[a]] \in {"everyone", "me"}
    BY <2>2 DEF Sources, Visible
  <2> QED
    BY <2>1, <2>3 DEF Subscriptions
<1> QED
  BY <1>5, <1>7, <1>8, <1>9, <1>10 DEF FoundIsListed, gone

LEMMA OthersAreNotMet == NothingOfAnother
<1>1. ASSUME NEW a \in Stream \cup Search({}, TRUE) \cup Asked(TRUE) \cup Asked(FALSE)
                         \cup BriefingCandidates \cup Favourites \cup Enriched
      PROVE  BelongsTo[SourceOf[a]] # "another" /\ (SourceOf[a] \in wanted \/ BelongsTo[SourceOf[a]] = "me")
  <2>1. a \in Seen
    BY DEF Stream, Listed, Search, Asked, Kept, BriefingCandidates, Favourites, Enriched
  <2> QED
    BY <2>1 DEF Seen, Visible
<1>2. ASSUME NEW a \in Stream, NEW s \in AlsoFrom(a) PROVE BelongsTo[s] # "another"
  BY DEF AlsoFrom
<1> QED
  BY <1>1, <1>2 DEF NothingOfAnother

-----------------------------------------------------------------------------
(* The pages of the first list                                             *)

Candidate == [id: Int, score: Int]

OwnIds(S) == \A x, y \in S : x.id = y.id => x = y

\* Rows of different articles have each a place of its own in the ranking.
LEMMA RowsAreRanked ==
  ASSUME NEW S \in SUBSET Candidate, IsFiniteSet(S), OwnIds(S)
  PROVE  /\ Cardinality(S) \in Nat
         /\ \A x \in S : Rank(S, Higher, x) \in 0 .. Cardinality(S) - 1
         /\ \A x, y \in S : Higher(x, y) <=> Rank(S, Higher, x) < Rank(S, Higher, y)
         /\ \A i \in 0 .. Cardinality(S) - 1 : \E x \in S : Rank(S, Higher, x) = i
<1> DEFINE R == {p \in S \X S : Higher(p[1], p[2])}
<1>0. \A x \in S : x.id \in Int /\ x.score \in Int
  BY DEF Candidate
<1>1. \A x, y \in S : <<x, y>> \in R <=> Higher(x, y)
  OBVIOUS
<1> HIDE DEF R
<1>2. StrictlyOrders(R, S)
  <2>1. \A x, y \in S : x # y => Higher(x, y) \/ Higher(y, x)
    BY <1>0 DEF OwnIds, Higher
  <2>2. \A x, y, z \in S : Higher(x, y) /\ Higher(y, z) => Higher(x, z)
    BY <1>0 DEF Higher
  <2>3. \A x \in S : ~Higher(x, x)
    BY <1>0 DEF Higher
  <2> QED
    BY <1>1, <2>1, <2>2, <2>3 DEF StrictlyOrders
<1>3. ASSUME NEW x \in S PROVE Rank(S, Higher, x) = Before(S, R, x)
  <2>1. {y \in S : Higher(y, x)} = {y \in S : <<y, x>> \in R}
    BY <1>1
  <2> QED
    BY <2>1 DEF Rank, Before
<1>4. \A x \in S : /\ Before(S, R, x) \in 0 .. Cardinality(S) - 1
                   /\ \A y \in S : <<x, y>> \in R <=> Before(S, R, x) < Before(S, R, y)
  BY <1>2, PlacesAscend
<1>5. \A i \in 0 .. Cardinality(S) - 1 : \E x \in S : Before(S, R, x) = i
  BY <1>2, EveryPlaceIsTaken
<1>6. Cardinality(S) \in Nat
  BY FS_CardinalityType
<1> QED
  BY <1>1, <1>3, <1>4, <1>5, <1>6

\* No row has as many before it as there are rows.
LEMMA NewestAreBelow ==
  ASSUME NEW S \in SUBSET Candidate, IsFiniteSet(S), NEW x \in S
  PROVE  Rank(S, Later, x) < Cardinality(S)
<1> DEFINE B == {y \in S : Later(y, x)}
<1>1. x \notin B /\ B \subseteq S
  BY DEF Later, Candidate
<1>2. Rank(S, Later, x) = Cardinality(B)
  BY DEF Rank
<1> HIDE DEF B
<1>3. IsFiniteSet(B) /\ Cardinality(B) <= Cardinality(S) /\ (Cardinality(S) = Cardinality(B) <=> S = B)
  BY <1>1, FS_Subset
<1>4. Cardinality(B) \in Nat /\ Cardinality(S) \in Nat /\ S # B
  BY <1>1, <1>3, FS_CardinalityType
<1> QED
  BY <1>2, <1>3, <1>4

\* The rows of the best candidates have the places that they have among all.
LEMMA BestAreBest ==
  ASSUME NEW S \in SUBSET Candidate, IsFiniteSet(S), OwnIds(S), NEW T \in SUBSET S,
         NEW c \in Nat, c # 0, \A x \in S : Rank(S, Higher, x) < c => x \in T
  PROVE  /\ \A x \in T : Rank(T, Higher, x) < c => Rank(T, Higher, x) = Rank(S, Higher, x)
         /\ \A x \in S : Rank(S, Higher, x) < c => x \in T /\ Rank(T, Higher, x) = Rank(S, Higher, x)
         /\ \A k \in 0 .. c - 1 : Cardinality(T) > k <=> Cardinality(S) > k
<1>1. IsFiniteSet(T) /\ Cardinality(T) <= Cardinality(S) /\ OwnIds(T)
  BY FS_Subset DEF OwnIds
<1> DEFINE r == [x \in S |-> Rank(S, Higher, x)]
           t == [x \in T |-> Rank(T, Higher, x)]
<1>r. \A x \in S : r[x] = Rank(S, Higher, x)
  OBVIOUS
<1>t. \A x \in T : t[x] = Rank(T, Higher, x)
  OBVIOUS
<1> HIDE DEF r, t
<1>2. /\ Cardinality(S) \in Nat
      /\ \A x \in S : r[x] \in 0 .. Cardinality(S) - 1
      /\ \A x, y \in S : Higher(x, y) <=> r[x] < r[y]
      /\ \A i \in 0 .. Cardinality(S) - 1 : \E x \in S : r[x] = i
  BY ZenonT(60), <1>r, RowsAreRanked
<1>3. /\ Cardinality(T) \in Nat
      /\ \A x \in T : t[x] \in 0 .. Cardinality(T) - 1
      /\ \A x, y \in T : Higher(x, y) <=> t[x] < t[y]
  <2>1. T \in SUBSET Candidate /\ IsFiniteSet(T) /\ OwnIds(T)
    BY <1>1
  <2>2. /\ Cardinality(T) \in Nat
        /\ \A x \in T : Rank(T, Higher, x) \in 0 .. Cardinality(T) - 1
        /\ \A x, y \in T : Higher(x, y) <=> Rank(T, Higher, x) < Rank(T, Higher, y)
    BY <2>1, RowsAreRanked
  <2> QED
    BY <1>t, <2>2
<1>c. \A x \in S : r[x] < c => x \in T
  BY <1>r
<1>4. ASSUME NEW x \in S, r[x] < c
      PROVE  x \in T /\ t[x] = r[x]
  <2>1. \A y \in S : Higher(y, x) => y \in T
    <3> SUFFICES ASSUME NEW y \in S, Higher(y, x) PROVE y \in T
      OBVIOUS
    <3>1. r[y] < r[x] /\ r[x] \in Nat /\ r[y] \in Nat
      BY <1>2
    <3>2. r[y] < c
      BY <1>4, <3>1
    <3> QED
      BY <1>c, <3>2
  <2>2. {y \in S : Higher(y, x)} = {y \in T : Higher(y, x)}
    BY <2>1
  <2>3. Rank(T, Higher, x) = Rank(S, Higher, x)
    BY <2>2 DEF Rank
  <2>4. x \in T
    BY <1>4, <1>c
  <2> QED
    BY <2>3, <2>4, <1>r, <1>t
<1>5. ASSUME NEW x \in T, t[x] < c PROVE r[x] < c
  <2>0. r[x] \in 0 .. Cardinality(S) - 1 /\ t[x] \in Nat
    BY <1>2, <1>3
  <2>1. SUFFICES ASSUME r[x] >= c PROVE FALSE
    BY <2>0
  <2>2. c - 1 \in 0 .. Cardinality(S) - 1
    BY <1>2, <2>0, <2>1
  <2>3. PICK z \in S : r[z] = c - 1
    BY <1>2, <2>2
  <2>4. z \in T /\ t[z] = c - 1
    BY <1>4, <2>3
  <2>5. r[z] < r[x]
    BY <2>0, <2>1, <2>3
  <2>6. Higher(z, x)
    BY <1>2, <2>5
  <2>7. t[z] < t[x]
    BY <1>3, <2>4, <2>6
  <2> QED
    BY <1>5, <2>0, <2>4, <2>7
<1>6. ASSUME NEW k \in 0 .. c - 1, Cardinality(S) > k PROVE Cardinality(T) > k
  <2>1. PICK z \in S : r[z] = k
    BY <1>2, <1>6
  <2>2. z \in T /\ t[z] = k
    BY <1>4, <2>1
  <2> QED
    BY <1>3, <2>2
<1>7. \A x \in S : r[x] < c => x \in T /\ t[x] = r[x]
  BY <1>4
<1>8. \A x \in T : t[x] < c => t[x] = r[x]
  BY <1>5, <1>7
<1>9. \A k \in 0 .. c - 1 : Cardinality(T) > k <=> Cardinality(S) > k
  BY <1>1, <1>2, <1>3, <1>6
<1>10. \A x \in T : Rank(T, Higher, x) < c => Rank(T, Higher, x) = Rank(S, Higher, x)
  BY <1>r, <1>t, <1>8
<1>11. \A x \in S : Rank(S, Higher, x) < c => x \in T /\ Rank(T, Higher, x) = Rank(S, Higher, x)
  BY <1>r, <1>t, <1>7
<1> QED
  BY <1>9, <1>10, <1>11

LEMMA MultiplesAscend ==
  ASSUME NEW d \in Nat \ {0}, NEW p \in Nat, NEW q \in Nat, p < q
  PROVE  d * p + d <= d * q
<1>1. p + 1 \in Nat /\ p + 1 <= q
  OBVIOUS
<1>2. ~(d * q < d * (p + 1))
  <2>1. SUFFICES ASSUME d * q < d * (p + 1) PROVE FALSE
    OBVIOUS
  <2>2. q < p + 1
    BY <1>1, <2>1, OrderOfQuotients
  <2> QED
    BY <1>1, <2>2
<1>3. d * (p + 1) = d * p + d
  OBVIOUS
<1>4. d * q \in Int /\ d * p \in Int
  OBVIOUS
<1> QED
  BY <1>2, <1>3, <1>4

\* A page shows the rows that have its places in the whole list, and says whether
\* there are more, while the unscored ones fit into the window.
LEMMA PageIs ==
  ASSUME SurfacesGood, NEW k \in Nat \ {0}, Cardinality(Unranked) <= RankWindow
  PROVE  LET rows == Ranked \cup Unranked
             offset == Limit * (k - 1)
         IN /\ rows \in SUBSET Candidate /\ IsFiniteSet(rows) /\ OwnIds(rows)
            /\ Page(k).number = k /\ offset \in Nat
            /\ Page(k).shown = {x.id : x \in {x \in rows : Rank(rows, Higher, x) \in offset .. offset + Limit - 1}}
            /\ Page(k).more <=> Cardinality(rows) > offset + Limit
<1> DEFINE rows == Ranked \cup Unranked
           offset == Limit * (k - 1)
           c == CandidatesFor(offset)
           best == First(Ranked, Higher, c) \cup First(Unranked, Later, c)
<1>0. /\ Limit \in Nat \ {0} /\ offset \in Nat /\ RankWindow \in Nat
  BY SurfacesAssumption
<1>1. c \in Nat /\ c > offset + Limit /\ c >= RankWindow
  BY <1>0 DEF CandidatesFor
<1>2. /\ Ranked \in SUBSET Candidate /\ Unranked \in SUBSET Candidate
      /\ \A x \in Ranked : x.id \in scored /\ x.id \in ListOf("today") /\ x.score = OwnScore[x.id]
      /\ \A x \in Unranked : x.id \notin scored /\ x.id \in ListOf("today") /\ x.score = ColdScore[x.id]
  <2>1. ListOf("today") \subseteq Articles /\ Articles \subseteq Int
    BY PlacesOfArticles, ArticlesAreNumbers DEF ListOf
  <2>2. \A a \in Articles : OwnScore[a] \in Int /\ ColdScore[a] \in Int
    BY SurfacesAssumption
  <2>3. ASSUME NEW x \in Ranked
        PROVE  x \in Candidate /\ x.id \in scored /\ x.id \in ListOf("today") /\ x.score = OwnScore[x.id]
    <3>1. PICK a \in ListOf("today") \cap scored : x = [id |-> a, score |-> OwnScore[a]]
      BY DEF Ranked
    <3>2. x.id = a /\ x.score = OwnScore[a] /\ a \in Int /\ OwnScore[a] \in Int
      BY <2>1, <2>2, <3>1
    <3> QED
      BY <3>1, <3>2 DEF Candidate
  <2>4. ASSUME NEW x \in Unranked
        PROVE  x \in Candidate /\ x.id \notin scored /\ x.id \in ListOf("today") /\ x.score = ColdScore[x.id]
    <3>1. PICK a \in ListOf("today") \ scored : x = [id |-> a, score |-> ColdScore[a]]
      BY DEF Unranked
    <3>2. x.id = a /\ x.score = ColdScore[a] /\ a \in Int /\ ColdScore[a] \in Int
      BY <2>1, <2>2, <3>1
    <3> QED
      BY <3>1, <3>2 DEF Candidate
  <2> QED
    BY <2>3, <2>4
<1>3. rows \in SUBSET Candidate /\ OwnIds(rows)
  <2>1. rows \in SUBSET Candidate
    BY <1>2
  <2>2. ASSUME NEW x \in rows, NEW y \in rows, x.id = y.id PROVE x = y
    <3>1. x.score = y.score
      BY <1>2, <2>2
    <3>2. x \in Candidate /\ y \in Candidate
      BY <2>1
    <3> QED
      BY <2>2, <3>1, <3>2 DEF Candidate
  <2> QED
    BY <2>1, <2>2 DEF OwnIds
<1>4. IsFiniteSet(rows) /\ IsFiniteSet(Unranked)
  <2>1. IsFiniteSet(ListOf("today"))
    <3>1. ListOf("today") \subseteq Articles
      BY PlacesOfArticles DEF ListOf
    <3> QED
      BY <3>1, ArticlesAreNumbers, FS_Subset
  <2> DEFINE f == [a \in ListOf("today") |->
                     IF a \in scored THEN [id |-> a, score |-> OwnScore[a]] ELSE [id |-> a, score |-> ColdScore[a]]]
  <2>2. IsFiniteSet({f[a] : a \in ListOf("today")})
    BY <2>1, ImageFinite
  <2>3. rows \subseteq {f[a] : a \in ListOf("today")}
    BY DEF Ranked, Unranked
  <2>4. IsFiniteSet(rows)
    BY <2>2, <2>3, FS_Subset
  <2> QED
    BY <2>4, FS_Subset
<1>5. First(Unranked, Later, c) = Unranked
  <2>1. ASSUME NEW x \in Unranked PROVE Rank(Unranked, Later, x) < c
    <3>1. Rank(Unranked, Later, x) < Cardinality(Unranked) /\ Cardinality(Unranked) \in Nat
      BY <1>2, <1>4, NewestAreBelow, FS_CardinalityType
    <3>2. Rank(Unranked, Later, x) \in Nat
      <4>1. {y \in Unranked : Later(y, x)} \subseteq Unranked
        OBVIOUS
      <4>2. IsFiniteSet({y \in Unranked : Later(y, x)})
        BY <1>4, <4>1, FS_Subset
      <4> QED
        BY <4>2, FS_CardinalityType DEF Rank
    <3> QED
      BY <1>0, <1>1, <3>1, <3>2
  <2> HIDE DEF c
  <2>2. First(Unranked, Later, c) = {x \in Unranked : Rank(Unranked, Later, x) < c}
    BY DEF First
  <2> QED
    BY <2>1, <2>2
<1> HIDE DEF c
<1>6. best \in SUBSET rows
  BY DEF First
<1>7. \A x \in rows : Rank(rows, Higher, x) < c => x \in best
  <2> SUFFICES ASSUME NEW x \in Ranked, Rank(rows, Higher, x) < c PROVE x \in First(Ranked, Higher, c)
    BY <1>5
  <2> DEFINE A == {y \in Ranked : Higher(y, x)}
             B == {y \in rows : Higher(y, x)}
  <2>1. A \subseteq B /\ B \subseteq rows
    OBVIOUS
  <2>2. Rank(Ranked, Higher, x) = Cardinality(A) /\ Rank(rows, Higher, x) = Cardinality(B)
    BY DEF Rank
  <2> HIDE DEF A, B
  <2>3. IsFiniteSet(B)
    BY <1>4, <2>1, FS_Subset
  <2>4. IsFiniteSet(A) /\ Cardinality(A) <= Cardinality(B)
    BY <2>1, <2>3, FS_Subset
  <2>5. Cardinality(A) \in Nat /\ Cardinality(B) \in Nat
    BY <2>3, <2>4, FS_CardinalityType
  <2>6. Rank(Ranked, Higher, x) < c
    BY <1>1, <2>2, <2>4, <2>5
  <2> QED
    BY <2>6 DEF First
<1>8. Page(k) = [number |-> k,
                 shown |-> {x.id : x \in {x \in best : Rank(best, Higher, x) \in offset .. offset + Limit - 1}},
                 more |-> Cardinality(best) > offset + Limit]
  BY DEF Page, c
<1> HIDE DEF best, offset, rows
<1>9. /\ \A x \in best : Rank(best, Higher, x) < c => Rank(best, Higher, x) = Rank(rows, Higher, x)
      /\ \A x \in rows : Rank(rows, Higher, x) < c => x \in best /\ Rank(best, Higher, x) = Rank(rows, Higher, x)
      /\ \A j \in 0 .. c - 1 : Cardinality(best) > j <=> Cardinality(rows) > j
  <2>1. c # 0
    BY <1>0, <1>1
  <2> QED
    BY <1>1, <1>3, <1>4, <1>6, <1>7, <2>1, BestAreBest
<1>10. \A i \in offset .. offset + Limit - 1 : i < c
  BY <1>0, <1>1
<1>11. {x \in best : Rank(best, Higher, x) \in offset .. offset + Limit - 1}
         = {x \in rows : Rank(rows, Higher, x) \in offset .. offset + Limit - 1}
  <2> DEFINE I == offset .. offset + Limit - 1
             P(x) == Rank(best, Higher, x)
             Q(x) == Rank(rows, Higher, x)
  <2>1. \A i \in I : i < c
    BY <1>10
  <2>2. /\ \A x \in best : P(x) < c => P(x) = Q(x)
        /\ \A x \in rows : Q(x) < c => x \in best /\ P(x) = Q(x)
        /\ best \subseteq rows
    BY <1>6, <1>9
  <2> HIDE DEF I, P, Q
  <2>3. {x \in best : P(x) \in I} = {x \in rows : Q(x) \in I}
    BY <2>1, <2>2
  <2> QED
    BY <2>3 DEF I, P, Q
<1>12. Cardinality(best) > offset + Limit <=> Cardinality(rows) > offset + Limit
  <2>1. offset + Limit \in 0 .. c - 1
    BY <1>0, <1>1
  <2> QED
    BY <1>9, <2>1
<1>13. /\ Page(k).number = k
       /\ Page(k).shown = {x.id : x \in {x \in best : Rank(best, Higher, x) \in offset .. offset + Limit - 1}}
       /\ Page(k).more = (Cardinality(best) > offset + Limit)
  <2> DEFINE D == {x.id : x \in {x \in best : Rank(best, Higher, x) \in offset .. offset + Limit - 1}}
             M == Cardinality(best) > offset + Limit
  <2>1. Page(k) = [number |-> k, shown |-> D, more |-> M]
    BY <1>8
  <2> HIDE DEF D, M
  <2>2. Page(k).number = k /\ Page(k).shown = D /\ Page(k).more = M
    BY <2>1
  <2> QED
    BY <2>2 DEF D, M
<1>14. Page(k).shown = {x.id : x \in {x \in rows : Rank(rows, Higher, x) \in offset .. offset + Limit - 1}}
  BY <1>11, <1>13, Zenon
<1> QED
  BY <1>0, <1>3, <1>4, <1>12, <1>13, <1>14 DEF rows, offset

LEMMA RowsAreStored ==
  ASSUME SurfacesGood
  PROVE  Cardinality(Ranked \cup Unranked) <= newest /\ newest \in Nat
<1> DEFINE ranked == ListOf("today")
           f == [a \in ranked |->
                   IF a \in scored THEN [id |-> a, score |-> OwnScore[a]] ELSE [id |-> a, score |-> ColdScore[a]]]
           image == {f[a] : a \in ranked}
           rows == Ranked \cup Unranked
<1>1. newest \in Nat /\ ranked \subseteq 1 .. newest
  <2>1. newest \in Nat
    BY StoredAreArticles DEF SurfacesGood, SurfacesTypeOK
  <2> QED
    BY <2>1, PlacesOfArticles DEF ListOf, Stored
<1>2. IsFiniteSet(1 .. newest) /\ Cardinality(1 .. newest) = newest
  <2>1. 1 \in Int /\ newest \in Int
    BY <1>1
  <2>2. IsFiniteSet(1 .. newest) /\ Cardinality(1 .. newest) = IF 1 > newest THEN 0 ELSE newest - 1 + 1
    BY <2>1, FS_Interval, Zenon
  <2> QED
    BY <1>1, <2>2
<1>3. rows \subseteq image
  BY DEF Ranked, Unranked
<1> HIDE DEF ranked, rows
<1>4. IsFiniteSet(ranked) /\ Cardinality(ranked) <= newest
  BY <1>1, <1>2, FS_Subset
<1>5. IsFiniteSet(image) /\ Cardinality(image) <= Cardinality(ranked)
  BY <1>4, ImageFinite
<1> HIDE DEF image
<1>6. IsFiniteSet(rows) /\ Cardinality(rows) <= Cardinality(image)
  BY <1>3, <1>5, FS_Subset
<1>7. Cardinality(rows) \in Nat /\ Cardinality(image) \in Nat /\ Cardinality(ranked) \in Nat
  BY <1>4, <1>5, <1>6, FS_CardinalityType
<1> QED
  BY <1>1, <1>4, <1>5, <1>6, <1>7 DEF rows

LEMMA PagesShow == SurfacesGood => PagesShowToday
<1> SUFFICES ASSUME SurfacesGood, Cardinality(Unranked) <= RankWindow
             PROVE  LET pages == TodaysPages
                        rows == Ranked \cup Unranked
                    IN /\ UNION {p.shown : p \in pages} = ListOf("today")
                       /\ \A p, q \in pages : q.number < p.number =>
                            \A x, y \in rows : x.id \in p.shown /\ y.id \in q.shown => Higher(y, x)
  BY DEF PagesShowToday
<1> DEFINE rows == Ranked \cup Unranked
           n == Cardinality(rows)
           r == [x \in rows |-> Rank(rows, Higher, x)]
           Off(k) == Limit * (k - 1)
           all == {Page(k) : k \in 1 .. newest + 1}
<1>0. Limit \in Nat \ {0} /\ newest \in Nat /\ n <= newest
  BY SurfacesAssumption, RowsAreStored
<1>1. rows \in SUBSET Candidate /\ IsFiniteSet(rows) /\ OwnIds(rows)
  <2>1. 1 \in Nat \ {0}
    OBVIOUS
  <2> QED
    BY <2>1, PageIs
<1>2. /\ n \in Nat /\ \A x \in rows : r[x] \in 0 .. n - 1
      /\ \A x, y \in rows : Higher(x, y) <=> r[x] < r[y]
  BY <1>1, RowsAreRanked
<1>3. {x.id : x \in rows} = ListOf("today")
  <2>1. ASSUME NEW a \in ListOf("today") PROVE \E x \in rows : x.id = a
    <3>1. CASE a \in scored
      <4>1. [id |-> a, score |-> OwnScore[a]] \in Ranked
        BY <3>1 DEF Ranked
      <4> QED
        BY <4>1
    <3>2. CASE a \notin scored
      <4>1. [id |-> a, score |-> ColdScore[a]] \in Unranked
        BY <3>2 DEF Unranked
      <4> QED
        BY <4>1
    <3> QED
      BY <3>1, <3>2
  <2>2. ASSUME NEW x \in rows PROVE x.id \in ListOf("today")
    <3>1. CASE x \in Ranked
      BY <3>1 DEF Ranked
    <3>2. CASE x \in Unranked
      BY <3>2 DEF Unranked
    <3> QED
      BY <3>1, <3>2
  <2> HIDE DEF rows
  <2> QED
    BY <2>1, <2>2
<1>4. ASSUME NEW k \in Nat \ {0}
      PROVE  /\ Page(k).number = k /\ Off(k) \in Nat
             /\ Page(k).shown = {x.id : x \in {x \in rows : r[x] \in Off(k) .. Off(k) + Limit - 1}}
             /\ Page(k).more <=> n > Off(k) + Limit
  <2>1. /\ Page(k).number = k /\ Off(k) \in Nat
        /\ Page(k).shown = {x.id : x \in {x \in rows : Rank(rows, Higher, x) \in Off(k) .. Off(k) + Limit - 1}}
        /\ Page(k).more <=> n > Off(k) + Limit
    BY PageIs
  <2>2. \A x \in rows : r[x] = Rank(rows, Higher, x)
    OBVIOUS
  <2> HIDE DEF rows, r, n, Off
  <2>3. {x \in rows : Rank(rows, Higher, x) \in Off(k) .. Off(k) + Limit - 1}
          = {x \in rows : r[x] \in Off(k) .. Off(k) + Limit - 1}
    BY <2>2
  <2> QED
    BY <2>1, <2>3
<1> HIDE DEF rows, n, r
<1>5. \A j, k \in Nat \ {0} : j < k => Off(j) + Limit <= Off(k)
  <2> SUFFICES ASSUME NEW j \in Nat \ {0}, NEW k \in Nat \ {0}, j < k PROVE Off(j) + Limit <= Off(k)
    OBVIOUS
  <2>1. j - 1 \in Nat /\ k - 1 \in Nat /\ j - 1 < k - 1
    OBVIOUS
  <2> QED
    BY <1>0, <2>1, MultiplesAscend
<1>6. ASSUME NEW x \in rows
      PROVE  \E k \in 1 .. newest + 1 : r[x] \in Off(k) .. Off(k) + Limit - 1
  <2> DEFINE d == r[x] \div Limit
             k == d + 1
  <2>1. r[x] \in 0 .. n - 1 /\ r[x] \in Nat
    BY <1>2
  <2>2. d \in Nat /\ Limit * d <= r[x] /\ r[x] < Limit * d + Limit
    BY <1>0, <2>1, Divided
  <2>3. d <= r[x]
    <3> HIDE DEF d
    <3>1. ~(r[x] < d)
      <4>1. SUFFICES ASSUME r[x] < d PROVE FALSE
        OBVIOUS
      <4>2. Limit * r[x] + Limit <= Limit * d
        BY <1>0, <2>1, <2>2, <4>1, MultiplesAscend
      <4>3. Limit * r[x] >= r[x]
        BY <1>0, <2>1
      <4>4. Limit * r[x] \in Int /\ Limit * d \in Int
        BY <1>0, <2>1, <2>2
      <4> QED
        BY <1>0, <2>1, <2>2, <4>2, <4>3, <4>4
    <3> QED
      BY <2>1, <2>2, <3>1
  <2>4. k \in 1 .. newest + 1 /\ k - 1 = d
    BY <1>0, <1>2, <2>1, <2>2, <2>3
  <2>5. Limit * d \in Int
    BY <1>0, <2>2
  <2> HIDE DEF d
  <2>6. r[x] \in Off(k) .. Off(k) + Limit - 1
    BY <1>0, <2>1, <2>2, <2>4, <2>5
  <2> QED
    BY <2>4, <2>6
<1> HIDE DEF Off
<1>7. TodaysPages = {p \in all : \A q \in all : q.number < p.number => q.more}
  BY DEF TodaysPages
<1>8. ASSUME NEW p \in TodaysPages
      PROVE  \E k \in Nat \ {0} : p = Page(k)
  BY <1>0, <1>7
<1>9. ASSUME NEW x \in rows
      PROVE  \E p \in TodaysPages : x.id \in p.shown
  <2>1. PICK k \in 1 .. newest + 1 : r[x] \in Off(k) .. Off(k) + Limit - 1
    BY <1>6
  <2>2. k \in Nat \ {0} /\ Page(k) \in all
    BY <1>0, <2>1
  <2>3. x.id \in Page(k).shown /\ Page(k).number = k /\ Off(k) \in Nat
    BY <1>4, <2>1, <2>2
  <2>4. ASSUME NEW q \in all, q.number < k PROVE q.more
    <3>1. PICK j \in 1 .. newest + 1 : q = Page(j)
      OBVIOUS
    <3>2. j \in Nat \ {0}
      BY <1>0, <3>1
    <3>3. /\ q.number = j /\ Off(j) \in Nat
          /\ q.more <=> n > Off(j) + Limit
      BY <1>4, <3>1, <3>2
    <3>4. Off(j) + Limit <= Off(k)
      BY <1>5, <2>2, <2>4, <3>2, <3>3
    <3>5. Off(k) <= r[x] /\ r[x] < n /\ r[x] \in Int
      BY <1>2, <2>1, <2>3
    <3>6. n > Off(j) + Limit
      BY <1>0, <1>2, <2>3, <3>3, <3>4, <3>5
    <3> QED
      BY <3>3, <3>6
  <2>5. Page(k) \in TodaysPages
    BY <1>7, <2>2, <2>3, <2>4
  <2> QED
    BY <2>3, <2>5
<1>10. UNION {p.shown : p \in TodaysPages} = ListOf("today")
  <2>1. ASSUME NEW p \in TodaysPages, NEW a \in p.shown PROVE a \in ListOf("today")
    <3>1. PICK k \in Nat \ {0} : p = Page(k)
      BY <1>8
    <3>2. PICK x \in rows : a = x.id
      BY <1>4, <2>1, <3>1
    <3> QED
      BY <1>3, <3>2
  <2>2. ASSUME NEW a \in ListOf("today") PROVE \E p \in TodaysPages : a \in p.shown
    <3>1. PICK x \in rows : a = x.id
      BY <1>3
    <3> QED
      BY <1>9, <3>1
  <2> QED
    BY <2>1, <2>2
<1>11. ASSUME NEW p \in TodaysPages, NEW q \in TodaysPages, q.number < p.number,
              NEW x \in rows, NEW y \in rows, x.id \in p.shown, y.id \in q.shown
       PROVE  Higher(y, x)
  <2>1. PICK k \in Nat \ {0} : p = Page(k)
    BY <1>8
  <2>2. PICK j \in Nat \ {0} : q = Page(j)
    BY <1>8
  <2>3. j < k
    BY <1>4, <1>11, <2>1, <2>2
  <2>4. r[x] \in Off(k) .. Off(k) + Limit - 1
    <3>1. PICK z \in rows : x.id = z.id /\ r[z] \in Off(k) .. Off(k) + Limit - 1
      BY <1>4, <1>11, <2>1
    <3> QED
      BY <1>1, <3>1 DEF OwnIds
  <2>5. r[y] \in Off(j) .. Off(j) + Limit - 1
    <3>1. PICK z \in rows : y.id = z.id /\ r[z] \in Off(j) .. Off(j) + Limit - 1
      BY <1>4, <1>11, <2>2
    <3> QED
      BY <1>1, <3>1 DEF OwnIds
  <2>6. Off(j) + Limit <= Off(k) /\ Off(j) \in Nat /\ Off(k) \in Nat
    BY <1>4, <1>5, <2>3
  <2>7. r[y] < r[x]
    BY <1>0, <2>4, <2>5, <2>6
  <2> QED
    BY <1>2, <2>7
<1> QED
  BY <1>10, <1>11 DEF rows

LEMMA SurfacesParts == SurfacesGood => SurfacesTypeOK /\ SurfacesInv
  BY CountsMatch, FoundAreListed, OthersAreNotMet, PagesShow DEF SurfacesGood, SurfacesInv

\* Every surface shows the same articles, none of another reader's, and the pages
\* together the list, the best first (articles/service.py and the queries beside it).
THEOREM SurfacesAgree == SurfacesSpec => []SurfacesInv
<1>1. SurfacesInit => SurfacesGood
  BY SurfacesInitGood
<1>2. SurfacesGood /\ [SurfacesNext]_surfacesVars => SurfacesGood'
  BY SurfacesStepGood
<1>3. SurfacesGood => SurfacesInv
  BY SurfacesParts
<1> QED
  BY <1>1, <1>2, <1>3, PTL DEF SurfacesSpec

(***************************************************************************)
(* The shelf                                                               *)
(***************************************************************************)

-----------------------------------------------------------------------------
(* Parts of orders                                                         *)

LEMMA PartIs ==
  ASSUME NEW R, NEW s \in Seq(R), NEW m \in Nat, NEW a \in Nat \ {0}
  PROVE  /\ Part(s, a, m) \in Seq(R) /\ DOMAIN Part(s, a, m) = 1 .. Len(Part(s, a, m))
         /\ m < Len(s) /\ a <= m => Len(Part(s, a, m)) = m - a + 1
         /\ Len(s) <= m /\ a <= Len(s) => Len(Part(s, a, m)) = Len(s) - a + 1
         /\ m < a \/ Len(s) < a => Len(Part(s, a, m)) = 0
         /\ \A i \in 1 .. Len(Part(s, a, m)) : a + i - 1 \in 1 .. Len(s) /\ Part(s, a, m)[i] = s[a + i - 1]
         /\ \A i \in 1 .. Len(s) : i >= a /\ i <= m => \E j \in 1 .. Len(Part(s, a, m)) : Part(s, a, m)[j] = s[i]
<1> DEFINE last == IF m < Len(s) THEN m ELSE Len(s)
           t == Part(s, a, m)
<1>1. Len(s) \in Nat /\ last \in Nat /\ last <= Len(s) /\ a \in Nat \ {0}
  OBVIOUS
<1>2. t = SubSeq(s, a, last)
  BY DEF Part
<1>5. /\ t \in Seq(R) /\ Len(t) = (IF a <= last THEN last - a + 1 ELSE 0) /\ DOMAIN t = 1 .. Len(t)
      /\ \A i \in 1 .. Len(t) : a + i - 1 \in 1 .. Len(s) /\ t[i] = s[a + i - 1]
      /\ \A i \in 1 .. Len(s) : i >= a /\ i <= m => \E j \in 1 .. Len(t) : t[j] = s[i]
  <2>c. CASE a <= last
    <3>1. a \in Int /\ last \in Int
      BY <1>1
    <3>2. \A i \in a .. last : s[i] \in R
      BY <1>1
    <3>3. \A i \in 1 .. Len(s) : i >= a /\ i <= m => i - a + 1 \in 1 .. last - a + 1 /\ a + (i - a + 1) - 1 = i
      BY <1>1, <2>c
    <3>4. \A i \in 1 .. last - a + 1 : a + i - 1 \in 1 .. Len(s)
      BY <1>1, <2>c
    <3>5. last - a + 1 \in Nat /\ a <= last
      BY <1>1, <2>c
    <3> HIDE DEF last
    <3>6. /\ SubSeq(s, a, last) \in Seq(R)
          /\ Len(SubSeq(s, a, last)) = IF a <= last THEN last - a + 1 ELSE 0
          /\ \A i \in 1 .. last - a + 1 : SubSeq(s, a, last)[i] = s[a + i - 1]
      BY <3>1, <3>2, SubSeqProperties
    <3> HIDE DEF t
    <3>7. /\ t \in Seq(R) /\ Len(t) = IF a <= last THEN last - a + 1 ELSE 0
          /\ \A i \in 1 .. last - a + 1 : t[i] = s[a + i - 1]
      BY <1>2, <3>6, Zenon
    <3>8. t \in Seq(R) /\ Len(t) = last - a + 1
      BY <3>5, <3>7
    <3>9. \A i \in 1 .. Len(s) : i >= a /\ i <= m => \E j \in 1 .. last - a + 1 : t[j] = s[i]
      BY <3>3, <3>7
    <3> QED
      BY <2>c, <3>4, <3>7, <3>8, <3>9
  <2>d. CASE ~(a <= last)
    <3>1. a > last /\ \A i \in 1 .. Len(s) : ~(i >= a /\ i <= m)
      BY <1>1, <2>d
    <3> HIDE DEF last, t
    <3>2. t = <<>>
      BY <1>1, <1>2, <3>1
    <3>3. t \in Seq(R) /\ Len(t) = 0 /\ DOMAIN t = 1 .. Len(t)
      <4>1. <<>> \in Seq(R) /\ Len(<<>>) = 0 /\ DOMAIN <<>> = 1 .. 0
        OBVIOUS
      <4> QED
        BY <3>2, <4>1, Zenon
    <3>4. ~(a <= last)
      BY <2>d
    <3> QED
      BY <3>1, <3>3, <3>4
  <2> QED
    BY <2>c, <2>d
<1> HIDE DEF t
<1>6. /\ m < Len(s) /\ a <= m => Len(t) = m - a + 1
      /\ Len(s) <= m /\ a <= Len(s) => Len(t) = Len(s) - a + 1
      /\ m < a \/ Len(s) < a => Len(t) = 0
  <2> DEFINE z == Len(t)
  <2>2. z = IF a <= last THEN last - a + 1 ELSE 0
    BY <1>5
  <2> HIDE DEF z
  <2>3. /\ m < Len(s) /\ a <= m => z = m - a + 1
        /\ Len(s) <= m /\ a <= Len(s) => z = Len(s) - a + 1
        /\ m < a \/ Len(s) < a => z = 0
    BY <1>1, <2>2
  <2> QED
    BY <2>3 DEF z
<1> QED
  BY <1>5, <1>6 DEF t

\* The first of an order: what is left out comes after each of them, and is so
\* only where there are as many as there may be.
LEMMA FirstOfOrder ==
  ASSUME NEW S, IsFiniteSet(S), NEW R, StrictlyOrders(R, S), NEW m \in Nat \ {0}
  PROVE  LET t == Part(InOrder(S, R), 1, m)
         IN /\ t \in Seq(S) /\ Len(t) <= m /\ DOMAIN t = 1 .. Len(t) /\ ToSet(t) \subseteq S
            /\ \A x \in S \ ToSet(t) : Len(t) = m /\ \A y \in ToSet(t) : <<y, x>> \in R
            /\ Cardinality(S) <= m => ToSet(t) = S
<1> DEFINE e == InOrder(S, R)
           n == Cardinality(S)
           t == Part(e, 1, m)
<1>1. /\ n \in Nat /\ e \in [1 .. n -> S]
      /\ \A i, j \in 1 .. n : i < j => <<e[i], e[j]>> \in R
      /\ \A x \in S : \E i \in 1 .. n : e[i] = x
  BY Enumerated
<1> HIDE DEF e, n
<1>2. e \in Seq(S) /\ Len(e) = n
  BY <1>1
<1>3. /\ t \in Seq(S) /\ Len(t) = (IF m < n THEN m ELSE n) /\ DOMAIN t = 1 .. Len(t)
      /\ \A i \in 1 .. Len(t) : i \in 1 .. n /\ t[i] = e[i]
      /\ \A i \in 1 .. n : i <= m => \E j \in 1 .. Len(t) : t[j] = e[i]
  <2>0. PICK k \in Nat : k = m
    OBVIOUS
  <2>1. 1 \in Nat \ {0} /\ e \in Seq(S)
    BY <1>2
  <2>k. /\ Part(e, 1, k) \in Seq(S) /\ DOMAIN Part(e, 1, k) = 1 .. Len(Part(e, 1, k))
        /\ k < Len(e) /\ 1 <= k => Len(Part(e, 1, k)) = k - 1 + 1
        /\ Len(e) <= k /\ 1 <= Len(e) => Len(Part(e, 1, k)) = Len(e) - 1 + 1
        /\ k < 1 \/ Len(e) < 1 => Len(Part(e, 1, k)) = 0
        /\ \A i \in 1 .. Len(Part(e, 1, k)) : 1 + i - 1 \in 1 .. Len(e) /\ Part(e, 1, k)[i] = e[1 + i - 1]
        /\ \A i \in 1 .. Len(e) : i >= 1 /\ i <= k => \E j \in 1 .. Len(Part(e, 1, k)) : Part(e, 1, k)[j] = e[i]
    BY <2>1, PartIs
  <2>2. /\ t \in Seq(S) /\ DOMAIN t = 1 .. Len(t)
        /\ m < Len(e) /\ 1 <= m => Len(t) = m - 1 + 1
        /\ Len(e) <= m /\ 1 <= Len(e) => Len(t) = Len(e) - 1 + 1
        /\ m < 1 \/ Len(e) < 1 => Len(t) = 0
        /\ \A i \in 1 .. Len(t) : 1 + i - 1 \in 1 .. Len(e) /\ t[i] = e[1 + i - 1]
        /\ \A i \in 1 .. Len(e) : i >= 1 /\ i <= m => \E j \in 1 .. Len(t) : t[j] = e[i]
    BY <2>0, <2>k
  <2> HIDE DEF t
  <2>3. \A i \in 1 .. Len(t) : 1 + i - 1 = i
    OBVIOUS
  <2>4. Len(t) = IF m < n THEN m ELSE n
    <3> DEFINE z == Len(t)
    <3>1. /\ m < n /\ 1 <= m => z = m - 1 + 1
          /\ n <= m /\ 1 <= n => z = n - 1 + 1
          /\ m < 1 \/ n < 1 => z = 0
      BY <1>2, <2>2, Zenon
    <3> HIDE DEF z
    <3>2. z = IF m < n THEN m ELSE n
      BY <1>1, <3>1
    <3> QED
      BY <3>2 DEF z
  <2> QED
    BY <1>1, <1>2, <2>2, <2>3, <2>4
<1> HIDE DEF t
<1>4. ToSet(t) \subseteq S
  BY <1>3 DEF ToSet
<1>5. ASSUME NEW x \in S \ ToSet(t) PROVE Len(t) = m /\ \A y \in ToSet(t) : <<y, x>> \in R
  <2>1. PICK i \in 1 .. n : e[i] = x
    BY <1>1
  <2>2. i > m
    <3>1. SUFFICES ASSUME i <= m PROVE FALSE
      BY <1>1
    <3>2. PICK j \in 1 .. Len(t) : t[j] = x
      BY <1>3, <2>1, <3>1
    <3>3. x \in ToSet(t)
      BY <1>3, <3>2 DEF ToSet
    <3> QED
      BY <1>5, <3>3
  <2>3. m < n /\ Len(t) = m
    BY <1>1, <1>3, <2>1, <2>2
  <2>4. ASSUME NEW y \in ToSet(t) PROVE <<y, x>> \in R
    <3>1. PICK j \in 1 .. Len(t) : y = t[j]
      BY <1>3 DEF ToSet
    <3>2. j \in 1 .. n /\ y = e[j] /\ j < i
      BY <1>1, <1>3, <2>1, <2>2, <2>3, <3>1
    <3> QED
      BY <1>1, <2>1, <3>2
  <2> QED
    BY <2>3, <2>4
<1>6. n <= m => ToSet(t) = S
  <2> SUFFICES ASSUME n <= m, NEW x \in S PROVE x \in ToSet(t)
    BY <1>4
  <2>1. PICK i \in 1 .. n : e[i] = x
    BY <1>1
  <2> QED
    BY <1>1, <1>3, <2>1 DEF ToSet
<1>7. Len(t) <= m
  BY <1>1, <1>3
<1> QED
  BY <1>3, <1>4, <1>5, <1>6, <1>7 DEF t, e, n

-----------------------------------------------------------------------------
(* The list                                                                *)

\* A lesson is listed once, and no article is listed without one; whoever reads
\* on has seen what was there at first, as far as they have read.
ShelfGood ==
  /\ lessons \in Seq(Links) /\ state \in [Links -> {"no", "pending", "complete", "failed"}]
  /\ liked \subseteq Links /\ dismissed \subseteq Links /\ hidden \subseteq Links
  /\ reader \in [open: BOOLEAN, offset: Nat, seen: SUBSET Links, begun: SUBSET Links]
  /\ changes \in 0 .. MaxChanges
  /\ \A a \in Links : state[a] # "no" <=> \E i \in 1 .. Len(lessons) : lessons[i] = a
  /\ \A i, j \in 1 .. Len(lessons) : lessons[i] = lessons[j] => i = j
  /\ \A a \in reader.begun : \E i \in 1 .. Len(lessons) : lessons[i] = a
  /\ ~reader.open => reader.begun \subseteq reader.seen
  /\ reader.open => \A i \in 1 .. Len(lessons) :
       lessons[i] \in reader.begun /\ i > Len(lessons) - reader.offset => lessons[i] \in reader.seen

LEMMA ShelfInitGood == ShelfInit => ShelfGood
<1> SUFFICES ASSUME ShelfInit PROVE ShelfGood
  OBVIOUS
<1>1. Cardinality(Links) \in Links
  <2>1. Cardinality(Links) \in Nat /\ Links = 1 .. Cardinality(Links) /\ Links # {}
    BY ShelfAssumption, FS_CardinalityType
  <2> QED
    BY <2>1
<1>2. lessons = <<>> /\ lessons \in Seq(Links) /\ Len(lessons) = 0 /\ 1 .. Len(lessons) = {}
  BY DEF ShelfInit
<1>3. /\ reader \in [open: BOOLEAN, offset: Nat, seen: SUBSET Links, begun: SUBSET Links]
      /\ reader.begun = {} /\ reader.open = FALSE
  BY DEF ShelfInit, Away
<1>4. \A a \in Links : state[a] = "no"
  BY DEF ShelfInit
<1>5. /\ state \in [Links -> {"no", "pending", "complete", "failed"}] /\ hidden \subseteq Links
      /\ liked = {} /\ dismissed = {} /\ changes \in 0 .. MaxChanges
  BY <1>1, ShelfAssumption DEF ShelfInit
<1> QED
  BY <1>2, <1>3, <1>4, <1>5 DEF ShelfGood

LEMMA PageReadGood ==
  ASSUME ShelfGood, NEW offset \in Nat, NEW seen \in SUBSET Links, NEW begun \in SUBSET Links,
         \A a \in begun : \E i \in 1 .. Len(lessons) : lessons[i] = a,
         \A i \in 1 .. Len(lessons) :
           lessons[i] \in begun /\ i > Len(lessons) - offset => lessons[i] \in seen,
         Read(offset, seen, begun), UNCHANGED <<lessons, state, liked, dismissed, hidden, changes>>
  PROVE  ShelfGood'
<1> DEFINE n == Len(lessons)
           page == PageAt(offset)
           rev == Reverse(lessons)
           m == offset + PageLimit
<1>1. lessons \in Seq(Links) /\ n \in Nat /\ PageLimit \in Nat \ {0} /\ m \in Nat /\ offset + 1 \in Nat \ {0}
  BY ShelfAssumption DEF ShelfGood
<1>2. rev \in Seq(Links) /\ Len(rev) = n /\ \A i \in 1 .. n : rev[n - i + 1] = lessons[i] /\ n - i + 1 \in 1 .. n
  <2>1. rev = [j \in 1 .. n |-> lessons[n - j + 1]]
    BY DEF Reverse
  <2>2. \A j \in 1 .. n : lessons[n - j + 1] \in Links /\ n - j + 1 \in 1 .. n /\ n - (n - j + 1) + 1 = j
    BY <1>1
  <2> HIDE DEF n, rev
  <2>3. rev \in [1 .. n -> Links]
    BY <2>1, <2>2
  <2> QED
    BY <1>1, <2>1, <2>2, <2>3
<1> HIDE DEF rev, n
<1>3. /\ page \in Seq(Links) /\ DOMAIN page = 1 .. Len(page)
      /\ \A i \in 1 .. n : i >= offset + 1 /\ i <= m => \E j \in 1 .. Len(page) : page[j] = rev[i]
  <2>1. page = Part(rev, offset + 1, m)
    BY DEF PageAt, rev
  <2>2. /\ Part(rev, offset + 1, m) \in Seq(Links)
        /\ DOMAIN Part(rev, offset + 1, m) = 1 .. Len(Part(rev, offset + 1, m))
        /\ \A i \in 1 .. Len(rev) : i >= offset + 1 /\ i <= m =>
             \E j \in 1 .. Len(Part(rev, offset + 1, m)) : Part(rev, offset + 1, m)[j] = rev[i]
    <3>1. PICK a \in Nat \ {0} : a = offset + 1
      BY <1>1
    <3>2. PICK k \in Nat : k = m
      BY <1>1
    <3>3. /\ Part(rev, a, k) \in Seq(Links)
          /\ DOMAIN Part(rev, a, k) = 1 .. Len(Part(rev, a, k))
          /\ \A i \in 1 .. Len(rev) : i >= a /\ i <= k =>
               \E j \in 1 .. Len(Part(rev, a, k)) : Part(rev, a, k)[j] = rev[i]
      <4>1. rev \in Seq(Links)
        BY <1>2
      <4> QED
        BY <4>1, PartIs
    <3> QED
      BY <3>1, <3>2, <3>3
  <2> QED
    BY <1>2, <2>1, <2>2
<1> HIDE DEF page
<1>4. ToSet(page) \in SUBSET Links
  BY <1>3 DEF ToSet
<1>5. \A i \in 1 .. n : i > n - m /\ i <= n - offset => lessons[i] \in ToSet(page)
  <2> SUFFICES ASSUME NEW i \in 1 .. n, i > n - m, i <= n - offset PROVE lessons[i] \in ToSet(page)
    OBVIOUS
  <2>1. n - i + 1 \in 1 .. n /\ n - i + 1 >= offset + 1 /\ n - i + 1 <= m
    BY <1>1
  <2>2. \E j \in 1 .. Len(page) : page[j] = rev[n - i + 1]
    BY <1>3, <2>1
  <2> QED
    BY <1>2, <1>3, <2>2 DEF ToSet
<1> DEFINE next == [open |-> m < n, offset |-> m, seen |-> seen \cup ToSet(page), begun |-> begun]
<1>6. reader' = next
  BY DEF Read, page, m, n
<1> DEFINE more == m < n
<1>7. more \in BOOLEAN /\ (more <=> m < n)
  OBVIOUS
<1> HIDE DEF more
<1>8. /\ reader' \in [open: BOOLEAN, offset: Nat, seen: SUBSET Links, begun: SUBSET Links]
      /\ reader'.open = more /\ reader'.offset = m /\ reader'.seen = seen \cup ToSet(page) /\ reader'.begun = begun
  <2>1. reader' = [open |-> more, offset |-> m, seen |-> seen \cup ToSet(page), begun |-> begun]
    BY <1>6, Zenon DEF more
  <2> HIDE DEF next, m
  <2>2. m \in Nat /\ seen \cup ToSet(page) \in SUBSET Links
    BY <1>1, <1>4
  <2> QED
    BY <1>7, <2>1, <2>2
<1> HIDE DEF m, next
<1>9. \A i \in 1 .. n : lessons[i] \in begun /\ i > n - m => lessons[i] \in seen \cup ToSet(page)
  <2> SUFFICES ASSUME NEW i \in 1 .. n, lessons[i] \in begun, i > n - m
               PROVE  lessons[i] \in seen \cup ToSet(page)
    OBVIOUS
  <2>1. CASE i > n - offset
    BY <2>1 DEF n
  <2>2. CASE ~(i > n - offset)
    <3>1. i <= n - offset
      BY <1>1, <2>2
    <3> QED
      BY <1>5, <3>1
  <2> QED
    BY <2>1, <2>2
<1>10. ~more => begun \subseteq seen \cup ToSet(page)
  <2> SUFFICES ASSUME ~more, NEW a \in begun PROVE a \in seen \cup ToSet(page)
    OBVIOUS
  <2>1. PICK i \in 1 .. n : lessons[i] = a
    BY DEF n
  <2>2. i > n - m
    <3>1. m \in Nat /\ ~(m < n)
      BY <1>1, <1>7
    <3> QED
      BY <1>1, <3>1
  <2> QED
    BY <1>9, <2>1, <2>2
<1>11. /\ ~reader'.open => reader'.begun \subseteq reader'.seen
       /\ \A i \in 1 .. n : lessons[i] \in reader'.begun /\ i > n - reader'.offset => lessons[i] \in reader'.seen
  BY <1>8, <1>9, <1>10
<1> QED
  BY <1>8, <1>11 DEF ShelfGood, n

LEMMA ShelfStepGood == ShelfGood /\ [ShelfNext]_shelfVars => ShelfGood'
<1> SUFFICES ASSUME ShelfGood, [ShelfNext]_shelfVars PROVE ShelfGood'
  OBVIOUS
<1>1. CASE UNCHANGED shelfVars
  BY <1>1 DEF shelfVars, ShelfGood
<1>2. CASE FirstPage
  <2>1. Read(0, {}, ToSet(lessons)) /\ UNCHANGED <<lessons, state, liked, dismissed, hidden, changes>>
    BY <1>2 DEF FirstPage
  <2>2. lessons \in Seq(Links) /\ Len(lessons) \in Nat /\ DOMAIN lessons = 1 .. Len(lessons)
    BY DEF ShelfGood
  <2>3. /\ ToSet(lessons) \in SUBSET Links
        /\ \A a \in ToSet(lessons) : \E i \in 1 .. Len(lessons) : lessons[i] = a
    BY <2>2 DEF ToSet
  <2>4. \A i \in 1 .. Len(lessons) : ~(i > Len(lessons) - 0)
    BY <2>2
  <2>5. 0 \in Nat /\ {} \in SUBSET Links
    OBVIOUS
  <2> QED
    BY <2>1, <2>3, <2>4, <2>5, PageReadGood
<1>3. CASE NextPage
  <2>1. /\ reader.open /\ Read(reader.offset, reader.seen, reader.begun)
        /\ UNCHANGED <<lessons, state, liked, dismissed, hidden, changes>>
    BY <1>3 DEF NextPage
  <2>2. reader.offset \in Nat /\ reader.seen \in SUBSET Links /\ reader.begun \in SUBSET Links
    BY DEF ShelfGood
  <2>3. /\ \A a \in reader.begun : \E i \in 1 .. Len(lessons) : lessons[i] = a
        /\ \A i \in 1 .. Len(lessons) :
             lessons[i] \in reader.begun /\ i > Len(lessons) - reader.offset => lessons[i] \in reader.seen
    BY <2>1 DEF ShelfGood
  <2> QED
    BY <2>1, <2>2, <2>3, PageReadGood
<1>4. ASSUME NEW a \in Links, CreateLesson(a) PROVE ShelfGood'
  <2>0. /\ lessons \in Seq(Links) /\ Len(lessons) \in Nat /\ state \in [Links -> {"no", "pending", "complete", "failed"}]
        /\ \A b \in Links : state[b] # "no" <=> \E i \in 1 .. Len(lessons) : lessons[i] = b
        /\ \A i, j \in 1 .. Len(lessons) : lessons[i] = lessons[j] => i = j
        /\ \A b \in reader.begun : \E i \in 1 .. Len(lessons) : lessons[i] = b
        /\ reader.open => \A i \in 1 .. Len(lessons) :
             lessons[i] \in reader.begun /\ i > Len(lessons) - reader.offset => lessons[i] \in reader.seen
        /\ reader.offset \in Nat /\ reader.begun \subseteq Links
    BY DEF ShelfGood
  <2>1. /\ lessons' = IF state[a] = "no" THEN Append(lessons, a) ELSE lessons
        /\ state' = [state EXCEPT ![a] = "pending"]
        /\ UNCHANGED <<liked, dismissed, hidden, reader, changes>>
    BY <1>4 DEF CreateLesson
  <2>2. /\ state' \in [Links -> {"no", "pending", "complete", "failed"}] /\ state'[a] = "pending"
        /\ \A b \in Links : b # a => state'[b] = state[b]
    BY <2>0, <2>1
  <2>3. CASE state[a] # "no"
    <3>1. lessons' = lessons
      BY <2>1, <2>3
    <3>2. \A b \in Links : state'[b] # "no" <=> \E i \in 1 .. Len(lessons) : lessons[i] = b
      BY <2>0, <2>2, <2>3
    <3> QED
      BY <2>1, <2>2, <3>1, <3>2 DEF ShelfGood
  <2>4. CASE state[a] = "no"
    <3>1. /\ lessons' \in Seq(Links) /\ Len(lessons') = Len(lessons) + 1
          /\ \A i \in 1 .. Len(lessons) : lessons'[i] = lessons[i]
          /\ lessons'[Len(lessons) + 1] = a
      BY <2>0, <2>1, <2>4
    <3>2. /\ \A i \in 1 .. Len(lessons') : i \in 1 .. Len(lessons) \/ i = Len(lessons) + 1
          /\ \A i \in 1 .. Len(lessons) : i \in 1 .. Len(lessons')
          /\ Len(lessons) + 1 \in 1 .. Len(lessons')
      BY <2>0, <3>1
    <3>3. \A i \in 1 .. Len(lessons) : lessons[i] # a
      BY <2>0, <2>4
    <3>4. \A b \in Links : state'[b] # "no" <=> \E i \in 1 .. Len(lessons') : lessons'[i] = b
      BY <2>0, <2>2, <3>1, <3>2
    <3>5. \A i, j \in 1 .. Len(lessons') : lessons'[i] = lessons'[j] => i = j
      BY <2>0, <3>1, <3>2, <3>3
    <3>6. \A b \in reader.begun : \E i \in 1 .. Len(lessons') : lessons'[i] = b
      BY <2>0, <3>1, <3>2
    <3>7. a \notin reader.begun
      BY <2>0, <2>4
    <3>8. reader.open => \A i \in 1 .. Len(lessons') :
            lessons'[i] \in reader.begun /\ i > Len(lessons') - reader.offset => lessons'[i] \in reader.seen
      <4> SUFFICES ASSUME reader.open, NEW i \in 1 .. Len(lessons'), lessons'[i] \in reader.begun,
                          i > Len(lessons') - reader.offset
                   PROVE  lessons'[i] \in reader.seen
        OBVIOUS
      <4>1. i \in 1 .. Len(lessons) /\ lessons'[i] = lessons[i]
        BY <3>1, <3>2, <3>7
      <4>2. i > Len(lessons) - reader.offset
        BY <2>0, <3>1, <4>1
      <4> QED
        BY <2>0, <4>1, <4>2
    <3> QED
      BY <2>1, <2>2, <3>1, <3>4, <3>5, <3>6, <3>8 DEF ShelfGood
  <2> QED
    BY <2>3, <2>4
<1>5. ASSUME NEW a \in Links, EndLesson(a) PROVE ShelfGood'
  <2>1. PICK e \in {"complete", "failed"} : state' = [state EXCEPT ![a] = e]
    BY <1>5 DEF EndLesson
  <2>2. state[a] # "no" /\ UNCHANGED <<lessons, liked, dismissed, hidden, reader, changes>>
    BY <1>5 DEF EndLesson
  <2>3. /\ state' \in [Links -> {"no", "pending", "complete", "failed"}]
        /\ \A b \in Links : state'[b] # "no" <=> state[b] # "no"
    BY <2>1, <2>2 DEF ShelfGood
  <2> QED
    BY <2>2, <2>3 DEF ShelfGood
<1>6. ASSUME NEW a \in Links, Like(a) \/ Dismiss(a) PROVE ShelfGood'
  <2>1. /\ changes' \in 0 .. MaxChanges /\ liked' \subseteq Links /\ dismissed' \subseteq Links
        /\ UNCHANGED <<lessons, state, hidden, reader>>
    <3>1. changes \in 0 .. MaxChanges /\ MaxChanges \in Nat /\ liked \subseteq Links /\ dismissed \subseteq Links
      BY ShelfAssumption DEF ShelfGood
    <3> QED
      BY <1>6, <3>1 DEF Like, Dismiss
  <2> QED
    BY <2>1 DEF ShelfGood
<1> QED
  BY <1>1, <1>2, <1>3, <1>4, <1>5, <1>6 DEF ShelfNext

LEMMA ShelfTyped == ShelfGood => ShelfTypeOK /\ PagesMissNothing
<1> SUFFICES ASSUME ShelfGood PROVE ShelfTypeOK /\ PagesMissNothing
  OBVIOUS
<1>1. \A i \in DOMAIN lessons : lessons[i] \in Links /\ state[lessons[i]] # "no"
  <2>1. lessons \in Seq(Links) /\ DOMAIN lessons = 1 .. Len(lessons)
    BY DEF ShelfGood
  <2>2. \A i \in 1 .. Len(lessons) : lessons[i] \in Links
    BY <2>1
  <2> QED
    BY <2>1, <2>2 DEF ShelfGood
<1> QED
  BY <1>1 DEF ShelfGood, ShelfTypeOK, PagesMissNothing

-----------------------------------------------------------------------------
(* The orders                                                              *)

LEMMA LinksAreNumbers ==
  ASSUME NEW S \in SUBSET Links
  PROVE  /\ IsFiniteSet(S) /\ Links \subseteq Nat
         /\ \A a \in S : a \in Links /\ a \in Nat
         /\ \A a \in S : ContentOf[a].importance \in Int /\ ContentOf[a].score \in Int
<1>1. IsFiniteSet(Links) /\ Links = 1 .. Cardinality(Links)
  BY ShelfAssumption
<1>2. Cardinality(Links) \in Nat /\ IsFiniteSet(S)
  BY <1>1, FS_CardinalityType, FS_Subset
<1>3. Links \subseteq Nat
  BY <1>1, <1>2
<1>4. \A a \in Links : ContentOf[a].importance \in Int /\ ContentOf[a].score \in Int
  <2>1. \A a \in Links : ContentOf[a].importance \in 0 .. 100 /\ ContentOf[a].score \in Int
    BY ShelfAssumption, Zenon
  <2>2. \A n \in 0 .. 100 : n \in Int
    OBVIOUS
  <2> QED
    BY <2>1, <2>2, Zenon
<1> QED
  BY <1>2, <1>3, <1>4

LEMMA NewerOrders ==
  ASSUME NEW S \in SUBSET Links
  PROVE  StrictlyOrders(Newer, S)
<1>1. \A x, y \in S : x \in Nat /\ y \in Nat /\ (<<x, y>> \in Newer <=> x > y)
  BY LinksAreNumbers DEF Newer
<1> QED
  BY <1>1 DEF StrictlyOrders

LEMMA BetterOrders ==
  ASSUME NEW S \in SUBSET Links
  PROVE  StrictlyOrders(Better, S)
<1> DEFINE c == [a \in Links |-> ContentOf[a].score]
<1>1. \A x, y \in S : /\ x \in Nat /\ y \in Nat /\ c[x] \in Int /\ c[y] \in Int
                      /\ <<x, y>> \in Better <=> c[x] > c[y] \/ (c[x] = c[y] /\ x > y)
  BY LinksAreNumbers DEF Better, Newer
<1> HIDE DEF c
<1> QED
  BY <1>1 DEF StrictlyOrders

LEMMA SoonerOrders ==
  ASSUME NEW S \in SUBSET Links
  PROVE  StrictlyOrders(Sooner, S)
<1> DEFINE c == [a \in Links |-> ContentOf[a].importance]
<1>1. \A x, y \in S : /\ x \in Nat /\ y \in Nat /\ c[x] \in Int /\ c[y] \in Int
                      /\ <<x, y>> \in Sooner <=>
                           \/ x \in liked /\ y \notin liked
                           \/ (x \in liked <=> y \in liked) /\ (c[x] > c[y] \/ (c[x] = c[y] /\ x > y))
  BY LinksAreNumbers DEF Sooner
<1> HIDE DEF c
<1> QED
  BY <1>1 DEF StrictlyOrders

LEMMA AddedLaterOrders ==
  ASSUME ShelfGood, NEW S \in SUBSET ToSet(lessons)
  PROVE  StrictlyOrders(AddedLater, S) /\ S \in SUBSET Links
<1>0. /\ lessons \in Seq(Links) /\ Len(lessons) \in Nat /\ DOMAIN lessons = 1 .. Len(lessons)
      /\ \A i, j \in 1 .. Len(lessons) : lessons[i] = lessons[j] => i = j
  BY DEF ShelfGood
<1> DEFINE placeOf == [a \in S |-> CHOOSE i \in 1 .. Len(lessons) : lessons[i] = a]
<1>1. \A a \in S : placeOf[a] \in 1 .. Len(lessons) /\ lessons[placeOf[a]] = a
  <2> SUFFICES ASSUME NEW a \in S PROVE \E i \in 1 .. Len(lessons) : lessons[i] = a
    OBVIOUS
  <2> QED
    BY <1>0 DEF ToSet
<1> HIDE DEF placeOf
<1>2. S \in SUBSET Links
  BY <1>0 DEF ToSet
<1>3. \A x, y \in S : <<x, y>> \in AddedLater <=> placeOf[x] > placeOf[y]
  <2> SUFFICES ASSUME NEW x \in S, NEW y \in S PROVE <<x, y>> \in AddedLater <=> placeOf[x] > placeOf[y]
    OBVIOUS
  <2>1. <<x, y>> \in AddedLater <=> \E i, j \in 1 .. Len(lessons) : i > j /\ lessons[i] = x /\ lessons[j] = y
    BY <1>0, <1>2 DEF AddedLater
  <2>2. \A i, j \in 1 .. Len(lessons) : lessons[i] = x /\ lessons[j] = y => i = placeOf[x] /\ j = placeOf[y]
    BY <1>0, <1>1
  <2> QED
    BY <1>1, <2>1, <2>2
<1>4. \A x \in S : placeOf[x] \in Nat
  BY <1>0, <1>1
<1> QED
  BY <1>1, <1>2, <1>3, <1>4 DEF StrictlyOrders

\* The first of a set in an order.
IsFirst(t, S, R, m) ==
  /\ t \in Seq(S) /\ Len(t) <= m /\ DOMAIN t = 1 .. Len(t) /\ ToSet(t) \subseteq S
  /\ \A x \in S \ ToSet(t) : Len(t) = m /\ \A y \in ToSet(t) : <<y, x>> \in R
  /\ Cardinality(S) <= m => ToSet(t) = S

LEMMA FirstOrdered ==
  ASSUME NEW S, IsFiniteSet(S), NEW R, StrictlyOrders(R, S), NEW m \in Nat \ {0}
  PROVE  IsFirst(Part(Ordered(S, R), 1, m), S, R, m)
<1>1. Ordered(S, R) = InOrder(S, R)
  BY DEF Ordered, InOrder, Before
<1>2. IsFirst(Part(InOrder(S, R), 1, m), S, R, m)
  BY FirstOfOrder DEF IsFirst
<1> QED
  BY <1>1, <1>2

LEMMA BestAreSuggested == ShelfGood => SuggestionsAreBest
<1> SUFFICES ASSUME ShelfGood PROVE SuggestionsAreBest
  OBVIOUS
<1> DEFINE pool == Pool
           best == Suggested
<1>0. PoolLimit \in Nat \ {0} /\ Suggestions \in Nat \ {0} /\ liked \ hidden \in SUBSET Links
  BY ShelfAssumption DEF ShelfGood
<1>1. ToSet(Pool) \subseteq liked \ hidden /\ (Cardinality(liked \ hidden) <= PoolLimit => ToSet(Pool) = liked \ hidden)
  <2>1. IsFiniteSet(liked \ hidden) /\ StrictlyOrders(Newer, liked \ hidden)
    BY <1>0, NewerOrders, LinksAreNumbers
  <2>2. Pool = Part(Ordered(liked \ hidden, Newer), 1, PoolLimit)
    BY DEF Pool
  <2>3. IsFirst(Pool, liked \ hidden, Newer, PoolLimit)
    BY <1>0, <2>1, <2>2, FirstOrdered
  <2> QED
    BY <2>3 DEF IsFirst
<1>2. Eligible \in SUBSET Links
  BY <1>0, <1>1 DEF Eligible
<1>3. /\ ToSet(Suggested) \subseteq Eligible
      /\ \A x \in Eligible \ ToSet(Suggested) :
           Len(Suggested) = Suggestions /\ \A y \in ToSet(Suggested) : <<y, x>> \in Better
  <2>1. IsFiniteSet(Eligible) /\ StrictlyOrders(Better, Eligible)
    BY <1>2, BetterOrders, LinksAreNumbers
  <2>2. Suggested = Part(Ordered(Eligible, Better), 1, Suggestions)
    BY DEF Suggested
  <2>3. IsFirst(Suggested, Eligible, Better, Suggestions)
    BY <1>0, <2>1, <2>2, FirstOrdered
  <2> QED
    BY <2>3 DEF IsFirst
<1>4. \A a \in ToSet(Suggested) : a \in liked \ (dismissed \cup hidden) /\ state[a] = "no"
  BY <1>1, <1>3 DEF Eligible
<1>5. ASSUME Cardinality(liked \ hidden) <= PoolLimit,
             NEW a \in liked \ (dismissed \cup hidden), state[a] = "no", a \notin ToSet(Suggested)
      PROVE  Len(Suggested) = Suggestions /\ \A b \in ToSet(Suggested) : <<b, a>> \in Better
  <2>1. a \in Eligible
    BY <1>1, <1>5 DEF Eligible
  <2> QED
    BY <1>3, <1>5, <2>1
<1> QED
  BY <1>4, <1>5 DEF SuggestionsAreBest

-----------------------------------------------------------------------------
(* The trail                                                               *)

Item == [type: {"lesson", "article"}, id: Links, path: Paths]

Groups == [Paths -> Seq(Item)]

TrailStep(l, groups, item) == IF Shared(l, item.id) = {} THEN groups ELSE AddItem(groups, item)

\* The way to a place is its type's, and leads to where it may.
WayFits(l, it) ==
  /\ it.type = "lesson" => it.id # l /\ state[it.id] = "complete" /\ it.path = LessonPath(l, it.id)
  /\ it.type = "article" => it.id \notin hidden /\ it.path = ArticlePath(l, it.id)

LEMMA PathsTyped ==
  ASSUME NEW l \in Links, NEW a \in Links
  PROVE  LessonPath(l, a) \in Paths /\ ArticlePath(l, a) \in Paths
  BY DEF LessonPath, ArticlePath, Paths

LEMMA ItemsFit ==
  ASSUME ShelfGood, NEW l \in Links
  PROVE  Items(l) \in Seq(Item) /\ \A k \in 1 .. Len(Items(l)) : WayFits(l, Items(l)[k])
<1> DEFINE ways == OtherLessons(l)
           pages == Corpus
           A == {a \in ToSet(lessons) : a # l /\ state[a] = "complete"}
           B == Links \ hidden
           Way(a) == [type |-> "lesson", id |-> a, path |-> LessonPath(l, a)]
           Leaf(a) == [type |-> "article", id |-> a, path |-> ArticlePath(l, a)]
           s1 == [i \in DOMAIN ways |-> Way(ways[i])]
           s2 == [i \in DOMAIN pages |-> Leaf(pages[i])]
<1>0. TrailPool \in Nat \ {0} /\ A \in SUBSET ToSet(lessons) /\ B \in SUBSET Links
  BY ShelfAssumption
<1>1. A \in SUBSET Links /\ ways \in Seq(A)
  <2>1. StrictlyOrders(AddedLater, A) /\ A \in SUBSET Links
    BY <1>0, AddedLaterOrders
  <2>2. IsFiniteSet(A)
    BY <2>1, LinksAreNumbers
  <2>3. ways = Part(Ordered(A, AddedLater), 1, TrailPool)
    BY DEF OtherLessons
  <2> HIDE DEF A, ways
  <2>4. IsFirst(ways, A, AddedLater, TrailPool)
    BY <1>0, <2>1, <2>2, <2>3, FirstOrdered
  <2> QED
    BY <2>1, <2>4 DEF IsFirst
<1>2. pages \in Seq(B)
  <2>1. StrictlyOrders(Sooner, B) /\ IsFiniteSet(B)
    BY <1>0, SoonerOrders, LinksAreNumbers
  <2>3. pages = Part(Ordered(B, Sooner), 1, TrailPool)
    BY DEF Corpus
  <2> HIDE DEF B, pages
  <2>4. IsFirst(pages, B, Sooner, TrailPool)
    BY <1>0, <2>1, <2>3, FirstOrdered
  <2> QED
    BY <2>4 DEF IsFirst
<1>3. Items(l) = s1 \o s2
  BY DEF Items
<1>4. ASSUME NEW a \in A PROVE Way(a) \in Item /\ WayFits(l, Way(a))
  <2>1. a \in Links /\ LessonPath(l, a) \in Paths
    BY <1>1, PathsTyped
  <2>2. Way(a) \in Item /\ Way(a).type = "lesson" /\ Way(a).id = a /\ Way(a).path = LessonPath(l, a)
    BY <2>1 DEF Item
  <2> HIDE DEF Way
  <2> QED
    BY <2>2 DEF WayFits
<1>5. ASSUME NEW a \in B PROVE Leaf(a) \in Item /\ WayFits(l, Leaf(a))
  <2>1. a \in Links /\ ArticlePath(l, a) \in Paths
    BY PathsTyped
  <2>2. Leaf(a) \in Item /\ Leaf(a).type = "article" /\ Leaf(a).id = a /\ Leaf(a).path = ArticlePath(l, a)
    BY <2>1 DEF Item
  <2> HIDE DEF Leaf
  <2> QED
    BY <2>2 DEF WayFits
<1> HIDE DEF ways, pages, A, B, Way, Leaf
<1>6. s1 \in Seq(Item) /\ Len(s1) \in Nat /\ \A i \in 1 .. Len(s1) : WayFits(l, s1[i])
  <2>1. DOMAIN ways = 1 .. Len(ways) /\ Len(ways) \in Nat /\ \A i \in 1 .. Len(ways) : ways[i] \in A
    BY <1>1
  <2>2. \A i \in 1 .. Len(ways) : s1[i] = Way(ways[i]) /\ s1[i] \in Item /\ WayFits(l, s1[i])
    BY <1>4, <2>1
  <2>3. DOMAIN s1 = 1 .. Len(ways) /\ s1 = [i \in 1 .. Len(ways) |-> s1[i]]
    BY <2>1
  <2> HIDE DEF s1
  <2>4. s1 \in [1 .. Len(ways) -> Item]
    BY <2>2, <2>3
  <2>5. s1 \in Seq(Item) /\ Len(s1) = Len(ways)
    BY <2>1, <2>4
  <2> QED
    BY <2>1, <2>2, <2>5
<1>7. s2 \in Seq(Item) /\ Len(s2) \in Nat /\ \A i \in 1 .. Len(s2) : WayFits(l, s2[i])
  <2>1. DOMAIN pages = 1 .. Len(pages) /\ Len(pages) \in Nat /\ \A i \in 1 .. Len(pages) : pages[i] \in B
    BY <1>2
  <2>2. \A i \in 1 .. Len(pages) : s2[i] = Leaf(pages[i]) /\ s2[i] \in Item /\ WayFits(l, s2[i])
    BY <1>5, <2>1
  <2>3. DOMAIN s2 = 1 .. Len(pages) /\ s2 = [i \in 1 .. Len(pages) |-> s2[i]]
    BY <2>1
  <2> HIDE DEF s2
  <2>4. s2 \in [1 .. Len(pages) -> Item]
    BY <2>2, <2>3
  <2>5. s2 \in Seq(Item) /\ Len(s2) = Len(pages)
    BY <2>1, <2>4
  <2> QED
    BY <2>1, <2>2, <2>5
<1> HIDE DEF s1, s2
<1>8. /\ s1 \o s2 \in Seq(Item) /\ Len(s1 \o s2) = Len(s1) + Len(s2)
      /\ \A i \in 1 .. Len(s1) + Len(s2) : (s1 \o s2)[i] = IF i <= Len(s1) THEN s1[i] ELSE s2[i - Len(s1)]
  BY <1>6, <1>7
<1>9. ASSUME NEW i \in 1 .. Len(s1) + Len(s2) PROVE WayFits(l, (s1 \o s2)[i])
  <2>1. CASE i <= Len(s1)
    <3>1. i \in 1 .. Len(s1) /\ (s1 \o s2)[i] = s1[i]
      BY <1>6, <1>7, <1>8, <2>1
    <3> QED
      BY <1>6, <3>1
  <2>2. CASE ~(i <= Len(s1))
    <3>1. i - Len(s1) \in 1 .. Len(s2) /\ (s1 \o s2)[i] = s2[i - Len(s1)]
      BY <1>6, <1>7, <1>8, <2>2
    <3> QED
      BY <1>7, <3>1
  <2> QED
    BY <2>1, <2>2
<1> QED
  BY <1>3, <1>8, <1>9

LEMMA TrailStepTyped ==
  ASSUME NEW l, NEW groups \in Groups, NEW item \in Item
  PROVE  /\ TrailStep(l, groups, item) \in Groups
         /\ TrailStep(l, groups, item) # groups =>
              TrailStep(l, groups, item) = [groups EXCEPT ![item.path] = Append(groups[item.path], item)]
<1>1. item.path \in Paths /\ groups[item.path] \in Seq(Item)
  BY DEF Item, Groups
<1>2. Append(groups[item.path], item) \in Seq(Item)
  BY <1>1
<1>3. [groups EXCEPT ![item.path] = Append(groups[item.path], item)] \in Groups
  BY <1>1, <1>2 DEF Groups
<1> QED
  BY <1>3 DEF TrailStep, AddItem

TrailOf(l, base, file) == FoldLeft(LAMBDA groups, item : TrailStep(l, groups, item), base, file)

Stages(st, l, base, file) ==
  /\ st[0] = base /\ st[Len(file)] = TrailOf(l, base, file)
  /\ \A k \in 1 .. Len(file) : st[k] = TrailStep(l, st[k - 1], file[k])

LEMMA TrailStages ==
  ASSUME NEW l, NEW base \in Groups, NEW file \in Seq(Item)
  PROVE  \E st : Stages(st, l, base, file)
<1> DEFINE n == Len(file)
           next == [p \in Groups \X Item |-> TrailStep(l, p[1], p[2])]
           F(f) == f = [s \in SUBSET (1 .. n) |->
                          IF s = {} THEN base ELSE TrailStep(l, f[s \ {Max(s)}], file[Max(s)])]
           g == CHOOSE f : F(f)
<1>1. n \in Nat /\ file \in [1 .. n -> Item] /\ DOMAIN file = 1 .. n
  OBVIOUS
<1>2. next \in [Groups \X Item -> Groups]
  BY TrailStepTyped
<1> HIDE DEF next
<1>3. PICK f \in [SUBSET (1 .. n) -> Groups] : FoldsTo(f, base, n, file, next)
  BY <1>1, <1>2, FoldsExist
<1> HIDE DEF n
<1>4. ASSUME NEW s \in SUBSET (1 .. n), s # {}
      PROVE  next[<<f[s \ {Max(s)}], file[Max(s)]>>] = TrailStep(l, f[s \ {Max(s)}], file[Max(s)])
  <2>1. Max(s) \in 1 .. n /\ s \ {Max(s)} \in SUBSET (1 .. n)
    <3>1. s \in SUBSET (0 .. n)
      BY <1>1
    <3> QED
      BY <1>1, <1>4, <3>1, MaxIsGreatest
  <2>2. f[s \ {Max(s)}] \in Groups /\ file[Max(s)] \in Item
    BY <1>1, <2>1
  <2>3. \A a \in Groups, b \in Item : next[<<a, b>>] = TrailStep(l, a, b)
    BY DEF next
  <2> QED
    BY <2>2, <2>3, Zenon
<1>5. F(f)
  BY <1>3, <1>4, Zenon DEF FoldsTo
<1>6. F(g)
  BY <1>5, Zenon
<1>7. TrailOf(l, base, file) = g[1 .. n]
  BY <1>1 DEF TrailOf, FoldLeft, MapThenFoldSet
<1> HIDE DEF g
<1> DEFINE st == [k \in 0 .. n |-> g[1 .. k]]
<1>8. st[0] = base
  <2>1. st[0] = g[{}] /\ {} \in SUBSET (1 .. n)
    BY <1>1, SMT
  <2> QED
    BY <1>6, <2>1
<1>9. st[n] = TrailOf(l, base, file)
  <2>1. st[n] = g[1 .. n]
    BY <1>1
  <2> QED
    BY <1>7, <2>1, Zenon
<1>10. ASSUME NEW k \in 1 .. n PROVE st[k] = TrailStep(l, st[k - 1], file[k])
  <2>1. 1 .. k \in SUBSET (1 .. n) /\ 1 .. k # {}
        /\ Max(1 .. k) = k /\ (1 .. k) \ {Max(1 .. k)} = 1 .. k - 1
    BY <1>1, FirstNumbers
  <2>2. g[1 .. k] = TrailStep(l, g[1 .. k - 1], file[k])
    BY <1>6, <2>1
  <2>3. st[k] = g[1 .. k] /\ st[k - 1] = g[1 .. k - 1]
    BY <1>1
  <2> QED
    BY <2>2, <2>3, Zenon
<1>11. Stages(st, l, base, file)
  BY <1>8, <1>9, <1>10 DEF n, Stages
<1> QED
  BY <1>11, Zenon

\* What is in a group, and what the groups hold of the first items of a row.
InGroup(groups, it) == \E i \in 1 .. Len(groups[it.path]) : groups[it.path][i] = it

GroupsFit(l, row, k, groups) ==
  /\ groups \in Groups
  /\ \A p \in Paths : Len(groups[p]) <= GroupLimit
  /\ \A p \in Paths : \A i \in 1 .. Len(groups[p]) :
       groups[p][i].path = p /\ \E j \in 1 .. k : groups[p][i] = row[j]
  /\ \A p \in Paths : \A i, j \in 1 .. Len(groups[p]) : groups[p][i] = groups[p][j] => i = j
  /\ \A j \in 1 .. k :
       Shared(l, row[j].id) = {} \/ InGroup(groups, row[j]) \/ Len(groups[row[j].path]) = GroupLimit

LEMMA SamePlace ==
  ASSUME NEW l, NEW x \in Item, NEW y \in Item, WayFits(l, x), WayFits(l, y),
         x.type = y.type, x.id = y.id
  PROVE  x = y
<1>1. x.path = y.path
  BY DEF WayFits, Item
<1> QED
  BY <1>1 DEF Item

LEMMA TrailStepFits ==
  ASSUME NEW l, NEW row \in Seq(Item), \A j \in 1 .. Len(row) : WayFits(l, row[j]),
         NEW k \in 1 .. Len(row), NEW groups, GroupsFit(l, row, k - 1, groups)
  PROVE  GroupsFit(l, row, k, TrailStep(l, groups, row[k]))
<1> DEFINE item == row[k]
           p == item.path
           longer == Append(groups[p], item)
           next == TrailStep(l, groups, item)
<1>0. /\ GroupLimit \in Nat \ {0} /\ k \in Nat /\ k - 1 \in Nat /\ item \in Item /\ p \in Paths
      /\ \A j \in 1 .. k : row[j] \in Item /\ row[j].path \in Paths
      /\ \A j \in 1 .. k : j \in 1 .. k - 1 \/ j = k
      /\ \A j \in 1 .. k - 1 : j \in 1 .. k /\ j \in 1 .. Len(row)
  <2>1. GroupLimit \in Nat \ {0}
    BY ShelfAssumption
  <2>2. Len(row) \in Nat /\ \A j \in 1 .. Len(row) : row[j] \in Item
    OBVIOUS
  <2>3. k \in Nat /\ k - 1 \in Nat /\ \A j \in 1 .. k : j \in 1 .. Len(row) /\ (j \in 1 .. k - 1 \/ j = k)
    BY <2>2
  <2>4. \A j \in 1 .. k - 1 : j \in 1 .. k
    BY <2>3
  <2>5. \A it \in Item : it.path \in Paths
    BY DEF Item
  <2> QED
    BY <2>1, <2>2, <2>3, <2>4, <2>5
<1>1. /\ groups \in [Paths -> Seq(Item)]
      /\ \A q \in Paths : Len(groups[q]) <= GroupLimit
      /\ \A q \in Paths : \A i \in 1 .. Len(groups[q]) :
           groups[q][i].path = q /\ \E j \in 1 .. k - 1 : groups[q][i] = row[j]
      /\ \A q \in Paths : \A i, j \in 1 .. Len(groups[q]) : groups[q][i] = groups[q][j] => i = j
      /\ \A j \in 1 .. k - 1 :
           Shared(l, row[j].id) = {} \/ InGroup(groups, row[j]) \/ Len(groups[row[j].path]) = GroupLimit
  BY DEF GroupsFit, Groups
<1>2. ASSUME next = groups,
             Shared(l, item.id) = {} \/ InGroup(groups, item) \/ Len(groups[p]) = GroupLimit
      PROVE  GroupsFit(l, row, k, groups)
  <2>1. \A q \in Paths : \A i \in 1 .. Len(groups[q]) :
          groups[q][i].path = q /\ \E j \in 1 .. k : groups[q][i] = row[j]
    BY <1>0, <1>1
  <2>2. \A j \in 1 .. k :
          Shared(l, row[j].id) = {} \/ InGroup(groups, row[j]) \/ Len(groups[row[j].path]) = GroupLimit
    BY <1>0, <1>1, <1>2
  <2> QED
    BY <1>1, <2>1, <2>2 DEF GroupsFit, Groups
<1>3. CASE Shared(l, item.id) = {}
  <2>1. next = groups
    BY <1>3 DEF TrailStep
  <2> QED
    BY <1>2, <1>3, <2>1
<1>4. CASE Shared(l, item.id) # {} /\ Len(groups[p]) >= GroupLimit
  <2>1. next = groups
    BY <1>4 DEF TrailStep, AddItem
  <2>2. Len(groups[p]) = GroupLimit
    <3>1. Len(groups[p]) \in Nat /\ Len(groups[p]) <= GroupLimit
      BY <1>0, <1>1
    <3> QED
      BY <1>0, <1>4, <3>1
  <2> QED
    BY <1>2, <2>1, <2>2
<1>5. CASE /\ Shared(l, item.id) # {}
           /\ \E q \in Paths : \E i \in DOMAIN groups[q] : groups[q][i].type = item.type /\ groups[q][i].id = item.id
  <2>1. next = groups
    BY <1>5 DEF TrailStep, AddItem
  <2>2. PICK q \in Paths : \E i \in DOMAIN groups[q] : groups[q][i].type = item.type /\ groups[q][i].id = item.id
    BY <1>5
  <2>3. PICK i \in DOMAIN groups[q] : groups[q][i].type = item.type /\ groups[q][i].id = item.id
    BY <2>2
  <2>4. i \in 1 .. Len(groups[q]) /\ groups[q][i] \in Item
    BY <1>1
  <2>5. PICK j \in 1 .. k - 1 : groups[q][i] = row[j]
    BY <1>1, <2>4
  <2>6. groups[q][i] = item
    BY <1>0, <2>3, <2>4, <2>5, SamePlace
  <2>7. q = p
    BY <1>1, <2>4, <2>6
  <2>8. InGroup(groups, item)
    BY <2>4, <2>6, <2>7 DEF InGroup
  <2> QED
    BY <1>2, <2>1, <2>8
<1>6. CASE /\ Shared(l, item.id) # {} /\ ~(Len(groups[p]) >= GroupLimit)
           /\ ~\E q \in Paths : \E i \in DOMAIN groups[q] : groups[q][i].type = item.type /\ groups[q][i].id = item.id
  <2>1. next = [groups EXCEPT ![p] = longer]
    BY <1>6 DEF TrailStep, AddItem
  <2>2. groups[p] \in Seq(Item) /\ Len(groups[p]) \in Nat /\ DOMAIN groups[p] = 1 .. Len(groups[p])
    BY <1>0, <1>1
  <2> DEFINE n == Len(groups[p])
  <2>3. /\ longer \in Seq(Item) /\ Len(longer) = n + 1 /\ longer[n + 1] = item
        /\ \A i \in 1 .. n : longer[i] = groups[p][i]
        /\ \A i \in 1 .. n + 1 : i \in 1 .. n \/ i = n + 1
        /\ \A i \in 1 .. n : i \in 1 .. n + 1 /\ n + 1 \in 1 .. n + 1
    <3>1. longer \in Seq(Item) /\ Len(longer) = n + 1 /\ longer[n + 1] = item
      BY <1>0, <2>2
    <3>2. \A i \in 1 .. n : longer[i] = groups[p][i]
      BY <1>0, <2>2
    <3> HIDE DEF n
    <3>3. n \in Nat
      BY <2>2 DEF n
    <3>4. /\ \A i \in 1 .. n + 1 : i \in 1 .. n \/ i = n + 1
          /\ \A i \in 1 .. n : i \in 1 .. n + 1 /\ n + 1 \in 1 .. n + 1
      BY <3>3
    <3> QED
      BY <3>1, <3>2, <3>4
  <2>4. \A i \in 1 .. n : groups[p][i] # item
    BY <1>0, <1>6, <2>2
  <2> HIDE DEF longer
  <2>5. /\ next \in [Paths -> Seq(Item)] /\ next[p] = longer
        /\ \A q \in Paths : q # p => next[q] = groups[q]
    BY <1>0, <1>1, <2>1, <2>3
  <2> HIDE DEF next
  <2>6. \A q \in Paths : Len(next[q]) <= GroupLimit
    <3>1. n + 1 <= GroupLimit
      BY <1>0, <1>6, <2>2
    <3> QED
      BY <1>1, <2>3, <2>5, <3>1
  <2>7. ASSUME NEW q \in Paths, NEW i \in 1 .. Len(next[q])
        PROVE  next[q][i].path = q /\ \E j \in 1 .. k : next[q][i] = row[j]
    <3>1. CASE q # p
      BY <1>0, <1>1, <2>5, <3>1
    <3>2. CASE q = p /\ i \in 1 .. n
      <4>1. next[q][i] = groups[p][i] /\ groups[p][i].path = p
        BY <1>0, <1>1, <2>3, <2>5, <3>2
      <4>2. PICK j \in 1 .. k - 1 : groups[p][i] = row[j]
        BY <1>0, <1>1, <3>2
      <4>3. j \in 1 .. k
        BY <1>0
      <4> QED
        BY <3>2, <4>1, <4>2, <4>3
    <3>3. CASE q = p /\ i = n + 1
      <4>1. next[q][i] = row[k] /\ row[k].path = q /\ k \in 1 .. k
        BY <1>0, <2>3, <2>5, <3>3
      <4> QED
        BY <4>1
    <3> QED
      BY <2>3, <2>5, <2>7, <3>1, <3>2, <3>3
  <2>8. ASSUME NEW q \in Paths, NEW i \in 1 .. Len(next[q]), NEW j \in 1 .. Len(next[q]), next[q][i] = next[q][j]
        PROVE  i = j
    <3>1. CASE q # p
      BY <1>1, <2>5, <2>8, <3>1
    <3>2. CASE q = p
      <4>1. (i \in 1 .. n \/ i = n + 1) /\ (j \in 1 .. n \/ j = n + 1)
        BY <2>3, <2>5, <3>2
      <4> QED
        BY SMTT(30), <1>0, <1>1, <2>3, <2>4, <2>5, <2>8, <3>2, <4>1
    <3> QED
      BY <3>1, <3>2
  <2>9. ASSUME NEW j \in 1 .. k
        PROVE  Shared(l, row[j].id) = {} \/ InGroup(next, row[j]) \/ Len(next[row[j].path]) = GroupLimit
    <3>0. row[j] \in Item /\ row[j].path \in Paths
      BY <1>0
    <3>1. CASE j = k
      <4>1. InGroup(next, item)
        BY <2>3, <2>5 DEF InGroup
      <4> QED
        BY <3>1, <4>1
    <3>2. CASE j # k /\ InGroup(groups, row[j])
      <4>1. PICK i \in 1 .. Len(groups[row[j].path]) : groups[row[j].path][i] = row[j]
        BY <3>2 DEF InGroup
      <4>2. i \in 1 .. Len(next[row[j].path]) /\ next[row[j].path][i] = row[j]
        <5>1. CASE row[j].path # p
          BY <2>5, <3>0, <4>1, <5>1
        <5>2. CASE row[j].path = p
          BY <2>3, <2>5, <4>1, <5>2
        <5> QED
          BY <5>1, <5>2
      <4> QED
        BY <4>2 DEF InGroup
    <3>3. CASE j # k /\ ~InGroup(groups, row[j]) /\ Shared(l, row[j].id) # {}
      <4>1. Len(groups[row[j].path]) = GroupLimit
        BY <1>0, <1>1, <3>3
      <4>2. row[j].path # p
        BY <1>0, <1>6, <4>1
      <4> QED
        BY <2>5, <3>0, <4>1, <4>2
    <3> QED
      BY <3>1, <3>2, <3>3
  <2>10. next \in Groups
    BY <2>5 DEF Groups
  <2>11. \A q \in Paths : \A i \in 1 .. Len(next[q]) :
           next[q][i].path = q /\ \E j \in 1 .. k : next[q][i] = row[j]
    BY <2>7
  <2>12. \A q \in Paths : \A i, j \in 1 .. Len(next[q]) : next[q][i] = next[q][j] => i = j
    BY <2>8
  <2>13. \A j \in 1 .. k :
           Shared(l, row[j].id) = {} \/ InGroup(next, row[j]) \/ Len(next[row[j].path]) = GroupLimit
    BY <2>9
  <2>14. GroupsFit(l, row, k, next)
    BY <2>6, <2>10, <2>11, <2>12, <2>13 DEF GroupsFit
  <2> QED
    BY <2>14 DEF next
<1> QED
  BY <1>3, <1>4, <1>5, <1>6

\* A trail is what all that is considered leaves in the groups.
LEMMA TrailIsFit ==
  ASSUME ShelfGood, NEW l \in Links
  PROVE  GroupsFit(l, Items(l), Len(Items(l)), Trail(l))
<1> DEFINE row == Items(l)
           base == [p \in Paths |-> <<>>]
           trail == TrailOf(l, base, row)
<1>1. row \in Seq(Item) /\ (\A j \in 1 .. Len(row) : WayFits(l, row[j])) /\ Len(row) \in Nat
  BY ItemsFit
<1>2. Trail(l) = trail
  BY DEF Trail, TrailOf, TrailStep
<1>3. GroupsFit(l, row, 0, base)
  <2>1. <<>> \in Seq(Item) /\ Len(<<>>) = 0 /\ 1 .. 0 = {} /\ GroupLimit \in Nat /\ 0 <= GroupLimit
    BY ShelfAssumption
  <2>2. base \in [Paths -> Seq(Item)] /\ \A p \in Paths : base[p] = <<>>
    BY <2>1
  <2> HIDE DEF base
  <2>3. \A p \in Paths : Len(base[p]) = 0 /\ 1 .. Len(base[p]) = {} /\ Len(base[p]) <= GroupLimit
    BY <2>1, <2>2
  <2> QED
    BY <2>1, <2>2, <2>3 DEF GroupsFit, Groups
<1> HIDE DEF row
<1>4. base \in Groups
  BY <1>3 DEF GroupsFit
<1> HIDE DEF base
<1>a. PICK st : Stages(st, l, base, row)
  BY <1>1, <1>4, TrailStages, Zenon
<1>5. /\ st[0] = base /\ st[Len(row)] = trail
      /\ \A k \in 1 .. Len(row) : st[k] = TrailStep(l, st[k - 1], row[k])
  BY <1>a DEF Stages
<1> DEFINE fit == {k \in 0 .. Len(row) : GroupsFit(l, row, k, st[k])}
<1>6. fit \in SUBSET (0 .. Len(row)) /\ 0 \in fit
  BY <1>1, <1>3, <1>5
<1>7. ASSUME NEW k \in 1 .. Len(row), k - 1 \in fit PROVE k \in fit
  <2>1. GroupsFit(l, row, k - 1, st[k - 1])
    BY <1>7
  <2>2. GroupsFit(l, row, k, TrailStep(l, st[k - 1], row[k]))
    BY <1>1, <2>1, TrailStepFits
  <2>3. k \in 0 .. Len(row) /\ st[k] = TrailStep(l, st[k - 1], row[k])
    BY <1>1, <1>5
  <2>4. GroupsFit(l, row, k, st[k])
    BY <2>2, <2>3, Zenon
  <2> QED
    BY <2>3, <2>4
<1>8. Len(row) \in fit
  <2> HIDE DEF fit
  <2> QED
    BY <1>1, <1>6, <1>7, Upwards
<1>9. GroupsFit(l, row, Len(row), trail)
  BY <1>5, <1>8
<1> QED
  BY <1>2, <1>9 DEF row

\* A sequence of different values has as many as it is long.
LEMMA DifferentAreCounted ==
  ASSUME NEW R, NEW s \in Seq(R), \A i, j \in 1 .. Len(s) : s[i] = s[j] => i = j
  PROVE  IsFiniteSet(ToSet(s)) /\ Cardinality(ToSet(s)) = Len(s)
<1> DEFINE n == Len(s)
           T == ToSet(s)
<1>1. n \in Nat /\ DOMAIN s = 1 .. n /\ s \in [1 .. n -> R]
  OBVIOUS
<1>2. s \in Surjection(1 .. n, T) /\ s \in Injection(1 .. n, T)
  <2>1. T = {s[i] : i \in 1 .. n}
    BY <1>1 DEF ToSet
  <2>2. s \in [1 .. n -> T] /\ \A t \in T : \E i \in 1 .. n : s[i] = t
    BY <1>1, <2>1
  <2> HIDE DEF n, T
  <2>3. s \in Surjection(1 .. n, T)
    BY <2>2 DEF Surjection
  <2>4. \A i, j \in 1 .. n : s[i] = s[j] => i = j
    BY DEF n
  <2>5. s \in Injection(1 .. n, T)
    BY <2>2, <2>4 DEF Injection, IsInjective
  <2> QED
    BY <2>3, <2>5
<1> HIDE DEF T, n
<1>3. IsFiniteSet(1 .. n) /\ Cardinality(1 .. n) = n
  <2>1. 1 \in Int /\ n \in Int
    BY <1>1
  <2>2. IsFiniteSet(1 .. n) /\ Cardinality(1 .. n) = IF 1 > n THEN 0 ELSE n - 1 + 1
    BY <2>1, FS_Interval, Zenon
  <2> QED
    BY <1>1, <2>2
<1>4. IsFiniteSet(T) /\ Cardinality(T) = Cardinality(1 .. n)
  BY <1>2, <1>3, FS_Surjection
<1> QED
  BY <1>3, <1>4 DEF T, n

\* The items of four groups that have none in common are as many as the groups hold.
LEMMA GroupsAreCounted ==
  ASSUME NEW l, NEW row, NEW k, NEW trail, GroupsFit(l, row, k, trail)
  PROVE  Cardinality(UNION {ToSet(trail[p]) : p \in Paths})
           = Len(trail["prerequisite"]) + Len(trail["easier"]) + Len(trail["adjacent"]) + Len(trail["deeper"])
<1> DEFINE T(p) == ToSet(trail[p])
<1>1. ASSUME NEW p \in Paths
      PROVE  /\ IsFiniteSet(T(p)) /\ Cardinality(T(p)) = Len(trail[p]) /\ Len(trail[p]) \in Nat
             /\ \A x \in T(p) : x.path = p
  <2>1. trail[p] \in Seq(Item) /\ Len(trail[p]) \in Nat /\ DOMAIN trail[p] = 1 .. Len(trail[p])
    BY DEF GroupsFit, Groups
  <2>2. \A i, j \in 1 .. Len(trail[p]) : trail[p][i] = trail[p][j] => i = j
    BY DEF GroupsFit
  <2>3. \A i \in 1 .. Len(trail[p]) : trail[p][i].path = p
    BY DEF GroupsFit
  <2>4. IsFiniteSet(T(p)) /\ Cardinality(T(p)) = Len(trail[p])
    BY <2>1, <2>2, DifferentAreCounted
  <2>5. \A x \in T(p) : \E i \in 1 .. Len(trail[p]) : x = trail[p][i]
    BY <2>1 DEF ToSet
  <2> QED
    BY <2>1, <2>3, <2>4, <2>5
<1> HIDE DEF T
<1>2. {"prerequisite", "easier", "adjacent", "deeper"} = Paths
  BY DEF Paths
<1> DEFINE a == T("prerequisite")
           b == T("easier")
           c == T("adjacent")
           d == T("deeper")
<1>3. /\ IsFiniteSet(a) /\ IsFiniteSet(b) /\ IsFiniteSet(c) /\ IsFiniteSet(d)
      /\ a \cap b = {} /\ c \cap d = {} /\ (a \cup b) \cap (c \cup d) = {}
  BY <1>1, <1>2
<1>4. UNION {T(p) : p \in Paths} = (a \cup b) \cup (c \cup d)
  BY <1>2
<1>5. /\ Cardinality(a) = Len(trail["prerequisite"]) /\ Cardinality(b) = Len(trail["easier"])
      /\ Cardinality(c) = Len(trail["adjacent"]) /\ Cardinality(d) = Len(trail["deeper"])
      /\ Cardinality(a) \in Nat /\ Cardinality(b) \in Nat /\ Cardinality(c) \in Nat /\ Cardinality(d) \in Nat
  BY <1>1, <1>2
<1> HIDE DEF a, b, c, d
<1>6. IsFiniteSet(a \cup b) /\ Cardinality(a \cup b) = Cardinality(a) + Cardinality(b)
  BY <1>3, CardinalityOfTwo
<1>7. IsFiniteSet(c \cup d) /\ Cardinality(c \cup d) = Cardinality(c) + Cardinality(d)
  BY <1>3, CardinalityOfTwo
<1>8. Cardinality((a \cup b) \cup (c \cup d)) = Cardinality(a \cup b) + Cardinality(c \cup d)
  BY <1>3, <1>6, <1>7, CardinalityOfTwo
<1>9. Cardinality(UNION {T(p) : p \in Paths})
        = Len(trail["prerequisite"]) + Len(trail["easier"]) + Len(trail["adjacent"]) + Len(trail["deeper"])
  <2>1. Cardinality(UNION {T(p) : p \in Paths}) = Cardinality((a \cup b) \cup (c \cup d))
    BY <1>4, Zenon
  <2>2. Cardinality(UNION {T(p) : p \in Paths}) = (Cardinality(a) + Cardinality(b)) + (Cardinality(c) + Cardinality(d))
    BY <2>1, <1>6, <1>7, <1>8, Zenon
  <2> DEFINE z == Cardinality(UNION {T(p) : p \in Paths})
  <2> HIDE DEF z
  <2>3. z = (Cardinality(a) + Cardinality(b)) + (Cardinality(c) + Cardinality(d))
    BY <2>2 DEF z
  <2> DEFINE la == Len(trail["prerequisite"])
             lb == Len(trail["easier"])
             lc == Len(trail["adjacent"])
             ld == Len(trail["deeper"])
  <2>4. /\ z = (la + lb) + (lc + ld)
        /\ la \in Nat /\ lb \in Nat /\ lc \in Nat /\ ld \in Nat
    BY <1>5, <2>3, Zenon
  <2> HIDE DEF la, lb, lc, ld
  <2>5. z = la + lb + lc + ld
    BY <2>4
  <2> QED
    BY <2>5 DEF z, la, lb, lc, ld
<1> QED
  BY <1>9 DEF T

\* What treats the concept of a lesson is called background, or is a deeper lesson.
LEMMA BackgroundIsCalledSo ==
  ASSUME NEW l, NEW it \in Item, WayFits(l, it), ContentOf[l].concept \in Shared(l, it.id)
  PROVE  it.path = "prerequisite" \/ (it.type = "lesson" /\ it.path = "deeper")
<1>1. CASE it.type = "lesson"
  <2>1. it.path = LessonPath(l, it.id)
    BY <1>1 DEF WayFits
  <2>2. LessonPath(l, it.id) \in {"deeper", "prerequisite"}
    BY DEF LessonPath
  <2> QED
    BY <1>1, <2>1, <2>2
<1>2. CASE it.type = "article"
  <2>1. it.path = ArticlePath(l, it.id)
    BY <1>2 DEF WayFits
  <2>2. ArticlePath(l, it.id) = "prerequisite"
    BY DEF ArticlePath
  <2> QED
    BY <2>1, <2>2
<1> QED
  BY <1>1, <1>2 DEF Item

LEMMA TrailsLeadOn == ShelfGood => TrailLeadsOn
<1> SUFFICES ASSUME ShelfGood PROVE TrailLeadsOn
  OBVIOUS
<1>1. SUFFICES ASSUME NEW l \in Links
      PROVE  LET trail == Trail(l)
                 led == UNION {ToSet(trail[p]) : p \in Paths}
             IN /\ \A p \in Paths : Len(trail[p]) <= GroupLimit
                /\ Cardinality(led) = Len(trail["prerequisite"]) + Len(trail["easier"])
                                          + Len(trail["adjacent"]) + Len(trail["deeper"])
                /\ \A item \in led : item.type = "lesson" => item.id # l /\ state[item.id] = "complete"
                /\ \A item \in led : item.type = "article" => item.id \notin hidden
                /\ \A item \in ToSet(Items(l)) \ led :
                     Shared(l, item.id) = {} \/ Len(trail[item.path]) = GroupLimit
                /\ \A item \in led :
                     ContentOf[l].concept \in Shared(l, item.id) =>
                       item.path = "prerequisite" \/ (item.type = "lesson" /\ item.path = "deeper")
  BY DEF TrailLeadsOn
<1> DEFINE row == Items(l)
           trail == Trail(l)
           led == UNION {ToSet(trail[p]) : p \in Paths}
<1>2. /\ row \in Seq(Item) /\ Len(row) \in Nat /\ DOMAIN row = 1 .. Len(row)
      /\ \A j \in 1 .. Len(row) : WayFits(l, row[j])
  BY ItemsFit
<1>3. GroupsFit(l, row, Len(row), trail)
  BY TrailIsFit
<1> HIDE DEF row, trail
<1>4. Cardinality(led) = Len(trail["prerequisite"]) + Len(trail["easier"])
                             + Len(trail["adjacent"]) + Len(trail["deeper"])
  BY <1>3, GroupsAreCounted
<1>5. \A p \in Paths : Len(trail[p]) <= GroupLimit
  BY <1>3 DEF GroupsFit
<1>6. ASSUME NEW p \in Paths
      PROVE  /\ trail[p] \in Seq(Item) /\ DOMAIN trail[p] = 1 .. Len(trail[p])
             /\ \A i \in 1 .. Len(trail[p]) : \E j \in 1 .. Len(row) : trail[p][i] = row[j]
  <2>1. trail[p] \in Seq(Item)
    BY <1>3 DEF GroupsFit, Groups
  <2>2. DOMAIN trail[p] = 1 .. Len(trail[p])
    BY <2>1
  <2>3. \A i \in 1 .. Len(trail[p]) : \E j \in 1 .. Len(row) : trail[p][i] = row[j]
    BY <1>3 DEF GroupsFit
  <2> QED
    BY <2>1, <2>2, <2>3
<1>7. ASSUME NEW item \in led
      PROVE  item \in Item /\ WayFits(l, item)
  <2>1. PICK p \in Paths : item \in ToSet(trail[p])
    BY <1>7
  <2>2. PICK i \in 1 .. Len(trail[p]) : item = trail[p][i]
    BY <1>6, <2>1 DEF ToSet
  <2>3. PICK j \in 1 .. Len(row) : item = row[j]
    BY <1>6, <2>2
  <2> QED
    BY <1>2, <2>3
<1>8. ASSUME NEW item \in ToSet(row) \ led
      PROVE  Shared(l, item.id) = {} \/ Len(trail[item.path]) = GroupLimit
  <2>1. PICK j \in 1 .. Len(row) : item = row[j]
    BY <1>2, <1>8 DEF ToSet
  <2>2. row[j] \in Item /\ item.path \in Paths
    <3>1. \A it \in Item : it.path \in Paths
      BY DEF Item
    <3> QED
      BY <1>2, <2>1, <3>1
  <2>3. ~InGroup(trail, item)
    <3>1. SUFFICES ASSUME InGroup(trail, item) PROVE FALSE
      OBVIOUS
    <3>2. PICK i \in 1 .. Len(trail[item.path]) : trail[item.path][i] = item
      BY <3>1 DEF InGroup
    <3>3. item \in ToSet(trail[item.path])
      BY <1>6, <2>2, <3>2 DEF ToSet
    <3> QED
      BY <1>8, <2>2, <3>3
  <2> QED
    BY <1>3, <2>1, <2>3 DEF GroupsFit
<1>9. ASSUME NEW item \in led
      PROVE  /\ item.type = "lesson" => item.id # l /\ state[item.id] = "complete"
             /\ item.type = "article" => item.id \notin hidden
             /\ ContentOf[l].concept \in Shared(l, item.id) =>
                  item.path = "prerequisite" \/ (item.type = "lesson" /\ item.path = "deeper")
  BY <1>7, <1>9, BackgroundIsCalledSo DEF WayFits
<1> HIDE DEF led
<1> QED
  BY <1>4, <1>5, <1>8, <1>9 DEF row, trail, led

LEMMA ShelfParts == ShelfGood => ShelfTypeOK /\ ShelfInv
<1> SUFFICES ASSUME ShelfGood PROVE ShelfTypeOK /\ ShelfInv
  OBVIOUS
<1>1. ShelfTypeOK /\ PagesMissNothing
  BY ShelfTyped
<1> QED
  BY <1>1, BestAreSuggested, TrailsLeadOn DEF ShelfInv

\* Whatever the reader does, pages miss nothing, trails lead on and the best are
\* suggested.
THEOREM ShelfLeadsOn == ShelfSpec => []ShelfInv
<1>1. ShelfInit => ShelfGood
  BY ShelfInitGood
<1>2. ShelfGood /\ [ShelfNext]_shelfVars => ShelfGood'
  BY ShelfStepGood
<1>3. ShelfGood => ShelfInv
  BY ShelfParts
<1> QED
  BY <1>1, <1>2, <1>3, PTL DEF ShelfSpec

(***************************************************************************)
(* All parts                                                               *)
(***************************************************************************)

\* Every part is good, whichever of them moves.
ReadingGood ==
  /\ ActivityGood /\ CreditsGood /\ VisitsGood /\ EvidenceGood /\ ShelfGood
  /\ SurfacesGood /\ PodcastGood /\ ListGood /\ QuizGood

LEMMA ReadingInitGood == ReadingInit => ReadingGood
<1> SUFFICES ASSUME ReadingInit PROVE ReadingGood
  OBVIOUS
<1>1. /\ ActivityInit /\ CreditsInit /\ VisitsInit /\ EvidenceInit /\ ShelfInit
      /\ SurfacesInit /\ PodcastInit /\ ListInit /\ QuizInit
  BY DEF ReadingInit
<1> QED
  BY <1>1, ActivityInitGood, CreditsInitGood, VisitsInitGood, EvidenceInitGood, ShelfInitGood,
     SurfacesInitGood, PodcastInitGood, ListInitGood, QuizInitGood DEF ReadingGood

\* One part moves, and the others stay as they are.
LEMMA OnePartMoves ==
  ASSUME [ReadingNext]_readingVars
  PROVE  /\ [ActivityNext]_activityVars /\ [CreditsNext]_creditsVars /\ [VisitsNext]_visitsVars
         /\ [EvidenceNext]_evidenceVars /\ [ShelfNext]_shelfVars /\ [SurfacesNext]_surfacesVars
         /\ [PodcastNext]_podcastVars /\ [ListNext]_listVars /\ [QuizNext]_quizVars
<1>1. CASE UNCHANGED readingVars
  BY <1>1, Zenon DEF readingVars
<1>2. CASE ReadingNext
  BY <1>2, Zenon DEF ReadingNext
<1> QED
  BY <1>1, <1>2

LEMMA ReadingStepGood == ReadingGood /\ [ReadingNext]_readingVars => ReadingGood'
<1> SUFFICES ASSUME ReadingGood, [ReadingNext]_readingVars PROVE ReadingGood'
  OBVIOUS
<1>1. ActivityGood' /\ CreditsGood' /\ VisitsGood'
  BY OnePartMoves, ActivityStepGood, CreditsStepGood, VisitsStepGood DEF ReadingGood
<1>2. EvidenceGood' /\ ShelfGood' /\ SurfacesGood'
  BY OnePartMoves, EvidenceStepGood, ShelfStepGood, SurfacesStepGood DEF ReadingGood
<1>3. PodcastGood' /\ ListGood' /\ QuizGood'
  BY OnePartMoves, PodcastStepGood, ListStepGood, QuizStepGood DEF ReadingGood
<1> QED
  BY <1>1, <1>2, <1>3 DEF ReadingGood

LEMMA ReadingParts == ReadingGood => ReadingTypeOK /\ CountedAndShown
<1> SUFFICES ASSUME ReadingGood PROVE ReadingTypeOK /\ CountedAndShown
  OBVIOUS
<1>1. ActivityTypeOK /\ EachInstantOnce /\ CreditsTypeOK /\ CreditsInv /\ VisitsTypeOK /\ VisitsInv
  BY ActivityParts, CreditsParts, VisitsParts DEF ReadingGood
<1>2. EvidenceTypeOK /\ ShelfTypeOK /\ ShelfInv /\ SurfacesTypeOK /\ SurfacesInv
  BY ShelfParts, SurfacesParts DEF ReadingGood, EvidenceGood
<1>3. PodcastTypeOK /\ PodcastSaysScript /\ ListTypeOK /\ ListInv /\ QuizTypeOK /\ QuizInv
  BY PodcastParts, ListParts, QuizParts DEF ReadingGood
<1> QED
  BY <1>1, <1>2, <1>3 DEF ReadingTypeOK, CountedAndShown, CountedOnce

\* Whatever moves, everything about a reader's reading keeps its type.
THEOREM ReadingTypes == ReadingSpec => []ReadingTypeOK
<1>1. ReadingInit => ReadingGood
  BY ReadingInitGood
<1>2. ReadingGood /\ [ReadingNext]_readingVars => ReadingGood'
  BY ReadingStepGood
<1>3. ReadingGood => ReadingTypeOK
  BY ReadingParts
<1> QED
  BY <1>1, <1>2, <1>3, PTL DEF ReadingSpec

\* Whatever moves, every instant, read and visit is counted once, and all that is
\* to be shown is shown: of lessons, articles, a podcast, a page and a quiz.
THEOREM CountedAndShownAlways == ReadingSpec => []CountedAndShown
<1>1. ReadingInit => ReadingGood
  BY ReadingInitGood
<1>2. ReadingGood /\ [ReadingNext]_readingVars => ReadingGood'
  BY ReadingStepGood
<1>3. ReadingGood => CountedAndShown
  BY ReadingParts
<1> QED
  BY <1>1, <1>2, <1>3, PTL DEF ReadingSpec

=============================================================================
