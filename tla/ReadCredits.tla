---------------------------- MODULE ReadCredits ----------------------------
(***************************************************************************)
(* The reads one reader is credited with, and what they earn.  Reads are   *)
(* credited as they happen, by imports, and by batches of an operator's    *)
(* tool that works through the reads from before the credits existed.      *)
(* Every operation holds the account's advisory lock up to its commit, so  *)
(* each is one action; a batch that fails is rolled back whole.            *)
(***************************************************************************)
EXTENDS Integers, FiniteSets, FiniteSetsExt

CONSTANTS
  LastId,       \* bound: identifiers of articles
  UrlOf,        \* per identifier, the URL whose digest identifies the read
  Shelved,      \* URLs on the reading list
  Goals,        \* numbers of reads that are rewarded (1, 10, 50, 100, 500)
  BatchSize     \* articles of a batch (200)

ArticleIds == 1 .. LastId
Addresses == {UrlOf[i] : i \in ArticleIds} \cup Shelved

ASSUME CreditsAssumption ==
  /\ LastId \in Nat /\ BatchSize \in Nat \ {0}
  /\ Goals \subseteq Nat \ {0}
  /\ IsFiniteSet(Shelved) /\ {"no", "undated"} \cap Addresses = {}

VARIABLES
  found,      \* the identifier handed out last
  there,      \* articles in the store
  read,       \* articles whose row says that they have been read
  credits,    \* URLs credited
  earned,     \* per goal: not earned, earned without a date, or its group
  group,      \* per URL, the group of the rewards its credit unlocked
  scan,       \* the tool's row: horizon, cursor and count
  intro,      \* the group that introduces what the tool has found
  before      \* read when the horizon was set (auxiliary)

creditsVars == <<found, there, read, credits, earned, group, scan, intro, before>>

NoScan == [upper |-> 0, cursor |-> 0, credited |-> 0, preserved |-> FALSE, status |-> "none"]
GroupStates == {"none", "offered", "claimed", "acknowledged"}

CreditsTypeOK ==
  /\ found \in 0 .. LastId /\ there \subseteq 1 .. found /\ read \subseteq there
  /\ credits \subseteq Addresses
  /\ earned \in [Goals -> {"no", "undated"} \cup Addresses]
  /\ group \in [Addresses -> GroupStates]
  /\ scan \in [upper: 0 .. LastId, cursor: 0 .. LastId, credited: 0 .. LastId,
               preserved: BOOLEAN, status: {"none", "running", "complete"}]
  /\ intro \in GroupStates \ {"acknowledged"}
  /\ before \subseteq 1 .. found

\* The articles found so far are from before the credits: some have been read.
\* Each has a row of the reader's, whatever it says.
CreditsInit ==
  /\ found \in 0 .. LastId /\ there = 1 .. found
  /\ read \in SUBSET there
  /\ credits = {} /\ scan = NoScan /\ intro = "none" /\ before = {}
  /\ earned = [n \in Goals |-> "no"]
  /\ group = [u \in Addresses |-> "none"]

-----------------------------------------------------------------------------
(* Credits and rewards.                                                    *)

\* The rewards that the credit of u unlocks.  Rewards of a live read form the
\* group of its credit, which is offered to the reader; others carry no date.
Reached(n, C) == Cardinality(C) >= n
Unlocked(C) == {n \in Goals : Reached(n, C) /\ earned[n] = "no"}

Credit(u, live) ==
  LET new == IF u \in credits THEN {} ELSE Unlocked(credits \cup {u}) IN
  /\ credits' = credits \cup {u}
  /\ earned' = [n \in Goals |-> IF n \notin new THEN earned[n] ELSE IF live THEN u ELSE "undated"]
  /\ group' = IF new # {} /\ live THEN [group EXCEPT ![u] = "offered"] ELSE group

\* An article is moved to done by hand, by a feed reader, by e-mail, by the
\* agent or by the evidence of reading.
MarkDone(i) ==
  /\ i \in there
  /\ read' = read \cup {i}
  /\ Credit(UrlOf[i], TRUE)
  /\ UNCHANGED <<found, there, scan, intro, before>>

\* An archive is imported that says it has been read.
ImportRead(i) ==
  /\ i \in there
  /\ read' = read \cup {i}
  /\ Credit(UrlOf[i], FALSE)
  /\ UNCHANGED <<found, there, scan, intro, before>>

\* An item of the reading list is done, or imported as archived.
FinishItem(u, live) ==
  /\ u \in Shelved
  /\ Credit(u, live)
  /\ UNCHANGED <<found, there, read, scan, intro, before>>

\* Listening to the end moves an article to done without a credit.
FinishAudio(i) ==
  /\ i \in there
  /\ read' = read \cup {i}
  /\ UNCHANGED <<found, there, credits, earned, group, scan, intro, before>>

-----------------------------------------------------------------------------
(* The tool for the reads from before.                                     *)

\* A second call leaves the horizon as it is.
Prepare ==
  /\ scan.status = "none"
  /\ scan' = [NoScan EXCEPT !.upper = IF there = {} THEN 0 ELSE Max(there),
                            !.preserved = \E n \in Goals : earned[n] # "no",
                            !.status = "running"]
  /\ before' = read
  /\ UNCHANGED <<found, there, read, credits, earned, group, intro>>

Ahead == {i \in there : scan.cursor < i /\ i <= scan.upper}
FirstOf(S) == {i \in S : Cardinality({j \in S : j <= i}) <= BatchSize}

\* Wrong: fewer reads than a batch do not mean that no row is left.
IsLastRead == Cardinality(FirstOf(Ahead) \cap read) < BatchSize

IsLast == Cardinality(FirstOf(Ahead)) < BatchSize

Batch ==
  /\ scan.status = "running"
  /\ LET rows == FirstOf(Ahead)
         urls == {UrlOf[i] : i \in rows \cap read} \ credits
         last == IsLast
         count == scan.credited + Cardinality(urls) IN
     /\ credits' = credits \cup urls
     /\ earned' = [n \in Goals |->
          IF urls # {} /\ n \in Unlocked(credits \cup urls) THEN "undated" ELSE earned[n]]
     /\ scan' = [scan EXCEPT !.cursor = IF last THEN scan.upper ELSE Max(rows),
                             !.credited = count,
                             !.status = IF last THEN "complete" ELSE "running"]
     /\ intro' = IF last /\ (count > 0 \/ scan.preserved) THEN "offered" ELSE intro
  /\ UNCHANGED <<found, there, read, group, before>>

-----------------------------------------------------------------------------
(* Claims, and the store around the credits.                               *)

Claim(u) ==
  /\ group[u] = "offered"
  /\ group' = [group EXCEPT ![u] = "claimed"]
  /\ UNCHANGED <<found, there, read, credits, earned, scan, intro, before>>

Acknowledge(u) ==
  /\ group[u] = "claimed"
  /\ group' = [group EXCEPT ![u] = "acknowledged"]
  /\ UNCHANGED <<found, there, read, credits, earned, scan, intro, before>>

ClaimIntro ==
  /\ intro = "offered"
  /\ intro' = "claimed"
  /\ UNCHANGED <<found, there, read, credits, earned, group, scan, before>>

Discover ==
  /\ found < LastId
  /\ found' = found + 1
  /\ there' = there \cup {found + 1}
  /\ UNCHANGED <<read, credits, earned, group, scan, intro, before>>

\* Retention: the reader's row goes with the article.
RemoveArticle(i) ==
  /\ i \in there
  /\ there' = there \ {i} /\ read' = read \ {i}
  /\ UNCHANGED <<found, credits, earned, group, scan, intro, before>>

CreditsNext ==
  \/ \E i \in ArticleIds : MarkDone(i) \/ ImportRead(i) \/ FinishAudio(i) \/ RemoveArticle(i)
  \/ \E u \in Addresses : (\E live \in BOOLEAN : FinishItem(u, live)) \/ Claim(u) \/ Acknowledge(u)
  \/ Prepare \/ Batch \/ ClaimIntro \/ Discover

CreditsSpec == CreditsInit /\ [][CreditsNext]_creditsVars

-----------------------------------------------------------------------------
(* Properties.                                                             *)

\* Once the tool calls itself complete, no read from before its horizon that is
\* still in the store is without its credit, whatever was read, imported, found
\* or deleted between two batches (history.py: "a permanent cursor hole").
NoCursorHole ==
  scan.status = "complete" => \A i \in before \cap there : UrlOf[i] \in credits

\* Rewards are those of the number of credits, never more nor fewer, however
\* the credits came; a group is offered for its own rewards and for no others.
RewardsFollowCredits ==
  /\ \A n \in Goals : earned[n] # "no" <=> Reached(n, credits)
  /\ \A u \in Addresses : group[u] # "none" <=> \E n \in Goals : earned[n] = u

\* What the history tool, reading, import and retention keep between them.
CreditsInv == NoCursorHole /\ RewardsFollowCredits
=============================================================================
