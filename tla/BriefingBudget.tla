--------------------------- MODULE BriefingBudget ---------------------------
(***************************************************************************)
(* A stored briefing made fit for a tool's answer.  Malformed, repeated    *)
(* and surplus parts are left out and counted, then whole citations,       *)
(* sections and references are dropped from the end, and at last the texts *)
(* shortened, until the answer is within its budget of bytes.              *)
(***************************************************************************)
EXTENDS Integers, Sequences, FiniteSets

CONSTANTS
  Listed,       \* the article ids of stored citations, 0 for a malformed one, or NotAList
  Sectioned,    \* lists of sections: each a list of ids, NotAList, or Malformed
  Worthy,       \* lists of the ids worth opening
  MaxCitations, \* citations of an answer (twenty-five in the code)
  MaxSections,  \* sections of an answer (twelve)
  Text,         \* units of title, summary and scope
  Budget        \* size allowed, in the units of AnswerSize

ASSUME BudgetAssumption ==
  /\ Listed \cup Worthy \subseteq Seq(Int) /\ Sectioned \subseteq Seq(Seq(Int))
  /\ MaxCitations \in Nat /\ MaxSections \in Nat /\ Text \in Nat /\ Budget \in Nat \ {0}

VARIABLES
  stage,    \* which part is being fitted
  given,    \* the stored briefing (auxiliary once it is normalised)
  shown,    \* citations and sections in order, references and texts of the answer
  omitted   \* the answer's counts of what it leaves out, and its mark "truncated"

budgetVars == <<stage, given, shown, omitted>>

\* A section that is no mapping.  A value that should be a list and is none: it is
\* read as one citation that is left out, whatever it holds.
Malformed == <<-1>>
NotAList == <<-2>>

Briefings == [articles: Listed, sections: Sectioned, worth: Worthy, shaped: BOOLEAN]

\* Content that is no mapping, or whose sections or worth opening are no lists, is
\* read as one malformed section, whatever it holds.
Sections == IF given.shaped THEN given.sections ELSE <<Malformed>>
Worth == IF given.shaped THEN given.worth ELSE <<>>

Elements(list) == {list[i] : i \in DOMAIN list}
Pairs(family) == UNION {{i} \X family[i] : i \in DOMAIN family}
References(sections) == Cardinality(Pairs(sections))
WithoutLast(list) == SubSeq(list, 1, Len(list) - 1)

BudgetTypeOK ==
  /\ stage \in {"stored", "fitting", "over"}
  /\ given \in Briefings
  /\ Len(shown.citations) <= MaxCitations /\ Len(shown.sections) <= MaxSections
  /\ shown.text \in 0 .. Text
  /\ omitted \in [citations: Nat, sections: Nat, marked: BOOLEAN]

BudgetInit ==
  /\ stage = "stored"
  /\ given \in Briefings
  /\ shown = [citations |-> <<>>, sections |-> <<>>, worth |-> {}, text |-> Text]
  /\ omitted = [citations |-> 0, sections |-> 0, marked |-> FALSE]

\* What is at these places of a list; the first occurrence of each good id; and of
\* what there is the first few.
Nth(places, n) == CHOOSE i \in places : Cardinality({j \in places : j < i}) = n - 1
Chosen(list, places) == [n \in 1 .. Cardinality(places) |-> list[Nth(places, n)]]
Distinct(list) == Chosen(list, {i \in DOMAIN list : list[i] > 0 /\ \A j \in 1 .. i - 1 : list[j] # list[i]})
Least(m, n) == IF m < n THEN m ELSE n
FirstOf(list, n) == SubSeq(list, 1, Least(n, Len(list)))

\* A section keeps the references to citations that are shown.  What is said of
\* a section that is malformed is not counted, it is not known.  References that
\* are left out of "worth opening" are counted without marking the answer.
WellFormed == {i \in DOMAIN Sections : Sections[i] # Malformed}
Normalize ==
  LET articles == FirstOf(Distinct(given.articles), MaxCitations)
      visible == Elements(articles)
      good == Chosen(Sections, WellFormed)
      sections == [i \in DOMAIN good |-> Elements(good[i]) \cap visible]
      kept == FirstOf(sections, MaxSections)
      worth == Elements(Worth) \cap visible
      mentioned == Cardinality(Pairs([i \in DOMAIN good |-> DOMAIN good[i]]))
  IN /\ stage = "stored" /\ stage' = "fitting"
     /\ shown' = [citations |-> articles, sections |-> kept, worth |-> worth, text |-> Text]
     /\ omitted' = [sections |-> Len(Sections) - Len(kept),
                    citations |-> (Len(given.articles) - Len(articles))
                                  + (mentioned - References(kept))
                                  + (Len(Worth) - Cardinality(worth)),
                    marked |-> \/ articles # given.articles
                               \/ Len(kept) < Len(Sections)
                               \/ \E i \in DOMAIN good : Len(good[i]) > Cardinality(sections[i])]
     /\ UNCHANGED given

\* Two units for a citation and a section, one for a reference.
AnswerSize == 2 * Len(shown.citations) + 2 * Len(shown.sections) + References(shown.sections)
              + Cardinality(shown.worth) + shown.text
TooLarge == stage = "fitting" /\ AnswerSize > Budget

\* Wrong: the references to a dropped citation stay.
WithAll(id) == shown.sections

\* The last citation goes with every reference to it.
Without(id) == [i \in DOMAIN shown.sections |-> shown.sections[i] \ {id}]
DropCitation ==
  LET id == shown.citations[Len(shown.citations)]
      sections == Without(id)
      dropped == References(shown.sections) - References(sections)
                 + Cardinality(shown.worth \cap {id})
  IN /\ TooLarge /\ shown.citations # <<>>
     /\ shown' = [shown EXCEPT !.citations = WithoutLast(@), !.sections = sections, !.worth = @ \ {id}]
     /\ omitted' = [omitted EXCEPT !.citations = @ + 1 + dropped, !.marked = TRUE]
     /\ UNCHANGED <<stage, given>>

DropSection ==
  /\ TooLarge /\ shown.citations = <<>> /\ shown.sections # <<>>
  /\ shown' = [shown EXCEPT !.sections = WithoutLast(@)]
  /\ omitted' = [omitted EXCEPT !.sections = @ + 1, !.marked = TRUE,
                   !.citations = @ + Cardinality(shown.sections[Len(shown.sections)])]
  /\ UNCHANGED <<stage, given>>

\* Nothing is left but the texts, for no reference outlives its citation; the
\* longest of them is shortened.
ShortenText ==
  /\ TooLarge /\ shown.citations = <<>> /\ shown.sections = <<>> /\ shown.text > 0
  /\ shown' = [shown EXCEPT !.text = @ - 1]
  /\ omitted' = [omitted EXCEPT !.marked = TRUE]
  /\ UNCHANGED <<stage, given>>

Answer ==
  /\ stage = "fitting" /\ ~TooLarge /\ stage' = "over"
  /\ UNCHANGED <<given, shown, omitted>>

BudgetNext == Normalize \/ DropCitation \/ DropSection \/ ShortenText \/ Answer

BudgetSpec == BudgetInit /\ [][BudgetNext]_budgetVars

-----------------------------------------------------------------------------
(* Properties.                                                             *)

\* Nothing in the answer refers to a citation that is not in it.
NoDanglingReference ==
  \A refs \in Elements(shown.sections) \cup {shown.worth} : refs \subseteq Elements(shown.citations)

\* website/docs/configuration/mcp-server.md:202: what is shown and what is
\* counted as omitted add up to what is stored: where it has not the shape it
\* should have, one for the whole of it.
Mentions == Len(given.articles) + Len(Worth)
            + Cardinality(UNION {{i} \X DOMAIN Sections[i] : i \in WellFormed})
OmittedIsCounted ==
  stage # "stored" =>
    /\ Len(shown.sections) + omitted.sections = Len(Sections)
    /\ Len(shown.citations) + References(shown.sections) + Cardinality(shown.worth)
         + omitted.citations = Mentions

\* Ibid.: an answer that leaves something out is marked as truncated.  It is not
\* when all that is left out are references among those worth opening.
OmissionIsMarked ==
  (stage # "stored" /\ ~omitted.marked) =>
    /\ given.shaped /\ shown.text = Text /\ shown.citations = given.articles
    /\ omitted.sections = 0 /\ omitted.citations <= Len(given.worth)

BudgetInv == NoDanglingReference /\ OmittedIsCounted /\ OmissionIsMarked

\* Holds not: of content of the wrong shape one section is counted, however many it
\* holds, and no citation.
EverySectionIsCounted ==
  stage # "stored" => Len(shown.sections) + omitted.sections = Len(given.sections)
=============================================================================
