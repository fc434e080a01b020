----------------------------- MODULE ReadingItems -----------------------------
(***************************************************************************)
(* A reader's list of pages to read. A page is added, or comes with an     *)
(* import; a task fetches its title and then has a model sum it up. The    *)
(* task of an adding and the sweep of the scheduler do not know of each    *)
(* other, and every write names the item alone.                            *)
(***************************************************************************)
EXTENDS Integers, Sequences, FiniteSets, SequencesExt

CONSTANTS
  Urls,         \* after normalisation
  Files,        \* imports: sequences of [url, titled]
  Hands,        \* threads that fetch: of a request or of the scheduler
  SweepLimit,   \* items that a sweep takes
  MaxListed     \* bound: items ever made

ASSUME ReadingItemsAssumption ==
  /\ SweepLimit \in Nat \ {0} /\ MaxListed \in Nat
  /\ Files \subseteq Seq([url: Urls, titled: BOOLEAN])

VARIABLES
  items,     \* in the order of their making
  hands      \* [pc, todo]: the first item of todo is at work

listVars == <<items, hands>>

Made == 1 .. Len(items)
Remaining == {i \in Made : ~items[i].gone}
Free == [pc |-> "free", todo |-> <<>>]
AtHand(h) == Head(hands[h].todo)
WorkersOn(i) == {h \in Hands : hands[h].pc # "free" /\ AtHand(h) = i}

ListTypeOK ==
  /\ Len(items) <= MaxListed
  /\ \A i \in Made :
       /\ items[i].url \in Urls /\ items[i].fetch \in {"pending", "ok", "error"}
       /\ items[i].title \in {"none", "imported", "fetched"}
       /\ items[i].summary \in {"pending", "ok", "error", "skipped"}
       /\ {items[i].gone, items[i].text, items[i].alone, items[i].brought} \subseteq BOOLEAN
  /\ \A h \in Hands :
       /\ hands[h].pc \in {"free", "look", "fetch", "title", "model"}
       /\ hands[h].pc = "free" <=> hands[h].todo = <<>>

ListInit == items = <<>> /\ hands = [h \in Hands |-> Free]

-----------------------------------------------------------------------------
(* The reader.                                                             *)

ListedIn(its, u) == {i \in 1 .. Len(its) : ~its[i].gone /\ its[i].url = u}

\* Wrong: what comes with a title is fetched, too.
PendingAnyway(titled) == "pending"
FetchOfImport(titled) == IF titled THEN "ok" ELSE "pending"

\* An import may bring a title; an adding does not.
NewItem(u, titled) ==
  [url |-> u, title |-> IF titled THEN "imported" ELSE "none", fetch |-> FetchOfImport(titled),
   summary |-> "pending", text |-> FALSE, brought |-> titled, gone |-> FALSE, alone |-> TRUE]

\* A page that is listed is answered with its item, and nothing is fetched.
AddPage(u, h) ==
  /\ ListedIn(items, u) = {} /\ Len(items) < MaxListed /\ hands[h].pc = "free"
  /\ items' = Append(items, NewItem(u, FALSE))
  /\ hands' = [hands EXCEPT ![h] = [pc |-> "look", todo |-> <<Len(items) + 1>>]]

\* A page that is listed, or comes earlier in the file, is skipped.
Imported(its, page) ==
  IF ListedIn(its, page.url) # {} THEN its
  ELSE Append(its, NewItem(page.url, page.titled))
ImportItems(file) ==
  LET all == FoldLeft(Imported, items, file)
  IN Len(all) <= MaxListed /\ items' = all /\ UNCHANGED hands

DeleteItem(i) == items' = [items EXCEPT ![i].gone = TRUE] /\ UNCHANGED hands

-----------------------------------------------------------------------------
(* Titles and summaries.                                                   *)

\* Writes reach an item that is there; they are the last ones that count.
Put(i, it) == items' = [items EXCEPT ![i] = IF items[i].gone THEN items[i] ELSE it]
Step(h, pc) == hands' = [hands EXCEPT ![h].pc = pc]
NextOf(h) ==
  hands' = [hands EXCEPT ![h] = IF Len(@.todo) = 1 THEN Free ELSE [pc |-> "look", todo |-> Tail(@.todo)]]

\* The oldest items that nothing was fetched of.
Fetchable == {i \in Remaining : items[i].fetch = "pending"}
ProcessPendingItems(h) ==
  /\ hands[h].pc = "free"
  /\ \E taken \in UNION {[1 .. n -> Fetchable] : n \in 1 .. SweepLimit} :
       /\ \A k \in 2 .. Len(taken) : taken[k - 1] < taken[k]
       /\ Range(taken) = {i \in Fetchable : Cardinality({j \in Fetchable : j < i}) < SweepLimit}
       /\ hands' = [hands EXCEPT ![h] = [pc |-> "look", todo |-> taken]]
  /\ UNCHANGED items

\* Who finds another at the item is not alone there, and neither is the other
\* (auxiliary).
FetchMetadata(h) ==
  /\ hands[h].pc = "look"
  /\ IF items[AtHand(h)].gone THEN NextOf(h) /\ UNCHANGED items
     ELSE /\ Step(h, "fetch")
          /\ items' = [items EXCEPT ![AtHand(h)].alone =
               @ /\ WorkersOn(AtHand(h)) = {h} /\ items[AtHand(h)].fetch = "pending"]

FetchFails(h) ==
  /\ hands[h].pc = "fetch" /\ Put(AtHand(h), [items[AtHand(h)] EXCEPT !.fetch = "error"]) /\ NextOf(h)

\* The page may have neither a title nor a description.
FetchAnswers(h, titled) ==
  /\ hands[h].pc = "fetch"
  /\ Put(AtHand(h), [items[AtHand(h)] EXCEPT !.fetch = "ok", !.title = IF titled THEN "fetched" ELSE "none"])
  /\ Step(h, "title")

\* Nothing is asked of the model where there is no title, or no key.
SkipSummary(h) ==
  /\ hands[h].pc = "title"
  /\ Put(AtHand(h), [items[AtHand(h)] EXCEPT !.summary = "skipped"]) /\ NextOf(h)
AskSummary(h) ==
  /\ hands[h].pc = "title" /\ ~items[AtHand(h)].gone /\ items[AtHand(h)].title # "none"
  /\ Step(h, "model") /\ UNCHANGED items

\* Wrong: a failure is taken for an empty summary.
FailureAsText(it) == [it EXCEPT !.summary = "ok"]
WithoutText(it) == [it EXCEPT !.summary = "error"]

SummaryFails(h) ==
  /\ hands[h].pc = "model" /\ Put(AtHand(h), WithoutText(items[AtHand(h)])) /\ NextOf(h)
SummaryAnswers(h) ==
  /\ hands[h].pc = "model"
  /\ Put(AtHand(h), [items[AtHand(h)] EXCEPT !.summary = "ok", !.text = TRUE]) /\ NextOf(h)

\* The process stops.
HandStops(h) == hands[h].pc # "free" /\ hands' = [hands EXCEPT ![h] = Free] /\ UNCHANGED items

ListNext ==
  \/ \E u \in Urls : \E h \in Hands : AddPage(u, h)
  \/ \E file \in Files : ImportItems(file)
  \/ \E i \in Remaining : DeleteItem(i)
  \/ \E h \in Hands :
       \/ ProcessPendingItems(h) \/ FetchMetadata(h) \/ FetchFails(h) \/ SkipSummary(h) \/ AskSummary(h)
       \/ SummaryFails(h) \/ SummaryAnswers(h) \/ HandStops(h) \/ \E titled \in BOOLEAN : FetchAnswers(h, titled)

ListSpec == ListInit /\ [][ListNext]_listVars

-----------------------------------------------------------------------------
(* Properties.                                                             *)

\* A page is listed once.
PageIsListedOnce == \A i, j \in Remaining : items[i].url = items[j].url => i = j

\* The title that an import brings is kept: nothing is fetched of such an item, not
\* by a later adding of its page either.
ImportedTitleIsKept ==
  \A i \in Made : items[i].brought => items[i].title = "imported" /\ WorkersOn(i) = {}

\* What is said of an item is so: a summary is there that is said to be, and is of a
\* title that is there; and unless two have worked at it, nothing that failed has left
\* something.
StatusIsTrue ==
  \A i \in Made :
    LET it == items[i]
    IN /\ it.summary = "ok" => it.text
       /\ it.fetch = "pending" => it.title = "none" /\ it.summary = "pending"
       /\ it.alone => /\ it.text => it.summary = "ok" /\ it.title = "fetched"
                      /\ it.fetch = "error" => it.title = "none" /\ it.summary = "pending"

ListInv == PageIsListedOnce /\ ImportedTitleIsKept /\ StatusIsTrue

\* Holds not: an item that an import has titled is never summed up, and a task that
\* is lost after the fetching leaves its item without, too.
SummaryIsSettled ==
  \A i \in Remaining : items[i].fetch = "ok" /\ WorkersOn(i) = {} => items[i].summary # "pending"

\* Holds not: of two that fetch a page, the one that fails may write last.
WhatIsThereIsOk == \A i \in Remaining : items[i].title = "fetched" => items[i].fetch = "ok"
=============================================================================
