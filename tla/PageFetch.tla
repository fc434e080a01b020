------------------------------ MODULE PageFetch ------------------------------
(***************************************************************************)
(* The extraction of the text of one public page: methods are tried in a   *)
(* fixed order until one gives a text that passes the gate of quality.     *)
(* Each request resolves the name, refuses it when any address is not      *)
(* public, and connects to the very address that was checked; a redirect   *)
(* is a new name.  A browser goes through a proxy that does the same.      *)
(***************************************************************************)
EXTENDS Naturals, Sequences

CONSTANTS
  Wanting,         \* who wants the text: "article", "lesson", "snippet", "research"
  MinCharacters, MinBlocks, MinSingleBlock, FailurePageMax,  \* limits of the gate
  MaxCharacters, MaxBlocks,  \* bounds: sizes of a text
  MaxHops          \* redirects that are followed

ASSUME PageAssumption ==
  /\ Wanting \subseteq {"article", "lesson", "snippet", "research"}
  /\ {MinCharacters, MinBlocks, MinSingleBlock, FailurePageMax, MaxCharacters, MaxBlocks, MaxHops}
       \subseteq Nat

\* A text by what the gate measures: its size, whether it has words enough, its
\* longer blocks, and whether it reads like a page that refuses.
PageText == [characters: 0 .. MaxCharacters, words: BOOLEAN, blocks: 0 .. MaxBlocks, refusal: BOOLEAN]
Empty == [characters |-> 0, words |-> FALSE, blocks |-> 0, refusal |-> FALSE]

\* The parser keeps the longer blocks only; a model writes what it likes.
Parsed == {Empty} \cup {t \in PageText : t.blocks > 0 /\ t.characters > 0}
Written == {t \in PageText : t.characters > 0}

VARIABLES
  setting,  \* who wants the page, and what the installation and the page have
  method,   \* the method at work
  at,       \* what it does next
  hop,      \* redirects followed
  pinned,   \* the address that was checked
  dialled,  \* addresses connected to (auxiliary)
  tries,    \* attempts so far: method, outcome and reason
  got       \* the result

pageVars == <<setting, method, at, hop, pinned, dialled, tries, got>>

Reasons == {"unsafe_url", "not_found", "blocked", "fetch_failed", "non_html",
            "render_failed", "no_readable_content"}
Methods == <<"static", "selenium", "crawl4ai", "ai">>
Setting == [who: Wanting, proxy: BOOLEAN, amp: BOOLEAN, key: BOOLEAN]
Attempt == [method: {"static", "selenium", "crawl4ai", "ai"},
            status: {"accepted", "rejected", "failed"}, reason: Reasons \cup {"none"}]
NoResult == [status |-> "none", text |-> Empty, reason |-> "none"]

PageTypeOK ==
  /\ setting \in Setting
  /\ method \in {"static", "selenium", "crawl4ai", "ai"}
  /\ at \in {"resolve", "connect", "amp", "page", "skip", "next", "over"}
  /\ hop \in 0 .. MaxHops /\ pinned \in {"public", "inside"}
  /\ dialled \subseteq {"public", "inside"}
  /\ tries \in Seq(Attempt) /\ Len(tries) <= Len(Methods)
  /\ got \in [status: {"none", "ok", "error"}, text: PageText, reason: Reasons \cup {"none"}]

PageInit ==
  /\ setting \in Setting
  /\ method = "static" /\ at = "resolve" /\ hop = 0 /\ pinned = "public" /\ dialled = {}
  /\ tries = <<>> /\ got = NoResult

-----------------------------------------------------------------------------
(* The gate.                                                               *)

Substantial(t) ==
  /\ t.characters >= MinCharacters /\ t.words
  /\ t.blocks >= MinBlocks \/ t.characters >= MinSingleBlock

\* Wrong: a short page that refuses is let through.
AcceptedRefusing(t) == Substantial(t)
Accepted(t) == Substantial(t) /\ ~(t.characters < FailurePageMax /\ t.refusal)

-----------------------------------------------------------------------------
(* The order of the methods.                                               *)

Allowed(m) ==
  CASE m = "crawl4ai" -> setting.who # "research"
    [] m = "ai" -> setting.who \in {"article", "lesson"}
    [] OTHER -> TRUE

\* The allowed methods that have not been tried, by their places, and the next of them.
Left == {k \in DOMAIN Methods : Allowed(Methods[k]) /\ \A i \in DOMAIN tries : tries[i].method # Methods[k]}
Following == Methods[CHOOSE k \in Left : \A j \in Left : k <= j]

\* What ends the extraction although other methods are left.
Final == {"unsafe_url", "not_found", "non_html"}

\* Wrong: the reason of the last attempt.
LastReason(ts) == ts[Len(ts)].reason

\* The reason that tells most.
ResultReason(ts) ==
  IF \E i \in DOMAIN ts : ts[i].reason \in Final \cup {"blocked"}
  THEN LET first == CHOOSE i \in DOMAIN ts :
             /\ ts[i].reason \in Final \cup {"blocked"}
             /\ \A j \in 1 .. i - 1 : ts[j].reason \notin Final \cup {"blocked"}
       IN ts[first].reason
  ELSE "no_readable_content"

Conclude(status, text, reason) ==
  /\ got' = [status |-> status, text |-> text, reason |-> reason]
  /\ at' = "over"

\* An attempt without a text.
FailTry(reason) ==
  /\ tries' = Append(tries, [method |-> method, status |-> "failed", reason |-> reason])
  /\ IF method = "static" /\ reason \in Final
     THEN Conclude("error", Empty, reason)
     ELSE at' = "next" /\ UNCHANGED got

\* An attempt with a text, which the gate accepts or rejects.
JudgeTry(text) ==
  IF Accepted(text)
  THEN /\ tries' = Append(tries, [method |-> method, status |-> "accepted", reason |-> "none"])
       /\ Conclude("ok", text, "none")
  ELSE /\ tries' = Append(tries, [method |-> method, status |-> "rejected",
                                  reason |-> "no_readable_content"])
       /\ at' = "next" /\ UNCHANGED got

NextMethod ==
  /\ at = "next"
  /\ IF Left = {}
     THEN Conclude("error", Empty, ResultReason(tries)) /\ UNCHANGED method
     ELSE /\ method' = Following
          /\ at' = CASE Following = "selenium" -> (IF ~setting.proxy THEN "skip"
                                                    ELSE IF setting.amp THEN "amp" ELSE "page")
                     [] Following = "ai" -> (IF setting.key THEN "resolve" ELSE "skip")
                     [] OTHER -> "skip"
          /\ UNCHANGED got
  /\ hop' = 0 /\ UNCHANGED <<setting, pinned, dialled, tries>>

\* A browser without a proxy, a model without a key, and the crawler, which is
\* switched off.
SkipMethod ==
  /\ at = "skip"
  /\ FailTry(IF method = "selenium" THEN "render_failed" ELSE "fetch_failed")
  /\ UNCHANGED <<setting, method, hop, pinned, dialled>>

-----------------------------------------------------------------------------
(* One request: by the server itself, first and for the model.             *)

\* A failure of the request that the model's text was wanted for is a failure
\* like any other.
RequestFails(reason) == FailTry(IF method = "ai" THEN "fetch_failed" ELSE reason)

\* The name is resolved; every address of it must be public.
Resolve ==
  /\ at = "resolve"
  /\ \E answer \in SUBSET {"public", "inside"} :
       IF answer = {"public"}
       THEN at' = "connect" /\ pinned' = "public" /\ UNCHANGED <<tries, got>>
       ELSE RequestFails("unsafe_url") /\ UNCHANGED pinned
  /\ UNCHANGED <<setting, method, hop, dialled>>

\* Wrong: the name is looked up again for the connection.
DialByName == \E address \in {"public", "inside"} : dialled' = dialled \cup {address}
Dial == dialled' = dialled \cup {pinned}

Redirected ==
  /\ at = "connect" /\ hop < MaxHops
  /\ Dial /\ hop' = hop + 1 /\ at' = "resolve"
  /\ UNCHANGED <<setting, method, pinned, tries, got>>

Refused ==
  /\ at = "connect" /\ Dial
  /\ \E reason \in {"not_found", "blocked", "fetch_failed", "non_html"} : RequestFails(reason)
  /\ UNCHANGED <<setting, method, hop, pinned>>

\* The page is parsed, or written out by the model.
Answered ==
  /\ at = "connect" /\ Dial
  /\ \E text \in IF method = "ai" THEN Written \cup {Empty} ELSE Parsed :
       IF text = Empty THEN RequestFails("no_readable_content") ELSE JudgeTry(text)
  /\ UNCHANGED <<setting, method, hop, pinned>>

-----------------------------------------------------------------------------
(* The browser.                                                            *)

\* It could not be started, was refused a request or ended on a refused page.
RenderFails ==
  /\ at \in {"amp", "page"}
  /\ IF at = "amp" THEN at' = "page" /\ UNCHANGED <<tries, got>> ELSE FailTry("render_failed")
  /\ UNCHANGED <<setting, method, hop, pinned, dialled>>

\* What the page shows when it is loaded or has timed out, without its overlays.
Rendered ==
  /\ at \in {"amp", "page"}
  /\ \E text \in Parsed : IF text = Empty THEN FailTry("render_failed") ELSE JudgeTry(text)
  /\ UNCHANGED <<setting, method, hop, pinned, dialled>>

PageNext == NextMethod \/ SkipMethod \/ Resolve \/ Redirected \/ Refused \/ Answered \/ RenderFails \/ Rendered
PageSpec == PageInit /\ [][PageNext]_pageVars

-----------------------------------------------------------------------------
(* Properties.                                                             *)

\* What is given is a text that the last attempt was accepted for.  Without one,
\* every allowed method was tried in its order, unless the first answer settled
\* that there is no such page; and of a page that turned the reader away it is
\* said so, whatever the methods after that have met.
PageInv ==
  /\ dialled \subseteq {"public"}
  /\ \A i \in DOMAIN tries : tries[i].status = "accepted" => i = Len(tries) /\ got.status = "ok"
  /\ got.status = "ok" => Accepted(got.text) /\ (got.text.refusal => got.text.characters >= FailurePageMax)
  /\ got.status = "error" =>
       /\ tries[1].reason \in Final \cup {"blocked"} => got.reason = tries[1].reason
       /\ got.reason \notin Final => Left = {}
=============================================================================
