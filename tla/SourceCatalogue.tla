--------------------------- MODULE SourceCatalogue ---------------------------
(***************************************************************************)
(* The sources of the readers: global ones, which everybody has until they *)
(* unsubscribe, and private ones, each with its owner in its key.  Every   *)
(* request reads the row of its source, decides, and writes in a later     *)
(* statement of its transaction without having locked the row, so that     *)
(* the requests of a reader (two tabs, a repeated click) overlap.          *)
(***************************************************************************)
EXTENDS Naturals, FiniteSets

CONSTANTS
  Readers,    \* users
  Globals,    \* sources of the application
  Slugs,      \* names a reader can ask for
  Tabs        \* requests in progress at a time

\* A private source is its owner with the name asked for.
Privates == Readers \X Slugs
Sources == Globals \cup Privates
OwnedBy(r, s) == s \in Privates /\ s[1] = r

\* The key of a private source begins with its owner; that of a global one does not.
ASSUME CatalogueAssumption == Globals \cap Privates = {}

Row == [state: {"none", "enabled", "disabled"}, deleted: BOOLEAN]
Preference == {"unset", "on", "off"}
Deeds == {"create", "import", "delete", "toggle", "cleanup", "dismiss", "prioritise", "onboard"}

VARIABLES
  row,        \* the row of a private source
  preference, \* per reader: the subscription to a source
  attention,  \* per reader: sources of high priority
  tab         \* requests that have read and not yet written

catalogueVars == <<row, preference, attention, tab>>

Free == [by |-> "nobody", deed |-> "none", source |-> "none"]

CatalogueTypeOK ==
  /\ row \in [Privates -> Row]
  /\ preference \in [Readers -> [Sources -> Preference]]
  /\ attention \in [Readers -> SUBSET Sources]
  /\ tab \in [Tabs -> [by: Readers, deed: Deeds, source: Sources] \cup {Free}]

CatalogueInit ==
  /\ row = [s \in Privates |-> [state |-> "none", deleted |-> FALSE]]
  /\ preference = [r \in Readers |-> [s \in Sources |-> "unset"]]
  /\ attention = [r \in Readers |-> {}]
  /\ tab = [t \in Tabs |-> Free]

Exists(s) == IF s \in Globals THEN TRUE ELSE row[s].state # "none"
Deleted(s) == IF s \in Globals THEN FALSE ELSE row[s].deleted
Visible(r, s) == s \in Globals \cup {q \in Privates : OwnedBy(r, q) /\ Exists(q)}
Seen(r, s) == Visible(r, s) /\ ~Deleted(s)

-----------------------------------------------------------------------------
(* What a request reads before it writes.                                  *)

\* Wrong: any source that exists may be enabled and disabled.
ToggleOfAnyone(r, s) == Exists(s) /\ ~Deleted(s)

CanToggle(r, s) == Seen(r, s)

\* Deleted rows are found too, so that a name is never free again.
CanCreate(r, s) == OwnedBy(r, s) /\ ~Exists(s)
\* A nudge that is accepted does not look whether its source is deleted.
CanDismiss(r, s) == Visible(r, s)
CanDelete(r, s) == OwnedBy(r, s) /\ Seen(r, s)

Admitted(r, d, s) ==
  CASE d \in {"create", "import"} -> CanCreate(r, s)
    [] d = "delete" -> CanDelete(r, s)
    [] d = "toggle" -> CanToggle(r, s)
    [] d \in {"cleanup", "prioritise"} -> Seen(r, s)
    [] d = "dismiss" -> CanDismiss(r, s)
    [] d = "onboard" -> s \in Globals

Read(t, r, d, s) ==
  /\ tab[t] = Free
  /\ Admitted(r, d, s)
  /\ tab' = [tab EXCEPT ![t] = [by |-> r, deed |-> d, source |-> s]]
  /\ UNCHANGED <<row, preference, attention>>

-----------------------------------------------------------------------------
(* What it writes.                                                         *)

Doing(t, D) == tab[t] # Free /\ tab[t].deed \in D
Done(t) == tab' = [tab EXCEPT ![t] = Free]

\* A row another request has created meanwhile is a violation of the key: a
\* creation fails, an import counts the outline as failed.
CreateSource(t) ==
  /\ Doing(t, {"create"}) /\ Done(t)
  /\ LET s == tab[t].source  r == tab[t].by IN
     IF Exists(s) THEN UNCHANGED <<row, preference, attention>>
     ELSE /\ row' = [row EXCEPT ![s].state = "enabled"]
          /\ preference' = [preference EXCEPT ![r][s] = "on"]
          /\ \E high \in BOOLEAN : attention' = [attention EXCEPT ![r] = IF high THEN @ \cup {s} ELSE @]

ImportOpml(t) ==
  /\ Doing(t, {"import"}) /\ Done(t)
  /\ row' = IF Exists(tab[t].source) THEN row ELSE [row EXCEPT ![tab[t].source].state = "enabled"]
  /\ UNCHANGED <<preference, attention>>

DeleteSource(t) ==
  /\ Doing(t, {"delete"}) /\ Done(t)
  /\ row' = [row EXCEPT ![tab[t].source] = [state |-> "disabled", deleted |-> TRUE]]
  /\ UNCHANGED <<preference, attention>>

\* The subscription to a global source, the flag of a private one.
Switch(r, s, on) ==
  IF s \in Globals
  THEN /\ preference' = [preference EXCEPT ![r][s] = IF on THEN "on" ELSE "off"]
       /\ UNCHANGED row
  ELSE /\ row' = [row EXCEPT ![s].state = IF on THEN "enabled" ELSE "disabled"]
       /\ UNCHANGED preference

SetSourceEnabled(t) ==
  /\ Doing(t, {"toggle"}) /\ Done(t)
  /\ \E on \in BOOLEAN : Switch(tab[t].by, tab[t].source, on)
  /\ UNCHANGED attention

\* Sources suggested for removal, and a nudge that is accepted.
SourceCleanup(t) ==
  /\ Doing(t, {"cleanup", "dismiss"}) /\ Done(t)
  /\ Switch(tab[t].by, tab[t].source, FALSE)
  /\ UNCHANGED attention

SetSourcePriority(t) ==
  /\ Doing(t, {"prioritise"}) /\ Done(t)
  /\ LET s == tab[t].source  r == tab[t].by IN
     /\ preference' = [preference EXCEPT ![r][s] = IF @ = "unset" THEN "on" ELSE @]
     /\ attention' \in {[attention EXCEPT ![r] = @ \cup {s}], [attention EXCEPT ![r] = @ \ {s}]}
  /\ UNCHANGED row

SaveInterests(t) ==
  /\ Doing(t, {"onboard"}) /\ Done(t)
  /\ \E on \in BOOLEAN : Switch(tab[t].by, tab[t].source, on)
  /\ UNCHANGED attention

CatalogueNext ==
  \E t \in Tabs :
    \/ \E r \in Readers, d \in Deeds, s \in Sources : Read(t, r, d, s)
    \/ CreateSource(t) \/ ImportOpml(t) \/ DeleteSource(t) \/ SetSourceEnabled(t)
    \/ SourceCleanup(t) \/ SetSourcePriority(t) \/ SaveInterests(t)

CatalogueSpec == CatalogueInit /\ [][CatalogueNext]_catalogueVars

-----------------------------------------------------------------------------
(* What is shown and what is fetched.                                      *)

Subscribed(r, s) ==
  IF s \in Globals THEN preference[r][s] # "off" ELSE row[s].state = "enabled"
Listing(r) == {<<s, Subscribed(r, s), s \in attention[r]>> : s \in {q \in Sources : Seen(r, q)}}

\* Wrong: the flag alone decides.
FetchedByFlag == Globals \cup {s \in Privates : row[s].state = "enabled"}
Fetched == Globals \cup {s \in Privates : row[s].state = "enabled" /\ ~row[s].deleted}

-----------------------------------------------------------------------------
(* Properties.                                                             *)

\* What a reader is shown of the sources changes by requests of that reader only.
ListingIsOwn ==
  [][\A r \in Readers : Listing(r)' # Listing(r) =>
       \E t \in Tabs : tab[t].by = r /\ tab'[t] = Free]_catalogueVars

\* A source is fetched for somebody who sees it as subscribed: a deleted one is
\* not, although a request that had read it before sets its flag again.
FetchedIsListed ==
  \A s \in Fetched \cap Privates : <<s, TRUE, s \in attention[s[1]]>> \in Listing(s[1])
=============================================================================
