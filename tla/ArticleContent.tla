--------------------------- MODULE ArticleContent ---------------------------
(***************************************************************************)
(* What is fetched and generated about one article and cached in its row:  *)
(* the body, the two analyses that are generated from it under a lock of   *)
(* the database, and the entities with the relationships between them,     *)
(* which share one column and are written without a lock.                  *)
(***************************************************************************)
EXTENDS Naturals, FiniteSets

CONSTANTS
  Fetchers,    \* readers and prefetches that want the body
  Analysts,    \* callers that want an analysis
  Kinds,       \* the analyses: insights and perspectives
  Extractors,  \* callers and sweeps that extract entities
  Linkers,     \* sweeps that extract the relationships between entities
  Nobody       \* no caller, and nothing cached

ASSUME ContentAssumption ==
  Nobody \notin Fetchers \cup Analysts \cup Extractors \cup Linkers

VARIABLES
  body,      \* status of the body
  post,      \* whether the feed's own text is a complete body
  fetching,  \* callers that have found no body and fetch it
  lock,      \* per analysis, who holds its lock
  analysis,  \* per analysis, whose is cached
  made,      \* per analysis, callers that have generated and kept one (auxiliary)
  entities,  \* the column: whose entities, and whose entities are related
  extracting,  \* callers that have found no entities and extract them
  linking    \* per sweep, whose entities it has read and relates

contentVars == <<body, post, fetching, lock, analysis, made, entities, extracting, linking>>

ContentTypeOK ==
  /\ body \in {"missing", "ok", "failed"} /\ post \in BOOLEAN /\ fetching \subseteq Fetchers
  /\ lock \in [Kinds -> Analysts \cup {Nobody}]
  /\ analysis \in [Kinds -> Analysts \cup {Nobody}]
  /\ made \in [Kinds -> SUBSET Analysts]
  /\ entities \in [of: Extractors \cup {Nobody}, related: Extractors \cup {Nobody}]
  /\ extracting \subseteq Extractors
  /\ linking \in [Linkers -> Extractors \cup {Nobody}]

ContentInit ==
  /\ body = "missing" /\ post \in BOOLEAN /\ fetching = {}
  /\ lock = [k \in Kinds |-> Nobody] /\ analysis = [k \in Kinds |-> Nobody]
  /\ made = [k \in Kinds |-> {}]
  /\ entities = [of |-> Nobody, related |-> Nobody]
  /\ extracting = {} /\ linking = [r \in Linkers |-> Nobody]

bodyVars == <<body, post, fetching>>
analysisVars == <<lock, analysis, made>>
entityVars == <<entities, extracting, linking>>

-----------------------------------------------------------------------------
(* The body.                                                               *)

AskBody(f) ==
  /\ f \notin fetching /\ body # "ok"
  /\ IF post THEN body' = "ok" /\ UNCHANGED fetching
             ELSE fetching' = fetching \cup {f} /\ UNCHANGED body
  /\ UNCHANGED post /\ UNCHANGED analysisVars /\ UNCHANGED entityVars

\* The fetch has ended, well or not, and is stored whatever the row holds now.
StoreBody(f) ==
  /\ f \in fetching
  /\ fetching' = fetching \ {f}
  /\ body' \in {"ok", "failed"}
  /\ UNCHANGED post /\ UNCHANGED analysisVars /\ UNCHANGED entityVars

-----------------------------------------------------------------------------
(* The analyses.                                                           *)

\* The caller waits for the lock, which its transaction holds to the end.  What
\* is cached is returned, and nothing is generated without a body.
LockAnalysis(c, k) ==
  /\ lock[k] = Nobody
  /\ analysis[k] = Nobody /\ body = "ok"
  /\ lock' = [lock EXCEPT ![k] = c]
  /\ UNCHANGED <<analysis, made>> /\ UNCHANGED bodyVars /\ UNCHANGED entityVars

\* The analysis is generated and stored, or the transaction is rolled back.
EndAnalysis(c, k) ==
  /\ lock[k] = c
  /\ lock' = [lock EXCEPT ![k] = Nobody]
  /\ \/ /\ analysis' = [analysis EXCEPT ![k] = c]
        /\ made' = [made EXCEPT ![k] = @ \cup {c}]
     \/ UNCHANGED <<analysis, made>>
  /\ UNCHANGED bodyVars /\ UNCHANGED entityVars

-----------------------------------------------------------------------------
(* The entities and their relationships.                                   *)

AskEntities(e) ==
  /\ e \notin extracting /\ entities.of = Nobody
  /\ extracting' = extracting \cup {e}
  /\ UNCHANGED <<entities, linking>> /\ UNCHANGED bodyVars /\ UNCHANGED analysisVars

\* Stored without looking: the entities and relationships of another are gone.
StoreEntities(e) ==
  /\ e \in extracting
  /\ extracting' = extracting \ {e}
  /\ entities' \in {entities, [of |-> e, related |-> Nobody]}
  /\ UNCHANGED linking /\ UNCHANGED bodyVars /\ UNCHANGED analysisVars

AskRelationships(r) ==
  /\ linking[r] = Nobody /\ entities.of # Nobody /\ entities.related = Nobody
  /\ linking' = [linking EXCEPT ![r] = entities.of]
  /\ UNCHANGED <<entities, extracting>> /\ UNCHANGED bodyVars /\ UNCHANGED analysisVars

\* Wrong: the relationships are stored into the row as it is by then.
WithCurrent(r) == [of |-> entities.of, related |-> linking[r]]

\* The relationships are stored with the entities they were extracted from.
WithRelationships(r) == [of |-> linking[r], related |-> linking[r]]
StoreRelationships(r) ==
  /\ linking[r] # Nobody
  /\ linking' = [linking EXCEPT ![r] = Nobody]
  /\ entities' \in {entities, WithRelationships(r)}
  /\ UNCHANGED extracting /\ UNCHANGED bodyVars /\ UNCHANGED analysisVars

ContentNext ==
  \/ \E f \in Fetchers : AskBody(f) \/ StoreBody(f)
  \/ \E c \in Analysts, k \in Kinds : LockAnalysis(c, k) \/ EndAnalysis(c, k)
  \/ \E e \in Extractors : AskEntities(e) \/ StoreEntities(e)
  \/ \E r \in Linkers : AskRelationships(r) \/ StoreRelationships(r)

ContentSpec == ContentInit /\ [][ContentNext]_contentVars

-----------------------------------------------------------------------------
(* Properties.                                                             *)

\* insights.py:185 and perspectives.py:273, "Single-flight": however many want
\* it, an analysis is generated and kept once.  entities.py:336: the column
\* never shows relationships beside entities they were not extracted from.
ContentInv ==
  /\ \A k \in Kinds : Cardinality(made[k]) <= 1 /\ (lock[k] # Nobody => made[k] = {})
  /\ entities.related \in {Nobody, entities.of}
=============================================================================
