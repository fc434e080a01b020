---------------------------- MODULE IngestReport ----------------------------
(***************************************************************************)
(* What is recorded of ingestion: a row per run, a row per source and run, *)
(* the last check of each source, and the health of sources that is        *)
(* computed from them.  One run at a time in a process; the application    *)
(* and a scheduled job may run at once.  The articles of a source, its     *)
(* last check, its row and the totals of the run are written in four       *)
(* transactions, of which any may be the last.                             *)
(* A row carries the name that its source had when the run began, and      *)
(* health finds a source's rows by names: names are not unique, and a      *)
(* restored archive gives a private source another.                        *)
(***************************************************************************)
EXTENDS Naturals, Sequences, FiniteSetsExt

CONSTANTS
  Origins,    \* sources that are checked in a run
  Workers,    \* processes that ingest
  MaxRuns,    \* bound: runs
  MostNew,    \* bound: articles a check adds
  Names,      \* names of sources, in the order in which the database sorts them
  FirstName,  \* per source: its name at first
  NewNames,   \* per source: names that a restored archive may give it
  NameKey, SlugKey,  \* per name, and per source for its slug: trimmed, in lower case
  Listings    \* the sources that a reader may be listed, in the order of the list

ASSUME ReportAssumption ==
  /\ IsFiniteSet(Origins) /\ MaxRuns \in Nat /\ MostNew \in Nat
  /\ Names \subseteq Nat /\ FirstName \in [Origins -> Names]
  /\ NewNames \in [Origins -> SUBSET Names] /\ Listings \subseteq Seq(Origins)

\* An exception may have no text, and then leaves a message that is empty.
Messages == {"none", "empty", "text"}
\* The source of a row is not stored; only properties look at it.
SourceRow == [origin: Origins, name: Names, new: 0 .. MostNew, error: Messages]
Total == 0 .. MostNew * Cardinality(Origins)
RunRow == [rows: Seq(SourceRow), finished: BOOLEAN, new: Total, errors: Nat]

VARIABLES
  spelled,  \* per source: its name
  runs,     \* the runs, in the order of their identifiers
  lastCheck,  \* per source: the message of its last check, and the run that made it
  worker,   \* per process: its run, what is left of it, the outcome to be recorded
  landed    \* per run: articles that were stored (auxiliary)

reportVars == <<spelled, runs, lastCheck, worker, landed>>

Resting == [run |-> 0, names |-> FirstName, left |-> {}, outcome |-> <<>>, new |-> 0, errors |-> 0, broken |-> FALSE]

ReportTypeOK ==
  /\ spelled \in [Origins -> Names]
  /\ runs \in Seq(RunRow) /\ Len(runs) <= MaxRuns
  /\ lastCheck \in [Origins -> [error: Messages, run: 0 .. MaxRuns]]
  /\ worker \in [Workers -> [run: 0 .. MaxRuns, names: [Origins -> Names], left: SUBSET Origins,
                            outcome: {<<>>} \cup {<<r>> : r \in SourceRow},
                            new: Total, errors: 0 .. Cardinality(Origins), broken: BOOLEAN]]
  /\ landed \in [1 .. Len(runs) -> Total]

ReportInit ==
  /\ spelled = FirstName /\ runs = <<>> /\ landed = <<>>
  /\ lastCheck = [o \in Origins |-> [error |-> "none", run |-> 0]]
  /\ worker = [w \in Workers |-> Resting]

BeginReport(w) ==
  /\ worker[w].run = 0 /\ Len(runs) < MaxRuns
  /\ runs' = Append(runs, [rows |-> <<>>, finished |-> FALSE, new |-> 0, errors |-> 0])
  /\ landed' = Append(landed, 0)
  /\ worker' = [worker EXCEPT ![w] =
                  [Resting EXCEPT !.run = Len(runs) + 1, !.names = spelled, !.left = Origins]]
  /\ UNCHANGED <<spelled, lastCheck>>

Busy(w) == worker[w].run # 0 /\ ~worker[w].broken

\* Wrong: a check that succeeds leaves the last error.
LastErrorKept(o, e) == IF e = "none" THEN lastCheck[o].error ELSE e
LastError(o, e) == e

Checked(w, o, n, e) ==
  /\ lastCheck' = [lastCheck EXCEPT ![o] = [error |-> LastError(o, e), run |-> worker[w].run]]
  /\ landed' = [landed EXCEPT ![worker[w].run] = @ + n]
  /\ worker' = [worker EXCEPT ![w].left = @ \ {o},
                              ![w].outcome = <<[origin |-> o, name |-> worker[w].names[o],
                                                new |-> n, error |-> e]>>]
  /\ UNCHANGED <<spelled, runs>>

\* Articles and last check are one transaction; when it fails the error is
\* written in another and nothing has been stored.
CheckSource(w, o) ==
  /\ Busy(w) /\ o \in worker[w].left /\ worker[w].outcome = <<>>
  /\ \/ \E n \in 0 .. MostNew : Checked(w, o, n, "none")
     \/ \E e \in Messages \ {"none"} : Checked(w, o, 0, e)

Counted(w) == worker[w].outcome[1]

\* Wrong: the totals count the outcome before its row is stored.
RecordSourceCountedFirst(w) ==
  /\ Busy(w) /\ worker[w].outcome # <<>>
  /\ \E stored \in BOOLEAN :
       /\ runs' = IF stored THEN [runs EXCEPT ![worker[w].run].rows = Append(@, Counted(w))] ELSE runs
       /\ worker' = [worker EXCEPT ![w].outcome = <<>>, ![w].new = @ + Counted(w).new,
                                   ![w].errors = IF Counted(w).error = "none" THEN @ ELSE @ + 1,
                                   ![w].broken = ~stored]
  /\ UNCHANGED <<spelled, lastCheck, landed>>

RecordSource(w) ==
  /\ Busy(w) /\ worker[w].outcome # <<>>
  /\ runs' = [runs EXCEPT ![worker[w].run].rows = Append(@, Counted(w))]
  /\ worker' = [worker EXCEPT ![w].outcome = <<>>, ![w].new = @ + Counted(w).new,
                              ![w].errors = IF Counted(w).error = "none" THEN @ ELSE @ + 1]
  /\ UNCHANGED <<spelled, lastCheck, landed>>

\* A statement outside the check fails: the run goes on to its end.
BreakOff(w) ==
  /\ Busy(w)
  /\ worker' = [worker EXCEPT ![w].outcome = <<>>, ![w].broken = TRUE]
  /\ UNCHANGED <<spelled, runs, lastCheck, landed>>

FinishReport(w) ==
  /\ worker[w].run # 0 /\ worker[w].outcome = <<>>
  /\ worker[w].broken \/ worker[w].left = {}
  /\ runs' = [runs EXCEPT ![worker[w].run] =
                [@ EXCEPT !.finished = TRUE, !.new = worker[w].new, !.errors = worker[w].errors]]
  /\ worker' = [worker EXCEPT ![w] = Resting]
  /\ UNCHANGED <<spelled, lastCheck, landed>>

\* The process ends, or the end of the run cannot be written.
LoseReport(w) ==
  /\ worker[w].run # 0
  /\ worker' = [worker EXCEPT ![w] = Resting]
  /\ UNCHANGED <<spelled, runs, lastCheck, landed>>

\* An archive that its owner restores has another name for a private source.
Rename(o, n) ==
  /\ n \in NewNames[o]
  /\ spelled' = [spelled EXCEPT ![o] = n]
  /\ UNCHANGED <<runs, lastCheck, worker, landed>>

ReportNext ==
  \/ \E o \in Origins, n \in Names : Rename(o, n)
  \/ \E w \in Workers :
       \/ BeginReport(w) \/ RecordSource(w) \/ BreakOff(w) \/ FinishReport(w) \/ LoseReport(w)
       \/ \E o \in Origins : CheckSource(w, o)

ReportSpec == ReportInit /\ [][ReportNext]_reportVars

-----------------------------------------------------------------------------
(* The health of a source, in a listing.                                   *)

\* The source that is credited with rows of a name: the last one listed that has
\* it as name or slug.
Answering(listing, n) ==
  {i \in DOMAIN listing : NameKey[n] \in {SlugKey[listing[i]], NameKey[spelled[listing[i]]]}}
CreditedTo(listing, n) ==
  IF Answering(listing, n) = {} THEN {} ELSE {listing[Max(Answering(listing, n))]}

\* The rows there are, by their run and place in it, and their order: by name, and
\* of one name the latest run, and its latest row, first.
Places == UNION {{r} \X DOMAIN runs[r].rows : r \in DOMAIN runs}
At(p) == runs[p[1]].rows[p[2]]
NoLater(p, q) ==
  \/ At(p).name < At(q).name
  \/ At(p).name = At(q).name /\ (p[1] > q[1] \/ (p[1] = q[1] /\ p[2] >= q[2]))

RowsFor(listing, o) == {p \in Places : o \in CreditedTo(listing, At(p).name)}

\* Failures with which the rows of a source begin; an empty message is none.
ErrorStreak(rows) ==
  Cardinality({p \in rows : \A q \in rows : NoLater(q, p) => At(q).error = "text"})

HealthStatus(listing, o) ==
  LET rows == RowsFor(listing, o) IN
    IF rows = {} THEN IF lastCheck[o].error = "text" THEN "ERROR" ELSE "OK"
    ELSE IF ErrorStreak(rows) > 0 THEN "ERROR" ELSE "OK"

-----------------------------------------------------------------------------
(* Properties.                                                             *)

\* The articles that rows count, each by its row and its number there, and the
\* rows that count an error.
ArticlesOf(rows) == UNION {{i} \X (1 .. rows[i].new) : i \in DOMAIN rows}
FailedOf(rows) == {i \in DOMAIN rows : rows[i].error # "none"}

\* The totals of a finished run are those of its rows, also when it broke off,
\* and leave out no article that was stored but those of an outcome whose row
\* could not be stored.
RunsAddUp ==
  \A r \in DOMAIN runs : LET run == runs[r] IN
    run.finished =>
      /\ run.new = Cardinality(ArticlesOf(run.rows))
      /\ run.errors = Cardinality(FailedOf(run.rows))
      /\ run.new <= landed[r]
      /\ Len(run.rows) = Cardinality(Origins) => run.new = landed[r]

\* A source is mistaken for no other: the rows that it is credited with are those
\* of its own checks, under one name.
OwnRows(o) == {p \in Places : At(p).origin = o}
Unmistaken(listing, o) ==
  /\ RowsFor(listing, o) = OwnRows(o)
  /\ \A p, q \in OwnRows(o) : At(p).name = At(q).name

\* When the last check of a source has its row, no run that began later has one.
LastCheckIsLatest(o) ==
  \/ OwnRows(o) = {} /\ lastCheck[o].run = 0
  \/ /\ \E p \in OwnRows(o) : p[1] = lastCheck[o].run
     /\ \A p \in OwnRows(o) : p[1] <= lastCheck[o].run

\* The health computed from the rows is that of the last check, however runs of two
\* processes, crashes and restored archives came between: of each source of a
\* listing that is mistaken for no other, both say the same.
HealthIsLastCheck ==
  \A listing \in Listings : \A i \in DOMAIN listing : LET o == listing[i] IN
    LastCheckIsLatest(o) /\ Unmistaken(listing, o)
      => (HealthStatus(listing, o) = "ERROR" <=> lastCheck[o].error = "text")

\* Holds not: of two sources with one name the last one listed is credited with the
\* rows of both (source_health.py:123-131), and the other's success hides that its own
\* last check failed.
FailureIsTold ==
  \A listing \in Listings : \A i \in DOMAIN listing : LET o == listing[i] IN
    lastCheck[o].error = "text" /\ LastCheckIsLatest(o) => HealthStatus(listing, o) = "ERROR"

\* Holds not: source_health.py:151-155 sets the status of a source from its error streak;
\* an exception without text is counted as an error of its run and shown as health.
FailedIsShown ==
  \A listing \in Listings : \A i \in DOMAIN listing : LET o == listing[i] IN
    LastCheckIsLatest(o) /\ Unmistaken(listing, o) /\ lastCheck[o].error # "none"
      => HealthStatus(listing, o) = "ERROR"
=============================================================================
