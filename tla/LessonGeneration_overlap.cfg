\* Two tasks of one lesson, one media request, lost tasks and recovery.
CONSTANTS
  Runs = {n1, n2}
  NoRun = NoRun
  Controls = {short}
  Requests = {q1}
  Documents = {slides}
SPECIFICATION FairSpec
INVARIANTS
  TypeOK
  RunsAreTruthful
  NothingShownFromFailure
PROPERTIES
  PendingEnds
