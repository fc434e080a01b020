CONSTANTS
  Windows = {w1, w2, w3}
  Unopened = Unopened
  Span = 2
  Horizon = 4
  Capacity = 2
  PerMinute = 4
  Minute = 3
  DayLength = 4
  Zones = {0, 2}
  MaxNow = 5
  MaxRevision = 2
  LastId = 3
  UrlOf <- MCUrlOf
  Shelved = {"b"}
  Goals = {1, 2}
  BatchSize = 1
  VisitZones = {0, 1, 3}
  VisitDay = 3
  MaxTime = 9
  Tabs = {t1, t2}
  Pages = {p1}
  Nobody = Nobody
  LeaseLength = 2
  MostAtOnce = 1
  Required = 2
  AtTheEnd = 1
  Expiry = 4
  Until = 5
  Links = {1, 2, 3}
  ContentOf <- MCContentOf
  PageLimit = 2
  GroupLimit = 1
  TrailPool = 2
  PoolLimit = 2
  Suggestions = 1
  MaxChanges = 3
  Articles = {1, 2, 3, 4}
  SourceOf <- MCSourceOf
  BelongsTo <- MCBelongsTo
  ColdScore <- MCColdScore
  OwnScore <- MCOwnScore
  Limit = 1
  RankWindow = 2
  MaxScored = 1
  MaxActs = 2
  Callers = {c1, c2}
  Silent = Silent
  Torn = Torn
  Turns = 2
  MaxVersion = 2
  MaxStops = 1
  Urls = {"p", "q"}
  Files <- MCFiles
  Hands = {h1, h2}
  SweepLimit = 1
  MaxListed = 2
  Papers = {1, 2, 3}
  Aims = {"x"}
  AimsOf <- MCAimsOf
  Quizmasters = {q1}
  Fresh = 0
  MaxChosen = 1
  Replies <- MCReplies
  Tries <- MCTries
  MaxToday = 1
  MaxFinished = 2
  MaxQuizzes = 2
SPECIFICATION ReadingSpec
INVARIANTS ReadingTypeOK CountedAndShown
PROPERTIES NothingFromBefore CreditIsEarned
CHECK_DEADLOCK FALSE
