CONSTANTS
  Callers = {d1, d2, v1, v2}
  Previews = {v1, v2}
  Configured = {d1, v1}
  NoCaller = NoCaller
  Requests = {q1, q2}
  MaxSteps = 2
  Sends = {m1, m2, m3}
  Capacity = 2
  Recappers = {r1, r2}
  MaxReads = 2
  Listed <- MCListed
  Sectioned <- MCSectioned
  Worthy <- MCWorthy
  MaxCitations = 2
  MaxSections = 2
  Text = 2
  Budget = 1
  Fetchers = {f1, f2}
  Analysts = {c1, c2}
  Kinds = {"insights", "perspectives"}
  Extractors = {e1, e2}
  Linkers = {l1, l2}
  Nobody = Nobody
  Candidates = {1, 2}
  MaxScored = 1
  Sweeps = {s1, s2}
  DailySweeps = {s2}
  MaxTaste = 2
  FeedKinds = {"feed", "mirrored", "bare"}
  Mirrors = 2
  MaxRetries = 1
  MaxSnippets = 1
  MaxItems = 2
  MaxEntries = 3
  MaxChecks = 2
  Wanting = {"article", "lesson", "snippet", "research"}
  MinCharacters = 2
  MinBlocks = 2
  MinSingleBlock = 3
  FailurePageMax = 3
  MaxCharacters = 3
  MaxBlocks = 2
  MaxHops = 2
  Sentences = {"s1", "s2"}
  Pages <- MCPages
  Claims = {1, 3}
  SlugOf <- MCSlugOf
  Stories = {1, 2, 3}
  Weight <- MCWeight
  ThemeOf <- MCThemeOf
  Match <- MCMatch
  Foci = {"none", "gold"}
  Proposals <- MCProposals
  MaxTasks = 2
  MaxAttempts = 2
  MaxLost = 1
  Sights <- MCSights
  Readers = {n1, n2, n3}
  Seers = {n1}
  Visits = {w1}
  MaxInbox = 1
  MaxShares = 2
  MaxMarks = 1
  MaxChores = 2
  Makers = {k1, k2}
  Tellers = {t1, t2}
  LookBack = 1
  Subjects = {"x", "y"}
  TaughtBy <- MCTaughtBy
  MaxConcepts = 1
  Outages = {1}
  MaxLessons = 1
  MaxHour = 2
  MaxWork = 3
SPECIFICATION ServicesSpec
INVARIANTS ServicesTypeOK AgentInv PushInv OneRecapIsTold ContentInv TalliesAreTrue
PROPERTIES CompletedIsKept WorkEnds
CHECK_DEADLOCK FALSE
