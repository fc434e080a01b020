SPECIFICATION SourcesSpec
CONSTANTS
 Followers = {f1, f2}
 MaxLines = 4
 MaxLogs = 2
 Origins = {"world", "own"}
 Workers = {k1, k2}
 MaxRuns = 2
 MostNew = 1
 Names = {1, 2, 3}
 FirstName <- MCFirstName
 NewNames <- MCNewNames
 NameKey <- MCNameKey
 SlugKey <- MCSlugKey
 Listings <- MCListings
 Readers = {r1, r2}
 Globals = {g1}
 Slugs = {n1}
 Tabs = {t1, t2}
 Intervals = {5, 30}
 EnvInterval = 30
 Admins = {a1, a2}
 Addresses = {"p", "q"}
 FeedOf <- MCFeedOf
 Marks = {"today", "done"}
 Contents = {"c", "d"}
 MaxReports = 1
 MaxMemories = 2
 MaxEvents = 3
 MaxEdits = 3
SYMMETRY Interchangeable
INVARIANTS SourcesTypeOK RunsAreShown SettingsInEffect
PROPERTIES ListingIsOwn
CHECK_DEADLOCK FALSE
