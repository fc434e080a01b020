\* A failed batch after its messages were flagged as read, on a server that
\* flags nothing by itself.
CONSTANTS
  Urls = {"a", "b", "c"}
  Feeds = {"world", "mine", "share"}
  OwnerOf <- MCOwnerOf
  Everyone = "everyone"
  Alike <- MCAlike
  Close <- MCClose
  ShareTarget = "share"
  Ingestors = {"app"}
  MaxId = 3
  Hands = {h1, h2}
  Nothing = Nothing
  Messages = {1, 2, 3}
  Addressed = {1, 2}
  MessageIds = {"x", "y", "z"}
  MessageIdOf <- MCMessageIdOf
  Pollers = {p1}
  FetchFlags = FALSE
  NoMessage = 0
  Watchlists = {w1, w2}
  Matching = {m1}
  Evaluations = {e1, e2}
  NoWatchlist = NoWatchlist
SPECIFICATION ArticlesSpec
INVARIANTS
  SeenIsStored
CHECK_DEADLOCK FALSE
