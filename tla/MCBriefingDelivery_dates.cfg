\* One replica, two dates, no fault.
CONSTANTS
  r1 = r1
  r2 = r2
  t1 = t1
  t2 = t2
  t3 = t3
  Replicas = {r1}
  Tokens = {t1, t2, t3}
  NoToken = NoToken
  LastDate = 2
  StaleAfter = 2
  RetryDelay = 1
  MaxLag = 1
  MaxBriefings = 1
  MaxLostReplies = 0
  MaxFaults = 0
SPECIFICATION FairSpec
PROPERTY RetryIsTaken
