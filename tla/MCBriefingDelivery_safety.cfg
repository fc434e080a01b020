\* Two replicas, one date, one crash, one lost reply.
CONSTANTS
  r1 = r1
  r2 = r2
  t1 = t1
  t2 = t2
  t3 = t3
  Replicas = {r1, r2}
  Tokens = {t1, t2, t3}
  NoToken = NoToken
  LastDate = 1
  StaleAfter = 2
  RetryDelay = 1
  MaxLag = 2
  MaxBriefings = 1
  MaxLostReplies = 1
  MaxFaults = 1
SPECIFICATION Spec
SYMMETRY Symmetry
INVARIANTS
  TypeOK
  AtMostOnceUnlessReplyLost
  SentWasMailed
  NoSendWhileOptedOut
  LedgerInv
PROPERTIES
  SendingLeftOnlyByItsSender
  ClosedIsFinal
  DailyMailSpec
