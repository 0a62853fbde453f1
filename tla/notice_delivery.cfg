SPECIFICATION FairSpec
CONSTANTS
  Workers = {w1, w2}
  NoWorker = NoWorker
  MaxAttempts = 2
  MaxFaults = 2
  MaxOps = 2
INVARIANT TypeOK
INVARIANT NoSecondMessage
INVARIANT CompletedMeansDelivered
PROPERTY SentIsFinal
PROPERTY NoticeJobEnds
CHECK_DEADLOCK FALSE
