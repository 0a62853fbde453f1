SPECIFICATION FairSpec
CONSTANTS
  Workers = {w1, w2}
  NoWorker = NoWorker
  MaxAttempts = 2
  Grants = {g1}
  MaxFaults = 1
INVARIANT TypeOK
INVARIANT OneTerm
INVARIANT CompletedMeansContinued
INVARIANT TakeoverIsRetryable
PROPERTY FinalIsFinal
PROPERTY TermIsSettled
CHECK_DEADLOCK FALSE
