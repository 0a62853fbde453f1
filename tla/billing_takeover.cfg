SPECIFICATION FairSpec
CONSTANTS
  Workers = {w1, w2}
  NoWorker = NoWorker
  MaxAttempts = 3
  MaxCycle = 1
  FirstEnd = 1
  Reconcilers = {}
  Admin = Admin
  Supported = {"GENERATE", "DUE", "MARK", "OVERDUE_NOTICE"}
  Events = {"pay"}
  Faults = {"retry", "crash", "slow"}
  MaxFaults = 2
  MaxOps = 1
PROPERTY DueNoticeSent
CHECK_DEADLOCK FALSE
