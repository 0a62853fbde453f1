SPECIFICATION FairSpec
CONSTANTS
  Workers = {w1}
  NoWorker = NoWorker
  MaxAttempts = 3
  MaxCycle = 2
  FirstEnd = 2
  Reconcilers = {r1}
  Admin = Admin
  Supported = {"GENERATE", "MARK"}
  Events = {"facts"}
  Faults = {"retry", "crash", "slow"}
  MaxFaults = 1
  MaxOps = 1
PROPERTY DuePeriodBilled
CHECK_DEADLOCK FALSE
