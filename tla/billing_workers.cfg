SPECIFICATION Spec
CONSTANTS
  Workers = {w1, w2}
  NoWorker = NoWorker
  MaxAttempts = 2
  MaxCycle = 2
  FirstEnd = 2
  Reconcilers = {}
  Admin = Admin
  Supported = {"GENERATE", "MARK"}
  Events = {"pay"}
  Faults = {"retry", "config", "crash", "slow"}
  MaxFaults = 3
  MaxOps = 1
SYMMETRY WorkerSymmetry
INVARIANT TypeOK
INVARIANT CompletedMeansDone
PROPERTY LeaseProtectsJob
PROPERTY FollowsLedger
CHECK_DEADLOCK FALSE
