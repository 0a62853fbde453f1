SPECIFICATION Spec
CONSTANTS
  Workers = {w1}
  NoWorker = NoWorker
  MaxAttempts = 2
  MaxCycle = 2
  FirstEnd = 1
  Reconcilers = {r1}
  Admin = Admin
  Supported = {"GENERATE", "MARK"}
  Events = {"pause", "resume", "retry", "generate", "pay", "facts", "extend", "boundary"}
  Faults = {"config", "crash"}
  MaxFaults = 1
  MaxOps = 3
INVARIANT NoPeriodSkipped
INVARIANT FollowUpsWithBill
PROPERTY JobsNotResurrected
PROPERTY AutomationObeysSchedule
CHECK_DEADLOCK FALSE
