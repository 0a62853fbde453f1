SPECIFICATION FairSpec
CONSTANTS
  Orders = {o1, o2}
  Bills = {b1, b2}
  Governed = {b1}
  Sessions = {s1, s2}
  Amount = 2
  MaxEvents = 1
  MaxFaults = 1
INVARIANT TypeOK
INVARIANT OpenTradeHasOwner
INVARIANT OneOrderPerBills
INVARIANT BlockedBillHasNoOrder
PROPERTY FollowsAccount
PROPERTY PaidTradeIsBooked
CHECK_DEADLOCK FALSE
