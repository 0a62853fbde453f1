SPECIFICATION Spec
CONSTANTS
  Orders = {o1}
  Bills = {b1}
  Governed = {}
  Sessions = {s1, s2}
  Amount = 1
  MaxEvents = 0
  MaxFaults = 0
INVARIANT OpenOrderIsPayable
CHECK_DEADLOCK FALSE
