SPECIFICATION Spec
CONSTANTS
  Bills = {dep, dam}
  DepositBill = dep
  DamageBill = dam
  Governed = {dam}
  Payments = {p1}
  Clerks = {k1, k2}
  Amount = 2
  MaxCases = 2
  MaxRequests = 4
SYMMETRY ClerkSymmetry
INVARIANT TypeOK
INVARIANT BooksBalance
INVARIANT PaymentNotExceeded
INVARIANT DepositNotExceeded
INVARIANT OverdueIsCollected
PROPERTY SettledIsFinal
CHECK_DEADLOCK FALSE
