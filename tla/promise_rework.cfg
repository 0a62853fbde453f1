SPECIFICATION Spec
CONSTANTS
    Workers = {w1}
    Nobody = Nobody
    InitialBills = 1
    MaxFaults = 0
    MaxHolds = 0
    MaxPackages = 2
INVARIANT ReworkIsDecided
CHECK_DEADLOCK FALSE
