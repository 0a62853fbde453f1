SPECIFICATION FairSpec
CONSTANTS
    Workers = {w1}
    Nobody = Nobody
    InitialBills = 1
    MaxFaults = 1
    MaxHolds = 1
    MaxPackages = 2
PROPERTY ActivationIsEarned
PROPERTY PaidMovesOn
PROPERTY ApprovedMovesOn
CHECK_DEADLOCK FALSE
