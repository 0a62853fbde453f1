SPECIFICATION Spec
CONSTANTS
    Workers = {w1, w2}
    Nobody = Nobody
    InitialBills = 1
    MaxFaults = 1
    MaxHolds = 1
    MaxPackages = 1
SYMMETRY WorkerSymmetry
INVARIANT TypeOK
INVARIANT StepsInOrder
INVARIANT ExceptionCanBeRetried
INVARIANT MadeOnce
CHECK_DEADLOCK FALSE
