SPECIFICATION Spec
CONSTANTS
    w1 = w1
    w2 = w2
    Workers <- MCWorkers
    Leads <- MCTwoLeads
    MaxTime = 2
    MaxFaults = 2
    Faults <- MCAllFaults
SYMMETRY WorkerSymmetry
INVARIANTS
    TypeOK
    SyncedHasRow
    OneRowUnlessRaced
    CurrentUnlessRaced
CHECK_DEADLOCK FALSE
