SPECIFICATION FairSpec
CONSTANTS
    w1 = w1
    w2 = w2
    Workers <- MCWorkers
    Leads <- MCOneLead
    MaxTime = 2
    MaxFaults = 2
    Faults <- MCAllFaults
PROPERTY EveryLeadDelivered
CHECK_DEADLOCK FALSE
