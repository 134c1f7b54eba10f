\* Violation: the second of two overlapping turns works on the state from before the lock.
SPECIFICATION Spec
CONSTANTS
    m1 = m1
    m2 = m2
    Messages <- MCMessages
    Turn <- MCTurns
    MaxConv = 3
    MaxFaults = 0
    MaxConsole = 0
    Inline = TRUE
    KnownContact = TRUE
INVARIANTS NoAdvanceLost
CHECK_DEADLOCK FALSE
