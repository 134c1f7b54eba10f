\* The first messages of a new number, processed after the 200.
SPECIFICATION Spec
CONSTANTS
    m1 = m1
    m2 = m2
    Messages <- MCMessages
    Turn <- MCTurns
    MaxConv = 3
    MaxFaults = 1
    MaxConsole = 1
    Inline = FALSE
    KnownContact = FALSE
INVARIANTS AtMostOnce FirstContactOpensOne
CHECK_DEADLOCK FALSE
