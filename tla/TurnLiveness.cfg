\* Under fairness, with one fault.
SPECIFICATION FairSpec
CONSTANTS
    m1 = m1
    m2 = m2
    Messages <- MCMessages
    Turn <- MCTurns
    MaxConv = 3
    MaxFaults = 1
    MaxConsole = 0
    Inline = TRUE
    KnownContact = TRUE
PROPERTIES EveryMessageSettles
CHECK_DEADLOCK FALSE
