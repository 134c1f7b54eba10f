\* Violation: of two different first messages of a new number one is swallowed.
SPECIFICATION Spec
CONSTANTS
    m1 = m1
    m2 = m2
    Messages <- MCMessages
    Turn <- MCTurns
    MaxConv = 3
    MaxFaults = 0
    MaxConsole = 0
    Inline = TRUE
    KnownContact = FALSE
INVARIANTS SilencedIsRecorded
CHECK_DEADLOCK FALSE
