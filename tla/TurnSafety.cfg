\* A message and its redelivery, and another message, of a known contact.
SPECIFICATION Spec
CONSTANTS
    m1 = m1
    m2 = m2
    Messages <- MCMessages
    Turn <- MCTurns
    MaxConv = 3
    MaxFaults = 1
    MaxConsole = 1
    Inline = TRUE
    KnownContact = TRUE
INVARIANTS TypeOK NoAnswerPastTheGate SilencedIsRecorded
PROPERTIES ClosedIsFinal MeetsLedger
CHECK_DEADLOCK FALSE
