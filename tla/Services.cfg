SPECIFICATION ServicesSpec
CONSTANTS
    Open = 1320
    Close = 2280
    ClosedDays = {4}
    MinLead = 60
    MaxDaysAhead = 30
    Texts <- MCTexts
    Clock <- MCClock
    Limit = 4
    MaxChars = 20
    TermLength <- Lengths
    Directories <- MCDirectories
    Questions <- MCQuestions
    r1 = r1
    r2 = r2
    Requests = {r1, r2}
    Payloads <- MCPayloads
    Verification = "signed"
    Listed = {"a", "b"}
    SourceLimit <- MCSourceLimit
    SenderLimit <- MCSenderLimit
    MaxAge = 2
    MaxTime = 2
    MaxDeliveries = 2
    MaxFaults = 2
SYMMETRY Interchangeable
INVARIANTS ServicesTypeOK SlotsBookable UndatedTime
    NeverEmptyHanded EntriesAnswerable NamedCourseFirst
    BudgetKept AcknowledgedIsHandled ShownOnceInOrder
CHECK_DEADLOCK FALSE
