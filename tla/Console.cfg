SPECIFICATION FairSpec
CONSTANTS
    Phones = {"A", "B"}
    NoOne = "none"
    QueueSize = 1
    Elsewhere = {"blocked"}
    Opened = "A"
    MaxThreadReads = 2
    MaxListReads = 1
    MaxEvents = 2
    MaxOpens = 2
    MaxFaults = 1
INVARIANTS TypeOK TranscriptFaithful SignalledIsFetched
PROPERTIES NoFlipBack Converges
CHECK_DEADLOCK FALSE
