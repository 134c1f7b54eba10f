SPECIFICATION Spec
CONSTANTS
    s1 = s1
    s2 = s2
    t1 = t1
    t2 = t2
    Sweeps <- MCSweeps
    Turns <- MCTurns
    First = 1
    Gap = 2
    MaxAge = 3
    MaxNow = 5
    MaxEvents = 2
    MaxFaults = 1
    MaxRepeats = 2
CONSTRAINT OneTrouble
SYMMETRY SweepSymmetry
INVARIANTS
    TypeOK
    NudgeJustified
    AtMostTwoPerSilence
PROPERTIES NudgesSpaced DetailsKept
CHECK_DEADLOCK FALSE
