\* Bookings: forms, detours, moves.
SPECIFICATION Spec
CONSTANTS
    Texts <- FormTexts
    Tapped <- FormTaps
    Images = FALSE
    OfferLive = FALSE
    Threshold = 1
    MAX_ATTEMPTS = 1
    MaxLeads = 2
INVARIANTS TypeOK BookingsComplete AsksOnlyWhatIsMissing
PROPERTIES MoveNeverDuplicates FormKept
CONSTRAINT BookingsLeft
