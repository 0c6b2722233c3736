SPECIFICATION WindowSpec
CONSTANTS
    Total = 4
    Window = 2
    Resumes <- MCResumes
    BlockTimeout = 1
    IdleTimeout = 3
    OfferTimeout = 4
INVARIANTS
    InFlightExact
PROPERTIES
    
    OfferWatched
    WindowNeverJams
CHECK_DEADLOCK FALSE
