SPECIFICATION FairSpec
CONSTANTS
    t1 = t1
    t2 = t2
    vendor = vendor
    number = number
    NoId = NoId
    NoEvent = NoEvent
    TrackingIds = {t1, t2}
    Invoice <- MCInvoice
    Routes <- MCRoutes
    Handlers = {h1, h2}
    MaxDecisions = 2
    MaxFaults = 2
    MaxCrashes = 1
    MaxOverlaps = 1
INVARIANTS
    TypeOK
    PointerHasRecord
    OnePerKeyReachesDecision
    DuplicatesAreDecidedHere
    DecisionFindsProcessing
PROPERTIES
    StatusMovesForward
    EverySubmissionSettles
CHECK_DEADLOCK FALSE
