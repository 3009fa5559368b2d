SPECIFICATION FairSpec
CONSTANTS
    t1 = t1
    NoEvent = NoEvent
    TrackingIds = {t1}
    Handlers = {h1, h2}
    MaxDecisions = 2
    MaxFaults = 1
    MaxCrashes = 1
    MaxOverlaps = 1
INVARIANTS
    TypeOK
    MarkedIsTold
    ToldOnce
    DashboardIsExact
PROPERTIES
    
    EveryOutcomeIsKnown
