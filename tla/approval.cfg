SPECIFICATION FairSpec
CONSTANTS
    t1 = t1
    t2 = t2
    NoRequest = NoRequest
    TrackingIds = {t1, t2}
    Events <- MCEvents
    Handlers = {h1, h2}
    MaxRetries = 2
    MaxRequests = 3
    MaxFaults = 1
    MaxCrashes = 1
    MaxOverlaps = 1
INVARIANTS
    TypeOK
    IndexIsExact
    AnnouncedIsRecorded
    ResolutionIsAnnounced
PROPERTIES
    RecordFollowsStateMachine
    EveryEscalationIsTracked
