SPECIFICATION Spec
CONSTANTS
    t1 = t1
    t2 = t2
    NoRequest = NoRequest
    TrackingIds = {t1, t2}
    Events <- MCEvents
    Handlers = {h1, h2}
    MaxRetries = 2
    MaxRequests = 2
    MaxFaults = 0
    MaxCrashes = 0
    MaxOverlaps = 1
INVARIANT
    NoDuplicatePublish
