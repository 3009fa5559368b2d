SPECIFICATION Spec
CONSTANTS
    t1 = t1
    t2 = t2
    vendor = vendor
    number = number
    NoId = NoId
    NoEvent = NoEvent
    TrackingIds = {t1, t2}
    Invoice <- MCInvoice
    Routes <- MCRoutes
    Handlers = {h1, h2}
    MaxDecisions = 2
    MaxFaults = 1
    MaxCrashes = 0
    MaxOverlaps = 0
PROPERTY
    FirstWriteWins
CHECK_DEADLOCK FALSE
