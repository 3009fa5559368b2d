SPECIFICATION FairSpec
CONSTANTS
    t1 = t1
    t2 = t2
    t3 = t3
    t4 = t4
    marketing = marketing
    travel = travel
    Budget = 3
    NoEvent = NoEvent
    TrackingIds = {t1, t2}
    Handlers = {h1, h2}
    Departments <- MCDepartments
    Configured <- MCConfigured
    Events <- MCFewEvents
    Dept <- MCDept
    Amount <- MCAmount
    Total <- MCTotal
    MaxRetries = 2
    MaxFaults = 0
    MaxCrashes = 1
    MaxOverlaps = 0
PROPERTY
    EverySagaEnds
