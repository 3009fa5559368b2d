SPECIFICATION FairSpec
CONSTANTS
    t1 = t1
    t2 = t2
    t3 = t3
    t4 = t4
    marketing = marketing
    travel = travel
    Budget = 2
    NoEvent = NoEvent
    TrackingIds = {t1, t2, t3, t4}
    Handlers = {h1, h2}
    Departments <- MCDepartments
    Configured <- MCConfigured
    Events <- MCEvents
    Dept <- MCDept
    Amount <- MCAmount
    Total <- MCTotal
    MaxRetries = 3
    MaxFaults = 0
    MaxCrashes = 0
    MaxOverlaps = 0
PROPERTIES
    KeepsContract
    EveryApprovalIsSettled
