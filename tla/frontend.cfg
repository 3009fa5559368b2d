SPECIFICATION FairSpec
CONSTANTS
    admin = admin
    p1 = p1
    p2 = p2
    NoRequest = NoRequest
    NoPassword = NoPassword
    NoUser = NoUser
    NoSecret = NoSecret
    NoToken = NoToken
    Nobody = Nobody
    EnvSecret = env
    DaprSecret = dapr
    Handlers = {h1, h2}
    Emails = {admin}
    Addresses = {ip1}
    Passwords = {p1, p2}
    Salts = {salt}
    DemoUsers <- MCDemoUsers
    Limit <- MCLimit
    Lifetime = 1
    MaxRetries = 2
    MaxWindow = 1
    MaxRequests = 2
    MaxLookups = 2
    MaxCrashes = 1
    MaxFaults = 1
    MaxConcurrency = 1
INVARIANTS
    TypeOK
    LimitHolds
    RegistrationSticks
    TokensTellTheTruth
    LoginIsUsable
PROPERTIES
    EveryLookupIsAnswered
CHECK_DEADLOCK FALSE
