SPECIFICATION Spec
CONSTANTS
    admin = admin
    p1 = p1
    p2 = p2
    NoRequest = NoRequest
    NoPassword = NoPassword
    NoUser = NoUser
    NoSecret = NoSecret
    NoToken = NoToken
    Nobody = Nobody
    EnvSecret = env
    DaprSecret = dapr
    Handlers = {h1, h2}
    Emails = {admin}
    Addresses = {ip1}
    Passwords = {p1, p2}
    Salts = {salt}
    DemoUsers <- MCDemoUsers
    Limit <- MCLimit
    Lifetime = 1
    MaxRetries = 2
    MaxWindow = 0
    MaxRequests = 1
    MaxLookups = 1
    MaxCrashes = 0
    MaxFaults = 0
    MaxConcurrency = 1
INVARIANT EscalatedShowsApproval
CHECK_DEADLOCK FALSE
