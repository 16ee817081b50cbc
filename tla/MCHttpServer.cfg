SPECIFICATION FairSpec
CONSTANTS
    Client = {c}
    Req = {r1, r2}
    Token = {k}
    NoToken = NoToken
    k = k
    Offered <- ThreeConfigs
    WINDOW = 1
    MAX_REQUESTS = 1
    CLEANUP_INTERVAL = 1
    TTL = 1
    MaxTime = 2
    MaxServers = 2
    MaxSessions = 1
    MaxRequests = 3
INVARIANTS AnsweredSignedIn ServerCurrent
PROPERTIES LimiterExact SettingsServed
CHECK_DEADLOCK FALSE
