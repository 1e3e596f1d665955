\* A requestor ClientTimeout of 5 ticks, longer than twice maxSessionLifetime.
CONSTANTS
    Sessions = {s1}
    Clients = {c1}
    NoClient = NoClient
    MaxSessionLifetime = 2
    RetryTimeLimit = 1
    ClientTimeouts = {0, 5}
    MaxTime = 3
    ClientWindows <- MCClientWindows
    RequestFeatures <- MCRequestFeatures
    AcceptInsecureProtocolVersions = TRUE
    MinSecureProtocolVersion <- MCMinSecure
    NoSession = NoSession
    NoResult = NoResult
SPECIFICATION Spec
PROPERTY InitializedTTLBounded
