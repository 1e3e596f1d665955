\* One session, two wallets, maxSessionLifetime of 2 ticks, a request with
\* and one without a ClientTimeout (1 tick, shorter than maxSessionLifetime).
CONSTANTS
    Sessions = {s1}
    Clients = {c1}
    NoClient = NoClient
    MaxSessionLifetime = 2
    RetryTimeLimit = 1
    ClientTimeouts = {0, 1}
    MaxTime = 6
    ClientWindows <- MCClientWindows
    RequestFeatures <- MCRequestFeatures
    AcceptInsecureProtocolVersions = TRUE
    MinSecureProtocolVersion <- MCMinSecure
    NoSession = NoSession
    NoResult = NoResult
SPECIFICATION Spec
INVARIANT RequestorTokenLivesWithSession
