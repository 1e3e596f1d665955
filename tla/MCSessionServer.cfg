CONSTANTS
    Sessions = {s1}
    Clients = {c1, c2}
    NoClient = NoClient
    MaxSessionLifetime = 2
    RetryTimeLimit = 1
    ClientTimeouts = {0, 1}
    MaxTime = 6
    ClientWindows <- MCClientWindows
    RequestFeatures <- MCRequestFeatures
    AcceptInsecureProtocolVersions = TRUE
    MinSecureProtocolVersion <- MCMinSecure
SPECIFICATION Spec
INVARIANT TypeOK
INVARIANT PairingGate
PROPERTY SessionEvolution
PROPERTY ResultRetention
