CONSTANTS
    MinSecureProtocolVersion <- MCMinSecure
    VersionSpace <- MCVersionSpace
SPECIFICATION Spec
INVARIANT NegotiationCorrect
\* A negotiation is a single call: after it the behaviour ends.
CHECK_DEADLOCK FALSE
