\* A handler may be paused past maxLockLifetime anywhere before update()
\* asks for the lock's TTL, or after it wrote; the lock does not run out
\* between that TTL check and add()'s SETs.
CONSTANTS
    Procs = {p1, p2, p3}
    NoProc = NoProc
    NoSession = NoSession
    MaxUpdates = 3
    ExpiryWindows = {"locked", "loaded", "handled", "release"}
SPECIFICATION Spec
INVARIANT TypeOK
INVARIANT NoLostUpdate
