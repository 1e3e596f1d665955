\* A handler may be paused past maxLockLifetime anywhere in its transaction,
\* also between update()'s TTL check and add()'s SETs (a GC pause).
CONSTANTS
    Procs = {p1, p2, p3}
    NoProc = NoProc
    NoSession = NoSession
    MaxUpdates = 3
    ExpiryWindows = {"locked", "loaded", "handled", "checked", "release"}
SPECIFICATION Spec
INVARIANT NoLostUpdate
