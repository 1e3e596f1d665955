--------------------------- MODULE ProtocolVersion ---------------------------
(***************************************************************************)
(* Protocol versions and the negotiation of the version of a session       *)
(* (src/messages.go ProtocolVersion, Below/Above; helpers.go               *)
(* chooseProtocolVersion).  A version is a pair <<major, minor>>.          *)
(***************************************************************************)
EXTENDS Naturals

CONSTANTS
    MinSecureProtocolVersion   \* minSecureProtocolVersion: the floor when
                               \* insecure (pre-2.8) versions are refused

Version == Nat \X Nat

\* messages.go NewVersion
NewVersion(major, minor) == <<major, minor>>

\* messages.go Below / BelowVersion: lexicographic comparison
Below(v, major, minor) == v[1] < major \/ (v[1] = major /\ v[2] < minor)
BelowVersion(v, other) == Below(v, other[1], other[2])

\* messages.go Above / AboveVersion
Above(v, major, minor) == v[1] > major \/ (v[1] = major /\ v[2] > minor)
AboveVersion(v, other) == Above(v, other[1], other[2])

\* sessions.go: the window the server supports
minProtocolVersion == NewVersion(2, 4)
maxProtocolVersion == NewVersion(2, 8)

ASSUME MinSecureAssumption ==
    /\ MinSecureProtocolVersion \in Version
    /\ ~AboveVersion(MinSecureProtocolVersion, maxProtocolVersion)

(***************************************************************************)
(* The features of a session request that raise the minimum version:      *)
(* LegacyCompatible, a non-empty Revocation list, a NextSession.           *)
(***************************************************************************)
Features == [legacyCompatible : BOOLEAN, revocation : BOOLEAN, nextSession : BOOLEAN]

\* chooseProtocolVersion, lines 99-114: each later feature overrides the
\* earlier minimum, so the last applicable one wins.
MinSessionProtocolVersion(f, acceptInsecure) ==
    IF ~acceptInsecure THEN MinSecureProtocolVersion
    ELSE IF f.nextSession THEN NewVersion(2, 7)
    ELSE IF f.revocation THEN NewVersion(2, 6)
    ELSE IF ~f.legacyCompatible THEN NewVersion(2, 5)
    ELSE minProtocolVersion

\* The outcome of a negotiation: ok = FALSE stands for the returned error.
Failed == [ok |-> FALSE, version |-> NewVersion(0, 0)]
Chosen(v) == [ok |-> TRUE, version |-> v]

\* A plausible bug: the check that the client's window is not empty dropped.
ChooseProtocolVersionNoWindowCheck(f, acceptInsecure, minClient, maxClient) ==
    LET minSession == MinSessionProtocolVersion(f, acceptInsecure) IN
    IF \/ AboveVersion(minClient, maxProtocolVersion)
       \/ BelowVersion(maxClient, minSession)
    THEN Failed
    ELSE IF AboveVersion(maxClient, maxProtocolVersion)
         THEN Chosen(maxProtocolVersion)
         ELSE Chosen(maxClient)

\* chooseProtocolVersion, lines 116-125
ChooseProtocolVersion(f, acceptInsecure, minClient, maxClient) ==
    LET minSession == MinSessionProtocolVersion(f, acceptInsecure) IN
    IF \/ AboveVersion(minClient, maxProtocolVersion)
       \/ BelowVersion(maxClient, minSession)
       \/ BelowVersion(maxClient, minClient)
    THEN Failed
    ELSE IF AboveVersion(maxClient, maxProtocolVersion)
         THEN Chosen(maxProtocolVersion)
         ELSE Chosen(maxClient)
=============================================================================
