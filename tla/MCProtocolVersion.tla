-------------------------- MODULE MCProtocolVersion --------------------------
(***************************************************************************)
(* Checks chooseProtocolVersion against a reference definition: one call   *)
(* per behaviour, over every client window drawn from VersionSpace, every  *)
(* combination of request features and both settings of                    *)
(* AcceptInsecureProtocolVersions.                                         *)
(***************************************************************************)
EXTENDS ProtocolVersion

CONSTANTS
    VersionSpace   \* the versions clients may advertise (a finite Version set)

ASSUME VersionSpaceAssumption == VersionSpace \subseteq Version

VARIABLES
    minClient, maxClient,   \* X-IRMA-MinProtocolVersion / MaxProtocolVersion
    features,               \* the request's features
    acceptInsecure,         \* AcceptInsecureProtocolVersions
    result                  \* the outcome, or Pending before the call

vars == <<minClient, maxClient, features, acceptInsecure, result>>

MCMinSecure == NewVersion(2, 8)

MCVersionSpace == (1..3) \X (0..9)

Pending == [ok |-> FALSE, version |-> NewVersion(9, 9)]

Init ==
    /\ minClient \in VersionSpace
    /\ maxClient \in VersionSpace
    /\ features \in Features
    /\ acceptInsecure \in BOOLEAN
    /\ result = Pending

Negotiate ==
    /\ result = Pending
    /\ result' = ChooseProtocolVersion(features, acceptInsecure, minClient, maxClient)
    /\ UNCHANGED <<minClient, maxClient, features, acceptInsecure>>

Spec == Init /\ [][Negotiate]_vars

\* Reference: the versions both sides accept.
Acceptable(v) ==
    /\ ~BelowVersion(v, minClient) /\ ~AboveVersion(v, maxClient)
    /\ ~BelowVersion(v, MinSessionProtocolVersion(features, acceptInsecure))
    /\ ~AboveVersion(v, maxProtocolVersion)

\* Spec 8.5 / 4.3: the negotiation fails exactly when no version is
\* acceptable to client and server, and otherwise returns the highest
\* version both accept (chooseProtocolVersion, helpers.go 98-126).
NegotiationCorrect ==
    result # Pending =>
        LET common == {v \in VersionSpace \cup {maxProtocolVersion} : Acceptable(v)} IN
        /\ result.ok <=> common # {}
        /\ result.ok => /\ result.version \in common
                        /\ \A w \in common : ~AboveVersion(w, result.version)
=============================================================================
