------------------------ MODULE ProtocolVersionProofs ------------------------
(***************************************************************************)
(* Proof that chooseProtocolVersion picks the highest version client and   *)
(* server both accept, and fails exactly when there is none, for every    *)
(* set of versions clients may advertise and every minSecureProtocolVersion*)
(* that MinSecureAssumption allows.                                        *)
(***************************************************************************)
EXTENDS MCProtocolVersion, TLAPS

USE MinSecureAssumption, VersionSpaceAssumption

\* The minimum a session's features impose is a version the server's
\* maximum does not fall below.
LEMMA MinSessionBounded ==
    ASSUME NEW f \in Features, NEW ai \in BOOLEAN
    PROVE  /\ MinSessionProtocolVersion(f, ai) \in Version
           /\ ~AboveVersion(MinSessionProtocolVersion(f, ai), maxProtocolVersion)
BY DEF MinSessionProtocolVersion, NewVersion, minProtocolVersion,
       maxProtocolVersion, Version, AboveVersion, Above

\* The state of a negotiation: the inputs drawn by Init, and the result of
\* the one call once it is made.
NegInv ==
    /\ minClient \in VersionSpace
    /\ maxClient \in VersionSpace
    /\ features \in Features
    /\ acceptInsecure \in BOOLEAN
    /\ result \in {Pending, ChooseProtocolVersion(features, acceptInsecure,
                                                  minClient, maxClient)}

LEMMA InitNegInv == Init => NegInv
BY DEF Init, NegInv

LEMMA NextNegInv == NegInv /\ [Negotiate]_vars => NegInv'
BY DEF NegInv, Negotiate, vars

\* The core of the argument: the outcome of chooseProtocolVersion against
\* the reference set of commonly acceptable versions.
LEMMA NegInvCorrect == NegInv => NegotiationCorrect
<1> SUFFICES ASSUME NegInv, result # Pending PROVE NegotiationCorrect
  BY DEF NegotiationCorrect
<1> DEFINE ms == MinSessionProtocolVersion(features, acceptInsecure)
           common == {v \in VersionSpace \cup {maxProtocolVersion} : Acceptable(v)}
           fail == \/ AboveVersion(minClient, maxProtocolVersion)
                   \/ BelowVersion(maxClient, ms)
                   \/ BelowVersion(maxClient, minClient)
<1>1. /\ result = ChooseProtocolVersion(features, acceptInsecure, minClient, maxClient)
      /\ minClient \in Version /\ maxClient \in Version
      /\ ms \in Version /\ ~AboveVersion(ms, maxProtocolVersion)
      /\ maxProtocolVersion \in Version
  BY MinSessionBounded DEF NegInv, maxProtocolVersion, NewVersion, Version
<1>2. common \subseteq Version
  BY <1>1
<1>3. CASE fail
  <2>1. result = Failed
    BY <1>1, <1>3 DEF ChooseProtocolVersion
  <2>2. common = {}
    BY <1>1, <1>2, <1>3 DEF Acceptable, Version, AboveVersion, Above,
                            BelowVersion, Below
  <2>3. QED
    BY <2>1, <2>2 DEF NegotiationCorrect, Failed
<1>4. CASE ~fail /\ AboveVersion(maxClient, maxProtocolVersion)
  <2>1. result = Chosen(maxProtocolVersion)
    BY <1>1, <1>4 DEF ChooseProtocolVersion
  <2>2. maxProtocolVersion \in common
    BY <1>1, <1>4 DEF Acceptable, Version, AboveVersion, Above,
                      BelowVersion, Below
  <2>3. \A w \in common : ~AboveVersion(w, maxProtocolVersion)
    BY DEF Acceptable
  <2>4. QED
    BY <2>1, <2>2, <2>3 DEF NegotiationCorrect, Chosen
<1>5. CASE ~fail /\ ~AboveVersion(maxClient, maxProtocolVersion)
  <2>1. result = Chosen(maxClient)
    BY <1>1, <1>5 DEF ChooseProtocolVersion
  <2>2. maxClient \in common
    BY <1>1, <1>5 DEF NegInv, Acceptable, Version, AboveVersion, Above,
                      BelowVersion, Below
  <2>3. \A w \in common : ~AboveVersion(w, maxClient)
    BY DEF Acceptable
  <2>4. QED
    BY <2>1, <2>2, <2>3 DEF NegotiationCorrect, Chosen
<1>6. QED
  BY <1>3, <1>4, <1>5

(***************************************************************************)
(* NegotiationCorrect for every value of the constants: the version        *)
(* chooseProtocolVersion settles on is the highest one the client's window,*)
(* the session's features and the server's window all accept, and it      *)
(* fails exactly when no such version exists.                              *)
(***************************************************************************)
THEOREM NegotiationCorrectHolds == Spec => []NegotiationCorrect
BY InitNegInv, NextNegInv, NegInvCorrect, PTL DEF Spec
=============================================================================
