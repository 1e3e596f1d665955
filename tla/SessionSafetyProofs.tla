-------------------------- MODULE SessionSafetyProofs --------------------------
(***************************************************************************)
(* Proofs of the memory store's lifecycle and pairing properties, for      *)
(* every value of the constants: SessionEvolution (an action property) and *)
(* PairingGate (an invariant, through the inductive invariant GateInv).    *)
(***************************************************************************)
EXTENDS SessionServerProofs

USE ConstantsAssumption

-----------------------------------------------------------------------------
(* SessionEvolution *)

\* A handler chain moves a session's status along an edge or leaves it.
LEMMA ServeEdge ==
    ASSUME NEW r \in SessionRec, NEW ep \in Endpoints, NEW msg \in BodiesFor(ep),
           NEW c \in Clients \cup {NoClient}, NEW w \in ClientWindows,
           NEW auth \in BOOLEAN
    PROVE  LET st2 == Serve(r, ep, msg, c, w, auth).ses.status
           IN  st2 = r.status \/ <<r.status, st2>> \in Edges
<1>1. CASE ep = "session"
  BY <1>1 DEF Serve, HandleGetClientRequest, Out, SetStatus, Fail, MarkAlive,
              SessionRec, Edges
<1>2. CASE ep = "request"
  BY <1>2 DEF Serve, PairingMiddleware, HandleGetRequest, Out
<1>3. CASE ep = "proofs"
  BY <1>3 DEF Serve, PairingMiddleware, HandlePostProofs, Out, SetStatus, Fail,
              MarkAlive, SessionRec, Edges
<1>4. CASE ep = "frontend/options"
  BY <1>4 DEF Serve, FrontendMiddleware, UpdateFrontendOptions, Out, SessionRec
<1>5. CASE ep = "frontend/pairingcompleted"
  BY <1>5 DEF Serve, FrontendMiddleware, PairingCompleted, Out, SetStatus,
              SessionRec, Edges
<1>6. QED
  BY <1>1, <1>2, <1>3, <1>4, <1>5 DEF Endpoints

\* A request changes only the session it locked, and moves its status along
\* an edge of an unfinished session or leaves it.
LEMMA RequestStep ==
    ASSUME TypeOK, NEW s \in Sessions, NEW ep \in Endpoints,
           NEW msg \in BodiesFor(ep), NEW c \in Clients \cup {NoClient},
           NEW w \in ClientWindows, NEW auth \in BOOLEAN,
           Request(s, ep, msg, c, w, auth)
    PROVE  /\ s \in DOMAIN sess
           /\ DOMAIN sess' = DOMAIN sess
           /\ \A x \in DOMAIN sess : x # s => sess'[x] = sess[x]
           /\ UNCHANGED <<live, sweep>>
           /\ \/ sess'[s].status = sess[s].status
              \/ /\ ~Finished(sess[s].status)
                 /\ <<sess[s].status, sess'[s].status>> \in Edges
<1> DEFINE r == sess[s]
           o == Serve(r, ep, msg, c, w, auth)
<1>1. s \in DOMAIN sess /\ r \in SessionRec /\ UNCHANGED <<live, sweep>>
  BY DEF Request, TypeOK
<1>2. DOMAIN sess' = DOMAIN sess /\ \A x \in DOMAIN sess : x # s => sess'[x] = sess[x]
  BY DEF Request, TypeOK
<1>3. sess'[s].status = IF CacheValid(r, ep, msg) THEN r.status ELSE o.ses.status
  <2>1. CASE CacheValid(r, ep, msg)
    BY <2>1 DEF Request
  <2>2. CASE ~CacheValid(r, ep, msg)
    <3>1. OutType(o)
      BY <1>1, ServeType DEF TypeOK
    <3>2. QED
      BY <1>1, <2>2, <3>1 DEF Request, OutType, SessionRec
  <2>3. QED
    BY <2>1, <2>2
<1>4. Finished(r.status) => o.ses.status = r.status
  BY <1>1, ServeFrozen
<1>5. o.ses.status = r.status \/ <<r.status, o.ses.status>> \in Edges
  BY <1>1, ServeEdge
<1>6. <<r.status, o.ses.status>> \in Edges => ~Finished(r.status)
  BY DEF Edges, Finished, Initialized, Pairing, Connected, Done, Cancelled, Timeout
<1>7. QED
  BY <1>1, <1>2, <1>3, <1>4, <1>5, <1>6

\* cacheMiddleware around the chain leaves a finished session as it was,
\* but for its response cache.
LEMMA RequestFrozen ==
    ASSUME TypeOK, NEW s \in Sessions, NEW ep \in Endpoints,
           NEW msg \in BodiesFor(ep), NEW c \in Clients \cup {NoClient},
           NEW w \in ClientWindows, NEW auth \in BOOLEAN,
           Request(s, ep, msg, c, w, auth),
           Finished(sess[s].status)
    PROVE  Frozen(sess'[s]) = Frozen(sess[s])
<1> DEFINE r == sess[s]
           o == Serve(r, ep, msg, c, w, auth)
<1>1. s \in DOMAIN sess /\ r \in SessionRec
  BY DEF Request, TypeOK
<1>2. CASE CacheValid(r, ep, msg)
  BY <1>2 DEF Request
<1>3. CASE ~CacheValid(r, ep, msg)
  <2>1. o.ses = r
    BY <1>1, ServeFrozen
  <2>2. sess'[s] = [r EXCEPT !.cache = [endpoint |-> ep, message |-> msg,
                                       response |-> o.resp,
                                       sessionStatus |-> o.ses.status]]
    BY <1>1, <1>3, <2>1 DEF Request
  <2>3. QED
    BY <1>1, <2>2 DEF Frozen, SessionRec
<1>4. QED
  BY <1>2, <1>3

\* What one step does to the sessions, stated for a request.
EvolutionStep ==
    \A s \in DOMAIN sess :
        /\ s \in DOMAIN sess'
        /\ sess'[s].status # sess[s].status =>
               <<sess[s].status, sess'[s].status>> \in Edges
        /\ Finished(sess[s].status) => Frozen(sess'[s]) = Frozen(sess[s])

LEMMA RequestEvolution ==
    ASSUME TypeOK, NEW s \in Sessions, NEW ep \in Endpoints,
           NEW msg \in BodiesFor(ep), NEW c \in Clients \cup {NoClient},
           NEW w \in ClientWindows, NEW auth \in BOOLEAN,
           Request(s, ep, msg, c, w, auth)
    PROVE  EvolutionStep
<1>1. /\ s \in DOMAIN sess
      /\ DOMAIN sess' = DOMAIN sess
      /\ \A x \in DOMAIN sess : x # s => sess'[x] = sess[x]
      /\ UNCHANGED <<live, sweep>>
      /\ \/ sess'[s].status = sess[s].status
         \/ /\ ~Finished(sess[s].status)
            /\ <<sess[s].status, sess'[s].status>> \in Edges
  BY RequestStep
<1>2. Finished(sess[s].status) => Frozen(sess'[s]) = Frozen(sess[s])
  BY RequestFrozen
<1>3. QED
  BY <1>1, <1>2 DEF EvolutionStep

LEMMA NextEvolution == TypeOK /\ [Next]_vars => [EvolutionStep]_vars
<1> SUFFICES ASSUME TypeOK, [Next]_vars PROVE [EvolutionStep]_vars
  OBVIOUS
<1>1. ASSUME NEW s \in Sessions, NEW ct \in ClientTimeouts, NewSession(s, ct)
      PROVE EvolutionStep
  <2>1. \A x \in DOMAIN sess : sess'[x] = sess[x]
    BY <1>1 DEF NewSession, Add
  <2>2. DOMAIN sess' = DOMAIN sess \cup {s}
    BY <1>1 DEF NewSession, Add
  <2>3. QED
    BY <2>1, <2>2 DEF EvolutionStep
<1>2. ASSUME NEW s \in Sessions, NEW c \in Clients, ClientRequest(s, c)
      PROVE EvolutionStep
  <2>1. PICK ep \in {"session", "request", "proofs"}, w \in ClientWindows :
               \E msg \in BodiesFor(ep) : Request(s, ep, msg, c, w, FALSE)
    BY <1>2 DEF ClientRequest
  <2>2. PICK msg \in BodiesFor(ep) : Request(s, ep, msg, c, w, FALSE)
    BY <2>1
  <2>3. QED
    BY <2>2, RequestEvolution DEF Endpoints
<1>3. ASSUME NEW s \in Sessions, FrontendRequest(s)
      PROVE EvolutionStep
  <2>1. (CHOOSE w \in ClientWindows : TRUE) \in ClientWindows
    OBVIOUS
  <2>2. PICK ep \in {"frontend/options", "frontend/pairingcompleted"}, auth \in BOOLEAN :
               \E msg \in BodiesFor(ep) :
                  Request(s, ep, msg, NoClient, CHOOSE w \in ClientWindows : TRUE, auth)
    BY <1>3 DEF FrontendRequest
  <2>3. PICK msg \in BodiesFor(ep) :
               Request(s, ep, msg, NoClient, CHOOSE w \in ClientWindows : TRUE, auth)
    BY <2>2
  <2>4. QED
    BY <2>1, <2>3, RequestEvolution DEF Endpoints
\* cancelSession only cancels an unfinished session.
<1>4. ASSUME NEW s \in Sessions, CancelSession(s)
      PROVE EvolutionStep
  <2>1. s \in DOMAIN sess /\ sess[s] \in SessionRec /\ ~Finished(sess[s].status)
    BY <1>4 DEF CancelSession, TypeOK
  <2>2. sess' = [sess EXCEPT ![s] = Fail(MarkAlive(sess[s]))]
    BY <1>4 DEF CancelSession
  <2>3. sess'[s].status = Cancelled
    BY <2>1, <2>2 DEF Fail, SetStatus, MarkAlive, SessionRec
  <2>4. <<sess[s].status, Cancelled>> \in Edges
    BY <2>1 DEF SessionRec, Statuses, Finished, Edges
  <2>5. QED
    BY <2>1, <2>2, <2>3, <2>4 DEF EvolutionStep
\* deleteExpired times out only an unfinished session.
<1>5. ASSUME NEW s \in Sessions, SweepCheck(s)
      PROVE EvolutionStep
  <2> DEFINE r == sess[s]
             exp == r.lastActive + SessionTimeout(r) < now
  <2>1. s \in DOMAIN sess /\ r \in SessionRec
    BY <1>5 DEF SweepCheck, TypeOK
  <2>2. CASE exp /\ ~Finished(r.status)
    <3>1. sess' = [sess EXCEPT ![s] = SetStatus(MarkAlive(r), Timeout)]
      BY <1>5, <2>2 DEF SweepCheck
    <3>2. sess'[s].status = Timeout
      BY <2>1, <3>1 DEF SetStatus, MarkAlive, SessionRec
    <3>3. <<r.status, Timeout>> \in Edges
      BY <2>1, <2>2 DEF SessionRec, Statuses, Finished, Edges
    <3>4. QED
      BY <2>1, <2>2, <3>1, <3>2, <3>3 DEF EvolutionStep
  <2>3. CASE ~(exp /\ ~Finished(r.status))
    BY <1>5, <2>3 DEF SweepCheck, EvolutionStep
  <2>4. QED
    BY <2>2, <2>3
<1>6. CASE SweepStart \/ SweepDelete \/ Tick
  BY <1>6 DEF SweepStart, SweepDelete, Tick, EvolutionStep
<1>7. ASSUME NEW s \in Sessions, Lookup(s)
      PROVE EvolutionStep
  BY <1>7 DEF Lookup, EvolutionStep
<1>8. CASE UNCHANGED vars
  BY <1>8 DEF vars
<1>9. QED
  BY <1>1, <1>2, <1>3, <1>4, <1>5, <1>6, <1>7, <1>8 DEF Next

(***************************************************************************)
(* SessionEvolution for every value of the constants: a request, a cancel  *)
(* or the sweep moves a session's status only along the edges of the state *)
(* machine, and a finished session changes in nothing but its response     *)
(* cache (the handlers' guards, pairingMiddleware, pairingCompleted and    *)
(* deleteExpired's Finished check).                                        *)
(***************************************************************************)
THEOREM EvolutionHolds == Spec => SessionEvolution
<1>1. Spec => []TypeOK
  BY TypeCorrect
<1>2. QED
  BY <1>1, NextEvolution, PTL DEF Spec, SessionEvolution, EvolutionStep

-----------------------------------------------------------------------------
(* PairingGate                                                             *)
(*                                                                         *)
(* PairingGate is not inductive: a cached response that carries the       *)
(* request, or a session that could still reach CONNECTED without the      *)
(* frontend, would break it one step later.  GateAt(s) adds what the code *)
(* keeps for a session that is INITIALIZED (nothing disclosed, nothing     *)
(* cached that carries the request) and for a pin session not yet paired  *)
(* (the same, and its status is one from which only pairingCompleted      *)
(* leads to CONNECTED).                                                    *)
-----------------------------------------------------------------------------
Unpaired == {Initialized, Pairing, Cancelled, Timeout}

GateAt(s) ==
    LET r == sess[s] IN
    /\ r.status = Initialized =>
         disclosedTo[s] = {} /\ r.cache.response \notin CarriesRequest
    /\ r.pairingMethod = "pin" /\ s \notin pairedFor =>
         /\ disclosedTo[s] = {}
         /\ r.cache.response \notin CarriesRequest
         /\ r.status \in Unpaired

GateInv ==
    /\ TypeOK
    /\ \A s \in Sessions \ DOMAIN sess : disclosedTo[s] = {}
    /\ \A s \in DOMAIN sess : GateAt(s)

\* A handler chain that leaves a session INITIALIZED found it INITIALIZED and
\* sent no response that carries the request.
LEMMA ServeInitialized ==
    ASSUME NEW r \in SessionRec, NEW ep \in Endpoints, NEW msg \in BodiesFor(ep),
           NEW c \in Clients \cup {NoClient}, NEW w \in ClientWindows,
           NEW auth \in BOOLEAN,
           Serve(r, ep, msg, c, w, auth).ses.status = Initialized
    PROVE  /\ r.status = Initialized
           /\ Serve(r, ep, msg, c, w, auth).resp \notin CarriesRequest
<1>1. CASE ep = "session"
  BY <1>1 DEF Serve, HandleGetClientRequest, Out, SetStatus, Fail, MarkAlive,
              SessionRec, CarriesRequest,
              Initialized, Pairing, Connected, Cancelled, Done, Timeout
<1>2. CASE ep = "request"
  BY <1>2 DEF Serve, PairingMiddleware, HandleGetRequest, Out, CarriesRequest,
              Initialized, Pairing, Connected, Cancelled, Done, Timeout
<1>3. CASE ep = "proofs"
  BY <1>3 DEF Serve, PairingMiddleware, HandlePostProofs, Out, SetStatus, Fail,
              MarkAlive, SessionRec, CarriesRequest,
              Initialized, Pairing, Connected, Cancelled, Done, Timeout
<1>4. CASE ep = "frontend/options"
  BY <1>4 DEF Serve, FrontendMiddleware, UpdateFrontendOptions, Out, SessionRec,
              CarriesRequest
<1>5. CASE ep = "frontend/pairingcompleted"
  BY <1>5 DEF Serve, FrontendMiddleware, PairingCompleted, Out, SetStatus,
              SessionRec, CarriesRequest,
              Initialized, Pairing, Connected, Cancelled, Done, Timeout
<1>6. QED
  BY <1>1, <1>2, <1>3, <1>4, <1>5 DEF Endpoints

\* Only updateFrontendOptions changes the pairing method, and only of an
\* INITIALIZED session.
LEMMA ServeMethod ==
    ASSUME NEW r \in SessionRec, NEW ep \in Endpoints, NEW msg \in BodiesFor(ep),
           NEW c \in Clients \cup {NoClient}, NEW w \in ClientWindows,
           NEW auth \in BOOLEAN,
           Serve(r, ep, msg, c, w, auth).ses.pairingMethod # r.pairingMethod
    PROVE  r.status = Initialized
<1>1. CASE ep = "session"
  BY <1>1 DEF Serve, HandleGetClientRequest, Out, SetStatus, Fail, MarkAlive,
              SessionRec,
              Initialized, Pairing, Connected, Cancelled, Done, Timeout
<1>2. CASE ep = "request"
  BY <1>2 DEF Serve, PairingMiddleware, HandleGetRequest, Out
<1>3. CASE ep = "proofs"
  BY <1>3 DEF Serve, PairingMiddleware, HandlePostProofs, Out, SetStatus, Fail,
              MarkAlive, SessionRec,
              Initialized, Pairing, Connected, Cancelled, Done, Timeout
<1>4. CASE ep = "frontend/options"
  BY <1>4 DEF Serve, FrontendMiddleware, UpdateFrontendOptions, Out, SessionRec
<1>5. CASE ep = "frontend/pairingcompleted"
  BY <1>5 DEF Serve, FrontendMiddleware, PairingCompleted, Out, SetStatus,
              SessionRec,
              Initialized, Pairing, Connected, Cancelled, Done, Timeout
<1>6. QED
  BY <1>1, <1>2, <1>3, <1>4, <1>5 DEF Endpoints

\* In a pin session that is not paired, no handler chain sends the request
\* or leaves the session CONNECTED, but pairingCompleted on a PAIRING one:
\* getClientRequest leaves the request out, pairingMiddleware refuses.
LEMMA ServePinGate ==
    ASSUME NEW r \in SessionRec, NEW ep \in Endpoints, NEW msg \in BodiesFor(ep),
           NEW c \in Clients \cup {NoClient}, NEW w \in ClientWindows,
           NEW auth \in BOOLEAN,
           Serve(r, ep, msg, c, w, auth).ses.pairingMethod = "pin",
           r.status \in Unpaired,
           ~(r.status = Pairing /\ Serve(r, ep, msg, c, w, auth).ses.status = Connected)
    PROVE  /\ Serve(r, ep, msg, c, w, auth).resp \notin CarriesRequest
           /\ Serve(r, ep, msg, c, w, auth).ses.status \in Unpaired
<1>1. CASE ep = "session"
  BY <1>1 DEF Serve, HandleGetClientRequest, GetClientRequest, Out, SetStatus,
              Fail, MarkAlive, SessionRec, CarriesRequest, Unpaired,
              Initialized, Pairing, Connected, Cancelled, Done, Timeout
<1>2. CASE ep = "request"
  BY <1>2 DEF Serve, PairingMiddleware, HandleGetRequest, Out, CarriesRequest,
              Unpaired, Initialized, Pairing, Connected, Cancelled, Done, Timeout
<1>3. CASE ep = "proofs"
  BY <1>3 DEF Serve, PairingMiddleware, HandlePostProofs, Out, CarriesRequest,
              Unpaired,
              Initialized, Pairing, Connected, Cancelled, Done, Timeout
<1>4. CASE ep = "frontend/options"
  BY <1>4 DEF Serve, FrontendMiddleware, UpdateFrontendOptions, Out, SessionRec,
              CarriesRequest
<1>5. CASE ep = "frontend/pairingcompleted"
  BY <1>5 DEF Serve, FrontendMiddleware, PairingCompleted, Out, SetStatus,
              SessionRec, CarriesRequest, Unpaired,
              Initialized, Pairing, Connected, Cancelled, Done, Timeout
<1>6. QED
  BY <1>1, <1>2, <1>3, <1>4, <1>5 DEF Endpoints

LEMMA InitGateInv == Init => GateInv
BY InitTypeOK DEF Init, GateInv

\* A request keeps the gate: a replayed response is one the gate let
\* through before, a fresh one passes getClientRequest and pairingMiddleware.
LEMMA RequestGate ==
    ASSUME GateInv, NEW s \in Sessions, NEW ep \in Endpoints,
           NEW msg \in BodiesFor(ep), NEW c \in Clients \cup {NoClient},
           NEW w \in ClientWindows, NEW auth \in BOOLEAN,
           Request(s, ep, msg, c, w, auth)
    PROVE  GateInv'
<1> DEFINE r == sess[s]
           o == Serve(r, ep, msg, c, w, auth)
<1>1. TypeOK /\ s \in DOMAIN sess /\ r \in SessionRec
  BY DEF GateInv, Request, TypeOK
<1>2. TypeOK'
  BY <1>1, RequestTypeOK
<1>3. /\ DOMAIN sess' = DOMAIN sess
      /\ \A x \in DOMAIN sess : x # s => sess'[x] = sess[x]
      /\ pairedFor \subseteq pairedFor'
      /\ \A x \in Sessions : x # s => disclosedTo'[x] = disclosedTo[x]
  BY <1>1 DEF Request, Observe, TypeOK
<1>4. \A x \in Sessions \ DOMAIN sess' : disclosedTo'[x] = {}
  BY <1>1, <1>3 DEF GateInv
<1>5. \A x \in DOMAIN sess : x # s => GateAt(x)'
  BY <1>1, <1>3 DEF GateInv, GateAt, TypeOK
<1>6. ASSUME CacheValid(r, ep, msg) PROVE GateAt(s)'
  <2>1. sess' = sess /\ pairedFor' = pairedFor
    BY <1>6 DEF Request, Observe, Pairing, Connected
  <2>2. CASE r.cache.response \in CarriesRequest
    BY <1>1, <2>1, <2>2 DEF GateInv, GateAt
  <2>3. CASE r.cache.response \notin CarriesRequest
    <3>1. disclosedTo' = disclosedTo
      BY <1>6, <2>3 DEF Request, Observe
    <3>2. QED
      BY <1>1, <2>1, <3>1 DEF GateInv, GateAt
  <2>4. QED
    BY <2>2, <2>3
<1>7. ASSUME ~CacheValid(r, ep, msg) PROVE GateAt(s)'
  <2>1. OutType(o)
    BY <1>1, ServeType DEF TypeOK
  <2>2. /\ sess'[s].status = o.ses.status
        /\ sess'[s].pairingMethod = o.ses.pairingMethod
        /\ sess'[s].cache.response = o.resp
    BY <1>1, <1>7, <2>1 DEF Request, OutType, SessionRec
  <2>3. /\ disclosedTo'[s] = IF o.resp \in CarriesRequest /\ c \in Clients
                             THEN disclosedTo[s] \cup {c} ELSE disclosedTo[s]
        /\ pairedFor' = IF r.status = Pairing /\ o.ses.status = Connected
                        THEN pairedFor \cup {s} ELSE pairedFor
    BY <1>1, <1>7, <2>1 DEF Request, Observe, TypeOK, OutType, SessionRec
  <2>4. ASSUME o.ses.status = Initialized
        PROVE  disclosedTo'[s] = {} /\ o.resp \notin CarriesRequest
    <3>1. r.status = Initialized /\ o.resp \notin CarriesRequest
      BY <1>1, <2>4, ServeInitialized
    <3>2. disclosedTo[s] = {}
      BY <1>1, <3>1 DEF GateInv, GateAt
    <3>3. QED
      BY <2>3, <3>1, <3>2
  <2>5. ASSUME o.ses.pairingMethod = "pin", s \notin pairedFor'
        PROVE  /\ disclosedTo'[s] = {}
               /\ o.resp \notin CarriesRequest
               /\ o.ses.status \in Unpaired
    <3>1. s \notin pairedFor /\ ~(r.status = Pairing /\ o.ses.status = Connected)
      BY <2>3, <2>5
    <3>2. r.status \in Unpaired /\ disclosedTo[s] = {}
      <4>1. CASE r.pairingMethod = "pin"
        BY <1>1, <3>1, <4>1 DEF GateInv, GateAt
      <4>2. CASE r.pairingMethod # "pin"
        <5>1. r.status = Initialized
          BY <1>1, <2>5, <4>2, ServeMethod
        <5>2. QED
          BY <1>1, <5>1 DEF GateInv, GateAt, Unpaired
      <4>3. QED
        BY <4>1, <4>2
    <3>3. o.resp \notin CarriesRequest /\ o.ses.status \in Unpaired
      BY <1>1, <2>5, <3>1, <3>2, ServePinGate
    <3>4. QED
      BY <2>3, <3>2, <3>3
  <2>6. QED
    BY <2>2, <2>4, <2>5 DEF GateAt
<1>8. QED
  BY <1>2, <1>3, <1>4, <1>5, <1>6, <1>7 DEF GateInv

\* A status change that cancelSession or deleteExpired makes keeps the gate.
LEMMA FinishGate ==
    ASSUME GateInv, NEW s \in DOMAIN sess, NEW st \in {Cancelled, Timeout},
           sess' = [sess EXCEPT ![s] = SetStatus(MarkAlive(sess[s]), st)],
           UNCHANGED <<disclosedTo, pairedFor>>, TypeOK'
    PROVE  GateInv'
<1>1. sess[s] \in SessionRec /\ DOMAIN sess' = DOMAIN sess
  BY DEF GateInv, TypeOK
<1>2. /\ sess'[s].status = st
      /\ sess'[s].pairingMethod = sess[s].pairingMethod
      /\ sess'[s].cache = sess[s].cache
  BY <1>1 DEF SetStatus, MarkAlive, SessionRec
<1>3. GateAt(s)'
  BY <1>1, <1>2 DEF GateInv, GateAt, Unpaired, Initialized, Cancelled, Timeout
<1>4. QED
  BY <1>1, <1>3 DEF GateInv, GateAt

LEMMA NextGateInv == GateInv /\ [Next]_vars => GateInv'
<1> SUFFICES ASSUME GateInv, [Next]_vars PROVE GateInv'
  OBVIOUS
<1>0. TypeOK /\ TypeOK'
  BY NextTypeOK DEF GateInv
<1>1. ASSUME NEW s \in Sessions, NEW ct \in ClientTimeouts, NewSession(s, ct)
      PROVE GateInv'
  <2>1. DOMAIN sess' = DOMAIN sess \cup {s} /\ \A x \in DOMAIN sess : sess'[x] = sess[x]
    BY <1>1 DEF NewSession, Add
  <2>2. /\ sess'[s].status = Initialized
        /\ sess'[s].pairingMethod = "none"
        /\ sess'[s].cache.response = ""
    BY <1>1 DEF NewSession, Add, EmptyCache
  <2>3. disclosedTo[s] = {}
    BY <1>1 DEF NewSession, GateInv
  <2>4. GateAt(s)'
    BY <1>1, <2>2, <2>3 DEF NewSession, GateAt, CarriesRequest
  <2>5. QED
    BY <1>0, <1>1, <2>1, <2>4 DEF NewSession, GateInv, GateAt
<1>2. ASSUME NEW s \in Sessions, NEW c \in Clients, ClientRequest(s, c)
      PROVE GateInv'
  <2>1. PICK ep \in {"session", "request", "proofs"}, w \in ClientWindows :
               \E msg \in BodiesFor(ep) : Request(s, ep, msg, c, w, FALSE)
    BY <1>2 DEF ClientRequest
  <2>2. PICK msg \in BodiesFor(ep) : Request(s, ep, msg, c, w, FALSE)
    BY <2>1
  <2>3. QED
    BY <2>2, RequestGate DEF Endpoints
<1>3. ASSUME NEW s \in Sessions, FrontendRequest(s)
      PROVE GateInv'
  <2>1. (CHOOSE w \in ClientWindows : TRUE) \in ClientWindows
    OBVIOUS
  <2>2. PICK ep \in {"frontend/options", "frontend/pairingcompleted"}, auth \in BOOLEAN :
               \E msg \in BodiesFor(ep) :
                  Request(s, ep, msg, NoClient, CHOOSE w \in ClientWindows : TRUE, auth)
    BY <1>3 DEF FrontendRequest
  <2>3. PICK msg \in BodiesFor(ep) :
               Request(s, ep, msg, NoClient, CHOOSE w \in ClientWindows : TRUE, auth)
    BY <2>2
  <2>4. QED
    BY <2>1, <2>3, RequestGate DEF Endpoints
<1>4. ASSUME NEW s \in Sessions, CancelSession(s)
      PROVE GateInv'
  <2>1. s \in DOMAIN sess
    BY <1>0, <1>4 DEF CancelSession, TypeOK
  <2>2. sess' = [sess EXCEPT ![s] = SetStatus(MarkAlive(sess[s]), Cancelled)]
    BY <1>4 DEF CancelSession, Fail
  <2>3. QED
    BY <1>0, <1>4, <2>1, <2>2, FinishGate DEF CancelSession
<1>5. ASSUME NEW s \in Sessions, SweepCheck(s)
      PROVE GateInv'
  <2> DEFINE r == sess[s]
             exp == r.lastActive + SessionTimeout(r) < now
  <2>1. s \in DOMAIN sess
    BY <1>0, <1>5 DEF SweepCheck, TypeOK
  <2>2. CASE exp /\ ~Finished(r.status)
    <3>1. sess' = [sess EXCEPT ![s] = SetStatus(MarkAlive(r), Timeout)]
      BY <1>5, <2>2 DEF SweepCheck
    <3>2. QED
      BY <1>0, <1>5, <2>1, <3>1, FinishGate DEF SweepCheck
  <2>3. CASE ~(exp /\ ~Finished(r.status))
    BY <1>0, <1>5, <2>3 DEF SweepCheck, GateInv, GateAt
  <2>4. QED
    BY <2>2, <2>3
<1>6. CASE SweepStart \/ SweepDelete \/ Tick
  BY <1>0, <1>6 DEF SweepStart, SweepDelete, Tick, GateInv, GateAt
<1>7. ASSUME NEW s \in Sessions, Lookup(s)
      PROVE GateInv'
  BY <1>0, <1>7 DEF Lookup, GateInv, GateAt
<1>8. CASE UNCHANGED vars
  BY <1>8 DEF vars, GateInv, GateAt, TypeOK
<1>9. QED
  BY <1>1, <1>2, <1>3, <1>4, <1>5, <1>6, <1>7, <1>8 DEF Next

(***************************************************************************)
(* PairingGate for every value of the constants: in a pin session no      *)
(* client receives the session request, fresh from getClientRequest or    *)
(* replayed by cacheMiddleware, before the frontend's pairingCompleted.    *)
(***************************************************************************)
THEOREM PairingGateHolds == Spec => []PairingGate
<1>1. GateInv => PairingGate
  BY DEF GateInv, GateAt, PairingGate
<1>2. QED
  BY <1>1, InitGateInv, NextGateInv, PTL DEF Spec
=============================================================================
