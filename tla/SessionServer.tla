---------------------------- MODULE SessionServer ----------------------------
(***************************************************************************)
(* The session lifecycle of the IRMA server over the in-memory session    *)
(* store (src/server/irmaserver/sessions.go memorySessionStore), with the  *)
(* middleware chain every client-facing request passes through             *)
(* (helpers.go sessionMiddleware -> cacheMiddleware -> frontendMiddleware  *)
(* or pairingMiddleware -> handler) and the expiry sweep deleteExpired.    *)
(*                                                                         *)
(* A request runs its whole chain under the session's mutex, so it is one *)
(* atomic step.  deleteExpired takes the store's read lock, then each     *)
(* session's mutex, then the store's write lock: it is three kinds of      *)
(* step between which requests and new sessions interleave.                *)
(*                                                                         *)
(* The handlers behind the middleware (client GET of the session request, *)
(* GET of the request after pairing, POST of the proofs, requestor cancel) *)
(* live outside src/ and are modelled from the spec (4.1, 4.6).            *)
(***************************************************************************)
EXTENDS Naturals, FiniteSets, ProtocolVersion

CONSTANTS
    Sessions,             \* session tokens: one stands for a session's
                          \* RequestorToken/ClientToken pair
    Clients,              \* wallets; a wallet sends its own Authorization
    NoClient,             \* ClientAuth before a client connected
    MaxSessionLifetime,   \* maxSessionLifetime, in clock ticks
    RetryTimeLimit,       \* retryTimeLimit, in clock ticks
    ClientTimeouts,       \* values of the request's ClientTimeout (0 = unset)
    MaxTime,              \* bound on the clock
    ClientWindows,        \* <<min, max>> protocol versions clients advertise
    RequestFeatures,      \* the features of the requests (ProtocolVersion)
    AcceptInsecureProtocolVersions

ASSUME ConstantsAssumption ==
    /\ NoClient \notin Clients
    /\ MaxSessionLifetime \in Nat \ {0}
    /\ RetryTimeLimit \in Nat
    /\ ClientTimeouts \subseteq Nat /\ 0 \in ClientTimeouts
    /\ MaxTime \in Nat
    /\ ClientWindows \subseteq Version \X Version /\ ClientWindows # {}
    /\ RequestFeatures \in Features
    /\ AcceptInsecureProtocolVersions \in BOOLEAN

-----------------------------------------------------------------------------
(* messages.go ServerStatus and Finished *)
Initialized == "INITIALIZED"
Pairing     == "PAIRING"
Connected   == "CONNECTED"
Cancelled   == "CANCELLED"
Done        == "DONE"
Timeout     == "TIMEOUT"
Statuses == {Initialized, Pairing, Connected, Cancelled, Done, Timeout}
Finished(st) == st \in {Done, Cancelled, Timeout}

PairingMethods == {"none", "pin"}

(***************************************************************************)
(* Endpoints behind sessionMiddleware and cacheMiddleware, the request     *)
(* bodies, and the response bodies (an error response is named after its  *)
(* error kind).  "" is an empty body.                                      *)
(***************************************************************************)
Endpoints == {"session", "request", "proofs", "frontend/options", "frontend/pairingcompleted"}
ProofBodies == {"validProofs", "invalidProofs"}
OptionBodies == {"", "none", "pin", "bogus"}
Bodies == {""} \cup ProofBodies \cup OptionBodies
Responses == {"clientRequestWithRequest", "clientRequest", "request",
              "proofStatus", "options", "pairingCompleted",
              "unexpectedRequest", "pairingRequired", "irmaUnauthorized",
              "protocolVersion", "proofsInvalid", "invalidRequest"}
\* Responses that carry the session request itself (getClientRequest with
\* PairingMethodNone, and getRequest).
CarriesRequest == {"clientRequestWithRequest", "request"}

\* responseCache; the zero value responseCache{} is EmptyCache.
CacheRec == [endpoint : Endpoints \cup {""}, message : Bodies,
             response : Responses \cup {""}, sessionStatus : Statuses \cup {""}]
EmptyCache == [endpoint |-> "", message |-> "", response |-> "", sessionStatus |-> ""]

\* sessionData, abstracted to the fields the control depends on.
SessionRec == [status : Statuses, lastActive : 0..MaxTime,
               clientTimeout : ClientTimeouts, pairingMethod : PairingMethods,
               clientAuth : Clients \cup {NoClient}, cache : CacheRec]

VARIABLES
    now,          \* the wall clock
    sess,         \* the sessions ever created: token -> sessionData
    live,         \* tokens in memorySessionStore.requestor/client
    handles,      \* sessions a request has looked up and may still lock
    sweep,        \* deleteExpired: phase, toCheck, expired
    disclosedTo,  \* history: clients that received the session request
    pairedFor,    \* history: sessions whose pairing the frontend completed
    finishedAt    \* history: when a session became Finished

vars == <<now, sess, live, handles, sweep, disclosedTo, pairedFor, finishedAt>>

SweepRec == [phase : {"idle", "check"}, toCheck : SUBSET Sessions,
             expired : SUBSET Sessions]

TypeOK ==
    /\ now \in 0..MaxTime
    /\ DOMAIN sess \subseteq Sessions
    /\ sess \in [DOMAIN sess -> SessionRec]
    /\ live \subseteq DOMAIN sess
    /\ handles \subseteq DOMAIN sess
    /\ sweep \in SweepRec
    /\ sweep.toCheck \cup sweep.expired \subseteq DOMAIN sess
    /\ disclosedTo \in [Sessions -> SUBSET Clients]
    /\ pairedFor \subseteq Sessions
    /\ finishedAt \in [Sessions -> 0..MaxTime]

-----------------------------------------------------------------------------
(* Session helpers (helpers.go) *)

\* markAlive
MarkAlive(r) == [r EXCEPT !.lastActive = now]

\* setStatus: status and Result.Status; the result callback it starts for a
\* finished status is delivered out of band and changes no session state.
SetStatus(r, st) == [r EXCEPT !.status = st]

\* fail: the Result is replaced by an error result, status CANCELLED
Fail(r) == SetStatus(r, Cancelled)

\* An outcome of a handler: the session after it and the response written.
Out(r, resp) == [ses |-> r, resp |-> resp]

\* checkCache, lines 136-146: a cached response is replayed when endpoint,
\* session status and body match, the response is non-empty and the session
\* was active within retryTimeLimit.
CacheValid(r, ep, msg) ==
    /\ r.cache.endpoint = ep
    /\ r.cache.response # ""
    /\ r.cache.sessionStatus = r.status
    /\ ~(r.lastActive < now - RetryTimeLimit)
    /\ r.cache.message = msg

\* A plausible bug: an unknown pairing method stored instead of rejected.
UpdateFrontendOptionsNoMethodCheck(r, method) ==
    IF r.status # Initialized THEN Out(r, "invalidRequest")
    ELSE IF method = "" THEN Out(r, "options")
    ELSE Out([r EXCEPT !.pairingMethod = method], "options")

\* updateFrontendOptions, lines 65-80
UpdateFrontendOptions(r, method) ==
    IF r.status # Initialized THEN Out(r, "invalidRequest")
    ELSE IF method = "" THEN Out(r, "options")
    ELSE IF method \in PairingMethods
         THEN Out([r EXCEPT !.pairingMethod = method], "options")
    ELSE Out(r, "invalidRequest")

\* pairingCompleted, lines 83-89
PairingCompleted(r) ==
    IF r.status = Pairing THEN Out(SetStatus(r, Connected), "pairingCompleted")
    ELSE Out(r, "invalidRequest")

\* A plausible bug: the request included whatever the pairing method.
GetClientRequestIgnoringPairing(r) == "clientRequestWithRequest"

\* getClientRequest, lines 309-324: the request is included only without
\* pairing.
GetClientRequest(r) ==
    IF r.pairingMethod = "none" THEN "clientRequestWithRequest" ELSE "clientRequest"

-----------------------------------------------------------------------------
(* Handlers (outside src/, modelled from spec 4.1 and 4.6) *)

\* Client GET /session: negotiate the version, bind ClientAuth, and move to
\* PAIRING when a pairing method is set, else to CONNECTED.
HandleGetClientRequest(r, c, w) ==
    LET v == ChooseProtocolVersion(RequestFeatures, AcceptInsecureProtocolVersions, w[1], w[2])
        alive == MarkAlive(r)
        bound == [alive EXCEPT !.clientAuth = c]
    IN IF r.status # Initialized THEN Out(r, "unexpectedRequest")
       ELSE IF ~v.ok THEN Out(Fail(alive), "protocolVersion")
       ELSE IF r.pairingMethod # "none"
            THEN Out(SetStatus(bound, Pairing), GetClientRequest(r))
       ELSE Out(SetStatus(bound, Connected), GetClientRequest(r))

\* Client GET /request: the request, stripped of revocation keys (getRequest)
HandleGetRequest(r) == Out(r, "request")

\* Client POST of the proofs: verified by the crypto collaborator; DONE when
\* valid, CANCELLED (fail) when not.
HandlePostProofs(r, msg) ==
    IF msg = "validProofs" THEN Out(SetStatus(MarkAlive(r), Done), "proofStatus")
    ELSE Out(Fail(MarkAlive(r)), "proofsInvalid")

-----------------------------------------------------------------------------
(* Middleware (helpers.go) *)

\* pairingMiddleware, lines 582-605: `handled` is what the next handler returns.
PairingMiddleware(r, c, handled) ==
    IF r.status = Pairing THEN Out(r, "pairingRequired")
    ELSE IF r.status # Connected THEN Out(r, "unexpectedRequest")
    ELSE IF r.clientAuth # c THEN Out(r, "irmaUnauthorized")
    ELSE handled

\* frontendMiddleware, lines 497-508 (auth: the Authorization header equals
\* FrontendAuth)
FrontendMiddleware(r, auth, handled) ==
    IF ~auth THEN Out(r, "irmaUnauthorized") ELSE handled

\* The handler chain behind cacheMiddleware for an endpoint, as the client c
\* (or the frontend, authorised or not) calls it with body msg.
Serve(r, ep, msg, c, w, auth) ==
    CASE ep = "session"  -> HandleGetClientRequest(r, c, w)
      [] ep = "request"  -> PairingMiddleware(r, c, HandleGetRequest(r))
      [] ep = "proofs"   -> PairingMiddleware(r, c, HandlePostProofs(r, msg))
      [] ep = "frontend/options" ->
            FrontendMiddleware(r, auth, UpdateFrontendOptions(r, msg))
      [] ep = "frontend/pairingcompleted" ->
            FrontendMiddleware(r, auth, PairingCompleted(r))

\* The body a caller may send to an endpoint.
BodiesFor(ep) ==
    CASE ep = "proofs"           -> ProofBodies
      [] ep = "frontend/options" -> OptionBodies
      [] OTHER                   -> {""}

-----------------------------------------------------------------------------
(* Operations *)

\* memorySessionStore.add: under the write lock, index the session by both
\* of its tokens.
Add(s, r) ==
    /\ sess' = [x \in DOMAIN sess \cup {s} |-> IF x = s THEN r ELSE sess[x]]
    /\ live' = live \cup {s}

\* memorySessionStore.clientGet: under the read lock, the session indexed by
\* the token, or nil (sessionUnknown) once it is deleted.
ClientGet(s) == s \in live

\* Server.newSession, sessions.go 319-378: fresh tokens, status INITIALIZED,
\* no pairing; locked, added to the store (memory add never fails), unlocked.
NewSession(s, ct) ==
    /\ s \notin DOMAIN sess
    /\ Add(s, [status |-> Initialized, lastActive |-> now, clientTimeout |-> ct,
               pairingMethod |-> "none", clientAuth |-> NoClient, cache |-> EmptyCache])
    /\ UNCHANGED <<now, handles, sweep, disclosedTo, pairedFor, finishedAt>>

(***************************************************************************)
(* sessionMiddleware's clientTransaction finds the session with clientGet  *)
(* and only then takes the session mutex; requests are goroutines that may *)
(* be descheduled in between for any time.  Once some request has found s *)
(* it may lock s later, also after deleteExpired removed s from the store. *)
(***************************************************************************)
Lookup(s) ==
    /\ ClientGet(s)
    /\ s \notin handles
    /\ handles' = handles \cup {s}
    /\ UNCHANGED <<now, sess, live, sweep, disclosedTo, pairedFor, finishedAt>>

\* Record the history of a response r2 sent to caller c in session s.
Observe(s, c, r1, r2, resp) ==
    /\ disclosedTo' = IF resp \in CarriesRequest /\ c \in Clients
                      THEN [disclosedTo EXCEPT ![s] = @ \cup {c}] ELSE disclosedTo
    /\ pairedFor' = IF r1.status = Pairing /\ r2.status = Connected
                    THEN pairedFor \cup {s} ELSE pairedFor
    /\ finishedAt' = IF ~Finished(r1.status) /\ Finished(r2.status)
                     THEN [finishedAt EXCEPT ![s] = now] ELSE finishedAt

(***************************************************************************)
(* A request to endpoint ep of session s: sessionMiddleware finds and      *)
(* locks the session (a session not in the store gets sessionUnknown and  *)
(* nothing changes); cacheMiddleware replays a valid cached response, and  *)
(* otherwise clears the cache, runs the chain and caches its response      *)
(* with the status the session has after it (helpers.go 510-580).          *)
(***************************************************************************)
Request(s, ep, msg, c, w, auth) ==
    /\ s \in handles
    /\ LET r == sess[s] IN
       IF CacheValid(r, ep, msg)
       THEN /\ Observe(s, c, r, r, r.cache.response)
            /\ UNCHANGED <<now, sess, live, handles, sweep>>
       ELSE LET o == Serve(r, ep, msg, c, w, auth)
                r2 == [o.ses EXCEPT !.cache = [endpoint |-> ep, message |-> msg,
                                               response |-> o.resp,
                                               sessionStatus |-> o.ses.status]]
            IN /\ sess' = [sess EXCEPT ![s] = r2]
               /\ Observe(s, c, r, r2, o.resp)
               /\ UNCHANGED <<now, live, handles, sweep>>

ClientRequest(s, c) ==
    \E ep \in {"session", "request", "proofs"}, w \in ClientWindows :
        \E msg \in BodiesFor(ep) : Request(s, ep, msg, c, w, FALSE)

\* The frontend sends no version headers: w is not read on its endpoints.
FrontendRequest(s) ==
    \E ep \in {"frontend/options", "frontend/pairingcompleted"}, auth \in BOOLEAN :
        \E msg \in BodiesFor(ep) :
            Request(s, ep, msg, NoClient, CHOOSE w \in ClientWindows : TRUE, auth)

\* Requestor cancel (outside src/, spec 4.1): under the session lock, a
\* session that is not finished is marked alive and cancelled.
CancelSession(s) ==
    /\ s \in live
    /\ ~Finished(sess[s].status)
    /\ sess' = [sess EXCEPT ![s] = Fail(MarkAlive(sess[s]))]
    /\ finishedAt' = [finishedAt EXCEPT ![s] = now]
    /\ UNCHANGED <<now, live, handles, sweep, disclosedTo, pairedFor>>

(***************************************************************************)
(* deleteExpired, sessions.go 166-211.                                     *)
(***************************************************************************)
\* Under the read lock, snapshot the requestor index.
SweepStart ==
    /\ sweep.phase = "idle"
    /\ sweep' = [phase |-> "check", toCheck |-> live, expired |-> {}]
    /\ UNCHANGED <<now, sess, live, handles, disclosedTo, pairedFor, finishedAt>>

\* A plausible bug: a finished session given no grace period, as the
\* timeout helper (helpers.go 354-362) does for finished sessions.
SessionTimeoutZeroWhenFinished(r) ==
    IF r.status = Initialized /\ r.clientTimeout # 0 THEN r.clientTimeout
    ELSE IF Finished(r.status) THEN 0 ELSE MaxSessionLifetime

\* The effective timeout of a session (lines 180-183).
SessionTimeout(r) ==
    IF r.status = Initialized /\ r.clientTimeout # 0 THEN r.clientTimeout
    ELSE MaxSessionLifetime

\* A plausible bug: the Finished check dropped, so every expired session is
\* (re)timed out and none is ever marked for deletion.
SweepCheckNoFinishedCheck(s) ==
    /\ sweep.phase = "check"
    /\ s \in sweep.toCheck
    /\ LET r == sess[s]
           expired == r.lastActive + SessionTimeout(r) < now
       IN /\ sess' = IF expired THEN [sess EXCEPT ![s] = SetStatus(MarkAlive(r), Timeout)]
                     ELSE sess
          /\ finishedAt' = IF expired /\ ~Finished(r.status)
                           THEN [finishedAt EXCEPT ![s] = now] ELSE finishedAt
          /\ sweep' = [sweep EXCEPT !.toCheck = @ \ {s}]
    /\ UNCHANGED <<now, live, handles, disclosedTo, pairedFor>>

\* A plausible bug: an expired finished session is never added to the list
\* of sessions to delete.
SweepCheckForgetsDeletion(s) ==
    /\ sweep.phase = "check"
    /\ s \in sweep.toCheck
    /\ LET r == sess[s]
           expired == r.lastActive + SessionTimeout(r) < now
       IN /\ sess' = IF expired /\ ~Finished(r.status)
                     THEN [sess EXCEPT ![s] = SetStatus(MarkAlive(r), Timeout)]
                     ELSE sess
          /\ finishedAt' = IF expired /\ ~Finished(r.status)
                           THEN [finishedAt EXCEPT ![s] = now] ELSE finishedAt
          /\ sweep' = [sweep EXCEPT !.toCheck = @ \ {s}]
    /\ UNCHANGED <<now, live, handles, disclosedTo, pairedFor>>

\* Under one session's mutex: an expired session that is not finished is
\* marked alive and timed out; an expired finished one is marked for
\* deletion (lines 177-196, in map order).
SweepCheck(s) ==
    /\ sweep.phase = "check"
    /\ s \in sweep.toCheck
    /\ LET r == sess[s]
           expired == r.lastActive + SessionTimeout(r) < now
       IN /\ sess' = IF expired /\ ~Finished(r.status)
                     THEN [sess EXCEPT ![s] = SetStatus(MarkAlive(r), Timeout)]
                     ELSE sess
          /\ finishedAt' = IF expired /\ ~Finished(r.status)
                           THEN [finishedAt EXCEPT ![s] = now] ELSE finishedAt
          /\ sweep' = [sweep EXCEPT !.toCheck = @ \ {s},
                                    !.expired = IF expired /\ Finished(r.status)
                                                THEN @ \cup {s} ELSE @]
    /\ UNCHANGED <<now, live, handles, disclosedTo, pairedFor>>

\* Under the write lock, delete the sessions marked (lines 198-210).
SweepDelete ==
    /\ sweep.phase = "check"
    /\ sweep.toCheck = {}
    /\ live' = live \ sweep.expired
    /\ sweep' = [phase |-> "idle", toCheck |-> {}, expired |-> {}]
    /\ UNCHANGED <<now, sess, disclosedTo, pairedFor, finishedAt, handles>>

\* Time passes.
Tick ==
    /\ now < MaxTime
    /\ now' = now + 1
    /\ UNCHANGED <<sess, live, handles, sweep, disclosedTo, pairedFor, finishedAt>>

-----------------------------------------------------------------------------
Init ==
    /\ now = 0
    /\ sess = [x \in {} |-> EmptyCache]
    /\ live = {}
    /\ handles = {}
    /\ sweep = [phase |-> "idle", toCheck |-> {}, expired |-> {}]
    /\ disclosedTo = [x \in Sessions |-> {}]
    /\ pairedFor = {}
    /\ finishedAt = [x \in Sessions |-> 0]

Next ==
    \/ \E s \in Sessions, ct \in ClientTimeouts : NewSession(s, ct)
    \/ \E s \in Sessions : Lookup(s)
    \/ \E s \in Sessions, c \in Clients : ClientRequest(s, c)
    \/ \E s \in Sessions : FrontendRequest(s)
    \/ \E s \in Sessions : CancelSession(s)
    \/ SweepStart
    \/ \E s \in Sessions : SweepCheck(s)
    \/ SweepDelete
    \/ Tick

Spec == Init /\ [][Next]_vars

\* deleteExpired is run periodically for as long as the server runs (spec
\* 4.6), so each step of a started sweep, and the start of the next one,
\* happens: weak fairness on the sweep's actions.  Requests, cancels and
\* the clock get none; a session may see no more requests.
FairSpec ==
    /\ Spec
    /\ WF_vars(SweepStart)
    /\ \A s \in Sessions : WF_vars(SweepCheck(s))
    /\ WF_vars(SweepDelete)

-----------------------------------------------------------------------------
(* Properties *)

\* The edges of the state machine of spec 4.1.
Edges == {<<Initialized, Pairing>>, <<Initialized, Connected>>, <<Pairing, Connected>>}
         \cup {<<a, b>> : a \in {Initialized, Pairing, Connected},
                          b \in {Done, Cancelled, Timeout}}

\* A session with its response cache left out.
Frozen(r) == [r EXCEPT !.cache = EmptyCache]

(***************************************************************************)
(* Spec 4.1, 3 and 8.1-8.2: whatever request, cancel or sweep step runs,   *)
(* a session's status only moves along the edges of the state machine,    *)
(* and once it is finished nothing of it changes but the response cache   *)
(* (the guards of handlers, pairingMiddleware, pairingCompleted and        *)
(* deleteExpired's Finished check together keep this).                     *)
(***************************************************************************)
SessionEvolution ==
    [][\A s \in DOMAIN sess :
         /\ s \in DOMAIN sess'
         /\ sess'[s].status # sess[s].status =>
                <<sess[s].status, sess'[s].status>> \in Edges
         /\ Finished(sess[s].status) => Frozen(sess'[s]) = Frozen(sess[s])]_vars

(***************************************************************************)
(* Spec 8 (pairing): in a session whose frontend chose pin pairing, no     *)
(* client receives the session request, fresh or replayed from the        *)
(* response cache, before the frontend completed the pairing              *)
(* (getClientRequest, pairingMiddleware, cacheMiddleware).                 *)
(***************************************************************************)
PairingGate ==
    \A s \in DOMAIN sess :
        sess[s].pairingMethod = "pin" /\ disclosedTo[s] # {} => s \in pairedFor

(***************************************************************************)
(* Spec 4.1 and scenario S5: deleteExpired removes a session from the     *)
(* store only when it is finished and has been finished for longer than   *)
(* maxSessionLifetime, so the requestor can fetch the result (DONE,        *)
(* CANCELLED or TIMEOUT) for that long.                                    *)
(***************************************************************************)
ResultRetention ==
    [][\A s \in live \ live' :
         Finished(sess[s].status) /\ finishedAt[s] + MaxSessionLifetime < now]_vars

(***************************************************************************)
(* Spec 4.5 (client auth) and 8 (pin pairing): in a session with pin      *)
(* pairing, the session request reaches only the client bound to it by    *)
(* ClientAuth, the one the frontend paired with.                          *)
(***************************************************************************)
PairedRequestOnlyToBoundClient ==
    \A s \in DOMAIN sess :
        sess[s].pairingMethod = "pin" =>
            \A c \in disclosedTo[s] : c = sess[s].clientAuth

(***************************************************************************)
(* Spec 4.6 (expiry sweep): a session in the store that has been inactive  *)
(* for longer than its timeout does not stay so: deleteExpired either     *)
(* times it out (marking it alive) or, once it is finished, deletes it,   *)
(* even when no request and no clock tick ever comes again.               *)
(***************************************************************************)
ExpiryHandled ==
    \A s \in Sessions :
        (s \in live /\ sess[s].lastActive + SessionTimeout(sess[s]) < now)
          ~> (s \notin live \/ ~(sess[s].lastActive + SessionTimeout(sess[s]) < now))
=============================================================================
