--------------------------- MODULE RedisSessionKeys ---------------------------
(***************************************************************************)
(* One session in the remote store (redisSessionStore, sessions.go), at    *)
(* the level of its two Redis keys and their TTLs:                         *)
(*   token:<R>   -> C            read by the requestor's get()             *)
(*   session:<C> -> JSON         read by clientGet()                       *)
(* Both are written by add() in two separate SETs, each with a TTL that    *)
(* add() computes from the status being written.  A client transaction     *)
(* loads the session with clientGet() (which marks an expired session      *)
(* TIMEOUT in the loaded copy only), runs the handler chain of the server  *)
(* on the copy (the chain of SessionServer, instantiated here), and        *)
(* writes the copy back with add().  The requestor polls with get()        *)
(* without any lock.                                                       *)
(*                                                                         *)
(* Transactions are serialised by lock:<C>; RedisStore shows they are when *)
(* handlers finish within the lock's TTL, so here one runs at a time, and  *)
(* it lasts less than a tick (maxLockLifetime is 500 ms): at most one Tick *)
(* falls inside it, which is the transaction straddling a boundary.  A key is present while now < its expiry time; the     *)
(* expiry time 0 is a key never written.                                   *)
(***************************************************************************)
EXTENDS Naturals

CONSTANTS
    Sessions, Clients, NoClient, MaxSessionLifetime, RetryTimeLimit,
    ClientTimeouts, MaxTime, ClientWindows, RequestFeatures,
    AcceptInsecureProtocolVersions, MinSecureProtocolVersion,
    NoSession,      \* session:<C> never written
    NoResult        \* get() returned nothing (redis.Nil) / nothing seen yet

VARIABLES
    now,          \* the wall clock
    tokenKey,     \* token:<R>: its expiry time
    sessionKey,   \* session:<C>: the stored sessionData and its expiry time
    tx,           \* where the running client transaction is
    copy,         \* the transaction's loaded, then handled, session
    loadedAt,     \* when the running transaction loaded the session
    firstResult   \* history: the first finished status get() returned

vars == <<now, tokenKey, sessionKey, tx, copy, loadedAt, firstResult>>

\* The server's handler chain and session helpers (SessionServer, with the
\* lemmas SessionServerProofs states about them); only `now` is read there.
SS == INSTANCE SessionServerProofs
        WITH sess <- <<>>, live <- {}, handles <- {},
             sweep <- [phase |-> "idle", toCheck |-> {}, expired |-> {}],
             disclosedTo <- [x \in Sessions |-> {}], pairedFor <- {},
             finishedAt <- [x \in Sessions |-> 0]

\* The constants of the server's chain, as SessionServer assumes them; a
\* tick is shorter than half of maxSessionLifetime.
ASSUME KeysConstants ==
    /\ SS!ConstantsAssumption
    /\ SS!MinSecureAssumption
    /\ MaxSessionLifetime \in Nat \ {0, 1}
    /\ NoSession # NoResult

TxPhases == {"idle", "loaded", "handled", "tokenSet"}
Results == SS!Statuses \cup {NoResult}

TypeOK ==
    /\ now \in 0..MaxTime
    /\ tokenKey \in Nat
    /\ sessionKey \in [data : SS!SessionRec, exp : Nat] \cup {NoSession}
    /\ tx \in TxPhases
    /\ loadedAt \in 0..MaxTime
    /\ tx # "idle" => copy \in SS!SessionRec
    /\ firstResult \in Results

TokenPresent == now < tokenKey
SessionPresent == sessionKey # NoSession /\ now < sessionKey.exp

\* A plausible bug: add() keeps every unfinished session maxSessionLifetime
\* (as the memory store's sweep does), not twice that.
TimeoutOneLifetime(r) ==
    IF r.status = SS!Initialized /\ r.clientTimeout # 0 THEN r.clientTimeout
    ELSE MaxSessionLifetime

\* add(), lines 251-256: the TTL of both keys.
Timeout(r) ==
    IF r.status = SS!Initialized /\ r.clientTimeout # 0 THEN r.clientTimeout
    ELSE IF SS!Finished(r.status) THEN MaxSessionLifetime
    ELSE 2 * MaxSessionLifetime

\* A plausible bug: clientGet's Finished check dropped, so a finished session
\* loaded late is timed out again.
LoadedIgnoringFinished(r) ==
    IF r.lastActive + MaxSessionLifetime < now
    THEN SS!SetStatus(SS!MarkAlive(r), SS!Timeout) ELSE r

\* clientGet(), lines 241-245: the session as loaded; an expired session
\* that is not finished is marked alive and TIMEOUT in this copy only.
Loaded(r) ==
    IF r.lastActive + MaxSessionLifetime < now /\ ~SS!Finished(r.status)
    THEN SS!SetStatus(SS!MarkAlive(r), SS!Timeout) ELSE r

\* What get(), lines 213-223, returns now: GET token:<R>, then clientGet.
GetResult ==
    IF TokenPresent /\ SessionPresent THEN Loaded(sessionKey.data).status
    ELSE NoResult

\* cacheMiddleware around the chain (helpers.go 510-543): a valid cached
\* response is replayed; otherwise the chain runs and its response is cached.
Processed(r, ep, msg, c, w, auth) ==
    IF SS!CacheValid(r, ep, msg) THEN r
    ELSE LET o == SS!Serve(r, ep, msg, c, w, auth)
         IN [o.ses EXCEPT !.cache = [endpoint |-> ep, message |-> msg,
                                     response |-> o.resp,
                                     sessionStatus |-> o.ses.status]]

-----------------------------------------------------------------------------
Init ==
    /\ now = 0
    /\ tokenKey = 0
    /\ sessionKey = NoSession
    /\ tx = "idle"
    /\ copy = NoSession
    /\ loadedAt = 0
    /\ firstResult = NoResult

\* newSession, lines 341-377: a fresh INITIALIZED session, added with both
\* SETs before its tokens are returned (a failed add returns no token, so
\* nobody can observe it).
NewSession ==
    /\ sessionKey = NoSession
    /\ \E ct \in ClientTimeouts :
         LET r == [status |-> SS!Initialized, lastActive |-> now,
                   clientTimeout |-> ct, pairingMethod |-> "none",
                   clientAuth |-> NoClient, cache |-> SS!EmptyCache]
         IN /\ tokenKey' = now + Timeout(r)
            /\ sessionKey' = [data |-> r, exp |-> now + Timeout(r)]
    /\ UNCHANGED <<now, tx, copy, loadedAt, firstResult>>

\* The transaction's clientGet: GET session:<C>.  redis.Nil is an unknown
\* session and the transaction ends without a write (a stutter).
Load ==
    /\ tx = "idle"
    /\ SessionPresent
    /\ copy' = Loaded(sessionKey.data)
    /\ tx' = "loaded"
    /\ loadedAt' = now
    /\ UNCHANGED <<now, tokenKey, sessionKey, firstResult>>

\* The handler chain on the copy, for a client or a frontend request; the
\* response is written to the caller here, before anything is persisted.
Handle ==
    /\ tx = "loaded"
    /\ \/ \E ep \in {"session", "request", "proofs"}, c \in Clients,
             w \in ClientWindows :
            \E msg \in SS!BodiesFor(ep) : copy' = Processed(copy, ep, msg, c, w, FALSE)
       \/ \E ep \in {"frontend/options", "frontend/pairingcompleted"}, auth \in BOOLEAN :
            \E msg \in SS!BodiesFor(ep) :
              copy' = Processed(copy, ep, msg, NoClient, CHOOSE w \in ClientWindows : TRUE, auth)
    /\ tx' = "handled"
    /\ UNCHANGED <<now, tokenKey, sessionKey, loadedAt, firstResult>>

\* update() -> add(), first SET: token:<R> with the copy's TTL.
SetToken ==
    /\ tx = "handled"
    /\ tokenKey' = now + Timeout(copy)
    /\ tx' = "tokenSet"
    /\ UNCHANGED <<now, sessionKey, copy, loadedAt, firstResult>>

\* add(), second SET: session:<C> with the copy's TTL.
SetSession ==
    /\ tx = "tokenSet"
    /\ sessionKey' = [data |-> copy, exp |-> now + Timeout(copy)]
    /\ tx' = "idle"
    /\ copy' = NoSession
    /\ loadedAt' = 0
    /\ UNCHANGED <<now, tokenKey, firstResult>>

\* Either SET returns an error: add() returns it at once, the transaction
\* ends with the keys as they are (the response was already written).
SetFails ==
    /\ tx \in {"handled", "tokenSet"}
    /\ tx' = "idle"
    /\ copy' = NoSession
    /\ loadedAt' = 0
    /\ UNCHANGED <<now, tokenKey, sessionKey, firstResult>>

\* The requestor polls the session with get().
RequestorGet ==
    /\ sessionKey # NoSession
    /\ firstResult' = IF firstResult = NoResult /\ SS!Finished(GetResult)
                      THEN GetResult ELSE firstResult
    /\ UNCHANGED <<now, tokenKey, sessionKey, tx, copy, loadedAt>>

\* Time passes, at most once inside a transaction.
Tick ==
    /\ now < MaxTime
    /\ tx # "idle" => now = loadedAt
    /\ now' = now + 1
    /\ UNCHANGED <<tokenKey, sessionKey, tx, copy, loadedAt, firstResult>>

Next ==
    \/ NewSession \/ Load \/ Handle \/ SetToken \/ SetSession \/ SetFails
    \/ RequestorGet \/ Tick

Spec == Init /\ [][Next]_vars

-----------------------------------------------------------------------------
(***************************************************************************)
(* Spec 4.1 and 3 for the stored session: whatever transactions load,     *)
(* handle and write back, and whenever the keys expire, session:<C> only  *)
(* moves along the edges of the state machine and a finished session in  *)
(* it never changes but for its response cache (clientGet's Finished      *)
(* check, the handlers' guards, and add() writing only loaded copies).     *)
(***************************************************************************)
StoredEvolution ==
    [][sessionKey # NoSession =>
         LET r1 == sessionKey.data
             r2 == sessionKey'.data
         IN /\ r2.status # r1.status => <<r1.status, r2.status>> \in SS!Edges
            /\ SS!Finished(r1.status) => SS!Frozen(r2) = SS!Frozen(r1)]_vars

(***************************************************************************)
(* A session that a client has connected to and that is not finished     *)
(* stays in Redis at least until clientGet reports it TIMEOUT: its key    *)
(* does not expire before maxSessionLifetime has passed since it was last *)
(* active (the 2 * maxSessionLifetime of add() against the expiry check   *)
(* of clientGet), also when add() failed half-way.                         *)
(***************************************************************************)
TimeoutReportable ==
    sessionKey # NoSession
    /\ sessionKey.data.status # SS!Initialized
    /\ ~SS!Finished(sessionKey.data.status)
    /\ now <= sessionKey.data.lastActive + MaxSessionLifetime + 1
    => SessionPresent

(***************************************************************************)
(* Spec 3 (a finished status is terminal), as the requestor sees it:      *)
(* once get() returned a finished status, get() returns the same status   *)
(* or nothing from then on.  clientGet marks TIMEOUT in its copy only, so  *)
(* a transaction that loaded the session just before it expired may      *)
(* still persist DONE after the requestor was told TIMEOUT.                *)
(***************************************************************************)
RequestorResultFinal ==
    firstResult # NoResult => GetResult \in {firstResult, NoResult}

(***************************************************************************)
(* Spec 2: while a session lives, its RequestorToken leads to it as long  *)
(* as its ClientToken does.  add() gives token:<R> and session:<C> the TTL *)
(* of the status it writes, so session:<C> outlives token:<R> by no more   *)
(* than the time between its two SETs (one tick here), unless the second  *)
(* SET fails after the first shortened token:<R>'s TTL.                    *)
(***************************************************************************)
RequestorTokenLivesWithSession ==
    tx = "idle" /\ sessionKey # NoSession => sessionKey.exp <= tokenKey + 1

(***************************************************************************)
(* Spec 2 (remote store): an INITIALIZED session's keys expire after       *)
(* min(ClientTimeout, 2 * maxSessionLifetime).  Every SET of session:<C>   *)
(* holding an INITIALIZED session gives it a TTL of at most twice          *)
(* maxSessionLifetime.  add() takes the requestor's ClientTimeout as it is. *)
(***************************************************************************)
InitializedTTLBounded ==
    [][sessionKey' # sessionKey /\ sessionKey' # NoSession
       /\ sessionKey'.data.status = SS!Initialized
       => sessionKey'.exp <= now + 2 * MaxSessionLifetime]_vars
=============================================================================
