# Formal model of the irmago session server

These TLA+ modules model the IRMA server's session handling in
`src/server/irmaserver`, `src/messages.go` and the server CLI
(`src/unnamed/part_000`). The modules, their TLC configurations and the TLAPS
proofs live in this directory. `PROJECT.json` lists each definition next to the
source lines it translates, and lists every run, mutant, finding, hazard and
theorem.

## The system

A requestor starts a session with `newSession` (sessions.go 319-378). The new
session is `INITIALIZED` and sits in a session store.

A wallet (the *client*) then calls the client endpoints:

- `GET /session` negotiates the protocol version (`chooseProtocolVersion`) and
  binds the wallet's `Authorization` header as `ClientAuth`. The session becomes
  `CONNECTED`, or `PAIRING` if the frontend chose pin pairing.
- `GET /request` and `POST /proofs` come after that.

The requestor's *frontend* has its own endpoints:

- `frontend/options` sets the pairing method (`updateFrontendOptions`).
- `frontend/pairingcompleted` moves a `PAIRING` session to `CONNECTED`
  (`pairingCompleted`).

A requestor may cancel a session.

Every client request passes through the same middleware chain:

1. `sessionMiddleware` looks the session up and runs the rest of the chain
   inside a store transaction, holding the session's lock.
2. `cacheMiddleware` replays the last response if `checkCache` accepts the
   request. Otherwise it clears the cache, runs the handler and records the
   response together with the session status after the handler.
3. `pairingMiddleware` guards `/request` and `/proofs`. It refuses a session
   that is `PAIRING`, one that is not `CONNECTED`, and a request whose
   `Authorization` header differs from `ClientAuth`.

`frontendMiddleware` checks `FrontendAuth` for the frontend endpoints.

There are two session stores:

- **Memory store.** One `RWMutex` guards the token indices, and each session
  has its own mutex. `deleteExpired` runs in three phases:
  1. Under the read lock it takes a snapshot of the index.
  2. For each session, under that session's mutex, it times out a session that
     has expired and is not finished, and marks an expired finished session
     for deletion.
  3. Under the write lock it deletes the marked sessions.
- **Redis store.** A session lives in the two keys `token:<R>` and
  `session:<C>`. A transaction obtains `lock:<C>` with a 500 ms TTL, loads the
  session, runs the handler, and then calls `update()`. That call re-checks the
  lock's TTL and writes the session back with two `SET`s. Finally the
  transaction releases the lock.

## Modules

| Module | Models | State | Actions |
|---|---|---|---|
| `ProtocolVersion` | `ProtocolVersion` comparisons (messages.go 34-98); `chooseProtocolVersion` (helpers.go 98-126) | none (pure operators) | none |
| `MCProtocolVersion` | the reference check for negotiation | the client window, the features, the result | `Negotiate` |
| `ProtocolVersionProofs` | the TLAPS proof of `NegotiationCorrect` | | |
| `SessionServer` | sessions, memory store, middleware chain, response cache, pairing, `newSession`, `deleteExpired` | `sess` (every session ever created), `live` (the indexed tokens), `handles` (sessions some request has looked up), `sweep` (the phase of `deleteExpired`), `now`, history variables `disclosedTo`, `pairedFor`, `finishedAt` | `NewSession`, `Lookup`, `ClientRequest`, `FrontendRequest`, `CancelSession`, `SweepStart`, `SweepCheck`, `SweepDelete`, `Tick` |
| `MCSessionServer` | constants for TLC | | |
| `SessionServerProofs` | TLAPS proofs about `SessionServer` | | |
| `RedisStoreProofs` | TLAPS proofs about `RedisStore` | | |
| `RedisStore` | `redisSessionStore` lock/clientGet/update/add/unlock, seen from several replicas working on one session | `lockKey` (`lock:<C>`), `stored` (`session:<C>`), `pc` and `local` (the position and loaded copy of each handler), history `applied` | `NewSession`, `Lock`, `Load`, `Handle`, `CheckLock`, `Persist`, `Unlock`, `Crash`, `Expire` |
| `RedisSessionKeys` | one Redis session at the level of its keys: `add()`'s two `SET`s and TTLs, `clientGet`'s TIMEOUT marking, the requestor's `get()` (sessions.go 213-273), `newSession`, and the handler chain of `SessionServer` on the loaded copy | `tokenKey` and `sessionKey` (each key's expiry time; `session:<C>` also holds the stored session), `tx`, `copy`, `loadedAt` (the running transaction), `now`, history `firstResult` | `NewSession`, `Load`, `Handle`, `SetToken`, `SetSession`, `SetFails`, `RequestorGet`, `Tick` |
| `MCRedisSessionKeys` | constants for TLC | | |
| `RedisSessionKeysProofs` | TLAPS proofs about `RedisSessionKeys` | | |
| `SessionSafetyProofs` | TLAPS proofs of `SessionEvolution` and `PairingGate`, and the lemmas `ServeEdge` and `RequestStep` on the handler chain | | |
| `PermissionFlags` | `handlePermission` (part_000 228-240) as `configureServer` applies it | the configured and flag lists, the result | `Configure` |

### How the model corresponds to the code

- **Lookup, then one step under the lock.** `sessionMiddleware` first finds
  the session with `clientGet` under the store's read lock (`Lookup`, guarded
  by `ClientGet`). Only afterwards does it take the session mutex. A request
  goroutine can be descheduled in between, for any time and in any number.
  So once a session has been looked up, a request may lock it at any later
  point, even after `deleteExpired` removed it from the store. The chain under
  the mutex is one step, `Request`. Its parts follow the code in order:
  - `CacheValid` is `checkCache`.
  - `Serve` dispatches to the middleware and the handler.
  - The cache record is written last, with the status the handler left behind.
- **Endpoint handlers.** The handlers behind `GET /session` and
  `POST /proofs`, and the requestor cancel, are not in this repository. They
  are modelled from the specification (4.1, 4.6) and marked `spec_modelled` in
  the map. Proof verification is a nondeterministic choice between valid and
  invalid proofs.
- **Session data.** Data is reduced to what the properties tell apart:
  - The pairing method is `"none"` or `"pin"`.
  - `ClientAuth` is a client identity.
  - Response bodies are tags such as `"request"` and `"pairingRequired"`.
  - Request bodies come from a small set, which includes the empty body and an
    invalid pairing method.
- **Time.** Time is a natural number below `MaxTime`. `checkCache` compares it
  with `RetryTimeLimit`, and the sweep compares it with `MaxSessionLifetime`
  and `ClientTimeout`.
- **`deleteExpired`** is three actions, matching its three lock scopes.
  Requests, cancels and new sessions interleave between them.
- **`RedisStore`** reduces the session to the number of updates it holds.
  - Every Redis round trip is an action of its own.
  - A crashed replica leaves its lock behind.
  - `Expire` removes the lock key. It can do so when the holder is idle (a
    crashed holder), and while the holder is at one of the positions of the
    constant `ExpiryWindows`: a handler that is still working after 500 ms,
    as after a GC pause or a slow handler. `MCRedisStore.cfg` lets the lock
    run out while its holder loads, handles or releases, but not between
    `update()`'s TTL check and `add()`'s `SET`s. `MCRedisStoreExpiry.cfg`
    adds that window.
- **`RedisSessionKeys`** composes the Redis key layer with the server's
  handler chain: it instantiates `SessionServerProofs` as `SS` (with the memory
  store's variables replaced by constants) and uses its `Serve`, `CacheValid`
  and session helpers on the copy a transaction loaded, with the
  `cacheMiddleware` wrapper as `Processed`.
  - A key is present while `now` is below its expiry time; `add()`'s TTL is
    `Timeout` (lines 251-256), computed from the copy being written.
  - `Load` is `clientGet`. An expired session that is not finished is marked
    alive and TIMEOUT in the copy only (`Loaded`, lines 241-245).
  - `add()` is two actions, `SetToken` and `SetSession`, and either `SET` may
    fail (`SetFails`); the response was already written by then.
  - `RequestorGet` is `get()` without any lock: `GET token:<R>`, then
    `clientGet`. `GetResult` is what it returns now.
  - Transactions are serialised by `lock:<C>` (what `RedisStore` shows) and
    last less than a tick (the 500 ms lock TTL), so at most one `Tick` falls
    inside one. This is the transaction straddling an expiry boundary.

## Runs

| Run | Config | Result | What it shows |
|---|---|---|---|
| `protocol_negotiation` | `MCProtocolVersion.cfg` | pass | `NegotiationCorrect`: the result is the maximum of the versions that both the client window and the server accept, and negotiation fails exactly when there is none. Checked for every window in 1.0..3.9, every feature set, and both settings of AcceptInsecure. |
| `session_lifecycle` | `MCSessionServer.cfg` | pass | `TypeOK`; `PairingGate` (a pin session discloses its request only after pairing completed); `SessionEvolution` (statuses follow the state machine, and a finished session is frozen apart from its cache); `ResultRetention` (only sessions finished for more than maxSessionLifetime are deleted). |
| `cache_pairing_leak` | `MCSessionServerLeak.cfg` | violation | `PairedRequestOnlyToBoundClient` fails. The request of a paired session is replayed from the cache to a second wallet. |
| `permission_flag_panic` | `PermissionFlags.cfg` | violation | `NoPanic` fails for the flag value `[""]`. |
| `redis_transactions` | `MCRedisStore.cfg` | pass | `TypeOK` and `NoLostUpdate` with three handlers and crashes, and locks that run out while their holder loads, handles or releases: `update()`'s TTL check keeps such a handler from writing. |
| `redis_lost_update` | `MCRedisStoreExpiry.cfg` | violation | `NoLostUpdate` fails when a lock expires between the TTL check and the write. |
| `session_expiry_liveness` | `MCSessionServerLive.cfg` | pass | `ExpiryHandled` under `FairSpec`: a session in the store past its timeout is eventually timed out or deleted. |
| `redis_keys` | `MCRedisSessionKeys.cfg` | pass | `StoredEvolution` (the status in `session:<C>` only moves along the state machine, and a finished one is frozen, whatever `SET`s fail and whenever keys expire) and `TimeoutReportable` (an unfinished connected session stays in Redis until `clientGet` can report TIMEOUT). |
| `redis_requestor_stale_timeout` | `MCRedisKeysRequestorResultFinal.cfg` | violation | `RequestorResultFinal` fails: the requestor is told TIMEOUT, then CANCELLED or DONE. |
| `redis_keys_split_write` | `MCRedisKeysSplitWrite.cfg` | violation | `RequestorTokenLivesWithSession` fails. A handler cancels an INITIALIZED session, which lowers its TTL from `2 * maxSessionLifetime` to `maxSessionLifetime`. `add()`'s `SET` of `token:<R>` succeeds and its `SET` of `session:<C>` fails. `session:<C>` keeps the unfinished status and its later expiry: after `token:<R>` expires, the client can still use the session while the requestor's `get()` reports it unknown. |
| `redis_initialized_ttl` | `MCRedisKeysInitTTL.cfg` | violation | `InitializedTTLBounded` fails: an INITIALIZED session's TTL is the requestor's ClientTimeout even above `2 * maxSessionLifetime`. |

Every property of a passing run has a mutant in `PROJECT.json`: a plausible bug
in the mapped code, which TLC finds violating that property.

### Bounds and why they suffice

- **`session_lifecycle`**:
  - There is one session and two wallets. The pairing properties need a second
    wallet; one session is enough because sessions share nothing except the
    store indices and the sweep. The sweep's snapshot, check and delete still
    interleave with every request on that session.
  - `MaxSessionLifetime = 2` and `RetryTimeLimit = 1`. Together with
    `ClientTimeouts = {0, 1}`, they make both branches of the effective timeout
    reachable, and both the replay and the expiry of the cache.
  - `MaxTime = 6` lets a session be created, paired, connected, finished and
    then outlive its retention period.
  - The run reaches 191,804 distinct states.
- **`redis_transactions`**:
  - Three handlers let one handler crash holding the lock while two others
    contend for the lock after it expires.
  - `MaxUpdates = 3` allows three successive updates.
  - `ExpiryWindows` holds every position of a transaction except the one
    between the TTL check and the `SET`s. A lock can therefore run out
    under a handler that is loading, handling or releasing, and a second
    handler can take the lock in the meantime. The run reaches 180,791
    distinct states.
- **`protocol_negotiation`** enumerates all 28,800 inputs.
- **`session_expiry_liveness`** uses the constants of `session_lifecycle`;
  `MaxTime = 6` leaves time for a session to expire with ticks to spare.
- **`redis_keys`**:
  - One session and one wallet: the property is about one session's keys,
    and the transactions on it are serialised by the lock.
  - `MaxSessionLifetime = 2`, `ClientTimeouts = {0, 1}`: the three TTL
    branches of `add()` (ClientTimeout, finished, twice the lifetime), and an
    INITIALIZED session expiring by its ClientTimeout.
  - `MaxTime = 6` is long enough for a session to connect, go idle past
    `maxSessionLifetime` (the TIMEOUT branch of `clientGet`) and for its key
    to expire after that.
  - The run reaches 3,709,046 distinct states in about 35 s.
- **`redis_initialized_ttl`** uses `ClientTimeouts = {0, 5}`, a ClientTimeout
  above `2 * maxSessionLifetime = 4`, and `MaxTime = 3`; the first
  `newSession` already violates the property.

### Fairness

`FairSpec` (SessionServer) adds weak fairness to the three sweep actions
only. `deleteExpired` is run periodically for as long as the server runs
(spec 4.6), so a started sweep finishes its checks and its delete, and a new
sweep starts. Requests, cancels, new sessions and the clock get no fairness:
a wallet may stop, and the property must hold whatever else happens.
`ExpiryHandled` is checked under `FairSpec`; under `Spec` alone TLC finds a
run in which the sweep never starts.

## Findings

1. **The response cache bypasses pairing and client authorization**
   (helpers.go 137-145, `cacheMiddleware` 523-528).
   - `checkCache` does not compare the `Authorization` header.
   - Its comment says the body must be non-empty, but the code does not check
     that.
   - Here is what goes wrong after pin pairing. Wallet c1 does `GET /request`.
     Within `retryTimeLimit`, a second wallet c2 sends the same empty-bodied
     `GET /request` and gets the cached session request. `pairingMiddleware`
     never runs, because it sits behind the cache.
2. **`handlePermission` panics** on the flag value `[""]` (part_000 233-238).
   After stripping the leading empty entry the slice is empty, and the code
   then reads `perms[-1]`.
3. **A stale write reaches Redis after the lock expired** (sessions.go
   275-285). `update()` checks the TTL and then writes in separate round trips.
   If the lock expires in between, another replica's update is overwritten.
   Spec 4.2 forbids persisting after the lock expired mid-transaction.
4. **The requestor can see TIMEOUT and then another final status** (sessions.go
   241-245). `clientGet` of the Redis store marks an expired session TIMEOUT
   in its copy only. A wallet transaction that loaded the session just before
   it expired cancels it (or finishes it) and persists that, after the
   requestor's `get()` was told TIMEOUT. Spec 3 says a final status is
   terminal.
5. **`add()` writes the two keys non-atomically** (sessions.go 263-270).
   - Suppose a handler lowers the session's TTL, for example by cancelling an
     INITIALIZED or CONNECTED session, which takes it from
     `2 * maxSessionLifetime` to `maxSessionLifetime`.
   - If the `SET` of `token:<R>` then succeeds and the `SET` of `session:<C>`
     fails, `session:<C>` keeps its old, unfinished status and its later
     expiry.
   - Once `token:<R>` expires, the client token still leads to a live session,
     but the requestor's `get()` reports it unknown.
   - Spec 2 says both tokens lead to the session while it lives.
   - The property allows `session:<C>` to outlive `token:<R>` by one tick, the
     time between the two `SET`s of one successful `add()`.
6. **The ClientTimeout is not capped** (sessions.go 252-253, and 180-183 for
   the memory store). Spec 2 says an INITIALIZED session's keys expire after
   `min(ClientTimeout, 2 * maxSessionLifetime)`, and spec 3 says the memory
   store times it out after `min(ClientTimeout, maxSessionLifetime)`. The code
   uses the ClientTimeout alone.

Spec 4.6 says a requestor sees TIMEOUT for an expired session. With the Redis
store an INITIALIZED session with a ClientTimeout is evicted by its TTL
without ever being marked TIMEOUT, and `get()` then finds nothing. This is a
gap in the spec's description of the remote store, and no run states it.

## Proofs (TLAPS)

`SessionServerProofs.tla` proves two theorems for every value of the
constants. It assumes only `ConstantsAssumption`, which is evaluated by TLC on
every run of `MCSessionServer`.

- **`TypeCorrect`: `Spec => []TypeOK`.**
  - Lemmas type the helpers (`MarkAlive`, `SetStatus`, `Out`) and each branch
    of `Serve`.
  - The induction step then has one step per action.
  - `TypeOK` is inductive as it stands. It includes the fact that the sweep's
    `toCheck` and `expired` sets lie in the store's domain.
- **`Retention`: `Spec => ResultRetention`.** The proof goes through the
  inductive invariant `RetentionInv`, which is `TypeOK` and two more facts:
  - A finished session finished no later than its last activity.
  - Every session in the sweep's `expired` set is finished, and was finished
    more than `MaxSessionLifetime` ago.

  `ResultRetention` alone is not inductive. `SweepDelete` removes whatever
  `SweepCheck` put into `expired` earlier, so the invariant must carry the
  reason each session was put there. Between the two phases, time only grows.
  A request cannot unfinish a session: lemmas `ServeFrozen` and
  `ServeFinishes` show that every handler chain leaves a finished session as it
  is. The last step shows that a session can leave `live` only through
  `SweepDelete`.

`RedisStoreProofs.tla` proves **`NoLostUpdateHolds`**: `Spec => []NoLostUpdate`
for every set of handlers and every `ExpiryWindows` without `"checked"`. The
lock may therefore run out under a live handler while it loads, handles or
releases. The hypothesis is only that it does not run out in the short window
between `update()`'s TTL check and `add()`'s `SET`s. Spec 5 states the
underlying budget: the 500 ms lock TTL must bound every critical section.
The proof depends on the TTL check. With the check removed (the mutant
`CheckLockWithoutTTL`), a handler whose lock ran out while it was handling
writes its stale copy. The inductive invariant `LostInv` is `TypeOK` and four
more facts:

- A handler that passed the TTL check holds `lock:<C>`.
- A handler inside a transaction that still holds `lock:<C>` loaded the
  stored session. A handler whose lock ran out may hold a stale copy, but it
  cannot pass the check.
- If nothing is stored, nothing was applied and nobody is inside a
  transaction.
- The stored count equals the applied updates.

`NoLostUpdate` alone is not inductive: it does not say that a copy in hand is
current.

The same module proves **`RedisTypeCorrect`**: `Spec => []TypeOK` for both
value of `ExpiryWindows`. `TypeOK` is not inductive either. `Persist`
adds `local[p].val - local[p].base` to `applied`, and that is a natural number
only because the handler chain never lowers a loaded copy's count. The
inductive invariant `TypeInv` is `TypeOK` plus that fact for every handler
holding a copy.

`RedisSessionKeysProofs.tla` proves **`TimeoutReportableHolds`**:
`Spec => []TimeoutReportable` for every `MaxSessionLifetime` of two ticks or
more (the assumption `KeysConstants`, evaluated by TLC on every run of
`MCRedisSessionKeys`) and every bound. The inductive invariant `KeysInv` is
`TypeOK` and two facts:

- The stored session was last active in the past, and `session:<C>` expires
  no earlier than its last activity plus the TTL `add()` gives its status.
- A transaction's copy was last active in the past.

`TimeoutReportable` alone is not inductive: it says nothing of a key written
for a different status. The lemmas `LoadedType` and `ProcessedType` (built on
`ServeLastActive` of `SessionServerProofs`) show a loaded or handled copy is a
session last active in the past; a failed `SET` changes no key.

The same module proves **`StoredEvolutionHolds`**: `Spec => StoredEvolution`,
for every `MaxSessionLifetime` and every bound. It is an action property, so
the proof shows `EvoInv /\ [Next]_vars => [StoredStep]_vars` and closes with
PTL. Only `add()`'s second `SET` writes `session:<C>` with a session, and it
writes the copy of the one running transaction. The inductive invariant
`EvoInv` is `KeysInv` and two facts about that copy while a transaction runs:

- The stored session is present, and the copy is related to it by `Rel`. Its
  status is the same or one edge further, and if the stored session is
  finished the copy differs from it only in the response cache.
- Right after `clientGet`, the copy has the stored status, or it is finished
  (`clientGet` timed it out).

The second fact is what lets the handler chain compose with `clientGet`.
`clientGet` may take the copy one edge, to TIMEOUT. The chain then leaves that
finished copy alone (`ProcessedFinished`, from `ServeFrozen`). A copy with an
unchanged status, by contrast, may move one edge (`ProcessedEdge`, from
`ChainEdge`). `LoadedRel` and `ProcessedRel` carry `Rel` through `Load` and
`Handle`. `ChainEdge` restates `ServeEdge` of `SessionSafetyProofs` for the
instance `SS`.

Both theorems about `RedisSessionKeys` rest on its premise that only one
transaction runs at a time. That holds only while `lock:<C>` outlives the
handler that holds it. When a lock runs out between `update()`'s TTL check
and `add()`'s `SET`s, two transactions overlap (`redis_lost_update`). What
the two theorems say does not cover that case.

`SessionSafetyProofs.tla` proves two more properties of the `session_lifecycle`
run:

- **`EvolutionHolds`: `Spec => SessionEvolution`.** `NextEvolution` shows
  `TypeOK /\ [Next]_vars => [EvolutionStep]_vars`, with one step per action.
  A request moves a status along an edge or leaves it (`RequestStep`). It also
  leaves a finished session as it was but for its cache (`RequestFrozen`, from
  `ServeFrozen`). A cancel and a sweep time-out start from an unfinished
  status. `TypeOK` is the only invariant needed.
- **`PairingGateHolds`: `Spec => []PairingGate`.** `PairingGate` is not
  inductive. A response cached while the session was INITIALIZED could be
  replayed. A pin session could reach CONNECTED without `pairingCompleted`.
  Either way the next step would break the property. The inductive invariant
  `GateInv` is `TypeOK`, the fact that a session not yet created has disclosed
  nothing, and `GateAt(s)` for each session. `GateAt(s)` says two things:
  - An INITIALIZED session has disclosed nothing and has cached no response
    that carries the request.
  - An unpaired pin session has the same two facts, and its status is one of
    INITIALIZED, PAIRING, CANCELLED or TIMEOUT.

  TLC checked `GateInv` as an invariant of the `session_lifecycle` instance
  before the proof was written. The handler lemmas are these:
  - `ServeInitialized`: a chain that leaves a session INITIALIZED found it
    INITIALIZED and sent no request.
  - `ServeMethod`: only `updateFrontendOptions` changes the pairing method, and
    only on an INITIALIZED session.
  - `ServePinGate`: in an unpaired pin session, `getClientRequest` leaves the
    request out and `pairingMiddleware` refuses. The only way to CONNECTED is
    `pairingCompleted` from PAIRING, and that step adds the session to
    `pairedFor`.

  A replay by `cacheMiddleware` sends only what `GateAt` allows.

`ProtocolVersionProofs.tla` proves **`NegotiationCorrectHolds`**:
`Spec => []NegotiationCorrect`. It holds for every set of client versions and
every `minSecureProtocolVersion` that `MinSecureAssumption` allows, that is,
one not above the server's maximum 2.8. The invariant `NegInv` says two
things: the inputs are drawn from their sets, and the result is still pending
or is what `chooseProtocolVersion` returned. There are three cases:

- The call fails: no version lies in all three windows.
- The client's maximum is above 2.8: 2.8 is returned, which is acceptable and
  the highest that is.
- Otherwise the client's maximum is returned.

`MinSessionBounded` shows that the minimum a session's features impose never
exceeds 2.8. It relies on the assumption: with a `minSecureProtocolVersion`
above 2.8, the negotiation could return 2.8 below the session's minimum.

Every safety property that a passing run checks is now proved.

What stays with TLC:

- Liveness (`ExpiryHandled`) and `ENABLED` are beyond TLAPS.
- So is any fact about what a recursive definition computes for all inputs.
- The `violation` runs are counterexamples found by TLC. Each one is a
  behaviour, not a theorem.

## Not modelled

- **Issuance cryptography** (`computeWitness`, `computeAttributes`,
  `getProofP`, request validation). Its outcome enters the model as valid or
  invalid proofs.
- **Server-sent events** and `stop()`. These are I/O with no session state.
- **`copyObject`, `purgeRequest`, `hash`, `UnmarshalJSON`.** These transform
  data.
- **`newSession`'s ignored `lock()` error and the early return of a failed
  `add()` before the deferred unlock.** The session is not reachable by
  clients before `newSession` returns, and releasing a nil lock depends on
  `redislock`, outside this repository.
- **Several Redis sessions, and the Redis key layer together with several
  replicas.** `RedisStore` covers the replicas and `RedisSessionKeys` the
  keys; they share the lock discipline.

## Plan for later work

1. Liveness for the Redis store: a connected session that no transaction
   touches is eventually reported TIMEOUT or evicted.
2. Compose `RedisStore`'s replicas and lock expiry with the key layer of
   `RedisSessionKeys` in one module.
