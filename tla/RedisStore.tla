----------------------------- MODULE RedisStore -----------------------------
(***************************************************************************)
(* The remote session store (redisSessionStore, sessions.go) seen from the *)
(* request handlers of several server replicas working on ONE session.     *)
(*                                                                         *)
(* A client request runs a transaction on its session: the lock           *)
(* lock:<ClientToken> is obtained with a TTL of maxLockLifetime, the       *)
(* session JSON is loaded from session:<ClientToken>, the handler chain    *)
(* changes the loaded copy, update() checks the lock's TTL and then writes *)
(* the copy back with add(), and the lock is released.  Every one of these *)
(* is a separate round trip to Redis, so each is an action of its own.     *)
(*                                                                         *)
(* The session's data is abstracted to the number of updates it has       *)
(* accumulated: a handler that changes the session adds one to its copy.   *)
(* Lock expiry is untimed: the lock key may vanish whenever its holder is  *)
(* not running a transaction (it crashed), and also while the holder is    *)
(* still working (a GC pause or a slow handler longer than                 *)
(* maxLockLifetime) at the points of its transaction in ExpiryWindows.     *)
(***************************************************************************)
EXTENDS Naturals

CONSTANTS
    Procs,                  \* request handlers, possibly on different replicas
    NoProc,                 \* the lock key is absent
    NoSession,              \* the session key is absent (redis.Nil)
    MaxUpdates,             \* bound on the number of persisted updates
    ExpiryWindows           \* where in a live handler's transaction its lock
                            \* may run out (maxLockLifetime passes)

VARIABLES
    lockKey,    \* lock:<C>: the token of the handler that obtained it, or NoProc
    stored,     \* session:<C>: the number of updates in the stored JSON
    pc,         \* where each handler is in its transaction
    local,      \* each handler's copy: the count it loaded and the count now
    applied     \* history: the updates made by transactions that persisted

vars == <<lockKey, stored, pc, local, applied>>

\* A handler with a session in hand: the chain may use and persist `local`.
Holding == {"loaded", "handled", "checked"}
PCs == {"idle", "locked", "release"} \cup Holding
Copies == [base : Nat, val : Nat]

ASSUME RedisConstants ==
    /\ NoProc \notin Procs
    /\ NoSession \notin Nat
    /\ MaxUpdates \in Nat
    /\ ExpiryWindows \subseteq PCs \ {"idle"}

TypeOK ==
    /\ lockKey \in Procs \cup {NoProc}
    /\ stored \in Nat \cup {NoSession}
    /\ pc \in [Procs -> PCs]
    /\ local \in [Procs -> Copies \cup {NoSession}]
    /\ applied \in Nat
    /\ \A p \in Procs : pc[p] \in Holding => local[p] \in Copies

Init ==
    /\ lockKey = NoProc
    /\ stored = NoSession
    /\ pc = [p \in Procs |-> "idle"]
    /\ local = [p \in Procs |-> NoSession]
    /\ applied = 0

(***************************************************************************)
(* newSession (sessions.go): lock, add, deferred unlock, before the        *)
(* ClientToken is returned.  No client knows the token before newSession   *)
(* returns, so no transaction can run on the session in between and the   *)
(* three calls form one step.  A failed lock is ignored by the code and    *)
(* changes nothing that a transaction can observe.                         *)
(***************************************************************************)
NewSession ==
    /\ stored = NoSession
    /\ applied = 0
    /\ stored' = 0
    /\ UNCHANGED <<lockKey, pc, local, applied>>

(***************************************************************************)
(* lock(): locker.Obtain SETs lock:<C> only if it is absent (SET NX PX),   *)
(* retrying with backoff.  A handler whose retries run out returns         *)
(* ErrNotObtained without touching the session, which is a stutter.        *)
(***************************************************************************)
Lock(p) ==
    /\ pc[p] = "idle"
    /\ lockKey = NoProc
    /\ lockKey' = p
    /\ pc' = [pc EXCEPT ![p] = "locked"]
    /\ UNCHANGED <<stored, local, applied>>

(***************************************************************************)
(* clientGet(): GET session:<C>; redis.Nil yields a nil session, which the *)
(* transaction reports as an unknown session and releases the lock.  The  *)
(* expiry check that marks the copy TIMEOUT changes the data only.        *)
(***************************************************************************)
\* Mutant: redis.Nil is not told apart, so a missing session is "loaded".
LoadWithoutNilCheck(p) ==
    /\ pc[p] = "locked"
    /\ pc' = [pc EXCEPT ![p] = "loaded"]
    /\ local' = [local EXCEPT ![p] = IF stored = NoSession THEN NoSession
                                      ELSE [base |-> stored, val |-> stored]]
    /\ UNCHANGED <<lockKey, stored, applied>>

Load(p) ==
    /\ pc[p] = "locked"
    /\ IF stored = NoSession
         THEN pc' = [pc EXCEPT ![p] = "release"] /\ local' = local
         ELSE /\ pc' = [pc EXCEPT ![p] = "loaded"]
              /\ local' = [local EXCEPT ![p] = [base |-> stored, val |-> stored]]
    /\ UNCHANGED <<lockKey, stored, applied>>

\* The handler chain: it changes the session (a POST that moves the status,
\* a cache record) or leaves it as it was (a replayed or refused request).
\* A copy already at MaxUpdates is not changed further (the model's bound).
Handle(p) ==
    /\ pc[p] = "loaded"
    /\ \E changed \in IF local[p].val < MaxUpdates THEN BOOLEAN ELSE {FALSE} :
         local' = [local EXCEPT ![p].val = IF changed THEN @ + 1 ELSE @]
    /\ pc' = [pc EXCEPT ![p] = "handled"]
    /\ UNCHANGED <<lockKey, stored, applied>>

(***************************************************************************)
(* update(), first half: lock.TTL() is 0 once lock:<C> no longer holds the *)
(* handler's token; update() then fails with "No session lock available"   *)
(* and nothing is written.                                                 *)
(***************************************************************************)
\* Mutant: update() writes without asking for the lock's TTL first.
CheckLockWithoutTTL(p) ==
    /\ pc[p] = "handled"
    /\ pc' = [pc EXCEPT ![p] = "checked"]
    /\ UNCHANGED <<lockKey, stored, local, applied>>

CheckLock(p) ==
    /\ pc[p] = "handled"
    /\ pc' = [pc EXCEPT ![p] = IF lockKey = p THEN "checked" ELSE "release"]
    /\ UNCHANGED <<lockKey, stored, local, applied>>

\* update(), second half: add() SETs token:<R> and session:<C> in two
\* further round trips; the first carries no session data.
Persist(p) ==
    /\ pc[p] = "checked"
    /\ stored' = local[p].val
    /\ applied' = applied + (local[p].val - local[p].base)
    /\ pc' = [pc EXCEPT ![p] = "release"]
    /\ UNCHANGED <<lockKey, local>>

\* unlock(): Release deletes lock:<C> only if it still holds the handler's
\* token; otherwise it reports ErrLockNotHeld as a warning.
Unlock(p) ==
    /\ pc[p] = "release"
    /\ lockKey' = IF lockKey = p THEN NoProc ELSE lockKey
    /\ pc' = [pc EXCEPT ![p] = "idle"]
    /\ UNCHANGED <<stored, local, applied>>

\* A replica dies in the middle of a transaction; its lock stays behind.
Crash(p) ==
    /\ pc[p] # "idle"
    /\ pc' = [pc EXCEPT ![p] = "idle"]
    /\ UNCHANGED <<lockKey, stored, local, applied>>

\* Redis deletes lock:<C> after maxLockLifetime: behind a crashed holder,
\* or under a live one that is at a point of ExpiryWindows.
Expire ==
    /\ lockKey # NoProc
    /\ pc[lockKey] \in {"idle"} \cup ExpiryWindows
    /\ lockKey' = NoProc
    /\ UNCHANGED <<stored, pc, local, applied>>

Next ==
    \/ NewSession
    \/ Expire
    \/ \E p \in Procs :
         Lock(p) \/ Load(p) \/ Handle(p) \/ CheckLock(p) \/ Persist(p)
           \/ Unlock(p) \/ Crash(p)

Spec == Init /\ [][Next]_vars

-----------------------------------------------------------------------------
(***************************************************************************)
(* No lost update: every add() of a transaction is reflected in the stored *)
(* session, i.e. each persisted copy was loaded after the previous one was *)
(* persisted.  This is what the lock and the TTL re-check in update() are  *)
(* for (the comment at sessions.go:276).                                   *)
(***************************************************************************)
NoLostUpdate == stored # NoSession => stored = applied
=============================================================================
