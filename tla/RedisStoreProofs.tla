--------------------------- MODULE RedisStoreProofs ---------------------------
(***************************************************************************)
(* Proofs about the Redis store transactions of RedisStore.                *)
(*                                                                         *)
(* A lock may run out under a live handler; update()'s TTL check keeps    *)
(* the stale copy out, provided the lock does not run out between that     *)
(* check and add()'s SETs.  Then no update is lost, whatever handlers      *)
(* crash or pause.                                                         *)
(***************************************************************************)
EXTENDS RedisStore, TLAPS

USE RedisConstants

(***************************************************************************)
(* The inductive invariant.  A handler that passed update()'s TTL check    *)
(* still holds the lock (it does not run out in that window), a handler    *)
(* with a session in hand that still holds the lock loaded the stored one, *)
(* and the stored count is the applied updates.  A handler whose lock ran  *)
(* out earlier may hold a stale copy: the TTL check turns it away, because *)
(* lock:<C> cannot hold its token again before it is idle.                 *)
(***************************************************************************)
LostInv ==
    /\ TypeOK
    /\ \A p \in Procs : pc[p] = "checked" => lockKey = p
    /\ \A p \in Procs : pc[p] \in Holding /\ lockKey = p => local[p].base = stored
    /\ stored = NoSession => applied = 0 /\ \A p \in Procs : pc[p] \notin Holding
    /\ stored # NoSession => stored = applied

LEMMA InitLostInv == Init => LostInv
BY DEF Init, LostInv, TypeOK, PCs, Holding

LEMMA NextLostInv ==
    ASSUME "checked" \notin ExpiryWindows
    PROVE  LostInv /\ [Next]_vars => LostInv'
<1> SUFFICES ASSUME LostInv, [Next]_vars PROVE LostInv'
  OBVIOUS
<1> USE DEF LostInv, TypeOK, PCs, Holding, Copies
<1>1. CASE NewSession
  BY <1>1 DEF NewSession
<1>2. CASE Expire
  \* The lock does not run out under a handler past the TTL check.
  <2>1. \A p \in Procs : pc[p] # "checked"
    BY <1>2 DEF Expire
  <2>2. QED
    BY <1>2, <2>1 DEF Expire
<1>3. ASSUME NEW p \in Procs, Lock(p) PROVE LostInv'
  \* The lock was free, so nobody was past the TTL check.
  <2>1. \A q \in Procs : pc[q] # "checked"
    BY <1>3 DEF Lock
  <2>2. QED
    BY <1>3, <2>1 DEF Lock
<1>4. ASSUME NEW p \in Procs, Load(p) PROVE LostInv'
  BY <1>4 DEF Load
<1>5. ASSUME NEW p \in Procs, Handle(p) PROVE LostInv'
  BY <1>5 DEF Handle
<1>6. ASSUME NEW p \in Procs, CheckLock(p) PROVE LostInv'
  BY <1>6 DEF CheckLock
<1>7. ASSUME NEW p \in Procs, Persist(p) PROVE LostInv'
  \* p holds the lock, so its copy is the stored one, and nobody else is
  \* past the TTL check.
  <2>1. lockKey = p /\ \A q \in Procs : q # p => pc[q] # "checked"
    BY <1>7 DEF Persist
  <2>2. local[p] \in Copies /\ local[p].base = stored /\ stored = applied
    BY <1>7, <2>1 DEF Persist
  <2>3. stored' = applied'
    BY <1>7, <2>2 DEF Persist
  <2>4. QED
    BY <1>7, <2>1, <2>2, <2>3 DEF Persist
<1>8. ASSUME NEW p \in Procs, Unlock(p) PROVE LostInv'
  <2>1. \A q \in Procs : pc[q] = "checked" => q # p /\ lockKey = q
    BY <1>8 DEF Unlock
  <2>2. QED
    BY <1>8, <2>1 DEF Unlock
<1>9. ASSUME NEW p \in Procs, Crash(p) PROVE LostInv'
  BY <1>9 DEF Crash
<1>10. CASE UNCHANGED vars
  BY <1>10 DEF vars
<1>11. QED
  BY <1>1, <1>2, <1>3, <1>4, <1>5, <1>6, <1>7, <1>8, <1>9, <1>10 DEF Next

(***************************************************************************)
(* NoLostUpdate for every number of handlers and every bound, with a lock *)
(* that may run out under a live handler anywhere before update() asks    *)
(* for its TTL or after the write: update()'s TTL check then keeps every  *)
(* stale copy out of session:<C>, also when replicas crash holding the     *)
(* lock.  The one window the check cannot close, between the TTL and      *)
(* add()'s SETs, is the hypothesis; redis_lost_update shows it matters.    *)
(***************************************************************************)
THEOREM NoLostUpdateHolds ==
    ASSUME "checked" \notin ExpiryWindows
    PROVE  Spec => []NoLostUpdate
<1>1. LostInv => NoLostUpdate
  BY DEF LostInv, NoLostUpdate
<1>2. QED
  BY <1>1, InitLostInv, NextLostInv, PTL DEF Spec

-----------------------------------------------------------------------------
(***************************************************************************)
(* Type correctness, whatever the expiry windows.  TypeOK is not          *)
(* inductive: Persist adds local[p].val - local[p].base to applied, which  *)
(* stays a natural number only because the handler chain never lowers a   *)
(* loaded copy's count below what was loaded.                              *)
(***************************************************************************)
TypeInv ==
    /\ TypeOK
    /\ \A p \in Procs : pc[p] \in Holding => local[p].base <= local[p].val

LEMMA InitTypeInv == Init => TypeInv
BY DEF Init, TypeInv, TypeOK, PCs, Holding

LEMMA NextTypeInv == TypeInv /\ [Next]_vars => TypeInv'
<1> SUFFICES ASSUME TypeInv, [Next]_vars PROVE TypeInv'
  OBVIOUS
<1> USE DEF TypeInv, TypeOK, PCs, Holding, Copies
<1>1. CASE NewSession
  BY <1>1 DEF NewSession
<1>2. CASE Expire
  BY <1>2 DEF Expire
<1>3. ASSUME NEW p \in Procs, Lock(p) PROVE TypeInv'
  BY <1>3 DEF Lock
<1>4. ASSUME NEW p \in Procs, Load(p) PROVE TypeInv'
  BY <1>4 DEF Load
<1>5. ASSUME NEW p \in Procs, Handle(p) PROVE TypeInv'
  BY <1>5 DEF Handle
<1>6. ASSUME NEW p \in Procs, CheckLock(p) PROVE TypeInv'
  BY <1>6 DEF CheckLock
<1>7. ASSUME NEW p \in Procs, Persist(p) PROVE TypeInv'
  \* The count persisted and the updates added are natural numbers.
  <2>1. local[p] \in Copies /\ local[p].base <= local[p].val
    BY <1>7 DEF Persist
  <2>2. stored' \in Nat /\ applied' \in Nat
    BY <1>7, <2>1 DEF Persist
  <2>3. QED
    BY <1>7, <2>2 DEF Persist
<1>8. ASSUME NEW p \in Procs, Unlock(p) PROVE TypeInv'
  BY <1>8 DEF Unlock
<1>9. ASSUME NEW p \in Procs, Crash(p) PROVE TypeInv'
  BY <1>9 DEF Crash
<1>10. CASE UNCHANGED vars
  BY <1>10 DEF vars
<1>11. QED
  BY <1>1, <1>2, <1>3, <1>4, <1>5, <1>6, <1>7, <1>8, <1>9, <1>10 DEF Next

(***************************************************************************)
(* TypeOK for every value of the constants, wherever a lock may run out   *)
(* under its handler: lock:<C> holds a handler's token or nothing,        *)
(* session:<C> a count or nothing, and a handler past clientGet holds a   *)
(* loaded session.                                                         *)
(***************************************************************************)
THEOREM RedisTypeCorrect == Spec => []TypeOK
<1>1. TypeInv => TypeOK
  BY DEF TypeInv
<1>2. QED
  BY <1>1, InitTypeInv, NextTypeInv, PTL DEF Spec
=============================================================================
