------------------------ MODULE RedisSessionKeysProofs ------------------------
(***************************************************************************)
(* Proofs about the Redis keys of a session (RedisSessionKeys), for every  *)
(* maxSessionLifetime of at least two ticks and every bound.               *)
(*                                                                         *)
(* The argument: whatever writes session:<C> writes a copy whose          *)
(* lastActive is in the past, with the TTL add() computes from that copy,  *)
(* so the key never expires before lastActive + Timeout.  For a session a *)
(* client has connected to and that is not finished, Timeout is twice     *)
(* maxSessionLifetime, longer than clientGet waits before it reports       *)
(* TIMEOUT.  A failed SET leaves the key as it was, which keeps this.      *)
(***************************************************************************)
EXTENDS RedisSessionKeys, TLAPS

USE KeysConstants DEF SS!ConstantsAssumption

\* The inductive invariant: every session in the store or in a transaction's
\* hands was last active in the past, and session:<C> lives at least as long
\* as add() made it live for the data it holds.
KeysInv ==
    /\ TypeOK
    /\ sessionKey # NoSession =>
         /\ sessionKey.data.lastActive <= now
         /\ sessionKey.data.lastActive + Timeout(sessionKey.data) <= sessionKey.exp
    /\ tx # "idle" => copy.lastActive <= now

-----------------------------------------------------------------------------
(* Lemmas on the helpers *)

LEMMA TimeoutType ==
    ASSUME NEW r \in SS!SessionRec
    PROVE  Timeout(r) \in Nat
<1>1. r.clientTimeout \in Nat
  BY DEF SS!SessionRec
<1>2. QED
  BY <1>1 DEF Timeout

\* clientGet's copy is a session, last active in the past.
LEMMA LoadedType ==
    ASSUME NEW r \in SS!SessionRec, now \in 0..MaxTime, r.lastActive <= now
    PROVE  Loaded(r) \in SS!SessionRec /\ Loaded(r).lastActive <= now
<1>1. SS!MarkAlive(r) \in SS!SessionRec
  BY SS!MarkAliveType
<1>2. SS!SetStatus(SS!MarkAlive(r), SS!Timeout) \in SS!SessionRec
  BY <1>1, SS!SetStatusType DEF SS!Statuses
<1>3. QED
  BY <1>2 DEF Loaded, SS!SetStatus, SS!MarkAlive, SS!SessionRec

\* The cache and the chain leave a session, last active in the past.
LEMMA ProcessedType ==
    ASSUME NEW r \in SS!SessionRec, now \in 0..MaxTime, r.lastActive <= now,
           NEW ep \in SS!Endpoints, NEW msg \in SS!BodiesFor(ep),
           NEW c \in Clients \cup {NoClient}, NEW w \in ClientWindows,
           NEW auth \in BOOLEAN
    PROVE  /\ Processed(r, ep, msg, c, w, auth) \in SS!SessionRec
           /\ Processed(r, ep, msg, c, w, auth).lastActive <= now
<1> DEFINE o == SS!Serve(r, ep, msg, c, w, auth)
<1>1. o.ses \in SS!SessionRec /\ o.resp \in SS!Responses
  BY SS!ServeType DEF SS!OutType
<1>2. o.ses.lastActive \in {r.lastActive, now}
  BY SS!ServeLastActive
<1>3. msg \in SS!Bodies
  BY DEF SS!BodiesFor, SS!Bodies
<1>4. [o.ses EXCEPT !.cache = [endpoint |-> ep, message |-> msg, response |-> o.resp,
                              sessionStatus |-> o.ses.status]] \in SS!SessionRec
  BY <1>1, <1>3 DEF SS!SessionRec, SS!CacheRec
<1>5. QED
  BY <1>1, <1>2, <1>4 DEF Processed, SS!SessionRec
-----------------------------------------------------------------------------
(* The invariant *)

LEMMA InitKeysInv == Init => KeysInv
BY DEF Init, KeysInv, TypeOK, TxPhases, Results

LEMMA NextKeysInv == KeysInv /\ [Next]_vars => KeysInv'
<1> SUFFICES ASSUME KeysInv, [Next]_vars PROVE KeysInv'
  OBVIOUS
<1> USE DEF KeysInv, TypeOK, TxPhases
<1>1. CASE NewSession
  <2>1. PICK ct \in ClientTimeouts :
          LET r == [status |-> SS!Initialized, lastActive |-> now,
                    clientTimeout |-> ct, pairingMethod |-> "none",
                    clientAuth |-> NoClient, cache |-> SS!EmptyCache]
          IN /\ tokenKey' = now + Timeout(r)
             /\ sessionKey' = [data |-> r, exp |-> now + Timeout(r)]
    BY <1>1 DEF NewSession
  <2> DEFINE r == [status |-> SS!Initialized, lastActive |-> now,
                   clientTimeout |-> ct, pairingMethod |-> "none",
                   clientAuth |-> NoClient, cache |-> SS!EmptyCache]
  <2>2. r \in SS!SessionRec
    BY DEF SS!SessionRec, SS!Statuses, SS!Initialized, SS!PairingMethods,
           SS!EmptyCache, SS!CacheRec, SS!Bodies
  <2>3. Timeout(r) \in Nat
    BY <2>2, TimeoutType
  <2>4. QED
    BY <1>1, <2>1, <2>2, <2>3 DEF NewSession
<1>2. CASE Load
  <2>1. Loaded(sessionKey.data) \in SS!SessionRec
        /\ Loaded(sessionKey.data).lastActive <= now
    BY <1>2, LoadedType DEF Load, SessionPresent
  <2>2. QED
    BY <1>2, <2>1 DEF Load
<1>3. CASE Handle
  <2>1. tx = "loaded" /\ copy \in SS!SessionRec /\ copy.lastActive <= now
    BY <1>3 DEF Handle
  <2>2. (CHOOSE w \in ClientWindows : TRUE) \in ClientWindows
    OBVIOUS
  <2>3. \E ep \in SS!Endpoints : \E msg \in SS!BodiesFor(ep) :
          \E c \in Clients \cup {NoClient}, w \in ClientWindows, auth \in BOOLEAN :
            copy' = Processed(copy, ep, msg, c, w, auth)
    BY <1>3, <2>2 DEF Handle, SS!Endpoints
  <2>4. PICK ep \in SS!Endpoints : \E msg \in SS!BodiesFor(ep) :
          \E c \in Clients \cup {NoClient}, w \in ClientWindows, auth \in BOOLEAN :
            copy' = Processed(copy, ep, msg, c, w, auth)
    BY <2>3
  <2>5. PICK msg \in SS!BodiesFor(ep) :
          \E c \in Clients \cup {NoClient}, w \in ClientWindows, auth \in BOOLEAN :
            copy' = Processed(copy, ep, msg, c, w, auth)
    BY <2>4
  <2>6. PICK c \in Clients \cup {NoClient}, w \in ClientWindows, auth \in BOOLEAN :
          copy' = Processed(copy, ep, msg, c, w, auth)
    BY <2>5
  <2>7. copy' \in SS!SessionRec /\ copy'.lastActive <= now
    BY <2>1, <2>6, ProcessedType
  <2>8. QED
    BY <1>3, <2>7 DEF Handle
<1>4. CASE SetToken
  BY <1>4, TimeoutType DEF SetToken
<1>5. CASE SetSession
  <2>1. copy \in SS!SessionRec /\ copy.lastActive <= now
    BY <1>5 DEF SetSession
  <2>2. Timeout(copy) \in Nat /\ copy.lastActive \in Nat
    BY <2>1, TimeoutType DEF SS!SessionRec
  <2>3. QED
    BY <1>5, <2>1, <2>2 DEF SetSession
<1>6. CASE SetFails
  BY <1>6 DEF SetFails
<1>7. CASE RequestorGet
  <2>1. GetResult \in Results
    <3>1. CASE TokenPresent /\ SessionPresent
      <4>1. Loaded(sessionKey.data) \in SS!SessionRec
        BY <3>1, LoadedType DEF SessionPresent
      <4>2. QED
        BY <3>1, <4>1 DEF GetResult, Results, SS!SessionRec
    <3>2. QED
      BY <3>1 DEF GetResult, Results
  <2>2. QED
    BY <1>7, <2>1 DEF RequestorGet
<1>8. CASE Tick
  <2>1. /\ sessionKey # NoSession => sessionKey.data.lastActive \in Nat
        /\ tx # "idle" => copy.lastActive \in Nat
    BY DEF SS!SessionRec
  <2>2. QED
    BY <1>8, <2>1 DEF Tick
<1>9. CASE UNCHANGED vars
  BY <1>9 DEF vars
<1>10. QED
  BY <1>1, <1>2, <1>3, <1>4, <1>5, <1>6, <1>7, <1>8, <1>9 DEF Next

-----------------------------------------------------------------------------
(***************************************************************************)
(* TimeoutReportable for every maxSessionLifetime of two ticks or more and *)
(* every bound: an unfinished session a client connected to stays in      *)
(* Redis until clientGet reports it TIMEOUT, whatever SETs fail.           *)
(***************************************************************************)
THEOREM TimeoutReportableHolds == Spec => []TimeoutReportable
<1>1. KeysInv => TimeoutReportable
  <2> SUFFICES ASSUME KeysInv, sessionKey # NoSession,
                      sessionKey.data.status # SS!Initialized,
                      ~SS!Finished(sessionKey.data.status),
                      now <= sessionKey.data.lastActive + MaxSessionLifetime + 1
               PROVE  SessionPresent
    BY DEF TimeoutReportable
  <2>1. Timeout(sessionKey.data) = 2 * MaxSessionLifetime
    BY DEF Timeout
  <2>2. sessionKey.data.lastActive \in Nat /\ sessionKey.exp \in Nat
    BY DEF KeysInv, TypeOK, SS!SessionRec
  <2>3. QED
    BY <2>1, <2>2 DEF KeysInv, TypeOK, SessionPresent
<1>2. QED
  BY <1>1, InitKeysInv, NextKeysInv, PTL DEF Spec

-----------------------------------------------------------------------------
(***************************************************************************)
(* StoredEvolution.  session:<C> is only written by add() with the copy a *)
(* transaction loaded and handled, and one transaction runs at a time, so *)
(* the stored session does not change while a copy of it is in hands.     *)
(* EvoInv says how the copy relates to the stored session: clientGet may  *)
(* time it out (an edge to TIMEOUT), the chain may move it along one more *)
(* edge, and a finished copy differs from the stored one only in the cache.*)
(***************************************************************************)
Rel(r1, r2) ==
    /\ r2.status # r1.status => <<r1.status, r2.status>> \in SS!Edges
    /\ SS!Finished(r1.status) => SS!Frozen(r2) = SS!Frozen(r1)

EvoInv ==
    /\ KeysInv
    /\ tx # "idle" => sessionKey # NoSession /\ Rel(sessionKey.data, copy)
    /\ tx = "loaded" => \/ copy.status = sessionKey.data.status
                        \/ SS!Finished(copy.status)

\* The server's handler chain moves a status along an edge or leaves it.
LEMMA ChainEdge ==
    ASSUME NEW r \in SS!SessionRec, NEW ep \in SS!Endpoints,
           NEW msg \in SS!BodiesFor(ep), NEW c \in Clients \cup {NoClient},
           NEW w \in ClientWindows, NEW auth \in BOOLEAN
    PROVE  LET st2 == SS!Serve(r, ep, msg, c, w, auth).ses.status
           IN  st2 = r.status \/ <<r.status, st2>> \in SS!Edges
<1>1. CASE ep = "session"
  BY <1>1 DEF SS!Serve, SS!HandleGetClientRequest, SS!Out, SS!SetStatus,
              SS!Fail, SS!MarkAlive, SS!SessionRec, SS!Edges
<1>2. CASE ep = "request"
  BY <1>2 DEF SS!Serve, SS!PairingMiddleware, SS!HandleGetRequest, SS!Out
<1>3. CASE ep = "proofs"
  BY <1>3 DEF SS!Serve, SS!PairingMiddleware, SS!HandlePostProofs, SS!Out,
              SS!SetStatus, SS!Fail, SS!MarkAlive, SS!SessionRec, SS!Edges
<1>4. CASE ep = "frontend/options"
  BY <1>4 DEF SS!Serve, SS!FrontendMiddleware, SS!UpdateFrontendOptions, SS!Out,
              SS!SessionRec
<1>5. CASE ep = "frontend/pairingcompleted"
  BY <1>5 DEF SS!Serve, SS!FrontendMiddleware, SS!PairingCompleted, SS!Out,
              SS!SetStatus, SS!SessionRec, SS!Edges
<1>6. QED
  BY <1>1, <1>2, <1>3, <1>4, <1>5 DEF SS!Endpoints

\* No edge leaves a finished status.
LEMMA EdgesFromUnfinished ==
    ASSUME NEW a, NEW b, <<a, b>> \in SS!Edges
    PROVE  ~SS!Finished(a)
BY DEF SS!Edges, SS!Finished, SS!Initialized, SS!Pairing, SS!Connected,
       SS!Done, SS!Cancelled, SS!Timeout

\* clientGet's copy: the stored session, or it timed out.
LEMMA LoadedRel ==
    ASSUME NEW r \in SS!SessionRec
    PROVE  /\ Rel(r, Loaded(r))
           /\ Loaded(r).status = r.status \/ SS!Finished(Loaded(r).status)
<1>1. CASE r.lastActive + MaxSessionLifetime < now /\ ~SS!Finished(r.status)
  <2>1. Loaded(r).status = SS!Timeout
    BY <1>1 DEF Loaded, SS!SetStatus, SS!MarkAlive, SS!SessionRec
  <2>2. <<r.status, SS!Timeout>> \in SS!Edges
    BY <1>1 DEF SS!SessionRec, SS!Statuses, SS!Finished, SS!Edges
  <2>3. QED
    BY <1>1, <2>1, <2>2 DEF Rel, SS!Finished
<1>2. CASE ~(r.lastActive + MaxSessionLifetime < now /\ ~SS!Finished(r.status))
  BY <1>2 DEF Loaded, Rel
<1>3. QED
  BY <1>1, <1>2

\* cacheMiddleware and the chain on a finished session change only its cache.
LEMMA ProcessedFinished ==
    ASSUME NEW r \in SS!SessionRec, SS!Finished(r.status),
           NEW ep \in SS!Endpoints, NEW msg \in SS!BodiesFor(ep),
           NEW c \in Clients \cup {NoClient}, NEW w \in ClientWindows,
           NEW auth \in BOOLEAN
    PROVE  /\ Processed(r, ep, msg, c, w, auth).status = r.status
           /\ SS!Frozen(Processed(r, ep, msg, c, w, auth)) = SS!Frozen(r)
<1>1. SS!Serve(r, ep, msg, c, w, auth).ses = r
  BY SS!ServeFrozen
<1>2. QED
  BY <1>1 DEF Processed, SS!Frozen, SS!SessionRec

\* cacheMiddleware and the chain move a status along an edge or leave it.
LEMMA ProcessedEdge ==
    ASSUME now \in 0..MaxTime, NEW r \in SS!SessionRec, NEW ep \in SS!Endpoints,
           NEW msg \in SS!BodiesFor(ep), NEW c \in Clients \cup {NoClient},
           NEW w \in ClientWindows, NEW auth \in BOOLEAN
    PROVE  \/ Processed(r, ep, msg, c, w, auth).status = r.status
           \/ <<r.status, Processed(r, ep, msg, c, w, auth).status>> \in SS!Edges
<1> DEFINE o == SS!Serve(r, ep, msg, c, w, auth)
<1>1. o.ses.status = r.status \/ <<r.status, o.ses.status>> \in SS!Edges
  BY ChainEdge
<1>2. o.ses \in SS!SessionRec
  BY SS!ServeType DEF SS!OutType
<1>3. QED
  BY <1>1, <1>2 DEF Processed, SS!SessionRec

\* A copy related to the stored session stays related after the chain.
LEMMA ProcessedRel ==
    ASSUME now \in 0..MaxTime, NEW r1 \in SS!SessionRec, NEW r \in SS!SessionRec,
           Rel(r1, r), r.status = r1.status \/ SS!Finished(r.status),
           NEW ep \in SS!Endpoints, NEW msg \in SS!BodiesFor(ep),
           NEW c \in Clients \cup {NoClient}, NEW w \in ClientWindows,
           NEW auth \in BOOLEAN
    PROVE  Rel(r1, Processed(r, ep, msg, c, w, auth))
<1> DEFINE p == Processed(r, ep, msg, c, w, auth)
<1>1. CASE SS!Finished(r.status)
  <2>1. p.status = r.status /\ SS!Frozen(p) = SS!Frozen(r)
    BY <1>1, ProcessedFinished
  <2>2. CASE r.status = r1.status
    BY <2>1, <2>2 DEF Rel
  <2>3. CASE r.status # r1.status
    <3>1. <<r1.status, r.status>> \in SS!Edges
      BY <2>3 DEF Rel
    <3>2. ~SS!Finished(r1.status)
      BY <3>1, EdgesFromUnfinished
    <3>3. QED
      BY <2>1, <3>1, <3>2 DEF Rel
  <2>4. QED
    BY <2>2, <2>3
<1>2. CASE ~SS!Finished(r.status)
  <2>1. r.status = r1.status
    BY <1>2
  <2>2. p.status = r.status \/ <<r.status, p.status>> \in SS!Edges
    BY ProcessedEdge
  <2>3. QED
    BY <1>2, <2>1, <2>2 DEF Rel
<1>3. QED
  BY <1>1, <1>2

LEMMA InitEvoInv == Init => EvoInv
BY InitKeysInv DEF Init, EvoInv

LEMMA NextEvoInv == EvoInv /\ [Next]_vars => EvoInv'
<1> SUFFICES ASSUME EvoInv, [Next]_vars PROVE EvoInv'
  OBVIOUS
<1>0. KeysInv'
  BY NextKeysInv DEF EvoInv
<1> USE DEF EvoInv
<1>1. CASE NewSession
  \* No transaction runs on a session that is not stored.
  BY <1>0, <1>1 DEF NewSession
<1>2. CASE Load
  <2>1. sessionKey # NoSession /\ sessionKey.data \in SS!SessionRec
    BY <1>2 DEF Load, SessionPresent, KeysInv, TypeOK
  <2>2. /\ Rel(sessionKey.data, Loaded(sessionKey.data))
        /\ \/ Loaded(sessionKey.data).status = sessionKey.data.status
           \/ SS!Finished(Loaded(sessionKey.data).status)
    BY <2>1, LoadedRel
  <2>3. QED
    BY <1>0, <1>2, <2>1, <2>2 DEF Load
<1>3. CASE Handle
  <2>1. /\ tx = "loaded" /\ sessionKey # NoSession
        /\ copy \in SS!SessionRec /\ sessionKey.data \in SS!SessionRec
        /\ now \in 0..MaxTime
    BY <1>3 DEF Handle, KeysInv, TypeOK
  <2>2. (CHOOSE w \in ClientWindows : TRUE) \in ClientWindows
    OBVIOUS
  <2>3. \E ep \in SS!Endpoints : \E msg \in SS!BodiesFor(ep) :
          \E c \in Clients \cup {NoClient}, w \in ClientWindows, auth \in BOOLEAN :
            copy' = Processed(copy, ep, msg, c, w, auth)
    BY <1>3, <2>2 DEF Handle, SS!Endpoints
  <2>4. PICK ep \in SS!Endpoints : \E msg \in SS!BodiesFor(ep) :
          \E c \in Clients \cup {NoClient}, w \in ClientWindows, auth \in BOOLEAN :
            copy' = Processed(copy, ep, msg, c, w, auth)
    BY <2>3
  <2>5. PICK msg \in SS!BodiesFor(ep) :
          \E c \in Clients \cup {NoClient}, w \in ClientWindows, auth \in BOOLEAN :
            copy' = Processed(copy, ep, msg, c, w, auth)
    BY <2>4
  <2>6. PICK c \in Clients \cup {NoClient}, w \in ClientWindows, auth \in BOOLEAN :
          copy' = Processed(copy, ep, msg, c, w, auth)
    BY <2>5
  <2>7. Rel(sessionKey.data, Processed(copy, ep, msg, c, w, auth))
    BY <2>1, ProcessedRel
  <2>8. QED
    BY <1>0, <1>3, <2>1, <2>6, <2>7 DEF Handle
<1>4. CASE SetToken
  BY <1>0, <1>4 DEF SetToken
<1>5. CASE SetSession \/ SetFails
  BY <1>0, <1>5 DEF SetSession, SetFails
<1>6. CASE RequestorGet \/ Tick
  BY <1>0, <1>6 DEF RequestorGet, Tick, Rel
<1>7. CASE UNCHANGED vars
  BY <1>0, <1>7 DEF vars, Rel
<1>8. QED
  BY <1>1, <1>2, <1>3, <1>4, <1>5, <1>6, <1>7 DEF Next

\* The step StoredEvolution constrains.
StoredStep ==
    sessionKey # NoSession =>
        LET r1 == sessionKey.data
            r2 == sessionKey'.data
        IN /\ r2.status # r1.status => <<r1.status, r2.status>> \in SS!Edges
           /\ SS!Finished(r1.status) => SS!Frozen(r2) = SS!Frozen(r1)

LEMMA NextStored == EvoInv /\ [Next]_vars => [StoredStep]_vars
<1> SUFFICES ASSUME EvoInv, [Next]_vars PROVE [StoredStep]_vars
  OBVIOUS
<1>1. CASE SetSession
  \* add() writes the transaction's copy, related to what was stored.
  <2>1. sessionKey # NoSession /\ Rel(sessionKey.data, copy)
    BY <1>1 DEF SetSession, EvoInv
  <2>2. sessionKey'.data = copy
    BY <1>1 DEF SetSession
  <2>3. QED
    BY <2>1, <2>2 DEF StoredStep, Rel
<1>2. CASE NewSession
  BY <1>2 DEF NewSession, StoredStep
<1>3. CASE Load \/ Handle \/ SetToken \/ SetFails \/ RequestorGet \/ Tick
  BY <1>3 DEF Load, Handle, SetToken, SetFails, RequestorGet, Tick, StoredStep
<1>4. CASE UNCHANGED vars
  BY <1>4 DEF vars
<1>5. QED
  BY <1>1, <1>2, <1>3, <1>4 DEF Next

(***************************************************************************)
(* StoredEvolution for every maxSessionLifetime and every bound: whatever  *)
(* transactions load, handle and write back with add(), session:<C> moves *)
(* only along the edges of the state machine, and a finished session in   *)
(* it changes in nothing but its response cache (clientGet's Finished      *)
(* check, the handlers' guards, and one transaction at a time).            *)
(***************************************************************************)
THEOREM StoredEvolutionHolds == Spec => StoredEvolution
BY InitEvoInv, NextEvoInv, NextStored, PTL DEF Spec, StoredEvolution, StoredStep
=============================================================================
