------------------------- MODULE SessionServerProofs -------------------------
(***************************************************************************)
(* Proofs about SessionServer, for every value of its constants that      *)
(* satisfies ConstantsAssumption.                                         *)
(***************************************************************************)
EXTENDS SessionServer, TLAPS

USE ConstantsAssumption

-----------------------------------------------------------------------------
(* The handler chain behind the cache yields a session and a response of  *)
(* the right kinds.                                                        *)
-----------------------------------------------------------------------------
LEMMA MarkAliveType ==
    ASSUME NEW r \in SessionRec, now \in 0..MaxTime
    PROVE  MarkAlive(r) \in SessionRec
BY DEF MarkAlive, SessionRec

LEMMA SetStatusType ==
    ASSUME NEW r \in SessionRec, NEW st \in Statuses
    PROVE  SetStatus(r, st) \in SessionRec /\ Fail(r) \in SessionRec
BY DEF SetStatus, Fail, SessionRec, Statuses

OutType(o) == o.ses \in SessionRec /\ o.resp \in Responses

LEMMA ServeType ==
    ASSUME now \in 0..MaxTime,
           NEW r \in SessionRec, NEW ep \in Endpoints, NEW msg \in BodiesFor(ep),
           NEW c \in Clients \cup {NoClient}, NEW w \in ClientWindows,
           NEW auth \in BOOLEAN
    PROVE  OutType(Serve(r, ep, msg, c, w, auth))
<1> DEFINE alive == MarkAlive(r)
<1>1. alive \in SessionRec /\ [alive EXCEPT !.clientAuth = c] \in SessionRec
  BY MarkAliveType DEF SessionRec
<1>2. CASE ep = "session"
  <2>1. GetClientRequest(r) \in Responses
    BY DEF GetClientRequest, Responses
  <2>2. \A st \in Statuses : SetStatus(alive, st) \in SessionRec
          /\ SetStatus([alive EXCEPT !.clientAuth = c], st) \in SessionRec
          /\ Fail(alive) \in SessionRec
    BY <1>1, SetStatusType
  <2>3. QED
    BY <1>2, <2>1, <2>2 DEF Serve, HandleGetClientRequest, Out, OutType, Statuses, Responses
<1>3. CASE ep = "request"
  BY <1>3 DEF Serve, PairingMiddleware, HandleGetRequest, Out, OutType, Responses
<1>4. CASE ep = "proofs"
  <2>1. SetStatus(alive, Done) \in SessionRec /\ Fail(alive) \in SessionRec
    BY <1>1, SetStatusType DEF Statuses
  <2>2. QED
    BY <1>4, <2>1 DEF Serve, PairingMiddleware, HandlePostProofs, Out, OutType, Responses
<1>5. CASE ep = "frontend/options"
  <2>1. \A m \in PairingMethods : [r EXCEPT !.pairingMethod = m] \in SessionRec
    BY DEF SessionRec
  <2>2. QED
    BY <1>5, <2>1 DEF Serve, FrontendMiddleware, UpdateFrontendOptions, Out, OutType, Responses
<1>6. CASE ep = "frontend/pairingcompleted"
  <2>1. SetStatus(r, Connected) \in SessionRec
    BY SetStatusType DEF Statuses
  <2>2. QED
    BY <1>6, <2>1 DEF Serve, FrontendMiddleware, PairingCompleted, Out, OutType, Responses
<1>7. QED
  BY <1>2, <1>3, <1>4, <1>5, <1>6 DEF Endpoints

-----------------------------------------------------------------------------
(* Type correctness *)
-----------------------------------------------------------------------------
LEMMA InitTypeOK == Init => TypeOK
BY DEF Init, TypeOK, SweepRec

LEMMA RequestTypeOK ==
    ASSUME TypeOK, NEW s \in Sessions, NEW ep \in Endpoints, NEW msg \in BodiesFor(ep),
           NEW c \in Clients \cup {NoClient}, NEW w \in ClientWindows,
           NEW auth \in BOOLEAN, Request(s, ep, msg, c, w, auth)
    PROVE  TypeOK'
<1> DEFINE r == sess[s]
<1>1. s \in DOMAIN sess /\ r \in SessionRec
  BY DEF Request, TypeOK
<1>2. msg \in Bodies
  BY DEF BodiesFor, Bodies, ProofBodies, OptionBodies
<1>3. disclosedTo' \in [Sessions -> SUBSET Clients] /\ pairedFor' \subseteq Sessions
      /\ finishedAt' \in [Sessions -> 0..MaxTime]
  BY DEF Request, Observe, TypeOK
<1>4. CASE CacheValid(r, ep, msg)
  BY <1>3, <1>4 DEF Request, TypeOK
<1>5. CASE ~CacheValid(r, ep, msg)
  <2> DEFINE o == Serve(r, ep, msg, c, w, auth)
             r2 == [o.ses EXCEPT !.cache = [endpoint |-> ep, message |-> msg,
                                            response |-> o.resp,
                                            sessionStatus |-> o.ses.status]]
  <2>1. OutType(o)
    BY <1>1, ServeType DEF TypeOK
  <2>2. r2 \in SessionRec
    BY <2>1, <1>2 DEF OutType, SessionRec, CacheRec
  <2>3. sess' = [sess EXCEPT ![s] = r2] /\ UNCHANGED <<now, live, handles, sweep>>
    BY <1>5 DEF Request
  <2>4. QED
    BY <1>1, <1>3, <2>2, <2>3 DEF TypeOK
<1>6. QED
  BY <1>4, <1>5

LEMMA NextTypeOK == TypeOK /\ [Next]_vars => TypeOK'
<1> SUFFICES ASSUME TypeOK, [Next]_vars PROVE TypeOK'
  OBVIOUS
<1>1. ASSUME NEW s \in Sessions, NEW ct \in ClientTimeouts, NewSession(s, ct)
      PROVE TypeOK'
  <2> DEFINE new == [status |-> Initialized, lastActive |-> now,
                     clientTimeout |-> ct, pairingMethod |-> "none",
                     clientAuth |-> NoClient, cache |-> EmptyCache]
  <2>1. new \in SessionRec
    BY DEF TypeOK, SessionRec, EmptyCache, CacheRec, Statuses, PairingMethods, Bodies
  <2>2. sess' = [x \in DOMAIN sess \cup {s} |-> IF x = s THEN new ELSE sess[x]]
    BY <1>1 DEF NewSession, Add
  <2>3. sess' \in [DOMAIN sess' -> SessionRec] /\ DOMAIN sess' = DOMAIN sess \cup {s}
    BY <2>1, <2>2 DEF TypeOK
  <2>4. QED
    BY <1>1, <2>3 DEF NewSession, Add, TypeOK
<1>2. ASSUME NEW s \in Sessions, NEW c \in Clients, ClientRequest(s, c)
      PROVE TypeOK'
  <2>1. PICK ep \in {"session", "request", "proofs"}, w \in ClientWindows :
               \E msg \in BodiesFor(ep) : Request(s, ep, msg, c, w, FALSE)
    BY <1>2 DEF ClientRequest
  <2>2. PICK msg \in BodiesFor(ep) : Request(s, ep, msg, c, w, FALSE)
    BY <2>1
  <2>3. QED
    BY <2>2, RequestTypeOK DEF Endpoints
<1>3. ASSUME NEW s \in Sessions, FrontendRequest(s)
      PROVE TypeOK'
  <2>1. (CHOOSE w \in ClientWindows : TRUE) \in ClientWindows
    OBVIOUS
  <2>2. PICK ep \in {"frontend/options", "frontend/pairingcompleted"}, auth \in BOOLEAN :
               \E msg \in BodiesFor(ep) :
                  Request(s, ep, msg, NoClient, CHOOSE w \in ClientWindows : TRUE, auth)
    BY <1>3 DEF FrontendRequest
  <2>3. PICK msg \in BodiesFor(ep) :
               Request(s, ep, msg, NoClient, CHOOSE w \in ClientWindows : TRUE, auth)
    BY <2>2
  <2>4. QED
    BY <2>1, <2>3, RequestTypeOK DEF Endpoints
<1>4. ASSUME NEW s \in Sessions, CancelSession(s)
      PROVE TypeOK'
  <2>1. sess[s] \in SessionRec
    BY <1>4 DEF CancelSession, TypeOK
  <2>2. MarkAlive(sess[s]) \in SessionRec
    BY <2>1, MarkAliveType DEF TypeOK
  <2>3. Fail(MarkAlive(sess[s])) \in SessionRec
    BY <2>2, SetStatusType DEF Statuses
  <2>4. QED
    BY <1>4, <2>3 DEF CancelSession, TypeOK
<1>5. CASE SweepStart
  BY <1>5 DEF SweepStart, TypeOK, SweepRec
<1>6. ASSUME NEW s \in Sessions, SweepCheck(s)
      PROVE TypeOK'
  <2>1. s \in DOMAIN sess
    BY <1>6 DEF SweepCheck, TypeOK, SweepRec
  <2>2. SetStatus(MarkAlive(sess[s]), Timeout) \in SessionRec
    BY <2>1, MarkAliveType, SetStatusType DEF TypeOK, Statuses
  <2>3. QED
    BY <1>6, <2>1, <2>2 DEF SweepCheck, TypeOK, SweepRec
<1>7. CASE SweepDelete
  BY <1>7 DEF SweepDelete, TypeOK, SweepRec
<1>8. CASE Tick
  BY <1>8 DEF Tick, TypeOK
<1>9. CASE UNCHANGED vars
  BY <1>9 DEF vars, TypeOK
<1>10. ASSUME NEW s \in Sessions, Lookup(s)
       PROVE TypeOK'
  BY <1>10 DEF Lookup, ClientGet, TypeOK
<1>11. QED
  BY <1>1, <1>2, <1>3, <1>4, <1>5, <1>6, <1>7, <1>8, <1>9, <1>10 DEF Next

\* The type invariant of the session server holds in every reachable state.
THEOREM TypeCorrect == Spec => []TypeOK
BY InitTypeOK, NextTypeOK, PTL DEF Spec

-----------------------------------------------------------------------------
(* Result retention                                                        *)
(*                                                                         *)
(* ResultRetention is not inductive: a deletion is decided by SweepCheck   *)
(* and carried out by a later SweepDelete, and it is the session's        *)
(* lastActive, not finishedAt, that the sweep compares with the clock.    *)
(* RetentionInv says that a finished session was last active no earlier   *)
(* than it finished, and that every session marked for deletion is        *)
(* finished and past its retention period.                                 *)
-----------------------------------------------------------------------------
RetentionInv ==
    /\ TypeOK
    /\ \A s \in DOMAIN sess :
          Finished(sess[s].status) => finishedAt[s] <= sess[s].lastActive
    /\ \A s \in sweep.expired :
          Finished(sess[s].status) /\ finishedAt[s] + MaxSessionLifetime < now

\* Every handler chain leaves a finished session as it is.
LEMMA ServeFrozen ==
    ASSUME NEW r \in SessionRec, NEW ep \in Endpoints, NEW msg \in BodiesFor(ep),
           NEW c \in Clients \cup {NoClient}, NEW w \in ClientWindows,
           NEW auth \in BOOLEAN, Finished(r.status)
    PROVE  Serve(r, ep, msg, c, w, auth).ses = r
<1>1. r.status \notin {Initialized, Pairing, Connected}
  BY DEF Finished, Initialized, Pairing, Connected, Done, Cancelled, Timeout
<1>2. CASE ep = "session"
  BY <1>1, <1>2 DEF Serve, HandleGetClientRequest, Out
<1>3. CASE ep = "request"
  BY <1>1, <1>3 DEF Serve, PairingMiddleware, Out
<1>4. CASE ep = "proofs"
  BY <1>1, <1>4 DEF Serve, PairingMiddleware, Out
<1>5. CASE ep = "frontend/options"
  BY <1>1, <1>5 DEF Serve, FrontendMiddleware, UpdateFrontendOptions, Out
<1>6. CASE ep = "frontend/pairingcompleted"
  BY <1>1, <1>6 DEF Serve, FrontendMiddleware, PairingCompleted, Out
<1>7. QED
  BY <1>2, <1>3, <1>4, <1>5, <1>6 DEF Endpoints

\* A handler chain that finishes a session marks it alive.
LEMMA ServeFinishes ==
    ASSUME NEW r \in SessionRec, NEW ep \in Endpoints, NEW msg \in BodiesFor(ep),
           NEW c \in Clients \cup {NoClient}, NEW w \in ClientWindows,
           NEW auth \in BOOLEAN, ~Finished(r.status),
           Finished(Serve(r, ep, msg, c, w, auth).ses.status)
    PROVE  Serve(r, ep, msg, c, w, auth).ses.lastActive = now
<1> DEFINE o == Serve(r, ep, msg, c, w, auth)
<1>1. CASE ep = "session"
  BY <1>1 DEF Serve, HandleGetClientRequest, Out, Finished, SetStatus, Fail,
              MarkAlive, SessionRec, Pairing, Connected, Done, Cancelled, Timeout
<1>2. CASE ep = "request"
  BY <1>2 DEF Serve, PairingMiddleware, HandleGetRequest, Out
<1>3. CASE ep = "proofs"
  BY <1>3 DEF Serve, PairingMiddleware, HandlePostProofs, Out, SetStatus, Fail,
              MarkAlive, SessionRec
<1>4. CASE ep = "frontend/options"
  BY <1>4 DEF Serve, FrontendMiddleware, UpdateFrontendOptions, Out, SessionRec
<1>5. CASE ep = "frontend/pairingcompleted"
  BY <1>5 DEF Serve, FrontendMiddleware, PairingCompleted, Out, SetStatus,
              SessionRec, Finished, Connected, Done, Cancelled, Timeout
<1>6. QED
  BY <1>1, <1>2, <1>3, <1>4, <1>5 DEF Endpoints

\* A handler chain either leaves lastActive alone or marks the session alive.
LEMMA ServeLastActive ==
    ASSUME NEW r \in SessionRec, NEW ep \in Endpoints, NEW msg \in BodiesFor(ep),
           NEW c \in Clients \cup {NoClient}, NEW w \in ClientWindows,
           NEW auth \in BOOLEAN
    PROVE  Serve(r, ep, msg, c, w, auth).ses.lastActive \in {r.lastActive, now}
<1>1. CASE ep = "session"
  BY <1>1 DEF Serve, HandleGetClientRequest, Out, SetStatus, Fail, MarkAlive,
              SessionRec
<1>2. CASE ep = "request"
  BY <1>2 DEF Serve, PairingMiddleware, HandleGetRequest, Out
<1>3. CASE ep = "proofs"
  BY <1>3 DEF Serve, PairingMiddleware, HandlePostProofs, Out, SetStatus, Fail,
              MarkAlive, SessionRec
<1>4. CASE ep = "frontend/options"
  BY <1>4 DEF Serve, FrontendMiddleware, UpdateFrontendOptions, Out, SessionRec
<1>5. CASE ep = "frontend/pairingcompleted"
  BY <1>5 DEF Serve, FrontendMiddleware, PairingCompleted, Out, SetStatus,
              SessionRec
<1>6. QED
  BY <1>1, <1>2, <1>3, <1>4, <1>5 DEF Endpoints

LEMMA InitRetention == Init => RetentionInv
BY InitTypeOK DEF Init, RetentionInv

\* A request keeps RetentionInv: it changes a finished session only in its
\* cache, and a session it finishes was marked alive at the same time.
LEMMA RequestRetention ==
    ASSUME RetentionInv, NEW s \in Sessions, NEW ep \in Endpoints,
           NEW msg \in BodiesFor(ep), NEW c \in Clients \cup {NoClient},
           NEW w \in ClientWindows, NEW auth \in BOOLEAN,
           Request(s, ep, msg, c, w, auth)
    PROVE  RetentionInv'
<1> DEFINE r == sess[s]
           o == Serve(r, ep, msg, c, w, auth)
<1>1. TypeOK'
  BY RequestTypeOK DEF RetentionInv
<1>2. s \in handles /\ r \in SessionRec /\ now \in Nat /\ UNCHANGED <<now, live, handles, sweep>>
  BY DEF Request, RetentionInv, TypeOK
<1>3. \A x \in DOMAIN sess : x # s => sess'[x] = sess[x] /\ finishedAt'[x] = finishedAt[x]
  BY DEF Request, Observe, RetentionInv, TypeOK
<1>4. DOMAIN sess' = DOMAIN sess
  BY DEF Request, RetentionInv, TypeOK
\* What the step does to the session s itself.
<1>5. /\ sess'[s].status = IF CacheValid(r, ep, msg) THEN r.status ELSE o.ses.status
      /\ sess'[s].lastActive = IF CacheValid(r, ep, msg) THEN r.lastActive ELSE o.ses.lastActive
      /\ finishedAt'[s] = IF ~Finished(r.status) /\ Finished(sess'[s].status)
                          THEN now ELSE finishedAt[s]
  <2>1. CASE CacheValid(r, ep, msg)
    BY <1>2, <2>1 DEF Request, Observe
  <2>2. CASE ~CacheValid(r, ep, msg)
    <3> DEFINE r2 == [o.ses EXCEPT !.cache = [endpoint |-> ep, message |-> msg,
                                             response |-> o.resp,
                                             sessionStatus |-> o.ses.status]]
    <3>1. OutType(o)
      BY <1>2, ServeType DEF RetentionInv, TypeOK
    <3>2. sess' = [sess EXCEPT ![s] = r2] /\ Observe(s, c, r, r2, o.resp)
      BY <2>2 DEF Request
    <3>3. s \in DOMAIN sess
      BY <1>2 DEF RetentionInv, TypeOK
    <3>4. sess'[s] = r2
      BY <3>2, <3>3
    <3>5. r2.status = o.ses.status /\ r2.lastActive = o.ses.lastActive
      BY <3>1 DEF OutType, SessionRec
    <3>6. QED
      BY <2>2, <3>2, <3>4, <3>5 DEF Observe, RetentionInv, TypeOK
  <2>3. QED
    BY <2>1, <2>2
<1>6. Finished(r.status) => sess'[s].status = r.status /\ sess'[s].lastActive = r.lastActive
                            /\ finishedAt'[s] = finishedAt[s]
  BY <1>2, <1>5, ServeFrozen
<1>7. ~Finished(r.status) /\ Finished(sess'[s].status) =>
          sess'[s].lastActive = now /\ finishedAt'[s] = now
  BY <1>2, <1>5, ServeFinishes
<1>8. ~Finished(r.status) /\ ~Finished(sess'[s].status) => finishedAt'[s] = finishedAt[s]
  BY <1>5
<1>9. s \notin sweep.expired \/ Finished(r.status)
  BY DEF RetentionInv
<1>10. QED
  BY <1>1, <1>2, <1>3, <1>4, <1>6, <1>7, <1>8, <1>9 DEF RetentionInv, TypeOK

LEMMA NextRetention == RetentionInv /\ [Next]_vars => RetentionInv'
<1> SUFFICES ASSUME RetentionInv, [Next]_vars PROVE RetentionInv'
  OBVIOUS
<1>0. TypeOK'
  BY NextTypeOK DEF RetentionInv
<1>1. ASSUME NEW s \in Sessions, NEW ct \in ClientTimeouts, NewSession(s, ct)
      PROVE RetentionInv'
  <2>1. \A x \in DOMAIN sess : sess'[x] = sess[x]
    BY <1>1 DEF NewSession, Add
  <2>2. ~Finished(sess'[s].status) /\ DOMAIN sess' = DOMAIN sess \cup {s}
    BY <1>1 DEF NewSession, Add, Finished, Initialized, Done, Cancelled, Timeout
  <2>3. UNCHANGED <<now, sweep, finishedAt>>
    BY <1>1 DEF NewSession
  <2>4. QED
    BY <1>0, <2>1, <2>2, <2>3 DEF RetentionInv, TypeOK
<1>2. ASSUME NEW s \in Sessions, NEW c \in Clients, ClientRequest(s, c)
      PROVE RetentionInv'
  <2>1. PICK ep \in {"session", "request", "proofs"}, w \in ClientWindows :
               \E msg \in BodiesFor(ep) : Request(s, ep, msg, c, w, FALSE)
    BY <1>2 DEF ClientRequest
  <2>2. PICK msg \in BodiesFor(ep) : Request(s, ep, msg, c, w, FALSE)
    BY <2>1
  <2>3. QED
    BY <2>2, RequestRetention DEF Endpoints
<1>3. ASSUME NEW s \in Sessions, FrontendRequest(s)
      PROVE RetentionInv'
  <2>1. (CHOOSE w \in ClientWindows : TRUE) \in ClientWindows
    OBVIOUS
  <2>2. PICK ep \in {"frontend/options", "frontend/pairingcompleted"}, auth \in BOOLEAN :
               \E msg \in BodiesFor(ep) :
                  Request(s, ep, msg, NoClient, CHOOSE w \in ClientWindows : TRUE, auth)
    BY <1>3 DEF FrontendRequest
  <2>3. PICK msg \in BodiesFor(ep) :
               Request(s, ep, msg, NoClient, CHOOSE w \in ClientWindows : TRUE, auth)
    BY <2>2
  <2>4. QED
    BY <2>1, <2>3, RequestRetention DEF Endpoints
<1>4. ASSUME NEW s \in Sessions, CancelSession(s)
      PROVE RetentionInv'
  \* The cancelled session was not finished, so it is not marked for deletion.
  <2>1. s \notin sweep.expired /\ s \in DOMAIN sess
    BY <1>4 DEF CancelSession, RetentionInv, TypeOK
  <2>2. sess'[s] = Fail(MarkAlive(sess[s])) /\ finishedAt'[s] = now
    BY <1>4, <2>1, Zenon DEF CancelSession, RetentionInv, TypeOK
  <2>3. sess[s] \in SessionRec
    BY <2>1 DEF RetentionInv, TypeOK
  <2>4. sess'[s].lastActive = now
    BY <2>2, <2>3 DEF Fail, SetStatus, MarkAlive, SessionRec
  <2>5. QED
    BY <1>0, <1>4, <2>1, <2>2, <2>4 DEF CancelSession, RetentionInv, TypeOK
<1>5. CASE SweepStart
  BY <1>0, <1>5 DEF SweepStart, RetentionInv
<1>6. ASSUME NEW s \in Sessions, SweepCheck(s)
      PROVE RetentionInv'
  <2> DEFINE r == sess[s]
  <2>1. s \in DOMAIN sess /\ r \in SessionRec /\ now \in Nat
    BY <1>6 DEF SweepCheck, RetentionInv, TypeOK
  \* A finished session is not an Initialized one: its timeout is
  \* maxSessionLifetime.
  <2>2. Finished(r.status) => SessionTimeout(r) = MaxSessionLifetime
    BY DEF SessionTimeout, Finished, Initialized, Done, Cancelled, Timeout
  <2>3. CASE r.lastActive + SessionTimeout(r) < now /\ ~Finished(r.status)
    <3>1. s \notin sweep.expired
      BY <2>3 DEF RetentionInv
    <3>2. sess' = [sess EXCEPT ![s] = SetStatus(MarkAlive(r), Timeout)]
          /\ finishedAt' = [finishedAt EXCEPT ![s] = now]
      BY <1>6, <2>3 DEF SweepCheck
    <3>5. sess'[s].lastActive = now /\ finishedAt'[s] = now /\ Finished(sess'[s].status)
      BY <2>1, <3>2 DEF SetStatus, MarkAlive, Finished, Timeout, SessionRec, RetentionInv, TypeOK
    <3>3. sweep'.expired = sweep.expired
      BY <1>6, <2>3 DEF SweepCheck, RetentionInv, TypeOK, SweepRec
    <3>4. QED
      BY <1>0, <1>6, <2>1, <3>1, <3>2, <3>3, <3>5 DEF SweepCheck, RetentionInv, TypeOK
  <2>4. CASE r.lastActive + SessionTimeout(r) < now /\ Finished(r.status)
    <3>1. finishedAt[s] + MaxSessionLifetime < now
      BY <2>1, <2>2, <2>4 DEF RetentionInv, TypeOK, SessionRec
    <3>2. sweep'.expired = sweep.expired \cup {s} /\ UNCHANGED <<sess, finishedAt, now>>
      BY <1>6, <2>4 DEF SweepCheck, RetentionInv, TypeOK, SweepRec
    <3>3. QED
      BY <1>0, <2>4, <3>1, <3>2 DEF RetentionInv
  <2>5. CASE ~(r.lastActive + SessionTimeout(r) < now)
    <3>1. sweep'.expired = sweep.expired /\ UNCHANGED <<sess, finishedAt, now>>
      BY <1>6, <2>5 DEF SweepCheck, RetentionInv, TypeOK, SweepRec
    <3>2. QED
      BY <1>0, <3>1 DEF RetentionInv
  <2>6. QED
    BY <2>3, <2>4, <2>5
<1>7. CASE SweepDelete
  BY <1>0, <1>7 DEF SweepDelete, RetentionInv
<1>8. CASE Tick
  BY <1>0, <1>8 DEF Tick, RetentionInv, TypeOK
<1>9. CASE UNCHANGED vars
  BY <1>9 DEF vars, RetentionInv, TypeOK
<1>10. ASSUME NEW s \in Sessions, Lookup(s)
       PROVE RetentionInv'
  BY <1>0, <1>10 DEF Lookup, RetentionInv
<1>11. QED
  BY <1>1, <1>2, <1>3, <1>4, <1>5, <1>6, <1>7, <1>8, <1>9, <1>10 DEF Next

\* Only SweepDelete removes sessions from the store, and it removes the ones
\* marked for deletion.
LEMMA RetentionStep ==
    RetentionInv /\ [Next]_vars =>
        [\A s \in live \ live' :
            Finished(sess[s].status) /\ finishedAt[s] + MaxSessionLifetime < now]_vars
<1> SUFFICES ASSUME RetentionInv, [Next]_vars,
                    NEW s \in live \ live'
             PROVE  Finished(sess[s].status) /\ finishedAt[s] + MaxSessionLifetime < now
  OBVIOUS
<1>1. SweepDelete
  <2>1. ASSUME NEW x \in Sessions, NEW ep, NEW msg, NEW c, NEW w, NEW auth,
               Request(x, ep, msg, c, w, auth)
        PROVE  live' = live
    BY <2>1 DEF Request
  <2>2. ~\E x \in Sessions, c \in Clients : ClientRequest(x, c)
    BY <2>1 DEF ClientRequest
  <2>3. ~\E x \in Sessions : FrontendRequest(x)
    BY <2>1 DEF FrontendRequest
  <2>4. ~\E x \in Sessions, ct \in ClientTimeouts : NewSession(x, ct)
    BY DEF NewSession, Add
  <2>5. ~\E x \in Sessions : CancelSession(x) \/ SweepCheck(x)
    BY DEF CancelSession, SweepCheck
  <2>6. ~SweepStart /\ ~Tick /\ ~UNCHANGED vars
    BY DEF SweepStart, Tick, vars
  <2>7. ~\E x \in Sessions : Lookup(x)
    BY DEF Lookup
  <2>8. QED
    BY <2>2, <2>3, <2>4, <2>5, <2>6, <2>7 DEF Next
<1>2. s \in sweep.expired
  BY <1>1 DEF SweepDelete
<1>3. QED
  BY <1>2 DEF RetentionInv

(***************************************************************************)
(* ResultRetention for every value of the constants: the sweep deletes a  *)
(* session only after it has been finished for longer than               *)
(* maxSessionLifetime.                                                     *)
(***************************************************************************)
THEOREM Retention == Spec => ResultRetention
<1>1. Spec => []RetentionInv
  BY InitRetention, NextRetention, PTL DEF Spec
<1>2. QED
  BY <1>1, RetentionStep, PTL DEF Spec, ResultRetention
=============================================================================
