--------------------------- MODULE WebServerProofs --------------------------
(***************************************************************************)
(* Proofs about module WebServer, for any number of concurrent requests,   *)
(* any TTL and any number of sessions.                                     *)
(***************************************************************************)
EXTENDS WebServer, TLAPS

\* What one step may do to the session store.
StoreStep ==
    \/ UNCHANGED store
    \/ issued < MaxSid /\ Issue(issued + 1)
    \/ \E r \in Req : Validate(sid[r]) \/ Revoke(sid[r])

LEMMA StoreSteps == [Next]_vars => StoreStep
<1> SUFFICES ASSUME [Next]_vars PROVE StoreStep
  OBVIOUS
<1>1. CASE Tick \/ ConfigReload \/ UNCHANGED vars
  BY <1>1 DEF Tick, ConfigReload, vars, StoreStep
<1>2. ASSUME NEW r \in Req, Auth(r) \/ AuthInfo(r) PROVE StoreStep
  BY <1>2 DEF Auth, AuthInfo, CheckRequest, StoreStep
<1>3. ASSUME NEW r \in Req, HandleLogin(r) \/ HandleLogout(r) PROVE StoreStep
  BY <1>3 DEF HandleLogin, HandleLogout, StoreStep
<1>4. ASSUME NEW r \in Req, Serve(r), ~Auth(r), ~AuthInfo(r), ~HandleLogin(r), ~HandleLogout(r)
      PROVE  StoreStep
  BY <1>4 DEF Serve, HandleApi, Attach, ErrLogged, Detach, CloseConn, Done, StoreStep
<1>5. ASSUME NEW r \in Req, ReadFails(r) \/ LogCall(r) \/ SubscriberActs(r)
      PROVE  StoreStep
  BY <1>5 DEF ReadFails, LogCall, SubscriberActs, StoreStep
<1>6. ASSUME NEW r \in Req, NEW k \in Kind, NEW s \in 0 .. issued, NEW b \in BOOLEAN,
             Arrive(r, k, s, b)
      PROVE  StoreStep
  BY <1>6 DEF Arrive, StoreStep
<1> QED
  BY <1>1, <1>2, <1>3, <1>4, <1>5, <1>6 DEF Next

-----------------------------------------------------------------------------
(* Types. *)

StoreOK ==
    /\ DOMAIN sessions \subseteq Sid /\ sessions \in [DOMAIN sessions -> Nat]
    /\ issued \in 0 .. MaxSid /\ lastUse \in [Sid -> 0 .. MaxTime]
    /\ loggedOut \subseteq Sid

LEMMA StoreType == TypeOK /\ StoreStep => StoreOK'
<1> SUFFICES ASSUME TypeOK, StoreStep PROVE StoreOK'
  OBVIOUS
<1> USE WebAssumption
<1>1. CASE UNCHANGED store
  BY <1>1 DEF TypeOK, store, StoreOK
<1>2. CASE issued < MaxSid /\ Issue(issued + 1)
  <2>1. issued + 1 \in Sid /\ issued + 1 \in 0 .. MaxSid /\ now + TTL \in Nat
    BY <1>2 DEF TypeOK, Sid
  <2> QED
    BY <1>2, <2>1 DEF TypeOK, Issue, Store, StoreOK
<1>3. ASSUME NEW r \in Req, Validate(sid[r]) PROVE StoreOK'
  <2>1. now + TTL \in Nat
    BY DEF TypeOK
  <2> QED
    BY <1>3, <2>1 DEF TypeOK, Validate, Valid, Store, Delete, StoreOK
<1>4. ASSUME NEW r \in Req, Revoke(sid[r]) PROVE StoreOK'
  BY <1>4 DEF TypeOK, Revoke, Delete, StoreOK
<1> QED
  BY <1>1, <1>2, <1>3, <1>4 DEF StoreStep

FanoutOK ==
    /\ mu \in Logger \cup {Free} /\ conns \subseteq Conn /\ todo \subseteq Conn
    /\ dead \in [Logger -> SUBSET Conn]
    /\ lg \in [Logger -> {"no", "lock", "write", "close"}]
    /\ sub \in [Conn -> {"reads", "stalled", "gone"}] /\ closed \subseteq Conn

RequestOK ==
    /\ now \in 0 .. MaxTime /\ pass \in BOOLEAN /\ token \in BOOLEAN
    /\ pc \in [Req -> {"idle", "auth", "handle", "read", "errlog", "remove", "close", "log"}]
    /\ kind \in [Req -> Kind] /\ sid \in [Req -> Sid \cup {NoSid}]
    /\ bearer \in [Req -> BOOLEAN]

LEMMA TypeInit == Init => TypeOK
<1> SUFFICES ASSUME Init PROVE TypeOK
  OBVIOUS
<1> USE WebAssumption
<1>1. RequestOK
  BY DEF Init, RequestOK, Kind
<1>2. DOMAIN sessions = {} /\ sessions \in [DOMAIN sessions -> Nat]
  BY DEF Init
<1>3. issued \in 0 .. MaxSid /\ lastUse \in [Sid -> 0 .. MaxTime] /\ loggedOut \subseteq Sid
  BY DEF Init
<1>4. FanoutOK
  BY DEF Init, InitFanout, FanoutOK
<1> QED
  BY <1>1, <1>2, <1>3, <1>4 DEF TypeOK, RequestOK, FanoutOK

LEMMA AccessLogType ==
    ASSUME TypeOK, NEW r \in Req, AccessLog(r)
    PROVE  /\ pc' \in [Req -> {"idle", "auth", "handle", "read", "errlog", "remove",
                               "close", "log"}]
           /\ kind' \in [Req -> Kind] /\ sid' \in [Req -> Sid \cup {NoSid}]
           /\ bearer' \in [Req -> BOOLEAN]
           /\ lg' \in [Logger -> {"no", "lock", "write", "close"}]
           /\ UNCHANGED <<mu, conns, todo, dead>>
<1>0. NoSid \in Sid \cup {NoSid} /\ "api" \in Kind
  BY DEF Kind
<1> QED
  BY <1>0, WebAssumption DEF AccessLog, Goto, Forget, TypeOK

LEMMA RequestType == TypeOK /\ [Next]_vars => FanoutOK' /\ RequestOK'
<1> SUFFICES ASSUME TypeOK, [Next]_vars PROVE FanoutOK' /\ RequestOK'
  OBVIOUS
<1> USE WebAssumption DEF TypeOK, FanoutOK, RequestOK, fanout, config, request, Goto
<1>0. NoSid \in Sid \cup {NoSid} /\ "api" \in Kind
  BY DEF Kind
<1>1. CASE Tick \/ ConfigReload \/ UNCHANGED vars
  <2>1. CASE Tick
    BY <2>1 DEF Tick
  <2>2. CASE ConfigReload
    BY <2>2 DEF ConfigReload
  <2>3. CASE UNCHANGED vars
    BY <2>3 DEF vars
  <2> QED
    BY <1>1, <2>1, <2>2, <2>3
<1>2. ASSUME NEW r \in Req, Auth(r) PROVE FanoutOK' /\ RequestOK'
  <2>1. CASE AccessLog(r)
    BY <1>2, <2>1, AccessLogType DEF Auth
  <2>2. CASE Goto(r, "handle") /\ UNCHANGED <<request, fanout>>
    BY <1>2, <2>2 DEF Auth
  <2> QED
    BY <1>2, <2>1, <2>2 DEF Auth
<1>3. ASSUME NEW r \in Req, HandleApi(r) \/ AuthInfo(r) \/ HandleLogin(r) \/ HandleLogout(r)
      PROVE  FanoutOK' /\ RequestOK'
  BY <1>3, AccessLogType DEF HandleApi, AuthInfo, HandleLogin, HandleLogout
<1>4. ASSUME NEW r \in Req, Attach(r) PROVE FanoutOK' /\ RequestOK'
  <2>1. CASE AccessLog(r)
    BY <1>4, <2>1, AccessLogType DEF Attach
  <2>2. CASE AddConn(r) /\ Goto(r, "read") /\ Forget(r)
    BY <1>0, <1>4, <2>2 DEF Attach, AddConn, Forget
  <2> QED
    BY <1>4, <2>1, <2>2 DEF Attach
<1>5. ASSUME NEW r \in Req, ErrLogged(r) \/ Detach(r) \/ Done(r)
      PROVE  FanoutOK' /\ RequestOK'
  BY <1>5 DEF ErrLogged, Detach, RemoveConn, Done
<1>6. ASSUME NEW r \in Req, CloseConn(r) PROVE FanoutOK' /\ RequestOK'
  BY <1>6, AccessLogType DEF CloseConn
<1>7. ASSUME NEW r \in Req, ReadFails(r) PROVE FanoutOK' /\ RequestOK'
  BY <1>7 DEF ReadFails
<1>8. ASSUME NEW r \in Req, LogCall(r) PROVE FanoutOK' /\ RequestOK'
  BY <1>8 DEF LogCall, Log, WriteLock, WriteFrame, WriteUnlock, CloseDead
<1>9. ASSUME NEW r \in Req, SubscriberActs(r) PROVE FanoutOK' /\ RequestOK'
  BY <1>9 DEF SubscriberActs, Subscriber
<1>10. ASSUME NEW r \in Req, NEW k \in Kind, NEW s \in 0 .. issued, NEW b \in BOOLEAN,
              Arrive(r, k, s, b)
       PROVE  FanoutOK' /\ RequestOK'
  <2>1. s \in Sid \cup {NoSid}
    BY DEF Sid, NoSid
  <2> QED
    BY <1>10, <2>1 DEF Arrive
<1> QED
  BY <1>1, <1>2, <1>3, <1>4, <1>5, <1>6, <1>7, <1>8, <1>9, <1>10 DEF Next, Serve

\* The store, the requests and the fan-out stay well typed.
THEOREM TypeCorrect == Spec => []TypeOK
<1>1. TypeOK /\ [Next]_vars => TypeOK'
  BY StoreSteps, StoreType, RequestType DEF TypeOK, StoreOK, FanoutOK, RequestOK
<1> QED
  BY <1>1, TypeInit, PTL DEF Spec

-----------------------------------------------------------------------------
(* Sessions. *)

\* The store holds the sessions that are neither logged out nor found expired,
\* each with the expiry its last use gave it, and requests carry sessions that
\* were issued.
SessionInv ==
    /\ DOMAIN sessions \subseteq 1 .. issued
    /\ loggedOut \subseteq 1 .. issued
    /\ \A s \in DOMAIN sessions :
          sessions[s] = lastUse[s] + TTL /\ s \notin loggedOut
    /\ \A s \in (1 .. issued) \ DOMAIN sessions :
          s \in loggedOut \/ now > lastUse[s] + TTL
    /\ \A r \in Req : sid[r] \in 0 .. issued

\* The clock goes forward, sessions only become more, and a request keeps the
\* sid it came with.
LEMMA ClockAndCookies ==
    ASSUME TypeOK, SessionInv, [Next]_vars, issued' >= issued
    PROVE  now' >= now /\ \A r \in Req : sid'[r] \in 0 .. issued'
<1> USE WebAssumption DEF TypeOK, NoSid
<1>0. /\ issued \in Nat /\ issued' \in Nat
      /\ \A q \in Req : sid[q] \in 0 .. issued
  BY StoreSteps, StoreType DEF StoreOK, SessionInv
<1>1. CASE UNCHANGED sid
  <2>1. now' >= now
    BY DEF Next, Tick, ConfigReload, Arrive, Serve, Auth, HandleApi, AuthInfo, HandleLogin,
           HandleLogout, Attach, ErrLogged, Detach, CloseConn, Done, ReadFails, LogCall,
           SubscriberActs, vars
  <2> QED
    BY <1>0, <1>1, <2>1
<1>2. ASSUME NEW r \in Req, NEW s \in 0 .. issued, sid' = [sid EXCEPT ![r] = s], now' = now
      PROVE  now' >= now /\ \A q \in Req : sid'[q] \in 0 .. issued'
  BY <1>0, <1>2
<1>3. \/ UNCHANGED sid
      \/ \E r \in Req, s \in 0 .. issued : sid' = [sid EXCEPT ![r] = s] /\ now' = now
  <2>1. 0 \in 0 .. issued
    BY <1>0
  <2>2. CASE Tick \/ ConfigReload \/ UNCHANGED vars
    BY <2>2 DEF Tick, ConfigReload, vars, request
  <2>3. ASSUME NEW r \in Req, AccessLog(r) \/ Forget(r), now' = now
        PROVE  \E q \in Req, s \in 0 .. issued : sid' = [sid EXCEPT ![q] = s] /\ now' = now
    BY <2>1, <2>3 DEF AccessLog, Forget
  <2>4. ASSUME NEW r \in Req, Serve(r)
        PROVE  UNCHANGED sid \/ ((AccessLog(r) \/ Forget(r)) /\ now' = now)
    BY <2>4 DEF Serve, Auth, HandleApi, AuthInfo, HandleLogin, HandleLogout, Attach,
                ErrLogged, Detach, CloseConn, Done, request
  <2>5. ASSUME NEW r \in Req, ReadFails(r) \/ LogCall(r) \/ SubscriberActs(r)
        PROVE  UNCHANGED sid
    BY <2>5 DEF ReadFails, LogCall, SubscriberActs, request
  <2>6. ASSUME NEW r \in Req, NEW k \in Kind, NEW s \in 0 .. issued, NEW b \in BOOLEAN,
               Arrive(r, k, s, b)
        PROVE  sid' = [sid EXCEPT ![r] = s] /\ now' = now
    BY <2>6 DEF Arrive
  <2> QED
    BY <2>2, <2>3, <2>4, <2>5, <2>6 DEF Next
<1> QED
  BY <1>1, <1>2, <1>3

LEMMA SessionNext == TypeOK /\ SessionInv /\ [Next]_vars => SessionInv'
<1> SUFFICES ASSUME TypeOK, SessionInv, [Next]_vars PROVE SessionInv'
  OBVIOUS
<1> USE WebAssumption
<1>0. StoreStep
  BY StoreSteps
<1>1. issued' >= issued /\ issued' \in Nat
  BY <1>0, StoreType DEF StoreStep, StoreOK, Issue, Validate, Revoke, store, TypeOK
<1>2. now' >= now /\ now' \in Nat /\ now \in Nat /\ \A r \in Req : sid'[r] \in 0 .. issued'
  BY <1>1, ClockAndCookies, RequestType DEF RequestOK, TypeOK
<1>u. \A s \in 1 .. issued : s \in Sid /\ lastUse[s] \in Nat
  BY DEF TypeOK, Sid
<1>3. CASE UNCHANGED store
  <2>1. \A s \in (1 .. issued) \ DOMAIN sessions : s \in loggedOut \/ now' > lastUse[s] + TTL
    BY <1>2, <1>u DEF SessionInv
  <2> QED
    BY <1>2, <1>3, <2>1 DEF SessionInv, store
<1>4. CASE issued < MaxSid /\ Issue(issued + 1)
  <2>1. issued + 1 \in Sid /\ issued + 1 \notin loggedOut /\ issued + 1 \notin DOMAIN sessions
    BY <1>4 DEF SessionInv, TypeOK, Sid
  <2>2. /\ DOMAIN sessions' = DOMAIN sessions \cup {issued + 1}
        /\ sessions'[issued + 1] = now + TTL
        /\ \A s \in DOMAIN sessions : sessions'[s] = sessions[s]
    BY <1>4, <2>1 DEF Issue, Store
  <2>3. lastUse'[issued + 1] = now /\ \A s \in Sid \ {issued + 1} : lastUse'[s] = lastUse[s]
    BY <1>4, <2>1 DEF Issue, TypeOK
  <2>4. loggedOut' = loggedOut /\ issued' = issued + 1
    BY <1>4 DEF Issue
  <2>5. issued \in Nat /\ 1 .. issued' = (1 .. issued) \cup {issued + 1}
    BY <2>4 DEF TypeOK
  <2>6. \A s \in 1 .. issued : s # issued + 1 /\ lastUse'[s] = lastUse[s]
    BY <1>u, <2>3, <2>5
  <2>7. \A s \in DOMAIN sessions' : sessions'[s] = lastUse'[s] + TTL /\ s \notin loggedOut'
    BY <2>1, <2>2, <2>3, <2>4, <2>6 DEF SessionInv
  <2>8. \A s \in (1 .. issued') \ DOMAIN sessions' :
           s \in loggedOut' \/ now' > lastUse'[s] + TTL
    <3> SUFFICES ASSUME NEW s \in (1 .. issued') \ DOMAIN sessions'
                 PROVE  s \in loggedOut' \/ now' > lastUse'[s] + TTL
      OBVIOUS
    <3>1. s \in (1 .. issued) \ DOMAIN sessions
      BY <2>2, <2>5
    <3> QED
      BY <1>2, <1>u, <2>4, <2>6, <3>1 DEF SessionInv
  <2> QED
    BY <1>2, <2>2, <2>4, <2>5, <2>7, <2>8 DEF SessionInv
<1>5. ASSUME NEW r \in Req, Validate(sid[r]) PROVE SessionInv'
  <2>1. CASE Valid(sid[r])
    <3>1. /\ DOMAIN sessions' = DOMAIN sessions
          /\ sessions'[sid[r]] = now + TTL
          /\ \A s \in DOMAIN sessions \ {sid[r]} : sessions'[s] = sessions[s]
      BY <1>5, <2>1 DEF Validate, Valid, Store
    <3>2. /\ sid[r] \in Sid /\ lastUse'[sid[r]] = now
          /\ \A s \in Sid \ {sid[r]} : lastUse'[s] = lastUse[s]
      BY <1>5, <2>1 DEF Validate, Valid, TypeOK
    <3>3. loggedOut' = loggedOut /\ issued' = issued
      BY <1>5 DEF Validate
    <3>4. \A s \in 1 .. issued : s # sid[r] => lastUse'[s] = lastUse[s]
      BY <1>u, <3>2
    <3>5. \A s \in DOMAIN sessions' : sessions'[s] = lastUse'[s] + TTL /\ s \notin loggedOut'
      BY <3>1, <3>2, <3>3, <3>4 DEF SessionInv
    <3>6. \A s \in (1 .. issued) \ DOMAIN sessions : s \in loggedOut \/ now' > lastUse'[s] + TTL
      BY <1>2, <1>u, <2>1, <3>4 DEF SessionInv, Valid
    <3> QED
      BY <1>2, <3>1, <3>3, <3>5, <3>6 DEF SessionInv
  <2>2. CASE ~Valid(sid[r])
    <3>1. /\ DOMAIN sessions' = DOMAIN sessions \ {sid[r]}
          /\ \A s \in DOMAIN sessions' : sessions'[s] = sessions[s]
          /\ loggedOut' = loggedOut /\ issued' = issued /\ lastUse' = lastUse
      BY <1>5, <2>2 DEF Validate, Delete
    <3> QED
      BY <1>2, <2>2, <3>1 DEF SessionInv, Valid, TypeOK, Sid
  <2> QED
    BY <2>1, <2>2
<1>6. ASSUME NEW r \in Req, Revoke(sid[r]) PROVE SessionInv'
  <2>1. /\ DOMAIN sessions' = DOMAIN sessions \ {sid[r]}
        /\ \A s \in DOMAIN sessions' : sessions'[s] = sessions[s]
        /\ loggedOut' = loggedOut \cup ({sid[r]} \ {NoSid})
        /\ issued' = issued /\ lastUse' = lastUse
    BY <1>6 DEF Revoke, Delete
  <2>2. sid[r] \in 0 .. issued
    BY DEF SessionInv
  <2> QED
    BY <1>2, <2>1, <2>2 DEF SessionInv, TypeOK, Sid, NoSid
<1> QED
  BY <1>0, <1>3, <1>4, <1>5, <1>6 DEF StoreStep

\* The store accepts exactly the live sessions.
LEMMA ValidIffLive ==
    ASSUME TypeOK, SessionInv, NEW r \in Req
    PROVE  Valid(sid[r]) <=> Live(sid[r])
<1>1. sid[r] \in 0 .. issued /\ issued \in Nat /\ now \in Nat
  BY WebAssumption DEF SessionInv, TypeOK
<1>2. CASE sid[r] \in DOMAIN sessions
  BY <1>1, <1>2 DEF SessionInv, Valid, Live
<1>3. CASE sid[r] \notin DOMAIN sessions
  <2>1. CASE sid[r] = 0
    BY <1>1, <1>3, <2>1 DEF Valid, Live
  <2>2. CASE sid[r] # 0
    <3>1. sid[r] \in (1 .. issued) \ DOMAIN sessions
      BY <1>1, <1>3, <2>2
    <3>2. sid[r] \in Sid /\ lastUse[sid[r]] \in Nat
      BY <1>1, <2>2, WebAssumption DEF TypeOK, Sid
    <3> QED
      BY <1>1, <1>3, <3>1, <3>2, WebAssumption DEF SessionInv, Valid, Live
  <2> QED
    BY <2>1, <2>2
<1> QED
  BY <1>2, <1>3

\* Only the middleware takes a request out of its check.
LEMMA LeavesAuth ==
    ASSUME TypeOK, Next, NEW r \in Req, pc[r] = "auth", pc'[r] # "auth"
    PROVE  Auth(r)
<1> USE DEF TypeOK, Goto
<1>1. ASSUME NEW q \in Req, NEW l, pc[q] # "auth", pc' = [pc EXCEPT ![q] = l] PROVE FALSE
  BY <1>1
<1>2. CASE Tick \/ ConfigReload
  BY <1>2 DEF Tick, ConfigReload
<1>3. ASSUME NEW q \in Req, Auth(q) PROVE Auth(r)
  BY <1>3 DEF Auth, AccessLog
<1>4. ASSUME NEW q \in Req, Serve(q), ~Auth(q) PROVE FALSE
  <2>1. pc[q] # "auth" /\ \E l : pc' = [pc EXCEPT ![q] = l]
    BY <1>4 DEF Serve, Handle, HandleApi, AuthInfo, HandleLogin, HandleLogout, Attach,
                ErrLogged, Detach, CloseConn, Done, AccessLog
  <2> QED
    BY <1>1, <2>1
<1>5. ASSUME NEW q \in Req, ReadFails(q) PROVE FALSE
  BY <1>1, <1>5 DEF ReadFails
<1>6. ASSUME NEW q \in Req, LogCall(q) \/ SubscriberActs(q) PROVE FALSE
  BY <1>6 DEF LogCall, SubscriberActs
<1>7. ASSUME NEW q \in Req, NEW k \in Kind, NEW s \in 0 .. issued, NEW b \in BOOLEAN,
             Arrive(q, k, s, b)
      PROVE  FALSE
  BY <1>1, <1>7 DEF Arrive
<1> QED
  BY <1>2, <1>3, <1>4, <1>5, <1>6, <1>7 DEF Next

\* Exactly the live sessions and the token get past the middleware.
THEOREM Admitted == Spec => AdmittedIffLive
<1>1. Init => SessionInv
  BY WebAssumption DEF Init, SessionInv, NoSid
<1>2. ASSUME TypeOK, SessionInv, [Next]_vars
      PROVE  [\A r \in Req :
                (AuthRequired /\ pc[r] = "auth" /\ pc'[r] # "auth")
                => ((pc'[r] = "handle") <=> (Live(sid[r]) \/ (token /\ bearer[r])))]_vars
  <2> SUFFICES ASSUME Next, NEW r \in Req, AuthRequired, pc[r] = "auth", pc'[r] # "auth"
               PROVE  (pc'[r] = "handle") <=> (Live(sid[r]) \/ (token /\ bearer[r]))
    BY <1>2
  <2>1. Auth(r)
    BY <1>2, LeavesAuth
  <2>2. (pc'[r] = "handle") <=> Admits(r)
    BY <1>2, <2>1 DEF Auth, AccessLog, Goto, TypeOK
  <2> QED
    BY <1>2, <2>2, ValidIffLive DEF Admits
<1> QED
  BY <1>1, <1>2, SessionNext, TypeCorrect, PTL DEF Spec, AdmittedIffLive

-----------------------------------------------------------------------------
(* Log streams. *)

Attached == {"read", "errlog", "remove"}

\* Only streams whose handler is between Attach and Detach are in conns, what
\* is being written to is in conns, and nothing is while mu is free.
StreamInv ==
    /\ \A r \in conns : r \in Req /\ pc[r] \in Attached
    /\ todo \subseteq conns
    /\ mu = Free => todo = {}

LEMMA StreamNext == TypeOK /\ StreamInv /\ [Next]_vars => StreamInv'
<1> SUFFICES ASSUME TypeOK, StreamInv, [Next]_vars PROVE StreamInv'
  OBVIOUS
<1> USE WebAssumption, FanoutAssumption DEF TypeOK, Goto
<1>1. ASSUME UNCHANGED <<mu, conns, todo>>, NEW r \in Req, NEW l,
             pc' = [pc EXCEPT ![r] = l], pc[r] \in Attached => l \in Attached
      PROVE  StreamInv'
  BY <1>1 DEF StreamInv
<1>2. CASE Tick \/ ConfigReload \/ UNCHANGED vars
  BY <1>2 DEF Tick, ConfigReload, vars, fanout, StreamInv
<1>3. ASSUME NEW r \in Req, Auth(r) \/ HandleApi(r) \/ AuthInfo(r) \/ HandleLogin(r)
                            \/ HandleLogout(r) \/ ErrLogged(r) \/ CloseConn(r) \/ Done(r)
      PROVE  StreamInv'
  <2>1. /\ UNCHANGED <<mu, conns, todo>>
        /\ \E l : pc' = [pc EXCEPT ![r] = l] /\ (pc[r] \in Attached => l \in Attached)
    BY <1>3 DEF Auth, HandleApi, AuthInfo, HandleLogin, HandleLogout, ErrLogged, CloseConn,
                Done, Handle, AccessLog, fanout, Attached
  <2> QED
    BY <1>1, <2>1
<1>4. ASSUME NEW r \in Req, Attach(r) PROVE StreamInv'
  <2>1. CASE AccessLog(r)
    BY <1>1, <1>4, <2>1 DEF Attach, Handle, AccessLog, Attached
  <2>2. CASE AddConn(r) /\ Goto(r, "read")
    BY <2>2 DEF AddConn, StreamInv, Attached
  <2> QED
    BY <1>4, <2>1, <2>2 DEF Attach
<1>5. ASSUME NEW r \in Req, Detach(r) PROVE StreamInv'
  BY <1>5 DEF Detach, RemoveConn, StreamInv
<1>6. ASSUME NEW r \in Req, ReadFails(r) PROVE StreamInv'
  BY <1>1, <1>6 DEF ReadFails, Attached
<1>7. ASSUME NEW r \in Req, LogCall(r) PROVE StreamInv'
  BY <1>7 DEF LogCall, Log, WriteLock, WriteFrame, WriteUnlock, CloseDead, StreamInv
<1>8. ASSUME NEW r \in Req, SubscriberActs(r) PROVE StreamInv'
  BY <1>8 DEF SubscriberActs, Subscriber, fanout, StreamInv
<1>9. ASSUME NEW r \in Req, NEW k \in Kind, NEW s \in 0 .. issued, NEW b \in BOOLEAN,
             Arrive(r, k, s, b)
      PROVE  StreamInv'
  BY <1>1, <1>9 DEF Arrive, fanout, Attached
<1> QED
  BY <1>2, <1>3, <1>4, <1>5, <1>6, <1>7, <1>8, <1>9 DEF Next, Serve

\* No log line is written to a stream that its handler has detached.
THEOREM Detached == Spec => []NoWriteAfterDetach
<1>1. Init => StreamInv
  BY DEF Init, InitFanout, StreamInv
<1>2. StreamInv => NoWriteAfterDetach
  BY DEF StreamInv, NoWriteAfterDetach, Attached
<1> QED
  BY <1>1, <1>2, StreamNext, TypeCorrect, PTL DEF Spec
=============================================================================
