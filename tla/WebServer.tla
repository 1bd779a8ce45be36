----------------------------- MODULE WebServer ------------------------------
(***************************************************************************)
(* The web server's requests: the session store and the authentication     *)
(* middleware of internal/web/auth.go, the log stream of handlers_ws.go,   *)
(* and the access log that mw.go writes after every request, which goes    *)
(* through the log fan-out to the subscribers of that stream.              *)
(*                                                                         *)
(* The session store's operations are each one critical section.  A sid is *)
(* a number, in the order they are issued: 32 random bytes are not guessed *)
(* and do not repeat.  A request carries any sid ever issued (browsers     *)
(* keep cookies) or none, and may carry the API token.  Every request of a *)
(* protected path but the log stream's is one kind, "api".                 *)
(***************************************************************************)
EXTENDS LogFanout

CONSTANTS
    Req,              \* the requests being served at once
    TTL,              \* sessionTTL, in ticks
    MaxTime,          \* bound: the clock
    MaxSid            \* bound: sessions issued

ASSUME WebAssumption ==
    /\ Req = Logger /\ Req = Conn
    /\ TTL \in Nat /\ MaxTime \in Nat /\ MaxSid \in Nat

Sid == 1 .. MaxSid
NoSid == 0
Kind == {"api", "ws", "info", "login", "logout"}
Public == {"info", "login", "logout"}

VARIABLES
    now,
    pass, token,      \* Config has a DashboardPass, an ApiToken
    sessions,         \* sessionStore.sessions: the expiry by sid
    pc,               \* pc[r]: "idle", or where its handler is
    kind,             \* kind[r]: the path it asked for
    sid,              \* sid[r]: the cookie it carries
    bearer,           \* bearer[r]: it carries the configured token
    \* history
    issued,           \* the number of sessions issued
    lastUse,          \* lastUse[s]: when s was issued or last accepted
    loggedOut         \* the sessions a logout named

store == <<sessions, issued, lastUse, loggedOut>>
request == <<kind, sid, bearer>>
config == <<pass, token>>
vars == <<now, config, store, pc, request, fanout, sub, closed>>

AuthRequired == pass \/ token

Init ==
    /\ InitFanout
    /\ now = 0
    /\ pass \in BOOLEAN /\ token \in BOOLEAN
    /\ sessions = [s \in {} |-> 0]
    /\ pc = [r \in Req |-> "idle"]
    /\ kind = [r \in Req |-> "api"]
    /\ sid = [r \in Req |-> NoSid]
    /\ bearer = [r \in Req |-> FALSE]
    /\ issued = 0
    /\ lastUse = [s \in Sid |-> 0]
    /\ loggedOut = {}

Tick ==
    /\ now < MaxTime
    /\ now' = now + 1
    /\ UNCHANGED <<config, store, pc, request, fanout, sub, closed>>

\* The relay server reloads the Config the two share, field by field: a
\* password comes or goes, or there is another token or none.
ConfigReload ==
    /\ \/ pass' = ~pass /\ UNCHANGED <<token, bearer>>
       \/ token' \in BOOLEAN /\ bearer' = [r \in Req |-> FALSE] /\ UNCHANGED pass
    /\ UNCHANGED <<now, store, pc, kind, sid, fanout, sub, closed>>

----------------------------------------------------------------------------
(* The session store and checkRequest.                                     *)

Store(s, expiry) ==
    [t \in DOMAIN sessions \cup {s} |-> IF t = s THEN expiry ELSE sessions[t]]
Delete(s) == [t \in DOMAIN sessions \ {s} |-> sessions[t]]

Issue(s) ==
    /\ sessions' = Store(s, now + TTL)
    /\ issued' = s
    /\ lastUse' = [lastUse EXCEPT ![s] = now]
    /\ UNCHANGED loggedOut

\* validate accepts sid s.
Valid(s) == s \in DOMAIN sessions /\ now <= sessions[s]

\* Mutant: the expiry is not pushed back.
Validate_NoSlide(s) ==
    /\ sessions' = IF Valid(s) THEN sessions ELSE Delete(s)
    /\ lastUse' = IF Valid(s) THEN [lastUse EXCEPT ![s] = now] ELSE lastUse
    /\ UNCHANGED <<issued, loggedOut>>

\* Mutant: the expiry is pushed back before the sid is looked up.
Validate_Any(s) ==
    /\ sessions' = Store(s, now + TTL)
    /\ lastUse' = IF Valid(s) THEN [lastUse EXCEPT ![s] = now] ELSE lastUse
    /\ UNCHANGED <<issued, loggedOut>>

\* What validate does to the store: an accepted session is used now and lives
\* TTL longer, an expired one is deleted.
Validate(s) ==
    /\ sessions' = IF Valid(s) THEN Store(s, now + TTL) ELSE Delete(s)
    /\ lastUse' = IF Valid(s) THEN [lastUse EXCEPT ![s] = now] ELSE lastUse
    /\ UNCHANGED <<issued, loggedOut>>

Revoke(s) ==
    /\ sessions' = Delete(s)
    /\ loggedOut' = loggedOut \cup ({s} \ {NoSid})
    /\ UNCHANGED <<issued, lastUse>>

\* checkRequest: the cookie first, then the token in either header.
Admits(r) == ~AuthRequired \/ Valid(sid[r]) \/ (token /\ bearer[r])
CheckRequest(r) == IF AuthRequired THEN Validate(sid[r]) ELSE UNCHANGED store

----------------------------------------------------------------------------
(* Requests.                                                               *)

Goto(r, l) == pc' = [pc EXCEPT ![r] = l]

\* A request comes in.  A log stream has a connection of its own.
Arrive(r, k, s, b) ==
    /\ pc[r] = "idle"
    /\ b => token
    /\ \A g \in Logger : r \notin dead[g]
    /\ Goto(r, IF k \in Public THEN "handle" ELSE "auth")
    /\ kind' = [kind EXCEPT ![r] = k]
    /\ sid' = [sid EXCEPT ![r] = s]
    /\ bearer' = [bearer EXCEPT ![r] = b]
    /\ closed' = closed \ {r}
    /\ UNCHANGED <<now, config, store, fanout, sub>>

\* What the request carried is of no further use.
Forget(r) ==
    /\ kind' = [kind EXCEPT ![r] = "api"]
    /\ sid' = [sid EXCEPT ![r] = NoSid]
    /\ bearer' = [bearer EXCEPT ![r] = FALSE]

\* The handler has returned: NginxLogMiddleware logs the request.
AccessLog(r) ==
    /\ Goto(r, "log")
    /\ Forget(r)
    /\ lg' = [lg EXCEPT ![r] = "lock"]
    /\ UNCHANGED <<mu, conns, todo, dead>>

\* authMiddleware; a refused request is logged like any other.
Auth(r) ==
    /\ pc[r] = "auth"
    /\ CheckRequest(r)
    /\ IF Admits(r) THEN Goto(r, "handle") /\ UNCHANGED <<request, fanout>> ELSE AccessLog(r)
    /\ UNCHANGED <<now, config, sub, closed>>

Handle(r, k) == pc[r] = "handle" /\ kind[r] = k

HandleApi(r) ==
    /\ Handle(r, "api")
    /\ AccessLog(r)
    /\ UNCHANGED <<now, config, store, sub, closed>>

\* AuthInfo validates too, and so counts as a use of the session.
AuthInfo(r) ==
    /\ Handle(r, "info")
    /\ CheckRequest(r)
    /\ AccessLog(r)
    /\ UNCHANGED <<now, config, sub, closed>>

\* A new session for the right password, where one is configured.
HandleLogin(r) ==
    /\ Handle(r, "login")
    /\ \/ AuthRequired /\ pass /\ issued < MaxSid /\ Issue(issued + 1)
       \/ UNCHANGED store
    /\ AccessLog(r)
    /\ UNCHANGED <<now, config, sub, closed>>

HandleLogout(r) ==
    /\ Handle(r, "logout")
    /\ Revoke(sid[r])
    /\ AccessLog(r)
    /\ UNCHANGED <<now, config, sub, closed>>

\* handleWebSocketLogs: attach, then read until that fails.
Attach(r) ==
    /\ Handle(r, "ws")
    /\ \/ AddConn(r) /\ Goto(r, "read") /\ Forget(r)
       \/ AccessLog(r)                        \* the upgrade failed
    /\ UNCHANGED <<now, config, store, sub, closed>>

\* The read fails when the connection ends; if with a network error, that is
\* logged while the connection is still attached.
ReadFails(r) ==
    /\ pc[r] = "read"
    /\ \/ Goto(r, "remove") /\ UNCHANGED lg
       \/ /\ sub[r] = "gone" \/ r \in closed
          /\ Goto(r, "errlog") /\ lg' = [lg EXCEPT ![r] = "lock"]
    /\ UNCHANGED <<now, config, store, request, mu, conns, todo, dead, sub, closed>>

ErrLogged(r) ==
    /\ pc[r] = "errlog" /\ lg[r] = "no"
    /\ Goto(r, "remove")
    /\ UNCHANGED <<now, config, store, request, fanout, sub, closed>>

\* The deferred calls, last first: detach, then close.
Detach(r) ==
    /\ pc[r] = "remove"
    /\ RemoveConn(r)
    /\ Goto(r, "close")
    /\ UNCHANGED <<now, config, store, request, sub, closed>>

CloseConn(r) ==
    /\ pc[r] = "close"
    /\ closed' = closed \cup {r}
    /\ sub' = [sub EXCEPT ![r] = "reads"]     \* nobody looks at it again
    /\ AccessLog(r)
    /\ UNCHANGED <<now, config, store>>

Done(r) ==
    /\ pc[r] = "log" /\ lg[r] = "no"
    /\ Goto(r, "idle")
    /\ UNCHANGED <<now, config, store, request, fanout, sub, closed>>

LogCall(r) == Log(r) /\ UNCHANGED <<now, config, store, pc, request>>

SubscriberActs(r) ==
    /\ pc[r] \in {"read", "errlog", "remove"}
    /\ Subscriber(r)
    /\ UNCHANGED <<now, config, store, pc, request>>

Serve(r) ==
    \/ Auth(r)
    \/ HandleApi(r)
    \/ AuthInfo(r)
    \/ HandleLogin(r)
    \/ HandleLogout(r)
    \/ Attach(r)
    \/ ErrLogged(r)
    \/ Detach(r)
    \/ CloseConn(r)
    \/ Done(r)

Next ==
    \/ Tick
    \/ ConfigReload
    \/ \E r \in Req :
          \/ \E k \in Kind, s \in 0 .. issued, b \in BOOLEAN : Arrive(r, k, s, b)
          \/ Serve(r)
          \/ ReadFails(r)
          \/ LogCall(r)
          \/ SubscriberActs(r)

Spec == Init /\ [][Next]_vars

\* Goroutines run, and a Go mutex starves nobody; subscribers and browsers
\* owe nothing.
Fairness == \A r \in Req : SF_vars(Serve(r)) /\ SF_vars(LogCall(r))

FairSpec == Spec /\ Fairness

----------------------------------------------------------------------------
TypeOK ==
    /\ now \in 0 .. MaxTime /\ pass \in BOOLEAN /\ token \in BOOLEAN
    /\ DOMAIN sessions \subseteq Sid /\ sessions \in [DOMAIN sessions -> Nat]
    /\ pc \in [Req -> {"idle", "auth", "handle", "read", "errlog", "remove", "close", "log"}]
    /\ kind \in [Req -> Kind] /\ sid \in [Req -> Sid \cup {NoSid}]
    /\ bearer \in [Req -> BOOLEAN]
    /\ issued \in 0 .. MaxSid /\ lastUse \in [Sid -> 0 .. MaxTime]
    /\ loggedOut \subseteq Sid
    /\ mu \in Logger \cup {Free} /\ conns \subseteq Conn /\ todo \subseteq Conn
    /\ dead \in [Logger -> SUBSET Conn]
    /\ lg \in [Logger -> {"no", "lock", "write", "close"}]
    /\ sub \in [Conn -> {"reads", "stalled", "gone"}] /\ closed \subseteq Conn

\* A session as its user sees it: issued by a login, not logged out since, and
\* never unused for longer than the TTL.
Live(s) ==
    /\ s \in 1 .. issued
    /\ s \notin loggedOut
    /\ now <= lastUse[s] + TTL

\* Where authentication is configured, a request for a protected path gets
\* past the middleware exactly if it carries a live session or the token: a
\* session in use does not expire, and one that ended never comes back,
\* however requests, logins, logouts and reloads of the Config interleave.
AdmittedIffLive ==
    [][\A r \in Req :
          (AuthRequired /\ pc[r] = "auth" /\ pc'[r] # "auth")
          => ((pc'[r] = "handle") <=> (Live(sid[r]) \/ (token /\ bearer[r])))]_vars

\* A log line is only ever written to a subscriber whose handler has not yet
\* detached it: RemoveConn waits for a Write that is under way, so the handler
\* closes a connection that nobody writes to, and no line is lost to one.
NoWriteAfterDetach ==
    \A r \in Req : r \in todo => pc[r] \in {"read", "errlog", "remove"}

\* A request whose handler has returned is over once its log line is written:
\* nothing but a subscriber that does not read can keep it.
LogReturns ==
    \A r \in Req : pc[r] = "log" ~> (pc[r] = "idle" \/ \E c \in Conn : sub[c] = "stalled")
=============================================================================
