---------------------------- MODULE RelayHandler ----------------------------
(***************************************************************************)
(* The life of the connections of a process: the handler that RawServer    *)
(* and WsServer (internal/transporter/raw.go, ws.go) run for each accepted *)
(* connection, through BaseRelayServer's RelayTCPConn, RelayUDPConn and    *)
(* handleRelayConn (base.go), composed with the connection manager all     *)
(* relays share (module Cmgr).                                             *)
(*                                                                         *)
(* Transport is what module RelayConn shows of it: two copiers record      *)
(* traffic until each ends, then both connections are closed and Transport *)
(* returns.                                                                *)
(***************************************************************************)
EXTENDS Cmgr

CONSTANTS
    Raw, Ws,          \* the labels of the relays that listen on "raw" and on "ws"
    MaxConnection,    \* MaxConnection[l]: Options.MaxConnection, 0 for no limit
    Blocking,         \* the labels with Options.BlockedProtocols
    EnableUDP,        \* the labels with Options.EnableUDP
    MaxTraffic        \* bound: the traffic one connection records

Label == Raw \cup Ws
Proto == {"tcp", "udp"}
None == "none"

ASSUME HandlerAssumption ==
    /\ Raw \cap Ws = {}
    /\ None \notin Label
    /\ MaxConnection \in [Label -> Nat]
    /\ Blocking \subseteq Label
    /\ EnableUDP \subseteq Label
    /\ MaxTraffic \in Nat

Stages == {"new", "limit", "sniff", "dial", "add", "copy", "remove",
           "leave", "done", "fail", "failed"}

VARIABLES
    stage,            \* the step of c's handler
    label,            \* label[c]: the relay that accepted c
    proto,            \* proto[c]: the connection type
    open,             \* open[c]: which of its two net.Conns are open
    copying,          \* copying[c]: the copiers of Transport still running
    gauge             \* metrics.CurConnectionCount, by label and type

handler == <<stage, label, proto, open, copying, gauge>>
vars == <<cmgrVars, handler>>

Ends == {"client", "remote"}

Init ==
    /\ CmgrInit
    /\ stage = [c \in Conn |-> "new"]
    /\ label = [c \in Conn |-> None]
    /\ proto = [c \in Conn |-> None]
    /\ open = [c \in Conn |-> {}]
    /\ copying = [c \in Conn |-> {}]
    /\ gauge = [k \in Label \X Proto |-> 0]

Key(c) == <<label[c], proto[c]>>
Goto(c, s) == stage' = [stage EXCEPT ![c] = s]
-----------------------------------------------------------------------------
(* The listeners hand a connection to a handler, which counts it. *)

Accept(c, l, p) ==
    /\ stage[c] = "new"
    /\ p = "udp" => l \in EnableUDP
    /\ label' = [label EXCEPT ![c] = l]
    /\ proto' = [proto EXCEPT ![c] = p]
    /\ open' = [open EXCEPT ![c] = {"client"}]
    /\ gauge' = [gauge EXCEPT ![<<l, p>>] = @ + 1]
    /\ Goto(c, IF p = "tcp" THEN "limit" ELSE "dial")
    /\ UNCHANGED <<cmgrVars, copying>>

\* A WebSocket request of type udp where UDP is off is closed at once.
RefuseUDP(c, l) ==
    /\ stage[c] = "new"
    /\ l \in Ws \ EnableUDP
    /\ label' = [label EXCEPT ![c] = l]
    /\ proto' = [proto EXCEPT ![c] = "udp"]
    /\ Goto(c, "failed")
    /\ UNCHANGED <<cmgrVars, open, copying, gauge>>

-----------------------------------------------------------------------------
(* RelayTCPConn's checks; RelayUDPConn has none. *)

AtLimit(l) == MaxConnection[l] > 0 /\ countActiveConnection >= MaxConnection[l]

checkConnectionLimit(c) ==
    /\ stage[c] = "limit"
    /\ Goto(c, IF AtLimit(label[c]) THEN "fail" ELSE "sniff")
    /\ UNCHANGED <<cmgrVars, label, proto, open, copying, gauge>>

\* The bytes peeked, a timeout and a read error let the connection through;
\* so does the rate limiter that wraps it next.
sniffAndBlockProtocol(c, blocked) ==
    /\ stage[c] = "sniff"
    /\ blocked => label[c] \in Blocking
    /\ Goto(c, IF blocked THEN "fail" ELSE "dial")
    /\ UNCHANGED <<cmgrVars, label, proto, open, copying, gauge>>

HandShake(c, ok) ==
    /\ stage[c] = "dial"
    /\ open' = IF ok THEN [open EXCEPT ![c] = @ \cup {"remote"}] ELSE open
    /\ Goto(c, IF ok THEN "add" ELSE "fail")
    /\ UNCHANGED <<cmgrVars, label, proto, copying, gauge>>

-----------------------------------------------------------------------------
(* handleRelayConn. *)

Add(c) ==
    /\ stage[c] = "add"
    /\ AddConnection(c)
    /\ copying' = [copying EXCEPT ![c] = Ends]
    /\ Goto(c, "copy")
    /\ UNCHANGED <<stats, cmgrLoop, cmgrSaid, label, proto, open, gauge>>

Transfer(c) ==
    /\ copying[c] # {}
    /\ stats[c] < MaxTraffic
    /\ stats' = [stats EXCEPT ![c] = @ + 1]
    /\ UNCHANGED <<cmgrMaps, cmgrLoop, cmgrSaid, handler>>

CopyEnds(c, e) ==
    /\ e \in copying[c]
    /\ copying' = [copying EXCEPT ![c] = @ \ {e}]
    /\ UNCHANGED <<cmgrVars, stage, label, proto, open, gauge>>

\* Mutant: Transport returns, and closes, when the first copier ends.
TransportReturnsEarly(c) ==
    /\ stage[c] = "copy"
    /\ copying[c] # Ends
    /\ open' = [open EXCEPT ![c] = {}]
    /\ Goto(c, "remove")
    /\ UNCHANGED <<cmgrVars, label, proto, copying, gauge>>

\* Transport's deferred Close closes both connections.
TransportReturns(c) ==
    /\ stage[c] = "copy"
    /\ copying[c] = {}
    /\ open' = [open EXCEPT ![c] = {}]
    /\ Goto(c, "remove")
    /\ UNCHANGED <<cmgrVars, label, proto, copying, gauge>>

Remove(c) ==
    /\ stage[c] = "remove"
    /\ RemoveConnection(c)
    /\ Goto(c, "leave")
    /\ UNCHANGED <<stats, cmgrLoop, cmgrSaid, label, proto, open, copying, gauge>>

\* Mutant: RawServer's accept loop does not close the connection.
LeaveOpen(c) ==
    /\ stage[c] \in {"leave", "fail"}
    /\ gauge' = [gauge EXCEPT ![Key(c)] = @ - 1]
    /\ open' = [open EXCEPT ![c] = @ \ {"remote"}]
    /\ Goto(c, IF stage[c] = "leave" THEN "done" ELSE "failed")
    /\ UNCHANGED <<cmgrVars, label, proto, copying>>

\* The deferred calls on the way out: rc.Close, the gauge, and c.Close, which
\* only the TCP accept loop of RawServer makes.
Leave(c) ==
    /\ stage[c] \in {"leave", "fail"}
    /\ gauge' = [gauge EXCEPT ![Key(c)] = @ - 1]
    /\ open' = [open EXCEPT ![c] =
                  @ \ ({"remote"} \cup {e \in {"client"} : proto[c] = "tcp" /\ label[c] \in Raw})]
    /\ Goto(c, IF stage[c] = "leave" THEN "done" ELSE "failed")
    /\ UNCHANGED <<cmgrVars, label, proto, copying>>

Handle(c) ==
    \/ checkConnectionLimit(c)
    \/ \E blocked \in BOOLEAN : sniffAndBlockProtocol(c, blocked)
    \/ \E ok \in BOOLEAN : HandShake(c, ok)
    \/ Add(c)
    \/ TransportReturns(c)
    \/ Remove(c)
    \/ Leave(c)

Next ==
    \/ \E c \in Conn, l \in Label, p \in Proto : Accept(c, l, p)
    \/ \E c \in Conn, l \in Label : RefuseUDP(c, l)
    \/ \E c \in Conn : Handle(c) \/ Transfer(c)
    \/ \E c \in Conn, e \in Ends : CopyEnds(c, e)
    \/ Sync /\ UNCHANGED handler
    \/ SyncStop /\ UNCHANGED handler

Spec == Init /\ [][Next]_vars

\* Handlers and the sync loop are goroutines and the ticker fires.  Nothing is
\* asked of the network: a copier, a handshake or a post may take for ever.
Fairness ==
    /\ WF_vars((SyncTick \/ pushStats) /\ UNCHANGED handler)
    /\ \A c \in Conn : WF_vars(Remove(c))

FairSpec == Spec /\ Fairness
-----------------------------------------------------------------------------
TypeOK ==
    /\ stats \in [Conn -> Nat]
    /\ active \in [Conn -> Nat]
    /\ closed \in [Conn -> Nat]
    /\ loop \in {"select", "push", "post", "stopped"}
    /\ tick \in 0 .. syncEvery - 1
    /\ request \in [Conn -> Nat]
    /\ tries \in 0 .. RetryMax
    /\ drained \in [Conn -> Nat]
    /\ reported \in [Conn -> Nat]
    /\ received \in [Conn -> Nat]
    /\ stage \in [Conn -> Stages]
    /\ label \in [Conn -> Label \cup {None}]
    /\ proto \in [Conn -> Proto \cup {None}]
    /\ open \in [Conn -> SUBSET Ends]
    /\ copying \in [Conn -> SUBSET Ends]
    /\ gauge \in [Label \X Proto -> Int]

\* A connection is active from AddConnection to RemoveConnection, and from then
\* on sits in the closed map or was drained into one request, never both and
\* never twice, however handlers and the sync loop interleave.
AccountedOnce ==
    \A c \in Conn :
        /\ active[c] = IF stage[c] \in {"copy", "remove"} THEN 1 ELSE 0
        /\ closed[c] + drained[c] = IF stage[c] \in {"leave", "done"} THEN 1 ELSE 0

\* What a request said of a connection stays true: all the traffic it ever
\* records is in the one request that counts it, although pushStats reads Stats
\* without a lock while handlers run.
ReportedFinal ==
    \A c \in Conn : reported[c] = IF drained[c] > 0 THEN stats[c] ELSE 0

\* The control plane may be told of a connection again when an answer is lost,
\* but at most once per attempt, and only of connections that finished.
ToldAtMostPerAttempt ==
    \A c \in Conn : received[c] <= (RetryMax + 1) * drained[c]

\* What the control plane is told, and how often.
ReportsHold == ReportedFinal /\ ToldAtMostPerAttempt

\* The handlers of a relay, of one connection type, that are running.
Running(k) ==
    {c \in Conn : stage[c] \notin {"new", "done", "failed"} /\ Key(c) = k}

\* CurConnectionCount is the number of handlers that are running, on every way
\* out of them.
GaugeBalanced ==
    \A k \in Label \X Proto : gauge[k] = Cardinality(Running(k))

\* No connection outlives its handler: the remote end never, the client end
\* only where a handler failed that is not RawServer's TCP one (a UDP session
\* or a WebSocket, which nobody else closes either).
ConnsClosed ==
    \A c \in Conn :
        /\ stage[c] = "done" => open[c] = {}
        /\ stage[c] = "failed" =>
              open[c] \subseteq {e \in {"client"} : proto[c] = "udp" \/ label[c] \in Ws}

\* A handler leaves nothing behind on any of its ways out: neither its count
\* in CurConnectionCount nor, but for those failures, an open connection.
NoLeak == ConnsClosed /\ GaugeBalanced

\* A connection whose Transport returned is reported, unless the server is
\* stopped or a post hangs (the http client has no timeout), which would also
\* keep every later connection from being reported.
EventuallyReported ==
    []<>(loop # "post") =>
        \A c \in Conn : stage[c] = "remove" ~> (drained[c] > 0 \/ loop = "stopped")

=============================================================================
