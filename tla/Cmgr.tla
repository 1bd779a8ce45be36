-------------------------------- MODULE Cmgr --------------------------------
(***************************************************************************)
(* The connection manager: cmgrImpl of internal/cmgr/cmgr.go and its       *)
(* pushStats of internal/cmgr/syncer.go.                                   *)
(*                                                                         *)
(* Relay handlers add and remove their connections (module RelayHandler);  *)
(* one goroutine, Start, wakes at every metrics sample, and every          *)
(* syncEvery of them drains the finished connections into a request and    *)
(* posts it to the control plane.  The two maps hold, per relay label, a   *)
(* list of connections.  A connection has one label, and no reader depends *)
(* on the order of a list, so a map is the number of times each connection *)
(* occurs in it.  A request sums, per label, the traffic of the            *)
(* connections it drained; the model keeps the summands.                   *)
(***************************************************************************)
EXTENDS Integers, FiniteSets, FiniteSetsExt

CONSTANTS
    Conn,             \* the RelayConns
    SyncInterval,     \* Config.SyncInterval, in seconds
    RetryMax          \* retryablehttp.Client.RetryMax

ASSUME CmgrAssumption ==
    /\ IsFiniteSet(Conn)
    /\ SyncInterval \in Nat \ {0}      \* Config.Adjust
    /\ RetryMax \in Nat

VARIABLES
    stats,            \* stats[c]: the traffic recorded by c's Stats so far
    active,           \* occurrences of c in activeConnectionsMap
    closed,           \* occurrences of c in closedConnectionsMap
    loop,             \* where Start is: "select", "push", "post" or "stopped"
    tick,             \* Start's tick, modulo syncEvery
    request,          \* occurrences of c counted by the request being posted
    tries,            \* the attempts made to post it
    \* what the requests said, over all of them
    drained,          \* the number of times c was counted
    reported,         \* the traffic reported for c
    received          \* the number of times the control plane was told of c

cmgrMaps == <<active, closed>>
cmgrLoop == <<loop, tick, request, tries>>
cmgrSaid == <<drained, reported, received>>
cmgrVars == <<stats, cmgrMaps, cmgrLoop, cmgrSaid>>

Nothing == [c \in Conn |-> 0]

\* NewCmgr
CmgrInit ==
    /\ stats = Nothing
    /\ active = Nothing
    /\ closed = Nothing
    /\ loop = "select"
    /\ tick = 0
    /\ request = Nothing
    /\ tries = 0
    /\ drained = Nothing
    /\ reported = Nothing
    /\ received = Nothing

-----------------------------------------------------------------------------
(* The operations the relay handlers call, each under cm.lock. *)

AddConnection(c) ==
    /\ active' = [active EXCEPT ![c] = @ + 1]
    /\ UNCHANGED closed

\* Mutant: the connection is copied to the closed map and left in the active one.
RemoveConnectionKeep(c) ==
    /\ closed' = [closed EXCEPT ![c] = @ + 1]
    /\ UNCHANGED active

\* The label is always known: AddConnection created it, and no label is ever
\* deleted.  The connection joins the closed map whether or not it was active.
RemoveConnection(c) ==
    /\ active' = [active EXCEPT ![c] = IF @ > 0 THEN @ - 1 ELSE 0]
    /\ closed' = [closed EXCEPT ![c] = @ + 1]

\* Over all the labels, whichever relay asks.
countActiveConnection == MapThenSumSet(LAMBDA c : active[c], Conn)
-----------------------------------------------------------------------------
(* The goroutine of Start. *)

metricsSampleInterval == 5

syncEvery ==
    LET n == SyncInterval \div metricsSampleInterval - 1
    IN  IF n < 1 THEN 1 ELSE n

\* Mutant: the count is reset before it is compared with syncEvery.
SyncTickNever ==
    /\ loop = "select"
    /\ tick' = (tick + 1) % syncEvery
    /\ loop' = IF tick' = syncEvery THEN "push" ELSE "select"
    /\ UNCHANGED <<stats, cmgrMaps, request, tries, cmgrSaid>>

\* sampleMetrics changes nothing here.
SyncTick ==
    /\ loop = "select"
    /\ tick' = (tick + 1) % syncEvery
    /\ loop' = IF tick' = 0 THEN "push" ELSE "select"
    /\ UNCHANGED <<stats, cmgrMaps, request, tries, cmgrSaid>>

\* case <-ctx.Done()
SyncStop ==
    /\ loop = "select"
    /\ loop' = "stopped"
    /\ UNCHANGED <<stats, cmgrMaps, tick, request, tries, cmgrSaid>>

\* Mutant: the closed connections are read but the map is not replaced.
pushStatsKeep ==
    /\ loop = "push"
    /\ request' = closed
    /\ drained' = [c \in Conn |-> drained[c] + closed[c]]
    /\ reported' = [c \in Conn |-> reported[c] + closed[c] * stats[c]]
    /\ loop' = "post"
    /\ UNCHANGED <<stats, cmgrMaps, tick, tries, received>>

\* Mutant: the active connections are reported along with the closed ones.
pushStatsActive ==
    /\ loop = "push"
    /\ request' = closed
    /\ drained' = [c \in Conn |-> drained[c] + closed[c]]
    /\ reported' = [c \in Conn |-> reported[c] + (closed[c] + active[c]) * stats[c]]
    /\ closed' = Nothing
    /\ loop' = "post"
    /\ UNCHANGED <<stats, active, tick, tries, received>>

\* The part of pushStats under cm.lock: closedConnectionsMap becomes a request.
pushStats ==
    /\ loop = "push"
    /\ request' = closed
    /\ drained' = [c \in Conn |-> drained[c] + closed[c]]
    /\ reported' = [c \in Conn |-> reported[c] + closed[c] * stats[c]]
    /\ closed' = Nothing
    /\ loop' = "post"
    /\ UNCHANGED <<stats, active, tick, tries, received>>

\* Mutant: the number of retries is not bounded by RetryMax.
PostJSONWithRetryAgain(processed, answered) ==
    /\ loop = "post"
    /\ received' = IF processed
                   THEN [c \in Conn |-> received[c] + request[c]]
                   ELSE received
    /\ IF answered \/ tries > RetryMax
       THEN loop' = "select" /\ request' = Nothing /\ tries' = 0
       ELSE tries' = tries + 1 /\ UNCHANGED <<loop, request>>
    /\ UNCHANGED <<stats, cmgrMaps, tick, drained, reported>>

\* One attempt of PostJSONWithRetry, outside the lock.  The control plane may
\* process a request whose answer is lost, and answer without processing it (no
\* status code is looked at).  After the last attempt the request is dropped.
PostJSONWithRetry(processed, answered) ==
    /\ loop = "post"
    /\ received' = IF processed
                   THEN [c \in Conn |-> received[c] + request[c]]
                   ELSE received
    /\ IF answered \/ tries = RetryMax
       THEN loop' = "select" /\ request' = Nothing /\ tries' = 0
       ELSE tries' = tries + 1 /\ UNCHANGED <<loop, request>>
    /\ UNCHANGED <<stats, cmgrMaps, tick, drained, reported>>

Sync ==
    \/ SyncTick
    \/ pushStats
    \/ \E processed, answered \in BOOLEAN : PostJSONWithRetry(processed, answered)
=============================================================================
