----------------------------- MODULE LogFanout ------------------------------
(***************************************************************************)
(* WebSocketLogSyncher of pkg/log/ws.go: every log line of the process is  *)
(* written to all attached WebSockets, by the goroutine that logs, while   *)
(* it holds the mutex that attaching and detaching also take.  No write    *)
(* has a deadline: it blocks while the subscriber does not read, and fails *)
(* once the subscriber is gone or the connection closed.                   *)
(*                                                                         *)
(* A logger is a goroutine in a log call.  The JSON core that feeds the    *)
(* syncher writes JSON, so its early return for other lines has no step.   *)
(***************************************************************************)
EXTENDS Naturals

CONSTANTS
    Logger,           \* the goroutines that log
    Conn              \* the WebSockets

Free == "free"
ASSUME FanoutAssumption == Free \notin Logger

VARIABLES
    mu,               \* the logger that holds mu, or Free
    conns,            \* WebSocketLogSyncher.conns
    todo,             \* the connections the holder has yet to write to
    dead,             \* dead[g]: those whose write failed
    lg,               \* lg[g]: "no", "lock", "write", "close"
    sub,              \* sub[c]: the subscriber: "reads", "stalled", "gone"
    closed            \* the connections that were closed

fanout == <<mu, conns, todo, dead, lg>>

InitFanout ==
    /\ mu = Free /\ conns = {} /\ todo = {}
    /\ dead = [g \in Logger |-> {}]
    /\ lg = [g \in Logger |-> "no"]
    /\ sub = [c \in Conn |-> "reads"]
    /\ closed = {}

\* Mutant: the early return keeps the lock.
WriteLock_EarlyReturn(g) ==
    /\ lg[g] = "lock" /\ mu = Free
    /\ mu' = g
    /\ todo' = conns
    /\ lg' = [lg EXCEPT ![g] = IF conns = {} THEN "no" ELSE "write"]
    /\ UNCHANGED <<conns, dead, sub, closed>>

\* Write: without subscribers there is nothing to do.
WriteLock(g) ==
    /\ lg[g] = "lock" /\ mu = Free
    /\ IF conns = {}
       THEN lg' = [lg EXCEPT ![g] = "no"] /\ UNCHANGED <<mu, todo>>
       ELSE /\ mu' = g /\ todo' = conns
            /\ lg' = [lg EXCEPT ![g] = "write"]
    /\ UNCHANGED <<conns, dead, sub, closed>>

\* ws.WriteFrame returns: at once while the subscriber reads, with an error
\* when it is gone.
WriteFrame(g, c) ==
    /\ lg[g] = "write" /\ mu = g /\ c \in todo
    /\ sub[c] # "stalled" \/ c \in closed
    /\ todo' = todo \ {c}
    /\ dead' = IF sub[c] = "gone" \/ c \in closed
               THEN [dead EXCEPT ![g] = @ \cup {c}] ELSE dead
    /\ UNCHANGED <<mu, conns, lg, sub, closed>>

WriteUnlock(g) ==
    /\ lg[g] = "write" /\ mu = g /\ todo = {}
    /\ conns' = conns \ dead[g]
    /\ mu' = Free
    /\ lg' = [lg EXCEPT ![g] = "close"]
    /\ UNCHANGED <<todo, dead, sub, closed>>

CloseDead(g) ==
    /\ lg[g] = "close"
    /\ closed' = closed \cup dead[g]
    /\ dead' = [dead EXCEPT ![g] = {}]
    /\ lg' = [lg EXCEPT ![g] = "no"]
    /\ UNCHANGED <<mu, conns, todo, sub>>

Log(g) ==
    \/ WriteLock(g)
    \/ \E c \in Conn : WriteFrame(g, c)
    \/ WriteUnlock(g)
    \/ CloseDead(g)

AddConn(c) ==
    /\ mu = Free
    /\ conns' = conns \cup {c}
    /\ UNCHANGED <<mu, todo, dead, lg>>

\* Mutant: the lock is not taken.
RemoveConn_Unlocked(c) ==
    /\ conns' = conns \ {c}
    /\ UNCHANGED <<mu, todo, dead, lg>>

RemoveConn(c) ==
    /\ mu = Free
    /\ conns' = conns \ {c}
    /\ UNCHANGED <<mu, todo, dead, lg>>

\* The subscriber stops reading, reads again, or vanishes.
Subscriber(c) ==
    /\ \/ sub[c] # "gone" /\ sub' \in {[sub EXCEPT ![c] = w] : w \in {"reads", "stalled"}}
       \/ sub' = [sub EXCEPT ![c] = "gone"]
    /\ sub' # sub
    /\ UNCHANGED <<fanout, closed>>
=============================================================================
