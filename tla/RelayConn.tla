----------------------------- MODULE RelayConn ------------------------------
(***************************************************************************)
(* One relayed connection: relayConnImpl.Transport and copyConn of         *)
(* internal/conn/relay_conn.go.                                            *)
(*                                                                         *)
(* Two goroutines copy, one per direction.  A direction is named after the *)
(* side it reads from: "client" is the goroutine copyConn starts (conn1 to *)
(* conn2), "remote" is copyConn itself (conn2 to conn1), which then waits  *)
(* for the other on errCH and returns to Transport, whose deferred Close   *)
(* releases both connections.                                              *)
(*                                                                         *)
(* Data is abstracted to numbered chunks, one per successful Read of the   *)
(* underlying connection, each counted as one unit by Stats.  Time is a    *)
(* count of ticks since a connection's lastActive.  The peers are the      *)
(* environment: they send, finish, vanish, and may stop reading, which     *)
(* blocks Write because no write deadline is set.  They are stream peers:  *)
(* the uc of a UDP relay, whose Read reports EOF when it has idled, is not *)
(* one of them.                                                            *)
(***************************************************************************)
EXTENDS Naturals, Sequences

CONSTANTS
    MaxChunks,        \* bound: chunks the two peers send in all
    IdleTimeout,      \* Options.IdleTimeout, in ticks
    TCPSides          \* the sides whose net.Conn is a *net.TCPConn: not a
                      \* wsConn, or a connection wrapped for sniffing or
                      \* rate limiting

Side == {"client", "remote"}

ASSUME ConstantsAssumption ==
    /\ MaxChunks \in Nat
    /\ IdleTimeout \in Nat
    /\ TCPSides \subseteq Side

Other(s) == IF s = "client" THEN "remote" ELSE "client"

Errors == {"none", "nil", "idle", "err"}   \* "none": the copy is still going on

Labels == {"read", "timeout", "loadDown", "storeDown", "write", "loadUp",
           "storeUp", "closeWrite", "sendErr", "exited", "recvErr", "close",
           "returned"}

VARIABLES
    \* the peers
    sent,             \* sent[s]: chunks peer s has written
    peer,             \* peer[s]: "open", "fin" (write side closed) or "reset"
    stalled,          \* the peers that are not reading
    \* relayConnImpl and its innerConns
    age,              \* age[s]: ticks since innerConn s's lastActive
    up, down,         \* Stats.Up, Stats.Down
    halfClosed,       \* the sides whose write half was closed
    closed,           \* relayConnImpl.Close has run
    \* the two goroutines
    pc,
    rd,               \* rd[d]: chunks read from side d
    buf,              \* buf[d]: the chunk in the direction's copy buffer, 0 when used up
    reg,              \* reg[d]: the counter value loaded by Stats.Record, 0 outside it
    dlv,              \* dlv[d]: the chunks of direction d accepted by the other side
    err,              \* err[d]: what io.CopyBuffer returned
    errCH,            \* the channel of capacity 1 between them
    result            \* what copyConn returned

env == <<sent, peer, stalled>>
stats == <<up, down, reg>>
data == <<rd, buf, dlv>>
finish == <<halfClosed, closed, errCH, result>>
vars == <<env, age, stats, data, finish, pc, err>>

Init ==
    /\ sent = [s \in Side |-> 0]
    /\ peer = [s \in Side |-> "open"]
    /\ stalled = {}
    /\ age = [s \in Side |-> 0]
    /\ up = 0 /\ down = 0
    /\ reg = [d \in Side |-> 0]
    /\ halfClosed = {}
    /\ closed = FALSE
    /\ pc = [d \in Side |-> "read"]
    /\ rd = [d \in Side |-> 0]
    /\ buf = [d \in Side |-> 0]
    /\ dlv = [d \in Side |-> <<>>]
    /\ err = [d \in Side |-> "none"]
    /\ errCH = <<>>
    /\ result = "none"

-----------------------------------------------------------------------------
(* The peers and the clock, while the connections are open. *)

PeerSend(s) ==
    /\ ~closed
    /\ peer[s] = "open"
    /\ sent["client"] + sent["remote"] < MaxChunks
    /\ sent' = [sent EXCEPT ![s] = @ + 1]
    /\ UNCHANGED <<peer, stalled, age, stats, data, finish, pc, err>>

PeerFin(s) ==
    /\ ~closed
    /\ peer[s] = "open"
    /\ peer' = [peer EXCEPT ![s] = "fin"]
    /\ UNCHANGED <<sent, stalled, age, stats, data, finish, pc, err>>

PeerReset(s) ==
    /\ ~closed
    /\ peer[s] # "reset"
    /\ peer' = [peer EXCEPT ![s] = "reset"]
    /\ UNCHANGED <<sent, stalled, age, stats, data, finish, pc, err>>

PeerStall(s) ==
    /\ ~closed
    /\ peer[s] # "reset"
    /\ stalled' = IF s \in stalled THEN stalled \ {s} ELSE stalled \cup {s}
    /\ UNCHANGED <<sent, peer, age, stats, data, finish, pc, err>>

Older(a) == IF a > IdleTimeout THEN a ELSE a + 1

Tick ==
    /\ ~closed
    /\ \E s \in Side : age[s] <= IdleTimeout
    /\ age' = [s \in Side |-> Older(age[s])]
    /\ UNCHANGED <<env, stats, data, finish, pc, err>>

-----------------------------------------------------------------------------
(* innerConn.Read on side d, as called by io.CopyBuffer. *)

Goto(d, l) == pc' = [pc EXCEPT ![d] = l]

\* The copy of direction d ends: io.CopyBuffer returns e.
Ends(d, e) ==
    /\ err' = [err EXCEPT ![d] = e]
    /\ Goto(d, "closeWrite")

ReadData(d) ==
    /\ pc[d] = "read"
    /\ peer[d] # "reset"
    /\ rd[d] < sent[d]
    /\ rd' = [rd EXCEPT ![d] = @ + 1]
    /\ buf' = [buf EXCEPT ![d] = rd[d] + 1]
    /\ Goto(d, "loadDown")
    /\ UNCHANGED <<env, age, stats, dlv, finish, err>>

\* io.CopyBuffer takes io.EOF for the regular end of the stream.
ReadEOF(d) ==
    /\ pc[d] = "read"
    /\ peer[d] = "fin"
    /\ rd[d] = sent[d]
    /\ Ends(d, "nil")
    /\ UNCHANGED <<env, age, stats, data, finish>>

ReadError(d) ==
    /\ pc[d] = "read"
    /\ peer[d] = "reset"
    /\ Ends(d, "err")
    /\ UNCHANGED <<env, age, stats, data, finish>>

\* The read deadline expires.  Data may still arrive before the idle check.
ReadTimeout(d) ==
    /\ pc[d] = "read"
    /\ peer[d] = "open"
    /\ rd[d] = sent[d]
    /\ Goto(d, "timeout")
    /\ UNCHANGED <<env, age, stats, data, finish, err>>

\* Mutants: the net.Error is returned as it is; every timeout is retried.
IdleCheckRaw(d) ==
    /\ pc[d] = "timeout"
    /\ IF age[d] > IdleTimeout
       THEN Ends(d, "i/o timeout")
       ELSE Goto(d, "read") /\ UNCHANGED err
    /\ UNCHANGED <<env, age, stats, data, finish>>

IdleCheckForever(d) ==
    /\ pc[d] = "timeout"
    /\ Goto(d, "read")
    /\ UNCHANGED <<env, age, stats, data, finish, err>>

IdleCheck(d) ==
    /\ pc[d] = "timeout"
    /\ IF age[d] > IdleTimeout
       THEN Ends(d, "idle")
       ELSE Goto(d, "read") /\ UNCHANGED err
    /\ UNCHANGED <<env, age, stats, data, finish>>

\* Stats.Record(0, n): a plain load and store, shared by the two goroutines.
\* (The "+= 0" on the other counter is compiled away.)  lastActive follows.
LoadDown(d) ==
    /\ pc[d] = "loadDown"
    /\ reg' = [reg EXCEPT ![d] = down]
    /\ Goto(d, "storeDown")
    /\ UNCHANGED <<env, age, up, down, data, finish, err>>

StoreDown(d) ==
    /\ pc[d] = "storeDown"
    /\ down' = reg[d] + 1
    /\ reg' = [reg EXCEPT ![d] = 0]
    /\ age' = [age EXCEPT ![d] = 0]
    /\ Goto(d, "write")
    /\ UNCHANGED <<env, up, data, finish, err>>

-----------------------------------------------------------------------------
(* innerConn.Write on the other side. *)

WriteData(d) ==
    /\ pc[d] = "write"
    /\ peer[Other(d)] # "reset"
    /\ Other(d) \notin stalled
    /\ dlv' = [dlv EXCEPT ![d] = Append(@, buf[d])]
    /\ buf' = [buf EXCEPT ![d] = 0]
    /\ Goto(d, "loadUp")
    /\ UNCHANGED <<env, age, stats, rd, finish, err>>

\* Mutant: recordStats runs before Write's error is looked at.
WriteErrorCounted(d) ==
    /\ pc[d] = "write"
    /\ peer[Other(d)] = "reset"
    /\ up' = up + 1
    /\ Ends(d, "err")
    /\ UNCHANGED <<env, age, down, reg, data, finish>>

WriteError(d) ==
    /\ pc[d] = "write"
    /\ peer[Other(d)] = "reset"
    /\ Ends(d, "err")
    /\ UNCHANGED <<env, age, stats, data, finish>>

LoadUp(d) ==
    /\ pc[d] = "loadUp"
    /\ reg' = [reg EXCEPT ![d] = up]
    /\ Goto(d, "storeUp")
    /\ UNCHANGED <<env, age, up, down, data, finish, err>>

StoreUp(d) ==
    /\ pc[d] = "storeUp"
    /\ up' = reg[d] + 1
    /\ reg' = [reg EXCEPT ![d] = 0]
    /\ age' = [age EXCEPT ![Other(d)] = 0]
    /\ Goto(d, "read")
    /\ UNCHANGED <<env, down, data, finish, err>>

-----------------------------------------------------------------------------
(* The end of copyConn and of Transport. *)

\* Mutant: copyConn returns without waiting for the other direction.
CloseWriteNoWait(d) ==
    /\ pc[d] = "closeWrite"
    /\ halfClosed' = halfClosed \cup ({Other(d)} \cap TCPSides)
    /\ Goto(d, IF d = "client" THEN "sendErr" ELSE "close")
    /\ UNCHANGED <<env, age, stats, data, closed, errCH, result, err>>

\* innerConn.CloseWrite does nothing unless the connection is a *net.TCPConn.
CloseWrite(d) ==
    /\ pc[d] = "closeWrite"
    /\ halfClosed' = halfClosed \cup ({Other(d)} \cap TCPSides)
    /\ Goto(d, IF d = "client" THEN "sendErr" ELSE "recvErr")
    /\ UNCHANGED <<env, age, stats, data, closed, errCH, result, err>>

SendErr ==
    /\ pc["client"] = "sendErr"
    /\ Len(errCH) < 1
    /\ errCH' = Append(errCH, err["client"])
    /\ Goto("client", "exited")
    /\ UNCHANGED <<env, age, stats, data, halfClosed, closed, result, err>>

combineErrorsAndMuteIDLE(err1, err2) ==
    IF err2 = "idle" THEN "nil"
    ELSE IF err1 \in {"idle", "nil"} THEN err2 ELSE err1

\* err2 := <-errCH, the two CloseRead calls and copyConn's return.
RecvErr ==
    /\ pc["remote"] = "recvErr"
    /\ errCH # <<>>
    /\ result' = combineErrorsAndMuteIDLE(err["remote"], Head(errCH))
    /\ errCH' = Tail(errCH)
    /\ Goto("remote", "close")
    /\ UNCHANGED <<env, age, stats, data, halfClosed, closed, err>>

\* Transport's deferred relayConnImpl.Close.
Close ==
    /\ pc["remote"] = "close"
    /\ closed' = TRUE
    /\ Goto("remote", "returned")
    /\ UNCHANGED <<env, age, stats, data, halfClosed, errCH, result, err>>

Copy(d) ==
    \/ ReadData(d) \/ ReadEOF(d) \/ ReadError(d) \/ ReadTimeout(d)
    \/ IdleCheck(d) \/ LoadDown(d) \/ StoreDown(d)
    \/ WriteData(d) \/ WriteError(d) \/ LoadUp(d) \/ StoreUp(d)
    \/ CloseWrite(d)

Environment ==
    \E s \in Side : PeerSend(s) \/ PeerFin(s) \/ PeerReset(s) \/ PeerStall(s)

Next ==
    \/ Environment
    \/ Tick
    \/ \E d \in Side : Copy(d)
    \/ SendErr \/ RecvErr \/ Close

Spec == Init /\ [][Next]_vars

\* The goroutines are scheduled and time passes; nothing is asked of the peers.
Fairness ==
    /\ WF_vars(Tick)
    /\ WF_vars(Copy("client") \/ SendErr)
    /\ WF_vars(Copy("remote") \/ RecvErr \/ Close)

FairSpec == Spec /\ Fairness
-----------------------------------------------------------------------------
TypeOK ==
    /\ sent \in [Side -> Nat]
    /\ peer \in [Side -> {"open", "fin", "reset"}]
    /\ stalled \in SUBSET Side
    /\ age \in [Side -> Nat]
    /\ up \in Nat /\ down \in Nat
    /\ reg \in [Side -> Nat]
    /\ halfClosed \in SUBSET Side
    /\ closed \in BOOLEAN
    /\ pc \in [Side -> Labels]
    /\ rd \in [Side -> Nat]
    /\ buf \in [Side -> Nat]
    /\ dlv \in [Side -> Seq(Nat)]
    /\ err \in [Side -> Errors]
    /\ errCH \in Seq(Errors)
    /\ result \in Errors

\* The connection as its two users see it.
Pipe == INSTANCE DuplexPipe WITH
    Dir <- Side,
    over <- [d \in Side |-> peer[d] # "open"],
    out <- dlv,
    told <- {d \in Side : Other(d) \in halfClosed},
    end <- [d \in Side |-> CASE err[d] = "none" -> "open"
                             [] err[d] = "nil" -> "eof"
                             [] OTHER -> "cut"]

\* Transport implements a pair of independent ordered pipes: chunks arrive in
\* order and without gaps, a direction that ended reports a clean end of stream
\* only after everything was handed over, nothing is written to a direction
\* that ended, a destination sees end of stream only once its direction ended,
\* and both connections are released only after both directions.
ImplementsPipe == Pipe!Spec

\* The traffic that really flowed, in the units Stats counts.
Delivered(d) == Len(dlv[d])
Written == Delivered("client") + Delivered("remote")
Consumed == rd["client"] + rd["remote"]

\* Traffic is never over-reported: the racy Stats.Record may lose an update,
\* but Up never exceeds the chunks written and Down the chunks read.
StatsNeverOvercount ==
    /\ up <= Written
    /\ down <= Consumed

\* Transport returns, whatever the peers send and however they end, unless a
\* peer stops reading for ever (Write has no deadline).
TransportReturns ==
    <>[](stalled = {}) => <>(pc["remote"] = "returned")

\* Once Transport has returned, Stats.Up is exactly what was written, as
\* relay_conn_test.go:47 asserts of one Write.  Stats.Record takes no lock, so
\* with two goroutines writing it is not.
StatsExact ==
    pc["remote"] = "returned" => up = Written
=============================================================================
