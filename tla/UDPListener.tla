---------------------------- MODULE UDPListener -----------------------------
(***************************************************************************)
(* UDP sessions: UDPListener and uc of internal/conn/udp_listener.go, the  *)
(* accept loop of RawServer.listenUDP (internal/transporter/raw.go) and    *)
(* the handlers it starts, as far as they use the session.                 *)
(*                                                                         *)
(* The goroutine listen demultiplexes the packets of one socket to the     *)
(* session of their source address, making a session for a new address and *)
(* handing it to the accept loop over the unbuffered connCh while it holds *)
(* connsMu.  It looks a session up under the lock and sends to its channel *)
(* after releasing it; the session's handler may close it in between, and  *)
(* a send on a closed channel panics, which ends the process.              *)
(***************************************************************************)
EXTENDS Naturals, Sequences

CONSTANTS
    Addr,             \* the source addresses
    Cap,              \* the capacity of uc.msgCh (10 in the code)
    MaxPackets        \* bound: packets read from the socket

ASSUME UDPAssumption == Cap \in Nat \ {0} /\ MaxPackets \in Nat

Session == 1 .. MaxPackets         \* the uc's, in the order listen makes them
NoSession == 0
None == "none"

VARIABLES
    lpc,              \* listen: "top", "read", "create", "offer", "send", "returned"
    pkt,              \* the packet it holds: its number and source address
    cur,              \* the session it looked up or made for it
    read,             \* the number of packets read so far
    locked,           \* listen holds connsMu
    conns,            \* UDPListener.conns, by address
    owner,            \* owner[s]: uc.addr
    state,            \* state[s]: how far the session and its handler are
    msgCh,            \* msgCh[s]: the packets in uc.msgCh
    got,              \* got[s]: the packets its handler has read
    apc,              \* the accept loop: "accept" or "gone"
    closing,          \* UDPListener.Close: "no", "flagged", "done"
    panicked

listener == <<lpc, pkt, cur, read>>
table == <<locked, conns, owner>>
session == <<state, msgCh, got>>
vars == <<listener, table, session, apc, closing, panicked>>

NoPacket == [n |-> 0, addr |-> None]

Init ==
    /\ lpc = "top"
    /\ pkt = NoPacket
    /\ cur = NoSession
    /\ read = 0
    /\ locked = FALSE
    /\ conns = [a \in Addr |-> NoSession]
    /\ owner = [s \in Session |-> None]
    /\ state = [s \in Session |-> "unmade"]
    /\ msgCh = [s \in Session |-> <<>>]
    /\ got = [s \in Session |-> <<>>]
    /\ apc = "accept"
    /\ closing = "no"
    /\ panicked = FALSE

SetState(s, v) == state' = [state EXCEPT ![s] = v]
-----------------------------------------------------------------------------
(* listen *)

Loop ==
    /\ lpc = "top"
    /\ lpc' = IF closing = "no" THEN "read" ELSE "returned"
    /\ UNCHANGED <<pkt, cur, read, table, session, apc, closing, panicked>>

\* Mutant: the session of the last packet is taken for this one.
ReadFromUDPCached(a) ==
    /\ lpc = "read"
    /\ closing # "done"
    /\ read < MaxPackets
    /\ read' = read + 1
    /\ pkt' = [n |-> read + 1, addr |-> a]
    /\ cur' = IF cur # NoSession THEN cur ELSE conns[a]
    /\ lpc' = IF cur' = NoSession THEN "create" ELSE "send"
    /\ UNCHANGED <<table, session, apc, closing, panicked>>

\* A packet arrives, and its session is looked up under the read lock.
ReadFromUDP(a) ==
    /\ lpc = "read"
    /\ closing # "done"
    /\ read < MaxPackets
    /\ read' = read + 1
    /\ pkt' = [n |-> read + 1, addr |-> a]
    /\ cur' = conns[a]
    /\ lpc' = IF conns[a] = NoSession THEN "create" ELSE "send"
    /\ UNCHANGED <<table, session, apc, closing, panicked>>

\* A read fails, as it always does once the socket is closed.  The error goes
\* to an accept loop that is waiting for it, which then returns; it is dropped
\* otherwise, and once the listener is closed.
ReadError(taken) ==
    /\ lpc = "read"
    /\ taken => closing = "no" /\ apc = "accept"
    /\ apc' = IF taken THEN "gone" ELSE apc
    /\ lpc' = "top"
    /\ UNCHANGED <<pkt, cur, read, table, session, closing, panicked>>

Create ==
    /\ lpc = "create"
    /\ ~locked
    /\ \E s \in Session :
          /\ state[s] = "unmade"
          /\ \A t \in Session : t < s => state[t] # "unmade"
          /\ cur' = s
          /\ conns' = [conns EXCEPT ![pkt.addr] = s]
          /\ owner' = [owner EXCEPT ![s] = pkt.addr]
          /\ SetState(s, "offered")
    /\ locked' = TRUE
    /\ lpc' = "offer"
    /\ UNCHANGED <<pkt, read, msgCh, got, apc, closing, panicked>>

\* Mutant: full channels are not checked for.
SendUnbounded ==
    /\ lpc = "send"
    /\ IF state[cur] = "closed"
       THEN panicked' = TRUE /\ UNCHANGED msgCh
       ELSE msgCh' = [msgCh EXCEPT ![cur] = Append(@, pkt)] /\ UNCHANGED panicked
    /\ lpc' = "top"
    /\ UNCHANGED <<pkt, cur, read, table, state, got, apc, closing>>

\* A packet for a session whose channel is full is dropped.
Send ==
    /\ lpc = "send"
    /\ IF state[cur] = "closed"
       THEN panicked' = TRUE /\ UNCHANGED msgCh
       ELSE /\ msgCh' = IF Len(msgCh[cur]) < Cap
                        THEN [msgCh EXCEPT ![cur] = Append(@, pkt)]
                        ELSE msgCh
            /\ UNCHANGED panicked
    /\ lpc' = "top"
    /\ UNCHANGED <<pkt, cur, read, table, state, got, apc, closing>>

-----------------------------------------------------------------------------
(* RawServer.listenUDP *)

\* Mutant: connsMu is not released after the session is handed over.
AcceptLocked ==
    /\ apc = "accept"
    /\ lpc = "offer"
    /\ SetState(cur, "accepted")
    /\ lpc' = "send"
    /\ UNCHANGED <<pkt, cur, read, table, msgCh, got, apc, closing, panicked>>

\* The send on connCh and its receipt; listen then unlocks.
Accept ==
    /\ apc = "accept"
    /\ lpc = "offer"
    /\ SetState(cur, "accepted")
    /\ locked' = FALSE
    /\ lpc' = "send"
    /\ UNCHANGED <<pkt, cur, read, conns, owner, msgCh, got, apc, closing, panicked>>

\* Close cancels the context, and so does the server when it stops, at any time.
AcceptCanceled ==
    /\ apc = "accept"
    /\ apc' = "gone"
    /\ UNCHANGED <<listener, table, session, closing, panicked>>

-----------------------------------------------------------------------------
(* A session's handler. *)

\* RelayUDPConn returns on a handshake error and leaves the session as it is.
HandShake(s, ok) ==
    /\ state[s] = "accepted"
    /\ SetState(s, IF ok THEN "relaying" ELSE "abandoned")
    /\ UNCHANGED <<listener, table, msgCh, got, apc, closing, panicked>>

Read(s) ==
    /\ state[s] = "relaying"
    /\ msgCh[s] # <<>>
    /\ got' = [got EXCEPT ![s] = Append(@, Head(msgCh[s]))]
    /\ msgCh' = [msgCh EXCEPT ![s] = Tail(@)]
    /\ UNCHANGED <<listener, table, state, apc, closing, panicked>>

\* Read reports the end of an idle session, or the other side fails, and
\* Transport closes the session.
TransportEnds(s) ==
    /\ state[s] = "relaying"
    /\ SetState(s, "ending")
    /\ UNCHANGED <<listener, table, msgCh, got, apc, closing, panicked>>

\* Mutant: the session stays in the map.
CloseDeleteNot(s) ==
    /\ state[s] = "ending"
    /\ ~locked
    /\ SetState(s, "unlinked")
    /\ UNCHANGED <<listener, table, msgCh, got, apc, closing, panicked>>

\* uc.Close, up to its Unlock.
CloseDelete(s) ==
    /\ state[s] = "ending"
    /\ ~locked
    /\ conns' = [conns EXCEPT ![owner[s]] = NoSession]
    /\ SetState(s, "unlinked")
    /\ UNCHANGED <<listener, locked, owner, msgCh, got, apc, closing, panicked>>

CloseChannel(s) ==
    /\ state[s] = "unlinked"
    /\ SetState(s, "closed")
    /\ UNCHANGED <<listener, table, msgCh, got, apc, closing, panicked>>

-----------------------------------------------------------------------------
(* UDPListener.Close: the flag, then the context and the socket. *)

CloseFlag ==
    /\ closing = "no"
    /\ closing' = "flagged"
    /\ UNCHANGED <<listener, table, session, apc, panicked>>

CloseSocket ==
    /\ closing = "flagged"
    /\ closing' = "done"
    /\ UNCHANGED <<listener, table, session, apc, panicked>>

Listen ==
    \/ Loop
    \/ \E a \in Addr : ReadFromUDP(a)
    \/ \E taken \in BOOLEAN : ReadError(taken)
    \/ Create
    \/ Send

Handle(s) == (\E ok \in BOOLEAN : HandShake(s, ok)) \/ Read(s) \/ TransportEnds(s)
CloseSession(s) == CloseDelete(s) \/ CloseChannel(s)

Next ==
    /\ ~panicked
    /\ \/ Listen
       \/ Accept
       \/ AcceptCanceled
       \/ \E s \in Session : Handle(s) \/ CloseSession(s)
       \/ CloseFlag
       \/ CloseSocket

Spec == Init /\ [][Next]_vars

\* The goroutines are scheduled, and a read of a closed socket returns.  No
\* packet needs to arrive, no session needs to end and nobody needs to call
\* Close.
Fairness ==
    /\ WF_vars(~panicked /\ (Loop \/ Create \/ Send))
    /\ WF_vars(~panicked /\ closing = "done" /\ ReadError(FALSE))
    /\ WF_vars(~panicked /\ Accept)
    /\ WF_vars(~panicked /\ CloseSocket)
    /\ \A s \in Session : WF_vars(~panicked /\ CloseSession(s))

FairSpec == Spec /\ Fairness
-----------------------------------------------------------------------------
Packet == [n : Session \cup {0}, addr : Addr \cup {None}]
States == {"unmade", "offered", "accepted", "relaying", "abandoned", "ending",
           "unlinked", "closed"}

TypeOK ==
    /\ lpc \in {"top", "read", "create", "offer", "send", "returned"}
    /\ pkt \in Packet
    /\ cur \in Session \cup {NoSession}
    /\ read \in 0 .. MaxPackets
    /\ locked \in BOOLEAN
    /\ conns \in [Addr -> Session \cup {NoSession}]
    /\ owner \in [Session -> Addr \cup {None}]
    /\ state \in [Session -> States]
    /\ msgCh \in [Session -> Seq(Packet)]
    /\ \A s \in Session : Len(msgCh[s]) <= Cap
    /\ got \in [Session -> Seq(Packet)]
    /\ apc \in {"accept", "gone"}
    /\ closing \in {"no", "flagged", "done"}
    /\ panicked \in BOOLEAN

Live(s) == state[s] \in {"offered", "accepted", "relaying", "abandoned", "ending"}

\* The map holds exactly the live sessions, each under its own address: a
\* session that closes removes itself and never the next one of its address,
\* and no address has two.
SessionsReachable ==
    /\ \A a \in Addr : conns[a] # NoSession => Live(conns[a]) /\ owner[conns[a]] = a
    /\ \A s \in Session : Live(s) => conns[owner[s]] = s

\* A handler reads packets of its own address only, in the order they arrived
\* and none twice; the ones missing were dropped.
OwnPacketsInOrder ==
    \A s \in Session :
        LET q == got[s] \o msgCh[s]
        IN  /\ \A i \in 1 .. Len(q) : q[i].addr = owner[s]
            /\ \A i, j \in 1 .. Len(q) : i < j => q[i].n < q[j].n

\* The accept loop is gone while listen offers it a session: connsMu is held
\* for ever.
Stuck == lpc = "offer" /\ apc = "gone"

\* What was told to close does: a uc.Close completes, and after
\* UDPListener.Close the listen goroutine returns, unless listen is stuck with
\* the lock on a session nobody accepts, or has panicked.
CloseCompletes ==
    /\ \A s \in Session : state[s] = "ending" ~> (state[s] = "closed" \/ Stuck \/ panicked)
    /\ closing = "flagged" ~> (lpc = "returned" \/ Stuck \/ panicked)
=============================================================================
