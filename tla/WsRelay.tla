------------------------------ MODULE WsRelay -------------------------------
(***************************************************************************)
(* Relays over WebSocket: wsConn (internal/conn/ws_conn.go) as the two     *)
(* copiers of copyConn (internal/conn/relay_conn.go) and the sniffing of   *)
(* RelayTCPConn (internal/transporter/base.go, sniff.go) use it, and the   *)
(* buffers all of them share through BufferPool.                           *)
(*                                                                         *)
(* A stream is a sequence of units: on a WebSocket side a frame is its     *)
(* header and its payload, on a raw side a payload alone.  wsConn.Read     *)
(* takes the header, then the payload into the connection's own buffer,    *)
(* then copies that to the caller's.  It keeps nothing between two calls,  *)
(* so a deadline that expires in between loses the header, and innerConn   *)
(* calls it again: the payload is then taken for a header.  What such a    *)
(* read yields depends on the bytes, and is any outcome at all.            *)
(*                                                                         *)
(* A frame is small if it fits the 4 KB of sniffing, big if it only fits   *)
(* the 40 KB of a pool buffer, huge if it fits neither.                    *)
(*                                                                         *)
(* The specification is WsSpec, so that a module may extend this one and   *)
(* UDPListener.                                                            *)
(***************************************************************************)
EXTENDS BufferPool

CONSTANTS
    Relay,
    WsSides,          \* WsSides[r]: the sides whose connection is a wsConn
    Sniffing,         \* the relays with BlockedProtocols
    Scripts           \* what the peers may send: the sizes of the frames of
                      \* peer s of relay r, in order, as a function of r and s

Side == {"client", "remote"}
Size == {"small", "big", "huge"}

ASSUME WsAssumption ==
    /\ WsSides \in [Relay -> SUBSET Side]
    /\ Sniffing \subseteq Relay
    /\ Scripts \subseteq [Relay -> [Side -> Seq(Size)]]

Other(s) == IF s = "client" THEN "remote" ELSE "client"

NoBuffer == 0
Nobody == "nobody"
Junk == [relay |-> Nobody, side |-> Nobody, n |-> 0]
Data == [relay : Relay, side : Side, n : Nat \ {0}] \cup {Junk}
Unit == [part : {"head", "body"}, size : Size, data : Data]
NoHeader == [part |-> "head", size |-> Nobody, data |-> Junk]

VARIABLES
    \* the peers
    script,           \* the one of Scripts they follow
    in,               \* in[r][s]: the units peer s sent that were not read
    sent,             \* sent[r][s]: the number of frames it sent
    \* the relays
    stage,            \* stage[r]: where its handler is
    wsbuf,            \* wsbuf[r][s]: wsConn.buf, NoBuffer before it is made
    cpbuf,            \* cpbuf[r][d]: buf1 and buf2 of copyConn
    content,          \* content[b]: what the buffers hold
    peeked,           \* peeked[r]: what newPeekedConn will return first
    \* the copiers, one per side read from
    pc,               \* "head", "body", "copy", "write", "exited"
    hdr,              \* the header it has read
    dlv,              \* dlv[r][d]: what it wrote to the other side
    \* history
    skipped,          \* skipped[r]: frames that sniffing read and dropped
    swallowed,        \* swallowed[r]: frames dropped with the handshake response
    broken,           \* the directions that lost bytes inside a frame
    doubled           \* the buffers put into the pool by a second Close

peers == <<script, in, sent>>
buffers == <<poolVars, wsbuf, cpbuf>>
copier == <<pc, hdr, dlv>>
history == <<skipped, swallowed, broken, doubled>>
wsVars == <<peers, buffers, content, stage, peeked, copier, history>>

Both(x) == [s \in Side |-> x]
Each(x) == [r \in Relay |-> x]

WsInit ==
    /\ InitPool
    /\ script \in Scripts
    /\ in = Each(Both(<<>>)) /\ sent = Each(Both(0))
    /\ stage = Each("new")
    /\ wsbuf = Each(Both(NoBuffer)) /\ cpbuf = Each(Both(NoBuffer))
    /\ content = <<>>
    /\ peeked = Each(Junk)
    /\ pc = Each(Both("head")) /\ hdr = Each(Both(NoHeader)) /\ dlv = Each(Both(<<>>))
    /\ skipped = Each(0) /\ swallowed = Each(0) /\ broken = {} /\ doubled = {}

----------------------------------------------------------------------------
(* The peers.                                                              *)

\* A connection, and its use of its buffer, lasts until it is closed.
Open(r) == stage[r] \notin {"closed", "done"}

\* A peer may send as soon as its side is connected: the client once the relay
\* has its connection, the remote from the moment it has accepted, which may be
\* right behind its handshake response.
PeerSends(r, s) ==
    LET n == sent[r][s] + 1
        unit(part) == [part |-> part, size |-> script[r][s][n],
                       data |-> [relay |-> r, side |-> s, n |-> n]]
        frame == IF s \in WsSides[r] THEN <<unit("head"), unit("body")>>
                 ELSE <<unit("body")>>
    IN  /\ n <= Len(script[r][s])
        /\ stage[r] \notin {"new", "refused"} /\ Open(r)
        /\ s = "remote" => stage[r] # "sniff"
        /\ sent' = [sent EXCEPT ![r][s] = n]
        /\ in' = [in EXCEPT ![r][s] = @ \o frame]
        /\ UNCHANGED <<script, buffers, content, stage, peeked, copier, history>>

----------------------------------------------------------------------------
(* Setting a relay up: WsServer.handleRequest and RelayTCPConn.            *)

\* Get in a relay: a slice it makes is new.
Obtain(b) ==
    /\ Get(b)
    /\ content' = IF b > made THEN Append(content, Junk) ELSE content

\* NewWSConn on side s, if that is a WebSocket.
MakeConn(r, s) ==
    IF s \in WsSides[r]
    THEN \E b \in 1 .. made + 1 : Obtain(b) /\ wsbuf' = [wsbuf EXCEPT ![r][s] = b]
    ELSE UNCHANGED <<poolVars, content, wsbuf>>

HandleRequest(r) ==
    /\ stage[r] = "new"
    /\ MakeConn(r, "client")
    /\ stage' = [stage EXCEPT ![r] = IF r \in Sniffing THEN "sniff" ELSE "dial"]
    /\ UNCHANGED <<peers, cpbuf, peeked, copier, history>>

\* sniffAndBlockProtocol with nothing read: it goes on with the connection.
SniffNothing(r) == stage' = [stage EXCEPT ![r] = "dial"] /\ UNCHANGED peeked

\* Mutant: the peeked bytes are not given back.
SniffRead_NotPrepended(r, data) ==
    /\ stage' \in {[stage EXCEPT ![r] = "dial"], [stage EXCEPT ![r] = "refused"]}
    /\ UNCHANGED peeked

\* With data read: a blocked protocol ends the relay, without closing the
\* connection; any other is put in front of the stream.
SniffRead(r, data) ==
    \/ stage' = [stage EXCEPT ![r] = "refused"] /\ UNCHANGED peeked
    \/ /\ stage' = [stage EXCEPT ![r] = "dial"]
       /\ peeked' = [peeked EXCEPT ![r] = data]

\* One Read of the client's side under SniffTimeout.  A frame too big for the
\* peek buffer is read and then refused; one too big for wsConn's own buffer
\* is refused after its header.  Either way sniffing found nothing.
Sniff(r) ==
    LET q == in[r]["client"]
        ws == "client" \in WsSides[r]
    IN  /\ stage[r] = "sniff"
        /\ \/ SniffNothing(r) /\ UNCHANGED <<in, content, skipped, broken>>
           \/ /\ ~ws /\ q # <<>>
              /\ in' = [in EXCEPT ![r]["client"] = Tail(q)]
              /\ SniffRead(r, Head(q).data)
              /\ UNCHANGED <<content, skipped, broken>>
           \/ /\ ws /\ q # <<>>
              /\ in' = [in EXCEPT ![r]["client"] = Tail(q)]
              /\ SniffNothing(r)
              /\ broken' = broken \cup {<<r, "client">>}
              /\ UNCHANGED <<content, skipped>>
           \/ /\ ws /\ Len(q) > 1 /\ Head(q).size # "huge"
              /\ in' = [in EXCEPT ![r]["client"] = Tail(Tail(q))]
              /\ content' = [content EXCEPT ![wsbuf[r]["client"]] = Head(q).data]
              /\ IF Head(q).size = "big"
                 THEN SniffNothing(r) /\ skipped' = [skipped EXCEPT ![r] = 1]
                 ELSE SniffRead(r, Head(q).data) /\ UNCHANGED skipped
              /\ UNCHANGED broken
        /\ UNCHANGED <<script, sent, buffers, copier, swallowed, doubled>>

\* ws.Dialer reads the handshake response through a bufio.Reader, which takes
\* what the remote has sent behind it too, up to its 4 KB: a small frame whole,
\* or a part of any frame.  HandShake drops that reader.  (So does handleRequest,
\* but a client sends nothing before it has the response.)
HandshakeReads(r) ==
    LET q == in[r]["remote"]
    IN  /\ stage[r] = "dial"
        /\ "remote" \in WsSides[r]
        /\ \/ /\ Len(q) > 1 /\ Head(q).size = "small"
              /\ in' = [in EXCEPT ![r]["remote"] = Tail(Tail(q))]
              /\ swallowed' = [swallowed EXCEPT ![r] = @ + 1]
              /\ UNCHANGED broken
           \/ /\ q # <<>>
              /\ in' = [in EXCEPT ![r]["remote"] = Tail(q)]
              /\ broken' = broken \cup {<<r, "remote">>}
              /\ UNCHANGED swallowed
        /\ UNCHANGED <<script, sent, buffers, content, stage, peeked, copier, skipped, doubled>>

\* HandShake with the remote; if it fails nobody closes the client's side.
Dial(r) ==
    /\ stage[r] = "dial"
    /\ \/ MakeConn(r, "remote") /\ stage' = [stage EXCEPT ![r] = "buf1"]
       \/ stage' = [stage EXCEPT ![r] = "refused"] /\ UNCHANGED <<poolVars, content, wsbuf>>
    /\ UNCHANGED <<peers, cpbuf, peeked, copier, history>>

\* copyConn takes a buffer per direction, then both directions copy.
TakeBuffer(r, d, from, to) ==
    /\ stage[r] = from
    /\ \E b \in 1 .. made + 1 : Obtain(b) /\ cpbuf' = [cpbuf EXCEPT ![r][d] = b]
    /\ stage' = [stage EXCEPT ![r] = to]
    /\ UNCHANGED <<peers, wsbuf, peeked, copier, history>>

----------------------------------------------------------------------------
(* The two directions of copyConn.                                         *)

Goto(r, d, l) == pc' = [pc EXCEPT ![r][d] = l]
Copying(r, d, l) == stage[r] = "copy" /\ pc[r][d] = l
Consume(r, d) == in' = [in EXCEPT ![r][d] = Tail(@)]

\* peekedConn returns the peeked bytes first.
ReadPeeked(r) ==
    /\ Copying(r, "client", "head")
    /\ peeked[r] # Junk
    /\ content' = [content EXCEPT ![cpbuf[r]["client"]] = peeked[r]]
    /\ peeked' = [peeked EXCEPT ![r] = Junk]
    /\ Goto(r, "client", "write")
    /\ UNCHANGED <<peers, buffers, stage, hdr, dlv, history>>

Reads(r, d) == d = "client" => peeked[r] = Junk

ReadRaw(r, d) ==
    /\ Copying(r, d, "head") /\ Reads(r, d)
    /\ d \notin WsSides[r]
    /\ in[r][d] # <<>>
    /\ content' = [content EXCEPT ![cpbuf[r][d]] = Head(in[r][d]).data]
    /\ Consume(r, d)
    /\ Goto(r, d, "write")
    /\ UNCHANGED <<script, sent, buffers, stage, peeked, hdr, dlv, history>>

\* ws.ReadHeader and the check against the buffer's size.  Payload bytes read
\* as a header may pass for one.
ReadHeader(r, d) ==
    LET u == Head(in[r][d])
    IN  /\ Copying(r, d, "head") /\ Reads(r, d)
        /\ d \in WsSides[r]
        /\ in[r][d] # <<>>
        /\ Consume(r, d)
        /\ \/ /\ u.part = "head" /\ u.size # "huge"
              /\ hdr' = [hdr EXCEPT ![r][d] = u]
              /\ Goto(r, d, "body")
           \/ /\ u.part = "body"
              /\ hdr' = [hdr EXCEPT ![r][d] = NoHeader]
              /\ Goto(r, d, "body")
           \/ /\ u.part = "body" \/ u.size = "huge"
              /\ Goto(r, d, "exited")
              /\ UNCHANGED hdr
        /\ UNCHANGED <<script, sent, buffers, content, stage, peeked, dlv, history>>

\* io.ReadFull into wsConn.buf; unmasking is part of it.  Under a false header
\* it takes any number of units.
ReadPayload(r, d) ==
    LET q == in[r][d]
        whole == hdr[r][d] # NoHeader
    IN  /\ Copying(r, d, "body")
        /\ \E n \in 0 .. Len(q) :
              /\ whole => n = 1
              /\ in' = [in EXCEPT ![r][d] = SubSeq(q, n + 1, Len(q))]
              /\ content' = [content EXCEPT ![wsbuf[r][d]] =
                    IF whole /\ Head(q).data = hdr[r][d].data THEN Head(q).data ELSE Junk]
        /\ Goto(r, d, "copy")
        /\ hdr' = [hdr EXCEPT ![r][d] = NoHeader]
        /\ UNCHANGED <<script, sent, buffers, stage, peeked, dlv, history>>

\* The read deadline expires inside a frame; innerConn.Read starts over.
Deadline(r, d) ==
    /\ Copying(r, d, "body")
    /\ content' = [content EXCEPT ![wsbuf[r][d]] = Junk]
    /\ broken' = broken \cup {<<r, d>>}
    /\ Goto(r, d, "head")
    /\ UNCHANGED <<peers, buffers, stage, peeked, hdr, dlv, skipped, swallowed, doubled>>

\* copy(b, payload) and the return from Read.
CopyOut(r, d) ==
    /\ Copying(r, d, "copy")
    /\ content' = [content EXCEPT ![cpbuf[r][d]] = content[wsbuf[r][d]]]
    /\ Goto(r, d, "write")
    /\ UNCHANGED <<peers, buffers, stage, peeked, hdr, dlv, history>>

\* Write on the other side: a raw write, or a frame of its own.
Write(r, d) ==
    /\ Copying(r, d, "write")
    /\ dlv' = [dlv EXCEPT ![r][d] = Append(@, content[cpbuf[r][d]])]
    /\ Goto(r, d, "head")
    /\ UNCHANGED <<peers, buffers, content, stage, peeked, hdr, history>>

\* The end of a stream, idling, a read error or a write error.
Exit(r, d) ==
    /\ stage[r] = "copy"
    /\ pc[r][d] \in {"head", "body", "write"}
    /\ Goto(r, d, "exited")
    /\ UNCHANGED <<peers, buffers, content, stage, peeked, hdr, dlv, history>>

----------------------------------------------------------------------------
(* Taking a relay down.                                                    *)

\* Mutant: the buffers go back when the main direction ends, while the
\* goroutine may still copy.
ReleaseCopyBuffers_Early(r) ==
    /\ Copying(r, "remote", "exited")
    /\ pool' = Put(Put(pool, cpbuf[r]["remote"]), cpbuf[r]["client"])
    /\ stage' = IF pc[r]["client"] = "exited" THEN [stage EXCEPT ![r] = "close"] ELSE stage
    /\ UNCHANGED <<peers, made, wsbuf, cpbuf, content, peeked, copier, history>>

\* copyConn returns once both directions ended: the deferred Puts, last first.
ReleaseCopyBuffers(r) ==
    /\ Copying(r, "remote", "exited") /\ Copying(r, "client", "exited")
    /\ pool' = Put(Put(pool, cpbuf[r]["remote"]), cpbuf[r]["client"])
    /\ stage' = [stage EXCEPT ![r] = "close"]
    /\ UNCHANGED <<peers, made, wsbuf, cpbuf, content, peeked, copier, history>>

\* wsConn.Close of side s, in the order relayConnImpl.Close closes.
PutConn(ch, r, s) == IF s \in WsSides[r] THEN Put(ch, wsbuf[r][s]) ELSE ch

\* Transport's deferred Close; what was not read is gone.
CloseBoth(r) ==
    /\ stage[r] = "close"
    /\ in' = [in EXCEPT ![r] = Both(<<>>)]
    /\ pool' = PutConn(PutConn(pool, r, "client"), r, "remote")
    /\ stage' = [stage EXCEPT ![r] = "closed"]
    /\ UNCHANGED <<script, sent, made, wsbuf, cpbuf, content, peeked, copier, history>>

\* RelayTCPConn's own deferred rc.Close: a wsConn puts its buffer again.
CloseRemoteAgain(r) ==
    /\ stage[r] = "closed"
    /\ pool' = PutConn(pool, r, "remote")
    /\ doubled' = IF "remote" \in WsSides[r] THEN doubled \cup {wsbuf[r]["remote"]}
                  ELSE doubled
    /\ stage' = [stage EXCEPT ![r] = "done"]
    /\ UNCHANGED <<peers, made, wsbuf, cpbuf, content, peeked, copier, skipped, swallowed,
                   broken>>

----------------------------------------------------------------------------
Copy(r, d) ==
    \/ ReadRaw(r, d)
    \/ ReadHeader(r, d)
    \/ ReadPayload(r, d)
    \/ Deadline(r, d)
    \/ CopyOut(r, d)
    \/ Write(r, d)
    \/ Exit(r, d)

WsNext ==
    \E r \in Relay :
        \/ \E s \in Side : PeerSends(r, s)
        \/ HandleRequest(r)
        \/ Sniff(r)
        \/ HandshakeReads(r)
        \/ Dial(r)
        \/ TakeBuffer(r, "client", "buf1", "buf2")
        \/ TakeBuffer(r, "remote", "buf2", "copy")
        \/ ReadPeeked(r)
        \/ \E d \in Side : Copy(r, d)
        \/ ReleaseCopyBuffers(r)
        \/ CloseBoth(r)
        \/ CloseRemoteAgain(r)

WsSpec == WsInit /\ [][WsNext]_wsVars

----------------------------------------------------------------------------
WsTypeOK ==
    /\ pool \in Seq(1 .. made) /\ Len(pool) <= PoolSize /\ made \in Nat
    /\ script \in Scripts
    /\ in \in [Relay -> [Side -> Seq(Unit)]]
    /\ sent \in [Relay -> [Side -> Nat]]
    /\ stage \in [Relay -> {"new", "sniff", "dial", "refused", "buf1", "buf2",
                            "copy", "close", "closed", "done"}]
    /\ wsbuf \in [Relay -> [Side -> 0 .. made]]
    /\ cpbuf \in [Relay -> [Side -> 0 .. made]]
    /\ content \in Seq(Data) /\ Len(content) = made
    /\ peeked \in [Relay -> Data]
    /\ pc \in [Relay -> [Side -> {"head", "body", "copy", "write", "exited"}]]
    /\ hdr \in [Relay -> [Side -> Unit \cup {NoHeader}]]
    /\ dlv \in [Relay -> [Side -> Seq(Data)]]
    /\ skipped \in [Relay -> {0, 1}]
    /\ swallowed \in [Relay -> Nat]
    /\ broken \subseteq Relay \X Side
    /\ doubled \subseteq 1 .. made

\* The places a buffer may be: in the pool, with a connection, with a copier.
Places(b) ==
    ({"pool"} \X {n \in 1 .. Len(pool) : pool[n] = b})
    \cup ({"conn"} \X {c \in Relay \X Side : Open(c[1]) /\ wsbuf[c[1]][c[2]] = b})
    \cup ({"copy"} \X {c \in Relay \X Side :
                           stage[c[1]] \in {"buf2", "copy"} /\ cpbuf[c[1]][c[2]] = b})

\* No buffer is in two hands, or in a hand and in the pool, or twice in the
\* pool, but for those that a second Close put there: what two connections
\* hold would carry the data of one to the peer of the other.
BuffersExclusive ==
    \A b \in (1 .. made) \ doubled : \A p, q \in Places(b) : p = q

\* The frames of direction d from side d, as far as they got.
Expected(r, d) ==
    [n \in 1 .. Len(dlv[r][d]) |->
        [relay |-> r, side |-> d,
         n |-> n + (IF d = "client" THEN skipped[r] ELSE swallowed[r])]]

\* Each direction delivers its own peer's frames, whole and in order, without a
\* gap or a repetition once it delivers: what is missing are the first ones, the
\* frame that sniffing dropped or those that went with the handshake response.
\* Excepted are a direction that lost bytes inside a frame (by a deadline, by
\* sniffing or with the handshake) and one that works with a doubled buffer.
OwnFramesInOrder ==
    \A r \in Relay, d \in Side :
        (/\ <<r, d>> \notin broken
         /\ {wsbuf[r][d], cpbuf[r][d]} \cap doubled = {})
        => dlv[r][d] = Expected(r, d)
=============================================================================
