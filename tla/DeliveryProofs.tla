--------------------------- MODULE DeliveryProofs ---------------------------
(***************************************************************************)
(* Proofs about the two components that hand a peer's data on through      *)
(* shared queues and buffers: UDPListener, for any set of addresses, any   *)
(* channel capacity and any number of packets, and WsRelay, for any        *)
(* relays, scripts and pool size.  Both end in the theorem that what is    *)
(* handed on is the peer's own data, in order: InOrder and FramesInOrder.  *)
(***************************************************************************)
EXTENDS UDPListener, WsRelay, SequenceTheorems, TLAPS

-----------------------------------------------------------------------------
(* UDPListener.                                                            *)

\* The listener starts well typed.
LEMMA TypeInit == Init => TypeOK
<1> SUFFICES ASSUME Init PROVE TypeOK
  OBVIOUS
<1>1. msgCh \in [Session -> Seq(Packet)] /\ got \in [Session -> Seq(Packet)]
  BY DEF Init
<1>2. \A s \in Session : Len(msgCh[s]) <= Cap
  BY UDPAssumption DEF Init
<1>3. 0 \in 0 .. MaxPackets
  BY UDPAssumption
<1>4. pkt \in Packet
  BY DEF Init, NoPacket, Packet
<1> QED
  BY <1>1, <1>2, <1>3, <1>4 DEF Init, TypeOK, States

\* Every step keeps the types, and no channel over its capacity.
LEMMA TypeNext == TypeOK /\ [Next]_vars => TypeOK'
<1> SUFFICES ASSUME TypeOK, [Next]_vars
             PROVE  TypeOK'
  OBVIOUS
<1> USE DEF TypeOK, SetState, listener, table, session
<1>1. CASE Loop
  BY <1>1 DEF Loop
<1>2. ASSUME NEW a \in Addr, ReadFromUDP(a) PROVE TypeOK'
  <2>1. read + 1 \in Session /\ read + 1 \in 0 .. MaxPackets
    BY <1>2, UDPAssumption DEF ReadFromUDP, Session
  <2>2. pkt' \in Packet
    BY <1>2, <2>1 DEF ReadFromUDP, Packet
  <2>3. cur' \in Session \cup {NoSession}
    BY <1>2 DEF ReadFromUDP
  <2> QED
    BY <1>2, <2>1, <2>2, <2>3 DEF ReadFromUDP
<1>3. ASSUME NEW taken \in BOOLEAN, ReadError(taken) PROVE TypeOK'
  BY <1>3 DEF ReadError
<1>4. CASE Create
  <2>1. pkt.addr \in Addr \cup {None}
    BY DEF Packet
  <2> QED
    BY <1>4, <2>1, ZenonT(60) DEF Create, States
<1>5. CASE Send
  <2>1. CASE UNCHANGED msgCh
    BY <1>5, <2>1 DEF Send
  <2>2. CASE /\ Len(msgCh[cur]) < Cap
             /\ msgCh' = [msgCh EXCEPT ![cur] = Append(@, pkt)]
    <3>1. ASSUME NEW s \in Session
          PROVE  msgCh'[s] \in Seq(Packet) /\ Len(msgCh'[s]) <= Cap
      <4>1. CASE s = cur
        <5>1. Append(msgCh[s], pkt) \in Seq(Packet)
              /\ Len(Append(msgCh[s], pkt)) = Len(msgCh[s]) + 1
          OBVIOUS
        <5>2. Len(msgCh[s]) \in Nat
          OBVIOUS
        <5> QED
          BY <2>2, <4>1, <5>1, <5>2, UDPAssumption
      <4>2. CASE s # cur
        BY <2>2, <4>2
      <4> QED
        BY <4>1, <4>2
    <3>2. msgCh' \in [Session -> Seq(Packet)]
      BY <2>2, <3>1
    <3> QED
      BY <1>5, <3>1, <3>2 DEF Send
  <2> QED
    BY <1>5, <2>1, <2>2 DEF Send
<1>6. CASE Accept
  BY <1>6 DEF Accept, States
<1>7. CASE AcceptCanceled
  BY <1>7 DEF AcceptCanceled
<1>8. ASSUME NEW s \in Session, Handle(s) PROVE TypeOK'
  <2>1. ASSUME NEW ok \in BOOLEAN, HandShake(s, ok) PROVE TypeOK'
    BY <2>1 DEF HandShake, States
  <2>2. CASE Read(s)
    <3>1. /\ Head(msgCh[s]) \in Packet
          /\ Tail(msgCh[s]) \in Seq(Packet)
          /\ Len(Tail(msgCh[s])) = Len(msgCh[s]) - 1
      BY <2>2 DEF Read
    <3>2. Append(got[s], Head(msgCh[s])) \in Seq(Packet)
      BY <3>1
    <3>3. got' \in [Session -> Seq(Packet)]
      BY <2>2, <3>2 DEF Read
    <3>4. ASSUME NEW t \in Session
          PROVE  msgCh'[t] \in Seq(Packet) /\ Len(msgCh'[t]) <= Cap
      <4>1. Len(msgCh[s]) \in Nat
        OBVIOUS
      <4> QED
        BY <2>2, <3>1, <4>1, UDPAssumption DEF Read
    <3>5. msgCh' \in [Session -> Seq(Packet)]
      BY <2>2, <3>1 DEF Read
    <3> QED
      BY <2>2, <3>3, <3>4, <3>5 DEF Read
  <2>3. CASE TransportEnds(s)
    BY <2>3 DEF TransportEnds, States
  <2> QED
    BY <1>8, <2>1, <2>2, <2>3 DEF Handle
<1>9. ASSUME NEW s \in Session, CloseSession(s) PROVE TypeOK'
  <2>1. CASE CloseDelete(s)
    BY <2>1 DEF CloseDelete, States
  <2>2. CASE CloseChannel(s)
    BY <2>2 DEF CloseChannel, States
  <2> QED
    BY <1>9, <2>1, <2>2 DEF CloseSession
<1>10. CASE CloseFlag
  BY <1>10 DEF CloseFlag
<1>11. CASE CloseSocket
  BY <1>11 DEF CloseSocket
<1>12. CASE UNCHANGED vars
  BY <1>12 DEF vars
<1> QED
  BY <1>1, <1>2, <1>3, <1>4, <1>5, <1>6, <1>7, <1>8, <1>9, <1>10, <1>11, <1>12
     DEF Next, Listen

\* Type correctness: among others, no session queues more than its capacity.
THEOREM TypeCorrect == Spec => []TypeOK
  BY TypeInit, TypeNext, PTL DEF Spec

-----------------------------------------------------------------------------
(* The inductive invariant. *)

\* What listen knows at each of its steps.
ListenInv ==
    /\ locked <=> lpc = "offer"
    /\ lpc = "create" => pkt.addr \in Addr /\ conns[pkt.addr] = NoSession
    /\ lpc = "offer" => cur \in Session /\ state[cur] = "offered"
    /\ lpc = "send" => cur \in Session /\ state[cur] \notin {"unmade", "offered"}

\* Only the session listen offers is offered, and every session made has an
\* address.
SessionInv ==
    \A s \in Session :
        /\ state[s] = "offered" => lpc = "offer" /\ cur = s
        /\ state[s] # "unmade" => owner[s] \in Addr

IInv == TypeOK /\ ListenInv /\ SessionInv /\ SessionsReachable

\* There are no sessions at the start.
LEMMA IInit == Init => IInv
<1> SUFFICES ASSUME Init PROVE IInv
  OBVIOUS
<1>1. TypeOK
  BY TypeInit
<1> QED
  BY <1>1 DEF Init, IInv, ListenInv, SessionInv, SessionsReachable, Live

\* A step that changes the state of one session, from live to live, and no
\* table keeps the sessions reachable.
LEMMA StaysLive ==
    ASSUME IInv, NEW s \in Session, NEW v \in States, SetState(s, v),
           UNCHANGED <<conns, owner>>, Live(s), Live(s)'
    PROVE  SessionsReachable'
  BY DEF IInv, TypeOK, SetState, Live, SessionsReachable

\* NoSession is no session.
LEMMA NoSessionNot == NoSession \notin Session
  BY UDPAssumption DEF NoSession, Session

\* Every step keeps the table and the sessions in agreement.
LEMMA INext == IInv /\ [Next]_vars => IInv'
<1> SUFFICES ASSUME IInv, [Next]_vars
             PROVE  IInv'
  OBVIOUS
<1>0. TypeOK'
  BY TypeNext DEF IInv
<1> DEFINE Ok == ListenInv' /\ SessionInv' /\ SessionsReachable'
<1> USE DEF IInv, listener, table, session
<1>1. ASSUME Loop PROVE Ok
  BY <1>1 DEF Loop, ListenInv, SessionInv, SessionsReachable, Live
<1>2. ASSUME NEW a \in Addr, ReadFromUDP(a) PROVE Ok
  <2>1. SessionsReachable'
    BY <1>2 DEF ReadFromUDP, SessionsReachable, Live
  <2>2. SessionInv'
    BY <1>2 DEF ReadFromUDP, SessionInv
  <2>3. pkt'.addr = a
    BY <1>2 DEF ReadFromUDP
  <2>4. conns[a] # NoSession => /\ conns[a] \in Session
                                /\ state[conns[a]] \notin {"unmade", "offered"}
    <3>1. conns[a] # NoSession => conns[a] \in Session /\ Live(conns[a])
      BY DEF SessionsReachable, TypeOK
    <3>2. \A s \in Session : state[s] # "offered"
      BY <1>2 DEF ReadFromUDP, SessionInv
    <3> QED
      BY <3>1, <3>2 DEF Live
  <2> QED
    BY <1>2, <2>1, <2>2, <2>3, <2>4 DEF ReadFromUDP, ListenInv
<1>3. ASSUME NEW taken \in BOOLEAN, ReadError(taken) PROVE Ok
  BY <1>3 DEF ReadError, ListenInv, SessionInv, SessionsReachable, Live
<1>4. ASSUME Create PROVE Ok
  <2> USE <1>4 DEF Create, SetState
  <2>1. PICK s \in Session :
           /\ state[s] = "unmade" /\ cur' = s
           /\ conns' = [conns EXCEPT ![pkt.addr] = s]
           /\ owner' = [owner EXCEPT ![s] = pkt.addr]
           /\ state' = [state EXCEPT ![s] = "offered"]
    OBVIOUS
  <2>2. pkt.addr \in Addr /\ conns[pkt.addr] = NoSession
    BY DEF ListenInv
  <2>3. ListenInv'
    BY <2>1 DEF ListenInv, TypeOK
  <2>4. SessionInv'
    BY <2>1, <2>2 DEF SessionInv, TypeOK, ListenInv
  <2>5. ASSUME NEW a \in Addr, conns'[a] # NoSession
        PROVE  (Live(conns[a]) /\ owner[conns[a]] = a)'
    BY <2>1, <2>2, <2>5 DEF SessionsReachable, Live, TypeOK
  <2>6. ASSUME NEW t \in Session, Live(t)'
        PROVE  conns'[owner'[t]] = t
    <3>1. CASE t = s
      BY <2>1, <2>2, <3>1 DEF TypeOK
    <3>2. CASE t # s
      <4>1. Live(t) /\ owner'[t] = owner[t]
        BY <2>1, <2>6, <3>2 DEF Live, TypeOK
      <4>2. conns[owner[t]] = t /\ owner[t] \in Addr
        BY <4>1 DEF SessionsReachable, SessionInv, Live
      <4>3. owner[t] # pkt.addr
        BY <2>2, <4>2, NoSessionNot
      <4> QED
        BY <2>1, <4>1, <4>2, <4>3 DEF TypeOK
    <3> QED
      BY <3>1, <3>2
  <2> QED
    BY <2>3, <2>4, <2>5, <2>6 DEF SessionsReachable
<1>5. ASSUME Send PROVE Ok
  BY <1>5 DEF Send, ListenInv, SessionInv, SessionsReachable, Live
<1>6. ASSUME Accept PROVE Ok
  <2> USE <1>6 DEF Accept, SetState
  <2>1. cur \in Session /\ state[cur] = "offered"
    BY DEF ListenInv
  <2>2. SessionsReachable'
    BY <2>1, StaysLive DEF Live, States, TypeOK
  <2>3. ListenInv'
    BY <2>1 DEF ListenInv, TypeOK
  <2>4. SessionInv'
    BY <2>1 DEF SessionInv, TypeOK
  <2> QED
    BY <2>2, <2>3, <2>4
<1>7. ASSUME AcceptCanceled PROVE Ok
  BY <1>7 DEF AcceptCanceled, ListenInv, SessionInv, SessionsReachable, Live
<1>8. ASSUME NEW s \in Session, Handle(s) PROVE Ok
  <2>1. CASE Read(s)
    BY <2>1 DEF Read, ListenInv, SessionInv, SessionsReachable, Live
  <2>2. ASSUME NEW v \in {"relaying", "abandoned", "ending"},
               SetState(s, v), state[s] \in {"accepted", "relaying"},
               UNCHANGED <<listener, table>>
        PROVE  Ok
    <3>1. SessionsReachable'
      BY <2>2, StaysLive DEF SetState, Live, States, TypeOK
    <3>2. ListenInv'
      BY <2>2 DEF SetState, ListenInv, TypeOK
    <3>3. SessionInv'
      BY <2>2 DEF SetState, SessionInv, TypeOK
    <3> QED
      BY <3>1, <3>2, <3>3
  <2>3. ASSUME NEW ok \in BOOLEAN, HandShake(s, ok) PROVE Ok
    BY <2>2, <2>3 DEF HandShake
  <2>4. CASE TransportEnds(s)
    BY <2>2, <2>4 DEF TransportEnds
  <2> QED
    BY <1>8, <2>1, <2>3, <2>4 DEF Handle
<1>9. ASSUME NEW s \in Session, CloseSession(s) PROVE Ok
  <2>1. CASE CloseDelete(s)
    <3> USE <2>1 DEF CloseDelete, SetState
    <3>1. owner[s] \in Addr /\ conns[owner[s]] = s
      BY DEF SessionInv, SessionsReachable, Live
    <3>2. ListenInv'
      BY <3>1 DEF ListenInv, TypeOK
    <3>3. SessionInv'
      BY DEF SessionInv, TypeOK
    <3>4. ASSUME NEW a \in Addr, conns'[a] # NoSession
          PROVE  (Live(conns[a]) /\ owner[conns[a]] = a)'
      <4>1. a # owner[s] /\ conns'[a] = conns[a]
        BY <3>1, <3>4 DEF TypeOK
      <4>2. conns[a] # s /\ Live(conns[a]) /\ owner[conns[a]] = a
        BY <3>4, <4>1 DEF SessionsReachable
      <4> QED
        BY <4>1, <4>2 DEF Live, TypeOK
    <3>5. ASSUME NEW t \in Session, Live(t)'
          PROVE  conns'[owner'[t]] = t
      <4>1. t # s /\ Live(t)
        BY <3>5 DEF Live, TypeOK
      <4>2. conns[owner[t]] = t
        BY <4>1 DEF SessionsReachable
      <4> QED
        BY <3>1, <4>1, <4>2 DEF TypeOK
    <3> QED
      BY <3>2, <3>3, <3>4, <3>5 DEF SessionsReachable
  <2>2. CASE CloseChannel(s)
    <3> USE <2>2 DEF CloseChannel, SetState
    <3>1. ListenInv'
      BY DEF ListenInv, TypeOK
    <3>2. SessionInv'
      BY DEF SessionInv, TypeOK
    <3>3. SessionsReachable'
      BY DEF SessionsReachable, Live, TypeOK
    <3> QED
      BY <3>1, <3>2, <3>3
  <2> QED
    BY <1>9, <2>1, <2>2 DEF CloseSession
<1>10. ASSUME CloseFlag PROVE Ok
  BY <1>10 DEF CloseFlag, ListenInv, SessionInv, SessionsReachable, Live
<1>11. ASSUME CloseSocket PROVE Ok
  BY <1>11 DEF CloseSocket, ListenInv, SessionInv, SessionsReachable, Live
<1>12. ASSUME UNCHANGED vars PROVE Ok
  BY <1>12 DEF vars, ListenInv, SessionInv, SessionsReachable, Live
<1> QED
  BY <1>0, <1>1, <1>2, <1>3, <1>4, <1>5, <1>6, <1>7, <1>8, <1>9, <1>10, <1>11, <1>12
     DEF Next, Listen

\* The map of sessions and the sessions themselves agree at all times.
THEOREM Reachable == Spec => []SessionsReachable
<1>1. IInv => SessionsReachable
  BY DEF IInv
<1> QED
  BY <1>1, IInit, INext, PTL DEF Spec

-----------------------------------------------------------------------------
(* The packets. *)

\* What a session's handler has read and will read.
Stream(s) == got[s] \o msgCh[s]

Ordered(q, a) ==
    /\ \A i \in 1 .. Len(q) : q[i].addr = a
    /\ \A i, j \in 1 .. Len(q) : i < j => q[i].n < q[j].n

\* listen holds a packet it has not sent yet.
Holding == lpc \in {"create", "offer", "send"}

\* The packet listen holds is the newest, and for the session it is about to
\* send it to; all others were sent before it; a session not made has none.
PacketInv ==
    /\ Holding => pkt.n = read
    /\ lpc \in {"offer", "send"} => owner[cur] = pkt.addr
    /\ \A s \in Session :
          /\ state[s] = "unmade" => Stream(s) = <<>>
          /\ Ordered(Stream(s), owner[s])
          /\ \A i \in 1 .. Len(Stream(s)) :
                Stream(s)[i].n <= read /\ (Holding => Stream(s)[i].n < read)

\* The types of a session's packets.
LEMMA StreamType ==
    ASSUME TypeOK, NEW s \in Session
    PROVE  /\ Stream(s) \in Seq(Packet) /\ Len(Stream(s)) \in Nat
           /\ \A i \in 1 .. Len(Stream(s)) : Stream(s)[i] \in Packet /\ Stream(s)[i].n \in Nat
<1>1. got[s] \in Seq(Packet) /\ msgCh[s] \in Seq(Packet)
  BY DEF TypeOK
<1>2. Stream(s) \in Seq(Packet)
  BY <1>1, ConcatProperties DEF Stream
<1>3. \A i \in 1 .. Len(Stream(s)) : Stream(s)[i] \in Packet
  BY <1>2, ElementOfSeq
<1>4. \A p \in Packet : p.n \in Nat
  BY UDPAssumption DEF Packet, Session
<1> QED
  BY <1>2, <1>3, <1>4, LenProperties

\* A packet at the end of the second part is at the end of the whole.
LEMMA ConcatAppend ==
    ASSUME NEW S, NEW q \in Seq(S), NEW r \in Seq(S), NEW e \in S
    PROVE  q \o Append(r, e) = Append(q \o r, e)
<1>1. <<e>> \in Seq(S) /\ q \o r \in Seq(S)
  BY ConcatProperties
<1>2. Append(r, e) = r \o <<e>> /\ Append(q \o r, e) = (q \o r) \o <<e>>
  BY <1>1, AppendIsConcat
<1> QED
  BY <1>1, <1>2, ConcatAssociative

\* Moving the head of the second part to the end of the first changes nothing.
LEMMA ConcatMove ==
    ASSUME NEW S, NEW q \in Seq(S), NEW r \in Seq(S), r # <<>>
    PROVE  Append(q, Head(r)) \o Tail(r) = q \o r
<1>1. Head(r) \in S /\ Tail(r) \in Seq(S) /\ Head(r) = r[1]
  BY HeadTailProperties
<1>2. Len(r) \in Nat \ {0}
  BY EmptySeq
<1>3. r = <<Head(r)>> \o Tail(r)
  BY <1>1, <1>2, SubSeqFull, SubSeqRecursiveFirst, TailIsSubSeq
<1>4. <<Head(r)>> \in Seq(S)
  BY <1>1
<1>5. Append(q, Head(r)) = q \o <<Head(r)>>
  BY <1>1, AppendIsConcat
<1> QED
  BY <1>1, <1>3, <1>4, <1>5, ConcatAssociative, SMTT(30)

\* Reading moves a packet from the channel to the handler.
LEMMA ReadKeepsStream ==
    ASSUME TypeOK, NEW s \in Session, Read(s), NEW t \in Session
    PROVE  Stream(t)' = Stream(t)
<1>1. CASE t # s
  BY <1>1 DEF Read, Stream, TypeOK
<1>2. CASE t = s
  <2>1. msgCh[s] \in Seq(Packet) /\ got[s] \in Seq(Packet) /\ msgCh[s] # <<>>
    BY DEF TypeOK, Read
  <2>2. got'[s] = Append(got[s], Head(msgCh[s])) /\ msgCh'[s] = Tail(msgCh[s])
    BY DEF TypeOK, Read
  <2> QED
    BY <1>2, <2>1, <2>2, ConcatMove DEF Stream
<1> QED
  BY <1>1, <1>2

\* Sending puts the packet at the end of its session's, or drops it.
LEMMA SendAppends ==
    ASSUME TypeOK, Send, cur \in Session, NEW t \in Session
    PROVE  Stream(t)' = Stream(t) \/ (t = cur /\ Stream(t)' = Append(Stream(t), pkt))
<1>1. CASE msgCh'[t] = msgCh[t]
  BY <1>1 DEF Send, Stream
<1>2. CASE t = cur /\ msgCh'[t] = Append(msgCh[t], pkt)
  <2>1. /\ msgCh[t] \in Seq(Packet) /\ got[t] \in Seq(Packet) /\ pkt \in Packet
        /\ got'[t] = got[t]
    BY DEF TypeOK, Send
  <2>2. got[t] \o Append(msgCh[t], pkt) = Append(got[t] \o msgCh[t], pkt)
    <3>1. \A q, r \in Seq(Packet) : \A e \in Packet : q \o Append(r, e) = Append(q \o r, e)
      BY ConcatAppend
    <3> QED
      BY <2>1, <3>1
  <2> QED
    BY <1>2, <2>1, <2>2 DEF Stream
<1> QED
  BY <1>1, <1>2 DEF Send, TypeOK

\* A newer packet of the same address may be appended.
LEMMA OrderedAppend ==
    ASSUME NEW q \in Seq(Packet), NEW p \in Packet, NEW a, Ordered(q, a), p.addr = a,
           \A i \in 1 .. Len(q) : q[i].n < p.n
    PROVE  Ordered(Append(q, p), a)
<1>1. /\ Len(q) \in Nat /\ Len(Append(q, p)) = Len(q) + 1 /\ Append(q, p)[Len(q) + 1] = p
      /\ \A i \in 1 .. Len(q) : Append(q, p)[i] = q[i]
  BY AppendProperties, LenProperties
<1> DEFINE r == Append(q, p)
<1> HIDE DEF r
<1>2. /\ Len(q) \in Nat /\ Len(r) = Len(q) + 1 /\ r[Len(q) + 1] = p
      /\ \A i \in 1 .. Len(q) : r[i] = q[i]
  BY <1>1 DEF r
<1>3. \A i \in 1 .. Len(r) : i \in 1 .. Len(q) \/ i = Len(q) + 1
  BY <1>2
<1>4. ASSUME NEW i \in 1 .. Len(r) PROVE r[i].addr = a
  BY <1>2, <1>3 DEF Ordered
<1>5. ASSUME NEW i \in 1 .. Len(r), NEW j \in 1 .. Len(r), i < j PROVE r[i].n < r[j].n
  <2>1. i \in 1 .. Len(q)
    BY <1>2, <1>5
  <2>2. CASE j \in 1 .. Len(q)
    BY <1>2, <1>5, <2>1, <2>2 DEF Ordered
  <2>3. CASE j = Len(q) + 1
    BY <1>2, <2>1, <2>3
  <2> QED
    BY <1>3, <2>2, <2>3
<1> QED
  BY <1>4, <1>5 DEF Ordered, r

\* Nothing has been read.
LEMMA PacketInit == Init => PacketInv
<1> SUFFICES ASSUME Init PROVE PacketInv
  OBVIOUS
<1>1. \A s \in Session : Stream(s) = <<>>
  BY ConcatEmptySeq, EmptySeq DEF Init, Stream
<1>2. Len(<<>>) = 0
  BY EmptySeq
<1> QED
  BY <1>1, <1>2 DEF Init, PacketInv, Holding, Ordered

\* Every action keeps the packets in order.
LEMMA PacketNext == IInv /\ PacketInv /\ [Next]_vars => PacketInv'
<1> SUFFICES ASSUME IInv, PacketInv, [Next]_vars PROVE PacketInv'
  OBVIOUS
<1>0. TypeOK
  BY DEF IInv
<1>a. \A s \in Session : \A i \in 1 .. Len(Stream(s)) : Stream(s)[i].n \in Nat
  BY <1>0, StreamType
<1>b. read \in Nat
  BY <1>0, UDPAssumption DEF TypeOK
<1> USE DEF listener, table, session, SetState
\* Steps of the others leave what listen holds and the packets alone.
<1>1. ASSUME UNCHANGED <<lpc, pkt, cur, read, owner>>,
             \A s \in Session : /\ state'[s] = "unmade" => state[s] = "unmade"
                                /\ Stream(s)' = Stream(s)
      PROVE  PacketInv'
  BY <1>1 DEF PacketInv, Holding
<1>2. ASSUME UNCHANGED <<got, msgCh>> PROVE \A s \in Session : Stream(s)' = Stream(s)
  BY <1>2 DEF Stream
<1>3. CASE Loop \/ \E taken \in BOOLEAN : ReadError(taken)
  BY <1>2, <1>3 DEF Loop, ReadError, PacketInv, Holding
<1>4. ASSUME NEW a \in Addr, ReadFromUDP(a) PROVE PacketInv'
  <2>1. \A s \in Session : Stream(s)' = Stream(s)
    BY <1>2, <1>4 DEF ReadFromUDP
  <2>2. /\ pkt'.n = read + 1 /\ read' = read + 1 /\ pkt'.addr = a /\ cur' = conns[a]
        /\ lpc' \in {"create", "send"} /\ (lpc' = "send" => conns[a] # NoSession)
        /\ UNCHANGED <<owner, state>>
    BY <1>4 DEF ReadFromUDP
  <2>3. conns[a] # NoSession => owner[conns[a]] = a
    BY DEF IInv, SessionsReachable
  <2>4. ASSUME NEW s \in Session, NEW i \in 1 .. Len(Stream(s))
        PROVE  Stream(s)[i].n <= read' /\ Stream(s)[i].n < read'
    <3>1. Stream(s)[i].n <= read
      BY DEF PacketInv
    <3> QED
      BY <1>a, <1>b, <2>2, <3>1
  <2> QED
    BY <2>1, <2>2, <2>3, <2>4 DEF PacketInv, Holding
<1>5. CASE Create
  <2>1. PICK s \in Session :
           /\ state[s] = "unmade" /\ cur' = s
           /\ owner' = [owner EXCEPT ![s] = pkt.addr]
           /\ state' = [state EXCEPT ![s] = "offered"]
    BY <1>5 DEF Create
  <2>2. UNCHANGED <<pkt, read>> /\ lpc = "create" /\ lpc' = "offer"
    BY <1>5 DEF Create
  <2>3. \A t \in Session : Stream(t)' = Stream(t)
    BY <1>2, <1>5 DEF Create
  <2>4. owner'[cur'] = pkt'.addr
    BY <1>0, <2>1, <2>2 DEF TypeOK
  <2>5. ASSUME NEW t \in Session PROVE Ordered(Stream(t), owner'[t])
    <3>1. CASE t = s
      <4>1. Stream(t) = <<>>
        BY <2>1, <3>1 DEF PacketInv
      <4>2. Len(Stream(t)) = 0
        BY <4>1, EmptySeq
      <4> QED
        BY <4>2 DEF Ordered
    <3>2. CASE t # s
      BY <1>0, <2>1, <3>2 DEF PacketInv, TypeOK
    <3> QED
      BY <3>1, <3>2
  <2>6. \A t \in Session : state'[t] = "unmade" => state[t] = "unmade"
    BY <1>0, <2>1 DEF TypeOK
  <2> QED
    BY <2>2, <2>3, <2>4, <2>5, <2>6 DEF PacketInv, Holding
<1>6. CASE Send
  <2>1. /\ lpc = "send" /\ lpc' = "top" /\ UNCHANGED <<pkt, cur, read, owner, state>>
        /\ cur \in Session /\ state[cur] # "unmade" /\ owner[cur] = pkt.addr
    BY <1>6 DEF Send, PacketInv, IInv, ListenInv
  <2>2. pkt \in Packet /\ pkt.n = read
    BY <1>0, <2>1 DEF TypeOK, PacketInv, Holding
  <2>3. ASSUME NEW t \in Session, Stream(t)' = Append(Stream(t), pkt), t = cur
        PROVE  /\ Ordered(Stream(t)', owner[t])
               /\ \A i \in 1 .. Len(Stream(t)') : Stream(t)'[i].n <= read
    <3>1. \A i \in 1 .. Len(Stream(t)) : Stream(t)[i].n < read
      BY <2>1 DEF PacketInv, Holding
    <3>2. Stream(t) \in Seq(Packet) /\ Ordered(Stream(t), owner[t])
      BY <1>0, StreamType DEF PacketInv
    <3>3. Ordered(Stream(t)', owner[t])
      BY <2>1, <2>2, <2>3, <3>1, <3>2, OrderedAppend
    <3>4. /\ Len(Stream(t)) \in Nat /\ Len(Append(Stream(t), pkt)) = Len(Stream(t)) + 1
          /\ Append(Stream(t), pkt)[Len(Stream(t)) + 1] = pkt
          /\ \A i \in 1 .. Len(Stream(t)) : Append(Stream(t), pkt)[i] = Stream(t)[i]
      BY <2>2, <3>2, AppendProperties, LenProperties
    <3>5. ASSUME NEW i \in 1 .. Len(Append(Stream(t), pkt))
          PROVE  Append(Stream(t), pkt)[i].n <= read
      <4>1. i \in 1 .. Len(Stream(t)) \/ i = Len(Stream(t)) + 1
        BY <3>4
      <4> QED
        BY <1>a, <1>b, <2>2, <3>1, <3>4, <4>1
    <3> QED
      BY <2>3, <3>3, <3>5
  <2>4. ASSUME NEW t \in Session
        PROVE  /\ state'[t] = "unmade" => Stream(t)' = <<>>
               /\ Ordered(Stream(t)', owner[t])
               /\ \A i \in 1 .. Len(Stream(t)') : Stream(t)'[i].n <= read
    <3>1. CASE Stream(t)' = Stream(t)
      BY <2>1, <3>1 DEF PacketInv
    <3>2. CASE t = cur /\ Stream(t)' = Append(Stream(t), pkt)
      BY <2>1, <2>3, <3>2
    <3> QED
      BY <1>0, <1>6, <2>1, <3>1, <3>2, SendAppends
  <2> QED
    BY <2>1, <2>4 DEF PacketInv, Holding
<1>7. CASE Accept
  <2>1. \A s \in Session : Stream(s)' = Stream(s)
    BY <1>2, <1>7 DEF Accept
  <2>2. \A s \in Session : state'[s] = "unmade" => state[s] = "unmade"
    BY <1>0, <1>7 DEF Accept, TypeOK
  <2> QED
    BY <1>7, <2>1, <2>2 DEF Accept, PacketInv, Holding
<1>8. ASSUME NEW s \in Session, Handle(s) PROVE PacketInv'
  <2>1. CASE Read(s)
    BY <1>0, <1>1, <2>1, ReadKeepsStream DEF Read
  <2>2. CASE (\E ok \in BOOLEAN : HandShake(s, ok)) \/ TransportEnds(s)
    BY <1>0, <1>1, <1>2, <2>2 DEF HandShake, TransportEnds, TypeOK
  <2> QED
    BY <1>8, <2>1, <2>2 DEF Handle
<1>9. ASSUME NEW s \in Session, CloseSession(s) PROVE PacketInv'
  BY <1>0, <1>1, <1>2, <1>9 DEF CloseSession, CloseDelete, CloseChannel, TypeOK
<1>10. CASE AcceptCanceled \/ CloseFlag \/ CloseSocket
  BY <1>1, <1>2, <1>10 DEF AcceptCanceled, CloseFlag, CloseSocket
<1>11. CASE UNCHANGED vars
  BY <1>1, <1>2, <1>11 DEF vars
<1> QED
  BY <1>3, <1>4, <1>5, <1>6, <1>7, <1>8, <1>9, <1>10, <1>11 DEF Next, Listen

\* A handler is given packets of its own address only, in the order they
\* arrived and none twice, whatever is dropped and whichever sessions of the
\* address come and go.
THEOREM InOrder == Spec => []OwnPacketsInOrder
<1>1. IInv /\ PacketInv => OwnPacketsInOrder
  BY DEF PacketInv, OwnPacketsInOrder, Ordered, Stream
<1>2. IInv /\ PacketInv /\ [Next]_vars => (IInv /\ PacketInv)'
  BY INext, PacketNext
<1>3. Init => IInv /\ PacketInv
  BY IInit, PacketInit
<1> QED
  BY <1>1, <1>2, <1>3, PTL DEF Spec

-----------------------------------------------------------------------------
(* WsRelay: the invariants.                                                *)

Early == {"new", "sniff", "dial", "refused", "buf1", "buf2"}

\* The stages in which a wsConn of side s, or the copy buffer of direction d,
\* has been made.
WsStages(s) == IF s = "client"
               THEN {"sniff", "dial", "refused", "buf1", "buf2", "copy", "close", "closed", "done"}
               ELSE {"buf1", "buf2", "copy", "close", "closed", "done"}
CpStages(d) == IF d = "client" THEN {"buf2", "copy", "close", "closed", "done"}
               ELSE {"copy", "close", "closed", "done"}

\* Which buffers a relay has, and what a relay that does not copy yet has done.
Progress(r) ==
    /\ \A s \in Side :
        /\ wsbuf[r][s] # NoBuffer <=> s \in WsSides[r] /\ stage[r] \in WsStages(s)
        /\ cpbuf[r][s] # NoBuffer <=> stage[r] \in CpStages(s)
        /\ stage[r] \in Early => pc[r][s] = "head" /\ dlv[r][s] = <<>>
        /\ pc[r][s] \in {"body", "copy"} => s \in WsSides[r]
    /\ stage[r] \in {"new", "sniff"} => peeked[r] = Junk /\ skipped[r] = 0

ProgressInv == \A r \in Relay : Progress(r)

\* The connections and the copiers that use a buffer.
ConnHolds(r, s, b) == Open(r) /\ wsbuf[r][s] = b
CopyHolds(r, d, b) == stage[r] \in {"buf2", "copy"} /\ cpbuf[r][d] = b

\* b is in one place at most.
Once(ch, b) == \A m, n \in 1 .. Len(ch) : ch[m] = b /\ ch[n] = b => m = n
Within(ch, b) == \E n \in 1 .. Len(ch) : ch[n] = b
Exclusive(b) ==
    /\ Once(pool, b)
    /\ Within(pool, b) => \A r \in Relay, s \in Side : ~ConnHolds(r, s, b) /\ ~CopyHolds(r, s, b)
    /\ \A r, t \in Relay, s, u \in Side :
          /\ ConnHolds(r, s, b) /\ ConnHolds(t, u, b) => r = t /\ s = u
          /\ CopyHolds(r, s, b) /\ CopyHolds(t, u, b) => r = t /\ s = u
          /\ ~(ConnHolds(r, s, b) /\ CopyHolds(t, u, b))

ExclusiveInv == \A b \in (1 .. made) \ doubled : Exclusive(b)

Frame(r, d, n) == [relay |-> r, side |-> d, n |-> n]

\* Direction d of r lost nothing inside a frame and shares no buffer.
Sound(r, d) == <<r, d>> \notin broken /\ wsbuf[r][d] \notin doubled /\ cpbuf[r][d] \notin doubled

\* It still reads.
Reading(r, d) ==
    stage[r] \notin {"refused", "close", "closed", "done"} /\ pc[r][d] # "exited"

\* The number of frames it read, one of which it may be holding.
Skip(r, d) == IF d = "client" THEN skipped[r] ELSE swallowed[r]
Done(r, d) == Len(dlv[r][d]) + Skip(r, d)
HoldsFrame(r, d) == (d = "client" /\ peeked[r] # Junk) \/ pc[r][d] \in {"copy", "write"}
Taken(r, d) == IF HoldsFrame(r, d) THEN Done(r, d) + 1 ELSE Done(r, d)

\* The units it has not read are whole frames, the next ones, up to the last
\* one sent; but inside a frame the header of the first is gone.
Following(q, r, d) ==
    /\ \A k \in 1 .. Len(q) : q[k].data = Frame(r, d, q[k].data.n)
    /\ \A k \in 1 .. Len(q) : q[k].part = "head" =>
          k + 1 \in 1 .. Len(q) /\ q[k + 1].part = "body" /\ q[k + 1].data = q[k].data
    /\ \A k \in 1 .. Len(q) : q[k].part = "body" /\ k + 1 \in 1 .. Len(q) =>
          /\ q[k + 1].data.n = q[k].data.n + 1
          /\ q[k + 1].part = "head" <=> d \in WsSides[r]

Queued(q, r, d, n, last, inside) ==
    /\ Following(q, r, d)
    /\ q = <<>> => n = last /\ ~inside
    /\ q # <<>> => /\ q[1].data = Frame(r, d, n + 1)
                   /\ q[1].part = "head" <=> d \in WsSides[r] /\ ~inside
                   /\ q[Len(q)].data.n = last

QueueOK(r, d) ==
    Sound(r, d) /\ Reading(r, d) =>
        /\ Queued(in[r][d], r, d, Taken(r, d), sent[r][d], pc[r][d] = "body")
        /\ pc[r][d] = "body" => hdr[r][d] # NoHeader /\ hdr[r][d].data = Frame(r, d, Taken(r, d) + 1)

\* What it delivered, and what it holds.
DeliveredOK(r, d) ==
    Sound(r, d) =>
        /\ \A n \in 1 .. Len(dlv[r][d]) : dlv[r][d][n] = Frame(r, d, n + Skip(r, d))
        /\ Reading(r, d) =>
              /\ pc[r][d] = "copy" => content[wsbuf[r][d]] = Frame(r, d, Done(r, d) + 1)
              /\ pc[r][d] = "write" => content[cpbuf[r][d]] = Frame(r, d, Done(r, d) + 1)
              /\ d = "client" /\ peeked[r] # Junk =>
                    pc[r][d] = "head" /\ peeked[r] = Frame(r, d, Done(r, d) + 1)

FlowOK(r, d) == QueueOK(r, d) /\ DeliveredOK(r, d)
FlowInv == \A r \in Relay, d \in Side : FlowOK(r, d)

-----------------------------------------------------------------------------
(* Facts about functions, sequences and records.                           *)

\* One entry of a function of relays and sides is assigned.
LEMMA Assign ==
    ASSUME NEW T, NEW f \in [Relay -> [Side -> T]], NEW r \in Relay, NEW s \in Side, NEW x \in T,
           NEW g, g = [f EXCEPT ![r][s] = x]
    PROVE  /\ g \in [Relay -> [Side -> T]]
           /\ g[r][s] = x
           /\ \A t \in Relay, u \in Side : <<t, u>> # <<r, s>> => g[t][u] = f[t][u]
<1>1. g = [f EXCEPT ![r] = [f[r] EXCEPT ![s] = x]]
  OBVIOUS
<1>2. [f[r] EXCEPT ![s] = x] \in [Side -> T]
  OBVIOUS
<1>3. g \in [Relay -> [Side -> T]]
  BY <1>1, <1>2
<1>4. g[r][s] = x
  BY <1>1
<1>5. ASSUME NEW t \in Relay, NEW u \in Side, <<t, u>> # <<r, s>> PROVE g[t][u] = f[t][u]
  BY <1>1, <1>5
<1> QED
  BY <1>3, <1>4, <1>5

\* No frame is Junk, and no unit is NoHeader.
LEMMA Junks ==
    /\ Junk \in Data
    /\ NoHeader \notin Unit
    /\ \A r \in Relay, d \in Side, n \in Nat \ {0} : Frame(r, d, n) \in Data /\ Frame(r, d, n) # Junk
<1>1. Junk \in Data
  BY DEF Data
<1>2. NoHeader \notin Unit
  <2>1. NoHeader.size \notin Size
    BY DEF NoHeader, Size, Nobody
  <2> QED
    BY <2>1 DEF Unit
<1>3. ASSUME NEW r \in Relay, NEW d \in Side, NEW n \in Nat \ {0}
      PROVE  Frame(r, d, n) \in Data /\ Frame(r, d, n) # Junk
  <2>1. Frame(r, d, n) \in Data
    BY DEF Data, Frame
  <2>2. Frame(r, d, n).n = n /\ Junk.n = 0
    BY DEF Frame, Junk
  <2> QED
    BY <2>1, <2>2
<1> QED
  BY <1>1, <1>2, <1>3

\* What is left of a queue after a header and a payload.
LEMMA LongTail ==
    ASSUME NEW S, NEW s \in Seq(S), Len(s) > 1
    PROVE  /\ s # <<>> /\ Tail(s) \in Seq(S) /\ Tail(s) # <<>>
           /\ Tail(Tail(s)) \in Seq(S) /\ Len(Tail(Tail(s))) = Len(s) - 2
           /\ \A k \in 1 .. Len(s) - 2 : Tail(Tail(s))[k] = s[k + 2]
<1>1. Len(s) \in Nat /\ s # <<>>
  BY EmptySeq
<1>2. PICK t : t = Tail(s)
  OBVIOUS
<1>3. t \in Seq(S) /\ Len(t) = Len(s) - 1 /\ \A i \in 1 .. Len(t) : t[i] = s[i + 1]
  BY <1>1, <1>2, HeadTailProperties
<1>4. t # <<>>
  <2>1. Len(t) # 0
    BY <1>1, <1>3
  <2> QED
    BY <2>1, EmptySeq
<1>5. /\ Tail(t) \in Seq(S) /\ Len(Tail(t)) = Len(t) - 1
      /\ \A i \in 1 .. Len(Tail(t)) : Tail(t)[i] = t[i + 1]
  BY <1>3, <1>4, HeadTailProperties
<1>6. PICK v : v = Tail(t)
  OBVIOUS
<1>7. v \in Seq(S) /\ Len(v) = Len(t) - 1 /\ \A i \in 1 .. Len(v) : v[i] = t[i + 1]
  BY <1>5, <1>6
<1>8. Len(v) = Len(s) - 2
  BY <1>1, <1>3, <1>7
<1>9. ASSUME NEW k \in 1 .. Len(s) - 2 PROVE v[k] = s[k + 2]
  <2>1. k \in 1 .. Len(v) /\ k + 1 \in 1 .. Len(t) /\ (k + 1) + 1 = k + 2
    BY <1>1, <1>3, <1>8
  <2> QED
    BY <1>3, <1>7, <2>1
<1> QED
  BY <1>1, <1>2, <1>3, <1>4, <1>6, <1>7, <1>8, <1>9

\* The types of what WsTypeOK groups.
PoolOK ==
    /\ made \in Nat /\ pool \in Seq(1 .. made) /\ Len(pool) <= PoolSize
    /\ content \in Seq(Data) /\ Len(content) = made
    /\ doubled \subseteq 1 .. made
PeersOK ==
    /\ script \in Scripts /\ in \in [Relay -> [Side -> Seq(Unit)]]
    /\ sent \in [Relay -> [Side -> Nat]]
Stage == {"new", "sniff", "dial", "refused", "buf1", "buf2", "copy", "close", "closed", "done"}
RelayOK ==
    /\ stage \in [Relay -> Stage]
    /\ wsbuf \in [Relay -> [Side -> 0 .. made]] /\ cpbuf \in [Relay -> [Side -> 0 .. made]]
    /\ peeked \in [Relay -> Data]
    /\ skipped \in [Relay -> {0, 1}] /\ swallowed \in [Relay -> Nat]
    /\ broken \subseteq Relay \X Side
CopierOK ==
    /\ pc \in [Relay -> [Side -> {"head", "body", "copy", "write", "exited"}]]
    /\ hdr \in [Relay -> [Side -> Unit \cup {NoHeader}]]
    /\ dlv \in [Relay -> [Side -> Seq(Data)]]

\* WsTypeOK by its groups.
LEMMA WsTypes ==
    /\ WsTypeOK <=> PoolOK /\ PeersOK /\ RelayOK /\ CopierOK
    /\ WsTypeOK' <=> PoolOK' /\ PeersOK' /\ RelayOK' /\ CopierOK'
BY DEF WsTypeOK, PoolOK, PeersOK, RelayOK, CopierOK, Stage

\* Get hands out the first slice of the pool, or a new one.
LEMMA ObtainEffect ==
    ASSUME PoolOK, NEW b \in 1 .. made + 1, Obtain(b)
    PROVE  /\ made' \in {made, made + 1} /\ made' \in Nat /\ b \in 1 .. made'
           /\ pool' \in Seq(1 .. made') /\ Len(pool') <= PoolSize
           /\ content' \in Seq(Data) /\ Len(content') = made'
           /\ \A k \in 1 .. made : content'[k] = content[k]
           /\ \/ /\ pool # <<>> /\ b = pool[1] /\ made' = made
                 /\ Len(pool') = Len(pool) - 1 /\ \A k \in 1 .. Len(pool') : pool'[k] = pool[k + 1]
              \/ b = made + 1 /\ made' = made + 1 /\ pool' = pool /\ pool = <<>>
<1> USE PoolAssumption
<1>0. made \in Nat /\ pool \in Seq(1 .. made) /\ Len(pool) <= PoolSize
      /\ content \in Seq(Data) /\ Len(content) = made
  BY DEF PoolOK
<1>1. CASE pool # <<>> /\ b = Head(pool) /\ pool' = Tail(pool) /\ made' = made
  <2>1. /\ Head(pool) \in 1 .. made /\ Tail(pool) \in Seq(1 .. made) /\ Len(Tail(pool)) = Len(pool) - 1
        /\ \A i \in 1 .. Len(Tail(pool)) : Tail(pool)[i] = pool[i + 1]
    BY <1>0, <1>1, HeadTailProperties
  <2>2. Len(pool) \in Nat /\ Head(pool) = pool[1]
    BY <1>0, <1>1
  <2>3. ~(b > made)
    BY <1>0, <1>1, <2>1
  <2>4. content' = content
    BY <2>3 DEF Obtain
  <2>5. Len(Tail(pool)) <= PoolSize
    BY <1>0, <2>1, <2>2
  <2> QED
    BY <1>0, <1>1, <2>1, <2>2, <2>4, <2>5
<1>2. CASE pool = <<>> /\ b = made + 1 /\ made' = b /\ pool' = pool
  <2>1. content' = Append(content, Junk)
    BY <1>0, <1>2 DEF Obtain
  <2>2. /\ content' \in Seq(Data) /\ Len(content') = made + 1
        /\ \A k \in 1 .. made : content'[k] = content[k]
    BY <1>0, <2>1, Junks, AppendProperties
  <2>3. pool' \in Seq(1 .. made')
    BY <1>2, EmptySeq
  <2> QED
    BY <1>0, <1>2, <2>2, <2>3
<1> QED
  BY <1>1, <1>2 DEF Obtain, Get

\* Put drops the slice or appends it.
LEMMA PutEffect ==
    ASSUME NEW m \in Nat, NEW ch \in Seq(1 .. m), Len(ch) <= PoolSize, NEW b \in 1 .. m
    PROVE  /\ Put(ch, b) \in Seq(1 .. m) /\ Len(Put(ch, b)) <= PoolSize
           /\ \/ Put(ch, b) = ch
              \/ /\ Len(Put(ch, b)) = Len(ch) + 1 /\ Put(ch, b)[Len(ch) + 1] = b
                 /\ \A k \in 1 .. Len(ch) : Put(ch, b)[k] = ch[k]
<1>1. /\ Append(ch, b) \in Seq(1 .. m) /\ Len(Append(ch, b)) = Len(ch) + 1
      /\ \A i \in 1 .. Len(ch) : Append(ch, b)[i] = ch[i]
      /\ Append(ch, b)[Len(ch) + 1] = b
  BY AppendProperties
<1>2. Len(ch) \in Nat
  BY LenProperties
<1>3. CASE Len(ch) < PoolSize
  BY <1>1, <1>2, <1>3, PoolAssumption DEF Put
<1>4. CASE ~(Len(ch) < PoolSize)
  BY <1>4 DEF Put
<1> QED
  BY <1>3, <1>4

\* A write into a buffer changes that buffer only.
LEMMA WriteEffect ==
    ASSUME PoolOK, NEW b \in 1 .. made, NEW x \in Data, content' = [content EXCEPT ![b] = x]
    PROVE  /\ content' \in Seq(Data) /\ Len(content') = made
           /\ content'[b] = x
           /\ \A k \in 1 .. made : k # b => content'[k] = content[k]
BY ExceptSeq DEF PoolOK

-----------------------------------------------------------------------------
(* Types, together with which relay has which buffers.                     *)

TypeInv == WsTypeOK /\ ProgressInv

\* A relay that does not move keeps Progress.
LEMMA ProgressSame ==
    ASSUME NEW t \in Relay, Progress(t),
           UNCHANGED <<stage[t], wsbuf[t], cpbuf[t], pc[t], dlv[t], peeked[t], skipped[t]>>
    PROVE  Progress(t)'
BY DEF Progress

\* A stage that has a buffer has one that was made.
LEMMA BufferRange ==
    ASSUME TypeInv, NEW r \in Relay, NEW s \in Side
    PROVE  /\ s \in WsSides[r] /\ stage[r] \in WsStages(s) => wsbuf[r][s] \in 1 .. made
           /\ stage[r] \in CpStages(s) => cpbuf[r][s] \in 1 .. made
           /\ stage[r] = "copy" => cpbuf[r][s] \in 1 .. made
           /\ stage[r] = "copy" /\ pc[r][s] \in {"body", "copy"} => wsbuf[r][s] \in 1 .. made
<1>1. made \in Nat /\ wsbuf[r][s] \in 0 .. made /\ cpbuf[r][s] \in 0 .. made
  BY DEF TypeInv, WsTypeOK
<1>2. wsbuf[r][s] # 0 => wsbuf[r][s] \in 1 .. made
  BY <1>1
<1>3. cpbuf[r][s] # 0 => cpbuf[r][s] \in 1 .. made
  BY <1>1
<1>4. Progress(r)
  BY DEF TypeInv, ProgressInv
<1> QED
  BY <1>2, <1>3, <1>4 DEF Progress, NoBuffer, WsStages, CpStages

\* The relays start well typed, without a buffer.
LEMMA WsTypeInit == WsInit => TypeInv
<1> SUFFICES ASSUME WsInit PROVE TypeInv
  OBVIOUS
<1>1. PoolOK
  BY PoolAssumption, EmptySeq DEF WsInit, InitPool, PoolOK
<1>2. PeersOK
  BY DEF WsInit, PeersOK, Each, Both
<1>3. RelayOK
  BY <1>1, Junks DEF WsInit, InitPool, RelayOK, Each, Both, Stage, NoBuffer, PoolOK
<1>4. CopierOK
  BY DEF WsInit, CopierOK, Each, Both
<1>5. ProgressInv
  BY DEF WsInit, ProgressInv, Progress, Each, Both, WsStages, CpStages, NoBuffer, Early
<1> QED
  BY <1>1, <1>2, <1>3, <1>4, <1>5, WsTypes DEF TypeInv

\* A frame sent is a sequence of units.
LEMMA PeerSendsType ==
    ASSUME TypeInv, NEW r \in Relay, NEW s \in Side, PeerSends(r, s)
    PROVE  TypeInv'
<1> DEFINE n == sent[r][s] + 1
           unit(part) == [part |-> part, size |-> script[r][s][n],
                          data |-> [relay |-> r, side |-> s, n |-> n]]
           frame == IF s \in WsSides[r] THEN <<unit("head"), unit("body")>> ELSE <<unit("body")>>
<1>0. PoolOK /\ PeersOK /\ RelayOK /\ CopierOK /\ ProgressInv
  BY WsTypes DEF TypeInv
<1>1. n \in Nat \ {0} /\ n <= Len(script[r][s])
  BY <1>0 DEF PeersOK, PeerSends
<1>2. script[r][s] \in Seq(Size)
  BY <1>0, WsAssumption DEF PeersOK
<1>3. script[r][s][n] \in Size
  BY <1>1, <1>2, ElementOfSeq
<1>4. unit("head") \in Unit /\ unit("body") \in Unit
  BY <1>1, <1>3 DEF Unit, Data
<1>5. frame \in Seq(Unit)
  BY <1>4
<1>6. sent' = [sent EXCEPT ![r][s] = n] /\ in' = [in EXCEPT ![r][s] = @ \o frame]
      /\ UNCHANGED <<script, buffers, content, stage, peeked, copier, history>>
  BY DEF PeerSends
<1>7. in[r][s] \o frame \in Seq(Unit)
  BY <1>0, <1>5, ConcatProperties DEF PeersOK
<1> HIDE DEF frame, n
<1>8. PeersOK'
  BY <1>0, <1>1, <1>6, <1>7 DEF PeersOK
<1>9. PoolOK' /\ RelayOK' /\ CopierOK' /\ ProgressInv'
  <2>1. \A t \in Relay : Progress(t) => Progress(t)'
    BY <1>6, ProgressSame DEF buffers, copier, history
  <2> QED
    BY <1>0, <1>6, <2>1 DEF PoolOK, RelayOK, CopierOK, buffers, poolVars, copier, history, ProgressInv
<1> QED
  BY <1>8, <1>9, WsTypes DEF TypeInv

\* A buffer obtained leaves the other buffers what they were.
LEMMA ObtainType ==
    ASSUME TypeInv, NEW b \in 1 .. made + 1, Obtain(b), UNCHANGED doubled
    PROVE  /\ PoolOK' /\ b \in 1 .. made' /\ b # NoBuffer
           /\ 0 .. made \subseteq 0 .. made'
           /\ b \in 0 .. made'
<1>1. PoolOK
  BY WsTypes DEF TypeInv
<1>2. /\ made' \in {made, made + 1} /\ made' \in Nat /\ b \in 1 .. made'
      /\ pool' \in Seq(1 .. made') /\ Len(pool') <= PoolSize
      /\ content' \in Seq(Data) /\ Len(content') = made'
  BY <1>1, ObtainEffect
<1>3. 1 .. made \subseteq 1 .. made' /\ 0 .. made \subseteq 0 .. made' /\ b # 0 /\ b \in 0 .. made'
  BY <1>1, <1>2 DEF PoolOK
<1> QED
  BY <1>1, <1>2, <1>3 DEF PoolOK, NoBuffer

\* NewWSConn gives the connection a buffer and moves no other.
LEMMA MakeConnType ==
    ASSUME TypeInv, NEW r \in Relay, NEW s \in Side, MakeConn(r, s), UNCHANGED <<cpbuf, doubled>>,
           s \in WsSides[r] => wsbuf[r][s] = NoBuffer
    PROVE  /\ PoolOK'
           /\ wsbuf' \in [Relay -> [Side -> 0 .. made']] /\ cpbuf' \in [Relay -> [Side -> 0 .. made']]
           /\ \A t \in Relay, u \in Side : <<t, u>> # <<r, s>> => wsbuf'[t][u] = wsbuf[t][u]
           /\ s \in WsSides[r] => wsbuf'[r][s] # NoBuffer
           /\ s \notin WsSides[r] => wsbuf'[r][s] = wsbuf[r][s]
<1>0. PoolOK /\ RelayOK
  BY WsTypes DEF TypeInv
<1>1. CASE s \in WsSides[r]
  <2>1. PICK b \in 1 .. made + 1 : Obtain(b) /\ wsbuf' = [wsbuf EXCEPT ![r][s] = b]
    BY <1>1 DEF MakeConn
  <2>2. PoolOK' /\ b # NoBuffer /\ 0 .. made \subseteq 0 .. made' /\ b \in 0 .. made'
    BY <2>1, ObtainType
  <2>3. wsbuf \in [Relay -> [Side -> 0 .. made']] /\ cpbuf \in [Relay -> [Side -> 0 .. made']]
    <3>1. wsbuf \in [Relay -> [Side -> 0 .. made]] /\ cpbuf \in [Relay -> [Side -> 0 .. made]]
      BY <1>0 DEF RelayOK
    <3> QED
      BY <2>2, <3>1
  <2>4. /\ wsbuf' \in [Relay -> [Side -> 0 .. made']] /\ wsbuf'[r][s] = b
        /\ \A t \in Relay, u \in Side : <<t, u>> # <<r, s>> => wsbuf'[t][u] = wsbuf[t][u]
    BY <2>1, <2>2, <2>3, Assign
  <2> QED
    BY <1>1, <2>2, <2>3, <2>4
<1>2. CASE s \notin WsSides[r]
  BY <1>0, <1>2 DEF MakeConn, PoolOK, RelayOK, poolVars
<1> QED
  BY <1>1, <1>2

\* Setting a relay up: each stage adds the buffer Progress says.
LEMMA SetupType ==
    ASSUME TypeInv, NEW r \in Relay,
           HandleRequest(r) \/ Dial(r) \/ TakeBuffer(r, "client", "buf1", "buf2")
                     \/ TakeBuffer(r, "remote", "buf2", "copy")
    PROVE  TypeInv'
<1>0. PoolOK /\ PeersOK /\ RelayOK /\ CopierOK /\ Progress(r) /\ \A t \in Relay : Progress(t)
  BY WsTypes DEF TypeInv, ProgressInv
<1>1. UNCHANGED <<peers, peeked, copier, history>>
  BY DEF HandleRequest, Dial, TakeBuffer
<1>2. PeersOK' /\ CopierOK'
  BY <1>0, <1>1 DEF PeersOK, CopierOK, peers, copier
<1>3. ASSUME PoolOK',
             wsbuf' \in [Relay -> [Side -> 0 .. made']], cpbuf' \in [Relay -> [Side -> 0 .. made']],
             stage' \in [Relay -> Stage], Progress(r)',
             \A t \in Relay \ {r} : UNCHANGED <<stage[t], wsbuf[t], cpbuf[t]>>
      PROVE  TypeInv'
  <2>1. RelayOK'
    BY <1>0, <1>1, <1>3 DEF RelayOK, history
  <2>2. ASSUME NEW t \in Relay \ {r} PROVE Progress(t)'
    BY <1>0, <1>1, <1>3, ProgressSame DEF copier, history
  <2>3. ProgressInv'
    BY <1>3, <2>2 DEF ProgressInv
  <2> QED
    BY <1>2, <1>3, <2>1, <2>3, WsTypes DEF TypeInv
<1>4. ASSUME NEW f, NEW g, NEW s \in Side, f \in [Relay -> [Side -> Nat]], g \in [Relay -> [Side -> Nat]],
             \A t \in Relay, u \in Side : <<t, u>> # <<r, s>> => g[t][u] = f[t][u]
      PROVE  \A t \in Relay \ {r} : g[t] = f[t]
  <2>1. ASSUME NEW t \in Relay \ {r} PROVE g[t] = f[t]
    <3>1. g[t] \in [Side -> Nat] /\ f[t] \in [Side -> Nat]
      BY <1>4
    <3>2. \A u \in Side : g[t][u] = f[t][u]
      BY <1>4
    <3> QED
      BY <3>1, <3>2
  <2> QED
    BY <2>1
<1>5. ASSUME NEW m \in Nat, NEW f \in [Relay -> [Side -> 0 .. m]] PROVE f \in [Relay -> [Side -> Nat]]
  OBVIOUS
<1>6. stage[r] = "new" \/ stage[r] = "dial" => \A s \in Side : cpbuf[r][s] = NoBuffer
  BY <1>0 DEF Progress, CpStages
<1>7. CASE HandleRequest(r)
  <2>1. stage[r] = "new" /\ MakeConn(r, "client") /\ UNCHANGED <<cpbuf, doubled>>
        /\ stage' = [stage EXCEPT ![r] = IF r \in Sniffing THEN "sniff" ELSE "dial"]
    BY <1>7 DEF HandleRequest, history
  <2>2. wsbuf[r]["client"] = NoBuffer /\ wsbuf[r]["remote"] = NoBuffer
    BY <1>0, <2>1 DEF Progress, WsStages, Side
  <2>3. /\ PoolOK'
        /\ wsbuf' \in [Relay -> [Side -> 0 .. made']] /\ cpbuf' \in [Relay -> [Side -> 0 .. made']]
        /\ \A t \in Relay, u \in Side : <<t, u>> # <<r, "client">> => wsbuf'[t][u] = wsbuf[t][u]
        /\ "client" \in WsSides[r] => wsbuf'[r]["client"] # NoBuffer
        /\ "client" \notin WsSides[r] => wsbuf'[r]["client"] = wsbuf[r]["client"]
    BY <2>1, <2>2, MakeConnType DEF Side
  <2>4. stage' \in [Relay -> Stage] /\ stage'[r] \in {"sniff", "dial"}
        /\ \A t \in Relay \ {r} : stage'[t] = stage[t]
    BY <1>0, <2>1 DEF RelayOK, Stage
  <2>5. \A t \in Relay \ {r} : wsbuf'[t] = wsbuf[t]
    <3>1. wsbuf \in [Relay -> [Side -> Nat]] /\ wsbuf' \in [Relay -> [Side -> Nat]] /\ "client" \in Side
      BY <1>0, <1>5, <2>3 DEF PoolOK, RelayOK, Side
    <3> QED
      BY <1>4, <2>3, <3>1
  <2>6. wsbuf'[r]["remote"] = NoBuffer
    BY <2>2, <2>3 DEF Side
  <2>7. Progress(r)'
    BY <1>0, <1>1, <2>1, <2>2, <2>3, <2>4, <2>6
       DEF Progress, Side, WsStages, CpStages, Early, copier, history
  <2> QED
    BY <1>3, <2>1, <2>3, <2>4, <2>5, <2>7
<1>8. CASE Dial(r) /\ MakeConn(r, "remote") /\ stage' = [stage EXCEPT ![r] = "buf1"]
  <2>1. stage[r] = "dial" /\ MakeConn(r, "remote") /\ UNCHANGED <<cpbuf, doubled>>
    BY <1>8 DEF Dial, history
  <2>2. wsbuf[r]["remote"] = NoBuffer
    BY <1>0, <2>1 DEF Progress, WsStages, Side
  <2>3. /\ PoolOK'
        /\ wsbuf' \in [Relay -> [Side -> 0 .. made']] /\ cpbuf' \in [Relay -> [Side -> 0 .. made']]
        /\ \A t \in Relay, u \in Side : <<t, u>> # <<r, "remote">> => wsbuf'[t][u] = wsbuf[t][u]
        /\ "remote" \in WsSides[r] => wsbuf'[r]["remote"] # NoBuffer
        /\ "remote" \notin WsSides[r] => wsbuf'[r]["remote"] = wsbuf[r]["remote"]
    BY <2>1, <2>2, MakeConnType DEF Side
  <2>4. stage' \in [Relay -> Stage] /\ stage'[r] = "buf1"
        /\ \A t \in Relay \ {r} : stage'[t] = stage[t]
    BY <1>0, <1>8 DEF RelayOK, Stage
  <2>5. \A t \in Relay \ {r} : wsbuf'[t] = wsbuf[t]
    <3>1. wsbuf \in [Relay -> [Side -> Nat]] /\ wsbuf' \in [Relay -> [Side -> Nat]] /\ "remote" \in Side
      BY <1>0, <1>5, <2>3 DEF PoolOK, RelayOK, Side
    <3> QED
      BY <1>4, <2>3, <3>1
  <2>6. wsbuf'[r]["client"] = wsbuf[r]["client"]
    BY <2>3 DEF Side
  <2>7. Progress(r)'
    BY <1>0, <1>1, <2>1, <2>2, <2>3, <2>4, <2>6
       DEF Progress, Side, WsStages, CpStages, Early, copier, history
  <2> QED
    BY <1>3, <2>1, <2>3, <2>4, <2>5, <2>7
<1>9. CASE Dial(r) /\ stage' = [stage EXCEPT ![r] = "refused"] /\ UNCHANGED <<poolVars, content, wsbuf>>
  <2>1. stage[r] = "dial" /\ UNCHANGED <<cpbuf, doubled>>
    BY <1>9 DEF Dial, history
  <2>2. stage' \in [Relay -> Stage] /\ stage'[r] = "refused"
        /\ \A t \in Relay \ {r} : stage'[t] = stage[t]
    BY <1>0, <1>9 DEF RelayOK, Stage
  <2>3. Progress(r)'
    BY <1>0, <1>1, <1>9, <2>1, <2>2
       DEF Progress, Side, WsStages, CpStages, Early, copier, history
  <2>4. PoolOK' /\ wsbuf' \in [Relay -> [Side -> 0 .. made']] /\ cpbuf' \in [Relay -> [Side -> 0 .. made']]
    BY <1>0, <1>9, <2>1 DEF PoolOK, RelayOK, poolVars
  <2> QED
    BY <1>3, <1>9, <2>1, <2>2, <2>3, <2>4
<1>10. ASSUME NEW d \in Side, NEW from, NEW to, TakeBuffer(r, d, from, to),
              <<d, from, to>> \in {<<"client", "buf1", "buf2">>, <<"remote", "buf2", "copy">>}
       PROVE  TypeInv'
  <2>1. PICK b \in 1 .. made + 1 : Obtain(b) /\ cpbuf' = [cpbuf EXCEPT ![r][d] = b]
    BY <1>10 DEF TakeBuffer
  <2>2. stage[r] = from /\ stage' = [stage EXCEPT ![r] = to] /\ UNCHANGED <<wsbuf, doubled>>
    BY <1>10 DEF TakeBuffer, history
  <2>3. PoolOK' /\ b # NoBuffer /\ 0 .. made \subseteq 0 .. made' /\ b \in 0 .. made'
    BY <2>1, <2>2, ObtainType
  <2>4. wsbuf \in [Relay -> [Side -> 0 .. made']] /\ cpbuf \in [Relay -> [Side -> 0 .. made']]
    <3>1. wsbuf \in [Relay -> [Side -> 0 .. made]] /\ cpbuf \in [Relay -> [Side -> 0 .. made]]
      BY <1>0 DEF RelayOK
    <3> QED
      BY <2>3, <3>1
  <2>5. /\ cpbuf' \in [Relay -> [Side -> 0 .. made']] /\ cpbuf'[r][d] = b
        /\ \A t \in Relay, u \in Side : <<t, u>> # <<r, d>> => cpbuf'[t][u] = cpbuf[t][u]
    BY <2>1, <2>3, <2>4, Assign
  <2>6. stage' \in [Relay -> Stage] /\ stage'[r] = to
        /\ \A t \in Relay \ {r} : stage'[t] = stage[t]
    BY <1>0, <1>10, <2>2 DEF RelayOK, Stage
  <2>7. \A t \in Relay \ {r} : cpbuf'[t] = cpbuf[t]
    <3>1. cpbuf \in [Relay -> [Side -> Nat]] /\ cpbuf' \in [Relay -> [Side -> Nat]]
      BY <1>0, <1>5, <2>3, <2>5 DEF PoolOK, RelayOK
    <3> QED
      BY <1>4, <2>5, <3>1
  <2>8. Progress(r)'
    <3>1. CASE d = "client" /\ from = "buf1" /\ to = "buf2"
      <4>1. cpbuf'[r]["remote"] = cpbuf[r]["remote"] /\ cpbuf'[r]["client"] # NoBuffer
        BY <2>3, <2>5, <3>1 DEF Side
      <4> QED
        BY <1>0, <1>1, <2>2, <2>6, <3>1, <4>1
           DEF Progress, Side, WsStages, CpStages, Early, copier, history
    <3>2. CASE d = "remote" /\ from = "buf2" /\ to = "copy"
      <4>1. cpbuf'[r]["client"] = cpbuf[r]["client"] /\ cpbuf'[r]["remote"] # NoBuffer
        BY <2>3, <2>5, <3>2 DEF Side
      <4> QED
        BY <1>0, <1>1, <2>2, <2>6, <3>2, <4>1
           DEF Progress, Side, WsStages, CpStages, Early, copier, history
    <3> QED
      BY <1>10, <3>1, <3>2
  <2> QED
    BY <1>3, <2>2, <2>3, <2>4, <2>5, <2>6, <2>7, <2>8
<1> QED
  BY <1>7, <1>8, <1>9, <1>10 DEF Dial, Side

\* The first unit of a queue and the rest.
LEMMA QueueType ==
    ASSUME TypeInv, NEW r \in Relay, NEW d \in Side, in[r][d] # <<>>
    PROVE  /\ in[r][d] \in Seq(Unit) /\ Head(in[r][d]) \in Unit /\ Head(in[r][d]).data \in Data
           /\ Head(in[r][d]) = in[r][d][1] /\ Len(in[r][d]) \in Nat \ {0}
           /\ Tail(in[r][d]) \in Seq(Unit) /\ Len(Tail(in[r][d])) = Len(in[r][d]) - 1
           /\ \A k \in 1 .. Len(Tail(in[r][d])) : Tail(in[r][d])[k] = in[r][d][k + 1]
<1>1. in[r][d] \in Seq(Unit)
  BY DEF TypeInv, WsTypeOK
<1>2. /\ Head(in[r][d]) \in Unit /\ Tail(in[r][d]) \in Seq(Unit)
      /\ Len(Tail(in[r][d])) = Len(in[r][d]) - 1
      /\ \A k \in 1 .. Len(Tail(in[r][d])) : Tail(in[r][d])[k] = in[r][d][k + 1]
  BY <1>1, HeadTailProperties
<1>3. Head(in[r][d]).data \in Data
  BY <1>2 DEF Unit
<1>4. Len(in[r][d]) \in Nat \ {0} /\ Head(in[r][d]) = in[r][d][1]
  BY <1>1, EmptySeq
<1> QED
  BY <1>1, <1>2, <1>3, <1>4

\* Sniffing consumes nothing, one unit, or a header and a payload.
LEMMA SniffType ==
    ASSUME TypeInv, NEW r \in Relay, Sniff(r)
    PROVE  TypeInv'
<1> DEFINE q == in[r]["client"]
<1>0. PoolOK /\ PeersOK /\ RelayOK /\ CopierOK /\ Progress(r) /\ \A t \in Relay : Progress(t)
  BY WsTypes DEF TypeInv, ProgressInv
<1>1. stage[r] = "sniff" /\ UNCHANGED <<script, sent, buffers, copier, swallowed, doubled>> /\ "client" \in Side
  BY DEF Sniff, Side
<1>2. ASSUME in' \in [Relay -> [Side -> Seq(Unit)]], content' \in Seq(Data), Len(content') = made,
             stage' \in {[stage EXCEPT ![r] = "dial"], [stage EXCEPT ![r] = "refused"]},
             peeked' = peeked \/ \E x \in Data : peeked' = [peeked EXCEPT ![r] = x],
             skipped' = skipped \/ skipped' = [skipped EXCEPT ![r] = 1],
             broken' \subseteq Relay \X Side
      PROVE  TypeInv'
  <2>1. stage' \in [Relay -> Stage] /\ stage'[r] \in {"dial", "refused"}
        /\ \A t \in Relay \ {r} : stage'[t] = stage[t]
    BY <1>0, <1>2 DEF RelayOK, Stage
  <2>2. peeked' \in [Relay -> Data] /\ \A t \in Relay \ {r} : peeked'[t] = peeked[t]
    BY <1>0, <1>2 DEF RelayOK
  <2>3. skipped' \in [Relay -> {0, 1}] /\ \A t \in Relay \ {r} : skipped'[t] = skipped[t]
    BY <1>0, <1>2 DEF RelayOK
  <2>4. PoolOK' /\ PeersOK' /\ CopierOK'
    BY <1>0, <1>1, <1>2 DEF PoolOK, PeersOK, CopierOK, buffers, poolVars, copier
  <2>5. RelayOK'
    BY <1>0, <1>1, <1>2, <2>1, <2>2, <2>3 DEF RelayOK, buffers, poolVars
  <2>6. Progress(r)'
    BY <1>0, <1>1, <2>1 DEF Progress, buffers, copier, WsStages, CpStages, Early
  <2>7. ASSUME NEW t \in Relay \ {r} PROVE Progress(t)'
    BY <1>0, <1>1, <2>1, <2>2, <2>3, ProgressSame DEF buffers, copier
  <2>8. ProgressInv'
    BY <2>6, <2>7 DEF ProgressInv
  <2> QED
    BY <2>4, <2>5, <2>8, WsTypes DEF TypeInv
<1>3. content \in Seq(Data) /\ Len(content) = made /\ in \in [Relay -> [Side -> Seq(Unit)]]
      /\ broken \subseteq Relay \X Side /\ q \in Seq(Unit)
  BY <1>0, <1>1 DEF PoolOK, PeersOK, RelayOK
<1>4. ASSUME NEW x \in Data, SniffRead(r, x) \/ SniffNothing(r)
      PROVE  /\ stage' \in {[stage EXCEPT ![r] = "dial"], [stage EXCEPT ![r] = "refused"]}
             /\ peeked' = peeked \/ \E y \in Data : peeked' = [peeked EXCEPT ![r] = y]
  BY <1>4 DEF SniffRead, SniffNothing
<1>5. ASSUME NEW z \in Seq(Unit) PROVE [in EXCEPT ![r]["client"] = z] \in [Relay -> [Side -> Seq(Unit)]]
  BY <1>1, <1>3, Assign
<1>6. CASE SniffNothing(r) /\ UNCHANGED <<in, content, skipped, broken>>
  BY <1>2, <1>3, <1>4, <1>6, Junks
<1>7. CASE /\ q # <<>>
           /\ in' = [in EXCEPT ![r]["client"] = Tail(q)]
           /\ SniffRead(r, Head(q).data)
           /\ UNCHANGED <<content, skipped, broken>>
  <2>1. Head(q).data \in Data /\ Tail(q) \in Seq(Unit)
    BY <1>1, <1>7, QueueType
  <2> QED
    BY <1>2, <1>3, <1>4, <1>5, <1>7, <2>1
<1>8. CASE /\ q # <<>>
           /\ in' = [in EXCEPT ![r]["client"] = Tail(q)]
           /\ SniffNothing(r)
           /\ broken' = broken \cup {<<r, "client">>}
           /\ UNCHANGED <<content, skipped>>
  <2>1. Tail(q) \in Seq(Unit)
    BY <1>1, <1>8, QueueType
  <2>2. broken' \subseteq Relay \X Side
    BY <1>1, <1>3, <1>8
  <2> QED
    BY <1>2, <1>3, <1>4, <1>5, <1>8, <2>1, <2>2, Junks
<1>9. CASE /\ "client" \in WsSides[r] /\ Len(q) > 1
           /\ in' = [in EXCEPT ![r]["client"] = Tail(Tail(q))]
           /\ content' = [content EXCEPT ![wsbuf[r]["client"]] = Head(q).data]
           /\ IF Head(q).size = "big"
              THEN SniffNothing(r) /\ skipped' = [skipped EXCEPT ![r] = 1]
              ELSE SniffRead(r, Head(q).data) /\ UNCHANGED skipped
           /\ UNCHANGED broken
  <2>1. q # <<>> /\ Tail(Tail(q)) \in Seq(Unit)
    BY <1>3, <1>9, LongTail
  <2>2. Head(q).data \in Data
    BY <1>1, <2>1, QueueType
  <2>5. wsbuf[r]["client"] \in 1 .. made
    BY <1>1, <1>9, BufferRange DEF WsStages
  <2>6. content' \in Seq(Data) /\ Len(content') = made
    BY <1>0, <1>9, <2>2, <2>5, WriteEffect
  <2>7. /\ stage' \in {[stage EXCEPT ![r] = "dial"], [stage EXCEPT ![r] = "refused"]}
        /\ peeked' = peeked \/ \E y \in Data : peeked' = [peeked EXCEPT ![r] = y]
    BY <1>4, <1>9, <2>2
  <2>8. skipped' = skipped \/ skipped' = [skipped EXCEPT ![r] = 1]
    BY <1>9
  <2>9. in' \in [Relay -> [Side -> Seq(Unit)]] /\ broken' \subseteq Relay \X Side
    BY <1>3, <1>5, <1>9, <2>1
  <2> QED
    BY <1>2, <2>6, <2>7, <2>8, <2>9
<1> QED
  BY <1>6, <1>7, <1>8, <1>9 DEF Sniff

\* What comes with the handshake response leaves the queue of the remote.
LEMMA HandshakeType ==
    ASSUME TypeInv, NEW r \in Relay, HandshakeReads(r)
    PROVE  TypeInv'
<1> DEFINE q == in[r]["remote"]
<1>0. PoolOK /\ PeersOK /\ RelayOK /\ CopierOK /\ \A t \in Relay : Progress(t)
  BY WsTypes DEF TypeInv, ProgressInv
<1>1. UNCHANGED <<script, sent, buffers, content, stage, peeked, copier, skipped, doubled>>
      /\ "remote" \in Side
  BY DEF HandshakeReads, Side
<1>2. /\ in \in [Relay -> [Side -> Seq(Unit)]] /\ q \in Seq(Unit)
      /\ swallowed \in [Relay -> Nat] /\ broken \subseteq Relay \X Side
  BY <1>0, <1>1 DEF PeersOK, RelayOK
<1>3. PICK z \in Seq(Unit) : in' = [in EXCEPT ![r]["remote"] = z]
  <2>1. CASE Len(q) > 1 /\ in' = [in EXCEPT ![r]["remote"] = Tail(Tail(q))]
    BY <1>2, <2>1, LongTail
  <2>2. CASE q # <<>> /\ in' = [in EXCEPT ![r]["remote"] = Tail(q)]
    BY <1>1, <2>2, QueueType
  <2> QED
    BY <2>1, <2>2 DEF HandshakeReads
<1>4. in' \in [Relay -> [Side -> Seq(Unit)]]
  BY <1>1, <1>2, <1>3, Assign
<1>5. swallowed' \in [Relay -> Nat] /\ broken' \subseteq Relay \X Side
  BY <1>1, <1>2, SMTT(30) DEF HandshakeReads
<1>6. PoolOK' /\ PeersOK' /\ RelayOK' /\ CopierOK'
  BY <1>0, <1>1, <1>4, <1>5 DEF PoolOK, PeersOK, RelayOK, CopierOK, buffers, poolVars, copier
<1>7. ProgressInv'
  BY <1>0, <1>1, ProgressSame DEF ProgressInv, buffers, copier
<1> QED
  BY <1>6, <1>7, WsTypes DEF TypeInv

\* A step of a copier.
LEMMA CopierType ==
    ASSUME TypeInv, NEW r \in Relay, NEW d \in Side, stage[r] = "copy",
           UNCHANGED <<script, sent, buffers, stage, skipped, swallowed, doubled>>,
           in' \in [Relay -> [Side -> Seq(Unit)]],
           content' \in Seq(Data), Len(content') = made,
           NEW l \in {"head", "body", "copy", "write", "exited"}, Goto(r, d, l),
           l \in {"body", "copy"} => d \in WsSides[r],
           hdr' \in [Relay -> [Side -> Unit \cup {NoHeader}]],
           dlv' \in [Relay -> [Side -> Seq(Data)]], \A t \in Relay \ {r} : dlv'[t] = dlv[t],
           peeked' \in [Relay -> Data], \A t \in Relay \ {r} : peeked'[t] = peeked[t],
           broken' \subseteq Relay \X Side
    PROVE  TypeInv'
<1>0. PoolOK /\ PeersOK /\ RelayOK /\ CopierOK /\ Progress(r) /\ \A t \in Relay : Progress(t)
  BY WsTypes DEF TypeInv, ProgressInv
<1>1. /\ pc' \in [Relay -> [Side -> {"head", "body", "copy", "write", "exited"}]]
      /\ pc'[r][d] = l
      /\ \A t \in Relay, u \in Side : <<t, u>> # <<r, d>> => pc'[t][u] = pc[t][u]
  BY <1>0, Assign DEF Goto, CopierOK
<1>2. \A t \in Relay \ {r} : pc'[t] = pc[t]
  BY <1>0 DEF Goto, CopierOK
<1>3. PoolOK' /\ PeersOK' /\ RelayOK' /\ CopierOK'
  BY <1>0, <1>1 DEF PoolOK, PeersOK, RelayOK, CopierOK, buffers, poolVars
<1>4. ASSUME NEW t \in Relay \ {r} PROVE Progress(t)'
  BY <1>0, <1>2, ProgressSame DEF buffers
<1>5. Progress(r)'
  <2>1. ASSUME NEW s \in Side PROVE pc'[r][s] \in {"body", "copy"} => s \in WsSides[r]
    <3>1. CASE s = d
      BY <1>1, <3>1
    <3>2. CASE s # d
      BY <1>0, <1>1, <3>2 DEF Progress
    <3> QED
      BY <3>1, <3>2
  <2>2. stage'[r] = "copy" /\ UNCHANGED <<wsbuf, cpbuf>>
    BY DEF buffers
  <2> QED
    BY <1>0, <2>1, <2>2 DEF Progress, Early
<1> QED
  BY <1>3, <1>4, <1>5, WsTypes DEF TypeInv, ProgressInv

\* Each action of a copier.
LEMMA CopyType ==
    ASSUME TypeInv, NEW r \in Relay, NEW d \in Side, Copy(r, d)
    PROVE  TypeInv'
<1>0. PoolOK /\ PeersOK /\ RelayOK /\ CopierOK /\ Progress(r)
  BY WsTypes DEF TypeInv, ProgressInv
<1>1. /\ content \in Seq(Data) /\ Len(content) = made /\ in \in [Relay -> [Side -> Seq(Unit)]]
      /\ hdr \in [Relay -> [Side -> Unit \cup {NoHeader}]] /\ dlv \in [Relay -> [Side -> Seq(Data)]]
      /\ peeked \in [Relay -> Data] /\ broken \subseteq Relay \X Side
      /\ in[r][d] \in Seq(Unit) /\ hdr[r][d] \in Unit \cup {NoHeader} /\ dlv[r][d] \in Seq(Data)
  BY <1>0 DEF PoolOK, PeersOK, RelayOK, CopierOK
<1>2. ASSUME NEW z \in Seq(Unit) PROVE [in EXCEPT ![r][d] = z] \in [Relay -> [Side -> Seq(Unit)]]
  BY <1>1, Assign
<1>3. ASSUME NEW z \in Unit \cup {NoHeader}
      PROVE  [hdr EXCEPT ![r][d] = z] \in [Relay -> [Side -> Unit \cup {NoHeader}]]
  BY <1>1, Assign
<1>4. Consume(r, d) /\ in[r][d] # <<>> => in' \in [Relay -> [Side -> Seq(Unit)]]
  <2>1. SUFFICES ASSUME Consume(r, d), in[r][d] # <<>> PROVE in' \in [Relay -> [Side -> Seq(Unit)]]
    OBVIOUS
  <2>2. Tail(in[r][d]) \in Seq(Unit)
    BY <2>1, QueueType
  <2>3. in' = [in EXCEPT ![r][d] = Tail(in[r][d])]
    BY <1>1, <2>1 DEF Consume
  <2> QED
    BY <1>2, <2>2, <2>3
<1>5. CASE ReadRaw(r, d)
  <2>1. stage[r] = "copy" /\ in[r][d] # <<>> /\ Consume(r, d) /\ Goto(r, d, "write")
        /\ content' = [content EXCEPT ![cpbuf[r][d]] = Head(in[r][d]).data]
        /\ UNCHANGED <<script, sent, buffers, stage, peeked, hdr, dlv, history>>
    BY <1>5 DEF ReadRaw, Copying
  <2>2. cpbuf[r][d] \in 1 .. made /\ Head(in[r][d]).data \in Data
    BY <2>1, BufferRange, QueueType
  <2>3. content' \in Seq(Data) /\ Len(content') = made
    BY <1>0, <2>1, <2>2, WriteEffect
  <2> QED
    BY <1>1, <1>4, <2>1, <2>3, CopierType DEF history
<1>6. CASE ReadHeader(r, d)
  <2>1. stage[r] = "copy" /\ in[r][d] # <<>> /\ Consume(r, d) /\ d \in WsSides[r]
        /\ UNCHANGED <<script, sent, buffers, content, stage, peeked, dlv, history>>
    BY <1>6 DEF ReadHeader, Copying
  <2>2. Head(in[r][d]) \in Unit
    BY <2>1, QueueType
  <2>3. \/ hdr' = [hdr EXCEPT ![r][d] = Head(in[r][d])] /\ Goto(r, d, "body")
        \/ hdr' = [hdr EXCEPT ![r][d] = NoHeader] /\ Goto(r, d, "body")
        \/ hdr' = hdr /\ Goto(r, d, "exited")
    BY <1>6 DEF ReadHeader
  <2>4. hdr' \in [Relay -> [Side -> Unit \cup {NoHeader}]]
    <3>1. [hdr EXCEPT ![r][d] = Head(in[r][d])] \in [Relay -> [Side -> Unit \cup {NoHeader}]]
      BY <1>3, <2>2
    <3>2. [hdr EXCEPT ![r][d] = NoHeader] \in [Relay -> [Side -> Unit \cup {NoHeader}]]
      BY <1>3
    <3> QED
      BY <1>1, <2>3, <3>1, <3>2
  <2>5. CASE Goto(r, d, "body")
    BY <1>1, <1>4, <2>1, <2>4, <2>5, CopierType DEF history
  <2>6. CASE Goto(r, d, "exited")
    BY <1>1, <1>4, <2>1, <2>4, <2>6, CopierType DEF history
  <2> QED
    BY <2>3, <2>5, <2>6
<1>7. CASE ReadPayload(r, d)
  <2> DEFINE whole == hdr[r][d] # NoHeader
             x == IF whole /\ Head(in[r][d]).data = hdr[r][d].data THEN Head(in[r][d]).data ELSE Junk
  <2>1. stage[r] = "copy" /\ pc[r][d] = "body" /\ Goto(r, d, "copy")
        /\ hdr' = [hdr EXCEPT ![r][d] = NoHeader]
        /\ UNCHANGED <<script, sent, buffers, stage, peeked, dlv, history>>
    BY <1>7 DEF ReadPayload, Copying
  <2>2. PICK n \in 0 .. Len(in[r][d]) :
           /\ whole => n = 1
           /\ in' = [in EXCEPT ![r][d] = SubSeq(in[r][d], n + 1, Len(in[r][d]))]
           /\ content' = [content EXCEPT ![wsbuf[r][d]] = x]
    BY <1>7 DEF ReadPayload
  <2>3. Len(in[r][d]) \in Nat /\ n \in Nat
    BY <1>1, LenProperties
  <2>4. SubSeq(in[r][d], n + 1, Len(in[r][d])) \in Seq(Unit)
    <3>1. \A i \in n + 1 .. Len(in[r][d]) : in[r][d][i] \in Unit
      BY <1>1, <2>3, ElementOfSeq
    <3> QED
      BY <2>3, <3>1, SubSeqProperties
  <2>5. x \in Data
    <3>1. CASE whole
      <4>1. in[r][d] # <<>>
        BY <2>2, <3>1, EmptySeq
      <4> QED
        BY <4>1, QueueType, Junks
    <3>2. CASE ~whole
      BY <3>2, Junks
    <3> QED
      BY <3>1, <3>2
  <2> HIDE DEF x, whole
  <2>6. wsbuf[r][d] \in 1 .. made /\ d \in WsSides[r]
    BY <1>0, <2>1, BufferRange DEF Progress
  <2>7. content' \in Seq(Data) /\ Len(content') = made
    BY <1>0, <2>2, <2>5, <2>6, WriteEffect
  <2>8. in' \in [Relay -> [Side -> Seq(Unit)]] /\ hdr' \in [Relay -> [Side -> Unit \cup {NoHeader}]]
    BY <1>2, <1>3, <2>1, <2>2, <2>4
  <2> QED
    BY <1>1, <2>1, <2>6, <2>7, <2>8, CopierType DEF history
<1>8. CASE Deadline(r, d)
  <2>1. stage[r] = "copy" /\ pc[r][d] = "body" /\ Goto(r, d, "head")
        /\ content' = [content EXCEPT ![wsbuf[r][d]] = Junk] /\ broken' = broken \cup {<<r, d>>}
        /\ UNCHANGED <<peers, buffers, stage, peeked, hdr, dlv, skipped, swallowed, doubled>>
    BY <1>8 DEF Deadline, Copying
  <2>2. wsbuf[r][d] \in 1 .. made
    BY <2>1, BufferRange
  <2>3. content' \in Seq(Data) /\ Len(content') = made
    BY <1>0, <2>1, <2>2, Junks, WriteEffect
  <2>4. broken' \subseteq Relay \X Side
    BY <1>1, <2>1
  <2> QED
    BY <1>1, <2>1, <2>3, <2>4, CopierType DEF peers
<1>9. CASE CopyOut(r, d)
  <2>1. stage[r] = "copy" /\ pc[r][d] = "copy" /\ Goto(r, d, "write")
        /\ content' = [content EXCEPT ![cpbuf[r][d]] = content[wsbuf[r][d]]]
        /\ UNCHANGED <<peers, buffers, stage, peeked, hdr, dlv, history>>
    BY <1>9 DEF CopyOut, Copying
  <2>2. wsbuf[r][d] \in 1 .. made /\ cpbuf[r][d] \in 1 .. made
    BY <2>1, BufferRange
  <2>3. content[wsbuf[r][d]] \in Data
    BY <1>1, <2>2, ElementOfSeq
  <2>4. content' \in Seq(Data) /\ Len(content') = made
    BY <1>0, <2>1, <2>2, <2>3, WriteEffect
  <2> QED
    BY <1>1, <2>1, <2>4, CopierType DEF peers, history
<1>10. CASE Write(r, d)
  <2>1. stage[r] = "copy" /\ Goto(r, d, "head")
        /\ dlv' = [dlv EXCEPT ![r][d] = Append(dlv[r][d], content[cpbuf[r][d]])]
        /\ UNCHANGED <<peers, buffers, content, stage, peeked, hdr, history>>
    BY <1>1, <1>10 DEF Write, Copying
  <2>2. cpbuf[r][d] \in 1 .. made
    BY <2>1, BufferRange
  <2>3. content[cpbuf[r][d]] \in Data
    BY <1>1, <2>2, ElementOfSeq
  <2>4. Append(dlv[r][d], content[cpbuf[r][d]]) \in Seq(Data)
    BY <1>1, <2>3, AppendProperties
  <2>5. dlv' \in [Relay -> [Side -> Seq(Data)]] /\ \A t \in Relay \ {r} : dlv'[t] = dlv[t]
    BY <1>1, <2>1, <2>4
  <2> QED
    BY <1>1, <2>1, <2>5, CopierType DEF peers, history
<1>11. CASE Exit(r, d)
  <2>1. stage[r] = "copy" /\ Goto(r, d, "exited")
        /\ UNCHANGED <<peers, buffers, content, stage, peeked, hdr, dlv, history>>
    BY <1>11 DEF Exit
  <2> QED
    BY <1>1, <2>1, CopierType DEF peers, history
<1> QED
  BY <1>5, <1>6, <1>7, <1>8, <1>9, <1>10, <1>11 DEF Copy

\* The read of the peeked bytes.
LEMMA ReadPeekedType ==
    ASSUME TypeInv, NEW r \in Relay, ReadPeeked(r)
    PROVE  TypeInv'
<1>0. PoolOK /\ PeersOK /\ RelayOK /\ CopierOK /\ "client" \in Side
  BY WsTypes DEF TypeInv, Side
<1>1. /\ stage[r] = "copy" /\ content' = [content EXCEPT ![cpbuf[r]["client"]] = peeked[r]]
      /\ peeked' = [peeked EXCEPT ![r] = Junk] /\ Goto(r, "client", "write")
      /\ UNCHANGED <<peers, buffers, stage, hdr, dlv, history>>
  BY DEF ReadPeeked, Copying
<1>2. cpbuf[r]["client"] \in 1 .. made /\ peeked[r] \in Data
  BY <1>0, <1>1, BufferRange DEF RelayOK
<1>3. content' \in Seq(Data) /\ Len(content') = made
  BY <1>0, <1>1, <1>2, WriteEffect
<1>4. peeked' \in [Relay -> Data] /\ \A t \in Relay \ {r} : peeked'[t] = peeked[t]
  BY <1>0, <1>1, Junks DEF RelayOK
<1>5. /\ in \in [Relay -> [Side -> Seq(Unit)]] /\ broken \subseteq Relay \X Side
      /\ hdr \in [Relay -> [Side -> Unit \cup {NoHeader}]] /\ dlv \in [Relay -> [Side -> Seq(Data)]]
  BY <1>0 DEF PeersOK, RelayOK, CopierOK
<1> QED
  BY <1>0, <1>1, <1>3, <1>4, <1>5, CopierType DEF peers, history

\* Giving buffers back and closing.
LEMMA CloseType ==
    ASSUME TypeInv, NEW r \in Relay, ReleaseCopyBuffers(r) \/ CloseBoth(r) \/ CloseRemoteAgain(r)
    PROVE  TypeInv'
<1>0. PoolOK /\ PeersOK /\ RelayOK /\ CopierOK /\ Progress(r) /\ \A t \in Relay : Progress(t)
  BY WsTypes DEF TypeInv, ProgressInv
<1>1. made \in Nat /\ pool \in Seq(1 .. made) /\ Len(pool) <= PoolSize /\ doubled \subseteq 1 .. made
      /\ "client" \in Side /\ "remote" \in Side
  BY <1>0 DEF PoolOK, Side
<1>2. ASSUME NEW ch \in Seq(1 .. made), Len(ch) <= PoolSize, NEW s \in Side, stage[r] \in {"close", "closed"}
      PROVE  PutConn(ch, r, s) \in Seq(1 .. made) /\ Len(PutConn(ch, r, s)) <= PoolSize
  <2>1. s \in WsSides[r] => wsbuf[r][s] \in 1 .. made
    BY <1>2, BufferRange DEF WsStages
  <2> QED
    BY <1>1, <1>2, <2>1, PutEffect DEF PutConn
<1>3. ASSUME pool' \in Seq(1 .. made), Len(pool') <= PoolSize, doubled' \subseteq 1 .. made,
             NEW from \in {"copy", "close", "closed"}, NEW to \in {"close", "closed", "done"},
             stage[r] = from, stage' = [stage EXCEPT ![r] = to],
             in' \in [Relay -> [Side -> Seq(Unit)]],
             UNCHANGED <<script, sent, made, wsbuf, cpbuf, content, peeked, copier, skipped, swallowed, broken>>
      PROVE  TypeInv'
  <2>1. stage' \in [Relay -> Stage] /\ stage'[r] = to /\ \A t \in Relay \ {r} : stage'[t] = stage[t]
    BY <1>0, <1>3 DEF RelayOK, Stage
  <2>2. PoolOK' /\ PeersOK' /\ RelayOK' /\ CopierOK'
    BY <1>0, <1>3, <2>1 DEF PoolOK, PeersOK, RelayOK, CopierOK, copier
  <2>3. ASSUME NEW t \in Relay \ {r} PROVE Progress(t)'
    BY <1>0, <1>3, <2>1, ProgressSame DEF copier
  <2>4. Progress(r)'
    BY <1>0, <1>3, <2>1 DEF Progress, copier, WsStages, CpStages, Early
  <2> QED
    BY <2>2, <2>3, <2>4, WsTypes DEF TypeInv, ProgressInv
<1>4. in \in [Relay -> [Side -> Seq(Unit)]]
  BY <1>0 DEF PeersOK
<1>5. CASE ReleaseCopyBuffers(r)
  <2>1. stage[r] = "copy" /\ stage' = [stage EXCEPT ![r] = "close"]
        /\ pool' = Put(Put(pool, cpbuf[r]["remote"]), cpbuf[r]["client"])
        /\ UNCHANGED <<peers, made, wsbuf, cpbuf, content, peeked, copier, history>>
    BY <1>5 DEF ReleaseCopyBuffers, Copying
  <2>2. cpbuf[r]["remote"] \in 1 .. made /\ cpbuf[r]["client"] \in 1 .. made
    BY <1>1, <2>1, BufferRange
  <2>3. Put(pool, cpbuf[r]["remote"]) \in Seq(1 .. made) /\ Len(Put(pool, cpbuf[r]["remote"])) <= PoolSize
    BY <1>1, <2>2, PutEffect
  <2>4. pool' \in Seq(1 .. made) /\ Len(pool') <= PoolSize
    BY <1>1, <2>1, <2>2, <2>3, PutEffect
  <2> QED
    BY <1>1, <1>3, <1>4, <2>1, <2>4 DEF peers, history
<1>6. CASE CloseBoth(r)
  <2>1. stage[r] = "close" /\ stage' = [stage EXCEPT ![r] = "closed"]
        /\ pool' = PutConn(PutConn(pool, r, "client"), r, "remote")
        /\ in' = [in EXCEPT ![r] = Both(<<>>)]
        /\ UNCHANGED <<script, sent, made, wsbuf, cpbuf, content, peeked, copier, history>>
    BY <1>6 DEF CloseBoth
  <2>2. PutConn(pool, r, "client") \in Seq(1 .. made) /\ Len(PutConn(pool, r, "client")) <= PoolSize
    BY <1>1, <1>2, <2>1
  <2>3. pool' \in Seq(1 .. made) /\ Len(pool') <= PoolSize
    BY <1>1, <1>2, <2>1, <2>2
  <2>4. in' \in [Relay -> [Side -> Seq(Unit)]]
    BY <1>4, <2>1 DEF Both
  <2> QED
    BY <1>1, <1>3, <2>1, <2>3, <2>4 DEF history
<1>7. CASE CloseRemoteAgain(r)
  <2>1. stage[r] = "closed" /\ stage' = [stage EXCEPT ![r] = "done"]
        /\ pool' = PutConn(pool, r, "remote")
        /\ doubled' = (IF "remote" \in WsSides[r] THEN doubled \cup {wsbuf[r]["remote"]} ELSE doubled)
        /\ UNCHANGED <<peers, made, wsbuf, cpbuf, content, peeked, copier, skipped, swallowed, broken>>
    BY <1>7 DEF CloseRemoteAgain
  <2>2. pool' \in Seq(1 .. made) /\ Len(pool') <= PoolSize
    BY <1>1, <1>2, <2>1
  <2>3. "remote" \in WsSides[r] => wsbuf[r]["remote"] \in 1 .. made
    BY <1>1, <2>1, BufferRange DEF WsStages
  <2>4. doubled' \subseteq 1 .. made
    BY <1>1, <2>1, <2>3
  <2> QED
    BY <1>3, <1>4, <2>1, <2>2, <2>4 DEF peers
<1> QED
  BY <1>5, <1>6, <1>7

\* Types and Progress are inductive.
LEMMA WsTypeNext == TypeInv /\ [WsNext]_wsVars => TypeInv'
<1> SUFFICES ASSUME TypeInv, [WsNext]_wsVars PROVE TypeInv'
  OBVIOUS
<1>1. CASE UNCHANGED wsVars
  <2>1. \A t \in Relay : Progress(t) => Progress(t)'
    BY <1>1, ProgressSame DEF wsVars, buffers, copier, history
  <2> QED
    BY <1>1, <2>1 DEF wsVars, peers, buffers, poolVars, copier, history, TypeInv, WsTypeOK, ProgressInv
<1> QED
  BY <1>1, PeerSendsType, SetupType, SniffType, HandshakeType, CopyType, ReadPeekedType, CloseType DEF WsNext

\* Every variable keeps its type: the pool holds at most PoolSize slices, all of
\* them made before, and a relay reads into buffers that exist.
THEOREM WsTypeCorrect == WsSpec => []WsTypeOK
<1>1. TypeInv => WsTypeOK
  BY DEF TypeInv
<1> QED
  BY <1>1, WsTypeInit, WsTypeNext, PTL DEF WsSpec

-----------------------------------------------------------------------------
(* No buffer is in two places.                                             *)

\* Put of a slice that is not in the pool leaves it there once at most.
LEMMA PutOnce ==
    ASSUME NEW m \in Nat, NEW ch \in Seq(1 .. m), Len(ch) <= PoolSize, NEW x \in 1 .. m, NEW b,
           Once(ch, b), x = b => ~Within(ch, b)
    PROVE  /\ Once(Put(ch, x), b)
           /\ Within(Put(ch, x), b) => Within(ch, b) \/ x = b
<1>1. CASE Put(ch, x) = ch
  BY <1>1
<1>2. CASE /\ Len(Put(ch, x)) = Len(ch) + 1 /\ Put(ch, x)[Len(ch) + 1] = x
           /\ \A k \in 1 .. Len(ch) : Put(ch, x)[k] = ch[k]
  <2>1. Len(ch) \in Nat
    BY LenProperties
  <2>2. PICK p : p = Put(ch, x)
    OBVIOUS
  <2>3. Len(p) = Len(ch) + 1 /\ p[Len(ch) + 1] = x /\ \A k \in 1 .. Len(ch) : p[k] = ch[k]
    BY <1>2, <2>2
  <2>4. \A k \in 1 .. Len(p) : k \in 1 .. Len(ch) \/ k = Len(ch) + 1
    BY <2>1, <2>3
  <2>5. ASSUME NEW i \in 1 .. Len(p), NEW j \in 1 .. Len(p), p[i] = b, p[j] = b PROVE i = j
    BY <2>3, <2>4, <2>5 DEF Once, Within
  <2>6. ASSUME NEW i \in 1 .. Len(p), p[i] = b PROVE Within(ch, b) \/ x = b
    BY <2>3, <2>4, <2>6 DEF Within
  <2> QED
    BY <2>2, <2>5, <2>6 DEF Once, Within
<1> QED
  BY <1>1, <1>2, PutEffect

\* The slice Get returns is in no other place.
LEMMA ObtainExclusive ==
    ASSUME TypeInv, ExclusiveInv, NEW x \in 1 .. made + 1, Obtain(x),
           NEW b \in (1 .. made') \ doubled
    PROVE  /\ Once(pool', b)
           /\ Within(pool', b) => Within(pool, b) /\ b # x
           /\ b = x => \A t \in Relay, u \in Side : ~ConnHolds(t, u, b) /\ ~CopyHolds(t, u, b)
           /\ b # x => b \in 1 .. made /\ Exclusive(b)
<1>0. PoolOK /\ RelayOK /\ made \in Nat /\ pool \in Seq(1 .. made)
  BY WsTypes DEF TypeInv, PoolOK
<1>1. CASE /\ pool # <<>> /\ x = pool[1] /\ made' = made
           /\ Len(pool') = Len(pool) - 1 /\ \A k \in 1 .. Len(pool') : pool'[k] = pool[k + 1]
  <2>1. Exclusive(b) /\ b \in 1 .. made
    BY <1>1 DEF ExclusiveInv
  <2>2. Len(pool) \in Nat \ {0}
    BY <1>0, <1>1, EmptySeq
  <2>3. \A k \in 1 .. Len(pool') : k + 1 \in 1 .. Len(pool) /\ k + 1 # 1 /\ k \in Nat
    BY <1>1, <2>2
  <2>4. 1 \in 1 .. Len(pool)
    BY <2>2
  <2>5. Once(pool', b)
    <3>1. ASSUME NEW i \in 1 .. Len(pool'), NEW j \in 1 .. Len(pool'), pool'[i] = b, pool'[j] = b
          PROVE  i = j
      <4>1. i + 1 = j + 1
        BY <1>1, <2>1, <2>3, <3>1 DEF Exclusive, Once
      <4> QED
        BY <2>3, <4>1
    <3> QED
      BY <3>1 DEF Once
  <2>6. ASSUME NEW k \in 1 .. Len(pool'), pool'[k] = b PROVE Within(pool, b) /\ b # x
    <3>1. pool[k + 1] = b /\ k + 1 \in 1 .. Len(pool) /\ k + 1 # 1
      BY <1>1, <2>3, <2>6
    <3> QED
      BY <1>1, <2>1, <2>4, <3>1 DEF Exclusive, Once, Within
  <2>7. b = x => Within(pool, b)
    BY <1>1, <2>4 DEF Within
  <2> QED
    BY <2>1, <2>5, <2>6, <2>7 DEF Exclusive, Within
<1>2. CASE x = made + 1 /\ made' = made + 1 /\ pool' = pool /\ pool = <<>>
  <2>1. Len(pool') = 0 /\ 1 .. 0 = {}
    BY <1>2, EmptySeq
  <2>2. \A t \in Relay, u \in Side : wsbuf[t][u] \in 0 .. made /\ cpbuf[t][u] \in 0 .. made
    BY <1>0 DEF RelayOK
  <2>3. \A t \in Relay, u \in Side : wsbuf[t][u] # x /\ cpbuf[t][u] # x
    BY <1>0, <1>2, <2>2
  <2>4. b # x => b \in 1 .. made
    BY <1>0, <1>2
  <2> QED
    BY <2>1, <2>3, <2>4 DEF Once, Within, ConnHolds, CopyHolds, ExclusiveInv
<1> QED
  BY <1>0, <1>1, <1>2, ObtainEffect

\* Nothing moves.
LEMMA ExclusiveKept ==
    ASSUME ExclusiveInv, UNCHANGED <<pool, made, wsbuf, cpbuf, doubled>>,
           \A t \in Relay : Open(t)' <=> Open(t),
           \A t \in Relay : stage'[t] \in {"buf2", "copy"} <=> stage[t] \in {"buf2", "copy"}
    PROVE  ExclusiveInv'
<1>1. ASSUME NEW b, NEW t \in Relay, NEW u \in Side
      PROVE  /\ ConnHolds(t, u, b)' <=> ConnHolds(t, u, b)
             /\ CopyHolds(t, u, b)' <=> CopyHolds(t, u, b)
  BY DEF ConnHolds, CopyHolds
<1>2. ASSUME NEW b \in (1 .. made) \ doubled PROVE Exclusive(b)'
  <2>1. Exclusive(b)
    BY DEF ExclusiveInv
  <2> QED
    BY <1>1, <2>1 DEF Exclusive, Once, Within
<1> QED
  BY <1>2 DEF ExclusiveInv

\* A connection of r, which had none, gets the buffer x.
LEMMA ExclusiveConn ==
    ASSUME TypeInv, ExclusiveInv, NEW r \in Relay, NEW s \in Side, NEW x \in 1 .. made + 1, Obtain(x),
           wsbuf' = [wsbuf EXCEPT ![r][s] = x], UNCHANGED <<cpbuf, doubled>>,
           \A t \in Relay : Open(t)' <=> Open(t),
           \A t \in Relay : stage'[t] \in {"buf2", "copy"} <=> stage[t] \in {"buf2", "copy"}
    PROVE  ExclusiveInv'
<1>0. wsbuf \in [Relay -> [Side -> 0 .. made]]
  BY DEF TypeInv, WsTypeOK
<1>1. wsbuf'[r][s] = x /\ \A t \in Relay, u \in Side : <<t, u>> # <<r, s>> => wsbuf'[t][u] = wsbuf[t][u]
  BY <1>0
<1>2. ASSUME NEW b, NEW t \in Relay, NEW u \in Side
      PROVE  /\ CopyHolds(t, u, b)' <=> CopyHolds(t, u, b)
             /\ ConnHolds(t, u, b)' => ConnHolds(t, u, b) \/ (t = r /\ u = s /\ b = x)
             /\ ConnHolds(r, s, b)' => b = x
  BY <1>1 DEF ConnHolds, CopyHolds
<1>3. ASSUME NEW b \in (1 .. made') \ doubled PROVE Exclusive(b)'
  <2>1. /\ Once(pool', b)
        /\ Within(pool', b) => Within(pool, b) /\ b # x
        /\ b = x => \A t \in Relay, u \in Side : ~ConnHolds(t, u, b) /\ ~CopyHolds(t, u, b)
        /\ b # x => b \in 1 .. made /\ Exclusive(b)
    BY ObtainExclusive
  <2>2. CASE b = x
    <3>1. \A t \in Relay, u \in Side : ~CopyHolds(t, u, b)'
      BY <1>2, <2>1, <2>2
    <3>2. \A t \in Relay, u \in Side : ConnHolds(t, u, b)' => t = r /\ u = s
      BY <1>2, <2>1, <2>2
    <3>3. ~Within(pool', b) /\ Once(pool', b)
      BY <2>1, <2>2
    <3> QED
      BY <3>1, <3>2, <3>3 DEF Exclusive, Once, Within
  <2>3. CASE b # x
    <3>1. /\ Exclusive(b) /\ Once(pool', b)
          /\ Within(pool', b) => Within(pool, b)
      BY <2>1, <2>3
    <3>2. \A t \in Relay, u \in Side : ConnHolds(t, u, b)' => ConnHolds(t, u, b)
      BY <1>2, <2>3
    <3>3. \A t \in Relay, u \in Side : CopyHolds(t, u, b)' => CopyHolds(t, u, b)
      BY <1>2, <2>3
    <3> QED
      BY <3>1, <3>2, <3>3 DEF Exclusive, Once, Within
  <2> QED
    BY <2>2, <2>3
<1> QED
  BY <1>3 DEF ExclusiveInv

\* A copier of r, which has not begun to copy, gets the buffer x.
LEMMA ExclusiveCopier ==
    ASSUME TypeInv, ExclusiveInv, NEW r \in Relay, NEW s \in Side, NEW x \in 1 .. made + 1, Obtain(x),
           cpbuf' = [cpbuf EXCEPT ![r][s] = x], UNCHANGED <<wsbuf, doubled>>,
           \A t \in Relay : Open(t)' <=> Open(t),
           \A t \in Relay \ {r} : stage'[t] = stage[t],
           stage[r] \in {"buf2", "copy"} \/ \A u \in Side \ {s} : cpbuf[r][u] = NoBuffer
    PROVE  ExclusiveInv'
<1>0. cpbuf \in [Relay -> [Side -> 0 .. made]] /\ made' \in Nat
  BY ObtainEffect, WsTypes DEF TypeInv, WsTypeOK
<1>1. cpbuf'[r][s] = x /\ \A t \in Relay, u \in Side : <<t, u>> # <<r, s>> => cpbuf'[t][u] = cpbuf[t][u]
  BY <1>0
<1>2. ASSUME NEW b \in 1 .. made', NEW t \in Relay, NEW u \in Side
      PROVE  /\ ConnHolds(t, u, b)' <=> ConnHolds(t, u, b)
             /\ CopyHolds(t, u, b)' => CopyHolds(t, u, b) \/ (t = r /\ u = s /\ b = x)
             /\ CopyHolds(r, s, b)' => b = x
  <2>1. b # NoBuffer
    BY <1>0 DEF NoBuffer
  <2> QED
    BY <1>1, <2>1 DEF ConnHolds, CopyHolds
<1>3. ASSUME NEW b \in (1 .. made') \ doubled PROVE Exclusive(b)'
  <2>1. /\ Once(pool', b)
        /\ Within(pool', b) => Within(pool, b) /\ b # x
        /\ b = x => \A t \in Relay, u \in Side : ~ConnHolds(t, u, b) /\ ~CopyHolds(t, u, b)
        /\ b # x => b \in 1 .. made /\ Exclusive(b)
    BY ObtainExclusive
  <2>2. CASE b = x
    BY <1>2, <2>1, <2>2 DEF Exclusive, Once, Within
  <2>3. CASE b # x
    BY <1>2, <2>1, <2>3 DEF Exclusive, Once, Within
  <2> QED
    BY <2>2, <2>3
<1> QED
  BY <1>3 DEF ExclusiveInv

\* Stages that do not matter to who holds what.
LEMMA StageKept ==
    ASSUME TypeInv, NEW r \in Relay, NEW from \in Stage, NEW to \in Stage, stage[r] = from,
           stage' = [stage EXCEPT ![r] = to],
           from \in {"closed", "done"} <=> to \in {"closed", "done"}
    PROVE  /\ \A t \in Relay : Open(t)' <=> Open(t)
           /\ \A t \in Relay \ {r} : stage'[t] = stage[t]
           /\ stage'[r] = to
           /\ (from \in {"buf2", "copy"} <=> to \in {"buf2", "copy"}) =>
                 \A t \in Relay : stage'[t] \in {"buf2", "copy"} <=> stage[t] \in {"buf2", "copy"}
<1>1. stage \in [Relay -> Stage]
  BY WsTypes DEF TypeInv, RelayOK
<1>2. stage'[r] = to /\ \A t \in Relay \ {r} : stage'[t] = stage[t]
  BY <1>1
<1> QED
  BY <1>2 DEF Open

\* Every buffer that a relay is set up with comes from Get.
LEMMA ExclusiveSetup ==
    ASSUME TypeInv, ExclusiveInv, NEW r \in Relay,
           HandleRequest(r) \/ Dial(r) \/ TakeBuffer(r, "client", "buf1", "buf2")
                     \/ TakeBuffer(r, "remote", "buf2", "copy")
    PROVE  ExclusiveInv'
<1>0. UNCHANGED doubled /\ Progress(r)
  BY DEF HandleRequest, Dial, TakeBuffer, history, TypeInv, ProgressInv
<1>1. ASSUME NEW s \in Side, MakeConn(r, s), UNCHANGED cpbuf,
             \A t \in Relay : Open(t)' <=> Open(t),
             \A t \in Relay : stage'[t] \in {"buf2", "copy"} <=> stage[t] \in {"buf2", "copy"}
      PROVE  ExclusiveInv'
  <2>1. CASE s \in WsSides[r]
    <3>1. PICK b \in 1 .. made + 1 : Obtain(b) /\ wsbuf' = [wsbuf EXCEPT ![r][s] = b]
      BY <1>1, <2>1 DEF MakeConn
    <3> QED
      BY <1>0, <1>1, <3>1, ExclusiveConn
  <2>2. CASE s \notin WsSides[r]
    BY <1>0, <1>1, <2>2, ExclusiveKept DEF MakeConn, poolVars
  <2> QED
    BY <2>1, <2>2
<1>2. CASE HandleRequest(r)
  <2>1. PICK to \in {"sniff", "dial"} : stage' = [stage EXCEPT ![r] = to]
    BY <1>2 DEF HandleRequest
  <2>2. stage[r] = "new" /\ MakeConn(r, "client") /\ UNCHANGED cpbuf
    BY <1>2 DEF HandleRequest
  <2>3. /\ \A t \in Relay : Open(t)' <=> Open(t)
        /\ \A t \in Relay : stage'[t] \in {"buf2", "copy"} <=> stage[t] \in {"buf2", "copy"}
    BY <2>1, <2>2, StageKept DEF Stage
  <2> QED
    BY <1>1, <2>2, <2>3 DEF Side
<1>3. CASE Dial(r)
  <2>1. stage[r] = "dial" /\ UNCHANGED cpbuf
    BY <1>3 DEF Dial
  <2>2. CASE MakeConn(r, "remote") /\ stage' = [stage EXCEPT ![r] = "buf1"]
    <3>1. /\ \A t \in Relay : Open(t)' <=> Open(t)
          /\ \A t \in Relay : stage'[t] \in {"buf2", "copy"} <=> stage[t] \in {"buf2", "copy"}
      BY <2>1, <2>2, StageKept DEF Stage
    <3> QED
      BY <1>1, <2>1, <2>2, <3>1 DEF Side
  <2>3. CASE stage' = [stage EXCEPT ![r] = "refused"] /\ UNCHANGED <<poolVars, content, wsbuf>>
    <3>1. /\ \A t \in Relay : Open(t)' <=> Open(t)
          /\ \A t \in Relay : stage'[t] \in {"buf2", "copy"} <=> stage[t] \in {"buf2", "copy"}
      BY <2>1, <2>3, StageKept DEF Stage
    <3> QED
      BY <1>0, <2>1, <2>3, <3>1, ExclusiveKept DEF poolVars
  <2> QED
    BY <1>3, <2>2, <2>3 DEF Dial
<1>4. CASE TakeBuffer(r, "client", "buf1", "buf2")
  <2>1. PICK b \in 1 .. made + 1 : Obtain(b) /\ cpbuf' = [cpbuf EXCEPT ![r]["client"] = b]
    BY <1>4 DEF TakeBuffer
  <2>2. stage[r] = "buf1" /\ stage' = [stage EXCEPT ![r] = "buf2"] /\ UNCHANGED wsbuf
    BY <1>4 DEF TakeBuffer
  <2>3. /\ \A t \in Relay : Open(t)' <=> Open(t)
        /\ \A t \in Relay \ {r} : stage'[t] = stage[t]
    BY <2>2, StageKept DEF Stage
  <2>4. \A u \in Side \ {"client"} : cpbuf[r][u] = NoBuffer
    BY <1>0, <2>2 DEF Progress, CpStages
  <2> QED
    BY <1>0, <2>1, <2>2, <2>3, <2>4, ExclusiveCopier DEF Side
<1>5. CASE TakeBuffer(r, "remote", "buf2", "copy")
  <2>1. PICK b \in 1 .. made + 1 : Obtain(b) /\ cpbuf' = [cpbuf EXCEPT ![r]["remote"] = b]
    BY <1>5 DEF TakeBuffer
  <2>2. stage[r] = "buf2" /\ stage' = [stage EXCEPT ![r] = "copy"] /\ UNCHANGED wsbuf
    BY <1>5 DEF TakeBuffer
  <2>3. /\ \A t \in Relay : Open(t)' <=> Open(t)
        /\ \A t \in Relay \ {r} : stage'[t] = stage[t]
    BY <2>2, StageKept DEF Stage
  <2> QED
    BY <1>0, <2>1, <2>2, <2>3, ExclusiveCopier DEF Side
<1> QED
  BY <1>2, <1>3, <1>4, <1>5

\* copyConn gives its buffers back, and Close those of the connections.
LEMMA ExclusiveClose ==
    ASSUME TypeInv, ExclusiveInv, NEW r \in Relay,
           ReleaseCopyBuffers(r) \/ CloseBoth(r) \/ CloseRemoteAgain(r)
    PROVE  ExclusiveInv'
<1>0. PoolOK /\ made \in Nat /\ pool \in Seq(1 .. made) /\ Len(pool) <= PoolSize
      /\ stage \in [Relay -> Stage] /\ "client" \in Side /\ "remote" \in Side
      /\ UNCHANGED <<wsbuf, cpbuf, made>>
  BY WsTypes DEF TypeInv, PoolOK, RelayOK, Side, ReleaseCopyBuffers, CloseBoth, CloseRemoteAgain
<1>1. \A b \in (1 .. made) \ doubled : Exclusive(b)
  BY DEF ExclusiveInv
<1>2. CASE ReleaseCopyBuffers(r)
  <2> DEFINE y == cpbuf[r]["remote"]
             z == cpbuf[r]["client"]
  <2>1. /\ stage[r] = "copy" /\ stage' = [stage EXCEPT ![r] = "close"]
        /\ pool' = Put(Put(pool, y), z) /\ UNCHANGED doubled
    BY <1>2 DEF ReleaseCopyBuffers, Copying, history
  <2>2. y \in 1 .. made /\ z \in 1 .. made
    BY <1>0, <2>1, BufferRange
  <2>3. stage'[r] = "close" /\ \A t \in Relay \ {r} : stage'[t] = stage[t]
    BY <1>0, <2>1
  <2>4. Put(pool, y) \in Seq(1 .. made) /\ Len(Put(pool, y)) <= PoolSize
    BY <1>0, <2>2, PutEffect
  <2>5. ASSUME NEW b \in (1 .. made) \ doubled PROVE Exclusive(b)'
    <3>1. Exclusive(b)
      BY <1>1
    <3>2. CopyHolds(r, "remote", y) /\ CopyHolds(r, "client", z)
      BY <2>1 DEF CopyHolds
    <3>3. (y = b => ~Within(pool, b)) /\ (z = b => ~Within(pool, b)) /\ ~(y = b /\ z = b)
      BY <1>0, <3>1, <3>2 DEF Exclusive
    <3>4. Once(Put(pool, y), b) /\ (Within(Put(pool, y), b) => Within(pool, b) \/ y = b)
      BY <1>0, <2>2, <3>1, <3>3, PutOnce DEF Exclusive
    <3>5. Once(pool', b) /\ (Within(pool', b) => Within(pool, b) \/ y = b \/ z = b)
      BY <1>0, <2>1, <2>2, <2>4, <3>3, <3>4, PutOnce
    <3>6. ASSUME NEW t \in Relay, NEW u \in Side
          PROVE  /\ ConnHolds(t, u, b)' <=> ConnHolds(t, u, b)
                 /\ CopyHolds(t, u, b)' => CopyHolds(t, u, b) /\ t # r
      BY <1>0, <2>1, <2>3 DEF ConnHolds, CopyHolds, Open
    <3>7. y = b \/ z = b => \A t \in Relay, u \in Side : ~ConnHolds(t, u, b)
                                                       /\ (CopyHolds(t, u, b) => t = r)
      BY <1>0, <3>1, <3>2 DEF Exclusive
    <3>8. Within(pool', b) => \A t \in Relay, u \in Side : ~ConnHolds(t, u, b)' /\ ~CopyHolds(t, u, b)'
      BY <3>1, <3>5, <3>6, <3>7 DEF Exclusive
    <3> QED
      BY <3>1, <3>5, <3>6, <3>8 DEF Exclusive, Once, Within
  <2> QED
    BY <1>0, <2>1, <2>5 DEF ExclusiveInv
<1>3. CASE CloseBoth(r)
  <2> DEFINE y == wsbuf[r]["client"]
             z == wsbuf[r]["remote"]
             ch == PutConn(pool, r, "client")
  <2>1. /\ stage[r] = "close" /\ stage' = [stage EXCEPT ![r] = "closed"]
        /\ pool' = PutConn(ch, r, "remote") /\ UNCHANGED doubled
    BY <1>3 DEF CloseBoth, history
  <2>2. ("client" \in WsSides[r] => y \in 1 .. made) /\ ("remote" \in WsSides[r] => z \in 1 .. made)
    BY <1>0, <2>1, BufferRange DEF WsStages
  <2>3. stage'[r] = "closed" /\ \A t \in Relay \ {r} : stage'[t] = stage[t]
    BY <1>0, <2>1
  <2>4. ch \in Seq(1 .. made) /\ Len(ch) <= PoolSize
    BY <1>0, <2>2, PutEffect DEF PutConn
  <2>5. ASSUME NEW b \in (1 .. made) \ doubled PROVE Exclusive(b)'
    <3>1. Exclusive(b)
      BY <1>1
    <3>2. ConnHolds(r, "client", y) /\ ConnHolds(r, "remote", z)
      BY <2>1 DEF ConnHolds, Open
    <3>3. (y = b => ~Within(pool, b)) /\ (z = b => ~Within(pool, b)) /\ ~(y = b /\ z = b)
      BY <1>0, <3>1, <3>2 DEF Exclusive
    <3>4. Once(ch, b) /\ (Within(ch, b) => Within(pool, b) \/ y = b)
      BY <1>0, <2>2, <3>1, <3>3, PutOnce DEF Exclusive, PutConn
    <3> HIDE DEF ch
    <3>5. Once(pool', b) /\ (Within(pool', b) => Within(pool, b) \/ y = b \/ z = b)
      <4>1. CASE "remote" \in WsSides[r]
        BY <1>0, <2>1, <2>2, <2>4, <3>3, <3>4, <4>1, PutOnce DEF PutConn
      <4>2. CASE "remote" \notin WsSides[r]
        BY <2>1, <3>4, <4>2 DEF PutConn
      <4> QED
        BY <4>1, <4>2
    <3>6. ASSUME NEW t \in Relay, NEW u \in Side
          PROVE  /\ ConnHolds(t, u, b)' => ConnHolds(t, u, b) /\ t # r
                 /\ CopyHolds(t, u, b)' <=> CopyHolds(t, u, b)
      BY <1>0, <2>1, <2>3 DEF ConnHolds, CopyHolds, Open
    <3>7. y = b \/ z = b => \A t \in Relay, u \in Side : ~CopyHolds(t, u, b)
                                                       /\ (ConnHolds(t, u, b) => t = r)
      BY <1>0, <3>1, <3>2 DEF Exclusive
    <3>8. Within(pool', b) => \A t \in Relay, u \in Side : ~ConnHolds(t, u, b)' /\ ~CopyHolds(t, u, b)'
      BY <3>1, <3>5, <3>6, <3>7 DEF Exclusive
    <3> QED
      BY <3>1, <3>5, <3>6, <3>8 DEF Exclusive, Once, Within
  <2> QED
    BY <1>0, <2>1, <2>5 DEF ExclusiveInv
<1>4. CASE CloseRemoteAgain(r)
  <2> DEFINE z == wsbuf[r]["remote"]
  <2>1. /\ stage[r] = "closed" /\ stage' = [stage EXCEPT ![r] = "done"]
        /\ pool' = PutConn(pool, r, "remote")
        /\ doubled' = (IF "remote" \in WsSides[r] THEN doubled \cup {z} ELSE doubled)
    BY <1>4 DEF CloseRemoteAgain
  <2>2. "remote" \in WsSides[r] => z \in 1 .. made
    BY <1>0, <2>1, BufferRange DEF WsStages
  <2>3. stage'[r] = "done" /\ \A t \in Relay \ {r} : stage'[t] = stage[t]
    BY <1>0, <2>1
  <2>4. ASSUME NEW b \in (1 .. made), b \notin doubled' PROVE Exclusive(b)'
    <3>1. b \notin doubled /\ ("remote" \in WsSides[r] => z # b)
      BY <2>1, <2>4
    <3>2. Exclusive(b)
      BY <1>1, <3>1
    <3>3. Once(pool', b) /\ (Within(pool', b) => Within(pool, b))
      <4>1. CASE "remote" \in WsSides[r]
        BY <1>0, <2>1, <2>2, <3>1, <3>2, <4>1, PutOnce DEF PutConn, Exclusive
      <4>2. CASE "remote" \notin WsSides[r]
        BY <2>1, <3>2, <4>2 DEF PutConn, Exclusive
      <4> QED
        BY <4>1, <4>2
    <3>4. ASSUME NEW t \in Relay, NEW u \in Side
          PROVE  /\ ConnHolds(t, u, b)' <=> ConnHolds(t, u, b)
                 /\ CopyHolds(t, u, b)' <=> CopyHolds(t, u, b)
      BY <1>0, <2>1, <2>3 DEF ConnHolds, CopyHolds, Open
    <3> QED
      BY <3>2, <3>3, <3>4 DEF Exclusive, Once, Within
  <2> QED
    BY <1>0, <2>4 DEF ExclusiveInv
<1> QED
  BY <1>2, <1>3, <1>4

\* Exclusiveness is inductive.
LEMMA ExclusiveNext == TypeInv /\ ExclusiveInv /\ [WsNext]_wsVars => ExclusiveInv'
<1> SUFFICES ASSUME TypeInv, ExclusiveInv, [WsNext]_wsVars PROVE ExclusiveInv'
  OBVIOUS
<1>1. ASSUME UNCHANGED <<buffers, stage, doubled>> PROVE ExclusiveInv'
  BY <1>1, ExclusiveKept DEF buffers, poolVars, Open
<1>2. CASE UNCHANGED wsVars
  BY <1>1, <1>2 DEF wsVars, history
<1>3. ASSUME NEW r \in Relay, NEW s \in Side, PeerSends(r, s) \/ Copy(r, s) \/ ReadPeeked(r) \/ HandshakeReads(r)
      PROVE  ExclusiveInv'
  BY <1>1, <1>3 DEF PeerSends, ReadPeeked, HandshakeReads, Copy, ReadRaw, ReadHeader, ReadPayload, Deadline, CopyOut,
                    Write, Exit, history
<1>4. ASSUME NEW r \in Relay, Sniff(r) PROVE ExclusiveInv'
  <2>1. stage[r] = "sniff" /\ UNCHANGED <<buffers, doubled>>
    BY <1>4 DEF Sniff
  <2>2. PICK to \in {"dial", "refused"} : stage' = [stage EXCEPT ![r] = to]
    BY <1>4 DEF Sniff, SniffNothing, SniffRead
  <2>3. /\ \A t \in Relay : Open(t)' <=> Open(t)
        /\ \A t \in Relay : stage'[t] \in {"buf2", "copy"} <=> stage[t] \in {"buf2", "copy"}
    BY <2>1, <2>2, StageKept DEF Stage
  <2> QED
    BY <2>1, <2>3, ExclusiveKept DEF buffers, poolVars
<1> QED
  BY <1>2, <1>3, <1>4, ExclusiveSetup, ExclusiveClose DEF WsNext, Side

\* No slice has been made.
LEMMA ExclusiveInit == WsInit => ExclusiveInv
<1> SUFFICES ASSUME WsInit PROVE ExclusiveInv
  OBVIOUS
<1>1. made = 0 /\ 1 .. 0 = {}
  BY DEF WsInit, InitPool
<1> QED
  BY <1>1 DEF ExclusiveInv

\* In BuffersExclusive a place is a position of the pool, a connection or a copier.
LEMMA ExclusivePlaces == ExclusiveInv => BuffersExclusive
<1> SUFFICES ASSUME ExclusiveInv, NEW b \in (1 .. made) \ doubled, NEW p \in Places(b), NEW q \in Places(b)
             PROVE  p = q
  BY DEF BuffersExclusive
<1>1. Exclusive(b)
  BY DEF ExclusiveInv
<1> DEFINE InPool(x) == \E n \in 1 .. Len(pool) : x = <<"pool", n>> /\ pool[n] = b
           InConn(x) == \E r \in Relay, s \in Side : x = <<"conn", <<r, s>>>> /\ ConnHolds(r, s, b)
           InCopy(x) == \E r \in Relay, s \in Side : x = <<"copy", <<r, s>>>> /\ CopyHolds(r, s, b)
<1>2. ASSUME NEW x \in Places(b) PROVE InPool(x) \/ InConn(x) \/ InCopy(x)
  <2>1. CASE x \in {"pool"} \X {n \in 1 .. Len(pool) : pool[n] = b}
    BY <2>1
  <2>2. CASE x \in {"conn"} \X {c \in Relay \X Side : Open(c[1]) /\ wsbuf[c[1]][c[2]] = b}
    <3>1. PICK c \in Relay \X Side : x = <<"conn", c>> /\ Open(c[1]) /\ wsbuf[c[1]][c[2]] = b
      BY <2>2
    <3> QED
      BY <3>1 DEF ConnHolds
  <2>3. CASE x \in {"copy"} \X {c \in Relay \X Side :
                                   stage[c[1]] \in {"buf2", "copy"} /\ cpbuf[c[1]][c[2]] = b}
    <3>1. PICK c \in Relay \X Side : x = <<"copy", c>> /\ stage[c[1]] \in {"buf2", "copy"}
                                     /\ cpbuf[c[1]][c[2]] = b
      BY <2>3
    <3> QED
      BY <3>1 DEF CopyHolds
  <2> QED
    BY <2>1, <2>2, <2>3 DEF Places
<1>3. ASSUME NEW x, NEW y, InPool(x), InPool(y) PROVE x = y
  BY <1>1, <1>3 DEF Exclusive, Once
<1>4. ASSUME NEW x, NEW y, InConn(x), InConn(y) PROVE x = y
  BY <1>1, <1>4 DEF Exclusive
<1>5. ASSUME NEW x, NEW y, InCopy(x), InCopy(y) PROVE x = y
  BY <1>1, <1>5 DEF Exclusive
<1>6. ASSUME NEW x, NEW y, InPool(x) PROVE ~InConn(y) /\ ~InCopy(y)
  BY <1>1, <1>6 DEF Exclusive, Within
<1>7. ASSUME NEW x, NEW y, InConn(x) PROVE ~InCopy(y)
  BY <1>1, <1>7 DEF Exclusive
<1> HIDE DEF InPool, InConn, InCopy
<1>8. (InPool(p) \/ InConn(p) \/ InCopy(p)) /\ (InPool(q) \/ InConn(q) \/ InCopy(q))
  BY <1>2
<1> QED
  BY <1>3, <1>4, <1>5, <1>6, <1>7, <1>8

\* A buffer is in the pool once, or with one connection, or with one copier,
\* unless a second Close put it into the pool (wsConn.Close puts its buffer
\* every time it is called).
THEOREM Exclusivity == WsSpec => []BuffersExclusive
<1>1. WsInit => TypeInv /\ ExclusiveInv
  BY WsTypeInit, ExclusiveInit
<1>2. TypeInv /\ ExclusiveInv /\ [WsNext]_wsVars => TypeInv' /\ ExclusiveInv'
  BY WsTypeNext, ExclusiveNext
<1>3. TypeInv /\ ExclusiveInv => BuffersExclusive
  BY ExclusivePlaces
<1> QED
  BY <1>1, <1>2, <1>3, PTL DEF WsSpec

-----------------------------------------------------------------------------
(* What the reads of a direction take from its queue.                      *)

\* The rest of whole frames in order is whole frames in order.
LEMMA FollowingTail ==
    ASSUME NEW r \in Relay, NEW d \in Side, NEW q \in Seq(Unit), q # <<>>, Following(q, r, d)
    PROVE  /\ Tail(q) \in Seq(Unit) /\ Len(q) \in Nat \ {0} /\ Len(Tail(q)) = Len(q) - 1
           /\ Following(Tail(q), r, d)
           /\ Tail(q) # <<>> => /\ 1 \in 1 .. Len(q) /\ 2 \in 1 .. Len(q)
                                /\ Tail(q)[1] = q[2] /\ Tail(q)[Len(Tail(q))] = q[Len(q)]
           /\ Tail(q) = <<>> => Len(q) = 1
<1>1. PICK t : t = Tail(q)
  OBVIOUS
<1>2. t \in Seq(Unit) /\ Len(t) = Len(q) - 1 /\ \A k \in 1 .. Len(t) : t[k] = q[k + 1]
  BY <1>1, HeadTailProperties
<1>3. Len(q) \in Nat \ {0}
  BY EmptySeq
<1>4. \A k \in 1 .. Len(t) : k + 1 \in 1 .. Len(q)
  BY <1>2, <1>3
<1>5. \A k \in 1 .. Len(t) : /\ (k + 1) + 1 \in 1 .. Len(q) => k + 1 \in 1 .. Len(t)
                             /\ k + 1 \in 1 .. Len(t) => (k + 1) + 1 \in 1 .. Len(q)
  BY <1>2, <1>3
<1>6. Following(t, r, d)
  <2>1. ASSUME NEW k \in 1 .. Len(t) PROVE t[k].data = Frame(r, d, t[k].data.n)
    BY <1>2, <1>4 DEF Following
  <2>2. ASSUME NEW k \in 1 .. Len(t), t[k].part = "head"
        PROVE  k + 1 \in 1 .. Len(t) /\ t[k + 1].part = "body" /\ t[k + 1].data = t[k].data
    <3>1. /\ (k + 1) + 1 \in 1 .. Len(q) /\ q[(k + 1) + 1].part = "body"
          /\ q[(k + 1) + 1].data = q[k + 1].data
      BY <1>2, <1>4, <2>2 DEF Following
    <3> QED
      BY <1>2, <1>5, <3>1
  <2>3. ASSUME NEW k \in 1 .. Len(t), t[k].part = "body", k + 1 \in 1 .. Len(t)
        PROVE  t[k + 1].data.n = t[k].data.n + 1 /\ (t[k + 1].part = "head" <=> d \in WsSides[r])
    <3>1. q[k + 1].part = "body" /\ (k + 1) + 1 \in 1 .. Len(q) /\ k + 1 \in 1 .. Len(q)
      BY <1>2, <1>4, <1>5, <2>3
    <3>2. q[(k + 1) + 1].data.n = q[k + 1].data.n + 1 /\ (q[(k + 1) + 1].part = "head" <=> d \in WsSides[r])
      BY <3>1 DEF Following
    <3> QED
      BY <1>2, <2>3, <3>2
  <2> QED
    BY <2>1, <2>2, <2>3 DEF Following
<1>7. ASSUME t # <<>>
      PROVE  /\ 1 \in 1 .. Len(q) /\ 2 \in 1 .. Len(q)
             /\ t[1] = q[2] /\ t[Len(t)] = q[Len(q)]
  <2>1. Len(t) \in Nat \ {0}
    BY <1>2, <1>7, EmptySeq
  <2>2. 1 \in 1 .. Len(t) /\ Len(t) \in 1 .. Len(t) /\ Len(t) + 1 = Len(q) /\ 1 + 1 = 2 /\ 2 \in 1 .. Len(q)
        /\ 1 \in 1 .. Len(q)
    BY <1>2, <1>3, <2>1
  <2> QED
    BY <1>2, <2>2
<1>8. ASSUME t = <<>> PROVE Len(q) = 1
  <2>1. Len(t) = 0
    BY <1>8
  <2> QED
    BY <1>2, <1>3, <2>1
<1> QED
  BY <1>1, <1>2, <1>3, <1>6, <1>7, <1>8

\* The number of a frame.
LEMMA FrameNumber ==
    ASSUME NEW r, NEW d, NEW n PROVE Frame(r, d, n).n = n
BY DEF Frame

\* A raw read takes the next frame.
LEMMA QueuedRaw ==
    ASSUME NEW r \in Relay, NEW d \in Side, NEW q \in Seq(Unit), NEW n \in Nat, NEW last \in Nat,
           q # <<>>, d \notin WsSides[r], Queued(q, r, d, n, last, FALSE)
    PROVE  q[1].data = Frame(r, d, n + 1) /\ Queued(Tail(q), r, d, n + 1, last, FALSE)
<1>1. /\ Following(q, r, d) /\ q[1].data = Frame(r, d, n + 1) /\ q[1].part # "head"
      /\ q[Len(q)].data.n = last
  BY DEF Queued
<1>2. PICK t : t = Tail(q)
  OBVIOUS
<1>3. /\ t \in Seq(Unit) /\ Len(q) \in Nat \ {0} /\ Following(t, r, d)
      /\ t # <<>> => /\ 1 \in 1 .. Len(q) /\ 2 \in 1 .. Len(q)
                     /\ t[1] = q[2] /\ t[Len(t)] = q[Len(q)]
      /\ t = <<>> => Len(q) = 1
  BY <1>1, <1>2, FollowingTail
<1>4. q[1].part = "body" /\ q[1].data.n = n + 1
  <2>1. q[1] \in Unit
    BY <1>3, ElementOfSeq
  <2> QED
    BY <1>1, <2>1, FrameNumber DEF Unit
<1>5. ASSUME t # <<>>
      PROVE  /\ t[1].data = Frame(r, d, (n + 1) + 1)
             /\ ~(t[1].part = "head")
             /\ t[Len(t)].data.n = last
  <2>1. q[2].data = Frame(r, d, q[2].data.n) /\ q[2].data.n = q[1].data.n + 1
        /\ (q[2].part = "head" <=> d \in WsSides[r])
    <3>1. 1 + 1 = 2
      OBVIOUS
    <3> QED
      BY <1>1, <1>3, <1>4, <1>5, <3>1 DEF Following
  <2> QED
    BY <1>1, <1>3, <1>4, <1>5, <2>1
<1>6. ASSUME t = <<>> PROVE n + 1 = last
  BY <1>1, <1>3, <1>4, <1>6
<1> QED
  BY <1>1, <1>2, <1>3, <1>5, <1>6 DEF Queued

\* ws.ReadHeader takes the header of the next frame.
LEMMA QueuedHead ==
    ASSUME NEW r \in Relay, NEW d \in Side, NEW q \in Seq(Unit), NEW n \in Nat, NEW last \in Nat,
           q # <<>>, d \in WsSides[r], Queued(q, r, d, n, last, FALSE)
    PROVE  /\ q[1].part = "head" /\ q[1].data = Frame(r, d, n + 1)
           /\ Tail(q) # <<>> /\ Queued(Tail(q), r, d, n, last, TRUE)
<1>1. /\ Following(q, r, d) /\ q[1].data = Frame(r, d, n + 1) /\ q[1].part = "head"
      /\ q[Len(q)].data.n = last
  BY DEF Queued
<1>2. PICK t : t = Tail(q)
  OBVIOUS
<1>3. /\ t \in Seq(Unit) /\ Len(q) \in Nat \ {0} /\ Following(t, r, d)
      /\ t # <<>> => /\ 1 \in 1 .. Len(q) /\ 2 \in 1 .. Len(q)
                     /\ t[1] = q[2] /\ t[Len(t)] = q[Len(q)]
      /\ t = <<>> => Len(q) = 1
  BY <1>1, <1>2, FollowingTail
<1>4. 2 \in 1 .. Len(q) /\ q[2].part = "body" /\ q[2].data = q[1].data
  <2>1. 1 \in 1 .. Len(q) /\ 1 + 1 = 2
    BY <1>3
  <2> QED
    BY <1>1, <2>1 DEF Following
<1>5. t # <<>>
  BY <1>3, <1>4
<1> QED
  BY <1>1, <1>2, <1>3, <1>4, <1>5 DEF Queued

\* io.ReadFull takes its payload.
LEMMA QueuedBody ==
    ASSUME NEW r \in Relay, NEW d \in Side, NEW q \in Seq(Unit), NEW n \in Nat, NEW last \in Nat,
           d \in WsSides[r], Queued(q, r, d, n, last, TRUE)
    PROVE  /\ q # <<>> /\ q[1].data = Frame(r, d, n + 1)
           /\ Queued(Tail(q), r, d, n + 1, last, FALSE)
<1>1. /\ Following(q, r, d) /\ q # <<>> /\ q[1].data = Frame(r, d, n + 1) /\ q[1].part # "head"
      /\ q[Len(q)].data.n = last
  BY DEF Queued
<1>2. PICK t : t = Tail(q)
  OBVIOUS
<1>3. /\ t \in Seq(Unit) /\ Len(q) \in Nat \ {0} /\ Following(t, r, d)
      /\ t # <<>> => /\ 1 \in 1 .. Len(q) /\ 2 \in 1 .. Len(q)
                     /\ t[1] = q[2] /\ t[Len(t)] = q[Len(q)]
      /\ t = <<>> => Len(q) = 1
  BY <1>1, <1>2, FollowingTail
<1>4. q[1].part = "body" /\ q[1].data.n = n + 1
  <2>1. q[1] \in Unit
    BY <1>3, ElementOfSeq
  <2> QED
    BY <1>1, <2>1, FrameNumber DEF Unit
<1>5. ASSUME t # <<>>
      PROVE  /\ t[1].data = Frame(r, d, (n + 1) + 1)
             /\ t[1].part = "head"
             /\ t[Len(t)].data.n = last
  <2>1. q[2].data = Frame(r, d, q[2].data.n) /\ q[2].data.n = q[1].data.n + 1
        /\ (q[2].part = "head" <=> d \in WsSides[r])
    <3>1. 1 + 1 = 2
      OBVIOUS
    <3> QED
      BY <1>1, <1>3, <1>4, <1>5, <3>1 DEF Following
  <2> QED
    BY <1>1, <1>3, <1>4, <1>5, <2>1
<1>6. ASSUME t = <<>> PROVE n + 1 = last
  BY <1>1, <1>3, <1>4, <1>6
<1> QED
  BY <1>1, <1>2, <1>3, <1>5, <1>6 DEF Queued

\* A peer's send adds the frame after the last.
LEMMA QueuedSend ==
    ASSUME NEW r \in Relay, NEW d \in Side, NEW q \in Seq(Unit), NEW n \in Nat, NEW last \in Nat,
           NEW inside \in BOOLEAN, Queued(q, r, d, n, last, inside),
           NEW f \in Seq(Unit), f # <<>>, Queued(f, r, d, last, last + 1, FALSE)
    PROVE  Queued(q \o f, r, d, n, last + 1, inside)
<1>1. PICK t : t = q \o f
  OBVIOUS
<1>2. /\ t \in Seq(Unit) /\ Len(t) = Len(q) + Len(f)
      /\ \A i \in 1 .. Len(t) : t[i] = IF i <= Len(q) THEN q[i] ELSE f[i - Len(q)]
  BY <1>1, ConcatProperties
<1>3. Len(q) \in Nat /\ Len(f) \in Nat \ {0}
  BY EmptySeq, LenProperties
<1>4. ASSUME q = <<>> PROVE Queued(t, r, d, n, last + 1, inside)
  BY <1>1, <1>4, ConcatEmptySeq DEF Queued
<1>5. ASSUME q # <<>> PROVE Queued(t, r, d, n, last + 1, inside)
  <2>1. Len(q) \in Nat \ {0}
    BY <1>3, <1>5, EmptySeq
  <2>2. /\ Following(q, r, d) /\ q[1].data = Frame(r, d, n + 1)
        /\ q[1].part = "head" <=> d \in WsSides[r] /\ ~inside
        /\ q[Len(q)].data.n = last
        /\ Following(f, r, d) /\ f[1].data = Frame(r, d, last + 1)
        /\ f[1].part = "head" <=> d \in WsSides[r]
        /\ f[Len(f)].data.n = last + 1
    BY <1>5 DEF Queued
  <2>3. ASSUME NEW i \in 1 .. Len(q) PROVE i \in 1 .. Len(t) /\ t[i] = q[i]
    <3>1. i \in 1 .. Len(t) /\ i <= Len(q)
      BY <1>2, <1>3
    <3> QED
      BY <1>2, <3>1
  <2>4. ASSUME NEW i \in 1 .. Len(f) PROVE Len(q) + i \in 1 .. Len(t) /\ t[Len(q) + i] = f[i]
    <3>1. Len(q) + i \in 1 .. Len(t) /\ ~(Len(q) + i <= Len(q)) /\ (Len(q) + i) - Len(q) = i
      BY <1>2, <1>3
    <3> QED
      BY <1>2, <3>1
  <2>5. ASSUME NEW k \in 1 .. Len(t) PROVE k \in 1 .. Len(q) \/ \E i \in 1 .. Len(f) : k = Len(q) + i
    <3>1. CASE k <= Len(q)
      BY <1>3, <3>1
    <3>2. CASE ~(k <= Len(q))
      <4>1. k - Len(q) \in 1 .. Len(f) /\ k = Len(q) + (k - Len(q))
        BY <1>2, <1>3, <3>2
      <4> QED
        BY <4>1
    <3> QED
      BY <3>1, <3>2
  <2>6. \A k \in 1 .. Len(q) : q[k] \in Unit
    BY ElementOfSeq
  <2>7. ~(Len(q) + 1 \in 1 .. Len(q)) /\ Len(q) \in 1 .. Len(q) /\ 1 \in 1 .. Len(f)
        /\ 1 \in 1 .. Len(q) /\ Len(f) \in 1 .. Len(f)
    BY <1>3, <2>1
  <2>8. q[Len(q)].part = "body"
    BY <2>2, <2>6, <2>7 DEF Following, Unit
  <2>9. ASSUME NEW k \in 1 .. Len(t) PROVE t[k].data = Frame(r, d, t[k].data.n)
    <3>1. CASE k \in 1 .. Len(q)
      BY <2>2, <2>3, <3>1 DEF Following
    <3>2. ASSUME NEW i \in 1 .. Len(f), k = Len(q) + i PROVE t[k].data = Frame(r, d, t[k].data.n)
      <4>1. t[k] = f[i]
        BY <2>4, <3>2
      <4>2. f[i].data = Frame(r, d, f[i].data.n)
        BY <2>2 DEF Following
      <4> QED
        BY <4>1, <4>2
    <3> QED
      BY <2>5, <3>1, <3>2
  <2>10. ASSUME NEW k \in 1 .. Len(t), t[k].part = "head"
         PROVE  k + 1 \in 1 .. Len(t) /\ t[k + 1].part = "body" /\ t[k + 1].data = t[k].data
    <3>1. CASE k \in 1 .. Len(q)
      <4>1. q[k].part = "head" /\ t[k] = q[k]
        BY <2>3, <2>10, <3>1
      <4>2. k + 1 \in 1 .. Len(q) /\ q[k + 1].part = "body" /\ q[k + 1].data = q[k].data
        BY <2>2, <3>1, <4>1 DEF Following
      <4> QED
        BY <2>3, <4>1, <4>2
    <3>2. ASSUME NEW i \in 1 .. Len(f), k = Len(q) + i
          PROVE  k + 1 \in 1 .. Len(t) /\ t[k + 1].part = "body" /\ t[k + 1].data = t[k].data
      <4>1. i + 1 \in 1 .. Len(f) /\ f[i + 1].part = "body" /\ f[i + 1].data = f[i].data
        BY <2>2, <2>4, <2>10, <3>2, SMTT(30) DEF Following
      <4>2. k + 1 = Len(q) + (i + 1)
        BY <1>3, <3>2
      <4> QED
        BY <2>4, <3>2, <4>1, <4>2
    <3> QED
      BY <2>5, <3>1, <3>2
  <2>11. ASSUME NEW k \in 1 .. Len(t), t[k].part = "body", k + 1 \in 1 .. Len(t)
         PROVE  t[k + 1].data.n = t[k].data.n + 1 /\ (t[k + 1].part = "head" <=> d \in WsSides[r])
    <3>1. CASE k \in 1 .. Len(q) /\ k + 1 \in 1 .. Len(q)
      BY <2>2, <2>3, <2>11, <3>1, SMTT(30) DEF Following
    <3>2. CASE k \in 1 .. Len(q) /\ k + 1 \notin 1 .. Len(q)
      <4>1. k = Len(q)
        BY <1>3, <3>2
      <4>2. t[k].data.n = last
        BY <2>2, <2>3, <3>2, <4>1
      <4>3. t[k + 1] = f[1]
        BY <2>4, <2>7, <4>1
      <4> QED
        BY <2>2, <4>2, <4>3, FrameNumber
    <3>3. ASSUME NEW i \in 1 .. Len(f), k = Len(q) + i
          PROVE  t[k + 1].data.n = t[k].data.n + 1 /\ (t[k + 1].part = "head" <=> d \in WsSides[r])
      <4>1. k + 1 = Len(q) + (i + 1) /\ i + 1 \in 1 .. Len(f)
        BY <1>2, <1>3, <2>11, <3>3
      <4>2. f[i].part = "body"
        BY <2>4, <2>11, <3>3
      <4>3. f[i + 1].data.n = f[i].data.n + 1 /\ (f[i + 1].part = "head" <=> d \in WsSides[r])
        BY <2>2, <4>1, <4>2 DEF Following
      <4> QED
        BY <2>4, <3>3, <4>1, <4>3
    <3> QED
      BY <2>5, <3>1, <3>2, <3>3
  <2>12. Following(t, r, d)
    BY <2>9, <2>10, <2>11 DEF Following
  <2>13. t # <<>> /\ t[1] = q[1] /\ t[Len(t)] = f[Len(f)]
    <3>1. Len(t) # 0
      BY <1>2, <1>3
    <3> QED
      BY <1>2, <2>3, <2>4, <2>7, <3>1
  <2> QED
    BY <2>2, <2>12, <2>13 DEF Queued
<1> QED
  BY <1>1, <1>4, <1>5

\* A frame is a queue of its own.
LEMMA FrameQueued ==
    ASSUME NEW r \in Relay, NEW d \in Side, NEW last \in Nat, NEW h \in Unit, NEW u \in Unit,
           h.part = "head", h.data = Frame(r, d, last + 1),
           u.part = "body", u.data = Frame(r, d, last + 1),
           NEW f, f = IF d \in WsSides[r] THEN <<h, u>> ELSE <<u>>
    PROVE  f \in Seq(Unit) /\ f # <<>> /\ Queued(f, r, d, last, last + 1, FALSE)
<1>1. CASE d \in WsSides[r]
  <2>1. f \in Seq(Unit) /\ f # <<>> /\ Len(f) = 2 /\ f[1] = h /\ f[2] = u
    BY <1>1
  <2>2. 1 .. 2 = {1, 2} /\ 1 + 1 = 2 /\ 2 + 1 = 3 /\ 3 \notin 1 .. 2
    OBVIOUS
  <2>3. h.data.n = last + 1 /\ u.data.n = last + 1
    BY FrameNumber
  <2>4. Following(f, r, d)
    BY <2>1, <2>2, <2>3 DEF Following
  <2> QED
    BY <1>1, <2>1, <2>3, <2>4 DEF Queued
<1>2. CASE d \notin WsSides[r]
  <2>1. f \in Seq(Unit) /\ f # <<>> /\ Len(f) = 1 /\ f[1] = u
    BY <1>2
  <2>2. 1 .. 1 = {1} /\ 1 + 1 = 2 /\ 2 \notin 1 .. 1
    OBVIOUS
  <2>3. u.data.n = last + 1
    BY FrameNumber
  <2>4. Following(f, r, d)
    BY <2>1, <2>2, <2>3 DEF Following
  <2> QED
    BY <1>2, <2>1, <2>3, <2>4 DEF Queued
<1> QED
  BY <1>1, <1>2

-----------------------------------------------------------------------------
(* The frames of a direction, on their way from its peer's queue to the    *)
(* other side.                                                             *)


\* The types of what FlowOK compares.
LEMMA FlowTypes ==
    ASSUME TypeInv, NEW r \in Relay, NEW d \in Side
    PROVE  /\ in[r][d] \in Seq(Unit) /\ sent[r][d] \in Nat
           /\ dlv[r][d] \in Seq(Data) /\ Len(dlv[r][d]) \in Nat
           /\ Skip(r, d) \in Nat /\ Done(r, d) \in Nat /\ Taken(r, d) \in Nat
<1>1. in[r][d] \in Seq(Unit) /\ sent[r][d] \in Nat /\ dlv[r][d] \in Seq(Data)
      /\ skipped[r] \in {0, 1} /\ swallowed[r] \in Nat
  BY DEF TypeInv, WsTypeOK
<1>2. Skip(r, d) \in Nat
  BY <1>1 DEF Skip
<1>3. Len(dlv[r][d]) \in Nat
  BY <1>1, LenProperties
<1>4. Done(r, d) \in Nat
  BY <1>2, <1>3 DEF Done
<1> QED
  BY <1>1, <1>2, <1>3, <1>4 DEF Taken

\* A direction that is sound after a step was so before it.
LEMMA SoundBefore ==
    ASSUME TypeInv, NEW t \in Relay, NEW u \in Side,
           broken \subseteq broken', doubled \subseteq doubled',
           wsbuf'[t][u] = wsbuf[t][u] \/ wsbuf[t][u] = NoBuffer,
           cpbuf'[t][u] = cpbuf[t][u] \/ cpbuf[t][u] = NoBuffer, Sound(t, u)'
    PROVE  Sound(t, u)
<1>1. NoBuffer \notin doubled
  BY DEF TypeInv, WsTypeOK, NoBuffer
<1> QED
  BY <1>1 DEF Sound

\* A direction that copies has its buffers.
LEMMA Copies ==
    ASSUME TypeInv, NEW t \in Relay, NEW u \in Side, Reading(t, u), pc[t][u] # "head"
    PROVE  /\ stage[t] = "copy" /\ cpbuf[t][u] \in 1 .. made
           /\ pc[t][u] \in {"body", "copy"} => wsbuf[t][u] \in 1 .. made
<1>1. Progress(t) /\ stage[t] \in Stage
  BY WsTypes DEF TypeInv, ProgressInv, RelayOK
<1>2. stage[t] = "copy"
  BY <1>1 DEF Reading, Progress, Stage, Early
<1> QED
  BY <1>2, BufferRange

\* A direction that the step leaves alone keeps its flow.
LEMMA FlowKept ==
    ASSUME NEW t \in Relay, NEW u \in Side, FlowOK(t, u), Sound(t, u)' => Sound(t, u),
           UNCHANGED <<dlv[t][u], Skip(t, u)>>,
           Reading(t, u)' => /\ Reading(t, u)
                             /\ UNCHANGED <<in[t][u], sent[t][u], pc[t][u], hdr[t][u]>>
                             /\ u = "client" => UNCHANGED peeked[t],
           Sound(t, u)' /\ Reading(t, u)' =>
              /\ pc[t][u] = "copy" => content'[wsbuf'[t][u]] = content[wsbuf[t][u]]
              /\ pc[t][u] = "write" => content'[cpbuf'[t][u]] = content[cpbuf[t][u]]
    PROVE  FlowOK(t, u)'
<1>1. UNCHANGED Done(t, u)
  BY DEF Done
<1>2. Reading(t, u)' => UNCHANGED Taken(t, u)
  <2>1. Reading(t, u)' => (HoldsFrame(t, u)' <=> HoldsFrame(t, u))
    BY DEF HoldsFrame
  <2> QED
    BY <1>1, <2>1 DEF Taken
<1>3. QueueOK(t, u)'
  <2> SUFFICES ASSUME Sound(t, u)', Reading(t, u)'
               PROVE  /\ Queued(in[t][u], t, u, Taken(t, u), sent[t][u], pc[t][u] = "body")'
                      /\ pc'[t][u] = "body" => hdr'[t][u] # NoHeader
                                               /\ hdr'[t][u].data = Frame(t, u, Taken(t, u)' + 1)
    BY DEF QueueOK
  <2>1. UNCHANGED <<in[t][u], sent[t][u], pc[t][u], hdr[t][u], Taken(t, u)>>
    BY <1>2
  <2>2. /\ Queued(in[t][u], t, u, Taken(t, u), sent[t][u], pc[t][u] = "body")
        /\ pc[t][u] = "body" => hdr[t][u] # NoHeader /\ hdr[t][u].data = Frame(t, u, Taken(t, u) + 1)
    BY DEF FlowOK, QueueOK
  <2> QED
    BY <2>1, <2>2 DEF Queued, Following
<1>4. DeliveredOK(t, u)'
  <2>1. CASE Reading(t, u)'
    BY <1>1, <2>1 DEF FlowOK, DeliveredOK
  <2>2. CASE ~Reading(t, u)'
    BY <2>2 DEF FlowOK, DeliveredOK
  <2> QED
    BY <2>1, <2>2
<1> QED
  BY <1>3, <1>4 DEF FlowOK

\* What one direction writes into its own buffers no other sees.
LEMMA Untouched ==
    ASSUME TypeInv, ExclusiveInv, NEW r \in Relay, NEW d \in Side, NEW t \in Relay, NEW u \in Side,
           <<t, u>> # <<r, d>>, NEW b, ConnHolds(r, d, b) \/ CopyHolds(r, d, b),
           \A k \in 1 .. made : k # b => content'[k] = content[k],
           Sound(t, u), Reading(t, u)
    PROVE  /\ pc[t][u] = "copy" => content'[wsbuf[t][u]] = content[wsbuf[t][u]]
           /\ pc[t][u] = "write" => content'[cpbuf[t][u]] = content[cpbuf[t][u]]
<1>1. ASSUME pc[t][u] = "copy" PROVE content'[wsbuf[t][u]] = content[wsbuf[t][u]]
  <2>1. stage[t] = "copy" /\ wsbuf[t][u] \in 1 .. made
    BY <1>1, Copies
  <2>2. wsbuf[t][u] \notin doubled
    BY DEF Sound
  <2>3. Exclusive(wsbuf[t][u])
    BY <2>1, <2>2 DEF ExclusiveInv
  <2>4. ConnHolds(t, u, wsbuf[t][u])
    BY <2>1 DEF ConnHolds, Open
  <2>5. b # wsbuf[t][u]
    BY <2>3, <2>4 DEF Exclusive
  <2> QED
    BY <2>1, <2>5
<1>2. ASSUME pc[t][u] = "write" PROVE content'[cpbuf[t][u]] = content[cpbuf[t][u]]
  <2>1. stage[t] = "copy" /\ cpbuf[t][u] \in 1 .. made
    BY <1>2, Copies
  <2>2. cpbuf[t][u] \notin doubled
    BY DEF Sound
  <2>3. Exclusive(cpbuf[t][u])
    BY <2>1, <2>2 DEF ExclusiveInv
  <2>4. CopyHolds(t, u, cpbuf[t][u])
    BY <2>1 DEF CopyHolds
  <2>5. b # cpbuf[t][u]
    BY <2>3, <2>4 DEF Exclusive
  <2> QED
    BY <2>1, <2>5
<1> QED
  BY <1>1, <1>2

\* So the other directions are as they were.
LEMMA Elsewhere ==
    ASSUME TypeInv, ExclusiveInv, NEW r \in Relay, NEW d \in Side, NEW t \in Relay, NEW u \in Side,
           FlowOK(t, u), <<t, u>> # <<r, d>>,
           UNCHANGED <<wsbuf, cpbuf, doubled>>, broken \subseteq broken',
           UNCHANGED <<in[t][u], sent[t][u], pc[t][u], hdr[t][u], dlv[t][u]>>,
           u = "client" => UNCHANGED <<peeked[t], skipped[t]>>, u = "remote" => UNCHANGED swallowed[t],
           Reading(t, u)' => Reading(t, u),
           \/ content' = content
           \/ \E b \in 1 .. made : /\ ConnHolds(r, d, b) \/ CopyHolds(r, d, b)
                                   /\ \A k \in 1 .. made : k # b => content'[k] = content[k]
    PROVE  FlowOK(t, u)'
<1>1. Sound(t, u)' => Sound(t, u)
  BY SoundBefore
<1>2. UNCHANGED Skip(t, u)
  BY DEF Skip, Side
<1>3. ASSUME Sound(t, u)', Reading(t, u)'
      PROVE  /\ pc[t][u] = "copy" => content'[wsbuf'[t][u]] = content[wsbuf[t][u]]
             /\ pc[t][u] = "write" => content'[cpbuf'[t][u]] = content[cpbuf[t][u]]
  <2>1. CASE content' = content
    BY <2>1
  <2>2. ASSUME NEW b \in 1 .. made, ConnHolds(r, d, b) \/ CopyHolds(r, d, b),
               \A k \in 1 .. made : k # b => content'[k] = content[k]
        PROVE  /\ pc[t][u] = "copy" => content'[wsbuf'[t][u]] = content[wsbuf[t][u]]
               /\ pc[t][u] = "write" => content'[cpbuf'[t][u]] = content[cpbuf[t][u]]
    BY <1>1, <1>3, <2>2, Untouched
  <2> QED
    BY <2>1, <2>2
<1> QED
  BY <1>1, <1>2, <1>3, FlowKept

\* Taking buffers and giving them back: no direction reads.
LEMMA FlowBuffers ==
    ASSUME TypeInv, FlowInv,
           UNCHANGED <<copier, peeked, skipped, swallowed, broken>>, doubled \subseteq doubled',
           \A t \in Relay, u \in Side :
              /\ wsbuf'[t][u] = wsbuf[t][u] \/ wsbuf[t][u] = NoBuffer
              /\ cpbuf'[t][u] = cpbuf[t][u] \/ cpbuf[t][u] = NoBuffer
              /\ Reading(t, u)' => Reading(t, u) /\ UNCHANGED <<in[t][u], sent[t][u]>>,
           \A k \in 1 .. made : content'[k] = content[k]
    PROVE  FlowInv'
<1> SUFFICES ASSUME NEW t \in Relay, NEW u \in Side PROVE FlowOK(t, u)'
  BY DEF FlowInv
<1>0. FlowOK(t, u) /\ UNCHANGED <<pc, hdr, dlv>>
  BY DEF FlowInv, copier
<1>1. Sound(t, u)' => Sound(t, u)
  BY SoundBefore
<1>2. UNCHANGED Skip(t, u)
  BY DEF Skip
<1>3. ASSUME Reading(t, u)'
      PROVE  /\ pc[t][u] = "copy" => content'[wsbuf'[t][u]] = content[wsbuf[t][u]]
             /\ pc[t][u] = "write" => content'[cpbuf'[t][u]] = content[cpbuf[t][u]]
  <2>1. NoBuffer \notin 1 .. made
    BY DEF NoBuffer
  <2>2. pc[t][u] = "copy" => wsbuf[t][u] \in 1 .. made
    BY <1>3, Copies
  <2>3. pc[t][u] = "write" => cpbuf[t][u] \in 1 .. made
    BY <1>3, Copies
  <2> QED
    BY <2>1, <2>2, <2>3
<1> QED
  BY <1>0, <1>1, <1>2, <1>3, FlowKept

\* Setting a relay up.
LEMMA FlowSetup ==
    ASSUME TypeInv, FlowInv, NEW r \in Relay,
           HandleRequest(r) \/ Dial(r) \/ TakeBuffer(r, "client", "buf1", "buf2")
                     \/ TakeBuffer(r, "remote", "buf2", "copy")
    PROVE  FlowInv'
<1>0. /\ PoolOK /\ RelayOK /\ Progress(r)
      /\ wsbuf \in [Relay -> [Side -> 0 .. made]] /\ cpbuf \in [Relay -> [Side -> 0 .. made]]
      /\ stage \in [Relay -> Stage] /\ "client" \in Side /\ "remote" \in Side
  BY WsTypes DEF TypeInv, ProgressInv, RelayOK, Side
<1>1. UNCHANGED <<peers, peeked, copier, history>>
  BY DEF HandleRequest, Dial, TakeBuffer
<1>2. ASSUME NEW t \in Relay, NEW u \in Side, Reading(t, u)'
      PROVE  Reading(t, u) /\ UNCHANGED <<in[t][u], sent[t][u]>>
  <2>1. UNCHANGED <<pc, in, sent>>
    BY <1>1 DEF copier, peers
  <2>2. stage[r] \notin {"refused", "close", "closed", "done"} /\ (t # r => stage'[t] = stage[t])
    BY <1>0 DEF HandleRequest, Dial, TakeBuffer
  <2> QED
    BY <1>2, <2>1, <2>2 DEF Reading
<1>3. ASSUME \A t \in Relay, u \in Side :
                /\ wsbuf'[t][u] = wsbuf[t][u] \/ wsbuf[t][u] = NoBuffer
                /\ cpbuf'[t][u] = cpbuf[t][u] \/ cpbuf[t][u] = NoBuffer,
             \A k \in 1 .. made : content'[k] = content[k]
      PROVE  FlowInv'
  BY <1>1, <1>2, <1>3, FlowBuffers DEF history
<1>4. ASSUME NEW s \in Side, MakeConn(r, s), UNCHANGED cpbuf, wsbuf[r][s] = NoBuffer PROVE FlowInv'
  <2>1. CASE s \in WsSides[r]
    <3>1. PICK b \in 1 .. made + 1 : Obtain(b) /\ wsbuf' = [wsbuf EXCEPT ![r][s] = b]
      BY <1>4, <2>1 DEF MakeConn
    <3>2. \A k \in 1 .. made : content'[k] = content[k]
      BY <1>0, <3>1, ObtainEffect
    <3>3. \A t \in Relay, u \in Side : <<t, u>> # <<r, s>> => wsbuf'[t][u] = wsbuf[t][u]
      BY <1>0, <3>1
    <3> QED
      BY <1>3, <1>4, <3>2, <3>3
  <2>2. CASE s \notin WsSides[r]
    BY <1>3, <1>4, <2>2 DEF MakeConn
  <2> QED
    BY <2>1, <2>2
<1>5. ASSUME NEW s \in Side, NEW b \in 1 .. made + 1, Obtain(b), cpbuf' = [cpbuf EXCEPT ![r][s] = b],
             UNCHANGED wsbuf, cpbuf[r][s] = NoBuffer
      PROVE  FlowInv'
  <2>1. \A k \in 1 .. made : content'[k] = content[k]
    BY <1>0, <1>5, ObtainEffect
  <2>2. \A t \in Relay, u \in Side : <<t, u>> # <<r, s>> => cpbuf'[t][u] = cpbuf[t][u]
    BY <1>0, <1>5
  <2> QED
    BY <1>3, <1>5, <2>1, <2>2
<1>6. CASE HandleRequest(r)
  <2>1. stage[r] = "new" /\ MakeConn(r, "client") /\ UNCHANGED cpbuf
    BY <1>6 DEF HandleRequest
  <2>2. wsbuf[r]["client"] = NoBuffer
    BY <1>0, <2>1 DEF Progress, WsStages
  <2> QED
    BY <1>0, <1>4, <2>1, <2>2
<1>7. CASE Dial(r)
  <2>1. stage[r] = "dial" /\ UNCHANGED cpbuf
    BY <1>7 DEF Dial
  <2>2. wsbuf[r]["remote"] = NoBuffer
    BY <1>0, <2>1 DEF Progress, WsStages
  <2>3. CASE MakeConn(r, "remote")
    BY <1>0, <1>4, <2>1, <2>2, <2>3
  <2>4. CASE UNCHANGED <<poolVars, content, wsbuf>>
    BY <1>3, <2>1, <2>4
  <2> QED
    BY <1>7, <2>3, <2>4 DEF Dial
<1>8. CASE TakeBuffer(r, "client", "buf1", "buf2")
  <2>1. stage[r] = "buf1" /\ UNCHANGED wsbuf
    BY <1>8 DEF TakeBuffer
  <2>2. PICK b \in 1 .. made + 1 : Obtain(b) /\ cpbuf' = [cpbuf EXCEPT ![r]["client"] = b]
    BY <1>8 DEF TakeBuffer
  <2>3. cpbuf[r]["client"] = NoBuffer
    BY <1>0, <2>1 DEF Progress, CpStages
  <2> QED
    BY <1>0, <1>5, <2>1, <2>2, <2>3
<1>9. CASE TakeBuffer(r, "remote", "buf2", "copy")
  <2>1. stage[r] = "buf2" /\ UNCHANGED wsbuf
    BY <1>9 DEF TakeBuffer
  <2>2. PICK b \in 1 .. made + 1 : Obtain(b) /\ cpbuf' = [cpbuf EXCEPT ![r]["remote"] = b]
    BY <1>9 DEF TakeBuffer
  <2>3. cpbuf[r]["remote"] = NoBuffer
    BY <1>0, <2>1 DEF Progress, CpStages
  <2> QED
    BY <1>0, <1>5, <2>1, <2>2, <2>3
<1> QED
  BY <1>6, <1>7, <1>8, <1>9

\* Taking a relay down.
LEMMA FlowClose ==
    ASSUME TypeInv, FlowInv, NEW r \in Relay,
           ReleaseCopyBuffers(r) \/ CloseBoth(r) \/ CloseRemoteAgain(r)
    PROVE  FlowInv'
<1>1. stage \in [Relay -> Stage] /\ in \in [Relay -> [Side -> Seq(Unit)]]
  BY WsTypes DEF TypeInv, RelayOK, PeersOK
<1>2. UNCHANGED <<sent, wsbuf, cpbuf, content, peeked, copier, skipped, swallowed, broken>> /\ doubled \subseteq doubled'
  BY DEF ReleaseCopyBuffers, CloseBoth, CloseRemoteAgain, peers, history
<1>3. PICK to \in {"close", "closed", "done"} : stage' = [stage EXCEPT ![r] = to]
  BY DEF ReleaseCopyBuffers, CloseBoth, CloseRemoteAgain
<1>4. stage'[r] = to /\ \A t \in Relay \ {r} : stage'[t] = stage[t]
  BY <1>1, <1>3
<1>5. \A t \in Relay \ {r} : in'[t] = in[t]
  BY <1>1 DEF ReleaseCopyBuffers, CloseBoth, CloseRemoteAgain, peers
<1>6. ASSUME NEW t \in Relay, NEW u \in Side, Reading(t, u)'
      PROVE  Reading(t, u) /\ UNCHANGED <<in[t][u], sent[t][u]>>
  <2>1. t # r
    BY <1>4, <1>6 DEF Reading
  <2> QED
    BY <1>2, <1>4, <1>5, <1>6, <2>1 DEF Reading, copier
<1> QED
  BY <1>2, <1>6, FlowBuffers

\* A peer sends.
LEMMA FlowSend ==
    ASSUME TypeInv, ExclusiveInv, FlowInv, NEW r \in Relay, NEW s \in Side, PeerSends(r, s)
    PROVE  FlowInv'
<1> DEFINE n == sent[r][s] + 1
           unit(part) == [part |-> part, size |-> script[r][s][n],
                          data |-> [relay |-> r, side |-> s, n |-> n]]
           frame == IF s \in WsSides[r] THEN <<unit("head"), unit("body")>> ELSE <<unit("body")>>
           q == in[r][s]
<1>0. PeersOK /\ in \in [Relay -> [Side -> Seq(Unit)]] /\ sent \in [Relay -> [Side -> Nat]]
      /\ q \in Seq(Unit) /\ Taken(r, s) \in Nat /\ sent[r][s] \in Nat
  BY WsTypes, FlowTypes DEF TypeInv, PeersOK
<1>1. n \in Nat \ {0} /\ n <= Len(script[r][s])
  BY <1>0 DEF PeerSends
<1>2. script[r][s][n] \in Size
  <2>1. script[r][s] \in Seq(Size)
    BY <1>0, WsAssumption DEF PeersOK
  <2> QED
    BY <1>1, <2>1, ElementOfSeq
<1>3. unit("head") \in Unit /\ unit("body") \in Unit
  BY <1>1, <1>2 DEF Unit, Data
<1>4. /\ unit("head").part = "head" /\ unit("head").data = Frame(r, s, sent[r][s] + 1)
      /\ unit("body").part = "body" /\ unit("body").data = Frame(r, s, sent[r][s] + 1)
  BY DEF Frame
<1>5. frame \in Seq(Unit) /\ frame # <<>> /\ Queued(frame, r, s, sent[r][s], n, FALSE)
  <2> HIDE DEF unit
  <2> QED
    BY <1>0, <1>3, <1>4, FrameQueued
<1>6. sent' = [sent EXCEPT ![r][s] = n] /\ in' = [in EXCEPT ![r][s] = q \o frame]
      /\ UNCHANGED <<wsbuf, cpbuf, content, stage, peeked, pc, hdr, dlv, skipped, swallowed, broken, doubled>>
  BY <1>0 DEF PeerSends, buffers, copier, history
<1> HIDE DEF frame
<1>7. q \o frame \in Seq(Unit)
  BY <1>0, <1>5, ConcatProperties
<1>8. /\ in'[r][s] = q \o frame /\ sent'[r][s] = n
      /\ \A t \in Relay, u \in Side : <<t, u>> # <<r, s>> => in'[t][u] = in[t][u] /\ sent'[t][u] = sent[t][u]
  <2>1. in'[r][s] = q \o frame /\ \A t \in Relay, u \in Side : <<t, u>> # <<r, s>> => in'[t][u] = in[t][u]
    BY <1>0, <1>6, <1>7, Assign
  <2>2. sent'[r][s] = n /\ \A t \in Relay, u \in Side : <<t, u>> # <<r, s>> => sent'[t][u] = sent[t][u]
    BY <1>0, <1>1, <1>6, Assign
  <2> QED
    BY <2>1, <2>2
<1>9. ASSUME NEW t \in Relay, NEW u \in Side, <<t, u>> # <<r, s>> PROVE FlowOK(t, u)'
  <2>1. FlowOK(t, u)
    BY DEF FlowInv
  <2>2. Reading(t, u)' => Reading(t, u)
    BY <1>6 DEF Reading
  <2>3. UNCHANGED <<in[t][u], sent[t][u], pc[t][u], hdr[t][u], dlv[t][u]>>
    BY <1>6, <1>8, <1>9
  <2>4. UNCHANGED <<wsbuf, cpbuf, doubled, broken, content, peeked, skipped, swallowed>>
    BY <1>6
  <2> QED
    BY <1>9, <2>1, <2>2, <2>3, <2>4, Elsewhere
<1>10. FlowOK(r, s)'
  <2>1. FlowOK(r, s)
    BY DEF FlowInv
  <2>2. /\ Sound(r, s)' <=> Sound(r, s)
        /\ Reading(r, s)' <=> Reading(r, s)
        /\ UNCHANGED <<Done(r, s), Skip(r, s)>>
        /\ HoldsFrame(r, s)' <=> HoldsFrame(r, s)
    BY <1>6 DEF Sound, Reading, Done, Skip, HoldsFrame
  <2>3. UNCHANGED Taken(r, s)
    BY <2>2 DEF Taken
  <2>4. DeliveredOK(r, s)'
    BY <1>6, <2>1, <2>2 DEF FlowOK, DeliveredOK
  <2>5. ASSUME Sound(r, s), Reading(r, s)
        PROVE  Queued(q \o frame, r, s, Taken(r, s), n, pc[r][s] = "body")
    <3>1. Queued(q, r, s, Taken(r, s), sent[r][s], pc[r][s] = "body")
      BY <2>1, <2>5 DEF FlowOK, QueueOK
    <3> QED
      BY <1>0, <1>5, <3>1, QueuedSend
  <2>6. QueueOK(r, s)'
    <3> SUFFICES ASSUME Sound(r, s)', Reading(r, s)'
                 PROVE  /\ Queued(in[r][s], r, s, Taken(r, s), sent[r][s], pc[r][s] = "body")'
                        /\ pc'[r][s] = "body" => hdr'[r][s] # NoHeader
                                                 /\ hdr'[r][s].data = Frame(r, s, Taken(r, s)' + 1)
      BY DEF QueueOK
    <3>1. Queued(in'[r][s], r, s, Taken(r, s)', sent'[r][s], pc[r][s] = "body")
      BY <1>8, <2>2, <2>3, <2>5
    <3> QED
      BY <1>6, <2>1, <2>2, <2>3, <3>1 DEF FlowOK, QueueOK, Queued, Following
  <2> QED
    BY <2>4, <2>6 DEF FlowOK
<1> QED
  BY <1>9, <1>10 DEF FlowInv

\* What FlowOK says at each place of a copier.
LEMMA FlowFacts ==
    ASSUME TypeInv, NEW r \in Relay, NEW d \in Side, FlowOK(r, d), Sound(r, d), Reading(r, d)
    PROVE  /\ pc[r][d] # "head" => Reads(r, d)
           /\ pc[r][d] = "head" /\ Reads(r, d) =>
                 Queued(in[r][d], r, d, Done(r, d), sent[r][d], FALSE)
           /\ pc[r][d] = "body" => /\ Queued(in[r][d], r, d, Done(r, d), sent[r][d], TRUE)
                                   /\ hdr[r][d] # NoHeader /\ hdr[r][d].data = Frame(r, d, Done(r, d) + 1)
           /\ pc[r][d] \in {"copy", "write"} =>
                 Queued(in[r][d], r, d, Done(r, d) + 1, sent[r][d], FALSE)
           /\ pc[r][d] = "copy" => content[wsbuf[r][d]] = Frame(r, d, Done(r, d) + 1)
           /\ pc[r][d] = "write" => content[cpbuf[r][d]] = Frame(r, d, Done(r, d) + 1)
           /\ ~Reads(r, d) => /\ Queued(in[r][d], r, d, Done(r, d) + 1, sent[r][d], FALSE)
                              /\ peeked[r] = Frame(r, d, Done(r, d) + 1)
<1>1. /\ Queued(in[r][d], r, d, Taken(r, d), sent[r][d], pc[r][d] = "body")
      /\ pc[r][d] = "body" => hdr[r][d] # NoHeader /\ hdr[r][d].data = Frame(r, d, Taken(r, d) + 1)
  BY DEF FlowOK, QueueOK
<1>2. /\ pc[r][d] = "copy" => content[wsbuf[r][d]] = Frame(r, d, Done(r, d) + 1)
      /\ pc[r][d] = "write" => content[cpbuf[r][d]] = Frame(r, d, Done(r, d) + 1)
      /\ ~Reads(r, d) => pc[r][d] = "head" /\ peeked[r] = Frame(r, d, Done(r, d) + 1)
  BY DEF FlowOK, DeliveredOK, Reads
<1>3. HoldsFrame(r, d) <=> ~Reads(r, d) \/ pc[r][d] \in {"copy", "write"}
  BY DEF HoldsFrame, Reads
<1>4. CASE pc[r][d] = "body"
  <2>1. Taken(r, d) = Done(r, d)
    BY <1>2, <1>3, <1>4 DEF Taken
  <2>2. Queued(in[r][d], r, d, Done(r, d), sent[r][d], TRUE)
    BY <1>1, <1>4, <2>1 DEF Queued
  <2> QED
    BY <1>1, <1>2, <1>4, <2>1, <2>2
<1>5. CASE pc[r][d] # "body" /\ HoldsFrame(r, d)
  <2>1. Taken(r, d) = Done(r, d) + 1
    BY <1>5 DEF Taken
  <2>2. Queued(in[r][d], r, d, Done(r, d) + 1, sent[r][d], FALSE)
    BY <1>1, <1>5, <2>1 DEF Queued
  <2> QED
    BY <1>2, <1>3, <1>5, <2>2
<1>6. CASE pc[r][d] # "body" /\ ~HoldsFrame(r, d)
  <2>1. Taken(r, d) = Done(r, d)
    BY <1>6 DEF Taken
  <2>2. Queued(in[r][d], r, d, Done(r, d), sent[r][d], FALSE)
    BY <1>1, <1>6, <2>1 DEF Queued
  <2> QED
    BY <1>2, <1>3, <1>6, <2>2
<1> QED
  BY <1>4, <1>5, <1>6

\* And what a step that delivers nothing has to make true.
LEMMA OwnFlow ==
    ASSUME NEW r \in Relay, NEW d \in Side, FlowOK(r, d), Sound(r, d)' => Sound(r, d),
           UNCHANGED <<dlv[r][d], Skip(r, d), wsbuf, cpbuf>>,
           Sound(r, d)' /\ Reading(r, d)' =>
              /\ Reads(r, d)'
              /\ \/ /\ pc'[r][d] = "body"
                    /\ Queued(in'[r][d], r, d, Done(r, d), sent'[r][d], TRUE)
                    /\ hdr'[r][d] # NoHeader /\ hdr'[r][d].data = Frame(r, d, Done(r, d) + 1)
                 \/ /\ pc'[r][d] = "copy"
                    /\ Queued(in'[r][d], r, d, Done(r, d) + 1, sent'[r][d], FALSE)
                    /\ content'[wsbuf[r][d]] = Frame(r, d, Done(r, d) + 1)
                 \/ /\ pc'[r][d] = "write"
                    /\ Queued(in'[r][d], r, d, Done(r, d) + 1, sent'[r][d], FALSE)
                    /\ content'[cpbuf[r][d]] = Frame(r, d, Done(r, d) + 1)
    PROVE  FlowOK(r, d)'
<1>1. UNCHANGED Done(r, d)
  BY DEF Done
<1>2. ASSUME Sound(r, d)'
      PROVE  (\A n \in 1 .. Len(dlv[r][d]) : dlv[r][d][n] = Frame(r, d, n + Skip(r, d)))'
  BY <1>2 DEF FlowOK, DeliveredOK
<1>3. ASSUME Sound(r, d)', Reading(r, d)'
      PROVE  /\ Queued(in[r][d], r, d, Taken(r, d), sent[r][d], pc[r][d] = "body")'
             /\ pc'[r][d] = "body" => hdr'[r][d] # NoHeader
                                      /\ hdr'[r][d].data = Frame(r, d, Taken(r, d)' + 1)
             /\ pc'[r][d] = "copy" => content'[wsbuf'[r][d]] = Frame(r, d, Done(r, d)' + 1)
             /\ pc'[r][d] = "write" => content'[cpbuf'[r][d]] = Frame(r, d, Done(r, d)' + 1)
             /\ ~(d = "client" /\ peeked'[r] # Junk)
  <2>1. Reads(r, d)'
    BY <1>3
  <2>2. HoldsFrame(r, d)' <=> pc'[r][d] \in {"copy", "write"}
    BY <2>1 DEF HoldsFrame, Reads
  <2>3. CASE pc'[r][d] = "body"
    <3>1. Taken(r, d)' = Done(r, d)
      BY <1>1, <2>2, <2>3 DEF Taken
    <3>2. Queued(in'[r][d], r, d, Done(r, d), sent'[r][d], TRUE)
          /\ hdr'[r][d] # NoHeader /\ hdr'[r][d].data = Frame(r, d, Done(r, d) + 1)
      BY <1>3, <2>3
    <3> QED
      BY <2>1, <2>3, <3>1, <3>2 DEF Reads, Queued, Following
  <2>4. CASE pc'[r][d] \in {"copy", "write"}
    <3>1. Taken(r, d)' = Done(r, d) + 1
      BY <1>1, <2>2, <2>4 DEF Taken
    <3>2. Queued(in'[r][d], r, d, Done(r, d) + 1, sent'[r][d], FALSE)
      BY <1>3, <2>4
    <3>3. Queued(in[r][d], r, d, Taken(r, d), sent[r][d], pc[r][d] = "body")'
      BY <2>4, <3>1, <3>2 DEF Queued, Following
    <3> QED
      BY <1>1, <1>3, <2>1, <2>4, <3>3 DEF Reads
  <2> QED
    BY <1>3, <2>3, <2>4
<1> QED
  BY <1>2, <1>3 DEF FlowOK, QueueOK, DeliveredOK

\* A step of one copier.
LEMMA CopierFlow ==
    ASSUME TypeInv, ExclusiveInv, FlowInv, NEW r \in Relay, NEW d \in Side,
           UNCHANGED <<sent, wsbuf, cpbuf, stage, skipped, swallowed, doubled>>, broken \subseteq broken',
           \A t \in Relay, u \in Side : <<t, u>> # <<r, d>> =>
              UNCHANGED <<in[t][u], pc[t][u], hdr[t][u], dlv[t][u]>>,
           \A t \in Relay : <<t, "client">> # <<r, d>> => UNCHANGED peeked[t],
           \/ content' = content
           \/ \E b \in 1 .. made : /\ ConnHolds(r, d, b) \/ CopyHolds(r, d, b)
                                   /\ \A k \in 1 .. made : k # b => content'[k] = content[k],
           FlowOK(r, d)'
    PROVE  FlowInv'
<1>1. ASSUME NEW t \in Relay, NEW u \in Side, <<t, u>> # <<r, d>> PROVE FlowOK(t, u)'
  <2>1. FlowOK(t, u)
    BY DEF FlowInv
  <2>2. Reading(t, u)' => Reading(t, u)
    BY <1>1 DEF Reading
  <2>3. UNCHANGED <<in[t][u], sent[t][u], pc[t][u], hdr[t][u], dlv[t][u]>>
    BY <1>1
  <2>4. u = "client" => UNCHANGED <<peeked[t], skipped[t]>>
    BY <1>1
  <2> QED
    BY <1>1, <2>1, <2>2, <2>3, <2>4, Elsewhere
<1> QED
  BY <1>1 DEF FlowInv

\* Each action of a copier moves its frame one place on.
LEMMA FlowCopy ==
    ASSUME TypeInv, ExclusiveInv, FlowInv, NEW r \in Relay, NEW d \in Side, Copy(r, d)
    PROVE  FlowInv'
<1> DEFINE q == in[r][d]
<1>0. PoolOK /\ PeersOK /\ RelayOK /\ CopierOK /\ Progress(r) /\ FlowOK(r, d)
  BY WsTypes DEF TypeInv, ProgressInv, FlowInv
<1>1. /\ in \in [Relay -> [Side -> Seq(Unit)]] /\ q \in Seq(Unit)
      /\ pc \in [Relay -> [Side -> {"head", "body", "copy", "write", "exited"}]]
      /\ hdr \in [Relay -> [Side -> Unit \cup {NoHeader}]] /\ dlv \in [Relay -> [Side -> Seq(Data)]]
      /\ content \in Seq(Data) /\ Len(content) = made
      /\ Done(r, d) \in Nat /\ sent[r][d] \in Nat
  BY <1>0, FlowTypes DEF PoolOK, PeersOK, CopierOK
<1>2. /\ stage[r] = "copy" /\ UNCHANGED <<script, sent, wsbuf, cpbuf, stage, peeked, skipped, swallowed, doubled>>
      /\ broken \subseteq broken'
  BY DEF Copy, ReadRaw, ReadHeader, ReadPayload, Deadline, CopyOut, Write, Exit, Copying, buffers, history, peers
<1>3. ASSUME NEW l \in {"head", "body", "copy", "write", "exited"}, Goto(r, d, l)
      PROVE  /\ pc'[r][d] = l
             /\ \A t \in Relay, u \in Side : <<t, u>> # <<r, d>> => pc'[t][u] = pc[t][u]
  BY <1>1, <1>3, Assign DEF Goto
<1>4. ASSUME NEW z \in Seq(Unit), in' = [in EXCEPT ![r][d] = z]
      PROVE  /\ in'[r][d] = z
             /\ \A t \in Relay, u \in Side : <<t, u>> # <<r, d>> => in'[t][u] = in[t][u]
  BY <1>1, <1>4, Assign
<1>5. ASSUME NEW z \in Unit \cup {NoHeader}, hdr' = [hdr EXCEPT ![r][d] = z]
      PROVE  /\ hdr'[r][d] = z
             /\ \A t \in Relay, u \in Side : <<t, u>> # <<r, d>> => hdr'[t][u] = hdr[t][u]
  BY <1>1, <1>5, Assign
<1>6. ASSUME q # <<>>, Consume(r, d)
      PROVE  /\ in'[r][d] = Tail(q) /\ Head(q) = q[1] /\ Head(q) \in Unit /\ Head(q).data \in Data
             /\ \A t \in Relay, u \in Side : <<t, u>> # <<r, d>> => in'[t][u] = in[t][u]
  <2>1. Tail(q) \in Seq(Unit) /\ Head(q) = q[1] /\ Head(q) \in Unit /\ Head(q).data \in Data
    BY <1>6, QueueType
  <2>2. in' = [in EXCEPT ![r][d] = Tail(q)]
    BY <1>1, <1>6 DEF Consume
  <2> QED
    BY <1>4, <2>1, <2>2
<1>7. Sound(r, d)' => Sound(r, d)
  BY <1>2, SoundBefore
<1>8. Sound(r, d) /\ pc[r][d] # "exited" => Reading(r, d)
  BY <1>2 DEF Reading
<1>9. UNCHANGED Skip(r, d) /\ (Reads(r, d)' <=> Reads(r, d))
  BY <1>2 DEF Skip, Reads
<1>10. ASSUME NEW b \in 1 .. made, b = wsbuf[r][d] \/ b = cpbuf[r][d], NEW x \in Data,
              content' = [content EXCEPT ![b] = x]
       PROVE  /\ content'[b] = x
              /\ \E k \in 1 .. made : /\ ConnHolds(r, d, k) \/ CopyHolds(r, d, k)
                                      /\ \A j \in 1 .. made : j # k => content'[j] = content[j]
  <2>1. content'[b] = x /\ \A j \in 1 .. made : j # b => content'[j] = content[j]
    BY <1>0, <1>10, WriteEffect
  <2>2. ConnHolds(r, d, b) \/ CopyHolds(r, d, b)
    BY <1>2, <1>10 DEF ConnHolds, CopyHolds, Open
  <2> QED
    BY <2>1, <2>2
<1>11. CASE ReadRaw(r, d)
  <2>1. /\ pc[r][d] = "head" /\ Reads(r, d) /\ d \notin WsSides[r] /\ q # <<>>
        /\ content' = [content EXCEPT ![cpbuf[r][d]] = Head(q).data]
        /\ Consume(r, d) /\ Goto(r, d, "write") /\ UNCHANGED <<hdr, dlv>>
    BY <1>11 DEF ReadRaw, Copying
  <2>2. /\ in'[r][d] = Tail(q) /\ Head(q) = q[1] /\ Head(q).data \in Data
        /\ \A t \in Relay, u \in Side : <<t, u>> # <<r, d>> => in'[t][u] = in[t][u]
    BY <1>6, <2>1
  <2>3. cpbuf[r][d] \in 1 .. made
    BY <1>2, BufferRange
  <2>4. /\ content'[cpbuf[r][d]] = Head(q).data
        /\ \E k \in 1 .. made : /\ ConnHolds(r, d, k) \/ CopyHolds(r, d, k)
                                /\ \A j \in 1 .. made : j # k => content'[j] = content[j]
    BY <1>10, <2>1, <2>2, <2>3
  <2>5. pc'[r][d] = "write" /\ \A t \in Relay, u \in Side : <<t, u>> # <<r, d>> => pc'[t][u] = pc[t][u]
    BY <1>3, <2>1
  <2>6. ASSUME Sound(r, d)
        PROVE  /\ Queued(in'[r][d], r, d, Done(r, d) + 1, sent'[r][d], FALSE)
               /\ content'[cpbuf[r][d]] = Frame(r, d, Done(r, d) + 1)
    <3>1. Queued(q, r, d, Done(r, d), sent[r][d], FALSE)
      BY <1>0, <1>8, <2>1, <2>6, FlowFacts
    <3>2. q[1].data = Frame(r, d, Done(r, d) + 1) /\ Queued(Tail(q), r, d, Done(r, d) + 1, sent[r][d], FALSE)
      BY <1>1, <2>1, <3>1, QueuedRaw
    <3> QED
      BY <1>2, <2>2, <2>4, <3>2
  <2>7. FlowOK(r, d)'
    BY <1>0, <1>2, <1>7, <1>9, <2>1, <2>5, <2>6, OwnFlow
  <2> QED
    BY <1>2, <2>1, <2>2, <2>4, <2>5, <2>7, CopierFlow
<1>12. CASE ReadHeader(r, d)
  <2>1. /\ pc[r][d] = "head" /\ Reads(r, d) /\ d \in WsSides[r] /\ q # <<>>
        /\ Consume(r, d) /\ UNCHANGED <<content, dlv>>
    BY <1>12 DEF ReadHeader, Copying
  <2>2. /\ in'[r][d] = Tail(q) /\ Head(q) = q[1] /\ Head(q) \in Unit
        /\ \A t \in Relay, u \in Side : <<t, u>> # <<r, d>> => in'[t][u] = in[t][u]
    BY <1>6, <2>1
  <2>3. ASSUME Sound(r, d)
        PROVE  /\ q[1].part = "head" /\ q[1].data = Frame(r, d, Done(r, d) + 1)
               /\ Queued(in'[r][d], r, d, Done(r, d), sent'[r][d], TRUE)
    <3>1. Queued(q, r, d, Done(r, d), sent[r][d], FALSE)
      BY <1>0, <1>8, <2>1, <2>3, FlowFacts
    <3>2. /\ q[1].part = "head" /\ q[1].data = Frame(r, d, Done(r, d) + 1)
          /\ Queued(Tail(q), r, d, Done(r, d), sent[r][d], TRUE)
      BY <1>1, <2>1, <3>1, QueuedHead
    <3> QED
      BY <1>2, <2>2, <3>2
  <2>4. CASE hdr' = [hdr EXCEPT ![r][d] = Head(q)] /\ Goto(r, d, "body")
    <3>1. hdr'[r][d] = q[1] /\ \A t \in Relay, u \in Side : <<t, u>> # <<r, d>> => hdr'[t][u] = hdr[t][u]
      BY <1>5, <2>2, <2>4
    <3>2. pc'[r][d] = "body" /\ \A t \in Relay, u \in Side : <<t, u>> # <<r, d>> => pc'[t][u] = pc[t][u]
      BY <1>3, <2>4
    <3>3. q[1] # NoHeader
      BY <2>2, Junks
    <3>4. FlowOK(r, d)'
      BY <1>0, <1>2, <1>7, <1>9, <2>1, <2>3, <3>1, <3>2, <3>3, OwnFlow
    <3> QED
      BY <1>2, <2>1, <2>2, <3>1, <3>2, <3>4, CopierFlow
  <2>5. CASE Head(q).part = "body" /\ hdr' = [hdr EXCEPT ![r][d] = NoHeader] /\ Goto(r, d, "body")
    <3>1. \A t \in Relay, u \in Side : <<t, u>> # <<r, d>> => hdr'[t][u] = hdr[t][u]
      BY <1>5, <2>5
    <3>2. \A t \in Relay, u \in Side : <<t, u>> # <<r, d>> => pc'[t][u] = pc[t][u]
      BY <1>3, <2>5
    <3>3. ~Sound(r, d)
      BY <2>2, <2>3, <2>5
    <3>4. FlowOK(r, d)'
      BY <1>0, <1>2, <1>7, <1>9, <2>1, <3>3, OwnFlow
    <3> QED
      BY <1>2, <2>1, <2>2, <3>1, <3>2, <3>4, CopierFlow
  <2>6. CASE UNCHANGED hdr /\ Goto(r, d, "exited")
    <3>1. pc'[r][d] = "exited" /\ \A t \in Relay, u \in Side : <<t, u>> # <<r, d>> => pc'[t][u] = pc[t][u]
      BY <1>3, <2>6
    <3>2. ~Reading(r, d)'
      BY <3>1 DEF Reading
    <3>3. FlowOK(r, d)'
      BY <1>0, <1>2, <1>7, <1>9, <2>1, <3>2, OwnFlow
    <3> QED
      BY <1>2, <2>1, <2>2, <2>6, <3>1, <3>3, CopierFlow
  <2> QED
    BY <1>12, <2>4, <2>5, <2>6 DEF ReadHeader
<1>13. CASE ReadPayload(r, d)
  <2> DEFINE whole == hdr[r][d] # NoHeader
             x == IF whole /\ Head(q).data = hdr[r][d].data THEN Head(q).data ELSE Junk
  <2>1. pc[r][d] = "body" /\ Goto(r, d, "copy") /\ hdr' = [hdr EXCEPT ![r][d] = NoHeader] /\ UNCHANGED dlv
    BY <1>13 DEF ReadPayload, Copying
  <2>2. PICK n \in 0 .. Len(q) :
           /\ whole => n = 1
           /\ in' = [in EXCEPT ![r][d] = SubSeq(q, n + 1, Len(q))]
           /\ content' = [content EXCEPT ![wsbuf[r][d]] = x]
    BY <1>13 DEF ReadPayload
  <2>3. Len(q) \in Nat /\ n \in Nat
    BY <1>1, LenProperties
  <2>4. SubSeq(q, n + 1, Len(q)) \in Seq(Unit)
    <3>1. \A i \in n + 1 .. Len(q) : q[i] \in Unit
      BY <1>1, <2>3, ElementOfSeq
    <3> QED
      BY <2>3, <3>1, SubSeqProperties
  <2>5. x \in Data
    <3>1. CASE whole
      <4>1. q # <<>>
        BY <2>2, <3>1, EmptySeq
      <4> QED
        BY <4>1, QueueType, Junks
    <3>2. CASE ~whole
      BY <3>2, Junks
    <3> QED
      BY <3>1, <3>2
  <2>6. wsbuf[r][d] \in 1 .. made /\ d \in WsSides[r]
    BY <1>0, <1>2, <2>1, BufferRange DEF Progress
  <2>7. ASSUME Sound(r, d)
        PROVE  /\ Queued(SubSeq(q, n + 1, Len(q)), r, d, Done(r, d) + 1, sent[r][d], FALSE)
               /\ x = Frame(r, d, Done(r, d) + 1)
    <3>1. Queued(q, r, d, Done(r, d), sent[r][d], TRUE) /\ whole
          /\ hdr[r][d].data = Frame(r, d, Done(r, d) + 1)
      BY <1>0, <1>8, <2>1, <2>7, FlowFacts
    <3>2. /\ q # <<>> /\ q[1].data = Frame(r, d, Done(r, d) + 1)
          /\ Queued(Tail(q), r, d, Done(r, d) + 1, sent[r][d], FALSE)
      BY <1>1, <2>6, <3>1, QueuedBody
    <3>3. SubSeq(q, n + 1, Len(q)) = Tail(q)
      <4>1. n + 1 = 2
        BY <2>2, <3>1
      <4> QED
        BY <1>1, <3>2, <4>1, HeadTailProperties DEF Tail
    <3>4. Head(q) = q[1]
      BY <3>2, QueueType
    <3> QED
      BY <3>1, <3>2, <3>3, <3>4
  <2> HIDE DEF x, whole
  <2>8. /\ content'[wsbuf[r][d]] = x
        /\ \E k \in 1 .. made : /\ ConnHolds(r, d, k) \/ CopyHolds(r, d, k)
                                /\ \A j \in 1 .. made : j # k => content'[j] = content[j]
    BY <1>10, <2>2, <2>5, <2>6
  <2>9. /\ in'[r][d] = SubSeq(q, n + 1, Len(q))
        /\ \A t \in Relay, u \in Side : <<t, u>> # <<r, d>> => in'[t][u] = in[t][u]
    BY <1>4, <2>2, <2>4
  <2>10. \A t \in Relay, u \in Side : <<t, u>> # <<r, d>> => hdr'[t][u] = hdr[t][u]
    BY <1>5, <2>1
  <2>11. pc'[r][d] = "copy" /\ \A t \in Relay, u \in Side : <<t, u>> # <<r, d>> => pc'[t][u] = pc[t][u]
    BY <1>3, <2>1
  <2>12. Sound(r, d) => Reads(r, d)
    BY <1>0, <1>8, <2>1, FlowFacts
  <2>13. FlowOK(r, d)'
    BY <1>0, <1>2, <1>7, <1>9, <2>1, <2>7, <2>8, <2>9, <2>11, <2>12, OwnFlow
  <2> QED
    BY <1>2, <2>1, <2>8, <2>9, <2>10, <2>11, <2>13, CopierFlow
<1>14. CASE Deadline(r, d)
  <2>1. pc[r][d] = "body" /\ Goto(r, d, "head") /\ UNCHANGED <<in, hdr, dlv>>
        /\ content' = [content EXCEPT ![wsbuf[r][d]] = Junk] /\ broken' = broken \cup {<<r, d>>}
    BY <1>14 DEF Deadline, Copying, peers
  <2>2. wsbuf[r][d] \in 1 .. made
    BY <1>2, <2>1, BufferRange
  <2>3. \E k \in 1 .. made : /\ ConnHolds(r, d, k) \/ CopyHolds(r, d, k)
                             /\ \A j \in 1 .. made : j # k => content'[j] = content[j]
    BY <1>10, <2>1, <2>2, Junks
  <2>4. \A t \in Relay, u \in Side : <<t, u>> # <<r, d>> => pc'[t][u] = pc[t][u]
    BY <1>3, <2>1
  <2>5. ~Sound(r, d)'
    BY <2>1 DEF Sound
  <2>6. FlowOK(r, d)'
    BY <2>5 DEF FlowOK, QueueOK, DeliveredOK
  <2> QED
    BY <1>2, <2>1, <2>3, <2>4, <2>6, CopierFlow
<1>15. CASE CopyOut(r, d)
  <2>1. pc[r][d] = "copy" /\ Goto(r, d, "write") /\ UNCHANGED <<in, hdr, dlv>>
        /\ content' = [content EXCEPT ![cpbuf[r][d]] = content[wsbuf[r][d]]]
    BY <1>15 DEF CopyOut, Copying, peers
  <2>2. wsbuf[r][d] \in 1 .. made /\ cpbuf[r][d] \in 1 .. made
    BY <1>2, <2>1, BufferRange
  <2>3. content[wsbuf[r][d]] \in Data
    BY <1>1, <2>2, ElementOfSeq
  <2>4. /\ content'[cpbuf[r][d]] = content[wsbuf[r][d]]
        /\ \E k \in 1 .. made : /\ ConnHolds(r, d, k) \/ CopyHolds(r, d, k)
                                /\ \A j \in 1 .. made : j # k => content'[j] = content[j]
    BY <1>10, <2>1, <2>2, <2>3
  <2>5. pc'[r][d] = "write" /\ \A t \in Relay, u \in Side : <<t, u>> # <<r, d>> => pc'[t][u] = pc[t][u]
    BY <1>3, <2>1
  <2>6. ASSUME Sound(r, d)
        PROVE  /\ Reads(r, d) /\ Queued(in'[r][d], r, d, Done(r, d) + 1, sent'[r][d], FALSE)
               /\ content'[cpbuf[r][d]] = Frame(r, d, Done(r, d) + 1)
    <3>1. /\ Reads(r, d) /\ Queued(q, r, d, Done(r, d) + 1, sent[r][d], FALSE)
          /\ content[wsbuf[r][d]] = Frame(r, d, Done(r, d) + 1)
      BY <1>0, <1>8, <2>1, <2>6, FlowFacts
    <3> QED
      BY <1>2, <2>1, <2>4, <3>1
  <2>7. FlowOK(r, d)'
    BY <1>0, <1>2, <1>7, <1>9, <2>1, <2>5, <2>6, OwnFlow
  <2> QED
    BY <1>2, <2>1, <2>4, <2>5, <2>7, CopierFlow
<1>16. CASE Exit(r, d)
  <2>1. Goto(r, d, "exited") /\ UNCHANGED <<in, hdr, dlv, content>>
    BY <1>16 DEF Exit, peers
  <2>2. pc'[r][d] = "exited" /\ \A t \in Relay, u \in Side : <<t, u>> # <<r, d>> => pc'[t][u] = pc[t][u]
    BY <1>3, <2>1
  <2>3. ~Reading(r, d)'
    BY <2>2 DEF Reading
  <2>4. FlowOK(r, d)'
    BY <1>0, <1>2, <1>7, <1>9, <2>1, <2>3, OwnFlow
  <2> QED
    BY <1>2, <2>1, <2>2, <2>4, CopierFlow
<1>17. CASE Write(r, d)
  <2> DEFINE x == content[cpbuf[r][d]]
             D == dlv[r][d]
  <2>1. /\ pc[r][d] = "write" /\ Goto(r, d, "head") /\ UNCHANGED <<in, hdr, content>>
        /\ dlv' = [dlv EXCEPT ![r][d] = Append(D, x)]
    BY <1>1, <1>17 DEF Write, Copying, peers
  <2>2. x \in Data
    BY <1>1, <1>2, BufferRange, ElementOfSeq
  <2>3. D \in Seq(Data) /\ Len(D) \in Nat
    BY FlowTypes
  <2>4. /\ Append(D, x) \in Seq(Data) /\ Len(Append(D, x)) = Len(D) + 1
        /\ \A i \in 1 .. Len(D) : Append(D, x)[i] = D[i]
        /\ Append(D, x)[Len(D) + 1] = x
    BY <2>2, <2>3, AppendProperties
  <2>5. dlv'[r][d] = Append(D, x) /\ \A t \in Relay, u \in Side : <<t, u>> # <<r, d>> => dlv'[t][u] = dlv[t][u]
    BY <1>1, <2>1, <2>4, Assign
  <2>6. pc'[r][d] = "head" /\ \A t \in Relay, u \in Side : <<t, u>> # <<r, d>> => pc'[t][u] = pc[t][u]
    BY <1>3, <2>1
  <2>7. Skip(r, d) \in Nat /\ Done(r, d) = Len(D) + Skip(r, d) /\ Done(r, d)' = Len(dlv'[r][d]) + Skip(r, d)
    BY <1>9, FlowTypes DEF Done
  <2>8. Done(r, d)' = Done(r, d) + 1
    <3>1. Len(dlv'[r][d]) = Len(D) + 1
      BY <2>4, <2>5
    <3> HIDE DEF D
    <3> QED
      BY <2>3, <2>7, <3>1
  <2>9. ASSUME Sound(r, d)'
        PROVE  /\ Reads(r, d) /\ x = Frame(r, d, Done(r, d) + 1)
               /\ Queued(q, r, d, Done(r, d) + 1, sent[r][d], FALSE)
               /\ \A k \in 1 .. Len(D) : D[k] = Frame(r, d, k + Skip(r, d))
    BY <1>0, <1>7, <1>8, <2>1, <2>9, FlowFacts DEF FlowOK, DeliveredOK
  <2>10. ASSUME Sound(r, d)', NEW k \in 1 .. Len(dlv'[r][d])
         PROVE  dlv'[r][d][k] = Frame(r, d, k + Skip(r, d))
    <3>1. CASE k \in 1 .. Len(D)
      BY <2>4, <2>5, <2>9, <2>10, <3>1
    <3>2. CASE k \notin 1 .. Len(D)
      <4>1. k = Len(D) + 1
        BY <2>3, <2>4, <2>5, <3>2
      <4>2. k + Skip(r, d) = Done(r, d) + 1
        <5> HIDE DEF D
        <5> QED
          BY <2>3, <2>7, <4>1
      <4> QED
        BY <2>4, <2>5, <2>9, <2>10, <4>1, <4>2
    <3> QED
      BY <3>1, <3>2
  <2>11. Reads(r, d)' /\ Reads(r, d) => Taken(r, d)' = Done(r, d) + 1
    BY <2>6, <2>8 DEF Taken, HoldsFrame, Reads
  <2>12. ASSUME Sound(r, d)' PROVE Queued(in[r][d], r, d, Taken(r, d), sent[r][d], pc[r][d] = "body")'
    <3>1. Queued(in'[r][d], r, d, Taken(r, d)', sent'[r][d], FALSE)
      BY <1>2, <1>9, <2>1, <2>9, <2>11, <2>12
    <3> QED
      BY <2>6, <3>1 DEF Queued, Following
  <2>13. QueueOK(r, d)'
    BY <2>6, <2>12 DEF QueueOK
  <2>14. DeliveredOK(r, d)'
    BY <1>9, <2>6, <2>9, <2>10 DEF DeliveredOK, Reads
  <2>15. FlowOK(r, d)'
    BY <2>13, <2>14 DEF FlowOK
  <2> QED
    BY <1>2, <2>1, <2>5, <2>6, <2>15, CopierFlow
<1> QED
  BY <1>11, <1>12, <1>13, <1>14, <1>15, <1>16, <1>17 DEF Copy

\* The read of the peeked bytes.
LEMMA FlowPeeked ==
    ASSUME TypeInv, ExclusiveInv, FlowInv, NEW r \in Relay, ReadPeeked(r)
    PROVE  FlowInv'
<1>0. /\ PoolOK /\ "client" \in Side /\ FlowOK(r, "client") /\ peeked \in [Relay -> Data]
      /\ pc \in [Relay -> [Side -> {"head", "body", "copy", "write", "exited"}]]
  BY WsTypes DEF TypeInv, Side, FlowInv, RelayOK, CopierOK
<1>1. /\ stage[r] = "copy" /\ pc[r]["client"] = "head" /\ peeked[r] # Junk
      /\ content' = [content EXCEPT ![cpbuf[r]["client"]] = peeked[r]]
      /\ peeked' = [peeked EXCEPT ![r] = Junk] /\ Goto(r, "client", "write")
      /\ UNCHANGED <<in, sent, wsbuf, cpbuf, stage, hdr, dlv, skipped, swallowed, broken, doubled>>
  BY DEF ReadPeeked, Copying, peers, buffers, history
<1>2. cpbuf[r]["client"] \in 1 .. made /\ peeked[r] \in Data
  BY <1>0, <1>1, BufferRange
<1>3. /\ content'[cpbuf[r]["client"]] = peeked[r]
      /\ \A j \in 1 .. made : j # cpbuf[r]["client"] => content'[j] = content[j]
  BY <1>0, <1>1, <1>2, WriteEffect
<1>4. CopyHolds(r, "client", cpbuf[r]["client"])
  BY <1>1 DEF CopyHolds
<1>5. peeked'[r] = Junk /\ \A t \in Relay : t # r => peeked'[t] = peeked[t]
  BY <1>0, <1>1
<1>6. /\ pc'[r]["client"] = "write"
      /\ \A t \in Relay, u \in Side : <<t, u>> # <<r, "client">> => pc'[t][u] = pc[t][u]
  BY <1>0, <1>1, Assign DEF Goto
<1>7. /\ Sound(r, "client")' <=> Sound(r, "client")
      /\ UNCHANGED Skip(r, "client") /\ Reads(r, "client")' /\ ~Reads(r, "client") /\ Reading(r, "client")
  BY <1>1, <1>5 DEF Sound, Skip, Reads, Reading
<1>8. Sound(r, "client") => /\ Queued(in'[r]["client"], r, "client", Done(r, "client") + 1, sent'[r]["client"], FALSE)
                            /\ content'[cpbuf[r]["client"]] = Frame(r, "client", Done(r, "client") + 1)
  BY <1>0, <1>1, <1>3, <1>7, FlowFacts
<1>9. FlowOK(r, "client")'
  BY <1>0, <1>1, <1>6, <1>7, <1>8, OwnFlow
<1>10. \A t \in Relay : <<t, "client">> # <<r, "client">> => UNCHANGED peeked[t]
  BY <1>5
<1>11. \A t \in Relay, u \in Side : <<t, u>> # <<r, "client">> =>
          UNCHANGED <<in[t][u], pc[t][u], hdr[t][u], dlv[t][u]>>
  BY <1>1, <1>6
<1>12. \E b \in 1 .. made : /\ ConnHolds(r, "client", b) \/ CopyHolds(r, "client", b)
                            /\ \A k \in 1 .. made : k # b => content'[k] = content[k]
  BY <1>2, <1>3, <1>4
<1> QED
  BY <1>0, <1>1, <1>9, <1>10, <1>11, <1>12, CopierFlow

\* Sniffing reads at most one frame, and keeps it, drops it whole, or breaks
\* the direction.
LEMMA FlowSniff ==
    ASSUME TypeInv, ExclusiveInv, FlowInv, NEW r \in Relay, Sniff(r)
    PROVE  FlowInv'
<1> DEFINE q == in[r]["client"]
<1>0. /\ PoolOK /\ "client" \in Side /\ FlowOK(r, "client") /\ Progress(r)
      /\ stage \in [Relay -> Stage] /\ peeked \in [Relay -> Data] /\ skipped \in [Relay -> {0, 1}]
      /\ in \in [Relay -> [Side -> Seq(Unit)]] /\ q \in Seq(Unit)
      /\ sent[r]["client"] \in Nat /\ dlv[r]["client"] \in Seq(Data)
  BY WsTypes, FlowTypes DEF TypeInv, ProgressInv, Side, FlowInv, RelayOK, PeersOK
<1>1. stage[r] = "sniff" /\ UNCHANGED <<sent, wsbuf, cpbuf, pc, hdr, dlv, swallowed, doubled>>
  BY DEF Sniff, buffers, copier
<1>2. /\ pc[r]["client"] = "head" /\ dlv[r]["client"] = <<>> /\ peeked[r] = Junk /\ skipped[r] = 0
      /\ pc'[r]["client"] = "head" /\ dlv'[r]["client"] = <<>>
  BY <1>0, <1>1 DEF Progress, Early
<1>3. PICK to \in {"dial", "refused"} : stage' = [stage EXCEPT ![r] = to]
  BY DEF Sniff, SniffNothing, SniffRead
<1>4. stage'[r] = to /\ \A t \in Relay \ {r} : stage'[t] = stage[t]
  BY <1>0, <1>3
<1>5. Len(dlv[r]["client"]) = 0 /\ Len(dlv'[r]["client"]) = 0 /\ 1 .. 0 = {}
  BY <1>2, EmptySeq
<1>6. PICK zero : zero = 0
  OBVIOUS
<1>7. /\ zero \in Nat /\ zero + 1 = 1 /\ 1 \in Nat \ {0} /\ skipped[r] = zero
      /\ Sound(r, "client") => Queued(q, r, "client", zero, sent[r]["client"], FALSE)
  <2>1. Reading(r, "client") /\ Reads(r, "client")
    BY <1>1, <1>2 DEF Reading, Reads
  <2>2. Done(r, "client") = zero
    BY <1>2, <1>5, <1>6 DEF Done, Skip
  <2>3. Sound(r, "client") => Queued(q, r, "client", Done(r, "client"), sent[r]["client"], FALSE)
    BY <1>0, <1>2, <2>1, FlowFacts
  <2>4. zero \in Nat /\ zero + 1 = 1 /\ 1 \in Nat \ {0} /\ skipped[r] = zero
    BY <1>2, <1>6
  <2>5. Sound(r, "client") => Queued(q, r, "client", zero, sent[r]["client"], FALSE)
    BY <2>2, <2>3, Zenon
  <2> QED
    BY <2>4, <2>5
<1>8. ASSUME broken \subseteq broken',
             \A t \in Relay, u \in Side : <<t, u>> # <<r, "client">> => in'[t][u] = in[t][u],
             \A t \in Relay : t # r => UNCHANGED <<peeked[t], skipped[t]>>,
             \/ content' = content
             \/ \E b \in 1 .. made : /\ ConnHolds(r, "client", b) \/ CopyHolds(r, "client", b)
                                     /\ \A k \in 1 .. made : k # b => content'[k] = content[k],
             FlowOK(r, "client")'
      PROVE  FlowInv'
  <2>1. ASSUME NEW t \in Relay, NEW u \in Side, <<t, u>> # <<r, "client">> PROVE FlowOK(t, u)'
    <3>1. FlowOK(t, u)
      BY DEF FlowInv
    <3>2. Reading(t, u)' => Reading(t, u)
      BY <1>1, <1>4 DEF Reading
    <3>3. UNCHANGED <<in[t][u], sent[t][u], pc[t][u], hdr[t][u], dlv[t][u]>>
      BY <1>1, <1>8, <2>1
    <3>4. u = "client" => UNCHANGED <<peeked[t], skipped[t]>>
      BY <1>8, <2>1
    <3> QED
      BY <1>0, <1>1, <1>8, <2>1, <3>1, <3>2, <3>3, <3>4, Elsewhere
  <2> QED
    BY <1>8, <2>1 DEF FlowInv
<1>9. ASSUME Sound(r, "client")' => Sound(r, "client"),
             Sound(r, "client")' /\ stage'[r] = "dial" =>
                /\ \/ /\ peeked'[r] = Junk
                      /\ Queued(in'[r]["client"], r, "client", skipped'[r], sent[r]["client"], FALSE)
                   \/ /\ peeked'[r] = Frame(r, "client", 1) /\ skipped'[r] = 0
                      /\ Queued(in'[r]["client"], r, "client", 1, sent[r]["client"], FALSE)
                /\ skipped'[r] \in Nat
      PROVE  FlowOK(r, "client")'
  <2>1. ASSUME Sound(r, "client")', Reading(r, "client")'
        PROVE  /\ Queued(in[r]["client"], r, "client", Taken(r, "client"), sent[r]["client"], pc[r]["client"] = "body")'
               /\ peeked'[r] # Junk => peeked'[r] = Frame(r, "client", Done(r, "client")' + 1)
    <3>1. stage'[r] = "dial" /\ skipped'[r] \in Nat
      BY <1>4, <1>9, <2>1 DEF Reading
    <3>2. Done(r, "client")' = skipped'[r]
      BY <1>5, <3>1 DEF Done, Skip
    <3>3. CASE peeked'[r] = Junk /\ Queued(in'[r]["client"], r, "client", skipped'[r], sent[r]["client"], FALSE)
      <4>1. Taken(r, "client")' = skipped'[r]
        BY <1>2, <3>2, <3>3 DEF Taken, HoldsFrame
      <4> QED
        BY <1>1, <1>2, <3>3, <4>1 DEF Queued, Following
    <3>4. CASE /\ peeked'[r] = Frame(r, "client", 1) /\ skipped'[r] = 0
               /\ Queued(in'[r]["client"], r, "client", 1, sent[r]["client"], FALSE)
      <4>1. peeked'[r] # Junk
        BY <1>0, <1>7, <3>4, Junks
      <4>2. HoldsFrame(r, "client")'
        BY <4>1 DEF HoldsFrame
      <4>3. Done(r, "client")' + 1 = 1 /\ Taken(r, "client")' = Done(r, "client")' + 1
        BY <3>2, <3>4, <4>2 DEF Taken
      <4>4. Queued(in[r]["client"], r, "client", Taken(r, "client"), sent[r]["client"], pc[r]["client"] = "body")'
        BY <1>1, <1>2, <3>4, <4>3 DEF Queued, Following
      <4> QED
        BY <3>4, <4>3, <4>4
    <3> QED
      BY <1>9, <2>1, <3>1, <3>3, <3>4
  <2>2. QueueOK(r, "client")'
    BY <1>2, <2>1 DEF QueueOK
  <2>3. DeliveredOK(r, "client")'
    BY <1>2, <1>5, <2>1 DEF DeliveredOK
  <2> QED
    BY <2>2, <2>3 DEF FlowOK
<1>10. broken \subseteq broken' => (Sound(r, "client")' => Sound(r, "client"))
  BY <1>0, <1>1, SoundBefore
<1>11. ASSUME NEW z \in Seq(Unit), in' = [in EXCEPT ![r]["client"] = z]
       PROVE  /\ in'[r]["client"] = z
              /\ \A t \in Relay, u \in Side : <<t, u>> # <<r, "client">> => in'[t][u] = in[t][u]
  BY <1>0, <1>11, Assign
<1>12. CASE SniffNothing(r) /\ UNCHANGED <<in, content, skipped, broken>>
  <2>1. UNCHANGED peeked
    BY <1>12 DEF SniffNothing
  <2>2. Sound(r, "client")' => Sound(r, "client")
    BY <1>10, <1>12
  <2>3. /\ peeked'[r] = Junk /\ skipped'[r] = zero
        /\ Sound(r, "client") => Queued(in'[r]["client"], r, "client", skipped'[r], sent[r]["client"], FALSE)
    BY <1>2, <1>7, <1>12, <2>1
  <2>4. FlowOK(r, "client")'
    BY <1>7, <1>9, <2>2, <2>3
  <2> QED
    BY <1>8, <1>12, <2>1, <2>4
<1>13. ASSUME NEW x \in Data, SniffRead(r, x)
       PROVE  /\ stage'[r] = "dial" => peeked'[r] = x
              /\ \A t \in Relay : t # r => peeked'[t] = peeked[t]
  <2>1. CASE stage' = [stage EXCEPT ![r] = "refused"] /\ UNCHANGED peeked
    BY <1>0, <2>1
  <2>2. CASE peeked' = [peeked EXCEPT ![r] = x]
    BY <1>0, <2>2
  <2> QED
    BY <1>13, <2>1, <2>2 DEF SniffRead
<1>14. CASE /\ "client" \notin WsSides[r] /\ q # <<>>
            /\ in' = [in EXCEPT ![r]["client"] = Tail(q)]
            /\ SniffRead(r, Head(q).data)
            /\ UNCHANGED <<content, skipped, broken>>
  <2>1. Head(q).data \in Data /\ Head(q) = q[1] /\ Tail(q) \in Seq(Unit)
    BY <1>0, <1>14, QueueType
  <2>2. /\ in'[r]["client"] = Tail(q)
        /\ \A t \in Relay, u \in Side : <<t, u>> # <<r, "client">> => in'[t][u] = in[t][u]
    BY <1>11, <1>14, <2>1
  <2>3. /\ stage'[r] = "dial" => peeked'[r] = q[1].data
        /\ \A t \in Relay : t # r => peeked'[t] = peeked[t]
    BY <1>13, <1>14, <2>1
  <2>4. Sound(r, "client") => /\ q[1].data = Frame(r, "client", 1)
                              /\ Queued(Tail(q), r, "client", 1, sent[r]["client"], FALSE)
    <3>1. Sound(r, "client") => /\ q[1].data = Frame(r, "client", zero + 1)
                                /\ Queued(Tail(q), r, "client", zero + 1, sent[r]["client"], FALSE)
      BY <1>0, <1>7, <1>14, QueuedRaw, ZenonT(60)
    <3> QED
      BY <1>7, <3>1
  <2>5. Sound(r, "client")' => Sound(r, "client")
    BY <1>10, <1>14
  <2>6. FlowOK(r, "client")'
    <3>1. skipped'[r] = 0 /\ skipped'[r] \in Nat
      BY <1>2, <1>14
    <3> QED
      BY <1>9, <2>2, <2>3, <2>4, <2>5, <3>1
  <2> QED
    BY <1>8, <1>14, <2>2, <2>3, <2>6
<1>15. CASE /\ q # <<>>
            /\ in' = [in EXCEPT ![r]["client"] = Tail(q)]
            /\ SniffNothing(r)
            /\ broken' = broken \cup {<<r, "client">>}
            /\ UNCHANGED <<content, skipped>>
  <2>1. Tail(q) \in Seq(Unit) /\ UNCHANGED peeked
    BY <1>0, <1>15, QueueType DEF SniffNothing
  <2>2. \A t \in Relay, u \in Side : <<t, u>> # <<r, "client">> => in'[t][u] = in[t][u]
    BY <1>11, <1>15, <2>1
  <2>3. ~Sound(r, "client")'
    BY <1>15 DEF Sound
  <2>4. FlowOK(r, "client")'
    BY <2>3 DEF FlowOK, QueueOK, DeliveredOK
  <2> QED
    BY <1>8, <1>15, <2>1, <2>2, <2>4
<1>16. CASE /\ "client" \in WsSides[r] /\ Len(q) > 1
            /\ in' = [in EXCEPT ![r]["client"] = Tail(Tail(q))]
            /\ content' = [content EXCEPT ![wsbuf[r]["client"]] = Head(q).data]
            /\ IF Head(q).size = "big"
               THEN SniffNothing(r) /\ skipped' = [skipped EXCEPT ![r] = 1]
               ELSE SniffRead(r, Head(q).data) /\ UNCHANGED skipped
            /\ UNCHANGED broken
  <2>1. q # <<>> /\ Tail(q) \in Seq(Unit) /\ Tail(Tail(q)) \in Seq(Unit)
    BY <1>0, <1>16, LongTail
  <2>2. Head(q).data \in Data /\ Head(q) = q[1]
    BY <1>0, <2>1, QueueType
  <2>3. wsbuf[r]["client"] \in 1 .. made
    BY <1>0, <1>1, <1>16, BufferRange DEF WsStages
  <2>4. \A k \in 1 .. made : k # wsbuf[r]["client"] => content'[k] = content[k]
    BY <1>0, <1>16, <2>2, <2>3, WriteEffect
  <2>5. ConnHolds(r, "client", wsbuf[r]["client"])
    BY <1>1 DEF ConnHolds, Open
  <2>6. /\ in'[r]["client"] = Tail(Tail(q))
        /\ \A t \in Relay, u \in Side : <<t, u>> # <<r, "client">> => in'[t][u] = in[t][u]
    BY <1>11, <1>16, <2>1
  <2>7. Sound(r, "client") => /\ q[1].data = Frame(r, "client", 1)
                              /\ Queued(Tail(Tail(q)), r, "client", 1, sent[r]["client"], FALSE)
    <3>1. Sound(r, "client") => /\ q[1].data = Frame(r, "client", zero + 1)
                                /\ Queued(Tail(q), r, "client", zero, sent[r]["client"], TRUE)
      BY <1>0, <1>7, <1>16, <2>1, QueuedHead, ZenonT(60)
    <3>2. PICK v : v = Tail(q)
      OBVIOUS
    <3>3. Sound(r, "client") => Queued(Tail(v), r, "client", zero + 1, sent[r]["client"], FALSE)
      <4>1. v \in Seq(Unit) /\ (Sound(r, "client") => Queued(v, r, "client", zero, sent[r]["client"], TRUE))
        BY <2>1, <3>1, <3>2
      <4> QED
        BY <1>0, <1>7, <1>16, <4>1, QueuedBody
    <3> QED
      BY <1>7, <3>1, <3>2, <3>3
  <2>8. CASE SniffNothing(r) /\ skipped' = [skipped EXCEPT ![r] = 1]
    <3>1. skipped'[r] = 1 /\ UNCHANGED peeked /\ \A t \in Relay : t # r => UNCHANGED <<peeked[t], skipped[t]>>
      BY <1>0, <2>8 DEF SniffNothing
    <3>2. FlowOK(r, "client")'
      <4>1. peeked'[r] = Junk /\ skipped'[r] \in Nat
        BY <1>2, <3>1
      <4>2. Sound(r, "client")' => Sound(r, "client")
        BY <1>10, <1>16
      <4>3. Sound(r, "client") => Queued(in'[r]["client"], r, "client", skipped'[r], sent[r]["client"], FALSE)
        BY <2>6, <2>7, <3>1
      <4> QED
        BY <1>9, <4>1, <4>2, <4>3
    <3> QED
      BY <1>8, <1>16, <2>3, <2>4, <2>5, <2>6, <3>1, <3>2
  <2>9. CASE SniffRead(r, Head(q).data) /\ UNCHANGED skipped
    <3>1. /\ stage'[r] = "dial" => peeked'[r] = q[1].data
          /\ \A t \in Relay : t # r => peeked'[t] = peeked[t]
      BY <1>13, <2>2, <2>9
    <3>2. FlowOK(r, "client")'
      <4>1. skipped'[r] = 0 /\ skipped'[r] \in Nat
        BY <1>2, <2>9
      <4>2. Sound(r, "client")' => Sound(r, "client")
        BY <1>10, <1>16
      <4> QED
        BY <1>9, <2>6, <2>7, <3>1, <4>1, <4>2
    <3> QED
      BY <1>8, <1>16, <2>3, <2>4, <2>5, <2>6, <2>9, <3>1, <3>2
  <2> QED
    BY <1>16, <2>8, <2>9
<1> QED
  BY <1>12, <1>14, <1>15, <1>16 DEF Sniff

\* The frames that come with the handshake response are lost whole, or break
\* the direction.
LEMMA FlowHandshake ==
    ASSUME TypeInv, ExclusiveInv, FlowInv, NEW r \in Relay, HandshakeReads(r)
    PROVE  FlowInv'
<1> DEFINE q == in[r]["remote"]
<1>0. /\ "remote" \in Side /\ FlowOK(r, "remote") /\ Progress(r)
      /\ in \in [Relay -> [Side -> Seq(Unit)]] /\ q \in Seq(Unit)
      /\ swallowed \in [Relay -> Nat] /\ sent[r]["remote"] \in Nat
      /\ dlv[r]["remote"] \in Seq(Data)
  BY WsTypes, FlowTypes DEF TypeInv, ProgressInv, Side, FlowInv, RelayOK, PeersOK
<1>1. /\ stage[r] = "dial" /\ "remote" \in WsSides[r]
      /\ UNCHANGED <<sent, wsbuf, cpbuf, content, stage, peeked, pc, hdr, dlv, skipped, doubled>>
  BY DEF HandshakeReads, buffers, copier
<1>2. /\ pc[r]["remote"] = "head" /\ dlv[r]["remote"] = <<>>
      /\ pc'[r]["remote"] = "head" /\ dlv'[r]["remote"] = <<>>
  BY <1>0, <1>1 DEF Progress, Early
<1>3. Len(dlv[r]["remote"]) = 0 /\ Len(dlv'[r]["remote"]) = 0 /\ 1 .. 0 = {}
  BY <1>2, EmptySeq
<1>4. PICK k \in Nat : k = swallowed[r]
  BY <1>0
<1>5. Sound(r, "remote") => Queued(q, r, "remote", k, sent[r]["remote"], FALSE)
  <2>1. Reading(r, "remote") /\ Reads(r, "remote")
    BY <1>1, <1>2 DEF Reading, Reads
  <2>2. Done(r, "remote") = k
    BY <1>3, <1>4 DEF Done, Skip
  <2>3. Sound(r, "remote") => Queued(q, r, "remote", Done(r, "remote"), sent[r]["remote"], FALSE)
    BY <1>0, <1>2, <2>1, FlowFacts
  <2> QED
    BY <2>2, <2>3, Zenon
<1>6. ASSUME NEW z \in Seq(Unit), in' = [in EXCEPT ![r]["remote"] = z]
      PROVE  /\ in'[r]["remote"] = z
             /\ \A t \in Relay, u \in Side : <<t, u>> # <<r, "remote">> => in'[t][u] = in[t][u]
  BY <1>0, <1>6, Assign
<1>7. ASSUME broken \subseteq broken',
             \A t \in Relay, u \in Side : <<t, u>> # <<r, "remote">> => in'[t][u] = in[t][u],
             \A t \in Relay : t # r => UNCHANGED swallowed[t],
             FlowOK(r, "remote")'
      PROVE  FlowInv'
  <2>1. ASSUME NEW t \in Relay, NEW u \in Side, <<t, u>> # <<r, "remote">> PROVE FlowOK(t, u)'
    <3>1. FlowOK(t, u)
      BY DEF FlowInv
    <3>2. Reading(t, u)' => Reading(t, u)
      BY <1>1 DEF Reading
    <3>3. UNCHANGED <<in[t][u], sent[t][u], pc[t][u], hdr[t][u], dlv[t][u]>>
      BY <1>1, <1>7, <2>1
    <3>4. u = "remote" => UNCHANGED swallowed[t]
      BY <1>7, <2>1
    <3>5. u = "client" => UNCHANGED <<peeked[t], skipped[t]>>
      BY <1>1
    <3> QED
      BY <1>0, <1>1, <1>7, <2>1, <3>1, <3>2, <3>3, <3>4, <3>5, Elsewhere
  <2> QED
    BY <1>7, <2>1 DEF FlowInv
<1>8. CASE /\ Len(q) > 1
           /\ in' = [in EXCEPT ![r]["remote"] = Tail(Tail(q))]
           /\ swallowed' = [swallowed EXCEPT ![r] = @ + 1]
           /\ UNCHANGED broken
  <2>1. q # <<>> /\ Tail(q) \in Seq(Unit) /\ Tail(Tail(q)) \in Seq(Unit)
    BY <1>0, <1>8, LongTail
  <2>2. /\ in'[r]["remote"] = Tail(Tail(q))
        /\ \A t \in Relay, u \in Side : <<t, u>> # <<r, "remote">> => in'[t][u] = in[t][u]
    BY <1>6, <1>8, <2>1
  <2>3. swallowed'[r] = k + 1 /\ \A t \in Relay : t # r => UNCHANGED swallowed[t]
    BY <1>0, <1>4, <1>8
  <2>4. Sound(r, "remote") => Queued(Tail(Tail(q)), r, "remote", k + 1, sent[r]["remote"], FALSE)
    <3>1. Sound(r, "remote") => Queued(Tail(q), r, "remote", k, sent[r]["remote"], TRUE)
      BY <1>0, <1>1, <1>5, <2>1, QueuedHead
    <3>2. PICK v : v = Tail(q)
      OBVIOUS
    <3>3. v \in Seq(Unit) /\ (Sound(r, "remote") => Queued(v, r, "remote", k, sent[r]["remote"], TRUE))
      BY <2>1, <3>1, <3>2
    <3>4. Sound(r, "remote") => Queued(Tail(v), r, "remote", k + 1, sent[r]["remote"], FALSE)
      BY <1>0, <1>1, <3>3, QueuedBody
    <3> QED
      BY <3>2, <3>4
  <2>5. Sound(r, "remote")' <=> Sound(r, "remote")
    BY <1>1, <1>8 DEF Sound
  <2>6. Done(r, "remote")' = k + 1 /\ Taken(r, "remote")' = Done(r, "remote")'
    <3>1. Done(r, "remote")' = k + 1
      BY <1>3, <2>3 DEF Done, Skip
    <3>2. ~HoldsFrame(r, "remote")'
      BY <1>2 DEF HoldsFrame
    <3> QED
      BY <3>1, <3>2 DEF Taken
  <2>7. QueueOK(r, "remote")'
    <3> SUFFICES ASSUME Sound(r, "remote")'
                 PROVE  /\ Queued(in[r]["remote"], r, "remote", Taken(r, "remote"), sent[r]["remote"],
                                  pc[r]["remote"] = "body")'
                        /\ pc'[r]["remote"] # "body"
      BY DEF QueueOK
    <3>1. Queued(in'[r]["remote"], r, "remote", Taken(r, "remote")', sent'[r]["remote"], FALSE)
      BY <1>1, <2>2, <2>4, <2>5, <2>6
    <3> QED
      BY <1>2, <3>1 DEF Queued, Following
  <2>8. DeliveredOK(r, "remote")'
    BY <1>2, <1>3 DEF DeliveredOK
  <2> QED
    BY <1>7, <1>8, <2>2, <2>3, <2>7, <2>8 DEF FlowOK
<1>9. CASE /\ q # <<>>
           /\ in' = [in EXCEPT ![r]["remote"] = Tail(q)]
           /\ broken' = broken \cup {<<r, "remote">>}
           /\ UNCHANGED swallowed
  <2>1. Tail(q) \in Seq(Unit)
    BY <1>0, <1>9, QueueType
  <2>2. \A t \in Relay, u \in Side : <<t, u>> # <<r, "remote">> => in'[t][u] = in[t][u]
    BY <1>6, <1>9, <2>1
  <2>3. ~Sound(r, "remote")'
    BY <1>9 DEF Sound
  <2>4. FlowOK(r, "remote")'
    BY <2>3 DEF FlowOK, QueueOK, DeliveredOK
  <2> QED
    BY <1>7, <1>9, <2>2, <2>4
<1> QED
  BY <1>8, <1>9 DEF HandshakeReads

\* The flow is inductive, given types and exclusive buffers.
LEMMA FlowNext == TypeInv /\ ExclusiveInv /\ FlowInv /\ [WsNext]_wsVars => FlowInv'
<1> SUFFICES ASSUME TypeInv, ExclusiveInv, FlowInv, [WsNext]_wsVars PROVE FlowInv'
  OBVIOUS
<1>1. CASE UNCHANGED wsVars
  <2>1. UNCHANGED <<in, sent, stage, wsbuf, cpbuf, content, peeked, copier, skipped, swallowed, broken, doubled>>
    BY <1>1 DEF wsVars, peers, buffers, history
  <2>2. \A t \in Relay, u \in Side : Reading(t, u)' => Reading(t, u)
    BY <2>1 DEF Reading, copier
  <2> QED
    BY <2>1, <2>2, FlowBuffers
<1> QED
  BY <1>1, FlowSend, FlowSetup, FlowSniff, FlowHandshake, FlowPeeked, FlowCopy, FlowClose DEF WsNext

\* Nothing has been sent.
LEMMA FlowInit == WsInit => FlowInv
<1> SUFFICES ASSUME WsInit, NEW r \in Relay, NEW d \in Side PROVE FlowOK(r, d)
  BY DEF FlowInv
<1>1. /\ in[r][d] = <<>> /\ sent[r][d] = 0 /\ pc[r][d] = "head" /\ dlv[r][d] = <<>>
      /\ peeked[r] = Junk /\ skipped[r] = 0 /\ swallowed[r] = 0
  BY DEF WsInit, Each, Both
<1>2. Len(dlv[r][d]) = 0 /\ Len(in[r][d]) = 0 /\ 1 .. 0 = {}
  BY <1>1, EmptySeq
<1>3. Taken(r, d) = 0
  BY <1>1, <1>2 DEF Taken, HoldsFrame, Done, Skip
<1>4. Following(in[r][d], r, d)
  BY <1>2 DEF Following
<1>5. Queued(in[r][d], r, d, Taken(r, d), sent[r][d], pc[r][d] = "body")
  BY <1>1, <1>3, <1>4 DEF Queued
<1> QED
  BY <1>1, <1>2, <1>5 DEF FlowOK, QueueOK, DeliveredOK

\* What FlowOK says of dlv is OwnFramesInOrder.
LEMMA FlowDelivers == TypeInv /\ FlowInv => OwnFramesInOrder
<1> SUFFICES ASSUME TypeInv, FlowInv, NEW r \in Relay, NEW d \in Side, <<r, d>> \notin broken,
                    {wsbuf[r][d], cpbuf[r][d]} \cap doubled = {}
             PROVE  dlv[r][d] = Expected(r, d)
  BY DEF OwnFramesInOrder
<1>1. Sound(r, d) /\ FlowOK(r, d)
  BY DEF Sound, FlowInv
<1>2. \A n \in 1 .. Len(dlv[r][d]) : dlv[r][d][n] = Frame(r, d, n + Skip(r, d))
  BY <1>1 DEF FlowOK, DeliveredOK
<1>3. dlv[r][d] \in Seq(Data)
  BY FlowTypes
<1>4. dlv[r][d] = [n \in 1 .. Len(dlv[r][d]) |-> dlv[r][d][n]]
  BY <1>3
<1>5. Expected(r, d) = [n \in 1 .. Len(dlv[r][d]) |-> Frame(r, d, n + Skip(r, d))]
  BY DEF Expected, Frame, Skip
<1> QED
  BY <1>2, <1>4, <1>5

\* Each direction delivers its own peer's frames, whole, in order and without a
\* gap, after those that sniffing dropped or that went with the handshake
\* response, whatever the other relays do with the pool that they share; unless a
\* deadline, sniffing or the handshake lost bytes inside a frame or the direction
\* works with a buffer that a second Close put into the pool.
THEOREM FramesInOrder == WsSpec => []OwnFramesInOrder
<1>1. WsInit => TypeInv /\ ExclusiveInv /\ FlowInv
  BY WsTypeInit, ExclusiveInit, FlowInit
<1>2. TypeInv /\ ExclusiveInv /\ FlowInv /\ [WsNext]_wsVars => TypeInv' /\ ExclusiveInv' /\ FlowInv'
  BY WsTypeNext, ExclusiveNext, FlowNext
<1>3. TypeInv /\ ExclusiveInv /\ FlowInv => OwnFramesInOrder
  BY FlowDelivers
<1> QED
  BY <1>1, <1>2, <1>3, PTL DEF WsSpec
=============================================================================
