-------------------------- MODULE RelayConnProofs ---------------------------
(***************************************************************************)
(* Theorems about RelayConn, for any number of chunks, any idle timeout    *)
(* and any mix of TCP and other connections.                               *)
(***************************************************************************)
EXTENDS RelayConn, TLAPS

\* The initial state of a relayed connection is well typed.
LEMMA TypeInit == Init => TypeOK
<1> SUFFICES ASSUME Init PROVE TypeOK
  OBVIOUS
<1>1. dlv \in [Side -> Seq(Nat)] /\ errCH \in Seq(Errors)
  BY DEF Init
<1>2. /\ sent \in [Side -> Nat] /\ age \in [Side -> Nat]
      /\ reg \in [Side -> Nat] /\ rd \in [Side -> Nat]
      /\ buf \in [Side -> Nat] /\ up \in Nat /\ down \in Nat
  BY DEF Init
<1>3. /\ peer \in [Side -> {"open", "fin", "reset"}]
      /\ pc \in [Side -> Labels] /\ err \in [Side -> Errors]
      /\ result \in Errors
  BY DEF Init, Labels, Errors
<1> QED
  BY <1>1, <1>2, <1>3 DEF Init, TypeOK

\* Every step of the model keeps the types.
LEMMA TypeNext == TypeOK /\ [Next]_vars => TypeOK'
<1> SUFFICES ASSUME TypeOK, [Next]_vars
             PROVE  TypeOK'
  OBVIOUS
<1> USE DEF TypeOK, Side, Errors, Labels, Goto, Ends, Other,
            env, stats, data, finish
<1>1. ASSUME NEW s \in Side, PeerSend(s) PROVE TypeOK'
  BY <1>1, SMTT(30) DEF PeerSend
<1>2. ASSUME NEW s \in Side, PeerFin(s) PROVE TypeOK'
  BY <1>2 DEF PeerFin
<1>10. ASSUME NEW s \in Side, PeerReset(s) PROVE TypeOK'
  BY <1>10 DEF PeerReset
<1>3. ASSUME NEW s \in Side, PeerStall(s) PROVE TypeOK'
  BY <1>3 DEF PeerStall
<1>4. CASE Tick
  BY <1>4, SMTT(30) DEF Tick, Older
<1>5. ASSUME NEW d \in Side, Copy(d) PROVE TypeOK'
  <2>1. CASE ReadData(d)
    BY <2>1, SMTT(30) DEF ReadData
  <2>2. CASE ReadEOF(d)
    BY <2>2 DEF ReadEOF
  <2>10. CASE ReadError(d)
    BY <2>10 DEF ReadError
  <2>11. CASE ReadTimeout(d)
    BY <2>11 DEF ReadTimeout
  <2>3. CASE IdleCheck(d)
    BY <2>3 DEF IdleCheck
  <2>4. CASE LoadDown(d)
    BY <2>4 DEF LoadDown
  <2>12. CASE LoadUp(d)
    BY <2>12 DEF LoadUp
  <2>5. CASE StoreDown(d)
    <3>1. reg[d] \in Nat
      OBVIOUS
    <3>2. down' \in Nat /\ up' \in Nat
      BY <2>5, <3>1, SMTT(30) DEF StoreDown
    <3>3. reg' \in [Side -> Nat] /\ age' \in [Side -> Nat]
      BY <2>5 DEF StoreDown
    <3> QED
      BY <2>5, <3>2, <3>3 DEF StoreDown
  <2>6. CASE StoreUp(d)
    <3>1. reg[d] \in Nat
      OBVIOUS
    <3>2. up' \in Nat /\ down' \in Nat
      BY <2>6, <3>1, SMTT(30) DEF StoreUp
    <3>3. reg' \in [Side -> Nat] /\ age' \in [Side -> Nat]
      BY <2>6 DEF StoreUp
    <3> QED
      BY <2>6, <3>2, <3>3 DEF StoreUp
  <2>7. CASE WriteData(d)
    BY <2>7, SMTT(30) DEF WriteData
  <2>8. CASE WriteError(d)
    BY <2>8 DEF WriteError
  <2>9. CASE CloseWrite(d)
    BY <2>9 DEF CloseWrite
  <2> QED
    BY <1>5, <2>1, <2>2, <2>3, <2>4, <2>5, <2>6, <2>7, <2>8, <2>9,
       <2>10, <2>11, <2>12 DEF Copy
<1>6. CASE SendErr
  BY <1>6 DEF SendErr
<1>7. CASE RecvErr
  <2>1. Head(errCH) \in Errors /\ Tail(errCH) \in Seq(Errors)
    BY <1>7 DEF RecvErr
  <2> QED
    BY <1>7, <2>1 DEF RecvErr, combineErrorsAndMuteIDLE
<1>8. CASE Close
  BY <1>8 DEF Close
<1>9. CASE UNCHANGED vars
  BY <1>9 DEF vars
<1> QED
  BY <1>1, <1>2, <1>3, <1>4, <1>5, <1>6, <1>7, <1>8, <1>9, <1>10
     DEF Next, Environment

\* Type correctness of the model of Transport and copyConn.
THEOREM TypeCorrect == Spec => []TypeOK
  BY TypeInit, TypeNext, PTL DEF Spec

-----------------------------------------------------------------------------
(* The inductive invariant. *)

\* Direction d holds a chunk it has read and not yet written, or is at least
\* still inside io.CopyBuffer.
Carrying(d) == pc[d] \in {"loadDown", "storeDown", "write"}
Copying(d) == Carrying(d) \/ pc[d] \in {"read", "timeout", "loadUp", "storeUp"}

\* A direction never holds more than the one chunk in its buffer, and has an
\* error value exactly when its copy has ended.
CopyInvOf(d) ==
    /\ rd[d] <= sent[d]
    /\ Carrying(d) => buf[d] = rd[d] /\ rd[d] = Delivered(d) + 1
    /\ Copying(d) /\ ~Carrying(d) => rd[d] = Delivered(d)
    /\ err[d] = "none" <=> Copying(d)
CopyInv == \A d \in Side : CopyInvOf(d)

\* copyConn returns only after the goroutine it started has exited.
JoinInv ==
    /\ pc["client"] \notin {"recvErr", "close", "returned"}
    /\ pc["remote"] \notin {"sendErr", "exited"}
    /\ errCH # <<>> => pc["client"] = "exited"
    /\ pc["remote"] \in {"close", "returned"} => pc["client"] = "exited"
    /\ closed => pc["remote"] = "returned"

\* The counter updates of the two goroutines that are under way.
InUp == {"loadUp", "storeUp"}
InDown == {"loadDown", "storeDown"}
PendingUp(d) == IF pc[d] \in InUp THEN 1 ELSE 0
PendingDown(d) == IF pc[d] \in InDown THEN 1 ELSE 0
UpsPending == PendingUp("client") + PendingUp("remote")
DownsPending == PendingDown("client") + PendingDown("remote")

\* A counter, and the copy of it a goroutine has loaded, leave room for every
\* update that is still under way.
UpInv(x) == x + UpsPending <= Written
DownInv(x) == x + DownsPending <= Consumed
CounterInv ==
    /\ UpInv(up)
    /\ DownInv(down)
    /\ \A d \in Side : /\ pc[d] = "storeUp" => UpInv(reg[d])
                       /\ pc[d] = "storeDown" => DownInv(reg[d])

IInv == TypeOK /\ CopyInv /\ JoinInv /\ CounterInv

-----------------------------------------------------------------------------
(* What one goroutine's step does to the sums over both. *)

\* When goroutine d moves to label l, the number of Stats.Up updates under way
\* changes by what d enters or leaves.
LEMMA UpsPendingStep ==
    ASSUME TypeOK, NEW d \in Side, NEW l \in Labels, Goto(d, l)
    PROVE  /\ l \in InUp /\ pc[d] \notin InUp => UpsPending' = UpsPending + 1
           /\ l \notin InUp /\ pc[d] \in InUp => UpsPending' = UpsPending - 1
           /\ (l \in InUp <=> pc[d] \in InUp) => UpsPending' = UpsPending
<1>1. CASE d = "client"
  <2>1. pc'["client"] = l /\ pc'["remote"] = pc["remote"]
    BY <1>1 DEF TypeOK, Side, Goto
  <2>2. PendingUp("remote")' = PendingUp("remote") /\ PendingUp("remote") \in Nat
    BY <2>1 DEF PendingUp
  <2>3. /\ PendingUp("client")' = (IF l \in InUp THEN 1 ELSE 0)
        /\ PendingUp("client") = (IF pc[d] \in InUp THEN 1 ELSE 0)
    BY <2>1, <1>1 DEF PendingUp
  <2> QED
    BY <2>2, <2>3 DEF UpsPending
<1>2. CASE d = "remote"
  <2>1. pc'["remote"] = l /\ pc'["client"] = pc["client"]
    BY <1>2 DEF TypeOK, Side, Goto
  <2>2. PendingUp("client")' = PendingUp("client") /\ PendingUp("client") \in Nat
    BY <2>1 DEF PendingUp
  <2>3. /\ PendingUp("remote")' = (IF l \in InUp THEN 1 ELSE 0)
        /\ PendingUp("remote") = (IF pc[d] \in InUp THEN 1 ELSE 0)
    BY <2>1, <1>2 DEF PendingUp
  <2> QED
    BY <2>2, <2>3 DEF UpsPending
<1> QED
  BY <1>1, <1>2 DEF Side

\* When goroutine d moves to label l, the number of Stats.Down updates under way
\* changes by what d enters or leaves.
LEMMA DownsPendingStep ==
    ASSUME TypeOK, NEW d \in Side, NEW l \in Labels, Goto(d, l)
    PROVE  /\ l \in InDown /\ pc[d] \notin InDown => DownsPending' = DownsPending + 1
           /\ l \notin InDown /\ pc[d] \in InDown => DownsPending' = DownsPending - 1
           /\ (l \in InDown <=> pc[d] \in InDown) => DownsPending' = DownsPending
<1>1. CASE d = "client"
  <2>1. pc'["client"] = l /\ pc'["remote"] = pc["remote"]
    BY <1>1 DEF TypeOK, Side, Goto
  <2>2. PendingDown("remote")' = PendingDown("remote") /\ PendingDown("remote") \in Nat
    BY <2>1 DEF PendingDown
  <2>3. /\ PendingDown("client")' = (IF l \in InDown THEN 1 ELSE 0)
        /\ PendingDown("client") = (IF pc[d] \in InDown THEN 1 ELSE 0)
    BY <2>1, <1>1 DEF PendingDown
  <2> QED
    BY <2>2, <2>3 DEF DownsPending
<1>2. CASE d = "remote"
  <2>1. pc'["remote"] = l /\ pc'["client"] = pc["client"]
    BY <1>2 DEF TypeOK, Side, Goto
  <2>2. PendingDown("client")' = PendingDown("client") /\ PendingDown("client") \in Nat
    BY <2>1 DEF PendingDown
  <2>3. /\ PendingDown("remote")' = (IF l \in InDown THEN 1 ELSE 0)
        /\ PendingDown("remote") = (IF pc[d] \in InDown THEN 1 ELSE 0)
    BY <2>1, <1>2 DEF PendingDown
  <2> QED
    BY <2>2, <2>3 DEF DownsPending
<1> QED
  BY <1>1, <1>2 DEF Side

\* A successful Write delivers one more chunk.
LEMMA WrittenStep ==
    ASSUME TypeOK, NEW d \in Side, dlv' = [dlv EXCEPT ![d] = Append(@, buf[d])]
    PROVE  Written' = Written + 1
<1>0. \A e \in Side : Delivered(e) \in Nat
  BY DEF TypeOK, Delivered
<1>1. CASE d = "client"
  <2>1. dlv'["client"] = Append(dlv["client"], buf["client"]) /\ dlv'["remote"] = dlv["remote"]
    BY <1>1 DEF TypeOK, Side
  <2>2. dlv["client"] \in Seq(Nat) /\ buf["client"] \in Nat
    BY DEF TypeOK, Side
  <2>3. Len(dlv'["client"]) = Len(dlv["client"]) + 1
    BY <2>1, <2>2
  <2>4. Delivered("client")' = Delivered("client") + 1 /\ Delivered("remote")' = Delivered("remote")
    BY <2>1, <2>3 DEF Delivered
  <2> QED
    BY <2>4, <1>0 DEF Written, Side
<1>2. CASE d = "remote"
  <2>1. dlv'["remote"] = Append(dlv["remote"], buf["remote"]) /\ dlv'["client"] = dlv["client"]
    BY <1>2 DEF TypeOK, Side
  <2>2. dlv["remote"] \in Seq(Nat) /\ buf["remote"] \in Nat
    BY DEF TypeOK, Side
  <2>3. Len(dlv'["remote"]) = Len(dlv["remote"]) + 1
    BY <2>1, <2>2
  <2>4. Delivered("remote")' = Delivered("remote") + 1 /\ Delivered("client")' = Delivered("client")
    BY <2>1, <2>3 DEF Delivered
  <2> QED
    BY <2>4, <1>0 DEF Written, Side
<1> QED
  BY <1>1, <1>2 DEF Side

\* A successful Read consumes one more chunk.
LEMMA ConsumedStep ==
    ASSUME TypeOK, NEW d \in Side, rd' = [rd EXCEPT ![d] = @ + 1]
    PROVE  Consumed' = Consumed + 1
<1>1. CASE d = "client"
  <2>1. /\ rd'["client"] = rd["client"] + 1 /\ rd'["remote"] = rd["remote"]
        /\ rd["client"] \in Nat /\ rd["remote"] \in Nat
    BY <1>1 DEF TypeOK, Side
  <2> QED
    BY <2>1 DEF Consumed
<1>2. CASE d = "remote"
  <2>1. /\ rd'["remote"] = rd["remote"] + 1 /\ rd'["client"] = rd["client"]
        /\ rd["remote"] \in Nat /\ rd["client"] \in Nat
    BY <1>2 DEF TypeOK, Side
  <2> QED
    BY <2>1 DEF Consumed
<1> QED
  BY <1>1, <1>2 DEF Side

\* The sums are natural numbers.
LEMMA SumTypes ==
    ASSUME TypeOK
    PROVE  /\ Written \in Nat /\ Consumed \in Nat
           /\ UpsPending \in Nat /\ DownsPending \in Nat
<1>1. \A d \in Side : /\ Delivered(d) \in Nat /\ rd[d] \in Nat
                     /\ PendingUp(d) \in Nat /\ PendingDown(d) \in Nat
  BY DEF TypeOK, Delivered, PendingUp, PendingDown
<1> QED
  BY <1>1 DEF Written, Consumed, UpsPending, DownsPending, Side

-----------------------------------------------------------------------------
(* Each part of the invariant is preserved. *)

\* No interleaving of the two goroutines' loads and stores makes a counter
\* run ahead of the traffic.
LEMMA CounterNext == TypeOK /\ CounterInv /\ [Next]_vars => CounterInv'
<1> SUFFICES ASSUME TypeOK, CounterInv, [Next]_vars PROVE CounterInv'
  OBVIOUS
<1>0. /\ Written \in Nat /\ Consumed \in Nat
      /\ UpsPending \in Nat /\ DownsPending \in Nat
      /\ up \in Nat /\ down \in Nat /\ \A d \in Side : reg[d] \in Nat
  BY SumTypes DEF TypeOK
\* The peers, the clock and stuttering.
<1>3. ASSUME UNCHANGED <<up, down, reg, rd, dlv, pc>> PROVE CounterInv'
  <2>1. UNCHANGED <<Written, Consumed, UpsPending, DownsPending>>
    BY <1>3 DEF Written, Delivered, Consumed, UpsPending, DownsPending,
                PendingUp, PendingDown
  <2> QED
    BY <1>3, <2>1 DEF CounterInv, UpInv, DownInv
\* A goroutine's step that neither moves data nor touches a counter.
<1>4. ASSUME NEW d \in Side, NEW l \in Labels, Goto(d, l),
             pc[d] \notin InUp \cup InDown, l \notin InUp \cup InDown,
             UNCHANGED <<up, down, reg, rd, dlv>>
      PROVE  CounterInv'
  <2>1. UNCHANGED <<Written, Consumed>>
    BY <1>4 DEF Written, Delivered, Consumed
  <2>2. UNCHANGED <<UpsPending, DownsPending>>
    BY <1>4, UpsPendingStep, DownsPendingStep
  <2>3. \A e \in Side : /\ pc'[e] = "storeUp" => pc[e] = "storeUp"
                        /\ pc'[e] = "storeDown" => pc[e] = "storeDown"
    BY <1>4 DEF Goto, TypeOK, InUp, InDown
  <2> QED
    BY <1>4, <2>1, <2>2, <2>3 DEF CounterInv, UpInv, DownInv
<1>5. ASSUME NEW s \in Side,
             PeerSend(s) \/ PeerFin(s) \/ PeerReset(s) \/ PeerStall(s)
      PROVE  CounterInv'
  BY <1>3, <1>5 DEF PeerSend, PeerFin, PeerReset, PeerStall, stats, data
<1>6. CASE Tick
  BY <1>3, <1>6 DEF Tick, stats, data
<1>7. ASSUME NEW d \in Side, Copy(d) PROVE CounterInv'
  <2>1. CASE ReadData(d)
    <3>1. /\ DownsPending' = DownsPending + 1 /\ Consumed' = Consumed + 1
          /\ UpsPending' = UpsPending
      BY <2>1, UpsPendingStep, DownsPendingStep, ConsumedStep
         DEF ReadData, Labels, InUp, InDown, stats, data
    <3>2. UNCHANGED <<up, down, Written>>
      BY <2>1 DEF ReadData, Written, Delivered, Consumed, stats, data
    <3>3. \A e \in Side : /\ pc'[e] = "storeUp" => pc[e] = "storeUp" /\ reg'[e] = reg[e]
                          /\ pc'[e] = "storeDown" => pc[e] = "storeDown" /\ reg'[e] = reg[e]
      BY <2>1 DEF ReadData, Goto, TypeOK, stats
    <3> QED
      BY <1>0, <3>1, <3>2, <3>3 DEF CounterInv, UpInv, DownInv
  <2>2. CASE ReadEOF(d)
    BY <1>4, <2>2 DEF ReadEOF, Ends, Goto, Labels, InUp, InDown, stats, data
  <2>3. CASE ReadError(d)
    BY <1>4, <2>3 DEF ReadError, Ends, Goto, Labels, InUp, InDown, stats, data
  <2>4. CASE ReadTimeout(d)
    BY <1>4, <2>4 DEF ReadTimeout, Ends, Goto, Labels, InUp, InDown, stats, data
  <2>5. CASE IdleCheck(d)
    BY <1>4, <2>5 DEF IdleCheck, Ends, Goto, Labels, InUp, InDown, stats, data
  <2>6. CASE LoadDown(d)
    <3>1. UpsPending' = UpsPending /\ DownsPending' = DownsPending
      BY <2>6, UpsPendingStep, DownsPendingStep
         DEF LoadDown, Labels, InUp, InDown, stats, data
    <3>2. UNCHANGED <<up, down, Written, Consumed>>
      BY <2>6 DEF LoadDown, Written, Delivered, Consumed, stats, data
    <3>3. /\ reg'[d] = down /\ pc'[d] = "storeDown"
          /\ \A e \in Side : /\ pc'[e] = "storeUp" => pc[e] = "storeUp" /\ reg'[e] = reg[e]
                             /\ pc'[e] = "storeDown" /\ e # d => pc[e] = "storeDown" /\ reg'[e] = reg[e]
      BY <2>6 DEF LoadDown, Goto, TypeOK, stats
    <3> QED
      BY <1>0, <3>1, <3>2, <3>3 DEF CounterInv, UpInv, DownInv
  <2>7. CASE StoreDown(d)
    <3>1. DownsPending' = DownsPending - 1 /\ UpsPending' = UpsPending
      BY <2>7, UpsPendingStep, DownsPendingStep
         DEF StoreDown, Labels, InUp, InDown, stats, data
    <3>2. /\ UNCHANGED <<up, Written, Consumed>>
          /\ down' = reg[d] + 1 /\ pc[d] = "storeDown"
      BY <2>7 DEF StoreDown, Written, Delivered, Consumed, stats, data
    <3>3. \A e \in Side : /\ pc'[e] = "storeUp" => pc[e] = "storeUp" /\ reg'[e] = reg[e]
                          /\ pc'[e] = "storeDown" => pc[e] = "storeDown" /\ reg'[e] = reg[e]
      BY <2>7 DEF StoreDown, Goto, TypeOK, stats
    <3> QED
      BY <1>0, <3>1, <3>2, <3>3 DEF CounterInv, UpInv, DownInv
  <2>8. CASE WriteData(d)
    <3>1. /\ UpsPending' = UpsPending + 1 /\ Written' = Written + 1
          /\ DownsPending' = DownsPending
      BY <2>8, UpsPendingStep, DownsPendingStep, WrittenStep
         DEF WriteData, Labels, InUp, InDown, stats, data
    <3>2. UNCHANGED <<up, down, Consumed>>
      BY <2>8 DEF WriteData, Written, Delivered, Consumed, stats, data
    <3>3. \A e \in Side : /\ pc'[e] = "storeUp" => pc[e] = "storeUp" /\ reg'[e] = reg[e]
                          /\ pc'[e] = "storeDown" => pc[e] = "storeDown" /\ reg'[e] = reg[e]
      BY <2>8 DEF WriteData, Goto, TypeOK, stats
    <3> QED
      BY <1>0, <3>1, <3>2, <3>3 DEF CounterInv, UpInv, DownInv
  <2>9. CASE WriteError(d)
    BY <1>4, <2>9 DEF WriteError, Ends, Goto, Labels, InUp, InDown, stats, data
  <2>10. CASE LoadUp(d)
    <3>1. UpsPending' = UpsPending /\ DownsPending' = DownsPending
      BY <2>10, UpsPendingStep, DownsPendingStep
         DEF LoadUp, Labels, InUp, InDown, stats, data
    <3>2. UNCHANGED <<up, down, Written, Consumed>>
      BY <2>10 DEF LoadUp, Written, Delivered, Consumed, stats, data
    <3>3. /\ reg'[d] = up /\ pc'[d] = "storeUp"
          /\ \A e \in Side : /\ pc'[e] = "storeUp" /\ e # d => pc[e] = "storeUp" /\ reg'[e] = reg[e]
                             /\ pc'[e] = "storeDown" => pc[e] = "storeDown" /\ reg'[e] = reg[e]
      BY <2>10 DEF LoadUp, Goto, TypeOK, stats
    <3> QED
      BY <1>0, <3>1, <3>2, <3>3 DEF CounterInv, UpInv, DownInv
  <2>11. CASE StoreUp(d)
    <3>1. UpsPending' = UpsPending - 1 /\ DownsPending' = DownsPending
      BY <2>11, UpsPendingStep, DownsPendingStep
         DEF StoreUp, Labels, InUp, InDown, stats, data
    <3>2. /\ UNCHANGED <<down, Written, Consumed>>
          /\ up' = reg[d] + 1 /\ pc[d] = "storeUp"
      BY <2>11 DEF StoreUp, Written, Delivered, Consumed, stats, data
    <3>3. \A e \in Side : /\ pc'[e] = "storeUp" => pc[e] = "storeUp" /\ reg'[e] = reg[e]
                          /\ pc'[e] = "storeDown" => pc[e] = "storeDown" /\ reg'[e] = reg[e]
      BY <2>11 DEF StoreUp, Goto, TypeOK, stats
    <3> QED
      BY <1>0, <3>1, <3>2, <3>3 DEF CounterInv, UpInv, DownInv
  <2>12. CASE CloseWrite(d)
    BY <1>4, <2>12 DEF CloseWrite, Ends, Goto, Labels, InUp, InDown, stats, data
  <2> QED
    BY <1>7, <2>1, <2>2, <2>3, <2>4, <2>5, <2>6, <2>7, <2>8, <2>9, <2>10,
       <2>11, <2>12 DEF Copy
<1>8. CASE SendErr \/ RecvErr \/ Close
  BY <1>4, <1>8 DEF SendErr, RecvErr, Close, Goto, Labels, InUp, InDown, Side,
                    stats, data
<1>9. CASE UNCHANGED vars
  BY <1>3, <1>9 DEF vars, stats, data
<1> QED
  BY <1>5, <1>6, <1>7, <1>8, <1>9 DEF Next, Environment

\* A chunk is read once, held once and written once.
LEMMA CopyNext == TypeOK /\ CopyInv /\ [Next]_vars => CopyInv'
<1> SUFFICES ASSUME TypeOK, CopyInv, [Next]_vars, NEW e \in Side
             PROVE  CopyInvOf(e)'
  BY DEF CopyInv
<1>0. /\ CopyInvOf(e) /\ Delivered(e) \in Nat
      /\ rd[e] \in Nat /\ sent[e] \in Nat
  BY DEF CopyInv, TypeOK, Delivered
<1> USE DEF CopyInvOf, Carrying, Copying
\* A step that leaves e's goroutine and data alone.
<1>1. ASSUME pc'[e] = pc[e], err'[e] = err[e], sent'[e] >= sent[e],
             sent'[e] \in Nat, rd'[e] = rd[e], buf'[e] = buf[e], dlv'[e] = dlv[e]
      PROVE  CopyInvOf(e)'
  <2>1. Delivered(e)' = Delivered(e)
    BY <1>1 DEF Delivered
  <2> QED
    BY <1>0, <1>1, <2>1
<1>2. ASSUME NEW s \in Side, PeerSend(s) PROVE CopyInvOf(e)'
  <2>1. sent'[e] = sent[e] \/ sent'[e] = sent[e] + 1
    BY <1>2 DEF PeerSend, TypeOK
  <2>2. UNCHANGED <<pc, err, rd, buf, dlv>>
    BY <1>2 DEF PeerSend, data
  <2> QED
    BY <1>0, <1>1, <2>1, <2>2
<1>3. ASSUME NEW s \in Side, PeerFin(s) \/ PeerReset(s) \/ PeerStall(s)
      PROVE  CopyInvOf(e)'
  BY <1>0, <1>1, <1>3 DEF PeerFin, PeerReset, PeerStall, data
<1>4. CASE Tick
  BY <1>0, <1>1, <1>4 DEF Tick, env, data
<1>5. ASSUME NEW d \in Side, Copy(d) PROVE CopyInvOf(e)'
  <2> USE DEF env, data, Goto, Ends, TypeOK
  <2>0. CASE e # d
    BY <1>0, <1>1, <1>5, <2>0, SMTT(30)
       DEF Copy, ReadData, ReadEOF, ReadError, ReadTimeout, IdleCheck, LoadDown,
           StoreDown, WriteData, WriteError, LoadUp, StoreUp, CloseWrite
  <2>1. CASE e = d /\ ReadData(d)
    <3>1. /\ pc[e] = "read" /\ pc'[e] = "loadDown" /\ rd[e] < sent[e]
          /\ rd'[e] = rd[e] + 1 /\ buf'[e] = rd[e] + 1
          /\ sent'[e] = sent[e] /\ err'[e] = err[e]
      BY <2>1 DEF ReadData
    <3>2. Delivered(e)' = Delivered(e)
      BY <2>1 DEF ReadData, Delivered
    <3> QED
      BY <1>0, <3>1, <3>2
  <2>2. CASE e = d /\ ReadEOF(d)
    BY <1>0, <2>2 DEF ReadEOF, Delivered
  <2>3. CASE e = d /\ ReadError(d)
    BY <1>0, <2>3 DEF ReadError, Delivered
  <2>4. CASE e = d /\ ReadTimeout(d)
    BY <1>0, <2>4 DEF ReadTimeout, Delivered
  <2>5. CASE e = d /\ IdleCheck(d)
    BY <1>0, <2>5 DEF IdleCheck, Delivered
  <2>6. CASE e = d /\ LoadDown(d)
    BY <1>0, <2>6 DEF LoadDown, Delivered
  <2>7. CASE e = d /\ StoreDown(d)
    BY <1>0, <2>7 DEF StoreDown, Delivered
  <2>8. CASE e = d /\ WriteData(d)
    <3>1. dlv'[e] = Append(dlv[e], buf[e]) /\ dlv[e] \in Seq(Nat) /\ buf[e] \in Nat
      BY <2>8 DEF WriteData
    <3>2. Delivered(e)' = Delivered(e) + 1
      BY <3>1 DEF Delivered
    <3>3. /\ pc[e] = "write" /\ pc'[e] = "loadUp"
          /\ rd'[e] = rd[e] /\ sent'[e] = sent[e] /\ err'[e] = err[e]
      BY <2>8 DEF WriteData
    <3> QED
      BY <1>0, <3>2, <3>3
  <2>9. CASE e = d /\ WriteError(d)
    BY <1>0, <2>9 DEF WriteError, Delivered
  <2>10. CASE e = d /\ LoadUp(d)
    BY <1>0, <2>10 DEF LoadUp, Delivered
  <2>11. CASE e = d /\ StoreUp(d)
    BY <1>0, <2>11 DEF StoreUp, Delivered
  <2>12. CASE e = d /\ CloseWrite(d)
    BY <1>0, <2>12 DEF CloseWrite, Delivered
  <2> QED
    BY <1>5, <2>0, <2>1, <2>2, <2>3, <2>4, <2>5, <2>6, <2>7, <2>8, <2>9,
       <2>10, <2>11, <2>12 DEF Copy
<1>6. CASE SendErr \/ RecvErr \/ Close
  BY <1>0, <1>6 DEF SendErr, RecvErr, Close, env, data, Goto, TypeOK, Side, Delivered
<1>7. CASE UNCHANGED vars
  BY <1>0, <1>1, <1>7 DEF vars, env, data
<1> QED
  BY <1>2, <1>3, <1>4, <1>5, <1>6, <1>7 DEF Next, Environment

\* copyConn joins the goroutine it started before it returns.
LEMMA JoinNext == TypeOK /\ JoinInv /\ [Next]_vars => JoinInv'
<1> SUFFICES ASSUME TypeOK, JoinInv, [Next]_vars PROVE JoinInv'
  OBVIOUS
<1> USE DEF JoinInv
<1>1. ASSUME UNCHANGED <<pc, errCH, closed>> PROVE JoinInv'
  BY <1>1
<1>2. CASE Environment \/ Tick
  BY <1>1, <1>2 DEF Environment, PeerSend, PeerFin, PeerReset, PeerStall, Tick,
                    finish
<1>3. ASSUME NEW d \in Side, Copy(d) PROVE JoinInv'
  <2> USE DEF finish, Goto, Ends, TypeOK, Side
  <2>1. CASE ReadData(d)
    BY <2>1 DEF ReadData
  <2>2. CASE ReadEOF(d)
    BY <2>2 DEF ReadEOF
  <2>3. CASE ReadError(d)
    BY <2>3 DEF ReadError
  <2>4. CASE ReadTimeout(d)
    BY <2>4 DEF ReadTimeout
  <2>5. CASE IdleCheck(d)
    BY <2>5 DEF IdleCheck
  <2>6. CASE LoadDown(d)
    BY <2>6 DEF LoadDown
  <2>7. CASE StoreDown(d)
    BY <2>7 DEF StoreDown
  <2>8. CASE WriteData(d)
    BY <2>8 DEF WriteData
  <2>9. CASE WriteError(d)
    BY <2>9 DEF WriteError
  <2>10. CASE LoadUp(d)
    BY <2>10 DEF LoadUp
  <2>11. CASE StoreUp(d)
    BY <2>11 DEF StoreUp
  <2>12. CASE CloseWrite(d)
    BY <2>12 DEF CloseWrite
  <2> QED
    BY <1>3, <2>1, <2>2, <2>3, <2>4, <2>5, <2>6, <2>7, <2>8, <2>9,
       <2>10, <2>11, <2>12 DEF Copy
<1>4. CASE SendErr
  BY <1>4 DEF SendErr, Goto, TypeOK, Side
<1>5. CASE RecvErr
  BY <1>5 DEF RecvErr, Goto, TypeOK, Side
<1>6. CASE Close
  BY <1>6 DEF Close, Goto, TypeOK, Side
<1>7. CASE UNCHANGED vars
  BY <1>1, <1>7 DEF vars, finish
<1> QED
  BY <1>2, <1>3, <1>4, <1>5, <1>6, <1>7 DEF Next

\* The inductive invariant holds throughout.
THEOREM Invariance == Spec => []IInv
<1>1. Init => IInv
  <2> SUFFICES ASSUME Init PROVE IInv
    OBVIOUS
  <2>1. TypeOK
    BY TypeInit
  <2>2. CopyInv
    BY DEF Init, CopyInv, CopyInvOf, Carrying, Copying, Delivered
  <2>3. JoinInv
    BY DEF Init, JoinInv, Side
  <2>4. /\ Written = 0 /\ Consumed = 0 /\ UpsPending = 0 /\ DownsPending = 0
    <3>1. \A d \in Side : /\ Delivered(d) = 0 /\ rd[d] = 0
                         /\ PendingUp(d) = 0 /\ PendingDown(d) = 0
      BY DEF Init, Delivered, PendingUp, PendingDown, InUp, InDown
    <3> QED
      BY <3>1 DEF Written, Consumed, UpsPending, DownsPending, Side
  <2>5. CounterInv
    BY <2>4 DEF Init, CounterInv, UpInv, DownInv
  <2> QED
    BY <2>1, <2>2, <2>3, <2>5 DEF IInv
<1>2. IInv /\ [Next]_vars => IInv'
  BY TypeNext, CopyNext, JoinNext, CounterNext DEF IInv
<1> QED
  BY <1>1, <1>2, PTL DEF Spec

\* Stats never over-reports traffic, however the unsynchronised updates of the
\* two copying goroutines interleave.
THEOREM NeverOvercount == Spec => []StatsNeverOvercount
<1>1. IInv => StatsNeverOvercount
  <2> SUFFICES ASSUME IInv PROVE StatsNeverOvercount
    OBVIOUS
  <2>1. /\ Written \in Nat /\ Consumed \in Nat
        /\ UpsPending \in Nat /\ DownsPending \in Nat
        /\ up \in Nat /\ down \in Nat
    BY SumTypes DEF IInv, TypeOK
  <2> QED
    BY <2>1 DEF IInv, CounterInv, UpInv, DownInv, StatsNeverOvercount
<1> QED
  BY <1>1, Invariance, PTL

-----------------------------------------------------------------------------
(* Transport implements the pair of pipes. *)

\* Every behaviour of the two copying goroutines is, to the programs at both
\* ends, a behaviour of two independent ordered pipes.
THEOREM Refinement == Spec => ImplementsPipe
<1>1. Init => Pipe!Init
  BY ZenonT(60) DEF Init, Pipe!Init, Other, Side
<1>2. IInv /\ [Next]_vars => [Pipe!Next]_(Pipe!vars)
  <2> SUFFICES ASSUME IInv, [Next]_vars PROVE [Pipe!Next]_(Pipe!vars)
    OBVIOUS
  <2> USE DEF Pipe!vars
  <2>0. TypeOK /\ CopyInv /\ JoinInv
    BY DEF IInv
  \* A step that changes nothing the programs see.
  <2>1. ASSUME UNCHANGED <<sent, peer, dlv, err, halfClosed, closed>>
        PROVE  UNCHANGED Pipe!vars
    BY <2>1
  <2>2. ASSUME NEW s \in Side, PeerSend(s) PROVE Pipe!Next
    <3>1. Pipe!Produce(s)
      BY <2>2 DEF PeerSend, Pipe!Produce, data, finish
    <3> QED
      BY <3>1 DEF Pipe!Next
  <2>3. ASSUME NEW s \in Side, PeerFin(s) PROVE Pipe!Next
    <3>1. Pipe!SourceEnds(s)
      BY <2>0, <2>3 DEF PeerFin, Pipe!SourceEnds, TypeOK, data, finish
    <3> QED
      BY <3>1 DEF Pipe!Next
  <2>4. ASSUME NEW s \in Side, PeerReset(s) PROVE [Pipe!Next]_(Pipe!vars)
    <3>1. CASE peer[s] = "open"
      <4>1. Pipe!SourceEnds(s)
        BY <2>0, <2>4, <3>1 DEF PeerReset, Pipe!SourceEnds, TypeOK, data, finish
      <4> QED
        BY <4>1 DEF Pipe!Next
    <3>2. CASE peer[s] # "open"
      BY <2>0, <2>4, <3>2 DEF PeerReset, TypeOK, data, finish
    <3> QED
      BY <3>1, <3>2
  <2>5. ASSUME NEW s \in Side, PeerStall(s) PROVE UNCHANGED Pipe!vars
    BY <2>1, <2>5 DEF PeerStall, data, finish
  <2>6. CASE Tick
    BY <2>1, <2>6 DEF Tick, env, data, finish
  <2>7. ASSUME NEW d \in Side, Copy(d) PROVE [Pipe!Next]_(Pipe!vars)
    <3> USE DEF env, data, finish
    \* The copy of direction d ends.
    <3>1. ASSUME NEW x \in {"idle", "err"}, Ends(d, x), err[d] = "none",
                 UNCHANGED <<env, data, finish>>
          PROVE  Pipe!Next
      <4>1. Pipe!Cut(d)
        BY <2>0, <3>1 DEF Pipe!Cut, Ends, TypeOK
      <4> QED
        BY <4>1 DEF Pipe!Next
    <3>2. pc[d] \in {"read", "timeout", "write"} => err[d] = "none"
      BY <2>0 DEF CopyInv, CopyInvOf, Copying, Carrying
    <3>3. CASE ReadEOF(d)
      <4>1. Len(dlv[d]) = sent[d]
        BY <2>0, <3>3 DEF ReadEOF, CopyInv, CopyInvOf, Copying, Carrying, Delivered
      <4>2. Pipe!EndOfStream(d)
        BY <2>0, <3>2, <3>3, <4>1 DEF ReadEOF, Ends, Pipe!EndOfStream, TypeOK
      <4> QED
        BY <4>2 DEF Pipe!Next
    <3>4. CASE ReadError(d)
      BY <3>1, <3>2, <3>4 DEF ReadError
    <3>5. CASE WriteError(d)
      BY <3>1, <3>2, <3>5 DEF WriteError
    <3>6. CASE IdleCheck(d)
      BY <2>1, <3>1, <3>2, <3>6 DEF IdleCheck
    <3>7. CASE WriteData(d)
      <4>1. /\ rd[d] = Delivered(d) + 1 /\ buf[d] = rd[d] /\ rd[d] <= sent[d]
            /\ Delivered(d) \in Nat /\ rd[d] \in Nat /\ sent[d] \in Nat
        BY <2>0, <3>7 DEF WriteData, CopyInv, CopyInvOf, Copying, Carrying, TypeOK,
                          Delivered
      <4>2. Delivered(d) < sent[d] /\ buf[d] = Delivered(d) + 1
        BY <4>1
      <4>3. Len(dlv[d]) < sent[d] /\ buf[d] = Len(dlv[d]) + 1
        BY <4>2 DEF Delivered
      <4>4. Pipe!Deliver(d)
        BY <2>0, <3>2, <3>7, <4>3 DEF WriteData, Pipe!Deliver, TypeOK
      <4> QED
        BY <4>4 DEF Pipe!Next
    <3>8. CASE CloseWrite(d)
      <4>1. err[d] # "none" /\ err[d] \in Errors
        BY <2>0, <3>8 DEF CloseWrite, CopyInv, CopyInvOf, Copying, Carrying, TypeOK
      <4>2. CASE Other(d) \in TCPSides
        <5>1. \A x \in Side : Other(x) \in halfClosed' <=> Other(x) \in halfClosed \/ x = d
          BY <3>8, <4>2 DEF CloseWrite, Other, Side
        <5>2. Pipe!Tell(d)
          BY <3>8, <4>1, <5>1 DEF CloseWrite, Pipe!Tell, Errors
        <5> QED
          BY <5>2 DEF Pipe!Next
      <4>3. CASE Other(d) \notin TCPSides
        BY <2>1, <3>8, <4>3 DEF CloseWrite
      <4> QED
        BY <4>2, <4>3
    <3>9. CASE ReadData(d) \/ ReadTimeout(d) \/ LoadDown(d) \/ StoreDown(d)
               \/ LoadUp(d) \/ StoreUp(d)
      BY <2>1, <3>9 DEF ReadData, ReadTimeout, LoadDown, StoreDown, LoadUp, StoreUp
    <3> QED
      BY <2>7, <3>3, <3>4, <3>5, <3>6, <3>7, <3>8, <3>9 DEF Copy
  <2>8. CASE SendErr \/ RecvErr
    BY <2>1, <2>8 DEF SendErr, RecvErr, env, data
  <2>9. CASE Close
    <3>1. \A d \in Side : err[d] # "none" /\ err[d] \in Errors
      BY <2>0, <2>9 DEF Close, JoinInv, CopyInv, CopyInvOf, Copying, Carrying, Side,
                        TypeOK
    <3>2. ~closed
      BY <2>0, <2>9 DEF Close, JoinInv, TypeOK
    <3>3. Pipe!Release
      BY <2>9, <3>1, <3>2 DEF Close, Pipe!Release, env, data, Errors
    <3> QED
      BY <3>3 DEF Pipe!Next
  <2>10. CASE UNCHANGED vars
    BY <2>1, <2>10 DEF vars, env, data, finish
  <2> QED
    BY <2>2, <2>3, <2>4, <2>5, <2>6, <2>7, <2>8, <2>9, <2>10
       DEF Next, Environment
<1> QED
  BY <1>1, <1>2, Invariance, PTL DEF Spec, ImplementsPipe, Pipe!Spec
=============================================================================
