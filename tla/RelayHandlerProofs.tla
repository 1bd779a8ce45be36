------------------------- MODULE RelayHandlerProofs -------------------------
(***************************************************************************)
(* Theorems about RelayHandler and the connection manager it shares, for   *)
(* any set of connections and relays, any limits and any retry bound.      *)
(***************************************************************************)
EXTENDS RelayHandler, FiniteSetTheorems, TLAPS

\* Start's divisor is a positive number, so its tick stays below it.
LEMMA TickType ==
    ASSUME NEW t \in 0 .. syncEvery - 1
    PROVE  (t + 1) % syncEvery \in 0 .. syncEvery - 1
<1>1. SyncInterval \div 5 \in Int
  BY CmgrAssumption
<1>2. syncEvery \in Int /\ syncEvery >= 1
  BY <1>1 DEF syncEvery, metricsSampleInterval
<1> HIDE DEF syncEvery
<1> QED
  BY <1>2, SMT

\* Dec keeps a table of gauges a table of gauges.
LEMMA Decrement ==
    ASSUME NEW S, NEW f \in [S -> Int], NEW k
    PROVE  [f EXCEPT ![k] = @ - 1] \in [S -> Int]
<1>1. ASSUME NEW x \in S PROVE [f EXCEPT ![k] = @ - 1][x] \in Int
  <2>1. CASE x = k
    <3>1. f[k] \in Int
      BY <2>1
    <3>2. f[k] - 1 \in Int
      BY <3>1
    <3> QED
      BY <2>1, <3>2
  <2>2. CASE x # k
    BY <2>2
  <2> QED
    BY <2>1, <2>2
<1> QED
  BY <1>1, Zenon

\* The process starts well typed.
LEMMA TypeInit == Init => TypeOK
<1>1. 0 \in 0 .. syncEvery - 1
  <2>1. SyncInterval \div 5 \in Int
    BY CmgrAssumption
  <2> QED
    BY <2>1 DEF syncEvery, metricsSampleInterval
<1>2. 0 \in 0 .. RetryMax
  BY CmgrAssumption
<1> HIDE DEF syncEvery
<1> QED
  BY <1>1, <1>2
     DEF Init, CmgrInit, Nothing, TypeOK, Stages, Ends, Label, Proto, None

\* Every step of a handler and of the sync loop keeps the types.
LEMMA TypeNext == TypeOK /\ [Next]_vars => TypeOK'
<1> SUFFICES ASSUME TypeOK, [Next]_vars
             PROVE  TypeOK'
  OBVIOUS
<1> USE DEF TypeOK, Goto, handler, cmgrVars, cmgrMaps, cmgrLoop, cmgrSaid
<1>1. ASSUME NEW c \in Conn, NEW l \in Label, NEW p \in Proto, Accept(c, l, p)
      PROVE  TypeOK'
  BY <1>1 DEF Accept, Stages, Ends
<1>2. ASSUME NEW c \in Conn, NEW l \in Label, RefuseUDP(c, l)
      PROVE  TypeOK'
  BY <1>2 DEF RefuseUDP, Stages, Proto
<1>3. ASSUME NEW c \in Conn, Handle(c)
      PROVE  TypeOK'
  <2>1. CASE checkConnectionLimit(c)
    BY <2>1 DEF checkConnectionLimit, Stages
  <2>2. ASSUME NEW blocked \in BOOLEAN, sniffAndBlockProtocol(c, blocked)
        PROVE  TypeOK'
    BY <2>2 DEF sniffAndBlockProtocol, Stages
  <2>3. ASSUME NEW ok \in BOOLEAN, HandShake(c, ok)
        PROVE  TypeOK'
    BY <2>3 DEF HandShake, Stages, Ends
  <2>4. CASE Add(c)
    BY <2>4 DEF Add, AddConnection, Stages, Ends
  <2>5. CASE TransportReturns(c)
    BY <2>5 DEF TransportReturns, Stages, Ends
  <2>6. CASE Remove(c)
    BY <2>6 DEF Remove, RemoveConnection, Stages
  <2>7. CASE Leave(c)
    <3>1. gauge' \in [Label \X Proto -> Int]
      BY <2>7, Decrement DEF Leave
    <3>2. open' \in [Conn -> SUBSET Ends]
      BY <2>7 DEF Leave
    <3> QED
      BY <2>7, <3>1, <3>2 DEF Leave, Stages
  <2> QED
    BY <1>3, <2>1, <2>2, <2>3, <2>4, <2>5, <2>6, <2>7 DEF Handle
<1>4. ASSUME NEW c \in Conn, Transfer(c)
      PROVE  TypeOK'
  BY <1>4 DEF Transfer
<1>5. ASSUME NEW c \in Conn, NEW e \in Ends, CopyEnds(c, e)
      PROVE  TypeOK'
  BY <1>5 DEF CopyEnds
<1>6. CASE Sync /\ UNCHANGED handler
  <2>1. CASE SyncTick
    BY <1>6, <2>1, TickType DEF SyncTick
  <2>2. CASE pushStats
    <3>1. \A c \in Conn : closed[c] * stats[c] \in Nat
      BY SMT
    <3>2. reported' \in [Conn -> Nat]
      BY <2>2, <3>1 DEF pushStats
    <3> QED
      BY <1>6, <2>2, <3>2 DEF pushStats, Nothing
  <2>3. ASSUME NEW processed \in BOOLEAN, NEW answered \in BOOLEAN,
               PostJSONWithRetry(processed, answered)
        PROVE  TypeOK'
    BY <1>6, <2>3, CmgrAssumption DEF PostJSONWithRetry, Nothing
  <2> QED
    BY <1>6, <2>1, <2>2, <2>3 DEF Sync
<1>7. CASE SyncStop /\ UNCHANGED handler
  BY <1>7 DEF SyncStop
<1>8. CASE UNCHANGED vars
  BY <1>8 DEF vars
<1> QED
  BY <1>1, <1>2, <1>3, <1>4, <1>5, <1>6, <1>7, <1>8 DEF Next

\* Type correctness of the handlers and the connection manager.
THEOREM TypeCorrect == Spec => []TypeOK
  BY TypeInit, TypeNext, PTL DEF Spec
-----------------------------------------------------------------------------
(* The inductive invariant. *)

\* Copiers run only inside Transport.
CopyInv == \A c \in Conn : copying[c] # {} => stage[c] = "copy"

\* A request is being posted only in "post"; it counts a connection at most
\* once, and one that was drained.
RequestInv ==
    /\ loop # "post" => tries = 0
    /\ \A c \in Conn :
          /\ request[c] <= drained[c]
          /\ loop # "post" => request[c] = 0

\* How often the control plane was told of c: never before it was drained, at
\* most once per attempt made while its request is posted.
ToldInv ==
    \A c \in Conn :
        /\ drained[c] = 0 => received[c] = 0
        /\ request[c] > 0 => received[c] <= tries
        /\ received[c] <= RetryMax + 1

IInv ==
    /\ TypeOK
    /\ AccountedOnce
    /\ CopyInv
    /\ ReportedFinal
    /\ RequestInv
    /\ ToldInv

\* Nothing is accounted for when the process starts.
LEMMA IInit == Init => IInv
<1> SUFFICES ASSUME Init PROVE IInv
  OBVIOUS
<1>1. TypeOK
  BY TypeInit
<1> QED
  BY <1>1, CmgrAssumption
     DEF Init, CmgrInit, Nothing, IInv, AccountedOnce, CopyInv, ReportedFinal,
         RequestInv, ToldInv

\* A step of the listeners or of a handler keeps the accounts.
LEMMA HandlerStep ==
    ASSUME IInv, NEW c \in Conn,
           \/ \E l \in Label, p \in Proto : Accept(c, l, p)
           \/ \E l \in Label : RefuseUDP(c, l)
           \/ Handle(c)
    PROVE  AccountedOnce' /\ CopyInv' /\ ReportedFinal' /\ RequestInv' /\ ToldInv'
<1> USE DEF IInv, Goto, cmgrVars, cmgrMaps, cmgrLoop, cmgrSaid
<1> DEFINE Kept == AccountedOnce' /\ CopyInv' /\ ReportedFinal' /\ RequestInv' /\ ToldInv'
<1>1. ASSUME UNCHANGED <<cmgrVars, copying>>,
             NEW s \in {"limit", "dial", "failed", "fail", "sniff", "add"},
             Goto(c, s), stage[c] \in {"new", "limit", "sniff", "dial", "fail"}
      PROVE  Kept
  <2>1. CopyInv'
    BY <1>1 DEF CopyInv, TypeOK
  <2>2. AccountedOnce'
    BY <1>1 DEF AccountedOnce, TypeOK
  <2> QED
    BY <1>1, <2>1, <2>2 DEF ReportedFinal, RequestInv, ToldInv
<1>2. ASSUME NEW l \in Label, NEW p \in Proto, Accept(c, l, p)
      PROVE  Kept
  BY <1>1, <1>2 DEF Accept
<1>3. ASSUME NEW l \in Label, RefuseUDP(c, l)
      PROVE  Kept
  BY <1>1, <1>3 DEF RefuseUDP
<1>4. CASE checkConnectionLimit(c)
  BY <1>1, <1>4 DEF checkConnectionLimit
<1>5. ASSUME NEW blocked \in BOOLEAN, sniffAndBlockProtocol(c, blocked)
      PROVE  Kept
  BY <1>1, <1>5 DEF sniffAndBlockProtocol
<1>6. ASSUME NEW ok \in BOOLEAN, HandShake(c, ok)
      PROVE  Kept
  BY <1>1, <1>6 DEF HandShake
<1>7. CASE Add(c)
  <2>1. CopyInv'
    BY <1>7 DEF Add, CopyInv, TypeOK
  <2>2. AccountedOnce'
    BY <1>7 DEF Add, AddConnection, AccountedOnce, TypeOK
  <2> QED
    BY <1>7, <2>1, <2>2 DEF Add, ReportedFinal, RequestInv, ToldInv
<1>8. CASE TransportReturns(c)
  <2>1. CopyInv'
    BY <1>8 DEF TransportReturns, CopyInv, TypeOK
  <2>2. AccountedOnce'
    BY <1>8 DEF TransportReturns, AccountedOnce, TypeOK
  <2> QED
    BY <1>8, <2>1, <2>2 DEF TransportReturns, ReportedFinal, RequestInv, ToldInv
<1>9. CASE Remove(c)
  <2>1. CopyInv'
    BY <1>9 DEF Remove, CopyInv, TypeOK
  <2>2. AccountedOnce'
    BY <1>9 DEF Remove, RemoveConnection, AccountedOnce, TypeOK
  <2> QED
    BY <1>9, <2>1, <2>2 DEF Remove, ReportedFinal, RequestInv, ToldInv
<1>10. CASE Leave(c)
  <2>1. CopyInv'
    BY <1>10 DEF Leave, CopyInv, TypeOK
  <2>2. AccountedOnce'
    BY <1>10 DEF Leave, AccountedOnce, TypeOK
  <2> QED
    BY <1>10, <2>1, <2>2 DEF Leave, ReportedFinal, RequestInv, ToldInv
<1> QED
  BY <1>2, <1>3, <1>4, <1>5, <1>6, <1>7, <1>8, <1>9, <1>10 DEF Handle

\* A copier records traffic, or ends, only for a connection no request counts.
LEMMA CopierStep ==
    ASSUME IInv, NEW c \in Conn,
           Transfer(c) \/ \E e \in Ends : CopyEnds(c, e)
    PROVE  AccountedOnce' /\ CopyInv' /\ ReportedFinal' /\ RequestInv' /\ ToldInv'
<1> USE DEF IInv, handler, cmgrVars, cmgrMaps, cmgrLoop, cmgrSaid
<1>1. CASE Transfer(c)
  <2>1. drained[c] = 0
    <3>1. closed[c] + drained[c] = 0
      BY <1>1 DEF Transfer, CopyInv, AccountedOnce
    <3> QED
      BY <3>1 DEF TypeOK
  <2>2. ReportedFinal'
    BY <1>1, <2>1 DEF Transfer, ReportedFinal, TypeOK
  <2> QED
    BY <1>1, <2>2 DEF Transfer, AccountedOnce, CopyInv, RequestInv, ToldInv
<1>2. ASSUME NEW e \in Ends, CopyEnds(c, e)
      PROVE  AccountedOnce' /\ CopyInv' /\ ReportedFinal' /\ RequestInv' /\ ToldInv'
  <2>1. CopyInv'
    BY <1>2 DEF CopyEnds, CopyInv, TypeOK
  <2> QED
    BY <1>2, <2>1 DEF CopyEnds, AccountedOnce, ReportedFinal, RequestInv, ToldInv
<1> QED
  BY <1>1, <1>2

\* No connection is closed, drained or requested twice.
LEMMA AtMostOnce ==
    ASSUME IInv, NEW c \in Conn
    PROVE  /\ closed[c] \in {0, 1} /\ drained[c] \in {0, 1} /\ request[c] \in {0, 1}
           /\ closed[c] = 1 => drained[c] = 0
           /\ request[c] = 1 => drained[c] = 1
<1>1. closed[c] \in Nat /\ drained[c] \in Nat /\ request[c] \in Nat
  BY DEF IInv, TypeOK
<1>2. closed[c] + drained[c] = 0 \/ closed[c] + drained[c] = 1
  BY DEF IInv, AccountedOnce
<1>3. request[c] <= drained[c]
  BY DEF IInv, RequestInv
<1> QED
  BY <1>1, <1>2, <1>3

\* A step of the sync loop moves connections from the closed map to a request
\* and from the request to the control plane, or to nowhere.
LEMMA SyncStep ==
    ASSUME IInv, Sync \/ SyncStop, UNCHANGED handler
    PROVE  AccountedOnce' /\ CopyInv' /\ ReportedFinal' /\ RequestInv' /\ ToldInv'
<1> USE DEF IInv, handler, cmgrVars, cmgrMaps, cmgrLoop, cmgrSaid
<1>1. CASE SyncTick
  BY <1>1 DEF SyncTick, AccountedOnce, CopyInv, ReportedFinal, RequestInv, ToldInv
<1>2. CASE SyncStop
  BY <1>2 DEF SyncStop, AccountedOnce, CopyInv, ReportedFinal, RequestInv, ToldInv
<1>3. CASE pushStats
  <2> USE <1>3 DEF pushStats
  <2>1. ASSUME NEW c \in Conn
        PROVE  \/ closed[c] = 0
               \/ closed[c] = 1 /\ drained[c] = 0 /\ reported[c] = 0
    <3>1. drained[c] = 0 => reported[c] = 0
      BY DEF ReportedFinal
    <3> QED
      BY <3>1, AtMostOnce
  <2>2. AccountedOnce'
    BY <2>1 DEF AccountedOnce, Nothing, TypeOK
  <2>3. ReportedFinal'
    <3>1. ASSUME NEW c \in Conn
          PROVE  reported'[c] = IF drained'[c] > 0 THEN stats'[c] ELSE 0
      <4>1. reported'[c] = reported[c] + closed[c] * stats[c]
            /\ drained'[c] = drained[c] + closed[c] /\ stats'[c] = stats[c]
        OBVIOUS
      <4>2. CASE closed[c] = 0
        BY <4>1, <4>2, SMTT(30) DEF ReportedFinal, TypeOK
      <4>3. CASE closed[c] = 1 /\ drained[c] = 0 /\ reported[c] = 0
        BY <4>1, <4>3 DEF TypeOK
      <4> QED
        BY <2>1, <4>2, <4>3
    <3> QED
      BY <3>1 DEF ReportedFinal
  <2>4. RequestInv'
    BY <2>1 DEF RequestInv, TypeOK
  <2>5. ToldInv'
    BY <2>1 DEF ToldInv, RequestInv, TypeOK
  <2> QED
    BY <2>2, <2>3, <2>4, <2>5 DEF CopyInv
<1>4. ASSUME NEW processed \in BOOLEAN, NEW answered \in BOOLEAN,
             PostJSONWithRetry(processed, answered)
      PROVE  AccountedOnce' /\ CopyInv' /\ ReportedFinal' /\ RequestInv' /\ ToldInv'
  <2> USE <1>4 DEF PostJSONWithRetry
  <2>1. RequestInv'
    BY DEF RequestInv, Nothing, TypeOK
  <2>2. ToldInv'
    <3>1. ASSUME NEW c \in Conn
          PROVE  /\ request[c] = 0 \/ request[c] = 1
                 /\ received'[c] <= received[c] + request[c]
                 /\ drained[c] = 0 => received'[c] = 0
      <4>1. request[c] \in {0, 1} /\ (request[c] = 1 => drained[c] = 1)
        BY AtMostOnce
      <4>2. received'[c] = received[c] \/ received'[c] = received[c] + request[c]
        OBVIOUS
      <4>3. received[c] \in Nat /\ (drained[c] = 0 => received[c] = 0)
        BY DEF ToldInv, TypeOK
      <4> QED
        BY ONLY <4>1, <4>2, <4>3
    <3>2. ASSUME NEW c \in Conn
          PROVE  received'[c] <= RetryMax + 1
      BY <3>1, CmgrAssumption DEF ToldInv, TypeOK
    <3>3. ASSUME NEW c \in Conn, request'[c] > 0
          PROVE  received'[c] <= tries'
      BY <3>1, <3>3 DEF ToldInv, TypeOK, Nothing
    <3> QED
      BY <3>1, <3>2, <3>3 DEF ToldInv
  <2> QED
    BY <2>1, <2>2 DEF AccountedOnce, CopyInv, ReportedFinal
<1> QED
  BY <1>1, <1>2, <1>3, <1>4 DEF Sync

\* The accounts of the connection manager, however handlers and the sync loop
\* interleave.
THEOREM Invariance == Spec => []IInv
<1>1. IInv /\ [Next]_vars => IInv'
  <2> SUFFICES ASSUME IInv, [Next]_vars
               PROVE  IInv'
    OBVIOUS
  <2>1. TypeOK'
    BY TypeNext DEF IInv
  <2>2. CASE UNCHANGED vars
    BY <2>1, <2>2 DEF vars, handler, cmgrVars, cmgrMaps, cmgrLoop, cmgrSaid, IInv,
                AccountedOnce, CopyInv, ReportedFinal, RequestInv, ToldInv
  <2>3. CASE Next
    BY <2>1, <2>3, HandlerStep, CopierStep, SyncStep DEF Next, IInv
  <2> QED
    BY <2>2, <2>3
<1> QED
  BY IInit, <1>1, PTL DEF Spec

\* Every finished connection is in the closed map or in exactly one request.
THEOREM Accounted == Spec => []AccountedOnce
<1>1. IInv => AccountedOnce
  BY DEF IInv
<1> QED
  BY <1>1, Invariance, PTL

\* What a request said of a connection is all the traffic it ever records.
LEMMA Final == Spec => []ReportedFinal
<1>1. IInv => ReportedFinal
  BY DEF IInv
<1> QED
  BY <1>1, Invariance, PTL

\* The control plane is told of a connection at most once per attempt.
LEMMA Told == Spec => []ToldAtMostPerAttempt
<1>1. IInv => ToldAtMostPerAttempt
  <2> SUFFICES ASSUME IInv, NEW c \in Conn
               PROVE  received[c] <= (RetryMax + 1) * drained[c]
    BY DEF ToldAtMostPerAttempt
  <2>1. drained[c] = 0 \/ drained[c] = 1
    BY AtMostOnce
  <2>2. /\ received[c] \in Nat /\ received[c] <= RetryMax + 1
        /\ drained[c] = 0 => received[c] = 0
    BY DEF IInv, ToldInv, TypeOK
  <2>3. CASE drained[c] = 0
    BY <2>2, <2>3, CmgrAssumption
  <2>4. CASE drained[c] = 1
    BY <2>2, <2>4, CmgrAssumption
  <2> QED
    BY <2>1, <2>3, <2>4
<1> QED
  BY <1>1, Invariance, PTL

\* What the control plane is told of a connection is final, and is told at most
\* once per attempt.
THEOREM Reported == Spec => []ReportsHold
  BY Final, Told, PTL DEF ReportsHold

-----------------------------------------------------------------------------
(* Connections and gauges are released on every way out of a handler. *)

\* An accepted connection has a relay and a type.
KeyInv ==
    \A c \in Conn : stage[c] # "new" => label[c] \in Label /\ proto[c] \in Proto

\* The remote end is open only between HandShake and Transport's Close.
OpenInv ==
    \A c \in Conn :
        /\ stage[c] \in {"new", "remove", "leave"} => open[c] = {}
        /\ "remote" \in open[c] => stage[c] \in {"add", "copy"}

LeaveInv == TypeOK /\ KeyInv /\ OpenInv /\ ConnsClosed /\ GaugeBalanced

\* Where a step neither starts nor ends a handler, no gauge changes.
LEMMA GaugeKept ==
    ASSUME GaugeBalanced, UNCHANGED <<label, proto, gauge>>,
           \A c \in Conn : stage[c] \in {"new", "done", "failed"}
                              <=> stage'[c] \in {"new", "done", "failed"}
    PROVE  GaugeBalanced'
<1>1. ASSUME NEW k \in Label \X Proto
      PROVE  Running(k)' = Running(k)
  BY DEF Running, Key
<1> QED
  BY <1>1 DEF GaugeBalanced

\* A handler that starts is added to the gauge of its key, and to no other.
LEMMA GaugeAccept ==
    ASSUME LeaveInv, NEW c \in Conn, NEW l \in Label, NEW p \in Proto, Accept(c, l, p)
    PROVE  GaugeBalanced'
<1> USE DEF LeaveInv
<1>1. ASSUME NEW k \in Label \X Proto
      PROVE  gauge'[k] = Cardinality(Running(k)')
  <2>1. IsFiniteSet(Running(k))
    BY CmgrAssumption, FS_Subset DEF Running
  <2>2. CASE k = <<l, p>>
    <3>1. Running(k)' = Running(k) \cup {c} /\ c \notin Running(k)
      BY <2>2 DEF Accept, Goto, Running, Key, TypeOK
    <3>2. Cardinality(Running(k)') = Cardinality(Running(k)) + 1
      BY <2>1, <3>1, FS_AddElement
    <3>3. gauge'[k] = gauge[k] + 1
      BY <2>2 DEF Accept, TypeOK
    <3> QED
      BY <3>2, <3>3 DEF GaugeBalanced
  <2>3. CASE k # <<l, p>>
    <3>1. Running(k)' = Running(k)
      BY <2>3 DEF Accept, Goto, Running, Key, TypeOK
    <3>2. gauge'[k] = gauge[k]
      BY <2>3 DEF Accept, TypeOK
    <3> QED
      BY <3>1, <3>2 DEF GaugeBalanced
  <2> QED
    BY <2>2, <2>3
<1> QED
  BY <1>1 DEF GaugeBalanced

\* A handler that ends is taken off the gauge of its key, and of no other.
LEMMA GaugeLeave ==
    ASSUME LeaveInv, NEW c \in Conn, Leave(c)
    PROVE  GaugeBalanced'
<1> USE DEF LeaveInv
<1>1. ASSUME NEW k \in Label \X Proto
      PROVE  gauge'[k] = Cardinality(Running(k)')
  <2>1. IsFiniteSet(Running(k))
    BY CmgrAssumption, FS_Subset DEF Running
  <2>2. CASE k = Key(c)
    <3>1. Running(k)' = Running(k) \ {c} /\ c \in Running(k)
      BY <2>2 DEF Leave, Goto, Running, Key, TypeOK
    <3>2. Cardinality(Running(k)') = Cardinality(Running(k)) - 1
      BY <2>1, <3>1, FS_RemoveElement
    <3>3. gauge'[k] = gauge[k] - 1
      BY <2>2 DEF Leave, TypeOK
    <3> QED
      BY <3>2, <3>3 DEF GaugeBalanced
  <2>3. CASE k # Key(c)
    <3>1. Running(k)' = Running(k)
      BY <2>3 DEF Leave, Goto, Running, Key, TypeOK
    <3>2. gauge'[k] = gauge[k]
      BY <2>3 DEF Leave, TypeOK
    <3> QED
      BY <3>1, <3>2 DEF GaugeBalanced
  <2> QED
    BY <2>2, <2>3
<1> QED
  BY <1>1 DEF GaugeBalanced

\* No handler runs and nothing is open when the process starts.
LEMMA LeaveInit == Init => LeaveInv
<1> SUFFICES ASSUME Init PROVE LeaveInv
  OBVIOUS
<1>1. TypeOK
  BY TypeInit
<1>2. GaugeBalanced
  <2>1. ASSUME NEW k \in Label \X Proto PROVE Running(k) = {}
    BY DEF Init, Running
  <2> QED
    BY <2>1, FS_EmptySet DEF GaugeBalanced, Init
<1> QED
  BY <1>1, <1>2 DEF LeaveInv, KeyInv, OpenInv, ConnsClosed, Init

\* Every step keeps the releases in order.
LEMMA LeaveNext == LeaveInv /\ [Next]_vars => LeaveInv'
<1> SUFFICES ASSUME LeaveInv, [Next]_vars
             PROVE  LeaveInv'
  OBVIOUS
<1> USE DEF LeaveInv, Goto
<1> DEFINE Ok == KeyInv' /\ OpenInv' /\ ConnsClosed' /\ GaugeBalanced'
<1>0. TypeOK'
  BY TypeNext
<1>1. ASSUME UNCHANGED handler PROVE Ok
  <2>1. GaugeBalanced'
    BY <1>1, GaugeKept DEF handler
  <2> QED
    BY <1>1, <2>1 DEF handler, KeyInv, OpenInv, ConnsClosed
<1>2. ASSUME NEW c \in Conn, NEW l \in Label, NEW p \in Proto, Accept(c, l, p)
      PROVE  Ok
  <2>1. GaugeBalanced'
    BY <1>2, GaugeAccept
  <2>2. KeyInv' /\ OpenInv' /\ ConnsClosed'
    BY <1>2 DEF Accept, KeyInv, OpenInv, ConnsClosed, TypeOK
  <2> QED
    BY <2>1, <2>2
<1>3. ASSUME NEW c \in Conn, NEW l \in Label, RefuseUDP(c, l)
      PROVE  Ok
  <2>1. ASSUME NEW k \in Label \X Proto PROVE Running(k)' = Running(k)
    BY <1>3 DEF RefuseUDP, Running, Key, TypeOK
  <2>2. GaugeBalanced'
    BY <1>3, <2>1 DEF RefuseUDP, GaugeBalanced
  <2>3. KeyInv' /\ OpenInv'
    BY <1>3 DEF RefuseUDP, KeyInv, OpenInv, Proto, TypeOK
  <2>4. ConnsClosed'
    BY <1>3 DEF RefuseUDP, OpenInv, ConnsClosed, TypeOK
  <2> QED
    BY <2>2, <2>3, <2>4
<1>4. ASSUME NEW c \in Conn, Handle(c), ~Leave(c)
      PROVE  Ok
  <2>1. UNCHANGED <<label, proto, gauge>>
    BY <1>4 DEF Handle, checkConnectionLimit, sniffAndBlockProtocol, HandShake, Add,
                TransportReturns, Remove
  <2>2. PICK s \in {"fail", "sniff", "dial", "add", "copy", "remove", "leave"} :
           /\ stage' = [stage EXCEPT ![c] = s]
           /\ stage[c] \in {"limit", "sniff", "dial", "add", "copy", "remove"}
    BY <1>4 DEF Handle, checkConnectionLimit, sniffAndBlockProtocol, HandShake, Add,
                TransportReturns, Remove
  <2>3. GaugeBalanced'
    BY <2>1, <2>2, GaugeKept DEF TypeOK
  <2>4. KeyInv'
    BY <2>1, <2>2 DEF KeyInv, TypeOK
  <2>5. OpenInv' /\ ConnsClosed'
    <3>1. CASE checkConnectionLimit(c)
      BY <3>1 DEF checkConnectionLimit, OpenInv, ConnsClosed, TypeOK
    <3>2. ASSUME NEW blocked \in BOOLEAN, sniffAndBlockProtocol(c, blocked)
          PROVE  OpenInv' /\ ConnsClosed'
      BY <3>2 DEF sniffAndBlockProtocol, OpenInv, ConnsClosed, TypeOK
    <3>3. ASSUME NEW ok \in BOOLEAN, HandShake(c, ok)
          PROVE  OpenInv' /\ ConnsClosed'
      BY <3>3 DEF HandShake, OpenInv, ConnsClosed, TypeOK
    <3>4. CASE Add(c)
      BY <3>4 DEF Add, OpenInv, ConnsClosed, TypeOK
    <3>5. CASE TransportReturns(c)
      BY <3>5 DEF TransportReturns, OpenInv, ConnsClosed, TypeOK
    <3>6. CASE Remove(c)
      BY <3>6 DEF Remove, OpenInv, ConnsClosed, TypeOK
    <3> QED
      BY <1>4, <3>1, <3>2, <3>3, <3>4, <3>5, <3>6 DEF Handle
  <2> QED
    BY <2>3, <2>4, <2>5
<1>5. ASSUME NEW c \in Conn, Leave(c)
      PROVE  Ok
  <2>1. GaugeBalanced'
    BY <1>5, GaugeLeave
  <2>2. KeyInv'
    BY <1>5 DEF Leave, KeyInv, TypeOK
  <2>3. OpenInv'
    BY <1>5 DEF Leave, OpenInv, TypeOK
  <2>4. ConnsClosed'
    <3>1. label[c] \in Raw \cup Ws /\ proto[c] \in {"tcp", "udp"}
      BY <1>5 DEF Leave, KeyInv, Label, Proto
    <3>2. stage[c] = "leave" => open'[c] = {}
      BY <1>5 DEF Leave, OpenInv, TypeOK
    <3>3. open'[c] \subseteq {e \in {"client"} : proto[c] = "udp" \/ label[c] \in Ws}
      BY <1>5, <3>1 DEF Leave, OpenInv, TypeOK, Ends
    <3> QED
      BY <1>5, <3>2, <3>3 DEF Leave, ConnsClosed, TypeOK
  <2> QED
    BY <2>1, <2>2, <2>3, <2>4
<1>6. ASSUME NEW c \in Conn, NEW e \in Ends, CopyEnds(c, e)
      PROVE  Ok
  <2>1. GaugeBalanced'
    BY <1>6, GaugeKept DEF CopyEnds
  <2> QED
    BY <1>6, <2>1 DEF CopyEnds, KeyInv, OpenInv, ConnsClosed
<1>7. ASSUME NEW c \in Conn, Transfer(c)
      PROVE  Ok
  BY <1>1, <1>7 DEF Transfer
<1>8. CASE UNCHANGED vars
  BY <1>1, <1>8, <1>0 DEF vars
<1> HIDE DEF Ok
<1> QED
  BY <1>0, <1>1, <1>2, <1>3, <1>4, <1>5, <1>6, <1>7, <1>8 DEF Next, Ok

\* A handler leaves neither a connection nor its count in the gauge behind,
\* except the connections that nobody closes.
THEOREM Released == Spec => []NoLeak
<1>1. LeaveInv => NoLeak
  BY DEF LeaveInv, NoLeak
<1> QED
  BY <1>1, LeaveInit, LeaveNext, PTL DEF Spec
=============================================================================
