--------------------------- MODULE UserPoolProofs ---------------------------
(* Proofs about module UserPool. *)
EXTENDS UserPool, TLAPS

-----------------------------------------------------------------------------
(* Type correctness.  It needs that Dispatch knows its user when it asks for *)
(* the User.                                                               *)

WhoInv == \A c \in Conn : dpc[c] \in {"dial", "register", "copy"} => who[c] \in Id
TypeInv == TypeOK /\ WhoInv

\* The pool starts empty, and Start's accounts are accounts.
LEMMA TypeInit == Init => TypeInv
<1> SUFFICES ASSUME Init PROVE TypeInv
  OBVIOUS
<1>1. 1 \in 1 .. Len(proxyTags)
  BY UserPoolAssumption
<1>2. 0 \in 0 .. MaxEdits
  BY UserPoolAssumption
<1> QED
  BY <1>1, <1>2, UserPoolAssumption DEF Init, TypeInv, TypeOK, WhoInv, Zero

\* The tag being synced is one of the tags.
LEMMA TagType ==
  ASSUME TypeOK
  PROVE  proxyTags[tagNo] \in Tag
BY DEF TypeOK, Tag

\* What is left behind is left on an inbound.
LEMMA LeftBehindType ==
  ASSUME TypeOK, NEW i \in Id
  PROVE  LeftBehind(i) \in SUBSET (Tag \X Id)
BY DEF TypeOK, LeftBehind

\* Every action of the sync loop, of Dispatch and of the kill requests keeps the
\* types.
LEMMA TypeNext == TypeInv /\ [Next]_vars => TypeOK'
<1> SUFFICES ASSUME TypeOK, WhoInv, [Next]_vars PROVE TypeOK'
  BY DEF TypeInv
<1> USE UserPoolAssumption
<1>r. syncOnceReturns => /\ spc' = "select" /\ tagNo' \in 1 .. Len(proxyTags)
                         /\ resp' \in [Id -> Accounts \cup {NoAccount}] /\ todo' \in SUBSET Id
  BY DEF syncOnceReturns
<1>1. ASSUME NEW i \in Id, NEW a \in Accounts \cup {NoAccount}, Edit(i, a) PROVE TypeOK'
  BY <1>1 DEF TypeOK, Edit, sync, access, counters, dispatch, tracked
<1>2. CASE Tick \/ Stop \/ UsersDone \/ TrafficDone
  BY <1>2 DEF TypeOK, Tick, Stop, UsersDone, TrafficDone, Known,
              controlPlane, access, counters, dispatch, tracked
<1>3. ASSUME NEW ok \in BOOLEAN, GetJSONWithRetry(ok) PROVE TypeOK'
  BY <1>3, <1>r DEF TypeOK, GetJSONWithRetry, NoUsers, controlPlane, access, counters, dispatch, tracked
<1>4. ASSUME NEW i \in Id, NEW u \in User, SyncUser(i, u) PROVE TypeOK'
  <2> DEFINE tag == proxyTags[tagNo]
             changed == i \notin Known \/ ~Equal(account[u], resp[i])
             kept == u \in running /\ ~changed
             left == IF u \in running /\ changed THEN NoKey ELSE inbound[tag][i]
             acc == IF changed THEN resp[i] ELSE account[u]
             adds == acc.enable /\ ~kept
             fails == adds /\ toMemoryUserFails(acc)
  <2>1. acc \in Accounts \cup {NoAccount} /\ acc.key \in Key \cup {NoKey}
    BY DEF TypeOK, NoAccount
  <2>2. left \in Key \cup {NoKey}
    BY TagType DEF TypeOK
  <2>3. inbound' \in [Tag -> [Id -> Key \cup {NoKey}]]
    <3> HIDE DEF acc, left, adds, fails, kept, changed
    <3>1. inbound' = [inbound EXCEPT ![tag][i] =
                          IF adds /\ ~fails THEN addInboundUser(acc, left) ELSE left]
      BY <1>4 DEF SyncUser, acc, left, adds, fails, kept, changed
    <3> QED
      BY <3>1, <2>1, <2>2, TagType DEF TypeOK, addInboundUser
  <2>4. account' \in [User -> Accounts \cup {NoAccount}]
    BY <1>4, <2>1 DEF SyncUser, TypeOK
  <2>5. pool' \in [Id -> User \cup {NoUser}] /\ running' \in SUBSET User
    BY <1>4 DEF SyncUser, TypeOK
  <2>6. \/ syncOnceReturns
        \/ todo' = todo \ {i} /\ spc' = spc /\ tagNo' = tagNo /\ resp' = resp
    <3> HIDE DEF fails
    <3>1. IF fails
          THEN syncOnceReturns
          ELSE todo' = todo \ {i} /\ UNCHANGED <<spc, tagNo, resp>>
      BY <1>4, Zenon DEF SyncUser, fails
    <3> QED
      BY <3>1
  <2>7. /\ spc' \in {"select", "get", "users", "gone", "traffic", "post", "stopped"}
        /\ tagNo' \in 1 .. Len(proxyTags)
        /\ resp' \in [Id -> Accounts \cup {NoAccount}]
        /\ todo' \in SUBSET Id
    BY <2>6, <1>r DEF TypeOK, sync
  <2>8. UNCHANGED <<controlPlane, counters, dispatch, tracked>>
    BY <1>4 DEF SyncUser
  <2>9. stray' \in SUBSET (Tag \X Id)
    BY <1>4, LeftBehindType DEF SyncUser, TypeOK
  <2> QED
    BY <2>3, <2>4, <2>5, <2>7, <2>8, <2>9 DEF TypeOK, controlPlane, counters, dispatch, tracked
<1>5. ASSUME NEW i \in Id, RemoveGone(i) PROVE TypeOK'
  BY <1>5, TagType, LeftBehindType DEF TypeOK, RemoveGone, controlPlane, counters, dispatch, tracked
<1>6. ASSUME TagDone PROVE TypeOK'
  BY <1>6 DEF TypeOK, TagDone, Known, controlPlane, access, counters, dispatch, tracked
<1>7. ASSUME NEW i \in Id, snapshotAndReset(i) PROVE TypeOK'
  <2>1. drained' \in [User -> [Way -> Nat]]
    <3>1. CASE pool[i] \in User
      <4>1. Plus(drained[pool[i]], traffic[pool[i]]) \in [Way -> Nat]
        BY <3>1 DEF TypeOK, Plus
      <4> QED
        BY <1>7, <3>1, <4>1 DEF TypeOK, snapshotAndReset
    <3>2. CASE pool[i] \notin User
      BY <1>7, <3>2 DEF TypeOK, snapshotAndReset
    <3> QED
      BY <3>1, <3>2
  <2>2. traffic' \in [User -> [Way -> Nat]]
    BY <1>7 DEF TypeOK, snapshotAndReset, Zero
  <2> QED
    BY <1>7, <2>1, <2>2 DEF TypeOK, snapshotAndReset, controlPlane, access, dispatch, tracked
<1>8. CASE PostJSONWithRetry
  BY <1>8, <1>r DEF TypeOK, PostJSONWithRetry, controlPlane, access, counters, dispatch, tracked
<1>9. ASSUME NEW c \in Conn PROVE
        /\ (\E i \in Id, t \in Tag : Dispatch(c, i, t)) => TypeOK'
        /\ (\E ok \in BOOLEAN : DialSystem(c, ok)) => TypeOK'
        /\ Register(c) => TypeOK'
        /\ (\E w \in Way : AddTraffic(c, w) \/ CopyEnds(c, w)) => TypeOK'
        /\ Unregister(c) => TypeOK'
        /\ Kill(c) \/ killEntry(c) => TypeOK'
  <2>1. ASSUME NEW i \in Id, NEW t \in Tag, Dispatch(c, i, t) PROVE TypeOK'
    BY <2>1 DEF TypeOK, Dispatch, Goto, controlPlane, sync, access, counters, tracked
  <2>2. ASSUME NEW ok \in BOOLEAN, DialSystem(c, ok) PROVE TypeOK'
    BY <2>2 DEF TypeOK, DialSystem, Goto, controlPlane, sync, access, counters
  <2>3. ASSUME Register(c) PROVE TypeOK'
    <3>1. pool[who[c]] \in User \cup {NoUser}
      BY <2>3 DEF TypeOK, WhoInv, Register
    <3> QED
      BY <2>3, <3>1 DEF TypeOK, Register, Goto, controlPlane, sync, access, counters
  <2>4. ASSUME Unregister(c) PROVE TypeOK'
    BY <2>4 DEF TypeOK, Unregister, Goto, controlPlane, sync, access, counters
  <2>5. ASSUME NEW w \in Way, AddTraffic(c, w) PROVE TypeOK'
    <3>1. user[c] \in User
      BY <2>5 DEF TypeOK, AddTraffic
    <3> DEFINE u == user[c]
    <3>2. /\ [traffic[u] EXCEPT ![w] = @ + 1] \in [Way -> Nat]
          /\ [total[u] EXCEPT ![w] = @ + 1] \in [Way -> Nat]
      BY <3>1 DEF TypeOK
    <3>3. /\ traffic' = [traffic EXCEPT ![u] = [traffic[u] EXCEPT ![w] = @ + 1]]
          /\ total' = [total EXCEPT ![u] = [total[u] EXCEPT ![w] = @ + 1]]
      BY <2>5, <3>1 DEF TypeOK, AddTraffic
    <3>4. traffic' \in [User -> [Way -> Nat]] /\ total' \in [User -> [Way -> Nat]]
      BY <3>1, <3>2, <3>3 DEF TypeOK
    <3> QED
      BY <2>5, <3>4 DEF TypeOK, AddTraffic, controlPlane, sync, access, dispatch, tracked
  <2>6. ASSUME NEW w \in Way, CopyEnds(c, w) PROVE TypeOK'
    BY <2>6 DEF TypeOK, CopyEnds, controlPlane, sync, access, counters, tracked
  <2>7. ASSUME Kill(c) \/ killEntry(c) PROVE TypeOK'
    BY <2>7 DEF TypeOK, Kill, FindVictims, killEntry,
                controlPlane, sync, access, counters, dispatch
  <2> QED
    BY <2>1, <2>2, <2>3, <2>4, <2>5, <2>6, <2>7
<1>10. ASSUME NEW i \in Id, KillByUser(i) PROVE TypeOK'
  BY <1>10 DEF TypeOK, KillByUser, FindVictims, controlPlane, sync, access, counters, dispatch
<1>11. CASE UNCHANGED vars
  BY <1>11 DEF TypeOK, vars, controlPlane, sync, access, counters, dispatch, tracked
<1> QED
  BY <1>1, <1>2, <1>3, <1>4, <1>5, <1>6, <1>7, <1>8, <1>9, <1>10, <1>11 DEF Next, Work

\* Dispatch is told its user before it dials and forgets it when it returns.
LEMMA WhoNext == TypeInv /\ [Next]_vars => WhoInv'
<1> SUFFICES ASSUME TypeOK, WhoInv, [Next]_vars PROVE WhoInv'
  BY DEF TypeInv
<1>1. CASE UNCHANGED <<dpc, who>>
  BY <1>1 DEF WhoInv
<1>2. ASSUME NEW c \in Conn, NEW i \in Id, NEW t \in Tag, Dispatch(c, i, t) PROVE WhoInv'
  BY <1>2 DEF TypeOK, WhoInv, Dispatch, Goto
<1>3. ASSUME NEW c \in Conn, NEW ok \in BOOLEAN, DialSystem(c, ok) PROVE WhoInv'
  BY <1>3 DEF TypeOK, WhoInv, DialSystem, Goto
<1>4. ASSUME NEW c \in Conn, Register(c) PROVE WhoInv'
  BY <1>4 DEF TypeOK, WhoInv, Register, Goto
<1>5. ASSUME NEW c \in Conn, Unregister(c) PROVE WhoInv'
  BY <1>5 DEF TypeOK, WhoInv, Unregister, Goto
<1>6. ASSUME ~UNCHANGED <<dpc, who>> PROVE
        \E c \in Conn : \/ \E i \in Id, t \in Tag : Dispatch(c, i, t)
                        \/ \E ok \in BOOLEAN : DialSystem(c, ok)
                        \/ Register(c)
                        \/ Unregister(c)
  <2>1. ASSUME Work PROVE UNCHANGED dispatch
    BY <2>1, ZenonT(60) DEF Work, SyncUser, RemoveGone, snapshotAndReset, UsersDone, TagDone, TrafficDone
  <2>2. ASSUME NEW i \in Id, NEW a \in Accounts \cup {NoAccount}, Edit(i, a)
        PROVE  UNCHANGED dispatch
    BY <2>2 DEF Edit
  <2>3. ASSUME NEW ok \in BOOLEAN, GetJSONWithRetry(ok) PROVE UNCHANGED dispatch
    BY <2>3 DEF GetJSONWithRetry
  <2>4. ASSUME Tick \/ Stop \/ PostJSONWithRetry PROVE UNCHANGED dispatch
    BY <2>4 DEF Tick, Stop, PostJSONWithRetry
  <2>5. ASSUME NEW c \in Conn, (\E w \in Way : AddTraffic(c, w) \/ CopyEnds(c, w))
                               \/ Kill(c) \/ killEntry(c)
        PROVE  UNCHANGED <<dpc, who>>
    BY <2>5 DEF AddTraffic, CopyEnds, Kill, FindVictims, killEntry, dispatch
  <2>6. ASSUME NEW i \in Id, KillByUser(i) PROVE UNCHANGED <<dpc, who>>
    BY <2>6 DEF KillByUser, FindVictims, dispatch
  <2>7. UNCHANGED dispatch => UNCHANGED <<dpc, who>>
    BY DEF dispatch
  <2>8. ~UNCHANGED vars
    BY <1>6 DEF vars, dispatch
  <2> QED
    BY <1>6, <2>1, <2>2, <2>3, <2>4, <2>5, <2>6, <2>7, <2>8 DEF Next
<1> QED
  BY <1>1, <1>2, <1>3, <1>4, <1>5, <1>6

\* The state of the pool, of Dispatch and of the tracker is always well typed.
THEOREM TypeCorrect == Spec => []TypeOK
<1>1. Spec => []TypeInv
  <2>1. TypeInv /\ [Next]_vars => TypeInv'
    BY TypeNext, WhoNext DEF TypeInv
  <2> QED
    BY TypeInit, <2>1, PTL DEF Spec
<1>2. TypeInv => TypeOK
  BY DEF TypeInv
<1> QED
  BY <1>1, <1>2, PTL

-----------------------------------------------------------------------------
(* The counters. *)

\* Metering adds the same to both counters of a User, and a snapshot moves what
\* the resettable one holds to the requests.
LEMMA ConservedNext ==
  TypeOK /\ TypeOK' /\ TrafficConserved /\ [Next]_vars => TrafficConserved'
<1> SUFFICES ASSUME TypeOK, TypeOK', TrafficConserved, [Next]_vars,
                    NEW v \in User
             PROVE  total'[v] = Plus(traffic'[v], drained'[v])
  BY DEF TrafficConserved, Plus
<1>0. total[v] = Plus(traffic[v], drained[v])
  BY DEF TrafficConserved
<1>1. CASE UNCHANGED counters
  BY <1>0, <1>1 DEF counters
<1>2. ASSUME NEW i \in Id, snapshotAndReset(i)
      PROVE  total'[v] = Plus(traffic'[v], drained'[v])
  <2>1. CASE pool[i] # v
    BY <1>0, <1>2, <2>1 DEF snapshotAndReset, TypeOK
  <2>2. CASE pool[i] = v /\ traffic[v] = Zero
    BY <1>0, <1>2, <2>2 DEF snapshotAndReset, TypeOK
  <2>3. CASE pool[i] = v /\ traffic[v] # Zero
    <3>1. traffic'[v] = Zero /\ drained'[v] = Plus(drained[v], traffic[v])
      BY <1>2, <2>3 DEF snapshotAndReset, TypeOK
    <3>2. Plus(Zero, Plus(drained[v], traffic[v])) = Plus(traffic[v], drained[v])
      BY DEF Plus, Zero, TypeOK
    <3> QED
      BY <1>0, <1>2, <3>1, <3>2 DEF snapshotAndReset
  <2> QED
    BY <2>1, <2>2, <2>3
<1>3. ASSUME NEW c \in Conn, NEW w \in Way, AddTraffic(c, w)
      PROVE  total'[v] = Plus(traffic'[v], drained'[v])
  <2>1. CASE user[c] # v
    BY <1>0, <1>3, <2>1 DEF AddTraffic, TypeOK
  <2>2. CASE user[c] = v
    <3>1. /\ traffic'[v] = [traffic[v] EXCEPT ![w] = @ + 1]
          /\ total'[v] = [total[v] EXCEPT ![w] = @ + 1]
          /\ drained' = drained
      BY <1>3, <2>2 DEF AddTraffic, TypeOK
    <3>2. [Plus(traffic[v], drained[v]) EXCEPT ![w] = @ + 1]
             = Plus([traffic[v] EXCEPT ![w] = @ + 1], drained[v])
      <4>1. traffic[v] \in [Way -> Nat] /\ drained[v] \in [Way -> Nat]
        BY DEF TypeOK
      <4> DEFINE f == [Plus(traffic[v], drained[v]) EXCEPT ![w] = @ + 1]
                 g == Plus([traffic[v] EXCEPT ![w] = @ + 1], drained[v])
      <4>2. f \in [Way -> Nat] /\ g \in [Way -> Nat]
        BY <4>1 DEF Plus
      <4>3. \A x \in Way : f[x] = g[x]
        BY <4>1 DEF Plus
      <4> HIDE DEF f, g
      <4>4. f = g
        BY <4>2, <4>3
      <4> QED
        BY <4>4 DEF f, g
    <3> QED
      BY <1>0, <3>1, <3>2
  <2> QED
    BY <2>1, <2>2
<1>4. ASSUME ~UNCHANGED counters PROVE
        \/ \E i \in Id : snapshotAndReset(i)
        \/ \E c \in Conn, w \in Way : AddTraffic(c, w)
  BY <1>4, ZenonT(60) DEF Next, Work, vars, Edit, Tick, Stop, GetJSONWithRetry, SyncUser, RemoveGone,
              UsersDone, TagDone, TrafficDone, PostJSONWithRetry, Dispatch, DialSystem,
              Register, CopyEnds, Unregister, Kill, KillByUser, FindVictims, killEntry
<1> QED
  BY <1>1, <1>2, <1>3, <1>4

\* No metered unit is lost or reported twice, for any number of users,
\* connections and rounds of the sync loop.
THEOREM Conserved == Spec => []TrafficConserved
<1>1. Init => TrafficConserved
  BY DEF Init, TrafficConserved, Plus, Zero
<1> QED
  BY <1>1, TypeCorrect, ConservedNext, PTL DEF Spec

-----------------------------------------------------------------------------
(* Access. *)

\* A User belongs to one id and was made for it; only Users of the pool run.
PoolInv ==
    /\ \A i, j \in Id : pool[i] # NoUser /\ pool[i] = pool[j] => i = j
    /\ \A i \in Id : pool[i] # NoUser => account[pool[i]] \in Accounts
    /\ \A u \in running : account[u] \in Accounts /\ account[u].enable

\* Tag t lets user i in, and not because another tag left it there.
Own(t, i) == inbound[t][i] # NoKey /\ <<t, i>> \notin stray

\* A User that runs was added by way of one tag, with its key, and whoever is
\* on an inbound without having been left there runs.
InboundInv ==
    /\ \A t \in Tag, i \in Id :
          Own(t, i) => pool[i] \in running /\ inbound[t][i] = account[pool[i]].key
    /\ \A t, x \in Tag, i \in Id : Own(t, i) /\ Own(x, i) => t = x
    /\ \A i \in Id : pool[i] \in running => \E t \in Tag : inbound[t][i] # NoKey

\* User i is as the response has it.
Done(i) ==
    /\ pool[i] # NoUser
    /\ account[pool[i]] = resp[i]
    /\ resp[i].enable => pool[i] \in running

\* How far the round has come.
RoundInv ==
    /\ spc = "users" => \A i \in Id : i \notin todo /\ resp[i] # NoAccount => Done(i)
    /\ spc = "users" => \A i \in todo : resp[i] # NoAccount
    /\ spc = "gone" => \A i \in Id : resp[i] # NoAccount => Done(i)
    /\ spc = "gone" => \A i \in Id : resp[i] = NoAccount /\ pool[i] # NoUser => i \in todo
    /\ spc = "gone" => \A i \in todo : resp[i] = NoAccount
    /\ spc \in {"traffic", "post"} =>
          \A i \in Id : IF resp[i] = NoAccount THEN pool[i] = NoUser ELSE Done(i)

AccessInv == PoolInv /\ InboundInv /\ RoundInv

\* Nobody is known or let in at the start.
LEMMA AccessInit == Init => AccessInv
<1> SUFFICES ASSUME Init PROVE AccessInv
  OBVIOUS
<1>1. PoolInv /\ RoundInv
  BY DEF Init, PoolInv, RoundInv
<1>2. InboundInv
  BY DEF Init, InboundInv, Own
<1> QED
  BY <1>1, <1>2 DEF AccessInv

\* The actions that touch neither the pool nor the inbounds.
LEMMA AccessKept ==
  ASSUME TypeOK, AccessInv, UNCHANGED access,
         \/ UNCHANGED sync
         \/ spc' \in {"select", "get", "stopped"}
         \/ spc' = "users" /\ todo' = {i \in Id : resp'[i] # NoAccount}
         \/ UsersDone \/ TagDone \/ TrafficDone
         \/ spc = "traffic" /\ spc' = "traffic" /\ resp' = resp
  PROVE  AccessInv'
<1>1. PoolInv' /\ InboundInv'
  BY DEF AccessInv, PoolInv, InboundInv, Own, access
<1>2. RoundInv'
  <2>0. \A i \in Id : Done(i) /\ resp' = resp => Done(i)'
    BY DEF Done, access
  <2>1. CASE UNCHANGED sync
    BY <2>0, <2>1 DEF AccessInv, RoundInv, sync, access
  <2>2. CASE spc' \in {"select", "get", "stopped"}
    BY <2>2 DEF RoundInv
  <2>3. CASE spc' = "users" /\ todo' = {i \in Id : resp'[i] # NoAccount}
    BY <2>3 DEF RoundInv
  <2>4. CASE UsersDone
    BY <2>0, <2>4 DEF UsersDone, AccessInv, RoundInv, access, Known
  <2>5. CASE TagDone
    BY <2>0, <2>5 DEF TagDone, AccessInv, RoundInv, access
  <2>6. CASE TrafficDone
    BY <2>0, <2>6 DEF TrafficDone, AccessInv, RoundInv, access
  <2>7. CASE spc = "traffic" /\ spc' = "traffic" /\ resp' = resp
    BY <2>0, <2>7 DEF AccessInv, RoundInv, access
  <2> QED
    BY <2>1, <2>2, <2>3, <2>4, <2>5, <2>6, <2>7
<1> QED
  BY <1>1, <1>2 DEF AccessInv

\* One user of the response is brought in line.
LEMMA AccessSyncUser ==
  ASSUME TypeOK, AccessInv,
         NEW i \in Id, NEW u \in User, SyncUser(i, u)
  PROVE  AccessInv'
<1> DEFINE T == proxyTags[tagNo]
           changed == i \notin Known \/ ~Equal(account[u], resp[i])
           kept == u \in running /\ ~changed
           left == IF u \in running /\ changed THEN NoKey ELSE inbound[T][i]
           acc == IF changed THEN resp[i] ELSE account[u]
           adds == acc.enable /\ ~kept
           fails == adds /\ toMemoryUserFails(acc)
<1>1. T \in Tag
  BY TagType
<1>2. resp[i] \in Accounts
  BY DEF SyncUser, AccessInv, RoundInv, TypeOK
<1>3. acc = resp[i]
  <2>1. CASE changed
    BY <2>1
  <2>2. CASE ~changed
    <3>1. account[u] \in Accounts
      BY <2>2 DEF SyncUser, Finds, AccessInv, PoolInv, Known
    <3>2. account[u].key = resp[i].key /\ account[u].enable = resp[i].enable
      BY <2>2 DEF Equal
    <3> QED
      BY <3>1, <3>2, <1>2, UserPoolAssumption
  <2> QED
    BY <2>1, <2>2
<1>4. /\ \A j \in Id : j # i => pool[j] # u
      /\ i \notin Known => u \notin running
      /\ i \in Known => pool[i] = u
  <2>1. NoAccount \notin Accounts
    BY UserPoolAssumption DEF NoAccount
  <2>2. NoUser \notin User
    BY DEF NoUser, User
  <2> QED
    BY <2>1, <2>2 DEF SyncUser, Finds, AccessInv, PoolInv, Known, TypeOK
<1>5. /\ pool' = [pool EXCEPT ![i] = u]
      /\ account' = [account EXCEPT ![u] = acc]
      /\ running' = IF kept \/ (adds /\ ~fails) THEN running \cup {u} ELSE running \ {u}
      /\ inbound' = [inbound EXCEPT ![T][i] =
                        IF adds /\ ~fails THEN addInboundUser(acc, left) ELSE left]
      /\ stray' = IF u \in running /\ changed THEN LeftBehind(i) ELSE stray
      /\ fails => syncOnceReturns
      /\ ~fails => todo' = todo \ {i} /\ spc' = spc /\ resp' = resp
      /\ spc = "users"
  BY <1>1 DEF SyncUser
<1>6. acc.key # NoKey
  BY <1>2, <1>3, UserPoolAssumption
<1>7. kept => acc.enable
  BY <1>3 DEF AccessInv, PoolInv
<1> DEFINE runs == kept \/ (adds /\ ~fails)
<1>8. /\ inbound'[T][i] = IF adds /\ ~fails THEN addInboundUser(acc, left) ELSE left
      /\ \A t \in Tag, j \in Id : t # T \/ j # i => inbound'[t][j] = inbound[t][j]
  BY <1>1, <1>5 DEF TypeOK
<1>9. \A t \in Tag, j \in Id : j # i => (<<t, j>> \in stray' <=> <<t, j>> \in stray)
  BY <1>5 DEF LeftBehind
<1>10. /\ pool'[i] = u /\ account'[u] = resp[i]
       /\ \A j \in Id : j # i => pool'[j] = pool[j]
       /\ \A v \in User : v # u => account'[v] = account[v]
       /\ \A v \in User : v # u => (v \in running' <=> v \in running)
       /\ u \in running' <=> runs
       /\ running' \subseteq User
  BY <1>3, <1>5 DEF TypeOK
<1>11. runs => resp[i].enable
  BY <1>3, <1>7
<1>12. ~fails /\ resp[i].enable => runs
  BY <1>3
<1> HIDE DEF changed, kept, left, acc, adds, fails, runs, T
<1>13. PoolInv'
  <2>1. \A j, k \in Id : pool'[j] # NoUser /\ pool'[j] = pool'[k] => j = k
    BY <1>4, <1>10 DEF AccessInv, PoolInv
  <2>2. ASSUME NEW j \in Id, pool'[j] # NoUser PROVE account'[pool'[j]] \in Accounts
    <3>1. CASE j = i
      BY <3>1, <1>2, <1>10
    <3>2. CASE j # i
      <4>1. pool'[j] = pool[j] /\ pool[j] # u /\ pool[j] \in User
        BY <2>2, <3>2, <1>4, <1>10 DEF TypeOK
      <4> QED
        BY <2>2, <4>1, <1>10 DEF AccessInv, PoolInv
    <3> QED
      BY <3>1, <3>2
  <2>3. \A v \in running' : account'[v] \in Accounts /\ account'[v].enable
    BY <1>2, <1>10, <1>11 DEF AccessInv, PoolInv
  <2> QED
    BY <2>1, <2>2, <2>3 DEF PoolInv
<1>14. \A t \in Tag : Own(t, i)' => runs /\ inbound'[t][i] = acc.key
  <2>1. CASE kept
    <3>1. \A t \in Tag : inbound'[t][i] = inbound[t][i] /\ stray' = stray
      BY <2>1, <1>5, <1>8 DEF kept, adds, left
    <3>2. pool[i] = u /\ account[u] = acc
      BY <2>1, <1>4 DEF kept, changed, acc
    <3> QED
      BY <2>1, <3>1, <3>2 DEF AccessInv, InboundInv, Own, runs
  <2>2. CASE u \in running /\ changed
    <3>1. \A t \in Tag : t # T /\ inbound[t][i] # NoKey => <<t, i>> \in stray'
      BY <2>2, <1>5 DEF LeftBehind, T
    <3>2. ASSUME inbound'[T][i] # NoKey PROVE runs /\ inbound'[T][i] = acc.key
      BY <3>2, <2>2, <1>8 DEF left, addInboundUser, runs
    <3> QED
      BY <3>1, <3>2, <1>8 DEF Own
  <2>3. CASE u \notin running
    <3>1. pool[i] \notin running
      BY <2>3, <1>4 DEF Known, TypeOK, NoUser, User
    <3>2. \A t \in Tag : inbound[t][i] # NoKey => <<t, i>> \in stray
      BY <3>1 DEF AccessInv, InboundInv, Own
    <3>3. stray' = stray /\ left = inbound[T][i]
      BY <2>3, <1>5 DEF left
    <3>4. ASSUME inbound'[T][i] # NoKey, <<T, i>> \notin stray
          PROVE  runs /\ inbound'[T][i] = acc.key
      BY <3>2, <3>3, <3>4, <1>1, <1>8 DEF addInboundUser, runs
    <3> QED
      BY <3>2, <3>3, <3>4, <1>8 DEF Own
  <2> QED
    BY <2>1, <2>2, <2>3 DEF kept
<1>15. \A t, x \in Tag : Own(t, i)' /\ Own(x, i)' => t = x
  <2>1. CASE kept
    <3>1. \A t \in Tag : inbound'[t][i] = inbound[t][i] /\ stray' = stray
      BY <2>1, <1>5, <1>8 DEF kept, adds, left
    <3> QED
      BY <3>1 DEF AccessInv, InboundInv, Own
  <2>2. CASE u \in running /\ changed
    BY <2>2, <1>5, <1>8 DEF LeftBehind, T, Own
  <2>3. CASE u \notin running
    <3>1. pool[i] \notin running
      BY <2>3, <1>4 DEF Known, TypeOK, NoUser, User
    <3>2. \A t \in Tag : inbound[t][i] # NoKey => <<t, i>> \in stray
      BY <3>1 DEF AccessInv, InboundInv, Own
    <3> QED
      BY <2>3, <3>2, <1>5, <1>8 DEF Own
  <2> QED
    BY <2>1, <2>2, <2>3 DEF kept
<1>16. runs => \E t \in Tag : inbound'[t][i] # NoKey
  <2>1. CASE kept
    <3>1. \A t \in Tag : inbound'[t][i] = inbound[t][i]
      BY <2>1, <1>8 DEF kept, adds, left
    <3>2. pool[i] \in running
      BY <2>1, <1>4 DEF kept, changed
    <3> QED
      BY <3>1, <3>2 DEF AccessInv, InboundInv
  <2>2. CASE ~kept
    BY <2>2, <1>1, <1>6, <1>8 DEF runs, addInboundUser
  <2> QED
    BY <2>1, <2>2
<1>17. InboundInv'
  <2>1. ASSUME NEW j \in Id, j # i
        PROVE  /\ \A t \in Tag : Own(t, j)' <=> Own(t, j)
               /\ \A t \in Tag : inbound'[t][j] = inbound[t][j]
               /\ pool'[j] \in running' <=> pool[j] \in running
               /\ pool[j] \in running => account'[pool'[j]] = account[pool[j]]
    <3>1. \A t \in Tag : inbound'[t][j] = inbound[t][j]
      BY <2>1, <1>8
    <3>2. \A t \in Tag : Own(t, j)' <=> Own(t, j)
      BY <2>1, <3>1, <1>9 DEF Own
    <3>3. pool'[j] = pool[j] /\ pool[j] # u
      BY <2>1, <1>4, <1>10
    <3>4. running \subseteq User
      BY DEF TypeOK
    <3> QED
      BY <3>1, <3>2, <3>3, <3>4, <1>10
  <2>2. \A t \in Tag, j \in Id :
          Own(t, j)' => pool'[j] \in running' /\ inbound'[t][j] = account'[pool'[j]].key
    <3>1. ASSUME NEW t \in Tag, Own(t, i)'
          PROVE  pool'[i] \in running' /\ inbound'[t][i] = account'[pool'[i]].key
      BY <3>1, <1>3, <1>10, <1>14
    <3>2. ASSUME NEW t \in Tag, NEW j \in Id, j # i, Own(t, j)'
          PROVE  pool'[j] \in running' /\ inbound'[t][j] = account'[pool'[j]].key
      BY <3>2, <2>1 DEF AccessInv, InboundInv
    <3> QED
      BY <3>1, <3>2
  <2>3. \A t, x \in Tag, j \in Id : Own(t, j)' /\ Own(x, j)' => t = x
    BY <2>1, <1>15 DEF AccessInv, InboundInv
  <2>4. \A j \in Id : pool'[j] \in running' => \E t \in Tag : inbound'[t][j] # NoKey
    BY <2>1, <1>10, <1>16 DEF AccessInv, InboundInv
  <2> QED
    BY <2>2, <2>3, <2>4 DEF InboundInv
<1>18. RoundInv'
  <2>1. CASE fails
    BY <2>1, <1>5 DEF RoundInv, syncOnceReturns
  <2>2. CASE ~fails
    <3>1. Done(i)'
      BY <2>2, <1>5, <1>10, <1>12 DEF Done, NoUser, User
    <3>2. ASSUME NEW j \in Id, j # i, Done(j) PROVE Done(j)'
      BY <2>2, <3>2, <1>4, <1>5, <1>10 DEF Done, TypeOK
    <3> QED
      BY <2>2, <3>1, <3>2, <1>5 DEF AccessInv, RoundInv
  <2> QED
    BY <2>1, <2>2
<1> QED
  BY <1>13, <1>17, <1>18 DEF AccessInv

\* A user that the response does not have leaves the inbound and the pool.
LEMMA AccessRemoveGone ==
  ASSUME TypeOK, AccessInv, NEW i \in Id, RemoveGone(i)
  PROVE  AccessInv'
<1> DEFINE T == proxyTags[tagNo]
<1>1. T \in Tag
  BY TagType
<1>2. NoUser \notin User
  BY DEF NoUser, User
<1>3. /\ pool'[i] = NoUser
      /\ \A j \in Id : j # i => pool'[j] = pool[j]
      /\ running' = running \ {pool[i]}
      /\ account' = account
      /\ inbound'[T][i] = NoKey
      /\ \A t \in Tag, j \in Id : t # T \/ j # i => inbound'[t][j] = inbound[t][j]
      /\ stray' = LeftBehind(i)
      /\ todo' = todo \ {i} /\ spc' = spc /\ resp' = resp /\ spc = "gone" /\ i \in todo
  BY <1>1 DEF RemoveGone, TypeOK
<1>4. \A j \in Id : j # i /\ pool[j] # NoUser => pool[j] # pool[i]
  BY DEF AccessInv, PoolInv
<1>5. PoolInv'
  BY <1>3, <1>4 DEF AccessInv, PoolInv
<1>6. InboundInv'
  <2>1. NoUser \notin running' /\ NoUser \notin running
    BY <1>2, <1>3 DEF TypeOK
  <2>2. \A t \in Tag : ~Own(t, i)'
    BY <1>3 DEF Own, LeftBehind
  <2>3. ASSUME NEW j \in Id, j # i
        PROVE  /\ \A t \in Tag : Own(t, j)' <=> Own(t, j)
               /\ \A t \in Tag : inbound'[t][j] = inbound[t][j]
               /\ pool'[j] = pool[j]
               /\ pool'[j] \in running' <=> pool[j] \in running
    <3>1. \A t \in Tag : inbound'[t][j] = inbound[t][j]
      BY <2>3, <1>3
    <3>2. \A t \in Tag : <<t, j>> \in stray' <=> <<t, j>> \in stray
      BY <2>3, <1>3 DEF LeftBehind
    <3>3. pool'[j] \in running' <=> pool[j] \in running
      BY <2>1, <2>3, <1>3, <1>4
    <3> QED
      BY <2>3, <3>1, <3>2, <3>3, <1>3 DEF Own
  <2>4. \A t \in Tag, j \in Id :
          Own(t, j)' => pool'[j] \in running' /\ inbound'[t][j] = account'[pool'[j]].key
    BY <2>2, <2>3, <1>3 DEF AccessInv, InboundInv
  <2>5. \A t, x \in Tag, j \in Id : Own(t, j)' /\ Own(x, j)' => t = x
    BY <2>2, <2>3 DEF AccessInv, InboundInv
  <2>6. \A j \in Id : pool'[j] \in running' => \E t \in Tag : inbound'[t][j] # NoKey
    BY <2>1, <2>3, <1>3 DEF AccessInv, InboundInv
  <2> QED
    BY <2>4, <2>5, <2>6 DEF InboundInv
<1>7. RoundInv'
  <2>1. resp[i] = NoAccount
    BY <1>3 DEF AccessInv, RoundInv
  <2>2. ASSUME NEW j \in Id, resp[j] # NoAccount PROVE Done(j)'
    BY <2>1, <2>2, <1>3, <1>4 DEF AccessInv, RoundInv, Done
  <2> QED
    BY <2>1, <2>2, <1>3 DEF AccessInv, RoundInv
<1> QED
  BY <1>5, <1>6, <1>7 DEF AccessInv

\* Every step keeps pool, inbound and response in line.
LEMMA AccessNext ==
  TypeOK /\ AccessInv /\ [Next]_vars => AccessInv'
<1> SUFFICES ASSUME TypeOK, AccessInv, [Next]_vars PROVE AccessInv'
  OBVIOUS
<1>1. ASSUME NEW i \in Id, NEW u \in User, SyncUser(i, u) PROVE AccessInv'
  BY <1>1, AccessSyncUser
<1>2. ASSUME NEW i \in Id, RemoveGone(i) PROVE AccessInv'
  BY <1>2, AccessRemoveGone
<1>3. CASE UNCHANGED access /\ UNCHANGED sync
  BY <1>3, AccessKept
<1>4. CASE Tick \/ Stop \/ PostJSONWithRetry
  BY <1>4, AccessKept DEF Tick, Stop, PostJSONWithRetry, syncOnceReturns
<1>5. ASSUME NEW ok \in BOOLEAN, GetJSONWithRetry(ok) PROVE AccessInv'
  <2>1. UNCHANGED access
    BY <1>5 DEF GetJSONWithRetry
  <2>2. \/ spc' = "select"
        \/ spc' = "users" /\ todo' = {i \in Id : resp'[i] # NoAccount}
    BY <1>5 DEF GetJSONWithRetry, syncOnceReturns
  <2> QED
    BY <2>1, <2>2, AccessKept
<1>6. CASE UsersDone \/ TagDone \/ TrafficDone
  BY <1>6, AccessKept DEF UsersDone, TagDone, TrafficDone
<1>7. ASSUME NEW i \in Id, snapshotAndReset(i) PROVE AccessInv'
  BY <1>7, AccessKept DEF snapshotAndReset
<1>8. \/ UNCHANGED access /\ UNCHANGED sync
      \/ \E i \in Id, u \in User : SyncUser(i, u)
      \/ \E i \in Id : RemoveGone(i) \/ snapshotAndReset(i)
      \/ Tick \/ Stop \/ PostJSONWithRetry \/ UsersDone \/ TagDone \/ TrafficDone
      \/ \E ok \in BOOLEAN : GetJSONWithRetry(ok)
  BY DEF Next, Work, vars, Edit, Dispatch, DialSystem, Register, AddTraffic, CopyEnds,
         Unregister, Kill, KillByUser, FindVictims, killEntry
<1> QED
  BY <1>1, <1>2, <1>3, <1>4, <1>5, <1>6, <1>7, <1>8

\* Whoever an inbound lets in has a User to meter on, for any number of tags,
\* unless it was left there when it was removed by way of another tag.
THEOREM Metered == Spec => []AccessIsMetered
<1>1. TypeOK /\ AccessInv => AccessIsMetered
  BY DEF TypeOK, AccessInv, InboundInv, Own, AccessIsMetered, Known, NoUser, User
<1> QED
  BY <1>1, AccessInit, AccessNext, TypeCorrect, PTL DEF Spec

\* A round that comes to the traffic has brought the users in line with the
\* response, whatever earlier rounds left half done and for any number of tags:
\* an enabled user is on one inbound and a disabled one on none, unless it was
\* left on another.
THEOREM Reconciled == Spec => []RoundReconciles
<1>1. TypeOK /\ AccessInv => RoundReconciles
  <2> SUFFICES ASSUME TypeOK, AccessInv, spc \in {"traffic", "post"}, NEW i \in Id, Clean(i)
               PROVE  LetsIn(i, resp[i])
    BY DEF RoundReconciles
  <2>1. \A t \in Tag : inbound[t][i] # NoKey => Own(t, i)
    BY DEF Clean, Own
  <2>2. CASE resp[i].enable
    <3>1. resp[i] # NoAccount
      BY <2>2 DEF NoAccount
    <3>2. pool[i] \in running /\ account[pool[i]] = resp[i]
      BY <2>2, <3>1 DEF AccessInv, RoundInv, Done
    <3>3. PICK t \in Tag : inbound[t][i] # NoKey
      BY <3>2 DEF AccessInv, InboundInv
    <3>4. \A x \in Tag : inbound[x][i] = IF x = t THEN resp[i].key ELSE NoKey
      BY <2>1, <3>2, <3>3 DEF AccessInv, InboundInv
    <3> QED
      BY <2>2, <3>4 DEF LetsIn
  <2>3. CASE ~resp[i].enable
    <3>1. pool[i] \notin running
      <4>1. CASE resp[i] = NoAccount
        BY <4>1 DEF AccessInv, RoundInv, TypeOK, NoUser, User
      <4>2. CASE resp[i] # NoAccount
        BY <2>3, <4>2 DEF AccessInv, RoundInv, PoolInv, Done
      <4> QED
        BY <4>1, <4>2
    <3>2. \A x \in Tag : inbound[x][i] = NoKey
      BY <2>1, <3>1 DEF AccessInv, InboundInv
    <3> QED
      BY <2>3, <3>2 DEF LetsIn
  <2> QED
    BY <2>2, <2>3
<1> QED
  BY <1>1, AccessInit, AccessNext, TypeCorrect, PTL DEF Spec
=============================================================================
