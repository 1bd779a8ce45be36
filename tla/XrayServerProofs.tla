-------------------------- MODULE XrayServerProofs --------------------------
(* Proofs about XrayServer, for any files, tags, connections and edits. *)
EXTENDS XrayServer, TLAPS

Watcher == Gen \cup {main}

\* Setup has made the first instance.
LEMMA TypeInit == Init => TypeOK
<1> SUFFICES ASSUME Init PROVE TypeOK
  OBVIOUS
<1>1. 1 \in Gen
  BY XrayAssumption DEF Gen, MaxGen
<1>2. up \in Gen \cup {NoPool}
  BY <1>1 DEF Init
<1>3. 0 \in 0 .. MaxEdits
  BY XrayAssumption
<1> QED
  BY <1>1, <1>2, <1>3, XrayAssumption DEF Init, TypeOK, main

\* Every action keeps the types.
LEMMA TypeNext == TypeOK /\ [Next]_vars => TypeOK'
<1> SUFFICES ASSUME TypeOK, [Next]_vars PROVE TypeOK'
  OBVIOUS
<1> USE DEF TypeOK
<1>1. ASSUME NEW f \in Files, Edit(f) PROVE TypeOK'
  BY <1>1, XrayAssumption DEF Edit, server, watch, syncing, conns
<1>2. CASE LoadConfig \/ Decoded \/ \E ok \in BOOLEAN : Read(ok)
  BY <1>2 DEF LoadConfig, Decoded, Read, server, watch, syncing, conns
<1>3. ASSUME NEW w \in Watcher, Load(w) PROVE TypeOK'
  BY <1>3 DEF Load, Goto, Watcher, config, server, syncing, conns
<1>4. ASSUME NEW w \in Watcher, NEW old, Check(w, old) PROVE TypeOK'
  BY <1>4 DEF Check, Goto, Watcher, config, syncing, conns
<1>5. ASSUME NEW w \in Watcher, CheckPanics(w) \/ Fail(w) PROVE TypeOK'
  BY <1>5 DEF CheckPanics, Fail, Goto, Watcher, config, server, watch, syncing, conns
<1>6. ASSUME NEW w \in Watcher, Reload(w) PROVE TypeOK'
  <2>1. CASE KillAll(w)
    BY <2>1, <1>6 DEF KillAll, Tracked, Goto, Watcher, config, server, syncing
  <2>2. CASE CloseInstance(w)
    BY <2>2, <1>6 DEF CloseInstance, Goto, Watcher, config, syncing, conns
  <2>3. CASE StopPool(w)
    BY <2>3, <1>6 DEF StopPool, Goto, Watcher, config, server, conns
  <2>4. CASE Setup(w)
    <3>1. gen + 1 \in Gen
      BY <2>4, XrayAssumption DEF Setup, Gen, MaxGen
    <3>2. up' \in Gen \cup {NoPool} /\ im' \in [Gen -> Gen \cup {0}]
      BY <2>4, <3>1 DEF Setup, NewPool
    <3> QED
      BY <2>4, <3>1, <3>2 DEF Setup, Goto, Watcher, config, syncing, conns
  <2>5. CASE Start(w)
    <3>1. wpc' \in [Gen \cup {main} ->
            {"off", "select", "check", "stop", "kill", "cancel", "setup", "start", "sync",
             "done", "failed"}]
      BY <2>5, <1>6 DEF Start, HandOver, Goto
    <3> QED
      BY <2>5, <3>1 DEF Start, config, syncing, conns
  <2>6. CASE \E c \in Conn : killEntry(w, c)
    BY <2>6, <1>6 DEF killEntry, config, server, watch, syncing
  <2> QED
    BY <1>6, <2>1, <2>2, <2>3, <2>4, <2>5, <2>6 DEF Reload
<1>7. ASSUME NEW w \in Watcher, StartPool(w) PROVE TypeOK'
  BY <1>7 DEF StartPool, HandOver, Watcher, config, server, conns
<1>8. ASSUME NEW g \in Gen, SyncTick(g) \/ SyncOnce(g) \/ SyncDone(g) PROVE TypeOK'
  BY <1>8 DEF SyncTick, SyncOnce, SyncDone, config, server, watch, conns
<1>9. ASSUME NEW c \in Conn, Dispatch(c) \/ Register(c) \/ Return(c) PROVE TypeOK'
  BY <1>9 DEF Dispatch, Register, Return, config, server, watch, syncing
<1>10. CASE UNCHANGED vars
  BY <1>10 DEF vars, config, server, watch, syncing, conns
<1> QED
  BY <1>1, <1>2, <1>3, <1>4, <1>5, <1>6, <1>7, <1>8, <1>9, <1>10 DEF Next, Watcher

\* The state of the server, of its goroutines and connections is well typed.
THEOREM TypeCorrect == Spec => []TypeOK
BY TypeInit, TypeNext, PTL DEF Spec

-----------------------------------------------------------------------------
(* The goroutine in charge, and what holds at each of its places. *)

\* The watcher of a running instance, before and during the kills of Stop.
Serving == {"select", "check", "stop", "kill"}

\* Those before w are done, and those after it are not started.  w watches the
\* present instance, or is about to start the one after it.
Boss(w) ==
    /\ wpc[w] \notin {"off", "done"}
    /\ \A v \in Watcher : v < w => wpc[v] = "done"
    /\ \A v \in Watcher : v > w => wpc[v] = "off"
    /\ wpc[w] \in Serving \cup {"cancel", "setup"} => w = gen
    /\ wpc[w] \in {"start", "sync"} => w + 1 = gen

\* The instance, its pool and the pool's goroutine.
Phase(w) ==
    /\ meter[gen] = up
    /\ inst[gen].cfg.sync => up = gen /\ im[gen] = gen
    /\ \A g \in canceled : g <= gen /\ (wpc[w] \in {"setup", "failed"} \/ g < gen)
    /\ wpc[w] \in Serving =>
          /\ inst[gen].state = "running"
          /\ up # NoPool => syncer[gen] # "off" /\ spool[gen] = up
    /\ wpc[w] = "sync" => up # NoPool /\ inst[gen].state = "running"
    /\ inst[gen].state = "running" => wpc[w] \in Serving \cup {"sync"}

\* A connection that Stop did not kill and did not miss belongs to the present
\* instance, and Stop is still to kill it.
Conns(w) ==
    \A c \in Conn : cpc[c] \in {"dial", "copy"} /\ c \notin killed \cup late =>
        /\ cgen[c] = gen
        /\ wpc[w] \in Serving \cup {"sync"}
        /\ wpc[w] = "kill" => c \in victims

ServerInv == \E w \in Watcher : Boss(w) /\ Phase(w) /\ Conns(w)

\* The first Start is in charge.
LEMMA ServerInit == Init => ServerInv
<1> SUFFICES ASSUME Init PROVE Boss(main) /\ Phase(main) /\ Conns(main)
  BY DEF ServerInv, Watcher
<1>1. 1 \in Gen /\ Gen \subseteq Nat
  BY XrayAssumption DEF Gen, MaxGen
<1>2. Boss(main)
  BY <1>1 DEF Init, Boss, Watcher, main, Serving
<1>3. Phase(main)
  BY <1>1 DEF Init, Phase, main, Serving, NoPool
<1>4. Conns(main)
  BY DEF Init, Conns
<1> QED
  BY <1>2, <1>3, <1>4

\* A goroutine that is neither off nor done is the one in charge.
LEMMA OnlyBoss ==
  ASSUME NEW w \in Watcher, Boss(w), NEW v \in Watcher, wpc[v] \notin {"off", "done"}
  PROVE  v = w
<1>1. v \in Nat /\ w \in Nat
  BY XrayAssumption DEF Watcher, Gen, MaxGen, main
<1> QED
  BY <1>1 DEF Boss

\* What neither moves the goroutine in charge nor touches the instance.
LEMMA ServerKept ==
  ASSUME TypeOK, ServerInv,
         UNCHANGED <<wpc, gen, up, inst, im, meter, spool, canceled>>,
         \A g \in Gen : syncer[g] # "off" => syncer'[g] # "off",
         UNCHANGED <<cpc, cgen, killed, victims, late>>
  PROVE  ServerInv'
<1> PICK w \in Watcher : Boss(w) /\ Phase(w) /\ Conns(w)
  BY DEF ServerInv
<1>1. Boss(w)'
  BY DEF Boss
<1>2. Phase(w)'
  BY DEF Phase, TypeOK
<1>3. Conns(w)'
  BY DEF Conns
<1> QED
  BY <1>1, <1>2, <1>3 DEF ServerInv, Watcher

\* Each step of a watcher, of Stop, Setup and Start.
LEMMA ServerWatch ==
  ASSUME TypeOK, ServerInv, NEW v \in Watcher,
         \/ Load(v) \/ (\E old \in Seen : Check(v, old)) \/ Reload(v)
         \/ Fail(v) \/ StartPool(v)
  PROVE  ServerInv'
<1> PICK w \in Watcher : Boss(w) /\ Phase(w) /\ Conns(w)
  BY DEF ServerInv
<1>1. Gen \subseteq Nat /\ 0 \notin Gen /\ Watcher \subseteq Nat /\ gen \in Gen
  BY XrayAssumption DEF Gen, MaxGen, Watcher, main, TypeOK
<1>2. v = w
  BY OnlyBoss DEF Load, Check, Reload, KillAll, CloseInstance, StopPool, Setup, Start,
                  killEntry, Fail, StartPool
<1>3. wpc \in [Watcher -> {"off", "select", "check", "stop", "kill", "cancel", "setup",
                           "start", "sync", "done", "failed"}]
  BY DEF TypeOK, Watcher
<1>4. CASE Load(w) \/ (\E old \in Seen : Check(w, old))
  <2>1. /\ wpc[w] \in {"select", "check"}
        /\ \E s \in {"select", "check", "stop"} : wpc' = [wpc EXCEPT ![w] = s]
        /\ UNCHANGED <<gen, up, inst, im, meter, syncing, conns>>
    BY <1>4 DEF Load, Check, Goto, server
  <2>2. Boss(w)'
    BY <2>1, <1>3 DEF Boss, Serving
  <2>3. Phase(w)'
    BY <2>1, <1>3 DEF Phase, Serving, syncing
  <2>4. Conns(w)'
    BY <2>1, <1>3 DEF Conns, Serving, conns
  <2> QED
    BY <2>2, <2>3, <2>4 DEF ServerInv, Watcher
<1>5. CASE KillAll(w)
  <2>1. Boss(w)'
    BY <1>5, <1>3 DEF KillAll, Goto, Boss, Serving, server
  <2>2. Phase(w)'
    BY <1>5, <1>3 DEF KillAll, Goto, Phase, Serving, server, syncing
  <2>3. Conns(w)'
    BY <1>5, <1>3 DEF KillAll, Goto, Conns, Serving, server, Tracked
  <2> QED
    BY <2>1, <2>2, <2>3 DEF ServerInv, Watcher
<1>6. CASE \E c \in Conn : killEntry(w, c)
  <2>1. Boss(w)'
    BY <1>6 DEF killEntry, Boss, server, watch
  <2>2. Phase(w)'
    BY <1>6 DEF killEntry, Phase, server, watch, syncing
  <2>3. Conns(w)'
    BY <1>6 DEF killEntry, Conns, server, watch
  <2> QED
    BY <2>1, <2>2, <2>3 DEF ServerInv, Watcher
<1>7. CASE CloseInstance(w)
  <2>1. Boss(w)'
    BY <1>7, <1>3 DEF CloseInstance, Goto, Boss, Serving
  <2>2. Phase(w)'
    BY <1>7, <1>1, <1>3 DEF CloseInstance, Goto, Phase, Serving, syncing, TypeOK
  <2>3. Conns(w)'
    BY <1>7, <1>3 DEF CloseInstance, Goto, Conns, Serving, conns
  <2> QED
    BY <2>1, <2>2, <2>3 DEF ServerInv, Watcher
<1>8. CASE StopPool(w)
  <2>1. Boss(w)'
    BY <1>8, <1>3 DEF StopPool, Goto, Boss, Serving, server
  <2>2. Phase(w)'
    <3>1. wpc[w] = "cancel" /\ wpc'[w] = "setup"
      BY <1>8, <1>3 DEF StopPool, Goto
    <3>2. UNCHANGED <<gen, up, inst, im, meter, syncer, spool>>
      BY <1>8 DEF StopPool, server
    <3>3. \A g \in canceled' : g <= gen
      <4>1. \A g \in canceled : g <= gen
        BY DEF Phase
      <4>2. gen <= gen
        BY <1>1
      <4> QED
        BY <1>8, <4>1, <4>2 DEF StopPool
    <3>4. inst[gen].state # "running"
      BY <3>1 DEF Phase, Serving
    <3> QED
      BY <3>1, <3>2, <3>3, <3>4 DEF Phase, Serving
  <2>3. Conns(w)'
    BY <1>8, <1>3 DEF StopPool, Goto, Conns, Serving, server, conns
  <2> QED
    BY <2>1, <2>2, <2>3 DEF ServerInv, Watcher
<1>9. CASE Setup(w)
  <2>1. gen + 1 \in Gen /\ gen' = gen + 1
    BY <1>9, XrayAssumption, <1>1 DEF Setup, Gen, MaxGen
  <2>2. Boss(w)'
    BY <1>9, <1>1, <1>3, <2>1 DEF Setup, Goto, Boss, Serving
  <2>3. /\ inst'[gen + 1] = [cfg |-> own, state |-> "made"]
        /\ meter'[gen + 1] = up'
        /\ own.sync => up' = gen + 1 /\ im'[gen + 1] = gen + 1
        /\ canceled' = canceled
        /\ wpc'[w] = "start"
    BY <1>9, <1>3, <2>1 DEF Setup, NewPool, Goto, TypeOK, syncing
  <2>4. Phase(w)'
    BY <2>1, <2>3, <1>1 DEF Phase, TypeOK, Serving
  <2>5. Conns(w)'
    BY <1>9, <1>3 DEF Setup, Goto, Conns, Serving, conns
  <2> QED
    BY <2>2, <2>4, <2>5 DEF ServerInv, Watcher
<1>10. CASE Fail(w)
  <2>1. Boss(w)'
    BY <1>10, <1>3 DEF Fail, Goto, Boss, Serving, server
  <2>2. Phase(w)'
    BY <1>10, <1>1, <1>3 DEF Fail, Goto, Phase, Serving, server, syncing
  <2>3. Conns(w)'
    BY <1>10, <1>3 DEF Fail, Goto, Conns, Serving, server, conns
  <2> QED
    BY <2>1, <2>2, <2>3 DEF ServerInv, Watcher
<1>11. CASE Start(w) /\ up # NoPool
  <2>1. /\ wpc[w] = "start" /\ wpc' = [wpc EXCEPT ![w] = "sync"]
        /\ inst' = [inst EXCEPT ![gen].state = "running"]
        /\ UNCHANGED <<gen, up, im, meter, syncing, conns>>
    BY <1>11 DEF Start, Goto
  <2>2. Boss(w)'
    BY <2>1, <1>3 DEF Boss, Serving
  <2>3. Phase(w)'
    BY <2>1, <1>1, <1>3, <1>11 DEF Phase, Serving, syncing, TypeOK
  <2>4. Conns(w)'
    BY <2>1, <1>3 DEF Conns, Serving, conns
  <2> QED
    BY <2>2, <2>3, <2>4 DEF ServerInv, Watcher
<1>12. ASSUME HandOver(w), wpc[w] \in {"start", "sync"}, gen' = gen
       PROVE  Boss(gen)' /\ gen \in Watcher /\ wpc'[gen] = "select"
  <2>1. w + 1 = gen /\ gen \in Watcher
    BY <1>12, <1>1 DEF Boss, Watcher
  <2>2. wpc' = [wpc EXCEPT ![w] = "done", ![gen] = "select"]
    BY <1>12 DEF HandOver
  <2> QED
    BY <2>1, <2>2, <1>1, <1>3, <1>12 DEF Boss, Serving
<1>13. CASE Start(w) /\ up = NoPool
  <2>1. /\ wpc[w] = "start" /\ HandOver(w)
        /\ inst' = [inst EXCEPT ![gen].state = "running"]
        /\ UNCHANGED <<gen, up, im, meter, syncing, conns>>
    BY <1>13 DEF Start
  <2>2. Phase(gen)'
    BY <2>1, <1>1, <1>12, <1>13 DEF Phase, Serving, syncing, TypeOK
  <2>3. Conns(gen)'
    BY <2>1, <1>12 DEF Conns, Serving, conns
  <2> QED
    BY <2>1, <2>2, <2>3, <1>12 DEF ServerInv, Watcher
<1>14. CASE StartPool(w)
  <2>1. /\ wpc[w] = "sync" /\ HandOver(w)
        /\ syncer' = [syncer EXCEPT ![gen] = "select"]
        /\ spool' = [spool EXCEPT ![gen] = up]
        /\ UNCHANGED <<gen, up, inst, im, meter, canceled, conns>>
    BY <1>14 DEF StartPool, server
  <2>2. inst[gen].state = "running"
    BY <2>1 DEF Phase
  <2>3. Phase(gen)'
    BY <2>1, <2>2, <1>1, <1>12 DEF Phase, Serving, TypeOK
  <2>4. Conns(gen)'
    BY <2>1, <1>12 DEF Conns, Serving, conns
  <2> QED
    BY <2>1, <2>3, <2>4, <1>12 DEF ServerInv, Watcher
<1> QED
  BY <1>2, <1>4, <1>5, <1>6, <1>7, <1>8, <1>9, <1>10, <1>11, <1>13, <1>14 DEF Reload

\* A connection comes, is registered or returns.
LEMMA ServerConn ==
  ASSUME TypeOK, ServerInv, NEW c \in Conn, Dispatch(c) \/ Register(c) \/ Return(c)
  PROVE  ServerInv'
<1> PICK w \in Watcher : Boss(w) /\ Phase(w) /\ Conns(w)
  BY DEF ServerInv
<1>1. UNCHANGED <<server, watch, syncing, killed, victims>>
  BY DEF Dispatch, Register, Return
<1>2. Boss(w)' /\ Phase(w)'
  BY <1>1 DEF Boss, Phase, server, watch, syncing
<1>3. Conns(w)'
  <2>1. CASE Dispatch(c)
    <3>1. wpc[w] = "kill" => Stopping
      BY DEF Boss, Serving, Stopping, TypeOK
    <3> QED
      BY <2>1, <3>1, <1>1 DEF Dispatch, Conns, Phase, server, watch, TypeOK
  <2>2. CASE Register(c) \/ Return(c)
    BY <2>2, <1>1 DEF Register, Return, Conns, server, watch, TypeOK
  <2> QED
    BY <2>1, <2>2
<1> QED
  BY <1>2, <1>3 DEF ServerInv, Watcher

\* The invariant is inductive.
LEMMA ServerNext == TypeOK /\ ServerInv /\ [Next]_vars => ServerInv'
<1> SUFFICES ASSUME TypeOK, ServerInv, [Next]_vars PROVE ServerInv'
  OBVIOUS
<1>1. CASE \/ (\E f \in Files : Edit(f)) \/ LoadConfig \/ (\E ok \in BOOLEAN : Read(ok))
           \/ Decoded \/ (\E w \in Gen \cup {main} : CheckPanics(w)) \/ UNCHANGED vars
  <2>1. UNCHANGED <<server, watch, syncing, conns>>
    BY <1>1 DEF Edit, LoadConfig, Read, Decoded, CheckPanics, vars
  <2> QED
    BY <2>1, ServerKept DEF server, watch, syncing, conns
<1>2. CASE \E g \in Gen : SyncTick(g) \/ SyncOnce(g) \/ SyncDone(g)
  <2>1. UNCHANGED <<server, watch, spool, canceled, conns>>
    BY <1>2 DEF SyncTick, SyncOnce, SyncDone
  <2>2. \A g \in Gen : syncer[g] # "off" => syncer'[g] # "off"
    BY <1>2 DEF SyncTick, SyncOnce, SyncDone, TypeOK
  <2> QED
    BY <2>1, <2>2, ServerKept DEF server, watch, conns
<1>3. ASSUME NEW w \in Gen \cup {main},
             \/ Load(w) \/ (\E old \in Seen : Check(w, old)) \/ Reload(w)
             \/ Fail(w) \/ StartPool(w)
      PROVE  ServerInv'
  BY <1>3, ServerWatch DEF Watcher
<1>4. CASE \E c \in Conn : Dispatch(c) \/ Register(c) \/ Return(c)
  BY <1>4, ServerConn
<1> QED
  BY <1>1, <1>2, <1>3, <1>4 DEF Next

\* All of it holds always.
THEOREM Invariance == Spec => [](TypeOK /\ ServerInv)
<1>1. Init => TypeOK /\ ServerInv
  BY TypeInit, ServerInit
<1>2. TypeOK /\ ServerInv /\ [Next]_vars => (TypeOK /\ ServerInv)'
  BY TypeNext, ServerNext
<1> QED
  BY <1>1, <1>2, PTL DEF Spec

\* There is always exactly one goroutine that may reload, or the last one failed.
THEOREM InCharge == Spec => []OneInCharge
<1>1. TypeOK /\ ServerInv => OneInCharge
  <2> SUFFICES ASSUME TypeOK, NEW w \in Watcher, Boss(w) PROVE OneInCharge
    BY DEF ServerInv
  <2>1. Watcher \subseteq Nat
    BY XrayAssumption DEF Watcher, Gen, MaxGen, main
  <2>2. \A v \in Watcher : wpc[v] \in {"off", "done"} <=> v # w
    BY <2>1 DEF Boss
  <2> QED
    BY <2>2 DEF OneInCharge, Watcher
<1> QED
  BY <1>1, Invariance, PTL

\* Between reloads the pool manages the users of the running instance.
THEOREM PoolServes == Spec => []PoolServesInstance
<1>1. TypeOK /\ ServerInv => PoolServesInstance
  <2> SUFFICES ASSUME TypeOK, NEW w \in Watcher, Boss(w), Phase(w),
                      NEW v \in Gen, wpc[v] \in {"select", "check"}, inst[gen].cfg.sync
               PROVE  /\ inst[gen].state = "running"
                      /\ syncer[gen] # "off" /\ gen \notin canceled
                      /\ spool[gen] = up /\ im[up] = gen
    BY DEF ServerInv, PoolServesInstance
  <2>1. v = w
    BY OnlyBoss DEF Watcher
  <2>2. Gen \subseteq Nat /\ 0 \notin Gen
    BY XrayAssumption DEF Gen, MaxGen
  <2> QED
    BY <2>1, <2>2 DEF Phase, Serving, TypeOK, NoPool
<1> QED
  BY <1>1, Invariance, PTL

\* Stop leaves no connection on a pool that reports no more, but those it did
\* not find.
THEOREM Stranded == Spec => []StrandedOnlyIfLate
<1>1. TypeOK /\ ServerInv => StrandedOnlyIfLate
  <2> SUFFICES ASSUME TypeOK, NEW w \in Watcher, Boss(w), Phase(w), Conns(w),
                      NEW c \in Tracked \ (killed \cup late), meter[cgen[c]] # NoPool
               PROVE  Reports(meter[cgen[c]])
    BY DEF ServerInv, StrandedOnlyIfLate
  <2>1. cgen[c] = gen /\ wpc[w] \in Serving \cup {"sync"}
    BY DEF Conns, Tracked
  <2>2. meter[cgen[c]] = up
    BY <2>1 DEF Phase
  <2>3. gen \notin canceled
    <3>1. wpc[w] \notin {"setup", "failed"}
      BY <2>1 DEF Serving
    <3>2. \A g \in canceled : g < gen
      BY <3>1 DEF Phase
    <3>3. ~(gen < gen)
      BY XrayAssumption DEF TypeOK, Gen, MaxGen
    <3> QED
      BY <3>2, <3>3
  <2> QED
    BY <2>1, <2>2, <2>3 DEF Phase, Reports, Watcher, TypeOK
<1> QED
  BY <1>1, Invariance, PTL
=============================================================================
