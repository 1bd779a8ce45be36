----------------------------- MODULE XrayServer -----------------------------
(***************************************************************************)
(* The life of an XrayServer (pkg/xray/server.go): Setup, Start, the       *)
(* goroutine that watches the configuration, and Reload, which stops the   *)
(* instance and its user pool and makes new ones.                          *)
(*                                                                         *)
(* The process starts with one Config that the xray server shares with the *)
(* relay server, whose reloads reset and reread it (LoadConfig,            *)
(* internal/config/config.go).  After the first Reload the xray server has *)
(* a Config of its own.                                                    *)
(*                                                                         *)
(* Instances, pools, sync goroutines and watchers are numbered by the      *)
(* Start they belong to.  What a pool does in a round is in UserPool; here *)
(* a round just begins and ends.                                           *)
(***************************************************************************)
EXTENDS Naturals, FiniteSets

CONSTANTS
    Tag,              \* the proxy tags (InProxyTags)
    Addr,             \* listen addresses with their ports
    Files,            \* what the configuration file or URL may hold
    StartFile,        \* what it holds when the process starts
    Conn,             \* the connections that Dispatch serves
    MaxEdits          \* bound: changes of the file

NoAddr == "none"      \* no inbound of this tag
Config == [xray : BOOLEAN, sync : BOOLEAN, listen : [Tag -> Addr \cup {NoAddr}]]

\* XRayConfig is nil: a file without one, or a Config that LoadConfig has reset.
NoConfig == [xray |-> FALSE, sync |-> FALSE, listen |-> [t \in Tag |-> NoAddr]]

ASSUME XrayAssumption ==
    /\ NoAddr \notin Addr
    /\ Files \subseteq Config
    /\ StartFile \in Files /\ StartFile.xray
    /\ MaxEdits \in Nat

\* A Reload takes a change of the file, but for one that a half decoded shared
\* Config may cause.
MaxGen == MaxEdits + 2
Gen == 1 .. MaxGen
NoPool == 0
main == 0             \* the goroutine of the first Start

VARIABLES
    file,             \* the configuration in the file
    edits,
    \* the shared Config and the relay server that reloads it
    shared,           \* its XRayConfig
    loading,          \* where LoadConfig of the relay server is
    \* XrayServer
    detached,         \* xs.cfg is a Config of its own
    own,              \* that Config
    gen,              \* the number of xs.instance
    up,               \* xs.up
    inst,             \* inst[g]: the configuration and the state of instance g
    im,               \* im[p]: the instance whose inbounds pool p manages
    meter,            \* meter[g]: the pool that the outbound of instance g meters on
    \* its goroutines
    wpc,              \* wpc[w]: where watcher w is, in Reload too
    newCfg,           \* newCfg[w]: the configuration it has loaded
    syncer,           \* syncer[g]: where the sync goroutine of Start g is
    spool,            \* spool[g]: the pool it syncs
    canceled,         \* the sync goroutines whose context is cancelled
    panicked,
    \* connections
    cpc,              \* cpc[c]: where Dispatch is
    cgen,             \* cgen[c]: the instance that let it in
    killed,           \* the connections that killEntry has closed
    victims,          \* the ones KillAll has found and not yet killed
    late              \* history: alive, and not found by the KillAll of its instance

config == <<file, edits, shared, loading>>
server == <<detached, own, gen, up, inst, im, meter>>
watch == <<wpc, newCfg>>
syncing == <<syncer, spool, canceled>>
conns == <<cpc, cgen, killed, victims, late>>
vars == <<config, server, watch, syncing, panicked, conns>>

\* NewXrayServer and the first Setup, which reads the shared Config.
Init ==
    /\ file = StartFile
    /\ edits = 0
    /\ shared = StartFile
    /\ loading = "idle"
    /\ detached = FALSE
    /\ own = NoConfig
    /\ gen = 1
    /\ up = IF StartFile.sync THEN 1 ELSE NoPool
    /\ inst = [g \in Gen |-> IF g = 1 THEN [cfg |-> StartFile, state |-> "made"]
                                      ELSE [cfg |-> NoConfig, state |-> "none"]]
    /\ im = [g \in Gen |-> IF g = up THEN 1 ELSE 0]
    /\ meter = [g \in Gen |-> IF g = 1 THEN up ELSE NoPool]
    /\ wpc = [w \in Gen \cup {main} |-> IF w = main THEN "start" ELSE "off"]
    /\ newCfg = [w \in Gen \cup {main} |-> NoConfig]
    /\ syncer = [g \in Gen |-> "off"]
    /\ spool = [g \in Gen |-> NoPool]
    /\ canceled = {}
    /\ panicked = FALSE
    /\ cpc = [c \in Conn |-> "idle"]
    /\ cgen = [c \in Conn |-> 0]
    /\ killed = {}
    /\ victims = {}
    /\ late = {}

-----------------------------------------------------------------------------
(* The file, and the relay server's reloads of the shared Config. *)

Edit(f) ==
    /\ edits < MaxEdits
    /\ f # file
    /\ file' = f
    /\ edits' = edits + 1
    /\ UNCHANGED <<shared, loading, server, watch, syncing, panicked, conns>>

\* LoadConfig resets the Config before it reads.
LoadConfig ==
    /\ loading = "idle"
    /\ shared' = NoConfig
    /\ loading' = "read"
    /\ UNCHANGED <<file, edits, server, watch, syncing, panicked, conns>>

\* readFromFile, readFromHttp: the decoder fills the Config in place.
Read(ok) ==
    /\ loading = "read"
    /\ IF ok
       THEN shared' = file /\ loading' = "decode"
       ELSE loading' = "idle" /\ UNCHANGED shared
    /\ UNCHANGED <<file, edits, server, watch, syncing, panicked, conns>>

Decoded ==
    /\ loading = "decode"
    /\ loading' = "idle"
    /\ UNCHANGED <<file, edits, shared, server, watch, syncing, panicked, conns>>

-----------------------------------------------------------------------------
(* The watcher w. *)

Goto(w, s) == wpc' = [wpc EXCEPT ![w] = s]

\* A tick: a new Config is loaded.  If this fails, the watcher waits for the
\* next tick.
Load(w) ==
    /\ wpc[w] = "select"
    /\ newCfg' = [newCfg EXCEPT ![w] = file]
    /\ Goto(w, "check")
    /\ UNCHANGED <<config, server, syncing, panicked, conns>>

\* Mutant: a changed listener goes unnoticed.
needReloadTag(old, new) ==
    /\ old.xray /\ new.xray
    /\ \E t \in Tag : new.listen[t] # NoAddr /\ old.listen[t] = NoAddr

\* A new tag, or one that listens elsewhere.
needReload(old, new) ==
    /\ old.xray /\ new.xray
    /\ \E t \in Tag : new.listen[t] # NoAddr /\ old.listen[t] # new.listen[t]

Filled(S) == [shared EXCEPT !.listen = [t \in Tag |-> IF t \in S THEN @[t] ELSE NoAddr]]

\* What needReload may see in xs.cfg: while the shared Config is being decoded,
\* some of its inbounds.
Seen ==
    IF detached THEN {own}
    ELSE IF loading = "decode" THEN {Filled(S) : S \in SUBSET Tag}
    ELSE {shared}

\* Mutant: the server keeps the old configuration.
CheckKeepsOld(w, old) ==
    /\ wpc[w] = "check"
    /\ old \in Seen
    /\ IF needReload(old, newCfg[w])
       THEN detached' = TRUE /\ own' = old /\ Goto(w, "stop")
       ELSE Goto(w, "select") /\ UNCHANGED <<detached, own>>
    /\ newCfg' = [newCfg EXCEPT ![w] = NoConfig]
    /\ UNCHANGED <<config, gen, up, inst, im, meter, syncing, panicked, conns>>

Check(w, old) ==
    /\ wpc[w] = "check"
    /\ old \in Seen
    /\ IF needReload(old, newCfg[w])
       THEN detached' = TRUE /\ own' = newCfg[w] /\ Goto(w, "stop")
       ELSE Goto(w, "select") /\ UNCHANGED <<detached, own>>
    /\ newCfg' = [newCfg EXCEPT ![w] = NoConfig]
    /\ UNCHANGED <<config, gen, up, inst, im, meter, syncing, panicked, conns>>

\* An inbound that is just being decoded has no ListenOn yet: nil is dereferenced.
\* (So it would be if the file gave a proxy inbound no address at all; in the
\* files of this model every proxy inbound has one.)
CheckPanics(w) ==
    /\ wpc[w] = "check"
    /\ ~detached /\ loading = "decode" /\ shared.xray /\ newCfg[w].xray
    /\ \E t \in Tag : shared.listen[t] # NoAddr /\ newCfg[w].listen[t] # NoAddr
    /\ panicked' = TRUE
    /\ UNCHANGED <<config, server, watch, syncing, conns>>

Tracked == {c \in Conn : cpc[c] = "copy"}

\* Stop, by Reload: first the tracker's connections are looked up
KillAll(w) ==
    /\ wpc[w] = "stop"
    /\ victims' = Tracked
    /\ late' = late \cup {c \in Conn : cpc[c] = "dial"}
    /\ Goto(w, "kill")
    /\ UNCHANGED <<config, server, newCfg, syncing, panicked, cpc, cgen, killed>>

\* and killed;
killEntry(w, c) ==
    /\ wpc[w] = "kill"
    /\ c \in victims
    /\ victims' = victims \ {c}
    /\ killed' = killed \cup {c}
    /\ UNCHANGED <<config, server, watch, syncing, panicked, cpc, cgen, late>>

\* Mutant: the instance is closed before all of them are killed.
CloseInstanceEarly(w) ==
    /\ wpc[w] = "kill"
    /\ inst' = [inst EXCEPT ![gen].state = "closed"]
    /\ victims' = {}
    /\ Goto(w, "cancel")
    /\ UNCHANGED <<config, detached, own, gen, up, im, meter, newCfg, syncing, panicked,
                   cpc, cgen, killed, late>>

\* then the instance is closed, and the fallback server with it.  Connections
\* that it let in go on.
CloseInstance(w) ==
    /\ wpc[w] = "kill"
    /\ victims = {}
    /\ inst' = [inst EXCEPT ![gen].state = "closed"]
    /\ Goto(w, "cancel")
    /\ UNCHANGED <<config, detached, own, gen, up, im, meter, newCfg, syncing, panicked, conns>>

\* Mutant: the pool is left to itself.
StopPoolNot(w) ==
    /\ wpc[w] = "cancel"
    /\ Goto(w, "setup")
    /\ UNCHANGED <<config, server, newCfg, syncing, panicked, conns>>

\* and at last the pool is stopped: the cancel function that its latest Start
\* stored is called.
StopPool(w) ==
    /\ wpc[w] = "cancel"
    /\ canceled' = IF up = NoPool THEN canceled ELSE canceled \cup {gen}
    /\ Goto(w, "setup")
    /\ UNCHANGED <<config, server, newCfg, syncer, spool, panicked, conns>>

\* What Setup does with the pools: a configuration that syncs gets a new one;
\* otherwise xs.up stays as it is.
NewPool(g) ==
    IF own.sync
    THEN up' = g /\ im' = [im EXCEPT ![g] = g]
    ELSE UNCHANGED <<up, im>>

\* Mutant: an existing pool is kept.
SetupKeepsPool(w) ==
    /\ wpc[w] = "setup"
    /\ own.sync => \E t \in Tag : own.listen[t] # NoAddr
    /\ gen < MaxGen
    /\ gen' = gen + 1
    /\ inst' = [inst EXCEPT ![gen + 1] = [cfg |-> own, state |-> "made"]]
    /\ IF up = NoPool THEN NewPool(gen + 1) ELSE UNCHANGED <<up, im>>
    /\ meter' = [meter EXCEPT ![gen + 1] = up']
    /\ Goto(w, "start")
    /\ UNCHANGED <<config, detached, own, newCfg, syncing, panicked, conns>>

\* A new instance, its pool, and the outbound that meters on it.
Setup(w) ==
    /\ wpc[w] = "setup"
    /\ own.sync => \E t \in Tag : own.listen[t] # NoAddr
    /\ gen < MaxGen
    /\ gen' = gen + 1
    /\ inst' = [inst EXCEPT ![gen + 1] = [cfg |-> own, state |-> "made"]]
    /\ NewPool(gen + 1)
    /\ meter' = [meter EXCEPT ![gen + 1] = up']
    /\ Goto(w, "start")
    /\ UNCHANGED <<config, detached, own, newCfg, syncing, panicked, conns>>

\* Setup returns an error, as it does if there is no proxy tag to sync, or the
\* instance does not start.  Reload gives up and so does the watcher; the first
\* Start ends the process.
Fail(w) ==
    /\ wpc[w] \in {"setup", "start"}
    /\ Goto(w, "failed")
    /\ UNCHANGED <<config, server, newCfg, syncing, panicked, conns>>

\* Mutant: the watcher that has reloaded goes on.
HandOverAndGoOn(w) == wpc' = [wpc EXCEPT ![w] = "select", ![gen] = "select"]

\* Start returns, having started a watcher, and the caller is done.
HandOver(w) == wpc' = [wpc EXCEPT ![w] = "done", ![gen] = "select"]

Start(w) ==
    /\ wpc[w] = "start"
    /\ inst' = [inst EXCEPT ![gen].state = "running"]
    /\ IF up = NoPool THEN HandOver(w) ELSE Goto(w, "sync")
    /\ UNCHANGED <<config, detached, own, gen, up, im, meter, newCfg, syncing, panicked, conns>>

\* UserPool.Start: its first round is over, and its goroutine is started.
StartPool(w) ==
    /\ wpc[w] = "sync"
    /\ syncer' = [syncer EXCEPT ![gen] = "select"]
    /\ spool' = [spool EXCEPT ![gen] = up]
    /\ HandOver(w)
    /\ UNCHANGED <<config, server, newCfg, canceled, panicked, conns>>

-----------------------------------------------------------------------------
(* The sync goroutine of Start g. *)

SyncTick(g) ==
    /\ syncer[g] = "select"
    /\ syncer' = [syncer EXCEPT ![g] = "sync"]
    /\ UNCHANGED <<config, server, watch, spool, canceled, panicked, conns>>

SyncOnce(g) ==
    /\ syncer[g] = "sync"
    /\ syncer' = [syncer EXCEPT ![g] = "select"]
    /\ UNCHANGED <<config, server, watch, spool, canceled, panicked, conns>>

\* select may prefer a tick to a context that is done, but not for ever.
SyncDone(g) ==
    /\ syncer[g] = "select"
    /\ g \in canceled
    /\ syncer' = [syncer EXCEPT ![g] = "done"]
    /\ UNCHANGED <<config, server, watch, spool, canceled, panicked, conns>>

-----------------------------------------------------------------------------
(* Dispatch of connection c. *)

Stopping == \E w \in Gen : wpc[w] = "kill"

Dispatch(c) ==
    /\ cpc[c] = "idle"
    /\ inst[gen].state = "running"
    /\ cpc' = [cpc EXCEPT ![c] = "dial"]
    /\ cgen' = [cgen EXCEPT ![c] = gen]
    /\ late' = IF Stopping THEN late \cup {c} ELSE late
    /\ UNCHANGED <<config, server, watch, syncing, panicked, killed, victims>>

Register(c) ==
    /\ cpc[c] = "dial"
    /\ cpc' = [cpc EXCEPT ![c] = "copy"]
    /\ UNCHANGED <<config, server, watch, syncing, panicked, cgen, killed, victims, late>>

\* The dial failed, or the connection ended or was killed.
Return(c) ==
    /\ cpc[c] \in {"dial", "copy"}
    /\ cpc' = [cpc EXCEPT ![c] = "done"]
    /\ UNCHANGED <<config, server, watch, syncing, panicked, cgen, killed, victims, late>>

-----------------------------------------------------------------------------
Reload(w) ==
    \/ KillAll(w) \/ CloseInstance(w) \/ StopPool(w) \/ Setup(w) \/ Start(w)
    \/ \E c \in Conn : killEntry(w, c)

Next ==
    /\ ~panicked
    /\ \/ \E f \in Files : Edit(f)
       \/ LoadConfig
       \/ \E ok \in BOOLEAN : Read(ok)
       \/ Decoded
       \/ \E w \in Gen \cup {main} :
             \/ Load(w)
             \/ \E old \in Seen : Check(w, old)
             \/ CheckPanics(w)
             \/ Reload(w)
             \/ Fail(w)
             \/ StartPool(w)
       \/ \E g \in Gen : SyncTick(g) \/ SyncOnce(g) \/ SyncDone(g)
       \/ \E c \in Conn : Dispatch(c) \/ Register(c) \/ Return(c)

Spec == Init /\ [][Next]_vars

\* The watcher runs, the relay server's LoadConfig ends once it has read, and a
\* cancelled sync goroutine sees so when it selects often enough.  Nothing is
\* asked of the source of the configuration or of the control plane.
Fairness ==
    /\ \A w \in Gen \cup {main} :
          /\ WF_vars(~panicked /\ Reload(w))
          /\ WF_vars(~panicked /\ \E old \in Seen : Check(w, old))
    /\ WF_vars(~panicked /\ Decoded)
    /\ \A g \in Gen : SF_vars(~panicked /\ SyncDone(g))

FairSpec == Spec /\ Fairness
-----------------------------------------------------------------------------
TypeOK ==
    /\ file \in Files
    /\ edits \in 0 .. MaxEdits
    /\ shared \in Files \cup {NoConfig}
    /\ loading \in {"idle", "read", "decode"}
    /\ detached \in BOOLEAN
    /\ own \in Files \cup {NoConfig}
    /\ gen \in Gen
    /\ up \in Gen \cup {NoPool}
    /\ inst \in [Gen -> [cfg : Files \cup {NoConfig},
                         state : {"none", "made", "running", "closed"}]]
    /\ im \in [Gen -> Gen \cup {0}]
    /\ meter \in [Gen -> Gen \cup {NoPool}]
    /\ wpc \in [Gen \cup {main} ->
          {"off", "select", "check", "stop", "kill", "cancel", "setup", "start", "sync",
           "done", "failed"}]
    /\ newCfg \in [Gen \cup {main} -> Files \cup {NoConfig}]
    /\ syncer \in [Gen -> {"off", "select", "sync", "done"}]
    /\ spool \in [Gen -> Gen \cup {NoPool}]
    /\ canceled \in SUBSET Gen
    /\ panicked \in BOOLEAN
    /\ cpc \in [Conn -> {"idle", "dial", "copy", "done"}]
    /\ cgen \in [Conn -> Gen \cup {0}]
    /\ killed \in SUBSET Conn
    /\ victims \in SUBSET Conn
    /\ late \in SUBSET Conn

\* A watcher ends only after it has started its successor or failed: there is
\* always exactly one goroutine that may reload, or the last reload has failed.
OneInCharge ==
    \E w \in Gen \cup {main} :
        \A v \in Gen \cup {main} : wpc[v] \in {"off", "done"} <=> v # w

\* When nobody reloads, the users that a pool syncs are those of the running
\* instance, provided its configuration syncs at all.
PoolServesInstance ==
    (\E w \in Gen : wpc[w] \in {"select", "check"}) /\ inst[gen].cfg.sync =>
        /\ inst[gen].state = "running"
        /\ syncer[gen] # "off" /\ gen \notin canceled
        /\ spool[gen] = up /\ im[up] = gen

\* Pool p has a sync goroutine that goes on, or is about to get one.
Reports(p) ==
    \/ \E g \in Gen : syncer[g] # "off" /\ spool[g] = p /\ g \notin canceled
    \/ p = up /\ \E w \in Gen \cup {main} : wpc[w] = "sync"

\* No connection is left behind on a pool that reports no more, unless it was
\* dialling when Stop killed those of the tracker, or was let in after that.
StrandedOnlyIfLate ==
    \A c \in Tracked \ (killed \cup late) :
        meter[cgen[c]] # NoPool => Reports(meter[cgen[c]])

\* In the end only the latest Start has a sync goroutine: that of an earlier one
\* ends after the reload, unless a round of it hangs.
OldSyncersEnd ==
    \A g \in Gen :
        []<>(syncer[g] # "sync") /\ <>(syncer[g] # "off" /\ g < gen) /\ []~panicked =>
            <>(syncer[g] = "done")

\* The running instance listens where f says, for every tag of f.
Listening(f) ==
    /\ inst[gen].state = "running"
    /\ \A t \in Tag : f.listen[t] # NoAddr => inst[gen].cfg.listen[t] = f.listen[t]

\* The watcher goes on loading and comparing configurations.
KeepsChecking ==
    /\ []<>(\E w \in Gen : wpc[w] = "select")
    /\ []<>(\E w \in Gen : wpc[w] = "check")

\* Once the xray server has a Config of its own, the listeners it ends up with
\* are those of the file.
AppliedOnceDetached ==
    KeepsChecking /\ <>detached => <>[](file.xray => Listening(file))

\* The relay server's reloads of the shared Config come to an end.
Settles == <>[](loading = "idle" /\ shared.xray)

\* server.go:263-267: where the relay's reloader resets the shared Config, the
\* "next tick re-evaluates after the concurrent reload settles", so that no change
\* of the file is missed.
ChangeNotMissed ==
    KeepsChecking /\ Settles => <>[](file.xray => Listening(file))
=============================================================================
