----------------------------- MODULE RelayReload ----------------------------
(***************************************************************************)
(* The relay server and its configuration: Server.Start, startOneRelay,    *)
(* stopOneRelay, WatchAndReload (internal/relay/server.go), Server.Reload  *)
(* (internal/relay/server_reloader.go) and Config.LoadConfig               *)
(* (internal/config/config.go).                                            *)
(*                                                                         *)
(* Reload runs in two goroutines that share everything and lock nothing:   *)
(* "watch", WatchAndReload's, for the ticker and SIGHUP, which a recent    *)
(* load makes skip the file, and "web", a request to the web API, which    *)
(* always loads it.  A relay is started by a goroutine of its own that     *)
(* first registers it in relayM and then binds its listen address; an      *)
(* error of that ends the process.                                         *)
(*                                                                         *)
(* Decoding the file and Adjust are one step.  The labels of a file are    *)
(* given and distinct, and TLS is initialised when a relay needs it.       *)
(***************************************************************************)
EXTENDS Naturals

CONSTANTS
    Label,            \* the relay labels
    Configs,          \* relay configurations: their listen address, options (0: nil),
                      \* and the rest (types and remotes)
    NoServer,         \* the rests with a ListenType that NewRelayServer does not know
    NoClient,         \* and those with a TransportType that newRelayClient does not
    Invalid,          \* the configurations that Validate rejects
    Files,            \* the config files: for each label a configuration or Absent
    Garbled,          \* the files with a value of the wrong type
    FromHTTP,         \* the file is read from a URL
    Start,            \* the file the server started with
    RawLabel,         \* the labels whose ListenType is raw
    MaxEdits,         \* bound: edits of the file
    MaxWeb,           \* bound: reloads through the web API
    MaxRelays         \* bound: Relay objects alive at a time

Absent == [listen |-> 0, rest |-> 0, options |-> 0]
NoFile == [l \in Label |-> Absent]
RelayConfigs == [Label -> Configs \cup {Absent}]
DefaultOptions == 1

\* Config.Adjust of one relay.
Adjust(c) == IF c # Absent /\ c.options = 0 THEN [c EXCEPT !.options = DefaultOptions] ELSE c

\* The configurations of file f once Adjust has reached the relays A.
Adjusted(f, A) == [l \in Label |-> IF l \in A THEN Adjust(f[l]) ELSE f[l]]
Loaded(f) == Adjusted(f, Label)

ASSUME ReloadAssumption ==
    /\ Configs \subseteq [listen : Nat, rest : Nat, options : Nat] \ {Absent}
    /\ \A c \in Configs : Adjust(c) \in Configs
    /\ Invalid \subseteq Configs
    /\ \A c \in Configs : c.rest \in NoServer \cup NoClient => c \in Invalid
    /\ Files \subseteq RelayConfigs
    /\ Garbled \subseteq Files
    /\ FromHTTP \in BOOLEAN
    /\ Start \in Files \ Garbled /\ \A l \in Label : Start[l] \notin Invalid
    /\ RawLabel \subseteq Label
    /\ "" \notin Label
    /\ MaxEdits \in Nat /\ MaxWeb \in Nat /\ MaxRelays \in Nat

Reloader == {"watch", "web"}
Slot == 1 .. MaxRelays           \* names for the Relay objects, reused
NoRelay == 0

VARIABLES
    file,             \* the file as it is now
    edits, webs,      \* for the bounds
    cfg,              \* s.cfg.RelayConfigs
    fresh,            \* lastLoadTime is less than ReloadInterval ago
    reloadCH,         \* messages in reloadCH (capacity 1)
    rpc,              \* rpc[r]: the step of Reload
    old,              \* old[r]: oldRelayCfgM
    todo,             \* todo[r]: the labels Reload still has to look at
    new,              \* new[r]: the configurations it ranges over
    relay,            \* relay[i]: the state, label and configuration of a Relay
    relayM,           \* Server.relayM, by label
    ended,            \* how the process ended: "no", "bind" (to an address another
                      \* relay has), "listen" (any other error of it) or "panic"
    calm,             \* history: no reload overlapped another, or relays still
                      \* starting, or gave a relay the address of another
    failed            \* history: a load of the configuration failed, or took an
                      \* error answer for it

loading == <<file, edits, webs>>
reload == <<rpc, old, todo, new>>
relays == <<relay, relayM, ended>>
vars == <<loading, cfg, fresh, reloadCH, reload, relays, calm, failed>>

Free == [state |-> "free", label |-> "", cfg |-> Absent]
Made(l, c) == [state |-> "made", label |-> l, cfg |-> c]
Settled == \A i \in Slot : relay[i].state \in {"free", "listening"}
Labels(f) == {l \in Label : f[l] # Absent}

\* One Relay per configuration of the start file, in the first slots.
Started ==
    {f \in [Slot -> {Free} \cup {Made(l, Loaded(Start)[l]) : l \in Labels(Start)}] :
        /\ \A l \in Labels(Start) : \E i \in Slot : f[i] = Made(l, Loaded(Start)[l])
        /\ \A i, j \in Slot : i < j /\ f[j] # Free => f[i] # Free /\ f[i] # f[j]}

\* Every address of f is one relay's, and no other relay has it now.
AddressesKept(f) ==
    \A l \in Labels(f) :
        /\ \A m \in Labels(f) : f[m].listen = f[l].listen => m = l
        /\ \A i \in Slot : relay[i] # Free /\ relay[i].cfg.listen = f[l].listen
                          => relay[i].label = l

\* LoadConfig of the start file, and one goroutine of Start per relay.
Init ==
    /\ file = Start
    /\ edits = 0 /\ webs = 0
    /\ cfg = Loaded(Start)
    /\ fresh = TRUE
    /\ reloadCH = 0
    /\ rpc = [r \in Reloader |-> "idle"]
    /\ old = [r \in Reloader |-> NoFile]
    /\ todo = [r \in Reloader |-> {}]
    /\ new = [r \in Reloader |-> NoFile]
    /\ relay \in Started
    /\ relayM = [l \in Label |-> NoRelay]
    /\ ended = "no"
    /\ calm = AddressesKept(Start)
    /\ failed = FALSE

-----------------------------------------------------------------------------
(* The operator, the clock and the sources of reloads. *)

Edit(f) ==
    /\ edits < MaxEdits
    /\ f # file
    /\ edits' = edits + 1
    /\ file' = f
    /\ UNCHANGED <<webs, cfg, fresh, reloadCH, reload, relays, calm, failed>>

\* ReloadInterval has passed since lastLoadTime.
Elapse ==
    /\ fresh
    /\ fresh' = FALSE
    /\ UNCHANGED <<loading, cfg, reloadCH, reload, relays, calm, failed>>

\* Mutant: more than one reload may be pending.
TriggerReloadAny ==
    /\ reloadCH < 2
    /\ reloadCH' = reloadCH + 1
    /\ UNCHANGED <<loading, cfg, fresh, reload, relays, calm, failed>>

\* The ticker and SIGHUP wait for room in reloadCH.
TriggerReload ==
    /\ reloadCH < 1
    /\ reloadCH' = reloadCH + 1
    /\ UNCHANGED <<loading, cfg, fresh, reload, relays, calm, failed>>

-----------------------------------------------------------------------------
(* startOneRelay, in the goroutine of relay i. *)

Store(i) ==
    /\ relay[i].state = "made"
    /\ relayM' = [relayM EXCEPT ![relay[i].label] = i]
    /\ relay' = [relay EXCEPT ![i].state = "stored"]
    /\ UNCHANGED <<loading, cfg, fresh, reloadCH, reload, ended, calm, failed>>

Taken(a) == \E j \in Slot : relay[j].state = "listening" /\ relay[j].cfg.listen = a

\* Bind and serve.  A WsServer that was closed before releases the address at
\* once.  Any error but that one and net.ErrClosed makes Start return: another
\* relay or another process has the address, it does not resolve, and so on.
ListenAndServe(i) ==
    /\ relay[i].state \in {"stored", "stopped"}
    /\ \/ /\ ended' = IF Taken(relay[i].cfg.listen) THEN "bind" ELSE "listen"
          /\ UNCHANGED relay
       \/ /\ ~Taken(relay[i].cfg.listen)
          /\ relay' = [relay EXCEPT ![i] = IF @.state = "stored"
                                           THEN [@ EXCEPT !.state = "listening"]
                                           ELSE Free]
          /\ UNCHANGED ended
    /\ UNCHANGED <<loading, cfg, fresh, reloadCH, reload, relayM, calm, failed>>

\* Mutant: the old relay is taken out of relayM but not stopped.
ReplaceUnstopped(l, c) ==
    LET spare == {j \in Slot : relay[j] = Free}
    IN  /\ relayM' = [relayM EXCEPT ![l] = NoRelay]
        /\ IF c = Absent
           THEN UNCHANGED relay
           ELSE \E j \in spare :
                   /\ \A k \in spare : j <= k
                   /\ relay' = [relay EXCEPT ![j] = Made(l, c)]

\* stopOneRelay and, unless c is Absent, a new relay.
Replace(l, c) ==
    LET i == relayM[l]
        left == IF i = NoRelay THEN relay
                ELSE IF relay[i].state = "listening" THEN [relay EXCEPT ![i] = Free]
                ELSE [relay EXCEPT ![i].state = "stopped"]
        spare == {j \in Slot : left[j] = Free}
    IN  /\ relayM' = [relayM EXCEPT ![l] = NoRelay]
        /\ IF c = Absent
           THEN relay' = left
           ELSE \E j \in spare :
                   /\ \A k \in spare : j <= k
                   /\ relay' = [left EXCEPT ![j] = Made(l, c)]

-----------------------------------------------------------------------------
(* Server.Reload, in goroutine r. *)

Goto(r, s) == rpc' = [rpc EXCEPT ![r] = s]

\* Reload returns, and its local variables with it.
Leave(r) ==
    /\ Goto(r, "idle")
    /\ old' = [old EXCEPT ![r] = NoFile]
    /\ new' = [new EXCEPT ![r] = NoFile]

\* A panic ends the process, except in a web request, whose goroutine recovers
\* it and leaves Reload unfinished.
Panic(r) ==
    IF r = "watch"
    THEN ended' = "panic" /\ UNCHANGED reload
    ELSE /\ Leave(r)
         /\ todo' = [todo EXCEPT ![r] = {}]
         /\ UNCHANGED ended

\* RawServer.Close needs the listener that ListenAndServe sets.
StopPanics(l) ==
    relayM[l] # NoRelay /\ relay[relayM[l]].state # "listening" /\ l \in RawLabel

Idle == \A r \in Reloader : rpc[r] = "idle"

\* The labels of relayM that are not in allRelayLabelList.
Removed(f) == {l \in Label : relayM[l] # NoRelay} \ Labels(f)

\* Mutant: only a forced load reads the file.
LoadConfigForced(r) ==
    IF r = "watch"
    THEN Goto(r, "list") /\ UNCHANGED <<cfg, fresh>>
    ELSE Goto(r, "read") /\ cfg' = NoFile /\ fresh' = TRUE

\* LoadConfig is skipped, or resets the decoded configuration and goes on to
\* read the file.
LoadConfig(r) ==
    IF r = "watch" /\ fresh
    THEN Goto(r, "list") /\ UNCHANGED <<cfg, fresh>>
    ELSE Goto(r, "read") /\ cfg' = NoFile /\ fresh' = TRUE

\* Options.Clone dereferences the options that Adjust has not set.
ClonePanics(f) == \E l \in Labels(f) : f[l].options = 0

\* A reload is asked for; the configurations in force are cloned first.
Begin(r) ==
    /\ rpc[r] = "idle"
    /\ IF r = "watch"
       THEN reloadCH > 0 /\ reloadCH' = reloadCH - 1 /\ UNCHANGED webs
       ELSE webs < MaxWeb /\ webs' = webs + 1 /\ UNCHANGED reloadCH
    /\ \/ /\ ~ClonePanics(cfg)
          /\ old' = [old EXCEPT ![r] = cfg]
          /\ LoadConfig(r)
          /\ UNCHANGED <<todo, new, ended>>
       \/ /\ ClonePanics(cfg)
          /\ Panic(r)
          /\ UNCHANGED <<cfg, fresh>>
    /\ calm' = (calm /\ Idle /\ Settled)
    /\ UNCHANGED <<file, edits, relay, relayM, failed>>

\* The labels whose relay Validate rejects.
Rejects(f) == {l \in Label : f[l] \in Invalid}

\* What the load of f leaves in RelayConfigs, and goes on with.
Load(r, f) ==
    /\ rpc[r] = "read"
    /\ cfg' = f
    /\ calm' = (calm /\ AddressesKept(f))
    /\ Goto(r, "list")
    /\ UNCHANGED <<loading, fresh, reloadCH, old, todo, new, relays>>

ReadConfig(r) ==
    /\ file \notin Garbled
    /\ Rejects(file) = {}
    /\ Load(r, Loaded(file))
    /\ UNCHANGED failed

\* GetJSONWithRetry does not look at the status: an error answer in JSON is a
\* configuration without relays.
ReadErrorAnswer(r) ==
    /\ FromHTTP
    /\ Load(r, NoFile)
    /\ failed' = TRUE

\* The file cannot be read; or it was decoded but for values of the wrong type,
\* and not adjusted; or Adjust reached relay l, which Validate rejects, after
\* the relays A, and none behind it.
ReadError(r) ==
    /\ rpc[r] = "read"
    /\ \/ cfg' = cfg
       \/ file \in Garbled /\ cfg' = file
       \/ /\ file \notin Garbled
          /\ \E l \in Rejects(file), A \in SUBSET (Labels(file) \ Rejects(file)) :
                cfg' = Adjusted(file, A \cup {l})
    /\ calm' = (calm /\ AddressesKept(cfg'))
    /\ failed' = TRUE
    /\ Leave(r)
    /\ UNCHANGED <<loading, fresh, reloadCH, todo, relays>>

ListLabels(r) ==
    /\ rpc[r] = "list"
    /\ todo' = [todo EXCEPT ![r] = Removed(cfg)]
    /\ Goto(r, "stop")
    /\ UNCHANGED <<loading, cfg, fresh, reloadCH, old, new, relays, calm, failed>>

\* Reload goes on to the next label.
Visited(r, l) ==
    /\ todo' = [todo EXCEPT ![r] = @ \ {l}]
    /\ UNCHANGED <<ended, rpc, old, new>>

\* One key of relayM that is not in the list.  When the other Reload has just
\* deleted it, Range passes over it or the callback loads nil, and panics.
StopRemoved(r, l) ==
    /\ rpc[r] = "stop"
    /\ l \in todo[r]
    /\ \/ ~StopPanics(l) /\ Replace(l, Absent) /\ Visited(r, l)
       \/ (StopPanics(l) \/ relayM[l] = NoRelay) /\ Panic(r) /\ UNCHANGED <<relay, relayM>>
    /\ UNCHANGED <<loading, cfg, fresh, reloadCH, calm, failed>>

Range(r) ==
    /\ rpc[r] = "stop"
    /\ todo[r] = {}
    /\ new' = [new EXCEPT ![r] = cfg]
    /\ todo' = [todo EXCEPT ![r] = Labels(cfg)]
    /\ Goto(r, "apply")
    /\ UNCHANGED <<loading, cfg, fresh, reloadCH, old, relays, calm, failed>>

\* Mutant: changed types and remotes are not looked at.
DifferentListenOnly(c, d) == c.listen # d.listen

\* Config.Different looks at everything but the options.
Different(c, d) == c.listen # d.listen \/ c.rest # d.rest

\* NewRelay with a configuration that was rejected and is in force: it returns
\* an error, or panics on the ListenType or on the options that are not there.
NewRelayFails(c) == c.rest \in NoClient
NewRelayPanics(c) == ~NewRelayFails(c) /\ (c.rest \in NoServer \/ c.options = 0)

\* A relay that is not in relayM is started, and one whose configuration
\* changed is replaced; one whose old configuration is unknown is left alone.
\* When NewRelay fails, the old relay is gone and there is no new one.
Apply(r, l) ==
    LET c == new[r][l]
        changed == old[r][l] # Absent /\ Different(old[r][l], c)
    IN  /\ rpc[r] = "apply"
        /\ l \in todo[r]
        /\ IF relayM[l] # NoRelay /\ ~changed
           THEN UNCHANGED <<relay, relayM>> /\ Visited(r, l)
           ELSE IF StopPanics(l)
           THEN Panic(r) /\ UNCHANGED <<relay, relayM>>
           ELSE \/ NewRelayFails(c) /\ Replace(l, Absent) /\ Visited(r, l)
                \/ NewRelayPanics(c) /\ Replace(l, Absent) /\ Panic(r)
                \/ ~NewRelayFails(c) /\ ~NewRelayPanics(c) /\ Replace(l, c) /\ Visited(r, l)
        /\ UNCHANGED <<loading, cfg, fresh, reloadCH, calm, failed>>

Return(r) ==
    /\ rpc[r] = "apply"
    /\ todo[r] = {}
    /\ Leave(r)
    /\ UNCHANGED <<loading, cfg, fresh, reloadCH, todo, relays, calm, failed>>

Reload(r) ==
    \/ Begin(r) \/ ReadConfig(r) \/ ReadErrorAnswer(r) \/ ReadError(r)
    \/ ListLabels(r) \/ Range(r) \/ Return(r)
    \/ \E l \in Label : StopRemoved(r, l) \/ Apply(r, l)

startOneRelay(i) == Store(i) \/ ListenAndServe(i)

Next ==
    /\ ended = "no"
    /\ \/ \E f \in Files : Edit(f)
       \/ Elapse
       \/ TriggerReload
       \/ \E r \in Reloader : Reload(r)
       \/ \E i \in Slot : startOneRelay(i)

Spec == Init /\ [][Next]_vars

\* Time passes, the ticker fires, and the goroutines of WatchAndReload and of
\* the relays are scheduled.  Nothing is asked of the web request.
Fairness ==
    /\ WF_vars(ended = "no" /\ Elapse)
    /\ WF_vars(ended = "no" /\ TriggerReload)
    /\ WF_vars(ended = "no" /\ Reload("watch"))
    /\ WF_vars(ended = "no" /\ \E i \in Slot : startOneRelay(i))

FairSpec == Spec /\ Fairness
-----------------------------------------------------------------------------
TypeOK ==
    /\ file \in Files
    /\ edits \in 0 .. MaxEdits /\ webs \in 0 .. MaxWeb
    /\ cfg \in RelayConfigs
    /\ fresh \in BOOLEAN
    /\ reloadCH \in 0 .. 1
    /\ rpc \in [Reloader -> {"idle", "read", "list", "stop", "apply"}]
    /\ old \in [Reloader -> RelayConfigs]
    /\ todo \in [Reloader -> SUBSET Label]
    /\ new \in [Reloader -> RelayConfigs]
    /\ relay \in [Slot -> [state : {"free", "made", "stored", "listening", "stopped"},
                           label : Label \cup {""}, cfg : Configs \cup {Absent}]]
    /\ relayM \in [Label -> Slot \cup {NoRelay}]
    /\ ended \in {"no", "bind", "listen", "panic"}
    /\ calm \in BOOLEAN /\ failed \in BOOLEAN

Similar(c, d) == c.listen = d.listen /\ c.rest = d.rest

\* Exactly the relays of f are up, registered and listening, each with the
\* configuration f gives it, or one that differs from it in its options only.
Serves(f) ==
    \A l \in Label :
        IF f[l] = Absent
        THEN relayM[l] = NoRelay /\ \A i \in Slot : relay[i].label # l
        ELSE \E i \in Slot :
                /\ relayM[l] = i
                /\ relay[i].state = "listening"
                /\ Similar(relay[i].cfg, f[l])
                /\ \A j \in Slot : relay[j].label = l => j = i

Quiet == ended = "no" /\ Idle /\ Settled

\* A configuration that Reload cannot clone or cannot make a relay of.
Unusable(f) == \E l \in Labels(f) : f[l].options = 0 \/ f[l].rest \in NoServer

\* Reloads one at a time, each begun when the relays of the last one listen,
\* never end the process through a bind conflict between its own relays or
\* through closing a RawServer that does not listen yet, as long as no relay is
\* given the address of another.  Besides a listen error from outside, only a
\* configuration that a load rejected and left in force ends it: the next
\* Reload panics on options that Adjust did not reach or on the ListenType.
SurvivesCalmReloads ==
    calm => ended \in {"no", "listen"} \/ (ended = "panic" /\ failed /\ Unusable(cfg))

\* Then, if no load failed, the relays that run are the ones of the
\* configuration in force, up to changes of their options only.
AppliedWhenCalm == calm /\ ~failed /\ Quiet => Serves(cfg)

\* And an edited file is applied for good in the end, by the ticker alone,
\* unless the process ends because an address cannot be listened on.
EventuallyApplied ==
    [](calm /\ ~failed /\ ended # "listen") => <>[](Serves(file))

\* server.go:124: a load that fails is "retried in next loop".  So while the
\* file stays what it was when the server started, failing to read it now and
\* then changes nothing: its relays run.
FailedLoadHarmless ==
    edits = 0 /\ webs = 0 /\ calm /\ Quiet => Serves(Start)
=============================================================================
