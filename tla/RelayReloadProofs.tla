------------------------- MODULE RelayReloadProofs --------------------------
(***************************************************************************)
(* Proofs about module RelayReload, for any relays, any configuration      *)
(* files and any number of edits, reloads and Relay objects.               *)
(***************************************************************************)
EXTENDS RelayReload, TLAPS

-----------------------------------------------------------------------------
(* The invariants.                                                         *)

\* relay[i] names an object, which has a label of the configuration.
Used(i) == relay[i] # Free

\* A slot is free or holds a relay, and relayM leads from a label to a relay
\* of that label which registered itself and was not stopped.
RelaysOK ==
    /\ \A i \in Slot : /\ Used(i) => relay[i].label \in Label /\ relay[i].cfg \in Configs
                       /\ Used(i) <=> relay[i].state # "free"
    /\ \A l \in Label : relayM[l] # NoRelay =>
          /\ relay[relayM[l]].label = l
          /\ relay[relayM[l]].state \in {"stored", "listening"}

\* As long as the reloads are calm, no two relays share a label or an address,
\* relayM knows each of them that registered itself, and none is stopped early.
OneEach ==
    /\ \A i \in Slot : relay[i].state # "stopped"
    /\ \A i \in Slot : relay[i].state \in {"stored", "listening"} => relayM[relay[i].label] = i
    /\ \A i \in Slot : relay[i].state = "made" => relayM[relay[i].label] = NoRelay
    /\ \A i, j \in Slot : /\ Used(i) /\ Used(j)
                          /\ \/ relay[i].label = relay[j].label
                             \/ relay[i].cfg.listen = relay[j].cfg.listen
                          => i = j
    /\ AddressesKept(cfg)

\* And Reload runs in one goroutine at a time, over the configuration in force
\* and relays that listen.
Alone ==
    /\ \A r, s \in Reloader : rpc[r] # "idle" /\ rpc[s] # "idle" => r = s
    /\ \A r \in Reloader :
        /\ rpc[r] = "read" => cfg = NoFile
        /\ rpc[r] \in {"read", "list", "stop"} => Settled
        /\ rpc[r] = "stop" => todo[r] = Removed(cfg)
        /\ rpc[r] = "apply" =>
              /\ new[r] = cfg
              /\ todo[r] \subseteq Labels(cfg)
              /\ \A i \in Slot : relay[i].label \in todo[r] => relay[i].state = "listening"

CalmInv == RelaysOK /\ (calm /\ ended = "no" => OneEach /\ Alone)

\* Reload can clone f and make its relays.
Sound(f) == \A l \in Labels(f) : f[l].options # 0 /\ f[l].rest \notin NoServer \cup NoClient

\* Only a load that failed leaves a configuration in force that is not sound.
SoundInv == (~failed => Sound(cfg)) /\ SurvivesCalmReloads

\* The relays labelled l, of the relays R, are the ones f asks for.
Match(R, f, l) ==
    IF f[l] = Absent
    THEN \A i \in Slot : R[i].label # l
    ELSE \E i \in Slot : R[i].label = l /\ Similar(R[i].cfg, f[l])

\* How far the relays are on their way from the old configuration to the new.
Progress ==
    /\ Idle => \A l \in Label : Match(relay, cfg, l)
    /\ \A r \in Reloader :
        /\ rpc[r] \in {"read", "list"} => \A l \in Label : Match(relay, old[r], l)
        /\ rpc[r] = "stop" => \A l \in Labels(cfg) : Match(relay, old[r], l)
        /\ rpc[r] = "apply" =>
              /\ \A l \in todo[r] : Match(relay, old[r], l)
              /\ \A l \in Label \ todo[r] : Match(relay, cfg, l)

ProgressInv == calm /\ ~failed /\ ended = "no" => Progress

-----------------------------------------------------------------------------
(* Types.                                                                  *)

RelayType == [state : {"free", "made", "stored", "listening", "stopped"},
              label : Label \cup {""}, cfg : Configs \cup {Absent}]

\* What the assumption says of files, configurations and records.
LEMMA Constants ==
    /\ NoFile \in [Label -> Configs \cup {Absent}]
    /\ Labels(NoFile) = {}
    /\ Absent \notin Configs
    /\ Files \subseteq [Label -> Configs \cup {Absent}]
    /\ RelayConfigs = [Label -> Configs \cup {Absent}]
    /\ Free \in RelayType
    /\ \A l \in Label : \A c \in Configs : Made(l, c) \in RelayType /\ Made(l, c) # Free
    /\ \A i \in Slot : i # NoRelay
<1>1. /\ Absent \notin Configs /\ Files \subseteq [Label -> Configs \cup {Absent}]
      /\ RelayConfigs = [Label -> Configs \cup {Absent}]
  BY ReloadAssumption DEF RelayConfigs
<1>2. NoFile \in [Label -> Configs \cup {Absent}] /\ Labels(NoFile) = {}
  BY DEF NoFile, Labels
<1>3. Free \in RelayType
  BY DEF Free, RelayType
<1>4. ASSUME NEW l \in Label, NEW c \in Configs
      PROVE  Made(l, c) \in RelayType /\ Made(l, c) # Free
  <2>1. Made(l, c) \in RelayType
    BY DEF RelayType, Made
  <2>2. Made(l, c).state # Free.state
    BY DEF Free, Made
  <2> QED
    BY <2>1, <2>2
<1>5. \A i \in Slot : i # NoRelay
  <2>1. MaxRelays \in Nat
    BY ReloadAssumption
  <2> QED
    BY <2>1 DEF Slot, NoRelay
<1> QED
  BY <1>1, <1>2, <1>3, <1>4, <1>5

\* Adjust keeps the relays of a file, and sets their options.
LEMMA AdjustEffect ==
    ASSUME NEW f \in RelayConfigs, NEW A
    PROVE  /\ Adjusted(f, A) \in RelayConfigs
           /\ Labels(Adjusted(f, A)) = Labels(f)
           /\ \A l \in Label : /\ Adjusted(f, A)[l].rest = f[l].rest
                               /\ Adjusted(f, A)[l].listen = f[l].listen
           /\ \A l \in Label \cap A : l \in Labels(f) => Adjusted(f, A)[l].options # 0
<1>1. ASSUME NEW c \in Configs
      PROVE  /\ Adjust(c) \in Configs /\ Adjust(c) # Absent
             /\ Adjust(c).rest = c.rest /\ Adjust(c).listen = c.listen
             /\ Adjust(c).options # 0
  <2>1. Adjust(c) \in Configs /\ Absent \notin Configs /\ c # Absent
        /\ c \in [listen : Nat, rest : Nat, options : Nat]
    BY ReloadAssumption
  <2> QED
    BY <2>1 DEF Adjust, DefaultOptions
<1>2. Adjust(Absent) = Absent
  BY DEF Adjust
<1>3. ASSUME NEW l \in Label
      PROVE  /\ Adjusted(f, A)[l] \in Configs \cup {Absent}
             /\ Adjusted(f, A)[l] = Absent <=> f[l] = Absent
             /\ Adjusted(f, A)[l].rest = f[l].rest
             /\ Adjusted(f, A)[l].listen = f[l].listen
             /\ l \in A /\ f[l] # Absent => Adjusted(f, A)[l].options # 0
  <2>1. f[l] \in Configs \/ f[l] = Absent
    BY Constants
  <2>2. Adjusted(f, A)[l] = IF l \in A THEN Adjust(f[l]) ELSE f[l]
    BY DEF Adjusted
  <2> QED
    BY <1>1, <1>2, <2>1, <2>2
<1>4. Adjusted(f, A) \in RelayConfigs
  <2>1. Adjusted(f, A) = [l \in Label |-> Adjusted(f, A)[l]]
    BY DEF Adjusted
  <2> QED
    BY <1>3, <2>1, Constants
<1>5. Labels(Adjusted(f, A)) = Labels(f)
  BY <1>3 DEF Labels
<1> QED
  BY <1>3, <1>4, <1>5 DEF Labels

\* The configuration that a load of the start file puts in force.
LEMMA LoadedStart ==
    /\ Start \in Files /\ Loaded(Start) \in RelayConfigs
    /\ Labels(Loaded(Start)) = Labels(Start)
    /\ \A l \in Labels(Start) : l \in Label /\ Loaded(Start)[l] \in Configs
    /\ \A l \in Label : Loaded(Start)[l].listen = Start[l].listen
<1>1. Start \in Files /\ Start \in RelayConfigs
  BY ReloadAssumption
<1>2. /\ Loaded(Start) \in RelayConfigs /\ Labels(Loaded(Start)) = Labels(Start)
      /\ \A l \in Label : Loaded(Start)[l].listen = Start[l].listen
  BY <1>1, AdjustEffect DEF Loaded
<1>3. ASSUME NEW l \in Labels(Start) PROVE l \in Label /\ Loaded(Start)[l] \in Configs
  BY <1>2, Constants DEF Labels
<1> QED
  BY <1>1, <1>2, <1>3

\* The bounds are numbers.
LEMMA Bounds == MaxEdits \in Nat /\ MaxWeb \in Nat /\ MaxRelays \in Nat
BY ReloadAssumption

\* What stopOneRelay leaves of the relays.
LEMMA ReplaceType ==
    ASSUME TypeOK, NEW l \in Label, NEW c \in Configs \cup {Absent}, Replace(l, c)
    PROVE  relay' \in [Slot -> RelayType] /\ relayM' \in [Label -> Slot \cup {NoRelay}]
<1> DEFINE i == relayM[l]
           left == IF i = NoRelay THEN relay
                   ELSE IF relay[i].state = "listening" THEN [relay EXCEPT ![i] = Free]
                   ELSE [relay EXCEPT ![i].state = "stopped"]
<1>1. i \in Slot \cup {NoRelay} /\ relay \in [Slot -> RelayType]
  BY DEF TypeOK, RelayType
<1>2. left \in [Slot -> RelayType]
  <2>1. ASSUME i # NoRelay PROVE [relay EXCEPT ![i].state = "stopped"] \in [Slot -> RelayType]
    BY <1>1, <2>1 DEF RelayType
  <2> QED
    BY <1>1, <2>1, Constants
<1>3. relayM' \in [Label -> Slot \cup {NoRelay}]
  BY DEF Replace, TypeOK
<1>4. CASE c = Absent
  BY <1>2, <1>3, <1>4 DEF Replace
<1>5. CASE c # Absent
  <2>1. PICK j \in Slot : relay' = [left EXCEPT ![j] = Made(l, c)]
    BY <1>5 DEF Replace
  <2> QED
    BY <1>2, <1>3, <1>5, <2>1, Constants
<1> QED
  BY <1>4, <1>5

\* The process starts well typed.
LEMMA TypeInit == Init => TypeOK
<1> SUFFICES ASSUME Init PROVE TypeOK
  OBVIOUS
<1>0. Start \in Files /\ Loaded(Start) \in RelayConfigs /\ NoFile \in RelayConfigs
  BY LoadedStart, Constants
<1>1. relay \in [Slot -> RelayType]
  <2>1. ASSUME NEW l \in Labels(Start) PROVE Made(l, Loaded(Start)[l]) \in RelayType
    BY LoadedStart, Constants
  <2> QED
    BY <2>1, Constants DEF Init, Started
<1>2. calm \in BOOLEAN
  BY DEF Init, AddressesKept
<1>3. relayM \in [Label -> Slot \cup {NoRelay}]
  BY DEF Init
<1>4. file \in Files /\ cfg \in RelayConfigs /\ fresh \in BOOLEAN /\ failed \in BOOLEAN
  BY <1>0 DEF Init
<1>5. /\ rpc \in [Reloader -> {"idle", "read", "list", "stop", "apply"}]
      /\ old \in [Reloader -> RelayConfigs] /\ new \in [Reloader -> RelayConfigs]
      /\ todo \in [Reloader -> SUBSET Label] /\ ended \in {"no", "bind", "listen", "panic"}
  BY <1>0 DEF Init
<1>6. edits \in 0 .. MaxEdits /\ webs \in 0 .. MaxWeb /\ reloadCH \in 0 .. 1
  <2>1. edits = 0 /\ webs = 0 /\ reloadCH = 0
    BY DEF Init
  <2> QED
    BY <2>1, Bounds
<1> QED
  BY <1>1, <1>2, <1>3, <1>4, <1>5, <1>6 DEF TypeOK, RelayType

\* The empty configuration is one.
LEMMA NoFileType == NoFile \in RelayConfigs
BY Constants

\* Every action keeps the types.
LEMMA TypeNext == TypeOK /\ [Next]_vars => TypeOK'
<1> SUFFICES ASSUME TypeOK, [Next]_vars PROVE TypeOK'
  OBVIOUS
<1> USE DEF loading, reload, relays
<1>1. CASE UNCHANGED vars
  BY <1>1 DEF TypeOK, vars
<1>2. ASSUME NEW f \in Files, Edit(f) PROVE TypeOK'
  <2>1. edits' \in 0 .. MaxEdits
    <3>1. edits \in 0 .. MaxEdits /\ edits < MaxEdits /\ edits' = edits + 1
      BY <1>2 DEF TypeOK, Edit
    <3> QED
      BY <3>1, Bounds
  <2> QED
    BY <1>2, <2>1 DEF TypeOK, Edit
<1>3. CASE Elapse
  BY <1>3 DEF TypeOK, Elapse
<1>4. CASE TriggerReload
  <2>1. reloadCH' \in 0 .. 1
    <3>1. reloadCH \in 0 .. 1 /\ reloadCH < 1 /\ reloadCH' = reloadCH + 1
      BY <1>4 DEF TypeOK, TriggerReload
    <3> QED
      BY <3>1
  <2> QED
    BY <1>4, <2>1 DEF TypeOK, TriggerReload
<1>5. ASSUME NEW i \in Slot, Store(i) PROVE TypeOK'
  <2>1. relay' \in [Slot -> RelayType] /\ relayM' \in [Label -> Slot \cup {NoRelay}]
    <3>1. relay \in [Slot -> RelayType]
      BY DEF TypeOK, RelayType
    <3>2. [relay[i] EXCEPT !.state = "stored"] \in RelayType
      BY <3>1 DEF RelayType
    <3> QED
      BY <1>5, <3>1, <3>2 DEF Store, TypeOK
  <2> QED
    BY <1>5, <2>1 DEF TypeOK, Store, RelayType
<1>6. ASSUME NEW i \in Slot, ListenAndServe(i) PROVE TypeOK'
  <2>1. relay' \in [Slot -> RelayType]
    <3>1. relay \in [Slot -> RelayType]
      BY DEF TypeOK, RelayType
    <3>2. [relay[i] EXCEPT !.state = "listening"] \in RelayType
      BY <3>1 DEF RelayType
    <3> QED
      BY <1>6, <3>1, <3>2, Constants DEF ListenAndServe
  <2> QED
    BY <1>6, <2>1 DEF TypeOK, ListenAndServe, RelayType
<1>7. ASSUME NEW r \in Reloader, Begin(r) PROVE TypeOK'
  <2>1. calm' \in BOOLEAN /\ rpc' \in [Reloader -> {"idle", "read", "list", "stop", "apply"}]
    BY <1>7 DEF TypeOK, Begin, LoadConfig, Goto, Panic, Leave, Idle, Settled
  <2>2. old' \in [Reloader -> RelayConfigs] /\ cfg' \in RelayConfigs
        /\ fresh' \in BOOLEAN
    BY <1>7, NoFileType DEF TypeOK, Begin, LoadConfig, Panic, Leave
  <2>3. reloadCH' \in 0 .. 1 /\ webs' \in 0 .. MaxWeb
    <3>1. reloadCH \in 0 .. 1 /\ webs \in 0 .. MaxWeb
      BY DEF TypeOK
    <3>2. \/ reloadCH > 0 /\ reloadCH' = reloadCH - 1 /\ webs' = webs
          \/ webs < MaxWeb /\ webs' = webs + 1 /\ reloadCH' = reloadCH
      BY <1>7 DEF Begin
    <3> QED
      BY <3>1, <3>2, Bounds
  <2>4. todo' \in [Reloader -> SUBSET Label] /\ new' \in [Reloader -> RelayConfigs]
        /\ ended' \in {"no", "bind", "listen", "panic"}
    BY <1>7, NoFileType DEF TypeOK, Begin, Panic, Leave
  <2> QED
    BY <1>7, <2>1, <2>2, <2>3, <2>4 DEF TypeOK, Begin
<1>8. ASSUME NEW r \in Reloader, ReadConfig(r) \/ ReadErrorAnswer(r) PROVE TypeOK'
  <2>1. PICK f \in {Loaded(file), NoFile} : Load(r, f)
    BY <1>8 DEF ReadConfig, ReadErrorAnswer
  <2>2. f \in RelayConfigs
    <3>1. file \in RelayConfigs
      BY Constants DEF TypeOK
    <3>2. Loaded(file) \in RelayConfigs
      BY <3>1, AdjustEffect DEF Loaded
    <3> QED
      BY <3>2, NoFileType
  <2>3. failed' \in BOOLEAN
    BY <1>8 DEF ReadConfig, ReadErrorAnswer, TypeOK
  <2> QED
    BY <2>1, <2>2, <2>3 DEF TypeOK, Load, Goto, AddressesKept
<1>9. ASSUME NEW r \in Reloader, ReadError(r) PROVE TypeOK'
  <2>1. cfg' \in RelayConfigs
    BY <1>9, AdjustEffect, Constants DEF ReadError, TypeOK
  <2> QED
    BY <1>9, <2>1, NoFileType DEF TypeOK, ReadError, Goto, Leave, AddressesKept
<1>10. ASSUME NEW r \in Reloader, ListLabels(r) PROVE TypeOK'
  BY <1>10 DEF TypeOK, ListLabels, Goto, Removed
<1>11. ASSUME NEW r \in Reloader, Range(r) PROVE TypeOK'
  BY <1>11 DEF TypeOK, Range, Goto, Labels
<1>12. ASSUME NEW r \in Reloader, Return(r) PROVE TypeOK'
  BY <1>12, NoFileType DEF TypeOK, Return, Goto, Leave
<1>13. ASSUME NEW r \in Reloader, NEW l \in Label, Panic(r) \/ Visited(r, l)
       PROVE  /\ rpc' \in [Reloader -> {"idle", "read", "list", "stop", "apply"}]
              /\ old' \in [Reloader -> RelayConfigs] /\ new' \in [Reloader -> RelayConfigs]
              /\ todo' \in [Reloader -> SUBSET Label] /\ ended' \in {"no", "bind", "listen", "panic"}
  <2>1. CASE Panic(r)
    <3>1. CASE r = "watch"
      BY <2>1, <3>1 DEF TypeOK, Panic
    <3>2. CASE r # "watch"
      <4>1. /\ rpc' = [rpc EXCEPT ![r] = "idle"] /\ old' = [old EXCEPT ![r] = NoFile]
            /\ new' = [new EXCEPT ![r] = NoFile] /\ todo' = [todo EXCEPT ![r] = {}]
            /\ ended' = ended
        BY <2>1, <3>2 DEF Panic, Goto, Leave
      <4>2. /\ rpc \in [Reloader -> {"idle", "read", "list", "stop", "apply"}]
            /\ old \in [Reloader -> RelayConfigs] /\ new \in [Reloader -> RelayConfigs]
            /\ todo \in [Reloader -> SUBSET Label] /\ ended \in {"no", "bind", "listen", "panic"}
        BY DEF TypeOK
      <4>3. {} \in SUBSET Label
        OBVIOUS
      <4> QED
        BY <4>1, <4>2, <4>3, NoFileType
    <3> QED
      BY <3>1, <3>2
  <2>2. CASE Visited(r, l)
    BY <2>2 DEF TypeOK, Visited
  <2> QED
    BY <1>13, <2>1, <2>2
<1>14. ASSUME NEW r \in Reloader, NEW l \in Label, NEW c \in Configs \cup {Absent},
              Replace(l, c) \/ UNCHANGED <<relay, relayM>>, Panic(r) \/ Visited(r, l),
              UNCHANGED <<loading, cfg, fresh, reloadCH, calm, failed>>
       PROVE  TypeOK'
  <2>1. relay' \in [Slot -> RelayType] /\ relayM' \in [Label -> Slot \cup {NoRelay}]
    BY <1>14, ReplaceType DEF TypeOK, RelayType
  <2> QED
    BY <1>13, <1>14, <2>1 DEF TypeOK, RelayType
<1>15. ASSUME NEW r \in Reloader, NEW l \in Label, StopRemoved(r, l) PROVE TypeOK'
  BY <1>14, <1>15 DEF StopRemoved
<1>16. ASSUME NEW r \in Reloader, NEW l \in Label, Apply(r, l) PROVE TypeOK'
  <2>1. new[r][l] \in Configs \cup {Absent}
    <3>1. new[r] \in RelayConfigs
      BY DEF TypeOK
    <3> QED
      BY <3>1, Constants
  <2> QED
    BY <1>14, <1>16, <2>1 DEF Apply
<1> QED
  BY <1>1, <1>2, <1>3, <1>4, <1>5, <1>6, <1>7, <1>8, <1>9, <1>10, <1>11, <1>12, <1>15, <1>16
     DEF Next, Reload, startOneRelay

\* Every variable keeps its type; in particular relayM only ever names slots,
\* and the bounds on edits, web requests and pending reloads are respected.
THEOREM TypeCorrect == Spec => []TypeOK
BY TypeInit, TypeNext, PTL DEF Spec

-----------------------------------------------------------------------------
(* What the steps do to the relays.                                        *)

\* Only storing, listening and replacing change the relays.
LEMMA RelaySteps ==
    ASSUME TypeOK, [Next]_vars
    PROVE  \/ UNCHANGED <<relay, relayM>>
           \/ \E i \in Slot : Store(i) \/ ListenAndServe(i)
           \/ \E l \in Label, c \in Configs \cup {Absent} : Replace(l, c)
<1> USE DEF loading, reload, relays
<1>1. CASE UNCHANGED vars
  BY <1>1 DEF vars
<1>2. ASSUME NEW r \in Reloader, NEW l \in Label, StopRemoved(r, l)
      PROVE  UNCHANGED <<relay, relayM>> \/ Replace(l, Absent)
  BY <1>2 DEF StopRemoved
<1>3. ASSUME NEW r \in Reloader, NEW l \in Label, Apply(r, l)
      PROVE  UNCHANGED <<relay, relayM>> \/ \E c \in Configs \cup {Absent} : Replace(l, c)
  <2>1. new[r][l] \in Configs \cup {Absent}
    <3>1. new[r] \in RelayConfigs
      BY DEF TypeOK
    <3> QED
      BY <3>1, Constants
  <2> QED
    BY <1>3, <2>1 DEF Apply
<1>4. ASSUME NEW r \in Reloader,
             \/ Begin(r) \/ ReadConfig(r) \/ ReadErrorAnswer(r) \/ ReadError(r)
             \/ ListLabels(r) \/ Range(r) \/ Return(r)
      PROVE  UNCHANGED <<relay, relayM>>
  BY <1>4 DEF Begin, ReadConfig, ReadErrorAnswer, Load, ReadError, ListLabels, Range, Return
<1>5. ASSUME NEW f \in Files, Edit(f) \/ Elapse \/ TriggerReload
      PROVE  UNCHANGED <<relay, relayM>>
  BY <1>5 DEF Edit, Elapse, TriggerReload
<1>6. CASE Elapse \/ TriggerReload
  BY <1>6 DEF Elapse, TriggerReload
<1> QED
  BY <1>1, <1>2, <1>3, <1>4, <1>5, <1>6 DEF Next, Reload, startOneRelay

\* relay[k] after stopOneRelay of the relay labelled l.
Left(l, k) ==
    IF k # relayM[l] THEN relay[k]
    ELSE IF relay[k].state = "listening" THEN Free
    ELSE [relay[k] EXCEPT !.state = "stopped"]

\* stopOneRelay, and startOneRelay after it.
LEMMA ReplaceEffect ==
    ASSUME TypeOK, NEW l \in Label, NEW c \in Configs \cup {Absent}, Replace(l, c)
    PROVE  /\ relayM' = [relayM EXCEPT ![l] = NoRelay]
           /\ c = Absent => \A k \in Slot : relay'[k] = Left(l, k)
           /\ c # Absent => \E j \in Slot :
                 /\ Left(l, j) = Free
                 /\ \A k \in Slot : relay'[k] = IF k = j THEN Made(l, c) ELSE Left(l, k)
<1> DEFINE i == relayM[l]
           left == IF i = NoRelay THEN relay
                   ELSE IF relay[i].state = "listening" THEN [relay EXCEPT ![i] = Free]
                   ELSE [relay EXCEPT ![i].state = "stopped"]
<1>1. i \in Slot \cup {NoRelay} /\ relay \in [Slot -> RelayType] /\ NoRelay \notin Slot
  BY Constants DEF TypeOK, RelayType
<1>2. left \in [Slot -> RelayType]
  <2>1. ASSUME i # NoRelay PROVE [relay EXCEPT ![i].state = "stopped"] \in [Slot -> RelayType]
    BY <1>1, <2>1 DEF RelayType
  <2> QED
    BY <1>1, <2>1, Constants
<1>3. \A k \in Slot : left[k] = Left(l, k)
  BY <1>1 DEF Left
<1>4. relayM' = [relayM EXCEPT ![l] = NoRelay]
  BY DEF Replace
<1>5. c = Absent => relay' = left
  BY DEF Replace
<1>6. c # Absent => \E j \in Slot : left[j] = Free /\ relay' = [left EXCEPT ![j] = Made(l, c)]
  BY DEF Replace
<1> HIDE DEF left
<1>7. ASSUME NEW j \in Slot, left[j] = Free, relay' = [left EXCEPT ![j] = Made(l, c)]
      PROVE  /\ Left(l, j) = Free
             /\ \A k \in Slot : relay'[k] = IF k = j THEN Made(l, c) ELSE Left(l, k)
  BY <1>2, <1>3, <1>7
<1> QED
  BY <1>2, <1>3, <1>4, <1>5, <1>6, <1>7

\* The fields of a free slot.
LEMMA FreeRecord == Free.state = "free" /\ Free.label = "" /\ "" \notin Label
BY ReloadAssumption DEF Free

\* The fields of a relay just made.
LEMMA MadeRecord ==
    \A l \in Label : \A c \in Configs :
        /\ Made(l, c).state = "made" /\ Made(l, c).label = l /\ Made(l, c).cfg = c
        /\ Made(l, c) # Free
<1>1. ASSUME NEW l \in Label, NEW c \in Configs
      PROVE  Made(l, c).state = "made" /\ Made(l, c).label = l /\ Made(l, c).cfg = c
  BY DEF Made
<1> QED
  BY <1>1, Constants

\* A relay that moves on keeps its label and its configuration.
LEMMA Moved ==
    ASSUME NEW x \in RelayType, NEW s \in {"stored", "listening", "stopped"},
           NEW y, y = [x EXCEPT !.state = s]
    PROVE  y.state = s /\ y.label = x.label /\ y.cfg = x.cfg /\ y # Free
<1>1. y.state = s /\ y.label = x.label /\ y.cfg = x.cfg
  BY DEF RelayType
<1> QED
  BY <1>1, FreeRecord

\* relayM.Store of a relay.
LEMMA StoreEffect ==
    ASSUME TypeOK, NEW i \in Slot, Store(i)
    PROVE  /\ relay[i].state = "made"
           /\ relayM' = [relayM EXCEPT ![relay[i].label] = i]
           /\ relay'[i].state = "stored" /\ relay'[i] # Free
           /\ relay'[i].label = relay[i].label /\ relay'[i].cfg = relay[i].cfg
           /\ \A k \in Slot \ {i} : relay'[k] = relay[k]
<1>1. relay \in [Slot -> RelayType]
  BY DEF TypeOK, RelayType
<1>2. relay'[i] = [relay[i] EXCEPT !.state = "stored"] /\ \A k \in Slot \ {i} : relay'[k] = relay[k]
  BY <1>1 DEF Store
<1>3. relay[i] \in RelayType
  BY <1>1
<1>4. relay'[i].state = "stored" /\ relay'[i] # Free
      /\ relay'[i].label = relay[i].label /\ relay'[i].cfg = relay[i].cfg
  BY <1>2, <1>3, Moved
<1> QED
  BY <1>2, <1>4 DEF Store

\* ListenAndServe fails, succeeds, or ends a relay that was stopped before it listened.
LEMMA ListenEffect ==
    ASSUME TypeOK, NEW i \in Slot, ListenAndServe(i)
    PROVE  /\ relayM' = relayM
           /\ relay[i].state \in {"stored", "stopped"}
           /\ \/ /\ relay' = relay /\ ended' \in {"bind", "listen"}
                 /\ ended' = "bind" => Taken(relay[i].cfg.listen)
              \/ /\ relay[i].state = "stored"
                 /\ relay'[i].state = "listening" /\ relay'[i] # Free
                 /\ relay'[i].label = relay[i].label /\ relay'[i].cfg = relay[i].cfg
                 /\ \A k \in Slot \ {i} : relay'[k] = relay[k]
                 /\ ended' = ended
              \/ /\ relay[i].state = "stopped"
                 /\ relay'[i] = Free
                 /\ \A k \in Slot \ {i} : relay'[k] = relay[k]
                 /\ ended' = ended
<1>1. relay \in [Slot -> RelayType]
  BY DEF TypeOK, RelayType
<1>2. relayM' = relayM /\ relay[i].state \in {"stored", "stopped"}
  BY DEF ListenAndServe
<1>3. CASE ended' = (IF Taken(relay[i].cfg.listen) THEN "bind" ELSE "listen") /\ UNCHANGED relay
  BY <1>2, <1>3
<1>4. CASE ~(ended' = (IF Taken(relay[i].cfg.listen) THEN "bind" ELSE "listen") /\ UNCHANGED relay)
  <2>1. relay' = [relay EXCEPT ![i] = IF @.state = "stored" THEN [@ EXCEPT !.state = "listening"]
                                      ELSE Free] /\ ended' = ended
    BY <1>4 DEF ListenAndServe
  <2>2. \A k \in Slot \ {i} : relay'[k] = relay[k]
    BY <1>1, <2>1
  <2>3. CASE relay[i].state = "stored"
    <3>1. relay'[i] = [relay[i] EXCEPT !.state = "listening"]
      BY <1>1, <2>1, <2>3
    <3>2. relay[i] \in RelayType
      BY <1>1
    <3>3. relay'[i].state = "listening" /\ relay'[i] # Free
          /\ relay'[i].label = relay[i].label /\ relay'[i].cfg = relay[i].cfg
      BY <3>1, <3>2, Moved
    <3> QED
      BY <1>2, <2>1, <2>2, <2>3, <3>3
  <2>4. CASE relay[i].state = "stopped"
    <3>1. relay'[i] = Free
      BY <1>1, <2>1, <2>4
    <3> QED
      BY <1>2, <2>1, <2>2, <2>4, <3>1
  <2> QED
    BY <1>2, <2>3, <2>4
<1> QED
  BY <1>3, <1>4

\* The relays that Start makes are well formed.
LEMMA RelaysInit == Init => RelaysOK
<1> SUFFICES ASSUME Init PROVE RelaysOK
  OBVIOUS
<1>1. \A l \in Label : relayM[l] = NoRelay
  BY DEF Init
<1>2. ASSUME NEW i \in Slot, relay[i] # Free
      PROVE  \E l \in Label : \E c \in Configs : relay[i] = Made(l, c)
  <2>1. PICK l \in Labels(Start) : relay[i] = Made(l, Loaded(Start)[l])
    BY <1>2 DEF Init, Started
  <2> QED
    BY <2>1, LoadedStart
<1>3. ASSUME NEW i \in Slot
      PROVE  /\ Used(i) => relay[i].label \in Label /\ relay[i].cfg \in Configs
             /\ Used(i) <=> relay[i].state # "free"
  <2>1. CASE relay[i] = Free
    BY <2>1, FreeRecord DEF Used
  <2>2. CASE relay[i] # Free
    <3>1. PICK l \in Label, c \in Configs : relay[i] = Made(l, c)
      BY <1>2, <2>2
    <3>2. relay[i].state = "made" /\ relay[i].label = l /\ relay[i].cfg = c
      BY <3>1, MadeRecord
    <3> QED
      BY <2>2, <3>2 DEF Used
  <2> QED
    BY <2>1, <2>2
<1> QED
  BY <1>1, <1>3 DEF RelaysOK

\* RelaysOK is inductive.
LEMMA RelaysNext == TypeOK /\ RelaysOK /\ [Next]_vars => RelaysOK'
<1> SUFFICES ASSUME TypeOK, RelaysOK, [Next]_vars PROVE RelaysOK'
  OBVIOUS
<1>0. /\ relay \in [Slot -> RelayType] /\ relayM \in [Label -> Slot \cup {NoRelay}]
      /\ NoRelay \notin Slot
  BY Constants DEF TypeOK, RelayType
<1>1. CASE UNCHANGED <<relay, relayM>>
  BY <1>1 DEF RelaysOK, Used
<1>2. ASSUME NEW i \in Slot, Store(i) PROVE RelaysOK'
  <2>1. relay[i] # Free /\ relay[i].label \in Label
    BY <1>2, StoreEffect, FreeRecord DEF RelaysOK, Used
  <2>2. \A l \in Label : relayM[l] # i
    BY <1>2, <1>0, StoreEffect DEF RelaysOK
  <2> QED
    BY <1>0, <1>2, <2>1, <2>2, StoreEffect DEF RelaysOK, Used
<1>3. ASSUME NEW i \in Slot, ListenAndServe(i) PROVE RelaysOK'
  <2>0. relayM' = relayM
    BY <1>3, ListenEffect
  <2>1. CASE relay' = relay
    BY <2>0, <2>1 DEF RelaysOK, Used
  <2>2. CASE relay[i].state = "stored" /\ relay'[i].state = "listening" /\ relay'[i] # Free
             /\ relay'[i].label = relay[i].label /\ relay'[i].cfg = relay[i].cfg
             /\ \A k \in Slot \ {i} : relay'[k] = relay[k]
    BY <1>0, <2>0, <2>2, FreeRecord, ZenonT(60) DEF RelaysOK, Used
  <2>3. CASE relay[i].state = "stopped" /\ relay'[i] = Free /\ \A k \in Slot \ {i} : relay'[k] = relay[k]
    BY <1>0, <2>0, <2>3, FreeRecord DEF RelaysOK, Used
  <2> QED
    BY <1>3, <2>1, <2>2, <2>3, ListenEffect
<1>4. ASSUME NEW l \in Label, NEW c \in Configs \cup {Absent}, Replace(l, c) PROVE RelaysOK'
  <2>1. relayM' = [relayM EXCEPT ![l] = NoRelay]
    BY <1>4, ReplaceEffect
  <2>2. \A m \in Label \ {l} : relayM[m] # NoRelay => relayM[m] # relayM[l]
    BY DEF RelaysOK
  <2>3. ASSUME NEW k \in Slot
        PROVE  /\ Left(l, k) # Free => Left(l, k).label \in Label /\ Left(l, k).cfg \in Configs
               /\ Left(l, k) # Free <=> Left(l, k).state # "free"
    <3>1. CASE k # relayM[l]
      BY <3>1 DEF RelaysOK, Left, Used
    <3>2. CASE k = relayM[l] /\ relay[k].state = "listening"
      BY <3>2, FreeRecord DEF Left
    <3>3. CASE k = relayM[l] /\ relay[k].state # "listening"
      <4>1. relay[k] \in RelayType /\ relay[k].state = "stored" /\ relay[k] # Free
        BY <1>0, <3>3, FreeRecord DEF RelaysOK
      <4>2. Left(l, k).state = "stopped" /\ Left(l, k).label = relay[k].label
            /\ Left(l, k).cfg = relay[k].cfg /\ Left(l, k) # Free
        BY <3>3, <4>1, Moved DEF Left
      <4> QED
        BY <4>1, <4>2 DEF RelaysOK, Used
    <3> QED
      BY <3>1, <3>2, <3>3
  <2>4. ASSUME NEW m \in Label, relayM'[m] # NoRelay
        PROVE  /\ m # l /\ relayM'[m] = relayM[m] /\ relayM[m] \in Slot
               /\ Left(l, relayM[m]) = relay[relayM[m]]
               /\ relay[relayM[m]] # Free
    BY <1>0, <2>1, <2>2, <2>4, FreeRecord DEF Left, RelaysOK
  <2>5. CASE c = Absent
    <3>1. \A k \in Slot : relay'[k] = Left(l, k)
      BY <1>4, <2>5, ReplaceEffect
    <3> QED
      BY <2>3, <2>4, <3>1 DEF RelaysOK, Used
  <2>6. CASE c # Absent
    <3>1. PICK j \in Slot : /\ Left(l, j) = Free
                            /\ \A k \in Slot : relay'[k] = IF k = j THEN Made(l, c) ELSE Left(l, k)
      BY <1>4, <2>6, ReplaceEffect
    <3>2. c \in Configs
      BY <2>6
    <3>3. relay'[j].state = "made" /\ relay'[j].label = l /\ relay'[j].cfg = c /\ relay'[j] # Free
      BY <3>1, <3>2, MadeRecord
    <3>4. \A k \in Slot \ {j} : relay'[k] = Left(l, k)
      BY <3>1
    <3>5. \A m \in Label : relayM'[m] # NoRelay => relayM'[m] \in Slot \ {j}
      BY <2>4, <3>1
    <3> QED
      BY <2>3, <2>4, <3>2, <3>3, <3>4, <3>5 DEF RelaysOK, Used
  <2> QED
    BY <2>5, <2>6
<1> QED
  BY <1>1, <1>2, <1>3, <1>4, RelaySteps

-----------------------------------------------------------------------------
(* Calm reloads.                                                           *)

\* Every relay labelled l listens.
Up(l) == \A k \in Slot : relay[k].label = l => relay[k].state = "listening"

\* While calm, stopping a label frees its relay and cannot panic.
LEMMA CalmLeft ==
    ASSUME TypeOK, RelaysOK, OneEach, NEW l \in Label, Up(l)
    PROVE  /\ \A k \in Slot : Left(l, k) = IF relay[k].label = l THEN Free ELSE relay[k]
           /\ ~StopPanics(l)
<1>0. relayM[l] \in Slot \cup {NoRelay} /\ NoRelay \notin Slot
  BY Constants DEF TypeOK
<1>1. ASSUME NEW k \in Slot, relay[k].label = l PROVE k = relayM[l] /\ relay[k].state = "listening"
  BY <1>1 DEF Up, OneEach
<1>2. relayM[l] # NoRelay => relay[relayM[l]].label = l
  BY DEF RelaysOK
<1>3. ASSUME NEW k \in Slot PROVE Left(l, k) = IF relay[k].label = l THEN Free ELSE relay[k]
  BY <1>0, <1>1, <1>2 DEF Left
<1> QED
  BY <1>0, <1>1, <1>2, <1>3 DEF StopPanics

\* A relay that listens is replaced by one with an address no other relay has.
LEMMA CalmReplace ==
    ASSUME TypeOK, RelaysOK, OneEach, NEW l \in Label, Up(l),
           NEW c, c = Absent \/ (c = cfg[l] /\ l \in Labels(cfg)), c \in Configs \cup {Absent},
           Replace(l, c), cfg' = cfg
    PROVE  OneEach'
<1> DEFINE Gone(k) == IF relay[k].label = l THEN Free ELSE relay[k]
<1>0. relayM \in [Label -> Slot \cup {NoRelay}] /\ NoRelay \notin Slot
  BY Constants DEF TypeOK
<1>1. \A k \in Slot : Left(l, k) = Gone(k)
  BY CalmLeft
<1>2. relayM' = [relayM EXCEPT ![l] = NoRelay]
  BY ReplaceEffect
<1>3. relayM'[l] = NoRelay /\ \A m \in Label \ {l} : relayM'[m] = relayM[m]
  BY <1>0, <1>2
<1>4. CASE c = Absent
  <2>1. \A k \in Slot : relay'[k] = Gone(k)
    BY <1>1, <1>4, ReplaceEffect
  <2>2. \A k \in Slot : relay[k].label = l => relay'[k] = Free
    BY <2>1
  <2>3. \A k \in Slot : relay[k].label # l => relay'[k] = relay[k]
    BY <2>1
  <2> HIDE DEF Gone
  <2>4. \A k \in Slot : relay'[k] # Free => relay'[k] = relay[k] /\ relay[k] # Free /\ relay[k].label \in Label \ {l}
    BY <2>2, <2>3 DEF RelaysOK, Used
  <2>5. AddressesKept(cfg)'
    BY <2>4 DEF OneEach, AddressesKept, Labels
  <2>6. \A i, j \in Slot : (Used(i) /\ Used(j) /\ \/ relay[i].label = relay[j].label
                                                   \/ relay[i].cfg.listen = relay[j].cfg.listen)'
                          => i = j
    BY <2>4 DEF OneEach, Used
  <2>7. \A i \in Slot : /\ relay'[i].state # "stopped"
                        /\ relay'[i].state \in {"stored", "listening"} => relayM'[relay'[i].label] = i
                        /\ relay'[i].state = "made" => relayM'[relay'[i].label] = NoRelay
    BY <1>3, <2>4, FreeRecord, ZenonT(60) DEF OneEach
  <2> QED
    BY <2>5, <2>6, <2>7 DEF OneEach
<1>5. CASE c # Absent
  <2>0. c = cfg[l] /\ l \in Labels(cfg) /\ c \in Configs
    BY <1>5
  <2>1. PICK j \in Slot : /\ Left(l, j) = Free
                          /\ \A k \in Slot : relay'[k] = IF k = j THEN Made(l, c) ELSE Left(l, k)
    BY <1>5, ReplaceEffect
  <2>2. relay'[j].state = "made" /\ relay'[j].label = l /\ relay'[j].cfg = c
    BY <2>0, <2>1, MadeRecord
  <2>3. \A k \in Slot \ {j} : relay[k].label = l => relay'[k] = Free
    BY <1>1, <2>1
  <2>4. \A k \in Slot \ {j} : relay[k].label # l => relay'[k] = relay[k]
    BY <1>1, <2>1
  <2> HIDE DEF Gone
  <2>5. \A k \in Slot \ {j} : relay'[k] # Free =>
           relay'[k] = relay[k] /\ relay[k] # Free /\ relay[k].label \in Label \ {l}
    BY <2>3, <2>4 DEF RelaysOK, Used
  <2>6. \A k \in Slot \ {j} : relay'[k] # Free => relay'[k].cfg.listen # c.listen
    BY <2>0, <2>5 DEF OneEach, AddressesKept
  <2>7. AddressesKept(cfg)'
    <3>1. ASSUME NEW m \in Labels(cfg), NEW k \in Slot, relay'[k] # Free,
                 relay'[k].cfg.listen = cfg[m].listen
          PROVE  relay'[k].label = m
      <4>1. CASE k = j
        BY <2>0, <2>2, <3>1, <4>1 DEF OneEach, AddressesKept
      <4>2. CASE k # j
        BY <2>5, <3>1, <4>2 DEF OneEach, AddressesKept
      <4> QED
        BY <4>1, <4>2
    <3> QED
      BY <3>1 DEF OneEach, AddressesKept, Labels
  <2>8. ASSUME NEW i \in Slot, NEW k \in Slot, relay'[i] # Free, relay'[k] # Free,
               relay'[i].label = relay'[k].label \/ relay'[i].cfg.listen = relay'[k].cfg.listen
        PROVE  i = k
    <3>1. CASE i = j /\ k # j
      BY <2>2, <2>5, <2>6, <2>8, <3>1
    <3>2. CASE i # j /\ k = j
      BY <2>2, <2>5, <2>6, <2>8, <3>2
    <3>3. CASE i # j /\ k # j
      BY <2>5, <2>8, <3>3 DEF OneEach, Used
    <3> QED
      BY <3>1, <3>2, <3>3
  <2>9. ASSUME NEW i \in Slot
        PROVE  /\ relay'[i].state # "stopped"
               /\ relay'[i].state \in {"stored", "listening"} => relayM'[relay'[i].label] = i
               /\ relay'[i].state = "made" => relayM'[relay'[i].label] = NoRelay
    <3>1. CASE i = j
      BY <1>3, <2>2, <3>1
    <3>2. CASE i # j /\ relay'[i] = Free
      BY <3>2, FreeRecord
    <3>3. CASE i # j /\ relay'[i] # Free
      BY <1>3, <2>5, <3>3 DEF OneEach
    <3> QED
      BY <3>1, <3>2, <3>3
  <2> QED
    BY <2>7, <2>8, <2>9 DEF OneEach, Used
<1> QED
  BY <1>4, <1>5

\* If the start file is calm, its relays have an address and a label each of
\* their own.
LEMMA CalmInit == Init => (calm => OneEach /\ Alone)
<1> SUFFICES ASSUME Init, calm PROVE OneEach /\ Alone
  OBVIOUS
<1> DEFINE S == Loaded(Start)
<1>0. AddressesKept(S) /\ cfg = S /\ Labels(S) = Labels(Start)
  <2>1. AddressesKept(Start) /\ cfg = S
    BY DEF Init
  <2>2. Labels(S) = Labels(Start) /\ \A l \in Label : S[l].listen = Start[l].listen
    BY LoadedStart
  <2> QED
    BY <2>1, <2>2 DEF AddressesKept, Labels
<1>1. ASSUME NEW i \in Slot, relay[i] # Free
      PROVE  \E l \in Labels(S) : /\ relay[i] = Made(l, S[l]) /\ relay[i].state = "made"
                                  /\ relay[i].label = l /\ relay[i].cfg = S[l]
  <2>1. PICK l \in Labels(Start) : relay[i] = Made(l, S[l])
    BY <1>1 DEF Init, Started
  <2>2. l \in Label /\ S[l] \in Configs
    BY LoadedStart
  <2> QED
    BY <1>0, <2>1, <2>2, MadeRecord
<1> HIDE DEF S
<1>2. \A l \in Label : relayM[l] = NoRelay
  BY DEF Init
<1>3. ASSUME NEW i \in Slot, NEW j \in Slot, relay[i] # Free, relay[j] # Free,
             \/ relay[i].label = relay[j].label
             \/ relay[i].cfg.listen = relay[j].cfg.listen
      PROVE  i = j
  <2>1. relay[i] = relay[j]
    <3>1. PICK l \in Labels(S) : /\ relay[i] = Made(l, S[l]) /\ relay[i].state = "made"
                                 /\ relay[i].label = l /\ relay[i].cfg = S[l]
      BY <1>1, <1>3
    <3>2. PICK m \in Labels(S) : /\ relay[j] = Made(m, S[m]) /\ relay[j].state = "made"
                                 /\ relay[j].label = m /\ relay[j].cfg = S[m]
      BY <1>1, <1>3
    <3>3. l = m
      BY <1>0, <1>3, <3>1, <3>2 DEF AddressesKept
    <3> QED
      BY <3>1, <3>2, <3>3
  <2>2. \A k, n \in Slot : k < n /\ relay[n] # Free => relay[k] # relay[n]
    BY DEF Init, Started
  <2>3. i \in Nat /\ j \in Nat
    BY Bounds DEF Slot
  <2>4. i < j \/ j < i \/ i = j
    BY <2>3
  <2> QED
    BY <1>3, <2>1, <2>2, <2>4
<1>4. \A i \in Slot : /\ relay[i].state # "stopped"
                      /\ relay[i].state \notin {"stored", "listening"}
                      /\ relay[i].state = "made" => relayM[relay[i].label] = NoRelay
  <2>1. ASSUME NEW i \in Slot
        PROVE  relay[i].state = "free" \/ (relay[i].state = "made" /\ relay[i].label \in Label)
    BY <1>1, <2>1, FreeRecord DEF Labels
  <2> QED
    BY <1>2, <2>1
<1>5. OneEach
  BY <1>0, <1>3, <1>4 DEF OneEach, Used
<1>6. Alone
  BY DEF Init, Alone
<1> QED
  BY <1>5, <1>6

\* A step of Reload other than a replacement leaves the relays alone.
LEMMA OneEachKept ==
    ASSUME OneEach, UNCHANGED <<relay, relayM>>, AddressesKept(cfg')
    PROVE  OneEach'
<1>1. AddressesKept(cfg)'
  BY DEF AddressesKept
<1> QED
  BY <1>1 DEF OneEach, Used

\* A relay that is not listening yet has the one running Reload past its label.
LEMMA AloneMoves ==
    ASSUME OneEach, Alone, NEW i \in Slot, relay[i].state \in {"made", "stored"},
           relay'[i].label = relay[i].label, \A k \in Slot \ {i} : relay'[k] = relay[k],
           UNCHANGED <<cfg, rpc, todo, new>>
    PROVE  Alone'
<1>1. \A r \in Reloader : rpc[r] \notin {"read", "list", "stop"}
  BY DEF Alone, Settled
<1>2. \A r \in Reloader : rpc[r] = "apply" => relay[i].label \notin todo[r]
  BY DEF Alone
<1> QED
  BY <1>1, <1>2 DEF Alone, Labels

\* A relay stored is the only one of its label.
LEMMA CalmStore ==
    ASSUME TypeOK, RelaysOK, OneEach, Alone, NEW i \in Slot, Store(i)
    PROVE  OneEach' /\ Alone'
<1>0. relayM \in [Label -> Slot \cup {NoRelay}]
  BY DEF TypeOK
<1>1. relay[i].state = "made" /\ relay[i] # Free /\ relay[i].label \in Label
  BY StoreEffect, FreeRecord DEF RelaysOK, Used
<1>2. relayM'[relay[i].label] = i /\ \A l \in Label \ {relay[i].label} : relayM'[l] = relayM[l]
  BY <1>0, <1>1, StoreEffect
<1>3. /\ relay'[i].state = "stored" /\ relay'[i] # Free /\ relay'[i].label = relay[i].label
      /\ relay'[i].cfg = relay[i].cfg /\ \A k \in Slot \ {i} : relay'[k] = relay[k]
  BY StoreEffect
<1>4. UNCHANGED <<cfg, rpc, todo, new>>
  BY DEF Store, reload
<1>5. AddressesKept(cfg)'
  BY <1>1, <1>3, <1>4 DEF OneEach, AddressesKept, Labels
<1>6. \A k, j \in Slot : (Used(k) /\ Used(j) /\ \/ relay[k].label = relay[j].label
                                                 \/ relay[k].cfg.listen = relay[j].cfg.listen)'
                        => k = j
  BY <1>1, <1>3 DEF OneEach, Used
<1>7. ASSUME NEW k \in Slot, k # i, relay[k].state # "free"
      PROVE  relay[k].label \in Label \ {relay[i].label}
  BY <1>1, <1>7 DEF OneEach, Used, RelaysOK
<1>8. \A k \in Slot : /\ relay'[k].state # "stopped"
                      /\ relay'[k].state \in {"stored", "listening"} => relayM'[relay'[k].label] = k
                      /\ relay'[k].state = "made" => relayM'[relay'[k].label] = NoRelay
  BY <1>2, <1>3, <1>7 DEF OneEach
<1>9. Alone'
  BY <1>1, <1>3, <1>4, AloneMoves
<1> QED
  BY <1>4, <1>5, <1>6, <1>8, <1>9 DEF OneEach

\* Two relays never have the same address, so the bind finds it free.
LEMMA CalmListen ==
    ASSUME TypeOK, RelaysOK, OneEach, Alone, NEW i \in Slot, ListenAndServe(i), ended = "no"
    PROVE  ended' \in {"no", "listen"} /\ (ended' = "no" => OneEach' /\ Alone')
<1>1. relay[i].state = "stored"
  BY ListenEffect DEF OneEach
<1>2. ~Taken(relay[i].cfg.listen)
  <2>1. ASSUME NEW j \in Slot, relay[j].state = "listening", relay[j].cfg.listen = relay[i].cfg.listen
        PROVE  FALSE
    <3>1. relay[i] # Free /\ relay[j] # Free
      BY <1>1, <2>1, FreeRecord
    <3>2. i = j
      BY <2>1, <3>1 DEF OneEach, Used
    <3> QED
      BY <1>1, <2>1, <3>2
  <2> QED
    BY <2>1 DEF Taken
<1>a. ended' \in {"no", "listen"}
  BY <1>1, <1>2, ListenEffect
<1> SUFFICES ASSUME ended' = "no" PROVE OneEach' /\ Alone'
  BY <1>a
<1>3. /\ relay'[i].state = "listening" /\ relay'[i] # Free /\ relay'[i].label = relay[i].label
      /\ relay'[i].cfg = relay[i].cfg /\ \A k \in Slot \ {i} : relay'[k] = relay[k]
      /\ relayM' = relayM
  BY <1>1, <1>2, ListenEffect
<1>4. UNCHANGED <<cfg, rpc, todo, new>>
  BY DEF ListenAndServe, reload
<1>5. relay[i] # Free
  BY <1>1, FreeRecord
<1>6. AddressesKept(cfg)'
  BY <1>3, <1>4, <1>5 DEF OneEach, AddressesKept, Labels
<1>7. \A k, j \in Slot : (Used(k) /\ Used(j) /\ \/ relay[k].label = relay[j].label
                                                 \/ relay[k].cfg.listen = relay[j].cfg.listen)'
                        => k = j
  BY <1>3, <1>5 DEF OneEach, Used
<1>8. \A k \in Slot : /\ relay'[k].state # "stopped"
                      /\ relay'[k].state \in {"stored", "listening"} => relayM'[relay'[k].label] = k
                      /\ relay'[k].state = "made" => relayM'[relay'[k].label] = NoRelay
  BY <1>1, <1>3 DEF OneEach
<1>9. Alone'
  BY <1>1, <1>3, <1>4, AloneMoves
<1> QED
  BY <1>3, <1>6, <1>7, <1>8, <1>9 DEF OneEach

\* A removed relay is stopped while it listens.
LEMMA CalmStop ==
    ASSUME TypeOK, RelaysOK, OneEach, Alone, NEW r \in Reloader, NEW l \in Label, StopRemoved(r, l)
    PROVE  OneEach' /\ Alone' /\ Up(l) /\ Replace(l, Absent) /\ Visited(r, l)
<1>0. relayM \in [Label -> Slot \cup {NoRelay}] /\ NoRelay \notin Slot
  BY Constants DEF TypeOK
<1>1. rpc[r] = "stop" /\ l \in todo[r] /\ UNCHANGED cfg
  BY DEF StopRemoved
<1>2. todo[r] = Removed(cfg) /\ Settled
  BY <1>1 DEF Alone
<1>3. relayM[l] # NoRelay
  BY <1>1, <1>2 DEF Removed
<1>4. Up(l)
  BY <1>2, FreeRecord DEF Up, Settled, RelaysOK, Used
<1>5. ~StopPanics(l)
  BY <1>4, CalmLeft
<1>6. Replace(l, Absent) /\ Visited(r, l)
  BY <1>3, <1>5 DEF StopRemoved
<1>7. OneEach'
  BY <1>1, <1>4, <1>6, CalmReplace DEF Visited
<1>8. relayM' = [relayM EXCEPT ![l] = NoRelay] /\ \A k \in Slot : relay'[k] = Left(l, k)
  BY <1>6, ReplaceEffect
<1>9. \A k \in Slot : relay'[k] = Free \/ relay'[k] = relay[k]
  BY <1>4, <1>8, CalmLeft
<1>10. Settled'
  BY <1>2, <1>9, FreeRecord DEF Settled
<1>11. rpc' = rpc /\ todo' = [todo EXCEPT ![r] = @ \ {l}] /\ todo \in [Reloader -> SUBSET Label]
  BY <1>6 DEF Visited, TypeOK
<1>12. Removed(cfg)' = Removed(cfg) \ {l}
  BY <1>0, <1>1, <1>8 DEF Removed, Labels
<1>13. \A s \in Reloader \ {r} : rpc[s] = "idle"
  BY <1>1 DEF Alone
<1>14. Alone'
  BY <1>1, <1>2, <1>10, <1>11, <1>12, <1>13 DEF Alone
<1> QED
  BY <1>4, <1>6, <1>7, <1>14

\* A relay is kept, or replaced while it listens; or NewRelay fails or panics,
\* with a configuration that cannot be used.
LEMMA CalmApply ==
    ASSUME TypeOK, RelaysOK, OneEach, Alone, NEW r \in Reloader, NEW l \in Label, Apply(r, l)
    PROVE  /\ OneEach' /\ Up(l) /\ cfg' = cfg /\ cfg[l] # Absent
           /\ \/ /\ Visited(r, l) /\ Alone'
                 /\ \/ /\ UNCHANGED <<relay, relayM>> /\ relayM[l] # NoRelay
                       /\ ~(old[r][l] # Absent /\ Different(old[r][l], cfg[l]))
                    \/ Replace(l, cfg[l])
                    \/ NewRelayFails(cfg[l]) /\ Replace(l, Absent)
              \/ /\ Panic(r) /\ Unusable(cfg)
                 /\ ended' = ended /\ ended # "panic" => Alone'
<1>1. rpc[r] = "apply" /\ l \in todo[r] /\ cfg' = cfg
  BY DEF Apply
<1>2. new[r] = cfg /\ todo[r] \subseteq Labels(cfg)
      /\ \A i \in Slot : relay[i].label \in todo[r] => relay[i].state = "listening"
  BY <1>1 DEF Alone
<1>3. Up(l) /\ l \in Labels(cfg)
  BY <1>1, <1>2 DEF Up
<1>4. ~StopPanics(l)
  BY <1>3, CalmLeft
<1>5. \/ /\ Visited(r, l)
         /\ \/ /\ UNCHANGED <<relay, relayM>> /\ relayM[l] # NoRelay
               /\ ~(old[r][l] # Absent /\ Different(old[r][l], cfg[l]))
            \/ Replace(l, cfg[l])
            \/ NewRelayFails(cfg[l]) /\ Replace(l, Absent)
      \/ Panic(r) /\ Replace(l, Absent) /\ NewRelayPanics(cfg[l])
  BY <1>2, <1>4 DEF Apply
<1>6. cfg[l] \in Configs \cup {Absent}
  <2>1. cfg \in RelayConfigs
    BY DEF TypeOK
  <2> QED
    BY <2>1, Constants
<1>7. todo \in [Reloader -> SUBSET Label]
  BY DEF TypeOK
<1>8. \A s \in Reloader \ {r} : rpc[s] = "idle"
  BY <1>1 DEF Alone
<1>9. ASSUME \A i \in Slot : relay'[i].label \in todo[r] \ {l} => relay'[i] = relay[i],
             Visited(r, l)
      PROVE  Alone'
  <2>1. todo'[r] = todo[r] \ {l} /\ rpc' = rpc /\ new' = new
    BY <1>7, <1>9 DEF Visited
  <2>2. \A i \in Slot : relay'[i].label \in todo'[r] => relay'[i].state = "listening"
    BY <1>2, <1>9, <2>1
  <2> QED
    BY <1>1, <1>2, <1>8, <2>1, <2>2 DEF Alone, Labels
<1>10. CASE Visited(r, l) /\ UNCHANGED <<relay, relayM>> /\ relayM[l] # NoRelay
            /\ ~(old[r][l] # Absent /\ Different(old[r][l], cfg[l]))
  <2>1. OneEach'
    BY <1>1, <1>10, OneEachKept DEF OneEach
  <2> QED
    BY <1>1, <1>3, <1>9, <1>10, <2>1 DEF Labels
<1>11. ASSUME NEW c \in {cfg[l], Absent}, Replace(l, c)
       PROVE  OneEach' /\ \A i \in Slot : relay'[i].label \in todo[r] \ {l} => relay'[i] = relay[i]
  <2>1. OneEach'
    BY <1>1, <1>3, <1>6, <1>11, CalmReplace
  <2>2. ASSUME NEW i \in Slot, relay'[i].label \in todo[r] \ {l} PROVE relay'[i] = relay[i]
    <3>1. c \in Configs \cup {Absent} /\ relay'[i].label \in Label \ {l}
      BY <1>6, <1>7, <2>2
    <3>2. relay'[i] = Left(l, i) \/ (c \in Configs /\ relay'[i] = Made(l, c))
      BY <1>11, <3>1, ReplaceEffect
    <3>3. relay'[i] # Free /\ (c \in Configs => relay'[i] # Made(l, c))
      <4>1. c \in Configs => Made(l, c).label = l
        BY MadeRecord
      <4> QED
        BY <3>1, <4>1, FreeRecord
    <3>4. relay'[i] = Left(l, i)
      BY <3>2, <3>3
    <3> QED
      BY <1>3, <3>3, <3>4, CalmLeft
  <2> QED
    BY <2>1, <2>2
<1>12. CASE Visited(r, l) /\ (Replace(l, cfg[l]) \/ (NewRelayFails(cfg[l]) /\ Replace(l, Absent)))
  BY <1>1, <1>3, <1>9, <1>11, <1>12 DEF Labels
<1>13. CASE Panic(r) /\ Replace(l, Absent) /\ NewRelayPanics(cfg[l])
  <2>1. Unusable(cfg)
    BY <1>3, <1>13 DEF NewRelayPanics, Unusable
  <2>2. OneEach'
    BY <1>11, <1>13
  <2>3. ASSUME ended' = ended, ended # "panic" PROVE Alone'
    <3>1. rpc' = [rpc EXCEPT ![r] = "idle"]
      BY <1>13, <2>3 DEF Panic, Leave, Goto
    <3>2. \A s \in Reloader : rpc'[s] = "idle"
      BY <1>8, <3>1 DEF TypeOK
    <3> QED
      BY <3>2 DEF Alone
  <2> QED
    BY <1>1, <1>3, <1>13, <2>1, <2>2, <2>3 DEF Labels
<1> QED
  BY <1>5, <1>10, <1>12, <1>13

\* While calm, OneEach and Alone are inductive.
LEMMA CalmNext ==
    TypeOK /\ CalmInv /\ [Next]_vars => (calm' /\ ended' = "no" => OneEach' /\ Alone')
<1> SUFFICES ASSUME TypeOK, CalmInv, [Next]_vars, calm', ended' = "no"
             PROVE  OneEach' /\ Alone'
  OBVIOUS
<1> USE DEF loading, reload, relays
<1>0. AddressesKept(NoFile) /\ RelaysOK
  BY Constants DEF AddressesKept, CalmInv
<1>a. ended = "no"
  BY DEF Next, vars
<1>b. calm => OneEach /\ Alone
  BY <1>a DEF CalmInv
<1>1. ASSUME OneEach, Alone, UNCHANGED <<relay, relayM, cfg, reload>> PROVE OneEach' /\ Alone'
  <2>1. OneEach'
    BY <1>1, OneEachKept DEF OneEach
  <2>2. Alone'
    BY <1>1 DEF Alone, Settled, Removed, Labels
  <2> QED
    BY <2>1, <2>2
<1>2. CASE UNCHANGED vars
  BY <1>1, <1>2, <1>b DEF vars
<1>3. ASSUME NEW f \in Files, Edit(f) PROVE OneEach' /\ Alone'
  BY <1>1, <1>3, <1>b DEF Edit
<1>4. CASE Elapse \/ TriggerReload
  BY <1>1, <1>4, <1>b DEF Elapse, TriggerReload
<1>5. ASSUME NEW i \in Slot, Store(i) PROVE OneEach' /\ Alone'
  BY <1>0, <1>5, <1>b, CalmStore DEF Store
<1>6. ASSUME NEW i \in Slot, ListenAndServe(i) PROVE OneEach' /\ Alone'
  BY <1>0, <1>6, <1>a, <1>b, CalmListen DEF ListenAndServe
<1>7. ASSUME NEW r \in Reloader, Begin(r) PROVE OneEach' /\ Alone'
  <2>1. OneEach /\ Alone /\ Idle /\ Settled
    BY <1>7, <1>b DEF Begin
  <2>2. \/ cfg' = cfg /\ rpc' = [rpc EXCEPT ![r] = "list"]
        \/ cfg' = NoFile /\ rpc' = [rpc EXCEPT ![r] = "read"]
        \/ cfg' = cfg /\ rpc' = [rpc EXCEPT ![r] = "idle"]
    BY <1>7 DEF Begin, LoadConfig, Goto, Panic, Leave
  <2>3. OneEach'
    BY <1>0, <1>7, <2>1, <2>2, OneEachKept DEF Begin, OneEach
  <2>4. \A s \in Reloader \ {r} : rpc'[s] = "idle"
    BY <2>1, <2>2 DEF TypeOK, Idle
  <2>5. rpc'[r] \in {"list", "idle"} \/ (rpc'[r] = "read" /\ cfg' = NoFile)
    BY <2>2 DEF TypeOK
  <2>6. Settled'
    BY <1>7, <2>1 DEF Begin, Settled
  <2>7. Alone'
    BY <2>4, <2>5, <2>6 DEF Alone
  <2> QED
    BY <2>3, <2>7
<1>8. ASSUME NEW r \in Reloader, NEW f, Load(r, f) PROVE OneEach' /\ Alone'
  <2>1. OneEach /\ Alone /\ AddressesKept(f) /\ cfg' = f /\ rpc[r] = "read" /\ UNCHANGED relays
    BY <1>8, <1>b DEF Load
  <2>2. OneEach'
    BY <2>1, OneEachKept
  <2>3. rpc'[r] = "list" /\ \A s \in Reloader \ {r} : rpc'[s] = "idle"
    BY <1>8, <2>1 DEF Load, Goto, TypeOK, Alone
  <2>4. Settled'
    BY <2>1 DEF Alone, Settled
  <2> QED
    BY <2>2, <2>3, <2>4 DEF Alone
<1>9. ASSUME NEW r \in Reloader, ReadError(r) PROVE OneEach' /\ Alone'
  <2>1. OneEach /\ Alone /\ AddressesKept(cfg') /\ rpc[r] = "read" /\ UNCHANGED relays
    BY <1>9, <1>b DEF ReadError
  <2>2. OneEach'
    BY <2>1, OneEachKept
  <2>3. \A s \in Reloader : rpc'[s] = "idle"
    BY <1>9, <2>1 DEF ReadError, Leave, Goto, TypeOK, Alone
  <2> QED
    BY <2>2, <2>3 DEF Alone
<1>10. ASSUME NEW r \in Reloader, ListLabels(r) PROVE OneEach' /\ Alone'
  <2>1. OneEach /\ Alone /\ rpc[r] = "list" /\ UNCHANGED <<relays, cfg>>
    BY <1>10, <1>b DEF ListLabels
  <2>2. OneEach'
    BY <2>1, OneEachKept DEF OneEach
  <2>3. rpc'[r] = "stop" /\ \A s \in Reloader \ {r} : rpc'[s] = "idle"
    BY <1>10, <2>1 DEF ListLabels, Goto, TypeOK, Alone
  <2>4. Settled' /\ todo'[r] = Removed(cfg)'
    BY <1>10, <2>1, ZenonT(60) DEF ListLabels, Alone, Settled, TypeOK, Removed, Labels
  <2> QED
    BY <2>2, <2>3, <2>4 DEF Alone
<1>11. ASSUME NEW r \in Reloader, Range(r) PROVE OneEach' /\ Alone'
  <2>1. OneEach /\ Alone /\ rpc[r] = "stop" /\ UNCHANGED <<relays, cfg>>
    BY <1>11, <1>b DEF Range
  <2>2. OneEach'
    BY <2>1, OneEachKept DEF OneEach
  <2>3. rpc'[r] = "apply" /\ \A s \in Reloader \ {r} : rpc'[s] = "idle"
    BY <1>11, <2>1 DEF Range, Goto, TypeOK, Alone
  <2>4. new'[r] = cfg' /\ todo'[r] = Labels(cfg)'
    BY <1>11, <2>1 DEF Range, TypeOK, Labels
  <2>5. \A i \in Slot : relay'[i].label \in Label => relay'[i].state = "listening"
    <3>1. \A i \in Slot : relay[i].label \in Label => relay[i].state # "free"
      BY <1>0, FreeRecord DEF RelaysOK, Used
    <3> QED
      BY <2>1, <3>1 DEF Alone, Settled
  <2>6. Labels(cfg)' \subseteq Label
    BY DEF Labels
  <2> QED
    BY <2>2, <2>3, <2>4, <2>5, <2>6 DEF Alone
<1>12. ASSUME NEW r \in Reloader, Return(r) PROVE OneEach' /\ Alone'
  <2>1. OneEach /\ Alone /\ rpc[r] = "apply" /\ UNCHANGED <<relays, cfg>>
    BY <1>12, <1>b DEF Return
  <2>2. OneEach'
    BY <2>1, OneEachKept DEF OneEach
  <2>3. \A s \in Reloader : rpc'[s] = "idle"
    BY <1>12, <2>1 DEF Return, Leave, Goto, TypeOK, Alone
  <2> QED
    BY <2>2, <2>3 DEF Alone
<1>13. ASSUME NEW r \in Reloader, NEW l \in Label, StopRemoved(r, l) PROVE OneEach' /\ Alone'
  BY <1>0, <1>13, <1>b, CalmStop DEF StopRemoved
<1>14. ASSUME NEW r \in Reloader, NEW l \in Label, Apply(r, l) PROVE OneEach' /\ Alone'
  BY <1>0, <1>14, <1>a, <1>b, CalmApply DEF Apply
<1> QED
  BY <1>2, <1>3, <1>4, <1>5, <1>6, <1>7, <1>8, <1>9, <1>10, <1>11, <1>12, <1>13, <1>14
     DEF Next, Reload, startOneRelay, ReadConfig, ReadErrorAnswer

\* What Adjust accepts is sound, and so is the empty configuration.
LEMMA SoundLoaded ==
    /\ \A f \in RelayConfigs : Rejects(f) = {} => Sound(Loaded(f))
    /\ Sound(NoFile)
    /\ \A f : Sound(f) => ~Unusable(f) /\ ~ClonePanics(f)
<1>1. ASSUME NEW f \in RelayConfigs, Rejects(f) = {}, NEW l \in Labels(Loaded(f))
      PROVE  Loaded(f)[l].options # 0 /\ Loaded(f)[l].rest \notin NoServer \cup NoClient
  <2>1. /\ Labels(Loaded(f)) = Labels(f) /\ l \in Label
        /\ Loaded(f)[l].rest = f[l].rest /\ (l \in Labels(f) => Loaded(f)[l].options # 0)
    BY AdjustEffect DEF Loaded, Labels
  <2>2. f[l] \in Configs /\ f[l] \notin Invalid
    BY <1>1, <2>1, Constants DEF Labels, Rejects
  <2> QED
    BY <1>1, <2>1, <2>2, ReloadAssumption
<1>2. Sound(NoFile)
  BY Constants DEF Sound
<1>3. \A f : Sound(f) => ~Unusable(f) /\ ~ClonePanics(f)
  BY DEF Sound, Unusable, ClonePanics
<1> QED
  BY <1>1, <1>2, <1>3 DEF Sound

\* The start file was accepted.
LEMMA SoundInit == Init => SoundInv
<1> SUFFICES ASSUME Init PROVE SoundInv
  OBVIOUS
<1>1. cfg = Loaded(Start) /\ ended = "no"
  BY DEF Init
<1>2. Start \in RelayConfigs /\ Rejects(Start) = {}
  BY ReloadAssumption DEF Rejects
<1> QED
  BY <1>1, <1>2, SoundLoaded DEF SoundInv, SurvivesCalmReloads

\* A calm reload ends the process as SurvivesCalmReloads says.
LEMMA SoundNext == TypeOK /\ CalmInv /\ SoundInv /\ [Next]_vars => SoundInv'
<1> SUFFICES ASSUME TypeOK, CalmInv, SoundInv, [Next]_vars PROVE SoundInv'
  OBVIOUS
<1> USE DEF loading, reload, relays
<1>1. CASE UNCHANGED vars
  BY <1>1 DEF vars, SoundInv, SurvivesCalmReloads, Unusable, Sound, Labels
<1> SUFFICES ASSUME Next PROVE SoundInv'
  BY <1>1
<1>2. ended = "no" /\ RelaysOK /\ (calm => OneEach /\ Alone)
  BY DEF Next, CalmInv
<1>3. ASSUME UNCHANGED <<cfg, failed>>,
             calm' => ended' \in {"no", "listen"} \/ (ended' = "panic" /\ Unusable(cfg))
      PROVE  SoundInv'
  <2>1. (Sound(cfg) <=> Sound(cfg')) /\ (Unusable(cfg) <=> Unusable(cfg'))
    BY <1>3
  <2>2. Unusable(cfg) => failed
    BY SoundLoaded DEF SoundInv
  <2> QED
    BY <1>3, <2>1, <2>2 DEF SoundInv, SurvivesCalmReloads, Sound, Unusable, Labels
<1>4. ASSUME NEW f \in Files, Edit(f) PROVE SoundInv'
  BY <1>2, <1>3, <1>4 DEF Edit
<1>5. CASE Elapse \/ TriggerReload
  BY <1>2, <1>3, <1>5 DEF Elapse, TriggerReload
<1>6. ASSUME NEW i \in Slot, Store(i) PROVE SoundInv'
  BY <1>2, <1>3, <1>6 DEF Store
<1>7. ASSUME NEW i \in Slot, ListenAndServe(i) PROVE SoundInv'
  <2>1. calm' => ended' \in {"no", "listen"}
    BY <1>2, <1>7, CalmListen DEF ListenAndServe
  <2> QED
    BY <1>3, <1>7, <2>1 DEF ListenAndServe
<1>8. ASSUME NEW r \in Reloader, Begin(r) PROVE SoundInv'
  <2>1. CASE ~ClonePanics(cfg)
    <3>1. cfg' \in {cfg, NoFile} /\ failed' = failed /\ ended' = "no"
      BY <1>2, <1>8, <2>1 DEF Begin, LoadConfig
    <3>2. Sound(cfg) => Sound(cfg')
      BY <3>1, SoundLoaded
    <3> QED
      BY <3>1, <3>2 DEF SoundInv, SurvivesCalmReloads, Sound, Labels
  <2>2. CASE ClonePanics(cfg)
    <3>1. UNCHANGED <<cfg, failed>> /\ ended' \in {"no", "panic"}
      BY <1>2, <1>8, <2>2 DEF Begin, Panic
    <3>2. Unusable(cfg)
      BY <2>2 DEF ClonePanics, Unusable
    <3> QED
      BY <1>3, <3>1, <3>2
  <2> QED
    BY <2>1, <2>2
<1>9. ASSUME NEW r \in Reloader, ReadConfig(r) PROVE SoundInv'
  <2>1. cfg' = Loaded(file) /\ ended' = "no" /\ Rejects(file) = {} /\ file \in RelayConfigs
    BY <1>2, <1>9, Constants DEF ReadConfig, Load, TypeOK
  <2>2. Sound(cfg')
    BY <2>1, SoundLoaded
  <2> QED
    BY <2>1, <2>2 DEF SoundInv, SurvivesCalmReloads, Sound, Labels
<1>10. ASSUME NEW r \in Reloader, ReadErrorAnswer(r) \/ ReadError(r) PROVE SoundInv'
  BY <1>2, <1>10 DEF ReadErrorAnswer, ReadError, Load, SoundInv, SurvivesCalmReloads
<1>11. ASSUME NEW r \in Reloader, ListLabels(r) \/ Range(r) \/ Return(r) PROVE SoundInv'
  BY <1>2, <1>3, <1>11 DEF ListLabels, Range, Return
<1>12. ASSUME NEW r \in Reloader, NEW l \in Label, StopRemoved(r, l) PROVE SoundInv'
  <2>1. calm' => ended' = "no"
    BY <1>2, <1>12, CalmStop DEF StopRemoved, Visited
  <2> QED
    BY <1>3, <1>12, <2>1 DEF StopRemoved
<1>13. ASSUME NEW r \in Reloader, NEW l \in Label, Apply(r, l) PROVE SoundInv'
  <2>1. UNCHANGED <<cfg, failed, calm>>
    BY <1>13 DEF Apply
  <2>2. calm => Visited(r, l) \/ (Panic(r) /\ Unusable(cfg))
    BY <1>2, <1>13, CalmApply
  <2>3. calm' => ended' = "no" \/ (ended' = "panic" /\ Unusable(cfg))
    BY <1>2, <2>1, <2>2 DEF Visited, Panic
  <2> QED
    BY <1>3, <2>1, <2>3
<1> QED
  BY <1>4, <1>5, <1>6, <1>7, <1>8, <1>9, <1>10, <1>11, <1>12, <1>13
     DEF Next, Reload, startOneRelay

\* Reloads one at a time, each begun when the relays of the last one listen,
\* for any relays and files: as long as no relay is given the address of
\* another, no bind of startOneRelay finds its address taken by a relay of the
\* process and stopOneRelay never closes a RawServer that does not listen yet.
\* The process ends only through another listen error, or when Reload panics on
\* a configuration that a load rejected and left in force.
THEOREM Survives == Spec => []SurvivesCalmReloads
<1>1. Init => TypeOK /\ CalmInv /\ SoundInv
  BY TypeInit, RelaysInit, CalmInit, SoundInit DEF CalmInv
<1>2. TypeOK /\ CalmInv /\ SoundInv /\ [Next]_vars => (TypeOK /\ CalmInv /\ SoundInv)'
  BY TypeNext, RelaysNext, CalmNext, SoundNext DEF CalmInv
<1>3. SoundInv => SurvivesCalmReloads
  BY DEF SoundInv
<1> QED
  BY <1>1, <1>2, <1>3, PTL DEF Spec

-----------------------------------------------------------------------------
(* What calm reloads achieve.                                              *)

\* Match depends on labels and configurations only.
LEMMA MatchKept ==
    ASSUME NEW R, NEW S, NEW f, NEW l,
           \A k \in Slot : R[k].label = l <=> S[k].label = l,
           \A k \in Slot : R[k].label = l => R[k].cfg = S[k].cfg,
           Match(R, f, l)
    PROVE  Match(S, f, l)
BY DEF Match

\* Replacing one label leaves the relays of the others.
LEMMA ReplaceOthers ==
    ASSUME TypeOK, RelaysOK, OneEach, NEW l \in Label, Up(l), NEW c \in Configs \cup {Absent},
           Replace(l, c), NEW m \in Label \ {l}, NEW k \in Slot
    PROVE  /\ relay'[k].label = m <=> relay[k].label = m
           /\ relay[k].label = m => relay'[k] = relay[k]
<1>1. Left(l, k) = IF relay[k].label = l THEN Free ELSE relay[k]
  BY CalmLeft
<1>2. relay[k].label = m => Left(l, k) = relay[k] /\ relay[k] # Free
  BY <1>1, FreeRecord
<1>3. Left(l, k).label = m => relay[k].label = m
  BY <1>1, FreeRecord
<1>4. CASE c = Absent
  <2>1. relay'[k] = Left(l, k)
    BY <1>4, ReplaceEffect
  <2> QED
    BY <1>2, <1>3, <2>1
<1>5. CASE c # Absent
  <2>1. PICK j \in Slot : /\ Left(l, j) = Free
                          /\ \A n \in Slot : relay'[n] = IF n = j THEN Made(l, c) ELSE Left(l, n)
    BY <1>5, ReplaceEffect
  <2>2. CASE k = j
    <3>1. relay'[k].label = l /\ Left(l, k) = Free
      BY <1>5, <2>1, <2>2, MadeRecord
    <3> QED
      BY <1>2, <3>1
  <2>3. CASE k # j
    <3>1. relay'[k] = Left(l, k)
      BY <2>1, <2>3
    <3> QED
      BY <1>2, <1>3, <3>1
  <2> QED
    BY <2>2, <2>3
<1> QED
  BY <1>4, <1>5

\* The relay that replaces one has the new configuration.
LEMMA ReplaceMatches ==
    ASSUME TypeOK, NEW l \in Label, l \in Labels(cfg), Replace(l, cfg[l])
    PROVE  Match(relay', cfg, l)
<1>1. cfg[l] \in Configs /\ cfg[l] # Absent
  <2>1. cfg \in RelayConfigs
    BY DEF TypeOK
  <2> QED
    BY <2>1, Constants DEF Labels
<1>2. PICK j \in Slot : relay'[j] = Made(l, cfg[l])
  BY <1>1, ReplaceEffect
<1>3. relay'[j].label = l /\ relay'[j].cfg = cfg[l]
  BY <1>1, <1>2, MadeRecord
<1> QED
  BY <1>1, <1>3 DEF Match, Similar

\* The relays that Start makes are those of the start file.
LEMMA ProgressInit == Init => Progress
<1> SUFFICES ASSUME Init PROVE Progress
  OBVIOUS
<1> DEFINE S == Loaded(Start)
<1>0. cfg = S /\ Labels(S) = Labels(Start)
  BY LoadedStart DEF Init
<1>1. ASSUME NEW l \in Labels(Start) PROVE Match(relay, S, l)
  <2>1. PICK i \in Slot : relay[i] = Made(l, S[l])
    BY DEF Init, Started
  <2>2. l \in Label /\ S[l] \in Configs /\ S[l] # Absent
    BY <1>0, LoadedStart DEF Labels
  <2>3. relay[i].label = l /\ relay[i].cfg = S[l]
    BY <2>1, <2>2, MadeRecord
  <2> QED
    BY <2>2, <2>3 DEF Match, Similar
<1>2. ASSUME NEW l \in Label \ Labels(Start) PROVE Match(relay, S, l)
  <2>1. ASSUME NEW i \in Slot PROVE relay[i].label # l
    <3>1. CASE relay[i] = Free
      BY <3>1, FreeRecord
    <3>2. CASE relay[i] # Free
      <4>1. PICK m \in Labels(Start) : relay[i] = Made(m, S[m])
        BY <3>2 DEF Init, Started
      <4>2. m \in Label /\ S[m] \in Configs
        BY LoadedStart
      <4> QED
        BY <4>1, <4>2, MadeRecord
    <3> QED
      BY <3>1, <3>2
  <2>2. S[l] = Absent
    <3>1. l \notin Labels(S)
      BY <1>0
    <3> QED
      BY <3>1 DEF Labels
  <2> QED
    BY <2>1, <2>2 DEF Match
<1> HIDE DEF S
<1>3. \A r \in Reloader : rpc[r] = "idle"
  BY DEF Init
<1> QED
  BY <1>0, <1>1, <1>2, <1>3 DEF Progress

\* A step that changes no label, no configuration and nothing of Reload.
LEMMA ProgressKept ==
    ASSUME Progress, UNCHANGED <<cfg, reload>>,
           \A k \in Slot : relay'[k].label = relay[k].label /\ relay'[k].cfg = relay[k].cfg
    PROVE  Progress'
<1>1. \A f, l : Match(relay, f, l) => Match(relay', f, l)
  BY MatchKept
<1> QED
  BY <1>1 DEF Progress, reload, Idle, Labels

\* A relay labelled l is the one the old configuration asked for; Different
\* then tells whether it is also the one the new configuration asks for.
LEMMA Unchanged ==
    ASSUME TypeOK, RelaysOK, NEW l \in Label, NEW f, Match(relay, f, l), relayM[l] # NoRelay,
           ~(f[l] # Absent /\ Different(f[l], cfg[l])), cfg[l] # Absent
    PROVE  Match(relay, cfg, l)
<1>1. relayM[l] \in Slot /\ relay[relayM[l]].label = l
  BY DEF TypeOK, RelaysOK
<1>2. f[l] # Absent
  BY <1>1 DEF Match
<1>3. PICK i \in Slot : relay[i].label = l /\ Similar(relay[i].cfg, f[l])
  BY <1>2 DEF Match
<1>4. Similar(relay[i].cfg, cfg[l])
  BY <1>2, <1>3 DEF Similar, Different
<1> QED
  BY <1>3, <1>4 DEF Match

\* While calm and without failed loads, Progress is inductive.
LEMMA ProgressNext ==
    TypeOK /\ CalmInv /\ SoundInv /\ ProgressInv /\ [Next]_vars => ProgressInv'
<1> SUFFICES ASSUME TypeOK, CalmInv, SoundInv, ProgressInv, [Next]_vars,
                    calm', ~failed', ended' = "no"
             PROVE  Progress'
  BY DEF ProgressInv
<1> USE DEF loading, reload, relays
<1>0. RelaysOK
  BY DEF CalmInv
<1>a. ended = "no"
  BY DEF Next, vars
<1>b. /\ calm => OneEach /\ Alone
      /\ calm /\ ~failed => Progress
      /\ ~failed => Sound(cfg) /\ ~Unusable(cfg) /\ ~ClonePanics(cfg)
  BY <1>a, SoundLoaded DEF CalmInv, ProgressInv, SoundInv
<1>1. CASE UNCHANGED vars
  BY <1>1, <1>b, ProgressKept DEF vars
<1>2. ASSUME NEW f \in Files, Edit(f) PROVE Progress'
  BY <1>2, <1>b, ProgressKept DEF Edit
<1>3. CASE Elapse \/ TriggerReload
  BY <1>3, <1>b, ProgressKept DEF Elapse, TriggerReload
<1>4. ASSUME NEW i \in Slot, Store(i) PROVE Progress'
  <2>1. Progress /\ UNCHANGED <<cfg, reload>>
    BY <1>4, <1>b DEF Store
  <2>2. \A k \in Slot : relay'[k].label = relay[k].label /\ relay'[k].cfg = relay[k].cfg
    BY <1>4, StoreEffect
  <2> QED
    BY <2>1, <2>2, ProgressKept
<1>5. ASSUME NEW i \in Slot, ListenAndServe(i) PROVE Progress'
  <2>1. Progress /\ UNCHANGED <<cfg, reload>> /\ OneEach
    BY <1>5, <1>b DEF ListenAndServe
  <2>2. \A k \in Slot : relay'[k].label = relay[k].label /\ relay'[k].cfg = relay[k].cfg
    BY <1>5, <1>a, <2>1, ListenEffect DEF OneEach
  <2> QED
    BY <2>1, <2>2, ProgressKept
<1>6. ASSUME NEW r \in Reloader, Begin(r) PROVE Progress'
  <2>1. Progress /\ Idle /\ relay' = relay /\ old' = [old EXCEPT ![r] = cfg] /\ LoadConfig(r)
    BY <1>6, <1>b DEF Begin
  <2>2. rpc'[r] \in {"list", "read"} /\ \A s \in Reloader \ {r} : rpc'[s] = "idle"
    BY <2>1 DEF LoadConfig, Goto, TypeOK, Idle
  <2>3. old'[r] = cfg
    BY <2>1 DEF TypeOK
  <2> QED
    BY <2>1, <2>2, <2>3 DEF Progress, Idle
<1>7. ASSUME NEW r \in Reloader, ReadConfig(r) PROVE Progress'
  <2>1. Progress /\ Alone /\ relay' = relay /\ old' = old /\ rpc[r] = "read"
    BY <1>7, <1>b DEF ReadConfig, Load
  <2>2. rpc'[r] = "list" /\ \A s \in Reloader \ {r} : rpc'[s] = "idle"
    BY <1>7, <2>1 DEF ReadConfig, Load, Goto, TypeOK, Alone
  <2> QED
    BY <2>1, <2>2 DEF Progress, Idle
<1>8. ASSUME NEW r \in Reloader, ReadErrorAnswer(r) \/ ReadError(r) PROVE Progress'
  BY <1>8 DEF ReadErrorAnswer, ReadError
<1>9. ASSUME NEW r \in Reloader, ListLabels(r) PROVE Progress'
  <2>1. Progress /\ Alone /\ relay' = relay /\ old' = old /\ rpc[r] = "list"
    BY <1>9, <1>b DEF ListLabels
  <2>2. rpc'[r] = "stop" /\ \A s \in Reloader \ {r} : rpc'[s] = "idle"
    BY <1>9, <2>1 DEF ListLabels, Goto, TypeOK, Alone
  <2>3. Labels(cfg)' \subseteq Label
    BY DEF Labels
  <2> QED
    BY <2>1, <2>2, <2>3 DEF Progress, Idle
<1>10. ASSUME NEW r \in Reloader, Range(r) PROVE Progress'
  <2>1. Progress /\ Alone /\ OneEach /\ UNCHANGED <<relay, cfg, old>> /\ rpc[r] = "stop" /\ todo[r] = {}
    BY <1>10, <1>b DEF Range
  <2>2. rpc'[r] = "apply" /\ \A s \in Reloader \ {r} : rpc'[s] = "idle"
    BY <1>10, <2>1 DEF Range, Goto, TypeOK, Alone
  <2>3. todo'[r] = Labels(cfg)
    BY <1>10 DEF Range, TypeOK
  <2>4. ASSUME NEW l \in Label \ Labels(cfg) PROVE Match(relay, cfg, l)
    <3>1. cfg[l] = Absent
      BY DEF Labels
    <3>2. ASSUME NEW k \in Slot, relay[k].label = l PROVE FALSE
      <4>1. relay[k].state = "listening"
        BY <1>0, <2>1, <3>2, FreeRecord DEF Alone, Settled, RelaysOK, Used
      <4>2. relayM[l] = k /\ k # NoRelay
        BY <2>1, <3>2, <4>1, Constants DEF OneEach
      <4>3. Removed(cfg) = {}
        BY <2>1 DEF Alone
      <4> QED
        BY <4>2, <4>3 DEF Removed
    <3> QED
      BY <3>1, <3>2 DEF Match
  <2>5. \A l \in Labels(cfg) : Match(relay, old[r], l)
    BY <2>1 DEF Progress
  <2> QED
    BY <2>1, <2>2, <2>3, <2>4, <2>5 DEF Progress, Idle
<1>11. ASSUME NEW r \in Reloader, Return(r) PROVE Progress'
  <2>1. Progress /\ Alone /\ UNCHANGED <<relay, cfg>> /\ rpc[r] = "apply" /\ todo[r] = {}
    BY <1>11, <1>b DEF Return
  <2>2. \A s \in Reloader : rpc'[s] = "idle"
    BY <1>11, <2>1 DEF Return, Leave, Goto, TypeOK, Alone
  <2> QED
    BY <2>1, <2>2 DEF Progress, Idle
<1>12. ASSUME NEW r \in Reloader, NEW l \in Label, StopRemoved(r, l) PROVE Progress'
  <2>1. Progress /\ Alone /\ OneEach /\ cfg' = cfg /\ rpc[r] = "stop" /\ l \in todo[r]
    BY <1>12, <1>b DEF StopRemoved
  <2>2. Up(l) /\ Replace(l, Absent) /\ Visited(r, l)
    BY <1>0, <1>12, <2>1, CalmStop
  <2>3. l \notin Labels(cfg)
    BY <2>1 DEF Alone, Removed
  <2>4. ASSUME NEW m \in Labels(cfg) PROVE Match(relay', old[r], m)
    <3>1. m \in Label \ {l}
      BY <2>3 DEF Labels
    <3>2. \A k \in Slot : /\ relay'[k].label = m <=> relay[k].label = m
                          /\ relay[k].label = m => relay'[k] = relay[k]
      BY <1>0, <2>1, <2>2, <3>1, ReplaceOthers
    <3>3. Match(relay, old[r], m)
      BY <2>1 DEF Progress
    <3> QED
      BY <3>2, <3>3 DEF Match
  <2>5. rpc' = rpc /\ old' = old /\ \A s \in Reloader \ {r} : rpc[s] = "idle"
    BY <2>1, <2>2 DEF Visited, Alone
  <2> QED
    BY <2>1, <2>4, <2>5 DEF Progress, Idle, Labels
<1>13. ASSUME NEW r \in Reloader, NEW l \in Label, Apply(r, l) PROVE Progress'
  <2>1. Progress /\ Alone /\ OneEach /\ rpc[r] = "apply" /\ l \in todo[r]
    BY <1>13, <1>b DEF Apply
  <2>2. /\ Up(l) /\ Visited(r, l) /\ cfg' = cfg
        /\ \/ /\ UNCHANGED <<relay, relayM>> /\ relayM[l] # NoRelay
              /\ ~(old[r][l] # Absent /\ Different(old[r][l], cfg[l]))
           \/ Replace(l, cfg[l])
    <3>1. l \in Labels(cfg) /\ ~NewRelayFails(cfg[l])
      BY <1>13, <1>b, <2>1 DEF Apply, Alone, Sound, NewRelayFails
    <3> QED
      BY <1>0, <1>13, <1>b, <2>1, <3>1, CalmApply DEF Apply
  <2>3. l \in Labels(cfg) /\ cfg[l] # Absent /\ cfg[l] \in Configs \cup {Absent}
    <3>1. cfg \in RelayConfigs
      BY DEF TypeOK
    <3> QED
      BY <2>1, <3>1, Constants DEF Alone, Labels
  <2>4. Match(relay', cfg, l)
    <3>1. CASE UNCHANGED <<relay, relayM>> /\ relayM[l] # NoRelay
               /\ ~(old[r][l] # Absent /\ Different(old[r][l], cfg[l]))
      <4>1. Match(relay, old[r], l)
        BY <2>1 DEF Progress
      <4>2. Match(relay, cfg, l)
        BY <1>0, <2>3, <3>1, <4>1, Unchanged
      <4> QED
        BY <3>1, <4>2
    <3>2. CASE Replace(l, cfg[l])
      BY <2>3, <3>2, ReplaceMatches
    <3> QED
      BY <2>2, <3>1, <3>2
  <2>5. ASSUME NEW m \in Label \ {l}, NEW f, Match(relay, f, m) PROVE Match(relay', f, m)
    <3>1. \A k \in Slot : /\ relay'[k].label = m <=> relay[k].label = m
                          /\ relay[k].label = m => relay'[k] = relay[k]
      <4>1. CASE Replace(l, cfg[l])
        BY <1>0, <2>1, <2>2, <2>3, <4>1, ReplaceOthers
      <4> QED
        BY <2>2, <4>1
    <3> QED
      BY <2>5, <3>1 DEF Match
  <2>6. /\ rpc' = rpc /\ old' = old /\ todo'[r] = todo[r] \ {l} /\ todo[r] \subseteq Label
        /\ \A s \in Reloader \ {r} : rpc[s] = "idle"
    BY <2>1, <2>2 DEF Visited, Alone, TypeOK
  <2>7. \A m \in todo'[r] : Match(relay', old[r], m)
    BY <2>1, <2>5, <2>6 DEF Progress
  <2>8. \A m \in Label \ todo'[r] : Match(relay', cfg, m)
    BY <2>1, <2>4, <2>5, <2>6 DEF Progress
  <2> QED
    BY <2>1, <2>2, <2>6, <2>7, <2>8 DEF Progress, Idle
<1> QED
  BY <1>1, <1>2, <1>3, <1>4, <1>5, <1>6, <1>7, <1>8, <1>9, <1>10, <1>11, <1>12, <1>13
     DEF Next, Reload, startOneRelay

\* When every reload has returned, Progress is AppliedWhenCalm.
LEMMA ProgressApplied == TypeOK /\ CalmInv /\ ProgressInv => AppliedWhenCalm
<1> SUFFICES ASSUME TypeOK, CalmInv, ProgressInv, calm, ~failed, Quiet PROVE Serves(cfg)
  BY DEF AppliedWhenCalm
<1>1. RelaysOK /\ OneEach /\ Settled /\ NoRelay \notin Slot
  BY Constants DEF CalmInv, Quiet
<1>2. ASSUME NEW l \in Label, NEW k \in Slot, relay[k].label = l
      PROVE  relay[k].state = "listening" /\ relayM[l] = k
  BY <1>1, <1>2, FreeRecord DEF RelaysOK, OneEach, Settled, Used
<1>3. \A l \in Label : Match(relay, cfg, l)
  BY DEF ProgressInv, Progress, Quiet
<1>4. ASSUME NEW l \in Label, cfg[l] = Absent
      PROVE  relayM[l] = NoRelay /\ \A i \in Slot : relay[i].label # l
  <2>1. \A i \in Slot : relay[i].label # l
    BY <1>3, <1>4 DEF Match
  <2>2. relayM[l] \in Slot \cup {NoRelay}
    BY DEF TypeOK
  <2> QED
    BY <1>1, <2>1, <2>2 DEF RelaysOK
<1>5. ASSUME NEW l \in Label, cfg[l] # Absent
      PROVE  \E i \in Slot : /\ relayM[l] = i
                             /\ relay[i].state = "listening"
                             /\ Similar(relay[i].cfg, cfg[l])
                             /\ \A j \in Slot : relay[j].label = l => j = i
  <2>1. PICK i \in Slot : relay[i].label = l /\ Similar(relay[i].cfg, cfg[l])
    BY <1>3, <1>5 DEF Match
  <2> QED
    BY <1>2, <2>1
<1> QED
  BY <1>4, <1>5 DEF Serves

\* Whenever no Reload runs and every relay listens, after any number of calm
\* reloads none of which failed to load the file, exactly the relays of the
\* configuration in force are registered and listening, each with the
\* configuration the file gives it or one that differs in its options only.
THEOREM Applied == Spec => []AppliedWhenCalm
<1>1. Init => TypeOK /\ CalmInv /\ SoundInv /\ ProgressInv
  BY TypeInit, RelaysInit, CalmInit, SoundInit, ProgressInit DEF CalmInv, ProgressInv
<1>2. TypeOK /\ CalmInv /\ SoundInv /\ ProgressInv /\ [Next]_vars
        => (TypeOK /\ CalmInv /\ SoundInv /\ ProgressInv)'
  BY TypeNext, RelaysNext, CalmNext, SoundNext, ProgressNext DEF CalmInv
<1> QED
  BY <1>1, <1>2, ProgressApplied, PTL DEF Spec
=============================================================================
