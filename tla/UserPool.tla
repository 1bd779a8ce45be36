------------------------------ MODULE UserPool ------------------------------
(***************************************************************************)
(* The xray users and their traffic: UserPool and User (pkg/xray/user.go), *)
(* meteredOutbound.Dispatch (outbound.go) and connTracker                  *)
(* (conn_tracker.go) with the kill requests of the admin API.              *)
(*                                                                         *)
(* One goroutine syncs: for every proxy tag it fetches the users from the  *)
(* control plane and brings the pool and the tag's inbound in line with    *)
(* them, then it collects the users' traffic and posts it.  Meanwhile the  *)
(* inbounds let users in, and every connection runs Dispatch, which looks  *)
(* its User up once and meters on that object until it ends.  A User that  *)
(* is removed and comes back is another object.                            *)
(*                                                                         *)
(* An account is a user's method, password and flow (key) and its enable   *)
(* flag.  Source addresses and bandwidth samples are left out.             *)
(***************************************************************************)
EXTENDS Naturals, FiniteSets, Sequences

CONSTANTS
    Id,               \* the user ids
    Key,              \* methods, passwords and flows
    BadKey,           \* the ones toMemoryUser cannot make an account of
    Accounts,         \* the accounts the control plane gives out
    Start,            \* its users when the pool starts
    proxyTags,        \* the tags of the proxy inbounds, in order
    Conn,             \* the connections that Dispatch serves
    MaxEdits,         \* bound: changes the control plane makes to its users
    MaxUsers,         \* bound: User objects made
    MaxTraffic        \* bound: units metered on one User

NoKey == 0            \* not on the inbound
NoAccount == [key |-> NoKey, enable |-> FALSE]

ASSUME UserPoolAssumption ==
    /\ NoKey \notin Key
    /\ BadKey \subseteq Key
    /\ Accounts \subseteq [key : Key, enable : BOOLEAN]
    /\ Start \in [Id -> Accounts \cup {NoAccount}]
    /\ proxyTags \in Seq(STRING) /\ proxyTags # <<>>
    /\ {MaxEdits, MaxUsers, MaxTraffic} \subseteq Nat

User == 1 .. MaxUsers            \* the User objects, in the order they are made
NoUser == 0
Tag == {proxyTags[i] : i \in 1 .. Len(proxyTags)}
Way == {"up", "down"}
Zero == [w \in Way |-> 0]

VARIABLES
    \* the control plane
    server,           \* server[i]: the account of user i, NoAccount if it has none
    edits,
    \* the sync goroutine
    spc,              \* where it is
    tagNo,            \* the tag it syncs, as an index of proxyTags
    resp,             \* the users of the last response
    todo,             \* the ids it still has to look at
    \* UserPool.users and the inbounds
    pool,             \* pool[i]: the User of id i
    account,          \* account[u]: its Method, Password, Flow and Enable
    running,          \* the Users whose running flag is set
    inbound,          \* inbound[t][i]: the key tag t lets user i in with
    stray,            \* history: the <<t, i>> with user i still on inbound t when
                      \* it was removed by way of another tag
    \* the counters of a User, and what of them went into requests
    traffic,          \* traffic[u]: UploadTraffic and DownloadTraffic
    total,            \* total[u]: UploadTotal and DownloadTotal
    drained,          \* drained[u]: what the requests said of u, in all
    \* Dispatch and the tracker
    dpc,              \* dpc[c]: where Dispatch is
    who,              \* who[c]: the user id of its inbound session
    user,             \* user[c]: the User it meters on
    copiers,          \* copiers[c]: the directions still copied
    canceled,         \* the connections whose dialCtx is cancelled
    rawOpen,          \* the connections whose rawConn is open
    entries,          \* connTracker.entries; byUser groups them by user
    victims           \* the ones a kill request has found and not yet killed

controlPlane == <<server, edits>>
sync == <<spc, tagNo, resp, todo>>
access == <<pool, account, running, inbound, stray>>
counters == <<traffic, total, drained>>
dispatch == <<dpc, who, user, copiers>>
tracked == <<canceled, rawOpen, entries, victims>>
vars == <<controlPlane, sync, access, counters, dispatch, tracked>>

\* NewUserPool, and Start's first sync, which does not wait for a tick.
Init ==
    /\ server = Start
    /\ edits = 0
    /\ spc = "get"
    /\ tagNo = 1
    /\ resp = [i \in Id |-> NoAccount]
    /\ todo = {}
    /\ pool = [i \in Id |-> NoUser]
    /\ account = [u \in User |-> NoAccount]
    /\ running = {}
    /\ inbound = [t \in Tag |-> [i \in Id |-> NoKey]]
    /\ stray = {}
    /\ traffic = [u \in User |-> Zero]
    /\ total = [u \in User |-> Zero]
    /\ drained = [u \in User |-> Zero]
    /\ dpc = [c \in Conn |-> "idle"]
    /\ who = [c \in Conn |-> "none"]
    /\ user = [c \in Conn |-> NoUser]
    /\ copiers = [c \in Conn |-> {}]
    /\ canceled = {}
    /\ rawOpen = {}
    /\ entries = {}
    /\ victims = {}

Known == {i \in Id : pool[i] # NoUser}

\* syncOnce returns, and its local variables with it.
syncOnceReturns ==
    /\ spc' = "select"
    /\ tagNo' = 1
    /\ resp' = [i \in Id |-> NoAccount]
    /\ todo' = {}

\* The control plane adds, changes or removes a user.
Edit(i, a) ==
    /\ edits < MaxEdits
    /\ a # server[i]
    /\ edits' = edits + 1
    /\ server' = [server EXCEPT ![i] = a]
    /\ UNCHANGED <<sync, access, counters, dispatch, tracked>>

-----------------------------------------------------------------------------
(* The sync loop. *)

Tick ==
    /\ spc = "select"
    /\ spc' = "get"
    /\ UNCHANGED <<controlPlane, tagNo, resp, todo, access, counters, dispatch, tracked>>

\* case <-ctx2.Done(), after Stop
Stop ==
    /\ spc = "select"
    /\ spc' = "stopped"
    /\ UNCHANGED <<controlPlane, tagNo, resp, todo, access, counters, dispatch, tracked>>

\* The response that a JSON body without users decodes to, such as that of an
\* error: no code looks at the status.
NoUsers == [i \in Id |-> NoAccount]

\* Bound: after such a response there are User objects enough to make all
\* users again.
CanMakeAgain ==
    Cardinality({u \in User : account[u] = NoAccount}) >= Cardinality(Id) + (MaxEdits - edits)

\* syncUserConfigsFromServer asks the control plane, once per tag.  An error
\* ends this round of syncOnce.
GetJSONWithRetry(ok) ==
    /\ spc = "get"
    /\ IF ok
       THEN /\ \/ resp' = server
               \/ resp' = NoUsers /\ CanMakeAgain
            /\ todo' = {i \in Id : resp'[i] # NoAccount}
            /\ spc' = "users"
            /\ UNCHANGED tagNo
       ELSE syncOnceReturns
    /\ UNCHANGED <<controlPlane, access, counters, dispatch, tracked>>

\* Mutant: a changed enable flag goes unnoticed.
EqualKey(a, b) == a.key = b.key

Equal(a, b) == a.key = b.key /\ a.enable = b.enable

\* GetUser, or CreateUser: the User of id i, or the next one to be made for it.
Finds(i, u) ==
    IF i \in Known
    THEN u = pool[i]
    ELSE account[u] = NoAccount /\ \A v \in User : v < u => account[v] # NoAccount

\* toMemoryUser returns nil.
toMemoryUserFails(a) == a.key \in BadKey

\* What an inbound that lets a user in with key k (or not) does so with after
\* AddUser of account a: a user it has already stays as it is, which counts as
\* success.
addInboundUser(a, k) == IF k = NoKey THEN a.key ELSE k

\* removeInboundUser knows one tag: what user i has on the inbounds of the
\* others stays there.
LeftBehind(i) ==
    (stray \cup {<<t, i>> : t \in {x \in Tag : inbound[x][i] # NoKey}})
        \ {<<proxyTags[tagNo], i>>}

\* One user of the response.  A new one gets a User; a changed one takes the
\* account over and leaves the inbound; then who is enabled and not running is
\* added to it.  An account that cannot be made ends this round.
SyncUser(i, u) ==
    LET tag == proxyTags[tagNo]
        changed == i \notin Known \/ ~Equal(account[u], resp[i])
        kept == u \in running /\ ~changed
        left == IF u \in running /\ changed THEN NoKey ELSE inbound[tag][i]
        acc == IF changed THEN resp[i] ELSE account[u]
        adds == acc.enable /\ ~kept
        fails == adds /\ toMemoryUserFails(acc)
    IN  /\ spc = "users"
        /\ i \in todo
        /\ Finds(i, u)
        /\ pool' = [pool EXCEPT ![i] = u]
        /\ account' = [account EXCEPT ![u] = acc]
        /\ running' = IF kept \/ (adds /\ ~fails) THEN running \cup {u} ELSE running \ {u}
        /\ inbound' = [inbound EXCEPT ![tag][i] =
                          IF adds /\ ~fails THEN addInboundUser(acc, left) ELSE left]
        /\ stray' = IF u \in running /\ changed THEN LeftBehind(i) ELSE stray
        /\ IF fails
           THEN syncOnceReturns
           ELSE todo' = todo \ {i} /\ UNCHANGED <<spc, tagNo, resp>>
        /\ UNCHANGED <<controlPlane, counters, dispatch, tracked>>

\* Mutant: users that the response does not have are not looked for.
UsersDoneKeep ==
    /\ spc = "users"
    /\ todo = {}
    /\ spc' = "gone"
    /\ UNCHANGED <<controlPlane, tagNo, resp, todo, access, counters, dispatch, tracked>>

\* Then the users the response does not have are looked for.
UsersDone ==
    /\ spc = "users"
    /\ todo = {}
    /\ todo' = {i \in Known : resp[i] = NoAccount}
    /\ spc' = "gone"
    /\ UNCHANGED <<controlPlane, tagNo, resp, access, counters, dispatch, tracked>>

\* Mutant: the user is dropped from the pool, and not from the inbound.
RemoveGoneFromPool(i) ==
    /\ spc = "gone"
    /\ i \in todo
    /\ pool' = [pool EXCEPT ![i] = NoUser]
    /\ running' = running \ {pool[i]}
    /\ todo' = todo \ {i}
    /\ UNCHANGED <<controlPlane, spc, tagNo, resp, account, inbound, stray, counters, dispatch, tracked>>

\* A user of the pool that the response does not have: removeInboundUser, to
\* which a user the inbound does not know is no error, and RemoveUser.
RemoveGone(i) ==
    /\ spc = "gone"
    /\ i \in todo
    /\ pool' = [pool EXCEPT ![i] = NoUser]
    /\ running' = running \ {pool[i]}
    /\ inbound' = [inbound EXCEPT ![proxyTags[tagNo]][i] = NoKey]
    /\ stray' = LeftBehind(i)
    /\ todo' = todo \ {i}
    /\ UNCHANGED <<controlPlane, spc, tagNo, resp, account, counters, dispatch, tracked>>

\* Mutant: one tag too many.
TagDonePast ==
    /\ spc = "gone"
    /\ todo = {}
    /\ IF tagNo <= Len(proxyTags)
       THEN spc' = "get" /\ tagNo' = tagNo + 1 /\ UNCHANGED todo
       ELSE spc' = "traffic" /\ todo' = Known /\ UNCHANGED tagNo
    /\ UNCHANGED <<controlPlane, resp, access, counters, dispatch, tracked>>

\* The next tag, or syncTrafficToServer.
TagDone ==
    /\ spc = "gone"
    /\ todo = {}
    /\ IF tagNo < Len(proxyTags)
       THEN spc' = "get" /\ tagNo' = tagNo + 1 /\ UNCHANGED todo
       ELSE spc' = "traffic" /\ todo' = Known /\ UNCHANGED tagNo
    /\ UNCHANGED <<controlPlane, resp, access, counters, dispatch, tracked>>

Plus(m, n) == [w \in Way |-> m[w] + n[w]]

\* Mutant: a user with traffic in one direction only is skipped, with its
\* counters reset.
snapshotAndResetEither(i) ==
    LET u == pool[i]
    IN  /\ spc = "traffic"
        /\ i \in todo
        /\ traffic' = [traffic EXCEPT ![u] = Zero]
        /\ drained' = IF 0 \in {traffic[u][w] : w \in Way}
                      THEN drained
                      ELSE [drained EXCEPT ![u] = Plus(@, traffic[u])]
        /\ todo' = todo \ {i}
        /\ UNCHANGED <<controlPlane, spc, tagNo, resp, access, total, dispatch, tracked>>

\* A User's counters are swapped with 0 and, unless both were 0, reported.
snapshotAndReset(i) ==
    LET u == pool[i]
    IN  /\ spc = "traffic"
        /\ i \in todo
        /\ traffic' = [traffic EXCEPT ![u] = Zero]
        /\ drained' = IF traffic[u] = Zero
                      THEN drained
                      ELSE [drained EXCEPT ![u] = Plus(@, traffic[u])]
        /\ todo' = todo \ {i}
        /\ UNCHANGED <<controlPlane, spc, tagNo, resp, access, total, dispatch, tracked>>

TrafficDone ==
    /\ spc = "traffic"
    /\ todo = {}
    /\ spc' = "post"
    /\ UNCHANGED <<controlPlane, tagNo, resp, todo, access, counters, dispatch, tracked>>

\* Whether the post succeeds or fails for good, the batch is forgotten.
PostJSONWithRetry ==
    /\ spc = "post"
    /\ syncOnceReturns
    /\ UNCHANGED <<controlPlane, access, counters, dispatch, tracked>>

-----------------------------------------------------------------------------
(* meteredOutbound.Dispatch of connection c. *)

Goto(c, s) == dpc' = [dpc EXCEPT ![c] = s]

\* Tag t has let user i in.
Dispatch(c, i, t) ==
    /\ dpc[c] = "idle"
    /\ inbound[t][i] # NoKey
    /\ who' = [who EXCEPT ![c] = i]
    /\ Goto(c, "dial")
    /\ UNCHANGED <<controlPlane, sync, access, counters, user, copiers, tracked>>

DialSystem(c, ok) ==
    /\ dpc[c] = "dial"
    /\ rawOpen' = IF ok THEN rawOpen \cup {c} ELSE rawOpen
    /\ Goto(c, IF ok THEN "register" ELSE "done")
    /\ who' = IF ok THEN who ELSE [who EXCEPT ![c] = "none"]
    /\ UNCHANGED <<controlPlane, sync, access, counters, user, copiers, canceled,
                   entries, victims>>

\* The User is looked up, the connection registered and the copiers started.
Register(c) ==
    /\ dpc[c] = "register"
    /\ user' = [user EXCEPT ![c] = pool[who[c]]]
    /\ entries' = entries \cup {c}
    /\ copiers' = [copiers EXCEPT ![c] = Way]
    /\ Goto(c, "copy")
    /\ UNCHANGED <<controlPlane, sync, access, counters, who, canceled, rawOpen, victims>>

\* AddUploadTraffic, AddDownloadTraffic: by a copier, which task.Run may have
\* left behind.  Without a User nothing is metered.  The two atomic adds are one
\* step: nothing here reads the total.
AddTraffic(c, w) ==
    LET u == user[c]
    IN  /\ w \in copiers[c]
        /\ u # NoUser
        /\ total[u]["up"] + total[u]["down"] < MaxTraffic
        /\ traffic' = [traffic EXCEPT ![u][w] = @ + 1]
        /\ total' = [total EXCEPT ![u][w] = @ + 1]
        /\ UNCHANGED <<controlPlane, sync, access, drained, dispatch, tracked>>

CopyEnds(c, w) ==
    /\ w \in copiers[c]
    /\ copiers' = [copiers EXCEPT ![c] = @ \ {w}]
    /\ UNCHANGED <<controlPlane, sync, access, counters, dpc, who, user, tracked>>

\* task.Run returns when both copiers are done, on the error of one, and when
\* dialCtx is cancelled; then come the deferred rawConn.Close, Unregister and
\* cancel.
Unregister(c) ==
    /\ dpc[c] = "copy"
    /\ copiers[c] # Way \/ c \in canceled
    /\ rawOpen' = rawOpen \ {c}
    /\ entries' = entries \ {c}
    /\ canceled' = canceled \cup {c}
    /\ who' = [who EXCEPT ![c] = "none"]
    /\ Goto(c, "done")
    /\ UNCHANGED <<controlPlane, sync, access, counters, user, copiers, victims>>

-----------------------------------------------------------------------------
(* The kill requests of the admin API: the entries are looked up under the *)
(* lock and killed after it is released.  Killing one again changes nothing *)
(* and is left out.                                                        *)

FindVictims(s) ==
    /\ ~(s \subseteq victims)
    /\ victims' = victims \cup s
    /\ UNCHANGED <<controlPlane, sync, access, counters, dispatch, canceled, rawOpen, entries>>

Kill(c) == FindVictims({c} \cap (entries \ canceled))
KillByUser(i) == FindVictims({c \in entries \ canceled : who[c] = i})

\* Mutant: the connection is closed by nobody.
killEntryNot(c) ==
    /\ c \in victims
    /\ victims' = victims \ {c}
    /\ UNCHANGED <<controlPlane, sync, access, counters, dispatch, canceled, rawOpen, entries>>

killEntry(c) ==
    /\ c \in victims
    /\ victims' = victims \ {c}
    /\ canceled' = canceled \cup {c}
    /\ rawOpen' = rawOpen \ {c}
    /\ UNCHANGED <<controlPlane, sync, access, counters, dispatch, entries>>

-----------------------------------------------------------------------------
Work ==
    \/ \E i \in Id, u \in User : SyncUser(i, u)
    \/ \E i \in Id : RemoveGone(i) \/ snapshotAndReset(i)
    \/ UsersDone \/ TagDone \/ TrafficDone

Finish(c) == c \in canceled /\ Unregister(c)

Next ==
    \/ \E i \in Id, a \in Accounts \cup {NoAccount} : Edit(i, a)
    \/ Tick
    \/ Stop
    \/ \E ok \in BOOLEAN : GetJSONWithRetry(ok)
    \/ Work
    \/ PostJSONWithRetry
    \/ \E c \in Conn :
          \/ \E i \in Id, t \in Tag : Dispatch(c, i, t)
          \/ \E ok \in BOOLEAN : DialSystem(c, ok)
          \/ Register(c)
          \/ \E w \in Way : AddTraffic(c, w) \/ CopyEnds(c, w)
          \/ Unregister(c)
          \/ Kill(c)
          \/ killEntry(c)
    \/ \E i \in Id : KillByUser(i)

Spec == Init /\ [][Next]_vars

\* The sync goroutine, the handlers of kill requests and a Dispatch whose
\* context is cancelled are scheduled, and the ticker fires.  Nothing is asked
\* of the control plane, of the network or of the users.
Fairness ==
    /\ WF_vars(Tick)
    /\ WF_vars(Work)
    /\ \A c \in Conn : WF_vars(killEntry(c)) /\ WF_vars(Finish(c))

FairSpec == Spec /\ Fairness
-----------------------------------------------------------------------------
TypeOK ==
    /\ server \in [Id -> Accounts \cup {NoAccount}]
    /\ edits \in 0 .. MaxEdits
    /\ spc \in {"select", "get", "users", "gone", "traffic", "post", "stopped"}
    /\ tagNo \in 1 .. Len(proxyTags)
    /\ resp \in [Id -> Accounts \cup {NoAccount}]
    /\ todo \in SUBSET Id
    /\ pool \in [Id -> User \cup {NoUser}]
    /\ account \in [User -> Accounts \cup {NoAccount}]
    /\ running \in SUBSET User
    /\ inbound \in [Tag -> [Id -> Key \cup {NoKey}]]
    /\ stray \in SUBSET (Tag \X Id)
    /\ traffic \in [User -> [Way -> Nat]]
    /\ total \in [User -> [Way -> Nat]]
    /\ drained \in [User -> [Way -> Nat]]
    /\ dpc \in [Conn -> {"idle", "dial", "register", "copy", "done"}]
    /\ who \in [Conn -> Id \cup {"none"}]
    /\ user \in [Conn -> User \cup {NoUser}]
    /\ copiers \in [Conn -> SUBSET Way]
    /\ canceled \in SUBSET Conn
    /\ rawOpen \in SUBSET Conn
    /\ entries \in SUBSET Conn
    /\ victims \in SUBSET Conn

\* No inbound has been left with user i on it.
Clean(i) == \A t \in Tag : <<t, i>> \notin stray

\* One tag lets user i of account a in, with its present key, if it is enabled.
\* One tag only: the User has a single running flag, so the tag that is synced
\* first adds it, and the others then find it running.
LetsIn(i, a) ==
    IF a.enable
    THEN \E t \in Tag : \A x \in Tag : inbound[x][i] = IF x = t THEN a.key ELSE NoKey
    ELSE \A x \in Tag : inbound[x][i] = NoKey

\* Whatever earlier rounds failed half way, when a round comes to the traffic
\* it has brought the users in line with the last response, except those that
\* were left on the inbound of another tag.  With one tag this is what
\* user.go:469 calls "all tags are reconciled"; with several, an enabled user is
\* let in by one of them.
RoundReconciles ==
    spc \in {"traffic", "post"} => \A i \in Id : Clean(i) => LetsIn(i, resp[i])

\* Whoever an inbound lets in has a User in the pool, so that Dispatch finds one
\* to meter on unless the user was removed after it was let in, or by way of
\* another tag.
AccessIsMetered ==
    \A t \in Tag, i \in Id : inbound[t][i] # NoKey /\ <<t, i>> \notin stray => i \in Known

\* No unit is lost or reported twice between the copiers and the sync loop: what
\* a User ever counted is in its resettable counters or went into a request.
TrafficConserved ==
    \A u \in User : total[u] = Plus(traffic[u], drained[u])

\* A kill request takes effect: its connection is closed and leaves the tracker.
KillTakesEffect ==
    \A c \in Conn : c \in victims ~> (c \notin rawOpen /\ c \notin entries)

\* The control plane answers for every tag of a round again and again, in the
\* end with its users only, and posts return.
Answers ==
    /\ []<>(spc = "users" /\ tagNo = Len(proxyTags))
    /\ <>[](spc = "users" => resp = server)

\* As long as the control plane answers and ends up with accounts that can be
\* made, every change it makes reaches an inbound, but for users left on the
\* inbound of another tag, and the traffic of a user is reported, unless the user
\* is removed first: what its User counted since the last report goes with it.
EventuallyReconciled ==
    Answers /\ <>[](\A i \in Id : server[i].key \notin BadKey) =>
        /\ <>[](\A i \in Id : Clean(i) => LetsIn(i, server[i]))
        /\ \A u \in User :
              traffic[u] # Zero ~> (traffic[u] = Zero \/ \A i \in Id : pool[i] # u)
=============================================================================
