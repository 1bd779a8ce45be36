# A verification project for ehco

ehco is a relay: it accepts TCP, UDP and WebSocket connections on listen
addresses, dials a remote for each, copies bytes both ways, counts the traffic
and reports it to a control plane, and reloads its configuration while it runs.
This directory holds TLA+ models of the parts where goroutines share state, the
TLC configurations that check them on small instances, and TLAPS proofs of their
main invariants for every size.

Paths below are relative to the repository. `tlc -config X.cfg M` checks a run,
`tlapm M.tla` a proof module; `PROJECT.json` maps each definition to its lines.

## 1. Inventory

| Component | Source | State | Operations | Hard part | What makes it correct |
|---|---|---|---|---|---|
| Relay connection | `internal/conn/relay_conn.go` | two `innerConn`s with `lastActive`, `Stats`, `errCH` | `Transport`, `copyConn`, `Read`, `Write`, `CloseWrite`, `Close` | two copiers share counters without a lock; idle timeout against late data; peers that vanish or stall | ordered, gap-free, independent directions; no over-reporting; `Transport` returns |
| UDP sessions | `internal/conn/udp_listener.go`, `internal/transporter/raw.go` | session map, one channel per session, `connsMu` | `listen`, `Accept`, `uc.Read`, `uc.Close`, `Close` | a blocking send under the lock; lookup and send are not atomic | the map is exact; packets are not crossed or reordered; `Close` completes |
| Relay handlers | `internal/transporter/base.go`, `raw.go`, `ws.go` | one handler per connection, Prometheus gauge | limit, sniff, dial, add, transport, remove | many ways out, each with its own clean-up | the gauge is balanced, nothing leaks |
| Connection manager | `internal/cmgr/cmgr.go`, `syncer.go`, `pkg/http/http.go` | active and closed maps, tick | `AddConnection`, `RemoveConnection`, `CountConnection`, `Start`, `pushStats` | a drain that races handlers, posts that are retried | every connection reported once, with its final traffic |
| Relay server, reload | `internal/relay/server.go`, `server_reloader.go`, `relay.go`, `internal/config/config.go` | `relayM`, `RelayConfigs`, `lastLoadTime`, `reloadCH` | `Start`, `Reload`, `LoadConfig`, `startOneRelay`, `stopOneRelay` | two unlocked reloaders and a goroutine per starting relay | the process survives; the relays of the file run |
| WebSocket connection, buffer pool, sniffing | `internal/conn/ws_conn.go`, `pkg/buffer`, `internal/transporter/base.go`, `sniff.go` | a buffer per connection and per direction, the pool's channel, peeked bytes | `Read`, `Write`, `Close`, `Get`, `Put`, `sniffAndBlockProtocol` | a deadline in the middle of a frame; a connection closed twice; a frame larger than a buffer | a buffer has one owner; each direction carries its own peer's frames, whole and in order |
| xray users, traffic, tracker | `pkg/xray/user.go`, `outbound.go`, `conn_tracker.go`, `admin_api.go` | user map, counters, inbound accounts, tracked connections | sync of users, metering, upload of traffic, kill | users removed while traffic is counted; a round that fails half way; a kill against the end of a connection | inbounds let in who the control plane says; traffic uploaded at most once; kills take effect |
| xray server | `pkg/xray/server.go`, `conn_tracker.go` | `cfg`, instance, pool, tracker | `Setup`, `Start`, `Stop`, `Reload`, watcher | a configuration that another component rereads; parts of two generations alive at once | the file's listeners are in force; pool and instance belong together |
| Metrics store | `internal/cmgr/ms` | sqlite rows, cached counts | insert, query, maintenance | cached count against concurrent deletes | the cache is best-effort, by its own comment |
| Updater | `internal/updater`, `internal/web/handler_update.go`, `internal/cli/update.go` | the binary, the `.new` file, the running service | pick, decide, download, `chmod`, rename, restart | updates of two processes on one file; a crash or failure between any two steps; a tag that moves | the binary is one whole build; no downgrade; the update takes effect |
| Log fan-out | `pkg/log/ws.go`, `internal/web/handlers_ws.go` | the subscribers, `mu` | `Write`, `AddConn`, `RemoveConn`, the stream's handler | writes without a deadline under the lock; a stream closed from two sides | no write to a detached stream; only a stalled subscriber holds a logger up |
| Web server, sessions | `internal/web` | session map with sliding expiry | login, logout, `checkRequest`, access log; reload, kill, update | logins, logouts, expiry and reloads of the credentials interleave; every request logs to the streams | exactly live sessions are admitted |
| Load balancer | `internal/lb` | atomic counter | `Next` | overflow only | |
| TLS, rate limits, CLI, health check, node sampler, web UI | see `PROJECT.json` | none or read-only | | | |

How they interact. The CLI starts the relay server, the web server and, if
configured, xray. The relay server owns one relay per label; a relay's
transporter accepts connections and runs a handler for each, which dials
through the transport client, wraps both ends in a relay connection, and
registers it with the one connection manager all relays share. The manager's
goroutine drains finished connections every few samples and posts them. The
web API and a ticker or SIGHUP call `Reload`, which mutates the shared
configuration and starts and stops relays. Every request of the web API is
logged when it is over, and every log line of the process goes to the
WebSockets that stream the log. The dashboard's update replaces the binary and
has systemd restart the process. `PROJECT.json` lists the hazards at
their lines, with the properties that cover them.

## 2. Modules

| Module | Models | Role |
|---|---|---|
| `DuplexPipe` | nothing: the promise | abstract specification of a relayed connection |
| `RelayConn` | `relay_conn.go` | implements `DuplexPipe` |
| `RelayConnProofs` | | its proofs |
| `Cmgr` | `cmgr.go`, `syncer.go`, `PostJSONWithRetry` | operations used by `RelayHandler`; no specification of its own |
| `RelayHandler` | `base.go` and the accept paths of `raw.go`, `ws.go` | extends `Cmgr`: the composition |
| `MCRelayHandler`, `RelayHandlerProofs` | | instance, proofs |
| `UDPListener` | `udp_listener.go`, `listenUDP` of `raw.go` | |
| `BufferPool` | `pkg/buffer/buffer.go` | operations used by `WsRelay` |
| `WsRelay` | `ws_conn.go`, the sniffing of `base.go` and `sniff.go`, `copyConn` and `Close` as they use buffers | extends `BufferPool`: the composition |
| `MCWsRelay` | | two relays and the frames of their peers |
| `DeliveryProofs` | | extends `UDPListener` and `WsRelay`: the proofs of both |
| `RelayReload` | `server.go`, `server_reloader.go`, `config.go`, `conf/cfg.go` | |
| `MCRelayReload`, `RelayReloadProofs` | | the configuration files of the runs, proofs |
| `UserPool` | `user.go`, `Dispatch` of `outbound.go`, `conn_tracker.go`, the kill requests of `admin_api.go` | |
| `MCUserPool`, `UserPoolProofs` | | tags and accounts of the runs, proofs |
| `XrayServer` | `server.go` of `pkg/xray`, `LoadConfig` of the shared `Config`, `UserPool.Start` and `Stop` from outside | |
| `MCXrayServer`, `XrayServerProofs` | | the files of the runs, proofs |
| `Updater` | `updater.go`, `handler_update.go`, `cli/update.go` | |
| `MCUpdater`, `UpdaterProofs` | | requests and releases of the run, proofs |
| `LogFanout` | `pkg/log/ws.go` | operations used by `WebServer` |
| `WebServer` | `auth.go`, `handlers_ws.go`, the access log of `mw.go` | extends `LogFanout`: the composition |
| `WebServerProofs` | | its proofs |

### RelayConn

A direction is named after the side it reads; `pc[d]` is the goroutine's place
in `io.CopyBuffer`, `innerConn.Read`, `innerConn.Write` and the tail of
`copyConn`. `Stats.Record` is a plain `+=` called by both goroutines, so it is a
load and a store (`LoadUp`, `StoreUp`, ...): its value is nondeterministic in
just the way that interleaved machine code makes it. `ReadTimeout` and
`IdleCheck` are two steps, since data may arrive and the other copier may
refresh `lastActive` between them. `CloseWrite` does nothing unless the
connection is a `*net.TCPConn`. Both `CloseRead` calls happen after the two
copies have ended and have no observable effect; they are in `RecvErr`.

Data are numbered chunks, one per `Read`. The model takes it that a `Read` that
times out consumed nothing. This is so of TCP, but not of a `wsConn` interrupted
within a frame, which is what `WsRelay` is about. The peers are those of streams:
a UDP relay is not covered, as the `Read` of its `uc` reports `io.EOF` when the
session has idled, with the other end still there (`udp_listener.go:36`).

`DuplexPipe` says what is promised: per direction, chunks in order and without
gaps, then "eof", only if all were handed over, or "cut"; nothing after the
end; the connections are released after both directions ended. The refinement
mapping reads `end[d]` off `io.CopyBuffer`'s result.

### Cmgr and RelayHandler

A map of the manager is the number of occurrences of each connection: a
connection has one label, and nobody looks at the order of a list. A request is
a sum per label; the model keeps the summands, `drained` and `reported`, to say
which connections it counted. `Start`'s loop, `pushStats` (the part under the
lock) and each attempt of `PostJSONWithRetry` are separate steps. `tick` is kept
modulo `syncEvery`, which is all the code uses of it.

`stage[c]` walks through `RelayTCPConn`, or `RelayUDPConn`, which skips the two
checks, and `handleRelayConn`. `Leave` stands for the deferred calls of one
return: `rc.Close`, the gauge and, in `RawServer`'s TCP loop only, `c.Close`.
`Transfer` and `CopyEnds` are `RelayConn` seen from outside.

### UDPListener

`lpc` is `listen`, with the lookup under the read lock (`ReadFromUDP`), the
creation that holds `connsMu` across the send on the unbuffered `connCh`
(`Create`, `Accept`), and the send to the session's channel after the unlock
(`Send`). `uc.Close` is two steps: delete under the lock, close the channel.
`Send` to a closed channel is a panic, and the process stops.

### BufferPool and WsRelay

The specification is `WsSpec`, with `WsInit`, `WsNext` and `WsTypeOK`, so that
`DeliveryProofs` can extend this module together with `UDPListener`.

A stream of a WebSocket side is a sequence of headers and payloads. `wsConn.Read`
is `ReadHeader`, `ReadPayload` into the connection's own buffer, and `CopyOut` to
the caller's; it keeps nothing between calls, so `Deadline` between the first two
loses the header, and the retry of `innerConn.Read` takes payload for a header.
What comes of that depends on the bytes and is any outcome (`NoHeader`). `Read`
looks at no opcode: control frames are frames. `Sniff` is the one `Read` of
`sniffAndBlockProtocol` under its timeout, with each way it can end; a frame
larger than its 4 KB has been consumed when `Read` refuses it, and is gone
(`skipped`). Whether the protocol is one of those blocked is a choice.
The remote may send as soon as it has answered the handshake. `HandshakeReads` is
what the dialer's `bufio.Reader` takes of that together with the response, and
`WsClient.HandShake` drops: whole small frames (`swallowed`), or a part of one,
which breaks the stream.

Buffers are numbered. `copyConn` takes two and gives them back when both
directions have ended; a `wsConn` takes one when it is made and gives it back in
every `Close`. `Transport` closes both ends and `RelayTCPConn` the remote end
once more, so a remote `wsConn` puts its buffer twice (`CloseRemoteAgain`). The
pool then hands it to two connections. These are hazards of the code, and both
properties name them as exceptions by history variables, `doubled` for the
buffers and `broken` for the directions. What `OwnFramesInOrder` says is that
nothing else breaks a stream, and that no frame is missing but the ones at its
start that sniffing or the handshake dropped. A refused connection is closed by nobody and keeps its buffer.

### RelayReload

`rpc[r]` is `Reload` in goroutine `r`. It copies the old configurations
(`Begin`), loads (`LoadConfig`, `ReadConfig`, `ReadError`), lists the new labels
(`ListLabels`), stops relays that are gone (`StopRemoved`), and starts or
replaces the others (`Range`, `Apply`). All of it runs without a lock, and the
sequence is split where another goroutine can see or change shared state. A
relay goes from `made` to `stored` (in `relayM`) to `listening`; a bind error
makes `Start` return, which ends the process. Closing a `RawServer` that does
not listen yet dereferences nil: in the watcher's goroutine this ends the
process, in a web request `net/http` recovers it and the reload is abandoned.
Any other error of `ListenAndServe` ends the process as well ("listen").

A configuration has an address, its options (0 for none) and the rest, its types
and remotes. A load that fails leaves in force what it had come to (`ReadError`):
nothing; a file with a value of the wrong type, decoded otherwise and not adjusted
at all; or one that `Validate` rejects, adjusted up to the relay that is rejected.
The next `Reload` clones that, and `Options.Clone` panics on a relay without
options (`ClonePanics`); if it survives, `NewRelay` may return an error, which
leaves the label without a relay, or panic on the `ListenType`. An error answer of
the HTTP server that is JSON counts as an empty configuration and not as an error
(`ReadErrorAnswer`). Decoding and `Adjust` are one step; labels are given and
distinct, TLS is initialised where it is used, and a list of relays has no `null`.

`calm` is history: no reload began while another was running or while a relay
was still starting, and no relay was given an address that another one had, by
the file the process started with, by one it loaded, or by what a failed load
left behind.
Without it neither the process nor its relays can be vouched for, and the model
shows both ways of dying ("bind", "panic"). With it, `SurvivesCalmReloads` leaves
one panic only: on a rejected configuration that stays in force. `failed` is
history too: some load failed, or took an error answer for the configuration.

### UserPool

`spc` is the sync goroutine: `syncUserConfigsFromServer` for each proxy tag
("get", "users", "gone"), then `syncTrafficToServer` ("traffic", "post"). Each
user of the response, each user that is gone and each snapshot of counters is an
action, since `Dispatch` may look a user up or count between any two. A `User`
is an object, not an id: a user that is removed and comes back is another one,
with its own counters, while a connection keeps the one it looked up.

A `User` has one `running` flag, whatever the number of tags. So the tag that is
synced first adds an enabled user, the others find it running and skip it; and
when the user is changed or removed by way of one tag, what it has on the inbound
of another stays there. `stray` is history and holds these pairs of tag and user.
`RoundReconciles` says what a completed round does achieve: each enabled user is on
one inbound, with its present key, and everybody else on none, but for users with
something left behind; `AccessIsMetered` likewise.

`dpc[c]` is `Dispatch`: let in by an inbound, dial, register and look the `User`
up, copy, and the deferred clean-up. `task.Run` does not wait for the other
copier when one fails or the context is cancelled, so a copier may count after
`Dispatch` has returned (`AddTraffic` asks for nothing but the copier). The two
atomic additions of `AddUploadTraffic`, to the resettable counter and to the
total, are one step: nothing reads both. A kill
request finds its entries under the tracker's lock and kills them after it.

Outside the repository, and marked so: the inbound's `AddUser` and `RemoveUser`,
whose errors "already exists" and "not found" the code takes for success; the
accounts that `toMemoryUser` cannot make are `BadKey`. The control plane answers
with its users, with an error whose body has none (`NoUsers`: `GetJSONWithRetry`
looks at no status code, so every user is removed until the next good answer), or
not at all. The attempts of a post are one step here; `Cmgr`
has them one by one. Left out: source addresses, bandwidth samples, and the
`KillAll` of a server that stops, which is in `XrayServer`.

### XrayServer

A configuration is reduced to what `needReload` and `Setup` look at: whether
there is an `XRayConfig`, whether users are synced, and where each proxy tag
listens. `shared` is the `XRayConfig` of the `Config` that the process started
with; the relay server's `LoadConfig` resets it, reads, and decodes into it in
place. `needReload` reads it without a lock, so during decoding it sees any part
of the inbounds (`Seen`) or dereferences an inbound without an address
(`CheckPanics`; a file that gives a proxy inbound none would have the same effect
and is not among the files). A tag that a new file no longer has makes no
difference to `needReload`: "applied" speaks of the tags of the file. After the first reload `xs.cfg` is an object of its own
(`detached`).

Instances, pools, sync goroutines and watchers are numbered by the `Start` they
come from, and `wpc[w]` is watcher `w`, through `Stop` (`KillAll`, `killEntry`,
`CloseInstance`, `StopPool`), `Setup` and `Start` of `Reload`; number 0 is the
main goroutine with the first `Start`. A watcher ends when its reload has
launched the next one. `Setup` replaces `xs.up` only if the new file syncs, as in
the code. Closing an instance stops its listeners and not its connections
(external, as the code has its own `KillAll` for them). A load that fails leaves
the watcher where it is. The end of the process (`mainCtx`) and a file with
`reload_interval` 0, which has no watcher, are left out; the fallback server
shares nothing with the rest and goes with the instance.

### Updater

A job is a run of `Apply`: those in `CLI` are `ehco update`, each a process of its
own, the others goroutines of the service. `Launch` fixes the version that the
job compares with, which is that of its process. The steps are those of the code:
pick a release of the channel (`PickRelease`), look the tag's commit up and decide
(`Decide`), open the shared temporary path (`Download`), copy (`WritePart`,
`DownloadFails`), `Chmod`, `Rename`, `RestartSystemd`. Every failure removes the
temporary path, whoever made the file (`Abort`).

The file system is modelled by inode: `OpenTmp` truncates what is at the path,
and a descriptor stays with its file when the path is renamed. A job creates one
file at most, and that is called after the job. A nightly's tag is rolling, so
between `PickRelease`, `Decide` and `Download` it may come to name another build.
`ServiceCrash` and `CLICrash` kill a process at any step; systemd starts the
service again if what is on disk is a program (`Restart=always`, the unit that
`hack/get-ehco.sh` installs). `systemctl restart` may be missing, or fail: then
`Apply` ends with an error and the old build goes on running ("unrestarted").
`Check` only reads.

Two updates at once may leave a file that is neither build: `overlap` is history,
and the properties assume it away. The comparison is with the process's version
and not with the one on disk, so after an update without restart a second one may
install an older version; `NoStaleDowngrade` speaks of updates that replace the
very build they run.

### LogFanout and WebServer

A request is `pc[r]`, from the middleware through its handler to the access log,
whose line goes to the log streams. `lg[g]` is `WebSocketLogSyncher.Write` in the
goroutine of request `g`: lock, write to each subscriber, unlock, close the dead.
A write to a subscriber that does not read has no way to return; one to a
subscriber that is gone fails. The log streams are requests themselves: `Attach`,
a read that ends with the connection, a last log line if it ended with an error,
`Detach` and `CloseConn`, in the order of the deferred calls.

`validate`, `issue` and `revoke` are each one critical section and one step.
A session is judged by its history: when it was last used, and whether a logout
named it. `ConfigReload` is the relay server's `LoadConfig`, seen from here: it
rewrites the password and the token in the `Config` that the middleware reads at
every request. Handlers of the other API paths (`HandleApi`) do what the other
modules model.

## 3. Runs

| Run | Instance | Result |
|---|---|---|
| `relay_conn` | 2 chunks in all, `IdleTimeout` 1, the remote a TCP connection | `TypeOK`, `StatsNeverOvercount`, `ImplementsPipe`, `TransportReturns` hold |
| `relay_handler` | 2 connections, a raw and a ws relay, `SyncInterval` 15, one retry, traffic 0..1 | `TypeOK`, `AccountedOnce`, `ReportsHold`, `NoLeak`, `EventuallyReported` hold |
| `udp_listener` | 2 addresses, channels of capacity 1, 3 packets | `TypeOK`, `SessionsReachable`, `OwnPacketsInOrder`, `CloseCompletes` hold |
| `relay_reload` | 2 labels, 4 files (one rejected, one mistyped) read from a URL, one edit, one web reload, 2 relays alive at a time | `TypeOK`, `SurvivesCalmReloads`, `AppliedWhenCalm`, `EventuallyApplied` hold |
| `user_pool` | 2 users, 2 proxy tags, 3 accounts (one disabled, one that cannot be made), one edit, 3 `User` objects, 1 connection, 1 unit per `User` | `TypeOK`, `RoundReconciles`, `AccessIsMetered`, `TrafficConserved`, `KillTakesEffect`, `EventuallyReconciled` hold |
| `xray_server` | 4 files (a listener moved, an inbound added without sync, no xray), one edit, hence up to 3 instances, 1 connection | `TypeOK`, `OneInCharge`, `PoolServesInstance`, `StrandedOnlyIfLate`, `OldSyncersEnd`, `AppliedOnceDetached` hold |
| `xray_shared_config` | the same without connections | `ChangeNotMissed` violated: section 4 |
| `updater` | a dashboard update and `ehco update`, files of 2 parts, 2 histories of releases, one more published, one crash | `TypeOK`, `BinaryWhole`, `NoStaleDowngrade`, `UpdateTakesEffect` hold |
| `ws_relay` | a raw-to-WebSocket and a WebSocket-to-WebSocket relay, both sniffing, scripts of 1 or 2 frames, a pool of 4 | `WsTypeOK`, `BuffersExclusive`, `OwnFramesInOrder` hold |
| `web_server` | 2 requests at a time, one session that lives 1 tick of 2 | `TypeOK`, `NoWriteAfterDetach`, `AdmittedIffLive`, `LogReturns` hold |
| `stats_exact`, `reload_retry` | as `relay_conn`, `relay_reload` | violated: the findings of section 4 |

Bounds. Two chunks are enough to have both counters raced and to have one
direction carry two chunks or each direction one. One TCP side has both forms of
`CloseWrite`. `SyncInterval` 15 makes `syncEvery` 2, so a tick that does not
push and one that does; one retry gives a duplicate and a dropped request. Three
packets give two sessions of one address, one after the other, or two addresses
and a full channel. One edit with one web reload overlaps a ticker's reload with
another one; the files change remotes, add a relay, have types and options that
are rejected, a relay behind the rejected one without options, and a value of the
wrong type.
A `Slot` of `RelayReload` is reused; a reload that finds none free waits, which
limits how many unfinished starts can pile up (`MaxRelays`). One edit disables,
spoils, adds or removes a user, and an answer without users removes and brings
back one under a connection that still meters on the old object; an account that
cannot be made breaks a round half way. Two tags are what it takes for a user to
be skipped by one, or left behind on it, and an empty answer between the two moves
it from one to the other. Such an answer comes only while enough objects are left
to make the users again (`CanMakeAgain`), so that a new user always gets one. `MaxTraffic` is one unit since every
way of losing a unit or counting it twice is one for a single unit already; the
theorem has no such bound on the traffic. In `XrayServer` one edit gives two
reloads in a row, since a half decoded `Config` can cause one by itself;
`MaxGen` is then never short of an instance.

Two updates are one of each kind of process, overlapping or one after the other;
two parts make a half-written file, one crash and one publication hit every gap
between two steps. The releases have a nightly followed by a stable release of a
lower version, and a nightly whose next one is still a draft. The two relays use
seven buffers at once, so a pool of 4 is empty, full, and drops buffers; the
scripts have each size of frame first in a stream, and small and big ones second;
two small frames of the remote can both go with the handshake, one, or none.
A session of one tick expires, is used at its last moment and slides; two
requests are a logout against a use of the same session, or a stream and somebody
who logs to it. A second session adds nothing to one, as no operation looks at
two; the theorem has any number.

Deadlock checking is off in every run: connections end, servers stop, processes
die, and the bounds run out. What must not get stuck is stated as liveness.

Fairness. Weak fairness on the steps of goroutines that have no one to wait for,
on the passage of time and on tickers: the Go scheduler and the clock give that.
Nothing is asked of peers, of the network, of web clients or of the operator, so
the liveness properties name their exceptions:

- `TransportReturns`: unless a peer stops reading for ever (`Write` has no
  deadline);
- `EventuallyReported`: unless the server is stopped, or a post hangs for ever
  (the HTTP client has no timeout);
- `CloseCompletes` (that `Close` returns and `listen` stops): unless `listen` is
  stuck with `connsMu` on a session that nobody accepts, or has panicked. Both happen in the model, so the
  exceptions are hazards of the code and not of the formula;
- `EventuallyApplied`: if the run stays calm, no load fails and no listen error
  from outside ends the process;
- `EventuallyReconciled` (users and traffic): if the control plane keeps
  answering, posts return and the accounts it ends up with can be made. Traffic
  that a user's last `User` counted since the last report is lost when the user
  is removed, and the formula says so;
- `KillTakesEffect`: no exception;
- `OldSyncersEnd`: unless a round of the sync hangs or the process has panicked.
  Strong fairness, as `select` chooses at random between a tick and a cancelled
  context, and cannot choose the tick for ever;
- `AppliedOnceDetached`: if the watcher goes on loading and comparing, which a
  hanging load, a hanging first round or a failed reload prevents, and the xray
  server has its own `Config`; without the latter it is false (section 4);
- `UpdateTakesEffect`: unless the host has no systemd, `systemctl restart` fails
  (`updater.go:350`), the process that was about to restart the service is killed,
  or downloads overlapped. The steps of `Apply`
  are weakly fair as its context ends after five minutes, `ServiceStart` because of
  `Restart=always`;
- `LogReturns`: unless a subscriber does not read. The steps of requests are
  strongly fair, as they wait for a Go mutex, which starves nobody.

## 4. Findings

- **Lost updates of `Stats`** (`stats_exact`, `relay_conn.go:172`). Two copiers
  that finish a `Write` together lose one of the two updates, so traffic is
  under-reported; `relay_conn_test.go:47` asserts equality, with one goroutine.
  What does hold, and is proved: it is never over-reported.
- **A failed load empties the configuration** (`reload_retry`, `config.go:72`).
  `LoadConfig` clears `RelayConfigs` and advances `lastLoadTime` before it
  reads. The "retry in next loop" is skipped as too recent and stops every relay.
  If the load failed because a relay was rejected or a value was of the wrong type,
  the next reload may panic instead; `SurvivesCalmReloads` says that nothing else
  does.
- **A change the relay server sees first** (`xray_shared_config`,
  `pkg/xray/server.go:270`). The xray server compares the file with the `Config`
  that the relay server's reload has just reread, finds no difference, and never
  reloads. From its first reload on it has a `Config` of its own, and changes are
  applied.

Limits of the code that the models show and that no run states, as they are the
exceptions of properties that do hold, or documented:

- `MaxConnection` of a relay is compared with the active connections of the whole
  process (`base.go:88`), and the check and the increment are far apart;
- `Different` does not compare `Options` (`conf/cfg.go:153`,
  `server_reloader.go:62`), so a change of options alone is loaded and not applied;
  `AppliedWhenCalm` speaks of what `Different` compares;
- one `running` flag stands for a user at all proxy tags (`user.go:438`): with two
  tags a user is let in by one of them only, although the comment at `user.go:469`
  has "all tags" reconciled before traffic is pushed, and a user that was let in by
  the second tag and is removed by way of the first keeps its access to the second,
  unmetered. `RoundReconciles` and `AccessIsMetered` hold, and are proved, with
  these exceptions, for any number of tags; with one tag there are none;
- a remote that speaks first loses what it says to `HandShake` (`ws.go:65`);
- a configuration fetched by HTTP that is an error answer in JSON stops every relay
  (`config.go:98`, no look at the status);
- statistics whose posts all fail are dropped (`cmgr.go:232`, a TODO), and where
  the connection manager is not started the closed map only grows
  (`relay/server.go:84`);
- overlapping updates, a `wsConn` closed twice, a deadline inside a frame, a first
  frame too big to sniff, and a log subscriber that stalls: section 2.

## 5. Proofs

The theorems hold for all constants that satisfy the named assumptions
(`ConstantsAssumption`, `CmgrAssumption`, `HandlerAssumption`, `UDPAssumption`,
`PoolAssumption`, `WsAssumption`, `ReloadAssumption`, `UserPoolAssumption`,
`XrayAssumption`, `UpdaterAssumption`, `FanoutAssumption`, `WebAssumption`): any
number of connections, labels, addresses, chunks, packets, frames, buffers,
configuration files, reloads, retries, users, accounts, updates, parts of a file,
crashes and requests, any timeout, lifetime and capacity. Every invariant that a
passing run checks is a theorem.

- **`RelayConnProofs`**. `TypeCorrect`; `Invariance`, of `TypeOK` with three
  parts. `CopyInv`: what a copier has delivered is 1, 2, ..., and what it holds is
  the next chunk, at each `pc`. `JoinInv`: whose error is in `errCH` and when
  both copies are over. `CounterInv`: a counter, and each copy of it that a
  goroutine has loaded, leaves room below the true count for every update still
  under way; `StatsNeverOvercount` alone is not inductive, since a
  store adds to a register that says nothing about the present count.
  `NeverOvercount` follows, and `Refinement`, that `Spec => Pipe!Spec`, with one
  step per action: a step of the pipe, or a stutter.
- **`RelayHandlerProofs`**. `Accounted` and `Reported` from an invariant that
  adds what is in the request being posted and how often it was told; that a
  report is final needs that the copiers of a removed connection have ended.
  `Released` from `LeaveInv`, which adds which ends are open at
  which stage and that a running handler has a label and a type. The gauge is a
  cardinality, changed by one element at `Accept` and `Leave`.
- **`DeliveryProofs`, UDP sessions**. `TypeCorrect` (with the capacity of the
  channels) and `Reachable`, from an invariant that says what `listen` holds at
  each place (the lock, a new session that nobody else can close), that only that
  session is on offer and that every session made has an address. `InOrder` from
  `PacketInv` besides: between the lookup and the send `listen` holds the newest
  packet, and the session it is about to send it to has that packet's address, so
  whatever a session has read or has queued is older. The property alone says
  nothing of the packet on its way.
- **`DeliveryProofs`, WebSocket relays**. `WsTypeCorrect` needs `ProgressInv`,
  which buffers a relay has at which stage, since a step indexes the pool's
  buffers by the ones it holds. `Exclusivity` from `ExclusiveInv`: a buffer that
  was not put back twice is in the pool once, or with one connection or copier.
  `FramesInOrder` needs both and `FlowInv`, per direction: `QueueOK`, the stream
  holds the rest of what the peer sent, in whole frames from the next one on, or
  from the payload of the next one while its header is held; `DeliveredOK`, the
  delivered frames are the first ones after what sniffing or the handshake dropped
  (`FlowHandshake` is the step that moves that start), and the one
  that is peeked, in the connection's buffer or in the copier's is the next. A
  step of another relay writes to buffers it holds only, and that these are not
  the buffers of this direction is `ExclusiveInv`: that the streams are not mixed
  up rests on the discipline of the pool. Both exceptions (`broken`, `doubled`)
  only grow, except that a relay's own buffers are chosen when they are obtained,
  before anything is in them.
- **`RelayReloadProofs`**. `TypeCorrect`; `Survives` from `CalmInv`: `RelaysOK`,
  that `relayM` leads from a label to a registered relay of that label; and while
  the run is calm `OneEach`, that no two relays share a label or an address, that
  `relayM` knows every registered relay and that the configuration gives nobody
  another's address, and `Alone`, that one goroutine reloads, over relays that
  listen. From these no bind finds its address taken and no `stopOneRelay` meets a
  server without a listener. The property says none of this, and the relays that
  are still to be stopped or replaced must listen until it is their turn.
  `SoundInv` adds that options are missing or a type is unknown in the
  configuration in force only after a failed load, so that a panic of `Clone` or
  `NewRelay` finds `failed` and `Unusable(cfg)`.
  `Applied` from `ProgressInv`: which labels still have the relays of the old
  configuration and which have those of the new one, at each place of `Reload`.

- **`UserPoolProofs`**. `TypeCorrect`, which needs that a `Dispatch` that is on its
  way has a user id; `Conserved`, which is inductive with the types, for any
  number of tags. So do `Metered` and `Reconciled`, from `AccessInv`: `PoolInv`,
  that two ids never share a `User` and a `User` of the pool has an account;
  `InboundInv`, that a user with nothing left behind is on no inbound unless its
  `User` is running, and on exactly one then (`Own`), with the key of that `User`;
  `RoundInv`, which of the users of the response are in line already at each place
  of a round. `RoundReconciles` speaks of the end of a round only, so the induction
  needs the places before it.

- **`XrayServerProofs`**. `TypeCorrect`; `InCharge`, `PoolServes` and `Stranded`
  from `ServerInv`, which names the goroutine in charge. `Boss`: those before it
  are done, those after it not started, and its number is that of the present
  instance, or one less while it starts that. `Phase`: instance, pool, outbound
  and sync goroutine at each place of a reload. `Conns`: a connection that is
  neither killed nor missed belongs to the present instance and, while `Stop`
  kills, is still among its victims. `OneInCharge` alone says nothing of whom a
  hand-over wakes, and `StrandedOnlyIfLate` nothing of connections that dial.

- **`UpdaterProofs`**. `TypeCorrect`, `Intact` and `NoDowngrade`. `BinaryWhole` alone
  does not survive a rename. `Descriptors` says that an update that has not opened
  its file is at offset 0 and that nobody has that file; `FileInv`, that the
  temporary file is never the binary and, without overlap, that one update
  downloads and its file holds what it has written of one build, all of it from
  `chmod` on; `RelInv`, that an update not forced decided for a version not older
  than its own, and downloads that version even if the tag has moved. Steps that
  touch no file are dealt with once (`Passive`).
- **`WebServerProofs`**. `TypeCorrect`; `Admitted` from `SessionInv`, that a sid is
  in the store only if it was issued and not logged out, with the expiry its last
  use gives, and is missing only if it was logged out or has expired; `Detached`
  from `StreamInv`, that subscribers are streams whose handler is not past
  `Detach`, and that what is still to be written to are subscribers, none while
  the lock is free.

Only model-checked: the liveness properties, which are beyond the prover, and
the three violations.

## 6. Not modelled, and the plan

Left to prove: the safety arguments that the liveness properties rest on, such as
which step is enabled at each place.

Not modelled:

- the metrics store: each operation is one SQL statement or transaction of the
  database, and its cached counts are an estimate for the dashboard;
- the node sampler, the health check and the log bridge of xray: they read, or pass
  on, and change nothing the other parts use;
- the load balancer: one atomic increment;
- the rate-limited reader: a library's token bucket around `Read`; the ip limiter
  is used by its test only;
- TLS set-up, which protocols sniffing recognises, log formats and command-line
  parsing: functions over bytes or library calls, without state;
- the web UI and the edge worker, which run outside the process.
