# A verification project for the Ligament VPN client

Ligament VPN is a corporate VPN client: a daemon `corpvpnd` that owns the
tunnel, a library `vpncore` of models and formats for it, and a Tauri application
whose window talks to the daemon over a local socket or pipe. The modules here
model the daemon's control, its three engines, what it keeps on disk through
stops and crashes, its flows with the portal, its connections with the
application, and the formats it reads and writes. TLC checks them on small
instances and TLAPS proves what matters most for every value of the constants.

Paths below are relative to the repository; `state.rs` and its neighbours are in
`crates/vpndaemon/src/`, `store.rs`, `model.rs` and the formats in
`crates/vpncore/src/`.

## 1. Inventory

| Part | State | Operations | Hard behaviour |
|---|---|---|---|
| Tunnel control, `state.rs` | `data` (profiles, settings, vpn, portal session) under a read-write lock; `engine`, an optional engine under a fair mutex; the broadcast sender | connect, disconnect, state, shutdown, import, delete, update, settings, logs | every handler awaits with the mutex held or between two uses of the lock; connections run handlers at once |
| Portal flow, `portal_flow.rs` | none of its own; session and profiles of `AppState`; one loopback listener | login, OIDC start and completion, sync, logout, `upsert_profiles` | answers of the portal arrive after other handlers ran; the callback is accepted once |
| RPC server, `rpc.rs` | per connection: a line buffer and a broadcast receiver | dispatch one request, forward one notification | `select!` between the two; a receiver that lags |
| Engine contract, `engines/mod.rs` | the chosen engine | start, stop, stats | start is dropped by the caller's 30 s limit |
| VLESS engine, `engines/vless.rs` | stop signal, supervisor tasks, xray and tun2socks children | start, stop, supervise | restart pauses against the stop signal |
| OpenVPN engine, `engines/openvpn.rs` | child, management session, status channel | start, stop, session | two deadlines, a session that outlives start |
| WireGuard engine, `engines/wireguard.rs` | a Windows service per profile | create and start, stop and delete | a blocking call that cannot be cancelled |
| Service, `service.rs`, `lib.rs`, `main.rs` | SCM status, ticker thread, runtime | start, stop | ticker against Running; shutdown against live connections |
| Store, `store.rs` | the encrypted file, its temporary, the key | load, save, create the key | crash between two writes, errors that are not what they seem |
| Profile model and formats, `model.rs`, `ovpn.rs`, `wg.rs`, `vless.rs`, `xray_config.rs` | none | parse, render, normalize, validate | boundaries of line-based formats |
| Policies, `policy.rs`, `policy_win.rs` | the registry | read, overlay on the settings | re-read on use in some places and not in others |
| Portal client, `portal.rs` | none | HTTP requests | outside service |
| Logging, `logging.rs` | files, ring buffer | write, rotate, tail | date arithmetic |
| Paths, installer | file system, SCM | once, at installation or start | a step of several fails |
| Application, `app/src-tauri/src` | a connection per call and one for notifications; the child it started | call, listen, reconnect, start a daemon and kill it | time limits shorter than the daemon's; a second attempt while the first is under way |
| Window, `app/ui/src` | the last frame, the profile list | buttons | derives what it shows from frames and answers that race |

How they interact: the window calls the application, which opens a connection,
writes a line, and reads until the answer with its id; another connection brings the
notifications. `handle_connection` awaits
`dispatch`, which awaits a method of `AppState` or a function of the portal
flow; those take the engine mutex and the data lock and send frames into the
broadcast channel every connection forwards. An engine starts processes or a
Windows service and hands back a status. The service thread calls `shutdown`
when Windows tells it to stop.

What makes each part correct, in a sentence: *tunnel control*: one tunnel, and a
status that can be believed; *portal flow*: the profiles and the session are
those of the last completed flow; *RPC*: every request is answered once and the
last frame is the state; *engines*: Ok means up, stop means gone; *service*: the
reported status follows the life of the process; *store*: a crash leaves the old
or the new content; *formats*: what is written is what was read, except the
lines that are meant to change.

The hazards, each at its line, are the `hazards` of `PROJECT.json`, with the properties
that would catch them going wrong, or the reason why there is none.

## 2. What is modelled

### VpnDaemon.tla: the tunnel control

The variables are the fields of `SharedData` and `AppState` that the handlers
decide by (`profiles`, `vpn`, `session`, `slot`), the mutex as its queue of
tasks (`queue`, whose head holds it), the system outside (`tunnels`,
`requireLogin`), the last broadcast frame (`frame`), the life of the process
(`daemon`), and each task's place in its handler (`pc`) with its locals (`want`,
`snap`, `signsIn`). `minted` records the ids handed out, since a profile's id is a
fresh uuid and never comes back.

A handler is cut at its awaits. `connect` is

    ConnectCheck        the RequireLogin check; then it queues for the mutex
    ConnectChoose       has the mutex; slot empty, profile found, cloned, valid
    ConnectRefuse       has the mutex; an early return drops it
    ConnectAnnounce     set_status(Connecting), for_profile (None returns early)
    TunnelUp            inside engine.start
    ConnectDone         Ok: engine into the slot, set_status(Connected)
    StartFails          Err, or CONNECT_TIMEOUT drops the future
    StopFailed          engine.stop of what did not come up
    ConnectError        set_status(Error); the guard is dropped

and `disconnect` is `DisconnectRead`, `DisconnectAnnounce` (which does not have
the mutex yet: this is the order of the code), `DisconnectStop`, `DisconnectDone`.
`shutdown` is `disconnect` run by the task `Main` and then `ShutdownReturns`, the end of
`persist_current`, before which the mutex is free and a connect of the queue may run;
`Exit` is the end of the runtime, which drops every other task where it stands. `SetStatus` is one action
with its frame because both happen under one write lock. `login` and the OIDC
completion have the same tail, `upsert_profiles` and then `set_portal_session`;
`login` stands for both.

A request that is refused with no change of state is a guard that does not hold.
Settings, counters, log entries, credentials, the text of errors and the
outcome of `persist` are left out: what is kept on disk is the subject of `Store`.

The engine is the contract of the trait (`engines/mod.rs:53-64`): start brings up
one tunnel or fails, with or without having brought it up, and stop removes it.
What the three engines really do is in the modules below; where they break the
contract, the properties of this module hold of the control and not of the
machine.

### TunnelPromise.tla: what a client may rely on

Four variables: which profiles' tunnels are up, the announced status and
profile, and whether a disconnect is asked for. A tunnel comes up only during an
announced attempt and only when none is up; an outcome is only announced for an
attempt; `connected` only with that profile's tunnel up, `error` and `disconnected`
only with none; and a tunnel announced as connected goes down only after a
disconnect was announced. `PromiseKept` is its specification under the mapping at
`Promise` in `VpnDaemon`.

### The engines

`EngineContract` is the trait's promise in three variables: the phase of the
engine (new, starting, up, failed, stopping, gone), what it started and is still
running, and whether its start was cut off, that is, dropped by the caller's
`CONNECT_TIMEOUT`. Things come and go while the engine lives; when stop returns
nothing runs, and nothing runs before a start or comes back after a stop, unless
the start was cut off.

| Module | Variables and the fields they stand for | Actions |
|---|---|---|
| `VlessEngine` | `todo`: sidecars start has still to launch; `signal`: the stop watch; `sup`: where each supervisor's loop is; `alive`: the children | `Begin`, `Launch`, `LaunchFails`, `Adopt`, `HealthCheck`; `Stop`, `Finish`; per supervisor `Spawn`, `SpawnFails`, `ChildExited`, `SeeStop`, `Rested`; `Dies` |
| `OpenVpnEngine` | `at`: the await start or stop is in; `child`: who has the handle; `proc`: the process; `session`, `joinable`: the task and its handle; `told`, `status`, `fresh`: the two watches | `Begin`, `ManagementRefuses`, `ManagementOpens`, `SeeConnected`, `SeeFailed`, `Deadline`, `CutOff`; `Stop`, `Reap`, `Join`; `Line`, `EndOfFile`, `Unreadable`, `SessionStops`; `Exits` |
| `WireguardEngine` | `job`: the blocking call; `svc`: the service | `Begin`, `Create`, `CreateFails`, `SawRunning`, `NotRunning`, `Adopt`, `StartCleaning`, `Clean`, `Cleaned`, `CutOff`; `Stop`, `Finish`; `ServiceMoves` |

The three share `phase`, `conf` (the configuration file, which holds keys: none, there, or
stuck since its one removal failed, which the code ignores), `owned` (the fields start sets when it adopts what it made) and `cut`.
`ActiveEngine` is the enum: its `kind` is chosen once and decides whose steps are
taken. The life of an engine is the one `AppState` gives it: start once, then stop,
after a failure or at a disconnect.

A process that ends, a service that moves and a line that arrives are actions of
the outside, and so is each time limit: nothing is said about which of two comes
first. Windows is taken to stop a service it is asked to stop within the 10 s
`sc_stop_and_delete` waits.

### Store, PortalSession, ServiceLife, DaemonLife: the daemon's lives

`Store` has the data of `AppState` three times: in memory (`mem`), on disk (`file` with
its temporary, `key` with its own) and as the answers told the clients (`acked`). A
file is absent, torn or whole, and a whole store names the key it was sealed with.
`std::fs::write` is two steps, a rename one, and each may fail; a rename that should set a
file aside and fails is passed over by the code, and `exists()` is false of a key that
cannot be looked at (`NotSetAside`, `KeyUnseen`). Coming up is
`load_or_create_key` and `AppState::load` cut at their file operations (`ReadKey`, `KeyUnseen`,
`IsolateKey`, `IsolateStore`, `OpenKeyFile`, `FillKeyFile`, `InstallKey`; `Load`, `LoadIsolates`,
`LoadUnreadable`, `KeyFails`), a handler is `Change`, which takes the write lock, then
`OpenTmp`, `FillTmp`, `RenameTmp` or `SaveFails`, and the step that answers and drops the
lock. `Damage` is what the code's comments expect of antivirus software and cut
writes, and happens while no daemon runs. `open` holds the profiles whose last change
was not acknowledged: nothing is promised of those.

`PortalSession` adds the flows: per flow its stage, its kind, and its one local that
matters, the session it works with or the `state` it got back. A flow is cut where
`portal_flow.rs` awaits: a request of `portal.rs`, the browser, the lock. The portal
answers or does not; 20 s are a failure like another. The callback may carry the
`state` of any login whose page was ever open, since all of them use the same port.

`ServiceLife` is `service.rs`: the service thread, the ticker, the flag between them and
the stop in the channel; the service manager restarts what ends without having
reported Stopped, as `installer.rs` arranges. `DaemonLife` composes the three: the start
runs while the ticker reports, handlers and flows run while the RPC server serves,
`Crash` may come at any step and takes what is in memory and in hand. `StartFails` is an
error of the start before the store is looked at (the runtime, a directory), `ReportFails`
a report the service manager does not take: in both the service thread returns and says
nothing more. `shutdown` is `ShutdownStops`, whose engine need not ever stop, and
`ShutdownSaves`. Of the tunnel it has what survives a process: its children and the
configuration with the keys, which the next start removes (`Sweep`), unless it cannot.

### StorePromise.tla: what a client may rely on of its profiles

Five variables: whether a daemon serves, the profiles it answers with, those that are
kept, those the answers told of, and those whose last change was not answered with Ok.
A change is made in memory, a save makes what is kept what is in memory, in one step and
all of it, Ok is given for what is kept, a start has what was kept. `StartBlind` is the
start that met a store it cannot read, `Lose` the damage from outside. `StorePromiseKept` is
its specification under the mapping at `Promise` in `Store`: what is kept is what the file
reads as with the key that is there (`OnDisk`), so that the temporaries, the two writes
and the rename of each, the setting aside and every crash between them are steps of the
promise or none.

### RpcLink, AppClient, AppDaemon, App: the application and its connections

`RpcLink` is the daemon's end. A connection has what the client wrote and the handler
has not read (`input`, the line and its end apart, because the client writes them
apart), what the handler wrote (`output`, of which the system keeps `Buffer` lines: with
one more the handler waits in its write, `sending`, until the client has read), and its
receiver of the broadcast channel (`sub`, `lagged`). `TooLong` is the end of a connection
whose line is longer than `MAX_LINE_LEN`. `Notify` is the branch of `select!` that forgets
the half line; a full channel overwrites the oldest frame, `Lagged` is swallowed. The
state is its version, which each `set_status` increments. `draft` is the state that
`upsert_profiles` read and has not sent.

`AppClient` is the other end: a call is `Begin`, `Open` or `Busy`, `Write` twice, `Skip` for
each line that is not its answer, and `Answered`, `Refused` or `TimedOut`; the notification
pump is `PumpOpens`, `PumpReads`, `PumpEnds`. It runs before the page has loaded; what it
passes on before the window's `Subscribe` is emitted to nobody. A request larger than the
system's buffer (`method` is `send`) is written in pieces as the handler reads it
(`WriteLarge`), any other at once. The window lists the profiles and then gets
the state (`refresh`), and relies on notifications in between; `Refreshed` and `GiveUp` are
what `App.tsx` does with an answer and with an error. `AppDaemon` is `unix_daemon` of
`lib.rs`: two attempts to start a daemon, the remembered child, `kill` at the exit. `App`
composes them; where the application starts no daemon, the daemon is the service.

### WgConf, OvpnConf, VlessLink, Profiles, LogFiles, Formats: the formats

Pure operators, each over texts that are cut into lines, and lines into words: WireGuard
parse, overrides and render; `.ovpn` read and normalize; a VLESS link and the xray
server made of it; the kind of a text as the daemon and as the window guess it, import,
public view and update of a profile; the age of a log file (`LogFiles`, about which there is
a theorem and no run). A loop of the code over
lines, pieces or parameters is a fold of an operator that is one turn of it: `ReadLine`
of `WgConf`, `ReadDirective` and `WriteLine` of `OvpnConf`, `ReadParam` of `VlessLink`.
`Formats` grows texts of each format part by part, so that every text up to its length
is a state of the run.

## 3. Runs

`MCVpnDaemon` gives `VpnDaemon` an initial store (every profile but those of
`ToCome`), a session, and the policy on unless the run lets it change.
`MCActiveEngine` gives `ActiveEngine` the two sets of sidecars a profile may need.
`MCDaemonLife` says how many of the faults each scenario has left. A scenario is the set
of things that happen in one behaviour besides the start.

| Run | Instance | Shows |
|---|---|---|
| `daemon_control` | 2 connections, the service thread, 2 profiles; connect, disconnect, state, delete, shutdown; fair | `QuietAgreement`, `DisconnectLeavesNoTunnel`, `RequestsAnswered`, `StatusSettles` |
| `daemon_portal` | 2 connections (symmetric), 3 profiles, one of the portal, one invalid; every request but state and shutdown | `IndInv`, `SingleTunnel`, `StatusTruthful`, `PromiseKept` |
| `engines` | one engine of each kind, xray alone or with tun2socks, at most 3 faults; fair | `TypeOK`, `HandleLostOnlyByCutOff`, `ContractKept`, `ConfRemoved`, `LeftoverCleared`, `StartReturns`, `StopReturns`, `SidecarsRestarted` |
| `daemon_life` | 1 profile, 1 address, 2 flows of any kind, at most 2 faults, 1 tick; scenarios data with policy changes, stop, data with stop, tunnel with stop, portal; fair | `TypeOK`, `StorePromiseKept`, `AcknowledgedIsKept`, `OwnBrowserOnly`, `LogoutSticks`, `ProfilesMatchSession`, `KeysSwept`, `OnlyOwnStoreReplaced`, `StatusForward`, `ComesUp`, `StopObeyed`, `PortReleased` |
| `client_link` | the pump and one call at a time, a channel and a buffer of 1, 2 versions, 1 sync, 2 lines per answer, 2 attempts; scenarios: one change of the status with the log or with a sync; changes and restarts with a refresh or an action; the log with a large request; launch; fair | `AppTypeOK`, `ShownAtRest`, `DroppedOnlyTorn`, `ExitTakesDaemon`, `CallsReturn`, `OutcomeShown`, `PumpReturns` |
| `formats` | every text of up to 4 lines or parts, every profile | `ServiceReadsProfile`, `NormalizedForDaemon`, `LinkReachesServer`, `ImportedAsSeen`, `EditKeepsSecrets` |
| `stuck_connecting` | a profile without an engine | finding: `StatusSettles` is violated |
| `delete_in_use` | connect and delete | finding: `ActiveProfileKept` is violated |
| `tunnel_after_exit` | connect and shutdown | finding: `NothingAfterExit` is violated |
| `engine_left_running` | one engine of each kind | finding: `NothingLeft` is violated |
| `vless_stop_hangs` | VLESS, an xray that cannot be spawned; fair | finding: `StopReturns` is violated |
| `window_gives_up` | the application that starts its daemon; fair | finding: `WindowRecovers` is violated |

What the larger ones say. `engines`: what an engine started is gone when its stop returns,
unless its start was cut off; the configuration goes too, unless its one removal failed; a
service a crashed daemon left is not left running by a start that was not cut off.
`daemon_life`: a profile whose change was answered with Ok is in memory and on disk after
any crash, failed write or restart, and the files, the key and the crashes together are the
one store of `StorePromise`; what damage from outside, a key that cannot be looked at or a
store that cannot be read destroy is not promised. The store a daemon could not open is set
aside, and it is overwritten in two cases only: the read error the code takes for a first
start, and a rename whose failure it ignores. The keys of a dead daemon's tunnel are removed
by the next, as far as the files can be removed; a session the user ended stays ended though
a sync or another login is late; the page of an earlier login completes nothing; the
callback port comes free. Whatever the store and the key look like, a start brings the
service up, but an error of the start itself (of the runtime, the directories, the making of
the key, a report) does keep it down: these are `StartGivenUp`. The reported status goes
forward, and a stop that came during the start is obeyed if the start succeeds and if the
engine's stop ends, which `vless_stop_hangs` shows it need not; `StopObeyed` has that as its
hypothesis. After a start that failed no stop is obeyed at all, and `StopObeyed`
names it as `StopLost`.
`client_link`: a call whose request fits the system's buffer returns, however much the
daemon logs; one that does not fit may be held for ever, in one state only, which
`CallsReturn` names `Entangled`. The outcome of an action whose
call was given up still arrives, and the window shows the state at rest, both with the
exceptions named at `ShownAtRest`: a frame that nobody listened to or that the channel
overwrote, and an older one that came after. Only a request that a notification cut in two is
dropped without an answer; the application takes the daemon it has on record along, while
one it gave up on, or had started but not recorded, is excused. `formats`: the service's
configuration reads back as the profile with its overrides and nothing else, if their
elements are clean words, which nobody checks; in a normalized `.ovpn` no auth-user-pass
names a file, there is one, and an auth-nocache, and the rest is the profile's, unless a
blank follows auth-user-pass, a line the property excludes (`Spoilt`). That none of its directives runs a
program is not shown: normalize drops the words of its own list and no others, and two
lines of auth-user-pass stay two. A link leads where it was made for, and one that asks for
`tls` or `reality` is never used in the clear; any other security it names, `xtls` too, is
none. What was imported can be connected; an edit loses no secrets.

Bounds. Two connections and the service thread give three tasks that may hold or
wait for the mutex, so there is a holder, a waiter and one that overtakes; every
property speaks of at most two tasks and the proofs cover the rest. Two profiles
distinguish the one asked for from the one active; the third of `daemon_portal`
is the one that is refused. Nothing else is bounded there: the queue has at most
one entry per task, and that model has no counter. `MaxFaults` of the engines
counts crashes and failed spawns: three let one supervisor fail in its pause, as a
child and as a spawn, or the two of them fail at once and one again. The other
engines need no bound.

`MaxFaults` of the daemon's lives counts crashes, failed file operations and damage:
two let a crash leave a torn temporary and the next write fail, or damage both files.
Two flows overlap in every order of their stages, and the second profile or address
would only be what the first one is. `MaxTicks` is 29 in the code: whether a tick comes
before or after the flag is all that is told apart. A channel and a buffer of one (1024
and 64 KiB in the code) make overflow and a blocked writer happen, a request of two pieces is
enough to be larger than the buffer; a connection behind by more behaves as one behind by
one. `MaxLines` 50 and `MaxTries` 25 are 2: one more is allowed, the next one ends it.
`MaxVersion` bounds state changes and restarts together, `MaxSyncs` the stale frames; in the
two scenarios with `once` the status changes only once, which keeps the run short: a change
with the log around it, and a change between a sync's read and its send, are the cases they
are there for. Formats: with four lines a section of each kind has a key, or one section two
keys; no operator looks at more than a line and the section it is in.

`CHECK_DEADLOCK FALSE` is said where the run includes a stop of the daemon,
requests so few that they run out, or an engine, which is used once. `daemon_portal` checks deadlock.

Fairness. `FairSpec` asks weak fairness of each task's next step, while the
process lives. The code justifies it: the runtime polls every task, tokio's mutex
is first come first served, `engine.start` is bounded by `CONNECT_TIMEOUT` and the
HTTP client by its own limit. It assumes that `engine.stop` ends, which the
trait promises and the VLESS engine does not always keep (`vless_stop_hangs`):
`RequestsAnswered` and `StatusSettles` are statements about the control given that
promise. No request is fair: clients need not ask for anything.

In the engines, `FairSpec` is weakly fair to the start and the stop under way, to
each supervisor, to the session once it has something to end for, and to the
blocking call: the runtime polls the first three, and every wait of the last has
a time limit in the code. No fault, line or limit of the caller is fair. Without
`Deadline`, the limit OpenVPN's start sets itself, a silent peer would hold it for
ever: `StartReturns` rests on it.

In the daemon's lives the threads run, a save ends, the steps of a flow are fair because
each of its waits has a limit (20 s of the client, 300 s for the browser), the manager
launches what is wanted, and shutdown gets the data's lock, which other handlers take
and release: that one is strong, since tokio's lock is first come first served. The
engine's stop, before it, is not fair: it may never end, and `StopObeyed` says what follows if
it does. No crash, damage, request or browser is fair. In the link the daemon's tasks and the
client's are fair: a call's waits are bounded by 5 s per line and 50 lines, its
attempts by 25, and that `dispatch` returns is `RequestsAnswered`. A write has no limit: the
client's can go on when the request fits the buffer or the handler reads, the handler's when
its client has read, and no fairness says that the other side does. That the window
subscribes is not fair either. The launcher and what
it spawned go on, nobody has to log, connect or change the state.

## 4. What the violations say of the code

- `stuck_connecting`: on macOS and Linux a WireGuard or OpenVPN profile passes the
  checks, `Connecting` is announced, `for_profile` returns None, and the early
  return leaves the status at connecting until somebody disconnects.
- `delete_in_use`: a delete between connect's clone and its announcement is
  accepted, and the tunnel of a profile that is no longer there comes up.
- `tunnel_after_exit`: a connect queued behind shutdown's disconnect brings its
  tunnel up after shutdown returned; the process ends and leaves it.
- `engine_left_running`: start is dropped while it waits for openvpn's management
  port, the child a local, or while stop_internal has taken the child out of its
  field; stop then finds nothing to kill. WireGuard's thread likewise goes on to
  create a service nobody owns.
- `vless_stop_hangs`: the supervision loop continues after a failed spawn without a
  look at the stop signal, and stop awaits it, holding the engine mutex.
- `window_gives_up`: `refresh()` takes every error that is not an `RpcError` for fatal, and
  a call to a daemon that is not up yet is rejected with a plain string. Nothing
  clears `fatal`, so the automatic retry, which is there for just this case, never starts.

Met while modelling and not given runs of their own; where a checked property meets one of
them, the property names it as an exception:

- An error of the start leaves `run_service_loop` by `?` (`service.rs:104`) without a report of
  Stopped. The process goes on with its ticker, its control handler answers NoError to a stop,
  and nobody receives it, although `service.rs:3` says that the service takes Stop and
  Shutdown. It is `StopLost` in `StopObeyed`.
- `roundtrip` writes its request to the end before it reads (`transport.rs:59`, `77`), and the
  handler does not read while it waits to write a notification (`rpc.rs:320`). With a request
  larger than the system's buffer, such as an imported configuration, and a log that fills the
  other direction, both wait for ever; the limits of `read_response` begin only after the
  write. It is `Entangled` in `CallsReturn`.
- The indentation of `auth-user-pass` (`ovpn.rs:112-115`) is computed so that a blank at the
  line's end counts: `auth-user-pass x ` becomes `aauth-user-pass`, none is added, and the bare
  `auth-user-pass` that `ovpn.rs:6` guarantees is not there. It is `Spoilt` in
  `NormalizedForDaemon`.
- `date_to_unix` is a day short from March of a leap year to the end of the next year: a log
  is then removed after six days, and not after the seven of `logging.rs:1`. `RemovedInTime`
  has the dates.

- A connect that passed the RequireLogin check and waits for the engine mutex goes on
  after a logout (`state.rs:182`); the check is not repeated.
- The older frame of `upsert_profiles` (`portal_flow.rs:358`) may be the last the clients
  get; it is one of the exceptions of `ShownAtRest`, and so are frames lost to lag,
  while the pump reconnects, and before the window has subscribed, after which nothing is
  asked for afresh.
- A failed removal of a configuration or a failed rename of an unreadable store is ignored:
  the keys stay until the next start, the store is overwritten by the next save.
- The elements of an override are checked by nobody (`rpc.rs:157`, `wg.rs:245-255`): one with a
  comma or a comment character reads back as something else.
- A WireGuard text that begins with a comment is refused by the window, which the daemon
  would import; one with a comment about a `remote` is taken for OpenVPN by the window. A
  link with the scheme `Vless://` is recognised and then refused. A link whose host is
  blanks passes the check and is kept without them.

## 5. What is proved

`VpnDaemonProofs`, from the one assumption `DaemonAssumption` (the constants do not collide; `PortalIds` are profiles; the
requests are those of the API). It does not bound the number of connections or
profiles and does not ask them to be finite.

The properties of interest are not inductive. `IndInv` adds what is needed:

- `LockInv`: whoever is past the lock is at the head of the queue. Two tasks in
  the critical section would be the same head.
- `TunnelInv`: each tunnel is the slot's or that of a connect between its start
  and its stop, and while anybody is in the critical section the slot is empty.
  With `LockInv` this gives `SingleTunnel`.
- `StatusInv`: what each status implies about who is where. A disconnect announces
  itself without the mutex, so `connecting` and `connected` each have to say what a
  disconnect in flight may have done meanwhile, and `disconnecting` that there is
  one.

`Invariance` proves `Spec => []IndInv`, one step per action; from it follow
`TypeCorrect`, `OneTunnel`, `StatusBelievable`, `AgreementAtRest` and the action
property `DisconnectTakesTunnelDown`, which speaks of the step that gives the engine mutex back
and not of shutdown's return. `Refinement` proves `Spec => PromiseKept`: each
action is a step of the promise or changes nothing it speaks of; the lemmas
about `Goto` and `Return` say when whether a disconnect is asked for stays the
same. TLC checks `IndInv` itself as an invariant of `daemon_portal`, and with it the
types, which it contains.

`ActiveEngineProofs`, from `EngineAssumption` (the kinds are the three, the plans
are sequences of sidecars), proves `EnginesKeepContract`, `Spec => ContractKept`, for
any sidecars and any number of faults, and `HandleKept`. The contract alone is not
inductive: that nothing is left when stop returns depends on who holds what on the
way there. `EngineInv` says it per engine: a sidecar that lives has a supervisor
that is not finished, and none is at work before the start and after the stop; a
running openvpn has a handle, and whoever waits for the session has given it up; a
service that runs belongs to the blocking call of a start under way or to an
engine that adopted it; each unless the start was cut off. Each action is then
shown to keep it and to be one step of the contract or none.
`EngineTypes` needs it too: that openvpn's Child is a local only where somebody waits
with it holds because nobody calls stop while a start waits. `ConfigurationRemoved`,
`Spec => ConfRemoved`, is a statement about what comes after `up`: `Adopted` says that an
engine that is up has adopted its file, and `FileOwned`, which holds from then on and is
kept by every step, that stop has still to try its removal or has tried. `NoLeftover` needs
where the blocking call of the WireGuard engine is: a start fails only after its clean-up.

`StoreProofs`, from `StoreAssumption`, `SealedAssumption` and `LifeAssumption` (names do not
collide), is about `DaemonLife` with any number of profiles, addresses, flows and faults.
`StoreSteps` first shows that a step of the daemon is one of ten kinds of step to the
store. `AcknowledgedIsKept` is not inductive: that the file opens at the next start needs
`KeyInv`, that no key is used that is not the one on disk and that a number once drawn
does not come again, and `SaveInv`, which says for each stage of a save what the
temporary holds and which of memory and disk the client was told. `LifeInvariance` is
their conjunction with the types; `Durability`, `LifeTypes` and the action property
`StoreNotOverwritten` follow, with the exceptions that the two properties name. `NoKeysLeft` needs `SweptInv`, `StatusGoesForward` needs
`StatusInv`, the agreement of service thread, ticker and status.

`SessionProofs` adds `SessionInv`: the data in memory and on disk alike hold only sessions
and profiles of flows that got that far, and no ended one; a flow that clears has the
lock. `Settles` is why it is kept: what a flow's token stands for is settled when it is
given out. `SessionStaysOut` and `OnlyOwnBrowser` follow. `ProfilesOfSession`,
`Spec => ProfilesMatchSession`, speaks of rest only, and a flow on its way breaks the match:
`MatchInv` says when. While the flows had their turns at most one is in flight; memory
matches unless a login has stored its profiles and not yet its session (`Fresh`), and then
holds that login's profiles or none; the disk matches unless a flow is at work; a sync
under way is for the session of now. The disk's part is what a crash falls back to, and a
flow cut off by one leaves `untidy` behind.

`StoreRefinesPromise` in the same module as `Durability`, `Spec => StorePromiseKept`, goes
over the ten kinds of step again. In a daemon's life what is kept changes with `RenameTmp` alone, which is `Save` because `SaveInv`
says that the temporary holds what memory does while its writer has the lock, and is sealed
with the key that is there (`KeyInv`); making or replacing the key changes nothing because a
store that is there then does not open anyway; an import is of an id that is neither in
memory nor on disk, which `ChangesProfile` says.

`AppProofs`, from `LinkAssumption` and `ClientAssumption`, proves `DaemonTakenAlong` by
`LaunchInv` (a living process is remembered, about to be, or given up), `AppTypes`, and
`NoSilentDrop` by `RequestInv`, which says where each request is: with the client, in the
input, with the handler, in the output, or torn. `ShownUnlessLost`, `AppSpec => ShownAtRest`,
rests on `WindowInv`: nothing sent or shown is of a later version than the daemon's
(`PastInv`); frames wait only for a connection that listens, and the pump's is closed with
nothing left in it (`PumpInv`); and the state of now was seen, is counted as lost, or is on
its way to the pump (`NewsInv`), which each new version, lag, reconnect and restart must
establish again, and so must a frame that comes before the window listens. At rest nothing is on its way.

The formats have no assumption. Their operators are folds over texts of any length, so
that what they compute needs induction, and the induction theorems of the library cannot
be used, since they have an operator for a parameter. `FoldFacts` does it with sets
instead: `SeqInd` says that a set which has the empty sequence, and with each sequence those
that are longer by one element, has them all. From the definition of `FoldLeft` in the
community modules it proves, for every operator, `FoldAppend` (one element more is one step
more), `FoldConcat` and `FoldType`, and `FlattenAppend` of `FlattenSeq`. The operator is a
constant of the module, which each fold instantiates.

`ConfProofs` is about the configurations. `NormalizeFit` goes along the loop of `normalize`: a
line that was written is one that it writes again as it is, and each line does the same to
what `parse` knows and to the lines that are not meant to change; lines with a blank after
auth-user-pass are excluded. `FitForDaemon` is the checked
property. `RoundTrip` is the way through `render_with_overrides`, with overrides of clean words. `ParseTyped` says what a
parsed configuration is: which values a key can have, lists without commas, numbers in their
shortest form, nothing with a comment; the round trip needs all of it, because of every
other value `parse` would make something else. Then one value is read as it was written, one
section after the other parts, key by key (`FirstKeys`), line by line of what is kept
(`ExtrasRead`) and at last peer by peer (`PeersRead`), and overriding keeps the values such
(`ServiceReads` is the checked property).

`FormatProofs` is about the rest. `RemovedInTime` is for every date from 1970 to 2099 and
every number of days to keep: `LeapDays` compares the two counts of leap days by the rest of
the year by four, and `DaysShort` has it that `date_to_unix` is one day short or none. `LogFiles`
alone is in no run. `ViewKeepsSecrets` is for any configurations whatever: what the public
view puts in their place is always one of the two values that update takes for unchanged, so
the profile that is validated is the one that was there;
`EditedKeepsSecrets` is the checked property.

`LinkRead` is for every host and port, every name and any number of parameters, with any
characters in them that are no codes of others. `parse` takes a link apart from the outside:
each cut is at the first, or the last, of a separator, and the parts in between have none
because `Encode` leaves none (`Coded`). The query is split where the parameters were joined,
by a fold over them. `LinkReaches` adds `Xray`: the last parameter of a name counts, and with
any other security than `tls` and `reality` there is none. `ServerReached` is the checked
property.

`SeenAsImported` has two cases. A text of lines (`LinesSeen`, of any number): what makes
`detectKind` or `import` take it for a WireGuard configuration or for an `.ovpn` is a line that it
has, and a line of words in it is one that WireGuard's `parse` refuses wherever it is
(`WordsRefused`), so that the two cannot disagree but over a comment. A link (`LinkSeen`):
`trim` takes away blanks at both ends, and what `parse` makes of the rest (`EndpointTrim`) is
what it made of the whole, or there was nothing but blanks for a host.

Of each of the four, the run's texts are the instance: `WgInv`, `OvpnInv`, `LinkInv` and
`ImportInv` say that `Formats` makes no others.

Only model-checked: the liveness properties (`RequestsAnswered`, `StatusSettles`,
`StartReturns`, `StopReturns`, `SidecarsRestarted`, `ComesUp`, `StopObeyed`, `PortReleased`,
`CallsReturn`, `OutcomeShown`, `PumpReturns`), which are out of the prover's reach. Every
invariant and every safety property that a passing run checks has a theorem.

## 6. Plan

Done, in this order: the tunnel control, the engines, the store with the service's
lives and the portal's sessions, the connections and the application, the formats.

Left:

1. The engines under the control: the three engine modules in the place of
   `VpnDaemon`'s tunnel, to say what a client is told of a tunnel that died.
2. `VpnDaemon` and `DaemonLife` over one state, so that a restart meets the tunnel of the
   life before.

## 7. Not modelled

- The portal: an outside service. `portal.rs` is there as the requests the flows make;
  the form of requests and answers, cookies and PKCE are between it and the portal.
- The cipher of the store and the validity of keys: taken for what they promise.
- The WireGuard tunnel process (`/wg-tunnel`): it loads a DLL of another project.
- Paths, ACLs and the installer's calls: once, in sequence, without state of their own.
- Of the policies `DisableManualImport`, a refusal without a change, and the registry's
  reading; of the settings what no step decides by.
- The tray, autostart, dialogs, `diagnose_service`; layout, forms and texts of the window;
  the ring buffer of the log and the format of its lines.
- Packaging.
