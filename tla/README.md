# ssh-autoproxy in TLA+

TLA+ models of the daemon in `src/`, TLC runs over small instances of them, and
TLAPS proofs of what matters most for every instance. Paths below are relative
to `src/`.

## The system

ssh-autoproxy keeps one `ssh -M -N [-D]` subprocess per *route* alive whenever
the machine is not on a network from which the route's hosts can be reached
directly. Applications find their way through a PAC file and a front-door proxy
listener, both of which follow the same decisions. The config file is reloaded
whenever it changes; key and authentication failures become desktop
notifications.

| part | state | operations | talks to |
|---|---|---|---|
| **tunnel supervisor** `internal/tunnel/supervisor.go`, `controlsocket.go` | per route `desired`, `cancel`, `done` under a mutex; per run a context, an ssh process; outside: the ControlPath socket file, the `-D` port | `Ensure(bool)`, `Stop()`, the `run` goroutine (probe and remove a stale socket, spawn ssh, wait, back off) | called by the daemon loop; ssh processes and masters the user starts share the socket file |
| **backoff** `internal/tunnel/backoff.go` | the attempt counter of `run` | `nextDelay` | the supervisor |
| **daemon loop** `internal/daemon/daemon.go` `runOnce`, `watchNetwork`, `runNMCLIMonitor` | `lastProxyNeeded`, `pending`, the debounce timer, the `recheck` channel (1 slot), `errCh` (16) | `applyState`, the select, the shutdown sequence | network state, supervisors, table, PAC server, proxy |
| **network state** `internal/netstate` | none | `Query` (three `nmcli`/`ip` commands), `Evaluate` | the daemon loop |
| **daemon life cycle** `daemon.go` `Run`, `watchConfigFile` | current config, runCtx, the `reload` channel (1 slot), the watcher's `lastMod` | load, reload, cancel, restart | `runOnce`, the config file, the two listening ports |
| **front-door proxy** `internal/proxy/server.go`, `socks.go` | listener, `closed`, `conns`, a WaitGroup; per connection a deadline and two sockets | `serve`, `handle`, `dial`, `relay`, `track`/`untrack`, `Shutdown` | clients, the routing table, the routes' ssh |
| **routing table, PAC file, check-ssh** `internal/proxy/table.go`, `internal/pac`, `cmd/.../checkssh.go` | the decisions under a lock; the PAC body under a lock | `Update`, `Decide`, `Generate` | the daemon loop writes, connections and browsers read |
| **notifications** `daemon.go` `forwardErrors`, `handleErrorCategory`; `internal/state`, `internal/notify`, `tunnel/stderr.go` | `Errors` channel per supervisor (16), `errCh` (16), the state file | classify a line of stderr, forward, check the cooldown, save, `notify-send` | ssh's stderr, the state file, the session bus |
| **configuration** `internal/config` | none after loading | `Load`, defaults, `Validate`, free ports | `Run`, every other part |
| **self-update** `internal/update`, `cmd/.../update.go` | the installed binary, a temp file beside it | check, download, verify, replace, restart the service | GitHub, the file system, systemd |
| **status** `cmd/.../status.go` | none; reads the state file | its own `Load`, the recorded addresses, probes | the config file, the state file, the listeners |
| **command line** `cmd/ssh-autoproxy` | none | `daemon`, `install`, flags | |

What makes it hard: `Ensure(false)` cancels a run without waiting, so runs of one
supervisor overlap on one socket file and one port; the socket file is shared
with other programs; a network query is not atomic; signals pass through
one-slot channels while the receiver is busy; a reload tears everything down
and builds it up again on the same ports; a connection may be in any of a dozen
phases when `Shutdown` comes, and a request may be cut short at any byte of it;
a cooldown must survive crashes; an update may be killed between any two steps
while another one runs; ports picked at random are free only until somebody
takes them, and two processes pick different ones. No unit test of the
repository drives any of these interleavings.

## The modules

| module | models | runs | theorems |
|---|---|---|---|
| `Tunnel` | the abstract promise of a supervisor | through `ImplementsTunnel` | |
| `Supervisor` | supervisor, control socket, ssh processes | `supervisor` | `SupervisorProofs` |
| `Backoff` | `nextDelay` in integers that wrap | `backoff` | `SupervisorProofs` |
| `NetState` | `addressInSubnet`, `profileMatches`, `Evaluate` as operators | through `Daemon` | |
| `Daemon` | the select loop of `runOnce`, the query, the watchers | `daemon` | `DaemonProofs` |
| `Reload` | `Run`, `watchConfigFile`, the lives of `runOnce`, the ports | `reload`, `reload_port` | `ReloadProofs` |
| `FrontProxy` | accept loop, handlers, deadline, relay, `Shutdown` | `proxy`, `proxy_answer` | `FrontProxyProofs` |
| `Notify` | from ssh's stderr to `notify-send`, the cooldown on disk | `notify` | `NotifyProofs` |
| `Routing` | routing table, PAC file and `check-ssh` as operators | through `Request` | |
| `Request` | the bytes of one connection, from its first to the relay's last; extends `Routing` | `request` | `RequestProofs` |
| `Config` | `Load`, ports left to chance, listeners, recorded addresses, `status` | `config`, `config_ipv6` | `ConfigProofs` |
| `SelfUpdate` | `update`: verify, replace, restart | `update` | `SelfUpdateProofs` |

An `MC` module holds the definitions a run's `.cfg` cannot express. A definition
whose comment begins with *Mutant* is a plausible bug, used to show that the
property it is paired with in `PROJECT.json` would notice it; nothing else
refers to it.

### Supervisor and Tunnel

The state is the fields of `Supervisor` (`desired`, `cancel`, and `latest` for
the run whose channel `done` is), a program counter per run, the contexts
cancelled so far, and of the world outside: each run's ssh, who holds the
route's `-D` port, who accepts on a control socket, and who made the file at
ControlPath. A run is `<<route, n>>`, the goroutine of the route's n-th
`startLocked`. `Ensure` and `Stop` are one action each per critical section;
`Stop` is two, because it waits for `done` after it has unlocked. The run's
actions are cut at every place another process may get in between: context
check, `ssh -G`, probe, remove, spawn, wait, backoff. All routes share one jump
host, hence one ControlPath: that is the interesting case, and a route with a
jump host of its own is the instance with one route.

ssh is outside `src/`: it is modelled from the flags `sshArgs` passes (`-M`,
`ExitOnForwardFailure`, `-D`) and what `controlsocket.go` says of OpenSSH. An
ssh that logs in takes the control path only if no file is there, and unlinks
the path, whoever's file it then is, on the way out.

`Tunnel` knows none of this: wanted tunnels get at most one connection at a
time, unwanted ones fade, closed routes never connect again.
`ImplementsTunnel` maps `desired`, `stopped`, the live run's ssh and the
cancelled runs' ssh processes to it.

* `OneLiveRun`: exactly one run that may still connect while desired, none
  otherwise.
* `StopReapsLatest`: after `Stop`, no ssh but those of older, cancelled runs.
* `TunnelKept`, `StopCompletes`, `CancelledRunsEnd`: reconnection, no blocked
  `Stop`, no leaked run, under fairness of goroutines, of ssh's login and of a
  SIGTERMed ssh's exit.

### Backoff

Durations in an abstract unit and integers of `Width` bits. The jitter is a
choice from the interval `Int64N` draws from. `DelayBounds` says a reconnect
never comes at once and never later than `backoff.max`; `CappedExponential`
compares with exact arithmetic, for bases up to 2^43 ns (2.4 hours), whose
product cannot wrap (`NoOverflow`, for which it is proved), and for larger powers
of two, whose product wraps to zero or below. For other bases above 2^43 ns the product may wrap to a small positive
number and the delay is shorter than the formula's; no sensible config has one.

### NetState and Daemon

A network is a record of device, SSID, gateway and address; Query reads it in
three steps, each from the network of that moment. `recheck` is a one-slot
channel, `debounce` a countdown with a value for *stopped*. An answer is applied
in three steps (supervisors and decisions, table, PAC file), since connections
and browsers read table and PAC file in between. `missed` is a history
variable: a change the monitor could not report or a query that failed, after
which only the ticker can help. Supervisors appear as the boolean `Ensure` was
last called with; what they make of it is `Supervisor`.

* `Agree`: tunnels, table and PAC file follow the last successful query.
* `NoLostWakeup`: an idle loop with an outdated answer has a wakeup coming.
* `Converges`: a network that stays is acted on in the end.
* `ShutdownCompletes`: a cancellation at any point ends `runOnce`, and with it the
  monitor's goroutine and nmcli, although nobody receives its signals any more.
* `FallbackCovers`: a network that stays is acted on with a dead monitor, by polling
  alone. It holds as a part of `Converges` in the `daemon` run; with a
  `poll_interval` below the debounce interval it does not.

A cancellation stops watchNetwork's ticker and kills nmcli, the debounce timer goes
on. Time passes only while the loop has no signal to take or runs a query: handling
a ready signal takes no time compared to the debounce interval. The fairness is
that of goroutines, plus strong fairness for two cases of the select, which Go
picks at random among the ready ones.

### Reload

A file is a version, a kind (good, bad, busy: its proxy port belongs to another
program, or missing) and an mtime. Each `runOnce` is a *life* with a place in its
start or end, a context that is cancelled by `Run` or with its parent `ctx`
(`Done`), a result that waits in `errCh` for `Run` to take it, and a PAC
`http.Server` whose `Serve` goroutine may be late. A start may fail before the
listeners (`NotReady`: the control directory, the state file) and at each of them. All
configs name the same two ports, the case in which lives can get in each
other's way.

* `OneRunOnce`: a life starts only when its predecessor has returned, and none is
  left when `Run` has.
* `FatalStartsOnly`: what ends `Run` with an error is a first config that cannot be
  read or a start that fails; a bad edit never does, nor the proxy port of the life
  before, nor its PAC port unless that life's `Shutdown` overtook its `Serve`.
* `NoBindRace`: not even then. It does not hold (`reload_port`).
* `NoLostEdit`: an edit the watcher has noticed (the history variable `noticed`) is
  running, loaded, or will be read, though the channel holds one signal and `Run` may
  be busy with an earlier one.
* `EditApplied`: a good edit newer than what the watcher has seen is loaded.
* `RunReturns`: a cancellation at any point ends `Run`, whether `Run` sees it first,
  in its select or busy with a reload, or `runOnce` does and returns on its own.
* `LastEditRuns`: the config of a file that stays is the one that runs. It does not
  hold.

### FrontProxy

One program counter per connection from `connect` to both sockets closed; the
actions are the blocking calls and critical sections of `handle`, `dial`, `relay`
and `Shutdown`. The bytes are left out; a relay is its two copiers. The handshake
deadline may pass at any time while it is set. `SocksConnect` is the SOCKS
exchange with the route's ssh, in which the upstream connection is not yet known
to `Shutdown`.

* `NoRelayAfterShutdown`, `ShutdownWaits`, `NoLeak`: no connection slips past
  `Shutdown` in any phase, success means that all handlers ended, no exit path
  of a handler leaves a socket open or registered.
* `HandlersProgress`, `ShutdownEndsHandlers`: a client that sends nothing, a
  relay whose ends are through, and everything after `Shutdown` come to an end.

### Notify

A line is the category `classifyStderrLine` finds; channels are bounded
sequences, a full `Errors` channel drops. Times are ages capped at the cooldown,
so time is unbounded in a finite model. `shown` (the age of the failure last
shown to the user) and `unsaved` (shown, but its record did not reach the state
file) are history variables. A crash may come between any two steps.

* `CooldownKept`: no failure is shown twice within the cooldown, over reloads
  and crashes, unless its record could not be saved.
* `PersistentFailureShown`: a failure that goes on is shown again and again,
  whatever other failures do, and although a notification without a session bus
  uses the cooldown up for nothing.
* `ForwardersEnd`: no forwarder stays blocked on `errCh` after its `runOnce`.

### Routing and Request

`Routing` has no state. Hosts and patterns are texts, and what the text functions
of Go and of the browser make of them (lower case, trailing dot, `path.Match`,
`shExpMatch`, literal addresses, `isInNet`'s DNS lookups) is given by constants, so that the theorem
about it holds for whatever they do. `Decide` is the table's answer,
`FindProxyForURL` what a browser makes of the generated file, `CheckSSH` the exit
code. A host is `Plain` when the PAC file sees it as the table does. They differ
for the others: the PAC file compares patterns as written, where the table takes
them in lower case and drops a trailing dot; its `shExpMatch` is another matcher
than `path.Match`, assumed to agree with it only on texts without a character class,
an escape or a slash (`Special`); its `isInNet` resolves names, where
the table never does; and it knows no IPv6.

`Request` takes the decision in the middle of one connection. A stream is the
sequence of bytes still to be read; one that is too short stands for a peer that
closes or fails. A client may be lost (`Lose`) at any time before it is answered:
it left, `Shutdown` closed its connection, or the handshake deadline passed, and then
no read or write reaches it any more. An upstream that is too slow is one whose
client is lost: the client's deadline is set before the dial's and before the
exchange with `ssh -D`, all three of 10 s. One action
is one message: greeting, request, the dial, the two answers of an `ssh -D`, the
reply, and the relay byte by byte. An HTTP head is given to `net/http`, so it is
its method's first byte, its target and its port, and an answer is its status.

* `Transparent`: behind the handshakes each side gets exactly what the other
  sent, including what the client sent along with its request; an `ssh -D` is
  asked for the very host and port the client named, as an address if it is one
  in any spelling, as a name otherwise.
* `OneAnswer`: a client with a request that is not lost gets exactly one answer, a
  success before the relay or a failure before the end, with the code the `ssh -D`
  gave; a lost one gets none, and is still relayed only if it speaks SOCKS (the
  ignored write of `server.go:180`, see `proxy_answer`).
* `SameWay`: table and `check-ssh` agree on every host; the PAC file agrees with
  them on every plain one, except that it says DIRECT before the first decision.

### Config

`Load` runs in two processes, the daemon (at the start, and for a reload) and
`status`. It is cut where another process may get in between: for every port left
to chance, `Listen` on port 0 and `Close`. What it computes on its own
(`withDefaults`, `Validate`) is one operator each. The listeners are the tunnels
by name, the PAC server and the front door; a listener's address is the pair
`<<bind, port>>` as the config spells it, a place is the pair of IP address and
port. ssh is outside `src/`: `sshBindable` says that `-D bind:port` is accepted only
if the bind has no colon. Reload's timing and the listeners' hand-over are in
`Reload`; here the old `runOnce` is gone at once. `saved` and `current` are history
variables. A route may not be called like the two listeners that are no routes;
they are told apart by the code's types, in the model by `ConfigAssumption`.

* `BindsUnlessTaken`: whatever was picked, a listener can be bound but for the
  reasons the invariant lists. That is what `Validate` promises, with its gaps:
  two spellings of one address, a `pac.port` or socks port out of range,
  `pac.port` 0, and IPv6 for tunnels.
* `StatusShowsTunnel`: `status` tries the address the daemon's ssh was given,
  whatever its own load picked and the file has become, unless the daemon could
  not save it.

Two routes whose ports are left to chance may be given the same one, as the
first is free again when the second is picked; `Validate` then rejects the config,
and the load fails though nothing is wrong with the file (`DaemonLoadFails`). A
load that fails at the start ends the daemon and systemd starts it again.

### SelfUpdate

Several invocations of `update`, each with a program counter, its flags, the
release it was told of, the checksum and the archive it got, and its temp file.
Every answer of GitHub is a choice of its own, since releases are published and
replaced at any time; a build stands for its checksum. Each system call of
`replaceFile` is an action, each may fail, and a kill may come before each.
The service may stop, crash, wait for `RestartSec` and start, each time on the
executable there is.

* `VerifiedExe`: at `exePath` is always one whole executable, the first one or
  one whose checksum its release vouched for.
* `NoDowngrade`: without `--force` an update goes up from the version its own
  binary has; an older version replaces a newer one only if another update came
  in between (there is no lock, and the model shows it happen).
* `ServiceCurrent`: a service that runs another binary than the one on disk is
  about to be restarted by the update that put it there, unless it has
  `--no-restart`, failed to restart it, was killed, or could not ask systemd
  (`IsActiveFails`).
* `ServiceRestarted`: the same without the last excuse, as the command's help has it.
  It does not hold.
* `TempRemoved`: a failure takes the temp file away; a kill leaves it.

## The runs

| run | bounds | states | shows |
|---|---|---|---|
| `supervisor` | 1 route with `-D`, 3 runs, 2 failures, a user's master | 66k | all properties of `Supervisor` that hold |
| `daemon` | 2 routes (one kept up), 4 networks, poll 3, debounce 2, 1 unread monitor line, 1 fault | 343k | all properties of `Daemon` that hold |
| `reload` | 3 edits of every kind, before the watcher's first look, with old mtimes, missing files | 196k | all properties of `Reload` that hold |
| `proxy` | a SOCKS and an HTTP client | 103k | all properties of `FrontProxy` that hold |
| `notify` | 2 routes, 1 category, channels of 1, cooldown 2, 1 failing save | 204k | `CooldownKept`, `PersistentFailureShown`, `ForwardersEnd` |
| `backoff` | 8 bits, shifts to 4, 7 failures, zero and negative settings | 4k | all properties of `Backoff` |
| `request` | 51 clients, lost at any time (SOCKS5 by name and by address, HTTP, malformed and cut short), 12 answers of `ssh -D` (6 of them broken off), 3 routes | 132k | all properties of `Request` |
| `config` | 4 files, 2 ports to pick from, 1 place another program takes | 390k | `BindsUnlessTaken`, `StatusShowsTunnel` |
| `update` | 2 updates, 2 versions and a development build, 2 builds, 4 sets of flags | 166k | all properties of `SelfUpdate` that hold |
| `reload_port` | 1 edit | | violates `NoBindRace` |
| `config_ipv6` | as `config` | | violates `TunnelsListen` |
| `proxy_answer` | 1 SOCKS client | | violates `RequestsAnswered` |

Why the bounds are enough to be interesting: two runs of one supervisor are the
least that overlap, three give two generations of dying runs next to a live one; the
user's master contends for the ControlPath as a second route does, and the safety
properties are proved for any number of routes; two routes are the least that
disagree about a decision or contend for `errCh`; the networks include one that
matches a profile, one that shares its gateway only, one on another device, and none
at all; three edits allow one during each phase of a reload; two clients are the
least of which one is mid-phase while the accept loop holds the other; channels of
one slot are full most of the time; a cooldown of two has an age between *now* and
*elapsed*; two ports to pick from are the least two tunnels can get, and the most
with which they collide often; two updates are the least of which one is overtaken.
The counters that are only there to bound the state space are named `Max...`.
`CHECK_DEADLOCK FALSE` appears where the program really stops: after `Stop`, after
`runOnce` or `Run` returned, after `Shutdown`, or when a bound is used up.

### What the violations show

* `config_ipv6`: `Validate` accepts `::1` for a route's `socks_proxy.bind`, and the
  table, the PAC file and `status` name `[::1]:port`; `sshArgs` (`supervisor.go:228`)
  passes `-D ::1:port` without brackets, which ssh does not accept, so that the
  tunnel never comes up, though `config.go:52` says that the port is "always
  honored as given".
* `proxy_answer`: the deadline meant for the client's request (`server.go:19`)
  still runs while the proxy dials; a SOCKS client whose dial succeeds late is
  relayed without ever having got its reply.
* `reload_port`: `pac.Server.Shutdown` "releases the listener, blocking until it does"
  (`pac/server.go:60`), but `http.Server.Shutdown` knows only listeners that `Serve`
  has registered, in a goroutine of its own. When a reload, or a proxy listener that
  cannot start, comes before that goroutine was ever scheduled, the port stays bound
  and the next `runOnce` may fail on it, which ends `Run`. The window is small.

Five properties are stated in their modules, do not hold, and are in no run. The
instance on which each fails is named:

* `Supervisor!ControlMasterKept` (fails with one route without `-D` and two runs):
  drop and want a tunnel again while the old ssh is still exiting: the new ssh
  finds the path taken, stays up without a control socket, and the old one
  unlinks the path. The tunnel is up, the ControlMaster that `config.go:48`
  promises is gone until the next failure.
* `Daemon!SnapshotOfOneNetwork` (fails with two networks): a roam between two
  commands of one query gives a `NetState` that is of no network (`query.go:16`
  calls it a snapshot); a later recheck repairs the decision, as `Converges` shows.
* `Daemon!FallbackCovers` (fails in the `daemon` instance with `PollInterval = 1` and no
  fault): every recheck restarts the 500 ms debounce timer (`daemon.go:266`), so a
  `poll_interval` below it, which nothing rejects, restarts it for ever, and no network
  change is acted on, though polling is meant to cover for a dead monitor
  (`daemon.go:358-360`).
* `Reload!LastEditRuns` (fails with one edit and `Edits = {"old"}` or `{"early"}`): `Run`
  reloads "whenever the config file changes on disk" (`daemon.go:40`), but a file with
  an mtime that is not later than the last (`mv`, `cp -p`) is no change
  (`daemon.go:124`), and an edit between the first `Load` and the watcher's first
  `Stat` becomes the baseline and is not loaded.
* `SelfUpdate!ServiceRestarted` (fails with one update): "If the systemd user service is
  running, it's restarted onto the new binary" (`update.go:27`), but any error of
  `systemctl is-active`, such as no user bus, is taken for a service that does not run
  (`update.go:94`).

`Converges` needs `PollInterval >= Debounce`, as `FallbackCovers` shows. It also needs a
monitor that falls silent at times: lines that keep coming faster than the debounce
postpone the query as well. In the `daemon` run lines come only from roaming.

Seen on the way, in the models but without a property of their own: `Stop` waits for
the latest run only, an older one may keep its ssh for its grace period
(`StopReapsLatest` states what does hold); between probing a socket and removing it
another route's ssh may have taken the path (`RemoveSocket`); an upstream that is inside
`dial` survives `Shutdown` for up to the dial timeout (`ShutdownEndsHandlers` shows
that it does end).

## The proofs

Each `...Proofs` module extends the component it is about. The theorems hold for all
constants that satisfy the component's named assumption (`ConstantsAssumption` of `Supervisor`,
`DaemonAssumption`, `OfflineAssumption`, `ReloadAssumption`, ...); TLC evaluates these
assumptions in the runs, nothing else is assumed. No property speaks of enough
state to be inductive, so each module defines an `IInv` (checked by TLC first) that
is, and derives the properties from it.

| theorem | property | rests on |
|---|---|---|
| `SupervisorProofs!TypeCorrect`, `OneLive`, `StopReaps` | `TypeOK`, `OneLiveRun`, `StopReapsLatest` | `CancelInv`: cancel, when set, is the latest run's; `RunInv`: the runs started are those up to the latest, and all are cancelled but the latest of a desired tunnel; `SshInv`: an ssh is alive only while its run waits for it; `StopInv`: what `Stop` waits for |
| `SupervisorProofs!Refinement` | `ImplementsTunnel` | the same invariant; one lemma per action says which step of `Tunnel`, or a stutter, it is |
| `SupervisorProofs!Delays` | `DelayBounds` | bounds on the base, the cap and the capped delay, whatever the multiplication wraps to |
| `SupervisorProofs!Doubles` | `CappedExponential` | in the states of `NoOverflow`: the product is the exact one, and the last delay was drawn for the attempt counted last |
| `DaemonProofs!TypeCorrect` | `TypeOK` | types of the parts |
| `DaemonProofs!Agreement` | `Agree` | `ApplyInv`: which of tunnels, table and PAC file already follow the answer, at each place of `applyState` |
| `DaemonProofs!Wakeup` | `NoLostWakeup` | `QueryInv`: what a query under way has read so far is of the present network, unless a wakeup is pending |
| `ReloadProofs!TypeCorrect` | `TypeOK` | `CountInv`: an edit pays for one signal and a signal for one restart, so that there are at most as many lives as versions of the file |
| `ReloadProofs!OneAlive`, `ReloadIsSafe` | `OneRunOnce`, `FatalStartsOnly` | `LivesInv`, `RunInv`, `PortInv`: every life but the latest is over, only a cancelled one returns, and a PAC server has the port exactly from `Start` until its listener is closed |
| `ReloadProofs!EditsKept` | `NoLostEdit` | `NoticedInv`: what was noticed is no later than the file and was there to be read |
| `FrontProxyProofs!TypeCorrect`, `NoLateRelay`, `Waits`, `LeakFree` | `TypeOK`, `NoRelayAfterShutdown`, `ShutdownWaits`, `NoLeak` | `TrackInv`: a connection is in `conns` exactly in the phases in which its handler may use it; `ClosedInv`: once `closed` is set, what is tracked is closed; `WaitInv`: whom the WaitGroup counts |
| `SelfUpdateProofs!TypeCorrect`, `AlwaysVerified`, `NotLeftBehind`, `NoTempLeft` | `TypeOK`, `VerifiedExe`, `ServiceCurrent`, `TempRemoved` | what an update holds at each place (an archive whose build is the checksum's, a temp file that is executable before the rename), and that release and checksum of an update that has replaced the executable do not change any more |
| `SelfUpdateProofs!OnlyUp` | `NoDowngrade` | the same, that an update which got past the comparison has a higher release or `--force`, and that who finds the executable changed since its start finds another update's |
| `ConfigProofs!TypeCorrect` | `TypeOK` (in no run) | defaults and picked ports keep a config a config; the listener of `pickFreePort` is open only during a `Load` |
| `ConfigProofs!CanBind` | `BindsUnlessTaken` | `OursInv`: each of the daemon's listeners is at its own address of the config in use, which is a validated one; who holds a listener's place was then given the same text, which `Validate` rejects |
| `ConfigProofs!Shows` | `StatusShowsTunnel` | `StatusInv`: what was saved is what the config in use has, and is not replaced while that `runOnce` lasts |
| `RequestProofs!TypeCorrect`, `TransparentAlways`, `OneAnswerAlways` | `TypeOK`, `Transparent`, `OneAnswer` | `StageInv`: for each place of the handler, how much of the client's and of the server's stream has been read and what was written to either, in terms of the RFC 1928 grammar (below) |
| `RequestProofs!SameWayAlways` | `SameWay` | `DecisionsAgree`, for all routes and texts: on plain hosts table and PAC file match the same routes, so the same first one (well-foundedness of the order on numbers); decisions are for no route or for all |
| `NotifyProofs!TypeCorrect` | `TypeOK` (in no run) | types of the parts; taking from and appending to a channel within its buffer |
| `NotifyProofs!Cooldowns` | `CooldownKept` | `KeptInv`: the ages of a failure's record in memory and on disk are never above the age of what was shown, unless it could not be saved; between save and send nothing was shown within the cooldown |

The type theorems of the larger modules rest on the invariant as well, since
their `TypeOK` relates variables (a copier runs only inside `relay`, the
proxy port belongs to a life that is up). Flags are kept in a part of their own
because they are used both as formulas and as values.

What a client or a server of `Request` sends is any sequence of bytes. Two
assumptions, which TLC evaluates for the instances of the run, tie the other fields
of the records, what a client asks for (`host`, `port`, `payload`) or a server grants
(`code`, `payload`), to those bytes: `ClientsAssumption` says that a client has a host
exactly if its bytes begin with a greeting and a CONNECT request of RFC 1928, or the
head of an HTTP CONNECT, for it, and `payload` is what follows; a client without a
host, and a server with `NoCode`, may send anything else. `ServersAssumption` says the
same of the answers of `ssh -D`. The grammar (`IsGreeting`, `IsAddr`, `IsMessage`, ...)
is written down independently of the parser, so that the theorems compare the two;
they hold for streams of any content and length.

Only model-checked is everything under fairness: `TunnelKept`, `StopCompletes`,
`CancelledRunsEnd`, `Converges`, `ShutdownCompletes`, `EditApplied`, `RunReturns`,
`HandlersProgress`, `ShutdownEndsHandlers`, `PersistentFailureShown`, `ForwardersEnd`;
liveness is beyond TLAPS. `CappedExponential` for bases that do wrap is checked for
the powers of two of the run only: a product that wraps to a small positive
number makes it false. That powers of two grow is an assumption of `Backoff`
(`2 ^ i <= 2 ^ ShiftCap`), since it needs induction; TLC evaluates it.

## Not modelled

* The text of HTTP heads, of the PAC file, of JSON and YAML, the formats of a
  release and its archive, the output of commands, logging: abstracted to what
  they mean.
* Power loss: what a rename without fsync leaves behind, of the state file or of
  the executable, depends on the file system. A state file that cannot be parsed
  keeps the daemon from starting (`daemon.go:155`).
* `status`'s probes, whose results are printed, and `install` and flag parsing,
  which print or write one file and have no state of their own.

## Plan

1. `Supervisor` with `Tunnel`, `Daemon` with `NetState`, `Reload`, `FrontProxy`,
   `Backoff`, `Notify`: done.
2. `Routing` with `Request`, `Config`, `SelfUpdate`: done.
3. `System`: `Daemon` composed with `Tunnel` per route and the table read by
   connections: a connection is never sent to a route whose tunnel the daemon has
   given up for longer than one applied answer; `Daemon` with `Supervisor` in place
   of `Tunnel` by the refinement.
4. Proofs of every invariant and action property the runs check: done.
