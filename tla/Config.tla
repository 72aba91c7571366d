------------------------------- MODULE Config -------------------------------
(***************************************************************************)
(* Who listens where.  config.Load reads the file, fills in the ports left *)
(* to chance and validates the result (internal/config/config.go); the     *)
(* daemon records the addresses its tunnels got in the state file and      *)
(* binds its listeners (runOnce, sshArgs); `status` loads the same file in *)
(* a process of its own and looks the addresses up.  The file is edited    *)
(* and other programs take and release ports at any time.                  *)
(*                                                                         *)
(* Only what listening needs is left of a config, after Unmarshal onto     *)
(* Default(); the network, the ssh of a run that is over, and when an edit *)
(* is noticed are in Daemon, Supervisor and Reload.                        *)
(***************************************************************************)
EXTENDS Integers, Sequences

CONSTANTS
  Names, Binds, \* of routes, and texts for addresses
  Files,        \* Configs, see below
  Default,      \* the one of a missing file
  NoSocks, NoName, None,
  IP,           \* the texts net.ParseIP accepts, each with its address
  Loopback, Local,  \* addresses: of the loopback network, and of this machine
  Colons,       \* the bind texts with a colon in them
  DefaultBind, NoBind,
  defaultSocksPort,
  Ephemeral,    \* the ports the kernel picks from
  MaxPort,      \* 65535
  Programs      \* where other programs may listen

\* SocksProxyConfig, Route, and PACConfig or ProxyConfig.
SocksProxy == [active : BOOLEAN, bind : Binds, port : Int]
Route      == [name : Names, jump : BOOLEAN, socks : SocksProxy \cup {NoSocks}]
Listener   == [enabled : BOOLEAN, bind : Binds, port : Int]
Configs    == [routes : Seq(Route), pac : Listener, proxy : Listener]

pac   == "pac"
proxy == "proxy"

\* Two names are kept for the listeners that are no routes.
ASSUME ConfigAssumption ==
  /\ Files \subseteq Configs /\ Default \in Files
  /\ {pac, proxy} \cap Names = {}
  /\ Loopback \subseteq Local /\ DefaultBind \in DOMAIN IP \cap Binds
  /\ MaxPort \in Nat /\ Ephemeral \subseteq 1..MaxPort /\ defaultSocksPort \in 1..MaxPort

daemon == "daemon"
status == "status"
Processes == {daemon, status}

VARIABLES
  file,
  others,    \* where other programs listen
  load,      \* [Processes -> config being loaded, or the last one; None]
  held,      \* [Processes -> the listener of pickFreePort, or None]
  recorded,  \* State.SocksAddrs in the state file: [names -> <<bind, port>>]
  pc,        \* of Run and runOnce
  cfg,       \* the config runOnce was called with
  ours,      \* [the daemon's listeners -> where they listen]
  spc, shown, \* status: where it is, and the addresses it shows
  saved,     \* history: runOnce's addresses got into the state file
  current    \* history: they had when status read it, and the same runOnce goes on

world  == <<file, others>>
loads  == <<load, held>>
run    == <<pc, cfg, ours, saved>>
asking == <<spc, shown, current>>
vars   == <<world, loads, recorded, run, asking>>

NoAddrs == [l \in {} |-> <<>>]

Init ==
  /\ file \in Files
  /\ others = {}
  /\ load = [p \in Processes |-> None] /\ held = [p \in Processes |-> None]
  /\ recorded = NoAddrs
  /\ pc = "down" /\ cfg = Default /\ ours = NoAddrs
  /\ spc = "idle" /\ shown = NoAddrs
  /\ saved = FALSE /\ current = FALSE

-----------------------------------------------------------------------------
(* Listeners: the tunnels by the names of their routes, and two more.       *)

socksAddrs(c) ==
  LET socks == {i \in 1..Len(c.routes) : c.routes[i].socks # NoSocks}
  IN  [n \in {c.routes[i].name : i \in socks} |->
         LET i == CHOOSE j \in socks : c.routes[j].name = n
         IN  <<c.routes[i].socks.bind, c.routes[i].socks.port>>]

\* net.JoinHostPort, for every listener that is enabled.
addrs(c) ==
  LET servers == {s \in {pac, proxy} : c[s].enabled}
  IN  [l \in DOMAIN socksAddrs(c) \cup servers |->
         IF l \in servers THEN <<c[l].bind, c[l].port>> ELSE socksAddrs(c)[l]]

Range(f) == {f[x] : x \in DOMAIN f}

Held == {held[p] : p \in Processes} \ {None}

Used == others \cup Held \cup Range(ours)

\* What net.Listen(bind:port) may bind: for port 0 a free port of the kernel's choice.
Bindable(addr) ==
  IF addr[1] \notin DOMAIN IP \/ IP[addr[1]] \notin Local THEN {}
  ELSE {<<IP[addr[1]], q>> : q \in IF addr[2] = 0 THEN Ephemeral ELSE {addr[2]} \cap 1..MaxPort}
       \ Used

\* What ssh makes of -D bind:port.  A bind with a colon would need brackets:
\* ssh does not accept the argument, and ends.
sshBindable(addr) == IF addr[1] \in Colons THEN {} ELSE Bindable(addr)

-----------------------------------------------------------------------------
(* config.Load of process p.                                                *)

\* applyRouteDefaults, but for the ports to be picked.
withDefaults(c) ==
  [c EXCEPT !.routes = [i \in 1..Len(c.routes) |->
     LET r == c.routes[i] IN
     IF r.socks = NoSocks THEN r
     ELSE [r EXCEPT !.socks.bind = IF @ = NoBind THEN DefaultBind ELSE @,
                    !.socks.port = IF @ = 0 /\ ~r.socks.active THEN defaultSocksPort ELSE @]]]

toPick(c) == {i \in 1..Len(c.routes) : c.routes[i].socks # NoSocks /\ c.routes[i].socks.port = 0}

ReadFile(p) == load' = [load EXCEPT ![p] = withDefaults(file)]
Return(p)   == load' = [load EXCEPT ![p] = None] /\ UNCHANGED held

\* pickFreePort for the first route that still needs a port: Listen, then Close.
PickListen(p) ==
  \E i \in toPick(load[p]) :
    /\ \A j \in toPick(load[p]) : i <= j
    /\ held[p] = None
    /\ \E addr \in Bindable(<<load[p].routes[i].socks.bind, 0>>) :
         /\ held' = [held EXCEPT ![p] = addr]
         /\ load' = [load EXCEPT ![p].routes[i].socks.port = addr[2]]

PickClose(p) == held[p] # None /\ held' = [held EXCEPT ![p] = None]

PickFails(p) ==
  \E i \in toPick(load[p]) :
    /\ \A j \in toPick(load[p]) : i <= j
    /\ held[p] = None
    /\ Bindable(<<load[p].routes[i].socks.bind, 0>>) = {}

loopback(bind) == bind \in DOMAIN IP /\ IP[bind] \in Loopback

\* Mutant: the tunnels' addresses are not put into seenAddrs.
distinctServers(c) ==
  \A l, m \in DOMAIN addrs(c) \cap {pac, proxy} : addrs(c)[l] = addrs(c)[m] => l = m

\* seenAddrs: no two listeners with the same text for an address.
distinct(c) == \A l, m \in DOMAIN addrs(c) : addrs(c)[l] = addrs(c)[m] => l = m

Validate(c) ==
  /\ \A i, j \in 1..Len(c.routes) : c.routes[i].name = c.routes[j].name => i = j
  /\ \A i \in 1..Len(c.routes) : c.routes[i].name # NoName /\ c.routes[i].jump
  /\ \A l \in DOMAIN addrs(c) : loopback(addrs(c)[l][1])
  /\ c.proxy.enabled => c.proxy.port \in 1..MaxPort
  /\ distinct(c)

Picked(p) == held[p] = None /\ toPick(load[p]) = {}

Loaded(p)    == Picked(p) /\ Validate(load[p]) /\ Return(p)
LoadFails(p) == (PickFails(p) \/ (Picked(p) /\ ~Validate(load[p]))) /\ Return(p)

-----------------------------------------------------------------------------
(* The daemon.                                                              *)

\* `ssh-autoproxy daemon`, also started again by systemd.
Start ==
  /\ pc = "down" /\ ReadFile(daemon) /\ pc' = "loading"
  /\ UNCHANGED <<world, held, recorded, cfg, ours, saved, asking>>

\* A change of the file was noticed while a runOnce runs.
Reload ==
  /\ pc = "serving" /\ ReadFile(daemon) /\ pc' = "reloading"
  /\ UNCHANGED <<world, held, recorded, cfg, ours, saved, asking>>

Pick(p) ==
  /\ IF p = daemon THEN pc \in {"loading", "reloading"} ELSE spc = "loading"
  /\ PickListen(p) \/ (PickClose(p) /\ UNCHANGED load)
  /\ UNCHANGED <<world, recorded, run, asking>>

DaemonLoadFails ==
  /\ \/ pc = "loading" /\ pc' = "down"
     \/ pc = "reloading" /\ pc' = "serving"
  /\ LoadFails(daemon)
  /\ UNCHANGED <<world, recorded, cfg, ours, saved, asking>>

FirstRun ==
  /\ pc = "loading" /\ Loaded(daemon)
  /\ pc' = "begin" /\ cfg' = load[daemon]
  /\ UNCHANGED <<world, recorded, ours, saved, asking>>

Save == recorded' = socksAddrs(cfg)

\* The end of a runOnce: Stop of every supervisor, Close of the servers.
closeAll == ours' = NoAddrs

\* cancel and <-errCh: the listeners are closed, the state saved, or not; then
\* the next runOnce.
NextRun ==
  /\ pc = "reloading" /\ Loaded(daemon)
  /\ closeAll /\ saved' = FALSE /\ current' = FALSE
  /\ Save \/ UNCHANGED recorded
  /\ pc' = "begin" /\ cfg' = load[daemon]
  /\ UNCHANGED <<world, spc, shown>>

\* runOnce saves the tunnels' addresses, and only warns when that fails.
Record ==
  /\ pc = "begin" /\ pc' = "pac"
  /\ \/ Save /\ saved' = TRUE
     \/ UNCHANGED <<recorded, saved>>
  /\ UNCHANGED <<world, loads, cfg, ours, asking>>

Listen(l, where) == ours' = [m \in DOMAIN ours \cup {l} |-> IF m = l THEN where ELSE ours[m]]

BindServer(l, now, next) ==
  /\ pc = now
  /\ \/ ~cfg[l].enabled /\ pc' = next /\ UNCHANGED ours
     \/ /\ cfg[l].enabled
        /\ \E where \in Bindable(addrs(cfg)[l]) : Listen(l, where)
        /\ pc' = next
     \/ \* runOnce returns the error, and so does Run
        /\ cfg[l].enabled /\ Bindable(addrs(cfg)[l]) = {}
        /\ closeAll /\ pc' = "down"
  /\ saved' = (saved /\ pc' # "down") /\ current' = (current /\ pc' # "down")
  /\ UNCHANGED <<world, loads, recorded, cfg, spc, shown>>

BindPac   == BindServer(pac, "pac", "proxy")
BindProxy == BindServer(proxy, "proxy", "serving")

Serving == pc \in {"serving", "reloading"}

\* The ssh of route n logs in and binds its -D; it ends if it cannot, and is
\* tried again.
BindTunnel(n) ==
  /\ Serving
  /\ n \in DOMAIN socksAddrs(cfg) /\ n \notin DOMAIN ours
  /\ \E where \in sshBindable(socksAddrs(cfg)[n]) : Listen(n, where)
  /\ UNCHANGED <<world, loads, recorded, pc, cfg, saved, asking>>

\* The ssh ends: the route is direct now, or it failed.
DropTunnel(n) ==
  /\ Serving
  /\ n \in DOMAIN socksAddrs(cfg) \cap DOMAIN ours
  /\ ours' = [m \in DOMAIN ours \ {n} |-> ours[m]]
  /\ UNCHANGED <<world, loads, recorded, pc, cfg, saved, asking>>

\* handleErrorCategory, when a notification is due: the whole state is saved.
SaveAgain ==
  /\ Serving /\ Save /\ saved' = TRUE
  /\ UNCHANGED <<world, loads, pc, cfg, ours, asking>>

\* A signal, with the last save or without; a crash or another error, at any time.
Quit ==
  /\ pc # "down" /\ pc' = "down"
  /\ load' = [load EXCEPT ![daemon] = None] /\ held' = [held EXCEPT ![daemon] = None]
  /\ closeAll /\ saved' = FALSE /\ current' = FALSE
  /\ (Serving /\ Save) \/ UNCHANGED recorded
  /\ UNCHANGED <<world, cfg, spc, shown>>

-----------------------------------------------------------------------------
(* `ssh-autoproxy status`.                                                  *)

StatusStart ==
  /\ spc = "idle" /\ ReadFile(status) /\ spc' = "loading"
  /\ UNCHANGED <<world, held, recorded, run, shown, current>>

\* Mutant: by its own config.
showOwn(own) == own

\* The address to try for every route of its own config.
show(own) == [n \in DOMAIN own |-> IF n \in DOMAIN recorded THEN recorded[n] ELSE own[n]]

\* The end of its Load, and the state file.
StatusReads ==
  /\ spc = "loading" /\ Loaded(status)
  /\ shown' = show(socksAddrs(load[status]))
  /\ spc' = "shown"
  /\ current' = saved
  /\ UNCHANGED <<world, recorded, run>>

\* Its own Load or its query of the network fails, or all has been printed.
StatusEnds ==
  /\ \/ spc = "loading" /\ (LoadFails(status) \/ Loaded(status))
     \/ spc = "shown" /\ UNCHANGED loads
  /\ spc' = "idle" /\ shown' = NoAddrs /\ current' = FALSE
  /\ UNCHANGED <<world, recorded, run>>

-----------------------------------------------------------------------------
(* The user's editor and other programs.                                    *)

Edit ==
  /\ file' \in Files \ {file}
  /\ UNCHANGED <<others, loads, recorded, run, asking>>

OthersChange ==
  /\ \/ \E where \in Programs \ Used : others' = others \cup {where}
     \/ \E where \in others : others' = others \ {where}
  /\ UNCHANGED <<file, loads, recorded, run, asking>>

Next ==
  \/ Start \/ Reload \/ DaemonLoadFails \/ FirstRun \/ NextRun \/ Record
  \/ BindPac \/ BindProxy \/ SaveAgain \/ Quit
  \/ StatusStart \/ StatusReads \/ StatusEnds \/ Edit \/ OthersChange
  \/ \E p \in Processes : Pick(p)
  \/ \E n \in DOMAIN socksAddrs(cfg) : BindTunnel(n) \/ DropTunnel(n)

Spec == Init /\ [][Next]_vars
-----------------------------------------------------------------------------
(* Properties.                                                              *)

TypeOK ==
  /\ file \in Files /\ others \subseteq Programs
  /\ load \in [Processes -> Configs \cup {None}]
  /\ held \in [Processes -> (Local \X Ephemeral) \cup {None}]
  /\ pc \in {"down", "loading", "begin", "pac", "proxy", "serving", "reloading"}
  /\ spc \in {"idle", "loading", "shown"}
  /\ pc \in {"loading", "reloading"} => load[daemon] \in Configs
  /\ spc = "loading" => load[status] \in Configs
  /\ held[daemon] # None => pc \in {"loading", "reloading"}
  /\ held[status] # None => spc = "loading"
  /\ cfg \in Configs /\ DOMAIN ours \subseteq DOMAIN addrs(cfg)
  /\ {saved, current} \subseteq BOOLEAN

Waiting == IF Serving \/ pc \in {"pac", "proxy"} THEN DOMAIN addrs(cfg) \ DOMAIN ours ELSE {}

MayBind(l) ==
  (IF l \in {pac, proxy} THEN Bindable(addrs(cfg)[l]) ELSE sshBindable(addrs(cfg)[l])) # {}

\* Where net.ParseIP and the port say l listens.
Place(l) == <<IP[addrs(cfg)[l][1]], addrs(cfg)[l][2]>>

\* Validate (config.go:243): "no two enabled listeners share a bind:port".
\* Whatever ports were picked, and whatever ran at the time, a listener of the
\* config in use can be bound; unless another program is there or is just
\* trying ports, the config spells one address in two ways or leaves a port to
\* the kernel, has a pac or socks port out of range, or a tunnel on an IPv6 address.
BindsUnlessTaken ==
  \A l \in Waiting :
    \/ MayBind(l)
    \/ Place(l) \in others \cup Held
    \/ \E m \in DOMAIN ours : /\ ours[m] = Place(l)
                             /\ (addrs(cfg)[m][1] # addrs(cfg)[l][1] \/ addrs(cfg)[m][2] = 0)
    \/ addrs(cfg)[l][2] \notin 0..MaxPort
    \/ addrs(cfg)[l][2] = 0 /\ \A q \in Ephemeral : <<Place(l)[1], q>> \in Used
    \/ l \notin {pac, proxy} /\ addrs(cfg)[l][1] \in Colons

\* status.go:39: "this process's own config load may have picked different
\* random ports": the address status shows for a tunnel is the one the daemon's
\* ssh was given, whatever the two loads picked and the file has become, for as
\* long as that runOnce lasts; unless its addresses were never saved.
StatusShowsTunnel ==
  spc = "shown" /\ current =>
    \A n \in DOMAIN shown \cap DOMAIN socksAddrs(cfg) : shown[n] = socksAddrs(cfg)[n]

\* config.go:52: "An explicit Port is always honored as given", on the loopback
\* address given: a tunnel of the config in use can be bound if its place is free.
TunnelsListen ==
  Serving => \A n \in DOMAIN socksAddrs(cfg) \ DOMAIN ours :
    Place(n)[2] \in 1..MaxPort /\ Place(n) \notin Used => sshBindable(socksAddrs(cfg)[n]) # {}
=============================================================================
