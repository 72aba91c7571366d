---------------------------- MODULE ConfigProofs ----------------------------
(***************************************************************************)
(* Proofs about Config, for all config files, addresses, port ranges and   *)
(* other programs.                                                         *)
(*                                                                         *)
(* BindsUnlessTaken speaks of a listener that is not there yet; what it    *)
(* needs is where the others are (OursInv): each at its own address of the *)
(* config in use, a validated one.                                         *)
(***************************************************************************)
EXTENDS Config, TLAPS

At(c, m, where) ==
  \E q \in 1..MaxPort :
    where = <<IP[addrs(c)[m][1]], q>> /\ (addrs(c)[m][2] # 0 => q = addrs(c)[m][2])

OursInv ==
  /\ pc \notin {"down", "loading"} => Validate(cfg)
  /\ pc \in {"down", "loading", "begin"} => ours = NoAddrs
  /\ \A m \in DOMAIN ours : At(cfg, m, ours[m])

\* What runOnce saved is what status reads, as long as that runOnce goes on.
StatusInv ==
  /\ {saved, current} \subseteq BOOLEAN
  /\ current => saved
  /\ pc \in {"down", "loading", "begin"} => ~saved
  /\ saved => recorded = socksAddrs(cfg)
  /\ StatusShowsTunnel

-----------------------------------------------------------------------------
(* Lemmas about the operators.                                              *)

\* Filling in the defaults, and a picked port, keep a config a config.
LEMMA DefaultsKeep == ASSUME NEW c \in Configs PROVE withDefaults(c) \in Configs
<1> DEFINE d(i) ==
     LET r == c.routes[i] IN
     IF r.socks = NoSocks THEN r
     ELSE [r EXCEPT !.socks.bind = IF @ = NoBind THEN DefaultBind ELSE @,
                    !.socks.port = IF @ = 0 /\ ~r.socks.active THEN defaultSocksPort ELSE @]
<1>1. c.routes \in Seq(Route) /\ Len(c.routes) \in Nat
  BY DEF Configs
<1>2. ASSUME NEW i \in 1..Len(c.routes) PROVE d(i) \in Route
  <2>1. c.routes[i] \in Route BY <1>1
  <2>2. CASE c.routes[i].socks = NoSocks BY <2>1, <2>2
  <2>3. CASE c.routes[i].socks # NoSocks
    <3>1. c.routes[i].socks \in SocksProxy BY <2>1, <2>3 DEF Route
    <3> DEFINE s == c.routes[i].socks
               b == IF s.bind = NoBind THEN DefaultBind ELSE s.bind
               p == IF s.port = 0 /\ ~s.active THEN defaultSocksPort ELSE s.port
    <3>2. b \in Binds /\ p \in Int BY <3>1, ConfigAssumption DEF SocksProxy
    <3>3. d(i) = [c.routes[i] EXCEPT !.socks = [s EXCEPT !.bind = b, !.port = p]]
      BY <2>1, <2>3, <3>1 DEF Route, SocksProxy
    <3> HIDE DEF b, p
    <3>4. [s EXCEPT !.bind = b, !.port = p] \in SocksProxy BY <3>1, <3>2 DEF SocksProxy
    <3> HIDE DEF s, d
    <3> QED BY <2>1, <3>3, <3>4 DEF Route
  <2> QED BY <2>2, <2>3
<1> DEFINE rs == [i \in 1..Len(c.routes) |-> d(i)]
<1>3. rs \in Seq(Route)
  <2> HIDE DEF d
  <2> QED BY <1>1, <1>2
<1>4. withDefaults(c) = [c EXCEPT !.routes = rs] BY DEF withDefaults
<1> HIDE DEF rs
<1> QED BY <1>3, <1>4 DEF Configs

LEMMA PickKeeps ==
  ASSUME NEW c \in Configs, NEW i \in toPick(c), NEW q \in Int
  PROVE  [c EXCEPT !.routes[i].socks.port = q] \in Configs
<1>1. c.routes \in Seq(Route) /\ i \in 1..Len(c.routes) /\ c.routes[i].socks # NoSocks
  BY DEF Configs, toPick
<1>2. c.routes[i] \in Route BY <1>1
<1>3. c.routes[i].socks \in SocksProxy BY <1>1, <1>2 DEF Route
<1>4. [c.routes[i].socks EXCEPT !.port = q] \in SocksProxy BY <1>3 DEF SocksProxy
<1>5. [c.routes[i] EXCEPT !.socks.port = q] \in Route BY <1>2, <1>4 DEF Route
<1>6. [c.routes EXCEPT ![i].socks.port = q] \in Seq(Route) BY <1>1, <1>5
<1> QED BY <1>6 DEF Configs

\* A listener's address is a pair, and a tunnel's the one of its route, since no
\* route is called pac or proxy.
LEMMA Addresses ==
  ASSUME NEW c \in Configs
  PROVE  /\ \A l \in {pac, proxy} : c[l].enabled => l \in DOMAIN addrs(c)
         /\ \A l \in DOMAIN addrs(c) :
              /\ addrs(c)[l] = <<addrs(c)[l][1], addrs(c)[l][2]>>
              /\ addrs(c)[l][2] \in Int
         /\ \A n \in DOMAIN socksAddrs(c) : /\ n \in DOMAIN addrs(c) /\ n \notin {pac, proxy}
                                            /\ addrs(c)[n] = socksAddrs(c)[n]
<1> DEFINE socks == {i \in 1..Len(c.routes) : c.routes[i].socks # NoSocks}
           servers == {s \in {pac, proxy} : c[s].enabled}
           pick(n) == CHOOSE j \in socks : c.routes[j].name = n
<1>1. \A i \in socks : c.routes[i].name \in Names /\ c.routes[i].socks \in SocksProxy
  <2> TAKE i \in socks
  <2>1. c.routes \in Seq(Route) /\ i \in 1..Len(c.routes) /\ c.routes[i].socks # NoSocks
    BY DEF Configs
  <2>2. c.routes[i] \in Route BY <2>1
  <2> QED BY <2>1, <2>2 DEF Route
<1>2. DOMAIN socksAddrs(c) = {c.routes[i].name : i \in socks}
  BY DEF socksAddrs
<1>3. ASSUME NEW n \in DOMAIN socksAddrs(c)
      PROVE  /\ n \in Names
             /\ pick(n) \in socks
             /\ socksAddrs(c)[n] = <<c.routes[pick(n)].socks.bind, c.routes[pick(n)].socks.port>>
             /\ socksAddrs(c)[n][2] \in Int
  <2>1. PICK i \in socks : n = c.routes[i].name BY <1>2
  <2>2. pick(n) \in socks BY <2>1
  <2>3. socksAddrs(c)[n] = <<c.routes[pick(n)].socks.bind, c.routes[pick(n)].socks.port>>
    BY <1>2 DEF socksAddrs
  <2>4. n \in Names BY <1>1, <2>1
  <2>5. c.routes[pick(n)].socks.port \in Int BY <1>1, <2>2 DEF SocksProxy
  <2> HIDE DEF pick, socks
  <2> QED BY <2>2, <2>3, <2>4, <2>5
<1>4. DOMAIN addrs(c) = DOMAIN socksAddrs(c) \cup servers BY DEF addrs
<1>5. \A l \in servers : addrs(c)[l] = <<c[l].bind, c[l].port>> BY <1>4 DEF addrs
<1>6. \A l \in {pac, proxy} : c[l] \in Listener BY DEF Configs, pac, proxy
<1>7. \A l \in servers : c[l].port \in Int BY <1>6 DEF Listener
<1>8. \A n \in DOMAIN socksAddrs(c) : n \notin {pac, proxy} BY <1>3, ConfigAssumption
<1>9. \A n \in DOMAIN socksAddrs(c) : addrs(c)[n] = socksAddrs(c)[n]
  BY <1>4, <1>8 DEF addrs
<1>10. ASSUME NEW l \in DOMAIN addrs(c)
       PROVE  addrs(c)[l] = <<addrs(c)[l][1], addrs(c)[l][2]>> /\ addrs(c)[l][2] \in Int
  <2> HIDE DEF pick, socks, servers
  <2>1. CASE l \in servers BY <2>1, <1>5, <1>7
  <2>2. CASE l \in DOMAIN socksAddrs(c) BY <2>2, <1>3, <1>9
  <2> QED BY <2>1, <2>2, <1>4
<1>11. \A l \in {pac, proxy} : c[l].enabled => l \in DOMAIN addrs(c) BY <1>4
<1> HIDE DEF pick, socks, servers
<1> QED BY <1>4, <1>8, <1>9, <1>10, <1>11

\* Where the kernel lets a listener be.
LEMMA Binding ==
  ASSUME NEW b, NEW k, NEW where \in Bindable(<<b, k>>)
  PROVE  /\ \E q \in 1..MaxPort : where = <<IP[b], q>> /\ (k # 0 => q = k)
         /\ k = 0 => where \in Local \X Ephemeral
<1>1. b \in DOMAIN IP /\ IP[b] \in Local BY DEF Bindable
<1>2. PICK q \in IF k = 0 THEN Ephemeral ELSE {k} \cap 1..MaxPort : where = <<IP[b], q>>
  BY <1>1 DEF Bindable
<1>3. q \in 1..MaxPort /\ (k # 0 => q = k) /\ (k = 0 => q \in Ephemeral)
  BY <1>2, ConfigAssumption
<1>4. \E r \in 1..MaxPort : where = <<IP[b], r>> /\ (k # 0 => r = k)
  BY <1>2, <1>3, Zenon
<1>5. k = 0 => where \in Local \X Ephemeral BY <1>1, <1>2, <1>3
<1> QED BY <1>4, <1>5

-----------------------------------------------------------------------------
(* Types.                                                                   *)

LoadsOK ==
  /\ load \in [Processes -> Configs \cup {None}]
  /\ held \in [Processes -> (Local \X Ephemeral) \cup {None}]

LEMMA ReadKeeps ==
  ASSUME NEW p \in Processes, LoadsOK, file \in Files, ReadFile(p)
  PROVE  /\ load' \in [Processes -> Configs \cup {None}]
         /\ load'[p] \in Configs
         /\ \A r \in Processes \ {p} : load'[r] = load[r]
<1>1. withDefaults(file) \in Configs BY DefaultsKeep, ConfigAssumption
<1> QED BY <1>1 DEF LoadsOK, ReadFile

LEMMA ReturnKeeps ==
  ASSUME NEW p \in Processes, LoadsOK, Return(p)
  PROVE  LoadsOK' /\ \A r \in Processes \ {p} : load'[r] = load[r]
  BY DEF LoadsOK, Return

LEMMA PickListenKeeps ==
  ASSUME NEW p \in Processes, LoadsOK, load[p] \in Configs,
         PickListen(p) \/ (PickClose(p) /\ UNCHANGED load)
  PROVE  /\ LoadsOK' /\ load'[p] \in Configs
         /\ \A r \in Processes \ {p} : load'[r] = load[r] /\ held'[r] = held[r]
<1>1. CASE PickListen(p)
  <2>1. PICK i \in toPick(load[p]) :
          \E addr \in Bindable(<<load[p].routes[i].socks.bind, 0>>) :
             /\ held' = [held EXCEPT ![p] = addr]
             /\ load' = [load EXCEPT ![p].routes[i].socks.port = addr[2]]
    BY <1>1 DEF PickListen
  <2>2. PICK addr \in Bindable(<<load[p].routes[i].socks.bind, 0>>) :
             /\ held' = [held EXCEPT ![p] = addr]
             /\ load' = [load EXCEPT ![p].routes[i].socks.port = addr[2]]
    BY <2>1
  <2>3. addr \in Local \X Ephemeral BY Binding
  <2>4. addr[2] \in Int
    <3>1. addr[2] \in Ephemeral BY <2>3
    <3>2. Ephemeral \subseteq Int BY ConfigAssumption
    <3> QED BY <3>1, <3>2
  <2> DEFINE c == [load[p] EXCEPT !.routes[i].socks.port = addr[2]]
  <2>5. c \in Configs BY <2>4, PickKeeps
  <2>6. load' = [load EXCEPT ![p] = c] BY <2>2
  <2> HIDE DEF c
  <2> QED BY <2>2, <2>3, <2>5, <2>6 DEF LoadsOK
<1>2. CASE PickClose(p) /\ UNCHANGED load BY <1>2 DEF PickClose, LoadsOK
<1> QED BY <1>1, <1>2

LEMMA TypeStep == ASSUME TypeOK, OursInv, [Next]_vars PROVE TypeOK'
<1> USE DEF world, loads, run, asking, Processes, daemon, status
<1>0. LoadsOK BY DEF TypeOK, LoadsOK
<1>1. CASE Start
  <2>1. ReadFile(daemon) BY <1>1 DEF Start
  <2>2. file \in Files BY DEF TypeOK
  <2> QED BY <1>0, <1>1, <2>1, <2>2, ReadKeeps DEF Start, TypeOK
<1>2. CASE Reload
  <2>1. ReadFile(daemon) BY <1>2 DEF Reload
  <2>2. file \in Files BY DEF TypeOK
  <2> QED BY <1>0, <1>2, <2>1, <2>2, ReadKeeps DEF Reload, TypeOK
<1>3. CASE StatusStart
  <2>1. ReadFile(status) BY <1>3 DEF StatusStart
  <2>2. file \in Files BY DEF TypeOK
  <2> QED BY <1>0, <1>3, <2>1, <2>2, ReadKeeps DEF StatusStart, TypeOK
<1>4. CASE DaemonLoadFails
  <2>1. Return(daemon) /\ held[daemon] = None
    BY <1>4 DEF DaemonLoadFails, LoadFails, PickFails, Picked
  <2> QED BY <1>0, <1>4, <2>1, ReturnKeeps DEF DaemonLoadFails, TypeOK, LoadsOK, Return
<1>5. CASE FirstRun
  <2>1. Return(daemon) /\ held[daemon] = None BY <1>5 DEF FirstRun, Loaded, Picked
  <2>2. ours = NoAddrs BY <1>5 DEF FirstRun, OursInv
  <2> QED BY <1>0, <1>5, <2>1, <2>2, ReturnKeeps DEF FirstRun, TypeOK, LoadsOK, Return, NoAddrs
<1>6. CASE NextRun
  <2>1. Return(daemon) /\ held[daemon] = None BY <1>6 DEF NextRun, Loaded, Picked
  <2> QED BY <1>0, <1>6, <2>1, ReturnKeeps
       DEF NextRun, TypeOK, LoadsOK, Return, NoAddrs, closeAll
<1>7. CASE Record BY <1>7 DEF Record, TypeOK
<1>8. CASE BindPac \/ BindProxy
  <2>1. PICK l \in {pac, proxy}, now \in {"pac", "proxy"}, next \in {"proxy", "serving"} :
          BindServer(l, now, next)
    BY <1>8 DEF BindPac, BindProxy
  <2>2. l \in DOMAIN addrs(cfg) \/ ~cfg[l].enabled BY Addresses DEF TypeOK
  <2>3. addrs(cfg)' = addrs(cfg) BY <2>1 DEF BindServer
  <2>4. DOMAIN ours' \subseteq DOMAIN addrs(cfg)
    BY <2>1, <2>2 DEF BindServer, TypeOK, Listen, closeAll, NoAddrs
  <2> QED BY <2>1, <2>3, <2>4 DEF BindServer, TypeOK
<1>9. CASE SaveAgain BY <1>9 DEF SaveAgain, TypeOK
<1>10. CASE Quit
  BY <1>0, <1>10 DEF Quit, TypeOK, LoadsOK, closeAll, NoAddrs
<1>11. CASE StatusReads
  <2>1. Return(status) /\ held[status] = None BY <1>11 DEF StatusReads, Loaded, Picked
  <2> QED BY <1>0, <1>11, <2>1, ReturnKeeps DEF StatusReads, TypeOK, LoadsOK, Return
<1>12. CASE StatusEnds
  <2>1. CASE spc = "loading" /\ (LoadFails(status) \/ Loaded(status))
    <3>1. Return(status) /\ held[status] = None
      BY <2>1 DEF LoadFails, Loaded, PickFails, Picked
    <3> QED BY <1>0, <1>12, <3>1, ReturnKeeps DEF StatusEnds, TypeOK, LoadsOK, Return
  <2>2. CASE spc = "shown" /\ UNCHANGED loads BY <1>12, <2>2 DEF StatusEnds, TypeOK
  <2> QED BY <1>12, <2>1, <2>2 DEF StatusEnds
<1>13. CASE Edit \/ OthersChange BY <1>13 DEF Edit, OthersChange, TypeOK
<1>14. ASSUME NEW p \in Processes, Pick(p) PROVE TypeOK'
  <2>1. load[p] \in Configs BY <1>14 DEF Pick, TypeOK
  <2>2. PickListen(p) \/ (PickClose(p) /\ UNCHANGED load) BY <1>14 DEF Pick
  <2> QED BY <1>0, <1>14, <2>1, <2>2, PickListenKeeps DEF Pick, TypeOK, LoadsOK
<1>15. ASSUME NEW n \in DOMAIN socksAddrs(cfg), BindTunnel(n) \/ DropTunnel(n)
       PROVE  TypeOK'
  <2>1. n \in DOMAIN addrs(cfg) BY Addresses DEF TypeOK
  <2>2. addrs(cfg)' = addrs(cfg) BY <1>15 DEF BindTunnel, DropTunnel
  <2>3. DOMAIN ours' \subseteq DOMAIN addrs(cfg)
    BY <1>15, <2>1 DEF BindTunnel, DropTunnel, TypeOK, Listen
  <2> QED BY <1>15, <2>2, <2>3 DEF BindTunnel, DropTunnel, TypeOK
<1>16. CASE UNCHANGED vars BY <1>16 DEF vars, TypeOK
<1> QED BY <1>1, <1>2, <1>3, <1>4, <1>5, <1>6, <1>7, <1>8, <1>9, <1>10, <1>11, <1>12,
          <1>13, <1>14, <1>15, <1>16 DEF Next

-----------------------------------------------------------------------------
(* Where the listeners are.                                                 *)

\* One more listener, at its address of the config in use.
LEMMA ListenKeeps ==
  ASSUME TypeOK, OursInv, NEW l \in DOMAIN addrs(cfg), NEW where \in Bindable(addrs(cfg)[l]),
         Listen(l, where), UNCHANGED cfg, pc \notin {"down", "loading"},
         pc' \notin {"down", "loading", "begin"}
  PROVE  OursInv'
<1>1. addrs(cfg)[l] = <<addrs(cfg)[l][1], addrs(cfg)[l][2]>> BY Addresses DEF TypeOK
<1>2. where \in Bindable(<<addrs(cfg)[l][1], addrs(cfg)[l][2]>>) BY <1>1
<1>3. At(cfg, l, where) BY <1>2, Binding DEF At
<1>4. \A m \in DOMAIN ours' : /\ ours'[m] = IF m = l THEN where ELSE ours[m]
                              /\ m = l \/ m \in DOMAIN ours
  BY DEF Listen
<1>5. \A m \in DOMAIN ours' : At(cfg, m, ours'[m])
  BY <1>3, <1>4, Zenon DEF OursInv
<1> QED BY <1>5 DEF OursInv

LEMMA OursStep == ASSUME TypeOK, OursInv, [Next]_vars PROVE OursInv'
<1> USE DEF world, loads, run, asking
<1>1. CASE UNCHANGED <<pc, cfg, ours>> BY <1>1, Zenon DEF OursInv
<1>2. CASE Start BY <1>2 DEF Start, OursInv, NoAddrs
<1>3. CASE Reload
  <2>1. pc \notin {"down", "loading"} /\ pc' \notin {"down", "loading", "begin"}
        /\ UNCHANGED <<cfg, ours>>
    BY <1>3 DEF Reload
  <2> QED BY <2>1, Zenon DEF OursInv
<1>4. CASE DaemonLoadFails
  <2>1. UNCHANGED <<cfg, ours>> BY <1>4 DEF DaemonLoadFails
  <2>2. \/ pc = "loading" /\ pc' = "down"
        \/ pc \notin {"down", "loading"} /\ pc' \notin {"down", "loading", "begin"}
    BY <1>4 DEF DaemonLoadFails
  <2>3. CASE pc = "loading" /\ pc' = "down" BY <2>1, <2>3, Zenon DEF OursInv
  <2>4. CASE pc \notin {"down", "loading"} /\ pc' \notin {"down", "loading", "begin"}
    BY <2>1, <2>4, Zenon DEF OursInv
  <2> QED BY <2>2, <2>3, <2>4
<1>5. CASE FirstRun \/ NextRun
  <2>1. Validate(load[daemon]) /\ cfg' = load[daemon] BY <1>5 DEF FirstRun, NextRun, Loaded
  <2>2. Validate(cfg') BY <2>1
  <2>3. ours' = NoAddrs BY <1>5 DEF FirstRun, NextRun, closeAll, OursInv
  <2>4. DOMAIN ours' = {} BY <2>3 DEF NoAddrs
  <2> QED BY <2>2, <2>3, <2>4, Zenon DEF OursInv
<1>6. CASE Record
  <2>1. pc = "begin" /\ pc' = "pac" /\ UNCHANGED <<cfg, ours>> BY <1>6 DEF Record
  <2> QED BY <2>1 DEF OursInv
<1>7. CASE BindPac \/ BindProxy
  <2>1. PICK l \in {pac, proxy}, now \in {"pac", "proxy"}, next \in {"proxy", "serving"} :
          BindServer(l, now, next)
    BY <1>7 DEF BindPac, BindProxy
  <2>2. pc \in {"pac", "proxy"} /\ UNCHANGED cfg BY <2>1 DEF BindServer
  <2>3. CASE UNCHANGED ours /\ pc' = next BY <2>2, <2>3 DEF OursInv
  <2>4. CASE /\ cfg[l].enabled /\ pc' = next
             /\ \E where \in Bindable(addrs(cfg)[l]) : Listen(l, where)
    <3>1. l \in DOMAIN addrs(cfg) BY <2>4, Addresses DEF TypeOK
    <3> QED BY <2>2, <2>4, <3>1, ListenKeeps
  <2>5. CASE closeAll /\ pc' = "down"
    <3>1. DOMAIN ours' = {} BY <2>5 DEF closeAll, NoAddrs
    <3> QED BY <2>5, <3>1 DEF OursInv, closeAll
  <2> QED BY <2>1, <2>3, <2>4, <2>5 DEF BindServer
<1>8. CASE Quit
  <2>1. DOMAIN ours' = {} BY <1>8 DEF Quit, closeAll, NoAddrs
  <2> QED BY <1>8, <2>1 DEF OursInv, Quit, closeAll
<1>9. ASSUME NEW n \in DOMAIN socksAddrs(cfg), BindTunnel(n) PROVE OursInv'
  <2>1. n \in DOMAIN addrs(cfg) /\ addrs(cfg)[n] = socksAddrs(cfg)[n] BY Addresses DEF TypeOK
  <2>2. PICK where \in sshBindable(addrs(cfg)[n]) : Listen(n, where)
    BY <1>9, <2>1 DEF BindTunnel
  <2>3. where \in Bindable(addrs(cfg)[n]) BY <2>2 DEF sshBindable
  <2> QED BY <1>9, <2>1, <2>2, <2>3, ListenKeeps DEF BindTunnel, Serving
<1>10. ASSUME NEW n \in DOMAIN socksAddrs(cfg), DropTunnel(n) PROVE OursInv'
  <2>1. UNCHANGED <<pc, cfg>> /\ pc \notin {"down", "loading", "begin"}
    BY <1>10 DEF DropTunnel, Serving
  <2>2. \A m \in DOMAIN ours' : m \in DOMAIN ours /\ ours'[m] = ours[m]
    BY <1>10 DEF DropTunnel
  <2> QED BY <2>1, <2>2 DEF OursInv
<1>11. CASE SaveAgain \/ StatusStart \/ StatusReads \/ StatusEnds \/ Edit \/ OthersChange
            \/ \E p \in Processes : Pick(p)
  BY <1>1, <1>11 DEF SaveAgain, StatusStart, StatusReads, StatusEnds, Edit, OthersChange, Pick
<1>12. CASE UNCHANGED vars BY <1>1, <1>12 DEF vars
<1> QED BY <1>2, <1>3, <1>4, <1>5, <1>6, <1>7, <1>8, <1>9, <1>10, <1>11, <1>12 DEF Next

\* A listener that waits can be bound, but for what BindsUnlessTaken lists:
\* Validate saw to a loopback address and to a text of its own, and a listener
\* of the daemon that has its place would have been given the same text.
LEMMA Vacant == TypeOK /\ OursInv => BindsUnlessTaken
<1> SUFFICES ASSUME TypeOK, OursInv, NEW l \in Waiting,
                    Place(l) \notin others \cup Held,
                    \A m \in DOMAIN ours : ours[m] = Place(l) =>
                        addrs(cfg)[m][1] = addrs(cfg)[l][1] /\ addrs(cfg)[m][2] # 0,
                    addrs(cfg)[l][2] \in 0..MaxPort,
                    addrs(cfg)[l][2] = 0 =>
                        \E q \in Ephemeral : <<Place(l)[1], q>> \notin Used,
                    l \in {pac, proxy} \/ addrs(cfg)[l][1] \notin Colons
             PROVE  MayBind(l)
  BY Zenon DEF BindsUnlessTaken
<1> DEFINE b == addrs(cfg)[l][1]
           k == addrs(cfg)[l][2]
<1>1. l \in DOMAIN addrs(cfg) /\ l \notin DOMAIN ours /\ pc \notin {"down", "loading", "begin"}
  BY DEF Waiting, Serving
<1>2. Validate(cfg) BY <1>1 DEF OursInv
<1>3. b \in DOMAIN IP /\ IP[b] \in Local
  BY <1>1, <1>2, ConfigAssumption DEF Validate, loopback
<1>4. addrs(cfg)[l] = <<b, k>> /\ k \in Int BY <1>1, Addresses DEF TypeOK
<1>5. Place(l) = <<IP[b], k>> BY DEF Place
<1>6. ASSUME k # 0 PROVE Place(l) \notin Used
  <2>1. ASSUME NEW m \in DOMAIN ours, ours[m] = Place(l) PROVE FALSE
    <3>1. addrs(cfg)[m][1] = b /\ addrs(cfg)[m][2] # 0 BY <2>1
    <3>2. PICK q \in 1..MaxPort : ours[m] = <<IP[addrs(cfg)[m][1]], q>> /\ q = addrs(cfg)[m][2]
      BY <3>1, Zenon DEF OursInv, At
    <3>3. addrs(cfg)[m][2] = k BY <1>5, <2>1, <3>2
    <3>4. m \in DOMAIN addrs(cfg) BY DEF TypeOK
    <3>5. addrs(cfg)[m] = <<addrs(cfg)[m][1], addrs(cfg)[m][2]>> BY <3>4, Addresses DEF TypeOK
    <3>6. addrs(cfg)[m] = addrs(cfg)[l] BY <1>4, <3>1, <3>3, <3>5, Zenon
    <3> QED BY <1>1, <1>2, <3>4, <3>6 DEF Validate, distinct
  <2> QED BY <2>1 DEF Used, Range
<1>7. PICK q : <<IP[b], q>> \in Bindable(<<b, k>>)
  <2>1. CASE k = 0
    <3>1. PICK q \in Ephemeral : <<IP[b], q>> \notin Used BY <2>1, <1>5
    <3> QED BY <1>3, <2>1, <3>1 DEF Bindable
  <2>2. CASE k # 0
    <3>1. k \in 1..MaxPort BY <1>4, <2>2, ConfigAssumption
    <3> QED BY <1>3, <1>5, <1>6, <2>2, <3>1 DEF Bindable
  <2> QED BY <2>1, <2>2
<1>8. Bindable(addrs(cfg)[l]) # {} BY <1>4, <1>7
<1>9. CASE l \in {pac, proxy} BY <1>8, <1>9 DEF MayBind
<1>10. CASE l \notin {pac, proxy}
  <2>1. DOMAIN addrs(cfg) \subseteq DOMAIN socksAddrs(cfg) \cup {pac, proxy} BY DEF addrs
  <2>2. addrs(cfg)[l] = socksAddrs(cfg)[l] BY <1>1, <1>10, <2>1, Addresses DEF TypeOK
  <2> QED BY <1>8, <1>10, <2>2 DEF MayBind, sshBindable
<1> QED BY <1>9, <1>10

-----------------------------------------------------------------------------
(* What status shows.                                                       *)

LEMMA StatusStep == ASSUME StatusInv, [Next]_vars PROVE StatusInv'
<1> USE DEF world, loads, run, asking
<1>1. CASE UNCHANGED <<saved, current, pc, recorded, cfg, spc, shown>>
  BY <1>1, Zenon DEF StatusInv, StatusShowsTunnel
<1>2. CASE StatusReads
  <2>1. UNCHANGED <<saved, pc, recorded, cfg>> /\ current' = saved BY <1>2 DEF StatusReads
  <2>2. shown' = show(socksAddrs(load[status])) BY <1>2 DEF StatusReads
  <2>3. saved => \A n \in DOMAIN shown' \cap DOMAIN socksAddrs(cfg) :
                    shown'[n] = socksAddrs(cfg)[n]
    BY <2>2 DEF show, StatusInv
  <2>4. StatusShowsTunnel' BY <2>1, <2>3, Zenon DEF StatusShowsTunnel
  <2> QED BY <2>1, <2>4 DEF StatusInv
<1>3. CASE StatusEnds \/ StatusStart
  <2>1. UNCHANGED <<saved, pc, recorded, cfg>> /\ spc' # "shown"
        /\ (current' = FALSE \/ current' = current)
    BY <1>3 DEF StatusEnds, StatusStart
  <2>2. StatusShowsTunnel' BY <2>1 DEF StatusShowsTunnel
  <2>3. {saved, current}' \subseteq BOOLEAN BY <2>1 DEF StatusInv
  <2>4. current' => saved' BY <2>1, Zenon DEF StatusInv
  <2>5. saved' => recorded' = socksAddrs(cfg') BY <2>1, Zenon DEF StatusInv
  <2> QED BY <2>1, <2>2, <2>3, <2>4, <2>5, Zenon DEF StatusInv
<1>4. CASE Start \/ DaemonLoadFails \/ Reload
  <2>1. UNCHANGED <<saved, current, recorded, cfg, spc, shown>>
        /\ (pc' \in {"down", "loading", "begin"} => pc \in {"down", "loading", "begin"})
    BY <1>4 DEF Start, DaemonLoadFails, Reload
  <2> QED BY <2>1, Zenon DEF StatusInv, StatusShowsTunnel
<1>5. CASE FirstRun \/ NextRun \/ Quit
  <2>1. saved' = FALSE /\ current' = FALSE
    BY <1>5 DEF FirstRun, NextRun, Quit, StatusInv
  <2> QED BY <2>1 DEF StatusInv, StatusShowsTunnel
<1>6. CASE Record \/ SaveAgain
  <2>1. UNCHANGED <<current, cfg, spc, shown>> /\ pc' \notin {"down", "loading", "begin"}
        /\ \/ recorded' = socksAddrs(cfg) /\ saved' = TRUE
           \/ UNCHANGED <<recorded, saved>>
    BY <1>6 DEF Record, SaveAgain, Save, Serving
  <2>2. StatusShowsTunnel' BY <2>1, Zenon DEF StatusShowsTunnel, StatusInv
  <2>3. {saved, current}' \subseteq BOOLEAN BY <2>1 DEF StatusInv
  <2>4. saved' => recorded' = socksAddrs(cfg') BY <2>1, Zenon DEF StatusInv
  <2>5. current' => saved'
    <3>1. current => saved BY Zenon DEF StatusInv
    <3>2. current' = current /\ (saved' = TRUE \/ saved' = saved) BY <2>1
    <3> QED BY <3>1, <3>2, Zenon
  <2> QED BY <2>1, <2>2, <2>3, <2>4, <2>5, Zenon DEF StatusInv
<1>7. CASE BindPac \/ BindProxy
  <2>1. PICK l \in {pac, proxy}, now \in {"pac", "proxy"}, next \in {"proxy", "serving"} :
          BindServer(l, now, next)
    BY <1>7 DEF BindPac, BindProxy
  <2>2. UNCHANGED <<recorded, cfg, spc, shown>> /\ pc \notin {"down", "loading", "begin"}
        /\ pc' \in {"proxy", "serving", "down"}
        /\ saved' = (saved /\ pc' # "down") /\ current' = (current /\ pc' # "down")
    BY <2>1 DEF BindServer
  <2>3. current' => current BY <2>2
  <2>4. StatusShowsTunnel' BY <2>2, <2>3, Zenon DEF StatusShowsTunnel, StatusInv
  <2> QED BY <2>2, <2>4 DEF StatusInv
<1>8. CASE \/ Edit \/ OthersChange \/ \E p \in Processes : Pick(p)
           \/ \E n \in DOMAIN socksAddrs(cfg) : BindTunnel(n) \/ DropTunnel(n)
  BY <1>1, <1>8 DEF Edit, OthersChange, Pick, BindTunnel, DropTunnel
<1>9. CASE UNCHANGED vars BY <1>1, <1>9 DEF vars
<1> QED BY <1>2, <1>3, <1>4, <1>5, <1>6, <1>7, <1>8, <1>9 DEF Next

-----------------------------------------------------------------------------
(* Theorems.                                                                *)

LEMMA InitIInv == Init => TypeOK /\ OursInv /\ StatusInv
<1> SUFFICES ASSUME Init PROVE TypeOK /\ OursInv /\ StatusInv OBVIOUS
<1>1. DOMAIN NoAddrs = {} BY DEF NoAddrs
<1>2. TypeOK BY <1>1, ConfigAssumption DEF Init, TypeOK, Processes, daemon, status
<1>3. OursInv BY <1>1 DEF Init, OursInv
<1>4. StatusInv BY DEF Init, StatusInv, StatusShowsTunnel
<1> QED BY <1>2, <1>3, <1>4

\* Configs, ports and places keep their types, through every default and every
\* port picked; a listener of pickFreePort is only open during a Load, and the
\* daemon listens only for what the config in use has.
THEOREM TypeCorrect == Spec => []TypeOK
<1>1. TypeOK /\ OursInv /\ [Next]_vars => (TypeOK /\ OursInv)' BY TypeStep, OursStep
<1> QED BY <1>1, InitIInv, PTL DEF Spec

\* What Validate promises of a config (config.go:243), with its gaps listed: a
\* listener of the config in use can be bound.
THEOREM CanBind == Spec => []BindsUnlessTaken
<1>1. TypeOK /\ OursInv /\ [Next]_vars => (TypeOK /\ OursInv)' BY TypeStep, OursStep
<1> QED BY <1>1, InitIInv, Vacant, PTL DEF Spec

\* status shows the address the daemon's ssh was given, whatever its own Load
\* picked (status.go:39).
THEOREM Shows == Spec => []StatusShowsTunnel
<1>1. StatusInv /\ [Next]_vars => StatusInv' BY StatusStep
<1>2. StatusInv => StatusShowsTunnel BY DEF StatusInv
<1> QED BY <1>1, <1>2, InitIInv, PTL DEF Spec
=============================================================================
