------------------------------- MODULE Reload -------------------------------
(***************************************************************************)
(* Run and watchConfigFile of internal/daemon: the daemon's lives, one     *)
(* runOnce after the other, each with the config the file had when it was  *)
(* last loaded; with the listeners they hand over to each other.           *)
(*                                                                         *)
(* Of a runOnce only its lifecycle is here, its work is in Daemon.  All    *)
(* configs name the same two ports, the case in which one runOnce can get  *)
(* in the way of the next.  A file is its version, counted by the edits,   *)
(* and whether it is good, bad (Load fails) or busy (the proxy port it     *)
(* names belongs to another program).                                      *)
(***************************************************************************)
EXTENDS Naturals

CONSTANTS
  MaxEdits,   \* bound: changes of the config file
  Edits       \* which special edits happen: "early" before the watcher's first
              \* look, "old" with an old mtime (mv, cp -p), "missing" for a while

ASSUME ReloadAssumption ==
  /\ MaxEdits \in Nat
  /\ Edits \subseteq {"early", "old", "missing"}

Versions == 0..MaxEdits + 1   \* 0 is Default(), what Load makes of no file
Kinds    == {"good", "bad", "busy", "missing"}
Files    == [ver : Versions, kind : Kinds, mtime : Versions]
Lives    == 1..MaxEdits + 1

VARIABLES
  file,
  pc,         \* where Run is
  cfg,        \* the config of the latest runOnce
  newCfg,     \* the one just loaded
  life,       \* number of runOnces launched
  ctxDone,
  watching,   \* has the watcher had its first look?
  lastMod,
  noticed,    \* history: the version the watcher signalled last
  reload,     \* the reload channel holds a signal
  once,       \* where each runOnce is
  errCh,      \* the runOnces whose result is in their errCh
  cancelled,  \* the runOnces for which Run called cancel
  server,     \* the http.Server of each PAC server
  pacPort,    \* whose listener has the PAC port, 0 if it is free
  proxyPort

watchVars == <<watching, lastMod, noticed>>
runVars   == <<pc, cfg, newCfg, life>>
onceVars  == <<once, server, pacPort, proxyPort>>
vars      == <<file, runVars, ctxDone, watchVars, reload, cancelled, errCh, onceVars>>

Config == [ver : Versions, kind : {"good", "busy"}]

Over(l) == once[l] \in {"returned", "unready", "failed", "pacTaken"}

TypeOK ==
  /\ file \in Files
  /\ pc \in {"load", "select", "reading", "awaitOld", "awaitEnd", "returned", "failed"}
  /\ {cfg, newCfg} \subseteq Config
  /\ life \in 0..MaxEdits + 1
  /\ {ctxDone, watching, reload} \subseteq BOOLEAN
  /\ {lastMod, noticed} \subseteq Versions
  /\ once \in [Lives -> {"none", "starting", "ready", "pacUp", "up", "stopping", "pacDown",
                         "returned", "unready", "failed", "pacTaken"}]
  /\ errCh \subseteq {l \in 1..life : Over(l)}
  /\ cancelled \subseteq 1..life
  /\ server \in [Lives -> {"none", "started", "serving", "shutdown", "closed"}]
  /\ pacPort \in 0..life
  /\ proxyPort \in {0} \cup {l \in 1..life : once[l] = "up"}

Init ==
  /\ file \in [ver : {1}, kind : Kinds \ {"missing"}, mtime : {1}]
  /\ pc = "load"
  /\ cfg = [ver |-> 0, kind |-> "good"]
  /\ newCfg = [ver |-> 0, kind |-> "good"]
  /\ life = 0
  /\ ctxDone = FALSE
  /\ watching = FALSE
  /\ lastMod = 0 /\ noticed = 0
  /\ reload = FALSE
  /\ once = [l \in Lives |-> "none"]
  /\ cancelled = {}
  /\ errCh = {}
  /\ server = [l \in Lives |-> "none"]
  /\ pacPort = 0
  /\ proxyPort = 0

-----------------------------------------------------------------------------
(* The user.                                                                *)

\* Every edit but an old one has a later mtime than the last.
Edit ==
  /\ file.ver <= MaxEdits
  /\ watching \/ "early" \in Edits
  /\ \E kind \in Kinds, mtime \in Versions :
       /\ mtime = file.ver + 1 \/ ("old" \in Edits /\ mtime \in 1..file.ver)
       /\ kind = "missing" => "missing" \in Edits /\ file.kind # "missing" /\ mtime = file.ver + 1
       /\ file' = [ver |-> file.ver + 1, kind |-> kind, mtime |-> mtime]
  /\ UNCHANGED <<runVars, ctxDone, watchVars, reload, cancelled, errCh, onceVars>>

Cancel ==
  /\ ~ctxDone
  /\ ctxDone' = TRUE
  /\ UNCHANGED <<file, runVars, watchVars, reload, cancelled, errCh, onceVars>>

-----------------------------------------------------------------------------
(* watchConfigFile.                                                         *)

FirstStat ==
  /\ ~watching
  /\ life > 0
  /\ watching' = TRUE
  /\ lastMod' = IF file.kind = "missing" THEN 0 ELSE file.mtime
  /\ UNCHANGED <<file, runVars, ctxDone, noticed, reload, cancelled, errCh, onceVars>>

\* Mutant: the signal is dropped unless Run is waiting for it.
StatUnbuffered ==
  /\ watching
  /\ file.kind # "missing"
  /\ file.mtime > lastMod
  /\ lastMod' = file.mtime /\ noticed' = file.ver
  /\ reload' = (reload \/ pc = "select")
  /\ UNCHANGED <<file, runVars, ctxDone, watching, cancelled, errCh, onceVars>>

\* A tick at which the file is missing, or not newer, is a stutter, and so is
\* the end of the watcher, any time after ctx is cancelled.
Stat ==
  /\ watching
  /\ file.kind # "missing"
  /\ file.mtime > lastMod
  /\ lastMod' = file.mtime /\ noticed' = file.ver
  /\ reload' = TRUE
  /\ UNCHANGED <<file, runVars, ctxDone, watching, cancelled, errCh, onceVars>>

-----------------------------------------------------------------------------
(* Run.                                                                     *)

\* What config.Load makes of the file, when it is not bad.
Load == IF file.kind = "missing" THEN [ver |-> 0, kind |-> "good"]
                                 ELSE [ver |-> file.ver, kind |-> file.kind]

launch(config) ==
  /\ cfg' = config
  /\ life' = life + 1
  /\ once' = [once EXCEPT ![life + 1] = "starting"]
  /\ pc' = "select"

FirstLoad ==
  /\ pc = "load"
  /\ IF file.kind = "bad"
       THEN pc' = "failed" /\ UNCHANGED <<cfg, life, once>>
       ELSE launch(Load)
  /\ UNCHANGED <<file, newCfg, ctxDone, watchVars, reload, cancelled, errCh, server,
                 pacPort, proxyPort>>

\* The latest runOnce's result is in its errCh: whoever takes it, it is taken.
takeResult ==
  /\ life \in errCh
  /\ errCh' = errCh \ {life}

CtxDone ==
  /\ pc = "select" /\ ctxDone
  /\ pc' = "awaitEnd"
  /\ cancelled' = cancelled \cup {life}
  /\ UNCHANGED <<file, cfg, newCfg, life, ctxDone, watchVars, reload, errCh, onceVars>>

AwaitEnd ==
  /\ pc = "awaitEnd" /\ takeResult
  /\ pc' = "returned"
  /\ UNCHANGED <<file, cfg, newCfg, life, ctxDone, watchVars, reload, cancelled, onceVars>>

\* Mutant: a runOnce that returned nil is no reason to return, the loop goes on.
RecvResultIgnoresNil ==
  /\ pc = "select" /\ takeResult
  /\ IF once[life] = "returned"
       THEN UNCHANGED <<pc, cancelled>>
       ELSE pc' = "failed" /\ cancelled' = cancelled \cup {life}
  /\ UNCHANGED <<file, cfg, newCfg, life, ctxDone, watchVars, reload, onceVars>>

\* runOnce came back without being asked to: Run returns what it returned, an
\* error, or nil when runOnce saw the cancellation of ctx before Run did.
RecvResult ==
  /\ pc = "select" /\ takeResult
  /\ pc' = IF once[life] = "returned" THEN "returned" ELSE "failed"
  /\ cancelled' = cancelled \cup {life}
  /\ UNCHANGED <<file, cfg, newCfg, life, ctxDone, watchVars, reload, onceVars>>

RecvReload ==
  /\ pc = "select" /\ reload
  /\ pc' = "reading"
  /\ reload' = FALSE
  /\ UNCHANGED <<file, cfg, newCfg, life, ctxDone, watchVars, cancelled, errCh, onceVars>>

\* config.Load reads the file as it is now; then cancel, or keep the old one.
ReadConfig ==
  /\ pc = "reading"
  /\ IF file.kind = "bad"
       THEN pc' = "select" /\ UNCHANGED <<newCfg, cancelled>>
       ELSE /\ pc' = "awaitOld"
            /\ newCfg' = Load
            /\ cancelled' = cancelled \cup {life}
  /\ UNCHANGED <<file, cfg, life, ctxDone, watchVars, reload, errCh, onceVars>>

\* Mutant: the next runOnce starts while the old one is still shutting down.
RestartAtOnce ==
  /\ pc = "awaitOld"
  /\ launch(newCfg)
  /\ UNCHANGED <<file, newCfg, ctxDone, watchVars, reload, cancelled, errCh, server,
                 pacPort, proxyPort>>

\* Mutant: a signal that came while the old runOnce was shut down is discarded.
RestartDrains ==
  /\ pc = "awaitOld" /\ takeResult
  /\ launch(newCfg) /\ reload' = FALSE
  /\ UNCHANGED <<file, newCfg, ctxDone, watchVars, cancelled, server, pacPort, proxyPort>>

Restart ==
  /\ pc = "awaitOld" /\ takeResult
  /\ launch(newCfg)
  /\ UNCHANGED <<file, newCfg, ctxDone, watchVars, reload, cancelled, server, pacPort,
                 proxyPort>>

-----------------------------------------------------------------------------
(* runOnce, its listeners and its PAC server.                               *)

othersVars == <<file, runVars, ctxDone, watchVars, reload, cancelled>>

\* runOnce returns, and its goroutine puts the result into errCh.
returns(l, how) ==
  /\ once' = [once EXCEPT ![l] = how]
  /\ errCh' = errCh \cup {l}

\* runCtx is a child of ctx.
Done(l) == ctxDone \/ l \in cancelled

\* The control directory cannot be made, or the state file not be read.
NotReady(l) ==
  /\ once[l] = "starting"
  /\ returns(l, "unready")
  /\ UNCHANGED <<othersVars, server, pacPort, proxyPort>>

Prepare(l) ==
  /\ once[l] = "starting"
  /\ once' = [once EXCEPT ![l] = "ready"]
  /\ UNCHANGED <<othersVars, errCh, server, pacPort, proxyPort>>

\* pac.Server.Start: Listen, then a goroutine for Serve.
StartPac(l) ==
  /\ once[l] = "ready"
  /\ IF pacPort = 0
       THEN /\ once' = [once EXCEPT ![l] = "pacUp"]
            /\ server' = [server EXCEPT ![l] = "started"]
            /\ pacPort' = l
            /\ UNCHANGED errCh
       ELSE returns(l, "pacTaken") /\ UNCHANGED <<server, pacPort>>
  /\ UNCHANGED <<othersVars, proxyPort>>

\* http.Server.Serve registers the listener, or closes it if Shutdown came first.
Serve(l) ==
  /\ \/ /\ server[l] = "started"
        /\ server' = [server EXCEPT ![l] = "serving"]
        /\ UNCHANGED pacPort
     \/ /\ server[l] = "shutdown"
        /\ server' = [server EXCEPT ![l] = "closed"]
        /\ pacPort' = 0
  /\ UNCHANGED <<othersVars, errCh, once, proxyPort>>

\* http.Server.Shutdown closes the listeners that Serve has registered, and
\* returns with the port still taken if Serve has not run yet.
shutdownPac(l) ==
  IF server[l] = "serving"
    THEN server' = [server EXCEPT ![l] = "closed"] /\ pacPort' = 0
    ELSE server' = [server EXCEPT ![l] = "shutdown"] /\ UNCHANGED pacPort

StartProxy(l) ==
  /\ once[l] = "pacUp"
  /\ IF proxyPort = 0 /\ cfg.kind = "good"
       THEN /\ once' = [once EXCEPT ![l] = "up"]
            /\ proxyPort' = l
            /\ UNCHANGED <<errCh, server, pacPort>>
       ELSE returns(l, "failed") /\ shutdownPac(l) /\ UNCHANGED proxyPort
  /\ UNCHANGED othersVars

\* Mutant: the listener is not closed.
ShutdownProxyForgotten(l) ==
  /\ once[l] = "up" /\ Done(l)
  /\ once' = [once EXCEPT ![l] = "stopping"]
  /\ UNCHANGED <<othersVars, errCh, server, pacPort, proxyPort>>

\* proxy.Server.Shutdown closes its listener itself.
ShutdownProxy(l) ==
  /\ once[l] = "up" /\ Done(l)
  /\ once' = [once EXCEPT ![l] = "stopping"]
  /\ proxyPort' = 0
  /\ UNCHANGED <<othersVars, errCh, server, pacPort>>

StopSupervisors(l) ==
  /\ once[l] = "stopping"
  /\ once' = [once EXCEPT ![l] = "pacDown"]
  /\ UNCHANGED <<othersVars, errCh, server, pacPort, proxyPort>>

\* Mutant: runOnce returns without shutting the PAC server down.
ShutdownPacForgotten(l) ==
  /\ once[l] = "pacDown"
  /\ returns(l, "returned")
  /\ UNCHANGED <<othersVars, server, pacPort, proxyPort>>

ShutdownPac(l) ==
  /\ once[l] = "pacDown"
  /\ shutdownPac(l)
  /\ returns(l, "returned")
  /\ UNCHANGED <<othersVars, proxyPort>>

-----------------------------------------------------------------------------
Run == \/ FirstLoad \/ CtxDone \/ AwaitEnd \/ RecvResult
       \/ RecvReload \/ ReadConfig \/ Restart

RunOnce(l) == \/ NotReady(l) \/ Prepare(l) \/ StartPac(l) \/ StartProxy(l)
              \/ ShutdownProxy(l) \/ StopSupervisors(l) \/ ShutdownPac(l)

Next ==
  \/ Edit \/ Cancel \/ FirstStat \/ Stat \/ Run
  \/ \E l \in Lives : RunOnce(l) \/ Serve(l)

Spec == Init /\ [][Next]_vars

\* All goroutines run, the poll ticker ticks until the watcher sees the
\* cancellation, and runOnce's parts end: the supervisors' Stop as shown in
\* Supervisor, the two Shutdowns by timeout.
Fairness ==
  /\ WF_vars(FirstStat) /\ WF_vars(~ctxDone /\ Stat) /\ WF_vars(Run) /\ SF_vars(CtxDone)
  /\ \A l \in Lives : WF_vars(RunOnce(l)) /\ WF_vars(Serve(l))

FairSpec == Spec /\ Fairness
-----------------------------------------------------------------------------
(* Properties.                                                              *)

\* A reload, a cancellation and a failing start may come at any time: there
\* is never more than one runOnce that has not returned, and none when Run has.
OneRunOnce ==
  \A l \in 1..life : ~Over(l) => l = life /\ pc \notin {"returned", "failed"}

\* "runOnce only returns on its own for a fatal startup error" (daemon.go:82):
\* what can end Run with an error is a first config that cannot be read, a
\* runOnce that cannot prepare, another program on the proxy port, and a PAC
\* port that is taken.  Never a bad edit, nor the proxy port of the runOnce
\* before; and its PAC port only while that one's Serve is late (see NoBindRace).
FatalStartsOnly ==
  /\ pc = "failed" =>
       \/ life = 0
       \/ once[life] \in {"unready", "pacTaken"}
       \/ once[life] = "failed" /\ cfg.kind = "busy"
  /\ \A l \in Lives :
       once[l] \in {"starting", "ready"} =>
         proxyPort = 0 /\ (pacPort # 0 => server[pacPort] = "shutdown")

\* pac/server.go:60: Shutdown "stops serving and releases the listener, blocking
\* until it does", so that a caller who waits for it can Start again on the same
\* address.  Does not hold: Serve may not have registered the listener yet.
NoBindRace == \A l \in Lives : once[l] # "pacTaken"

\* watchConfigFile coalesces "rapid edits into one pending signal"
\* (daemon.go:105), in a channel with one slot, and Run reads the file when it
\* gets to it: still no edit the watcher noticed is lost.  Unless it is bad or
\* edited again, its config runs, is about to, or will be read.
NoLostEdit ==
  noticed = file.ver /\ file.kind # "bad" /\ pc \in {"select", "reading", "awaitOld"} =>
    \/ reload \/ pc = "reading"
    \/ file.ver = IF pc = "awaitOld" THEN newCfg.ver ELSE cfg.ver

\* A good edit newer than what the watcher has seen is loaded in the end,
\* unless it is edited again or Run ends.
EditApplied ==
  \A v \in Versions :
    (watching /\ file.ver = v /\ file.kind = "good" /\ file.mtime > lastMod)
      ~> (cfg.ver = v \/ file.ver # v \/ ctxDone \/ pc = "failed")

\* Cancelled at any point, Run returns, whether Run or runOnce sees it first.
RunReturns == ctxDone ~> pc \in {"returned", "failed"}

\* daemon.go:40: Run reloads "whenever the config file changes on disk": the
\* config of a file that stays is the one that runs.  Does not hold: a file
\* that is put in place with its old mtime is not a change for watchConfigFile.
\* It is in no run: see README.
LastEditRuns ==
  \A v \in Versions :
    <>[](file.ver = v /\ file.kind = "good" /\ ~ctxDone /\ pc # "failed")
      => <>[](cfg.ver = v)
=============================================================================
