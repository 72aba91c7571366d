------------------------------- MODULE Daemon -------------------------------
(***************************************************************************)
(* runOnce of internal/daemon with one fixed config: the loop that turns   *)
(* network changes into debounced queries, and a query's answer into       *)
(* supervisors started or stopped, the routing table and the PAC file;     *)
(* with watchNetwork and the nmcli monitor that wake it.                   *)
(*                                                                         *)
(* It starts where both listeners are up and the first applyState is       *)
(* called (line 201): what comes before is in Reload.  A query is three    *)
(* commands, the network may change between any two of them.  Time passes  *)
(* in units of Tick, but never while the loop has something to select.     *)
(***************************************************************************)
EXTENDS NetState

CONSTANTS
  Routes,
  Keep,          \* routes with keep_tunnel_when_direct
  Profiles,      \* the direct_profiles of each route
  Networks,      \* records [Dev, SSID, Gateway, Address]; Dev = Blank is offline
  PollInterval,  \* ticker period of watchNetwork
  Debounce,      \* debounceInterval, in the same unit
  MaxEvents,     \* bound: unread lines of `nmcli monitor`
  MaxFaults      \* bound: commands that fail, monitors that die

ASSUME DaemonAssumption ==
  /\ Keep \subseteq Routes
  /\ PollInterval \in Nat \ {0}
  /\ Debounce \in Nat \ {0}
  /\ MaxEvents \in Nat \ {0}
  /\ MaxFaults \in Nat

\* An offline machine has none of the rest.
ASSUME OfflineAssumption ==
  \A n \in Networks : n.Dev = Blank => n.SSID = Blank /\ n.Gateway = Blank /\ n.Address = Blank

VARIABLES
  net,        \* the network the machine is on
  events,     \* unread lines of nmcli monitor
  monitor,    \* is nmcli monitor running?
  pollIn,     \* time to the next tick of watchNetwork's ticker
  recheck,    \* the recheck channel holds a signal
  debounce,   \* time until debounce fires, 0 when it has, Stopped
  pending,
  pc,         \* where runOnce is
  dev, ns,    \* what the query has found so far
  changed,    \* local to applyState
  lastProxyNeeded, decisions, table, pacBody, \* maps; empty before the first
  desired,    \* what Ensure was last told, per supervisor
  stopped,    \* supervisors stopped
  serving,    \* which of the listeners are up
  ctxDone,
  faults,
  missed      \* history: a network change no wakeup will be delivered for

netVars   == <<net, events, monitor, missed>>
timeVars  == <<pollIn, recheck, debounce, pending>>
queryVars == <<dev, ns>>
applied   == <<changed, lastProxyNeeded, decisions, table, pacBody, desired>>
endVars   == <<stopped, serving>>
vars      == <<netVars, timeVars, pc, queryVars, applied, endVars, ctxDone, faults>>

Stopped   == Debounce + 1  \* of the debounce timer
Empty     == <<>>          \* of a map
Unknown   == [SSID |-> Blank, Gateway |-> Blank, Address |-> Blank]

Labels == {"gateway", "address", "ssid", "evaluate", "table", "pac", "select",
           "proxyDown", "stop", "pacDown", "returned"}

Maps == {Empty} \cup [Routes -> BOOLEAN]

TypeOK ==
  /\ net \in Networks
  /\ events \in 0..MaxEvents
  /\ monitor \in BOOLEAN
  /\ pollIn \in 1..PollInterval
  /\ recheck \in BOOLEAN
  /\ debounce \in 0..Stopped
  /\ pending \in BOOLEAN
  /\ pending <=> debounce # Stopped
  /\ pc \in Labels
  /\ changed \in BOOLEAN
  /\ {lastProxyNeeded, decisions, table, pacBody} \subseteq Maps
  /\ desired \in [Routes -> BOOLEAN]
  /\ stopped \subseteq Routes
  /\ serving \subseteq {"proxy", "pac"}
  /\ ctxDone \in BOOLEAN
  /\ faults \in 0..MaxFaults
  /\ missed \in BOOLEAN

Init ==
  /\ net \in Networks
  /\ events = 0
  /\ monitor = FALSE
  /\ pollIn = PollInterval
  /\ recheck = FALSE
  /\ debounce = Stopped
  /\ pending = FALSE
  /\ pc = "gateway"
  /\ dev = Blank /\ ns = Unknown
  /\ changed = FALSE
  /\ lastProxyNeeded = Empty /\ decisions = Empty
  /\ table = Empty /\ pacBody = Empty
  /\ desired = [r \in Routes |-> FALSE]
  /\ stopped = {}
  /\ serving = {"proxy", "pac"}
  /\ ctxDone = FALSE
  /\ faults = 0
  /\ missed = FALSE

Fault == faults < MaxFaults /\ faults' = faults + 1

Needed(r, n) == Evaluate(Profiles[r], n).proxyNeeded

-----------------------------------------------------------------------------
(* The network, the nmcli monitor and the time.                             *)

\* The machine moves to another network; a running monitor prints a line,
\* unless it was killed with the cancellation of its context.
Roam ==
  /\ net' \in Networks \ {net}
  /\ \/ /\ monitor /\ ~ctxDone
        /\ events < MaxEvents
        /\ events' = events + 1
        /\ UNCHANGED missed
     \/ /\ ~monitor \/ ctxDone
        /\ missed' = TRUE
        /\ UNCHANGED events
  /\ UNCHANGED <<monitor, timeVars, pc, queryVars, applied, endVars, ctxDone, faults>>

\* Mutant: a send that waits for room in the channel.
triggerRecheckBlocks == ~recheck /\ recheck' = TRUE

\* A send that is dropped when there is a signal already.
triggerRecheck == recheck' = TRUE

\* Mutant: the signal is dropped unless the loop is waiting for it.
MonitorLineUnbuffered ==
  /\ events > 0
  /\ events' = events - 1
  /\ recheck' = (recheck \/ pc = "select")
  /\ UNCHANGED <<net, monitor, missed, pollIn, debounce, pending, pc, queryVars, applied,
                 endVars, ctxDone, faults>>

\* runNMCLIMonitor reads a line.
MonitorLine ==
  /\ events > 0
  /\ events' = events - 1
  /\ triggerRecheck
  /\ UNCHANGED <<net, monitor, missed, pollIn, debounce, pending, pc, queryVars, applied,
                 endVars, ctxDone, faults>>

\* The monitor dies with what it had not printed yet.
MonitorDies ==
  /\ monitor
  /\ Fault
  /\ monitor' = FALSE
  /\ events' = 0
  /\ missed' = (missed \/ events > 0)
  /\ UNCHANGED <<net, timeVars, pc, queryVars, applied, endVars, ctxDone>>

MonitorStarts ==
  /\ ~monitor /\ ~ctxDone
  /\ monitor' = TRUE
  /\ UNCHANGED <<net, events, missed, timeVars, pc, queryVars, applied, endVars, ctxDone,
                 faults>>

\* runNMCLIMonitor returns after a cancellation, when it has read what the
\* killed nmcli had printed.
MonitorEnds ==
  /\ monitor /\ ctxDone
  /\ events = 0
  /\ monitor' = FALSE
  /\ UNCHANGED <<net, events, missed, timeVars, pc, queryVars, applied, endVars, ctxDone,
                 faults>>

Ready == recheck \/ debounce = 0

\* Mutant: no polling, the monitor alone wakes the loop.
TickNoPoll ==
  /\ pc \in {"gateway", "address", "ssid"} \/ (pc = "select" /\ ~Ready)
  /\ debounce' = IF debounce \in 1..Debounce THEN debounce - 1 ELSE debounce
  /\ UNCHANGED <<netVars, pollIn, recheck, pending, pc, queryVars, applied, endVars, ctxDone,
                 faults>>

\* watchNetwork's ticker fires every PollInterval until it returns, with the
\* cancellation; the debounce timer once.
Tick ==
  /\ pc \in {"gateway", "address", "ssid"} \/ (pc = "select" /\ ~Ready)
  /\ \/ ~ctxDone /\ pollIn = 1 /\ pollIn' = PollInterval /\ triggerRecheck
     \/ ~ctxDone /\ pollIn > 1 /\ pollIn' = pollIn - 1 /\ UNCHANGED recheck
     \/ ctxDone /\ UNCHANGED <<pollIn, recheck>>
  /\ debounce' = IF debounce \in 1..Debounce THEN debounce - 1 ELSE debounce
  /\ UNCHANGED <<netVars, pending, pc, queryVars, applied, endVars, ctxDone, faults>>

Cancel ==
  /\ ~ctxDone
  /\ ctxDone' = TRUE
  /\ UNCHANGED <<netVars, timeVars, pc, queryVars, applied, endVars, faults>>

-----------------------------------------------------------------------------
(* applyState: netstate.Query, then its answer applied.                     *)

\* defaultRoute.  A command that cannot run is an error and ends applyState;
\* one that is killed by its timeout counts as having no default route.
QueryGateway ==
  /\ pc = "gateway"
  /\ \/ /\ dev' = net.Dev
        /\ ns' = [Unknown EXCEPT !.Gateway = net.Gateway]
        /\ pc' = IF net.Dev = Blank THEN "evaluate" ELSE "address"
        /\ missed' = FALSE
        /\ UNCHANGED faults
     \/ /\ Fault
        /\ missed' = TRUE
        /\ dev' = Blank /\ ns' = Unknown
        /\ pc' \in {"select", "evaluate"}
  /\ UNCHANGED <<net, events, monitor, timeVars, applied, endVars, ctxDone>>

\* interfaceAddress and wifiSSID of the device found first, both Blank if the
\* device has lost its network or the command failed.
QueryAddress ==
  /\ pc = "address"
  /\ pc' = "ssid"
  /\ \/ /\ ns' = [ns EXCEPT !.Address = IF net.Dev = dev THEN net.Address ELSE Blank]
        /\ UNCHANGED <<missed, faults>>
     \/ Fault /\ missed' = TRUE /\ UNCHANGED ns
  /\ UNCHANGED <<net, events, monitor, timeVars, dev, applied, endVars, ctxDone>>

QuerySSID ==
  /\ pc = "ssid"
  /\ pc' = "evaluate"
  /\ \/ /\ ns' = [ns EXCEPT !.SSID = IF net.Dev = dev THEN net.SSID ELSE Blank]
        /\ UNCHANGED <<missed, faults>>
     \/ Fault /\ missed' = TRUE /\ UNCHANGED ns
  /\ UNCHANGED <<net, events, monitor, timeVars, dev, applied, endVars, ctxDone>>

\* Mutant: only the last route decides whether anything changed.
EvaluateLastRoute ==
  /\ pc = "evaluate"
  /\ pc' = "table"
  /\ decisions' = [r \in Routes |-> Needed(r, ns)]
  /\ lastProxyNeeded' = decisions'
  /\ \E r \in Routes :
       changed' = (lastProxyNeeded = Empty \/ lastProxyNeeded[r] # decisions'[r])
  /\ desired' = [r \in Routes |-> decisions'[r] \/ r \in Keep]
  /\ UNCHANGED <<netVars, timeVars, queryVars, table, pacBody, endVars, ctxDone, faults>>

\* The loop over the supervisors, each told by Ensure.
EvaluateRoutes ==
  /\ pc = "evaluate"
  /\ pc' = "table"
  /\ decisions' = [r \in Routes |-> Needed(r, ns)]
  /\ lastProxyNeeded' = decisions'
  /\ changed' = (lastProxyNeeded # decisions')
  /\ desired' = [r \in Routes |-> decisions'[r] \/ r \in Keep]
  /\ UNCHANGED <<netVars, timeVars, queryVars, table, pacBody, endVars, ctxDone, faults>>

\* proxyTable.Update, seen by every connection from now on.
UpdateTable ==
  /\ pc = "table"
  /\ pc' = "pac"
  /\ table' = decisions
  /\ UNCHANGED <<netVars, timeVars, queryVars, changed, lastProxyNeeded, decisions, pacBody,
                 desired, endVars, ctxDone, faults>>

\* pacServer.Update of what Generate makes of the decisions.
UpdatePac ==
  /\ pc = "pac"
  /\ pc' = "select"
  /\ pacBody' = IF changed THEN decisions ELSE pacBody
  /\ UNCHANGED <<netVars, timeVars, queryVars, changed, lastProxyNeeded, decisions, table,
                 desired, endVars, ctxDone, faults>>

-----------------------------------------------------------------------------
(* The select of runOnce.                                                   *)

\* Mutant: the timer is left running once it runs.
RecvRecheckNoReset ==
  /\ pc = "select"
  /\ recheck
  /\ recheck' = FALSE
  /\ pending' = TRUE
  /\ UNCHANGED <<netVars, pollIn, debounce, pc, queryVars, applied, endVars, ctxDone, faults>>

\* Reset also takes back a value the timer has already sent (go.mod: 1.26).
RecvRecheck ==
  /\ pc = "select"
  /\ recheck
  /\ recheck' = FALSE
  /\ pending' = TRUE
  /\ debounce' = Debounce
  /\ UNCHANGED <<netVars, pollIn, pc, queryVars, applied, endVars, ctxDone, faults>>

RecvDebounce ==
  /\ pc = "select"
  /\ debounce = 0
  /\ debounce' = Stopped
  /\ pending' = FALSE
  /\ pc' = IF pending THEN "gateway" ELSE "select"
  /\ UNCHANGED <<netVars, pollIn, recheck, queryVars, applied, endVars, ctxDone, faults>>

\* ctx.Done: the proxy listener, the supervisors one by one, the PAC server.
RecvDone ==
  /\ pc = "select"
  /\ ctxDone
  /\ pc' = "proxyDown"
  /\ UNCHANGED <<netVars, timeVars, queryVars, applied, endVars, ctxDone, faults>>

ShutdownProxy ==
  /\ pc = "proxyDown"
  /\ pc' = "stop"
  /\ serving' = serving \ {"proxy"}
  /\ UNCHANGED <<netVars, timeVars, queryVars, applied, stopped, ctxDone, faults>>

StopSupervisor ==
  /\ pc = "stop"
  /\ IF stopped = Routes
       THEN pc' = "pacDown" /\ UNCHANGED <<stopped, desired>>
       ELSE \E r \in Routes \ stopped :
              /\ stopped' = stopped \cup {r}
              /\ desired' = [desired EXCEPT ![r] = FALSE]
              /\ UNCHANGED pc
  /\ UNCHANGED <<netVars, timeVars, queryVars, changed, lastProxyNeeded, decisions, table,
                 pacBody, serving, ctxDone, faults>>

ShutdownPac ==
  /\ pc = "pacDown"
  /\ pc' = "returned"
  /\ serving' = serving \ {"pac"}
  /\ UNCHANGED <<netVars, timeVars, queryVars, applied, stopped, ctxDone, faults>>

-----------------------------------------------------------------------------
Environment == Roam \/ MonitorDies \/ Cancel

Loop ==
  \/ QueryGateway \/ QueryAddress \/ QuerySSID
  \/ EvaluateRoutes \/ UpdateTable \/ UpdatePac
  \/ RecvRecheck \/ RecvDebounce \/ RecvDone
  \/ ShutdownProxy \/ StopSupervisor \/ ShutdownPac

Next == Environment \/ MonitorLine \/ MonitorStarts \/ MonitorEnds \/ Tick \/ Loop

Spec == Init /\ [][Next]_vars

\* The goroutines run, time passes, and select, which picks at random among
\* its ready cases, takes each of them in the end.  Nothing is assumed of the
\* network, of the monitor's health or of the caller.
Fairness ==
  /\ WF_vars(Loop) /\ SF_vars(RecvDebounce) /\ SF_vars(RecvDone)
  /\ WF_vars(MonitorLine) /\ WF_vars(MonitorEnds) /\ WF_vars(Tick)

FairSpec == Spec /\ Fairness
-----------------------------------------------------------------------------
(* Properties.                                                              *)

Wanted(answer) == [r \in Routes |-> IF answer = Empty THEN FALSE ELSE answer[r] \/ r \in Keep]

\* Connections (table), browsers (pacBody) and tunnels (desired) agree on
\* what the last successful query said, through failed queries and skipped
\* PAC updates, except between the three steps that apply an answer.
Agree ==
  /\ stopped = {} => desired = Wanted(lastProxyNeeded)
  /\ pc # "table" => table = lastProxyNeeded
  /\ pc \notin {"table", "pac"} => pacBody = lastProxyNeeded

Current == lastProxyNeeded = [r \in Routes |-> Needed(r, net)]

\* No wakeup is lost: while the loop waits with an outdated answer, something
\* that makes it query again is under way, unless the change went unseen by
\* the monitor or the query failed; then the ticker has to help.
NoLostWakeup ==
  pc = "select" /\ ~Current => missed \/ events > 0 \/ recheck \/ pending

\* In the end a network that stays is the one the daemon acts on, whatever
\* was missed, debounced or torn before, even with the monitor dead.
Converges ==
  \A n \in Networks :
    <>[](net = n /\ ~ctxDone) => <>[](Current /\ Agree)

\* daemon.go:358-360: watchNetwork triggers a recheck "periodically as a
\* fallback (also covering the case where the nmcli monitor subprocess itself
\* dies)".  Does not hold for a poll_interval below the debounce interval, and
\* is in no run: see README.
FallbackCovers ==
  \A n \in Networks :
    <>[](net = n /\ ~monitor /\ ~ctxDone) => <>[]Current

\* Cancelled at any point, runOnce returns, and no monitor is left behind: the
\* goroutine that reads its lines never blocks on a loop that is gone.
ShutdownCompletes == ctxDone ~> pc = "returned" /\ ~monitor

\* query.go:16: NetState is "a snapshot of the network the machine is
\* currently on", fields that could not be determined being empty.  Does not
\* hold and is in no run: see README.
SnapshotOfOneNetwork ==
  pc = "evaluate" =>
    \E n \in Networks : /\ ns.SSID \in {Blank, n.SSID}
                        /\ ns.Gateway \in {Blank, n.Gateway}
                        /\ ns.Address \in {Blank, n.Address}
=============================================================================
