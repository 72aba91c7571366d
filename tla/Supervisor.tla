----------------------------- MODULE Supervisor -----------------------------
(***************************************************************************)
(* The tunnel supervisors of internal/tunnel: one Supervisor per route,    *)
(* each starting and cancelling goroutines that keep an `ssh -M -N [-D]`   *)
(* subprocess to the jump host alive.                                      *)
(*                                                                         *)
(* Every startLocked creates a fresh goroutine, the "run", with a context  *)
(* of its own.  stopLocked cancels that context and does not wait, so an   *)
(* old run and its ssh may still be dying while the next one starts.  All  *)
(* routes here have the same jump host (config.Validate allows it), hence  *)
(* one ControlPath; a route with a jump host of its own is the instance    *)
(* with a single route.                                                    *)
(*                                                                         *)
(* The ssh processes, and masters the user starts through the printed      *)
(* ~/.ssh/config snippet, are outside src/: they are modelled from the     *)
(* flags sshArgs passes and from what controlsocket.go says of OpenSSH.    *)
(***************************************************************************)
EXTENDS Naturals

CONSTANTS
  Routes,       \* the supervisors
  SocksRoutes,  \* the routes with a socks_proxy, whose ssh gets a -D forward
  Users,        \* masters the user may start on the same ControlPath
  MaxRuns,      \* bound: startLocked calls per supervisor
  MaxFaults,    \* bound: failures injected in a behaviour
  NoFile,       \* no file at ControlPath
  Leftover,     \* a socket file left by a process of an earlier daemon
  None          \* nobody holds a port, or the caller waits for nobody

Runs == Routes \X (1..MaxRuns)

ASSUME ConstantsAssumption ==
  /\ SocksRoutes \subseteq Routes
  /\ MaxRuns \in Nat
  /\ MaxFaults \in Nat
  /\ None \notin Routes
  /\ None \notin Runs
  /\ {NoFile, Leftover} \cap (Runs \cup Users) = {}
  /\ Runs \cap Users = {}
  /\ NoFile # Leftover

VARIABLES
  desired,  \* s.desired
  cancel,   \* s.cancel: the run it cancels, 0 for nil
  latest,   \* the run whose channel s.done is, 0 for nil
  waiting,  \* the supervisor whose Stop is blocked on <-done
  stopped,  \* the supervisors whose Stop has returned
  pc,       \* where each run is
  ctxDone,  \* the runs whose context is cancelled
  ssh,      \* each run's ssh process
  port,     \* the run whose ssh holds the route's -D port
  mux,      \* who accepts on a control socket it created
  sock,     \* who created the file at ControlPath
  faults    \* failures so far

callerVars == <<desired, cancel, latest, waiting, stopped>>
sshVars    == <<ssh, port, mux, sock>>
vars       == <<callerVars, pc, ctxDone, sshVars, faults>>

Labels == {"idle", "check", "resolve", "probe", "remove", "spawn", "wait",
           "backoff", "exited"}

TypeOK ==
  /\ desired \in [Routes -> BOOLEAN]
  /\ latest \in [Routes -> 0..MaxRuns]
  /\ cancel \in [Routes -> 0..MaxRuns]
  /\ \A r \in Routes : cancel[r] \in {0, latest[r]}
  /\ waiting \in Routes \cup {None}
  /\ stopped \subseteq Routes
  /\ pc \in [Runs -> Labels]
  /\ ctxDone \subseteq Runs
  /\ ssh \in [Runs -> {"none", "connecting", "up"}]
  /\ port \in [Routes -> Runs \cup {None}]
  /\ mux \in [Runs \cup Users -> BOOLEAN]
  /\ sock \in Runs \cup Users \cup {NoFile, Leftover}
  /\ faults \in 0..MaxFaults

\* NewSupervisor: nothing runs; an earlier daemon may have left its socket.
Init ==
  /\ desired = [r \in Routes |-> FALSE]
  /\ cancel = [r \in Routes |-> 0]
  /\ latest = [r \in Routes |-> 0]
  /\ waiting = None
  /\ stopped = {}
  /\ pc = [u \in Runs |-> "idle"]
  /\ ctxDone = {}
  /\ ssh = [u \in Runs |-> "none"]
  /\ port = [r \in Routes |-> None]
  /\ mux = [o \in Runs \cup Users |-> FALSE]
  /\ sock \in {NoFile, Leftover}
  /\ faults = 0

Listening == sock \in Runs \cup Users /\ mux[sock]
Stale     == sock # NoFile /\ ~Listening

Fault == faults < MaxFaults /\ faults' = faults + 1

Goto(u, label) == pc' = [pc EXCEPT ![u] = label]

-----------------------------------------------------------------------------
(* The daemon's main goroutine, the only caller of Ensure and Stop.  Once   *)
(* it has begun to Stop the supervisors, in any order and one after the     *)
(* other, it never calls Ensure again.                                      *)

serving == waiting = None /\ stopped = {}

\* Mutant: s.done keeps the channel of the previous run.
startLockedOldDone(r) ==
  LET n == latest[r] + 1 IN
  /\ n <= MaxRuns
  /\ cancel' = [cancel EXCEPT ![r] = n]
  /\ Goto(<<r, n>>, "check")
  /\ UNCHANGED <<latest, ctxDone>>

startLocked(r) ==
  LET n == latest[r] + 1 IN
  /\ n <= MaxRuns
  /\ cancel' = [cancel EXCEPT ![r] = n]
  /\ latest' = [latest EXCEPT ![r] = n]
  /\ Goto(<<r, n>>, "check")
  /\ UNCHANGED ctxDone

\* Mutant: the cancel function is dropped, never called.
stopLockedDropsCancel(r) ==
  /\ cancel' = [cancel EXCEPT ![r] = 0]
  /\ UNCHANGED <<latest, pc, ctxDone>>

stopLocked(r) ==
  /\ ctxDone' = ctxDone \cup (IF cancel[r] # 0 THEN {<<r, cancel[r]>>} ELSE {})
  /\ cancel' = [cancel EXCEPT ![r] = 0]
  /\ UNCHANGED <<latest, pc>>

\* Mutant: no early return when the state is already the requested one.
EnsureAlways(r, d) ==
  /\ serving
  /\ desired' = [desired EXCEPT ![r] = d]
  /\ IF d THEN startLocked(r) ELSE stopLocked(r)
  /\ UNCHANGED <<waiting, stopped, sshVars, faults>>

\* Ensure(d): its no-op, d = desired[r], is a stuttering step.
Ensure(r, d) ==
  /\ serving
  /\ d # desired[r]
  /\ desired' = [desired EXCEPT ![r] = d]
  /\ IF d THEN startLocked(r) ELSE stopLocked(r)
  /\ UNCHANGED <<waiting, stopped, sshVars, faults>>

\* Stop up to the unlock: done is read under the lock and awaited after it.
StopBegin(r) ==
  /\ waiting = None
  /\ r \notin stopped
  /\ desired' = [desired EXCEPT ![r] = FALSE]
  /\ stopLocked(r)
  /\ waiting' = r
  /\ UNCHANGED <<stopped, sshVars, faults>>

\* Mutant: Stop does not wait for the run.
StopReturnAtOnce(r) ==
  /\ waiting = r
  /\ waiting' = None
  /\ stopped' = stopped \cup {r}
  /\ UNCHANGED <<desired, cancel, latest, pc, ctxDone, sshVars, faults>>

StopReturn(r) ==
  /\ waiting = r
  /\ latest[r] # 0 => pc[<<r, latest[r]>>] = "exited"
  /\ waiting' = None
  /\ stopped' = stopped \cup {r}
  /\ UNCHANGED <<desired, cancel, latest, pc, ctxDone, sshVars, faults>>

-----------------------------------------------------------------------------
(* A run goroutine: run, runOnce, removeStaleControlSocket, removeIfStale.  *)

CheckCtx(u) ==
  /\ pc[u] = "check"
  /\ Goto(u, IF u \in ctxDone THEN "exited" ELSE "resolve")
  /\ UNCHANGED <<callerVars, ctxDone, sshVars, faults>>

\* resolveControlPath runs `ssh -G` under ctx; on an error no socket is looked at.
ResolveControlPath(u) ==
  /\ pc[u] = "resolve"
  /\ \/ u \notin ctxDone /\ Goto(u, "probe") /\ UNCHANGED faults
     \/ u \in ctxDone /\ Goto(u, "spawn") /\ UNCHANGED faults
     \/ u \notin ctxDone /\ Goto(u, "spawn") /\ Fault
  /\ UNCHANGED <<callerVars, ctxDone, sshVars>>

\* removeIfStale up to the answer of net.DialTimeout, then its os.Remove.
\* Neither half looks at ctx, and the file may change hands in between.  A
\* socket that cannot be examined, dialled or removed is left where it is.
ProbeSocket(u) ==
  /\ pc[u] = "probe"
  /\ \/ Goto(u, IF Stale THEN "remove" ELSE "spawn") /\ UNCHANGED faults
     \/ Stale /\ Goto(u, "spawn") /\ Fault
  /\ UNCHANGED <<callerVars, ctxDone, sshVars>>

RemoveSocket(u) ==
  /\ pc[u] = "remove"
  /\ Goto(u, "spawn")
  /\ \/ sock' = NoFile /\ UNCHANGED faults
     \/ Fault /\ UNCHANGED sock
  /\ UNCHANGED <<callerVars, ctxDone, ssh, port, mux>>

\* Mutant: exec.Command instead of exec.CommandContext.
SpawnWithoutCtx(u) ==
  /\ pc[u] = "spawn"
  /\ Goto(u, "wait")
  /\ \/ ssh' = [ssh EXCEPT ![u] = "connecting"] /\ UNCHANGED faults
     \/ Fault /\ UNCHANGED ssh
  /\ UNCHANGED <<callerVars, ctxDone, port, mux, sock>>

\* cmd.Start refuses a cancelled context, and may fail for other reasons.
Spawn(u) ==
  /\ pc[u] = "spawn"
  /\ Goto(u, "wait")
  /\ \/ u \in ctxDone /\ UNCHANGED <<ssh, faults>>
     \/ u \notin ctxDone /\ ssh' = [ssh EXCEPT ![u] = "connecting"] /\ UNCHANGED faults
     \/ u \notin ctxDone /\ Fault /\ UNCHANGED ssh
  /\ UNCHANGED <<callerVars, ctxDone, port, mux, sock>>

\* Mutant: the run ends with its first ssh instead of reconnecting.
RunOnceReturnGivesUp(u) ==
  /\ pc[u] = "wait"
  /\ ssh[u] = "none"
  /\ Goto(u, "exited")
  /\ UNCHANGED <<callerVars, ctxDone, sshVars, faults>>

\* Mutant: ssh is respawned at once, without a look at the context.
RunOnceReturnRespawns(u) ==
  /\ pc[u] = "wait"
  /\ ssh[u] = "none"
  /\ Goto(u, "spawn")
  /\ UNCHANGED <<callerVars, ctxDone, sshVars, faults>>

\* cmd.Wait returned (or Start failed): back in run, lines 130 to 142.
RunOnceReturn(u) ==
  /\ pc[u] = "wait"
  /\ ssh[u] = "none"
  /\ Goto(u, IF u \in ctxDone THEN "exited" ELSE "backoff")
  /\ UNCHANGED <<callerVars, ctxDone, sshVars, faults>>

\* The select of run: the delay elapsed, or the context is done.
BackoffElapsed(u) ==
  /\ pc[u] = "backoff"
  /\ Goto(u, "check")
  /\ UNCHANGED <<callerVars, ctxDone, sshVars, faults>>

BackoffCancelled(u) ==
  /\ pc[u] = "backoff"
  /\ u \in ctxDone
  /\ Goto(u, "exited")
  /\ UNCHANGED <<callerVars, ctxDone, sshVars, faults>>

-----------------------------------------------------------------------------
(* The ssh processes, outside src/.                                         *)

ReleasePort(u) == port' = [r \in Routes |-> IF port[r] = u THEN None ELSE port[r]]

\* The process is gone; unlinks says whether it ran its exit handler, which
\* unlinks ControlPath (whoever's file that is) if it has a control socket.
Gone(u, unlinks) ==
  /\ ssh' = [ssh EXCEPT ![u] = "none"]
  /\ ReleasePort(u)
  /\ mux' = [mux EXCEPT ![u] = FALSE]
  /\ sock' = IF unlinks /\ mux[u] THEN NoFile ELSE sock
  /\ UNCHANGED <<callerVars, pc, ctxDone>>

\* Logged in: the -D forward is bound, or ExitOnForwardFailure ends the
\* process; then the control socket, given up if the file exists already.
SshLogin(u) ==
  /\ ssh[u] = "connecting"
  /\ u[1] \in SocksRoutes => port[u[1]] = None
  /\ ssh' = [ssh EXCEPT ![u] = "up"]
  /\ port' = IF u[1] \in SocksRoutes THEN [port EXCEPT ![u[1]] = u] ELSE port
  /\ mux' = [mux EXCEPT ![u] = sock = NoFile]
  /\ sock' = IF sock = NoFile THEN u ELSE sock
  /\ UNCHANGED <<callerVars, pc, ctxDone, faults>>

SshForwardFails(u) ==
  /\ ssh[u] = "connecting"
  /\ u[1] \in SocksRoutes
  /\ port[u[1]] # None
  /\ Gone(u, TRUE)
  /\ UNCHANGED faults

\* cmd.Cancel's SIGTERM, or a refused or lost connection.
SshExit(u) ==
  /\ ssh[u] # "none"
  /\ \/ u \in ctxDone /\ UNCHANGED faults
     \/ Fault
  /\ Gone(u, TRUE)

\* SIGKILL: WaitDelay ran out, or someone else sent it.
SshKilled(u) ==
  /\ ssh[u] # "none"
  /\ Fault
  /\ Gone(u, FALSE)

\* A user's `ssh` with ControlMaster auto: it takes the path if it is free or
\* stale, and unlinks it on the way out.
UserMaster(w) ==
  /\ \/ /\ ~mux[w] /\ ~Listening
        /\ mux' = [mux EXCEPT ![w] = TRUE]
        /\ sock' = w
     \/ /\ mux[w]
        /\ mux' = [mux EXCEPT ![w] = FALSE]
        /\ sock' = NoFile
  /\ UNCHANGED <<callerVars, pc, ctxDone, ssh, port, faults>>

-----------------------------------------------------------------------------
Call == \E r \in Routes : (\E d \in BOOLEAN : Ensure(r, d)) \/ StopBegin(r) \/ StopReturn(r)

RunStep(u) ==
  \/ CheckCtx(u) \/ ResolveControlPath(u) \/ ProbeSocket(u) \/ RemoveSocket(u)
  \/ Spawn(u) \/ RunOnceReturn(u) \/ BackoffElapsed(u) \/ BackoffCancelled(u)

SshStep(u) == SshLogin(u) \/ SshForwardFails(u) \/ SshExit(u) \/ SshKilled(u)

Next ==
  \/ Call
  \/ \E u \in Runs : RunStep(u) \/ SshStep(u)
  \/ \E w \in Users : UserMaster(w)

Spec == Init /\ [][Next]_vars

\* Goroutines and processes are scheduled, <-done is served once closed, an
\* ssh that keeps its connection logs in or fails to, and a SIGTERMed ssh
\* exits.  Nothing is assumed of the caller, the user or the faults.
Fairness ==
  /\ \A r \in Routes : WF_vars(StopReturn(r))
  /\ \A u \in Runs :
       /\ WF_vars(RunStep(u))
       /\ WF_vars(SshLogin(u) \/ SshForwardFails(u))
       /\ WF_vars(u \in ctxDone /\ SshExit(u))

FairSpec == Spec /\ Fairness
-----------------------------------------------------------------------------
(* Properties.                                                              *)

\* The runs that may still connect: started, not exited, not cancelled.
LiveRuns(r) == {u \in Runs : u[1] = r /\ pc[u] \notin {"idle", "exited"} /\ u \notin ctxDone}

\* However Ensure and Stop follow each other, a supervisor has exactly one
\* live run while the tunnel is desired, the one s.done belongs to, and none
\* otherwise: never two goroutines reconnecting against each other.
OneLiveRun ==
  \A r \in Routes :
    LiveRuns(r) = IF desired[r] THEN {<<r, latest[r]>>} ELSE {}

\* What Stop guarantees on return: the run it waited for has reaped its ssh,
\* and every ssh still alive belongs to an older run, already cancelled.
StopReapsLatest ==
  \A r \in stopped : \A u \in Runs :
    u[1] = r /\ ssh[u] # "none" => u \in ctxDone /\ u[2] < latest[r]

\* README: the daemon keeps the connection alive and reconnects it.  Once
\* the tunnel stays desired and failures stop, an ssh of the live run is up
\* for good, an older run holding the -D port notwithstanding.
TunnelKept ==
  \A r \in Routes :
    <>[]desired[r] => <>[](desired[r] /\ ssh[<<r, latest[r]>>] = "up")

\* Stop never blocks forever on <-done, whatever the run is doing.
StopCompletes == \A r \in Routes : waiting = r ~> r \in stopped

\* A cancelled run always ends, with its ssh: none is leaked.
CancelledRunsEnd ==
  \A u \in Runs : u \in ctxDone ~> pc[u] = "exited" /\ ssh[u] = "none"

\* config.go:48: a route without SOCKS5 still has "its ControlMaster
\* connection for SSH ProxyJump reuse": a tunnel that stays desired ends up with
\* a control socket that somebody serves.  Does not hold and is in no run: see README.
ControlMasterKept ==
  \A r \in Routes : <>[]desired[r] => <>[]Listening

\* Seen from the daemon, the supervisors are what Tunnel says: a cancelled run
\* that is past its ctx check, mid-probe or in backoff never connects again,
\* the live one never has two connections, nothing connects once stopped.
ServingConn ==
  [r \in Routes |-> IF desired[r] /\ ssh[<<r, latest[r]>>] # "none"
                    THEN <<r, latest[r]>> ELSE None]

Promise == INSTANCE Tunnel
             WITH Conns <- Runs, want <- desired, closed <- stopped,
                  active <- ServingConn, fading <- {u \in ctxDone : ssh[u] # "none"}

ImplementsTunnel == Promise!Spec
=============================================================================
