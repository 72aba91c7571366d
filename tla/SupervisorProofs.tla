-------------------------- MODULE SupervisorProofs --------------------------
(***************************************************************************)
(* Proofs about Supervisor, for every number of routes, runs, user masters *)
(* and faults, and at the end about Backoff, for every width, config and   *)
(* number of attempts.                                                     *)
(*                                                                         *)
(* OneLiveRun is not inductive: that a cancelled run is not the latest one *)
(* has to be known before Ensure(FALSE) can be shown to leave no live run. *)
(* IInv adds how cancel, latest, ctxDone and pc hang together.             *)
(***************************************************************************)
EXTENDS Supervisor, Backoff, TLAPS

Latest(r) == <<r, latest[r]>>

\* The cancel function is there exactly while the tunnel is desired.
CancelInv ==
  \A r \in Routes :
    /\ cancel[r] = IF desired[r] THEN latest[r] ELSE 0
    /\ desired[r] => latest[r] # 0

\* Started runs are those up to the latest; all are cancelled but the latest
\* run of a desired tunnel; only a cancelled run ends.
RunOK(r, n) ==
  /\ pc[<<r, n>>] = "idle" <=> n > latest[r]
  /\ <<r, n>> \in ctxDone <=> n <= latest[r] /\ ~(desired[r] /\ n = latest[r])
  /\ pc[<<r, n>>] = "exited" => <<r, n>> \in ctxDone

RunInv == \A r \in Routes : \A n \in 1..MaxRuns : RunOK(r, n)

\* An ssh is alive only while its run is inside cmd.Wait.
SshInv == \A u \in Runs : ssh[u] # "none" => pc[u] = "wait"

\* A supervisor that is stopping is not desired, one that stopped has been
\* waited for.
StopInv ==
  /\ waiting # None => ~desired[waiting]
  /\ \A r \in stopped : ~desired[r] /\ (latest[r] # 0 => pc[Latest(r)] = "exited")

IInv == TypeOK /\ CancelInv /\ RunInv /\ SshInv /\ StopInv

-----------------------------------------------------------------------------
\* A run that is neither new nor over moves on and the daemon's goroutine
\* does nothing: what IInv says of the callers' state stays true.
LEMMA RunMoves ==
  ASSUME IInv, NEW u \in Runs, NEW label \in Labels \ {"idle"},
         pc[u] \notin {"idle", "exited"}, Goto(u, label),
         label = "exited" => u \in ctxDone,
         UNCHANGED <<callerVars, ctxDone>>
  PROVE  CancelInv' /\ RunInv' /\ StopInv' /\ pc' \in [Runs -> Labels]
<1>1. pc' \in [Runs -> Labels] /\ \A v \in Runs : pc'[v] = IF v = u THEN label ELSE pc[v]
  BY DEF Goto, IInv, TypeOK
<1>2. CancelInv'
  BY DEF CancelInv, IInv, callerVars
<1>3. RunInv'
  <2> SUFFICES ASSUME NEW r \in Routes, NEW n \in 1..MaxRuns
               PROVE  /\ pc'[<<r, n>>] = "idle" <=> n > latest[r]
                      /\ pc'[<<r, n>>] = "exited" => <<r, n>> \in ctxDone
    BY DEF RunInv, RunOK, IInv, callerVars
  <2>1. <<r, n>> \in Runs BY DEF Runs
  <2> QED BY <1>1, <2>1 DEF RunInv, RunOK, IInv
<1>4. StopInv'
  <2>1. ASSUME NEW r \in stopped, latest[r] # 0 PROVE pc'[Latest(r)] = "exited"
    BY <1>1, <2>1 DEF StopInv, IInv, TypeOK, Latest, Runs
  <2> QED BY <2>1 DEF StopInv, IInv, callerVars, Latest
<1> QED BY <1>1, <1>2, <1>3, <1>4

\* An ssh comes, changes or goes and the run does not move.
LEMMA SshMoves ==
  ASSUME IInv, UNCHANGED <<callerVars, pc, ctxDone>>
  PROVE  CancelInv' /\ RunInv' /\ StopInv' /\ pc' \in [Runs -> Labels]
BY DEF CancelInv, RunInv, RunOK, StopInv, IInv, TypeOK, callerVars, Latest

LEMMA InitIInv == Init => IInv
<1> SUFFICES ASSUME Init PROVE IInv OBVIOUS
<1> USE ConstantsAssumption DEF Init
<1>1. TypeOK BY DEF TypeOK, Labels
<1>2. CancelInv BY DEF CancelInv
<1>3. RunInv BY DEF RunInv, RunOK, Runs
<1>4. SshInv /\ StopInv BY DEF SshInv, StopInv
<1> QED BY <1>1, <1>2, <1>3, <1>4 DEF IInv

LEMMA CallStep ==
  ASSUME IInv, NEW r \in Routes,
         (\E d \in BOOLEAN : Ensure(r, d)) \/ StopBegin(r) \/ StopReturn(r)
  PROVE  IInv'
<1> USE ConstantsAssumption DEF IInv
<1>1. CASE \E d \in BOOLEAN : Ensure(r, d)
  <2> PICK d \in BOOLEAN : Ensure(r, d) BY <1>1
  <2>1. CASE d = TRUE
    <3> DEFINE n == latest[r] + 1
    <3>1. /\ n \in 1..MaxRuns /\ <<r, n>> \in Runs /\ ~desired[r]
          /\ desired' = [desired EXCEPT ![r] = TRUE]
          /\ cancel' = [cancel EXCEPT ![r] = n]
          /\ latest' = [latest EXCEPT ![r] = n]
          /\ pc' = [pc EXCEPT ![<<r, n>>] = "check"]
          /\ waiting = None /\ stopped = {}
          /\ UNCHANGED <<ctxDone, waiting, stopped, sshVars, faults>>
      <4>1. Ensure(r, TRUE) BY <2>1
      <4>2. startLocked(r) /\ ~desired[r] BY <4>1 DEF Ensure, TypeOK
      <4>3. /\ desired' = [desired EXCEPT ![r] = TRUE]
            /\ waiting = None /\ stopped = {}
            /\ UNCHANGED <<waiting, stopped, sshVars, faults>>
        BY <4>1 DEF Ensure, serving
      <4> QED BY <4>2, <4>3 DEF startLocked, Goto, TypeOK, Runs
    <3> HIDE DEF n
    <3>2. TypeOK' BY <3>1 DEF TypeOK, Labels, sshVars
    <3>3. CancelInv' BY <3>1 DEF CancelInv, TypeOK
    <3>4. RunInv'
      <4> SUFFICES ASSUME NEW q \in Routes, NEW m \in 1..MaxRuns
                   PROVE  RunOK(q, m)'
        BY DEF RunInv, RunOK
      <4>1. RunOK(q, m) /\ <<q, m>> \in Runs BY DEF RunInv, RunOK, Runs
      <4>2. CASE q = r BY <3>1, <4>1, <4>2 DEF RunOK, TypeOK, n
      <4>3. CASE q # r BY <3>1, <4>1, <4>3 DEF RunOK, TypeOK
      <4> QED BY <4>2, <4>3
    <3>5. SshInv' /\ StopInv' BY <3>1 DEF SshInv, StopInv, RunInv, RunOK, TypeOK, sshVars, n
    <3> QED BY <3>2, <3>3, <3>4, <3>5
  <2>2. CASE d = FALSE
    <3>1. /\ desired[r] /\ cancel[r] = latest[r] /\ latest[r] \in 1..MaxRuns
          /\ desired' = [desired EXCEPT ![r] = FALSE]
          /\ cancel' = [cancel EXCEPT ![r] = 0]
          /\ ctxDone' = ctxDone \cup {<<r, latest[r]>>}
          /\ waiting = None /\ stopped = {}
          /\ UNCHANGED <<latest, pc, waiting, stopped, sshVars, faults>>
      <4>1. Ensure(r, FALSE) BY <2>2
      <4>2. stopLocked(r) /\ desired[r] BY <4>1 DEF Ensure, TypeOK
      <4>3. /\ desired' = [desired EXCEPT ![r] = FALSE]
            /\ waiting = None /\ stopped = {}
            /\ UNCHANGED <<waiting, stopped, sshVars, faults>>
        BY <4>1 DEF Ensure, serving
      <4> QED BY <4>2, <4>3 DEF stopLocked, TypeOK, CancelInv
    <3>2. TypeOK' BY <3>1 DEF TypeOK, Labels, sshVars, Runs
    <3>3. CancelInv' BY <3>1 DEF CancelInv, TypeOK
    <3>4. RunInv'
      <4> SUFFICES ASSUME NEW q \in Routes, NEW m \in 1..MaxRuns
                   PROVE  RunOK(q, m)'
        BY DEF RunInv, RunOK
      <4>1. RunOK(q, m) BY DEF RunInv, RunOK
      <4>2. CASE q = r BY <3>1, <4>1, <4>2 DEF RunOK, TypeOK
      <4>3. CASE q # r BY <3>1, <4>1, <4>3 DEF RunOK, TypeOK
      <4> QED BY <4>2, <4>3
    <3>5. SshInv' /\ StopInv' BY <3>1 DEF SshInv, StopInv, sshVars
    <3> QED BY <3>2, <3>3, <3>4, <3>5
  <2> QED BY <2>1, <2>2
<1>2. CASE StopBegin(r)
  <2>1. /\ desired' = [desired EXCEPT ![r] = FALSE]
        /\ cancel' = [cancel EXCEPT ![r] = 0]
        /\ ctxDone' = ctxDone \cup (IF desired[r] THEN {<<r, latest[r]>>} ELSE {})
        /\ desired[r] => latest[r] \in 1..MaxRuns
        /\ r \notin stopped /\ waiting = None /\ waiting' = r
        /\ UNCHANGED <<latest, pc, stopped, sshVars, faults>>
    BY <1>2 DEF StopBegin, stopLocked, TypeOK, CancelInv
  <2>2. TypeOK' BY <2>1 DEF TypeOK, Labels, sshVars, Runs
  <2>3. CancelInv' BY <2>1 DEF CancelInv, TypeOK
  <2>4. RunInv'
    <3> SUFFICES ASSUME NEW q \in Routes, NEW m \in 1..MaxRuns
                 PROVE  RunOK(q, m)'
      BY DEF RunInv, RunOK
    <3>1. RunOK(q, m) BY DEF RunInv, RunOK
    <3>2. CASE q = r BY <2>1, <3>1, <3>2 DEF RunOK, TypeOK
    <3>3. CASE q # r BY <2>1, <3>1, <3>3 DEF RunOK, TypeOK
    <3> QED BY <3>2, <3>3
  <2>5. SshInv' /\ StopInv' BY <2>1 DEF SshInv, StopInv, TypeOK, sshVars, Latest
  <2> QED BY <2>2, <2>3, <2>4, <2>5
<1>3. CASE StopReturn(r)
  <2>1. /\ waiting = r /\ waiting' = None /\ stopped' = stopped \cup {r}
        /\ latest[r] # 0 => pc[<<r, latest[r]>>] = "exited"
        /\ UNCHANGED <<desired, cancel, latest, pc, ctxDone, sshVars, faults>>
    BY <1>3 DEF StopReturn
  <2>2. TypeOK' BY <2>1 DEF TypeOK, sshVars
  <2>3. CancelInv' /\ RunInv' BY <2>1 DEF CancelInv, RunInv, RunOK
  <2>4. SshInv' /\ StopInv' BY <2>1 DEF SshInv, StopInv, sshVars, Latest
  <2> QED BY <2>2, <2>3, <2>4
<1> QED BY <1>1, <1>2, <1>3

LEMMA RunStepInv ==
  ASSUME IInv, NEW u \in Runs, RunStep(u)
  PROVE  IInv'
<1> USE ConstantsAssumption DEF IInv
<1>1. /\ UNCHANGED <<callerVars, ctxDone>>
      /\ pc[u] \notin {"idle", "exited"}
      /\ ssh[u] # "none" => pc[u] = "wait"
  BY DEF RunStep, CheckCtx, ResolveControlPath, ProbeSocket, RemoveSocket, Spawn,
         RunOnceReturn, BackoffElapsed, BackoffCancelled, callerVars, SshInv
<1>2. PICK label \in Labels \ {"idle"} :
        Goto(u, label) /\ (label = "exited" => u \in ctxDone)
  BY DEF RunStep, CheckCtx, ResolveControlPath, ProbeSocket, RemoveSocket, Spawn,
         RunOnceReturn, BackoffElapsed, BackoffCancelled, Labels
<1>3. CancelInv' /\ RunInv' /\ StopInv' /\ pc' \in [Runs -> Labels]
  BY <1>1, <1>2, RunMoves
<1>4. \A v \in Runs : pc'[v] = IF v = u THEN pc'[u] ELSE pc[v]
  BY <1>2 DEF Goto, TypeOK
<1>5. /\ ssh' \in [Runs -> {"none", "connecting", "up"}]
      /\ sock' \in Runs \cup Users \cup {NoFile, Leftover}
      /\ faults' \in 0..MaxFaults
      /\ UNCHANGED <<port, mux>>
      /\ \A v \in Runs : ssh'[v] # "none" => ssh[v] # "none" \/ v = u
  BY DEF RunStep, CheckCtx, ResolveControlPath, ProbeSocket, RemoveSocket, Spawn,
         RunOnceReturn, BackoffElapsed, BackoffCancelled, sshVars, Fault, TypeOK
<1>6. ssh'[u] # "none" => pc'[u] = "wait"
  BY <1>1 DEF RunStep, CheckCtx, ResolveControlPath, ProbeSocket, RemoveSocket, Spawn,
              RunOnceReturn, BackoffElapsed, BackoffCancelled, sshVars, Goto, TypeOK
<1>7. SshInv'
  BY <1>4, <1>5, <1>6 DEF SshInv
<1>8. TypeOK'
  BY <1>1, <1>3, <1>5 DEF TypeOK, callerVars
<1> QED BY <1>3, <1>7, <1>8

LEMMA SshStepInv ==
  ASSUME IInv, NEW u \in Runs, SshStep(u)
  PROVE  IInv'
<1> USE ConstantsAssumption DEF IInv
<1>1. UNCHANGED <<callerVars, pc, ctxDone>>
  BY DEF SshStep, SshLogin, SshForwardFails, SshExit, SshKilled, Gone
<1>2. CancelInv' /\ RunInv' /\ StopInv' /\ pc' \in [Runs -> Labels]
  BY <1>1, SshMoves
<1>3. CASE SshLogin(u)
  <2>1. TypeOK' BY <1>1, <1>3 DEF SshLogin, TypeOK, callerVars, Runs
  <2>2. SshInv' BY <1>1, <1>3 DEF SshLogin, SshInv, TypeOK
  <2> QED BY <1>2, <2>1, <2>2
<1>4. CASE SshForwardFails(u) \/ SshExit(u) \/ SshKilled(u)
  <2>1. PICK unlinks \in BOOLEAN : Gone(u, unlinks) /\ (UNCHANGED faults \/ Fault)
    BY <1>4 DEF SshForwardFails, SshExit, SshKilled
  <2>2. TypeOK' BY <1>1, <2>1 DEF Gone, ReleasePort, Fault, TypeOK, callerVars
  <2>3. SshInv' BY <1>1, <2>1 DEF Gone, SshInv, TypeOK
  <2> QED BY <1>2, <2>2, <2>3
<1> QED BY <1>3, <1>4 DEF SshStep

LEMMA StepIInv == IInv /\ [Next]_vars => IInv'
<1> SUFFICES ASSUME IInv, [Next]_vars PROVE IInv' OBVIOUS
<1>1. CASE Call BY <1>1, CallStep DEF Call
<1>2. CASE \E u \in Runs : RunStep(u) \/ SshStep(u)
  BY <1>2, RunStepInv, SshStepInv
<1>3. CASE \E w \in Users : UserMaster(w)
  <2> PICK w \in Users : UserMaster(w) BY <1>3
  <2>1. UNCHANGED <<callerVars, pc, ctxDone, ssh, port, faults>> BY DEF UserMaster
  <2>2. CancelInv' /\ RunInv' /\ StopInv' BY <2>1, SshMoves
  <2>3. TypeOK'
    BY <2>1 DEF UserMaster, IInv, TypeOK, callerVars
  <2>4. SshInv' BY <2>1 DEF SshInv, IInv
  <2> QED BY <2>2, <2>3, <2>4 DEF IInv
<1>4. CASE UNCHANGED vars
  <2>1. UNCHANGED <<callerVars, pc, ctxDone>> /\ UNCHANGED <<sshVars, faults>>
    BY <1>4 DEF vars
  <2>2. CancelInv' /\ RunInv' /\ StopInv' BY <2>1, SshMoves
  <2>3. TypeOK' /\ SshInv' BY <2>1 DEF IInv, TypeOK, SshInv, callerVars, sshVars
  <2> QED BY <2>2, <2>3 DEF IInv
<1> QED BY <1>1, <1>2, <1>3, <1>4 DEF Next

LEMMA Inductive == Spec => []IInv
BY InitIInv, StepIInv, PTL DEF Spec
-----------------------------------------------------------------------------
\* Every variable keeps its type, and s.cancel is nil or belongs to the run
\* whose channel s.done is.
THEOREM TypeCorrect == Spec => []TypeOK
<1>1. IInv => TypeOK BY DEF IInv
<1> QED BY <1>1, Inductive, PTL

\* Never two live runs of one supervisor: startLocked and stopLocked keep
\* exactly the latest run live, and only while the tunnel is desired.
THEOREM OneLive == Spec => []OneLiveRun
<1>1. IInv => OneLiveRun
  <2> SUFFICES ASSUME IInv, NEW r \in Routes
               PROVE  LiveRuns(r) = IF desired[r] THEN {Latest(r)} ELSE {}
    BY DEF OneLiveRun, Latest
  <2> USE ConstantsAssumption DEF IInv
  <2>1. ASSUME NEW n \in 1..MaxRuns
        PROVE  <<r, n>> \in LiveRuns(r) <=> desired[r] /\ n = latest[r]
    BY DEF LiveRuns, RunInv, RunOK, TypeOK, Runs
  <2>2. desired[r] => latest[r] \in 1..MaxRuns
    BY DEF CancelInv, TypeOK
  <2>3. LiveRuns(r) \subseteq {<<r, n>> : n \in 1..MaxRuns}
    BY DEF LiveRuns, Runs
  <2> QED BY <2>1, <2>2, <2>3 DEF Latest
<1> QED BY <1>1, Inductive, PTL

\* When Stop has returned, the run it waited for has no ssh left.
THEOREM StopReaps == Spec => []StopReapsLatest
<1>1. IInv => StopReapsLatest
  <2> SUFFICES ASSUME IInv, NEW r \in stopped, NEW n \in 1..MaxRuns, ssh[<<r, n>>] # "none"
               PROVE  <<r, n>> \in ctxDone /\ n < latest[r]
    BY DEF StopReapsLatest, Runs
  <2> USE ConstantsAssumption DEF IInv
  <2>1. r \in Routes /\ <<r, n>> \in Runs BY DEF TypeOK, Runs
  <2>2. pc[<<r, n>>] = "wait" BY <2>1 DEF SshInv
  <2>3. n <= latest[r] /\ latest[r] \in Nat BY <2>1, <2>2 DEF RunInv, RunOK, TypeOK
  <2>4. n # latest[r] BY <2>2, <2>3 DEF StopInv, Latest
  <2>5. <<r, n>> \in ctxDone BY <2>1, <2>3, <2>4 DEF RunInv, RunOK
  <2> QED BY <2>3, <2>4, <2>5
<1> QED BY <1>1, Inductive, PTL
-----------------------------------------------------------------------------
(* The supervisors implement Tunnel: ServingConn is the active connection,  *)
(* the ssh of a cancelled run a fading one.                                 *)

Alive(u) == ssh[u] # "none"

Fading == {u \in ctxDone : Alive(u)}

\* An ssh that is alive serves the route or is fading.
LEMMA AliveRuns ==
  ASSUME IInv, NEW r \in Routes, NEW n \in 1..MaxRuns, Alive(<<r, n>>)
  PROVE  <<r, n>> \notin ctxDone <=> desired[r] /\ n = latest[r]
<1>1. <<r, n>> \in Runs /\ RunOK(r, n) /\ latest[r] \in Nat
  BY DEF IInv, TypeOK, RunInv, Runs
<1>2. pc[<<r, n>>] = "wait" BY <1>1 DEF IInv, SshInv, Alive
<1> QED BY <1>1, <1>2 DEF RunOK

\* The run that serves a desired tunnel is one of Runs.
LEMMA LatestIsRun ==
  ASSUME IInv, NEW r \in Routes, desired[r]
  PROVE  Latest(r) \in Runs /\ latest[r] \in 1..MaxRuns
BY DEF IInv, TypeOK, CancelInv, Latest, Runs

\* A step that leaves the wishes and the liveness of every ssh alone stutters.
LEMMA Stutter ==
  ASSUME IInv, UNCHANGED <<desired, latest, stopped, ctxDone>>,
         \A u \in Runs : Alive(u)' <=> Alive(u)
  PROVE  UNCHANGED Promise!vars
<1>1. ServingConn' = ServingConn
  <2>1. ASSUME NEW r \in Routes, desired[r] PROVE Alive(Latest(r))' <=> Alive(Latest(r))
    BY <2>1, LatestIsRun DEF Latest
  <2> QED BY <2>1 DEF ServingConn, Latest, Alive
<1>2. Fading' = Fading BY DEF Fading, IInv, TypeOK
<1> QED BY <1>1, <1>2 DEF Promise!vars, Fading, Alive

LEMMA CallRefines ==
  ASSUME IInv, NEW r \in Routes,
         (\E d \in BOOLEAN : Ensure(r, d)) \/ StopBegin(r) \/ StopReturn(r)
  PROVE  [Promise!Next]_Promise!vars
<1>1. CASE Ensure(r, TRUE)
  <2>1. /\ ~desired[r] /\ desired' = [desired EXCEPT ![r] = TRUE]
        /\ stopped = {} /\ UNCHANGED <<stopped, ssh>>
        /\ startLocked(r)
    BY <1>1 DEF Ensure, serving, sshVars, IInv, TypeOK
  <2>2. /\ latest[r] + 1 \in 1..MaxRuns /\ latest' = [latest EXCEPT ![r] = latest[r] + 1]
        /\ UNCHANGED ctxDone
    BY <2>1 DEF startLocked, IInv, TypeOK
  <2>3. <<r, latest[r] + 1>> \in Runs /\ RunOK(r, latest[r] + 1)
    BY <2>2 DEF IInv, RunInv, Runs
  <2>4. ssh[<<r, latest[r] + 1>>] = "none"
    BY <2>2, <2>3 DEF IInv, TypeOK, RunOK, SshInv
  <2>5. ServingConn' = ServingConn
    BY <2>1, <2>2, <2>4 DEF ServingConn, IInv, TypeOK
  <2>6. Promise!Start(r)
    BY <2>1, <2>2, <2>5 DEF Promise!Start, IInv, TypeOK
  <2> QED BY <2>6 DEF Promise!Next
<1>2. CASE (Ensure(r, FALSE) \/ StopBegin(r)) /\ desired[r]
  <2>1. /\ desired' = [desired EXCEPT ![r] = FALSE]
        /\ UNCHANGED <<stopped, ssh>>
        /\ stopLocked(r)
    BY <1>2 DEF Ensure, StopBegin, sshVars
  <2>2. /\ cancel[r] = latest[r] /\ cancel[r] # 0
        /\ ctxDone' = ctxDone \cup {Latest(r)} /\ UNCHANGED latest
    BY <2>1, <1>2 DEF stopLocked, IInv, CancelInv, Latest
  <2>3. Latest(r) \in Runs /\ Latest(r) # None
    BY <1>2, LatestIsRun, ConstantsAssumption
  <2>4. ServingConn' = [ServingConn EXCEPT ![r] = None]
    BY <2>1, <2>2 DEF ServingConn, IInv, TypeOK
  <2>5. ServingConn[r] = IF Alive(Latest(r)) THEN Latest(r) ELSE None
    BY <1>2 DEF ServingConn, Alive, Latest
  <2>6. Fading' = Fading \cup ({ServingConn[r]} \ {None})
    BY <2>1, <2>2, <2>3, <2>5 DEF Fading, Alive
  <2>7. Promise!Cancel(r)
    BY <1>2, <2>1, <2>4, <2>6 DEF Promise!Cancel, Fading, Alive
  <2> QED BY <2>7 DEF Promise!Next
<1>3. CASE StopBegin(r) /\ ~desired[r]
  <2>1. cancel[r] = 0 BY <1>3 DEF IInv, CancelInv
  <2>2. UNCHANGED <<latest, stopped, ctxDone, ssh>>
    BY <1>3, <2>1 DEF StopBegin, stopLocked, sshVars
  <2>3. desired' = desired BY <1>3 DEF StopBegin, IInv, TypeOK
  <2> QED BY <2>2, <2>3, Stutter DEF Alive
<1>4. CASE StopReturn(r)
  <2>1. /\ ~desired[r] /\ stopped' = stopped \cup {r}
        /\ UNCHANGED <<desired, latest, ctxDone, ssh>>
    BY <1>4, ConstantsAssumption DEF StopReturn, sshVars, IInv, StopInv
  <2>2. Promise!Close(r) BY <2>1 DEF Promise!Close, ServingConn
  <2> QED BY <2>2 DEF Promise!Next
<1>5. ASSUME Ensure(r, FALSE) PROVE desired[r]
  BY <1>5 DEF Ensure, IInv, TypeOK
<1> QED BY <1>1, <1>2, <1>3, <1>4, <1>5

LEMMA RunStepRefines ==
  ASSUME IInv, NEW u \in Runs, RunStep(u)
  PROVE  [Promise!Next]_Promise!vars
<1>1. UNCHANGED <<desired, latest, stopped, ctxDone>>
  BY DEF RunStep, CheckCtx, ResolveControlPath, ProbeSocket, RemoveSocket, Spawn,
         RunOnceReturn, BackoffElapsed, BackoffCancelled, callerVars
<1>2. CASE UNCHANGED ssh BY <1>1, <1>2, Stutter DEF Alive
<1>3. CASE ~UNCHANGED ssh
  <2>1. /\ pc[u] = "spawn" /\ u \notin ctxDone
        /\ ssh' = [ssh EXCEPT ![u] = "connecting"]
    BY <1>3 DEF RunStep, CheckCtx, ResolveControlPath, ProbeSocket, RemoveSocket, Spawn,
         RunOnceReturn, BackoffElapsed, BackoffCancelled, sshVars
  <2>2. PICK r \in Routes, n \in 1..MaxRuns : u = <<r, n>> BY DEF Runs
  <2>3. RunOK(r, n) /\ latest[r] \in Nat BY <2>2 DEF IInv, RunInv, TypeOK
  <2>4. desired[r] /\ u = Latest(r) BY <2>1, <2>2, <2>3 DEF RunOK, Latest
  <2>5. ssh[u] = "none" BY <2>1 DEF IInv, SshInv
  <2>6. ServingConn[r] = None BY <2>4, <2>5 DEF ServingConn, Latest
  <2>7. ServingConn' = [ServingConn EXCEPT ![r] = u]
    <3>1. ASSUME NEW q \in Routes, q # r, desired[q]
          PROVE  ssh'[Latest(q)] = ssh[Latest(q)]
      BY <2>1, <2>2, <3>1, LatestIsRun DEF IInv, TypeOK, Latest
    <3>2. ssh'[u] = "connecting" BY <2>1 DEF IInv, TypeOK
    <3> QED BY <1>1, <2>2, <2>4, <3>1, <3>2 DEF ServingConn, Latest
  <2>8. Fading' = Fading BY <1>1, <2>1 DEF Fading, Alive, IInv, TypeOK
  <2>9. Promise!Connect(r, u)
    BY <1>1, <2>1, <2>4, <2>6, <2>7, <2>8 DEF Promise!Connect, Fading, Alive
  <2> QED BY <2>9 DEF Promise!Next
<1> QED BY <1>2, <1>3

LEMMA SshStepRefines ==
  ASSUME IInv, NEW u \in Runs, SshStep(u)
  PROVE  [Promise!Next]_Promise!vars
<1>1. UNCHANGED <<desired, latest, stopped, ctxDone>>
  BY DEF SshStep, SshLogin, SshForwardFails, SshExit, SshKilled, Gone, callerVars
<1>2. CASE SshLogin(u)
  <2>1. \A v \in Runs : Alive(v)' <=> Alive(v)
    BY <1>2 DEF SshLogin, Alive, IInv, TypeOK
  <2> QED BY <1>1, <2>1, Stutter
<1>3. CASE ~SshLogin(u)
  <2>1. ssh[u] # "none" /\ ssh' = [ssh EXCEPT ![u] = "none"]
    BY <1>3 DEF SshStep, SshForwardFails, SshExit, SshKilled, Gone
  <2>2. PICK r \in Routes, n \in 1..MaxRuns : u = <<r, n>> BY DEF Runs
  <2>3. u \notin ctxDone <=> desired[r] /\ u = Latest(r)
    BY <2>1, <2>2, AliveRuns DEF Alive, Latest
  <2>4. CASE u \in ctxDone
    <3>1. \A q \in Routes : desired[q] => Latest(q) # u
      BY <2>2, <2>3, <2>4 DEF Latest
    <3>2. ServingConn' = ServingConn
      BY <1>1, <2>1, <3>1 DEF ServingConn, IInv, TypeOK, Latest
    <3>3. Fading' = Fading \ {u} /\ u \in Fading
      BY <1>1, <2>1, <2>4 DEF Fading, Alive, IInv, TypeOK
    <3>4. Promise!Fade(u) BY <1>1, <3>2, <3>3 DEF Promise!Fade, Fading, Alive
    <3> QED BY <3>4 DEF Promise!Next
  <2>5. CASE u \notin ctxDone
    <3>1. ServingConn[r] = u BY <2>1, <2>3, <2>5 DEF ServingConn, Latest
    <3>2. u # None BY ConstantsAssumption
    <3>3. ServingConn' = [ServingConn EXCEPT ![r] = None]
      <4>1. ASSUME NEW q \in Routes, q # r, desired[q]
            PROVE  ssh'[Latest(q)] = ssh[Latest(q)]
        BY <2>1, <2>2, <4>1, LatestIsRun DEF IInv, TypeOK, Latest
      <4>2. ssh'[u] = "none" BY <2>1 DEF IInv, TypeOK
      <4> QED BY <1>1, <2>2, <2>3, <2>5, <4>1, <4>2 DEF ServingConn, Latest
    <3>4. Fading' = Fading BY <1>1, <2>1, <2>5 DEF Fading, Alive, IInv, TypeOK
    <3>5. Promise!Lose(r)
      BY <1>1, <3>1, <3>2, <3>3, <3>4 DEF Promise!Lose, Fading, Alive
    <3> QED BY <3>5 DEF Promise!Next
  <2> QED BY <2>4, <2>5
<1> QED BY <1>2, <1>3

\* Every step of the supervisors is a step of Tunnel or a stutter: cancelled
\* runs never connect again, a wanted tunnel has at most one connection, a
\* stopped route has none that is not fading.
THEOREM Refinement == Spec => ImplementsTunnel
<1>1. Init => Promise!Init
  BY DEF Init, Promise!Init, ServingConn
<1>2. IInv /\ [Next]_vars => [Promise!Next]_Promise!vars
  <2> SUFFICES ASSUME IInv, [Next]_vars PROVE [Promise!Next]_Promise!vars OBVIOUS
  <2>1. CASE Call BY <2>1, CallRefines DEF Call
  <2>2. CASE \E u \in Runs : RunStep(u) \/ SshStep(u)
    BY <2>2, RunStepRefines, SshStepRefines
  <2>3. CASE (\E w \in Users : UserMaster(w)) \/ UNCHANGED vars
    <3>1. UNCHANGED <<desired, latest, stopped, ctxDone, ssh>>
      BY <2>3 DEF UserMaster, callerVars, sshVars, vars
    <3> QED BY <3>1, Stutter DEF Alive
  <2> QED BY <2>1, <2>2, <2>3 DEF Next
<1> QED BY <1>1, <1>2, Inductive, PTL DEF Spec, ImplementsTunnel, Promise!Spec

-----------------------------------------------------------------------------
(* The reconnect delay.                                                     *)

\* The wrapped product is some integer, whatever was lost of it.
LEMMA WrapIsInt == ASSUME NEW n \in Int PROVE wrap(n) \in Int
  BY BackoffAssumption, SMT DEF wrap

\* The invariant: the type, and the bounds as they are on the last delay.
DelayInv == BackoffTypeOK /\ DelayBounds

LEMMA MaxIsPositive ==
  ASSUME BackoffTypeOK PROVE Base \in Nat \ {0} /\ Max \in Nat \ {0}
  BY BackoffAssumption DEF BackoffTypeOK, Base, Max

\* raw after line 26: at least 1 and at most max.
LEMMA RawBounds ==
  ASSUME BackoffTypeOK, NEW n \in 0..MaxAttempt PROVE Raw(n) \in 1..Max
<1>1. Shift(n) \in 0..ShiftCap
  BY BackoffAssumption DEF Shift
<1>2. 2 ^ Shift(n) \in Nat
  BY <1>1, BackoffAssumption
<1>3. wrap(Base * 2 ^ Shift(n)) \in Int
  BY <1>2, MaxIsPositive, WrapIsInt
<1>. QED BY <1>3, MaxIsPositive DEF Raw

\* nextDelay never returns zero, nor more than max.
LEMMA NextDelayBounds ==
  ASSUME BackoffTypeOK, NEW n \in 0..MaxAttempt PROVE nextDelays(n) \subseteq 1..Max
<1>1. Raw(n) \in Nat /\ Max \in Nat /\ 1 <= Raw(n) /\ Raw(n) <= Max
  BY RawBounds, MaxIsPositive
<1>. QED BY <1>1 DEF nextDelays

LEMMA StepDelayInv == DelayInv /\ [BackoffNext]_backoffVars => DelayInv'
<1>. SUFFICES ASSUME DelayInv, [BackoffNext]_backoffVars PROVE DelayInv'
  OBVIOUS
<1>1. CASE Fail
  <2>1. attempt' \in 0..MaxAttempt
    BY <1>1, BackoffAssumption DEF Fail, DelayInv, BackoffTypeOK
  <2>2. delay' \in 1..Max
    BY <1>1, <2>1, NextDelayBounds DEF Fail, DelayInv
  <2>. QED BY <1>1, <2>1, <2>2, MaxIsPositive
           DEF Fail, DelayInv, BackoffTypeOK, DelayBounds, Max, Base
<1>2. CASE FailStable
  <2>1. attempt' \in 0..MaxAttempt
    BY <1>2, BackoffAssumption DEF FailStable
  <2>2. delay' \in 1..Max
    BY <1>2, <2>1, NextDelayBounds DEF FailStable, DelayInv
  <2>. QED BY <1>2, <2>1, <2>2, MaxIsPositive
           DEF FailStable, DelayInv, BackoffTypeOK, DelayBounds, Max, Base
<1>3. CASE UNCHANGED backoffVars
  BY <1>3 DEF backoffVars, DelayInv, BackoffTypeOK, DelayBounds, Max, Base
<1>. QED BY <1>1, <1>2, <1>3 DEF BackoffNext

LEMMA DelayAlways == BackoffSpec => []DelayInv
<1>1. BackoffInit => DelayInv
  BY BackoffAssumption DEF BackoffInit, DelayInv, BackoffTypeOK, DelayBounds
<1>. QED BY <1>1, StepDelayInv, PTL DEF BackoffSpec

\* A reconnect is always delayed, never by more than backoff.max: for every
\* width of the integers, every config, zero and negative values included,
\* and every number of failures (backoff.go:12, supervisor.go:133).
THEOREM Delays == BackoffSpec => []DelayBounds
<1>1. DelayInv => DelayBounds BY DEF DelayInv
<1>. QED BY <1>1, DelayAlways, PTL

\* The base of the config loses no bits by the longest shift: with 64 bits, 20
\* shifts and durations in nanoseconds, it is at most 2.4 hours.
NoOverflow == Base * 2 ^ ShiftCap < 2 ^ (Width - 1)

\* The delay chosen last is one for the attempt counted last.
AttemptInv == delay # 0 => delay \in nextDelays(attempt)

LEMMA ProductFits ==
  ASSUME NoOverflow, BackoffTypeOK, NEW n \in 0..MaxAttempt
  PROVE  LET exact == Base * 2 ^ Shift(n) IN exact \in Nat \ {0} /\ wrap(exact) = exact
<1>1. Shift(n) \in 0..ShiftCap /\ Base \in Nat \ {0} BY BackoffAssumption, MaxIsPositive DEF Shift
<1> DEFINE p == 2 ^ Shift(n)
           q == 2 ^ ShiftCap
           half == 2 ^ (Width - 1)
           exact == Base * p
<1>2. p \in Nat \ {0} /\ q \in Nat \ {0} /\ half \in Nat \ {0} /\ p <= q
  BY <1>1, BackoffAssumption
<1>3. Base * q < half BY DEF NoOverflow
<1> HIDE DEF p, q, half
<1>4. exact \in Nat \ {0} /\ exact < half
  <2>1. PICK b \in Nat \ {0} : b = Base BY <1>1
  <2>2. b * p \in Nat /\ b * q \in Nat /\ b * p > 0 BY <1>2
  <2>3. b * q = b * p + b * (q - p) BY <1>2
  <2>4. b * (q - p) >= 0 BY <1>2
  <2> QED BY <1>2, <1>3, <2>1, <2>2, <2>3, <2>4
<1> HIDE DEF exact
<1>5. (exact + half) % (2 * half) = exact + half BY <1>2, <1>4
<1>6. wrap(exact) = exact BY <1>2, <1>4, <1>5 DEF wrap, half
<1> QED BY <1>4, <1>6 DEF exact, p

LEMMA HalfToAll ==
  ASSUME NoOverflow, BackoffTypeOK, AttemptInv PROVE CappedExponential
<1> DEFINE exact == Base * 2 ^ Shift(attempt)
           ideal == IF exact > Max THEN Max ELSE exact
<1>1. exact \in Nat \ {0} /\ wrap(exact) = exact BY ProductFits DEF BackoffTypeOK
<1>2. Max \in Nat \ {0} BY MaxIsPositive
<1> HIDE DEF exact
<1>3. Raw(attempt) = ideal /\ ideal \in Nat \ {0} BY <1>1, <1>2 DEF Raw, exact
<1> HIDE DEF ideal
<1>4. ASSUME delay # 0 PROVE 2 * delay \in ideal - 1 .. 2 * ideal
  <2>1. delay \in nextDelays(attempt) BY <1>4 DEF AttemptInv
  <2>2. CASE ideal \div 2 <= 0
    <3>1. delay = ideal BY <1>3, <2>1, <2>2 DEF nextDelays
    <3> QED BY <1>3, <3>1
  <2>3. CASE ideal \div 2 > 0
    <3>1. delay \in ideal \div 2 .. ideal \div 2 + ideal \div 2
      BY <1>3, <2>1, <2>3 DEF nextDelays
    <3> QED BY <1>3, <3>1
  <2> QED BY <1>3, <2>2, <2>3
<1> QED BY <1>4 DEF CappedExponential, ideal, exact

\* Unless the product can overflow, a reconnect comes after half to all of
\* base * 2^failures, up to backoff.max (backoff.go:7-12).
THEOREM Doubles == BackoffSpec => [](NoOverflow => CappedExponential)
<1>1. BackoffInit => AttemptInv BY DEF BackoffInit, AttemptInv
<1>2. AttemptInv /\ [BackoffNext]_backoffVars => AttemptInv'
  <2> SUFFICES ASSUME AttemptInv, [BackoffNext]_backoffVars PROVE AttemptInv' OBVIOUS
  <2>1. base' = base /\ max' = max BY DEF BackoffNext, Fail, FailStable, backoffVars
  <2>2. \A n : nextDelays(n)' = nextDelays(n) BY <2>1 DEF nextDelays, Raw, Max, Base, wrap, Shift
  <2>3. delay' \in nextDelays(attempt') \/ (delay' = delay /\ attempt' = attempt)
    BY DEF BackoffNext, Fail, FailStable, backoffVars
  <2> QED BY <2>1, <2>2, <2>3 DEF AttemptInv, nextDelays, Raw, Max, Base
<1>3. DelayInv /\ AttemptInv => (NoOverflow => CappedExponential) BY HalfToAll DEF DelayInv
<1> QED BY <1>1, <1>2, <1>3, DelayAlways, PTL DEF BackoffSpec
=============================================================================
