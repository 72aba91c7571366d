---------------------------- MODULE ReloadProofs ----------------------------
(***************************************************************************)
(* Proofs about Reload, for any number of edits of any kind.               *)
(*                                                                         *)
(* The lives follow one another because Run waits for one to be over       *)
(* before it launches the next; all the rest follows from that, from       *)
(* which runOnces are cancelled, and from who has the PAC port.  That      *)
(* there are never more lives than versions of the file is an argument of  *)
(* its own: an edit pays for one signal, and a signal for one restart.     *)
(***************************************************************************)
EXTENDS Reload, TLAPS

Waiting == {"select", "reading", "awaitOld", "awaitEnd"}
HasPac  == {"pacUp", "up", "stopping", "pacDown"}

ShapeInv ==
  /\ file \in Files
  /\ pc \in Waiting \cup {"load", "returned", "failed"}
  /\ cfg \in Config /\ newCfg \in Config
  /\ life \in 0..MaxEdits + 1
  /\ {lastMod, noticed} \subseteq Versions
  /\ once \in [Lives -> {"none", "starting", "ready", "pacUp", "up", "stopping", "pacDown",
                         "returned", "unready", "failed", "pacTaken"}]
  /\ errCh \subseteq {l \in 1..life : Over(l)}
  /\ cancelled \subseteq 1..life
  /\ server \in [Lives -> {"none", "started", "serving", "shutdown", "closed"}]
  /\ pacPort \in 0..life
  /\ proxyPort \in {0} \cup {l \in 1..life : once[l] = "up"}

\* SMT is not told that these three are used as formulas and as members.
Flags == {ctxDone, watching, reload} \subseteq BOOLEAN

RunInv ==
  /\ pc = "load" => life = 0
  /\ pc \in Waiting => life > 0
  /\ pc \in {"returned", "failed"} /\ life > 0 => Over(life)
  /\ pc = "failed" /\ life > 0 => once[life] # "returned"
  /\ life > 0 /\ once[life] = "failed" => cfg.kind = "busy"

LivesInv ==
  \A l \in Lives :
    /\ once[l] = "none" <=> l > life
    /\ l < life => Over(l)

PortInv ==
  \A l \in Lives :
    /\ pacPort = l <=> server[l] \in {"started", "serving", "shutdown"}
    /\ once[l] \in HasPac <=> server[l] \in {"started", "serving"}

One(b) == IF b THEN 1 ELSE 0

\* The watcher will see, or Run has still to act on, as many changes as there
\* are versions of the file that no runOnce was launched for.
CountInv ==
  IF watching
    THEN /\ life > 0
         /\ life + One(pc \in {"reading", "awaitOld"}) + One(reload)
             + One(file.kind # "missing" /\ file.mtime > lastMod) <= file.ver
    ELSE life <= 1 /\ ~reload /\ file.ver >= 1 /\ pc \notin {"reading", "awaitOld"}

IInv == ShapeInv /\ RunInv /\ LivesInv /\ PortInv /\ CountInv

-----------------------------------------------------------------------------
LEMMA InitIInv == Init => IInv
  BY ReloadAssumption
     DEF Init, IInv, Over, ShapeInv, RunInv, LivesInv, PortInv, CountInv, Files, Versions, Kinds,
         Config, Lives, HasPac, Waiting

\* The user, and the watcher's looks at the file.
LEMMA FileStep == ASSUME IInv, Edit \/ Cancel \/ FirstStat \/ Stat PROVE IInv'
<1> USE ReloadAssumption
    DEF IInv, ShapeInv, RunInv, LivesInv, PortInv, CountInv, Over, One, runVars, watchVars,
        onceVars, Files, Versions, Waiting
<1>1. CASE Edit
  <2>1. PICK kind \in Kinds, mtime \in Versions :
          file' = [ver |-> file.ver + 1, kind |-> kind, mtime |-> mtime]
    BY <1>1 DEF Edit
  <2>2. file' \in Files /\ file'.ver = file.ver + 1
    BY <1>1, <2>1 DEF Edit
  <2> QED BY <1>1, <2>2 DEF Edit
<1>2. CASE Cancel BY <1>2 DEF Cancel
<1>3. CASE FirstStat BY <1>3 DEF FirstStat
<1>4. CASE Stat BY <1>4 DEF Stat
<1> QED BY <1>1, <1>2, <1>3, <1>4

\* A new runOnce: the one before it is over, and there is a life left for it.
LEMMA LaunchStep ==
  ASSUME IInv, NEW config \in Config, launch(config), life + 1 \in Lives,
         life > 0 => Over(life),
         CountInv', newCfg' = newCfg,
         errCh' \in {errCh, errCh \ {life}},
         UNCHANGED <<file, watchVars, cancelled, server, pacPort, proxyPort>>
  PROVE  IInv'
<1> USE ReloadAssumption DEF IInv, launch, Lives, watchVars
<1>1. ShapeInv' BY DEF ShapeInv, LivesInv, Waiting, Over
<1>2. LivesInv' BY DEF ShapeInv, LivesInv, Over
<1>3. RunInv' BY DEF ShapeInv, RunInv, Waiting
<1>4. PortInv' BY DEF ShapeInv, PortInv, LivesInv, HasPac
<1> QED BY <1>1, <1>2, <1>3, <1>4

LEMMA LoadIsConfig == ASSUME file \in Files, file.kind # "bad" PROVE Load \in Config
  BY ReloadAssumption DEF Load, Files, Config, Kinds, Versions

LEMMA RunStep == ASSUME IInv, Run PROVE IInv'
<1> USE ReloadAssumption
    DEF IInv, CountInv, One, runVars, watchVars, onceVars
<1>1. CASE FirstLoad
  <2>1. CASE file.kind = "bad"
    BY <1>1, <2>1 DEF FirstLoad, ShapeInv, RunInv, LivesInv, PortInv, Over, Waiting
  <2>2. CASE file.kind # "bad"
    <3>1. launch(Load) /\ Load \in Config /\ life = 0
      BY <1>1, <2>2, LoadIsConfig DEF FirstLoad, ShapeInv, RunInv
    <3>2. life + 1 \in Lives /\ CountInv'
      BY <1>1, <3>1 DEF FirstLoad, launch, Lives
    <3> QED BY <1>1, <3>1, <3>2, LaunchStep DEF FirstLoad
  <2> QED BY <2>1, <2>2
<1>2. CASE CtxDone
  BY <1>2 DEF CtxDone, ShapeInv, RunInv, LivesInv, PortInv, Over, Waiting
<1>3. CASE AwaitEnd
  BY <1>3 DEF AwaitEnd, takeResult, ShapeInv, RunInv, LivesInv, PortInv, Over, Waiting
<1>4. CASE RecvResult
  BY <1>4 DEF RecvResult, takeResult, ShapeInv, RunInv, LivesInv, PortInv, Over, Waiting, Lives
<1>5. CASE RecvReload
  BY <1>5 DEF RecvReload, ShapeInv, RunInv, LivesInv, PortInv, Over, Waiting
<1>6. CASE ReadConfig
  <2>1. /\ pc = "reading" /\ pc' \in {"select", "awaitOld"}
        /\ pc' = "select" => cancelled' = cancelled
        /\ cancelled' \in {cancelled, cancelled \cup {life}}
        /\ newCfg' \in Config
    BY <1>6, LoadIsConfig DEF ReadConfig, ShapeInv
  <2>2. CountInv' BY <1>6, <2>1 DEF ReadConfig, ShapeInv, Files, Versions
  <2>3. ShapeInv' BY <1>6, <2>1 DEF ReadConfig, ShapeInv, RunInv, Waiting, Over
  <2>4. RunInv' BY <1>6, <2>1 DEF ReadConfig, RunInv, Waiting
  <2>5. LivesInv' /\ PortInv' BY <1>6, <2>1 DEF ReadConfig, LivesInv, PortInv, Over
  <2> QED BY <2>2, <2>3, <2>4, <2>5
<1>7. CASE Restart
  <2>1. life + 1 \in Lives /\ CountInv'
    BY <1>7 DEF Restart, launch, takeResult, Lives, ShapeInv, Files, Versions
  <2> QED BY <1>7, <2>1, LaunchStep DEF Restart, takeResult, ShapeInv
<1> QED BY <1>1, <1>2, <1>3, <1>4, <1>5, <1>6, <1>7 DEF Run

\* Of the runOnces only the latest takes steps, and they keep the others over.
LEMMA RunOnceStep == ASSUME IInv, NEW l \in Lives, RunOnce(l) \/ Serve(l) PROVE IInv'
<1> USE ReloadAssumption DEF IInv, othersVars, runVars, watchVars, Lives
<1>a. ASSUME once[l] \notin {"none", "returned", "unready", "failed", "pacTaken"}
      PROVE  l = life /\ l \in 1..life
  BY <1>a DEF ShapeInv, LivesInv, Over
<1>1. CASE NotReady(l)
  <2>1. ShapeInv' BY <1>1, <1>a DEF NotReady, returns, ShapeInv, Over
  <2>2. RunInv' BY <1>1, <1>a DEF NotReady, returns, RunInv, ShapeInv, Over
  <2>3. LivesInv' BY <1>1, <1>a DEF NotReady, returns, LivesInv, ShapeInv, Over
  <2>4. PortInv' /\ CountInv'
    BY <1>1 DEF NotReady, returns, PortInv, CountInv, ShapeInv, HasPac
  <2> QED BY <2>1, <2>2, <2>3, <2>4
<1>p. CASE Prepare(l)
  BY <1>p DEF Prepare, ShapeInv, RunInv, LivesInv, PortInv, CountInv, Over, HasPac
<1>2. CASE StartPac(l)
  <2>1. /\ once' \in {[once EXCEPT ![l] = "pacUp"], [once EXCEPT ![l] = "pacTaken"]}
        /\ once'[l] = "pacUp" => errCh' = errCh
        /\ errCh' \in {errCh, errCh \cup {l}}
    BY <1>2 DEF StartPac, returns, ShapeInv
  <2>2. ShapeInv' BY <1>2, <1>a, <2>1 DEF StartPac, ShapeInv, Over
  <2>3. RunInv' BY <1>2, <1>a, <2>1 DEF StartPac, RunInv, ShapeInv, Over
  <2>4. LivesInv' BY <1>2, <1>a, <2>1 DEF StartPac, LivesInv, ShapeInv, Over
  <2>5. PortInv' /\ CountInv'
    BY <1>2 DEF StartPac, returns, PortInv, CountInv, ShapeInv, HasPac
  <2> QED BY <2>2, <2>3, <2>4, <2>5
<1>3. CASE StartProxy(l)
  <2>1. l = life /\ l \in 1..life /\ CountInv'
    BY <1>3 DEF StartProxy, ShapeInv, LivesInv, CountInv, Over
  <2>2. CASE proxyPort = 0 /\ cfg.kind = "good"
    <3>1. /\ once' = [once EXCEPT ![l] = "up"] /\ proxyPort' = l
          /\ UNCHANGED <<errCh, server, pacPort>>
      BY <1>3, <2>2 DEF StartProxy
    <3>2. ShapeInv' BY <1>3, <2>1, <2>2, <3>1 DEF StartProxy, ShapeInv, Over
    <3>3. RunInv' BY <1>3, <2>1, <3>1 DEF StartProxy, RunInv, ShapeInv, Over
    <3>4. LivesInv' /\ PortInv'
      BY <1>3, <2>1, <3>1 DEF StartProxy, LivesInv, PortInv, ShapeInv, Over, HasPac
    <3> QED BY <2>1, <3>2, <3>3, <3>4
  <2>3. CASE ~(proxyPort = 0 /\ cfg.kind = "good")
    <3>1. cfg.kind = "busy"
      BY <1>3, <2>1, <2>3 DEF StartProxy, ShapeInv, LivesInv, Over, Config
    <3>2. /\ once' = [once EXCEPT ![l] = "failed"]
          /\ errCh' = errCh \cup {l}
          /\ server' = [server EXCEPT ![l] = IF server[l] = "serving" THEN "closed"
                                                                     ELSE "shutdown"]
          /\ pacPort' = IF server[l] = "serving" THEN 0 ELSE pacPort
      BY <1>3, <2>3 DEF StartProxy, shutdownPac, returns
    <3>3. ShapeInv' BY <1>3, <2>1, <2>3, <3>2 DEF StartProxy, ShapeInv, Over
    <3>4. RunInv' BY <1>3, <2>1, <2>3, <3>1, <3>2 DEF StartProxy, RunInv, ShapeInv, Over
    <3>5. LivesInv' BY <1>3, <2>1, <2>3, <3>2 DEF StartProxy, LivesInv, ShapeInv, Over
    <3>6. PortInv' BY <1>3, <2>3, <3>2 DEF StartProxy, PortInv, ShapeInv, HasPac
    <3> QED BY <2>1, <3>3, <3>4, <3>5, <3>6
  <2> QED BY <2>2, <2>3
<1>4. CASE ShutdownProxy(l)
  BY <1>4 DEF ShutdownProxy, ShapeInv, RunInv, LivesInv, PortInv, CountInv, Over, HasPac
<1>5. CASE StopSupervisors(l)
  BY <1>5 DEF StopSupervisors, ShapeInv, RunInv, LivesInv, PortInv, CountInv, Over, HasPac
<1>6. CASE ShutdownPac(l)
  BY <1>6 DEF ShutdownPac, shutdownPac, returns, ShapeInv, RunInv, LivesInv, PortInv, CountInv,
              Over, HasPac
<1>7. CASE Serve(l)
  BY <1>7 DEF Serve, ShapeInv, RunInv, LivesInv, PortInv, CountInv, Over, HasPac
<1> QED BY <1>1, <1>p, <1>2, <1>3, <1>4, <1>5, <1>6, <1>7 DEF RunOnce

\* The conjunction of the five parts holds in every reachable state.
LEMMA Inductive == Spec => []IInv
<1>1. IInv /\ [Next]_vars => IInv'
  <2> SUFFICES ASSUME IInv, [Next]_vars PROVE IInv' OBVIOUS
  <2>1. CASE Next BY <2>1, FileStep, RunStep, RunOnceStep DEF Next
  <2>2. CASE UNCHANGED vars
    BY <2>2 DEF vars, runVars, watchVars, onceVars, IInv, ShapeInv, RunInv, LivesInv, PortInv,
                CountInv, Over
  <2> QED BY <2>1, <2>2
<1> QED BY <1>1, InitIInv, PTL DEF Spec

-----------------------------------------------------------------------------
LEMMA FlagsStep == ASSUME IInv, Flags, [Next]_vars PROVE Flags'
<1> USE DEF Flags, runVars, watchVars, onceVars
<1>1. CASE Edit \/ FirstLoad \/ CtxDone \/ AwaitEnd \/ RecvResult \/ ReadConfig \/ Restart
  BY <1>1 DEF Edit, FirstLoad, CtxDone, AwaitEnd, RecvResult, ReadConfig, Restart
<1>2. CASE Cancel \/ FirstStat \/ Stat \/ RecvReload
  BY <1>2, Zenon DEF Cancel, FirstStat, Stat, RecvReload
<1>3. ASSUME NEW l \in Lives, RunOnce(l) \/ Serve(l) PROVE Flags'
  BY <1>3 DEF RunOnce, NotReady, Prepare, StartPac, StartProxy, ShutdownProxy, StopSupervisors,
              ShutdownPac, Serve, othersVars
<1>4. CASE UNCHANGED vars
  BY <1>4 DEF vars
<1> QED BY <1>1, <1>2, <1>3, <1>4 DEF Next, Run

\* Every variable keeps its type: in particular the watcher never makes Run
\* launch more runOnces than there were versions of the file
\* (daemon.go:65-100, 119-133).
THEOREM TypeCorrect == Spec => []TypeOK
<1>1. Init => Flags
  BY Zenon DEF Init, Flags
<1>2. IInv /\ Flags => TypeOK
  BY DEF IInv, ShapeInv, Flags, TypeOK, Waiting
<1> QED BY <1>1, <1>2, FlagsStep, Inductive, PTL DEF Spec

\* Two runOnces are never alive together, and none is left behind by a Run that
\* has returned (daemon.go:76-98).
THEOREM OneAlive == Spec => []OneRunOnce
<1>1. IInv => OneRunOnce
  BY ReloadAssumption DEF IInv, RunInv, LivesInv, ShapeInv, OneRunOnce, Lives
<1> QED BY <1>1, Inductive, PTL

\* Only what fails at startup ends Run, and no runOnce starts while another has
\* a port, but for a PAC listener whose Serve is late (daemon.go:65-100,
\* 139-190; pac/server.go:43-63).
THEOREM ReloadIsSafe == Spec => []FatalStartsOnly
<1>1. IInv => FatalStartsOnly
  BY ReloadAssumption
     DEF IInv, ShapeInv, RunInv, LivesInv, PortInv, FatalStartsOnly, Over, HasPac, Lives
<1> QED BY <1>1, Inductive, PTL

-----------------------------------------------------------------------------
\* What the watcher noticed is there to be read, and is no later than the file.
NoticedInv ==
  /\ noticed <= file.ver /\ file.ver >= 1
  /\ ~watching => noticed = 0
  /\ noticed = file.ver => file.kind # "missing"

LEMMA NoticedStep ==
  ASSUME IInv, NoticedInv, NoLostEdit, [Next]_vars PROVE NoticedInv' /\ NoLostEdit'
<1> USE DEF NoticedInv, NoLostEdit, runVars, watchVars, onceVars
<1>a. file.ver \in Nat /\ noticed \in Nat
  BY ReloadAssumption DEF IInv, ShapeInv, Files, Versions
<1>1. CASE Edit
  <2>1. file'.ver = file.ver + 1 BY <1>1 DEF Edit
  <2> QED BY <1>a, <1>1, <2>1 DEF Edit
<1>2. CASE FirstStat BY <1>a, <1>2 DEF FirstStat
<1>3. CASE Stat BY <1>a, <1>3 DEF Stat
<1>4. CASE FirstLoad
  <2>1. ~watching BY <1>4 DEF FirstLoad, IInv, RunInv, CountInv
  <2> QED BY <1>a, <1>4, <2>1 DEF FirstLoad, launch
<1>5. CASE Cancel \/ CtxDone \/ AwaitEnd \/ RecvResult
  BY <1>5 DEF Cancel, CtxDone, AwaitEnd, RecvResult
<1>6. CASE RecvReload BY <1>6 DEF RecvReload
<1>7. CASE ReadConfig
  <2>1. CASE file.kind = "bad" BY <1>7, <2>1 DEF ReadConfig
  <2>2. CASE file.kind # "bad"
    <3>1. pc' = "awaitOld" /\ newCfg' = Load BY <1>7, <2>2 DEF ReadConfig
    <3>2. noticed = file.ver => newCfg'.ver = file.ver BY <3>1 DEF Load
    <3> QED BY <1>7, <3>1, <3>2 DEF ReadConfig
  <2> QED BY <2>1, <2>2
<1>8. CASE Restart BY <1>8 DEF Restart, launch
<1>9. ASSUME NEW l \in Lives, RunOnce(l) \/ Serve(l) PROVE NoticedInv' /\ NoLostEdit'
  BY <1>9 DEF RunOnce, NotReady, Prepare, StartPac, StartProxy, ShutdownProxy, StopSupervisors,
              ShutdownPac, Serve, othersVars
<1>10. CASE UNCHANGED vars BY <1>10 DEF vars
<1> QED BY <1>1, <1>2, <1>3, <1>4, <1>5, <1>6, <1>7, <1>8, <1>9, <1>10 DEF Next, Run

\* No edit the watcher has noticed is lost in the one-slot channel, whatever Run
\* is doing (daemon.go:104-107).
THEOREM EditsKept == Spec => []NoLostEdit
<1>1. Init => NoticedInv /\ NoLostEdit
  BY DEF Init, NoticedInv, NoLostEdit, Files, Versions
<1>2. IInv /\ NoticedInv /\ NoLostEdit /\ [Next]_vars => (NoticedInv /\ NoLostEdit)'
  BY NoticedStep
<1> QED BY <1>1, <1>2, Inductive, PTL DEF Spec
=============================================================================
