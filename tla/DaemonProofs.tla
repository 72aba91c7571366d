---------------------------- MODULE DaemonProofs ----------------------------
(***************************************************************************)
(* Proofs about Daemon, for all routes, profiles, networks and intervals.  *)
(*                                                                         *)
(* Neither Agree nor NoLostWakeup is inductive.  Agree needs to know what  *)
(* the answer being applied is (ApplyInv).  NoLostWakeup speaks of the     *)
(* loop at rest; QueryInv carries it through a query: what has been read   *)
(* so far is right, or something that makes the loop query again is under  *)
(* way.                                                                    *)
(***************************************************************************)
EXTENDS Daemon, TLAPS

\* While an answer is applied decisions is that answer, and the PAC update
\* that is skipped would change nothing.
ApplyInv ==
  pc \in {"table", "pac"} =>
    /\ decisions = lastProxyNeeded
    /\ ~changed => pacBody = lastProxyNeeded

Woken == missed \/ events > 0 \/ recheck \/ pending

\* The answer to the query, were it complete now.
Reads(fields) ==
  ns = [SSID |-> IF "SSID" \in fields THEN net.SSID ELSE Blank,
        Gateway |-> net.Gateway,
        Address |-> IF "Address" \in fields THEN net.Address ELSE Blank]

QueryInv ==
  \/ Woken
  \/ pc = "gateway"
  \/ pc = "address" /\ dev = net.Dev /\ Reads({})
  \/ pc = "ssid" /\ dev = net.Dev /\ Reads({"Address"})
  \/ pc = "evaluate" /\ Reads({"Address", "SSID"})
  \/ pc \notin {"gateway", "address", "ssid", "evaluate"} /\ Current

IInv == TypeOK /\ Agree /\ ApplyInv /\ QueryInv

-----------------------------------------------------------------------------
\* Evaluate answers yes or no, and looks at nothing but the NetState's fields.
LEMMA NeededIsBoolean == ASSUME NEW r, NEW n PROVE Needed(r, n) \in BOOLEAN
  BY DEF Needed, Evaluate

LEMMA NeededByFields ==
  ASSUME NEW r, NEW m, NEW n,
         m.SSID = n.SSID, m.Gateway = n.Gateway, m.Address = n.Address
  PROVE  Needed(r, m) = Needed(r, n)
<1>1. \A p : profileMatches(p, m) = profileMatches(p, n)
  BY DEF profileMatches
<1> QED BY <1>1 DEF Needed, Evaluate

-----------------------------------------------------------------------------
(* TypeOK in two parts, the flags and the rest.                             *)

Flags == {monitor, recheck, pending, changed, ctxDone, missed} \subseteq BOOLEAN

Others ==
  /\ net \in Networks
  /\ events \in 0..MaxEvents
  /\ pollIn \in 1..PollInterval
  /\ debounce \in 0..Stopped
  /\ pending <=> debounce # Stopped
  /\ pc \in Labels
  /\ {lastProxyNeeded, decisions, table, pacBody} \subseteq Maps
  /\ desired \in [Routes -> BOOLEAN]
  /\ stopped \subseteq Routes
  /\ serving \subseteq {"proxy", "pac"}
  /\ faults \in 0..MaxFaults

LEMMA TypeParts == TypeOK <=> Flags /\ Others
<1>1. TypeOK => Flags BY Zenon DEF TypeOK, Flags
<1>2. TypeOK => Others BY Zenon DEF TypeOK, Others
<1>3. Flags /\ Others => TypeOK BY Zenon DEF TypeOK, Flags, Others
<1> QED BY <1>1, <1>2, <1>3

LEMMA InitIInv == Init => IInv
<1> SUFFICES ASSUME Init PROVE IInv OBVIOUS
<1>1. TypeOK
  <2>1. Flags BY Zenon DEF Init, Flags
  <2>2. Others BY DaemonAssumption DEF Init, Others, Labels, Stopped, Maps
  <2> QED BY <2>1, <2>2, TypeParts
<1>2. Agree
  BY DEF Init, Agree, Wanted
<1>3. ApplyInv /\ QueryInv
  BY DEF Init, ApplyInv, QueryInv
<1> QED BY <1>1, <1>2, <1>3 DEF IInv

-----------------------------------------------------------------------------
(* One lemma per part of the invariant, one step per action.                *)

LEMMA FlagsStep == ASSUME Flags, Next PROVE Flags'
<1> USE DEF Flags, netVars, timeVars, queryVars, applied, endVars
<1>1. CASE Roam BY <1>1, Zenon DEF Roam
<1>2. CASE MonitorDies BY <1>2, Zenon DEF MonitorDies
<1>3. CASE Cancel BY <1>3, Zenon DEF Cancel
<1>4. CASE MonitorLine BY <1>4, Zenon DEF MonitorLine, triggerRecheck
<1>5. CASE MonitorStarts \/ MonitorEnds BY <1>5, Zenon DEF MonitorStarts, MonitorEnds
<1>6. CASE Tick BY <1>6, Zenon DEF Tick, triggerRecheck
<1>7. CASE QueryGateway BY <1>7, Zenon DEF QueryGateway
<1>8. CASE QueryAddress BY <1>8, Zenon DEF QueryAddress
<1>9. CASE QuerySSID BY <1>9, Zenon DEF QuerySSID
<1>10. CASE EvaluateRoutes BY <1>10, Zenon DEF EvaluateRoutes
<1>11. CASE UpdateTable \/ UpdatePac BY <1>11, Zenon DEF UpdateTable, UpdatePac
<1>12. CASE RecvRecheck \/ RecvDebounce BY <1>12, Zenon DEF RecvRecheck, RecvDebounce
<1>13. CASE RecvDone \/ ShutdownProxy BY <1>13, Zenon DEF RecvDone, ShutdownProxy
<1>14. CASE StopSupervisor \/ ShutdownPac BY <1>14, Zenon DEF StopSupervisor, ShutdownPac
<1> QED BY <1>1, <1>2, <1>3, <1>4, <1>5, <1>6, <1>7, <1>8, <1>9, <1>10, <1>11, <1>12, <1>13,
           <1>14 DEF Next, Environment, Loop

LEMMA OthersStep == ASSUME Others, Next PROVE Others'
<1> USE DaemonAssumption DEF Others, netVars, timeVars, queryVars, applied, endVars
<1>1. CASE Roam
  BY <1>1 DEF Roam
<1>2. CASE MonitorDies
  BY <1>2 DEF MonitorDies, Fault
<1>3. CASE Cancel
  BY <1>3 DEF Cancel
<1>4. CASE MonitorLine
  BY <1>4 DEF MonitorLine
<1>5. CASE MonitorStarts \/ MonitorEnds
  <2>1. CASE MonitorStarts BY <2>1 DEF MonitorStarts
  <2>2. CASE MonitorEnds BY <2>2 DEF MonitorEnds
  <2> QED BY <1>5, <2>1, <2>2
<1>6. CASE Tick
  <2>1. pollIn' \in 1..PollInterval
    BY <1>6 DEF Tick
  <2>2. debounce' \in 0..Stopped /\ (debounce' = Stopped <=> debounce = Stopped)
    BY <1>6 DEF Tick, Stopped
  <2> QED BY <1>6, <2>1, <2>2 DEF Tick
<1>7. CASE QueryGateway
  BY <1>7 DEF QueryGateway, Fault, Labels
<1>8. CASE QueryAddress \/ QuerySSID
  BY <1>8 DEF QueryAddress, QuerySSID, Fault, Labels
<1>9. CASE EvaluateRoutes
  <2>1. decisions' \in [Routes -> BOOLEAN]
    BY <1>9, NeededIsBoolean DEF EvaluateRoutes
  <2>2. desired' \in [Routes -> BOOLEAN]
    BY <1>9 DEF EvaluateRoutes
  <2> QED BY <1>9, <2>1, <2>2 DEF EvaluateRoutes, Maps, Labels
<1>10. CASE UpdateTable
  BY <1>10 DEF UpdateTable, Labels
<1>11. CASE UpdatePac
  BY <1>11 DEF UpdatePac, Labels
<1>12. CASE RecvRecheck
  BY <1>12 DEF RecvRecheck, Stopped
<1>13. CASE RecvDebounce
  BY <1>13 DEF RecvDebounce, Stopped, Labels
<1>14. CASE RecvDone
  BY <1>14 DEF RecvDone, Labels
<1>15. CASE ShutdownProxy
  BY <1>15 DEF ShutdownProxy, Labels
<1>16. CASE StopSupervisor
  BY <1>16 DEF StopSupervisor, Labels
<1>17. CASE ShutdownPac
  BY <1>17 DEF ShutdownPac, Labels
<1> QED BY <1>1, <1>2, <1>3, <1>4, <1>5, <1>6, <1>7, <1>8, <1>9, <1>10, <1>11, <1>12, <1>13,
           <1>14, <1>15, <1>16, <1>17 DEF Next, Environment, Loop

LEMMA TypeStep == ASSUME IInv, Next PROVE TypeOK'
<1>1. Flags /\ Others BY TypeParts DEF IInv
<1>2. Flags' /\ Others' BY <1>1, FlagsStep, OthersStep
<1> QED BY <1>2, TypeParts, PTL

LEMMA AgreeStep == ASSUME IInv, Next PROVE Agree' /\ ApplyInv'
<1> USE DEF netVars, timeVars, queryVars, applied, endVars
<1>a. TypeOK /\ Agree /\ ApplyInv BY DEF IInv
<1>1. CASE Environment \/ MonitorLine \/ MonitorStarts \/ MonitorEnds \/ Tick
  <2>1. UNCHANGED <<pc, applied, endVars>>
    BY <1>1 DEF Environment, Roam, MonitorDies, Cancel, MonitorLine, MonitorStarts,
               MonitorEnds, Tick
  <2> QED BY <1>a, <2>1 DEF Agree, ApplyInv, Wanted
<1>2. CASE QueryGateway \/ QueryAddress \/ QuerySSID
  BY <1>a, <1>2 DEF Agree, ApplyInv, Wanted, QueryGateway, QueryAddress, QuerySSID
<1>3. CASE EvaluateRoutes
  <2>1. decisions' \in [Routes -> BOOLEAN] /\ lastProxyNeeded' = decisions'
    BY <1>3, NeededIsBoolean DEF EvaluateRoutes
  <2>2. desired' = Wanted(lastProxyNeeded)'
    <3>1. desired' = [r \in Routes |-> decisions'[r] \/ r \in Keep]
      BY <1>3 DEF EvaluateRoutes
    <3>2. \A r \in Routes : decisions' # Empty
      BY <2>1 DEF Empty
    <3> QED BY <2>1, <3>1, <3>2, Zenon DEF Wanted
  <2>3. ~changed' => pacBody' = lastProxyNeeded'
    BY <1>a, <1>3, <2>1 DEF EvaluateRoutes, Agree
  <2> QED BY <1>3, <2>1, <2>2, <2>3 DEF EvaluateRoutes, Agree, ApplyInv
<1>4. CASE UpdateTable
  BY <1>a, <1>4 DEF Agree, ApplyInv, Wanted, UpdateTable
<1>5. CASE UpdatePac
  BY <1>a, <1>5 DEF Agree, ApplyInv, Wanted, UpdatePac
<1>6. CASE RecvRecheck \/ RecvDebounce \/ RecvDone
  BY <1>a, <1>6 DEF Agree, ApplyInv, Wanted, RecvRecheck, RecvDebounce, RecvDone
<1>7. CASE ShutdownProxy \/ ShutdownPac
  BY <1>a, <1>7 DEF Agree, ApplyInv, Wanted, ShutdownProxy, ShutdownPac
<1>8. CASE StopSupervisor
  BY <1>a, <1>8 DEF Agree, ApplyInv, Wanted, StopSupervisor
<1> QED BY <1>1, <1>2, <1>3, <1>4, <1>5, <1>6, <1>7, <1>8 DEF Next, Loop

LEMMA QueryStep == ASSUME IInv, Next PROVE QueryInv'
<1> USE DEF netVars, timeVars, queryVars, applied, endVars
<1>a. TypeOK /\ QueryInv BY DEF IInv
\* A wakeup under way stays under way but for a query that starts afresh.
<1>b. ASSUME UNCHANGED <<net, pc, queryVars, lastProxyNeeded>>, Woken => Woken'
      PROVE  QueryInv'
  BY <1>a, <1>b DEF QueryInv, Current, Reads
<1>1. CASE Roam
  BY <1>a, <1>1 DEF TypeOK, Roam, QueryInv, Woken
<1>2. CASE MonitorDies \/ Cancel \/ MonitorLine \/ MonitorStarts \/ MonitorEnds \/ Tick
  <2>1. UNCHANGED <<net, pc, queryVars, lastProxyNeeded>>
    BY <1>2 DEF MonitorDies, Cancel, MonitorLine, MonitorStarts, MonitorEnds, Tick
  <2>2. Woken => Woken'
    BY <1>a, <1>2 DEF Woken, TypeOK, MonitorDies, Cancel, MonitorLine, MonitorStarts,
                      MonitorEnds, Tick, triggerRecheck
  <2> QED BY <1>b, <2>1, <2>2
<1>3. CASE QueryGateway
  <2>1. CASE missed'
    BY <2>1 DEF QueryInv, Woken
  <2>2. CASE ~missed'
    <3>1. /\ dev' = net.Dev /\ net' = net
          /\ ns' = [Unknown EXCEPT !.Gateway = net.Gateway]
          /\ pc' = IF net.Dev = Blank THEN "evaluate" ELSE "address"
      BY <1>3, <2>2 DEF QueryGateway
    <3>2. CASE net.Dev = Blank
      BY <1>a, <3>1, <3>2, OfflineAssumption DEF QueryInv, Reads, Unknown, TypeOK
    <3>3. CASE net.Dev # Blank
      BY <3>1, <3>3 DEF QueryInv, Reads, Unknown
    <3> QED BY <3>2, <3>3
  <2> QED BY <2>1, <2>2
<1>4. CASE QueryAddress
  BY <1>a, <1>4 DEF QueryInv, QueryAddress, Woken, Reads
<1>5. CASE QuerySSID
  BY <1>a, <1>5 DEF QueryInv, QuerySSID, Woken, Reads
<1>6. CASE EvaluateRoutes
  <2>1. pc' = "table" /\ net' = net /\ (Woken => Woken')
    BY <1>6 DEF EvaluateRoutes, Woken
  <2>2. CASE Reads({"Address", "SSID"})
    <3>1. \A r \in Routes : Needed(r, ns) = Needed(r, net)
      BY <2>2, NeededByFields DEF Reads
    <3>2. Current'
      BY <1>6, <2>1, <3>1 DEF Current, EvaluateRoutes
    <3> QED BY <2>1, <3>2 DEF QueryInv
  <2> QED BY <1>a, <1>6, <2>1, <2>2 DEF QueryInv, EvaluateRoutes
<1>7. CASE UpdateTable \/ UpdatePac
  BY <1>a, <1>7 DEF QueryInv, UpdateTable, UpdatePac, Woken, Current
<1>8. CASE RecvRecheck
  BY <1>a, <1>8 DEF QueryInv, RecvRecheck, Woken
<1>9. CASE RecvDebounce
  BY <1>a, <1>9, DaemonAssumption DEF TypeOK, QueryInv, RecvDebounce, Stopped
<1>10. CASE RecvDone \/ ShutdownProxy \/ ShutdownPac
  BY <1>a, <1>10 DEF QueryInv, RecvDone, ShutdownProxy, ShutdownPac, Woken, Current
<1>11. CASE StopSupervisor
  BY <1>a, <1>11 DEF QueryInv, StopSupervisor, Woken, Current
<1> QED BY <1>1, <1>2, <1>3, <1>4, <1>5, <1>6, <1>7, <1>8, <1>9, <1>10, <1>11
        DEF Next, Environment, Loop

LEMMA Inductive == Spec => []IInv
<1>1. ASSUME IInv, [Next]_vars PROVE IInv'
  <2>1. CASE Next
    BY <1>1, <2>1, TypeStep, AgreeStep, QueryStep DEF IInv
  <2>2. CASE UNCHANGED vars
    BY <1>1, <2>2 DEF vars, netVars, timeVars, queryVars, applied, endVars, IInv, TypeOK,
                      Agree, ApplyInv, QueryInv, Wanted, Woken, Reads, Current
  <2> QED BY <1>1, <2>1, <2>2
<1> QED BY <1>1, InitIInv, PTL DEF Spec

-----------------------------------------------------------------------------
\* Every variable of the loop keeps its type; the debounce timer runs exactly
\* while a recheck is pending (daemon.go:264-272).
THEOREM TypeCorrect == Spec => []TypeOK
<1>1. IInv => TypeOK BY DEF IInv
<1> QED BY <1>1, Inductive, PTL

\* Tunnels, routing table and PAC file follow the last successful query,
\* whatever fails and however rechecks, cancellations and roams interleave
\* (daemon.go:202-230).
THEOREM Agreement == Spec => []Agree
<1>1. IInv => Agree BY DEF IInv
<1> QED BY <1>1, Inductive, PTL

\* No network change goes unnoticed by a loop at rest with nothing under way to
\* wake it, but for one the monitor missed or the query failed on
\* (daemon.go:192-198, 264-272).
THEOREM Wakeup == Spec => []NoLostWakeup
<1>1. IInv => NoLostWakeup BY DEF IInv, QueryInv, NoLostWakeup, Woken
<1> QED BY <1>1, Inductive, PTL
=============================================================================
