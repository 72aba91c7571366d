---------------------------- MODULE NotifyProofs ----------------------------
(***************************************************************************)
(* Proofs about Notify, for all routes, categories, capacities and         *)
(* cooldowns.                                                              *)
(*                                                                         *)
(* CooldownKept speaks of the moment a notification is sent.  The          *)
(* invariant behind it compares three clocks: neither the record in memory *)
(* nor the one on disk is ever older than what the user was last shown.    *)
(***************************************************************************)
EXTENDS Notify, TLAPS

\* The part of TypeOK that CooldownKept depends on.
ShapeInv ==
  /\ current \in Keys
  /\ notified \in [Keys -> Ages]
  /\ disk \in [Keys -> Ages]
  /\ shown \in [Keys -> Ages]
  /\ errors \in [Routes -> Seq(Categories)]
  /\ forwarder \in [Routes -> Categories \cup {Recv, Ended}]
  /\ errCh \in Seq(Keys)

Kept(k) ==
  /\ disk[k] <= shown[k]
  /\ pc # "over" => notified[k] <= shown[k]
  /\ pc \in {"save", "send"} /\ k = current => shown[k] = Cooldown

KeptInv == \A k \in Keys : k \in unsaved \/ Kept(k)

IInv == ShapeInv /\ KeptInv

-----------------------------------------------------------------------------
\* Time makes no record older than one that was older before.
LEMMA OlderIsMonotone ==
  ASSUME NEW f \in [Keys -> Ages], NEW g \in [Keys -> Ages], NEW k \in Keys, f[k] <= g[k]
  PROVE  Older(f)[k] <= Older(g)[k]
  BY NotifyAssumption DEF Older, Ages

LEMMA OlderIsAges == ASSUME NEW f \in [Keys -> Ages] PROVE Older(f) \in [Keys -> Ages]
  BY NotifyAssumption DEF Older, Ages

LEMMA InitIInv == Init => IInv
  BY NotifyAssumption DEF Init, IInv, ShapeInv, KeptInv, Kept, Ages

\* Steps that only move a failure along the channels, or the environment's.
LEMMA Irrelevant ==
  ASSUME IInv, UNCHANGED <<current, notified, disk, shown, unsaved>>, ShapeInv',
         pc' = pc \/ pc' = "over" \/ (pc' = "select" /\ pc # "over")
  PROVE  IInv'
  BY DEF IInv, KeptInv, Kept

LEMMA QueueStep ==
  ASSUME IInv, NEW r \in Routes,
         Forwarder(r) \/ \E c \in Categories : ScanLine(r, c)
  PROVE  IInv'
<1> USE DEF stateVars, history
<1>a. ShapeInv BY DEF IInv
<1>1. CASE ForwarderReceives(r)
  <2>1. Head(errors[r]) \in Categories /\ Tail(errors[r]) \in Seq(Categories)
    BY <1>a, <1>1 DEF ShapeInv, ForwarderReceives
  <2> QED BY <1>a, <1>1, <2>1, Irrelevant DEF ForwarderReceives, ShapeInv
<1>2. CASE ForwarderSends(r)
  <2>1. <<r, forwarder[r]>> \in Keys
    BY <1>2 DEF ForwarderSends, Keys
  <2> QED BY <1>a, <1>2, <2>1, Irrelevant DEF ForwarderSends, ShapeInv
<1>3. CASE ForwarderEnds(r)
  BY <1>a, <1>3, Irrelevant DEF ForwarderEnds, ShapeInv
<1>4. ASSUME NEW c \in Categories, ScanLine(r, c) PROVE IInv'
  BY <1>a, <1>4, Irrelevant DEF ScanLine, ShapeInv
<1> QED BY <1>1, <1>2, <1>3, <1>4 DEF Forwarder

LEMMA EnvironmentStep ==
  ASSUME IInv, Tick \/ BusChanges \/ Cancel \/ Crash \/ Start
  PROVE  IInv'
<1> USE DEF queueVars, stateVars, history
<1>a. ShapeInv BY DEF IInv
<1>1. CASE Tick
  <2>1. ShapeInv'
    BY <1>a, <1>1, OlderIsAges DEF Tick, ShapeInv
  <2>2. ASSUME NEW k \in Keys, Kept(k) PROVE Kept(k)'
    BY <1>a, <1>1, <2>2, OlderIsMonotone DEF Tick, Kept, ShapeInv
  <2> QED BY <1>1, <2>1, <2>2 DEF Tick, IInv, KeptInv
<1>2. CASE BusChanges \/ Cancel
  BY <1>a, <1>2, Irrelevant DEF BusChanges, Cancel, ShapeInv
<1>3. CASE Crash
  BY <1>a, <1>3, Irrelevant DEF Crash, ShapeInv
<1>4. CASE Start
  <2>1. ShapeInv'
    BY <1>a, <1>4 DEF Start, Load, ShapeInv
  <2>2. ASSUME NEW k \in Keys, Kept(k) PROVE Kept(k)'
    BY <1>4, <2>2 DEF Start, Load, Kept
  <2> QED BY <1>4, <2>1, <2>2 DEF Start, IInv, KeptInv
<1> QED BY <1>1, <1>2, <1>3, <1>4

LEMMA MainStep == ASSUME IInv, Main PROVE IInv'
<1> USE NotifyAssumption DEF queueVars, stateVars, history
<1>a. ShapeInv BY DEF IInv
<1>1. CASE RecvError
  <2> DEFINE k == Head(errCh)
  <2>1. k \in Keys /\ Tail(errCh) \in Seq(Keys)
    BY <1>a, <1>1 DEF ShapeInv, RecvError
  <2>2. CASE ShouldNotify(k)
    <3>1. notified' = [notified EXCEPT ![k] = 0] /\ pc' = "save" /\ current' = k
      BY <1>1, <2>2 DEF RecvError, RecordNotified
    <3>2. ShapeInv'
      BY <1>a, <1>1, <2>1, <3>1 DEF RecvError, ShapeInv, Ages
    <3>3. pc = "select" /\ UNCHANGED <<disk, shown, unsaved>>
      BY <1>1 DEF RecvError
    <3>4. ASSUME NEW l \in Keys, Kept(l) PROVE Kept(l)'
      <4>1. CASE l = k
        BY <1>a, <2>1, <2>2, <3>1, <3>3, <3>4, <4>1 DEF Kept, ShouldNotify, ShapeInv, Ages
      <4>2. CASE l # k
        BY <1>a, <2>1, <3>1, <3>3, <3>4, <4>2 DEF Kept, ShapeInv
      <4> QED BY <4>1, <4>2
    <3> QED BY <3>2, <3>3, <3>4 DEF IInv, KeptInv
  <2>3. CASE ~ShouldNotify(k)
    <3>1. UNCHANGED <<pc, notified, disk, shown, unsaved>> /\ pc = "select" /\ current' = k
      BY <1>1, <2>3 DEF RecvError
    <3>2. ShapeInv'
      BY <1>a, <1>1, <2>1, <3>1 DEF RecvError, ShapeInv
    <3> QED BY <3>1, <3>2 DEF IInv, KeptInv, Kept
  <2> QED BY <2>2, <2>3
<1>2. CASE Save \/ RecvDone
  <2>1. /\ disk' \in {notified, disk}
        /\ pc \in {"save", "select"} /\ (pc' \in {"save", "send"} => pc = "save")
        /\ UNCHANGED <<notified, shown, unsaved, current, errors, forwarder, errCh>>
    BY <1>2 DEF Save, RecvDone, SaveState
  <2>2. ShapeInv'
    BY <1>a, <2>1 DEF ShapeInv
  <2>3. ASSUME NEW k \in Keys, Kept(k) PROVE Kept(k)'
    BY <2>1, <2>3 DEF Kept
  <2> QED BY <2>1, <2>2, <2>3 DEF IInv, KeptInv
<1>3. CASE Send
  <2>1. ShapeInv'
    BY <1>a, <1>3 DEF Send, ShapeInv
  <2>2. CASE ~bus
    BY <1>3, <2>1, <2>2 DEF Send, IInv, KeptInv, Kept
  <2>3. CASE bus
    <3>1. /\ shown' = [shown EXCEPT ![current] = notified[current]]
          /\ pc = "send" /\ pc' = "select" /\ UNCHANGED <<current, notified, disk>>
          /\ unsaved' = IF disk[current] = notified[current]
                          THEN unsaved \ {current} ELSE unsaved \cup {current}
      BY <1>3, <2>3 DEF Send
    <3>2. ASSUME NEW k \in Keys PROVE k \in unsaved' \/ Kept(k)'
      <4>1. CASE k = current
        BY <1>a, <3>1, <4>1 DEF Kept, ShapeInv, Ages
      <4>2. CASE k # current
        BY <1>a, <3>1, <4>2 DEF Kept, ShapeInv, IInv, KeptInv
      <4> QED BY <4>1, <4>2
    <3> QED BY <2>1, <3>2 DEF IInv, KeptInv
  <2> QED BY <2>2, <2>3
<1> QED BY <1>1, <1>2, <1>3 DEF Main

LEMMA Inductive == Spec => []IInv
<1>1. ASSUME IInv, [Next]_vars PROVE IInv'
  <2>1. CASE Next
    BY <1>1, <2>1, EnvironmentStep, MainStep, QueueStep DEF Next
  <2>2. CASE UNCHANGED vars
    BY <1>1, <2>2 DEF vars, queueVars, stateVars, history, IInv, ShapeInv, KeptInv, Kept
  <2> QED BY <1>1, <2>1, <2>2
<1> QED BY <1>1, InitIInv, PTL DEF Spec

-----------------------------------------------------------------------------
(* Types.  The capacities of the channels are not needed above.             *)

BoundInv ==
  /\ pc \in {"over", "select", "save", "send"}
  /\ \A r \in Routes : Len(errors[r]) <= ErrorsCap
  /\ Len(errCh) <= ErrChCap
  /\ faults \in 0..MaxFaults
  /\ unsaved \subseteq Keys

FlagInv == {ctxDone, bus} \subseteq BOOLEAN

LEMMA BoundedSeqs ==
  ASSUME NEW S, NEW n \in Nat, NEW s \in Seq(S), Len(s) <= n
  PROVE  s \in BoundedSeq(S, n)
<1>1. Len(s) \in 0..n /\ s \in [1..Len(s) -> S] OBVIOUS
<1> QED BY <1>1 DEF BoundedSeq, SeqOf

LEMMA StepBoundInv == ASSUME ShapeInv, BoundInv, [Next]_vars PROVE BoundInv'
<1> USE NotifyAssumption DEF ShapeInv, BoundInv, queueVars, stateVars, history
<1>1. CASE Tick \/ BusChanges \/ Cancel
  BY <1>1 DEF Tick, BusChanges, Cancel
<1>2. CASE Crash \/ Start
  <2>1. pc' \in {"over", "select"} /\ errors' = [r \in Routes |-> <<>>] /\ errCh' = <<>>
    BY <1>2 DEF Crash, Start
  <2> QED BY <1>2, <2>1 DEF Crash, Start
<1>3. CASE Main
  <2>1. CASE RecvError
    <3>1. Len(Tail(errCh)) <= ErrChCap BY <2>1 DEF RecvError
    <3> QED BY <2>1, <3>1 DEF RecvError
  <2>2. CASE Save \/ RecvDone BY <2>2 DEF Save, RecvDone, SaveState
  <2>3. CASE Send BY <2>3 DEF Send
  <2> QED BY <1>3, <2>1, <2>2, <2>3 DEF Main
<1>4. ASSUME NEW r \in Routes, Forwarder(r) PROVE BoundInv'
  <2>1. CASE ForwarderReceives(r)
    <3>1. Len(Tail(errors[r])) <= ErrorsCap BY <2>1 DEF ForwarderReceives
    <3> QED BY <2>1, <3>1 DEF ForwarderReceives
  <2>2. CASE ForwarderSends(r)
    <3>1. <<r, forwarder[r]>> \in Keys BY <2>2 DEF ForwarderSends, Keys
    <3>2. Len(errCh') <= ErrChCap BY <2>2, <3>1 DEF ForwarderSends
    <3> QED BY <2>2, <3>2 DEF ForwarderSends
  <2>3. CASE ForwarderEnds(r) BY <2>3 DEF ForwarderEnds
  <2> QED BY <1>4, <2>1, <2>2, <2>3 DEF Forwarder
<1>5. ASSUME NEW r \in Routes, NEW c \in Categories, ScanLine(r, c) PROVE BoundInv'
  <2>1. Len(Append(errors[r], c)) <= ErrorsCap BY <1>5 DEF ScanLine
  <2> QED BY <1>5, <2>1 DEF ScanLine
<1>6. CASE UNCHANGED vars BY <1>6 DEF vars
<1> QED BY <1>1, <1>2, <1>3, <1>4, <1>5, <1>6 DEF Next

LEMMA StepFlagInv == FlagInv /\ [Next]_vars => FlagInv'
<1> SUFFICES ASSUME FlagInv, [Next]_vars PROVE FlagInv'
  OBVIOUS
<1> USE DEF FlagInv, queueVars, stateVars, history
<1>1. CASE Tick \/ Crash BY <1>1 DEF Tick, Crash
<1>2. CASE BusChanges BY <1>2 DEF BusChanges
<1>3. CASE Cancel \/ Start BY <1>3 DEF Cancel, Start
<1>4. CASE Main BY <1>4 DEF Main, RecvError, Save, Send, RecvDone
<1>5. ASSUME NEW r \in Routes,
             Forwarder(r) \/ \E c \in Categories : ScanLine(r, c)
      PROVE  FlagInv'
  BY <1>5 DEF Forwarder, ForwarderReceives, ForwarderSends, ForwarderEnds, ScanLine
<1>6. CASE UNCHANGED vars BY <1>6 DEF vars
<1> QED BY <1>1, <1>2, <1>3, <1>4, <1>5, <1>6 DEF Next

\* Every variable keeps its type and no channel ever holds more than its
\* capacity, across crashes and restarts (supervisor.go:58, daemon.go:144).
THEOREM TypeCorrect == Spec => []TypeOK
<1>1. Init => BoundInv BY NotifyAssumption DEF Init, BoundInv
<1>2. Init => FlagInv BY Zenon DEF Init, FlagInv
<1>3. ShapeInv /\ BoundInv /\ FlagInv => TypeOK
  <2> SUFFICES ASSUME ShapeInv, BoundInv, FlagInv PROVE TypeOK
    OBVIOUS
  <2>1. \A r \in Routes : errors[r] \in BoundedSeq(Categories, ErrorsCap)
    BY BoundedSeqs, NotifyAssumption DEF ShapeInv, BoundInv
  <2>2. errCh \in BoundedSeq(Keys, ErrChCap)
    BY BoundedSeqs, NotifyAssumption DEF ShapeInv, BoundInv
  <2> QED BY <2>1, <2>2 DEF ShapeInv, BoundInv, FlagInv, TypeOK
<1>4. IInv => ShapeInv BY DEF IInv
<1>5. ShapeInv /\ BoundInv /\ [Next]_vars => BoundInv' BY StepBoundInv
<1> QED BY <1>1, <1>2, <1>3, <1>4, <1>5, StepFlagInv, Inductive, PTL DEF Spec

-----------------------------------------------------------------------------
\* A failure is never shown twice within the cooldown, whatever crashes and
\* reloads come in between, but after a save that failed (daemon.go:311-325,
\* state.go:43-91).
THEOREM Cooldowns == Spec => []CooldownKept
<1>1. IInv => CooldownKept
  BY NotifyAssumption DEF IInv, ShapeInv, KeptInv, Kept, CooldownKept, Ages
<1> QED BY <1>1, Inductive, PTL
=============================================================================
