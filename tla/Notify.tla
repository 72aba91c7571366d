------------------------------- MODULE Notify -------------------------------
(***************************************************************************)
(* How a key or authentication failure that ssh reports becomes a desktop  *)
(* notification: scanStderr, forwardErrors and handleErrorCategory, with   *)
(* the cooldown per route and category that the state file carries over    *)
(* reloads and crashes.  Notifications are enabled in the config.          *)
(*                                                                         *)
(* A time is kept as its age, capped at Cooldown: how long ago it was.  A  *)
(* category that was never notified is as good as one whose cooldown has   *)
(* elapsed.  The clock does not jump.                                      *)
(***************************************************************************)
EXTENDS Naturals, Sequences, SequencesExt

CONSTANTS
  Routes,
  Categories,
  ErrorsCap,   \* capacity of a supervisor's Errors channel, 16 in the code
  ErrChCap,    \* capacity of errCh, 16 in the code
  Cooldown,    \* notify.cooldown
  MaxFaults,   \* bound: saves that fail
  Recv, Ended  \* states of a forwarder that holds nothing

ASSUME NotifyAssumption ==
  /\ ErrorsCap \in Nat \ {0} /\ ErrChCap \in Nat \ {0}
  /\ Cooldown \in Nat \ {0}
  /\ MaxFaults \in Nat
  /\ {Recv, Ended} \cap Categories = {} /\ Recv # Ended

Keys == Routes \X Categories   \* the category strings "route:category"
Ages == 0..Cooldown

VARIABLES
  pc,         \* the main goroutine: "over", "select", "save" or "send"
  ctxDone,    \* runCtx
  errors,     \* the Errors channel of each supervisor
  forwarder,  \* each forwardErrors: Recv, Ended, or the category it is sending
  errCh,
  current,    \* the key being handled
  notified,   \* st.Notifications in memory
  disk,       \* those in the state file
  bus,        \* is a session bus reachable?
  faults,
  shown,      \* history: the age of the failure last shown to the user
  unsaved     \* history: keys shown although their record was not saved

queueVars == <<errors, forwarder, errCh>>
stateVars == <<notified, disk, faults>>
history   == <<shown, unsaved>>
vars      == <<pc, ctxDone, queueVars, current, stateVars, bus, history>>

TypeOK ==
  /\ pc \in {"over", "select", "save", "send"}
  /\ {ctxDone, bus} \subseteq BOOLEAN
  /\ errors \in [Routes -> BoundedSeq(Categories, ErrorsCap)]
  /\ forwarder \in [Routes -> Categories \cup {Recv, Ended}]
  /\ errCh \in BoundedSeq(Keys, ErrChCap)
  /\ current \in Keys
  /\ {notified, disk, shown} \subseteq [Keys -> Ages]
  /\ faults \in 0..MaxFaults
  /\ unsaved \subseteq Keys

\* Before the daemon's first start: no state file yet.
Init ==
  /\ pc = "over"
  /\ ctxDone = FALSE
  /\ errors = [r \in Routes |-> <<>>]
  /\ forwarder = [r \in Routes |-> Ended]
  /\ errCh = <<>>
  /\ current \in Keys
  /\ notified = [k \in Keys |-> Cooldown]
  /\ disk = [k \in Keys |-> Cooldown]
  /\ bus \in BOOLEAN
  /\ faults = 0
  /\ shown = [k \in Keys |-> Cooldown]
  /\ unsaved = {}

-----------------------------------------------------------------------------
(* The environment.                                                         *)

Older(ages) == [k \in Keys |-> IF ages[k] < Cooldown THEN ages[k] + 1 ELSE Cooldown]

\* The unit is longer than what saving and sending one notification take.
Tick ==
  /\ pc \notin {"save", "send"}
  /\ notified' = Older(notified)
  /\ disk' = Older(disk)
  /\ shown' = Older(shown)
  /\ UNCHANGED <<pc, ctxDone, queueVars, current, bus, faults, unsaved>>

BusChanges ==
  /\ bus' = ~bus
  /\ UNCHANGED <<pc, ctxDone, queueVars, current, stateVars, history>>

\* A reload or a signal.
Cancel ==
  /\ pc # "over" /\ ~ctxDone
  /\ ctxDone' = TRUE
  /\ UNCHANGED <<pc, queueVars, current, stateVars, bus, history>>

\* The process is killed, at any point.
Crash ==
  /\ pc # "over"
  /\ pc' = "over"
  /\ errors' = [r \in Routes |-> <<>>]
  /\ forwarder' = [r \in Routes |-> Ended]
  /\ errCh' = <<>>
  /\ UNCHANGED <<ctxDone, current, stateVars, bus, history>>

\* state.Load: without a file, no category was ever notified.
Load == disk

\* Mutant: a new runOnce begins with an empty state.
StartAfresh ==
  /\ pc = "over"
  /\ \A r \in Routes : forwarder[r] = Ended
  /\ pc' = "select"
  /\ ctxDone' = FALSE
  /\ errors' = [r \in Routes |-> <<>>]
  /\ forwarder' = [r \in Routes |-> Recv]
  /\ errCh' = <<>>
  /\ notified' = [k \in Keys |-> Cooldown]
  /\ UNCHANGED <<current, disk, bus, faults, history>>

\* The next runOnce has channels and forwarders of its own and loads the state
\* file; the save at line 158 leaves what is modelled of it as it is.  The last
\* life's forwarders share nothing with it: their end may be put before it.
Start ==
  /\ pc = "over"
  /\ \A r \in Routes : forwarder[r] = Ended
  /\ pc' = "select"
  /\ ctxDone' = FALSE
  /\ errors' = [r \in Routes |-> <<>>]
  /\ forwarder' = [r \in Routes |-> Recv]
  /\ errCh' = <<>>
  /\ notified' = Load
  /\ UNCHANGED <<current, disk, bus, faults, history>>

-----------------------------------------------------------------------------
(* From ssh's stderr to the main goroutine.                                 *)

\* A line of a known category; it is dropped, a stutter, if the channel is full.
ScanLine(r, category) ==
  /\ pc # "over"
  /\ Len(errors[r]) < ErrorsCap
  /\ errors' = [errors EXCEPT ![r] = Append(@, category)]
  /\ UNCHANGED <<pc, ctxDone, forwarder, errCh, current, stateVars, bus, history>>

ForwarderReceives(r) ==
  /\ forwarder[r] = Recv
  /\ errors[r] # <<>>
  /\ forwarder' = [forwarder EXCEPT ![r] = Head(errors[r])]
  /\ errors' = [errors EXCEPT ![r] = Tail(@)]
  /\ UNCHANGED <<pc, ctxDone, errCh, current, stateVars, bus, history>>

ForwarderSends(r) ==
  /\ forwarder[r] \in Categories
  /\ Len(errCh) < ErrChCap
  /\ errCh' = Append(errCh, <<r, forwarder[r]>>)
  /\ forwarder' = [forwarder EXCEPT ![r] = Recv]
  /\ UNCHANGED <<pc, ctxDone, errors, current, stateVars, bus, history>>

\* Mutant: the send to errCh does not look at ctx.
ForwarderEndsReceiving(r) ==
  /\ forwarder[r] = Recv
  /\ ctxDone
  /\ forwarder' = [forwarder EXCEPT ![r] = Ended]
  /\ UNCHANGED <<pc, ctxDone, errors, errCh, current, stateVars, bus, history>>

\* Both selects have a case for ctx.Done.
ForwarderEnds(r) ==
  /\ forwarder[r] # Ended
  /\ ctxDone
  /\ forwarder' = [forwarder EXCEPT ![r] = Ended]
  /\ UNCHANGED <<pc, ctxDone, errors, errCh, current, stateVars, bus, history>>

-----------------------------------------------------------------------------
(* The main goroutine: the errCh case of its select, handleErrorCategory.   *)

ShouldNotify(k) == notified[k] = Cooldown

RecordNotified(k) == notified' = [notified EXCEPT ![k] = 0]

\* Mutant: a failure that is not notified starts the cooldown again.
RecvErrorExtends ==
  /\ pc = "select" /\ errCh # <<>>
  /\ errCh' = Tail(errCh)
  /\ current' = Head(errCh)
  /\ RecordNotified(Head(errCh))
  /\ pc' = IF ShouldNotify(Head(errCh)) THEN "save" ELSE "select"
  /\ UNCHANGED <<ctxDone, errors, forwarder, disk, faults, bus, history>>

RecvError ==
  /\ pc = "select" /\ errCh # <<>>
  /\ errCh' = Tail(errCh)
  /\ current' = Head(errCh)
  /\ IF ShouldNotify(Head(errCh))
       THEN RecordNotified(Head(errCh)) /\ pc' = "save"
       ELSE UNCHANGED <<notified, pc>>
  /\ UNCHANGED <<ctxDone, errors, forwarder, disk, faults, bus, history>>

\* state.Save replaces the file by a rename, or fails and leaves it alone.
SaveState ==
  \/ disk' = notified /\ UNCHANGED faults
  \/ faults < MaxFaults /\ faults' = faults + 1 /\ UNCHANGED disk

Save ==
  /\ pc = "save"
  /\ pc' = "send"
  /\ SaveState
  /\ UNCHANGED <<ctxDone, queueVars, current, notified, bus, history>>

\* notify.Send: without a session bus nothing is shown, and that is all.
Send ==
  /\ pc = "send"
  /\ pc' = "select"
  /\ IF bus
       THEN /\ shown' = [shown EXCEPT ![current] = notified[current]]
            /\ unsaved' = IF disk[current] = notified[current]
                            THEN unsaved \ {current} ELSE unsaved \cup {current}
       ELSE UNCHANGED history
  /\ UNCHANGED <<ctxDone, queueVars, current, stateVars, bus>>

\* ctx.Done: runOnce shuts everything down, saves the state and returns.
RecvDone ==
  /\ pc = "select" /\ ctxDone
  /\ pc' = "over"
  /\ SaveState
  /\ UNCHANGED <<ctxDone, queueVars, current, notified, bus, history>>

-----------------------------------------------------------------------------
Main == RecvError \/ Save \/ Send \/ RecvDone

Forwarder(r) == ForwarderReceives(r) \/ ForwarderSends(r) \/ ForwarderEnds(r)

Next ==
  \/ Tick \/ BusChanges \/ Cancel \/ Crash \/ Start \/ Main
  \/ \E r \in Routes : Forwarder(r) \/ \E c \in Categories : ScanLine(r, c)

Spec == Init /\ [][Next]_vars

\* The goroutines run and time passes; of select's ready cases each is taken in
\* the end, and a full channel serves its blocked senders in their order.
\* Nothing is assumed of ssh, the bus, the user or the crashes.
Fairness ==
  /\ WF_vars(Main) /\ SF_vars(RecvDone) /\ WF_vars(Tick)
  /\ \A r \in Routes : WF_vars(Forwarder(r)) /\ SF_vars(ForwarderSends(r))

FairSpec == Spec /\ Fairness
-----------------------------------------------------------------------------
(* Properties.                                                              *)

\* A failure is shown again only after the cooldown, over any number of
\* reloads and crashes between any two steps, unless the record of the last
\* one could not be saved.
CooldownKept ==
  pc = "send" /\ shown[current] < Cooldown => current \in unsaved

Queued(k) == \E i \in 1..Len(errors[k[1]]) : errors[k[1]][i] = k[2]

\* A failure that goes on is shown again and again, no other failure's
\* cooldown nor a time without a session bus suppressing it for good, in a
\* daemon that stays up with a bus.
PersistentFailureShown ==
  \A k \in Keys :
    <>[](pc # "over" /\ ~ctxDone /\ bus) /\ []<>Queued(k) => []<>(shown[k] < Cooldown)

\* No forwarder outlives its runOnce, whatever it was doing when the main
\* goroutine stopped to receive: none is left behind by a reload.
ForwardersEnd ==
  ctxDone ~> \A r \in Routes : forwarder[r] = Ended
=============================================================================
