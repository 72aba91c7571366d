------------------------------- MODULE Tunnel -------------------------------
(***************************************************************************)
(* What a route's Supervisor promises the daemon, with no goroutines,      *)
(* contexts or sockets: a connection is made only while the tunnel is      *)
(* wanted and only one at a time; a connection that is no longer wanted    *)
(* fades away in its own time, next to its successors; a closed route      *)
(* never connects again.                                                   *)
(***************************************************************************)
CONSTANTS
  Routes,
  Conns,   \* identities of connections
  None     \* no connection

VARIABLES
  want,    \* does the daemon want the route's tunnel up?
  closed,  \* the routes stopped for good
  active,  \* the connection that serves a wanted tunnel
  fading   \* connections not wanted any more

vars == <<want, closed, active, fading>>

Init ==
  /\ want = [r \in Routes |-> FALSE]
  /\ closed = {}
  /\ active = [r \in Routes |-> None]
  /\ fading = {}

Start(r) ==
  /\ r \notin closed
  /\ ~want[r]
  /\ want' = [want EXCEPT ![r] = TRUE]
  /\ UNCHANGED <<closed, active, fading>>

Cancel(r) ==
  /\ want[r]
  /\ want' = [want EXCEPT ![r] = FALSE]
  /\ active' = [active EXCEPT ![r] = None]
  /\ fading' = fading \cup ({active[r]} \ {None})
  /\ UNCHANGED closed

Connect(r, c) ==
  /\ want[r]
  /\ active[r] = None
  /\ c \notin fading
  /\ active' = [active EXCEPT ![r] = c]
  /\ UNCHANGED <<want, closed, fading>>

Lose(r) ==
  /\ active[r] # None
  /\ active' = [active EXCEPT ![r] = None]
  /\ UNCHANGED <<want, closed, fading>>

Fade(c) ==
  /\ c \in fading
  /\ fading' = fading \ {c}
  /\ UNCHANGED <<want, closed, active>>

Close(r) ==
  /\ ~want[r]
  /\ closed' = closed \cup {r}
  /\ UNCHANGED <<want, active, fading>>

Next ==
  \/ \E r \in Routes :
       Start(r) \/ Cancel(r) \/ Lose(r) \/ Close(r) \/ \E c \in Conns : Connect(r, c)
  \/ \E c \in Conns : Fade(c)

Spec == Init /\ [][Next]_vars
=============================================================================
