------------------------------ MODULE Backoff ------------------------------
(***************************************************************************)
(* The reconnect delay: nextDelay of internal/tunnel/backoff.go, computed  *)
(* in integers of Width bits that wrap, and the attempt counter that run   *)
(* keeps for it.  Durations are in an abstract unit.                       *)
(***************************************************************************)
EXTENDS Integers

CONSTANTS
  Width,       \* bits of a time.Duration, 64 in the code
  ShiftCap,    \* the largest shift, 20 in the code
  Second,      \* the default base
  Bases, Maxs, \* the backoff.base and backoff.max a config may have
  MaxAttempt   \* bound: quick failures in a row

ASSUME BackoffAssumption ==
  /\ Width \in Nat \ {0} /\ ShiftCap \in Nat /\ MaxAttempt \in Nat
  /\ \A i \in 0..ShiftCap \cup {Width - 1} : 2 ^ i \in Nat \ {0}
  /\ \A i \in 0..ShiftCap : 2 ^ i <= 2 ^ ShiftCap
  /\ Second \in Nat \ {0}
  /\ Bases \subseteq Int /\ Maxs \subseteq Int

VARIABLES
  base, max,  \* the config
  attempt,
  delay       \* the delay chosen last, 0 before the first

backoffVars == <<base, max, attempt, delay>>

wrap(n) == LET half == 2 ^ (Width - 1) IN ((n + half) % (2 * half)) - half

Base == IF base <= 0 THEN Second ELSE base
Max  == IF max <= 0 THEN Base ELSE max

Shift(n) == IF n > ShiftCap THEN ShiftCap ELSE n

\* Mutant: an overflow to zero or below is not caught.
RawUnchecked(n) ==
  LET raw == wrap(Base * 2 ^ Shift(n)) IN IF raw > Max THEN Max ELSE raw

\* Mutant: the shift is not capped, the bits of base are lost.
RawUncapped(n) ==
  LET raw == wrap(Base * 2 ^ (n % Width)) IN IF raw > Max \/ raw <= 0 THEN Max ELSE raw

Raw(n) ==
  LET raw == wrap(Base * 2 ^ Shift(n)) IN IF raw > Max \/ raw <= 0 THEN Max ELSE raw

\* Mutant: the jitter is added to the whole delay.
nextDelaysOnTop(n) == Raw(n) .. Raw(n) + Raw(n) \div 2

\* Every value nextDelay(n) may return: half is fixed, half is random.
nextDelays(n) ==
  LET half == Raw(n) \div 2 IN
  IF half <= 0 THEN {Raw(n)} ELSE half .. half + half

BackoffInit ==
  /\ base \in Bases /\ max \in Maxs
  /\ attempt = 0
  /\ delay = 0

\* runOnce returned after less, or more, than stabilityThreshold.
Fail ==
  /\ attempt < MaxAttempt
  /\ attempt' = attempt + 1
  /\ delay' \in nextDelays(attempt')
  /\ UNCHANGED <<base, max>>

FailStable ==
  /\ attempt' = 0
  /\ delay' \in nextDelays(attempt')
  /\ UNCHANGED <<base, max>>

BackoffNext == Fail \/ FailStable

BackoffSpec == BackoffInit /\ [][BackoffNext]_backoffVars
-----------------------------------------------------------------------------
BackoffTypeOK ==
  /\ base \in Bases /\ max \in Maxs
  /\ attempt \in 0..MaxAttempt
  /\ delay \in Nat

\* Whatever the config and however the product wraps, a reconnect is delayed
\* by some positive time of at most backoff.max: no busy loop, no endless wait.
DelayBounds == delay # 0 => delay \in 1..Max

\* The delay is half to all of what exact arithmetic gives: base doubled with
\* every quick failure in a row, up to backoff.max.
CappedExponential ==
  LET exact == Base * 2 ^ Shift(attempt)
      ideal == IF exact > Max THEN Max ELSE exact
  IN delay # 0 => 2 * delay \in ideal - 1 .. 2 * ideal
=============================================================================
