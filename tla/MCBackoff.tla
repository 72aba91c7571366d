----------------------------- MODULE MCBackoff -----------------------------
(* Instance of Backoff for TLC: 8 bits, shifts up to 4.  The bases up to 7   *)
(* never overflow, as bases below 2^43 ns (2.4 h) do not in the code; those  *)
(* from 8 on are powers of two, whose product wraps to zero or below.        *)
EXTENDS Backoff

MCBases == {-1, 0, 1, 2, 3, 7, 8, 16, 64}
MCMaxs  == {-1, 0, 1, 2, 5, 20, 100}
=============================================================================
