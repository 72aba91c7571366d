------------------------------ MODULE MCReload ------------------------------
(* Instances of Reload for TLC; the .cfg files give the constants.           *)
EXTENDS Reload
=============================================================================
