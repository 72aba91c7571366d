------------------------------ MODULE MCNotify ------------------------------
(* Instances of Notify for TLC; the .cfg files give the constants.           *)
EXTENDS Notify
=============================================================================
