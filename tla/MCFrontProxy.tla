---------------------------- MODULE MCFrontProxy ----------------------------
(* Instances of FrontProxy for TLC; the .cfg files give the constants.       *)
EXTENDS FrontProxy
=============================================================================
