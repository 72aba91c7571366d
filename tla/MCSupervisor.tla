---------------------------- MODULE MCSupervisor ----------------------------
(* Instances of Supervisor for TLC: the routes and users are model values    *)
(* given in the .cfg files.  The routes differ in having a -D port, so they  *)
(* are not symmetric.                                                        *)
EXTENDS Supervisor
=============================================================================
