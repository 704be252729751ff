---------------------------- MODULE MCSupervisor ----------------------------
(* TLC instances of Supervisor: every value is given in the .cfg files.    *)
EXTENDS Supervisor
=============================================================================
