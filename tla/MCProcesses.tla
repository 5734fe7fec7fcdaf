---------------------------- MODULE MCProcesses ----------------------------
(* launchd and two more slots for three more processes, so that a slot is  *)
(* used again.                                                             *)
EXTENDS Processes
=============================================================================
