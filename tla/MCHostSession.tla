---------------------------- MODULE MCHostSession ----------------------------
(***************************************************************************)
(* Bounds for HostSession: everything the user can ask for, and for the    *)
(* liveness run the operations that open a session and change the run.     *)
(***************************************************************************)
EXTENDS HostSession

MCAllClicks == User
MCRunClicks == {"connect", "start_periodic", "stop_periodic"}
=============================================================================
