----------------------------- MODULE MCLogging ------------------------------
(***************************************************************************)
(* Bounds for Logging. A queue of one record fills while one is out, so a  *)
(* requeue has to drop and event rows have to wait; two stops let a drain  *)
(* be overtaken; a date (and "not set") lets a file roll over.             *)
(***************************************************************************)
EXTENDS Logging
=============================================================================
