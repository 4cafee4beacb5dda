---------------------------- MODULE MCEventMarker -----------------------------
(***************************************************************************)
(* Bounds for EventMarker. Three events: one can be saved, one under way   *)
(* and one be open, with a reset at any point between.                     *)
(***************************************************************************)
EXTENDS EventMarker
=============================================================================
