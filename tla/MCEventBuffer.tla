---------------------------- MODULE MCEventBuffer -----------------------------
(***************************************************************************)
(* Bounds for EventBuffer. A ring of two samples and three output rows (the*)
(* smallest the header's #if allows), so that the ring turns over while the*)
(* output is stuck and a new event finds the queue of the last one full; a *)
(* period of two ticks and rounds up to three ticks apart, so that a round *)
(* finds none, one or two rows due; two events, so that the flags of the   *)
(* second are raised while rows of the first still wait.                   *)
(***************************************************************************)
EXTENDS EventBuffer
=============================================================================
