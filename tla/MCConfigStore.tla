---------------------------- MODULE MCConfigStore -----------------------------
(***************************************************************************)
(* Bounds for ConfigStore: sequences modulo 4 and six saves, so that the   *)
(* sequence number wraps in between. Slots may refuse to answer at startup *)
(* as BootReadErrors says: never, or both at once.                         *)
(***************************************************************************)
EXTENDS ConfigStore

NoReadErrors == {{}}
BusDownAtBoot == {{}, {0, 1}}
=============================================================================
